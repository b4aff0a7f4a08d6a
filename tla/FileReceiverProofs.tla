------------------------- MODULE FileReceiverProofs -------------------------
(***************************************************************************)
(* The invariants of FileReceiver, for every size of the buffer and of the *)
(* chunks.  RecvInv is inductive: the type invariant, because the chunk    *)
(* handlers add lengths and index the buffer, with the relations between   *)
(* pointer, rest, buffer and history the single invariants state.          *)
(***************************************************************************)
EXTENDS FileReceiver, SequenceTheorems, TLAPS

RecvInv ==
  /\ RecvTypeOK
  /\ SessionHasBuffer
  /\ RestFits
  /\ SessionInMemory
  /\ PointerAtEnd

RecvProps == RecvInv /\ OutIsSession

USE DEF NULL, TailRec, HdrRegs

\* A payload is a sequence of registers of text, no longer than MaxCount.
LEMMA PayloadType ==
  ASSUME NEW regs \in Payloads
  PROVE  regs \in Seq(Word) /\ Len(regs) \in Nat
BY ReceiverAssumption DEF Payloads

\* The loop of the data handler stores as many registers as the chunk has
\* and the session takes; it stops early only with less than two bytes left.
LEMMA StoredBounds ==
  ASSUME NEW regs \in Seq(Word), recv_buf_rest \in Nat
  PROVE  /\ Stored(regs) \in 0..Len(regs)
         /\ 2 * Stored(regs) <= recv_buf_rest
         /\ Stored(regs) # Len(regs) => recv_buf_rest - 2 * Stored(regs) < 2
BY DEF Stored

\* Refusing a chunk before anything was touched keeps the invariant.
LEMMA RefuseInv ==
  ASSUME RecvInv, Refuse
  PROVE  RecvProps'
BY DEF RecvInv, RecvProps, Refuse, RecvTypeOK, SessionHasBuffer, RestFits,
       SessionInMemory, PointerAtEnd, OutIsSession, Open, ctx, history

\* A HEAD chunk that is accepted opens an empty session within the buffer.
LEMMA HeadChunkInv ==
  ASSUME RecvInv, NEW count \in Nat, NEW hdr \in [total_len : Nat, n_chunks : Nat],
         HeadChunk(count, hdr)
  PROVE  RecvProps'
<1>1. CASE Refuse
  BY <1>1, RefuseInv
<1>2. CASE OpenSession(hdr.total_len) /\ hdr.total_len <= 2 * BufRegs
  BY <1>2, ReceiverAssumption
  DEF RecvInv, RecvProps, OpenSession, RecvTypeOK, SessionHasBuffer,
      RestFits, SessionInMemory, PointerAtEnd, OutIsSession, Open
<1>3. hdr.total_len > 2 * BufRegs \/ hdr.total_len <= 2 * BufRegs
  BY ReceiverAssumption
<1> QED
  BY <1>1, <1>2, <1>3 DEF HeadChunk

\* Storing the first n registers of a chunk extends what the buffer holds.
LEMMA DataChunkInv ==
  ASSUME RecvInv, NEW regs \in Seq(Word), DataChunk(regs)
  PROVE  RecvProps'
<1> DEFINE n == Stored(regs)
<1>1. CASE Refuse
  BY <1>1, RefuseInv
<1>2. CASE /\ recv_buf_ptr # NULL
           /\ StoreRegisters(regs, n)
           /\ IF n = Len(regs)
              THEN recv_buf_ptr' = recv_buf_ptr + Len(regs) /\ ret' = "NONE"
              ELSE UNCHANGED recv_buf_ptr /\ ret' = "INVALID_REQUEST"
  <2>1. RecvTypeOK /\ SessionHasBuffer /\ RestFits /\ SessionInMemory
          /\ PointerAtEnd /\ Open
    BY <1>2 DEF RecvInv, Open
  <2>2. /\ n \in 0..Len(regs) /\ 2 * n <= recv_buf_rest
        /\ n # Len(regs) => recv_buf_rest - 2 * n < 2
    BY <2>1, StoredBounds DEF RecvTypeOK
  <2> HIDE DEF n
  <2>3. /\ recv_buf_ptr \in Nat /\ recv_buf_rest \in Nat /\ total \in Nat
        /\ Len(regs) \in Nat /\ n \in Nat
        /\ taken \in Seq(Word) /\ Len(taken) \in Nat
        /\ 2 * recv_buf_ptr + recv_buf_rest <= 2 * BufRegs
        /\ 2 * Len(taken) + recv_buf_rest = total
        /\ \/ recv_buf_ptr = Len(taken)
           \/ recv_buf_ptr < Len(taken) /\ recv_buf_rest < 2
    BY <2>1, <2>2 DEF RecvTypeOK, Open, RestFits, SessionInMemory, PointerAtEnd
  <2>4. n = 0 \/ recv_buf_ptr = Len(taken)
    BY <2>2, <2>3
  <2>5. /\ recv_buf_rest' = recv_buf_rest - 2 * n /\ recv_buf_rest' \in Nat
        /\ total' = total
    BY <1>2, <2>2, <2>3 DEF StoreRegisters
  <2>6. \/ n = Len(regs) /\ recv_buf_ptr' = recv_buf_ptr + n
        \/ recv_buf_ptr' = recv_buf_ptr /\ recv_buf_rest' < 2
    BY <1>2, <2>2, <2>5
  <2>7. recv_buf_ptr' \in Nat /\ Open'
    BY <2>3, <2>6 DEF Open
  <2>8. /\ taken' \in Seq(Word)
        /\ Len(taken') = Len(taken) + n
        /\ \A i \in 1..Len(taken) + n :
             taken'[i] = IF i <= Len(taken) THEN taken[i]
                                            ELSE regs[i - Len(taken)]
    <3> DEFINE s == SubSeq(regs, 1, n)
    <3>1. /\ s \in Seq(Word) /\ Len(s) = n
          /\ \A i \in 1..n : s[i] = regs[i]
      BY <2>2, <2>3
    <3> HIDE DEF s
    <3>2. taken' = taken \o s
      BY <1>2 DEF StoreRegisters, s
    <3>3. /\ taken \o s \in Seq(Word) /\ Len(taken \o s) = Len(taken) + Len(s)
          /\ \A i \in 1..Len(taken) + Len(s) :
               (taken \o s)[i] = IF i <= Len(taken) THEN taken[i]
                                                    ELSE s[i - Len(taken)]
      BY <2>3, <3>1, ConcatProperties
    <3> QED
      BY <2>3, <3>1, <3>2, <3>3
  <2>9. Len(taken') = Len(taken) + n
    BY <2>8
  <2>10. RecvTypeOK'
    <3>1. mem' \in [0..BufRegs - 1 -> Word \cup {Zero}]
      <4>1. ASSUME NEW i \in 0..BufRegs - 1,
                   i \in recv_buf_ptr .. recv_buf_ptr + n - 1
            PROVE  regs[i - recv_buf_ptr + 1] \in Word
        BY <2>2, <2>3, <4>1
      <4> QED
        BY <1>2, <2>1, <4>1 DEF StoreRegisters, RecvTypeOK
    <3> QED
      BY <1>2, <2>1, <2>5, <2>7, <2>8, <3>1 DEF StoreRegisters, RecvTypeOK
  <2>11. SessionHasBuffer'
    BY <1>2, <2>1, <2>7 DEF StoreRegisters, SessionHasBuffer
  <2>12. RestFits'
    BY <2>2, <2>3, <2>5, <2>6, ReceiverAssumption DEF RestFits
  <2>13. SessionInMemory'
    <3>1. 2 * Len(taken') + recv_buf_rest' = total'
      BY <2>3, <2>5, <2>9
    <3>2. Len(taken') <= BufRegs
      <4>1. Len(taken) <= BufRegs
        BY <2>1 DEF SessionInMemory
      <4> QED
        BY <2>2, <2>3, <2>4, <2>9, <4>1, ReceiverAssumption
    <3>3. ASSUME NEW i \in 1..Len(taken')
          PROVE  mem'[i - 1] = taken'[i]
      <4>1. /\ i - 1 \in DOMAIN mem /\ i \in 1..Len(taken) + n
            /\ i <= Len(taken) => mem[i - 1] = taken[i]
        BY <2>1, <2>3, <2>9, <3>2, ReceiverAssumption
        DEF RecvTypeOK, SessionInMemory
      <4>2. mem'[i - 1] = IF i - 1 \in recv_buf_ptr .. recv_buf_ptr + n - 1
                          THEN regs[(i - 1) - recv_buf_ptr + 1] ELSE mem[i - 1]
        BY <1>2, <4>1 DEF StoreRegisters
      <4>3. taken'[i] = IF i <= Len(taken) THEN taken[i]
                                           ELSE regs[i - Len(taken)]
        BY <2>8, <4>1
      <4>4. CASE i <= Len(taken)
        <5>1. i - 1 \notin recv_buf_ptr .. recv_buf_ptr + n - 1
          BY <2>3, <2>4, <4>1, <4>4
        <5> QED
          BY <4>1, <4>2, <4>3, <4>4, <5>1
      <4>5. CASE ~(i <= Len(taken))
        <5>1. /\ i - 1 \in recv_buf_ptr .. recv_buf_ptr + n - 1
              /\ (i - 1) - recv_buf_ptr + 1 = i - Len(taken)
          BY <2>3, <2>4, <4>1, <4>5
        <5> QED
          BY <4>2, <4>3, <4>5, <5>1
      <4> QED
        BY <4>4, <4>5
    <3> QED
      BY <3>1, <3>2, <3>3 DEF SessionInMemory
  <2>14. PointerAtEnd'
    BY <2>2, <2>3, <2>4, <2>5, <2>6, <2>9 DEF PointerAtEnd
  <2>15. OutIsSession'
    BY <1>2 DEF StoreRegisters, OutIsSession
  <2> QED
    BY <2>10, <2>11, <2>12, <2>13, <2>14, <2>15 DEF RecvInv, RecvProps
<1> QED
  BY <1>1, <1>2 DEF DataChunk

\* What the tail handler may print has the whole session at its beginning:
\* no register of text is a NUL, so the string ends behind them.
LEMMA PrintedBegins ==
  ASSUME RecvTypeOK, SessionInMemory, Open, NEW t \in PrintedTexts
  PROVE  t \in Seq(Word \cup {Junk}) /\ BeginsWith(t, taken)
<1>1. PICK n \in StrLens : t = Text(n) \/ (n = BufRegs /\ t = Append(Text(n), Junk))
  BY DEF PrintedTexts
<1>2. /\ n \in 0..BufRegs /\ \A i \in 0..n - 1 : mem[i] # Zero
      /\ n < BufRegs => mem[n] = Zero
  BY <1>1 DEF StrLens
<1>3. Text(n) \in Seq(Word) /\ Len(Text(n)) = n
  <2>1. \A i \in 1..n : mem[i - 1] \in Word
    BY <1>2, ReceiverAssumption DEF RecvTypeOK
  <2> QED
    BY <1>2, <2>1, ReceiverAssumption DEF Text
<1>4. Len(taken) <= n
  <2>1. ASSUME n < Len(taken) PROVE FALSE
    <3>1. n + 1 \in 1..Len(taken) /\ n < BufRegs
      BY <1>2, <2>1, ReceiverAssumption DEF RecvTypeOK, SessionInMemory
    <3>2. mem[n] = taken[n + 1]
      <4>1. mem[(n + 1) - 1] = taken[n + 1]
        BY <3>1 DEF SessionInMemory
      <4> QED
        BY <1>2, <4>1, ReceiverAssumption
    <3>3. taken[n + 1] \in Word
      BY <3>1 DEF RecvTypeOK
    <3> QED
      BY <1>2, <3>1, <3>2, <3>3, ReceiverAssumption
  <2> QED
    BY <1>2, <2>1, ReceiverAssumption DEF RecvTypeOK
<1>5. t \in Seq(Word \cup {Junk}) /\ Len(t) >= n /\ \A i \in 1..n : t[i] = mem[i - 1]
  <2> DEFINE s == Text(n)
  <2>1. \A i \in 1..n : s[i] = mem[i - 1]
    BY DEF Text
  <2>2. s \in Seq(Word \cup {Junk}) /\ Len(s) = n /\ n \in Nat
    BY <1>2, <1>3, ReceiverAssumption
  <2>3. t = s \/ t = Append(s, Junk)
    BY <1>1
  <2> HIDE DEF s
  <2>4. CASE t = s
    BY <2>1, <2>2, <2>4
  <2>5. CASE t = Append(s, Junk)
    BY <2>1, <2>2, <2>5, AppendProperties
  <2> QED
    BY <2>3, <2>4, <2>5
<1>6. SubSeq(t, 1, Len(taken)) = taken
  BY <1>2, <1>4, <1>5, ReceiverAssumption DEF RecvTypeOK, SessionInMemory
<1> QED
  BY <1>2, <1>4, <1>5, <1>6, ReceiverAssumption DEF BeginsWith, RecvTypeOK

\* A TAIL chunk closes the session, and prints only a complete one.
LEMMA TailChunkInv ==
  ASSUME RecvInv, TailChunk
  PROVE  RecvProps'
<1>1. RecvInv'
  <2>1. out' \subseteq Seq(Word \cup {Junk})
    BY PrintedBegins DEF RecvInv, TailChunk, Open
  <2> QED
    BY <2>1 DEF RecvInv, TailChunk, RecvTypeOK, SessionHasBuffer, RestFits,
       SessionInMemory, PointerAtEnd, Open, history
<1>2. ASSUME NEW t \in out' PROVE (BeginsWith(t, taken) /\ 2 * Len(taken) = total)'
  <2>1. Open /\ recv_buf_rest = 0 /\ t \in PrintedTexts /\ UNCHANGED history
    BY <1>2 DEF TailChunk, Open
  <2>2. BeginsWith(t, taken)
    BY <2>1, PrintedBegins DEF RecvInv
  <2>3. 2 * Len(taken) = total
    BY <2>1 DEF RecvInv, SessionInMemory, RecvTypeOK
  <2> QED
    BY <2>1, <2>2, <2>3 DEF history, BeginsWith
<1> QED
  BY <1>1, <1>2 DEF RecvProps, OutIsSession

\* One call of the FC 21 callback preserves all of it.
LEMMA CallbackInv ==
  ASSUME RecvInv, NEW record_number \in Nat, NEW regs \in Seq(Word),
         NEW hdr \in [total_len : Nat, n_chunks : Nat],
         server_write_file_record(record_number, regs, hdr)
  PROVE  RecvProps'
<1>1. Len(regs) \in Nat
  OBVIOUS
<1> QED
  BY <1>1, RefuseInv, HeadChunkInv, DataChunkInv, TailChunkInv
  DEF server_write_file_record

LEMMA ResetInv ==
  ASSUME RecvInv, Reset
  PROVE  RecvProps'
BY ReceiverAssumption
DEF RecvInv, RecvProps, Reset, RecvTypeOK, SessionHasBuffer, RestFits,
    SessionInMemory, PointerAtEnd, OutIsSession, Open, history

LEMMA RecvInitInv == RecvInit => RecvProps
BY ReceiverAssumption
DEF RecvInit, RecvInv, RecvProps, RecvTypeOK, SessionHasBuffer, RestFits,
    SessionInMemory, PointerAtEnd, OutIsSession, Open

\* Every behaviour of the receiver keeps the invariant, and what it prints is
\* a complete session.
THEOREM ReceiverSafe == RecvSpec => []RecvProps
<1>1. RecvProps /\ [RecvNext]_recvVars => RecvProps'
  <2> SUFFICES ASSUME RecvProps, [RecvNext]_recvVars PROVE RecvProps'
    OBVIOUS
  <2>1. CASE RecvNext
    <3>1. ASSUME NEW record_number \in 0..TailRec + 1, NEW regs \in Payloads,
                 NEW hdr \in Headers,
                 server_write_file_record(record_number, regs, hdr)
          PROVE  RecvProps'
      <4>1. record_number \in Nat
        BY ReceiverAssumption
      <4>2. hdr \in [total_len : Nat, n_chunks : Nat]
        <5>1. TotalLens \subseteq Nat /\ ChunkCounts \subseteq Nat
          BY ReceiverAssumption
        <5> QED
          BY <5>1 DEF Headers
      <4> QED
        BY <3>1, <4>1, <4>2, PayloadType, CallbackInv DEF RecvProps
    <3> QED
      BY <2>1, <3>1, ResetInv DEF RecvNext, RecvProps
  <2>2. CASE UNCHANGED recvVars
    BY <2>2 DEF RecvInv, RecvProps, recvVars, ctx, history, RecvTypeOK,
       SessionHasBuffer, RestFits, SessionInMemory, PointerAtEnd,
       OutIsSession, Open, BeginsWith
  <2> QED
    BY <2>1, <2>2
<1> QED
  BY <1>1, RecvInitInv, PTL DEF RecvSpec

\* Types: port.c:5-14.
THEOREM ReceiverTypes == RecvSpec => []RecvTypeOK
BY ReceiverSafe, PTL DEF RecvProps, RecvInv

\* Only a session expects bytes, and no DATA chunk stores behind the static buffer
\* (port.c:203-211), for every
\* sequence of chunks and every buffer size.
THEOREM ReceiverWithinBuffer == RecvSpec => []WithinBuffer
<1>1. RecvProps => WithinBuffer
  BY DEF RecvProps, RecvInv, WithinBuffer
<1> QED
  BY <1>1, ReceiverSafe, PTL

\* A partly stored, refused chunk leaves the buffer consistent with the
\* bytes still expected (port.c:203-212).
THEOREM ReceiverSessionInMemory == RecvSpec => []SessionInMemory
BY ReceiverSafe, PTL DEF RecvProps, RecvInv

\* The pointer stands behind what was stored, or as far behind as a partly stored,
\* refused chunk leaves it (port.c:203-212).
THEOREM ReceiverPointerAtEnd == RecvSpec => []PointerAtEnd
BY ReceiverSafe, PTL DEF RecvProps, RecvInv

\* While bytes are expected there is a buffer to store them in, in any order of
\* HEAD, DATA and TAIL (port.c:121-148, 196, 176-180).
THEOREM ReceiverSessionHasBuffer == RecvSpec => []SessionHasBuffer
BY ReceiverSafe, PTL DEF RecvProps, RecvInv

\* What the tail handler passes on starts with everything that was stored,
\* and that is as long as HEAD announced (port.c:159-173).
THEOREM ReceiverOutIsSession == RecvSpec => []OutIsSession
BY ReceiverSafe, PTL DEF RecvProps
=============================================================================
