----------------------- MODULE WriteFileRecordProofs -----------------------
(***************************************************************************)
(* Proofs about WriteFileRecord, for every limit, every memory smaller     *)
(* than the range of size, and every content of it.                        *)
(***************************************************************************)
EXTENDS WriteFileRecord, TLAPS

(***************************************************************************)
(* The inductive invariant.  The two counters of a pass always add up to   *)
(* the end of the request (or, after a wrap, to that plus SizeMod); the    *)
(* sub-requests that passed lie behind one another; and the second pass is *)
(* always at one of them, with the earlier ones executed.                  *)
(***************************************************************************)
Passed ==
  \A i \in checked :
     /\ header[i] \in Headers /\ HeaderPasses(header[i])
     /\ i + HeaderSize <= Mem

Apart == \A i, j \in checked : i < j => i + Span(header[i]) <= j

Wrapped == \E i \in checked : i + Span(header[i]) > request_size

Quiet == executed = {} /\ swapped = {} /\ reply = "none"

Checking ==
  /\ Quiet
  /\ request_size \in HeaderSize..MaxRequest /\ size >= HeaderSize
  /\ checked = {} => idx = 0
  /\ checked # {} => 0 \in checked
  /\ \A i \in checked : i + Span(header[i]) \in checked \cup {idx} /\ i + Span(header[i]) <= idx
  /\ idx + size = request_size \/ (Wrapped /\ idx + size = request_size + SizeMod)

Before(n) == {i \in checked : i < n}

Executing ==
  /\ reply = "none" /\ swapped = {}
  /\ Tiles(checked)
  /\ \A i \in checked : i + Span(header[i]) <= request_size
  /\ idx \in checked /\ idx + size = request_size
  /\ executed = Before(idx) /\ (callback \/ executed = {})

\* A fault in the second pass: a checked request, executed up to the index.
Halfway ==
  /\ Tiles(checked) /\ \A i \in checked : i + Span(header[i]) <= request_size
  /\ executed = Before(idx)

Done ==
  /\ executed # {} => Tiles(checked) /\ \A i \in checked : i + Span(header[i]) <= request_size
  /\ executed = checked \/ (idx \in checked /\ executed = Before(idx)) \/ executed = {}
  /\ ReplyTellsOutcome

FileRecordInv ==
  /\ WriteFileRecordTypeOK /\ Passed /\ Apart
  /\ pc = "received" => Quiet /\ checked = {}
  /\ pc = "check" => Checking
  /\ pc = "execute" => Executing
  /\ pc = "done" => Done
  /\ pc = "fault" => executed = {} \/ Halfway

-----------------------------------------------------------------------------
\* The numbers behind the constants.
LEMMA Limits ==
  /\ HeaderSize \in Nat /\ HeaderSize > 0 /\ MaxRecord \in Nat /\ MaxLength \in Nat
  /\ MaxRequest \in Nat /\ SizeMod \in Nat /\ Mem \in Nat
  /\ MaxRequest + 2 < Mem /\ Mem + HeaderSize + 2 * MaxLength < SizeMod
  /\ Headers \subseteq [type : 0..255, file : Nat, record : Nat, length : Nat]
BY WriteFileRecordAssumption DEF WriteFileRecordAssumption

LEMMA NoneBelowItself == \A m, n \in Nat : m < n => m # n
OBVIOUS

\* No header is unread, and its span is a number of bytes.
LEMMA SpanType ==
  ASSUME NEW h \in Headers
  PROVE  h # Unread /\ Span(h) \in Nat /\ Span(h) >= HeaderSize /\ h.length \in Nat
<1>1. h \in [type : 0..255, file : Nat, record : Nat, length : Nat]
  BY Limits
<1>2. h.length \in Nat /\ h.type # 256
  BY <1>1
<1>3. QED
  BY <1>2, Limits DEF Span, Unread

\* A sub-request that passes the checks is not longer than the limit.
LEMMA SpanBound ==
  ASSUME NEW h \in Headers, HeaderPasses(h)
  PROVE  Span(h) <= HeaderSize + 2 * MaxLength
BY SpanType, Limits DEF HeaderPasses, Span

\* What is left: a difference, wrapped at most once.
LEMMA LeftValue ==
  ASSUME NEW h \in Headers, HeaderPasses(h), size \in 0..(SizeMod - 1)
  PROVE  /\ Left(h) \in 0..(SizeMod - 1)
         /\ Span(h) <= size => Left(h) = size - Span(h)
         /\ size < Span(h) => Left(h) = size - Span(h) + SizeMod
<1> DEFINE d == size - Span(h)
<1>1. d \in Int /\ SizeMod \in Nat \ {0} /\ d < SizeMod /\ -SizeMod <= d
  BY SpanType, SpanBound, Limits
<1>2. Left(h) = d % SizeMod
  BY DEF Left
<1> HIDE DEF d
<1>3. d % SizeMod \in 0..(SizeMod - 1)
  BY <1>1
<1>4. 0 <= d => d % SizeMod = d
  BY <1>1
<1>5. d < 0 => d % SizeMod = d + SizeMod
  BY <1>1
<1>6. QED
  BY <1>1, <1>2, <1>3, <1>4, <1>5, SpanType, Limits DEF d

\* Reading a header fills in one place of the memory.
LEMMA ReadHeaderType ==
  ASSUME WriteFileRecordTypeOK, NEW h \in Headers, ReadHeader(h)
  PROVE  /\ idx \in 0..Mem
         /\ header' \in [0..Mem -> Headers \cup {Unread}]
         /\ header'[idx] = h
         /\ \A i \in 0..Mem : i # idx => header'[i] = header[i]
         /\ header[idx] # Unread => header' = header /\ h = header[idx]
<1>1. idx \in 0..Mem /\ header \in [0..Mem -> Headers \cup {Unread}]
  BY Limits DEF WriteFileRecordTypeOK, ReadHeader
<1>2. header' = [header EXCEPT ![idx] = h] /\ header[idx] \in {Unread, h}
  BY DEF ReadHeader
<1>3. QED
  BY <1>1, <1>2

-----------------------------------------------------------------------------
LEMMA FileRecordInitially == Init => FileRecordInv
<1> SUFFICES ASSUME Init PROVE FileRecordInv
  OBVIOUS
<1>1. WriteFileRecordTypeOK
  BY Limits DEF Init, WriteFileRecordTypeOK, Exceptions
<1>2. QED
  BY <1>1 DEF Init, FileRecordInv, Passed, Apart, Quiet

LEMMA ReceiveInv ==
  ASSUME FileRecordInv, Receive
  PROVE  FileRecordInv'
<1>1. Quiet /\ checked = {} /\ WriteFileRecordTypeOK
  BY DEF FileRecordInv, Receive
<1>2. checked' = {} /\ executed' = {} /\ swapped' = {} /\ request_size' = request_size
  BY <1>1 DEF Receive, Quiet
<1>3. CASE request_size > MaxRequest /\ Return("none") /\ UNCHANGED <<size, idx>>
  <2>1. WriteFileRecordTypeOK'
    BY <1>1, <1>3 DEF WriteFileRecordTypeOK, Receive, Return
  <2>2. Done'
    BY <1>2, <1>3 DEF Done, ReplyTellsOutcome, Return
  <2>3. QED
    BY <1>2, <1>3, <2>1, <2>2 DEF FileRecordInv, Passed, Apart, Return
<1>4. CASE request_size < HeaderSize /\ Reject("illegal data value")
  <2>1. pc' = "done" /\ reply' \in {"none", "illegal data value"} /\ UNCHANGED <<size, idx>>
    BY <1>4 DEF Reject, send_exception_msg, Return
  <2>2. WriteFileRecordTypeOK'
    BY <1>1, <2>1 DEF WriteFileRecordTypeOK, Receive, Exceptions
  <2>3. Done'
    BY <1>2, <2>1 DEF Done, ReplyTellsOutcome
  <2>4. QED
    BY <1>2, <2>1, <2>2, <2>3 DEF FileRecordInv, Passed, Apart
<1>5. CASE request_size \in HeaderSize..MaxRequest /\ Restart /\ pc' = "check" /\ UNCHANGED reply
  <2>1. size' = request_size /\ idx' = 0 /\ reply' = "none"
    BY <1>1, <1>5 DEF Restart, Quiet
  <2>2. size' \in 0..(SizeMod - 1) /\ size' >= HeaderSize
    BY <2>1, <1>5, Limits
  <2>3. WriteFileRecordTypeOK'
    BY <1>1, <1>5, <2>1, <2>2 DEF WriteFileRecordTypeOK, Receive
  <2>4. Checking'
    BY <1>2, <1>5, <2>1, <2>2, Limits DEF Checking, Quiet
  <2>5. QED
    BY <1>2, <1>5, <2>3, <2>4 DEF FileRecordInv, Passed, Apart
<1>6. QED
  BY <1>3, <1>4, <1>5 DEF Receive

\* What the check pass found keeps its meaning when one more header passes.
LEMMA CheckedGrows ==
  ASSUME FileRecordInv, pc = "check", NEW h \in Headers, ReadHeader(h),
         HeaderPasses(h), checked' = checked \cup {idx}
  PROVE  /\ checked' \subseteq 0..Mem /\ 0 \in checked'
         /\ \A i \in checked : i < idx /\ header'[i] = header[i]
         /\ Passed' /\ Apart'
         /\ \A i \in checked' : /\ i + Span(header'[i]) \in checked' \cup {idx + Span(h)}
                                /\ i + Span(header'[i]) <= idx + Span(h)
<1>1. WriteFileRecordTypeOK /\ Passed /\ Apart /\ Checking
  BY DEF FileRecordInv
<1>2. checked \subseteq 0..Mem /\ idx \in 0..Mem /\ idx + HeaderSize <= Mem
  BY <1>1, ReadHeaderType DEF WriteFileRecordTypeOK, ReadHeader
<1>3. \A i \in checked : /\ header[i] \in Headers /\ HeaderPasses(header[i])
                         /\ i + HeaderSize <= Mem
  BY <1>1 DEF Passed
<1>4. \A i \in checked : /\ i + Span(header[i]) \in checked \cup {idx}
                         /\ i + Span(header[i]) <= idx
  BY <1>1 DEF Checking
<1>5. \A i \in checked : i < idx
  BY <1>2, <1>3, <1>4, SpanType, Limits
<1>6. header'[idx] = h /\ \A i \in checked : header'[i] = header[i]
  BY <1>1, <1>2, <1>5, ReadHeaderType
<1>7. checked' \subseteq 0..Mem /\ 0 \in checked'
  BY <1>1, <1>2 DEF Checking
<1>8. Passed'
  BY <1>2, <1>3, <1>6 DEF Passed
<1>9. Apart'
  <2> SUFFICES ASSUME NEW i \in checked', NEW j \in checked', i < j
               PROVE  i + Span(header'[i]) <= j
    BY DEF Apart, Span
  <2>1. i # idx
    BY <1>2, <1>5
  <2>2. i \in checked /\ header'[i] = header[i]
    BY <2>1, <1>6
  <2>3. CASE j = idx
    BY <2>2, <2>3, <1>4
  <2>4. CASE j \in checked
    BY <2>2, <2>4, <1>1 DEF Apart
  <2>5. QED
    BY <2>3, <2>4
<1>10. ASSUME NEW i \in checked'
       PROVE  /\ i + Span(header'[i]) \in checked' \cup {idx + Span(h)}
              /\ i + Span(header'[i]) <= idx + Span(h)
  <2>1. CASE i = idx
    BY <2>1, <1>2, <1>6, SpanType
  <2>2. CASE i \in checked
    <3>1. header'[i] = header[i] /\ i + Span(header[i]) \in checked' /\ i + Span(header[i]) <= idx
      BY <2>2, <1>4, <1>6
    <3>2. i \in Nat /\ idx \in Nat /\ Span(h) \in Nat /\ Span(header[i]) \in Nat
      BY <2>2, <1>2, <1>3, SpanType
    <3>3. QED
      BY <3>1, <3>2
  <2>3. QED
    BY <2>1, <2>2
<1>11. QED
  BY <1>5, <1>6, <1>7, <1>8, <1>9, <1>10

\* While the pass is inside the memory, the two counters add up, and a wrap has a cause.
LEMMA CountersAddUp ==
  ASSUME FileRecordInv, pc = "check", NEW h \in Headers, ReadHeader(h),
         HeaderPasses(h), checked' = checked \cup {idx}
  PROVE  \/ idx + Span(h) + Left(h) = request_size
         \/ /\ \E i \in checked' : i + Span(header'[i]) > request_size
            /\ idx + Span(h) + Left(h) = request_size + SizeMod
            /\ Left(h) > 0
<1>1. WriteFileRecordTypeOK /\ Checking
  BY DEF FileRecordInv
<1>2. /\ idx \in Nat /\ size \in 0..(SizeMod - 1) /\ request_size \in Nat
      /\ idx + HeaderSize <= Mem
  BY <1>1 DEF WriteFileRecordTypeOK, ReadHeader
<1>3. Span(h) \in Nat /\ Span(h) >= HeaderSize /\ Span(h) <= HeaderSize + 2 * MaxLength
  BY SpanType, SpanBound
<1>4. /\ Left(h) \in 0..(SizeMod - 1)
      /\ Span(h) <= size => Left(h) = size - Span(h)
      /\ size < Span(h) => Left(h) = size - Span(h) + SizeMod
  BY <1>2, LeftValue
<1>5. CASE idx + size = request_size /\ Span(h) <= size
  <2>1. Left(h) = size - Span(h)
    BY <1>4, <1>5
  <2>2. idx + Span(h) + (size - Span(h)) = idx + size
    BY <1>2, <1>3
  <2> QED
    BY <1>5, <2>1, <2>2
<1>6. CASE idx + size = request_size /\ size < Span(h)
  <2>1. idx + Span(h) > request_size /\ idx + Span(h) + Left(h) = request_size + SizeMod
    BY <1>6, <1>2, <1>3, <1>4, Limits
  <2>2. idx \in checked' /\ header'[idx] = h
    BY <1>1, ReadHeaderType
  <2>3. Left(h) > 0
    BY <1>6, <1>2, <1>3, <1>4, Limits
  <2>4. QED
    BY <2>1, <2>2, <2>3
<1>7. CASE Wrapped /\ idx + size = request_size + SizeMod
  <2>1. Span(h) < size
    BY <1>7, <1>2, <1>3, Limits
  <2>2. idx + Span(h) + Left(h) = request_size + SizeMod /\ Left(h) > 0
    BY <1>7, <2>1, <1>2, <1>3, <1>4, Limits
  <2>3. PICK i \in checked : i + Span(header[i]) > request_size
    BY <1>7 DEF Wrapped
  <2>4. i \in checked' /\ header'[i] = header[i]
    BY CheckedGrows
  <2>5. QED
    BY <2>2, <2>3, <2>4
<1>8. idx + size = request_size \/ (Wrapped /\ idx + size = request_size + SizeMod)
  BY <1>1 DEF Checking
<1>9. Span(h) <= size \/ size < Span(h)
  BY <1>2, <1>3
<1>10. QED
  BY <1>5, <1>6, <1>7, <1>8, <1>9

LEMMA CheckInv ==
  ASSUME FileRecordInv, Check
  PROVE  FileRecordInv'
<1>1. WriteFileRecordTypeOK /\ Passed /\ Apart /\ Checking /\ pc = "check"
  BY DEF FileRecordInv, Check
<1>2. PICK h \in Headers :
        /\ ReadHeader(h)
        /\ \/ CheckNext(h)
           \/ ~HeaderPasses(h) /\ Reject("illegal data address") /\ UNCHANGED checked
  BY DEF Check
<1>3. UNCHANGED <<broadcast, callback, request_size, swapped, executed>>
  BY DEF Check
<1>4. executed' = {} /\ swapped' = {} /\ reply = "none"
  BY <1>1, <1>3 DEF Checking, Quiet
<1>5. header' \in [0..Mem -> Headers \cup {Unread}] /\ idx \in 0..Mem
  BY <1>1, <1>2, ReadHeaderType
<1>6. ASSUME NEW e \in Exceptions, Reject(e), checked' \subseteq 0..Mem, e # "callback's",
             Passed', Apart'
      PROVE  FileRecordInv'
  <2>1. pc' = "done" /\ reply' \in {"none", e} /\ UNCHANGED <<size, idx>>
    BY <1>6 DEF Reject, send_exception_msg, Return
  <2>2. WriteFileRecordTypeOK'
    BY <1>1, <1>3, <1>4, <1>5, <1>6, <2>1 DEF WriteFileRecordTypeOK
  <2>3. Done'
    BY <1>4, <1>6, <2>1 DEF Done, ReplyTellsOutcome, Exceptions
  <2>4. QED
    BY <1>6, <2>1, <2>2, <2>3 DEF FileRecordInv
<1>7. CASE ~HeaderPasses(h) /\ Reject("illegal data address") /\ UNCHANGED checked
  <2>1. checked \subseteq 0..Mem /\ \A i \in checked : header[i] \in Headers
    BY <1>1 DEF WriteFileRecordTypeOK, Passed
  <2>2. \A i \in checked : header'[i] = header[i]
    <3> SUFFICES ASSUME NEW i \in checked PROVE header'[i] = header[i]
      OBVIOUS
    <3>1. header[i] # Unread /\ i \in 0..Mem
      BY <2>1, SpanType
    <3>2. QED
      BY <1>1, <1>2, <3>1, ReadHeaderType
  <2>3. Passed' /\ Apart'
    BY <1>1, <1>7, <2>2 DEF Passed, Apart, Span
  <2>4. QED
    BY <1>6, <1>7, <2>1, <2>3 DEF Exceptions
<1>8. CASE CheckNext(h)
  <2>1. HeaderPasses(h) /\ checked' = checked \cup {idx}
    BY <1>8 DEF CheckNext
  <2>2. /\ checked' \subseteq 0..Mem /\ 0 \in checked' /\ Passed' /\ Apart'
        /\ \A i \in checked' : /\ i + Span(header'[i]) \in checked' \cup {idx + Span(h)}
                               /\ i + Span(header'[i]) <= idx + Span(h)
    BY <1>1, <1>2, <2>1, CheckedGrows
  <2>3. \/ idx + Span(h) + Left(h) = request_size
        \/ /\ \E i \in checked' : i + Span(header'[i]) > request_size
           /\ idx + Span(h) + Left(h) = request_size + SizeMod
           /\ Left(h) > 0
    BY <1>1, <1>2, <2>1, CountersAddUp
  <2>4. /\ size \in 0..(SizeMod - 1) /\ request_size \in HeaderSize..MaxRequest
        /\ request_size \in Nat
    BY <1>1, Limits DEF WriteFileRecordTypeOK, Checking
  <2>5. Left(h) \in 0..(SizeMod - 1) /\ Span(h) \in Nat
    BY <2>1, <2>4, LeftValue, SpanType
  <2>6. CASE Left(h) >= HeaderSize /\ Advance(h) /\ UNCHANGED <<pc, reply>>
    <3>1. size' = Left(h) /\ idx' = idx + Span(h)
      BY <2>6 DEF Advance
    <3>2. idx' \in Nat
      BY <1>5, <2>5, <3>1, Limits
    <3>3. WriteFileRecordTypeOK'
      BY <1>1, <1>3, <1>4, <1>5, <2>2, <2>5, <2>6, <3>1, <3>2 DEF WriteFileRecordTypeOK
    <3>4. idx' + size' = request_size' \/ (Wrapped' /\ idx' + size' = request_size' + SizeMod)
      BY <1>3, <2>3, <3>1 DEF Wrapped, Span
    <3>5. \A i \in checked' : /\ i + Span(header'[i]) \in checked' \cup {idx'}
                             /\ i + Span(header'[i]) <= idx'
      BY <2>2, <3>1
    <3>6. Quiet' /\ size' >= HeaderSize /\ request_size' \in HeaderSize..MaxRequest
      BY <1>3, <1>4, <2>4, <2>6, <3>1 DEF Quiet
    <3>7. Checking'
      BY <2>2, <3>4, <3>5, <3>6 DEF Checking, Span
    <3>8. QED
      BY <1>1, <2>2, <2>6, <3>3, <3>7 DEF FileRecordInv
  <2>7. CASE Left(h) \in 1..(HeaderSize - 1) /\ Reject("illegal data value")
    BY <1>6, <2>2, <2>7 DEF Exceptions
  <2>8. CASE Left(h) = 0 /\ Restart /\ pc' = "execute" /\ UNCHANGED reply
    <3>1. idx + Span(h) = request_size
      BY <1>5, <2>3, <2>4, <2>5, <2>8
    <3>2. size' = request_size /\ idx' = 0 /\ size' \in 0..(SizeMod - 1)
      BY <2>4, <2>8, Limits DEF Restart
    <3>3. WriteFileRecordTypeOK'
      BY <1>1, <1>3, <1>4, <1>5, <2>2, <2>8, <3>2 DEF WriteFileRecordTypeOK
    <3>4. \A i \in checked' : /\ i + Span(header'[i]) \in checked' \cup {request_size'}
                             /\ i + Span(header'[i]) <= request_size'
      BY <1>3, <2>2, <3>1
    <3>5. Tiles(checked)'
      BY <2>2, <3>4 DEF Tiles, Passed, Apart, Span
    <3>6. executed' = Before(idx)'
      <4>1. \A i \in checked' : ~(i < 0)
        <5>1. checked' \subseteq 0..Mem /\ \A i \in 0..Mem : ~(i < 0)
          BY <2>2
        <5> QED
          BY <5>1
      <4>2. QED
        BY <1>4, <3>2, <4>1 DEF Before
    <3>7. Executing'
      <4>1. reply' = "none" /\ swapped' = {} /\ executed' = {}
        BY <1>4, <2>8
      <4>2. (\A i \in checked : i + Span(header[i]) <= request_size)'
        BY <3>4 DEF Span
      <4>3. idx' \in checked' /\ idx' + size' = request_size'
        BY <1>3, <2>2, <2>4, <3>2
      <4> QED
        BY <3>5, <3>6, <4>1, <4>2, <4>3 DEF Executing
    <3>8. QED
      BY <2>2, <2>8, <3>3, <3>7 DEF FileRecordInv
  <2>9. QED
    BY <1>8, <2>6, <2>7, <2>8 DEF CheckNext
<1>9. QED
  BY <1>2, <1>7, <1>8

\* The second pass always finds a header inside the request.
LEMMA NoFaultBehind ==
  ASSUME FileRecordInv, pc = "execute"
  PROVE  idx \in Nat /\ idx + HeaderSize <= request_size /\ idx + HeaderSize <= Mem
<1>1. /\ idx \in checked /\ idx + Span(header[idx]) <= request_size
      /\ header[idx] \in Headers /\ idx + HeaderSize <= Mem
  BY DEF FileRecordInv, Executing, Passed
<1>2. idx \in Nat /\ request_size \in Nat
  BY DEF FileRecordInv, WriteFileRecordTypeOK
<1>3. Span(header[idx]) \in Nat /\ Span(header[idx]) >= HeaderSize
  BY <1>1, SpanType
<1>4. QED
  BY <1>1, <1>2, <1>3, Limits

LEMMA BusFaultInv ==
  ASSUME FileRecordInv, BusFault
  PROVE  FileRecordInv'
<1>1. /\ WriteFileRecordTypeOK /\ Passed /\ Apart /\ pc' = "fault"
      /\ UNCHANGED <<broadcast, callback, request_size, size, idx, header, swapped, reply,
                     checked, executed>>
  BY DEF FileRecordInv, BusFault
<1>2. pc = "check"
  <2> SUFFICES ASSUME pc = "execute" PROVE FALSE
    BY DEF BusFault
  <2>1. idx + HeaderSize > Mem
    BY DEF BusFault
  <2>2. QED
    BY <2>1, NoFaultBehind, Limits
<1>3. executed = {}
  BY <1>2 DEF FileRecordInv, Checking, Quiet
<1>4. WriteFileRecordTypeOK' /\ Passed' /\ Apart'
  BY <1>1 DEF WriteFileRecordTypeOK, Passed, Apart, Span
<1>5. QED
  BY <1>1, <1>3, <1>4 DEF FileRecordInv

LEMMA AlignmentFaultInv ==
  ASSUME FileRecordInv, AlignmentFault
  PROVE  FileRecordInv' /\ header' = header /\ idx \in checked /\ ~Aligned(header[idx])
<1>1. /\ WriteFileRecordTypeOK /\ Passed /\ Apart /\ Executing /\ pc = "execute" /\ pc' = "fault"
      /\ UNCHANGED <<broadcast, callback, request_size, size, idx, swapped, reply, checked, executed>>
  BY DEF FileRecordInv, AlignmentFault
<1>2. PICK h \in Headers : ReadHeader(h) /\ ~Aligned(h)
  BY DEF AlignmentFault
<1>3. idx \in checked /\ header[idx] \in Headers /\ HeaderPasses(header[idx])
  BY <1>1 DEF Executing, Passed
<1>4. header' = header /\ h = header[idx]
  BY <1>1, <1>2, <1>3, ReadHeaderType, SpanType
<1>5. WriteFileRecordTypeOK' /\ Passed' /\ Apart' /\ Halfway'
  BY <1>1, <1>4 DEF WriteFileRecordTypeOK, Passed, Apart, Span, Executing, Halfway, Tiles, Before
<1> QED
  BY <1>1, <1>2, <1>3, <1>4, <1>5 DEF FileRecordInv

LEMMA ExecuteInv ==
  ASSUME FileRecordInv, Execute
  PROVE  FileRecordInv'
<1>1. WriteFileRecordTypeOK /\ Passed /\ Apart /\ Executing /\ pc = "execute"
  BY DEF FileRecordInv, Execute
<1>2. PICK h \in Headers : ReadHeader(h) /\ ((callback /\ Taken(h)) \/ Refused)
  BY DEF Execute
<1>3. UNCHANGED <<broadcast, callback, request_size, checked>>
  BY DEF Execute
<1>4. idx \in checked /\ header[idx] \in Headers /\ HeaderPasses(header[idx])
  BY <1>1 DEF Executing, Passed
<1>5. header' = header /\ h = header[idx]
  BY <1>1, <1>2, <1>4, ReadHeaderType, SpanType
<1>6. /\ checked \subseteq 0..Mem /\ idx \in 0..Mem /\ idx \in Nat
      /\ size \in 0..(SizeMod - 1) /\ request_size \in Nat
  BY <1>1, <1>4, Limits DEF WriteFileRecordTypeOK
<1>7. Passed' /\ Apart'
  BY <1>1, <1>3, <1>5 DEF Passed, Apart, Span
<1>8. Tiles(checked) /\ \A i \in checked : i + Span(header[i]) <= request_size
  BY <1>1 DEF Executing
<1>9. Tiles(checked)' /\ \A i \in checked' : i + Span(header'[i]) <= request_size'
  BY <1>3, <1>5, <1>8 DEF Tiles, Span
<1>10. /\ executed = Before(idx) /\ swapped = {} /\ reply = "none"
       /\ idx + size = request_size
  BY <1>1 DEF Executing
<1>11. Span(h) \in Nat /\ Span(h) >= HeaderSize /\ idx + Span(h) <= request_size
  BY <1>4, <1>5, <1>8, SpanType
<1>12. Left(h) = size - Span(h) /\ Left(h) \in 0..(SizeMod - 1)
  BY <1>4, <1>5, <1>6, <1>10, <1>11, LeftValue, Limits
<1>13. idx + Span(h) \in checked \cup {request_size}
  BY <1>4, <1>5, <1>8 DEF Tiles
<1>14. CASE callback /\ Taken(h)
  <2>1. swapped' = {} /\ executed' = executed \cup {idx}
    BY <1>10, <1>14 DEF Taken, Toggle
  <2>2. size' = Left(h) /\ idx' = idx + Span(h) /\ idx' \in Nat
    BY <1>6, <1>11, <1>14 DEF Taken, Advance
  <2>3. executed' = {i \in checked : i < idx + Span(h)}
    <3>1. ASSUME NEW i \in checked
          PROVE  i < idx + Span(h) <=> i < idx \/ i = idx
      <4>1. i \in Nat
        BY <1>6, Limits
      <4>2. idx < i => idx + Span(h) <= i
        BY <1>1, <1>4, <1>5 DEF Apart
      <4>3. QED
        BY <1>6, <1>11, <4>1, <4>2, Limits
    <3>2. QED
      BY <1>4, <1>10, <2>1, <3>1 DEF Before
  <2>4. executed' \subseteq 0..Mem
    BY <1>6, <2>3
  <2>5. CASE Left(h) >= HeaderSize
    <3>1. UNCHANGED <<pc, reply>>
      BY <1>14, <2>5 DEF Taken
    <3>2. idx' # request_size
      BY <1>6, <1>10, <1>12, <2>2, <2>5, <1>11, Limits
    <3>3. idx' \in checked' /\ idx' + size' = request_size'
      BY <1>3, <1>6, <1>10, <1>11, <1>12, <1>13, <2>2, <3>2
    <3>4. WriteFileRecordTypeOK'
      BY <1>1, <1>3, <1>5, <1>12, <2>1, <2>2, <2>4, <3>1 DEF WriteFileRecordTypeOK
    <3>5. executed' = Before(idx)'
      BY <1>3, <2>2, <2>3 DEF Before
    <3>6. Executing'
      BY <1>3, <1>9, <1>10, <1>14, <2>1, <3>1, <3>3, <3>5 DEF Executing, Span
    <3>7. QED
      BY <1>1, <1>7, <3>1, <3>4, <3>6 DEF FileRecordInv
  <2>6. CASE ~(Left(h) >= HeaderSize)
    <3>1. pc' = "done" /\ reply' \in {"none", "echo"}
      BY <1>14, <2>6 DEF Taken, Finish, Return
    <3>2. idx + Span(h) = request_size
      <4> SUFFICES ASSUME idx + Span(h) \in checked PROVE FALSE
        BY <1>13
      <4> DEFINE j == idx + Span(h)
      <4>1. header[j] \in Headers /\ j + Span(header[j]) <= request_size
        BY <1>8 DEF Tiles
      <4>2. Span(header[j]) \in Nat /\ Span(header[j]) >= HeaderSize
        BY <4>1, SpanType
      <4> HIDE DEF j
      <4>3. j \in Nat /\ j = idx + Span(h)
        BY <1>6, <1>11 DEF j
      <4>4. QED
        BY <1>6, <1>10, <1>11, <1>12, <2>6, <4>1, <4>2, <4>3, Limits
    <3>3. executed' = checked'
      <4>1. ASSUME NEW i \in checked PROVE i < request_size
        <5>1. i \in Nat /\ header[i] \in Headers /\ i + Span(header[i]) <= request_size
          BY <1>6, <1>8, Limits DEF Tiles
        <5>2. Span(header[i]) \in Nat /\ Span(header[i]) >= HeaderSize
          BY <5>1, SpanType
        <5>3. QED
          BY <1>6, <5>1, <5>2, Limits
      <4>2. QED
        BY <1>3, <2>3, <3>2, <4>1
    <3>4. executed' # {}
      BY <2>1
    <3>5. WriteFileRecordTypeOK'
      BY <1>1, <1>3, <1>5, <1>12, <2>1, <2>2, <2>4, <3>1 DEF WriteFileRecordTypeOK
    <3>6. ReplyTellsOutcome'
      BY <2>1, <3>1, <3>3, <3>4 DEF ReplyTellsOutcome
    <3>7. Done'
      BY <1>9, <3>3, <3>6 DEF Done, Span
    <3>8. QED
      BY <1>7, <3>1, <3>5, <3>7 DEF FileRecordInv
  <2>7. QED
    BY <2>5, <2>6
<1>15. CASE Refused
  <2>1. PICK e \in IF callback THEN {"callback's"} ELSE {"illegal function"} : Reject(e)
    BY <1>15 DEF Refused
  <2>2. pc' = "done" /\ reply' \in {"none", e} /\ UNCHANGED <<size, idx>>
    BY <2>1 DEF Reject, send_exception_msg, Return
  <2>3. swapped' \subseteq 0..Mem /\ executed' = executed
    BY <1>6, <1>10, <1>15 DEF Refused, Toggle
  <2>4. WriteFileRecordTypeOK'
    BY <1>1, <1>3, <1>5, <2>2, <2>3, <2>1 DEF WriteFileRecordTypeOK, Exceptions
  <2>5. idx' \in checked' /\ executed' = Before(idx)'
    BY <1>3, <1>4, <1>10, <2>2, <2>3 DEF Before
  <2>6. executed' # checked'
    <3>1. idx \notin executed
      <4>1. executed = {i \in checked : i < idx}
        BY <1>10 DEF Before
      <4>2. idx \in Nat
        BY <1>6
      <4>3. QED
        BY <4>1, <4>2, NoneBelowItself, Zenon
    <3>2. QED
      BY <1>3, <1>4, <2>3, <3>1
  <2>7. ReplyTellsOutcome'
    <3>1. reply' \in {"none", "callback's", "illegal function"}
      BY <2>1, <2>2
    <3>2. ~callback => executed = {}
      BY <1>1 DEF Executing
    <3>3. QED
      BY <2>1, <2>2, <2>3, <2>6, <3>1, <3>2 DEF ReplyTellsOutcome
  <2>8. Done'
    BY <1>9, <2>5, <2>7 DEF Done, Span
  <2>9. QED
    BY <1>7, <2>2, <2>4, <2>8 DEF FileRecordInv
<1>16. QED
  BY <1>2, <1>14, <1>15

LEMMA FileRecordStutter ==
  ASSUME FileRecordInv, UNCHANGED vars
  PROVE  FileRecordInv'
BY DEF vars, FileRecordInv, WriteFileRecordTypeOK, Passed, Apart, Quiet, Checking, Wrapped,
       Executing, Before, Halfway, Done, Tiles, ReplyTellsOutcome, Span

LEMMA FileRecordInductive == WriteFileRecordSpec => []FileRecordInv
<1>1. FileRecordInv /\ [Next]_vars => FileRecordInv'
  BY ReceiveInv, CheckInv, BusFaultInv, AlignmentFaultInv, ExecuteInv, FileRecordStutter DEF Next, Stop
<1>2. QED
  BY FileRecordInitially, <1>1, PTL DEF WriteFileRecordSpec

-----------------------------------------------------------------------------
LEMMA InvGivesExecutes == FileRecordInv => ExecutesWellFormed
<1> SUFFICES ASSUME FileRecordInv, executed # {}
             PROVE  /\ Tiles(checked)
                    /\ executed \subseteq checked
                    /\ \A i \in executed : i + Span(header[i]) <= request_size
                    /\ \A i \in executed, j \in checked : j < i => j \in executed
  BY DEF ExecutesWellFormed
<1>1. WriteFileRecordTypeOK
  BY DEF FileRecordInv
<1>2. checked \subseteq 0..Mem /\ idx \in Nat
  BY <1>1 DEF WriteFileRecordTypeOK
<1>3. pc \in {"execute", "done", "fault"}
  BY <1>1 DEF FileRecordInv, WriteFileRecordTypeOK, Quiet, Checking
<1>4. Tiles(checked) /\ \A i \in checked : i + Span(header[i]) <= request_size
  BY <1>3 DEF FileRecordInv, Executing, Halfway, Done
<1>5. executed = checked \/ executed = Before(idx)
  BY <1>3 DEF FileRecordInv, Executing, Halfway, Done
<1>6. \A i \in Before(idx), j \in checked : j < i => j \in Before(idx)
  <2> SUFFICES ASSUME NEW i \in checked, i < idx, NEW j \in checked, j < i
               PROVE  j < idx
    BY DEF Before
  <2>1. i \in Nat /\ j \in Nat
    BY <1>2, Limits
  <2>2. QED
    BY <1>2, <2>1
<1>7. executed \subseteq checked
  BY <1>5 DEF Before
<1>8. QED
  BY <1>4, <1>5, <1>6, <1>7

LEMMA InvGivesOverrun == FileRecordInv => OverrunHasCause
<1> SUFFICES ASSUME FileRecordInv, pc = "check", idx + HeaderSize > request_size
             PROVE  \E i \in checked : i + Span(header[i]) > request_size
  BY DEF OverrunHasCause
<1>1. Checking /\ WriteFileRecordTypeOK
  BY DEF FileRecordInv
<1>2. size \in Nat /\ idx \in Nat /\ request_size \in Nat /\ size >= HeaderSize
  BY <1>1, Limits DEF Checking, WriteFileRecordTypeOK
<1>3. idx + size # request_size
  BY <1>2, Limits
<1>4. QED
  BY <1>1, <1>3 DEF Checking, Wrapped

\* The handler's counters and its history fit, for any request and any memory.
THEOREM WriteFileRecordTypes == WriteFileRecordSpec => []WriteFileRecordTypeOK
BY FileRecordInductive, PTL DEF FileRecordInv

\* Only the sub-requests of a request that is well-formed as a whole are executed,
\* in their order and inside the received bytes, whatever lies behind them.
THEOREM OnlyWellFormedExecuted == WriteFileRecordSpec => []ExecutesWellFormed
BY FileRecordInductive, InvGivesExecutes, PTL

\* An echo means all was executed, an exception of the checks that nothing was.
THEOREM RepliesTellOutcome == WriteFileRecordSpec => []ReplyTellsOutcome
<1>1. FileRecordInv => ReplyTellsOutcome
  BY DEF FileRecordInv, Done, ReplyTellsOutcome
<1>2. QED
  BY FileRecordInductive, <1>1, PTL

\* A request whose sub-requests fit in it never leads the check pass behind it.
THEOREM OverrunsHaveCause == WriteFileRecordSpec => []OverrunHasCause
BY FileRecordInductive, InvGivesOverrun, PTL

\* The measure behind the end of the handler: no turn without progress, no progress
\* outside the memory, and in the second pass none outside the request; and what a
\* fault in the second pass, on registers at an odd address, leaves behind.
THEOREM HandlerAlwaysAdvances == WriteFileRecordSpec => HandlerAdvances
<1> DEFINE Step == /\ \/ Stage[pc'] > Stage[pc]
                      \/ /\ pc' = pc /\ idx + HeaderSize <= idx'
                         /\ idx + HeaderSize <= IF pc = "execute" THEN request_size ELSE Mem
                   /\ pc = "execute" /\ pc' = "fault" =>
                        idx \in checked /\ header[idx].length > 0 /\ executed # {}
<1>1. FileRecordInv /\ [Next]_vars => [Step]_vars
  <2> SUFFICES ASSUME FileRecordInv, Next, vars' # vars PROVE Step
    OBVIOUS
  <2>1. CASE Receive
    <3>1. pc = "received" /\ pc' \in {"check", "done"}
      BY <2>1 DEF Receive, Reject, Return, send_exception_msg
    <3> QED
      BY <3>1 DEF Stage
  <2>2. CASE Check
    <3>1. pc = "check" /\ \E h \in Headers :
             ReadHeader(h) /\ (CheckNext(h) \/ Reject("illegal data address"))
      BY <2>2 DEF Check
    <3>2. PICK h \in Headers :
             ReadHeader(h) /\ (CheckNext(h) \/ Reject("illegal data address"))
      BY <3>1
    <3>3. Span(h) \in Nat /\ Span(h) >= HeaderSize
      BY SpanType
    <3>4. CASE Advance(h) /\ pc' = pc
      <4>1. idx \in Nat /\ idx + HeaderSize <= Mem
        BY <3>2 DEF ReadHeader, FileRecordInv, WriteFileRecordTypeOK
      <4>2. idx + HeaderSize <= idx'
        BY <3>3, <3>4, <4>1, Limits DEF Advance
      <4> QED
        BY <3>1, <3>4, <4>1, <4>2
    <3>5. CASE pc' \in {"execute", "done"}
      <4>1. Stage["execute"] > Stage["check"] /\ Stage["done"] > Stage["check"]
        BY DEF Stage
      <4> QED
        BY <3>1, <3>5, <4>1
    <3>6. (Advance(h) /\ pc' = pc) \/ pc' \in {"execute", "done"}
      BY <3>2 DEF CheckNext, Reject, Return, send_exception_msg
    <3> QED
      BY <3>4, <3>5, <3>6
  <2>3. CASE BusFault
    <3>1. pc' = "fault" /\ pc \in {"check", "execute"} /\ idx + HeaderSize > Mem
      BY <2>3 DEF BusFault
    <3>2. pc # "execute"
      BY <3>1, NoFaultBehind, Limits
    <3> QED
      BY <3>1, <3>2 DEF Stage
  <2>5. CASE AlignmentFault
    <3>1. pc = "execute" /\ pc' = "fault" /\ idx \in checked /\ ~Aligned(header[idx])
      BY <2>5, AlignmentFaultInv DEF AlignmentFault
    <3>2. header[idx] \in Headers /\ idx \in Nat
      BY <3>1, NoFaultBehind DEF FileRecordInv, Passed
    <3>3. header[idx].length \in Nat
      BY <3>2, WriteFileRecordAssumption
    <3>4. header[idx].length > 0
      BY <3>1, <3>3 DEF Aligned
    <3>5. idx # 0
      <4> SUFFICES ASSUME idx = 0 PROVE FALSE
        OBVIOUS
      <4>1. First \in Nat /\ (First + HeaderSize) % 2 = 0 /\ HeaderSize \in Nat
        BY WriteFileRecordAssumption
      <4>2. First + idx + HeaderSize = First + HeaderSize
        BY <4>1
      <4> QED
        BY <3>1, <4>1, <4>2 DEF Aligned
    <3>6. 0 \in checked /\ executed = Before(idx)
      BY <3>1 DEF FileRecordInv, Executing, Tiles
    <3>7. executed # {}
      BY <3>2, <3>5, <3>6 DEF Before
    <3> QED
      BY <3>1, <3>4, <3>7 DEF Stage
  <2>4. CASE Execute
    <3>1. pc = "execute" /\ \E h \in Headers : ReadHeader(h) /\ (Taken(h) \/ Refused)
      BY <2>4 DEF Execute
    <3>2. PICK h \in Headers : ReadHeader(h) /\ (Taken(h) \/ Refused)
      BY <3>1
    <3>3. Span(h) \in Nat /\ Span(h) >= HeaderSize
      BY SpanType
    <3>4. CASE Advance(h) /\ pc' = pc
      <4>1. idx \in Nat /\ idx + HeaderSize <= request_size
        BY <3>1, NoFaultBehind
      <4>2. idx + HeaderSize <= idx'
        BY <3>3, <3>4, <4>1, Limits DEF Advance
      <4> QED
        BY <3>1, <3>4, <4>1, <4>2
    <3>5. CASE pc' = "done"
      BY <3>1, <3>5 DEF Stage
    <3>6. (Advance(h) /\ pc' = pc) \/ pc' = "done"
      BY <3>2 DEF Taken, Refused, Finish, Reject, Return, send_exception_msg
    <3> QED
      BY <3>4, <3>5, <3>6
  <2> QED
    BY <2>1, <2>2, <2>3, <2>4, <2>5 DEF Next, Stop
<1> QED
  BY <1>1, FileRecordInductive, PTL DEF WriteFileRecordSpec, HandlerAdvances
=============================================================================
