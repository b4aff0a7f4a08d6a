-------------------------- MODULE NmbsServerProofs --------------------------
(***************************************************************************)
(* The server acts only on requests that were sent whole and to it, in     *)
(* their order and at most once each, for every set of frames, every       *)
(* address and every way of cutting or damaging the stream                 *)
(* (ServerActsOnRequests); and it acts on every such request that begins   *)
(* when it listens (HeardRequestsAreServed).  Both hold until memory behind *)
(* the message buffer is written.                                          *)
(***************************************************************************)
EXTENDS NmbsServer, SequenceTheorems, TLAPS

\* A CRC on the line or still to come is that of an intact frame, and of none
\* that was acted on, or of an earlier one.
Fresh(q) ==
  \A i \in 1..Len(q) : q[i].crc # 0 =>
    /\ q[i].crc \in 1..Len(sent) /\ sent[q[i].crc].intact
    /\ \A l \in 1..Len(log) : log[l].of < q[i].crc

\* The CRCs come in the order of their frames.
Ordered(q) ==
  \A i, j \in 1..Len(q) : i < j /\ q[i].crc # 0 /\ q[j].crc # 0 => q[i].crc < q[j].crc

Stream ==
  /\ Fresh(line) /\ Fresh(rest) /\ Ordered(line) /\ Ordered(rest)
  /\ \A i \in 1..Len(line), j \in 1..Len(rest) :
       line[i].crc # 0 /\ rest[j].crc # 0 => line[i].crc < rest[j].crc
  /\ \A l \in 1..Len(log) : log[l].of \in 0..Len(sent)

\* A request that is read on has a function code the switch knows.
Dispatched ==
  pc \in {"fixed", "payload", "crc"} /\ ~Awaiting => msg[2].b \in Supported

\* The address is the one of nmbs_server_create.
AddressKept == ~overrun => address = Me

ServerInv == ServerTypeOK /\ Stream /\ Dispatched /\ AddressKept /\ ActsOnRequests

-----------------------------------------------------------------------------
(* Sequences. *)

\* Dropping the first n elements of a sequence.
LEMMA DropFacts ==
  ASSUME NEW S, NEW s \in Seq(S), NEW n \in Nat, n <= Len(s)
  PROVE  /\ SubSeq(s, n + 1, Len(s)) \in Seq(S)
         /\ Len(SubSeq(s, n + 1, Len(s))) = Len(s) - n
         /\ \A i \in 1..Len(s) - n : SubSeq(s, n + 1, Len(s))[i] = s[n + i]
<1>1. Len(s) \in Nat /\ n + 1 \in Int /\ \A i \in n + 1..Len(s) : s[i] \in S
  BY LenProperties, ElementOfSeq
<1>2. \A i \in 1..Len(s) - (n + 1) + 1 : SubSeq(s, n + 1, Len(s))[i] = s[n + 1 + i - 1]
  BY <1>1, SubSeqProperties
<1>3. Len(SubSeq(s, n + 1, Len(s))) = IF n + 1 <= Len(s) THEN Len(s) - (n + 1) + 1 ELSE 0
  BY <1>1, SubSeqProperties
<1>4. SubSeq(s, n + 1, Len(s)) \in Seq(S)
  BY <1>1, SubSeqProperties
<1> QED
  BY <1>1, <1>2, <1>3, <1>4

\* Taking the first n elements of a sequence.
LEMMA TakeFacts ==
  ASSUME NEW S, NEW s \in Seq(S), NEW n \in Nat, n <= Len(s)
  PROVE  /\ SubSeq(s, 1, n) \in Seq(S)
         /\ Len(SubSeq(s, 1, n)) = n
         /\ \A i \in 1..n : SubSeq(s, 1, n)[i] = s[i]
<1>1. Len(s) \in Nat /\ 1 \in Int /\ n \in Int /\ \A i \in 1..n : s[i] \in S
  BY LenProperties, ElementOfSeq
<1>2. \A i \in 1..n - 1 + 1 : SubSeq(s, 1, n)[i] = s[1 + i - 1]
  BY <1>1, SubSeqProperties
<1>3. Len(SubSeq(s, 1, n)) = IF 1 <= n THEN n - 1 + 1 ELSE 0
  BY <1>1, SubSeqProperties
<1>4. SubSeq(s, 1, n) \in Seq(S)
  BY <1>1, SubSeqProperties
<1> QED
  BY <1>1, <1>2, <1>3, <1>4

-----------------------------------------------------------------------------
(* What every step of the poll does to the stream and to the log. *)

\* The first n bytes of the line are read or thrown away.
Drops(n) ==
  /\ n \in Nat /\ n <= Len(line) /\ line' = SubSeq(line, n + 1, Len(line))
  /\ rest' = rest /\ sent' = sent

\* The request that ends with the first byte of the line is acted on, and answered
\* or not.
Acts ==
  /\ pc = "crc" /\ ~Awaiting /\ line # <<>> /\ CrcMatches(line[1]) /\ ~Ignored
  /\ Drops(1)
  /\ \E a \in BOOLEAN :
       /\ log' = Append(log, [of |-> line[1].crc, answered |-> a])
       /\ a => ~Broadcast
       /\ ~a /\ ~Broadcast => pc' = "fault" /\ ~OneRecord(Values(msg))

LEMMA ReturnDrops ==
  ASSUME ServerTypeOK, NEW flush \in BOOLEAN, Return(flush), Need \in Nat, Need <= Len(line)
  PROVE  \E n \in Nat : Drops(n)
<1>1. Len(line) \in Nat /\ Len(line) <= Len(line)
  BY LenProperties DEF ServerTypeOK
<1>2. SubSeq(line, Len(line) + 1, Len(line)) = <<>>
  BY <1>1, SubSeqEmpty
<1>3. CASE flush
  BY <1>1, <1>2, <1>3 DEF Return, Drops
<1>4. CASE ~flush
  BY <1>4 DEF Return, Drops
<1> QED
  BY <1>3, <1>4

LEMMA NeedNat ==
  ASSUME ServerTypeOK
  PROVE  Need \in Nat /\ (pc # "payload" => Need = 1)
<1>1. CASE pc = "payload"
  <2>1. msg \in Seq(Bytes) /\ Len(msg) = 3
    BY <1>1 DEF ServerTypeOK
  <2>2. 3 \in 1..Len(msg)
    BY <2>1
  <2>3. msg[3] \in Bytes
    BY <2>1, <2>2, ElementOfSeq
  <2> QED
    BY <1>1, <2>3 DEF Need, Bytes
<1>2. CASE pc # "payload"
  BY <1>2 DEF Need
<1> QED
  BY <1>1, <1>2

LEMMA NonEmpty ==
  ASSUME NEW S, NEW s \in Seq(S), s # <<>>
  PROVE  1 \in 1..Len(s) /\ 1 <= Len(s) /\ Len(s) \in Nat
BY EmptySeq, LenProperties

LEMMA RecvDrops ==
  ASSUME ServerTypeOK, Recv, UNCHANGED <<rest, sent>>
  PROVE  \E n \in Nat : Drops(n)
<1>1. Need \in Nat /\ Need <= Len(line)
  BY NeedNat, LenProperties DEF Recv, ServerTypeOK
<1> QED
  BY <1>1 DEF Recv, Drops

LEMMA FlushDrops ==
  ASSUME ServerTypeOK, line' = <<>>, UNCHANGED <<rest, sent>>
  PROVE  \E n \in Nat : Drops(n)
<1>1. Len(line) \in Nat /\ Len(line) <= Len(line)
  BY LenProperties DEF ServerTypeOK
<1>2. SubSeq(line, Len(line) + 1, Len(line)) = <<>>
  BY <1>1, SubSeqEmpty
<1> QED
  BY <1>1, <1>2 DEF Drops

LEMMA FaultDrops ==
  ASSUME ServerTypeOK, Fault, Need <= Len(line)
  PROVE  \E n \in Nat : Drops(n)
BY NeedNat DEF Fault, Halt, Drops

LEMMA HaltDrops ==
  ASSUME ServerTypeOK, Halt, line' = line
  PROVE  \E n \in Nat : Drops(n)
<1>1. line \in Seq(Bytes) /\ Len(line) \in Nat /\ 0 <= Len(line)
  BY LenProperties DEF ServerTypeOK
<1>2. /\ SubSeq(line, 1, Len(line)) \in Seq(Bytes) /\ Len(SubSeq(line, 1, Len(line))) = Len(line)
      /\ \A i \in 1..Len(line) : SubSeq(line, 1, Len(line))[i] = line[i]
  BY <1>1, TakeFacts
<1>3. SubSeq(line, 1, Len(line)) = line
  BY <1>1, <1>2, SeqEqual
<1>4. Drops(0)
  BY <1>1, <1>3 DEF Drops, Halt
<1> QED
  BY <1>4

\* Every step of the poll drops a part of the line; it acts on nothing, on an
\* unsupported request, or on the request whose CRC is the next on the line.
Effect ==
  /\ \E n \in Nat : Drops(n)
  /\ \/ log' = log
     \/ \E a \in BOOLEAN : log' = Append(log, [of |-> 0, answered |-> a])
     \/ Acts
  /\ pc # "fault"
  /\ overrun \in BOOLEAN /\ overrun' \in BOOLEAN
  /\ ~overrun' => ~overrun /\ address' = address

LEMMA PollEffect ==
  ASSUME ServerTypeOK, nmbs_server_poll
  PROVE  Effect
<1>0. overrun \in BOOLEAN
  BY DEF ServerTypeOK
<1>1. CASE ReadUnit
  BY <1>0, <1>1, RecvDrops DEF ReadUnit, GoOn, Effect
<1>2. CASE ReadRequestFc
  <2>1. CASE line[1].b \in Supported
    BY <1>0, <1>2, <2>1, RecvDrops DEF ReadRequestFc, GoOn, Effect
  <2>2. CASE line[1].b \notin Supported
    <3>1. Return(TRUE) /\ (Pass \/ Act(0)) /\ pc = "fc"
      BY <1>2, <2>2 DEF ReadRequestFc
    <3>2. line' = <<>> /\ UNCHANGED <<rest, sent>>
      BY <3>1 DEF Return
    <3>3. log' = log \/ \E a \in BOOLEAN : log' = Append(log, [of |-> 0, answered |-> a])
      BY <3>1 DEF Act, Pass
    <3>4. UNCHANGED <<address, overrun>>
      BY <3>1 DEF Act, Pass
    <3> QED
      BY <1>0, <3>1, <3>2, <3>3, <3>4, FlushDrops DEF Effect
  <2> QED
    BY <2>1, <2>2
<1>3. CASE ReadReplyFc
  BY <1>0, <1>3, RecvDrops, FlushDrops DEF ReadReplyFc, GoOn, Return, Pass, Effect
<1>4. CASE ReadFixed
  BY <1>0, <1>4, RecvDrops, FlushDrops DEF ReadFixed, GoOn, Footer, Return, Pass, Effect
<1>5. CASE ReadPayload
  <2>1. pc = "payload" /\ Need \in Nat /\ Need <= Len(line)
    BY <1>5, NeedNat, LenProperties DEF ReadPayload, ServerTypeOK
  <2>2. CASE Return(TRUE) /\ Pass
    BY <1>0, <2>1, <2>2, FlushDrops DEF Return, Pass, Effect
  <2>3. ASSUME NEW idx, Recv, Footer(idx) PROVE Effect
    BY <1>0, <2>1, <2>3, RecvDrops DEF Footer, Effect
  <2>4. CASE Fault /\ UNCHANGED log
    BY <1>0, <2>1, <2>4, FaultDrops DEF Fault, Halt, Effect
  <2> QED
    BY <1>5, <2>2, <2>3, <2>4 DEF ReadPayload
<1>6. CASE ReadRequestCrc
  <2>1. pc = "crc" /\ ~Awaiting /\ line # <<>> /\ Need = 1 /\ 1 <= Len(line)
    BY <1>6, NeedNat, NonEmpty DEF ReadRequestCrc, ServerTypeOK
  <2>2. CASE Return(TRUE) /\ Pass
    BY <1>0, <2>1, <2>2, FlushDrops DEF Return, Pass, Effect
  <2>3. CASE line' = Tail(line) /\ Pass /\ UNCHANGED <<rest, sent>>
    <3>1. line' = SubSeq(line, 1 + 1, Len(line))
      BY <2>1, <2>3, TailIsSubSeq DEF ServerTypeOK
    <3> QED
      BY <1>0, <2>1, <2>3, <3>1 DEF Effect, Drops, Pass
  <2>4. CASE CrcMatches(line[1]) /\ ~Ignored /\ Return(FALSE) /\ Act(line[1].crc)
    <3>1. Drops(1)
      BY <2>1, <2>4 DEF Return, Drops
    <3>2. Acts
      <4>1. Broadcast \in BOOLEAN
        BY DEF Broadcast
      <4> QED
        BY <2>1, <2>4, <3>1, <4>1 DEF Acts, Act
    <3> QED
      BY <1>0, <2>1, <2>4, <3>1, <3>2 DEF Effect, Act
  <2>5. CASE CrcMatches(line[1]) /\ ~Ignored /\ HandlerFaults(line[1].crc)
    <3>1. Drops(1)
      BY <2>1, <2>5 DEF HandlerFaults, Fault, Halt, Drops
    <3>2. Acts
      BY <2>1, <2>5, <3>1 DEF Acts, HandlerFaults, Fault, Halt
    <3> QED
      BY <1>0, <2>1, <2>5, <3>1, <3>2 DEF Effect, HandlerFaults, Fault, Halt
  <2> QED
    BY <1>6, <2>2, <2>3, <2>4, <2>5 DEF ReadRequestCrc
<1>7. CASE ReadReplyCrc
  <2>1. Need \in Nat /\ Need <= Len(line) /\ pc = "crc"
    BY <1>7, NeedNat, NonEmpty DEF ReadReplyCrc, ServerTypeOK
  <2>2. \E flush \in BOOLEAN : Return(flush)
    BY <1>7 DEF ReadReplyCrc
  <2>3. Pass
    BY <1>7 DEF ReadReplyCrc
  <2> QED
    BY <1>0, <2>1, <2>2, <2>3, ReturnDrops DEF Effect, Pass
<1>8. CASE ReplyOverruns
  BY <1>0, <1>8, FlushDrops DEF ReplyOverruns, Return, Effect
<1>9. CASE Crash
  BY <1>0, <1>9, HaltDrops DEF Crash, Halt, Effect
<1>10. CASE Timeout
  BY <1>0, <1>10, FlushDrops DEF Timeout, Pass, Effect
<1> QED
  BY <1>1, <1>2, <1>3, <1>4, <1>5, <1>6, <1>7, <1>8, <1>9, <1>10 DEF nmbs_server_poll

-----------------------------------------------------------------------------
(* What a frame puts on the line. *)

LEMMA PlainType ==
  ASSUME NEW f \in Frames
  PROVE  /\ Plain(f) \in Seq(Bytes) /\ Len(Plain(f)) = Len(f) /\ Len(f) \in Nat
         /\ \A i \in 1..Len(f) : Plain(f)[i].crc = 0
<1>1. f \in Seq(Nat)
  BY ServerAssumption
<1>2. Len(f) \in Nat /\ \A i \in 1..Len(f) : f[i] \in Nat
  BY <1>1, LenProperties, ElementOfSeq
<1>3. Plain(f) \in [1..Len(f) -> Bytes]
  BY <1>2 DEF Plain, Bytes
<1>4. Plain(f) \in Seq(Bytes)
  BY <1>2, <1>3, SeqDef
<1>5. DOMAIN Plain(f) = 1..Len(f) /\ DOMAIN Plain(f) = 1..Len(Plain(f))
  BY <1>3, <1>4, LenProperties
<1>6. Len(Plain(f)) = Len(f)
  BY <1>2, <1>4, <1>5, LenProperties
<1> QED
  BY <1>2, <1>4, <1>6 DEF Plain

\* The bytes of a frame: only the last one may be a CRC, and if it is, then of
\* this frame, the newest one.
Carries(q, k) ==
  /\ q \in Seq(Bytes)
  /\ \A i \in 1..Len(q) : q[i].crc # 0 => q[i].crc = k /\ i = Len(q)

LEMMA FrameCarries ==
  ASSUME NEW f \in Frames, NEW c \in CrcBytes, NEW k \in Nat
  PROVE  Carries(Append(Plain(f), [b |-> c, crc |-> k]), k)
<1> DEFINE e == [b |-> c, crc |-> k]
<1>1. e \in Bytes /\ e.crc = k
  BY ServerAssumption DEF Bytes
<1>2. Append(Plain(f), e) \in Seq(Bytes) /\ Len(Append(Plain(f), e)) = Len(f) + 1
  BY <1>1, PlainType, AppendProperties
<1>3. Append(Plain(f), e)[Len(f) + 1] = e
      /\ \A i \in 1..Len(f) : Append(Plain(f), e)[i] = Plain(f)[i]
  BY <1>1, PlainType, AppendProperties
<1>4. \A i \in 1..Len(f) + 1 : Append(Plain(f), e)[i].crc # 0 =>
        Append(Plain(f), e)[i].crc = k /\ i = Len(f) + 1
  BY <1>1, <1>3, PlainType
<1> QED
  BY <1>2, <1>4 DEF Carries

LEMMA CutCarries ==
  ASSUME NEW f \in Frames, NEW n \in 1..Len(f), NEW k \in Nat
  PROVE  Carries(SubSeq(Plain(f), 1, n), k)
<1>1. /\ n \in Nat /\ n <= Len(Plain(f)) /\ Plain(f) \in Seq(Bytes)
      /\ \A i \in 1..n : Plain(f)[i].crc = 0
  BY PlainType
<1>2. /\ SubSeq(Plain(f), 1, n) \in Seq(Bytes) /\ Len(SubSeq(Plain(f), 1, n)) = n
      /\ \A i \in 1..n : SubSeq(Plain(f), 1, n)[i] = Plain(f)[i]
  BY <1>1, TakeFacts
<1> QED
  BY <1>1, <1>2 DEF Carries

\* A frame that begins finds the line free of the sender's bytes, and its CRC,
\* if it is intact, is that of the newest entry.
Starts ==
  \E q \in Seq(Bytes), e \in Entries :
    /\ rest = <<>> /\ rest' = q /\ sent' = Append(sent, e)
    /\ \/ Carries(q, Len(sent) + 1) /\ e.intact
       \/ Carries(q, 0)
    /\ UNCHANGED <<line, program>>
    /\ pc # "fault"

LEMMA SendStarts ==
  ASSUME ServerTypeOK, NEW f \in Frames, SendFrame(f)
  PROVE  Starts
<1>1. Len(sent) + 1 \in Nat
  BY LenProperties DEF ServerTypeOK
<1>2. PICK c \in CrcBytes :
        \/ StartFrame(Append(Plain(f), [b |-> c, crc |-> Len(sent) + 1]),
                      [frame |-> f, intact |-> TRUE, heard |-> Listening,
                       asked |-> Len(log) = Len(sent) /\ \A i \in DOMAIN sent : sent[i].intact])
        \/ \E damaged \in {Append(Plain(f), [b |-> c, crc |-> 0])}
                             \cup {SubSeq(Plain(f), 1, n) : n \in 1..Len(f)} :
             StartFrame(damaged, Broken)
  BY DEF SendFrame
<1>3. CASE StartFrame(Append(Plain(f), [b |-> c, crc |-> Len(sent) + 1]),
                      [frame |-> f, intact |-> TRUE, heard |-> Listening,
                       asked |-> Len(log) = Len(sent) /\ \A i \in DOMAIN sent : sent[i].intact])
  <2> DEFINE asked == Len(log) = Len(sent) /\ \A i \in DOMAIN sent : sent[i].intact
             e == [frame |-> f, intact |-> TRUE, heard |-> Listening, asked |-> asked]
             q == Append(Plain(f), [b |-> c, crc |-> Len(sent) + 1])
  <2>1. Listening \in BOOLEAN /\ asked \in BOOLEAN
    BY DEF Listening
  <2>2. e \in Entries /\ e.intact
    <3> HIDE DEF asked
    <3> QED
      BY <2>1 DEF Entries
  <2>3. Carries(q, Len(sent) + 1)
    BY <1>1, FrameCarries
  <2>4. StartFrame(q, e)
    BY <1>3
  <2> HIDE DEF e, q
  <2> QED
    BY <2>2, <2>3, <2>4 DEF StartFrame, Starts, Carries
<1>4. ASSUME NEW damaged \in {Append(Plain(f), [b |-> c, crc |-> 0])}
                               \cup {SubSeq(Plain(f), 1, n) : n \in 1..Len(f)},
             StartFrame(damaged, Broken)
      PROVE  Starts
  <2>1. Carries(damaged, 0)
    BY FrameCarries, CutCarries
  <2>2. Broken \in Entries
    BY DEF Broken, Entries
  <2> QED
    BY <1>4, <2>1, <2>2 DEF StartFrame, Starts, Carries
<1> QED
  BY <1>2, <1>3, <1>4

-----------------------------------------------------------------------------
(* Type correctness. *)

LEMMA RecvMsg ==
  ASSUME ServerTypeOK, Recv
  PROVE  /\ msg' \in Seq(Bytes) /\ Len(msg') = Len(msg) + Need
         /\ \A i \in 1..Len(msg) : msg'[i] = msg[i]
         /\ \A i \in 1..Need : msg'[Len(msg) + i] = line[i]
<1> DEFINE read == SubSeq(line, 1, Need)
<1>1. Need \in Nat /\ Need <= Len(line) /\ line \in Seq(Bytes) /\ msg \in Seq(Bytes)
      /\ Len(line) \in Nat /\ Len(msg) \in Nat
  BY NeedNat, LenProperties DEF Recv, ServerTypeOK
<1>2. read \in Seq(Bytes) /\ Len(read) = Need /\ \A i \in 1..Need : read[i] = line[i]
  BY <1>1, TakeFacts
<1>3. msg' = msg \o read
  BY DEF Recv
<1> HIDE DEF read
<1>4. /\ msg \o read \in Seq(Bytes) /\ Len(msg \o read) = Len(msg) + Len(read)
      /\ \A i \in 1..Len(msg) + Len(read) :
           (msg \o read)[i] = IF i <= Len(msg) THEN msg[i] ELSE read[i - Len(msg)]
  BY <1>1, <1>2, ConcatProperties
<1>5. \A i \in 1..Len(msg) : msg'[i] = msg[i]
  BY <1>1, <1>2, <1>3, <1>4
<1>6. \A i \in 1..Need : (msg \o read)[Len(msg) + i] = read[i]
  BY <1>1, <1>2, <1>4
<1> QED
  BY <1>2, <1>3, <1>4, <1>5, <1>6

\* The poll's own variables: where it is, and what it has read of a message.
PollTypes ==
  /\ msg \in Seq(Bytes)
  /\ pc \in {"unit", "fc", "fixed", "payload", "crc", "fault"}
  /\ pc \in {"unit", "fault"} => msg = <<>>
  /\ pc = "fc" => Len(msg) = 1
  /\ pc = "fixed" => Len(msg) = 2
  /\ pc = "payload" => Len(msg) = 3 /\ HasPayload /\ ~TooLong(msg[3].b)
  /\ pc = "crc" => Len(msg) >= 3
  /\ buf_idx \in Nat /\ (pc # "crc" => buf_idx = 0)
  /\ pc = "crc" /\ ~(Awaiting /\ Fc = 21) =>
       buf_idx < BufSize /\ Len(msg) - buf_idx \in {0, 1}
  /\ req \in {NONE} \cup (Nat \X Nat)

LEMMA Halves ==
  ASSUME NEW n \in Nat
  PROVE  n \div 2 \in Nat /\ n - 2 * (n \div 2) \in {0, 1}
OBVIOUS

\* An index that leaves an odd byte over is not behind the bytes.
LEMMA RoundedDown ==
  ASSUME NEW n \in Nat
  PROVE  LET idx == 3 + 2 * (n \div 2)
         IN  idx \in Nat /\ idx <= 3 + n /\ 3 + n - idx \in {0, 1}
BY Halves

\* What the handlers take to be the end of the contents, and that it lies in the
\* buffer but for a reply to FC 21.
LEMMA EndsBounded ==
  ASSUME ServerTypeOK, pc = "payload", Need <= Len(line),
         ~(~Awaiting /\ Fc = 16 /\ msg[3].b > MaxBytes), NEW idx \in Ends
  PROVE  /\ idx \in Nat
         /\ ~(Awaiting /\ Fc = 21) => idx < BufSize /\ 3 + Need - idx \in {0, 1}
<1>1. /\ Need \in Nat /\ Need = msg[3].b /\ HasPayload /\ ~TooLong(Need)
      /\ MaxBytes \in Nat /\ MaxSize \in Nat /\ MaxRes \in Nat
      /\ BufSize \in Nat /\ IdxMod \in Nat /\ IdxMod > 0
      /\ 3 + MaxBytes < BufSize /\ 3 + MaxSize < BufSize /\ 3 + MaxRes < BufSize
  BY NeedNat, ServerAssumption DEF Need, ServerTypeOK
<1>2. CASE Fc # 21
  <2>1. idx = 3 + 2 * (Need \div 2)
    BY <1>2 DEF Ends
  <2>2. idx \in Nat /\ idx <= 3 + Need /\ 3 + Need - idx \in {0, 1}
    BY <1>1, <2>1, RoundedDown
  <2>3. Need <= MaxBytes \/ Need <= MaxRes
    <3>1. CASE Awaiting
      <4>1. Fc = 3
        BY <1>1, <1>2, <3>1 DEF HasPayload
      <4> QED
        BY <1>1, <3>1, <4>1 DEF TooLong
    <3>2. CASE ~Awaiting
      <4>1. Fc = 16
        BY <1>1, <1>2, <3>2 DEF HasPayload
      <4> QED
        BY <1>1, <3>2, <4>1
    <3> QED
      BY <3>1, <3>2
  <2>4. 3 + Need < BufSize
    BY <1>1, <2>3
  <2>5. idx < BufSize
    BY <1>1, <2>2, <2>4
  <2> QED
    BY <2>2, <2>5
<1>3. CASE Fc = 21 /\ ~Awaiting
  <2>1. idx = 3 + Need
    BY <1>3 DEF Ends
  <2>2. Need <= MaxSize
    BY <1>1, <1>3 DEF TooLong
  <2> QED
    BY <1>1, <2>1, <2>2
<1>4. CASE Fc = 21 /\ Awaiting
  <2>1. CASE Need = 0
    BY <1>1, <1>4, <2>1 DEF Ends
  <2>2. CASE Need # 0
    <3>1. idx = (4 + line[1].b) % IdxMod
      BY <1>4, <2>2 DEF Ends
    <3>2. line[1] \in Bytes
      <4>1. 1 \in 1..Len(line) /\ line \in Seq(Bytes)
        BY <1>1, <2>2, LenProperties DEF ServerTypeOK
      <4> QED
        BY <4>1, ElementOfSeq
    <3>3. 4 + line[1].b \in Int
      BY <3>2 DEF Bytes
    <3>4. idx \in Nat
      BY <1>1, <3>1, <3>3
    <3> QED
      BY <1>4, <3>4
  <2> QED
    BY <2>1, <2>2
<1> QED
  BY <1>2, <1>3, <1>4

LEMMA ReturnTypes ==
  ASSUME pc' \in {"unit", "fault"}, msg' = <<>>, buf_idx' = 0, req' = NONE
  PROVE  PollTypes'
BY EmptySeq DEF PollTypes

LEMMA PollTypesStep ==
  ASSUME ServerTypeOK, nmbs_server_poll
  PROVE  PollTypes'
<1>0. /\ pc \in {"unit", "fc", "fixed", "payload", "crc", "fault"}
      /\ req \in {NONE} \cup (Nat \X Nat) /\ Len(msg) \in Nat /\ Need \in Nat
  BY NeedNat, LenProperties DEF ServerTypeOK
<1>1. CASE ReadUnit
  <2>1. Need = 1 /\ Len(msg) = 0
    BY <1>1, NeedNat, EmptySeq DEF ReadUnit, ServerTypeOK
  <2> QED
    BY <1>0, <1>1, <2>1, RecvMsg DEF ReadUnit, GoOn, PollTypes
<1>2. CASE pc = "fc" /\ Recv /\ GoOn("fixed")
  <2>1. Need = 1 /\ Len(msg) = 1
    BY <1>2, NeedNat DEF ServerTypeOK
  <2> QED
    BY <1>0, <1>2, <2>1, RecvMsg DEF GoOn, PollTypes
<1>3. CASE ReadRequestFc
  BY <1>2, <1>3, ReturnTypes DEF ReadRequestFc, Return
<1>4. CASE ReadReplyFc
  BY <1>2, <1>4, ReturnTypes DEF ReadReplyFc, Return
<1>5. CASE ReadFixed
  <2>1. pc = "fixed" /\ Need = 1 /\ Len(msg) = 2
    BY <1>5, NeedNat DEF ReadFixed, ServerTypeOK
  <2>2. ASSUME Recv
        PROVE  /\ msg' \in Seq(Bytes) /\ Len(msg') = 3 /\ msg'[2] = msg[2] /\ msg'[3] = line[1]
    BY <2>1, <2>2, RecvMsg
  <2>3. CASE HasPayload /\ ~TooLong(line[1].b) /\ Recv /\ GoOn("payload")
    <3>1. Awaiting' = Awaiting /\ Fc' = Fc
      BY <2>2, <2>3 DEF Awaiting, Fc, GoOn
    <3>2. HasPayload' /\ (~TooLong(msg[3].b))'
      BY <2>2, <2>3, <3>1 DEF HasPayload, TooLong
    <3>3. pc' = "payload" /\ buf_idx' = 0 /\ req' = req
      BY <2>3 DEF GoOn
    <3>4. msg' \in Seq(Bytes) /\ Len(msg') = 3
      BY <2>2, <2>3
    <3>5. req' \in {NONE} \cup (Nat \X Nat)
      BY <1>0, <3>3
    <3> QED
      BY <3>2, <3>3, <3>4, <3>5 DEF PollTypes
  <2>4. CASE Recv /\ Footer(3)
    <3>1. 3 < BufSize
      BY ServerAssumption
    <3>2. msg' \in Seq(Bytes) /\ Len(msg') = 3 /\ pc' = "crc" /\ buf_idx' = 3
          /\ req' \in {NONE} \cup (Nat \X Nat)
      BY <1>0, <2>2, <2>4 DEF Footer
    <3>3. Len(msg') - buf_idx' \in {0, 1} /\ buf_idx' < BufSize /\ Len(msg') >= 3 /\ buf_idx' \in Nat
      BY <3>1, <3>2
    <3> QED
      BY <3>2, <3>3 DEF PollTypes
  <2> QED
    BY <1>5, <2>3, <2>4, ReturnTypes DEF ReadFixed, Return
<1>6. CASE ReadPayload
  <2>1. pc = "payload" /\ Len(msg) = 3
    BY <1>6 DEF ReadPayload, ServerTypeOK
  <2>2. CASE Return(TRUE) \/ Fault
    BY <2>2, ReturnTypes DEF Return, Fault, Halt
  <2>3. ASSUME NEW idx \in Ends, ~(~Awaiting /\ Fc = 16 /\ msg[3].b > MaxBytes), Recv, Footer(idx)
        PROVE  PollTypes'
    <3>0. Need <= Len(line)
      BY <1>6, <1>0, LenProperties DEF ReadPayload, ServerTypeOK
    <3>1. /\ idx \in Nat
          /\ ~(Awaiting /\ Fc = 21) => idx < BufSize /\ 3 + Need - idx \in {0, 1}
      BY <2>1, <2>3, <3>0, EndsBounded
    <3>2. msg' \in Seq(Bytes) /\ Len(msg') = 3 + Need /\ msg'[2] = msg[2]
      BY <2>1, <2>3, RecvMsg
    <3>3. Awaiting' = Awaiting /\ Fc' = Fc
      BY <2>3, <3>2 DEF Awaiting, Fc, Footer
    <3> QED
      BY <1>0, <2>3, <3>1, <3>2, <3>3 DEF Footer, PollTypes
  <2> QED
    BY <1>6, <2>2, <2>3 DEF ReadPayload
<1>7. CASE ReadRequestCrc
  <2>1. CASE \E flush \in BOOLEAN : Return(flush)
    BY <2>1, ReturnTypes DEF Return
  <2>2. CASE pc = "crc" /\ pc' = "unit" /\ req' = <<Unit, Fc>> /\ msg' = <<>> /\ buf_idx' = 0
    <3>1. 1 \in 1..Len(msg) /\ 2 \in 1..Len(msg) /\ msg \in Seq(Bytes)
      BY <1>0, <2>2 DEF ServerTypeOK
    <3>2. msg[1] \in Bytes /\ msg[2] \in Bytes
      BY <3>1, ElementOfSeq
    <3>3. Unit \in Nat /\ Fc \in Nat
      BY <3>2 DEF Unit, Fc, Bytes
    <3> QED
      BY <2>2, <3>3, EmptySeq DEF PollTypes
  <2>3. CASE Fault
    BY <2>3, ReturnTypes DEF Fault, Halt
  <2> QED
    BY <1>7, <2>1, <2>2, <2>3 DEF ReadRequestCrc, HandlerFaults
<1>8. CASE ReadReplyCrc \/ ReplyOverruns
  BY <1>8, ReturnTypes DEF ReadReplyCrc, ReplyOverruns, Return
<1>9. CASE Crash
  BY <1>9, ReturnTypes DEF Crash, Halt
<1>10. CASE Timeout
  BY <1>10, ReturnTypes DEF Timeout
<1> QED
  BY <1>1, <1>3, <1>4, <1>5, <1>6, <1>7, <1>8, <1>9, <1>10 DEF nmbs_server_poll

\* The address stays one, and an overrun is never forgotten.
LEMMA AddressTypes ==
  ASSUME ServerTypeOK, nmbs_server_poll
  PROVE  address' \in Nat /\ overrun' \in BOOLEAN
<1>1. address \in Nat /\ overrun \in BOOLEAN
  BY DEF ServerTypeOK
<1>2. CASE UNCHANGED address /\ UNCHANGED overrun
  BY <1>1, <1>2
<1>3. CASE ReplyOverruns
  <2>1. ASSUME NEW f \in Frames PROVE f[1] \in Nat
    <3>1. f \in Seq(Nat) /\ f # <<>>
      BY ServerAssumption
    <3> QED
      BY <3>1, NonEmpty, ElementOfSeq
  <2> QED
    BY <1>1, <1>3, <2>1 DEF ReplyOverruns
<1> QED
  BY <1>2, <1>3
  DEF nmbs_server_poll, ReadUnit, ReadRequestFc, ReadReplyFc, ReadFixed, ReadPayload, ReadRequestCrc,
      ReadReplyCrc, Crash, Timeout, HandlerFaults, Fault, Halt, Pass, Act, GoOn, Footer

LEMMA LineDropped ==
  ASSUME ServerTypeOK, NEW n \in Nat, Drops(n)
  PROVE  /\ line' \in Seq(Bytes) /\ Len(line') = Len(line) - n /\ Len(line) \in Nat
         /\ \A i \in 1..Len(line') : line'[i] = line[n + i] /\ n + i \in 1..Len(line)
<1>1. line \in Seq(Bytes) /\ Len(line) \in Nat /\ n <= Len(line)
      /\ line' = SubSeq(line, n + 1, Len(line))
  BY LenProperties DEF ServerTypeOK, Drops
<1>2. line' \in Seq(Bytes) /\ Len(line') = Len(line) - n
      /\ \A i \in 1..Len(line) - n : line'[i] = line[n + i]
  BY <1>1, DropFacts
<1> QED
  BY <1>1, <1>2

LEMMA EffectTypes ==
  ASSUME ServerTypeOK, Effect
  PROVE  line' \in Seq(Bytes) /\ rest' = rest /\ sent' = sent /\ log' \in Seq(Actions)
<1>1. PICK n \in Nat : Drops(n)
  BY DEF Effect
<1>2. line' \in Seq(Bytes) /\ rest' = rest /\ sent' = sent
  BY <1>1, LineDropped DEF Drops
<1>3. log \in Seq(Actions)
  BY DEF ServerTypeOK
<1>4. CASE log' = log
  BY <1>2, <1>3, <1>4
<1>5. ASSUME NEW a \in BOOLEAN, log' = Append(log, [of |-> 0, answered |-> a])
      PROVE  log' \in Seq(Actions)
  <2>1. [of |-> 0, answered |-> a] \in Actions
    BY DEF Actions
  <2> QED
    BY <1>3, <1>5, <2>1, AppendProperties
<1>6. CASE Acts
  <2>1. line[1] \in Bytes
    BY <1>6, NonEmpty, ElementOfSeq DEF Acts, ServerTypeOK
  <2>2. PICK a \in BOOLEAN : log' = Append(log, [of |-> line[1].crc, answered |-> a])
    BY <1>6 DEF Acts
  <2>3. [of |-> line[1].crc, answered |-> a] \in Actions
    BY <2>1 DEF Actions, Bytes
  <2> QED
    BY <1>2, <1>3, <2>2, <2>3, AppendProperties
<1> QED
  BY <1>2, <1>4, <1>5, <1>6 DEF Effect

\* What is not the poll's leaves the poll's types alone.
LEMMA PollTypesKept ==
  ASSUME ServerTypeOK, UNCHANGED program
  PROVE  PollTypes' /\ address' \in Nat /\ overrun' \in BOOLEAN /\ log' \in Seq(Actions)
<1>1. HasPayload' = HasPayload /\ (TooLong(msg[3].b))' = TooLong(msg[3].b)
      /\ Awaiting' = Awaiting /\ Fc' = Fc
  BY DEF program, HasPayload, TooLong, Awaiting, Fc
<1> QED
  BY <1>1 DEF program, PollTypes, ServerTypeOK

LEMMA ServerTypesStep ==
  ASSUME ServerTypeOK, [ServerNext]_serverVars
  PROVE  ServerTypeOK'
<1>1. CASE nmbs_server_poll
  <2>1. PollTypes'
    BY <1>1, PollTypesStep
  <2>2. line' \in Seq(Bytes) /\ rest' = rest /\ sent' = sent /\ log' \in Seq(Actions)
    BY <1>1, PollEffect, EffectTypes
  <2>3. rest' \in Seq(Bytes) /\ sent' \in Seq(Entries)
    BY <2>2 DEF ServerTypeOK
  <2>4. address' \in Nat /\ overrun' \in BOOLEAN
    BY <1>1, AddressTypes
  <2> QED
    BY <2>1, <2>2, <2>3, <2>4 DEF PollTypes, ServerTypeOK
<1>2. ASSUME NEW f \in Frames, SendFrame(f)
      PROVE  ServerTypeOK'
  <2>1. PICK q \in Seq(Bytes), e \in Entries :
          rest' = q /\ sent' = Append(sent, e) /\ UNCHANGED <<line, program>>
    BY <1>2, SendStarts DEF Starts
  <2>2. sent' \in Seq(Entries) /\ line' \in Seq(Bytes)
    BY <2>1, AppendProperties DEF ServerTypeOK
  <2>3. PollTypes' /\ address' \in Nat /\ overrun' \in BOOLEAN /\ log' \in Seq(Actions)
    BY <2>1, PollTypesKept
  <2> QED
    BY <2>1, <2>2, <2>3 DEF PollTypes, ServerTypeOK
<1>3. CASE ByteArrives
  <2>1. line \in Seq(Bytes) /\ rest \in Seq(Bytes)
    BY DEF ServerTypeOK
  <2>2. Head(rest) \in Bytes /\ Tail(rest) \in Seq(Bytes)
    BY <1>3, <2>1, HeadTailProperties DEF ByteArrives
  <2>3. line' \in Seq(Bytes) /\ rest' \in Seq(Bytes)
    BY <1>3, <2>1, <2>2, AppendProperties DEF ByteArrives
  <2>4. PollTypes' /\ address' \in Nat /\ overrun' \in BOOLEAN /\ log' \in Seq(Actions)
    BY <1>3, PollTypesKept DEF ByteArrives
  <2>5. sent' \in Seq(Entries)
    BY <1>3 DEF ByteArrives, ServerTypeOK
  <2> QED
    BY <2>3, <2>4, <2>5 DEF PollTypes, ServerTypeOK
<1>4. CASE UNCHANGED serverVars
  <2>1. PollTypes' /\ address' \in Nat /\ overrun' \in BOOLEAN /\ log' \in Seq(Actions)
    BY <1>4, PollTypesKept DEF serverVars, program
  <2>2. line' \in Seq(Bytes) /\ rest' \in Seq(Bytes) /\ sent' \in Seq(Entries)
    BY <1>4 DEF serverVars, ServerTypeOK
  <2> QED
    BY <2>1, <2>2 DEF PollTypes, ServerTypeOK
<1> QED
  BY <1>1, <1>2, <1>3, <1>4 DEF ServerNext

LEMMA ServerTypesInit == ServerInit => ServerTypeOK
<1> SUFFICES ASSUME ServerInit PROVE ServerTypeOK
  OBVIOUS
<1>1. Me \in Nat
  BY ServerAssumption
<1>2. pc = "unit" /\ msg = <<>> /\ buf_idx = 0 /\ req \in {NONE} \cup (Nat \X Nat)
  BY DEF ServerInit
<1>3. /\ line \in Seq(Bytes) /\ rest \in Seq(Bytes) /\ msg \in Seq(Bytes)
      /\ sent \in Seq(Entries) /\ log \in Seq(Actions)
  BY EmptySeq DEF ServerInit
<1>4. address \in Nat /\ overrun \in BOOLEAN
  BY <1>1 DEF ServerInit
<1> QED
  BY <1>2, <1>3, <1>4 DEF ServerTypeOK

\* The stream, the message and the poll's place in it always fit together: in
\* no state does a recv() read at another place of msg.buf than its field's.
THEOREM ServerTypes == ServerSpec => []ServerTypeOK
BY ServerTypesInit, ServerTypesStep, PTL DEF ServerSpec

-----------------------------------------------------------------------------
(* Every poll ends. *)

LEMMA PlaceInPoll ==
  ASSUME ServerTypeOK
  PROVE  /\ FieldsLeft \in 0..10
         /\ FieldsLeft = 0 <=> pc = "fault" \/ (pc = "unit" /\ ~Awaiting)
         /\ pc = "payload" => FieldsLeft = IF Awaiting THEN 2 ELSE 7
         /\ pc = "crc" => FieldsLeft = IF Awaiting THEN 1 ELSE 6
<1>1. pc \in {"unit", "fc", "fixed", "payload", "crc", "fault"}
  BY DEF ServerTypeOK
<1>2. /\ pc = "unit" => FieldsRead = 0
      /\ pc = "fc" => FieldsRead = 1
      /\ pc = "fixed" => FieldsRead = 2
      /\ pc = "payload" => FieldsRead = 3
      /\ pc = "crc" => FieldsRead = 4
  BY DEF FieldsRead
<1> QED
  BY <1>1, <1>2 DEF FieldsLeft

\* A step that takes the bytes it needs, one at least, or all there are.
LEMMA TakesAByte ==
  ASSUME ServerTypeOK, line # <<>>, pc # "payload",
         Recv \/ line' = Tail(line) \/ \E flush \in BOOLEAN : Return(flush)
  PROVE  Len(line') < Len(line)
<1>1. Need = 1 /\ line \in Seq(Bytes) /\ Len(line) \in Nat /\ 1 <= Len(line)
  BY NeedNat, NonEmpty DEF ServerTypeOK
<1>2. Len(Tail(line)) = Len(line) - 1
  BY <1>1, HeadTailProperties
<1>3. Tail(line) = SubSeq(line, 2, Len(line))
  BY <1>1, TailIsSubSeq
<1>4. Len(<<>>) = 0
  BY EmptySeq
<1>5. line' \in {<<>>, SubSeq(line, 2, Len(line))}
  BY <1>1, <1>3 DEF Recv, Return
<1> QED
  BY <1>1, <1>2, <1>3, <1>4, <1>5

LEMMA PollStepAdvances ==
  ASSUME ServerTypeOK, ServerTypeOK', nmbs_server_poll, pc' # "fault"
  PROVE  Len(line') < Len(line) \/ FieldsLeft' < FieldsLeft
<1>0. ASSUME Fault \/ Halt PROVE FALSE
  BY <1>0 DEF Fault, Halt
<1>1. CASE ReadUnit
  <2>1. Need = 1 /\ line \in Seq(Bytes) /\ Recv /\ pc = "unit"
    BY <1>1, NeedNat DEF ReadUnit, ServerTypeOK
  <2>2. line # <<>>
    BY <2>1, EmptySeq DEF Recv
  <2> QED
    BY <2>1, <2>2, TakesAByte
<1>2. CASE ReadRequestFc \/ ReadReplyFc \/ ReadFixed
  <2>1. line # <<>> /\ pc # "payload" /\ (Recv \/ Return(TRUE))
    BY <1>2 DEF ReadRequestFc, ReadReplyFc, ReadFixed
  <2> QED
    BY <2>1, TakesAByte
<1>3. CASE ReadPayload
  <2>1. pc = "payload" /\ FieldsLeft = IF Awaiting THEN 2 ELSE 7
    BY <1>3, PlaceInPoll DEF ReadPayload
  <2>2. CASE Return(TRUE)
    <3>1. pc' = "unit" /\ ~Awaiting'
      BY <2>2 DEF Return, Awaiting, NONE
    <3>2. FieldsLeft' = 0
      BY <3>1 DEF FieldsLeft
    <3> QED
      BY <2>1, <3>2
  <2>3. ASSUME NEW idx, Footer(idx)
        PROVE  Len(line') < Len(line) \/ FieldsLeft' < FieldsLeft
    <3>1. pc' = "crc" /\ Awaiting' = Awaiting
      BY <2>3 DEF Footer, Awaiting
    <3>2. FieldsRead' = 4
      BY <3>1 DEF FieldsRead
    <3>3. FieldsLeft' = IF Awaiting THEN 1 ELSE 6
      BY <3>1, <3>2 DEF FieldsLeft
    <3> QED
      BY <2>1, <3>3
  <2> QED
    BY <1>0, <1>3, <2>2, <2>3 DEF ReadPayload
<1>4. CASE ReadRequestCrc \/ ReadReplyCrc
  <2>1. /\ line # <<>> /\ pc # "payload"
        /\ line' = Tail(line) \/ \E flush \in BOOLEAN : Return(flush)
    BY <1>0, <1>4 DEF ReadRequestCrc, ReadReplyCrc, HandlerFaults
  <2> QED
    BY <2>1, TakesAByte
<1>6. CASE ReplyOverruns
  <2>1. pc = "crc" /\ Awaiting /\ pc' = "unit" /\ ~Awaiting'
    BY <1>6 DEF ReplyOverruns, Return, Awaiting, NONE
  <2>2. FieldsLeft' = 0
    BY <2>1 DEF FieldsLeft
  <2>3. FieldsLeft # 0 /\ FieldsLeft \in 0..10
    BY <2>1, PlaceInPoll
  <2> QED
    BY <2>2, <2>3
<1>7. CASE Crash
  BY <1>0, <1>7 DEF Crash
<1>5. CASE Timeout
  <2>1. pc' = "unit" /\ ~Awaiting' /\ ~(pc = "unit" /\ ~Awaiting) /\ pc # "fault"
    BY <1>5 DEF Timeout, Awaiting, NONE
  <2>2. FieldsLeft' = 0
    BY <2>1 DEF FieldsLeft
  <2>3. FieldsLeft # 0 /\ FieldsLeft \in 0..10
    BY <2>1, PlaceInPoll
  <2> QED
    BY <2>2, <2>3
<1> QED
  BY <1>1, <1>2, <1>3, <1>4, <1>5, <1>6, <1>7 DEF nmbs_server_poll

\* However the stream is cut or damaged, a poll reads the fields of two messages at
\* most, every byte once (nanomodbus.c:1921-1953): what makes the server come back to
\* listening when the line falls silent.
THEOREM PollsAdvance == ServerSpec => PollAdvances
<1> DEFINE Advance == UNCHANGED <<rest, sent>> /\ pc' # "fault" =>
             /\ \E k \in 0..Len(line) : line' = SubSeq(line, k + 1, Len(line))
             /\ Len(line') < Len(line) \/ FieldsLeft' < FieldsLeft
<1>1. ServerTypeOK /\ ServerTypeOK' /\ [ServerNext]_serverVars => [Advance]_serverVars
  <2> SUFFICES ASSUME ServerTypeOK, ServerTypeOK', ServerNext, UNCHANGED <<rest, sent>>,
                      pc' # "fault"
               PROVE  /\ \E k \in 0..Len(line) : line' = SubSeq(line, k + 1, Len(line))
                      /\ Len(line') < Len(line) \/ FieldsLeft' < FieldsLeft
    OBVIOUS
  <2>1. nmbs_server_poll
    <3>1. ASSUME NEW f \in Frames, SendFrame(f) PROVE FALSE
      <4>1. PICK q \in Seq(Bytes), e \in Entries : sent' = Append(sent, e)
        BY <3>1, SendStarts DEF Starts
      <4>2. Len(sent') = Len(sent) + 1 /\ Len(sent) \in Nat
        BY <4>1, AppendProperties, LenProperties DEF ServerTypeOK
      <4> QED
        BY <4>2
    <3>2. ASSUME ByteArrives PROVE FALSE
      <4>1. rest \in Seq(Bytes) /\ rest # <<>> /\ rest' = Tail(rest)
        BY <3>2 DEF ByteArrives, ServerTypeOK
      <4>2. Len(rest') = Len(rest) - 1 /\ Len(rest) \in Nat
        BY <4>1, HeadTailProperties, LenProperties
      <4> QED
        BY <4>2
    <3> QED
      BY <3>1, <3>2 DEF ServerNext
  <2>2. PICK m \in Nat : Drops(m)
    BY <2>1, PollEffect DEF Effect
  <2>3. m \in 0..Len(line) /\ line' = SubSeq(line, m + 1, Len(line))
    BY <2>2, LenProperties DEF Drops, ServerTypeOK
  <2> QED
    BY <2>1, <2>3, PollStepAdvances
<1> QED
  BY <1>1, ServerTypes, PTL DEF ServerSpec, PollAdvances, Advance

-----------------------------------------------------------------------------
(* The invariant. *)

LEMMA DispatchedStep ==
  ASSUME ServerTypeOK, Dispatched, [ServerNext]_serverVars
  PROVE  Dispatched'
<1>1. CASE UNCHANGED <<pc, msg, req>>
  BY <1>1 DEF Dispatched, Awaiting
<1>2. CASE pc' \in {"unit", "fc", "fault"}
  BY <1>2 DEF Dispatched
<1>3. ASSUME pc = "fc", Recv, line[1].b \in Supported
      PROVE  Dispatched'
  <2>1. Need = 1 /\ Len(msg) = 1
    BY <1>3, NeedNat DEF ServerTypeOK
  <2>2. msg'[Len(msg) + 1] = line[1]
    BY <1>3, <2>1, RecvMsg
  <2> QED
    BY <1>3, <2>1, <2>2 DEF Dispatched
<1>4. ASSUME pc \in {"fixed", "payload"}, Recv, req' = req
      PROVE  Dispatched'
  <2>0. Len(msg) = 2 \/ Len(msg) = 3
    BY <1>4 DEF ServerTypeOK
  <2>1. 2 \in 1..Len(msg)
    BY <2>0
  <2>2. msg'[2] = msg[2]
    BY <1>4, <2>1, RecvMsg
  <2> QED
    BY <1>4, <2>2 DEF Dispatched, Awaiting
<1>5. ASSUME Awaiting, req' = req
      PROVE  Dispatched'
  BY <1>5 DEF Dispatched, Awaiting
<1>6. CASE nmbs_server_poll
  <2>1. CASE ReadUnit
    BY <1>2, <2>1 DEF ReadUnit, GoOn
  <2>2. CASE ReadRequestFc
    BY <1>2, <1>3, <2>2 DEF ReadRequestFc, Return
  <2>3. CASE ReadReplyFc
    BY <1>2, <1>5, <2>3 DEF ReadReplyFc, Return, GoOn
  <2>4. CASE ReadFixed
    BY <1>2, <1>4, <2>4 DEF ReadFixed, Return, GoOn, Footer
  <2>5. CASE ReadPayload
    BY <1>2, <1>4, <2>5 DEF ReadPayload, Return, Footer, Fault, Halt
  <2>6. CASE ReadRequestCrc
    BY <1>2, <2>6 DEF ReadRequestCrc, Return, HandlerFaults, Fault, Halt
  <2>7. CASE ReadReplyCrc \/ ReplyOverruns
    BY <1>2, <2>7 DEF ReadReplyCrc, ReplyOverruns, Return
  <2>9. CASE Crash
    BY <1>2, <2>9 DEF Crash, Halt
  <2>8. CASE Timeout
    BY <1>2, <2>8 DEF Timeout
  <2> QED
    BY <1>6, <2>1, <2>2, <2>3, <2>4, <2>5, <2>6, <2>7, <2>8, <2>9 DEF nmbs_server_poll
<1>7. ASSUME NEW f \in Frames, SendFrame(f)
      PROVE  Dispatched'
  BY <1>1, <1>7, SendStarts DEF Starts, program
<1>8. CASE ByteArrives
  BY <1>1, <1>8 DEF ByteArrives, program
<1>9. CASE UNCHANGED serverVars
  BY <1>1, <1>9 DEF serverVars
<1> QED
  BY <1>6, <1>7, <1>8, <1>9 DEF ServerNext

\* The frame that is acted on: whole, for us, and read from the line.
LEMMA ActedFrame ==
  ASSUME ServerInv, Acts
  PROVE  /\ line[1].crc \in 1..Len(sent) /\ sent[line[1].crc].intact
         /\ sent[line[1].crc].frame = Values(msg)
         /\ ~overrun => ForMe(sent[line[1].crc].frame)
         /\ (~Broadcast) <=> sent[line[1].crc].frame[1] # 0
<1>1. ServerTypeOK /\ 1 \in 1..Len(line) /\ line[1].crc # 0
  BY NonEmpty DEF ServerInv, ServerTypeOK, Acts, CrcMatches
<1>2. line[1].crc \in 1..Len(sent) /\ sent[line[1].crc].intact
  BY <1>1 DEF ServerInv, Stream, Fresh
<1>3. 1 \in 1..Len(msg) /\ 2 \in 1..Len(msg) /\ DOMAIN msg = 1..Len(msg)
  <2>1. Len(msg) \in Nat /\ Len(msg) >= 3 /\ DOMAIN msg = 1..Len(msg)
    BY <1>1, LenProperties DEF ServerTypeOK, Acts
  <2> QED
    BY <2>1
<1>4. sent[line[1].crc].frame = Values(msg)
  BY DEF Acts, CrcMatches
<1>5. sent[line[1].crc].frame[1] = Unit /\ sent[line[1].crc].frame[2] = Fc
  BY <1>3, <1>4 DEF Values, Unit, Fc
<1>6. Fc \in Supported /\ (~overrun => Unit \in {0, Me})
  BY DEF ServerInv, Dispatched, AddressKept, Acts, Fc, Ignored
<1> QED
  BY <1>2, <1>4, <1>5, <1>6 DEF ForMe, Broadcast

\* While the controller runs, every request that was acted on was answered or is a
\* broadcast.
LEMMA OldEntries ==
  ASSUME ServerInv, ~overrun, pc # "fault", NEW i \in DOMAIN log, log[i].of # 0
  PROVE  /\ log[i].of \in DOMAIN sent /\ sent[log[i].of].intact
         /\ ForMe(sent[log[i].of].frame)
         /\ log[i].answered => sent[log[i].of].frame[1] # 0
         /\ sent[log[i].of].frame[1] # 0 => log[i].answered
BY DEF ServerInv, ActsOnRequests

\* The log with an entry added: older ones keep their place.
LEMMA LogGrows ==
  ASSUME ServerTypeOK, NEW a \in Actions, log' = Append(log, a)
  PROVE  /\ Len(log) \in Nat /\ Len(log') = Len(log) + 1 /\ log'[Len(log) + 1] = a
         /\ \A i \in 1..Len(log) : log'[i] = log[i] /\ log[i].of \in Nat
<1>1. log \in Seq(Actions) /\ Len(log) \in Nat
  BY LenProperties DEF ServerTypeOK
<1>2. \A i \in 1..Len(log) : log[i] \in Actions
  BY <1>1, ElementOfSeq
<1>3. /\ Len(Append(log, a)) = Len(log) + 1 /\ Append(log, a)[Len(log) + 1] = a
      /\ \A i \in 1..Len(log) : Append(log, a)[i] = log[i]
  BY <1>1, AppendProperties
<1> QED
  BY <1>1, <1>2, <1>3 DEF Actions

\* A poll that acts on no frame.
LEMMA LogStepNobody ==
  ASSUME ServerInv, Effect, ServerTypeOK',
         \/ log' = log
         \/ \E a \in BOOLEAN : log' = Append(log, [of |-> 0, answered |-> a])
  PROVE  /\ ActsOnRequests'
         /\ \A l \in 1..Len(log') : log'[l].of = 0 \/ \E k \in 1..Len(log) : log'[l].of = log[k].of
<1>1. ServerTypeOK /\ ActsOnRequests /\ sent' = sent /\ pc # "fault"
  BY DEF ServerInv, Effect, Drops
<1>2. /\ \A i \in DOMAIN log' : log'[i].of # 0 => i \in DOMAIN log /\ log'[i] = log[i]
      /\ \A l \in 1..Len(log') :
           log'[l].of = 0 \/ \E k \in 1..Len(log) : log'[l].of = log[k].of
  <2>1. CASE log' = log
    BY <2>1
  <2>2. ASSUME NEW a \in BOOLEAN, log' = Append(log, [of |-> 0, answered |-> a])
        PROVE  <1>2!1 /\ <1>2!2
    <3>1. [of |-> 0, answered |-> a] \in Actions
      BY DEF Actions
    <3>2. /\ Len(log) \in Nat /\ Len(log') = Len(log) + 1 /\ log'[Len(log) + 1].of = 0
          /\ \A i \in 1..Len(log) : log'[i] = log[i]
      BY <1>1, <2>2, <3>1, LogGrows
    <3>3. \A i \in 1..Len(log') : i \in 1..Len(log) \/ log'[i].of = 0
      BY <3>2
    <3>4. DOMAIN log = 1..Len(log) /\ DOMAIN log' = 1..Len(log')
      BY <1>1, LenProperties DEF ServerTypeOK
    <3> QED
      BY <3>2, <3>3, <3>4
  <2> QED
    BY <2>1, <2>2
<1>3. ActsOnRequests'
  <2> SUFFICES ASSUME ~overrun' PROVE ActsOnRequests'
    BY DEF ActsOnRequests
  <2>1. ~overrun
    BY DEF Effect
  <2>2. \A i \in DOMAIN log' : log'[i].of # 0 =>
          /\ log'[i].of \in DOMAIN sent /\ sent[log'[i].of].intact
          /\ ForMe(sent[log'[i].of].frame)
          /\ log'[i].answered => sent[log'[i].of].frame[1] # 0
          /\ sent[log'[i].of].frame[1] # 0 => log'[i].answered
    BY <1>1, <1>2, <2>1, OldEntries
  <2>3. \A i, j \in DOMAIN log' :
          i < j /\ log'[i].of # 0 /\ log'[j].of # 0 => log'[i].of < log'[j].of
    BY <1>1, <1>2, <2>1 DEF ActsOnRequests
  <2> QED
    BY <1>1, <2>2, <2>3 DEF ActsOnRequests
<1> QED
  BY <1>2, <1>3

\* A poll that acts on the request on the line.
LEMMA LogStepActs ==
  ASSUME ServerInv, Effect, Acts, ServerTypeOK'
  PROVE  /\ ActsOnRequests'
         /\ \A l \in 1..Len(log') : log'[l].of <= line[1].crc
<1> DEFINE k == line[1].crc
<1>1. ServerTypeOK /\ ActsOnRequests /\ Fresh(line) /\ pc # "fault"
  BY DEF ServerInv, Stream, Effect
<1>2. k \in 1..Len(sent) /\ sent[k].intact /\ sent[k].frame = Values(msg)
      /\ (~overrun => ForMe(sent[k].frame))
      /\ (~Broadcast <=> sent[k].frame[1] # 0) /\ sent' = sent /\ Len(sent) \in Nat
  BY <1>1, ActedFrame, LenProperties DEF Acts, Drops, ServerTypeOK
<1>3. PICK answered \in BOOLEAN :
        /\ log' = Append(log, [of |-> k, answered |-> answered])
        /\ answered => ~Broadcast
        /\ ~answered /\ ~Broadcast => pc' = "fault" /\ ~OneRecord(Values(msg))
  BY DEF Acts
<1>4. \A l \in 1..Len(log) : log[l].of < k
  <2>1. 1 \in 1..Len(line) /\ k # 0
    BY <1>1, NonEmpty DEF Acts, CrcMatches, ServerTypeOK
  <2> QED
    BY <1>1, <2>1 DEF Fresh
<1> DEFINE a == [of |-> k, answered |-> answered]
<1>5. a.of = k /\ a.answered = answered /\ log' = Append(log, a)
  BY <1>3
<1>0. a \in Actions
  BY <1>2 DEF Actions
<1> HIDE DEF a, k
<1>6. /\ Len(log) \in Nat /\ Len(log') = Len(log) + 1 /\ log'[Len(log) + 1] = a
      /\ \A i \in 1..Len(log) : log'[i] = log[i] /\ log[i].of \in Nat
  BY <1>0, <1>1, <1>5, LogGrows
<1>7. DOMAIN log = 1..Len(log) /\ DOMAIN log' = 1..Len(log') /\ DOMAIN sent = 1..Len(sent)
  BY <1>1, LenProperties DEF ServerTypeOK
<1>8. \A i \in DOMAIN log' : i \in DOMAIN log \/ (i = Len(log) + 1 /\ log'[i] = a)
  BY <1>6, <1>7
<1>11. ActsOnRequests'
  <2> SUFFICES ASSUME ~overrun' PROVE ActsOnRequests'
    BY DEF ActsOnRequests
  <2>0. ~overrun
    BY DEF Effect
  <2>1. ASSUME NEW i \in DOMAIN log', log'[i].of # 0
        PROVE  /\ log'[i].of \in DOMAIN sent /\ sent[log'[i].of].intact
               /\ ForMe(sent[log'[i].of].frame)
               /\ log'[i].answered => sent[log'[i].of].frame[1] # 0
               /\ ~log'[i].answered /\ sent[log'[i].of].frame[1] # 0 =>
                    pc' = "fault" /\ i = Len(log') /\ ~OneRecord(sent[log'[i].of].frame)
    <3>1. CASE i \in DOMAIN log
      <4>1. log'[i] = log[i]
        BY <1>6, <1>7, <3>1
      <4> QED
        BY <1>1, <2>0, <2>1, <3>1, <4>1, OldEntries
    <3>2. CASE i = Len(log) + 1 /\ log'[i] = a
      BY <1>2, <1>3, <1>5, <1>6, <1>7, <2>0, <3>2
    <3> QED
      BY <1>8, <3>1, <3>2
  <2>2. ASSUME NEW i \in DOMAIN log', NEW j \in DOMAIN log',
               i < j, log'[i].of # 0, log'[j].of # 0
        PROVE  log'[i].of < log'[j].of
    <3>1. i \in DOMAIN log /\ log'[i] = log[i]
      BY <1>6, <1>7, <2>2
    <3>2. CASE j \in DOMAIN log
      <4>1. log'[j] = log[j]
        BY <1>6, <1>7, <3>2
      <4> QED
        BY <1>1, <2>0, <2>2, <3>1, <3>2, <4>1 DEF ActsOnRequests
    <3>3. CASE log'[j] = a
      BY <1>4, <1>5, <1>7, <3>1, <3>3
    <3> QED
      BY <1>8, <3>2, <3>3
  <2> QED
    BY <1>2, <2>1, <2>2 DEF ActsOnRequests
<1>12. \A l \in 1..Len(log') : log'[l].of <= k
  BY <1>2, <1>4, <1>5, <1>6, <1>7, <1>8
<1> QED
  BY <1>11, <1>12 DEF k

\* A step of the poll leaves a later part of the line, whose CRCs are behind
\* the request it acted on.
LEMMA StreamStepPoll ==
  ASSUME ServerInv, Effect, ServerTypeOK'
  PROVE  Stream' /\ AddressKept' /\ ActsOnRequests'
<1>1. ServerTypeOK /\ Stream
  BY DEF ServerInv
<1>2. PICK n \in Nat : Drops(n) /\ (Acts => n = 1)
  BY DEF Effect, Acts
<1>3. /\ rest' = rest /\ sent' = sent /\ Len(line) \in Nat
      /\ \A i \in 1..Len(line') : line'[i] = line[n + i] /\ n + i \in 1..Len(line)
      /\ Len(line') \in Nat
  BY <1>1, <1>2, LineDropped, LenProperties DEF Drops, ServerTypeOK
<1>4. /\ ActsOnRequests'
      /\ \/ \A l \in 1..Len(log') :
              log'[l].of = 0 \/ \E m \in 1..Len(log) : log'[l].of = log[m].of
         \/ Acts /\ \A l \in 1..Len(log') : log'[l].of <= line[1].crc
  BY <1>3, LogStepNobody, LogStepActs DEF Effect
<1>5. ASSUME NEW k \in Nat, k # 0, \A m \in 1..Len(log) : log[m].of < k,
             Acts => line[1].crc < k
      PROVE  \A l \in 1..Len(log') : log'[l].of < k
  <2>1. CASE \A l \in 1..Len(log') :
               log'[l].of = 0 \/ \E m \in 1..Len(log) : log'[l].of = log[m].of
    BY <1>5, <2>1
  <2>2. CASE Acts /\ \A l \in 1..Len(log') : log'[l].of <= line[1].crc
    <3> SUFFICES ASSUME NEW l \in 1..Len(log') PROVE log'[l].of < k
      OBVIOUS
    <3>1. log'[l].of \in Nat
      <4>1. log' \in Seq(Actions)
        BY DEF ServerTypeOK
      <4>2. log'[l] \in Actions
        BY <4>1, ElementOfSeq
      <4> QED
        BY <4>2 DEF Actions
    <3>2. line[1].crc \in Nat
      <4>1. line \in Seq(Bytes) /\ line # <<>>
        BY <1>1, <2>2 DEF Acts, ServerTypeOK
      <4>2. line[1] \in Bytes
        BY <4>1, NonEmpty, ElementOfSeq
      <4> QED
        BY <4>2 DEF Bytes
    <3>3. log'[l].of <= line[1].crc /\ line[1].crc < k
      BY <1>5, <2>2
    <3> QED
      BY <3>1, <3>2, <3>3
  <2> QED
    BY <1>4, <2>1, <2>2
<1>6. Acts => 1 \in 1..Len(line) /\ line[1].crc # 0
  BY <1>1, NonEmpty DEF Acts, CrcMatches, ServerTypeOK
<1>7. Fresh(line)'
  <2> SUFFICES ASSUME NEW i \in 1..Len(line'), line'[i].crc # 0
               PROVE  /\ line'[i].crc \in 1..Len(sent) /\ sent[line'[i].crc].intact
                      /\ \A l \in 1..Len(log') : log'[l].of < line'[i].crc
    BY <1>3 DEF Fresh
  <2> DEFINE j == n + i
  <2>1. line'[i] = line[j] /\ j \in 1..Len(line)
    BY <1>3
  <2>2. Acts => 1 < j
    BY <1>2, <2>1
  <2> HIDE DEF j
  <2>3. /\ line[j].crc \in 1..Len(sent) /\ sent[line[j].crc].intact
        /\ \A l \in 1..Len(log) : log[l].of < line[j].crc
    BY <1>1, <2>1 DEF Stream, Fresh
  <2>4. Acts => line[1].crc < line[j].crc
    BY <1>1, <1>6, <2>1, <2>2 DEF Stream, Ordered
  <2>5. line[j].crc \in Nat
    BY <2>3
  <2> QED
    BY <1>5, <2>1, <2>3, <2>4, <2>5
<1>8. Fresh(rest)'
  <2> SUFFICES ASSUME NEW i \in 1..Len(rest), rest[i].crc # 0
               PROVE  /\ rest[i].crc \in 1..Len(sent) /\ sent[rest[i].crc].intact
                      /\ \A l \in 1..Len(log') : log'[l].of < rest[i].crc
    BY <1>3 DEF Fresh
  <2>1. /\ rest[i].crc \in 1..Len(sent) /\ sent[rest[i].crc].intact
        /\ \A l \in 1..Len(log) : log[l].of < rest[i].crc
    BY <1>1 DEF Stream, Fresh
  <2>2. Acts => line[1].crc < rest[i].crc
    BY <1>1, <1>6 DEF Stream
  <2> QED
    BY <1>5, <2>1, <2>2
<1>9. Ordered(line)'
  <2> SUFFICES ASSUME NEW i \in 1..Len(line'), NEW j \in 1..Len(line'),
                      i < j, line'[i].crc # 0, line'[j].crc # 0
               PROVE  line'[i].crc < line'[j].crc
    BY DEF Ordered
  <2>1. /\ line'[i] = line[n + i] /\ line'[j] = line[n + j] /\ n + i < n + j
        /\ n + i \in 1..Len(line) /\ n + j \in 1..Len(line)
    BY <1>3
  <2> QED
    BY <1>1, <2>1 DEF Stream, Ordered
<1>10. Ordered(rest)'
  BY <1>1, <1>3 DEF Stream, Ordered
<1>11. \A i \in 1..Len(line'), j \in 1..Len(rest') :
         line'[i].crc # 0 /\ rest'[j].crc # 0 => line'[i].crc < rest'[j].crc
  BY <1>1, <1>3 DEF Stream
<1>12. \A l \in 1..Len(log') : log'[l].of \in 0..Len(sent')
  <2> SUFFICES ASSUME NEW l \in 1..Len(log') PROVE log'[l].of \in 0..Len(sent)
    BY <1>3
  <2>0. Len(sent) \in Nat
    BY <1>1, LenProperties DEF ServerTypeOK
  <2>1. CASE log'[l].of = 0 \/ \E m \in 1..Len(log) : log'[l].of = log[m].of
    BY <1>1, <2>0, <2>1 DEF Stream
  <2>2. CASE Acts /\ log'[l].of <= line[1].crc
    <3>1. line[1].crc \in 1..Len(sent)
      BY <1>1, <1>6, <2>2 DEF Stream, Fresh
    <3>2. log'[l].of \in Nat
      <4>1. log' \in Seq(Actions)
        BY DEF ServerTypeOK
      <4>2. log'[l] \in Actions
        BY <4>1, ElementOfSeq
      <4> QED
        BY <4>2 DEF Actions
    <3> QED
      BY <2>0, <2>2, <3>1, <3>2
  <2> QED
    BY <1>4, <2>1, <2>2
<1>13. AddressKept'
  BY DEF ServerInv, AddressKept, Effect
<1> QED
  BY <1>4, <1>7, <1>8, <1>9, <1>10, <1>11, <1>12, <1>13 DEF Stream

LEMMA StreamStepStarts ==
  ASSUME ServerInv, Starts, ServerTypeOK'
  PROVE  Stream' /\ AddressKept' /\ ActsOnRequests'
<1>1. ServerTypeOK /\ Stream /\ ActsOnRequests
  BY DEF ServerInv
<1>2. PICK q \in Seq(Bytes), e \in Entries :
        /\ rest' = q /\ sent' = Append(sent, e)
        /\ (Carries(q, Len(sent) + 1) /\ e.intact) \/ Carries(q, 0)
        /\ UNCHANGED <<line, pc, address, overrun, log>>
  BY DEF Starts, program
<1>3. /\ Len(sent) \in Nat /\ Len(sent') = Len(sent) + 1 /\ sent'[Len(sent) + 1] = e
      /\ \A k \in 1..Len(sent) : sent'[k] = sent[k]
      /\ DOMAIN sent = 1..Len(sent) /\ DOMAIN sent' = 1..Len(sent')
  <2>1. sent \in Seq(Entries) /\ sent' \in Seq(Entries)
    BY <1>1 DEF ServerTypeOK
  <2> QED
    BY <1>2, <2>1, AppendProperties, LenProperties
<1>4. \A k \in 1..Len(sent) : k \in 1..Len(sent') /\ k < Len(sent) + 1
  BY <1>3
<1>5. \A l \in 1..Len(log) : log[l].of < Len(sent) + 1 /\ log[l].of \in 0..Len(sent')
  BY <1>1, <1>3 DEF Stream
<1>6. \A i \in 1..Len(q) : q[i].crc # 0 =>
        q[i].crc = Len(sent) + 1 /\ e.intact /\ i = Len(q)
  BY <1>2 DEF Carries
<1>7. Fresh(line)'
  BY <1>1, <1>2, <1>3, <1>4 DEF Stream, Fresh
<1>8. Fresh(rest)'
  <2> SUFFICES ASSUME NEW i \in 1..Len(q), q[i].crc # 0
               PROVE  /\ q[i].crc \in 1..Len(sent') /\ sent'[q[i].crc].intact
                      /\ \A l \in 1..Len(log) : log[l].of < q[i].crc
    BY <1>2 DEF Fresh
  <2>1. q[i].crc = Len(sent) + 1 /\ e.intact
    BY <1>6
  <2> QED
    BY <1>3, <1>5, <2>1
<1>9. Ordered(rest)'
  <2> SUFFICES ASSUME NEW i \in 1..Len(q), NEW j \in 1..Len(q),
                      i < j, q[i].crc # 0, q[j].crc # 0
               PROVE  FALSE
    BY <1>2 DEF Ordered
  <2>1. i = j
    BY <1>6
  <2> QED
    BY <2>1
<1>10. \A i \in 1..Len(line), j \in 1..Len(q) :
         line[i].crc # 0 /\ q[j].crc # 0 => line[i].crc < q[j].crc
  BY <1>1, <1>4, <1>6 DEF Stream, Fresh
<1>11. Stream'
  BY <1>1, <1>2, <1>5, <1>7, <1>8, <1>9, <1>10 DEF Stream, Ordered
<1>12. ActsOnRequests'
  BY <1>1, <1>2, <1>3, <1>4 DEF ActsOnRequests
<1>13. AddressKept'
  BY <1>2 DEF ServerInv, AddressKept
<1> QED
  BY <1>11, <1>12, <1>13

LEMMA StreamStepArrives ==
  ASSUME ServerInv, ByteArrives
  PROVE  Stream' /\ AddressKept' /\ ActsOnRequests'
<1>1. ServerTypeOK /\ Stream /\ ActsOnRequests
  BY DEF ServerInv
<1>2. line \in Seq(Bytes) /\ rest \in Seq(Bytes) /\ rest # <<>>
      /\ line' = Append(line, Head(rest)) /\ rest' = Tail(rest)
      /\ UNCHANGED <<pc, address, overrun, sent, log>>
  BY <1>1 DEF ServerTypeOK, ByteArrives, program
<1>3. Len(line) \in Nat /\ Len(rest) \in Nat \ {0} /\ Head(rest) = rest[1]
  BY <1>2, EmptySeq, LenProperties
<1>4. /\ Head(rest) \in Bytes /\ Len(rest') = Len(rest) - 1
      /\ \A i \in 1..Len(rest') : rest'[i] = rest[i + 1]
  BY <1>2, HeadTailProperties
<1>5. /\ Len(line') = Len(line) + 1 /\ line'[Len(line) + 1] = rest[1]
      /\ \A i \in 1..Len(line) : line'[i] = line[i]
  BY <1>2, <1>3, <1>4, AppendProperties
<1>6. \A i \in 1..Len(line') : \/ i \in 1..Len(line) /\ line'[i] = line[i]
                               \/ i = Len(line) + 1 /\ line'[i] = rest[1]
  BY <1>3, <1>5
<1>7. \A i \in 1..Len(rest') : rest'[i] = rest[i + 1] /\ i + 1 \in 1..Len(rest) /\ 1 < i + 1
  BY <1>3, <1>4
<1>8. 1 \in 1..Len(rest)
  BY <1>3
<1>9. Fresh(line)' /\ Fresh(rest)'
  BY <1>1, <1>2, <1>6, <1>7, <1>8 DEF Stream, Fresh
<1>10. Ordered(line)'
  <2> SUFFICES ASSUME NEW i \in 1..Len(line'), NEW j \in 1..Len(line'),
                      i < j, line'[i].crc # 0, line'[j].crc # 0
               PROVE  line'[i].crc < line'[j].crc
    BY DEF Ordered
  <2>1. i \in 1..Len(line) /\ line'[i] = line[i]
    BY <1>3, <1>5, <1>6
  <2> QED
    BY <1>1, <1>6, <1>8, <2>1 DEF Stream, Ordered
<1>11. Ordered(rest)'
  <2> SUFFICES ASSUME NEW i \in 1..Len(rest'), NEW j \in 1..Len(rest'),
                      i < j, rest'[i].crc # 0, rest'[j].crc # 0
               PROVE  rest'[i].crc < rest'[j].crc
    BY DEF Ordered
  <2>1. /\ rest'[i] = rest[i + 1] /\ rest'[j] = rest[j + 1] /\ i + 1 < j + 1
        /\ i + 1 \in 1..Len(rest) /\ j + 1 \in 1..Len(rest)
    BY <1>7
  <2> QED
    BY <1>1, <2>1 DEF Stream, Ordered
<1>12. \A i \in 1..Len(line'), j \in 1..Len(rest') :
         line'[i].crc # 0 /\ rest'[j].crc # 0 => line'[i].crc < rest'[j].crc
  <2> SUFFICES ASSUME NEW i \in 1..Len(line'), NEW j \in 1..Len(rest'),
                      line'[i].crc # 0, rest'[j].crc # 0
               PROVE  line'[i].crc < rest'[j].crc
    OBVIOUS
  <2>1. rest'[j] = rest[j + 1] /\ j + 1 \in 1..Len(rest) /\ 1 < j + 1
    BY <1>7
  <2>2. CASE i \in 1..Len(line) /\ line'[i] = line[i]
    BY <1>1, <2>1, <2>2 DEF Stream
  <2>3. CASE line'[i] = rest[1]
    BY <1>1, <1>8, <2>1, <2>3 DEF Stream, Ordered
  <2> QED
    BY <1>6, <2>2, <2>3
<1>13. ActsOnRequests'
  BY <1>1, <1>2 DEF ActsOnRequests
<1>14. AddressKept' /\ \A l \in 1..Len(log') : log'[l].of \in 0..Len(sent')
  BY <1>1, <1>2 DEF ServerInv, AddressKept, Stream
<1> QED
  BY <1>9, <1>10, <1>11, <1>12, <1>13, <1>14 DEF Stream

LEMMA ServerInvInit == ServerInit => ServerInv
<1> SUFFICES ASSUME ServerInit PROVE ServerInv
  OBVIOUS
<1>1. Len(line) = 0 /\ Len(rest) = 0 /\ 1..Len(line) = {} /\ 1..Len(rest) = {}
  BY EmptySeq DEF ServerInit
<1>3. DOMAIN log = {} /\ 1..Len(log) = {}
  BY EmptySeq DEF ServerInit
<1>2. Stream
  BY <1>1, <1>3 DEF Stream, Fresh, Ordered
<1>4. ActsOnRequests
  BY <1>3 DEF ActsOnRequests
<1>5. Dispatched /\ AddressKept
  BY DEF ServerInit, Dispatched, AddressKept
<1> QED
  BY <1>2, <1>4, <1>5, ServerTypesInit DEF ServerInv

LEMMA ServerInvStep ==
  ASSUME ServerInv, [ServerNext]_serverVars
  PROVE  ServerInv'
<1>1. ServerTypeOK' /\ Dispatched'
  BY ServerTypesStep, DispatchedStep DEF ServerInv
<1>2. CASE nmbs_server_poll
  BY <1>1, <1>2, PollEffect, StreamStepPoll DEF ServerInv
<1>3. ASSUME NEW f \in Frames, SendFrame(f)
      PROVE  ServerInv'
  BY <1>1, <1>3, SendStarts, StreamStepStarts DEF ServerInv
<1>4. CASE ByteArrives
  BY <1>1, <1>4, StreamStepArrives DEF ServerInv
<1>5. CASE UNCHANGED serverVars
  BY <1>1, <1>5 DEF serverVars, ServerInv, Stream, Fresh, Ordered, AddressKept, ActsOnRequests
<1> QED
  BY <1>2, <1>3, <1>4, <1>5 DEF ServerNext

\* Whatever is sent, however it is cut, damaged or misread: the server acts
\* only on whole requests to it, in their order and at most once each, and
\* answers all of them but the broadcasts.
THEOREM ServerActsOnRequests == ServerSpec => []ActsOnRequests
<1>1. ServerInv => ActsOnRequests
  BY DEF ServerInv
<1> QED
  BY <1>1, ServerInvInit, ServerInvStep, PTL DEF ServerSpec

-----------------------------------------------------------------------------
(* A request that begins when the server listens is served, if requests to    *)
(* this unit have the length that their own fields say (WellSized).           *)

\* A request that the server has to serve and has not served yet.
Pending(k) == sent[k].heard /\ Wanted(k) /\ ~Served(k)

\* Byte i of what the server reads from the beginning of frame k on.
Matches(t, k, i) ==
  /\ i <= Len(sent[k].frame) => t.b = sent[k].frame[i]
  /\ i = Len(sent[k].frame) + 1 => t.crc = k

\* What is read, what has arrived and what is to come begin with frame k.
OnItsWay(k) ==
  /\ Len(msg) + Len(line) + Len(rest) > Len(sent[k].frame)
  /\ \A i \in 1..Len(msg) : Matches(msg[i], k, i)
  /\ \A i \in 1..Len(line) : Matches(line[i], k, Len(msg) + i)
  /\ \A i \in 1..Len(rest) : Matches(rest[i], k, Len(msg) + Len(line) + i)

InStep(k) ==
  /\ ~Awaiting
  /\ pc = "payload" => sent[k].frame[2] \in {16, 21}
  /\ pc = "crc" => Len(msg) = Len(sent[k].frame) /\ buf_idx = Len(msg)

Hearing(k) == OnItsWay(k) /\ InStep(k)
HeardInv ==
  \A k \in 1..Len(sent) :
    sent[k].heard => sent[k].frame \in Frames /\ (Pending(k) => Hearing(k))

\* What holds until memory behind the buffer is written.
HeardState == ServerTypeOK /\ AddressKept /\ (~overrun => HeardInv)

\* A request to this unit: its length and its first bytes.
LEMMA WantedFrame ==
  ASSUME ServerTypeOK, WellSized, NEW k \in 1..Len(sent), Wanted(k), sent[k].frame \in Frames
  PROVE  LET f == sent[k].frame
         IN  /\ Len(f) \in Nat /\ Len(f) >= 3 /\ f[1] \in {0, Me} /\ f[2] \in Supported
             /\ \A i \in 1..Len(f) : f[i] \in Nat
             /\ f[2] \in {16, 21} => Len(f) = 3 + f[3]
             /\ f[2] \notin {16, 21} => Len(f) = 3
             /\ f[2] = 16 => f[3] <= MaxBytes /\ f[3] % 2 = 0
             /\ f[2] = 21 => f[3] <= MaxSize
<1>2. sent[k].frame \in Seq(Nat)
  BY ServerAssumption
<1>3. ForMe(sent[k].frame) /\ Wellformed(sent[k].frame)
  BY DEF Wanted
<1>4. /\ Len(sent[k].frame) \in Nat
      /\ \A i \in 1..Len(sent[k].frame) : sent[k].frame[i] \in Nat
  BY <1>2, LenProperties, ElementOfSeq
<1>5. Len(sent[k].frame) >= 3
      /\ Len(sent[k].frame) = IF sent[k].frame[2] \in {16, 21} THEN 3 + sent[k].frame[3] ELSE 3
  BY <1>2, <1>3 DEF WellSized
<1> QED
  BY <1>3, <1>4, <1>5 DEF ForMe, Wellformed

LEMMA Lengths ==
  ASSUME ServerTypeOK
  PROVE  /\ Len(msg) \in Nat /\ Len(line) \in Nat /\ Len(rest) \in Nat
         /\ \A i \in 1..Len(msg) : msg[i] \in Bytes
         /\ \A i \in 1..Len(line) : line[i] \in Bytes
         /\ Len(sent) \in Nat /\ Len(log) \in Nat
BY LenProperties, ElementOfSeq DEF ServerTypeOK

\* A recv() moves bytes from the line to the message.
LEMMA RecvOnItsWay ==
  ASSUME ServerTypeOK, NEW k \in 1..Len(sent), OnItsWay(k), Recv, UNCHANGED <<rest, sent>>
  PROVE  OnItsWay(k)'
<1>1. Need \in Nat /\ Len(msg) \in Nat /\ Len(line) \in Nat /\ Len(rest) \in Nat
  BY NeedNat, Lengths
<1>2. Drops(Need) /\ Need <= Len(line)
  BY <1>1 DEF Recv, Drops
<1>3. Len(line') = Len(line) - Need
      /\ \A i \in 1..Len(line') : line'[i] = line[Need + i] /\ Need + i \in 1..Len(line)
  BY <1>1, <1>2, LineDropped
<1>4. /\ Len(msg') = Len(msg) + Need
      /\ \A i \in 1..Len(msg) : msg'[i] = msg[i]
      /\ \A i \in 1..Need : msg'[Len(msg) + i] = line[i]
  BY RecvMsg
<1>5. \A i \in 1..Len(msg') : Matches(msg'[i], k, i)
  <2> SUFFICES ASSUME NEW i \in 1..Len(msg') PROVE Matches(msg'[i], k, i)
    OBVIOUS
  <2>1. CASE i \in 1..Len(msg)
    BY <1>4, <2>1 DEF OnItsWay
  <2>2. CASE i \notin 1..Len(msg)
    <3>1. i - Len(msg) \in 1..Need /\ i - Len(msg) \in 1..Len(line) /\ Len(msg) + (i - Len(msg)) = i
      BY <1>1, <1>2, <1>4, <2>2
    <3>2. msg'[i] = line[i - Len(msg)]
      BY <1>4, <3>1
    <3> QED
      BY <3>1, <3>2 DEF OnItsWay
  <2> QED
    BY <2>1, <2>2
<1>6. \A i \in 1..Len(line') : Matches(line'[i], k, Len(msg') + i)
  <2> SUFFICES ASSUME NEW i \in 1..Len(line') PROVE Matches(line'[i], k, Len(msg') + i)
    OBVIOUS
  <2>1. line'[i] = line[Need + i] /\ Need + i \in 1..Len(line)
    BY <1>1, <1>3
  <2>2. Len(msg') + i = Len(msg) + (Need + i)
    BY <1>1, <1>3, <1>4
  <2> QED
    BY <2>1, <2>2 DEF OnItsWay
<1>7. Len(msg') + Len(line') = Len(msg) + Len(line)
  BY <1>1, <1>3, <1>4
<1> QED
  BY <1>5, <1>6, <1>7 DEF OnItsWay, Matches

\* What one step of the poll makes of a request that is on its way.
Kept(k) == Served(k)' \/ Hearing(k)'

\* The facts of the steps below: the message so far is the beginning of frame k.
Place(k) ==
  /\ k \in 1..Len(sent) /\ WellSized /\ ServerTypeOK
  /\ Wanted(k) /\ sent[k].frame \in Frames /\ Hearing(k)
  /\ ~overrun /\ address = Me

\* The next byte on the line is the next one of the frame.
LEMMA NextByte ==
  ASSUME NEW k, Place(k), line # <<>>
  PROVE  1 \in 1..Len(line) /\ Matches(line[1], k, Len(msg) + 1)
BY NonEmpty DEF Place, Hearing, OnItsWay, ServerTypeOK

LEMMA HeadOfMsg ==
  ASSUME NEW k, Place(k)
  PROVE  /\ Len(msg) >= 1 => Unit = sent[k].frame[1]
         /\ Len(msg) >= 2 => Fc = sent[k].frame[2]
         /\ Len(msg) >= 3 => msg[3].b = sent[k].frame[3]
<1>1. Len(msg) \in Nat /\ Len(sent[k].frame) \in Nat /\ Len(sent[k].frame) >= 3
  BY Lengths, WantedFrame DEF Place
<1>2. \A i \in 1..Len(msg) : i <= Len(sent[k].frame) => msg[i].b = sent[k].frame[i]
  BY DEF Place, Hearing, OnItsWay, Matches
<1> QED
  BY <1>1, <1>2 DEF Unit, Fc

LEMMA KeptUnit ==
  ASSUME NEW k, Place(k), ReadUnit
  PROVE  Hearing(k)'
<1>1. OnItsWay(k)'
  BY RecvOnItsWay DEF Place, Hearing, ReadUnit, GoOn
<1> QED
  BY <1>1 DEF Place, Hearing, InStep, ReadUnit, GoOn, Awaiting

LEMMA KeptFc ==
  ASSUME NEW k, Place(k), ReadRequestFc
  PROVE  Hearing(k)'
<1>1. Len(msg) = 1 /\ line # <<>>
  BY DEF Place, ServerTypeOK, ReadRequestFc
<1>2. line[1].b = sent[k].frame[2] /\ sent[k].frame[2] \in Supported
  BY <1>1, NextByte, WantedFrame DEF Place, Matches
<1>3. Recv /\ GoOn("fixed")
  BY <1>2 DEF ReadRequestFc
<1>4. OnItsWay(k)'
  BY <1>3, RecvOnItsWay DEF Place, Hearing, GoOn
<1> QED
  BY <1>3, <1>4 DEF Place, Hearing, InStep, GoOn, Awaiting

LEMMA KeptFixed ==
  ASSUME NEW k, Place(k), ReadFixed
  PROVE  Hearing(k)'
<1> DEFINE f == sent[k].frame
<1>1. Len(msg) = 2 /\ line # <<>> /\ ~Awaiting /\ Need = 1
  BY NeedNat DEF Place, Hearing, InStep, ServerTypeOK, ReadFixed
<1>2. Fc = f[2] /\ line[1].b = f[3]
  BY <1>1, HeadOfMsg, NextByte, WantedFrame DEF Place, Matches
<1>3. HasPayload <=> f[2] \in {16, 21}
  BY <1>1, <1>2 DEF HasPayload
<1>4. ~TooLong(line[1].b)
  <2>1. CASE f[2] = 21
    <3>1. f[3] \in Nat /\ f[3] <= MaxSize
      BY <2>1, WantedFrame DEF Place
    <3> QED
      BY <1>1, <1>2, <3>1, ServerAssumption DEF TooLong
  <2>2. CASE f[2] # 21
    BY <1>1, <1>2, <2>2 DEF TooLong
  <2> QED
    BY <2>1, <2>2
<1>5. /\ Recv /\ UNCHANGED <<rest, req, sent>>
      /\ \/ HasPayload /\ pc' = "payload"
         \/ ~HasPayload /\ pc' = "crc" /\ buf_idx' = 3
  BY <1>4 DEF ReadFixed, GoOn, Footer
<1>6. OnItsWay(k)'
  BY <1>5, RecvOnItsWay DEF Place, Hearing
<1>7. Len(msg') = 3
  BY <1>1, <1>5, RecvMsg DEF Place
<1>8. f' = f /\ (f[2] \notin {16, 21} => Len(f) = 3)
  BY <1>5, WantedFrame DEF Place
<1> QED
  BY <1>1, <1>3, <1>5, <1>6, <1>7, <1>8 DEF Hearing, InStep, Awaiting

LEMMA EvenHalves ==
  ASSUME NEW n \in Nat, n % 2 = 0
  PROVE  2 * (n \div 2) = n
OBVIOUS

LEMMA KeptPayload ==
  ASSUME NEW k, Place(k), ReadPayload
  PROVE  Hearing(k)'
<1> DEFINE f == sent[k].frame
<1>1. Len(msg) = 3 /\ ~Awaiting /\ f[2] \in {16, 21}
  BY DEF Place, Hearing, InStep, ServerTypeOK, ReadPayload
<1>2. Fc = f[2] /\ msg[3].b = f[3] /\ Need = f[3] /\ f[3] \in Nat
  BY <1>1, HeadOfMsg, WantedFrame DEF Place, ReadPayload, Need
<1>3. ~(Fc = 16 /\ msg[3].b > MaxBytes)
  <2>1. f[2] = 16 => f[3] <= MaxBytes
    BY WantedFrame DEF Place
  <2>2. MaxBytes \in Nat
    BY ServerAssumption
  <2> HIDE DEF f
  <2> QED
    BY <1>2, <2>1, <2>2
<1>4. \E idx \in Ends : (idx <= RamSize /\ Recv /\ Footer(idx))
                      \/ (idx > RamSize /\ Fault /\ UNCHANGED log)
  BY <1>1, <1>3, Zenon DEF ReadPayload
<1>5. Ends = {3 + f[3]}
  <2>1. CASE f[2] = 16
    <3>1. f[3] % 2 = 0
      BY <2>1, WantedFrame DEF Place
    <3>2. 2 * (f[3] \div 2) = f[3]
      <4> DEFINE n == f[3]
      <4>1. n \in Nat /\ n % 2 = 0
        BY <1>2, <3>1
      <4> HIDE DEF n
      <4>2. 2 * (n \div 2) = n
        BY <4>1, EvenHalves
      <4> QED
        BY <4>2 DEF n
    <3> QED
      BY <1>2, <2>1, <3>2 DEF Ends
  <2>2. CASE f[2] = 21
    BY <1>1, <1>2, <2>2 DEF Ends
  <2> QED
    BY <1>1, <2>1, <2>2
<1>6. 3 + f[3] <= RamSize
  <2>1. f[3] <= MaxBytes \/ f[3] <= MaxSize
    BY <1>1, WantedFrame DEF Place
  <2>2. /\ MaxBytes \in Nat /\ MaxSize \in Nat /\ BufSize \in Nat /\ RamSize \in Nat
        /\ 3 + MaxBytes < BufSize /\ 3 + MaxSize < BufSize /\ BufSize <= RamSize
    BY ServerAssumption
  <2> QED
    BY <1>2, <2>1, <2>2
<1>7. Recv /\ Footer(3 + f[3])
  <2>1. PICK idx \in Ends : (idx <= RamSize /\ Recv /\ Footer(idx))
                          \/ (idx > RamSize /\ Fault /\ UNCHANGED log)
    BY <1>4
  <2>2. idx = 3 + f[3] /\ RamSize \in Nat
    BY <1>5, ServerAssumption
  <2> QED
    BY <1>2, <1>6, <2>1, <2>2
<1>8. OnItsWay(k)'
  BY <1>7, RecvOnItsWay DEF Place, Hearing, Footer
<1>9. Len(msg') = 3 + f[3]
  BY <1>1, <1>2, <1>7, RecvMsg DEF Place
<1>10. f' = f /\ Len(f) = 3 + f[3]
  BY <1>1, <1>7, WantedFrame DEF Place, Footer
<1> QED
  BY <1>1, <1>7, <1>8, <1>9, <1>10 DEF Hearing, InStep, Footer, Awaiting

\* The CRC is that of the frame, and the message is its contents.
LEMMA KeptCrc ==
  ASSUME NEW k, Place(k), ReadRequestCrc
  PROVE  Served(k)'
<1> DEFINE f == sent[k].frame
<1>1. /\ Len(msg) = Len(f) /\ line # <<>> /\ msg \in Seq(Bytes) /\ f \in Seq(Nat)
      /\ Len(f) \in Nat /\ Len(f) >= 3 /\ buf_idx = Len(msg)
  BY WantedFrame, ServerAssumption DEF Place, Hearing, InStep, ReadRequestCrc, ServerTypeOK
<1>2. line[1].crc = k /\ k # 0
  BY <1>1, NextByte DEF Place, Matches
<1>3. \A i \in 1..Len(f) : msg[i].b = f[i]
  BY <1>1 DEF Place, Hearing, OnItsWay, Matches
<1>4. Values(msg) = f
  <2>1. DOMAIN msg = 1..Len(f) /\ DOMAIN f = 1..Len(f) /\ f = [i \in 1..Len(f) |-> f[i]]
    BY <1>1, LenProperties
  <2> QED
    BY <1>3, <2>1 DEF Values
<1>5. CrcMatches(line[1])
  BY <1>1, <1>2, <1>4 DEF CrcMatches
<1>6. ~Ignored
  <2>1. Unit = f[1]
    BY <1>1, HeadOfMsg
  <2>2. f[1] \in {0, Me}
    BY WantedFrame DEF Place
  <2> QED
    BY <2>1, <2>2 DEF Ignored, Place
<1>7. PICK a \in BOOLEAN : log' = Append(log, [of |-> k, answered |-> a])
  <2>1. Act(k) \/ HandlerFaults(k)
    BY <1>2, <1>5, <1>6 DEF ReadRequestCrc
  <2>2. (~Broadcast) \in BOOLEAN
    BY DEF Broadcast
  <2> QED
    BY <2>1, <2>2 DEF Act, HandlerFaults
<1>8. log \in Seq(Actions) /\ [of |-> k, answered |-> a] \in Actions /\ Len(log) \in Nat
  BY LenProperties DEF Place, ServerTypeOK, Actions
<1>10. /\ Append(log, [of |-> k, answered |-> a])[Len(log) + 1] = [of |-> k, answered |-> a]
       /\ log' \in Seq(Actions) /\ Len(log') = Len(log) + 1
  BY <1>7, <1>8, AppendProperties
<1>11. Len(log) + 1 \in DOMAIN log' /\ log'[Len(log) + 1].of = k
  BY <1>7, <1>8, <1>10, LenProperties
<1> QED
  BY <1>11 DEF Served

\* The rest of the frame is still to come, and no time-out is reached.
LEMMA NoTimeout ==
  ASSUME NEW k, Place(k), Timeout
  PROVE  FALSE
<1> DEFINE f == sent[k].frame
<1>1. /\ Len(msg) \in Nat /\ Len(line) \in Nat /\ Len(rest) = 0 /\ Need \in Nat
      /\ Len(line) < Need /\ ~Awaiting /\ Len(f) \in Nat /\ Len(f) >= 3
      /\ Len(msg) + Len(line) > Len(f)
  BY Lengths, NeedNat, WantedFrame, EmptySeq
  DEF Place, Hearing, InStep, OnItsWay, Timeout
<1>2. CASE pc = "payload"
  <2>1. Len(msg) = 3 /\ f[2] \in {16, 21}
    BY <1>2 DEF Place, Hearing, InStep, ServerTypeOK
  <2>2. Need = f[3]
    BY <1>2, <2>1, HeadOfMsg DEF Need
  <2>3. Len(f) = 3 + f[3] /\ f[3] \in Nat
    BY <1>1, <2>1, WantedFrame DEF Place
  <2> QED
    BY <1>1, <2>1, <2>2, <2>3
<1>3. CASE pc # "payload"
  <2>1. Need = 1 /\ Len(line) = 0
    BY <1>1, <1>3, NeedNat DEF Place
  <2>2. Len(msg) <= Len(f)
    <3>1. pc \in {"unit", "fc", "fixed", "crc"}
      BY <1>3 DEF Place, ServerTypeOK, Timeout
    <3>2. pc = "unit" => Len(msg) = 0
      BY EmptySeq DEF Place, ServerTypeOK
    <3>3. (pc = "fc" => Len(msg) = 1) /\ (pc = "fixed" => Len(msg) = 2)
      BY DEF Place, ServerTypeOK
    <3>4. pc = "crc" => Len(msg) = Len(f)
      BY DEF Place, Hearing, InStep
    <3>5. CASE pc = "crc"
      BY <1>1, <3>4, <3>5
    <3>6. CASE pc # "crc"
      <4>1. Len(msg) = 0 \/ Len(msg) = 1 \/ Len(msg) = 2
        BY <3>1, <3>2, <3>3, <3>6
      <4>2. Len(f) >= 3 /\ Len(f) \in Nat
        BY <1>1
      <4> HIDE DEF f
      <4> QED
        BY <4>1, <4>2
    <3> QED
      BY <3>5, <3>6
  <2> QED
    BY <1>1, <2>1, <2>2
<1> QED
  BY <1>2, <1>3

LEMMA PollKeeps ==
  ASSUME NEW k, Place(k), nmbs_server_poll
  PROVE  Kept(k)
<1>1. ~Awaiting /\ ~overrun
  BY DEF Place, Hearing, InStep
<1> QED
  BY <1>1, KeptUnit, KeptFc, KeptFixed, KeptPayload, KeptCrc, NoTimeout
  DEF nmbs_server_poll, ReadReplyFc, ReadReplyCrc, ReplyOverruns, Crash, Kept

\* What was acted on stays so.
LEMMA ServedStays ==
  ASSUME ServerTypeOK, NEW k, Served(k), log' = log \/ \E a \in Actions : log' = Append(log, a)
  PROVE  Served(k)'
<1>1. PICK i \in DOMAIN log : log[i].of = k
  BY DEF Served
<1>2. ASSUME NEW a \in Actions, log' = Append(log, a)
      PROVE  Served(k)'
  <2>1. log \in Seq(Actions) /\ DOMAIN log = 1..Len(log) /\ Len(log) \in Nat
    BY LenProperties DEF ServerTypeOK
  <2>2. /\ Append(log, a) \in Seq(Actions) /\ Len(Append(log, a)) = Len(log) + 1
        /\ \A j \in 1..Len(log) : Append(log, a)[j] = log[j]
    BY <2>1, AppendProperties
  <2>3. DOMAIN Append(log, a) = 1..Len(log) + 1
    BY <2>1, <2>2, LenProperties
  <2>4. i \in DOMAIN Append(log, a) /\ Append(log, a)[i].of = k
    BY <1>1, <2>1, <2>2, <2>3
  <2> QED
    BY <1>2, <2>4 DEF Served
<1>3. CASE log' = log
  BY <1>3 DEF Served
<1> QED
  BY <1>2, <1>3

LEMMA LogStep ==
  ASSUME ServerTypeOK, nmbs_server_poll
  PROVE  log' = log \/ \E a \in Actions : log' = Append(log, a)
<1>1. CASE Acts
  <2>1. line[1] \in Bytes
    BY <1>1, NonEmpty, ElementOfSeq DEF Acts, ServerTypeOK
  <2>2. PICK a \in BOOLEAN : log' = Append(log, [of |-> line[1].crc, answered |-> a])
    BY <1>1 DEF Acts
  <2>3. [of |-> line[1].crc, answered |-> a] \in Actions
    BY <2>1 DEF Actions, Bytes
  <2> QED
    BY <2>2, <2>3
<1>2. ASSUME NEW a \in BOOLEAN, log' = Append(log, [of |-> 0, answered |-> a])
      PROVE  \E b \in Actions : log' = Append(log, b)
  <2>1. [of |-> 0, answered |-> a] \in Actions
    BY DEF Actions
  <2> QED
    BY <1>2, <2>1
<1> QED
  BY <1>1, <1>2, PollEffect DEF Effect

\* A frame that begins: heard only if it is whole, and then nothing is before it.
LEMMA HeardBegins ==
  ASSUME ServerTypeOK, NEW f \in Frames, SendFrame(f)
  PROVE  \E e \in Entries, q \in Seq(Bytes) :
           /\ sent' = Append(sent, e) /\ rest' = q /\ rest = <<>>
           /\ UNCHANGED <<line, program>>
           /\ e.heard =>
                /\ Listening /\ e.frame = f /\ Len(q) = Len(f) + 1
                /\ \A i \in 1..Len(f) : q[i].b = f[i]
                /\ q[Len(f) + 1].crc = Len(sent) + 1
<1>1. Len(sent) + 1 \in Nat /\ Len(f) \in Nat /\ f \in Seq(Nat) /\ DOMAIN f = 1..Len(f)
  BY Lengths, ServerAssumption, LenProperties
<1>2. PICK c \in CrcBytes :
        \/ StartFrame(Append(Plain(f), [b |-> c, crc |-> Len(sent) + 1]),
                      [frame |-> f, intact |-> TRUE, heard |-> Listening,
                       asked |-> Len(log) = Len(sent) /\ \A i \in DOMAIN sent : sent[i].intact])
        \/ \E damaged \in {Append(Plain(f), [b |-> c, crc |-> 0])}
                             \cup {SubSeq(Plain(f), 1, n) : n \in 1..Len(f)} :
             StartFrame(damaged, Broken)
  BY DEF SendFrame
<1>3. CASE StartFrame(Append(Plain(f), [b |-> c, crc |-> Len(sent) + 1]),
                      [frame |-> f, intact |-> TRUE, heard |-> Listening,
                       asked |-> Len(log) = Len(sent) /\ \A i \in DOMAIN sent : sent[i].intact])
  <2> DEFINE asked == Len(log) = Len(sent) /\ \A i \in DOMAIN sent : sent[i].intact
             e == [frame |-> f, intact |-> TRUE, heard |-> Listening, asked |-> asked]
             t == [b |-> c, crc |-> Len(sent) + 1]
             q == Append(Plain(f), t)
  <2>1. Listening \in BOOLEAN /\ asked \in BOOLEAN
    BY DEF Listening
  <2>2. e \in Entries /\ e.frame = f /\ (e.heard => Listening)
    <3> HIDE DEF asked
    <3> QED
      BY <2>1 DEF Entries
  <2>3. t \in Bytes /\ t.crc = Len(sent) + 1
    BY <1>1, ServerAssumption DEF Bytes
  <2>4. \A i \in 1..Len(f) : Plain(f)[i].b = f[i]
    BY DEF Plain
  <2>5. /\ q \in Seq(Bytes) /\ Len(q) = Len(f) + 1 /\ q[Len(f) + 1] = t
        /\ \A i \in 1..Len(f) : q[i] = Plain(f)[i]
    <3> HIDE DEF t
    <3> QED
      BY <2>3, PlainType, AppendProperties
  <2>6. StartFrame(q, e)
    BY <1>3
  <2> HIDE DEF e, q, t
  <2> QED
    BY <2>2, <2>3, <2>4, <2>5, <2>6 DEF StartFrame
<1>4. ASSUME NEW damaged \in {Append(Plain(f), [b |-> c, crc |-> 0])}
                               \cup {SubSeq(Plain(f), 1, n) : n \in 1..Len(f)},
             StartFrame(damaged, Broken)
      PROVE  damaged \in Seq(Bytes) /\ Broken \in Entries /\ ~Broken.heard
  <2>1. damaged \in Seq(Bytes)
    BY FrameCarries, CutCarries DEF Carries
  <2> QED
    BY <2>1 DEF Broken, Entries
<1> QED
  BY <1>2, <1>3, <1>4 DEF StartFrame

\* A frame that begins leaves the earlier ones alone, which have all arrived.
LEMMA StartOnItsWay ==
  ASSUME ServerTypeOK, NEW e \in Entries, NEW q \in Seq(Bytes), NEW k \in 1..Len(sent), OnItsWay(k),
         Len(sent[k].frame) \in Nat,
         sent' = Append(sent, e), rest' = q, rest = <<>>, UNCHANGED <<line, program>>
  PROVE  OnItsWay(k)'
<1>1. /\ Len(msg) \in Nat /\ Len(line) \in Nat /\ Len(rest) = 0 /\ Len(q) \in Nat
      /\ sent \in Seq(Entries)
  BY Lengths, EmptySeq, LenProperties DEF ServerTypeOK
<1>2. sent'[k] = sent[k]
  BY <1>1, AppendProperties
<1>3. Len(msg) + Len(line) > Len(sent[k].frame)
  BY <1>1 DEF OnItsWay
<1>4. \A i \in 1..Len(q) : Matches(q[i], k, Len(msg) + Len(line) + i)
  BY <1>1, <1>3 DEF Matches
<1>5. (\A i \in 1..Len(rest) : Matches(rest[i], k, Len(msg) + Len(line) + i))'
  BY <1>2, <1>4 DEF Matches, program
<1>6. /\ (\A i \in 1..Len(msg) : Matches(msg[i], k, i))'
      /\ (\A i \in 1..Len(line) : Matches(line[i], k, Len(msg) + i))'
  BY <1>2 DEF OnItsWay, Matches, program
<1> QED
  BY <1>1, <1>2, <1>3, <1>5, <1>6 DEF OnItsWay, program

LEMMA ArriveOnItsWay ==
  ASSUME ServerTypeOK, NEW k \in 1..Len(sent), OnItsWay(k), ByteArrives
  PROVE  OnItsWay(k)'
<1>1. /\ Len(msg) \in Nat /\ Len(line) \in Nat /\ Len(rest) \in Nat /\ 1 \in 1..Len(rest)
      /\ line \in Seq(Bytes) /\ rest \in Seq(Bytes)
  BY Lengths, NonEmpty DEF ServerTypeOK, ByteArrives
<1>2. /\ Head(rest) = rest[1] /\ Head(rest) \in Bytes
      /\ Tail(rest) \in Seq(Bytes) /\ Len(Tail(rest)) = Len(rest) - 1
      /\ \A i \in 1..Len(Tail(rest)) : Tail(rest)[i] = rest[i + 1]
  BY <1>1, HeadTailProperties DEF ByteArrives
<1>3. /\ Len(line') = Len(line) + 1 /\ line'[Len(line) + 1] = rest[1]
      /\ \A i \in 1..Len(line) : line'[i] = line[i]
  BY <1>1, <1>2, AppendProperties DEF ByteArrives
<1>4. sent' = sent /\ msg' = msg /\ rest' = Tail(rest)
  BY DEF ByteArrives, program
<1>5. Matches(rest[1], k, Len(msg) + (Len(line) + 1))
  <2>1. Matches(rest[1], k, Len(msg) + Len(line) + 1)
    BY <1>1 DEF OnItsWay
  <2>2. Len(msg) + Len(line) + 1 = Len(msg) + (Len(line) + 1)
    BY <1>1
  <2> QED
    BY <2>1, <2>2
<1>6. \A i \in 1..Len(line') : Matches(line'[i], k, Len(msg) + i)
  <2>1. \A i \in 1..Len(line) : Matches(line'[i], k, Len(msg) + i)
    BY <1>3 DEF OnItsWay
  <2>2. \A i \in 1..Len(line') : i \in 1..Len(line) \/ i = Len(line) + 1
    BY <1>1, <1>3
  <2> QED
    BY <1>3, <1>5, <2>1, <2>2
<1>7. \A i \in 1..Len(rest') : Matches(rest'[i], k, Len(msg) + Len(line') + i)
  <2> SUFFICES ASSUME NEW i \in 1..Len(rest') PROVE Matches(rest'[i], k, Len(msg) + Len(line') + i)
    OBVIOUS
  <2>1. /\ rest'[i] = rest[i + 1] /\ i + 1 \in 1..Len(rest)
        /\ Len(msg) + Len(line') + i = Len(msg) + Len(line) + (i + 1)
    BY <1>1, <1>2, <1>3, <1>4
  <2> QED
    BY <2>1 DEF OnItsWay
<1>8. Len(msg') + Len(line') + Len(rest') = Len(msg) + Len(line) + Len(rest)
  BY <1>1, <1>2, <1>3, <1>4
<1>9. /\ (\A i \in 1..Len(msg) : Matches(msg[i], k, i))'
      /\ (\A i \in 1..Len(line) : Matches(line[i], k, Len(msg) + i))'
      /\ (\A i \in 1..Len(rest) : Matches(rest[i], k, Len(msg) + Len(line) + i))'
  BY <1>4, <1>6, <1>7 DEF OnItsWay, Matches
<1> QED
  BY <1>4, <1>8, <1>9 DEF OnItsWay

\* The invariant, step by step.
LEMMA HeardStepPoll ==
  ASSUME ServerTypeOK, WellSized, HeardInv, ~overrun, address = Me, nmbs_server_poll
  PROVE  HeardInv'
<1>1. sent' = sent
  BY PollEffect DEF Effect, Drops
<1> SUFFICES ASSUME NEW k \in 1..Len(sent), sent[k].heard
             PROVE  sent[k].frame \in Frames /\ (Pending(k)' => Hearing(k)')
  BY <1>1 DEF HeardInv
<1>2. sent[k].frame \in Frames /\ (Pending(k) => Hearing(k))
  BY DEF HeardInv
<1>3. Pending(k)' => Pending(k)
  BY <1>1, LogStep, ServedStays DEF Pending, Wanted
<1>4. ASSUME Pending(k)' PROVE Hearing(k)'
  <2>1. Place(k)
    BY <1>2, <1>3, <1>4 DEF Place, Pending
  <2>2. Kept(k)
    BY <2>1, PollKeeps
  <2> QED
    BY <1>4, <2>2 DEF Kept, Pending
<1> QED
  BY <1>2, <1>4

LEMMA HeardStepSend ==
  ASSUME ServerTypeOK, HeardInv, NEW f \in Frames, SendFrame(f)
  PROVE  HeardInv'
<1>1. PICK e \in Entries, q \in Seq(Bytes) :
        /\ sent' = Append(sent, e) /\ rest' = q /\ rest = <<>>
        /\ UNCHANGED <<line, program>>
        /\ e.heard =>
             /\ Listening /\ e.frame = f /\ Len(q) = Len(f) + 1
             /\ \A i \in 1..Len(f) : q[i].b = f[i]
             /\ q[Len(f) + 1].crc = Len(sent) + 1
  BY HeardBegins
<1>2. /\ sent \in Seq(Entries) /\ Len(sent) \in Nat /\ Len(sent') = Len(sent) + 1
      /\ sent'[Len(sent) + 1] = e /\ \A i \in 1..Len(sent) : sent'[i] = sent[i]
  BY <1>1, Lengths, AppendProperties DEF ServerTypeOK
<1>3. ASSUME NEW k \in 1..Len(sent), sent[k].heard
      PROVE  sent[k].frame \in Frames /\ (Pending(k)' => Hearing(k)')
  <2>1. sent[k].frame \in Frames /\ (Pending(k) => Hearing(k)) /\ sent'[k] = sent[k]
    BY <1>2, <1>3 DEF HeardInv
  <2>2. Pending(k)' => Pending(k)
    BY <1>1, <2>1 DEF Pending, Wanted, Served, program
  <2>3. Len(sent[k].frame) \in Nat
    BY <2>1, ServerAssumption, LenProperties
  <2>4. OnItsWay(k) => OnItsWay(k)'
    BY <1>1, <2>3, StartOnItsWay
  <2>5. InStep(k) => InStep(k)'
    BY <1>1, <2>1 DEF InStep, Awaiting, program
  <2> QED
    BY <2>1, <2>2, <2>4, <2>5 DEF Hearing
<1>4. ASSUME e.heard
      PROVE  e.frame \in Frames /\ \A k \in {Len(sent) + 1} : Hearing(k)'
  <2>1. /\ pc = "unit" /\ ~Awaiting /\ Len(line) = 0 /\ Len(msg) = 0 /\ Len(f) \in Nat
        /\ Len(q) = Len(f) + 1
    BY <1>1, <1>4, EmptySeq, ServerAssumption, LenProperties DEF Listening, ServerTypeOK
  <2>2. \A i \in 1..Len(q) :
          (i <= Len(f) => q[i].b = f[i]) /\ (i = Len(f) + 1 => q[i].crc = Len(sent) + 1)
    BY <1>1, <1>4, <2>1
  <2>3. \A i \in 1..Len(rest') :
          /\ Len(msg') + Len(line') + i <= Len(f) => rest'[i].b = f[Len(msg') + Len(line') + i]
          /\ Len(msg') + Len(line') + i = Len(f) + 1 => rest'[i].crc = Len(sent) + 1
    BY <1>1, <2>1, <2>2 DEF program
  <2>4. \A k \in {Len(sent) + 1} : OnItsWay(k)'
    BY <1>1, <1>2, <1>4, <2>1, <2>3 DEF OnItsWay, Matches, program
  <2>5. \A k \in {Len(sent) + 1} : InStep(k)'
    BY <1>1, <2>1 DEF InStep, Awaiting, program
  <2> QED
    BY <1>1, <1>4, <2>4, <2>5 DEF Hearing
<1>5. ASSUME NEW k \in 1..Len(sent'), sent'[k].heard
      PROVE  sent'[k].frame \in Frames /\ (Pending(k)' => Hearing(k)')
  <2>1. CASE k \in 1..Len(sent)
    BY <1>2, <1>3, <1>5, <2>1
  <2>2. CASE k = Len(sent) + 1
    BY <1>2, <1>4, <1>5, <2>2
  <2> QED
    BY <1>2, <2>1, <2>2
<1> QED
  BY <1>5 DEF HeardInv

LEMMA HeardStepArrives ==
  ASSUME ServerTypeOK, HeardInv, ByteArrives
  PROVE  HeardInv'
<1>1. UNCHANGED <<pc, msg, buf_idx, req, sent, log>>
  BY DEF ByteArrives, program
<1>2. ASSUME NEW k \in 1..Len(sent), sent[k].heard
      PROVE  sent[k].frame \in Frames /\ (Pending(k)' => Hearing(k)')
  <2>1. sent[k].frame \in Frames /\ (Pending(k) => Hearing(k))
    BY <1>2 DEF HeardInv
  <2>2. Pending(k)' => Pending(k)
    BY <1>1 DEF Pending, Wanted, Served
  <2>3. OnItsWay(k) => OnItsWay(k)'
    BY ArriveOnItsWay
  <2>4. InStep(k) => InStep(k)'
    BY <1>1 DEF InStep, Awaiting
  <2> QED
    BY <2>1, <2>2, <2>3, <2>4 DEF Hearing
<1> QED
  BY <1>1, <1>2 DEF HeardInv

LEMMA HeardStep ==
  ASSUME HeardState, WellSized, [ServerNext]_serverVars
  PROVE  HeardState'
<1>1. ServerTypeOK' /\ (overrun' \/ address' = Me)
      /\ (~overrun' => ~overrun /\ address = Me /\ HeardInv)
  <2>1. CASE nmbs_server_poll
    BY <2>1, ServerTypesStep, PollEffect DEF HeardState, AddressKept, Effect
  <2>2. ASSUME NEW f \in Frames, SendFrame(f)
        PROVE  UNCHANGED <<overrun, address>>
    BY <2>2, SendStarts DEF Starts, program, HeardState
  <2>3. CASE UNCHANGED <<overrun, address>>
    BY <2>3, ServerTypesStep DEF HeardState, AddressKept
  <2> QED
    BY <2>1, <2>2, <2>3 DEF ServerNext, ByteArrives, program, serverVars
<1>2. ASSUME ~overrun'
      PROVE  HeardInv'
  <2>1. CASE UNCHANGED serverVars
    BY <1>1, <1>2, <2>1
    DEF serverVars, HeardInv, Pending, Wanted, Served, Hearing, OnItsWay, Matches, InStep, Awaiting
  <2> QED
    BY <1>1, <1>2, <2>1, HeardStepPoll, HeardStepSend, HeardStepArrives DEF ServerNext, HeardState
<1> QED
  BY <1>1, <1>2 DEF HeardState, AddressKept

\* When nothing is left on the line, nothing is pending.
LEMMA NothingPending ==
  ASSUME HeardState
  PROVE  HeardIsServed
<1> SUFFICES ASSUME ~overrun, Listening, rest = <<>>, NEW k \in DOMAIN sent, sent[k].heard, Wanted(k),
                    ~Served(k)
             PROVE  FALSE
  BY DEF HeardIsServed
<1>1. k \in 1..Len(sent) /\ ServerTypeOK /\ HeardInv
  BY LenProperties DEF HeardState, ServerTypeOK
<1>2. OnItsWay(k) /\ sent[k].frame \in Frames
  BY <1>1 DEF HeardInv, Pending, Hearing
<1>3. Len(msg) = 0 /\ Len(line) = 0 /\ Len(rest) = 0 /\ Len(sent[k].frame) \in Nat
  BY <1>1, <1>2, EmptySeq, ServerAssumption, LenProperties DEF Listening, ServerTypeOK
<1> QED
  BY <1>2, <1>3 DEF OnItsWay

\* A whole request to this unit that begins when the server listens is acted on,
\* whatever cut, damaged or foreign frames came before it and however many, if
\* requests to this unit have the length that their own fields say and no memory
\* behind the buffer was written.
THEOREM HeardRequestsAreServed ==
  ASSUME WellSized
  PROVE  ServerSpec => []HeardIsServed
<1>1. ServerInit => HeardState
  <2>1. ServerInit => Len(sent) = 0 /\ AddressKept
    BY EmptySeq DEF ServerInit, AddressKept
  <2> QED
    BY <2>1, ServerTypesInit DEF HeardState, HeardInv
<1>2. HeardState /\ [ServerNext]_serverVars => HeardState'
  BY HeardStep
<1>3. HeardState => HeardIsServed
  BY NothingPending
<1> QED
  BY <1>1, <1>2, <1>3, PTL DEF ServerSpec
=============================================================================
