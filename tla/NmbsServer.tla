----------------------------- MODULE NmbsServer -----------------------------
(***************************************************************************)
(* The nanoMODBUS server: nmbs_server_poll of                              *)
(* src/lib/nanoMODBUS/nanomodbus.c and the four handlers this firmware     *)
(* compiles in (FC 3, 6, 16, 21; src/src/nmbs/config.h), as the reader of  *)
(* a stream of bytes that nobody divides into frames.                      *)
(*                                                                         *)
(* The stream comes from SerialFifo: line is what arrived and was not      *)
(* read, rest what the sender has still to transmit of its current frame.  *)
(* A recv() is one step; it gets its bytes, or it times out because they   *)
(* do not come, and has then taken what there was.                         *)
(*                                                                         *)
(* Lengths are scaled.  A byte of the model stands for the bytes that one  *)
(* recv() takes: the unit, the function code, the fixed part (4, 5 or 1    *)
(* bytes), a byte of the variable part, the CRC (2 bytes).  The CRC of a   *)
(* frame is a reference to the frame, so that it matches these contents    *)
(* and no others; accidental matches are left out.  The variable part of   *)
(* FC 21 begins with one byte for the header of its first record (7 bytes),*)
(* which says how many bytes of data follow it.                            *)
(*                                                                         *)
(* The index into the message buffer is modelled where it may differ from  *)
(* the number of bytes received: when the CRC is about to be read.  The    *)
(* reply of another unit to FC 21 moves it by the record length in it,     *)
(* unchecked, so that the CRC may be computed over memory behind the       *)
(* buffer, and received into it.                                           *)
(***************************************************************************)
EXTENDS Integers, Sequences

CONSTANTS
  Me,         \* address_rtu; unit 0 is broadcast
  Frames,     \* the frames that are sent, without CRC: requests and replies
  CrcBytes,   \* what a CRC looks like to one who takes it for something else
  MaxBytes,   \* most bytes FC 16 accepts (246)
  MaxSize,    \* most bytes FC 21 accepts, in a request or a reply (251)
  MaxRes,     \* most bytes a reply to FC 3 may have (250)
  BufSize,    \* sizeof(msg.buf) (260)
  RamSize,    \* bytes from msg.buf to the end of the RAM (6 KB in all)
  IdxMod,     \* the range of buf_idx (2^16)
  MaxFrames   \* bound: frames in a behaviour, which no frame follows a fault in

ASSUME ServerAssumption ==
  /\ Me \in Nat \ {0} /\ Frames \subseteq Seq(Nat) \ {<<>>} /\ CrcBytes \subseteq Nat
  /\ {MaxBytes, MaxSize, MaxRes, MaxFrames, BufSize, RamSize, IdxMod} \subseteq Nat
  /\ 3 + MaxBytes < BufSize /\ 3 + MaxSize < BufSize /\ 3 + MaxRes < BufSize
  /\ BufSize <= RamSize /\ RamSize < IdxMod

VARIABLES
  line, rest,
  pc,         \* what the next recv() reads; "fault" after a HardFault
  msg,        \* what was received of the message
  buf_idx,    \* msg.buf_idx when the CRC is read, else 0
  req,        \* <<unit, fc>> of another unit's request whose reply is awaited
  address,    \* address_rtu
  overrun,    \* history: memory behind the buffer was written
  sent,       \* history: the frames whose transmission began
  log         \* history: the requests the server acted on

program == <<pc, msg, buf_idx, req, address, overrun, log>>
serverVars == <<line, rest, pc, msg, buf_idx, req, address, overrun, sent, log>>

(***************************************************************************)
(* A byte of the stream: its value, and whether it is the CRC of a frame.  *)
(***************************************************************************)
Bytes  == [b : Nat, crc : Nat]
Entries == [frame : Frames \cup {<<>>}, intact : BOOLEAN, heard : BOOLEAN, asked : BOOLEAN]
Actions == [of : Nat, answered : BOOLEAN]
Values(s) == [i \in DOMAIN s |-> s[i].b]

NONE == <<>>
Awaiting == req # NONE      \* inside a recv_*_res for another unit's reply
Listening == pc = "unit" /\ ~Awaiting /\ line = <<>>

ServerInit ==
  /\ line = <<>> /\ rest = <<>> /\ pc = "unit" /\ msg = <<>> /\ buf_idx = 0 /\ req = NONE
  /\ address = Me /\ overrun = FALSE /\ sent = <<>> /\ log = <<>>

-----------------------------------------------------------------------------
(* The line.  A frame arrives whole, cut short, or with a wrong CRC, but      *)
(* without a pause inside it.                                                 *)

Broken == [frame |-> <<>>, intact |-> FALSE, heard |-> FALSE, asked |-> FALSE]

Plain(f) == [i \in 1..Len(f) |-> [b |-> f[i], crc |-> 0]]

StartFrame(bytes, entry) ==
  /\ rest = <<>> /\ Len(sent) < MaxFrames /\ pc # "fault"
  /\ rest' = bytes /\ sent' = Append(sent, entry)
  /\ UNCHANGED <<line, program>>

SendFrame(f) ==
  \E c \in CrcBytes :
    \/ StartFrame(Append(Plain(f), [b |-> c, crc |-> Len(sent) + 1]),
                  [frame |-> f, intact |-> TRUE, heard |-> Listening,
                   asked |-> Len(log) = Len(sent) /\ \A i \in DOMAIN sent : sent[i].intact])
    \/ \E damaged \in {Append(Plain(f), [b |-> c, crc |-> 0])}
                         \cup {SubSeq(Plain(f), 1, n) : n \in 1..Len(f)} :
         StartFrame(damaged, Broken)

ByteArrives ==
  /\ rest # <<>>
  /\ line' = Append(line, Head(rest)) /\ rest' = Tail(rest)
  /\ UNCHANGED <<sent, program>>

-----------------------------------------------------------------------------
(* The server. *)

Need == IF pc = "payload" THEN msg[3].b ELSE 1

Unit == msg[1].b
Fc   == msg[2].b
Broadcast == Unit = 0
\* Mutant: the address is not compared.
IgnoredNever == FALSE
Ignored   == Unit \notin {0, address}

Supported == {3, 6, 16, 21}
Exception(fc) == fc + 128

\* recv() got what it asked for.
Recv ==
  /\ Len(line) >= Need
  /\ msg' = msg \o SubSeq(line, 1, Need)
  /\ line' = SubSeq(line, Need + 1, Len(line))

GoOn(stage) ==
  /\ pc' = stage /\ buf_idx' = 0
  /\ UNCHANGED <<rest, req, address, overrun, sent, log>>

\* The contents are read, and recv_msg_footer is next, at index idx.
Footer(idx) ==
  /\ pc' = "crc" /\ buf_idx' = idx
  /\ UNCHANGED <<rest, req, address, overrun, sent, log>>

\* Mutant: the buffer index is not reset.
ReturnKeepsMsg(flush) ==
  /\ pc' = "unit" /\ buf_idx' = 0 /\ req' = NONE
  /\ line' = IF flush THEN <<>> ELSE SubSeq(line, Need + 1, Len(line))
  /\ UNCHANGED <<rest, sent, msg>>

\* The poll returns.  flush() takes what has arrived, not what is still coming.
Return(flush) ==
  /\ pc' = "unit" /\ msg' = <<>> /\ buf_idx' = 0 /\ req' = NONE
  /\ line' = IF flush THEN <<>> ELSE SubSeq(line, Need + 1, Len(line))
  /\ UNCHANGED <<rest, sent>>

\* A HardFault: the controller does nothing any more.
Halt ==
  /\ pc' = "fault" /\ msg' = <<>> /\ buf_idx' = 0 /\ req' = NONE
  /\ UNCHANGED <<rest, address, overrun, sent>>
Fault == Halt /\ line' = SubSeq(line, Need + 1, Len(line))

\* The request of frame k, or nobody's (0), is carried out or refused, by the
\* checks of its handler or by the callback, and answered unless it is a
\* broadcast.  Which answer it gets, and whether HAL_UART_Transmit sends it,
\* changes nothing here: a failed write is reported as a time-out.
Act(k) ==
  /\ log' = Append(log, [of |-> k, answered |-> ~Broadcast])
  /\ UNCHANGED <<address, overrun>>
Pass == UNCHANGED <<address, overrun, log>>

\* A request or reply of FC 21 with one record, of the length it says.
OneRecord(f) == Len(f) >= 4 /\ f[3] = 1 + f[4]

\* The handler of FC 21 faults at the registers of a second record, which lie at
\* an odd address, or behind a record longer than the request (WriteFileRecord).
HandlerFaults(k) ==
  /\ Fc = 21 /\ Len(msg) > 3 /\ ~OneRecord(Values(msg))
  /\ Fault
  /\ log' = Append(log, [of |-> k, answered |-> FALSE])

ReadUnit ==
  /\ pc = "unit" /\ Recv /\ GoOn("fc")

(* The function code: recv_req_header and the switch of handle_req_fc for a  *)
(* request, recv_res_header for a reply.                                     *)
ReadRequestFc ==
  /\ pc = "fc" /\ ~Awaiting /\ line # <<>>
  /\ IF line[1].b \in Supported
     THEN Recv /\ GoOn("fixed")
     ELSE /\ Return(TRUE)
          /\ IF Ignored \/ Broadcast THEN Pass ELSE Act(0)

ReadReplyFc ==
  /\ pc = "fc" /\ Awaiting /\ line # <<>>
  /\ IF Unit = req[1] /\ line[1].b \in {req[2], Exception(req[2])}
     THEN Recv /\ GoOn("fixed")
     ELSE Return(TRUE) /\ Pass

(* The fixed part; for some functions it ends with the length of the rest. *)
HasPayload == IF Awaiting THEN Fc \in {3, 21} ELSE Fc \in {16, 21}
TooLong(n) == \/ Fc = 21 /\ n > MaxSize
              \/ Awaiting /\ Fc = 3 /\ n > MaxRes

ReadFixed ==
  /\ pc = "fixed" /\ line # <<>>
  /\ \/ HasPayload /\ TooLong(line[1].b) /\ Return(TRUE) /\ Pass
     \/ HasPayload /\ ~TooLong(line[1].b) /\ Recv /\ GoOn("payload")
     \/ ~HasPayload /\ Recv /\ Footer(3)

\* Mutant: the data of a reply's record is counted twice.
EndsTwice == IF Fc = 21 /\ Awaiting /\ Need # 0 THEN {(4 + 2 * line[1].b) % IdxMod} ELSE {3 + Need}
(* Where the handlers take the end of the contents to be.  Registers are read  *)
(* two bytes at a time, FC 16 and the reply to FC 3 leave an odd byte over; a   *)
(* request of FC 21 ends with its bytes; its reply ends where its first record  *)
(* says, and if it is too short to say it, where an older message in the buffer *)
(* does.                                                                        *)
Ends ==
  IF Fc # 21 THEN {3 + 2 * (Need \div 2)}
  ELSE IF ~Awaiting THEN {3 + Need}
  ELSE IF Need = 0 THEN 0..(IdxMod - 1)
  ELSE {(4 + line[1].b) % IdxMod}

\* FC 16 compares its length with the limit after the bytes were read; the two that
\* 255 bytes leave behind the buffer go to buf_idx, which the next poll resets.  The
\* CRC is computed before it is received: behind the RAM that is a bus fault.
ReadPayload ==
  /\ pc = "payload" /\ Len(line) >= Need
  /\ IF ~Awaiting /\ Fc = 16 /\ msg[3].b > MaxBytes
     THEN Return(TRUE) /\ Pass
     ELSE \E idx \in Ends :
            \/ idx <= RamSize /\ Recv /\ Footer(idx)
            \/ idx > RamSize /\ Fault /\ UNCHANGED log

\* The CRC is computed up to the index, not over what was received.
CrcMatches(t) == t.crc # 0 /\ buf_idx = Len(msg) /\ sent[t.crc].frame = Values(msg)

ReadRequestCrc ==
  /\ pc = "crc" /\ ~Awaiting /\ line # <<>>
  /\ \/ /\ ~CrcMatches(line[1])
        /\ Return(TRUE) /\ Pass
     \/ /\ CrcMatches(line[1]) /\ Ignored
        /\ pc' = "unit" /\ req' = <<Unit, Fc>> /\ msg' = <<>> /\ buf_idx' = 0 /\ line' = Tail(line)
        /\ Pass /\ UNCHANGED <<rest, sent>>
     \/ /\ CrcMatches(line[1]) /\ ~Ignored
        /\ Return(FALSE) /\ Act(line[1].crc)
     \/ /\ CrcMatches(line[1]) /\ ~Ignored
        /\ HandlerFaults(line[1].crc)

\* A reply that is no exception and fits the request leaves the line alone,
\* every other one is an error.  Whether it fits is left open.
ReadReplyCrc ==
  /\ pc = "crc" /\ Awaiting /\ line # <<>> /\ buf_idx < BufSize
  /\ \/ CrcMatches(line[1]) /\ Fc = req[2] /\ Return(FALSE)
     \/ Return(TRUE)
  /\ Pass

\* The CRC, or the part of it that comes, is received behind the buffer: into the
\* rest of nmbs_t, where it may hit address_rtu, or into what lies behind it.
ReplyOverruns ==
  /\ pc = "crc" /\ Awaiting /\ buf_idx >= BufSize
  /\ line # <<>> \/ rest = <<>>
  /\ Return(TRUE) /\ UNCHANGED log
  /\ overrun' = TRUE
  /\ \E unit \in {address} \cup {f[1] : f \in Frames} : address' = unit

\* What was overwritten may as well be a pointer that is used later.
Crash ==
  /\ overrun /\ pc # "fault"
  /\ Halt /\ UNCHANGED <<line, log>>

\* Mutants: the message is not reset, or a reply is awaited for ever.
TimeoutKeepsMsg ==
  /\ Len(line) < Need /\ rest = <<>> /\ (pc # "unit" \/ Awaiting) /\ pc # "fault"
  /\ pc' = "unit" /\ buf_idx' = 0 /\ req' = NONE /\ line' = <<>>
  /\ Pass /\ UNCHANGED <<msg, rest, sent>>


\* Nothing more comes for longer than the time-out.  The read has taken what
\* there was, and the poll returns without a flush; between two frames, with
\* nothing read, it returns to be called again.
Timeout ==
  /\ Len(line) < Need /\ rest = <<>> /\ (pc # "unit" \/ Awaiting) /\ pc # "fault"
  /\ buf_idx < BufSize
  /\ pc' = "unit" /\ msg' = <<>> /\ buf_idx' = 0 /\ req' = NONE /\ line' = <<>>
  /\ Pass /\ UNCHANGED <<rest, sent>>

nmbs_server_poll ==
  \/ ReadUnit \/ ReadRequestFc \/ ReadReplyFc \/ ReadFixed \/ ReadPayload
  \/ ReadRequestCrc \/ ReadReplyCrc \/ ReplyOverruns \/ Crash \/ Timeout

ServerNext == (\E f \in Frames : SendFrame(f)) \/ ByteArrives \/ nmbs_server_poll

ServerSpec == ServerInit /\ [][ServerNext]_serverVars

\* The main loop polls for ever, and a frame that was begun goes on.
FairServerSpec == ServerSpec /\ WF_serverVars(nmbs_server_poll) /\ WF_serverVars(ByteArrives)

-----------------------------------------------------------------------------
\* Only the CRC of a reply to FC 21 is received anywhere but in the buffer, and only
\* there does the index differ from the bytes received by more than an odd one.
ServerTypeOK ==
  /\ line \in Seq(Bytes) /\ rest \in Seq(Bytes) /\ msg \in Seq(Bytes)
  /\ pc \in {"unit", "fc", "fixed", "payload", "crc", "fault"}
  /\ pc \in {"unit", "fault"} => msg = <<>>
  /\ pc = "fc" => Len(msg) = 1
  /\ pc = "fixed" => Len(msg) = 2
  /\ pc = "payload" => Len(msg) = 3 /\ HasPayload /\ ~TooLong(msg[3].b)
  /\ pc = "crc" => Len(msg) >= 3
  /\ buf_idx \in Nat /\ (pc # "crc" => buf_idx = 0)
  /\ pc = "crc" /\ ~(Awaiting /\ Fc = 21) =>
       buf_idx < BufSize /\ Len(msg) - buf_idx \in {0, 1}
  /\ req \in {NONE} \cup (Nat \X Nat)
  /\ address \in Nat /\ overrun \in BOOLEAN
  /\ sent \in Seq(Entries) /\ log \in Seq(Actions)

ForMe(f) == f[1] \in {0, Me} /\ f[2] \in Supported

\* However the stream is cut, damaged or misread, the server acts only on
\* requests that were sent whole and to it, in the order they were sent and on
\* none of them twice; a broadcast is executed and not answered, every other one
\* is answered unless its handler faulted.  After a write behind the buffer nothing
\* is promised any more, neither is the address.
ActsOnRequests ==
  ~overrun =>
    /\ \A i \in DOMAIN log : log[i].of # 0 =>
         /\ log[i].of \in DOMAIN sent /\ sent[log[i].of].intact
         /\ ForMe(sent[log[i].of].frame)
         /\ log[i].answered => sent[log[i].of].frame[1] # 0
         /\ ~log[i].answered /\ sent[log[i].of].frame[1] # 0 =>
              pc = "fault" /\ i = Len(log) /\ ~OneRecord(sent[log[i].of].frame)
    /\ \A i, j \in DOMAIN log :
         i < j /\ log[i].of # 0 /\ log[j].of # 0 => log[i].of < log[j].of

Served(k) == \E i \in DOMAIN log : log[i].of = k

\* FC 16 and FC 21 refuse longer requests without an answer, and FC 16 those with
\* an odd number of bytes, whose CRC it looks for one byte too early.
Wellformed(f) == /\ f[2] = 16 => f[3] <= MaxBytes /\ f[3] % 2 = 0
                 /\ f[2] = 21 => f[3] <= MaxSize

Wanted(k) == /\ sent[k].intact /\ ForMe(sent[k].frame) /\ Wellformed(sent[k].frame)

\* Requests to this unit have the length that their own fields say.
WellSized ==
  \A f \in Frames : ForMe(f) =>
    Len(f) >= 3 /\ Len(f) = IF f[2] \in {16, 21} THEN 3 + f[3] ELSE 3

\* Whatever came before it, a request that begins when the server listens is
\* acted on: no state of an earlier poll is left over.
HeardIsServed ==
  ~overrun /\ Listening /\ rest = <<>> =>
    \A k \in DOMAIN sent : sent[k].heard /\ Wanted(k) => Served(k)

\* "This function should be called in a loop in order to serve any incoming
\* request" (nanomodbus.h:319): a request that begins after all earlier ones
\* were answered, on a line without damage, is served.
AnyRequestIsServed ==
  ~overrun /\ Listening /\ rest = <<>> =>
    \A k \in DOMAIN sent : sent[k].asked /\ Wanted(k) => Served(k)

\* The controller faults, or memory behind the buffer is written, only after a frame
\* was damaged or an FC 21 frame was sent that is not one record of the length it
\* says: with sound frames the index never leaves the buffer, whatever else is on
\* the line and however it is misread.
OverrunHasCause ==
  pc = "fault" \/ overrun =>
    \E i \in DOMAIN sent :
      ~sent[i].intact \/ (sent[i].frame[2] = 21 /\ ~OneRecord(sent[i].frame))

\* The fields a poll may still read: those of a request, and of the reply to it if
\* the request is another unit's.
FieldsRead == [unit |-> 0, fc |-> 1, fixed |-> 2, payload |-> 3, crc |-> 4][pc]
FieldsLeft ==
  IF pc = "fault" THEN 0
  ELSE IF Awaiting THEN 5 - FieldsRead
  ELSE IF pc = "unit" THEN 0 ELSE 10 - FieldsRead

\* Whatever is on the line, no byte is read twice, and a read that takes none brings
\* the poll nearer to its return: a length of 0, or a time-out.
PollAdvances ==
  [][ UNCHANGED <<rest, sent>> /\ pc' # "fault" =>
        /\ \E k \in 0..Len(line) : line' = SubSeq(line, k + 1, Len(line))
        /\ Len(line') < Len(line) \/ FieldsLeft' < FieldsLeft ]_serverVars

=============================================================================
