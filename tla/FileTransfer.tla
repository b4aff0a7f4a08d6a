---------------------------- MODULE FileTransfer ----------------------------
(***************************************************************************)
(* The whole file send algorithm: the Python client of                     *)
(* src/ttt/python/modbus_test1.py, the receiver of port.c (FileReceiver)   *)
(* and the half-duplex RS-485 line between them, which holds at most one   *)
(* frame, may lose it, and delivers it unchanged otherwise (a corrupted    *)
(* frame fails its CRC and is lost).  The client is stop-and-wait: the     *)
(* next record is sent when the reply to the last one has come.  When none *)
(* comes the library repeats the request; the repetition looks exactly     *)
(* like the original, and the receiver does not look at record numbers.    *)
(*                                                                         *)
(* A reply comes before the client's time-out (0.4 s) or not at all: the   *)
(* server answers in the same call that reads the request.                 *)
(***************************************************************************)
EXTENDS FileReceiver

CONSTANTS Files,      \* the texts an operator sends
          Retries     \* retries of the client's configuration

ASSUME TransferAssumption == Files \subseteq Seq(Word) /\ Retries \in Nat

VARIABLES
  pc,         \* the record the client is at, or how the run ended
  file,       \* the contents of request.json
  pos,        \* registers of the file in acknowledged DATA records
  tries,      \* requests sent for the current record
  waiting,    \* the client waits for a reply
  frame,      \* what is on the line
  delivered,  \* history: the texts printed since the run began
  faulty      \* history: a frame was lost or the controller reset in this run

clientVars   == <<pc, file, pos, tries, waiting>>
transferVars == <<recvVars, clientVars, frame, delivered, faulty>>

Active == pc \in {"head", "data", "tail"}

TransferTypeOK ==
  /\ RecvTypeOK
  /\ pc \in {"idle", "head", "data", "tail", "done", "failed"}
  /\ file \in Seq(Word) /\ pos \in 0..Len(file)
  /\ tries \in 0..Retries + 1
  /\ waiting \in BOOLEAN
  /\ frame \in {"none", "request", "ok", "exception"}
  /\ delivered \in Seq(Seq(Word \cup {Junk}))
  /\ faulty \in BOOLEAN

TransferInit ==
  /\ RecvInit
  /\ pc = "idle" /\ file = <<>> /\ pos = 0 /\ tries = 0 /\ waiting = FALSE
  /\ frame = "none" /\ delivered = <<>> /\ faulty = FALSE

-----------------------------------------------------------------------------
(* The client. *)

NChunks(f) == (Len(f) + ChunkRegs - 1) \div ChunkRegs

ChunkEnd == IF pos + ChunkRegs <= Len(file) THEN pos + ChunkRegs ELSE Len(file)
\* Mutant: the slice of the file does not move with pos.
ChunkAtStart == SubSeq(file, 1, ChunkEnd - pos)
Chunk    == SubSeq(file, pos + 1, ChunkEnd)
\* Mutant: the length is announced in registers.
HeaderInRegisters == [total_len |-> Len(file), n_chunks |-> NChunks(file)]
Header   == [total_len |-> 2 * Len(file), n_chunks |-> NChunks(file)]

\* Both length checks of the script; a longer file ends it with an exception.
StartRun(f) ==
  /\ ~Active
  /\ NChunks(f) <= HeadRec
  /\ NChunks(f) + 2 <= TailRec
  /\ pc' = "head" /\ file' = f /\ pos' = 0 /\ tries' = 0 /\ waiting' = FALSE
  /\ delivered' = <<>> /\ faulty' = FALSE
  /\ UNCHANGED <<recvVars, frame>>

ClientSend ==
  /\ Active /\ ~waiting
  /\ waiting' = TRUE /\ tries' = tries + 1 /\ frame' = "request"
  /\ UNCHANGED <<recvVars, pc, file, pos, delivered, faulty>>

\* The record after the one that was acknowledged.
Advance ==
  LET p == IF pc = "data" THEN ChunkEnd ELSE pos
  IN  /\ pos' = p
      /\ pc' = IF pc = "tail" THEN "done"
               ELSE IF p < Len(file) THEN "data" ELSE "tail"

\* Mutant: a request the receiver refuses is sent again.
ClientReceiveRetries ==
  /\ waiting
  /\ \/ frame = "ok" /\ Advance
     \/ frame = "exception" /\ UNCHANGED <<pc, pos>>
  /\ frame' = "none" /\ waiting' = FALSE /\ tries' = 0
  /\ UNCHANGED <<recvVars, file, delivered, faulty>>

ClientReceive ==
  /\ waiting
  /\ \/ frame = "ok" /\ Advance
     \/ frame = "exception" /\ pc' = "failed" /\ UNCHANGED pos
  /\ frame' = "none" /\ waiting' = FALSE /\ tries' = 0
  /\ UNCHANGED <<recvVars, file, delivered, faulty>>

\* Mutant: one retry too many.
ClientTimeoutLate ==
  /\ waiting /\ frame = "none"
  /\ waiting' = FALSE
  /\ pc' = IF tries > Retries + 1 THEN "failed" ELSE pc
  /\ UNCHANGED <<recvVars, file, pos, tries, frame, delivered, faulty>>

ClientTimeout ==
  /\ waiting /\ frame = "none"
  /\ waiting' = FALSE
  /\ pc' = IF tries > Retries THEN "failed" ELSE pc
  /\ UNCHANGED <<recvVars, file, pos, tries, frame, delivered, faulty>>

-----------------------------------------------------------------------------
(* The line and the controller. *)

LoseFrame ==
  /\ frame # "none"
  /\ frame' = "none" /\ faulty' = TRUE
  /\ UNCHANGED <<recvVars, clientVars, delivered>>

\* The request on the line is the client's current record.
CallReceiver ==
  \/ pc = "head" /\ \E regs \in [1..HdrRegs -> Word] :
                       server_write_file_record(HeadRec, regs, Header)
  \/ pc = "data" /\ server_write_file_record(pos \div ChunkRegs, Chunk, Header)
  \/ pc = "tail" /\ server_write_file_record(TailRec, <<>>, Header)

ServerHandle ==
  /\ frame = "request"
  /\ CallReceiver
  /\ frame' = IF ret' = "NONE" THEN "ok" ELSE "exception"
  /\ delivered' = IF out' = {} THEN delivered
                  ELSE Append(delivered, CHOOSE t \in out' : TRUE)
  /\ UNCHANGED <<clientVars, faulty>>

ControllerReset ==
  /\ Reset
  /\ faulty' = TRUE
  /\ UNCHANGED <<clientVars, frame, delivered>>

TransferNext ==
  \/ \E f \in Files : StartRun(f)
  \/ ClientSend \/ ClientReceive \/ ClientTimeout
  \/ LoseFrame \/ ServerHandle \/ ControllerReset

\* The client's script and the server's poll loop run on; nobody must start
\* a run, and neither a loss nor a reset has to happen.
Fairness == /\ WF_transferVars(ClientSend) /\ WF_transferVars(ClientReceive)
            /\ WF_transferVars(ClientTimeout) /\ WF_transferVars(ServerHandle)

TransferSpec == TransferInit /\ [][TransferNext]_transferVars
FairTransferSpec == TransferSpec /\ Fairness

-----------------------------------------------------------------------------
\* The transfer implements FileDelivery: whatever is lost, repeated or reset,
\* what is printed in a run starts with the file, it is printed once, and the
\* client reports success only after it.  Record numbers are not checked by
\* the receiver; the announced length alone must catch repeated chunks.
Status == IF Active THEN "running" ELSE pc
Delivery == INSTANCE FileDelivery WITH status <- Status
DeliverySpec == Delivery!Spec

\* A run fails only because of a lost frame, a reset, or a file larger than
\* the receiver's buffer: left alone, the algorithm delivers what fits.
FailureHasCause == pc = "failed" => faulty \/ Len(file) > BufRegs

\* The receiver appends whatever comes, so a DATA record repeated after a
\* lost reply is stored twice.  An open session then holds more registers than
\* the client has sent, and it stays so until the announced length refuses it;
\* otherwise it holds exactly what was sent.
SessionIsFile ==
  pc \in {"data", "tail"} /\ Open =>
    LET sent == IF pc = "data" /\ frame = "ok" THEN ChunkEnd ELSE pos
    IN  /\ total = 2 * Len(file)
        /\ taken = SubSeq(file, 1, sent) \/ Len(taken) > sent

\* What a run is at: the kind of record; and how far one attempt at a record is.
RecordRank == [head |-> 0, data |-> 1, tail |-> 2]
Attempt == IF waiting THEN [request |-> 0, ok |-> 1, exception |-> 1, none |-> 2][frame] ELSE 3

\* Whatever is lost or reset, every step of a run ends it, or goes on to a later record,
\* to the next attempt at this one, or further in this attempt: a record once
\* acknowledged is never sent again, and none forever.
RunAdvances ==
  [][ Active =>
        \/ ~Active'
        \/ RecordRank[pc'] > RecordRank[pc]
        \/ pc' = pc /\ pos' > pos
        \/ /\ pc' = pc /\ pos' = pos
           /\ tries' > tries \/ (tries' = tries /\ Attempt' > Attempt) ]_<<clientVars, frame>>

\* Every run ends, however many frames are lost.
RunEnds == Active ~> ~Active

-----------------------------------------------------------------------------
(* The parts of the inductive invariant that say what SessionIsFile, the     *)
(* refinement and FailureHasCause rest on.                                   *)

LineState ==
  /\ frame # "none" => waiting
  /\ waiting => Active
  /\ waiting /\ ~faulty => frame # "none"
  /\ Active /\ ~waiting => tries <= Retries

ClientState ==
  /\ Active => NChunks(file) <= HeadRec
  /\ pc = "head" => pos = 0
  /\ pc = "data" => pos < Len(file)
  /\ pc = "tail" => pos = Len(file)

HeadAccepted ==
  pc = "head" /\ frame = "ok" /\ Open => total = 2 * Len(file) /\ taken = <<>>

DeliveredAtTail ==
  /\ delivered # <<>> => Len(delivered) = 1 /\ BeginsWith(delivered[1], file)
  /\ Active /\ delivered # <<>> => pc = "tail" /\ ~Open
  /\ pc = "tail" /\ frame = "ok" => delivered # <<>>

WithoutFault ==
  ~faulty =>
    /\ pc = "head" /\ frame = "ok" => Open /\ Len(file) <= BufRegs
    /\ pc = "head" /\ frame = "exception" => Len(file) > BufRegs
    /\ pc \in {"data", "tail"} => Len(file) <= BufRegs /\ frame # "exception"
    /\ pc = "data" =>
         Open /\ taken = SubSeq(file, 1, IF frame = "ok" THEN ChunkEnd ELSE pos)
    /\ pc = "tail" /\ frame # "ok" => Open /\ taken = file

TransferInv ==
  /\ TransferTypeOK /\ LineState /\ ClientState /\ HeadAccepted
  /\ SessionIsFile /\ DeliveredAtTail /\ WithoutFault /\ FailureHasCause
=============================================================================
