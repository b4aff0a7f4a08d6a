-------------------------- MODULE WriteFileRecord --------------------------
(***************************************************************************)
(* handle_write_file_record of src/lib/nanoMODBUS/nanomodbus.c for a       *)
(* request to this unit or to all, with a right CRC: one pass over the     *)
(* sub-requests checks them, a second one executes them, and the request   *)
(* is echoed.                                                              *)
(*                                                                         *)
(* Both passes walk the message buffer with an index and count the bytes   *)
(* that are left in an unsigned 16-bit number.  A sub-request longer than  *)
(* what is left wraps that number, and the check pass walks on through the *)
(* memory behind the request.  idx counts from the first sub-request;      *)
(* header[i] is what the 7 bytes at idx = i say, and memory ends at Mem.   *)
(*                                                                         *)
(* The second pass takes the registers for halfwords where they lie.  The  *)
(* controller, a Cortex-M0, faults on a halfword at an odd address, and    *)
(* with a header of 7 bytes every second sub-request has its registers at  *)
(* one.                                                                    *)
(***************************************************************************)
EXTENDS Integers, FiniteSets

CONSTANTS
  First,         \* index of the first sub-request in the message buffer (3)
  HeaderSize,    \* bytes of a sub-request before its registers (7)
  MaxRecord,     \* last record number (0x270F)
  MaxLength,     \* most registers of a sub-request (122)
  MaxRequest,    \* most bytes of sub-requests (251)
  SizeMod,       \* the range of size (2^16)
  Mem,           \* bytes of memory from the first sub-request on
  Headers        \* what 7 bytes may say

(***************************************************************************)
(* The controller's 6 KB of RAM are less than size can count: an index     *)
(* that has followed a wrapped size leaves the memory before size is used  *)
(* up again.  The buffer begins at an even address, as the first member of *)
(* nmbs_t, and so do the registers of the first sub-request.               *)
(***************************************************************************)
ASSUME WriteFileRecordAssumption ==
  /\ First \in Nat /\ (First + HeaderSize) % 2 = 0
  /\ {HeaderSize, MaxRecord, MaxLength, MaxRequest, SizeMod, Mem} \subseteq Nat
  /\ HeaderSize > 0 /\ MaxRequest + 2 < Mem
  /\ Mem + HeaderSize + 2 * MaxLength < SizeMod
  /\ Headers \subseteq [type : 0..255, file : Nat, record : Nat, length : Nat]

VARIABLES
  pc, broadcast,
  callback,      \* nmbs->callbacks.write_file_record is there
  request_size,
  size,          \* bytes left
  idx,           \* msg.buf_idx - msg_buf_idx
  header,        \* the memory, as far as it was read
  swapped,       \* sub-requests whose registers are in the controller's byte order
  reply,
  checked, executed  \* history: the sub-requests that passed the checks, that the callback took

vars == <<pc, broadcast, callback, request_size, size, idx, header, swapped, reply,
          checked, executed>>

Unread == [type |-> 256, file |-> 0, record |-> 0, length |-> 0]  \* no byte is 256
Exceptions == {"illegal function", "illegal data address", "illegal data value", "callback's"}

WriteFileRecordTypeOK ==
  /\ pc \in {"received", "check", "execute", "done", "fault"}
  /\ broadcast \in BOOLEAN /\ callback \in BOOLEAN
  /\ request_size \in 0..255 /\ size \in 0..(SizeMod - 1) /\ idx \in Nat
  /\ header \in [0..Mem -> Headers \cup {Unread}]
  /\ {swapped, checked, executed} \subseteq SUBSET (0..Mem)
  /\ reply \in Exceptions \cup {"none", "echo"}

Span(h) == HeaderSize + 2 * h.length

HeaderPasses(h) ==
  /\ h.type = 6 /\ h.file # 0
  /\ h.record <= MaxRecord /\ h.length <= MaxLength

\* get_regs and swap_regs both turn the bytes of every register around.
Toggle(S, i) == IF i \in S THEN S \ {i} ELSE S \cup {i}

Init ==
  /\ pc = "received" /\ reply = "none"
  /\ broadcast \in BOOLEAN /\ callback \in BOOLEAN /\ request_size \in 0..255
  /\ size = 0 /\ idx = 0
  /\ header = [i \in 0..Mem |-> Unread]
  /\ swapped = {} /\ checked = {} /\ executed = {}

Return(r) == pc' = "done" /\ reply' = r

\* A broadcast is not answered.
send_exception_msg(e) == Return(IF broadcast THEN "none" ELSE e)

Restart == size' = request_size /\ idx' = 0
Reject(e) == send_exception_msg(e) /\ UNCHANGED <<size, idx>>

Receive ==
  /\ pc = "received"
  /\ \/ request_size > MaxRequest /\ Return("none") /\ UNCHANGED <<size, idx>>
     \/ request_size < HeaderSize /\ Reject("illegal data value")
     \/ request_size \in HeaderSize..MaxRequest /\ Restart /\ pc' = "check" /\ UNCHANGED reply
  /\ UNCHANGED <<broadcast, callback, request_size, header, swapped, checked, executed>>

(***************************************************************************)
(* The header at the index, read for the first time or once more.  Beyond  *)
(* the memory there is no header, but a bus fault.                         *)
(***************************************************************************)
ReadHeader(h) ==
  /\ idx + HeaderSize <= Mem
  /\ h \in Headers /\ header[idx] \in {Unread, h}
  /\ header' = [header EXCEPT ![idx] = h]

LeftRegistersOnly(h) == (size - 2 * h.length) % SizeMod
Left(h) == (size - Span(h)) % SizeMod

AdvanceSigned(h) == size' = size - Span(h) /\ idx' = idx + Span(h)
AdvanceForgotten(h) == UNCHANGED <<size, idx>>
Advance(h) == size' = Left(h) /\ idx' = idx + Span(h)

CheckNextNoRemainder(h) ==
  /\ HeaderPasses(h)
  /\ checked' = checked \cup {idx}
  /\ \/ Left(h) >= HeaderSize /\ Advance(h) /\ UNCHANGED <<pc, reply>>
     \/ Left(h) < HeaderSize /\ Restart /\ pc' = "execute" /\ UNCHANGED reply
\* The three outcomes of one turn of the check loop.
CheckNext(h) ==
  /\ HeaderPasses(h)
  /\ checked' = checked \cup {idx}
  /\ \/ Left(h) >= HeaderSize /\ Advance(h) /\ UNCHANGED <<pc, reply>>
     \/ Left(h) \in 1..(HeaderSize - 1) /\ Reject("illegal data value")
     \/ Left(h) = 0 /\ Restart /\ pc' = "execute" /\ UNCHANGED reply

Check ==
  /\ pc = "check"
  /\ \E h \in Headers :
        /\ ReadHeader(h)
        /\ \/ CheckNext(h)
           \/ ~HeaderPasses(h) /\ Reject("illegal data address") /\ UNCHANGED checked
  /\ UNCHANGED <<broadcast, callback, request_size, swapped, executed>>

BusFault ==
  /\ pc \in {"check", "execute"} /\ idx + HeaderSize > Mem
  /\ pc' = "fault"
  /\ UNCHANGED <<broadcast, callback, request_size, size, idx, header, swapped, reply,
                 checked, executed>>

\* Mutant: the header counts for the alignment, not the registers behind it.
AlignedHeader(h) == h.length = 0 \/ (First + idx) % 2 = 0
\* get_regs: whether the registers may be read as halfwords, if there are any.
Aligned(h) == h.length = 0 \/ (First + idx + HeaderSize) % 2 = 0

\* The HardFault comes before the callback, and ends the controller's work: what the
\* earlier sub-requests wrote stays, and there is no reply.
AlignmentFault ==
  /\ pc = "execute"
  /\ \E h \in Headers : ReadHeader(h) /\ ~Aligned(h)
  /\ pc' = "fault"
  /\ UNCHANGED <<broadcast, callback, request_size, size, idx, swapped, reply,
                 checked, executed>>

Finish == Return(IF broadcast THEN "none" ELSE "echo")

TakenTurned(h) ==
  /\ executed' = executed \cup {idx}
  /\ swapped' = Toggle(swapped, idx)
  /\ Advance(h)
  /\ IF Left(h) >= HeaderSize THEN UNCHANGED <<pc, reply>> ELSE Finish
\* The callback takes the record: its registers are turned back.
Taken(h) ==
  /\ executed' = executed \cup {idx}
  /\ swapped' = Toggle(Toggle(swapped, idx), idx)
  /\ Advance(h)
  /\ IF Left(h) >= HeaderSize THEN UNCHANGED <<pc, reply>> ELSE Finish

\* The callback refuses it, or there is none.
Refused ==
  /\ swapped' = Toggle(swapped, idx)
  /\ \E e \in IF callback THEN {"callback's"} ELSE {"illegal function"} : Reject(e)
  /\ UNCHANGED executed

Execute ==
  /\ pc = "execute"
  /\ \E h \in Headers :
        /\ ReadHeader(h) /\ Aligned(h)
        /\ (callback /\ Taken(h)) \/ Refused
  /\ UNCHANGED <<broadcast, callback, request_size, checked>>

Stop == pc \in {"done", "fault"} /\ UNCHANGED vars

Next == Receive \/ Check \/ BusFault \/ AlignmentFault \/ Execute \/ Stop
WriteFileRecordSpec == Init /\ [][Next]_vars /\ WF_vars(Next)

(***************************************************************************)
(* Properties                                                              *)
(***************************************************************************)
(***************************************************************************)
(* What a well-formed request is, without walking: S are the places of its *)
(* sub-requests.  They pass the checks, the first begins at 0, each ends   *)
(* where another begins or at the end of the request, and none begins      *)
(* inside another.                                                         *)
(***************************************************************************)
Tiles(S) ==
  /\ 0 \in S
  /\ \A i \in S :
        /\ header[i] \in Headers /\ HeaderPasses(header[i])
        /\ i + Span(header[i]) \in S \cup {request_size}
        /\ \A j \in S : i < j => i + Span(header[i]) <= j

\* The callback is called only for a request that is well-formed as a whole,
\* only inside the received bytes, and in the order of the sub-requests; the
\* second pass sees what the first one checked.
ExecutesWellFormed ==
  executed # {} =>
     /\ Tiles(checked)
     /\ executed \subseteq checked
     /\ \A i \in executed : i + Span(header[i]) <= request_size
     /\ \A i \in executed, j \in checked : j < i => j \in executed

\* What the master may conclude from the reply: an echo means that every
\* sub-request was executed, and it is the request byte for byte; after an
\* exception of the checks none was; after one of the callback not all were.
ReplyTellsOutcome ==
  pc = "done" =>
     /\ reply = "echo" => executed = checked /\ executed # {} /\ swapped = {}
     /\ reply \in {"illegal function", "illegal data address", "illegal data value"} => executed = {}
     /\ reply = "callback's" => executed # checked

\* The check pass reads behind the received bytes only after a sub-request
\* that announced more registers than the request has left.
OverrunHasCause ==
  pc = "check" /\ idx + HeaderSize > request_size =>
     \E i \in checked : i + Span(header[i]) > request_size

Stage == [received |-> 0, check |-> 1, execute |-> 2, done |-> 3, fault |-> 3]

\* Every turn of a loop goes on by a header at least, the checks inside the memory
\* though size may have wrapped, the execution inside the request.  The execution
\* faults at the registers of a checked sub-request only, and never before the
\* callback has taken an earlier one: the controller stops with the request half done.
HandlerAdvances ==
  [][ /\ \/ Stage[pc'] > Stage[pc]
         \/ /\ pc' = pc /\ idx + HeaderSize <= idx'
            /\ idx + HeaderSize <= IF pc = "execute" THEN request_size ELSE Mem
      /\ pc = "execute" /\ pc' = "fault" =>
           idx \in checked /\ header[idx].length > 0 /\ executed # {} ]_vars

\* Whatever the bytes say, also after a wrap of size, the handler comes to an end.
HandlerReturns == pc = "received" ~> pc \in {"done", "fault"}

=============================================================================
