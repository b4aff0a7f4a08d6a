----------------------------- MODULE NmbsClient -----------------------------
(***************************************************************************)
(* The nanoMODBUS client: its functions (FC 1 to 6, 15, 16, 20, 21, 23) as *)
(* calls that send a request and take a reply, with the servers of the     *)
(* same library at the other end, over RTU or over TCP.                    *)
(*                                                                         *)
(* The client does not know whose reply it takes.  It empties the line     *)
(* before it sends (flush), and compares the transaction id on TCP, the    *)
(* unit on RTU, and of the contents what is in Pdu.  Replies may come      *)
(* after their call has returned, between two calls or during a later one. *)
(*                                                                         *)
(* A frame is whole, or it is not ok: damaged, written in part, or the     *)
(* rest of a frame that was read in part.  A CRC shows that.  Over TCP     *)
(* nothing shows it, and the connection stays open: who comes to such a    *)
(* frame reads whatever bytes follow it as its end, or its own bytes as a  *)
(* header, and is out of step from there on (broken).                      *)
(* All that a unit holds is one datum.                                     *)
(***************************************************************************)
EXTENDS Pdu, Sequences

CONSTANTS
  Transport,
  Units,      \* the servers' addresses
  Ops,        \* the calls that are made
  TidMax,     \* last transaction id (UINT16_MAX)
  Late,       \* whether replies may come after the client's time-out
  MaxCalls    \* bound: calls in a behaviour

ASSUME ClientAssumption ==
  /\ Transport \in Transports /\ Late \in BOOLEAN
  /\ Units \subseteq 1..255 /\ Ops \subseteq Calls
  /\ Data \subseteq Nat /\ TidMax \in Nat /\ TidMax > 1 /\ MaxCalls \in Nat
  /\ Transport = "TCP" => \E u \in Units : Units = {u}

VARIABLES
  pc,         \* "idle", or "sent": waiting for the reply
  op, unit,   \* the call
  tid,        \* current_tid
  requests, replies,  \* the frames under way
  store,      \* what each unit holds
  result,     \* of the last call; of is the call whose reply was taken (0: none)
  calls,      \* history: the calls sent so far
  executed,   \* history: the numbers of the calls that were executed
  fault,      \* history: whether anything went wrong on the line or in a callback
  broken      \* history: whether a frame was cut or lost over TCP

clientVars == <<pc, op, unit, tid, requests, replies, store, result, calls, executed, fault,
               broken>>

n == Len(calls)
NoData == -1
Results == [err : {"no call", "NONE", "INVALID_ARGUMENT", "TRANSPORT", "TIMEOUT", "CRC", "exception",
                   "INVALID_TCP_MBAP", "INVALID_UNIT_ID", "INVALID_RESPONSE"},
            data : Data \cup {NoData}, of : Nat]
Requests == [of : Nat, tid : 1..TidMax, unit : Units \cup {0}, op : Ops, ok : BOOLEAN]
Replies == [of : Nat, tid : 1..TidMax, unit : Units \cup {0}, op : Ops, ok : BOOLEAN,
            exception : BOOLEAN, count : Nat, data : Data \cup {NoData}]

ClientTypeOK ==
  /\ pc \in {"idle", "sent"} /\ op \in Ops /\ unit \in Units \cup {0}
  /\ tid \in 0..TidMax
  /\ requests \in Seq(Requests) /\ replies \in Seq(Replies)
  /\ store \in [Units -> Data] /\ result \in Results
  /\ calls \in Seq([op : Ops, unit : Units \cup {0}])
  /\ executed \subseteq 1..n /\ fault \in BOOLEAN /\ broken \in BOOLEAN

Effect(o, d) == IF o.fc \in Writers THEN o.data ELSE d
Answer(o, d) == IF o.fc \in Readers THEN Effect(o, d) ELSE NoData

ClientInit ==
  /\ pc = "idle" /\ op \in Ops /\ unit \in Units /\ tid = 0
  /\ requests = <<>> /\ replies = <<>>
  /\ store \in [Units -> Data]
  /\ result = [err |-> "no call", data |-> NoData, of |-> 0]
  /\ calls = <<>> /\ executed = {} /\ fault = FALSE /\ broken = FALSE

Ends(err, data, of) ==
  /\ pc' = "idle"
  /\ result' = [err |-> err, data |-> data, of |-> of]
Fails(err) == Ends(err, NoData, 0)

Cut(frame) == [frame EXCEPT !.ok = FALSE]

(***************************************************************************)
(* What is left of the frames q when a number of bytes has been read.      *)
(* flush() reads what has arrived, 260 bytes at most, with time-out 0: it  *)
(* may end within a frame, on both transports.                             *)
(***************************************************************************)
Dropped(q) == {SubSeq(q, k + 1, Len(q)) : k \in 0..Len(q)}
Rests(q) == Dropped(q) \cup {<<Cut(Head(s))>> \o Tail(s) : s \in Dropped(q) \ {<<>>}}

\* No frame is older than the transaction ids are distinct.
InWindow ==
  \A q \in {requests, replies} : \A i \in DOMAIN q : n + 1 - q[i].of < TidMax

NextTidUnbounded == tid + 1
NextTid == IF tid = TidMax THEN 1 ELSE tid + 1

\* FC 1 to 4, 20 and 23 wait for a reply also after a broadcast.
AwaitsReply(o, u) == ~(Transport = "RTU" /\ u = 0 /\ o.fc \in Writers \ {23})

InvalidArgument(o) ==
  /\ pc = "idle" /\ ~Request(o).valid
  /\ Fails("INVALID_ARGUMENT")
  /\ UNCHANGED <<op, unit, tid, requests, replies, store, calls, executed, fault, broken>>

FlushCuts == Transport = "TCP" /\ replies' \notin Dropped(replies)

msg_state_req(o, u) ==
  /\ n < MaxCalls /\ (Transport = "TCP" => InWindow)
  /\ pc = "idle" /\ Request(o).valid
  /\ op' = o /\ unit' = u /\ tid' = NextTid
  /\ replies' \in Rests(replies)
  /\ calls' = Append(calls, [op |-> o, unit |-> u])
  /\ UNCHANGED <<store, executed>>

NewRequest(o, u, ok) == [of |-> n + 1, tid |-> NextTid, unit |-> u, op |-> o, ok |-> ok]

Send(o, u) ==
  /\ msg_state_req(o, u)
  /\ requests' = Append(requests, NewRequest(o, u, TRUE))
  /\ IF AwaitsReply(o, u) THEN pc' = "sent" /\ UNCHANGED result ELSE Ends("NONE", NoData, 0)
  /\ broken' = (broken \/ FlushCuts)
  /\ UNCHANGED fault

\* platform.write fails, or writes a part of the request: the call returns, and over
\* TCP too the part stays where it is.
SendFails(o, u) ==
  /\ msg_state_req(o, u)
  /\ \E err \in {"TIMEOUT", "TRANSPORT"} : Fails(err)
  /\ fault' = TRUE
  /\ \/ UNCHANGED requests /\ broken' = (broken \/ FlushCuts)
     \/ /\ requests' = Append(requests, NewRequest(o, u, FALSE))
        /\ broken' = (broken \/ Transport = "TCP")

Underway == \E q \in {requests, replies} : \E i \in DOMAIN q : q[i].of = n /\ q[i].ok

Timeout ==
  /\ pc = "sent" /\ (Underway => Late)
  /\ Fails("TIMEOUT")
  /\ fault' = (fault \/ Underway)
  /\ UNCHANGED <<op, unit, tid, requests, replies, store, calls, executed, broken>>

(***************************************************************************)
(* recv_res_header.  On TCP the whole frame has been read before the       *)
(* header is looked at; on RTU the rest of the frame stays on the line.    *)
(***************************************************************************)
HeaderErrorTcpUnit(r) ==
  IF Transport = "RTU" /\ r.unit # unit THEN "INVALID_UNIT_ID"
  ELSE IF r.op.fc # op.fc THEN "INVALID_RESPONSE" ELSE "NONE"
HeaderErrorAnyUnit(r) ==
  IF Transport = "TCP" /\ r.tid # tid THEN "INVALID_TCP_MBAP"
  ELSE IF r.op.fc # op.fc THEN "INVALID_RESPONSE" ELSE "NONE"
HeaderError(r) ==
  IF Transport = "TCP" /\ r.tid # tid THEN "INVALID_TCP_MBAP"
  ELSE IF Transport = "RTU" /\ r.unit # unit THEN "INVALID_UNIT_ID"
  ELSE IF r.op.fc # op.fc THEN "INVALID_RESPONSE" ELSE "NONE"

Skip(r) == replies' = IF Transport = "TCP" THEN Tail(replies) ELSE <<Cut(r)>> \o Tail(replies)

\* Reading a frame that is not ok may take some of the next ones with it.  Over TCP
\* its bytes may pass for the reply, which is then no call's (of is 0), end too soon, or
\* show an error, for all of which INVALID_TCP_MBAP stands.
ReceiveGarbage(r) ==
  /\ ~r.ok /\ replies' \in Rests(Tail(replies))
  /\ \/ Transport = "RTU" /\ Fails("CRC")
     \/ /\ Transport = "TCP"
        /\ \/ \E err \in {"INVALID_TCP_MBAP", "TIMEOUT"} : Fails(err)
           \/ \E data \in (IF op.fc \in Readers THEN Data ELSE {NoData}) : Ends("NONE", data, 0)

ReceiveForeign(r) == r.ok /\ HeaderError(r) # "NONE" /\ Fails(HeaderError(r)) /\ Skip(r)

ReceiveException(r) ==
  /\ r.ok /\ HeaderError(r) = "NONE" /\ r.exception
  /\ Fails("exception") /\ replies' = Tail(replies)

ReceiveAnswer(r) ==
  /\ r.ok /\ HeaderError(r) = "NONE" /\ ~r.exception
  /\ IF Accepts(op, r.op, r.count) THEN Ends("NONE", r.data, r.of) ELSE Fails("INVALID_RESPONSE")
  /\ replies' = Tail(replies)

Receive ==
  /\ pc = "sent" /\ replies # <<>>
  /\ LET r == Head(replies)
     IN  ReceiveGarbage(r) \/ ReceiveForeign(r) \/ ReceiveException(r) \/ ReceiveAnswer(r)
  /\ UNCHANGED <<op, unit, tid, requests, store, calls, executed, fault, broken>>

(***************************************************************************)
(* nmbs_server_poll of the unit a request is for.                          *)
(***************************************************************************)
Reply(q, h, exception, data) ==
  [of |-> q.of, tid |-> q.tid, unit |-> q.unit, op |-> q.op, ok |-> TRUE,
   exception |-> exception, count |-> h.count, data |-> data]

Addressed(q) ==
  IF Transport = "TCP" \/ q.unit = 0 THEN Units ELSE {q.unit}
Broadcast(q) == Transport = "RTU" /\ q.unit = 0

\* What is not a request is read with some of what follows it, and flushed.  Over TCP a
\* request that was cut is completed with the bytes of the next call: executed with
\* other arguments than it was made with, and answered, or the rest of a request passes
\* for one of its own.
ServeGarbage(q, h) ==
  /\ ~q.ok \/ ~h.taken
  /\ requests' \in Rests(Tail(requests))
  /\ \/ UNCHANGED <<replies, store>>
     \/ /\ Transport = "TCP" /\ ~q.ok
        /\ store' \in [Units -> Data]
        /\ replies' \in {replies, Append(replies, Cut(Reply(q, h, TRUE, NoData)))}
  /\ UNCHANGED <<executed, fault>>

\* The handler's checks, or the callback, which may fail for any reason.
ServeException(q, h) ==
  /\ q.ok /\ h.taken
  /\ fault' = (fault \/ h.valid)
  /\ replies' = IF Broadcast(q) THEN replies ELSE Append(replies, Reply(q, h, TRUE, NoData))
  /\ UNCHANGED <<store, executed>>

ServeRequestBroadcastOnly(q, h) ==
  /\ q.ok /\ h.taken /\ h.valid
  /\ store' = [u \in Units |-> IF Broadcast(q) THEN Effect(q.op, store[u]) ELSE store[u]]
  /\ executed' = executed \cup {q.of}
  /\ \/ Broadcast(q) /\ UNCHANGED replies
     \/ ~Broadcast(q) /\ \E u \in Addressed(q) :
           replies' = Append(replies, Reply(q, h, FALSE, Answer(q.op, store[u])))
  /\ UNCHANGED fault
ServeRequest(q, h) ==
  /\ q.ok /\ h.taken /\ h.valid
  /\ store' = [u \in Units |-> IF u \in Addressed(q) THEN Effect(q.op, store[u]) ELSE store[u]]
  /\ executed' = executed \cup {q.of}
  /\ \/ Broadcast(q) /\ UNCHANGED replies
     \/ ~Broadcast(q) /\ \E u \in Addressed(q) :
           replies' = Append(replies, Reply(q, h, FALSE, Answer(q.op, store[u])))
  /\ UNCHANGED fault

Serve ==
  /\ requests # <<>>
  /\ LET q == Head(requests)
         h == handle_req_fc(q.op, Request(q.op).count)
     IN  \/ ServeGarbage(q, h)
         \/ requests' = Tail(requests) /\ (ServeException(q, h) \/ ServeRequest(q, h))
  /\ UNCHANGED <<pc, op, unit, tid, result, calls, broken>>

(***************************************************************************)
(* An RTU line loses and damages frames.  Over TCP it is the server's      *)
(* write of a reply that fails or ends early, with the flush that follows, *)
(* or a time-out of either side between two pieces of a frame.             *)
(***************************************************************************)
Spoiled(q) == {Tail(q), <<Cut(Head(q))>> \o Tail(q)}

LineFault ==
  /\ fault' = TRUE /\ broken' = (broken \/ Transport = "TCP")
  /\ \/ requests # <<>> /\ requests' \in Spoiled(requests) /\ UNCHANGED replies
     \/ replies # <<>> /\ replies' \in Spoiled(replies) /\ UNCHANGED requests
  /\ UNCHANGED <<pc, op, unit, tid, store, result, calls, executed>>

CallStep ==
  \E o \in Ops : InvalidArgument(o) \/ \E u \in Units \cup {0} : Send(o, u) \/ SendFails(o, u)

ClientNext == CallStep \/ Timeout \/ Receive \/ Serve \/ LineFault
ClientSpec == ClientInit /\ [][ClientNext]_clientVars

(***************************************************************************)
(* Properties                                                              *)
(***************************************************************************)
Succeeded == pc = "idle" /\ result.err = "NONE" /\ result.of # 0

\* Over TCP the reply a call returns with is the one to its own request, however
\* late the replies to earlier calls are, as long as no transaction id comes
\* round while a frame with it is under way (current_tid, recv_res_header) and no
\* frame has been cut (send, flush).
OwnReply ==
  Transport = "TCP" /\ ~broken /\ pc = "idle" /\ result.err = "NONE" =>
     result.of = n /\ n \in executed

\* What a reply tells about the call it is taken for, over RTU.
Alike(a, b) ==
  /\ a.fc = b.fc
  /\ a.fc \in {3, 4, 15, 16, 23} => a.quantity = b.quantity
  /\ a.fc \in {5, 6, 15, 16} => a.address = b.address
  /\ a.fc \in {5, 6} => a.data = b.data
  /\ a.fc \in {20, 21} => a.count = b.count
  /\ a.fc = 21 => a.file = b.file /\ a.record = b.record /\ a.data = b.data

\* Over RTU a late reply can be taken for the one to a later call, but then
\* the addressed unit did execute a call like it: an acknowledged write
\* of a register, a coil or a record has been stored.
AcknowledgedIsExecuted ==
  Succeeded =>
     /\ result.of \in executed
     /\ calls[result.of].unit = unit /\ Alike(calls[result.of].op, op)

\* The only errors are invalid arguments, and reads that were broadcast.
OnlyBadCallsFail ==
  pc = "idle" /\ ~fault =>
     \/ result.err \in {"no call", "NONE", "INVALID_ARGUMENT"}
     \/ result.err = "TIMEOUT" /\ Transport = "RTU" /\ unit = 0

\* What the unit a call was for holds, as the call has it.
Holds(data) ==
  \A u \in Units : Transport = "TCP" \/ u = unit =>
     /\ op.fc \in Readers => data = store[u]
     /\ op.fc \in Writers => store[u] = op.data

\* A call that is answered has its own answer, over RTU too, though there no number
\* shows it: when it returns, the unit holds what it was told or what it has answered,
\* and the broadcasts before the call are no longer under way.
AnswerIsCurrent ==
  ~fault /\ Succeeded =>
     result.of = n /\ n \in executed /\ requests = <<>> /\ Holds(result.data)

\* Without losses, damage, failing callbacks and premature time-outs, whatever the
\* client's checks let through, the server serves and the client accepts, and takes
\* no earlier call's reply for it.
WithoutFault == OnlyBadCallsFail /\ AnswerIsCurrent

\* Every message lies in msg.buf on both transports, with the length its header
\* announces, and no count of bytes has wrapped.
FramesFit ==
  /\ \A i \in DOMAIN requests :
        LET q == Request(requests[i].op)
            h == handle_req_fc(requests[i].op, q.count)
        IN  /\ q.announced = q.put /\ LengthAllowed(q.announced)
            /\ h.received = q.put
            /\ \A t \in Transports : FitsBuffer(t, q.put)
  /\ \A i \in DOMAIN replies :
        LET q == Request(replies[i].op)
            h == handle_req_fc(replies[i].op, q.count)
        IN  ~replies[i].exception =>
              /\ h.announced = h.put /\ LengthAllowed(h.announced)
              /\ \A t \in Transports : FitsBuffer(t, h.put)

(***************************************************************************)
(* Over TCP the client implements RemoteCall.  Its server's requests are   *)
(* the late ones, but for the last, which may be the current call's.       *)
(***************************************************************************)
RemotePc ==
  IF pc = "idle" THEN "idle"
  ELSE IF \E i \in DOMAIN requests : requests[i].of = n THEN "called"
  ELSE IF n \in executed THEN "executed" ELSE "dropped"

LateOps ==
  [i \in 1..(IF RemotePc = "called" THEN Len(requests) - 1 ELSE Len(requests)) |-> requests[i].op]

RemoteAnswer ==
  IF RemotePc = "executed" /\ ~broken
  THEN replies[CHOOSE i \in DOMAIN replies : replies[i].of = n].data
  ELSE NoData

RemoteResult ==
  <<IF result.err \in {"no call", "NONE"} THEN result.err ELSE "error", result.data>>

Remote == INSTANCE RemoteCall
  WITH Values <- Data, None <- NoData,
       value <- store[CHOOSE u \in Units : TRUE], pc <- RemotePc, answer <- RemoteAnswer,
       late <- LateOps, result <- RemoteResult

\* Over TCP a call that succeeds was executed once, while it was called, and returns
\* what this execution found; a failed one is executed at most once, in order.  All
\* this until a write, or flush, ends within a frame: the library does not close the
\* connection then (send, flush).
RemoteCallSpec == Remote!CallSpec
=============================================================================
