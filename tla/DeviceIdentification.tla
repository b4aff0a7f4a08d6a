----------------------- MODULE DeviceIdentification -----------------------
(***************************************************************************)
(* FC 43 / 14, Read Device Identification: a client function that asks for *)
(* one page of objects after the other, and the server's handler that      *)
(* fills a page as far as it reaches and names the object the next one     *)
(* starts with.                                                            *)
(*                                                                         *)
(* Objects are numbered: basic ones (all of them mandatory), regular ones, *)
(* a gap, and extended ones.  An object's value is its length.  The        *)
(* application's callbacks may fail at any object, and a message may get   *)
(* lost; late replies are in NmbsClient.  A call to the broadcast address   *)
(* (RTU only) is handled and not answered, and waits for its time-out.      *)
(*                                                                         *)
(* The caller's arrays are modelled by what is stored in them.  The client  *)
(* may store behind their ends; what that destroys is the application's,    *)
(* which may end or go on as if nobody used that memory.                    *)
(***************************************************************************)
EXTENDS Integers, Sequences, FiniteSets

CONSTANTS
  BasicLast, RegularLast,          \* 0x02, 0x06
  ExtendedFirst, ExtendedLast,     \* 0x80, 0xFF
  Room,       \* bytes for objects in a page: 253 - 7
  MaxLength,  \* NMBS_DEVICE_IDENTIFICATION_STRING_LENGTH - 1
  Lengths,    \* lengths objects have
  IdsLengths, \* values of ids_length
  BufferLengths,  \* values of buffer_length (buffers_length)
  CountMod    \* the range of buffers_count (2^8)

ASSUME DeviceAssumption ==
  /\ {BasicLast, RegularLast, ExtendedFirst, ExtendedLast, Room, MaxLength} \subseteq Nat
  /\ BasicLast < RegularLast /\ RegularLast + 1 < ExtendedFirst /\ ExtendedFirst <= ExtendedLast
  /\ Lengths \subseteq 0..MaxLength /\ BufferLengths \subseteq Nat
  /\ CountMod \in Nat /\ ExtendedLast - ExtendedFirst + 1 < CountMod
  /\ IdsLengths \subseteq 0..(CountMod - 1)
  /\ MaxLength + 2 <= Room /\ Room + 6 <= 255

VARIABLES
  objects,  \* what the device has: a length, or Absent
  pc,       \* "idle", "asked", "paging", "answered", "refused", "unanswered"
  call,     \* the client's function and its arguments
  next,     \* next_object_id: the first object asked for
  got,      \* ids of the objects received, in order; total_received of them
  values,   \* the objects whose values were stored, in order
  overrun,  \* history: whether the call stored outside the caller's arrays
  id, left, size, page,  \* the handler's loop: id, res_size_left, msg_size, objects put so far
  more,     \* res_more_follows
  err,      \* what the last call returned
  fault     \* history: whether a callback failed or a message was lost

stored == <<got, values, overrun>>
deviceVars == <<objects, pc, call, next, stored, id, left, size, page, more, err, fault>>

Ids == 0..ExtendedLast
Absent == -1
Done == ExtendedFirst - 1    \* 0x7F: no object has this number

Has(i) == objects[i] # Absent

Kinds == {"basic", "regular", "extended", "single"}
CallTypes == [kind : Kinds, start : Ids, ids_length : IdsLengths \cup {0},
              buffer_length : BufferLengths, broadcast : BOOLEAN]

Valid(c) ==
  CASE c.kind = "extended" -> c.start >= ExtendedFirst
    [] c.kind = "single" -> c.start <= RegularLast \/ c.start >= ExtendedFirst
    [] OTHER -> TRUE

\* The basic and regular functions have an array of as many buffers as objects.
BasicCalls ==
  [kind : {"basic"}, start : {0}, ids_length : {0},
   buffer_length : BufferLengths, broadcast : BOOLEAN]
RegularCalls ==
  [kind : {"regular"}, start : {BasicLast + 1}, ids_length : {0},
   buffer_length : BufferLengths, broadcast : BOOLEAN]
DeviceCalls ==
  BasicCalls \cup RegularCalls
  \cup [kind : {"extended"}, start : Ids, ids_length : IdsLengths,
        buffer_length : BufferLengths, broadcast : BOOLEAN]
  \cup [kind : {"single"}, start : Ids, ids_length : {0},
        buffer_length : BufferLengths, broadcast : BOOLEAN]

DeviceTypeOK ==
  /\ objects \in [Ids -> Lengths \cup {Absent}]
  /\ pc \in {"idle", "asked", "paging", "answered", "refused", "unanswered"}
  /\ call \in CallTypes /\ next \in Ids
  /\ got \in Seq(Ids) /\ values \in Seq(Ids) /\ overrun \in BOOLEAN
  /\ id \in 0..(ExtendedLast + 1) /\ left \in 0..Room /\ size \in 0..255 /\ page \in Seq(Ids)
  /\ more \in BOOLEAN /\ fault \in BOOLEAN
  /\ err \in {"no call", "NONE", "INVALID_ARGUMENT", "INVALID_RESPONSE", "exception", "TIMEOUT", "crash"}

DeviceInit ==
  /\ objects \in [Ids -> Lengths \cup {Absent}] /\ \A i \in (RegularLast + 1)..Done : ~Has(i)
  /\ pc = "idle" /\ call \in BasicCalls /\ next = Done
  /\ got = <<>> /\ values = <<>> /\ overrun = FALSE
  /\ id = 0 /\ left = Room /\ size = 6 /\ page = <<>> /\ more = FALSE
  /\ err = "no call" /\ fault = FALSE

-----------------------------------------------------------------------------
(***************************************************************************)
(* The client's functions                                                  *)
(***************************************************************************)
Returns(e) == pc' = "idle" /\ err' = e

\* The handler's variables and the message end with it.
Forget ==
  id' = 0 /\ left' = Room /\ size' = 6 /\ page' = <<>> /\ more' = FALSE

Begin(c) ==
  /\ pc = "idle"
  /\ call' = c /\ next' = c.start /\ fault' = FALSE
  /\ got' = <<>> /\ values' = <<>> /\ overrun' = FALSE
  /\ \/ Valid(c) /\ pc' = "asked" /\ err' = "no call"
     \/ ~Valid(c) /\ Returns("INVALID_ARGUMENT")
  /\ UNCHANGED <<objects, id, left, size, page, more>>

\* Buffers left for the next page, as a uint8_t: below 0 it becomes a large number.
\* To recv_read_device_identification_res 0 means that there are no buffers.
buffers_count ==
  CASE call.kind = "basic" -> BasicLast + 1
    [] call.kind = "regular" -> RegularLast - BasicLast
    [] call.kind = "extended" -> (call.ids_length - Len(got)) % CountMod
    [] call.kind = "single" -> 1

NextIdAfter == id + 1
NextId == id   \* res_next_object_id

Overfull == buffers_count # 0 /\ Len(page) > buffers_count

\* basic and regular count what they have received, and want an object in every page.
UnexpectedLast ==
  /\ call.kind \in {"basic", "regular"}
  /\ page = <<>> \/ Len(got) + Len(page) >= buffers_count
Unexpected ==
  /\ call.kind \in {"basic", "regular"}
  /\ page = <<>> \/ Len(got) + Len(page) > buffers_count

\* Without buffers the ids are stored all the same, where total_received points; a
\* value is ended by a 0 at its length, however long its buffer is.
OutOfBounds ==
  \/ call.kind = "extended" /\ page # <<>> /\ Len(got) + Len(page) > call.ids_length
  \/ buffers_count # 0 /\ \E i \in DOMAIN page : objects[page[i]] >= call.buffer_length

TakePage ==
  /\ pc = "answered"
  /\ \/ Overfull /\ Returns("INVALID_ARGUMENT") /\ UNCHANGED <<stored, next>>
     \/ /\ ~Overfull
        /\ got' = got \o page
        /\ values' = IF buffers_count = 0 THEN values ELSE values \o page
        /\ overrun' = (overrun \/ OutOfBounds)
        /\ next' = IF more THEN NextId ELSE Done
        /\ \/ Unexpected /\ Returns("INVALID_RESPONSE")
           \/ ~Unexpected /\ more /\ pc' = "asked" /\ UNCHANGED err
           \/ ~Unexpected /\ ~more /\ Returns("NONE")
  /\ Forget
  /\ UNCHANGED <<objects, call, fault>>

TakeException ==
  /\ pc = "refused" /\ Returns("exception")
  /\ UNCHANGED <<objects, call, next, stored, id, left, size, page, more, fault>>

Timeout ==
  /\ pc \in {"asked", "answered", "refused", "unanswered"} /\ Returns("TIMEOUT")
  /\ fault' = (fault \/ pc # "unanswered")
  /\ Forget
  /\ UNCHANGED <<objects, call, next, stored>>

\* What was overwritten ends the application.
Crash ==
  /\ overrun /\ pc # "idle" /\ Returns("crash")
  /\ Forget
  /\ UNCHANGED <<objects, call, next, stored, fault>>

-----------------------------------------------------------------------------
(***************************************************************************)
(* handle_read_device_identification                                       *)
(***************************************************************************)
FirstId(kind) == CASE kind = "basic" -> 0 [] kind = "regular" -> BasicLast + 1 [] kind = "extended" -> ExtendedFirst
LastId(kind) == CASE kind = "basic" -> BasicLast [] kind = "regular" -> RegularLast [] kind = "extended" -> ExtendedLast

Refuse == pc' = "refused" /\ Forget

\* read_device_identification_map or read_device_identification fails.
CallbackFails ==
  /\ pc \in {"asked", "paging"} /\ ~call.broadcast /\ fault' = TRUE /\ Refuse
  /\ UNCHANGED <<objects, call, next, stored, err>>

\* Neither a page nor an exception is sent.
HandleBroadcast ==
  /\ pc = "asked" /\ call.broadcast /\ pc' = "unanswered"
  /\ UNCHANGED <<objects, call, next, stored, id, left, size, page, more, err, fault>>

Handle ==
  /\ pc = "asked" /\ ~call.broadcast
  /\ \/ /\ call.kind = "single" /\ Has(next)
        /\ pc' = "answered" /\ page' = <<next>> /\ more' = FALSE
        /\ size' = 6 + 2 + objects[next] /\ left' = Room - 2 - objects[next] /\ UNCHANGED id
     \/ /\ call.kind # "single" /\ next \in FirstId(call.kind)..LastId(call.kind)
        /\ pc' = "paging" /\ id' = next
        /\ left' = Room /\ size' = 6 /\ page' = <<>> /\ more' = FALSE
     \/ /\ \/ call.kind = "single" /\ ~Has(next)
           \/ call.kind # "single" /\ next \notin FirstId(call.kind)..LastId(call.kind)
        /\ Refuse
  /\ UNCHANGED <<objects, call, next, stored, err, fault>>

LeftWithoutHeader(i) == left - objects[i]
Left(i) == left - 2 - objects[i]
FitsUnsigned(i) == Left(i) % 65536 >= 0
FitsNotLast(i) == Left(i) >= 2
Fits(i) == Left(i) >= 0

\* One pass of the loop over the ids.
PageStep ==
  /\ pc = "paging" /\ id <= LastId(call.kind)
  /\ \/ ~Has(id) /\ id <= BasicLast /\ Refuse
     \/ ~Has(id) /\ id > BasicLast /\ id' = id + 1 /\ UNCHANGED <<pc, left, size, page, more>>
     \/ Has(id) /\ Fits(id)
          /\ page' = Append(page, id) /\ left' = Left(id) /\ size' = size + 2 + objects[id]
          /\ id' = id + 1 /\ UNCHANGED <<pc, more>>
     \/ Has(id) /\ ~Fits(id)
          /\ pc' = "answered" /\ more' = TRUE /\ UNCHANGED <<id, left, size, page>>
  /\ UNCHANGED <<objects, call, next, stored, err, fault>>

PageEnds ==
  /\ pc = "paging" /\ id > LastId(call.kind)
  /\ pc' = "answered"
  /\ UNCHANGED <<objects, call, next, stored, id, left, size, page, more, err, fault>>

-----------------------------------------------------------------------------
DeviceStep ==
  \/ TakePage \/ TakeException \/ Timeout \/ Crash
  \/ CallbackFails \/ HandleBroadcast \/ Handle \/ PageStep \/ PageEnds

DeviceNext == DeviceStep \/ \E c \in DeviceCalls : Begin(c)

\* The server polls, and the client waits no longer than its time-out.
DeviceSpec == DeviceInit /\ [][DeviceNext]_deviceVars /\ WF_deviceVars(DeviceStep)

-----------------------------------------------------------------------------
(***************************************************************************)
(* Properties                                                              *)
(***************************************************************************)
\* The two counters of the handler agree: the length it announces is what it has put,
\* and a page ends before the room does.
LengthsAgree == size + left = Room + 6

Wanted == {i \in call.start..(IF call.kind = "single" THEN call.start ELSE LastId(call.kind)) : Has(i)}
Ascending(s) == \A i, j \in DOMAIN s : i < j => s[i] < s[j]
Elements(s) == {s[i] : i \in DOMAIN s}

\* The caller's arrays are as many and as long as the device's objects need.
Suffices ==
  /\ call.kind = "extended" => Cardinality(Wanted) <= call.ids_length
  /\ \A i \in Wanted : objects[i] < call.buffer_length

\* Nothing is stored outside arrays that suffice.  A call that returns
\* NMBS_ERROR_NONE and stored nothing outside its arrays has the id and the value of
\* every object of its range in them, each once and in order, over however many
\* pages they were spread.
ReadIsComplete ==
  /\ overrun => ~Suffices
  /\ pc = "idle" /\ err = "NONE" /\ ~overrun =>
       /\ Ascending(got) /\ Elements(got) = Wanted /\ values = got
       /\ call.kind = "single" => Wanted # {}

\* Without failing callbacks and lost messages a call fails for these reasons only.  A
\* device without regular objects answers with an empty page, which the client refuses.
ErrorHasCause ==
  pc = "idle" /\ ~fault =>
     /\ err = "exception" => \/ call.kind = "basic" /\ \E i \in 0..BasicLast : ~Has(i)
                             \/ call.kind = "single" /\ ~Has(call.start)
     /\ err = "INVALID_RESPONSE" => call.kind = "regular" /\ Wanted = {}
     /\ err = "INVALID_ARGUMENT" =>
          \/ ~Valid(call)
          \/ call.kind = "extended" /\ Cardinality(Wanted) > call.ids_length
     /\ err = "TIMEOUT" => call.broadcast
     /\ err = "crash" => ~Suffices

Stage == [asked |-> 0, paging |-> 1, answered |-> 2, refused |-> 2, unanswered |-> 2]

\* A call that goes on asks for a later object of its range than before, so that it
\* asks for no more pages than there are objects: a page that cannot hold what comes
\* next holds something else.  Within a page every step is one on towards its end.
CallAdvances ==
  [][ pc # "idle" =>
        \/ pc' = "idle"
        \/ pc' = "asked" /\ next < next' /\ next' <= LastId(call.kind)
        \/ /\ next' = next
           /\ \/ Stage[pc'] > Stage[pc]
              \/ pc' = pc /\ id < id' /\ id <= LastId(call.kind) ]_deviceVars

\* Every call returns.
CallReturns == (pc # "idle") ~> (pc = "idle")
=============================================================================
