----------------------------- MODULE SerialFifo -----------------------------
(***************************************************************************)
(* What nanoMODBUS expects of the platform's read function                 *)
(* (src/lib/nanoMODBUS/nanomodbus.h:136-151): the bytes of the serial line *)
(* in the order they came, none lost and none twice, from one call to the  *)
(* next; a call returns with the bytes it was asked for, or with fewer     *)
(* when it has a time-out.                                                 *)
(***************************************************************************)
EXTENDS Integers, Sequences

CONSTANTS Byte, Counts, Timeouts

VARIABLES
  line,       \* bytes that came and were not read
  busy,       \* a call is under way
  count,      \* what the call asks for
  timeout,    \* its time-out, negative for none
  buf         \* what it has read

fvars == <<line, busy, count, timeout, buf>>

Init == line = <<>> /\ busy = FALSE /\ count = 0 /\ timeout = 0 /\ buf = <<>>

Arrive == /\ \E b \in Byte : line' = Append(line, b)
          /\ UNCHANGED <<busy, count, timeout, buf>>

Call == /\ ~busy /\ busy' = TRUE
        /\ count' \in Counts /\ timeout' \in Timeouts /\ buf' = <<>>
        /\ UNCHANGED line

Take == /\ busy /\ line # <<>> /\ Len(buf) < count
        /\ buf' = Append(buf, Head(line)) /\ line' = Tail(line)
        /\ UNCHANGED <<busy, count, timeout>>

Return == /\ busy /\ (Len(buf) = count \/ timeout >= 0)
          /\ busy' = FALSE
          /\ UNCHANGED <<line, count, timeout, buf>>

Next == Arrive \/ Call \/ Take \/ Return

Spec == Init /\ [][Next]_fvars
=============================================================================
