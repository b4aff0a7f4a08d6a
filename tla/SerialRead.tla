----------------------------- MODULE SerialRead -----------------------------
(***************************************************************************)
(* What a recv() of src/lib/nanoMODBUS/nanomodbus.c:147-181 makes of       *)
(* read_serial: the stream of bytes loses its first ones in one piece.     *)
(* This is how NmbsServer reads its line.                                  *)
(*                                                                         *)
(* The stream is what came and was not handed out; a call under way has    *)
(* taken nothing from it yet.  A call that is given fewer bytes than it    *)
(* asked for has a time-out, and gets at least those that were there when  *)
(* it began.                                                               *)
(***************************************************************************)
EXTENDS Integers, Sequences

CONSTANTS Byte, Counts, Timeouts

VARIABLES
  stream,
  busy, count, timeout,   \* the call
  there,                  \* how many bytes there were when it began
  got                     \* what the last finished call was given

rvars == <<stream, busy, count, timeout, there, got>>

Init == /\ stream = <<>> /\ busy = FALSE /\ count = 0 /\ timeout = 0
        /\ there = 0 /\ got = <<>>

Arrive == /\ \E b \in Byte : stream' = Append(stream, b)
          /\ UNCHANGED <<busy, count, timeout, there, got>>

Call == /\ ~busy /\ busy' = TRUE
        /\ count' \in Counts /\ timeout' \in Timeouts
        /\ there' = Len(stream) /\ got' = <<>>
        /\ UNCHANGED stream

Return == /\ busy /\ busy' = FALSE
          /\ \E k \in 0..Len(stream) :
                /\ k = count \/ (k < count /\ k >= there /\ timeout >= 0)
                /\ got' = SubSeq(stream, 1, k)
                /\ stream' = SubSeq(stream, k + 1, Len(stream))
          /\ UNCHANGED <<count, timeout, there>>

Next == Arrive \/ Call \/ Return

Spec == Init /\ [][Next]_rvars
=============================================================================
