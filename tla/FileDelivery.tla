---------------------------- MODULE FileDelivery ----------------------------
(***************************************************************************)
(* What the file send algorithm promises the operator who runs the Python  *)
(* client (src/ttt/python/modbus_test1.py): the controller prints a text   *)
(* that starts with the file at most once per run, prints nothing else,    *)
(* and a run that ends without an error has printed it.  A run that ends   *)
(* with an error may have printed it too.                                  *)
(***************************************************************************)
EXTENDS Integers, Sequences

CONSTANT Files      \* the texts an operator sends

VARIABLES
  status,       \* "idle", "running", or how the last run ended
  file,         \* the file of the last run
  delivered     \* the texts printed since that run began

dvars == <<status, file, delivered>>

StartsWith(t, s) == Len(s) <= Len(t) /\ SubSeq(t, 1, Len(s)) = s

Init == status = "idle" /\ file = <<>> /\ delivered = <<>>

Submit == /\ status # "running"
          /\ status' = "running" /\ file' \in Files /\ delivered' = <<>>

Deliver == /\ status = "running" /\ delivered = <<>>
           /\ Len(delivered') = 1 /\ StartsWith(delivered'[1], file)
           /\ UNCHANGED <<status, file>>

Finish == /\ status = "running" /\ delivered # <<>>
          /\ status' = "done"
          /\ UNCHANGED <<file, delivered>>

Fail == /\ status = "running"
        /\ status' = "failed"
        /\ UNCHANGED <<file, delivered>>

Next == Submit \/ Deliver \/ Finish \/ Fail

Spec == Init /\ [][Next]_dvars
=============================================================================
