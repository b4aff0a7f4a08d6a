---------------------------- MODULE MCNmbsClient ----------------------------
(***************************************************************************)
(* NmbsClient, instantiated twice: few calls in long sequences over TCP,   *)
(* with late replies across a round of the transaction id, and over RTU,   *)
(* where some of the calls have their largest arguments, or one more.      *)
(***************************************************************************)
EXTENDS NmbsClient

Read(fc, a, q) == [fc |-> fc, address |-> a, quantity |-> q]
Write(a, d) == [fc |-> 6, address |-> a, data |-> d]
WriteFile(c) == [fc |-> 21, file |-> 1, record |-> 9999, count |-> c, data |-> 0]

TcpOps == {Read(3, 0, 1), Write(0, 1)}
RtuOps == {Read(3, 0, 125), Write(0, 0), Write(1, 1), WriteFile(123)}
=============================================================================
