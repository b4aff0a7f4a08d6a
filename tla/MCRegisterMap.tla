---------------------------- MODULE MCRegisterMap ----------------------------
(***************************************************************************)
(* RegisterMap with 16 register numbers: reads and writes of one, both and *)
(* more than the two registers, from the first, the second, the third and  *)
(* the last number, of no register and of more than the limits, with too   *)
(* few values, and broadcasts.                                             *)
(***************************************************************************)
EXTENDS RegisterMap

Ask(fc, b, a, q, v) == [fc |-> fc, broadcast |-> b, address |-> a, quantity |-> q, values |-> v]

MCRequests ==
  {Ask(3, FALSE, a, q, <<>>) : a \in {0, 1, 15}, q \in {0, 1, 2, 4}}
    \cup {Ask(6, b, a, 1, <<v>>) : b \in BOOLEAN, a \in {0, 1, 2}, v \in {1, 2}}
    \cup {Ask(16, b, 0, 2, <<v, w>>) : b \in BOOLEAN, v \in {0, 2}, w \in {0, 1}}
    \cup {Ask(16, FALSE, a, 2, <<v, w>>) : a \in {1, 15}, v \in {0, 2}, w \in {0, 1}}
    \cup {Ask(16, FALSE, 0, 3, <<1, 0, 2>>), Ask(16, FALSE, 0, 2, <<1>>),
          Ask(16, FALSE, 0, 4, <<2, 2, 2>>), Ask(16, FALSE, 0, 4, <<2, 2, 2, 2>>)}
=============================================================================
