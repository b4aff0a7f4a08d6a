------------------------------ MODULE MCUartRx ------------------------------
(***************************************************************************)
(* UartRx with a ring of three bytes: calls for one byte and for four,     *)
(* more than the ring ever holds, as flush asks; no time-out, time-out 0   *)
(* (flush) and time-out 2.  The tick counter wraps after four ticks.       *)
(***************************************************************************)
EXTENDS UartRx

MCTimeouts == {-1, 0, 2}
=============================================================================
