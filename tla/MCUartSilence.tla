--------------------------- MODULE MCUartSilence ---------------------------
(* UartSilence on the instance of MCUartRx. *)
EXTENDS UartSilence

MCTimeouts == {-1, 0, 2}
=============================================================================
