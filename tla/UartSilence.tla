---------------------------- MODULE UartSilence ----------------------------
(***************************************************************************)
(* UartRx with a history of the gaps between bytes, to compare the byte    *)
(* time-out of read_serial with its documented meaning.                    *)
(***************************************************************************)
EXTENDS UartRx

VARIABLES
  silence,    \* ticks since the last byte, or since the call began
  longest     \* the longest silence of the call

silenceVars == <<uartVars, silence, longest>>

SilenceInit == UartInit /\ silence = 0 /\ longest = 0

SilenceNext ==
  /\ UartNext
  /\ silence' = IF pc = "idle" \/ wr' # wr THEN 0
                ELSE IF elapsed' # elapsed THEN silence + 1 ELSE silence
  /\ longest' = IF pc = "idle" /\ pc' = "loop" THEN 0
                ELSE IF silence' > longest THEN silence' ELSE longest

SilenceSpec == SilenceInit /\ [][SilenceNext]_silenceVars

\* The documented meaning of the byte time-out, "the timeout between the
\* reception/transmission of two consecutive bytes" (nanomodbus.h:284): a call
\* that gives up, and left nothing in the buffer, has seen no byte for that long.
\* read_serial measures from the start of the call instead.
TimeoutIsSilence == Short /\ Unread = 0 => longest >= timeout
=============================================================================
