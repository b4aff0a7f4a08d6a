--------------------------- MODULE MCFileReceiver ---------------------------
(***************************************************************************)
(* FileReceiver with a buffer of three or four registers, chunks of two,   *)
(* and headers on both sides of every bound.  HdrRegs is 4 in the code, so *)
(* MaxCount = 4 lets a payload be a header, a full chunk (2), one that is  *)
(* too long (3) or one that is empty.                                      *)
(***************************************************************************)
EXTENDS FileReceiver

MCTotalLens   == 0..2 * BufRegs + 2
MCChunkCounts == {0, HeadRec, HeadRec + 1}
=============================================================================
