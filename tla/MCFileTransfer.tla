--------------------------- MODULE MCFileTransfer ---------------------------
(***************************************************************************)
(* FileTransfer for files of no more than five registers, one more than    *)
(* the buffer takes, in chunks of two.                                     *)
(***************************************************************************)
EXTENDS FileTransfer

CONSTANTS a, b
MCWord  == {a, b}
MCFiles == {<<>>, <<a>>, <<a, b>>, <<b, a, a>>, <<a, a, a, a>>, <<a, b, b, a>>,
            <<a, b, a, b, a>>}
MCTotalLens   == 0..2 * BufRegs + 2
MCChunkCounts == 0..HeadRec + 1
=============================================================================
