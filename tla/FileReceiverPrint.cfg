CONSTANTS
  BufRegs = 4
  ChunkRegs = 2
  MaxCount = 4
  HeadRec = 1
  TotalLens <- MCTotalLens
  ChunkCounts <- MCChunkCounts
  Word = {a, b}
  Zero = Zero
  Junk = Junk
SPECIFICATION RecvSpec
INVARIANT PrintedIsSession
