CONSTANTS
  BufRegs = 4
  ChunkRegs = 2
  MaxCount = 4
  HeadRec = 4
  TotalLens <- MCTotalLens
  ChunkCounts <- MCChunkCounts
  a = a
  b = b
  Word <- MCWord
  Zero = Zero
  Junk = Junk
  Files <- MCFiles
  Retries = 2
SPECIFICATION FairTransferSpec
INVARIANTS
  TransferTypeOK
  FailureHasCause
  SessionIsFile
PROPERTIES
  DeliverySpec
  RunAdvances
  RunEnds
