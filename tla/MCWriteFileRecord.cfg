CONSTANTS
  First = 3
  HeaderSize = 3
  MaxRecord = 1
  MaxLength = 2
  MaxRequest = 10
  SizeMod = 32
  Mem = 20
  Headers <- MCHeaders
SPECIFICATION WriteFileRecordSpec
INVARIANTS
  WriteFileRecordTypeOK
  ExecutesWellFormed
  ReplyTellsOutcome
  OverrunHasCause
PROPERTIES
  HandlerAdvances
  HandlerReturns
