CONSTANTS
  Values = {0, 1, 2}
  AddrMod = 16
  MaxRead = 3
  MaxWrite = 3
  Requests <- MCRequests
SPECIFICATION RegSpec
INVARIANTS
  RegTypeOK
  ReadIsPossible
PROPERTY RepeatChangesNothing
