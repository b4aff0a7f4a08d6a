CONSTANTS
  BasicLast = 1
  RegularLast = 2
  ExtendedFirst = 4
  ExtendedLast = 6
  Room = 7
  MaxLength = 4
  Lengths = {0, 4}
  IdsLengths = {1, 2}
  BufferLengths = {4, 5}
  CountMod = 4
SPECIFICATION DeviceSpec
INVARIANTS
  DeviceTypeOK
  ReadIsComplete
  ErrorHasCause
PROPERTIES
  CallAdvances
  CallReturns
