CONSTANTS
  Me = 1
  Frames <- MCFrames
  CrcBytes = {1}
  MaxBytes = 2
  MaxSize = 2
  MaxRes = 2
  BufSize = 6
  RamSize = 7
  IdxMod = 9
  MaxFrames = 3
SPECIFICATION FairServerSpec
INVARIANTS
  ServerTypeOK
  ActsOnRequests
  HeardIsServed
  OverrunHasCause
 
CHECK_DEADLOCK FALSE
