CONSTANTS
  N = 3
  Byte = {0, 1}
  Counts = {1, 4}
  Timeouts <- MCTimeouts
  TickMod = 4
  MaxUnread = 2
  MaxLag = 1
SPECIFICATION SilenceSpec
INVARIANT TimeoutIsSilence
