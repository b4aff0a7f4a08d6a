CONSTANTS
  Data = {0, 1}
  Transport = "RTU"
  Units = {1, 2}
  Ops <- RtuOps
  TidMax = 2
  Late = TRUE
  MaxCalls = 3
SPECIFICATION ClientSpec
INVARIANTS
  AcknowledgedIsExecuted
  WithoutFault
  FramesFit
CHECK_DEADLOCK FALSE
