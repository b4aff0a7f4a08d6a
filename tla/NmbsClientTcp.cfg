CONSTANTS
  Data = {0, 1}
  Transport = "TCP"
  Units = {1}
  Ops <- TcpOps
  TidMax = 3
  Late = TRUE
  MaxCalls = 4
SPECIFICATION ClientSpec
INVARIANTS
  ClientTypeOK
PROPERTY RemoteCallSpec
CHECK_DEADLOCK FALSE
