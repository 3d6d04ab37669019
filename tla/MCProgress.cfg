CONSTANTS
  None = None
  Err = Err
  Policies <- MCPolicies
  Unrenderable = {"bad"}
  Horizon = 2
  TlsExpiry <- MCTlsExpiry
  QueueCapacity = 1
  StubbornChild = TRUE
  TpLanes = {0, 1}
  TpWorlds <- MCTpLive
  TpCap = 2
  TpRing = 4
  TpMask = 15
SPECIFICATION MCSpec
CHECK_DEADLOCK FALSE
INVARIANTS ReadyIsBacked
PROPERTIES ImplementsFence SupervisorSettles ChannelSettles
