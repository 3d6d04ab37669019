CONSTANTS
  None = None
  Err = Err
  HsConfigs <- MCHsConfigs
  HsFaults = 1
  UtLinks = {1, 2}
  UtWorlds <- MCWorlds
  UtClosing <- MCClosing
  UtTransports = {1, 2}
  UtSelf = 9
  MaxSessions = 1
  MaxLinks = 2
  AcceptPending = 1
  TlPairs <- MCPairs
  TlMax = 2
  TlMessages <- MCMessages
  TlMaxSteps = 4
  TpLanes = {0, 1}
  TpWorlds <- MCTpWorlds
  TpCap = 2
  TpRing = 4
  TpMask = 15
  McWorlds <- MCMcWorlds
  McOwn <- MCOwn
  McMaxSessions = 1
  McMaxInsts = 2
  ShWorlds <- MCShWorlds
  ShPosix = 1
  ShChunks = {1, 2}
  RtPuts = {"p1", "p2"}
  RtReads = {"q1", "q2"}
  RtStreams = {"s"}
  RtCommandBuffer = 1
  RtSignalBuffer = 1
  RtWorlds <- MCRtWorlds
  ZrCalls = {1, 2}
  ZrRequests <- MCZrRequests
  ZrPermits = 1
  ZrSettings <- MCZrSettings
  Focuses = {"handshake", "transports", "links", "channel", "multicast", "memory", "runtime", "rest"}
SPECIFICATION MCSpec
CHECK_DEADLOCK FALSE
INVARIANTS HandshakeAgrees CallbackDiscipline SelectIsBest DeliveredInOrder PeersClosedOnce ContentSurvives WritesAreAudited 
PROPERTIES SessionHandover
