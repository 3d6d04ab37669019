CONSTANTS
  None = None
  Err = Err
  DcLinks = {"l1", "l2"}
  DcRequests = {"r1", "r2"}
  DcDevices = {"d1", "d2"}
  DcWorlds <- MCDcWorlds
  DcReads = 2
  DcEvents = 1
  AcCalls = {1, 2, 3}
  AcWorlds <- MCAcWorlds
  KsTasks = {1, 2}
  KsWorlds <- MCKsWorlds
  KsLimits <- MCKsLimits
  KsMaxTime = 2
  RmCalls = {1, 2}
  RmWorlds <- MCRmWorlds
  RmAgents = {"a1", "a2"}
  RmPrefixed = {"agt_x"}
  RmRoots <- MCRmRoots
  RmCerts <- MCRmCerts
  RmKey = "k"
  RmFleet = "f"
  RmMaxLife = 2
  RmLimits <- MCRmLimits
  RmQueueSize = 1
  Focuses = {"desk", "client", "keys", "router"}
SPECIFICATION MCSpec
CHECK_DEADLOCK FALSE
INVARIANTS ShellReadsAfterHandover ForgetIsComplete PublishedIsApproved RotationTakesEffect AclIsExact
