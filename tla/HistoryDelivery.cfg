CONSTANTS
  None = None
  Err = Err
  CsProcs = {"p1", "p2"}
  CsWorlds <- MCCsWorlds
  CsFaults = TRUE
  SeBrowsers = {"b1", "b2"}
  SeCalls = {1, 2, 3, 4}
  SeScripts <- MCSeScripts
  SeMaxLogins = 2
  SeAnswers <- MCSeAnswers
  ApCalls = {1, 2, 3}
  ApScripts <- MCApScripts
  ApPermits = 2
  ApLimit = 2
  ApActions = {"print", "cancel_job"}
  a1 = a1
  w1 = w1
  w2 = w2
  p1 = p1
  c1 = c1
  c2 = c2
  m1 = m1
  m2 = m2
  WorkAgents = {a1}
  WorkIds = {w1, w2}
  Preflights = {p1}
  Callers = {c1, c2}
  MessageIds = {m1, m2}
  WorkRequests <- MCWorkRequests
  Inlines <- MCInlines
  Receipts = {}
  Observations = {}
  AgentLimit = 1
  OrganizationLimit = 1
  AgentBytes = 2
  DocumentLimit = 2
  OrganizationBytes = 2
  SubmitTtl = 1
  WorkTtl = 2
  CleanupBatch = 1
  EnvelopeTtl = 1
  WorkHorizon = 2
  MaxCommands = 2
  MaxKeys = 2
  Focuses = {"submission"}
SPECIFICATION DeliverySpec
PROPERTY HistoryDelivers
CHECK_DEADLOCK FALSE
