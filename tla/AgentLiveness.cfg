CONSTANTS
    Jobs = {1}
    Devices = {"d1"}
    DeviceOf <- OneDevice
    Deadline <- Deadlines
    Receipts = {1}
    Workers = {w1, w2}
    Attempts <- AttemptIds
    LeaseDuration = 1
    MaxTime = 2
    MaxGeneration = 2
    WallClockSteps = FALSE
    WorkersCanHang = FALSE
    None = None
    Submissions <- MCSubmissions
    Offers <- JustReused
    Refs = {f1, f2}
    DeviceQueueLimit = 2
    AgentQueueLimit = 1
    SpoolMaxTime = 1
    MaxSecret = 2
    LookupsFail = TRUE
    Nil = Nil
SPECIFICATION FairAgent
PROPERTIES AcceptedLeavesQueue InProgressResolves CallsEnd
