CONSTANTS
    Submissions <- MCSubmissions
    Offers <- JustOne
    Refs = {f1, f2}
    DeviceQueueLimit = 1
    AgentQueueLimit = 1
    SpoolMaxTime = 1
    MaxSecret = 2
    LookupsFail = FALSE
    Nil = Nil
SPECIFICATION MCSpoolSpec
INVARIANTS AcceptedIsDurable
