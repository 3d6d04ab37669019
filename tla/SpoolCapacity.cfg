CONSTANTS
    Submissions <- MCSubmissions
    Offers <- JustTwo
    Refs = {f1, f2, f3}
    DeviceQueueLimit = 1
    AgentQueueLimit = 1
    SpoolMaxTime = 1
    MaxSecret = 2
    LookupsFail = FALSE
    Nil = Nil
SPECIFICATION MCSpoolSpec
PROPERTIES FullMeansFull
