CONSTANTS
    Submissions <- MCSubmissions
    Offers <- TwoOrReplanned
    Refs = {f1, f2, f3}
    DeviceQueueLimit = 1
    AgentQueueLimit = 2
    SpoolMaxTime = 1
    MaxSecret = 2
    LookupsFail = FALSE
    Nil = Nil
SPECIFICATION MCSpoolSpec
SYMMETRY RefSymmetry
INVARIANTS AcceptedIsReadable OneJobPerIntent FinalIsFinal
PROPERTIES StartupCleans
