CONSTANTS
    Jobs = {1}
    Devices = {"d1"}
    DeviceOf <- OneDevice
    Deadline <- Deadlines
    Receipts = {1}
    Workers = {w1, w2}
    Attempts <- AttemptIds
    LeaseDuration = 3
    MaxTime = 2
    MaxGeneration = 2
    WallClockSteps = FALSE
    WorkersCanHang = FALSE
    None = None
SPECIFICATION Spec
INVARIANT HeldOnlyWhileUsed
