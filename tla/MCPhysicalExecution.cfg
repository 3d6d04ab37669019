CONSTANTS
    Jobs = {1, 2}
    Devices = {"d1"}
    DeviceOf <- OneDevice
    Deadline <- Deadlines
    Receipts = {1}
    Workers = {w1, w2}
    Attempts <- AttemptIds
    LeaseDuration = 1
    MaxTime = 2
    MaxGeneration = 2
    WallClockSteps = FALSE
    WorkersCanHang = TRUE
    None = None
SPECIFICATION Spec
SYMMETRY WorkerSymmetry
INVARIANTS AtMostOneOutput OutcomeIsTrue ConfirmedContentErased LedgerInv
PROPERTIES FifoStart ImplementsPrintJob
