\* Internal workers where both sides may send two frames into one-frame pipes.
CONSTANTS
    w1 = w1
    w2 = w2
    p1 = p1
    p2 = p2
    Workers = {w1}
    WorkerType = "internal"
    Payloads = {p1, p2}
    TimeoutSpecs <- TimeoutsOff
    DefaultTimeout <- NoTimeout
    Cap = 1
    MaxPrxFrames = 2
    MaxWrkFrames = 2
SPECIFICATION Spec
PROPERTY BlockedWriteCompletes
CHECK_DEADLOCK FALSE
