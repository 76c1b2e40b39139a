\* One internal worker with no timeout; the daemon may die at any point.
\* The worker yields once.
CONSTANTS
    w1 = w1
    w2 = w2
    p1 = p1
    p2 = p2
    Workers = {w1}
    WorkerType = "internal"
    Payloads = {p1, p2}
    TimeoutSpecs <- TimeoutsOff
    DefaultTimeout <- NoTimeout
    Cap = 1
    MaxPrxFrames = 1
    MaxWrkFrames = 1
SPECIFICATION Spec
PROPERTY LateYieldExits
CHECK_DEADLOCK FALSE
