\* External workers with an exec timeout that sends SIGTERM.
CONSTANTS
    w1 = w1
    w2 = w2
    p1 = p1
    p2 = p2
    Workers = {w1}
    WorkerType = "external"
    Payloads = {p1, p2}
    TimeoutSpecs <- TimeoutsTerm
    DefaultTimeout <- NoTimeout
    Cap = 1
    MaxPrxFrames = 1
    MaxWrkFrames = 1
SPECIFICATION Spec
PROPERTY TimedOutWorkerReaped
CHECK_DEADLOCK FALSE
