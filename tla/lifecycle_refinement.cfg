\* Proxy states against the promised lifecycle.
CONSTANTS
    w1 = w1
    w2 = w2
    p1 = p1
    p2 = p2
    Workers = {w1}
    WorkerType = "internal"
    Payloads = {p1, p2}
    TimeoutSpecs <- TimeoutsAll
    DefaultTimeout <- NoTimeout
    Cap = 1
    MaxPrxFrames = 2
    MaxWrkFrames = 1
SPECIFICATION Spec
PROPERTY LifecycleSpec
CHECK_DEADLOCK FALSE
