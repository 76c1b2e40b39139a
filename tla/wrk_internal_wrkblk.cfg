\* Internal workers whose worker may send two frames into a one-frame pipe
\* (so it can block on resp) while the proxy sends one.
CONSTANTS
    w1 = w1
    w2 = w2
    p1 = p1
    p2 = p2
    Workers = {w1}
    WorkerType = "internal"
    Payloads = {p1, p2}
    TimeoutSpecs <- TimeoutsAll
    DefaultTimeout <- NoTimeout
    Cap = 1
    MaxPrxFrames = 1
    MaxWrkFrames = 2
SPECIFICATION Spec
PROPERTY YieldedWorkerReaped
INVARIANT NoReplyLost
PROPERTY BlockedWriteCompletes
CHECK_DEADLOCK FALSE
