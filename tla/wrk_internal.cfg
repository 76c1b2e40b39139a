\* Internal workers, one worker, every timeout spec, a one-frame pipe; the
\* proxy may send two frames (so it can block on req), the worker one.
CONSTANTS
    w1 = w1
    w2 = w2
    p1 = p1
    p2 = p2
    Workers = {w1}
    WorkerType = "internal"
    Payloads = {p1, p2}
    TimeoutSpecs <- TimeoutsAll
    DefaultTimeout <- NoTimeout
    Cap = 1
    MaxPrxFrames = 2
    MaxWrkFrames = 1
SPECIFICATION Spec
INVARIANT NoReplyLost
PROPERTY YieldedWorkerReaped
PROPERTY TimedOutWorkerReaped
PROPERTY BlockedWriteCompletes
PROPERTY ExitedWorkerReaped
CHECK_DEADLOCK FALSE
