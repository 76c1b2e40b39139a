\* External workers (plain stdin/stdout buffers, message at EOF) whose exec
\* timeout, when given, sends SIGKILL.
CONSTANTS
    w1 = w1
    w2 = w2
    p1 = p1
    p2 = p2
    Workers = {w1}
    WorkerType = "external"
    Payloads = {p1, p2}
    TimeoutSpecs <- TimeoutsKill
    DefaultTimeout <- NoTimeout
    Cap = 1
    MaxPrxFrames = 2
    MaxWrkFrames = 2
SPECIFICATION Spec
INVARIANT NoReplyLost
PROPERTY TimedOutWorkerReaped
PROPERTY ExitedWorkerReaped
CHECK_DEADLOCK FALSE
