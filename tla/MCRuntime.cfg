SPECIFICATION FairSpec
CONSTANTS
    Workers = {w1, w2}
    Wakers = {k1, k2, k3, k4, k5, k6, k7, k8}
    NoWaker = NoWaker
    Confirmers = {c1, c2, c3}
    Forgets = {f1}
    Messages = {m1, m2}
    Queues = {q1, q2}
    Closers = {x1, x2}
    Collector = gc
    Caller = caller
    Pauser = pauser
    Faults = faults
    Mixes = {{w1, w2, m1, m2, pauser}, {w1, m1, f1, faults}, {w1, w2, m1, caller, x1}, {w1, m1, caller, faults, x1}, {w1, gc, x1, x2}}
    NoMessage = NoMessage
    NoCloser = NoCloser
    MaxTransient = 1
    MaxWorkers = 1
INVARIANTS NoLostWakeup OneConfirmation CloseQuiesces ResultRecorded
PROPERTIES CloseReturns
CHECK_DEADLOCK FALSE
