SPECIFICATION Spec
CONSTANTS
    Workers = {w1, w2}
    Wakers = {k1, k2, k3, k4, k5, k6, k7, k8}
    NoWaker = NoWaker
    Confirmers = {c1, c2, c3}
    Forgets = {f1}
    Messages = {m1, m2}
    Queues = {q1, q2}
    Closers = {x1, x2}
    Collector = gc
    Caller = caller
    Pauser = pauser
    Faults = faults
    Mixes = {{w1, f1}}
    NoMessage = NoMessage
    NoCloser = NoCloser
    MaxTransient = 1
    MaxWorkers = 1
INVARIANTS ListeningIsRegistered
CHECK_DEADLOCK FALSE
