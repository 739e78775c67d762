SPECIFICATION Spec
CONSTANTS
    Channels = {ch1}
    Calls = {l1, l2}
    Unlistens = {u1}
    CloseCall = close
    StopCall = stop
    Mixes = {{l1, l2, u1}}
    NoCall = NoCall
    BufferCap = 1
    Cancelable = {l1}
SYMMETRY Interchangeable
INVARIANTS NilMeansSubscribed
CHECK_DEADLOCK FALSE
