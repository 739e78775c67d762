SPECIFICATION FairSpec
CONSTANTS
    Channels = {ch1}
    Calls = {l1, l2, l3}
    Unlistens = {u1}
    CloseCall = close
    StopCall = stop
    Mixes = {{l1, l2, close}, {l1, u1, close}, {l2, close, stop}, {l2, l3, u1}}
    NoCall = NoCall
    BufferCap = 1
    Cancelable = {l1}
INVARIANTS OneRequestPerWaiter NoMissedNudge KeptUnlessUnlistened
PROPERTIES ListenAnswered CloseUnwinds DeathNoticed
CHECK_DEADLOCK FALSE
