SPECIFICATION MissSpec
CONSTANTS
    Ids = {m1}
    Claims = {k1, k2, k3}
    NoClaim = NoClaim
    Consumers = {c1}
    Caps = {0, 1}
    Backoff = {TRUE, FALSE}
    HasTTL = FALSE
    MaxDefers = 1
    MaxPublish = 2
    NoCall = NoCall
SYMMETRY Interchangeable
PROPERTY SameSnapshot
