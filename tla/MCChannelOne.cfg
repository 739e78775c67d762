SPECIFICATION MissSpec
CONSTANTS
    Ids = {m1}
    Claims = {k1, k2, k3}
    NoClaim = NoClaim
    Consumers = {c1, c2}
    Caps = {0, 2}
    Backoff = {TRUE, FALSE}
    HasTTL = TRUE
    MaxDefers = 2
    MaxPublish = 2
    NoCall = NoCall
SYMMETRY Interchangeable
INVARIANTS TypeOK DeliveryCeiling AckFinal Conservation
PROPERTIES DeadLetterExact FencedForever ImplementsContract AlreadyAckedIsOwnAck NoFalseExpiry
