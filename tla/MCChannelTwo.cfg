SPECIFICATION FairSpec
CONSTANTS
    Ids = {m1, m2}
    Claims = {k1}
    NoClaim = NoClaim
    Consumers = {c1}
    Caps = {1}
    Backoff = {TRUE, FALSE}
    HasTTL = FALSE
    MaxDefers = 1
    MaxPublish = 1
INVARIANTS AttemptsCounted
PROPERTIES LeaseProtected EventuallySettled
