SPECIFICATION FairSpec
CONSTANTS
    Ids = {m1}
    Subs = {s1}
    Claims = {k1, k2}
    NoClaim = NoClaim
    MaxRetries = 1
    MaxSubs = 1
    Replayers = {r1}
    Legacy = {m1}
    Backoff = {TRUE, FALSE}
    HasTTL = TRUE
    MaxDefers = 1
    MaxPublish = 2
INVARIANTS TypeOK AttemptsCounted AckFinal
PROPERTIES DeadLetterExact ImplementsContract NothingPinned
