SPECIFICATION Spec
CONSTANTS
    Ids = {m1}
    Subs = {s1}
    Claims = {k1}
    NoClaim = NoClaim
    MaxRetries = 0
    MaxSubs = 0
    Replayers = {r1}
    Legacy = {}
    Backoff = {FALSE}
    HasTTL = FALSE
    MaxDefers = 1
    MaxPublish = 1
SYMMETRY Interchangeable
INVARIANTS DLQEntriesKeepMessage
