SPECIFICATION Spec
CONSTANTS
    Ids = {m1}
    Subs = {s1, s2}
    Claims = {k1}
    NoClaim = NoClaim
    MaxRetries = 1
    MaxSubs = 0
    Replayers = {r1, r2}
    Legacy = {}
    Backoff = {FALSE}
    HasTTL = FALSE
    MaxDefers = 1
    MaxPublish = 1
SYMMETRY Interchangeable
INVARIANTS OneCopy DeadLettersReplayable OrphansStayOrphans
PROPERTIES LeaseProtected NeverRedelivered ActiveSpared
