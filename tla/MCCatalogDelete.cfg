SPECIFICATION Spec
CONSTANTS
    SchemaVersion = 1
    Migrators = {i1, i2}
    Newer = {n1, n2}
    Repairers = {r1}
    NonTx = {2}
    Faults = faults
    Nobody = Nobody
    Pool = Pool
    dash = dash
    under = under
    other = other
    tab = tab
    tother = tother
    Names = {dash, under, other}
    TableOf <- Sanitized
    Creates = {c1, c2}
    Deletes = {d1, d2}
    Lookups = {l1, l2}
    Remote = {c2, d2, l2}
    Caps = {0, 1}
    NoName = NoName
    Mixes = {{c1, c2, d1, d2, dash, under}}
INVARIANTS QueueHasTables
CHECK_DEADLOCK FALSE
