SPECIFICATION FairSpec
CONSTANTS
    SchemaVersion = 1
    Migrators = {i1, i2}
    Newer = {n1, n2}
    Repairers = {r1}
    NonTx = {2}
    Faults = faults
    Nobody = Nobody
    Pool = Pool
    dash = dash
    under = under
    other = other
    tab = tab
    tother = tother
    Names = {dash, under, other}
    TableOf <- Sanitized
    Creates = {c1, c2, c3, c4}
    Deletes = {d1, d2, d3}
    Lookups = {l1}
    Remote = {c2, c3, c4, d2, d3}
    Caps = {0, 1}
    NoName = NoName
    Mixes = {{c2, c3, c4, d2, d3, dash}, {c2, c3, d2, dash, under}, {c1, c2, dash, other}, {c1, d1, l1, faults, dash}, {c1, d1, d2, l1, dash}, {i1, n1, r1, faults}, {n1, n2, r1, faults}, {i1, i2, c1, dash}, {i1, c1, d1, faults, dash}}
INVARIANTS CatalogConsistent CacheForgets InitHeals
PROPERTIES CatalogStill InitReturns
CHECK_DEADLOCK FALSE
