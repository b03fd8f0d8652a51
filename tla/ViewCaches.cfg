SPECIFICATION FairSpec
CONSTANTS
    Homes = {h1, h2}
    Pages = {p}
    Writers = {w}
    Storages = {s1, s2}
    MaxOps = 1
    MaxFaults = 1
    Empty = Empty
    None = None
INVARIANTS InvalidationHolds NoLockCycle
PROPERTIES FilledOncePerWindow ResponseConverges
