SPECIFICATION FairSpec
CONSTANTS
    Keys = {k1, k2}
    BoxArt = {k1}
    Faults = TRUE
    Storages = {s1, s2}
    Submitters = {u1, u2}
    Capacity = 1
    MaxConcurrent = 1
    MaxAttempts = 2
    MaxRuns = 2
    MaxEvents = 1
    None = None
INVARIANTS ClaimIsExact NothingForgotten
PROPERTY ClaimsReturn
