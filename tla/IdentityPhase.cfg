SPECIFICATION FairSpec
CONSTANTS
    Files = {1, 2}
    Unhashable = {1}
    Batch = 1
    Chunk = 1
    Storages = {s1, s2}
    Boot = s1
    Leftover = {"Running"}
    Faults = TRUE
    Watching = TRUE
    MaxGen = 1
    MaxWaiting = 1
    None = None
INVARIANTS CompleteIsOwnHash
PROPERTIES StaleWorkerSettlesNothing MembershipIsDiscovery IdentityEnds
