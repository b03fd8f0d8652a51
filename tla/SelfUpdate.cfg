SPECIFICATION FairSpec
CONSTANTS
    MaxVersion = 2
    Bad = {2}
    Legacy = {2}
    Latest <- Newest
    Selected = "beta"
    Manuals = {m1, m2}
    Savers = {m2}
    Overruns = FALSE
    MaxStarts = 2
    MaxMishaps = 1
    MaxSwitches = 1
    None = None
INVARIANTS RollbackRestores InstalledIsWhole HelperOwnsResult NeededIsKept
PROPERTIES ResultIsKept SlotReturns OfferConverges
CHECK_DEADLOCK FALSE
