SPECIFICATION Spec
CONSTANTS
    Users = {u1, u2}
    Boot = Boot
    Other = Other
    Unparsable = {2}
    Redefined = {"provider_game"}
    MaxVersion = 3
    MaxBuild = 2
    MaxOps = 2
    MaxFaults = 1
    None = None
INVARIANTS StampIsRows SingleFlight 
PROPERTY BootsConverge
