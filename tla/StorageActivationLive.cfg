SPECIFICATION FairSpec
CONSTANTS
    Roots = {usb, nfs}
    Volumes = {v1, v2}
    Stub = Stub
    Watcher = Watcher
    Requests = {q}
    Repairs = {q}
    Scans = {}
    Drops = FALSE
    MaxMoves = 3
    MaxFaults = 1
    None = None
PROPERTY Recovers
