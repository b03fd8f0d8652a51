SPECIFICATION Spec
CONSTANTS
    Roots = {usb, nfs}
    Volumes = {v1, v2}
    Stub = Stub
    Watcher = Watcher
    Requests = {q}
    Repairs = {}
    Scans = {s}
    Drops = TRUE
    MaxMoves = 3
    MaxFaults = 1
    None = None
SYMMETRY StorageSymmetry
INVARIANTS TypeOK ReadyIsConsistent GenerationGuardsScans
