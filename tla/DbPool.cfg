SPECIFICATION Spec
CONSTANTS
    Readers = {r}
    Writers = {w1, w2}
    Admins = {a}
    Paths = {wal, del}
    DeletePaths = {del}
    ReadSize = 1
    Overruns = FALSE
    MaxPool = 3
    None = None
INVARIANTS FileIsExclusive NoStuckGate OpenMatchesPath
PROPERTY ImplementsService
