SPECIFICATION FairSpec
CONSTANTS
    Readers = {r}
    Writers = {w1}
    Admins = {a}
    Paths = {wal, del}
    DeletePaths = {del}
    ReadSize = 1
    Overruns = TRUE
    MaxPool = 3
    None = None
PROPERTY LifecycleEnds
