SPECIFICATION Spec
CONSTANTS
    Files = {f1, f2}
    MaxVersion = 2
    Populators = {p}
    Watchers = {}
    Edits = {"rest"}
    MaxToken = 2
    None = None
SYMMETRY FileSymmetry
INVARIANTS CompleteIsListing SkipIsSound
PROPERTY RowsLostOnlyByReconcile
