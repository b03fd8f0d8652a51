SPECIFICATION Spec
CONSTANTS
    Files = {f1, f2}
    MaxVersion = 1
    Populators = {}
    Watchers = {w}
    Edits = {"delete", "rename", "rest", "upload"}
    MaxToken = 2
    None = None
SYMMETRY FileSymmetry
INVARIANTS CompleteIsListing
