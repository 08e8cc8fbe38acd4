\* One generator at the root, and directories within directories.
SPECIFICATION Spec
CONSTANTS
    Path = {"a", "a/b", "a/b/c", "a/c", "rec"}
    Root = "root"
    Record <- MCRecord
    Parent <- MCParent
    Above <- MCAbove
    Rank <- MCRank
    N = 1
    OutDir <- MCRootOutDir
    MountPoints = {"a"}
    Early = {"a"}
    Faults = {"crash", "io"}
    MaxRuns = 3
    MaxEdits = 1
INVARIANT SweptDirsAreOccupied
PROPERTIES TouchesOnlyItsOwn RunEnds
CHECK_DEADLOCK FALSE
