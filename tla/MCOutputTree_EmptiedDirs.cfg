SPECIFICATION Spec
CONSTANTS
    Path = {"a", "a/b", "gen", "gen/x", "rec", "rec/x"}
    Root = "root"
    Record <- MCRecord
    Parent <- MCParent
    Above <- MCAbove
    Rank <- MCRank
    N = 2
    OutDir <- MCOutDir
    MountPoints = {}
    Early = {"a"}
    Faults = {}
    MaxRuns = 3
    MaxEdits = 1
PROPERTY EmptiedDirsRemoved
CHECK_DEADLOCK FALSE
