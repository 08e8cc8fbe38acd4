SPECIFICATION Spec
CONSTANTS
    Path = {"a", "gen", "gen/x", "rec", "rec/x"}
    Root = "root"
    Record <- MCRecord
    Parent <- MCParent
    Above <- MCAbove
    Rank <- MCRank
    N = 2
    OutDir <- MCOutDir
    MountPoints = {"gen"}
    Early = {"a"}
    Faults = {"crash", "io"}
    MaxRuns = 3
    MaxEdits = 1
INVARIANTS TypeOK SuccessIsExact TemporariesKeepTheirPlace
PROPERTY RefinesLedger
CHECK_DEADLOCK FALSE
