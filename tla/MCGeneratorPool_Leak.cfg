\* generate.go:178-181 and avroc.go:242-243 against the two deferred removals.
SPECIFICATION Spec
CONSTANTS
    N = 2
    MaxGoroutines = 1
    Faults = {"remove"}
INVARIANT ScratchAlwaysRemoved
CHECK_DEADLOCK FALSE
