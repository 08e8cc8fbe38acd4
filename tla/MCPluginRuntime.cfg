CONSTANTS
    Files = {"a", "b"}
    Outside = "outside"
    Paths = {"a", "./a", "b", "../a"}
    Clean <- MCClean
    DefaultTimeout = 3
    Invocations <- MCInvocations
SPECIFICATION Spec
INVARIANTS
    TypeOK
    ParsedAsSpecified
    ContextIsThisRuns
    ExitIsTheOutput
    ChecksComeFirst
    WrittenIsWhole
    SpanTellsTheStatus
    FlushFits
    FlushDelivers
PROPERTY
    Exits
CHECK_DEADLOCK FALSE
