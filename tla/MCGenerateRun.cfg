\* Every phase, every manifest of MCManifests, every reply of MCReplies.
SPECIFICATION Spec
CONSTANTS
    Exec = {"go", "json"}
    Option = {"a", "b"}
    Spelling = {"x", "dir/../x", "y"}
    File = {"x", "y"}
    Resolved <- MCResolved
    Dirs = 2
    Manifests <- MCManifests
    Replies <- MCReplies
    IRVersion = 2
INVARIANTS
    TypeOK
    RunsTheFirstOnPath
    VouchedInTurn
    EachFileParsedOnce
PROPERTY
    CancelledRunReturns
CHECK_DEADLOCK FALSE
