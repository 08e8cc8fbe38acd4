\* README.md:25 and 41 against planGenerators.
SPECIFICATION Spec
CONSTANTS
    Exec = {"go", "json"}
    Option = {"a", "b"}
    Spelling = {"x", "dir/../x", "y"}
    File = {"x", "y"}
    Resolved <- MCResolved
    Dirs = 2
    Manifests <- MCManifests
    Replies <- MCReplies
    IRVersion = 2
INVARIANT
    AskedBeforeParsing
CHECK_DEADLOCK FALSE
