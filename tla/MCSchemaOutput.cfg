CONSTANTS
    Names = {"A", "B", "int"}
    Spaces = {"s", "o"}
    NoSpace = ""
    Primitives = {"int"}
    Schemas <- MCSchemas
SPECIFICATION Spec
INVARIANTS
    TypeOK
    AcceptedResolves
    WrittenOutOnce
    ReferencesFollow
    DefinesTheDeclared
    DefaultsFit
    PublishedIsClosed
    PublishedReadsBack
    StreamItemDeclared
PROPERTIES
    StepsDescend
    ResolutionEnds
CHECK_DEADLOCK FALSE
