CONSTANTS
    Names = {"A", "B", "int"}
    Spaces = {"s", "o"}
    NoSpace = ""
    Primitives = {"int"}
    Schemas <- MCConstructors
SPECIFICATION Spec
INVARIANT
    GoTypesDeclared
CHECK_DEADLOCK FALSE
