SPECIFICATION Spec
CONSTANTS
    Last = 4
    Flags = {"carry", "zero"}
    Depth = 2
    Behind = TRUE
    Programs <- MCPrograms
INVARIANTS
    FlagsFresh
CHECK_DEADLOCK FALSE
