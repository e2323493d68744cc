SPECIFICATION Spec
CONSTANTS
    Last = 4
    Flags = {"carry", "zero"}
    Depth = 2
    Behind = FALSE
    Programs <- MCPrograms
INVARIANTS
    FlagsFresh
    SearchCoversLive
CHECK_DEADLOCK FALSE
