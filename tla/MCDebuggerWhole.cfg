SPECIFICATION FairSpec
CONSTANTS
    Program <- MCProgram
    Limit = 2
    Places = {2, 3, 6}
    Counts = {0, 2}
INVARIANTS
    CurrentListed
    BreakPointsKept
    BreakPointsHonoured
    ShownIsExecuting
    StopsExplained
PROPERTY CounterElapses
