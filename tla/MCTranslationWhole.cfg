CONSTANTS
    Byte = 2
    Displacement = 100
    Segment = 1000
    Base = 4096
    Offset = 24
    Stack = 2000
    Frame = 3000
    Memory <- MCMemory
    MaxRepeat = 2
    Instructions <- MCInstructions
    Starts <- MCStarts
    Leftovers = {0, 43690}
    Admitted = {}
SPECIFICATION Spec
INVARIANTS StateAgrees FlagsAgree BranchAgrees RaisesAgree
CHECK_DEADLOCK FALSE
