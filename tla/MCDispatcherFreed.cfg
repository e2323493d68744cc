SPECIFICATION Spec
CONSTANTS
    Last = 12
    Image = {1, 2, 3, 4, 5, 6, 7, 8, 9, 10, 11}
    Prog <- Nested
    Targets <- NestedTargets
    Entry = 1
    Argc = 12
    StackSize = 5
    TlbSize = 2
    Hash <- MCHash
    RingSize = 2
    FreedReads <- MCFreed
INVARIANTS TlbCoherent
