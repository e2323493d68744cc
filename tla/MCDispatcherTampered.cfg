SPECIFICATION FairSpec
CONSTANTS
    Last = 10
    Image = {1, 2, 3, 4, 5, 6, 7, 8, 9}
    Prog <- Tampered
    Targets <- TamperedTargets
    Entry = 1
    Argc = 10
    StackSize = 4
    TlbSize = 2
    Hash <- MCHash
    RingSize = 2
    FreedReads = {}
PROPERTIES
    ImplementsGuestFlow
