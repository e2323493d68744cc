SPECIFICATION Spec
CONSTANTS
    PageSize = 8
    NumPages = 2
    Size <- JumbledSize
    EndsBlock <- JumbledEnds
    Riscv <- JumbledRiscv
    LinkSize = 2
    Width = 4
    CodeMax = 8
    OffsetMax = 5
    Targets <- Anywhere
INVARIANTS
    FindSound
    FindNeverFails
