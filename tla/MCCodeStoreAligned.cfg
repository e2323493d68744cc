SPECIFICATION Spec
CONSTANTS
    PageSize = 4
    NumPages = 4
    Size <- AlignedSize
    EndsBlock <- AlignedEnds
    Riscv <- AlignedRiscv
    LinkSize = 1
    Width = 4
    CodeMax = 7
    OffsetMax = 4
    Targets <- Boundaries
INVARIANTS
    BlocksDisjoint
    FindComplete
    CodeFlows
PROPERTIES
    BlocksAreFinal
    ImplementsTranslationMap
