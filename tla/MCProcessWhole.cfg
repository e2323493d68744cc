SPECIFICATION Spec
CHECK_DEADLOCK FALSE
CONSTANTS
    PageSize = 4
    PageCount = 6
    NoBase = 15
    StackPage = 12
    StackWords = 12
    Files <- MCFiles
    Launches <- MCLaunches
    Results <- MCResults
    Buffers <- MCBuffers
    Numbers <- MCNumbers
INVARIANTS
    ContentsLoaded
    PagesGranted
    SizesUniform
    ArgumentsFound
    CallsAnswered
    BreakBacked
    RefusedOnlyInLastPage
PROPERTIES
    ForeignPagesKept
