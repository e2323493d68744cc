CONSTANTS
    Requests <- MCRequests
    Start <- MCStart
    TableBase <- MCTableBase
    Junk <- MCJunk
SPECIFICATION Spec
INVARIANTS
    WordReadsBack
    DisplayAgrees
    ImmediateLoaded
    HelpersAgree
    JumpsLand
    ExitReaches
CHECK_DEADLOCK FALSE
