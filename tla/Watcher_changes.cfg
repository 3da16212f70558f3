SPECIFICATION FairSpec
CONSTANTS
    a = a
    h = h
    Paths <- MCPaths
    Hidden <- MCHidden
    Timers <- MCTimers
    NoTimer <- MCNoTimer
    NoPath = NoPath
    MaxVersion = 3
    MaxMoves = 1
    MaxErrors = 1
INVARIANT TypeOK
INVARIANT NothingForgotten
PROPERTY NoReportAfterStop
PROPERTY EveryChangeReported
CHECK_DEADLOCK FALSE
