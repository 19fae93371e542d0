CONSTANTS
    ITABN = 3
    Sources <- LineSources
    Levels <- TwoLevels
    Pace = 2
    Closed = 5
    MaxTyped = 4
    MaxWritten = 2
SPECIFICATION LineSpec
INVARIANTS LineInv
PROPERTIES QueueRefined OutputDrains
