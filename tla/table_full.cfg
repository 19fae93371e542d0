CONSTANTS
    ITABN = 4
    Sources <- MCSources
    Levels <- MCLevels
SPECIFICATION HSpec
INVARIANT FullOnlyWhenFull
