CONSTANTS
    ITABN = 4
    Sources <- MCSources
    Levels <- MCLevels
SPECIFICATION FairSpec
INVARIANTS TypeOK TableCompact TableOrdered NeverBelowPriority
PROPERTIES HeadOnlyOvertakenByHigher PendingRefined SomeDelivered
