CONSTANTS
    ITABN = 4
    Sources <- MCSources
    Levels <- MCLevels
SPECIFICATION Spec
PROPERTY PopsWhatItDelivered
