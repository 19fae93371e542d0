CONSTANTS
    Drives = {0, 1}
    SectorWords = 2
    Sectors = 2
    Cylinders = 2
    MemWords = 4
    LowWords = 3
    WcMod = 8
    Image <- MCImage
    AddressesGiven = {1, 2}
    CountsGiven = {5}
    FunctionsGiven = {1, 2, 4, 6, 7}
    DisksGiven <- MCDisks
    MaxCommands = 2
SPECIFICATION Spec
INVARIANTS TypeOK CountersAgree
PROPERTIES EndsAnswered TransfersEnd CopiesStraight
