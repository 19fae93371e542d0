CONSTANTS
    Drives = {0, 1}
    MemWords = 3
    LowWords = 2
    BcMod = 8
    TapeLen = 4
    Blank = 999
    Tape <- MCTape
    SizeOf <- MCSize
    AddressesGiven = {0}
    CountsGiven = {4, 7}
    FunctionsGiven = {1, 2, 4, 7}
    MaxCommands = 3
SPECIFICATION Spec
INVARIANTS TypeOK TransfersAtPosition
PROPERTIES EndsAnswered CopiesStraight
