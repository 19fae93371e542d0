SPECIFICATION Spec
CONSTANTS
    PageCount = 2
    PageBlocks = 2
    CoreBlocks = 4
    DeviceBlocks = 1
    Shift = 2
    ParsGiven = {0, 3, 5}
    PdrsGiven <- MCPdrs
    MaxStores = 4
INVARIANTS TypeOK WrittenMarked AbortExplained
PROPERTY UserConfined
