CONSTANTS
    Words = 7
    StackBottom = 2
    program = program
    handler = handler
    Data = Data
    Pcs <- MCPcs
    UserStacks = {0, 5}
    Stored <- MCStored
    Fault <- MCFault
    Traps <- MCTraps
    Lines <- MCLines
SPECIFICATION Spec
INVARIANTS TypeOK ModesAgree FramesIntact
PROPERTIES ResumesInterrupted UserConfined StackPointersBanked
