SPECIFICATION Spec
CONSTANTS
    W <- Width
    Routines <- MCRoutines
    Cells <- MCCells
    Inputs <- MCInputs
    MaxEvictions = 2
INVARIANTS TypeOK ArithmeticMeant ComparisonsDecide RoutinesReturn
PROPERTIES AbortUndoable
