SPECIFICATION Spec
CONSTANTS
    W <- Width
    Routines <- DeepRoutines
    Cells <- DeepCells
    Inputs <- DeepInputs
    MaxEvictions = 0
INVARIANTS RegistersSaved
