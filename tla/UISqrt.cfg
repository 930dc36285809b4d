SPECIFICATION Spec
CONSTANT Inputs <- MCInputs
INVARIANTS
    ReturnsRoot
    GuessesFromAbove
PROPERTY Returns
CHECK_DEADLOCK FALSE
