SPECIFICATION DSpec
CONSTANTS
    DIterations = 2
    DMaxInputs = 2
    DMaxRestarts = 0
INVARIANTS
    NobodyForgotten
CHECK_DEADLOCK FALSE
