SPECIFICATION Spec
CONSTANTS
    MaxIterations = 1
    MaxInputs = 2
    MaxCrashes = 0
    LLMOutcomes = {"run"}
    UserInputs = {"STOPPED"}
    MessageStates <- Waiting
    Patient = TRUE
    Faults = {}
INVARIANTS
    NotExecuted
CHECK_DEADLOCK FALSE
