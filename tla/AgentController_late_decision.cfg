SPECIFICATION Spec
CONSTANTS
    MaxIterations = 2
    MaxInputs = 3
    MaxCrashes = 0
    LLMOutcomes = {"ask"}
    UserInputs = {"USER_CONFIRMED", "USER_REJECTED"}
    MessageStates <- Interrupting
    Patient = FALSE
    Faults = {}
INVARIANTS
    ConfirmedFirst
CHECK_DEADLOCK FALSE
