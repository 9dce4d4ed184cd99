SPECIFICATION LiveSpec
CONSTANTS
    MaxIterations = 1
    MaxInputs = 3
    MaxCrashes = 0
    LLMOutcomes = {"run", "ask", "question", "reject", "rate_limit"}
    UserInputs = {"USER_CONFIRMED", "USER_REJECTED", "STOPPED", "PAUSED"}
    MessageStates <- Interrupting
    Patient = TRUE
    Faults = {"stuck", "budget"}
PROPERTIES
    TurnEnds
CHECK_DEADLOCK FALSE
