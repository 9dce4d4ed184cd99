SPECIFICATION Spec
CONSTANTS
    MaxIterations = 1
    MaxInputs = 3
    MaxCrashes = 1
    LLMOutcomes = {"run", "ask", "question", "condense"}
    UserInputs = {"USER_CONFIRMED", "USER_REJECTED", "STOPPED", "PAUSED"}
    MessageStates <- Interrupting
    Patient = TRUE
    Faults = {"runtime", "memory"}
INVARIANTS
    ConfirmedFirst
    StartedOnce
PROPERTIES
    StopObeyed
CHECK_DEADLOCK FALSE
