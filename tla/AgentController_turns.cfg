SPECIFICATION Spec
CONSTANTS
    MaxIterations = 2
    MaxInputs = 3
    MaxCrashes = 0
    LLMOutcomes = {"run", "ask", "think", "say", "question", "finish", "malformed", "raise"}
    UserInputs = {"USER_CONFIRMED", "USER_REJECTED"}
    MessageStates <- Waiting
    Patient = TRUE
    Faults = {"runtime"}
INVARIANTS
    NoSilentHang
    LLMSeesAnswers
    WithinLimit
CHECK_DEADLOCK FALSE
