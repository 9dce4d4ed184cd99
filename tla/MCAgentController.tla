------------------------- MODULE MCAgentController -------------------------
(* Instances of AgentController for TLC. *)
EXTENDS AgentController

\* The displayed states in which the agent waits for a message, and those in which
\* the chat input is open: a message then may interrupt the agent.
Waiting == {"AWAITING_USER_INPUT", "PAUSED", "STOPPED", "FINISHED", "REJECTED", "ERROR",
            "RATE_LIMITED"}
Interrupting == AgentState \ {"LOADING", "AWAITING_USER_CONFIRMATION"}

=============================================================================
