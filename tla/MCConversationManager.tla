----------------------- MODULE MCConversationManager -----------------------
(* Instances of ConversationManager for TLC.                               *)
EXTENDS ConversationManager

CONSTANTS a, b, c1, c2, r1, r2, stop

=============================================================================
