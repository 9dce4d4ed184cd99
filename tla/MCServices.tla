---------------------------- MODULE MCServices ----------------------------
(***************************************************************************)
(* One instance of each component that shares no state with another: a     *)
(* behaviour runs one of them, chosen at the start, while the others stay  *)
(* as they were.                                                           *)
(***************************************************************************)
EXTENDS BatchedWebHook, PortLock, ErrorReporting, AppConversation, Condenser,
        Delegation, StuckDetector, ClientReplay, TLC

CONSTANTS p1, p2

(* The two paths together reach the limit; one of them twice must not. *)
MCSizes == (p1 :> {1}) @@ (p2 :> {2})

VARIABLE part

MCParts == {"hook", "ports", "errors", "record", "condenser",
            "delegation", "stuck", "client"}

mcvars == <<part, hvars, pvars, evars, avars, cvars, dvars, kvars, rvars>>

MCInit ==
    /\ part \in MCParts
    /\ HInit /\ PInit /\ EInit /\ AInit /\ CInit /\ DInit /\ KInit /\ RInit
    /\ part # "errors" => eclock = 0
    /\ part # "condenser" => csummarizing
    /\ part # "stuck" => ~kheadless /\ kpalette = CHOOSE p \in kSubset(KPalette, KMoves) : TRUE

MCNext ==
    /\ UNCHANGED part
    /\ \/ part = "hook" /\ HNext
          /\ UNCHANGED <<pvars, evars, avars, cvars, dvars, kvars, rvars>>
       \/ part = "ports" /\ PNext
          /\ UNCHANGED <<hvars, evars, avars, cvars, dvars, kvars, rvars>>
       \/ part = "errors" /\ ENext
          /\ UNCHANGED <<hvars, pvars, avars, cvars, dvars, kvars, rvars>>
       \/ part = "record" /\ ANext
          /\ UNCHANGED <<hvars, pvars, evars, cvars, dvars, kvars, rvars>>
       \/ part = "condenser" /\ CNext
          /\ UNCHANGED <<hvars, pvars, evars, avars, dvars, kvars, rvars>>
       \/ part = "delegation" /\ DNext
          /\ UNCHANGED <<hvars, pvars, evars, avars, cvars, kvars, rvars>>
       \/ part = "stuck" /\ KNext
          /\ UNCHANGED <<hvars, pvars, evars, avars, cvars, dvars, rvars>>
       \/ part = "client" /\ RNext
          /\ UNCHANGED <<hvars, pvars, evars, avars, cvars, dvars, kvars>>

(* The threads of the executor and the timers run; writers and callers of  *)
(* flush() need not.                                                       *)
MCSpec ==
    /\ MCInit /\ [][MCNext]_mcvars
    /\ WF_mcvars(part = "hook" /\ HSystem
                   /\ UNCHANGED <<part, pvars, evars, avars, cvars, dvars, kvars, rvars>>)

(* Every variable of every component has its type: batches are not retried *)
(* beyond the limit nor ports searched for beyond max_attempts, times kept *)
(* are not in the future, a condensation forgets only what came before it, *)
(* and what is in a history is in the stream.                              *)
ServicesTypeOK == HTypeOK /\ PTypeOK /\ ETypeOK /\ ATypeOK /\ CTypeOK /\ DTypeOK /\ RTypeOK

=============================================================================
