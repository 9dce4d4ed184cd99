---------------------------- MODULE MCManagers ----------------------------
(***************************************************************************)
(* The two managers a server may be configured with: one server that runs  *)
(* its conversations alone, or one of a cluster.                           *)
(***************************************************************************)
EXTENDS ConversationManager, Cluster

CONSTANTS a, b, c1, c2, r1, r2, stop, n1, n2

VARIABLE clustered

mvars == <<clustered, vars, lvars>>

MInit == clustered \in BOOLEAN /\ Init /\ LInit

MNext ==
    /\ UNCHANGED clustered
    /\ \/ ~clustered /\ Next /\ UNCHANGED lvars
       \/ clustered /\ LNext /\ UNCHANGED vars

(* The fairness of FairSpec, and of LSpec *)
MSystem ==
    /\ UNCHANGED clustered
    /\ \/ ~clustered /\ System /\ UNCHANGED lvars
       \/ clustered /\ LSystem /\ UNCHANGED vars

MSpec == MInit /\ [][MNext]_mvars /\ WF_mvars(MSystem)

=============================================================================
