------------------------------- MODULE Cluster -------------------------------
(***************************************************************************)
(* ClusteredConversationManager                                            *)
(* (enterprise/server/clustered_conversation_manager.py): several servers  *)
(* share the conversations, and a key in Redis that expires unless it is   *)
(* refreshed says that a server runs the agent loop of a conversation.     *)
(*                                                                         *)
(* One conversation.  Its clients connect to any server; the server of the *)
(* first starts the loop, and the others reach it through Redis.  Redis    *)
(* does not fail; its messages arrive in order at the servers that are up. *)
(* A connection's own key is left out: it keeps an idle loop from closing.  *)
(* A server that dies comes back at once with empty tables.  Events and    *)
(* completions sent to the loop, and a graceful shutdown, are left out.    *)
(***************************************************************************)
EXTENDS Naturals, Sequences, FiniteSets

CONSTANTS
    LNodes,       \* the servers
    LSlots,       \* the clients a server may have
    LMaxJoins,    \* bound: connections made
    LMaxTroubles  \* bound: clients that leave, loops that are closed, starts
                  \* that raise, keys that lapse and servers that die, together

ASSUME LBoundsAssumption == LMaxJoins \in Nat /\ LMaxTroubles \in Nat

VARIABLES
    lkey,     \* the key ohcnv of the conversation is in Redis
    lconn,    \* _local_connection_id_to_session_id of all servers
    lwork,    \* where each task is that may start the loop
    ltodo,    \* per server: connections its listener has still to handle
    lmsgs,    \* per server: messages on session_msg it has not read
    lloop,    \* per server: "none", or the loop is registered: "young" until
              \* the key is refreshed for it, "kept" from then on
    lupd,     \* per server: the pipeline on its way to Redis
    lclose,   \* the calls of _close_session
    ljoins, ltroubles,  \* how many there were
    llapsed   \* the key expired under a server that was running the loop

lvars == <<lkey, lconn, lwork, ltodo, lmsgs, lloop, lupd, lclose, ljoins, ltroubles, llapsed>>

LConns == LNodes \X LSlots

(* A task that may start the loop serves a connection: the handler of a    *)
(* connect, the task that found the loop gone, or the listener.            *)
LTasks == LNodes \X LSlots \X {"join", "recover", "listen"}

(* Who calls _close_session on a server *)
LCalls == LNodes \X {"route", "cleanup", "listener"}

NoCall == [pc |-> "idle", gone |-> {}]

ConnsOf(n) == {c \in lconn : c[1] = n}
Told(m) == [n \in LNodes |-> Append(lmsgs[n], m)]
LTrouble == ltroubles < LMaxTroubles /\ ltroubles' = ltroubles + 1 /\ UNCHANGED ljoins

LInit ==
    /\ lkey = FALSE /\ lconn = {} /\ llapsed = FALSE
    /\ lwork = [t \in LTasks |-> "idle"]
    /\ ltodo = [n \in LNodes |-> {}]
    /\ lmsgs = [n \in LNodes |-> <<>>]
    /\ lloop = [n \in LNodes |-> "none"]
    /\ lupd = [n \in LNodes |-> FALSE]
    /\ lclose = [k \in LCalls |-> NoCall]
    /\ ljoins = 0 /\ ltroubles = 0

-----------------------------------------------------------------------------
(* join_conversation to where it waits for Redis; a connection has an id   *)
(* nobody used before.                                                     *)
LJoin(c) ==
    /\ c \notin lconn /\ ljoins < LMaxJoins /\ ljoins' = ljoins + 1
    /\ lconn' = lconn \cup {c}
    /\ lwork[<<c[1], c[2], "join">>] = "idle"
    /\ lwork' = [lwork EXCEPT ![<<c[1], c[2], "join">>] = "set"]
    /\ UNCHANGED <<lkey, ltodo, lmsgs, lloop, lupd, lclose, ltroubles, llapsed>>

(* disconnect_from_session *)
LLeave(c) ==
    /\ c \in lconn /\ lconn' = lconn \ {c} /\ LTrouble
    /\ UNCHANGED <<lkey, lwork, ltodo, lmsgs, lloop, lupd, lclose, llapsed>>

(* A task returns, or raises, as it does when _get_event_store finds the   *)
(* loop gone; an exception in the listener ends what it does for a message. *)
TaskRaises(t) ==
    /\ lwork' = [lwork EXCEPT ![t] = "idle"]
    /\ ltodo' = IF t[3] = "listen" THEN [ltodo EXCEPT ![t[1]] = {}] ELSE ltodo

TaskEnds(t) ==
    \/ TaskRaises(t)
    \/ lwork' = [lwork EXCEPT ![t] = "idle"] /\ UNCHANGED ltodo

(* _handle_remote_conversation_stopped, after its sleep: the user may run  *)
(* too many conversations, and the client is disconnected.                 *)
LWake(t) ==
    /\ lwork[t] = "sleep"
    /\ \/ lwork' = [lwork EXCEPT ![t] = "set"] /\ UNCHANGED lconn
       \/ lwork' = [lwork EXCEPT ![t] = "idle"] /\ lconn' = lconn \ {<<t[1], t[2]>>}
    /\ UNCHANGED <<lkey, ltodo, lmsgs, lloop, lupd, lclose, ljoins, ltroubles, llapsed>>

\* Mutant: the key is set whether it is there or not.
LSet_always(t) ==
    /\ lwork[t] = "set"
    /\ lkey' = TRUE /\ lwork' = [lwork EXCEPT ![t] = "start"]
    /\ UNCHANGED <<lconn, ltodo, lmsgs, lloop, lupd, lclose, ljoins, ltroubles, llapsed>>

(* maybe_start_agent_loop sets the key unless it is there. *)
LSet(t) ==
    /\ lwork[t] = "set" /\ lkey' = TRUE
    /\ IF lkey THEN TaskEnds(t)
       ELSE lwork' = [lwork EXCEPT ![t] = "start"] /\ UNCHANGED ltodo
    /\ UNCHANGED <<lconn, lmsgs, lloop, lupd, lclose, ljoins, ltroubles, llapsed>>

(* _start_agent_loop has made room for the loop, which may take long, and  *)
(* registers it, or raises.                                                *)
LRegister(t) ==
    /\ lwork[t] = "start"
    /\ TaskEnds(t)
    /\ lloop' = [lloop EXCEPT ![t[1]] = "young"]
    /\ UNCHANGED <<lkey, lconn, lmsgs, lupd, lclose, ljoins, ltroubles, llapsed>>

LStartRaises(t) ==
    /\ lwork[t] = "start" /\ LTrouble
    /\ TaskRaises(t)
    /\ UNCHANGED <<lkey, lconn, lmsgs, lloop, lupd, lclose, llapsed>>

-----------------------------------------------------------------------------
(* _update_state_in_redis, which sends the key for a loop that is here, to *)
(* where its pipeline reaches Redis                                        *)
LUpdate(n) ==
    /\ ~lupd[n] /\ lloop[n] # "none"
    /\ lupd' = [lupd EXCEPT ![n] = TRUE]
    /\ UNCHANGED <<lkey, lconn, lwork, ltodo, lmsgs, lloop, lclose, ljoins, ltroubles, llapsed>>

LExecute(n) ==
    /\ lupd[n] /\ lupd' = [lupd EXCEPT ![n] = FALSE]
    /\ lkey' = TRUE
    /\ lloop' = [lloop EXCEPT ![n] = IF @ = "young" THEN "kept" ELSE @]
    /\ UNCHANGED <<lconn, lwork, ltodo, lmsgs, lclose, ljoins, ltroubles, llapsed>>

(* The servers with the loop in their table, the tasks that set the key    *)
(* and have not registered the loop, and the calls about to delete it      *)
LTable == {n \in LNodes : lloop[n] # "none"}
LStarting == {t \in LTasks : lwork[t] = "start"}
LDeleting == {k \in LCalls : lclose[k].pc = "delete"}

(* The key expires: nobody refreshes it, as a server does every 5 of its   *)
(* 15 seconds once it has registered the loop.                             *)
LExpires ==
    /\ lkey /\ \A n \in LNodes : lloop[n] # "kept"
    /\ lkey' = FALSE
    /\ IF LTable = {} /\ LStarting = {} /\ LDeleting = {}
       THEN UNCHANGED <<llapsed, ljoins, ltroubles>>
       ELSE llapsed' = TRUE /\ LTrouble
    /\ UNCHANGED <<lconn, lwork, ltodo, lmsgs, lloop, lupd, lclose>>

-----------------------------------------------------------------------------
\* Mutant: the connections whose conversation has its key are taken.
LStopped_running(n) ==
    /\ lclose[<<n, "cleanup">>].pc = "idle"
    /\ lloop[n] = "none" /\ lkey
    /\ \E c \in ConnsOf(n) : lwork[<<c[1], c[2], "recover">>] = "idle"
    /\ lwork' = [t \in LTasks |->
          IF t[3] = "recover" /\ <<t[1], t[2]>> \in ConnsOf(n) /\ lwork[t] = "idle"
          THEN "sleep" ELSE lwork[t]]
    /\ UNCHANGED <<lkey, lconn, ltodo, lmsgs, lloop, lupd, lclose, ljoins, ltroubles, llapsed>>

(* _disconnect_from_stopped, which takes turns with the closing of idle     *)
(* loops: there is no loop here, and no key.                               *)
LStopped(n) ==
    /\ lclose[<<n, "cleanup">>].pc = "idle"
    /\ lloop[n] = "none" /\ ~lkey
    /\ \E c \in ConnsOf(n) : lwork[<<c[1], c[2], "recover">>] = "idle"
    /\ lwork' = [t \in LTasks |->
          IF t[3] = "recover" /\ <<t[1], t[2]>> \in ConnsOf(n) /\ lwork[t] = "idle"
          THEN "sleep" ELSE lwork[t]]
    /\ UNCHANGED <<lkey, lconn, ltodo, lmsgs, lloop, lupd, lclose, ljoins, ltroubles, llapsed>>

(* _close_session: the connections to remove are listed; with none, the   *)
(* session is taken from the table at once.                                *)
LPop(k, gone) ==
    /\ lconn' = lconn \ gone
    /\ lloop' = [lloop EXCEPT ![k[1]] = "none"]
    /\ lclose' = [lclose EXCEPT ![k] =
          IF lloop[k[1]] = "none" THEN NoCall ELSE [pc |-> "delete", gone |-> {}]]

LBegins(k) ==
    IF ConnsOf(k[1]) = {}
    THEN LPop(k, {})
    ELSE /\ lclose' = [lclose EXCEPT ![k] = [pc |-> "disconnect", gone |-> ConnsOf(k[1])]]
         /\ UNCHANGED <<lconn, lloop>>

(* close_session, called when a conversation is stopped or deleted, or by  *)
(* a start that makes room for another conversation                        *)
LCloseAsked(n) ==
    /\ lclose[<<n, "route">>].pc = "idle" /\ LTrouble
    /\ lmsgs' = Told("close_session")
    /\ LBegins(<<n, "route">>)
    /\ UNCHANGED <<lkey, lwork, ltodo, lupd, llapsed>>

(* _close_disconnected: the loop is idle, nobody is connected here, and    *)
(* Redis knows of nobody elsewhere, as it may for 5 seconds after somebody *)
(* connected there.                                                        *)
LCloseDue(n) ==
    /\ lclose[<<n, "cleanup">>].pc = "idle" /\ LTrouble
    /\ lloop[n] # "none" /\ ConnsOf(n) = {}
    /\ LBegins(<<n, "cleanup">>)
    /\ UNCHANGED <<lkey, lwork, ltodo, lmsgs, lupd, llapsed>>

LDisconnects(k) ==
    /\ lclose[k].pc = "disconnect"
    /\ LPop(k, lclose[k].gone)
    /\ UNCHANGED <<lkey, lwork, ltodo, lmsgs, lupd, ljoins, ltroubles, llapsed>>

(* The key is deleted, and the servers with clients are told. *)
LDeletes(k) ==
    /\ lclose[k].pc = "delete"
    /\ lkey' = FALSE
    /\ lmsgs' = Told("session_closing")
    /\ lclose' = [lclose EXCEPT ![k].pc = IF k[2] = "route" THEN "idle" ELSE "close"]
    /\ UNCHANGED <<lconn, lwork, ltodo, lloop, lupd, ljoins, ltroubles, llapsed>>

(* session.close() returns, or the time wait_all gives the cleanup is over; *)
(* nothing here waits for a call from a route.                             *)
LClosed(k) ==
    /\ \/ lclose[k].pc = "close"
       \/ k[2] = "cleanup" /\ lclose[k].pc # "idle"
    /\ lclose' = [lclose EXCEPT ![k] = NoCall]
    /\ UNCHANGED <<lkey, lconn, lwork, ltodo, lmsgs, lloop, lupd, ljoins, ltroubles, llapsed>>

-----------------------------------------------------------------------------
(* _redis_subscribe handles one message at a time. *)
ListenerFree(n) ==
    /\ \A t \in LTasks : t[1] = n /\ t[3] = "listen" => lwork[t] = "idle"
    /\ lclose[<<n, "listener">>].pc = "idle"

LReadClose(n) ==
    /\ ListenerFree(n) /\ ltodo[n] = {}
    /\ lmsgs[n] # <<>> /\ Head(lmsgs[n]) = "close_session"
    /\ lmsgs' = [lmsgs EXCEPT ![n] = Tail(@)]
    /\ IF lloop[n] # "none" THEN LBegins(<<n, "listener">>)
       ELSE UNCHANGED <<lconn, lloop, lclose>>
    /\ UNCHANGED <<lkey, lwork, ltodo, lupd, ljoins, ltroubles, llapsed>>

LReadClosing(n) ==
    /\ ListenerFree(n) /\ ltodo[n] = {}
    /\ lmsgs[n] # <<>> /\ Head(lmsgs[n]) = "session_closing"
    /\ lmsgs' = [lmsgs EXCEPT ![n] = Tail(@)]
    /\ ltodo' = [ltodo EXCEPT ![n] = ConnsOf(n)]
    /\ UNCHANGED <<lkey, lconn, lwork, lloop, lupd, lclose, ljoins, ltroubles, llapsed>>

(* The next connection of those it listed: one that left is skipped. *)
LHandles(n) ==
    /\ ListenerFree(n)
    /\ \E c \in ltodo[n] :
        /\ ltodo' = [ltodo EXCEPT ![n] = @ \ {c}]
        /\ lwork' = IF c \in lconn
                    THEN [lwork EXCEPT ![<<c[1], c[2], "listen">>] = "sleep"] ELSE lwork
    /\ UNCHANGED <<lkey, lconn, lmsgs, lloop, lupd, lclose, ljoins, ltroubles, llapsed>>

(* A server dies. *)
LCrash(n) ==
    /\ LTrouble
    /\ lconn' = lconn \ ConnsOf(n)
    /\ lwork' = [t \in LTasks |-> IF t[1] = n THEN "idle" ELSE lwork[t]]
    /\ ltodo' = [ltodo EXCEPT ![n] = {}]
    /\ lmsgs' = [lmsgs EXCEPT ![n] = <<>>]
    /\ lloop' = [lloop EXCEPT ![n] = "none"]
    /\ lupd' = [lupd EXCEPT ![n] = FALSE]
    /\ lclose' = [k \in LCalls |-> IF k[1] = n THEN NoCall ELSE lclose[k]]
    /\ UNCHANGED <<lkey, llapsed>>

-----------------------------------------------------------------------------
LTaskStep(t) == LWake(t) \/ LSet(t) \/ LRegister(t) \/ LStartRaises(t)
LCloseStep(k) == LDisconnects(k) \/ LDeletes(k) \/ LClosed(k)
LListenStep(n) == LReadClose(n) \/ LReadClosing(n) \/ LHandles(n)

(* What the event loops of the servers and Redis do by themselves, apart   *)
(* from refreshing the key                                                 *)
LSystem ==
    \/ \E t \in LTasks : LTaskStep(t)
    \/ \E k \in LCalls : LCloseStep(k)
    \/ \E n \in LNodes : LStopped(n) \/ LListenStep(n)
    \/ LExpires

LNext ==
    \/ LSystem
    \/ \E c \in LConns : LJoin(c) \/ LLeave(c)
    \/ \E n \in LNodes :
        LUpdate(n) \/ LExecute(n) \/ LCloseAsked(n) \/ LCloseDue(n) \/ LCrash(n)

LSpec == LInit /\ [][LNext]_lvars /\ WF_lvars(LSystem)

-----------------------------------------------------------------------------
(* Two loops of one conversation are being started or are registered in    *)
(* the cluster only after the key expired under a server that was starting *)
(* the loop, had not yet refreshed the key for it, or was about to delete  *)
(* the key: maybe_start_agent_loop takes the key as the sign that no other *)
(* server runs the conversation.                                           *)
OneOwner ==
    ~llapsed =>
        /\ \A m, n \in LTable : m = n
        /\ \A t, u \in LStarting : t = u
        /\ LTable = {} \/ LStarting = {}

(* Connected clients do not stay without a loop: when the server with the  *)
(* loop dies, or the loop is closed or does not start, some server starts  *)
(* one again, or the clients are disconnected.                             *)
ConnectedGetsLoop == (lconn # {}) ~> (lconn = {} \/ \E n \in LNodes : lloop[n] # "none")

=============================================================================
