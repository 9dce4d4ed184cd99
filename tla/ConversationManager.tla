------------------------ MODULE ConversationManager ------------------------
(***************************************************************************)
(* The conversations of a single server:                                   *)
(* server/conversation_manager/standalone_conversation_manager.py with the *)
(* Session and AgentSession objects it starts and closes and the           *)
(* ServerConversation objects that HTTP requests attach to.                *)
(*                                                                         *)
(* Everything runs on one asyncio loop: an action is what happens between  *)
(* two points at which a coroutine is really suspended.  Awaiting          *)
(* get_running_agent_loops, get_connections or disconnect suspends nothing *)
(* because those bodies await nothing.                                     *)
(***************************************************************************)
EXTENDS Naturals, Sequences, FiniteSets

CONSTANTS
    Sids,           \* conversations
    Clients,        \* socket connections
    Requests,       \* HTTP requests that attach to a conversation
    Stopper,        \* the HTTP route that stops a conversation
    MaxConcurrent,  \* config.max_concurrent_conversations
    MaxOps          \* bound: calls from outside

None == "none"

Closers == Clients \cup Sids \cup {Stopper}   \* Sids: tasks of _cleanup_stale

ASSUME ManagerAssumption ==
    /\ MaxConcurrent \in Nat \ {0} /\ MaxOps \in Nat
    /\ IsFiniteSet(Requests)
    /\ None \notin Sids \cup Requests
    /\ Sids \cap (Clients \cup {Stopper}) = {}

VARIABLES
    sess,      \* every Session made so far, in the order they were made
    loops,     \* _local_agent_loops_by_sid: an index into sess, 0 for none
    conn,      \* _local_connection_id_to_session_id
    joiner,    \* where each client's join_conversation stands
    closer,    \* where each _close_session stands
    cleaning,  \* whether _cleanup_stale waits for the sessions it closes
    convs,     \* every ServerConversation made so far
    active,    \* _active_conversations: an index into convs, and its count
    detached,  \* _detached_conversations: an index into convs, 0 for none
    req,       \* where each request stands
    lock,      \* the request that holds _conversations_lock
    stray,     \* ghost: clients that joined behind the snapshot of a close
    lost,      \* ghost: sessions overwritten in the table, or whose close was cancelled
    ops        \* calls from outside so far

sessions == <<sess, loops, lost>>
attached == <<convs, active, detached, req, lock>>
vars == <<sess, loops, conn, joiner, closer, cleaning, convs, active, detached,
          req, lock, stray, lost, ops>>

Session ==
    [sid : Sids, start : {"new", "connecting", "building", "ended"},
     late : BOOLEAN, closed : BOOLEAN, stream : {"open", "closed"},
     ctl : {"none", "open", "closed"}, rt : {"none", "made", "open", "closed"}]

NewSession(s) ==
    [sid |-> s, start |-> "new", late |-> FALSE, closed |-> FALSE,
     stream |-> "open", ctl |-> "none", rt |-> "none"]

NoCloser == [pc |-> "idle", sid |-> None, conns |-> {}, ses |-> 0]
Away == [pc |-> "away", sid |-> None, evict |-> {}]
NoRequest == [pc |-> "idle", sid |-> None, conv |-> 0]
NotActive == [conv |-> 0, count |-> 0]

Starting(s) == sess[s].start \in {"connecting", "building"}
Running == {s \in Sids : loops[s] # 0}
Connected(s) == {c \in Clients : conn[c] = s}

Init ==
    /\ sess = <<>> /\ loops = [s \in Sids |-> 0]
    /\ conn = [c \in Clients |-> None] /\ joiner = [c \in Clients |-> Away]
    /\ closer = [x \in Closers |-> NoCloser] /\ cleaning = FALSE
    /\ convs = <<>> /\ active = [s \in Sids |-> NotActive]
    /\ detached = [s \in Sids |-> 0]
    /\ req = [r \in Requests |-> NoRequest] /\ lock = None
    /\ stray = {} /\ lost = {} /\ ops = 0

----------------------------------------------------------------------------
(* AgentSession.start, in the task initialize_agent made for session n.    *)

\* From the check that the session is not closed to runtime.connect().
StartBegins(n) ==
    /\ sess[n].start = "new"
    /\ sess' = IF sess[n].closed
               THEN [sess EXCEPT ![n].start = "ended"]
               ELSE [sess EXCEPT ![n] = [@ EXCEPT !.start = "connecting", !.rt = "made"]]
    /\ UNCHANGED <<loops, conn, joiner, closer, cleaning, attached, stray, lost, ops>>

\* connect() returns, or finds the runtime unavailable, and start goes on: the
\* sandbox it made is there even when the runtime has been closed meanwhile.
StartConnects(n) ==
    /\ sess[n].start = "connecting"
    /\ \E rt \in {"open", sess[n].rt} :
           sess' = [sess EXCEPT ![n] = [@ EXCEPT !.start = "building", !.rt = rt]]
    /\ UNCHANGED <<loops, conn, joiner, closer, cleaning, attached, stray, lost, ops>>

\* The rest of start: the controller, made whether or not the session is closed.
StartBuilds(n) ==
    /\ sess[n].start = "building"
    /\ sess' = [sess EXCEPT ![n] = [@ EXCEPT !.start = "ended", !.ctl = "open"]]
    /\ UNCHANGED <<loops, conn, joiner, closer, cleaning, attached, stray, lost, ops>>

\* Any other exception ends start; the session stays in the table.
StartRaises(n) ==
    /\ Starting(n)
    /\ sess' = [sess EXCEPT ![n].start = "ended"]
    /\ UNCHANGED <<loops, conn, joiner, closer, cleaning, attached, stray, lost, ops>>

\* WAIT_TIME_BEFORE_CLOSE passes after a start that is still going on.
StartGetsLate(n) ==
    /\ Starting(n) /\ ~sess[n].late
    /\ sess' = [sess EXCEPT ![n].late = TRUE]
    /\ UNCHANGED <<loops, conn, joiner, closer, cleaning, attached, stray, lost, ops>>

----------------------------------------------------------------------------
(* Clients.                                                                *)

\* A coroutine that calls from outside uses up one of the calls.
Op == ops < MaxOps /\ ops' = ops + 1

\* The tail of _start_agent_loop, from Session(...) to the end of the call, which
\* may return to a client that is gone.
Register(c, s) ==
    /\ sess' = Append(sess, NewSession(s))
    /\ loops' = [loops EXCEPT ![s] = Len(sess) + 1]
    /\ lost' = IF loops[s] = 0 THEN lost ELSE lost \cup {loops[s]}
    /\ joiner' = [joiner EXCEPT
         ![c] = IF conn'[c] = s THEN [Away EXCEPT !.pc = "joined", !.sid = s] ELSE Away]

\* join_conversation up to the first suspension: the running loop, a new one, or
\* the choice of the oldest conversations to close first.
Join(c, s) ==
    /\ Op /\ joiner[c].pc = "away"
    /\ conn' = [conn EXCEPT ![c] = s]
    /\ stray' = IF \E x \in Closers : closer[x].sid = s /\ closer[x].pc = "disconnect"
                THEN stray \cup {c} ELSE stray \ {c}
    /\ \/ /\ loops[s] # 0
          /\ joiner' = [joiner EXCEPT ![c] = [Away EXCEPT !.pc = "joined", !.sid = s]]
          /\ UNCHANGED sessions
       \/ /\ loops[s] = 0 /\ Cardinality(Running) < MaxConcurrent
          /\ Register(c, s)
       \/ /\ loops[s] = 0 /\ Cardinality(Running) >= MaxConcurrent
          /\ \E V \in SUBSET Running :
                /\ Cardinality(V) = (Cardinality(Running) - MaxConcurrent) + 1
                /\ joiner' = [joiner EXCEPT
                                ![c] = [pc |-> "evict", sid |-> s, evict |-> V]]
          /\ UNCHANGED sessions
    /\ UNCHANGED <<closer, cleaning, attached>>

\* close_session of the next conversation to make room for.
Evict(c, v) ==
    /\ joiner[c].pc = "evict" /\ v \in joiner[c].evict
    /\ closer[c].pc = "idle"
    /\ joiner' = [joiner EXCEPT ![c].evict = @ \ {v}]
    /\ closer' = IF loops[v] = 0 THEN closer
                 ELSE [closer EXCEPT ![c] = [NoCloser EXCEPT !.pc = "begin", !.sid = v]]
    /\ UNCHANGED <<sessions, conn, cleaning, attached, stray, ops>>

\* There is room: the session is made without a second look at the table.
StartAfterEvict(c) ==
    /\ joiner[c].pc = "evict" /\ joiner[c].evict = {}
    /\ closer[c].pc = "idle"
    /\ UNCHANGED conn /\ Register(c, joiner[c].sid)
    /\ UNCHANGED <<closer, cleaning, attached, stray, ops>>

\* disconnect_from_session, when the client goes away; its join may be under way.
Leave(c) ==
    /\ Op /\ conn[c] # None
    /\ conn' = [conn EXCEPT ![c] = None]
    /\ joiner' = IF joiner[c].pc = "joined" THEN [joiner EXCEPT ![c] = Away] ELSE joiner
    /\ stray' = stray \ {c}
    /\ UNCHANGED <<sessions, closer, cleaning, attached>>

\* stop_conversation: close_session of one that runs.
StopConversation(s) ==
    /\ Op /\ closer[Stopper].pc = "idle" /\ loops[s] # 0
    /\ closer' = [closer EXCEPT ![Stopper] = [NoCloser EXCEPT !.pc = "begin", !.sid = s]]
    /\ UNCHANGED <<sessions, conn, joiner, cleaning, attached, stray>>

----------------------------------------------------------------------------
(* _close_session and Session.close.                                       *)

\* Mutant: the session is taken out of the table but never closed.
Pop_forgets(x, s) ==
    /\ loops' = [loops EXCEPT ![s] = 0]
    /\ closer' = [closer EXCEPT ![x] = NoCloser]

\* What the end of the connections leads to: the session leaves the table.
Pop(x, s) ==
    /\ loops' = [loops EXCEPT ![s] = 0]
    /\ closer' = [closer EXCEPT
         ![x] = IF loops[s] = 0 THEN NoCloser
                ELSE [NoCloser EXCEPT !.pc = "emit", !.sid = s, !.ses = loops[s]]]

\* Mutant: the connections are left as they are.
CloseBegins_keepsClients(x) ==
    /\ closer[x].pc = "begin"
    /\ Pop(x, closer[x].sid)
    /\ UNCHANGED <<sess, lost, conn, joiner, cleaning, attached, stray, ops>>

\* The snapshot of the connections; without any there is nothing to wait for.
CloseBegins(x) ==
    LET s == closer[x].sid IN
    /\ closer[x].pc = "begin"
    /\ \/ /\ Connected(s) # {}
          /\ closer' = [closer EXCEPT ![x] = [@ EXCEPT !.pc = "disconnect", !.conns = Connected(s)]]
          /\ UNCHANGED loops
       \/ Connected(s) = {} /\ Pop(x, s)
    /\ UNCHANGED <<sess, lost, conn, joiner, cleaning, attached, stray, ops>>

\* sio.disconnect of one connection, whose own handler runs too.
CloseDisconnects(x, c) ==
    LET s == closer[x].sid IN
    /\ closer[x].pc = "disconnect" /\ c \in closer[x].conns
    /\ conn' = [conn EXCEPT ![c] = None]
    /\ joiner' = IF joiner[c].pc = "joined" THEN [joiner EXCEPT ![c] = Away] ELSE joiner
    /\ stray' = stray \ {c}
    /\ \/ /\ closer[x].conns # {c}
          /\ closer' = [closer EXCEPT ![x].conns = @ \ {c}]
          /\ UNCHANGED loops
       \/ closer[x].conns = {c} /\ Pop(x, s)
    /\ UNCHANGED <<sess, lost, cleaning, attached, ops>>

\* What close() releases: the stream, and the controller and runtime there are.
Released(z) ==
    [z EXCEPT !.closed = TRUE, !.stream = "closed",
              !.ctl = IF @ = "none" THEN "none" ELSE "closed",
              !.rt = IF @ = "none" THEN "none" ELSE "closed"]

\* Session.close after it has told the room: AgentSession.close.
CloseMarks(x) ==
    LET n == closer[x].ses IN
    /\ closer[x].pc = "emit"
    /\ \/ /\ sess[n].closed
          /\ closer' = [closer EXCEPT ![x] = NoCloser]
          /\ UNCHANGED sess
       \/ /\ ~sess[n].closed /\ Starting(n)
          /\ closer' = [closer EXCEPT ![x].pc = "wait"]
          /\ sess' = [sess EXCEPT ![n].closed = TRUE]
       \/ /\ ~sess[n].closed /\ ~Starting(n)
          /\ closer' = [closer EXCEPT ![x] = NoCloser]
          /\ sess' = [sess EXCEPT ![n] = Released(@)]
    /\ UNCHANGED <<loops, lost, conn, joiner, cleaning, attached, stray, ops>>

\* Mutant: the wait is for a controller, which a failed start never makes.
CloseWaits_controller(x) ==
    LET n == closer[x].ses IN
    /\ closer[x].pc = "wait" /\ sess[n].ctl # "none"
    /\ closer' = [closer EXCEPT ![x] = NoCloser]
    /\ sess' = [sess EXCEPT ![n] = Released(@)]
    /\ UNCHANGED <<loops, lost, conn, joiner, cleaning, attached, stray, ops>>

\* One turn of the wait for start: it is left at once when the start is recent.
CloseWaits(x) ==
    LET n == closer[x].ses IN
    /\ closer[x].pc = "wait"
    /\ ~sess[n].late \/ ~Starting(n)
    /\ closer' = [closer EXCEPT ![x] = NoCloser]
    /\ sess' = [sess EXCEPT ![n] = Released(@)]
    /\ UNCHANGED <<loops, lost, conn, joiner, cleaning, attached, stray, ops>>

----------------------------------------------------------------------------
(* ServerConversations.                                                    *)

\* ServerConversation.disconnect of every conversation in K: one that shares the
\* runtime of a session is left alone, any other closes its stream, which may be
\* the one of a session that had no runtime yet.
Disconnect(K) ==
    LET own == {k \in K : ~convs[k].shared} IN
    /\ convs' = [k \in DOMAIN convs |->
                    IF k \in own THEN [convs[k] EXCEPT !.connected = FALSE] ELSE convs[k]]
    /\ sess' = [n \in DOMAIN sess |->
                    IF \E k \in own : convs[k].ses = n
                    THEN [sess[n] EXCEPT !.stream = "closed"] ELSE sess[n]]

\* A new conversation, with the stream and the runtime of the running session.
NewConversation(s) ==
    [sid |-> s, ses |-> loops[s],
     shared |-> loops[s] # 0 /\ sess[loops[s]].rt # "none",
     connected |-> TRUE]

\* Mutant: attach does not hold the lock while it connects.
Attach_noLock(r, s) ==
    /\ Op /\ req[r].pc = "idle"
    /\ active[s].count = 0 /\ detached[s] = 0
    /\ convs' = Append(convs, NewConversation(s))
    /\ lock' = None
    /\ req' = [req EXCEPT ![r] = [pc |-> "connecting", sid |-> s, conv |-> Len(convs) + 1]]
    /\ UNCHANGED <<sessions, conn, joiner, closer, cleaning, stray, active, detached>>

\* attach_to_conversation up to connect(), which holds the lock.
Attach(r, s) ==
    /\ Op /\ req[r].pc = "idle" /\ lock = None
    /\ \/ /\ active[s].count > 0
          /\ active' = [active EXCEPT ![s].count = @ + 1]
          /\ req' = [req EXCEPT ![r] = [pc |-> "holding", sid |-> s, conv |-> active[s].conv]]
          /\ UNCHANGED <<convs, detached, lock>>
       \/ /\ active[s].count = 0 /\ detached[s] # 0
          /\ active' = [active EXCEPT ![s] = [conv |-> detached[s], count |-> 1]]
          /\ detached' = [detached EXCEPT ![s] = 0]
          /\ req' = [req EXCEPT ![r] = [pc |-> "holding", sid |-> s, conv |-> detached[s]]]
          /\ UNCHANGED <<convs, lock>>
       \/ /\ active[s].count = 0 /\ detached[s] = 0
          /\ convs' = Append(convs, NewConversation(s))
          /\ IF NewConversation(s).shared
             THEN /\ active' = [active EXCEPT ![s] = [conv |-> Len(convs) + 1, count |-> 1]]
                  /\ req' = [req EXCEPT ![r] = [pc |-> "holding", sid |-> s,
                                                conv |-> Len(convs) + 1]]
                  /\ UNCHANGED lock
             ELSE /\ lock' = r
                  /\ req' = [req EXCEPT ![r] = [pc |-> "connecting", sid |-> s,
                                                conv |-> Len(convs) + 1]]
                  /\ UNCHANGED active
          /\ UNCHANGED detached
    /\ UNCHANGED <<sessions, conn, joiner, closer, cleaning, stray>>

\* connect() returned.
AttachConnects(r) ==
    /\ req[r].pc = "connecting"
    /\ active' = [active EXCEPT ![req[r].sid] = [conv |-> req[r].conv, count |-> 1]]
    /\ req' = [req EXCEPT ![r].pc = "holding"]
    /\ lock' = None
    /\ UNCHANGED <<sessions, conn, joiner, closer, cleaning, convs, detached, stray, ops>>

\* connect() found no runtime; any other exception leaves the conversation as it is.
AttachFails(r) ==
    /\ req[r].pc = "connecting"
    /\ \/ Disconnect({req[r].conv})
       \/ UNCHANGED <<convs, sess>>
    /\ req' = [req EXCEPT ![r] = NoRequest]
    /\ lock' = None
    /\ UNCHANGED <<loops, lost, conn, joiner, closer, cleaning, active, detached, stray, ops>>

\* detach_from_conversation.
Detach(r) ==
    LET s == req[r].sid IN
    /\ req[r].pc = "holding" /\ lock = None
    /\ req' = [req EXCEPT ![r] = NoRequest]
    /\ \/ /\ active[s].count > 1
          /\ active' = [active EXCEPT ![s].count = @ - 1]
          /\ UNCHANGED detached
       \/ /\ active[s].count = 1
          /\ active' = [active EXCEPT ![s] = NotActive]
          /\ detached' = [detached EXCEPT ![s] = req[r].conv]
    /\ UNCHANGED <<sessions, conn, joiner, closer, cleaning, convs, lock, stray, ops>>

----------------------------------------------------------------------------
(* _cleanup_stale.                                                         *)

\* Old enough is an outcome; the state is the controller's, ERROR when there is
\* none after WAIT_TIME_BEFORE_CLOSE and None before that.
MayBeStale(s) ==
    /\ loops[s] # 0
    /\ sess[loops[s]].ctl # "none" \/ sess[loops[s]].late
    /\ Connected(s) = {}

\* One pass up to wait_all: detached conversations are disconnected, and a task
\* is made for every stale session.
CleanupPass ==
    /\ Op /\ lock = None /\ ~cleaning
    /\ Disconnect({detached[s] : s \in Sids} \ {0})
    /\ detached' = [s \in Sids |-> 0]
    /\ \E S \in SUBSET {s \in Sids : MayBeStale(s)} :
          /\ closer' = [x \in Closers |->
                          IF x \in S THEN [NoCloser EXCEPT !.pc = "begin", !.sid = x]
                          ELSE closer[x]]
          /\ cleaning' = (S # {})
    /\ UNCHANGED <<loops, lost, conn, joiner, active, req, lock, stray>>

CleanupReturns ==
    /\ cleaning /\ \A s \in Sids : closer[s].pc = "idle"
    /\ cleaning' = FALSE
    /\ UNCHANGED <<sessions, conn, joiner, closer, attached, stray, ops>>

\* wait_all gives up: the tasks that are not done are cancelled where they stand.
CleanupTimeout ==
    /\ cleaning /\ \E s \in Sids : closer[s].pc # "idle"
    /\ closer' = [x \in Closers |-> IF x \in Sids THEN NoCloser ELSE closer[x]]
    /\ lost' = lost \cup {closer[s].ses : s \in {s \in Sids : closer[s].ses # 0}}
    /\ cleaning' = FALSE
    /\ UNCHANGED <<sess, loops, conn, joiner, attached, stray, ops>>

----------------------------------------------------------------------------
StartStep(n) ==
    StartBegins(n) \/ StartConnects(n) \/ StartBuilds(n) \/ StartRaises(n)

CloseStep(x) ==
    CloseBegins(x) \/ CloseMarks(x) \/ CloseWaits(x)
        \/ \E c \in Clients : CloseDisconnects(x, c)

JoinStep(c) == StartAfterEvict(c) \/ \E v \in Sids : Evict(c, v)

AttachStep(r) == AttachConnects(r) \/ AttachFails(r)

Next ==
    \/ \E n \in DOMAIN sess : StartStep(n) \/ StartGetsLate(n)
    \/ \E c \in Clients :
          JoinStep(c) \/ Leave(c) \/ \E s \in Sids : Join(c, s)
    \/ \E s \in Sids : StopConversation(s)
    \/ \E x \in Closers : CloseStep(x)
    \/ \E r \in Requests :
          AttachStep(r) \/ Detach(r) \/ \E s \in Sids : Attach(r, s)
    \/ CleanupPass \/ CleanupReturns \/ CleanupTimeout

Spec == Init /\ [][Next]_vars

\* The event loop does not idle while a coroutine can go on, and runtime.connect()
\* and the steps after it return or raise.
System ==
    \/ \E n \in DOMAIN sess : StartStep(n)
    \/ \E c \in Clients : JoinStep(c)
    \/ \E x \in Closers : CloseStep(x)

FairSpec == Spec /\ WF_vars(System)

----------------------------------------------------------------------------
(* Properties.                                                             *)

\* Requests that hold a conversation are what its count says, all of them hold
\* the same one, and nobody has disconnected it: attach, detach and cleanup
\* agree through the lock.
HeldIsConnected ==
    \A s \in Sids :
        LET holders == {r \in Requests : req[r].pc = "holding" /\ req[r].sid = s} IN
        /\ active[s].count = Cardinality(holders)
        /\ \A r \in holders : req[r].conv = active[s].conv /\ convs[req[r].conv].connected

\* A session that is no longer in the table has been closed or is being closed,
\* unless its entry was overwritten or its close was cancelled: no agent loop
\* is left running that nobody can reach.
NoSilentLoop ==
    \A n \in DOMAIN sess :
        \/ loops[sess[n].sid] = n
        \/ sess[n].closed /\ sess[n].stream = "closed"
        \/ \E x \in Closers : closer[x].ses = n
        \/ n \in lost

\* A client whose join returned has an agent loop to send to, unless it joined
\* while a close that had already listed the connections was under way.
JoinedHasLoop ==
    \A c \in Clients :
        joiner[c].pc = "joined" => loops[joiner[c].sid] # 0 \/ c \in stray

\* AgentSession.close logs that it waits for the initialization to finish and
\* that it waited too long: it releases nothing before the start has ended or
\* WAIT_TIME_BEFORE_CLOSE has passed.
CloseWaitsForStart ==
    [][\A n \in DOMAIN sess :
          sess[n].closed /\ sess[n].stream = "open" /\ sess'[n].stream = "closed"
              => ~Starting(n) \/ sess[n].late]_vars

\* Closing for one another, starts and cleanup never wait in a circle: of any
\* number of calls, stop_conversation answers, whatever the session it closes is
\* doing, and every client that has to make room gets its agent loop.
CallsReturn ==
    LET busy == closer[Stopper].pc # "idle" \/ \E c \in Clients : joiner[c].pc = "evict"
    IN  busy ~> ~busy

=============================================================================
