-------------------------- MODULE AgentTurnLemmas --------------------------
(***************************************************************************)
(* A turn of the conversation, for a user who waits for it to end.         *)
(*                                                                         *)
(* Although four threads work on one log, a turn has few phases: Turn      *)
(* lists them, with what is left to do in each.  Here are the lemmas about *)
(* what is left to do, the steps of the runtime, the memory and the user,  *)
(* and the controller's: whatever it hears, it hands the turn on, or tells *)
(* the user that it is theirs.                                             *)
(***************************************************************************)
EXTENDS AgentControllerProofs

----------------------------------------------------------------------------
(* Who has something to do.                                                *)

\* The states that tell the user it is their turn to write.
UsersTurn == {"AWAITING_USER_INPUT", "PAUSED", "STOPPED", "FINISHED", "REJECTED", "ERROR",
              "RATE_LIMITED"}

\* The user waits for the end of a turn and does not cut it short, the server does not
\* die and the memory does not fail.  The runtime may fail, the LLM may answer anything.
Orderly ==
    /\ Patient /\ MaxCrashes = 0 /\ "memory" \notin Faults
    /\ MessageStates \subseteq UsersTurn
    /\ UserInputs \cap {"STOPPED", "PAUSED"} = {}

\* The events of a kind after the first p.
After(l, p, kind) == {i \in (p + 1)..Len(l) : l[i] \in kind}

ForController == {e \in Event : e.type \in ControllerTypes}
ForRuntime == {e \in Event : e.type = "think" \/ (e.type = "action" /\ e.conf # "awaiting")}
ForMemory == {e \in Event : e.type = "recall"}

Unheard(c) == After(c.log, c.pos, ForController)
Backlog(c) == After(c.log, rpos, ForRuntime)
Recalls(c) == After(c.log, mpos, ForMemory)

FromUser(e) == e.type = "message" /\ e.source = "user"
Starts(e) == e.type = "change" /\ e.arg = "RUNNING"

Pends(c, type) ==
    /\ c.pending.id \in DOMAIN c.log /\ c.log[c.pending.id] = c.pending.event
    /\ c.pending.event.type = type

\* In the following, l is llm, r is running, and u, b and m are what is unheard, what the
\* runtime has not begun and what the memory has not answered.

\* Nobody works: the user may write, or has written.  What is unheard besides are the
\* answers that _reset gave.
Waits(c, l, r, u, b, m) ==
    /\ c.state \in UsersTurn /\ c.pending = NoPending
    /\ l = "idle" /\ r = 0 /\ b = {} /\ m = {}
    /\ \A i \in u : \/ c.log[i].type = "obs"
                    \/ c.status = 0 /\ FromUser(c.log[i]) /\ \A j \in u : j <= i
    /\ c.status > 0 => c.state = "ERROR"

\* The conversation begins.
Opens(c, l, r, u, b, m) ==
    /\ c.state = "LOADING" /\ c.pending = NoPending
    /\ l = "idle" /\ r = 0 /\ b = {} /\ m = {} /\ c.status = 0
    /\ \A i \in DOMAIN c.log : c.log[i].type # "state"
    /\ \/ u = {1} /\ c.log[1].type = "change" /\ c.log[1].arg = "AWAITING_USER_INPUT"
       \/ u = {1, 2} /\ FromUser(c.log[1]) /\ Starts(c.log[2])

\* The memory has a recall to answer ...
Recalling(c, l, r, u, b, m) ==
    /\ c.state = "RUNNING" /\ Pends(c, "recall") /\ c.pending.event.source = "user"
    /\ l = "idle" /\ r = 0 /\ b = {} /\ m = {c.pending.id} /\ c.status = 0
    /\ \A i \in u : Starts(c.log[i])

\* ... or has answered it.
Recalled(c, l, r, u, b, m) ==
    /\ c.state = "RUNNING" /\ Pends(c, "recall")
    /\ l = "idle" /\ r = 0 /\ b = {} /\ m = {} /\ c.status = 0
    /\ \E k \in u : /\ c.log[k].type \in {"obs", "null_obs"} /\ c.log[k].cause = c.pending.id
                    /\ \A i \in u : i = k \/ (i < k /\ Starts(c.log[i]))

\* The LLM is called, or has returned a thought that the runtime acknowledges, or
\* something that the controller has to hear.
Thinks(c, l, r, u, b, m) ==
    /\ c.state = "RUNNING" /\ c.pending = NoPending
    /\ r = 0 /\ m = {} /\ c.status = 0
    /\ \/ l = "calling" /\ u = {} /\ b = {}
       \/ /\ l = "idle" /\ u = {}
          /\ \E k \in DOMAIN c.log :
               b = {k} /\ c.log[k].type = "think" /\ c.log[k].conf = "none"
       \/ /\ l = "idle" /\ b = {}
          /\ \E k \in DOMAIN c.log :
               u = {k} /\ ~FromUser(c.log[k]) /\ c.log[k].type # "change"

\* The runtime has an action to begin, executes it, has failed, or has answered.
Acts(c, l, r, u, b, m) ==
    /\ c.state \in {"RUNNING", "USER_CONFIRMED", "USER_REJECTED"}
    /\ Pends(c, "action") /\ c.pending.event.conf # "awaiting"
    /\ l = "idle" /\ m = {}
    /\ \/ r = 0 /\ b = {c.pending.id} /\ u = {} /\ c.status = 0
       \/ r = c.pending.id /\ b = {} /\ u = {} /\ c.status = 0
       \/ r = 0 /\ b = {} /\ u = {} /\ c.status = 1
       \/ /\ r = 0 /\ b = {} /\ c.status = 0
          /\ \E k \in DOMAIN c.log :
               /\ u = {k} /\ c.log[k].type = "obs"
               /\ c.log[k].cause = c.pending.id /\ c.log[k].call = c.pending.event.call

\* The user is asked about an action, or has decided.
Questions(c, l, r, u, b, m) ==
    /\ c.state = "AWAITING_USER_CONFIRMATION"
    /\ Pends(c, "action") /\ c.pending.event.conf = "awaiting"
    /\ l = "idle" /\ r = 0 /\ b = {} /\ m = {} /\ c.status = 0
    /\ \A i \in u : /\ u = {i} /\ c.log[i].type = "change" /\ c.log[i].source = "user"
                    /\ c.log[i].arg \in {"USER_CONFIRMED", "USER_REJECTED"}

Turn(c, l, r, u, b, m) ==
    \/ Waits(c, l, r, u, b, m) \/ Opens(c, l, r, u, b, m)
    \/ Recalling(c, l, r, u, b, m) \/ Recalled(c, l, r, u, b, m)
    \/ Thinks(c, l, r, u, b, m) \/ Acts(c, l, r, u, b, m) \/ Questions(c, l, r, u, b, m)

\* Every action has an observation, apart from the pending one.
Answered(c) ==
    \A i \in DOMAIN c.log : c.log[i].type = "action" =>
      \/ c.pending.event.type = "action" /\ c.pending.event.call = c.log[i].call
      \/ \E j \in DOMAIN c.log : c.log[j].type = "obs" /\ c.log[j].call = c.log[i].call

\* The client that has shown everything displays the agent's state.
Displays ==
    Displayed(Len(log)) # "LOADING" =>
      /\ agent_state \in {"LOADING", Displayed(Len(log))}
      /\ \E i \in DOMAIN log : log[i].type = "state"

TurnInv ==
    /\ Turn(Ctl, llm, running, Unheard(Ctl), Backlog(Ctl), Recalls(Ctl))
    /\ Answered(Ctl) /\ mfail = 0

\* The runtime and the memory are somewhere in the log.
Placed(c) == rpos \in 0..Len(c.log) /\ mpos \in 0..Len(c.log)

\* The same is left to do.
Same(c, d) == /\ Unheard(d) = Unheard(c) /\ Backlog(d) = Backlog(c) /\ Recalls(d) = Recalls(c)

\* The controller c has just taken the first of what was unheard, u.
Took(c, u, i) ==
    /\ Sound(c) /\ Placed(c) /\ Answered(c)
    /\ i \in u /\ Unheard(c) = u \ {i} /\ \A j \in u : j \in Nat /\ i <= j
    /\ i \in DOMAIN c.log /\ c.log[i] \in Event /\ c.log[i].type \in ControllerTypes

\* Nobody has anything to do but the controller, which goes on to its step.
Ready(c, r, u, b, m) ==
    /\ c.state = "RUNNING" /\ c.pending = NoPending /\ c.status = 0
    /\ r = 0 /\ u = {} /\ b = {} /\ m = {}

\* The handler has left d, for the event e.
Heard(d, e) ==
    /\ Sound(d) /\ Placed(d) /\ Answered(d)
    /\ should_step(d, e) /\ d.state = "RUNNING" /\ d.pending = NoPending =>
         Ready(d, running, Unheard(d), Backlog(d), Recalls(d))
    /\ ~(should_step(d, e) /\ d.state = "RUNNING" /\ d.pending = NoPending) =>
         Turn(d, "idle", running, Unheard(d), Backlog(d), Recalls(d))

----------------------------------------------------------------------------
(* What is left to do when the log grows or somebody goes on in it.        *)

\* An event added at the end is one more to do for whom it is.
LEMMA AfterAdd ==
  ASSUME NEW l \in Seq(Event), NEW e \in Event, NEW p \in 0..Len(l), NEW kind
  PROVE  /\ e \in kind => After(Append(l, e), p, kind) = After(l, p, kind) \cup {Len(l) + 1}
         /\ e \notin kind => After(Append(l, e), p, kind) = After(l, p, kind)
<1> DEFINE n == Len(l)
           k == Append(l, e)
<1>1. /\ n \in Nat /\ Len(k) = n + 1 /\ k[n + 1] = e /\ \A i \in 1..n : k[i] = l[i]
  BY Zenon, AppendFacts
<1>2. p \in Nat /\ p <= n
  BY <1>1
<1> HIDE DEF k, n
<1>3. \A i : i \in (p + 1)..(n + 1) <=> i \in (p + 1)..n \/ i = n + 1
  BY <1>1, <1>2
<1>4. \A i \in (p + 1)..n : k[i] = l[i] /\ i # n + 1
  BY <1>1, <1>2
<1>5. \A i : i \in After(k, p, kind) <=> \/ i \in After(l, p, kind)
                                         \/ i = n + 1 /\ e \in kind
  BY Zenon, <1>1, <1>3, <1>4 DEF After, n
<1> QED
  BY Zenon, <1>5 DEF k, n

\* Taking the first of them leaves the others.
LEMMA AfterNext ==
  ASSUME NEW l \in Seq(Event), NEW p \in 0..Len(l), NEW kind,
         NEW i \in (p + 1)..Len(l), l[i] \in kind,
         \A j \in (p + 1)..(i - 1) : l[j] \notin kind
  PROVE  /\ After(l, i, kind) = After(l, p, kind) \ {i}
         /\ i \in After(l, p, kind) /\ \A j \in After(l, p, kind) : i <= j
<1>1. Len(l) \in Nat /\ p \in Nat /\ i \in Nat /\ p < i
  OBVIOUS
<1>2. \A j \in (p + 1)..Len(l) : j \in (p + 1)..(i - 1) \/ j = i \/ j \in (i + 1)..Len(l)
  BY <1>1
<1>3. \A j \in (i + 1)..Len(l) : j \in (p + 1)..Len(l) /\ j # i /\ i <= j
  BY <1>1
<1>4. i \in After(l, p, kind) /\ i <= i
  BY <1>1 DEF After
<1> QED
  BY Zenon, <1>2, <1>3, <1>4 DEF After

\* Going on to an event leaves the others that lie behind it.
LEMMA AfterPass ==
  ASSUME NEW l \in Seq(Event), NEW p \in 0..Len(l), NEW kind,
         NEW i \in (p + 1)..Len(l), \A j \in (p + 1)..(i - 1) : l[j] \notin kind
  PROVE  /\ After(l, i, kind) = After(l, p, kind) \ {i}
         /\ l[i] \in kind => i \in After(l, p, kind)
<1>1. Len(l) \in Nat /\ p \in Nat /\ i \in Nat /\ p < i
  OBVIOUS
<1>2. \A j \in (p + 1)..Len(l) : j \in (p + 1)..(i - 1) \/ j = i \/ j \in (i + 1)..Len(l)
  BY <1>1
<1>3. \A j \in (i + 1)..Len(l) : j \in (p + 1)..Len(l) /\ j # i
  BY <1>1
<1> QED
  BY Zenon, <1>2, <1>3 DEF After

\* Whom an added event is for.
LEMMA TodoAdd ==
  ASSUME NEW l \in Seq(Event), NEW e \in Event,
         NEW p \in 0..Len(l), NEW r \in 0..Len(l), NEW m \in 0..Len(l)
  PROVE  LET u == After(l, p, ForController)
             b == After(l, r, ForRuntime)
             s == After(l, m, ForMemory)
             uu == After(Append(l, e), p, ForController)
             bb == After(Append(l, e), r, ForRuntime)
             ss == After(Append(l, e), m, ForMemory)
             n == Len(l) + 1
         IN /\ e.type \in ControllerTypes => uu = u \cup {n} /\ bb = b /\ ss = s
            /\ e.type = "recall" => uu = u /\ bb = b /\ ss = s \cup {n}
            /\ e.type = "think" \/ (e.type = "action" /\ e.conf # "awaiting") =>
                 uu = u /\ bb = b \cup {n} /\ ss = s
            /\ e.type = "state" \/ Asks(e) => uu = u /\ bb = b /\ ss = s
<1>1. /\ e.type \in ControllerTypes =>
           e \in ForController /\ e \notin ForRuntime /\ e \notin ForMemory
      /\ e.type = "recall" =>
           e \notin ForController /\ e \notin ForRuntime /\ e \in ForMemory
      /\ e.type = "think" \/ (e.type = "action" /\ e.conf # "awaiting") =>
           e \notin ForController /\ e \in ForRuntime /\ e \notin ForMemory
      /\ e.type = "state" \/ Asks(e) =>
           e \notin ForController /\ e \notin ForRuntime /\ e \notin ForMemory
  BY Zenon DEF ForController, ForRuntime, ForMemory, ControllerTypes, Asks
<1>2. /\ e \in ForController => After(Append(l, e), p, ForController)
                                  = After(l, p, ForController) \cup {Len(l) + 1}
      /\ e \notin ForController => After(Append(l, e), p, ForController)
                                      = After(l, p, ForController)
  BY SMT, AfterAdd
<1>3. /\ e \in ForRuntime => After(Append(l, e), r, ForRuntime)
                               = After(l, r, ForRuntime) \cup {Len(l) + 1}
      /\ e \notin ForRuntime => After(Append(l, e), r, ForRuntime)
                                   = After(l, r, ForRuntime)
  BY SMT, AfterAdd
<1>4. /\ e \in ForMemory => After(Append(l, e), m, ForMemory)
                              = After(l, m, ForMemory) \cup {Len(l) + 1}
      /\ e \notin ForMemory => After(Append(l, e), m, ForMemory)
                                  = After(l, m, ForMemory)
  BY SMT, AfterAdd
<1> QED
  BY Zenon, <1>1, <1>2, <1>3, <1>4

\* The log after one or two more events is one in which everybody has their place.
LEMMA PlacedAdd ==
  ASSUME NEW c, Sound(c), Placed(c), NEW d, Len(c.log) <= Len(d.log), d.log \in Seq(Event)
  PROVE  Placed(d)
<1>1. Len(c.log) \in Nat /\ Len(d.log) \in Nat
  BY DEF Sound, Controller
<1>2. \A x \in 0..Len(c.log) : x \in 0..Len(d.log)
  BY <1>1
<1> QED
  BY Zenon, <1>2 DEF Placed

\* add_event
LEMMA AddTodo ==
  ASSUME NEW c, Sound(c), Placed(c), NEW e \in Event, e.type # "change"
  PROVE  LET d == Add(c, e)
             n == Len(c.log) + 1
         IN /\ Sound(d) /\ Placed(d) /\ d.log = Append(c.log, e) /\ d.state = c.state
            /\ d.pending = c.pending /\ d.pos = c.pos /\ d.status = c.status
            /\ e.type \in ControllerTypes =>
                 /\ Unheard(d) = Unheard(c) \cup {n} /\ Backlog(d) = Backlog(c)
                 /\ Recalls(d) = Recalls(c)
            /\ e.type = "recall" =>
                 /\ Unheard(d) = Unheard(c) /\ Backlog(d) = Backlog(c)
                 /\ Recalls(d) = Recalls(c) \cup {n}
            /\ e.type = "think" \/ (e.type = "action" /\ e.conf # "awaiting") =>
                 /\ Unheard(d) = Unheard(c) /\ Backlog(d) = Backlog(c) \cup {n}
                 /\ Recalls(d) = Recalls(c)
            /\ e.type = "state" \/ Asks(e) => Same(c, d)
<1> DEFINE d == Add(c, e)
<1>1. /\ LeadsTo(c, d) /\ d.log = Append(c.log, e) /\ d.state = c.state
      /\ d.pending = c.pending /\ d.pos = c.pos /\ d.status = c.status
  BY Zenon, AddSound
<1>2. Sound(d) /\ d.log \in Seq(Event) /\ Len(c.log) <= Len(d.log)
  BY Zenon, <1>1 DEF LeadsTo, Sound, Controller
<1>3. Placed(d)
  BY Zenon, <1>2, PlacedAdd
<1>4. c.log \in Seq(Event) /\ c.pos \in 0..Len(c.log)
  BY DEF Sound, Controller
<1>5. /\ rpos \in 0..Len(c.log) /\ mpos \in 0..Len(c.log)
  BY Zenon DEF Placed
<1> HIDE DEF d
<1> DEFINE n == Len(c.log) + 1
           u == After(c.log, c.pos, ForController)
           b == After(c.log, rpos, ForRuntime)
           m == After(c.log, mpos, ForMemory)
           uu == After(Append(c.log, e), c.pos, ForController)
           bb == After(Append(c.log, e), rpos, ForRuntime)
           mm == After(Append(c.log, e), mpos, ForMemory)
<1>6. /\ e.type \in ControllerTypes => uu = u \cup {n} /\ bb = b /\ mm = m
      /\ e.type = "recall" => uu = u /\ bb = b /\ mm = m \cup {n}
      /\ e.type = "think" \/ (e.type = "action" /\ e.conf # "awaiting") =>
           uu = u /\ bb = b \cup {n} /\ mm = m
      /\ e.type = "state" \/ Asks(e) => uu = u /\ bb = b /\ mm = m
  BY SMT, <1>4, <1>5, TodoAdd
<1>7. /\ Unheard(d) = uu /\ Backlog(d) = bb /\ Recalls(d) = mm
      /\ Unheard(c) = u /\ Backlog(c) = b /\ Recalls(c) = m
  BY Zenon, <1>1 DEF Unheard, Backlog, Recalls
<1> HIDE DEF n, u, b, m, uu, bb, mm
<1> QED
  BY Zenon, <1>1, <1>2, <1>3, <1>6, <1>7 DEF Same, d, n

\* What does not touch the log or the place in it leaves what is to do as it is.
LEMMA SameTodo ==
  ASSUME NEW c, NEW d, d.log = c.log, d.pos = c.pos
  PROVE  Same(c, d) /\ (Placed(c) => Placed(d))
  BY Zenon DEF Same, Unheard, Backlog, Recalls, Placed

\* ... and the same again.
LEMMA SameOn == ASSUME NEW c, NEW d, NEW e, Same(c, d), Same(d, e) PROVE Same(c, e)
  BY Zenon DEF Same

\* An action is answered, or pending, also after an event that is no action or is the
\* pending one; what was pending is still, or has been answered.
LEMMA AnsweredAdd ==
  ASSUME NEW c, NEW d, NEW e \in Event, c.log \in Seq(Event), Answered(c),
         d.log = Append(c.log, e),
         e.type = "action" =>
           d.pending.event.type = "action" /\ d.pending.event.call = e.call,
         c.pending.event.type = "action" =>
           \/ /\ d.pending.event.type = "action"
              /\ d.pending.event.call = c.pending.event.call
           \/ \E j \in DOMAIN d.log :
                d.log[j].type = "obs" /\ d.log[j].call = c.pending.event.call
  PROVE  Answered(d)
<1>1. \A i \in DOMAIN d.log : \/ i = Len(c.log) + 1 /\ d.log[i] = e
                              \/ i \in DOMAIN c.log /\ d.log[i] = c.log[i]
  BY SMT, AppendPlaces
<1>2. \A i \in DOMAIN c.log : i \in DOMAIN d.log /\ d.log[i] = c.log[i]
  BY SMT, AppendPlaces
<1> SUFFICES ASSUME NEW i \in DOMAIN d.log, d.log[i].type = "action"
             PROVE  \/ /\ d.pending.event.type = "action"
                       /\ d.pending.event.call = d.log[i].call
                    \/ \E j \in DOMAIN d.log :
                         d.log[j].type = "obs" /\ d.log[j].call = d.log[i].call
  BY Zenon DEF Answered
<1>3. CASE d.log[i] = e
  BY Zenon, <1>3
<1>4. CASE i \in DOMAIN c.log /\ d.log[i] = c.log[i]
  <2>1. \/ c.pending.event.type = "action" /\ c.pending.event.call = d.log[i].call
        \/ \E j \in DOMAIN c.log : c.log[j].type = "obs" /\ c.log[j].call = d.log[i].call
    BY SMT, <1>4 DEF Answered
  <2> QED
    BY Zenon, <1>2, <2>1
<1> QED
  BY Zenon, <1>1, <1>3, <1>4

\* The same when no event is added.
LEMMA AnsweredSame ==
  ASSUME NEW c, NEW d, Answered(c), d.log = c.log,
         c.pending.event.type = "action" =>
           \/ /\ d.pending.event.type = "action"
              /\ d.pending.event.call = c.pending.event.call
           \/ \E j \in DOMAIN c.log :
                c.log[j].type = "obs" /\ c.log[j].call = c.pending.event.call
  PROVE  Answered(d)
<1> SUFFICES ASSUME NEW i \in DOMAIN d.log, d.log[i].type = "action"
             PROVE  \/ /\ d.pending.event.type = "action"
                       /\ d.pending.event.call = d.log[i].call
                    \/ \E j \in DOMAIN d.log :
                         d.log[j].type = "obs" /\ d.log[j].call = d.log[i].call
  BY Zenon DEF Answered
<1>1. \/ c.pending.event.type = "action" /\ c.pending.event.call = c.log[i].call
      \/ \E j \in DOMAIN c.log : c.log[j].type = "obs" /\ c.log[j].call = c.log[i].call
  BY Zenon DEF Answered
<1> QED
  BY Zenon, <1>1

\* What is unheard lies behind what the controller has taken.
LEMMA UnheardPlaces ==
  ASSUME NEW c, Sound(c)
  PROVE  \A i \in Unheard(c) :
           /\ i \in DOMAIN c.log /\ i \in Nat /\ c.pos < i
           /\ c.log[i] \in Event /\ c.log[i].type \in ControllerTypes
<1>1. c.log \in Seq(Event) /\ Len(c.log) \in Nat /\ c.pos \in Nat
  BY DEF Sound, Controller
<1>2. \A i \in (c.pos + 1)..Len(c.log) : i \in 1..Len(c.log) /\ i \in Nat /\ c.pos < i
  BY <1>1
<1>3. DOMAIN c.log = 1..Len(c.log)
  BY <1>1
<1> QED
  BY Zenon, <1>2, <1>3 DEF Unheard, After, ForController

----------------------------------------------------------------------------
(* The invariant over a step.                                              *)

\* What the invariants say of the record.
LEMMA TurnFacts ==
  ASSUME ControllerInv, TurnInv
  PROVE  /\ Sound(Ctl) /\ Placed(Ctl) /\ Answered(Ctl) /\ mfail = 0
         /\ Turn(Ctl, llm, running, Unheard(Ctl), Backlog(Ctl), Recalls(Ctl))
         /\ Ctl.log = log /\ Ctl.state = agent_state /\ Ctl.pending = pending
         /\ Ctl.status = status /\ Ctl.pos = cpos
         /\ log \in Seq(Event) /\ rpos \in 0..Len(log) /\ mpos \in 0..Len(log)
         /\ cpos \in 0..Len(log) /\ Len(log) \in Nat
<1>1. /\ Ctl.log = log /\ Ctl.state = agent_state /\ Ctl.pending = pending
      /\ Ctl.status = status /\ Ctl.pos = cpos
  BY Zenon DEF Ctl
<1>2. Sound(Ctl) /\ rpos \in 0..Len(log) /\ mpos \in 0..Len(log)
  BY Zenon DEF ControllerInv
<1>3. log \in Seq(Event) /\ cpos \in Nat /\ cpos <= Len(log) /\ Len(log) \in Nat
  BY Zenon, <1>2, CtlFacts
<1>4. cpos \in 0..Len(log)
  BY <1>3
<1> QED
  BY Zenon, <1>1, <1>2, <1>3, <1>4 DEF TurnInv, Placed

\* Whose turn it is depends on four fields of the controller.
LEMMA SameTurn ==
  ASSUME NEW c, NEW d, NEW l, NEW r, NEW u, NEW b, NEW m,
         d.log = c.log, d.state = c.state, d.pending = c.pending, d.status = c.status
  PROVE  /\ Waits(c, l, r, u, b, m) => Waits(d, l, r, u, b, m)
         /\ Opens(c, l, r, u, b, m) => Opens(d, l, r, u, b, m)
         /\ Recalling(c, l, r, u, b, m) => Recalling(d, l, r, u, b, m)
         /\ Recalled(c, l, r, u, b, m) => Recalled(d, l, r, u, b, m)
         /\ Thinks(c, l, r, u, b, m) => Thinks(d, l, r, u, b, m)
         /\ Acts(c, l, r, u, b, m) => Acts(d, l, r, u, b, m)
         /\ Questions(c, l, r, u, b, m) => Questions(d, l, r, u, b, m)
<1>1. Waits(c, l, r, u, b, m) => Waits(d, l, r, u, b, m)
  BY SMT DEF Waits
<1>2. Opens(c, l, r, u, b, m) => Opens(d, l, r, u, b, m)
  BY SMT DEF Opens
<1>3. Recalling(c, l, r, u, b, m) => Recalling(d, l, r, u, b, m)
  BY SMT DEF Recalling, Pends
<1>4. Recalled(c, l, r, u, b, m) => Recalled(d, l, r, u, b, m)
  BY SMT DEF Recalled, Pends
<1>5. Thinks(c, l, r, u, b, m) => Thinks(d, l, r, u, b, m)
  BY SMT DEF Thinks
<1>6. Acts(c, l, r, u, b, m) => Acts(d, l, r, u, b, m)
  BY SMT DEF Acts, Pends
<1>7. Questions(c, l, r, u, b, m) => Questions(d, l, r, u, b, m)
  BY SMT DEF Questions, Pends
<1> QED
  BY Zenon, <1>1, <1>2, <1>3, <1>4, <1>5, <1>6, <1>7

\* What the controller has become, and what the others have done.
LEMMA TurnKept ==
  ASSUME NEW d, Ctl' = d, Answered(d), mfail' = 0,
         Turn(d, llm', running', Unheard(d), After(d.log, rpos', ForRuntime),
              After(d.log, mpos', ForMemory))
  PROVE  TurnInv'
<1>1. /\ Unheard(Ctl)' = Unheard(d) /\ Backlog(Ctl)' = After(d.log, rpos', ForRuntime)
      /\ Recalls(Ctl)' = After(d.log, mpos', ForMemory)
  BY Zenon DEF Unheard, Backlog, Recalls
<1> QED
  BY Zenon, <1>1 DEF TurnInv

\* The same when the others have not moved.
LEMMA TurnPassed ==
  ASSUME ControllerInv, TurnInv, NEW d, Sound(d), Answered(d), Becomes(d),
         UNCHANGED <<rpos, mpos, mfail>>,
         Turn(d, llm', running', Unheard(d), Backlog(d), Recalls(d))
  PROVE  TurnInv'
<1>1. Ctl' = d
  BY Zenon, BecomesFacts
<1>2. mfail' = 0
  BY Zenon DEF TurnInv
<1>3. /\ Backlog(d) = After(d.log, rpos', ForRuntime)
      /\ Recalls(d) = After(d.log, mpos', ForMemory)
  BY Zenon DEF Backlog, Recalls
<1> QED
  BY Zenon, <1>1, <1>2, <1>3, TurnKept

----------------------------------------------------------------------------
(* The runtime.                                                            *)

\* The controller's record when only the log and the statuses may have changed.
LEMMA CtlAlone ==
  ASSUME UNCHANGED <<controller, counts>>
  PROVE  /\ Ctl'.log = log' /\ Ctl'.state = Ctl.state /\ Ctl'.pending = Ctl.pending
         /\ Ctl'.pos = Ctl.pos /\ Ctl'.status = status' /\ Ctl'.pos = cpos
         /\ llm' = llm
  BY Zenon DEF Ctl, controller, counts

\* Another party adds an event that the controller has to hear.
LEMMA PartyAdds ==
  ASSUME ControllerInv, TurnInv, UNCHANGED <<controller, counts>>, NEW e \in Event,
         log' = Append(log, e), e.type \in ControllerTypes
  PROVE  LET d == Ctl'
             n == Len(log) + 1
         IN /\ d.log = log' /\ Unheard(d) = Unheard(Ctl) \cup {n} /\ Answered(d)
            /\ n \in DOMAIN d.log /\ d.log[n] = e
            /\ \A i \in DOMAIN log : i \in DOMAIN d.log /\ d.log[i] = log[i]
            /\ \A i \in Unheard(Ctl) : i \in DOMAIN log /\ i < n
            /\ \A p \in 0..Len(log) :
                 /\ After(d.log, p, ForRuntime) = After(log, p, ForRuntime)
                 /\ After(d.log, p, ForMemory) = After(log, p, ForMemory)
<1> DEFINE d == Ctl'
           n == Len(log) + 1
<1>1. /\ d.log = log' /\ d.state = Ctl.state /\ d.pending = Ctl.pending
      /\ d.pos = cpos
  BY Zenon, CtlAlone
<1>2. /\ Sound(Ctl) /\ Answered(Ctl) /\ Ctl.log = log /\ Ctl.pos = cpos
      /\ log \in Seq(Event) /\ Len(log) \in Nat /\ cpos \in 0..Len(log)
  BY Zenon, TurnFacts
<1>3. e \in ForController /\ e \notin ForRuntime /\ e \notin ForMemory
  BY Zenon DEF ForController, ForRuntime, ForMemory, ControllerTypes
<1>4. After(log', cpos, ForController) = After(log, cpos, ForController) \cup {n}
  BY SMT, <1>2, <1>3, AfterAdd
<1>5. \A p \in 0..Len(log) :
        /\ After(log', p, ForRuntime) = After(log, p, ForRuntime)
        /\ After(log', p, ForMemory) = After(log, p, ForMemory)
  <2> TAKE p \in 0..Len(log)
  <2> QED
    BY SMT, <1>2, <1>3, AfterAdd
<1>6. n \in DOMAIN log'
  BY <1>2
<1>7. log'[n] = e
  BY Zenon, <1>2, AppendFacts
<1>8. \A i \in DOMAIN log : i \in DOMAIN log' /\ log'[i] = log[i]
  BY Zenon, <1>2, AppendPlaces
<1>9. \A i \in Unheard(Ctl) : i \in DOMAIN log
  BY Zenon, <1>2, UnheardPlaces
<1>10. \A i \in DOMAIN log : i < n
  BY <1>2
<1> HIDE DEF d, n
<1>11. d.log = Append(Ctl.log, e) /\ Ctl.log \in Seq(Event) /\ e.type # "action"
  BY Zenon, <1>1, <1>2 DEF ControllerTypes
<1>12. Answered(d)
  BY Zenon, <1>1, <1>2, <1>11, AnsweredAdd
<1>13. Unheard(d) = Unheard(Ctl) \cup {n}
  BY SMT, <1>1, <1>2, <1>4 DEF Unheard
<1> QED
  BY Zenon, <1>1, <1>5, <1>6, <1>7, <1>8, <1>9, <1>10, <1>12, <1>13 DEF d, n

\* Nobody adds anything: the runtime or the memory has gone on.
LEMMA QuietTurn ==
  ASSUME ControllerInv, TurnInv, UNCHANGED <<controller, counts>>, log' = log, mfail' = 0,
         Turn(Ctl', llm', running', Unheard(Ctl), After(log, rpos', ForRuntime),
              After(log, mpos', ForMemory))
  PROVE  TurnInv'
<1> DEFINE d == Ctl'
<1>1. /\ d.log = log' /\ d.pending = Ctl.pending /\ d.pos = Ctl.pos
  BY Zenon, CtlAlone
<1>2. Answered(Ctl) /\ Ctl.log = log
  BY Zenon, TurnFacts
<1>3. d.log = Ctl.log /\ d.log = log
  BY Zenon, <1>1, <1>2
<1> HIDE DEF d
<1>4. Answered(d)
  BY Zenon, <1>1, <1>2, <1>3, AnsweredSame
<1>5. Unheard(d) = Unheard(Ctl)
  BY Zenon, <1>1, <1>3 DEF Unheard
<1>6. Turn(d, llm', running', Unheard(d), After(d.log, rpos', ForRuntime),
           After(d.log, mpos', ForMemory))
  BY Zenon, <1>3, <1>5 DEF d
<1>7. Ctl' = d
  BY Zenon DEF d
<1> QED
  BY Zenon, <1>4, <1>6, <1>7, TurnKept

\* An observation of the runtime's carries the tool call and the id of what it answers.
LEMMA RuntimeObsNames ==
  ASSUME NEW i \in Nat, log[i] \in Event, NEW a \in {"result", "user_reject"}
  PROVE  /\ RuntimeObs(i, a) \in Event /\ RuntimeObs(i, a).type = "obs"
         /\ RuntimeObs(i, a).call = log[i].call /\ RuntimeObs(i, a).cause = i
<1>1. RuntimeObs(i, a) \in Event /\ RuntimeObs(i, a).type = "obs"
  BY Zenon, RuntimeObsFacts
<1>2. RuntimeObs(i, a).call = log[i].call /\ RuntimeObs(i, a).cause = i
  BY Zenon DEF RuntimeObs, Ev
<1> QED
  BY Zenon, <1>1, <1>2

\* The runtime takes an event.
LEMMA RuntimePasses ==
  ASSUME ControllerInv, TurnInv, NEW i \in NextOf({"action", "think"}, rpos)
  PROVE  /\ After(log, i, ForRuntime) = Backlog(Ctl) \ {i}
         /\ i \in 0..Len(log) /\ i \in DOMAIN log /\ log[i] \in Event /\ i # 0
         /\ log[i].type \in {"action", "think"}
         /\ log[i] \in ForRuntime => i \in Backlog(Ctl)
<1>1. /\ log \in Seq(Event) /\ Len(log) \in Nat /\ rpos \in 0..Len(log) /\ Ctl.log = log
  BY Zenon, TurnFacts
<1>2. /\ i \in (rpos + 1)..Len(log) /\ log[i].type \in {"action", "think"}
      /\ \A j \in (rpos + 1)..(i - 1) : log[j].type \notin {"action", "think"}
  BY Zenon DEF NextOf
<1>3. i \in 0..Len(log) /\ i \in DOMAIN log /\ log[i] \in Event /\ i # 0
  BY <1>1, <1>2
<1>4. \A j \in (rpos + 1)..(i - 1) : log[j] \notin ForRuntime
  BY Zenon, <1>2 DEF ForRuntime
<1>5. /\ After(log, i, ForRuntime) = After(log, rpos, ForRuntime) \ {i}
      /\ log[i] \in ForRuntime => i \in After(log, rpos, ForRuntime)
  BY SMT, <1>1, <1>2, <1>4, AfterPass
<1> QED
  BY Zenon, <1>1, <1>2, <1>3, <1>5 DEF Backlog

\* The runtime begins to execute an action.
LEMMA RuntimeStartsTurn ==
  ASSUME ControllerInv, TurnInv, RuntimeStarts
  PROVE  TurnInv'
<1> DEFINE u == Unheard(Ctl)
           b == Backlog(Ctl)
           m == Recalls(Ctl)
<1>1. PICK i \in NextOf({"action", "think"}, rpos) :
        /\ log[i].type = "action" /\ log[i].conf \in {"none", "confirmed"}
        /\ running' = i /\ rpos' = i
  BY Zenon DEF RuntimeStarts
<1>2. /\ running = 0 /\ UNCHANGED <<controller, counts>> /\ log' = log /\ mpos' = mpos
      /\ mfail' = mfail /\ status' = status
  BY Zenon DEF RuntimeStarts
<1>3. /\ After(log, i, ForRuntime) = b \ {i} /\ log[i] \in Event
      /\ log[i] \in ForRuntime => i \in b
  BY Zenon, RuntimePasses
<1>4. i \in b
  BY Zenon, <1>1, <1>3 DEF ForRuntime
<1>5. /\ Turn(Ctl, llm, running, u, b, m) /\ mfail = 0 /\ Ctl.log = log /\ Ctl.status = status
  BY Zenon, TurnFacts
<1>6. \/ Acts(Ctl, llm, running, u, b, m)
      \/ \E k \in DOMAIN log : b = {k} /\ log[k].type = "think"
  BY Zenon, <1>4, <1>5 DEF Turn, Waits, Opens, Recalling, Recalled, Thinks, Questions
<1>7. Acts(Ctl, llm, running, u, b, m)
  BY Zenon, <1>1, <1>4, <1>6
<1>8. b # {}
  BY Zenon, <1>4
<1>9. /\ Ctl.state \in {"RUNNING", "USER_CONFIRMED", "USER_REJECTED"}
      /\ Pends(Ctl, "action") /\ Ctl.pending.event.conf # "awaiting"
      /\ llm = "idle" /\ m = {}
      /\ b = {Ctl.pending.id} /\ u = {} /\ Ctl.status = 0
  BY Zenon, <1>7, <1>8 DEF Acts
<1>10. i = Ctl.pending.id /\ b \ {i} = {}
  BY Zenon, <1>4, <1>9
<1>11. m = After(log, mpos', ForMemory)
  BY Zenon, <1>2, <1>5 DEF Recalls
<1> HIDE DEF u, b, m
<1> DEFINE d == Ctl'
<1>12. /\ d.log = log' /\ d.state = Ctl.state /\ d.pending = Ctl.pending
       /\ d.status = status' /\ llm' = llm
  BY Zenon, <1>2, CtlAlone
<1> HIDE DEF d
<1>13. d.log = Ctl.log /\ d.status = 0
  BY Zenon, <1>2, <1>5, <1>9, <1>12
<1>14. Pends(d, "action")
  BY Zenon, <1>9, <1>12, <1>13 DEF Pends
<1>15. Acts(d, llm', running', u, {}, m)
  BY Zenon, <1>1, <1>9, <1>10, <1>12, <1>13, <1>14 DEF Acts
<1>16. Turn(d, llm', running', u, After(log, rpos', ForRuntime), After(log, mpos', ForMemory))
  BY Zenon, <1>1, <1>3, <1>10, <1>11, <1>15 DEF Turn
<1> QED
  BY Zenon, <1>2, <1>5, <1>16, QuietTurn DEF d, u

\* The runtime has executed it, or has failed to.
LEMMA RuntimeEndsTurn ==
  ASSUME ControllerInv, TurnInv, RuntimeEnds
  PROVE  TurnInv'
<1> DEFINE u == Unheard(Ctl)
           b == Backlog(Ctl)
           m == Recalls(Ctl)
           d == Ctl'
           e == RuntimeObs(running, "result")
           n == Len(log) + 1
<1>1. /\ running # 0 /\ running' = 0 /\ UNCHANGED <<controller, counts>>
      /\ rpos' = rpos /\ mpos' = mpos /\ mfail' = mfail
  BY Zenon DEF RuntimeEnds
<1>2. /\ Turn(Ctl, llm, running, u, b, m) /\ mfail = 0 /\ Ctl.log = log /\ Ctl.status = status
      /\ rpos \in 0..Len(log) /\ mpos \in 0..Len(log) /\ log \in Seq(Event)
  BY Zenon, TurnFacts
<1>3. Acts(Ctl, llm, running, u, b, m)
  BY Zenon, <1>1, <1>2 DEF Turn, Waits, Opens, Recalling, Recalled, Thinks, Questions
<1>4. /\ Ctl.state \in {"RUNNING", "USER_CONFIRMED", "USER_REJECTED"}
      /\ Pends(Ctl, "action") /\ Ctl.pending.event.conf # "awaiting"
      /\ llm = "idle" /\ m = {}
      /\ running = Ctl.pending.id /\ b = {} /\ u = {} /\ Ctl.status = 0
  BY Zenon, <1>1, <1>3 DEF Acts
<1>5. /\ m = After(log, mpos, ForMemory) /\ b = After(log, rpos, ForRuntime)
  BY Zenon, <1>2 DEF Recalls, Backlog
<1>6. /\ running \in DOMAIN log /\ log[running] = Ctl.pending.event
  BY Zenon, <1>2, <1>4 DEF Pends
<1> HIDE DEF b, m
<1>7. /\ d.log = log' /\ d.state = Ctl.state /\ d.pending = Ctl.pending
      /\ d.status = status' /\ llm' = llm
  BY Zenon, <1>1, CtlAlone
<1>8. CASE log' = Append(log, e) /\ status' = status
  <2>1. running \in Nat /\ log[running] \in Event
    BY <1>2, <1>6
  <2>2. /\ e \in Event /\ e.type = "obs" /\ e.call = log[running].call /\ e.cause = running
    BY Zenon, <2>1, RuntimeObsNames
  <2>3. e.type \in ControllerTypes
    BY Zenon, <2>2 DEF ControllerTypes
  <2> HIDE DEF e
  <2>4. /\ d.log = log' /\ Unheard(d) = u \cup {n} /\ Answered(d)
        /\ n \in DOMAIN d.log /\ d.log[n] = e
        /\ \A i \in DOMAIN log : i \in DOMAIN d.log /\ d.log[i] = log[i]
        /\ \A p \in 0..Len(log) :
             /\ After(d.log, p, ForRuntime) = After(log, p, ForRuntime)
             /\ After(d.log, p, ForMemory) = After(log, p, ForMemory)
    BY SMT, <1>1, <1>8, <2>2, <2>3, PartyAdds
  <2> HIDE DEF d, n, u
  <2>5. Unheard(d) = {n}
    BY <1>4, <2>4
  <2>6. Pends(d, "action")
    BY Zenon, <1>2, <1>4, <1>7, <2>4 DEF Pends
  <2>7. d.status = 0
    BY Zenon, <1>2, <1>4, <1>7, <1>8
  <2>8. Acts(d, llm', running', Unheard(d), b, m)
    BY Zenon, <1>1, <1>4, <1>6, <1>7, <2>2, <2>4, <2>5, <2>6, <2>7 DEF Acts
  <2>9. /\ After(d.log, rpos', ForRuntime) = b /\ After(d.log, mpos', ForMemory) = m
    BY Zenon, <1>1, <1>2, <1>5, <2>4
  <2>10. Turn(d, llm', running', Unheard(d), After(d.log, rpos', ForRuntime),
              After(d.log, mpos', ForMemory))
    BY Zenon, <2>8, <2>9 DEF Turn
  <2>11. Ctl' = d /\ mfail' = 0
    BY Zenon, <1>1, <1>2 DEF d
  <2> QED
    BY Zenon, <2>4, <2>10, <2>11, TurnKept
<1>9. CASE status' = status + 1 /\ log' = log
  <2> HIDE DEF d, e, n
  <2>1. d.status = 1
    <3>1. status = 0
      BY Zenon, <1>2, <1>4
    <3> QED
      BY <1>7, <1>9, <3>1
  <2>2. d.log = Ctl.log
    BY Zenon, <1>2, <1>7, <1>9
  <2>3. Pends(d, "action")
    BY Zenon, <1>4, <1>7, <2>2 DEF Pends
  <2>4. Acts(d, llm', running', u, b, m)
    BY Zenon, <1>1, <1>4, <1>7, <2>1, <2>3 DEF Acts
  <2>5. Turn(d, llm', running', u, After(log, rpos', ForRuntime), After(log, mpos', ForMemory))
    BY Zenon, <1>1, <1>5, <2>4 DEF Turn
  <2> QED
    BY Zenon, <1>1, <1>2, <1>9, <2>5, QuietTurn DEF d
<1> QED
  BY Zenon, <1>8, <1>9 DEF RuntimeEnds

\* The runtime passes by an action that awaits the user, or answers.
LEMMA RuntimeAnswersTurn ==
  ASSUME ControllerInv, TurnInv, RuntimeAnswers
  PROVE  TurnInv'
<1> DEFINE u == Unheard(Ctl)
           b == Backlog(Ctl)
           m == Recalls(Ctl)
           d == Ctl'
           n == Len(log) + 1
<1>1. PICK i \in NextOf({"action", "think"}, rpos) :
        /\ \/ log[i].type = "think" /\ log' = Append(log, RuntimeObs(i, "result"))
           \/ log[i].conf = "awaiting" /\ log' = log
           \/ log[i].conf = "rejected" /\ log' = Append(log, RuntimeObs(i, "user_reject"))
        /\ rpos' = i
  BY Zenon DEF RuntimeAnswers
<1>2. /\ running = 0 /\ running' = 0 /\ UNCHANGED <<controller, counts>> /\ mpos' = mpos
      /\ mfail' = mfail /\ status' = status
  BY Zenon DEF RuntimeAnswers
<1>3. /\ Turn(Ctl, llm, running, u, b, m) /\ mfail = 0 /\ Ctl.log = log /\ Ctl.status = status
      /\ mpos \in 0..Len(log) /\ log \in Seq(Event)
  BY Zenon, TurnFacts
<1>4. /\ After(log, i, ForRuntime) = b \ {i} /\ log[i] \in Event /\ i \in 0..Len(log)
      /\ i \in DOMAIN log /\ log[i].type \in {"action", "think"}
      /\ log[i] \in ForRuntime => i \in b
  BY Zenon, RuntimePasses
<1>5. m = After(log, mpos, ForMemory) /\ b = After(log, rpos, ForRuntime)
  BY Zenon, <1>3 DEF Recalls, Backlog
<1>6. /\ d.log = log' /\ d.state = Ctl.state /\ d.pending = Ctl.pending
      /\ d.status = status' /\ llm' = llm
  BY Zenon, <1>2, CtlAlone
<1>7. log[i] \in ForRuntime =>
        \/ /\ Thinks(Ctl, llm, running, u, b, m) /\ llm = "idle" /\ u = {} /\ b = {i}
           /\ log[i].type = "think" /\ log[i].conf = "none"
        \/ /\ Acts(Ctl, llm, running, u, b, m) /\ b = {Ctl.pending.id} /\ i = Ctl.pending.id
           /\ u = {} /\ Ctl.status = 0 /\ log[i] = Ctl.pending.event /\ log[i].type = "action"
           /\ log[i].conf # "awaiting"
  <2> SUFFICES ASSUME log[i] \in ForRuntime
               PROVE \/ /\ Thinks(Ctl, llm, running, u, b, m) /\ llm = "idle" /\ u = {} /\ b = {i}
                        /\ log[i].type = "think" /\ log[i].conf = "none"
                     \/ /\ Acts(Ctl, llm, running, u, b, m) /\ b = {Ctl.pending.id} /\ i = Ctl.pending.id
                        /\ u = {} /\ Ctl.status = 0 /\ log[i] = Ctl.pending.event /\ log[i].type = "action"
                        /\ log[i].conf # "awaiting"
    BY Zenon
  <2>1. i \in b /\ b # {}
    BY Zenon, <1>4
  <2>2. Thinks(Ctl, llm, running, u, b, m) \/ Acts(Ctl, llm, running, u, b, m)
    BY Zenon, <1>3, <2>1 DEF Turn, Waits, Opens, Recalling, Recalled, Questions
  <2> HIDE DEF u, b, m
  <2>3. CASE Thinks(Ctl, llm, running, u, b, m)
    <3>1. llm = "idle" /\ u = {} /\ \E k \in DOMAIN log :
            b = {k} /\ log[k].type = "think" /\ log[k].conf = "none"
      BY Zenon, <1>3, <2>1, <2>3 DEF Thinks
    <3> QED
      BY Zenon, <2>1, <2>3, <3>1
  <2>4. CASE Acts(Ctl, llm, running, u, b, m)
    <3>1. b = {Ctl.pending.id} /\ u = {} /\ Ctl.status = 0
      BY Zenon, <2>1, <2>4 DEF Acts
    <3>2. i = Ctl.pending.id
      BY Zenon, <2>1, <3>1
    <3>3. log[i] = Ctl.pending.event /\ log[i].type = "action" /\ log[i].conf # "awaiting"
      BY Zenon, <1>3, <2>4, <3>2 DEF Acts, Pends
    <3> QED
      BY Zenon, <2>4, <3>1, <3>2, <3>3
  <2> QED
    BY Zenon, <2>2, <2>3, <2>4
<1>8. mfail' = 0 /\ Ctl' = d
  BY Zenon, <1>2, <1>3
<1> HIDE DEF b, m
<1>9. CASE log[i].conf = "awaiting" /\ log' = log
  <2> HIDE DEF d, n, u
  <2>1. log[i] \notin ForRuntime
    BY Zenon, <1>7, <1>9
  <2>2. i \notin b
    BY Zenon, <1>3, <1>5, <2>1 DEF After
  <2>3. b \ {i} = b
    BY Zenon, <2>2
  <2>4. d.log = Ctl.log /\ d.status = Ctl.status
    BY Zenon, <1>2, <1>3, <1>6, <1>9
  <2>5. Turn(d, llm, running, u, b, m)
    BY Zenon, <1>3, <1>6, <2>4, SameTurn DEF Turn
  <2>6. Turn(d, llm', running', u, After(log, rpos', ForRuntime), After(log, mpos', ForMemory))
    BY Zenon, <1>1, <1>2, <1>4, <1>5, <1>6, <2>3, <2>5
  <2> QED
    BY Zenon, <1>2, <1>8, <1>9, <2>6, QuietTurn DEF u
<1>10. ASSUME NEW a \in {"result", "user_reject"}, log' = Append(log, RuntimeObs(i, a)),
              log[i] \in ForRuntime
       PROVE  TurnInv'
  <2> DEFINE e == RuntimeObs(i, a)
  <2>1. i \in Nat
    BY <1>4
  <2>2. /\ e \in Event /\ e.type = "obs" /\ e.call = log[i].call /\ e.cause = i
    BY Zenon, <1>4, <2>1, RuntimeObsNames
  <2>3. e.type \in ControllerTypes /\ ~FromUser(e) /\ e.type # "change"
    BY Zenon, <2>2 DEF ControllerTypes, FromUser
  <2>4. log' = Append(log, e)
    BY Zenon, <1>10
  <2> HIDE DEF e
  <2>5. /\ d.log = log' /\ Unheard(d) = u \cup {n} /\ Answered(d)
        /\ n \in DOMAIN d.log /\ d.log[n] = e
        /\ \A j \in DOMAIN log : j \in DOMAIN d.log /\ d.log[j] = log[j]
        /\ \A p \in 0..Len(log) :
             /\ After(d.log, p, ForRuntime) = After(log, p, ForRuntime)
             /\ After(d.log, p, ForMemory) = After(log, p, ForMemory)
    BY SMT, <1>2, <2>2, <2>3, <2>4, PartyAdds
  <2> HIDE DEF d, n, u
  <2>6. /\ After(d.log, rpos', ForRuntime) = b \ {i} /\ After(d.log, mpos', ForMemory) = m
    BY Zenon, <1>1, <1>2, <1>3, <1>4, <1>5, <2>5
  <2>7. d.status = Ctl.status
    BY Zenon, <1>2, <1>3, <1>6
  <2>8. CASE /\ Thinks(Ctl, llm, running, u, b, m) /\ llm = "idle" /\ u = {} /\ b = {i}
    <3>1. Unheard(d) = {n} /\ b \ {i} = {}
      BY <2>5, <2>8
    <3>2. Thinks(d, llm', running', Unheard(d), {}, m)
      BY Zenon, <1>2, <1>6, <2>3, <2>5, <2>7, <2>8, <3>1 DEF Thinks
    <3>3. Turn(d, llm', running', Unheard(d), After(d.log, rpos', ForRuntime),
               After(d.log, mpos', ForMemory))
      BY Zenon, <2>6, <3>1, <3>2 DEF Turn
    <3> QED
      BY Zenon, <1>8, <2>5, <3>3, TurnKept
  <2>9. CASE /\ Acts(Ctl, llm, running, u, b, m) /\ b = {Ctl.pending.id} /\ i = Ctl.pending.id
             /\ u = {} /\ Ctl.status = 0 /\ log[i] = Ctl.pending.event
    <3>1. Unheard(d) = {n} /\ b \ {i} = {}
      BY <2>5, <2>9
    <3>2. Pends(d, "action") /\ e.call = Ctl.pending.event.call /\ e.cause = Ctl.pending.id
      BY Zenon, <1>3, <1>4, <1>6, <2>2, <2>5, <2>9 DEF Acts, Pends
    <3>3. Acts(d, llm', running', Unheard(d), {}, m)
      BY Zenon, <1>2, <1>6, <2>2, <2>5, <2>7, <2>9, <3>1, <3>2 DEF Acts
    <3>4. Turn(d, llm', running', Unheard(d), After(d.log, rpos', ForRuntime),
               After(d.log, mpos', ForMemory))
      BY Zenon, <2>6, <3>1, <3>3 DEF Turn
    <3> QED
      BY Zenon, <1>8, <2>5, <3>4, TurnKept
  <2> QED
    BY Zenon, <1>7, <1>10, <2>8, <2>9
<1>11. CASE log[i].type = "think" /\ log' = Append(log, RuntimeObs(i, "result"))
  <2>1. log[i] \in ForRuntime
    BY Zenon, <1>4, <1>11 DEF ForRuntime
  <2> QED
    BY Zenon, <1>10, <1>11, <2>1
<1>12. CASE log[i].conf = "rejected" /\ log' = Append(log, RuntimeObs(i, "user_reject"))
  <2>1. log[i] \in ForRuntime
    BY Zenon, <1>4, <1>12 DEF ForRuntime
  <2> QED
    BY Zenon, <1>10, <1>12, <2>1
<1> QED
  BY Zenon, <1>1, <1>9, <1>11, <1>12

----------------------------------------------------------------------------
(* The memory.                                                             *)

\* The memory takes a recall.
LEMMA MemoryPasses ==
  ASSUME ControllerInv, TurnInv, NEW i \in NextOf({"recall"}, mpos)
  PROVE  /\ After(log, i, ForMemory) = Recalls(Ctl) \ {i}
         /\ i \in 0..Len(log) /\ i \in DOMAIN log /\ log[i] \in Event
         /\ i \in Recalls(Ctl)
<1>1. /\ log \in Seq(Event) /\ Len(log) \in Nat /\ mpos \in 0..Len(log) /\ Ctl.log = log
  BY Zenon, TurnFacts
<1>2. /\ i \in (mpos + 1)..Len(log) /\ log[i].type \in {"recall"}
      /\ \A j \in (mpos + 1)..(i - 1) : log[j].type \notin {"recall"}
  BY Zenon DEF NextOf
<1>3. i \in 0..Len(log) /\ i \in DOMAIN log /\ log[i] \in Event
  BY <1>1, <1>2
<1>4. /\ \A j \in (mpos + 1)..(i - 1) : log[j] \notin ForMemory
      /\ log[i] \in ForMemory
  BY Zenon, <1>2, <1>3 DEF ForMemory
<1>5. /\ After(log, i, ForMemory) = After(log, mpos, ForMemory) \ {i}
      /\ i \in After(log, mpos, ForMemory)
  BY SMT, <1>1, <1>2, <1>4, AfterPass
<1> QED
  BY Zenon, <1>1, <1>3, <1>5 DEF Recalls

\* The memory answers a recall.
LEMMA MemoryTurn ==
  ASSUME ControllerInv, TurnInv, MemoryAnswers
  PROVE  TurnInv'
<1> DEFINE u == Unheard(Ctl)
           b == Backlog(Ctl)
           m == Recalls(Ctl)
           d == Ctl'
           n == Len(log) + 1
<1>1. PICK i \in NextOf({"recall"}, mpos) :
        /\ mpos' = i
        /\ IF log[i].arg = "knowledge" \/ log[i].source = "user"
           THEN \E t \in {"obs", "null_obs"} :
                  log' = Append(log, [Ev(t, "environment", "result") EXCEPT !.cause = i])
           ELSE log' = log
  BY Zenon DEF MemoryAnswers
<1>2. /\ running' = running /\ UNCHANGED <<controller, counts>> /\ rpos' = rpos
      /\ mfail' = mfail /\ status' = status
  BY Zenon DEF MemoryAnswers
<1>3. /\ Turn(Ctl, llm, running, u, b, m) /\ mfail = 0 /\ Ctl.log = log /\ Ctl.status = status
      /\ rpos \in 0..Len(log) /\ log \in Seq(Event)
  BY Zenon, TurnFacts
<1>4. /\ After(log, i, ForMemory) = m \ {i} /\ i \in 0..Len(log) /\ i \in DOMAIN log
      /\ i \in m
  BY Zenon, MemoryPasses
<1>5. b = After(log, rpos, ForRuntime)
  BY Zenon, <1>3 DEF Backlog
<1>6. /\ d.log = log' /\ d.state = Ctl.state /\ d.pending = Ctl.pending
      /\ d.status = status' /\ llm' = llm
  BY Zenon, <1>2, CtlAlone
<1>7. m # {}
  BY Zenon, <1>4
<1>8. Recalling(Ctl, llm, running, u, b, m)
  BY Zenon, <1>3, <1>7 DEF Turn, Waits, Opens, Recalled, Thinks, Acts, Questions
<1> HIDE DEF b, m
<1>9. /\ Ctl.state = "RUNNING" /\ Pends(Ctl, "recall") /\ Ctl.pending.event.source = "user"
      /\ llm = "idle" /\ running = 0 /\ b = {} /\ m = {Ctl.pending.id} /\ Ctl.status = 0
      /\ \A j \in u : Starts(log[j])
  BY Zenon, <1>3, <1>8 DEF Recalling
<1>10. i = Ctl.pending.id /\ m \ {i} = {}
  BY Zenon, <1>4, <1>9
<1>11. log[i].source = "user"
  BY Zenon, <1>3, <1>9, <1>10 DEF Pends
<1>12. PICK t \in {"obs", "null_obs"} :
         log' = Append(log, [Ev(t, "environment", "result") EXCEPT !.cause = i])
  BY Zenon, <1>1, <1>11
<1> DEFINE e == [Ev(t, "environment", "result") EXCEPT !.cause = i]
<1>13. i \in Nat
  BY <1>4
<1>14. e \in Event /\ e.type = t /\ e.cause = i
  BY Zenon, <1>13 DEF Ev, Event
<1>15. log' = Append(log, e)
  BY Zenon, <1>12
<1> HIDE DEF e
<1>16. e.type \in ControllerTypes
  BY Zenon, <1>14 DEF ControllerTypes
<1>17. /\ d.log = log' /\ Unheard(d) = u \cup {n} /\ Answered(d)
       /\ n \in DOMAIN d.log /\ d.log[n] = e
       /\ \A j \in DOMAIN log : j \in DOMAIN d.log /\ d.log[j] = log[j]
       /\ \A j \in u : j \in DOMAIN log /\ j < n
       /\ \A p \in 0..Len(log) :
            /\ After(d.log, p, ForRuntime) = After(log, p, ForRuntime)
            /\ After(d.log, p, ForMemory) = After(log, p, ForMemory)
  BY SMT, <1>2, <1>14, <1>15, <1>16, PartyAdds
<1>18. mfail' = 0 /\ Ctl' = d
  BY Zenon, <1>2, <1>3
<1> HIDE DEF d, n, u
<1>19. /\ After(d.log, rpos', ForRuntime) = {} /\ After(d.log, mpos', ForMemory) = {}
  BY Zenon, <1>1, <1>2, <1>3, <1>4, <1>5, <1>9, <1>10, <1>17
<1>20. d.status = 0 /\ running' = 0 /\ llm' = "idle" /\ d.state = "RUNNING"
  BY Zenon, <1>2, <1>3, <1>6, <1>9
<1>21. Pends(d, "recall")
  BY Zenon, <1>3, <1>6, <1>9, <1>17 DEF Pends
<1>22. /\ n \in Unheard(d) /\ d.log[n].type \in {"obs", "null_obs"}
       /\ d.log[n].cause = d.pending.id
  BY Zenon, <1>6, <1>10, <1>14, <1>17
<1>23. \A j \in Unheard(d) : j = n \/ (j < n /\ Starts(d.log[j]))
  <2>1. \A j \in u : j < n /\ d.log[j] = log[j]
    BY Zenon, <1>17
  <2>2. \A j \in Unheard(d) : j \in u \/ j = n
    BY Zenon, <1>17
  <2> QED
    BY Zenon, <1>9, <2>1, <2>2
<1>24. Recalled(d, llm', running', Unheard(d), {}, {})
  BY Zenon, <1>20, <1>21, <1>22, <1>23 DEF Recalled
<1>25. Turn(d, llm', running', Unheard(d), After(d.log, rpos', ForRuntime),
            After(d.log, mpos', ForMemory))
  BY Zenon, <1>19, <1>24 DEF Turn
<1> QED
  BY Zenon, <1>17, <1>18, <1>25, TurnKept

----------------------------------------------------------------------------
(* The user.                                                               *)

\* The user sends e, having seen everything and with nothing of theirs unheard.
LEMMA SendsTurn ==
  ASSUME Orderly, ControllerInv, TurnInv, NEW k, MaySend(k), NEW e \in Event, Send(k, e),
         e.type \in ControllerTypes
  PROVE  /\ k = Len(log) /\ status = 0
         /\ \A i \in Unheard(Ctl) : ~(log[i].source = "user" /\ log[i].type \in {"message", "change"})
         /\ UNCHANGED <<controller, counts, llm, running, rpos, mpos, mfail, status>>
         /\ log' = Append(log, e)
<1>1. Patient
  BY Zenon DEF Orderly
<1>2. /\ k = Len(log) /\ status = 0
      /\ \A i \in (cpos + 1)..Len(log) :
           ~(log[i].source = "user" /\ log[i].type \in {"message", "change"})
  BY Zenon, <1>1 DEF MaySend
<1>3. Ctl.log = log /\ Ctl.pos = cpos
  BY Zenon, TurnFacts
<1>4. \A i \in Unheard(Ctl) : i \in (cpos + 1)..Len(log)
  BY Zenon, <1>3 DEF Unheard, After
<1>5. /\ UNCHANGED <<controller, counts, llm, running, rpos, mpos, mfail, status>>
      /\ log' = Append(log, e)
  BY Zenon DEF Send, parties, controller
<1> QED
  BY Zenon, <1>2, <1>4, <1>5

\* A message of the user's: they were told that it is their turn.
LEMMA UserMessageTurn ==
  ASSUME Orderly, ControllerInv, Displays, TurnInv, UserMessage
  PROVE  TurnInv'
<1> DEFINE u == Unheard(Ctl)
           b == Backlog(Ctl)
           m == Recalls(Ctl)
           d == Ctl'
           n == Len(log) + 1
           e == Ev("message", "user", "")
<1>1. PICK k : MaySend(k) /\ Displayed(k) \in MessageStates /\ Send(k, e)
  BY Zenon DEF UserMessage
<1>2. e \in Event /\ e.type = "message" /\ e.source = "user"
  BY Zenon DEF Ev, Event
<1> HIDE DEF e
<1>3. e.type \in ControllerTypes /\ FromUser(e)
  BY Zenon, <1>2 DEF ControllerTypes, FromUser
<1>4. /\ k = Len(log) /\ status = 0
      /\ \A i \in u : ~(log[i].source = "user" /\ log[i].type \in {"message", "change"})
      /\ UNCHANGED <<controller, counts, llm, running, rpos, mpos, mfail, status>>
      /\ log' = Append(log, e)
  BY Zenon, <1>1, <1>2, <1>3, SendsTurn
<1>5. Displayed(Len(log)) \in UsersTurn /\ Displayed(Len(log)) # "LOADING"
  BY Zenon, <1>1, <1>4 DEF Orderly, UsersTurn
<1>6. /\ agent_state \in {"LOADING", Displayed(Len(log))}
      /\ \E i \in DOMAIN log : log[i].type = "state"
  BY Zenon, <1>5 DEF Displays
<1>7. /\ Turn(Ctl, llm, running, u, b, m) /\ mfail = 0 /\ Ctl.log = log /\ Ctl.status = status
      /\ Ctl.state = agent_state /\ rpos \in 0..Len(log) /\ mpos \in 0..Len(log)
  BY Zenon, TurnFacts
<1>8. ~Opens(Ctl, llm, running, u, b, m)
  BY Zenon, <1>6, <1>7 DEF Opens
<1>9. Ctl.state \in UsersTurn \cup {"LOADING"}
  BY Zenon, <1>5, <1>6, <1>7
<1>10. Waits(Ctl, llm, running, u, b, m)
  BY Zenon, <1>7, <1>8, <1>9
  DEF Turn, Recalling, Recalled, Thinks, Acts, Questions, UsersTurn
<1>11. /\ d.log = log' /\ Unheard(d) = u \cup {n} /\ Answered(d)
       /\ n \in DOMAIN d.log /\ d.log[n] = e
       /\ \A j \in DOMAIN log : j \in DOMAIN d.log /\ d.log[j] = log[j]
       /\ \A j \in u : j \in DOMAIN log /\ j < n
       /\ \A p \in 0..Len(log) :
            /\ After(d.log, p, ForRuntime) = After(log, p, ForRuntime)
            /\ After(d.log, p, ForMemory) = After(log, p, ForMemory)
  BY SMT, <1>2, <1>3, <1>4, PartyAdds
<1>12. /\ d.state = Ctl.state /\ d.pending = Ctl.pending /\ d.status = status' /\ llm' = llm
  BY Zenon, <1>4, CtlAlone
<1>13. /\ b = After(log, rpos, ForRuntime) /\ m = After(log, mpos, ForMemory)
  BY Zenon, <1>7 DEF Backlog, Recalls
<1>14. n \in Nat /\ \A j \in u : j \in Nat
  <2>1. DOMAIN log = 1..Len(log) /\ Len(log) \in Nat
    BY TurnFacts
  <2> QED
    BY SMT, <1>11, <2>1
<1>15. mfail' = 0 /\ Ctl' = d
  BY Zenon, <1>4, <1>7
<1> HIDE DEF d, n, u, b, m
<1>16. n <= n /\ \A j \in u : j <= n
  BY SMT, <1>11, <1>14
<1>17. /\ After(d.log, rpos', ForRuntime) = {} /\ After(d.log, mpos', ForMemory) = {}
  BY Zenon, <1>4, <1>7, <1>10, <1>11, <1>13 DEF Waits
<1>18. \A i \in u : d.log[i].type = "obs"
  BY Zenon, <1>4, <1>7, <1>10, <1>11 DEF Waits, FromUser
<1>19. \A i \in Unheard(d) : i <= n /\ (i \in u \/ i = n)
  BY Zenon, <1>11, <1>16
<1>20. d.status = 0 /\ ~(d.status > 0)
  <2>1. d.status = 0
    BY Zenon, <1>4, <1>12
  <2> QED
    BY <2>1
<1>21. \A i \in Unheard(d) :
         \/ d.log[i].type = "obs"
         \/ d.status = 0 /\ FromUser(d.log[i]) /\ \A j \in Unheard(d) : j <= i
  BY Zenon, <1>3, <1>11, <1>18, <1>19, <1>20
<1>22. Waits(d, llm', running', Unheard(d), {}, {})
  BY Zenon, <1>4, <1>10, <1>12, <1>20, <1>21 DEF Waits
<1>23. Turn(d, llm', running', Unheard(d), After(d.log, rpos', ForRuntime),
            After(d.log, mpos', ForMemory))
  BY Zenon, <1>17, <1>22 DEF Turn
<1> QED
  BY Zenon, <1>11, <1>15, <1>23, TurnKept

\* The user's decision: the agent was asking for it.
LEMMA UserDecidesTurn ==
  ASSUME Orderly, ControllerInv, Displays, TurnInv, UserDecides
  PROVE  TurnInv'
<1> DEFINE u == Unheard(Ctl)
           b == Backlog(Ctl)
           m == Recalls(Ctl)
           d == Ctl'
           n == Len(log) + 1
<1>1. PICK k, new :
        /\ new \in {"USER_CONFIRMED", "USER_REJECTED"}
        /\ MaySend(k) /\ Displayed(k) = "AWAITING_USER_CONFIRMATION"
        /\ \E i \in Asking(k) :
             Send(k, [Ev("change", "user", new) EXCEPT !.call = log[i].call])
  BY Zenon DEF UserDecides
<1>2. PICK i \in Asking(k) : Send(k, [Ev("change", "user", new) EXCEPT !.call = log[i].call])
  BY Zenon, <1>1
<1>3. k = Len(log)
  BY Zenon, <1>1 DEF MaySend, Orderly
<1>4. /\ Turn(Ctl, llm, running, u, b, m) /\ mfail = 0 /\ Ctl.log = log /\ Ctl.status = status
      /\ Ctl.state = agent_state /\ rpos \in 0..Len(log) /\ mpos \in 0..Len(log)
      /\ log \in Seq(Event) /\ Len(log) \in Nat
  BY Zenon, TurnFacts
<1>5. log[i].call \in Nat
  <2>1. i \in 1..Len(log)
    BY Zenon, <1>3 DEF Asking
  <2>2. log[i] \in Event
    BY SMT, <1>4, <2>1
  <2> QED
    BY Zenon, <2>2 DEF Event
<1> DEFINE x == log[i].call
           e == [Ev("change", "user", new) EXCEPT !.call = x]
<1> HIDE DEF x
<1>6. e \in Event /\ e.type = "change" /\ e.source = "user" /\ e.arg = new
  <2>1. new \in AgentState
    BY Zenon, <1>1 DEF AgentState
  <2>2. x \in Nat
    BY Zenon, <1>5 DEF x
  <2> QED
    BY Zenon, <2>1, <2>2 DEF Ev, Event
<1>7. Send(k, e)
  BY Zenon, <1>2 DEF x
<1> HIDE DEF e
<1>8. e.type \in ControllerTypes
  BY Zenon, <1>6 DEF ControllerTypes
<1>9. /\ status = 0
      /\ \A j \in u : ~(log[j].source = "user" /\ log[j].type \in {"message", "change"})
      /\ UNCHANGED <<controller, counts, llm, running, rpos, mpos, mfail, status>>
      /\ log' = Append(log, e)
  BY Zenon, <1>1, <1>6, <1>7, <1>8, SendsTurn
<1>10. /\ agent_state \in {"LOADING", "AWAITING_USER_CONFIRMATION"}
       /\ \E j \in DOMAIN log : log[j].type = "state"
  <2>1. Displayed(Len(log)) = "AWAITING_USER_CONFIRMATION"
    BY Zenon, <1>1, <1>3
  <2>2. Displayed(Len(log)) # "LOADING"
    BY Zenon, <2>1
  <2> QED
    BY Zenon, <2>1, <2>2 DEF Displays
<1>11. ~Opens(Ctl, llm, running, u, b, m)
  BY Zenon, <1>4, <1>10 DEF Opens
<1>12. Questions(Ctl, llm, running, u, b, m)
  BY Zenon, <1>4, <1>10, <1>11
  DEF Turn, Waits, Recalling, Recalled, Thinks, Acts, UsersTurn
<1>13. u = {}
  BY Zenon, <1>4, <1>9, <1>12 DEF Questions
<1>14. /\ d.log = log' /\ Unheard(d) = u \cup {n} /\ Answered(d)
       /\ n \in DOMAIN d.log /\ d.log[n] = e
       /\ \A j \in DOMAIN log : j \in DOMAIN d.log /\ d.log[j] = log[j]
       /\ \A p \in 0..Len(log) :
            /\ After(d.log, p, ForRuntime) = After(log, p, ForRuntime)
            /\ After(d.log, p, ForMemory) = After(log, p, ForMemory)
  BY SMT, <1>6, <1>8, <1>9, PartyAdds
<1>15. /\ d.state = Ctl.state /\ d.pending = Ctl.pending /\ d.status = status' /\ llm' = llm
  BY Zenon, <1>9, CtlAlone
<1>16. /\ b = After(log, rpos, ForRuntime) /\ m = After(log, mpos, ForMemory)
  BY Zenon, <1>4 DEF Backlog, Recalls
<1>17. mfail' = 0 /\ Ctl' = d
  BY Zenon, <1>4, <1>9
<1> HIDE DEF d, n, u, b, m
<1>18. Unheard(d) = {n}
  BY Zenon, <1>13, <1>14
<1>19. /\ After(d.log, rpos', ForRuntime) = {} /\ After(d.log, mpos', ForMemory) = {}
  BY Zenon, <1>4, <1>9, <1>12, <1>14, <1>16 DEF Questions
<1>20. Pends(d, "action") /\ d.pending.event.conf = "awaiting"
  BY SMT, <1>4, <1>12, <1>14, <1>15 DEF Questions, Pends
<1>21. Questions(d, llm', running', Unheard(d), {}, {})
  BY Zenon, <1>1, <1>6, <1>9, <1>12, <1>14, <1>15, <1>18, <1>20 DEF Questions
<1>22. Turn(d, llm', running', Unheard(d), After(d.log, rpos', ForRuntime),
            After(d.log, mpos', ForMemory))
  BY Zenon, <1>19, <1>21 DEF Turn
<1> QED
  BY Zenon, <1>14, <1>17, <1>22, TurnKept

----------------------------------------------------------------------------
(* The handlers.                                                           *)

\* _reset without a pending action does nothing.
LEMMA ResetNothing ==
  ASSUME NEW c, Sound(c), c.pending = NoPending
  PROVE  /\ Sound(Reset(c)) /\ Reset(c).log = c.log /\ Reset(c).pos = c.pos
         /\ Reset(c).pending = NoPending
         /\ Reset(c).state = c.state /\ Reset(c).status = c.status
<1>1. Reset(c) = [c EXCEPT !.pending = NoPending]
  BY Zenon DEF Reset
<1>2. LeadsTo(c, Reset(c))
  BY Zenon, ResetSound
<1> QED
  BY Zenon, <1>1, <1>2 DEF LeadsTo, Sound, Controller

\* What is told at the end of a change of state.
LEMMA TellTodo ==
  ASSUME NEW c, Sound(c), Placed(c), Answered(c), NEW new \in AgentState
  PROVE  LET told == Add(c, Ev("state", "environment", new))
             d == [told EXCEPT !.saved = told.flag]
         IN /\ Sound(d) /\ Placed(d) /\ Same(c, d) /\ Answered(d)
            /\ d.log = Append(c.log, Ev("state", "environment", new))
            /\ d.state = c.state /\ d.pending = c.pending /\ d.pos = c.pos
            /\ d.status = c.status
<1> DEFINE e == Ev("state", "environment", new)
           told == Add(c, e)
           d == [told EXCEPT !.saved = told.flag]
<1>1. e \in Event /\ e.type = "state"
  BY Zenon DEF Ev, Event
<1> HIDE DEF e
<1>2. /\ Sound(told) /\ Placed(told) /\ told.log = Append(c.log, e) /\ told.state = c.state
      /\ told.pending = c.pending /\ told.pos = c.pos /\ told.status = c.status
      /\ Same(c, told)
  BY Zenon, <1>1, AddTodo
<1> HIDE DEF told
<1>3. /\ d.log = told.log /\ d.state = told.state /\ d.pending = told.pending
      /\ d.pos = told.pos /\ d.status = told.status
  BY Zenon, <1>2 DEF Sound, Controller
<1>4. LeadsTo(told, d)
  BY Zenon, <1>2, SaveSound
<1> HIDE DEF d
<1>5. Sound(d)
  BY Zenon, <1>4 DEF LeadsTo
<1>6. Same(c, d) /\ Placed(d)
  BY Zenon, <1>2, <1>3, SameTodo, SameOn
<1>7. c.log \in Seq(Event)
  BY Zenon DEF Sound, Controller
<1>8. Answered(d)
  BY Zenon, <1>1, <1>2, <1>3, <1>7, AnsweredAdd
<1> QED
  BY Zenon, <1>2, <1>3, <1>5, <1>6, <1>8 DEF d, told, e

\* set_agent_state_to without a pending action that it would publish or give up.
LEMMA Enters ==
  ASSUME NEW c, Sound(c), Placed(c), Answered(c), NEW new \in AgentState, new # c.state,
         \/ c.pending = NoPending
         \/ new \notin {"STOPPED", "ERROR", "USER_CONFIRMED", "USER_REJECTED"}
  PROVE  LET d == set_agent_state_to(c, new)
         IN /\ Sound(d) /\ Placed(d) /\ Same(c, d) /\ Answered(d)
            /\ d.log = Append(c.log, Ev("state", "environment", new))
            /\ d.state = new /\ d.pending = c.pending /\ d.pos = c.pos
            /\ d.status = c.status
<1> DEFINE entered == [c EXCEPT !.state = new]
           reset == IF new \in {"STOPPED", "ERROR"} THEN Reset(entered) ELSE entered
           raised == IF c.state = "ERROR" /\ new = "RUNNING"
                     THEN [reset EXCEPT !.flag = IncreaseLimit(@), !.resumes = @ + 1]
                     ELSE reset
           told == Add(raised, Ev("state", "environment", new))
           d == [told EXCEPT !.saved = told.flag]
<1>1. /\ LeadsTo(c, entered) /\ entered.state = new /\ entered.pending = c.pending
      /\ entered.log = c.log /\ entered.pos = c.pos /\ entered.status = c.status
  BY Zenon, StateSound
<1>2. Sound(entered)
  BY Zenon, <1>1 DEF LeadsTo
<1> HIDE DEF entered
<1>3. /\ Sound(reset) /\ reset.state = new /\ reset.pending = c.pending
      /\ reset.log = c.log /\ reset.pos = c.pos /\ reset.status = c.status
  BY Zenon, <1>1, <1>2, ResetNothing
<1> HIDE DEF reset
<1>4. /\ Sound(raised) /\ raised.state = new /\ raised.pending = c.pending
      /\ raised.log = c.log /\ raised.pos = c.pos /\ raised.status = c.status
  <2> DEFINE more == [reset EXCEPT !.flag = IncreaseLimit(@), !.resumes = @ + 1]
  <2>1. LeadsTo(reset, more) /\ more.state = new /\ more.pending = c.pending
        /\ more.status = c.status
    BY Zenon, <1>3, RaiseSound
  <2>2. more.log = c.log /\ more.pos = c.pos
    BY Zenon, <1>3 DEF Sound, Controller
  <2>3. Sound(more)
    BY Zenon, <2>1 DEF LeadsTo
  <2> QED
    BY Zenon, <1>3, <2>1, <2>2, <2>3
<1> HIDE DEF raised
<1>5. set_agent_state_to(c, new) = d
  BY Zenon, <1>4 DEF set_agent_state_to, raised, reset, entered
<1>6. Same(c, raised) /\ Placed(raised) /\ Answered(raised)
  BY Zenon, <1>4, SameTodo, AnsweredSame
<1>7. /\ Sound(d) /\ Placed(d) /\ Same(raised, d) /\ Answered(d)
      /\ d.log = Append(raised.log, Ev("state", "environment", new))
      /\ d.state = raised.state /\ d.pending = raised.pending /\ d.pos = raised.pos
      /\ d.status = raised.status
  BY Zenon, <1>4, <1>6, TellTodo
<1> HIDE DEF d
<1>8. Same(c, d)
  BY Zenon, <1>6, <1>7, SameOn
<1> QED
  BY Zenon, <1>4, <1>5, <1>7, <1>8

\* _reset: besides what is unheard there may be the answer it gives.
LEMMA ResetTodo ==
  ASSUME NEW c, Sound(c), Placed(c), Answered(c)
  PROVE  LET d == Reset(c)
         IN /\ Sound(d) /\ Placed(d) /\ Answered(d)
            /\ d.pending = NoPending /\ d.state = c.state /\ d.pos = c.pos
            /\ d.status = c.status
            /\ Backlog(d) = Backlog(c) /\ Recalls(d) = Recalls(c)
            /\ \A i \in Unheard(d) : \/ i \in Unheard(c) /\ d.log[i] = c.log[i]
                                     \/ d.log[i].type = "obs"
<1> DEFINE answered == \E i \in DOMAIN c.log :
             InHistory(c, i) /\ c.log[i].type = "obs" /\ c.log[i].call = c.pending.event.call
           e == [Ev("obs", "agent", "not_executed") EXCEPT
                   !.call = c.pending.event.call, !.cause = c.pending.id]
           told == Add(c, e)
           d == Reset(c)
<1>1. /\ LeadsTo(c, d) /\ d.pending = NoPending /\ d.state = c.state /\ d.status = c.status
  BY Zenon, ResetSound
<1>2. Sound(d) /\ d.pos = c.pos
  BY Zenon, <1>1 DEF LeadsTo
<1>3. NoPending.event.type = "none"
  BY Zenon, BlankPlain
<1>4. c \in Controller /\ c.log \in Seq(Event) /\ c.pending.id \in Nat /\ c.pending.event.call \in Nat
  BY Zenon DEF Sound, Controller, Pending, Event
<1>5. CASE c.pending # NoPending /\ ~answered
  <2>1. d = [told EXCEPT !.pending = NoPending]
    BY Zenon, <1>5 DEF Reset
  <2>2. e \in Event /\ e.type = "obs" /\ e.call = c.pending.event.call
    BY Zenon, <1>4 DEF Ev, Event
  <2>3. e.type # "change" /\ e.type \in ControllerTypes /\ e.type # "action"
    BY Zenon, <2>2 DEF ControllerTypes
  <2> HIDE DEF e
  <2>4. /\ Sound(told) /\ Placed(told) /\ told.log = Append(c.log, e)
        /\ told.pos = c.pos
        /\ Unheard(told) = Unheard(c) \cup {Len(c.log) + 1} /\ Backlog(told) = Backlog(c)
        /\ Recalls(told) = Recalls(c)
    BY Zenon, <2>2, <2>3, AddTodo
  <2> HIDE DEF told
  <2>5. d.log = told.log /\ d.pos = told.pos
    BY Zenon, <2>1, <2>4 DEF Sound, Controller
  <2> HIDE DEF d, answered
  <2>6. Same(told, d) /\ Placed(d)
    BY Zenon, <2>4, <2>5, SameTodo
  <2>7. /\ d.log = Append(c.log, e) /\ Len(c.log) + 1 \in DOMAIN d.log
        /\ d.log[Len(c.log) + 1] = e
        /\ \A i \in DOMAIN c.log : d.log[i] = c.log[i]
    <3>1. Len(c.log) + 1 \in DOMAIN Append(c.log, e)
      BY <1>4, <2>2
    <3>2. Append(c.log, e)[Len(c.log) + 1] = e
      BY Zenon, <1>4, <2>2, AppendFacts
    <3>3. \A i \in DOMAIN c.log : Append(c.log, e)[i] = c.log[i]
      BY Zenon, <1>4, <2>2, AppendPlaces
    <3> QED
      BY Zenon, <2>4, <2>5, <3>1, <3>2, <3>3
  <2>8. Answered(d)
    <3>1. \E j \in DOMAIN d.log : d.log[j].type = "obs" /\ d.log[j].call = c.pending.event.call
      BY Zenon, <2>2, <2>7
    <3>2. d.log = Append(c.log, e)
      BY Zenon, <2>7
    <3> QED
      BY Zenon, <1>4, <2>2, <2>3, <3>1, <3>2, AnsweredAdd
  <2>9. \A i \in Unheard(d) : \/ i \in Unheard(c) /\ d.log[i] = c.log[i]
                              \/ d.log[i].type = "obs"
    <3>1. \A i \in Unheard(d) : i \in Unheard(c) \/ i = Len(c.log) + 1
      BY Zenon, <2>4, <2>6 DEF Same
    <3>2. \A i \in Unheard(c) : i \in DOMAIN c.log
      BY Zenon, UnheardPlaces
    <3> QED
      BY Zenon, <2>2, <2>7, <3>1, <3>2
  <2> QED
    BY Zenon, <1>1, <1>2, <2>4, <2>6, <2>8, <2>9 DEF Same, d
<1>6. CASE ~(c.pending # NoPending /\ ~answered)
  <2>1. d = [c EXCEPT !.pending = NoPending]
    BY Zenon, <1>6 DEF Reset
  <2>2. d.log = c.log
    BY Zenon, <1>4, <2>1 DEF Controller
  <2> HIDE DEF d
  <2>3. Same(c, d) /\ Placed(d)
    BY Zenon, <1>2, <2>2, SameTodo
  <2>4. Answered(d)
    <3>1. c.pending.event.type = "action" =>
            \E j \in DOMAIN c.log : c.log[j].type = "obs" /\ c.log[j].call = c.pending.event.call
      BY Zenon, <1>3, <1>6
    <3> HIDE DEF answered
    <3> QED
      BY Zenon, <2>2, <3>1, AnsweredSame
  <2> QED
    BY Zenon, <1>1, <1>2, <2>2, <2>3, <2>4 DEF Same, d
<1> QED
  BY Zenon, <1>5, <1>6

\* An error gives up the pending action.
LEMMA Fails ==
  ASSUME NEW c, Sound(c), Placed(c), Answered(c), c.state # "ERROR"
  PROVE  LET d == set_agent_state_to(c, "ERROR")
         IN /\ Sound(d) /\ Placed(d) /\ Answered(d)
            /\ d.pending = NoPending /\ d.state = "ERROR" /\ d.pos = c.pos
            /\ d.status = c.status
            /\ Backlog(d) = Backlog(c) /\ Recalls(d) = Recalls(c)
            /\ \A i \in Unheard(d) : \/ i \in Unheard(c) /\ d.log[i] = c.log[i]
                                     \/ d.log[i].type = "obs"
<1> DEFINE entered == [c EXCEPT !.state = "ERROR"]
           reset == Reset(entered)
           st == Ev("state", "environment", "ERROR")
           told == Add(reset, st)
           d == [told EXCEPT !.saved = told.flag]
<1>0. "ERROR" \in AgentState
  BY Zenon DEF AgentState
<1>1. /\ LeadsTo(c, entered) /\ entered.state = "ERROR" /\ entered.pending = c.pending
      /\ entered.log = c.log /\ entered.pos = c.pos /\ entered.status = c.status
  BY Zenon, <1>0, StateSound
<1>2. Sound(entered)
  BY Zenon, <1>1 DEF LeadsTo
<1> HIDE DEF entered
<1>3. Same(c, entered) /\ Placed(entered) /\ Answered(entered)
  BY Zenon, <1>1, SameTodo, AnsweredSame
<1>4. /\ Sound(reset) /\ Placed(reset) /\ Answered(reset)
      /\ reset.pending = NoPending /\ reset.state = entered.state /\ reset.pos = entered.pos
      /\ reset.status = entered.status
      /\ Backlog(reset) = Backlog(entered) /\ Recalls(reset) = Recalls(entered)
      /\ \A i \in Unheard(reset) : \/ i \in Unheard(entered) /\ reset.log[i] = entered.log[i]
                                   \/ reset.log[i].type = "obs"
  BY Zenon, <1>2, <1>3, ResetTodo
<1> HIDE DEF reset
<1>5. set_agent_state_to(c, "ERROR") = d
  BY Zenon, <1>4 DEF set_agent_state_to, reset, entered
<1>6. /\ Sound(d) /\ Placed(d) /\ Same(reset, d) /\ Answered(d)
      /\ d.log = Append(reset.log, st)
      /\ d.state = reset.state /\ d.pending = reset.pending /\ d.pos = reset.pos
      /\ d.status = reset.status
  BY Zenon, <1>0, <1>4, TellTodo
<1>7. st \in Event /\ reset.log \in Seq(Event)
  BY Zenon, <1>0, <1>4 DEF Ev, Event, Sound, Controller
<1> HIDE DEF d, st
<1>8. \A i \in DOMAIN reset.log : d.log[i] = reset.log[i]
  BY SMT, <1>6, <1>7, AppendPlaces
<1>9. \A i \in Unheard(d) : i \in DOMAIN reset.log /\ i \in Unheard(reset)
  BY Zenon, <1>4, <1>6, UnheardPlaces DEF Same
<1> QED
  BY Zenon, <1>1, <1>3, <1>4, <1>5, <1>6, <1>8, <1>9 DEF Same

\* The user decides on the pending action: it is published again.
LEMMA Decides ==
  ASSUME NEW c, Sound(c), Placed(c), Answered(c), c.pending # NoPending,
         c.pending.event.type = "action", NEW new \in {"USER_CONFIRMED", "USER_REJECTED"},
         c.state # new
  PROVE  LET d == set_agent_state_to(c, new)
         IN /\ Sound(d) /\ Placed(d) /\ Answered(d)
            /\ Pends(d, "action") /\ d.pending.event.conf # "awaiting"
            /\ d.state = new /\ d.pos = c.pos /\ d.status = c.status
            /\ Unheard(d) = Unheard(c) /\ Backlog(d) = Backlog(c) \cup {d.pending.id}
            /\ Recalls(d) = Recalls(c)
<1> DEFINE entered == [c EXCEPT !.state = new]
           conf == IF new = "USER_CONFIRMED" THEN "confirmed" ELSE "rejected"
           e == [c.pending.event EXCEPT !.conf = conf, !.source = "agent"]
           t == Add(entered, e)
           p == [id |-> Len(entered.log) + 1, event |-> e]
           decided == [t EXCEPT !.pending = p]
           st == Ev("state", "environment", new)
           told == Add(decided, st)
           d == [told EXCEPT !.saved = told.flag]
<1>0. new \in AgentState /\ new \notin {"STOPPED", "ERROR", "RUNNING"}
  BY Zenon DEF AgentState
<1>1. /\ LeadsTo(c, entered) /\ entered.state = new /\ entered.pending = c.pending
      /\ entered.log = c.log /\ entered.pos = c.pos /\ entered.status = c.status
  BY Zenon, <1>0, StateSound
<1>2. Sound(entered)
  BY Zenon, <1>1 DEF LeadsTo
<1> HIDE DEF entered
<1>3. Same(c, entered) /\ Placed(entered) /\ Answered(entered)
  BY Zenon, <1>1, SameTodo, AnsweredSame
<1>4. c.pending.event \in Event /\ conf \in {"confirmed", "rejected"}
  BY Zenon DEF Sound, Controller, Pending
<1> HIDE DEF conf
<1>5. /\ e \in Event /\ e.type = c.pending.event.type /\ e.conf = conf
      /\ e.call = c.pending.event.call
  BY ZenonT(60), <1>4 DEF Event
<1> HIDE DEF e
<1>6. e.type = "action" /\ e.conf # "awaiting" /\ e.type # "change"
  BY Zenon, <1>4, <1>5
<1>7. /\ Sound(t) /\ Placed(t) /\ t.log = Append(entered.log, e) /\ t.state = new
      /\ t.pos = c.pos /\ t.status = c.status
      /\ Unheard(t) = Unheard(entered) /\ Recalls(t) = Recalls(entered)
      /\ Backlog(t) = Backlog(entered) \cup {Len(entered.log) + 1}
  BY Zenon, <1>1, <1>2, <1>3, <1>5, <1>6, AddTodo
<1> HIDE DEF t
<1>8. Len(entered.log) + 1 \in Nat /\ entered.log \in Seq(Event)
  BY <1>2 DEF Sound, Controller
<1>9. p \in Pending /\ p.event = e /\ p.id = Len(entered.log) + 1
  BY Zenon, <1>5, <1>8 DEF Pending
<1> HIDE DEF p
<1>10. /\ LeadsTo(t, decided) /\ decided.pending = p /\ decided.state = t.state
       /\ decided.log = t.log /\ decided.pos = t.pos /\ decided.status = t.status
  BY SMT, <1>6, <1>7, <1>9, PendingSound
<1>11. Sound(decided)
  BY Zenon, <1>10 DEF LeadsTo
<1>12. set_agent_state_to(c, new) = d
  <2>1. entered.pending # NoPending
    BY Zenon, <1>1
  <2>2. CASE new = "USER_CONFIRMED"
    <3>1. decided = Decide(entered, "confirmed")
      BY Zenon, <2>2, <1>1 DEF Decide, t, p, e, conf
    <3> QED
      BY Zenon, <2>1, <2>2, <3>1, <1>0 DEF set_agent_state_to, entered
  <2>3. CASE new = "USER_REJECTED"
    <3>1. decided = Decide(entered, "rejected")
      BY Zenon, <2>3, <1>1 DEF Decide, t, p, e, conf
    <3> QED
      BY Zenon, <2>1, <2>3, <3>1, <1>0 DEF set_agent_state_to, entered
  <2> QED
    BY Zenon, <2>2, <2>3
<1> HIDE DEF decided
<1>13. Same(t, decided) /\ Placed(decided)
  BY Zenon, <1>7, <1>10, SameTodo
<1>14. decided.log = Append(entered.log, e)
  BY Zenon, <1>7, <1>10
<1>15. Answered(decided)
  <2>1. decided.pending.event.type = "action" /\ decided.pending.event.call = e.call
        /\ entered.pending.event.call = e.call
    BY Zenon, <1>1, <1>5, <1>6, <1>9, <1>10
  <2> QED
    BY Zenon, <1>3, <1>5, <1>8, <1>14, <2>1, AnsweredAdd
<1>16. /\ Sound(d) /\ Placed(d) /\ Same(decided, d) /\ Answered(d)
       /\ d.log = Append(decided.log, st)
       /\ d.state = decided.state /\ d.pending = decided.pending /\ d.pos = decided.pos
       /\ d.status = decided.status
  BY Zenon, <1>0, <1>11, <1>13, <1>15, TellTodo
<1>17. st \in Event /\ decided.log \in Seq(Event)
  BY Zenon, <1>0, <1>11 DEF Ev, Event, Sound, Controller
<1> HIDE DEF d, st
<1>18. Len(entered.log) + 1 \in DOMAIN Append(entered.log, e)
  BY <1>5, <1>8
<1>19. p.id \in DOMAIN decided.log /\ decided.log[p.id] = e
  <2>1. Append(entered.log, e)[Len(entered.log) + 1] = e
    BY Zenon, <1>5, <1>8, AppendFacts
  <2> QED
    BY Zenon, <1>9, <1>14, <1>18, <2>1
<1>20. p.id \in DOMAIN d.log /\ d.log[p.id] = e
  BY Zenon, <1>16, <1>17, <1>19, AppendPlaces
<1>21. Pends(d, "action")
  BY Zenon, <1>6, <1>9, <1>10, <1>16, <1>20 DEF Pends
<1>22. Unheard(d) = Unheard(c) /\ Recalls(d) = Recalls(c)
       /\ Backlog(d) = Backlog(c) \cup {d.pending.id}
  BY Zenon, <1>3, <1>7, <1>9, <1>10, <1>13, <1>16 DEF Same
<1> QED
  BY Zenon, <1>6, <1>7, <1>9, <1>10, <1>12, <1>16, <1>21, <1>22

\* A user's message sends a recall to the memory.
LEMMA AsksMemory ==
  ASSUME NEW c, Sound(c), Placed(c), Answered(c), c.pending = NoPending,
         c.state # "RUNNING", NEW e, e.source = "user", NEW i
  PROVE  LET d == HandleMessage(c, e, i)
         IN /\ Sound(d) /\ Placed(d) /\ Answered(d)
            /\ Pends(d, "recall") /\ d.pending.event.source = "user"
            /\ d.state = "RUNNING" /\ d.pos = c.pos /\ d.status = c.status
            /\ Unheard(d) = Unheard(c) /\ Backlog(d) = Backlog(c)
            /\ Recalls(d) = Recalls(c) \cup {d.pending.id}
            /\ \A j \in DOMAIN c.log : d.log[j] = c.log[j]
<1> DEFINE first == \A j \in 1..(i - 1) : ~(c.log[j].type = "message" /\ c.log[j].source = "user")
           recall == Ev("recall", "user", IF first THEN "workspace" ELSE "knowledge")
           p == [id |-> Len(c.log) + 1, event |-> recall]
           t == Add(c, recall)
           asked == [t EXCEPT !.pending = p]
           d == set_agent_state_to(asked, "RUNNING")
<1>1. HandleMessage(c, e, i) = d
  BY Zenon DEF HandleMessage
<1>2. recall \in Event /\ recall.type = "recall" /\ recall.source = "user"
  <2> HIDE DEF first
  <2> QED
    BY Zenon DEF Ev, Event
<1> HIDE DEF recall
<1>3. recall.type # "change" /\ recall.type # "action"
  BY Zenon, <1>2
<1>4. /\ Sound(t) /\ Placed(t) /\ t.log = Append(c.log, recall) /\ t.state = c.state
      /\ t.pos = c.pos /\ t.status = c.status
      /\ Unheard(t) = Unheard(c) /\ Backlog(t) = Backlog(c)
      /\ Recalls(t) = Recalls(c) \cup {Len(c.log) + 1}
  BY Zenon, <1>2, <1>3, AddTodo
<1> HIDE DEF t
<1>5. Len(c.log) + 1 \in Nat /\ c.log \in Seq(Event)
  BY DEF Sound, Controller
<1>6. p \in Pending /\ p.event = recall /\ p.id = Len(c.log) + 1
  BY Zenon, <1>2, <1>5 DEF Pending
<1> HIDE DEF p
<1>7. /\ LeadsTo(t, asked) /\ asked.pending = p /\ asked.state = t.state
      /\ asked.log = t.log /\ asked.pos = t.pos /\ asked.status = t.status
  BY Zenon, <1>3, <1>4, <1>6, PendingSound
<1>8. Sound(asked)
  BY Zenon, <1>7 DEF LeadsTo
<1> HIDE DEF asked
<1>9. Same(t, asked) /\ Placed(asked)
  BY Zenon, <1>4, <1>7, SameTodo
<1>10. asked.log = Append(c.log, recall) /\ c.pending.event.type # "action"
  BY Zenon, <1>4, <1>7, BlankPlain
<1>11. Answered(asked)
  BY Zenon, <1>2, <1>3, <1>5, <1>10, AnsweredAdd
<1>12. "RUNNING" \in AgentState
       /\ "RUNNING" \notin {"STOPPED", "ERROR", "USER_CONFIRMED", "USER_REJECTED"}
  BY Zenon DEF AgentState
<1> DEFINE st == Ev("state", "environment", "RUNNING")
<1>13. /\ Sound(d) /\ Placed(d) /\ Same(asked, d) /\ Answered(d)
       /\ d.log = Append(asked.log, st)
       /\ d.state = "RUNNING" /\ d.pending = asked.pending /\ d.pos = asked.pos
       /\ d.status = asked.status
  BY Zenon, <1>4, <1>7, <1>8, <1>9, <1>11, <1>12, Enters
<1>14. st \in Event /\ asked.log \in Seq(Event)
  BY Zenon, <1>8, <1>12 DEF Ev, Event, Sound, Controller
<1> HIDE DEF d, st
<1>15. Len(c.log) + 1 \in DOMAIN Append(c.log, recall)
  BY <1>2, <1>5
<1>16. p.id \in DOMAIN asked.log /\ asked.log[p.id] = recall
  <2>1. Append(c.log, recall)[Len(c.log) + 1] = recall
    BY Zenon, <1>2, <1>5, AppendFacts
  <2> QED
    BY Zenon, <1>6, <1>10, <1>15, <2>1
<1>17. p.id \in DOMAIN d.log /\ d.log[p.id] = recall
  BY Zenon, <1>13, <1>14, <1>16, AppendPlaces
<1>18. Pends(d, "recall") /\ d.pending.event.source = "user"
  BY Zenon, <1>2, <1>6, <1>7, <1>13, <1>17 DEF Pends
<1>19. /\ Unheard(d) = Unheard(c) /\ Backlog(d) = Backlog(c)
       /\ Recalls(d) = Recalls(c) \cup {d.pending.id}
  BY Zenon, <1>4, <1>6, <1>7, <1>9, <1>13 DEF Same
<1>20. \A j \in DOMAIN c.log : j \in DOMAIN asked.log /\ asked.log[j] = c.log[j]
  BY Zenon, <1>2, <1>5, <1>10, AppendPlaces
<1>21. \A j \in DOMAIN asked.log : d.log[j] = asked.log[j]
  BY Zenon, <1>13, <1>14, AppendPlaces
<1> QED
  BY Zenon, <1>1, <1>4, <1>7, <1>13, <1>18, <1>19, <1>20, <1>21

\* The pending action is answered and its place is free.
LEMMA FreeTodo ==
  ASSUME NEW c, Sound(c), Placed(c), Answered(c),
         c.pending.event.type = "action" =>
           \E j \in DOMAIN c.log :
             c.log[j].type = "obs" /\ c.log[j].call = c.pending.event.call
  PROVE  LET d == [c EXCEPT !.pending = NoPending]
         IN /\ Sound(d) /\ Placed(d) /\ Answered(d) /\ Same(c, d)
            /\ d.pending = NoPending /\ d.state = c.state /\ d.status = c.status
<1> DEFINE d == [c EXCEPT !.pending = NoPending]
<1>1. /\ LeadsTo(c, d) /\ d.pending = NoPending /\ d.state = c.state
      /\ d.log = c.log /\ d.pos = c.pos /\ d.status = c.status
  BY Zenon, BlankFacts, PendingSound
<1> HIDE DEF d
<1>2. Sound(d)
  BY Zenon, <1>1 DEF LeadsTo
<1>3. Same(c, d) /\ Placed(d)
  BY Zenon, <1>1, SameTodo
<1>4. Answered(d)
  BY Zenon, <1>1, AnsweredSame
<1> QED
  BY Zenon, <1>1, <1>2, <1>3, <1>4 DEF d

\* What the answer to the pending action leads to.
LEMMA HearsAnswer ==
  ASSUME NEW c, Sound(c), Placed(c), Answered(c),
         c.state \in {"RUNNING", "USER_CONFIRMED", "USER_REJECTED"}, c.pending # NoPending,
         NEW e, e.type \in {"obs", "null_obs"}, e.cause = c.pending.id, NEW i,
         c.pending.event.type = "action" =>
           \E j \in DOMAIN c.log :
             c.log[j].type = "obs" /\ c.log[j].call = c.pending.event.call,
         running = 0, Unheard(c) = {}, Backlog(c) = {}, Recalls(c) = {}, c.status = 0
  PROVE  Heard(Handle(c, e, i), e)
<1> DEFINE free == [c EXCEPT !.pending = NoPending]
           d == Handle(c, e, i)
<1>1. d = HandleObservation(c, e) /\ should_step(d, e)
  BY Zenon DEF Handle, should_step
<1>2. d = CASE c.state = "USER_CONFIRMED" -> set_agent_state_to(free, "RUNNING")
            [] c.state = "USER_REJECTED" -> set_agent_state_to(free, "AWAITING_USER_INPUT")
            [] OTHER -> free
  BY Zenon, <1>1 DEF HandleObservation
<1>3. /\ Sound(free) /\ Placed(free) /\ Answered(free) /\ Same(c, free)
      /\ free.pending = NoPending /\ free.state = c.state /\ free.status = c.status
  BY Zenon, FreeTodo
<1> HIDE DEF free, d
<1>4. /\ Unheard(free) = {} /\ Backlog(free) = {} /\ Recalls(free) = {} /\ free.status = 0
  BY Zenon, <1>3 DEF Same
<1>5. CASE c.state = "RUNNING"
  <2>1. d = free /\ free.state = "RUNNING"
    BY Zenon, <1>2, <1>3, <1>5
  <2>2. Ready(d, running, Unheard(d), Backlog(d), Recalls(d))
    BY Zenon, <1>3, <1>4, <2>1 DEF Ready
  <2>3. Sound(d) /\ Placed(d) /\ Answered(d) /\ d.pending = NoPending /\ d.state = "RUNNING"
    BY Zenon, <1>3, <2>1
  <2> QED
    BY Zenon, <1>1, <2>2, <2>3 DEF Heard, d
<1>6. CASE c.state = "USER_CONFIRMED"
  <2> DEFINE h == set_agent_state_to(free, "RUNNING")
  <2>1. d = h /\ "RUNNING" # free.state /\ "RUNNING" \in AgentState
    BY Zenon, <1>2, <1>3, <1>6 DEF AgentState
  <2>2. /\ Sound(h) /\ Placed(h) /\ Same(free, h) /\ Answered(h)
        /\ h.state = "RUNNING" /\ h.pending = free.pending /\ h.status = free.status
    BY Zenon, <1>3, <2>1, Enters
  <2> HIDE DEF h
  <2>3. Ready(h, running, Unheard(h), Backlog(h), Recalls(h))
    BY Zenon, <1>3, <1>4, <2>2 DEF Ready, Same
  <2> QED
    BY Zenon, <1>1, <1>3, <2>1, <2>2, <2>3 DEF Heard, d
<1>7. CASE c.state = "USER_REJECTED"
  <2> DEFINE h == set_agent_state_to(free, "AWAITING_USER_INPUT")
  <2>1. d = h /\ "AWAITING_USER_INPUT" # free.state /\ "AWAITING_USER_INPUT" \in AgentState
    BY Zenon, <1>2, <1>3, <1>7 DEF AgentState
  <2>2. /\ Sound(h) /\ Placed(h) /\ Same(free, h) /\ Answered(h)
        /\ h.state = "AWAITING_USER_INPUT" /\ h.pending = free.pending
        /\ h.status = free.status
    BY Zenon, <1>3, <2>1, Enters
  <2> HIDE DEF h
  <2>3. ~(h.status > 0)
    BY <1>4, <2>2
  <2>4. Waits(h, "idle", running, Unheard(h), Backlog(h), Recalls(h))
    BY Zenon, <1>3, <1>4, <2>2, <2>3 DEF Waits, Same, UsersTurn
  <2> QED
    BY Zenon, <2>1, <2>2, <2>4 DEF Heard, Turn, d
<1> QED
  BY Zenon, <1>5, <1>6, <1>7

\* The turn ends.
LEMMA Rests ==
  ASSUME NEW c, Sound(c), Placed(c), Answered(c), c.pending = NoPending,
         running = 0, Unheard(c) = {}, Backlog(c) = {}, Recalls(c) = {},
         NEW new \in UsersTurn, new # c.state, c.status = 0 \/ new = "ERROR"
  PROVE  LET d == set_agent_state_to(c, new)
         IN /\ Sound(d) /\ Placed(d) /\ Answered(d) /\ d.state = new
            /\ Waits(d, "idle", running, Unheard(d), Backlog(d), Recalls(d))
<1> DEFINE d == set_agent_state_to(c, new)
<1>1. new \in AgentState
  BY Zenon DEF UsersTurn, AgentState
<1>2. /\ Sound(d) /\ Placed(d) /\ Same(c, d) /\ Answered(d)
      /\ d.state = new /\ d.pending = c.pending /\ d.status = c.status
  BY Zenon, <1>1, Enters
<1> HIDE DEF d
<1>3. d.status > 0 => new = "ERROR"
  BY <1>2
<1>4. Waits(d, "idle", running, Unheard(d), Backlog(d), Recalls(d))
  BY Zenon, <1>2, <1>3 DEF Waits, Same
<1> QED
  BY Zenon, <1>2, <1>4 DEF d

----------------------------------------------------------------------------
(* The controller hears what is next, phase by phase.                      *)

\* The turn is the user's.
LEMMA HearWaits ==
  ASSUME NEW c, NEW u, NEW i, Took(c, u, i),
         Waits(c, "idle", running, u, Backlog(c), Recalls(c))
  PROVE  Heard(Handle(c, c.log[i], i), c.log[i])
<1> DEFINE e == c.log[i]
           d == Handle(c, e, i)
<1>1. /\ Sound(c) /\ Placed(c) /\ Answered(c)
      /\ i \in u /\ Unheard(c) = u \ {i} /\ \A j \in u : j \in Nat /\ i <= j
  BY Zenon DEF Took
<1>2. /\ c.state \in UsersTurn /\ c.pending = NoPending
      /\ running = 0 /\ Backlog(c) = {} /\ Recalls(c) = {}
      /\ \A j \in u : \/ c.log[j].type = "obs"
                      \/ c.status = 0 /\ FromUser(c.log[j]) /\ \A k \in u : k <= j
      /\ c.status > 0 => c.state = "ERROR"
  BY Zenon DEF Waits
<1>3. c.state # "RUNNING"
  BY Zenon, <1>2 DEF UsersTurn
<1>4. CASE e.type = "obs"
  <2>1. d = c
    BY Zenon, <1>2, <1>4 DEF Handle, HandleObservation
  <2>2. Waits(c, "idle", running, Unheard(c), Backlog(c), Recalls(c))
    BY Zenon, <1>1, <1>2 DEF Waits
  <2> QED
    BY Zenon, <1>1, <1>3, <2>1, <2>2 DEF Heard, Turn
<1>5. CASE c.status = 0 /\ FromUser(e) /\ \A k \in u : k <= i
  <2> DEFINE h == HandleMessage(c, e, i)
  <2>1. \A j \in u : j = i
    BY <1>1, <1>5
  <2>2. Unheard(c) = {}
    BY Zenon, <1>1, <2>1
  <2>3. d = h
    BY Zenon, <1>5 DEF Handle, FromUser
  <2>10. e.source = "user"
    BY Zenon, <1>5 DEF FromUser
  <2>11. /\ Sound(c) /\ Placed(c) /\ Answered(c) /\ c.pending = NoPending
         /\ c.state # "RUNNING"
    BY Zenon, <1>1, <1>2, <1>3
  <2> HIDE DEF d, e
  <2>4. /\ Sound(h) /\ Placed(h) /\ Answered(h)
        /\ Pends(h, "recall") /\ h.pending.event.source = "user"
        /\ h.state = "RUNNING" /\ h.status = c.status
        /\ Unheard(h) = Unheard(c) /\ Backlog(h) = Backlog(c)
        /\ Recalls(h) = Recalls(c) \cup {h.pending.id}
    BY SMT, <2>10, <2>11, AsksMemory
  <2> HIDE DEF h, d
  <2>5. Recalls(h) = {h.pending.id} /\ h.status = 0
    BY <1>2, <1>5, <2>4
  <2>6. Recalling(h, "idle", running, Unheard(h), Backlog(h), Recalls(h))
    BY Zenon, <1>2, <2>2, <2>4, <2>5 DEF Recalling
  <2>7. h.pending # NoPending
    BY Zenon, <2>4, BlankPlain DEF Pends
  <2> QED
    BY Zenon, <2>3, <2>4, <2>6, <2>7 DEF Heard, Turn, d, e
<1> QED
  BY Zenon, <1>1, <1>2, <1>4, <1>5

\* The first events of a conversation.
LEMMA HearOpens ==
  ASSUME NEW c, NEW u, NEW i, Took(c, u, i),
         Opens(c, "idle", running, u, Backlog(c), Recalls(c))
  PROVE  Heard(Handle(c, c.log[i], i), c.log[i])
<1> DEFINE e == c.log[i]
           d == Handle(c, e, i)
<1>1. /\ Sound(c) /\ Placed(c) /\ Answered(c)
      /\ i \in u /\ Unheard(c) = u \ {i} /\ \A j \in u : j \in Nat /\ i <= j
  BY Zenon DEF Took
<1>2. /\ c.state = "LOADING" /\ c.pending = NoPending
      /\ running = 0 /\ Backlog(c) = {} /\ Recalls(c) = {} /\ c.status = 0
      /\ \/ u = {1} /\ c.log[1].type = "change" /\ c.log[1].arg = "AWAITING_USER_INPUT"
         \/ u = {1, 2} /\ FromUser(c.log[1]) /\ Starts(c.log[2])
  BY Zenon DEF Opens
<1>3. CASE u = {1} /\ c.log[1].type = "change" /\ c.log[1].arg = "AWAITING_USER_INPUT"
  <2> DEFINE h == set_agent_state_to(c, "AWAITING_USER_INPUT")
  <2>1. i = 1 /\ Unheard(c) = {}
    BY Zenon, <1>1, <1>3
  <2>2. d = h /\ e.type = "change"
    BY Zenon, <1>3, <2>1 DEF Handle
  <2>3. "AWAITING_USER_INPUT" \in AgentState
       /\ "AWAITING_USER_INPUT" # c.state
    BY Zenon, <1>2 DEF AgentState
  <2>4. /\ Sound(h) /\ Placed(h) /\ Same(c, h) /\ Answered(h)
        /\ h.state = "AWAITING_USER_INPUT" /\ h.pending = c.pending
        /\ h.status = c.status
    BY Zenon, <1>1, <1>2, <2>3, Enters
  <2> HIDE DEF h, d
  <2>5. ~(h.status > 0)
    BY <1>2, <2>4
  <2>6. Waits(h, "idle", running, Unheard(h), Backlog(h), Recalls(h))
    BY Zenon, <1>2, <2>1, <2>4, <2>5 DEF Waits, Same, UsersTurn
  <2> QED
    BY Zenon, <2>2, <2>4, <2>6 DEF Heard, Turn, should_step, d
<1>4. CASE u = {1, 2} /\ FromUser(c.log[1]) /\ Starts(c.log[2])
  <2> DEFINE h == HandleMessage(c, e, i)
  <2>1. i = 1
    BY <1>1, <1>4
  <2>2. Unheard(c) = {2}
    BY <1>1, <1>4, <2>1
  <2>3. d = h
    BY Zenon, <1>4, <2>1 DEF Handle, FromUser
  <2>10. e.source = "user"
    BY Zenon, <1>4, <2>1 DEF FromUser
  <2>11. /\ Sound(c) /\ Placed(c) /\ Answered(c) /\ c.pending = NoPending
         /\ c.state # "RUNNING"
    BY Zenon, <1>1, <1>2
  <2> HIDE DEF d, e
  <2>4. /\ Sound(h) /\ Placed(h) /\ Answered(h)
        /\ Pends(h, "recall") /\ h.pending.event.source = "user"
        /\ h.state = "RUNNING" /\ h.status = c.status
        /\ Unheard(h) = Unheard(c) /\ Backlog(h) = Backlog(c)
        /\ Recalls(h) = Recalls(c) \cup {h.pending.id}
        /\ \A j \in DOMAIN c.log : h.log[j] = c.log[j]
    BY SMT, <2>10, <2>11, AsksMemory
  <2> HIDE DEF h, d
  <2>5. 2 \in DOMAIN c.log
    BY Zenon, <1>1, <2>2, UnheardPlaces
  <2>6. Recalls(h) = {h.pending.id}
    BY <1>2, <2>4
  <2>7. Recalling(h, "idle", running, Unheard(h), Backlog(h), Recalls(h))
    BY Zenon, <1>2, <1>4, <2>2, <2>4, <2>5, <2>6 DEF Recalling
  <2>8. h.pending # NoPending
    BY Zenon, <2>4, BlankPlain DEF Pends
  <2> QED
    BY Zenon, <2>3, <2>4, <2>7, <2>8 DEF Heard, Turn, d, e
<1> QED
  BY Zenon, <1>2, <1>3, <1>4

\* The second event of a conversation, when the first one has set the agent to work.
LEMMA StartsNothing ==
  ASSUME NEW c, NEW e, NEW i, c.state = "RUNNING", Starts(e)
  PROVE  Handle(c, e, i) = c /\ ~should_step(c, e)
<1>1. Handle(c, e, i) = set_agent_state_to(c, "RUNNING")
  BY Zenon DEF Handle, Starts
<1> QED
  BY Zenon, <1>1 DEF set_agent_state_to, should_step, Starts

\* The memory has not answered yet.
LEMMA HearRecalling ==
  ASSUME NEW c, NEW u, NEW i, Took(c, u, i),
         Recalling(c, "idle", running, u, Backlog(c), Recalls(c))
  PROVE  Heard(Handle(c, c.log[i], i), c.log[i])
<1>1. Starts(c.log[i]) /\ c.state = "RUNNING" /\ Unheard(c) = u \ {i}
  BY Zenon DEF Took, Recalling
<1>2. Handle(c, c.log[i], i) = c /\ ~should_step(c, c.log[i])
  BY Zenon, <1>1, StartsNothing
<1>3. Recalling(c, "idle", running, Unheard(c), Backlog(c), Recalls(c))
  BY Zenon, <1>1 DEF Recalling
<1> QED
  BY Zenon, <1>2, <1>3 DEF Heard, Turn, Took

\* The memory has answered.
LEMMA HearRecalled ==
  ASSUME NEW c, NEW u, NEW i, Took(c, u, i),
         Recalled(c, "idle", running, u, Backlog(c), Recalls(c))
  PROVE  Heard(Handle(c, c.log[i], i), c.log[i])
<1>1. /\ Sound(c) /\ Placed(c) /\ Answered(c)
      /\ i \in u /\ Unheard(c) = u \ {i} /\ \A j \in u : j \in Nat /\ i <= j
  BY Zenon DEF Took
<1>2. /\ c.state = "RUNNING" /\ Pends(c, "recall")
      /\ running = 0 /\ Backlog(c) = {} /\ Recalls(c) = {} /\ c.status = 0
  BY Zenon DEF Recalled
<1>3. PICK k \in u : /\ c.log[k].type \in {"obs", "null_obs"} /\ c.log[k].cause = c.pending.id
                     /\ \A j \in u : j = k \/ (j < k /\ Starts(c.log[j]))
  BY Zenon DEF Recalled
<1>4. CASE i = k
  <2>1. \A j \in u : ~(j < k)
    BY <1>1, <1>4
  <2>2. \A j \in u : j = i
    BY Zenon, <1>3, <1>4, <2>1
  <2>3. Unheard(c) = {}
    BY Zenon, <1>1, <2>2
  <2>4. c.pending # NoPending /\ c.pending.event.type # "action"
    BY Zenon, <1>2, BlankPlain DEF Pends
  <2>5. c.log[i].type \in {"obs", "null_obs"} /\ c.log[i].cause = c.pending.id
    BY Zenon, <1>3, <1>4
  <2>6. /\ c.state \in {"RUNNING", "USER_CONFIRMED", "USER_REJECTED"}
        /\ running = 0 /\ Backlog(c) = {} /\ Recalls(c) = {} /\ c.status = 0
        /\ Sound(c) /\ Placed(c) /\ Answered(c)
    BY Zenon, <1>1, <1>2
  <2> QED
    BY SMT, <2>3, <2>4, <2>5, <2>6, HearsAnswer
<1>5. CASE i # k
  <2>1. Starts(c.log[i])
    BY Zenon, <1>1, <1>3, <1>5
  <2>2. Handle(c, c.log[i], i) = c /\ ~should_step(c, c.log[i])
    BY Zenon, <1>2, <2>1, StartsNothing
  <2>3. Recalled(c, "idle", running, Unheard(c), Backlog(c), Recalls(c))
    BY Zenon, <1>1, <1>2, <1>3, <1>5 DEF Recalled
  <2> QED
    BY Zenon, <1>1, <2>2, <2>3 DEF Heard, Turn
<1> QED
  BY Zenon, <1>4, <1>5

\* The LLM has returned something that the controller has to hear.
LEMMA HearThinks ==
  ASSUME NEW c, NEW u, NEW i, Took(c, u, i),
         Thinks(c, "idle", running, u, Backlog(c), Recalls(c))
  PROVE  Heard(Handle(c, c.log[i], i), c.log[i])
<1> DEFINE e == c.log[i]
           d == Handle(c, e, i)
<1>1. /\ Sound(c) /\ Placed(c) /\ Answered(c)
      /\ i \in u /\ Unheard(c) = u \ {i} /\ e.type \in ControllerTypes
  BY Zenon DEF Took
<1>2. /\ c.state = "RUNNING" /\ c.pending = NoPending
      /\ running = 0 /\ Recalls(c) = {} /\ c.status = 0
      /\ Backlog(c) = {} /\ \E k : u = {k} /\ ~FromUser(c.log[k]) /\ c.log[k].type # "change"
  BY Zenon, <1>1 DEF Thinks
<1>3. Unheard(c) = {} /\ ~FromUser(e) /\ e.type # "change"
  BY Zenon, <1>1, <1>2
<1>4. Ready(c, running, Unheard(c), Backlog(c), Recalls(c))
  BY Zenon, <1>2, <1>3 DEF Ready
<1>5. ASSUME NEW new \in {"AWAITING_USER_INPUT", "FINISHED", "REJECTED"},
             d = set_agent_state_to(c, new)
      PROVE  /\ Sound(d) /\ Placed(d) /\ Answered(d) /\ d.state = new
             /\ Waits(d, "idle", running, Unheard(d), Backlog(d), Recalls(d))
  <2> DEFINE h == set_agent_state_to(c, new)
  <2> HIDE DEF d
  <2>1. new \in UsersTurn /\ new # c.state
    BY Zenon, <1>2 DEF UsersTurn
  <2>2. /\ Sound(h) /\ Placed(h) /\ Answered(h) /\ h.state = new
        /\ Waits(h, "idle", running, Unheard(h), Backlog(h), Recalls(h))
    BY Zenon, <1>1, <1>2, <1>3, <2>1, Rests
  <2> QED
    BY Zenon, <1>5, <2>2
<1>6. CASE e.type \in {"condense", "obs", "null_obs"} \/ (e.type = "message" /\ e.arg # "wait")
  <2>1. d = c
    BY Zenon, <1>2, <1>3, <1>6 DEF Handle, HandleObservation, HandleMessage, FromUser
  <2>2. should_step(c, e)
    BY Zenon, <1>2, <1>6 DEF should_step
  <2> QED
    BY Zenon, <1>1, <1>2, <1>4, <2>1, <2>2 DEF Heard
<1>7. CASE e.type = "message" /\ e.arg = "wait"
  <2>1. d = set_agent_state_to(c, "AWAITING_USER_INPUT")
    BY Zenon, <1>3, <1>7 DEF Handle, HandleMessage, FromUser
  <2>2. /\ Sound(d) /\ Placed(d) /\ Answered(d) /\ d.state = "AWAITING_USER_INPUT"
        /\ Waits(d, "idle", running, Unheard(d), Backlog(d), Recalls(d))
    BY Zenon, <1>5, <2>1
  <2> HIDE DEF d
  <2> QED
    BY Zenon, <2>2 DEF Heard, Turn, d
<1>8. CASE e.type = "finish"
  <2>1. d = set_agent_state_to(c, "FINISHED")
    BY Zenon, <1>8 DEF Handle
  <2>2. /\ Sound(d) /\ Placed(d) /\ Answered(d) /\ d.state = "FINISHED"
        /\ Waits(d, "idle", running, Unheard(d), Backlog(d), Recalls(d))
    BY Zenon, <1>5, <2>1
  <2> HIDE DEF d
  <2> QED
    BY Zenon, <2>2 DEF Heard, Turn, d
<1>9. CASE e.type = "reject"
  <2>1. d = set_agent_state_to(c, "REJECTED")
    BY Zenon, <1>9 DEF Handle
  <2>2. /\ Sound(d) /\ Placed(d) /\ Answered(d) /\ d.state = "REJECTED"
        /\ Waits(d, "idle", running, Unheard(d), Backlog(d), Recalls(d))
    BY Zenon, <1>5, <2>1
  <2> HIDE DEF d
  <2> QED
    BY Zenon, <2>2 DEF Heard, Turn, d
<1> QED
  BY Zenon, <1>1, <1>3, <1>6, <1>7, <1>8, <1>9 DEF ControllerTypes

\* The runtime has answered.
LEMMA HearActs ==
  ASSUME NEW c, NEW u, NEW i, Took(c, u, i),
         Acts(c, "idle", running, u, Backlog(c), Recalls(c))
  PROVE  Heard(Handle(c, c.log[i], i), c.log[i])
<1>1. /\ Sound(c) /\ Placed(c) /\ Answered(c) /\ i \in u /\ Unheard(c) = u \ {i}
      /\ i \in DOMAIN c.log
  BY Zenon DEF Took
<1>2. /\ c.state \in {"RUNNING", "USER_CONFIRMED", "USER_REJECTED"}
      /\ Pends(c, "action") /\ Recalls(c) = {}
      /\ running = 0 /\ Backlog(c) = {} /\ c.status = 0
  BY Zenon, <1>1 DEF Acts
<1>3. \E k \in DOMAIN c.log :
        /\ u = {k} /\ c.log[k].type = "obs"
        /\ c.log[k].cause = c.pending.id /\ c.log[k].call = c.pending.event.call
  BY Zenon, <1>1 DEF Acts
<1>4. /\ Unheard(c) = {} /\ c.log[i].type \in {"obs", "null_obs"} /\ c.log[i].type = "obs"
      /\ c.log[i].cause = c.pending.id /\ c.log[i].call = c.pending.event.call
  BY Zenon, <1>1, <1>3
<1>5. c.pending # NoPending
  BY Zenon, <1>2, BlankPlain DEF Pends
<1>6. \E j \in DOMAIN c.log : c.log[j].type = "obs" /\ c.log[j].call = c.pending.event.call
  BY Zenon, <1>1, <1>4
<1> QED
  BY SMT, <1>1, <1>2, <1>4, <1>5, <1>6, HearsAnswer

\* The user has decided.
LEMMA HearQuestions ==
  ASSUME NEW c, NEW u, NEW i, Took(c, u, i),
         Questions(c, "idle", running, u, Backlog(c), Recalls(c))
  PROVE  Heard(Handle(c, c.log[i], i), c.log[i])
<1> DEFINE e == c.log[i]
           d == Handle(c, e, i)
           h == set_agent_state_to(c, e.arg)
<1>1. /\ Sound(c) /\ Placed(c) /\ Answered(c) /\ i \in u /\ Unheard(c) = u \ {i}
  BY Zenon DEF Took
<1>2. /\ c.state = "AWAITING_USER_CONFIRMATION" /\ Pends(c, "action")
      /\ running = 0 /\ Backlog(c) = {} /\ Recalls(c) = {} /\ c.status = 0
  BY Zenon DEF Questions
<1>3. /\ u = {i} /\ e.type = "change" /\ e.arg \in {"USER_CONFIRMED", "USER_REJECTED"}
  BY Zenon, <1>1 DEF Questions
<1>4. Unheard(c) = {} /\ c.pending # NoPending /\ c.pending.event.type = "action"
      /\ c.state # e.arg
  BY Zenon, <1>1, <1>2, <1>3, BlankPlain DEF Pends
<1>5. d = h /\ ~should_step(d, e)
  BY Zenon, <1>3 DEF Handle, should_step
<1> HIDE DEF d, e
<1>6. /\ Sound(h) /\ Placed(h) /\ Answered(h)
      /\ Pends(h, "action") /\ h.pending.event.conf # "awaiting"
      /\ h.state = e.arg /\ h.pos = c.pos /\ h.status = c.status
      /\ Unheard(h) = Unheard(c) /\ Backlog(h) = Backlog(c) \cup {h.pending.id}
      /\ Recalls(h) = Recalls(c)
  BY Zenon, <1>1, <1>3, <1>4, Decides
<1> HIDE DEF h
<1>7. Backlog(h) = {h.pending.id} /\ h.status = 0
  BY <1>2, <1>6
<1>8. Acts(h, "idle", running, Unheard(h), Backlog(h), Recalls(h))
  BY Zenon, <1>2, <1>3, <1>4, <1>6, <1>7 DEF Acts
<1> QED
  BY Zenon, <1>5, <1>6, <1>8 DEF Heard, Turn, d, e

\* The controller takes the first event of what is unheard.
LEMMA TakesNext ==
  ASSUME ControllerInv, TurnInv, NEW i \in NextOf(ControllerTypes, cpos),
         NEW c, c = [Ctl EXCEPT !.pos = i]
  PROVE  /\ Took(c, Unheard(Ctl), i)
         /\ c.log = log /\ c.state = agent_state /\ c.pending = pending /\ c.status = status
         /\ Backlog(c) = Backlog(Ctl) /\ Recalls(c) = Recalls(Ctl)
<1>1. /\ Sound(c) /\ c.log = log /\ c.pos = i
  BY Zenon, HandleSound DEF ControllerInv
<1>2. c.state = agent_state /\ c.pending = pending /\ c.status = status
  BY Zenon DEF Ctl
<1>3. /\ Answered(Ctl) /\ Placed(Ctl) /\ Sound(Ctl) /\ Ctl.log = log /\ Ctl.pos = cpos
      /\ Ctl.pending = pending
      /\ log \in Seq(Event) /\ Len(log) \in Nat /\ cpos \in 0..Len(log)
  BY Zenon, TurnFacts
<1>4. /\ i \in (cpos + 1)..Len(log) /\ log[i].type \in ControllerTypes
      /\ \A j \in (cpos + 1)..(i - 1) : log[j].type \notin ControllerTypes
  BY Zenon DEF NextOf
<1>5. i \in 1..Len(log) /\ i \in DOMAIN log /\ log[i] \in Event
  BY <1>3, <1>4
<1>6. log[i] \in ForController
      /\ \A j \in (cpos + 1)..(i - 1) : log[j] \notin ForController
  BY Zenon, <1>4, <1>5 DEF ForController
<1>7. /\ After(log, i, ForController) = After(log, cpos, ForController) \ {i}
      /\ i \in After(log, cpos, ForController)
      /\ \A j \in After(log, cpos, ForController) : i <= j
  BY SMT, <1>3, <1>4, <1>6, AfterNext
<1>8. /\ Unheard(c) = After(log, i, ForController)
      /\ Unheard(Ctl) = After(log, cpos, ForController)
      /\ Backlog(c) = Backlog(Ctl) /\ Recalls(c) = Recalls(Ctl)
  BY SMT, <1>1, <1>3 DEF Unheard, Backlog, Recalls
<1>9. Unheard(c) = Unheard(Ctl) \ {i} /\ i \in Unheard(Ctl) /\ \A j \in Unheard(Ctl) : i <= j
  BY Zenon, <1>7, <1>8
<1>10. \A j \in Unheard(Ctl) : j \in Nat
  BY Zenon, <1>3, UnheardPlaces
<1>11. Answered(c)
  BY Zenon, <1>1, <1>2, <1>3, AnsweredSame
<1>12. Placed(c)
  BY Zenon, <1>1, <1>3 DEF Placed
<1>13. i \in DOMAIN c.log /\ c.log[i] \in Event /\ c.log[i].type \in ControllerTypes
  BY Zenon, <1>1, <1>4, <1>5
<1> QED
  BY Zenon, <1>1, <1>2, <1>8, <1>9, <1>10, <1>11, <1>12, <1>13 DEF Took

\* Whatever the phase, the handler leaves the turn with one party.
LEMMA HearTurn ==
  ASSUME ControllerInv, TurnInv, llm = "idle", NEW i \in NextOf(ControllerTypes, cpos),
         NEW c, c = [Ctl EXCEPT !.pos = i]
  PROVE  Heard(Handle(c, log[i], i), log[i])
<1> DEFINE u == Unheard(Ctl)
<1>1. /\ Took(c, u, i)
      /\ c.log = log /\ c.state = agent_state /\ c.pending = pending /\ c.status = status
      /\ Backlog(c) = Backlog(Ctl) /\ Recalls(c) = Recalls(Ctl)
  BY Zenon, TakesNext
<1>2. /\ Turn(Ctl, "idle", running, u, Backlog(Ctl), Recalls(Ctl))
      /\ Ctl.log = log /\ Ctl.state = agent_state /\ Ctl.pending = pending
      /\ Ctl.status = status
  BY Zenon, TurnFacts
<1>3. c.log = Ctl.log /\ c.state = Ctl.state /\ c.pending = Ctl.pending /\ c.status = Ctl.status
  BY Zenon, <1>1, <1>2
<1> HIDE DEF u
<1>4. \/ Waits(c, "idle", running, u, Backlog(Ctl), Recalls(Ctl))
      \/ Opens(c, "idle", running, u, Backlog(Ctl), Recalls(Ctl))
      \/ Recalling(c, "idle", running, u, Backlog(Ctl), Recalls(Ctl))
      \/ Recalled(c, "idle", running, u, Backlog(Ctl), Recalls(Ctl))
      \/ Thinks(c, "idle", running, u, Backlog(Ctl), Recalls(Ctl))
      \/ Acts(c, "idle", running, u, Backlog(Ctl), Recalls(Ctl))
      \/ Questions(c, "idle", running, u, Backlog(Ctl), Recalls(Ctl))
  BY Zenon, <1>2, <1>3, SameTurn DEF Turn
<1>5. \/ Waits(c, "idle", running, u, Backlog(c), Recalls(c))
      \/ Opens(c, "idle", running, u, Backlog(c), Recalls(c))
      \/ Recalling(c, "idle", running, u, Backlog(c), Recalls(c))
      \/ Recalled(c, "idle", running, u, Backlog(c), Recalls(c))
      \/ Thinks(c, "idle", running, u, Backlog(c), Recalls(c))
      \/ Acts(c, "idle", running, u, Backlog(c), Recalls(c))
      \/ Questions(c, "idle", running, u, Backlog(c), Recalls(c))
  BY Zenon, <1>1, <1>4
<1>6. Heard(Handle(c, c.log[i], i), c.log[i])
  BY Zenon, <1>1, <1>5, HearWaits, HearOpens, HearRecalling, HearRecalled, HearThinks,
     HearActs, HearQuestions
<1> QED
  BY Zenon, <1>1, <1>6

----------------------------------------------------------------------------
(* The steps of the controller.                                            *)

\* Only the controller's counters differ.
LEMMA SameReady ==
  ASSUME NEW c, Placed(c), Answered(c), Ready(c, running, Unheard(c), Backlog(c), Recalls(c)),
         NEW d, Sound(d), d.log = c.log, d.pos = c.pos, d.state = c.state,
         d.pending = c.pending, d.status = c.status
  PROVE  Placed(d) /\ Answered(d) /\ Ready(d, running, Unheard(d), Backlog(d), Recalls(d))
<1>1. Same(c, d) /\ Placed(d)
  BY Zenon, SameTodo
<1>2. Answered(d)
  BY Zenon, AnsweredSame
<1> QED
  BY Zenon, <1>1, <1>2 DEF Ready, Same

\* _react_to_exception in a step, or when the LLM call raises.
LEMMA ReactRests ==
  ASSUME NEW c, Sound(c), Placed(c), Answered(c),
         Ready(c, running, Unheard(c), Backlog(c), Recalls(c))
  PROVE  LET d == React(c)
         IN /\ Sound(d) /\ Answered(d)
            /\ Turn(d, "idle", running, Unheard(d), Backlog(d), Recalls(d))
<1> DEFINE n == c.status + 1
           s == [c EXCEPT !.status = n]
           d == set_agent_state_to(s, "ERROR")
<1>1. c \in Controller /\ n \in Nat
  BY DEF Sound, Controller
<1> HIDE DEF n
<1>2. React(c) = d
  BY Zenon, <1>1 DEF React, n, Controller
<1>3. LeadsTo(c, s) /\ s.state = c.state
  BY Zenon, <1>1, StatusSound
<1>4. s.log = c.log /\ s.pos = c.pos /\ s.pending = c.pending
  BY Zenon, <1>1 DEF Controller
<1> HIDE DEF s
<1>5. Sound(s)
  BY Zenon, <1>3 DEF LeadsTo
<1>6. Same(c, s) /\ Placed(s)
  BY Zenon, <1>4, SameTodo
<1>7. Answered(s)
  BY Zenon, <1>4, AnsweredSame
<1>8. /\ s.pending = NoPending /\ running = 0 /\ Unheard(s) = {} /\ Backlog(s) = {}
      /\ Recalls(s) = {} /\ "ERROR" # s.state /\ "ERROR" \in UsersTurn
  BY Zenon, <1>3, <1>4, <1>6 DEF Ready, Same, UsersTurn
<1>9. /\ Sound(d) /\ Placed(d) /\ Answered(d)
      /\ Waits(d, "idle", running, Unheard(d), Backlog(d), Recalls(d))
  BY Zenon, <1>5, <1>6, <1>7, <1>8, Rests
<1> HIDE DEF d
<1> QED
  BY Zenon, <1>2, <1>9 DEF Turn

\* on_event without a step.
LEMMA HandleOnlyTurn ==
  ASSUME ControllerInv, TurnInv, HandleOnly
  PROVE  TurnInv'
<1>1. PICK i \in NextOf(ControllerTypes, cpos) :
        LET d == Handle([Ctl EXCEPT !.pos = i], log[i], i)
        IN /\ ~(should_step(d, log[i]) /\ d.state = "RUNNING" /\ d.pending = NoPending)
           /\ Becomes(d)
  BY Zenon DEF HandleOnly
<1>2. /\ llm = "idle" /\ llm' = "idle" /\ running' = running
      /\ UNCHANGED <<rpos, mpos, mfail>>
  BY Zenon DEF HandleOnly, parties
<1> DEFINE c == [Ctl EXCEPT !.pos = i]
           d == Handle(c, log[i], i)
<1>3. Heard(d, log[i])
  BY Zenon, <1>2, HearTurn
<1>4. ~(should_step(d, log[i]) /\ d.state = "RUNNING" /\ d.pending = NoPending) /\ Becomes(d)
  BY Zenon, <1>1
<1> HIDE DEF d
<1>5. Sound(d) /\ Answered(d) /\ Turn(d, "idle", running, Unheard(d), Backlog(d), Recalls(d))
  BY Zenon, <1>3, <1>4 DEF Heard
<1>6. Turn(d, llm', running', Unheard(d), Backlog(d), Recalls(d))
  BY Zenon, <1>2, <1>5
<1> QED
  BY Zenon, <1>2, <1>4, <1>5, <1>6, TurnPassed

\* on_event with a step.
LEMMA HandleStepTurn ==
  ASSUME ControllerInv, TurnInv, HandleAndStep
  PROVE  TurnInv'
<1>1. PICK i \in NextOf(ControllerTypes, cpos) :
        LET d == Handle([Ctl EXCEPT !.pos = i], log[i], i)
        IN /\ should_step(d, log[i]) /\ d.state = "RUNNING" /\ d.pending = NoPending
           /\ \/ Becomes(React(d)) /\ llm' = llm
              \/ Becomes(React([d EXCEPT !.flag.hit = TRUE])) /\ llm' = llm
              \/ /\ ~ReachedLimit(d.flag)
                 /\ Becomes(React([d EXCEPT !.flag = Counted(@)])) /\ llm' = llm
              \/ /\ ~ReachedLimit(d.flag)
                 /\ Becomes([d EXCEPT !.flag = Counted(@)]) /\ llm' = "calling"
  BY Zenon DEF HandleAndStep
<1>2. /\ llm = "idle" /\ running' = running /\ UNCHANGED <<rpos, mpos, mfail>>
  BY Zenon DEF HandleAndStep, parties
<1> DEFINE c == [Ctl EXCEPT !.pos = i]
           d == Handle(c, log[i], i)
           g == Counted(d.flag)
           h == [d.flag EXCEPT !.hit = TRUE]
           counted == [d EXCEPT !.flag = g]
           hit == [d EXCEPT !.flag = h]
<1>3. Heard(d, log[i])
  BY Zenon, <1>2, HearTurn
<1>4. /\ should_step(d, log[i]) /\ d.state = "RUNNING" /\ d.pending = NoPending
      /\ \/ Becomes(React(d)) /\ llm' = llm
         \/ Becomes(React([d EXCEPT !.flag.hit = TRUE])) /\ llm' = llm
         \/ /\ ~ReachedLimit(d.flag)
            /\ Becomes(React([d EXCEPT !.flag = Counted(@)])) /\ llm' = llm
         \/ /\ ~ReachedLimit(d.flag)
            /\ Becomes([d EXCEPT !.flag = Counted(@)]) /\ llm' = "calling"
  BY Zenon, <1>1
<1> HIDE DEF d
<1>5. /\ Sound(d) /\ Placed(d) /\ Answered(d)
      /\ Ready(d, running, Unheard(d), Backlog(d), Recalls(d))
  BY Zenon, <1>3, <1>4 DEF Heard
<1>6. /\ d \in Controller /\ d.flag \in Flag /\ d.flag.cur \in Nat /\ d.flag.max \in Nat
      /\ Granted(d.flag, d.resumes)
  BY Zenon, <1>5 DEF Sound, Controller, Flag
<1>7. [d EXCEPT !.flag = Counted(@)] = counted
  BY Zenon, <1>6 DEF Controller
<1>8. [d EXCEPT !.flag.hit = TRUE] = hit
  BY Zenon, <1>6 DEF Controller
<1>9. /\ g \in Flag /\ g.cur = d.flag.cur + 1 /\ g.max = d.flag.max
      /\ h \in Flag /\ h.cur = d.flag.cur /\ h.max = d.flag.max
  BY Zenon, <1>6, FlagSet
<1> HIDE DEF g, h
<1>10. Granted(h, d.resumes) /\ (~ReachedLimit(d.flag) => Granted(g, d.resumes))
  BY <1>6, <1>9 DEF Granted, ReachedLimit
<1>11. /\ Sound(hit) /\ (~ReachedLimit(d.flag) => Sound(counted))
  BY Zenon, <1>5, <1>9, <1>10, FlagSound
<1>12. /\ hit.log = d.log /\ hit.pos = d.pos /\ hit.state = d.state
       /\ hit.pending = d.pending /\ hit.status = d.status
       /\ counted.log = d.log /\ counted.pos = d.pos /\ counted.state = d.state
       /\ counted.pending = d.pending /\ counted.status = d.status
  BY Zenon, <1>6 DEF Controller
<1> HIDE DEF hit, counted
<1>13. /\ Placed(hit) /\ Answered(hit)
       /\ Ready(hit, running, Unheard(hit), Backlog(hit), Recalls(hit))
  BY Zenon, <1>5, <1>11, <1>12, SameReady
<1>14. ~ReachedLimit(d.flag) =>
         /\ Placed(counted) /\ Answered(counted)
         /\ Ready(counted, running, Unheard(counted), Backlog(counted), Recalls(counted))
  BY Zenon, <1>5, <1>11, <1>12, SameReady
<1>15. ASSUME NEW x, Sound(x), Placed(x), Answered(x),
              Ready(x, running, Unheard(x), Backlog(x), Recalls(x)),
              Becomes(React(x)), llm' = llm
       PROVE  TurnInv'
  <2> DEFINE y == React(x)
  <2>1. /\ Sound(y) /\ Answered(y)
        /\ Turn(y, "idle", running, Unheard(y), Backlog(y), Recalls(y))
    BY Zenon, <1>15, ReactRests
  <2>2. Becomes(y)
    BY Zenon, <1>15
  <2> HIDE DEF y
  <2>3. Turn(y, llm', running', Unheard(y), Backlog(y), Recalls(y))
    BY Zenon, <1>2, <1>15, <2>1
  <2> QED
    BY Zenon, <1>2, <2>1, <2>2, <2>3, TurnPassed
<1>16. CASE ~ReachedLimit(d.flag) /\ Becomes(counted) /\ llm' = "calling"
  <2>1. Thinks(counted, llm', running', Unheard(counted), Backlog(counted), Recalls(counted))
    BY Zenon, <1>2, <1>14, <1>16 DEF Ready, Thinks
  <2>2. Turn(counted, llm', running', Unheard(counted), Backlog(counted), Recalls(counted))
    BY Zenon, <2>1 DEF Turn
  <2> QED
    BY Zenon, <1>2, <1>11, <1>14, <1>16, <2>2, TurnPassed
<1>17. CASE Becomes(React(d)) /\ llm' = llm
  BY Zenon, <1>5, <1>15, <1>17
<1>18. CASE Becomes(React(hit)) /\ llm' = llm
  BY Zenon, <1>11, <1>13, <1>15, <1>18
<1>19. CASE ~ReachedLimit(d.flag) /\ Becomes(React(counted)) /\ llm' = llm
  BY Zenon, <1>11, <1>14, <1>15, <1>19
<1> QED
  BY Zenon, <1>4, <1>7, <1>8, <1>16, <1>17, <1>18, <1>19

=============================================================================
