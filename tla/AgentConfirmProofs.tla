------------------------ MODULE AgentConfirmProofs ------------------------
(***************************************************************************)
(* Confirmation mode: no action that was put to the user is executed       *)
(* before they confirmed it, and none is executed twice, for any number of *)
(* messages, tool calls and crashes, as long as the user waits to be heard *)
(* (Patient).                                                              *)
(*                                                                         *)
(* Asked and Told say what must hold of a controller and its log between   *)
(* two steps.  Each handler (Add, set_agent_state_to, handle_action,       *)
(* handle_observation, Reset, React) leads from a controller that satisfies *)
(* them to one that does, and only adds to the log: Follows.  ConfirmInv   *)
(* is the inductive invariant, beside ControllerInv of                     *)
(* AgentControllerProofs.                                                  *)
(***************************************************************************)
EXTENDS AgentControllerProofs

----------------------------------------------------------------------------
(* Which actions are executed, for a user who waits to be heard.           *)

Startable(e) == e.type = "action" /\ e.conf \in {"none", "confirmed"}
Confirms(e) == e.type = "change" /\ e.arg = "USER_CONFIRMED"

\* Something that can set the agent to work, or decide on an action.
Word(e) == \/ e.type = "message" /\ e.source = "user"
           \/ e.type = "change" /\ e.arg # "AWAITING_USER_INPUT"

\* Every tool call is put to the user at most once and published for execution at most
\* once; one that was put to the user, only after they confirmed it.
CallsOK(l, n) ==
    /\ \A i \in DOMAIN l : l[i].type = "action" => l[i].call \in 1..n
    /\ \A i, j \in DOMAIN l :
         l[i].call = l[j].call =>
           /\ Startable(l[i]) /\ Startable(l[j]) => i = j
           /\ Asks(l[i]) /\ Asks(l[j]) => i = j
           /\ Asks(l[i]) /\ Startable(l[j]) =>
                \E h \in i..j : Confirms(l[h]) /\ l[h].call = l[j].call

\* What changes the agent's state and does not come from the user.
OwnChanges(l) ==
    \A i \in DOMAIN l : (l[i].type = "change" /\ l[i].source # "user") =>
      \/ l[i].arg = "AWAITING_USER_INPUT"
      \/ i = 2 /\ l[1].type = "message"

\* A pending action that was put to the user is the last one that was, and it has not
\* been published for execution.
AskedLast(c) ==
    Asks(c.pending.event) =>
      /\ c.pending.id \in DOMAIN c.log /\ c.log[c.pending.id] = c.pending.event
      /\ \A i \in DOMAIN c.log : Asks(c.log[i]) => i <= c.pending.id
      /\ \A i \in DOMAIN c.log : Startable(c.log[i]) => c.log[i].call # c.pending.event.call

\* The client that has shown the whole log displays the agent's state.
Shows(c) ==
    \/ \A i \in DOMAIN c.log : c.log[i].type # "state"
    \/ \E i \in DOMAIN c.log :
         /\ c.log[i].type = "state" /\ (c.state = "LOADING" \/ c.log[i].arg = c.state)
         /\ \A h \in DOMAIN c.log : h > i => c.log[h].type # "state"

\* A confirmation on its way finds the action it is for, or none, and an agent that
\* does not run; nothing else on its way can change that.
Awaits(c, j) ==
    /\ c.state \notin {"RUNNING", "USER_CONFIRMED"}
    /\ \/ c.pending = NoPending
       \/ /\ Asks(c.pending.event) /\ c.pending.id < j
          /\ c.pending.event.call = c.log[j].call
    /\ \A h \in (c.pos + 1)..Len(c.log) : h # j => ~Word(c.log[h])

OnItsWay(c) == \E j \in (c.pos + 1)..Len(c.log) : Confirms(c.log[j])

Asked(c, n) ==
    /\ CallsOK(c.log, n) /\ OwnChanges(c.log) /\ AskedLast(c)
    /\ c.pending.event.type = "action" => c.pending.event.call \in 1..n
    /\ \A j \in (c.pos + 1)..Len(c.log) : Confirms(c.log[j]) => Awaits(c, j)

Told(c) ==
    /\ Shows(c)
    /\ c.state = "AWAITING_USER_CONFIRMATION" => Asks(c.pending.event)
    /\ c.state = "LOADING" => c.pending = NoPending

ConfirmInv ==
    /\ Asked(Ctl, calls) /\ Told(Ctl)
    /\ llm = "calling" => agent_state \in {"RUNNING", "ERROR"} /\ ~OnItsWay(Ctl)
    /\ 1 <= Len(log)
    /\ log[1].type = "message" => /\ log[1].source = "user" /\ 2 <= Len(log)
                                  /\ cpos < 2 => calls = 0 /\ llm = "idle"
    /\ started \in Seq(Nat)
    /\ \A m \in DOMAIN started : /\ started[m] \in 1..rpos /\ Startable(log[started[m]])
                                 /\ \A n \in DOMAIN started : m < n => started[m] < started[n]

----------------------------------------------------------------------------
\* An event that neither asks, nor is for execution, nor sets the agent to work.
Plain(e, n) ==
    /\ e \in Event /\ e.type # "change" /\ ~Word(e) /\ ~Startable(e) /\ ~Asks(e)
    /\ e.type = "action" => e.call \in 1..n

\* An event that is neither a question nor for execution keeps the tool calls in order.
LEMMA OtherCalls ==
  ASSUME NEW l \in Seq(Event), NEW n \in Nat, CallsOK(l, n), OwnChanges(l), NEW e \in Event,
         ~Startable(e), ~Asks(e), e.type = "action" => e.call \in 1..n,
         e.type = "change" => (e.source = "user" \/ e.arg = "AWAITING_USER_INPUT")
  PROVE  CallsOK(Append(l, e), n) /\ OwnChanges(Append(l, e))
<1> DEFINE m == Append(l, e)
           last == Len(l) + 1
<1>2. /\ DOMAIN m = 1..last /\ DOMAIN l = 1..Len(l) /\ m[last] = e /\ Len(l) \in Nat
      /\ \A i \in 1..Len(l) : m[i] = l[i]
  BY Zenon, AppendFacts
<1> HIDE DEF m
<1>3. \A i \in DOMAIN m : (i = last /\ m[i] = e) \/ (i \in DOMAIN l /\ m[i] = l[i])
  BY <1>2
<1>4. \A i, j \in DOMAIN l : \A h \in i..j : h \in DOMAIN l /\ m[h] = l[h]
  BY <1>2
<1>5. \A i \in DOMAIN m : m[i].type = "action" => m[i].call \in 1..n
  BY Zenon, <1>3 DEF CallsOK
<1>6. \A i, j \in DOMAIN m : m[i].call = m[j].call =>
           /\ Startable(m[i]) /\ Startable(m[j]) => i = j
           /\ Asks(m[i]) /\ Asks(m[j]) => i = j
           /\ Asks(m[i]) /\ Startable(m[j]) =>
                \E h \in i..j : Confirms(m[h]) /\ m[h].call = m[j].call
  <2> SUFFICES ASSUME NEW i \in DOMAIN m, NEW j \in DOMAIN m, m[i].call = m[j].call,
                      i \in DOMAIN l, j \in DOMAIN l, m[i] = l[i], m[j] = l[j]
               PROVE  /\ Startable(m[i]) /\ Startable(m[j]) => i = j
                      /\ Asks(m[i]) /\ Asks(m[j]) => i = j
                      /\ Asks(m[i]) /\ Startable(m[j]) =>
                           \E h \in i..j : Confirms(m[h]) /\ m[h].call = m[j].call
    BY Zenon, <1>3
  <2>1. /\ Startable(l[i]) /\ Startable(l[j]) => i = j
        /\ Asks(l[i]) /\ Asks(l[j]) => i = j
        /\ Asks(l[i]) /\ Startable(l[j]) =>
             \E h \in i..j : Confirms(l[h]) /\ l[h].call = l[j].call
    BY Zenon DEF CallsOK
  <2> QED
    BY Zenon, <1>4, <2>1
<1>7. OwnChanges(m)
  <2>1. \A i \in DOMAIN l : i = 2 => m[1] = l[1]
    BY <1>2
  <2> QED
    BY Zenon, <1>3, <2>1 DEF OwnChanges
<1> QED
  BY Zenon, <1>5, <1>6, <1>7 DEF CallsOK, m

\* So does an event of no consequence.
LEMMA PlainCalls ==
  ASSUME NEW l \in Seq(Event), NEW n \in Nat, CallsOK(l, n), OwnChanges(l), NEW e, Plain(e, n)
  PROVE  CallsOK(Append(l, e), n) /\ OwnChanges(Append(l, e))
  BY Zenon, OtherCalls DEF Plain

\* What a part of a handler that leads from c to d keeps.
Follows(c, d, n) == Sound(d) /\ Asked(d, n) /\ Prefix(c.log, d.log) /\ d.pos = c.pos

\* The conditions read four fields only.
LEMMA SameAsked ==
  ASSUME NEW c, NEW d, NEW n, Asked(c, n), Sound(c), Sound(d),
         d.state = c.state, d.pending = c.pending, d.log = c.log, d.pos = c.pos
  PROVE  Follows(c, d, n) /\ (Told(c) => Told(d))
<1>1. Asked(d, n)
  BY Zenon DEF Asked, AskedLast, Awaits
<1>2. Prefix(c.log, d.log)
  <2>1. Len(c.log) \in Nat
    BY DEF Sound, Controller
  <2> QED
    BY <2>1 DEF Prefix
<1>3. Told(c) => Told(d)
  BY Zenon DEF Told, Shows
<1> QED
  BY Zenon, <1>1, <1>2, <1>3 DEF Follows

\* One handler after another.
LEMMA FollowsOn ==
  ASSUME NEW c, NEW d, NEW e, NEW n, Sound(c), Follows(c, d, n), Follows(d, e, n)
  PROVE  Follows(c, e, n)
<1>1. /\ Len(c.log) \in Nat /\ Len(d.log) \in Nat /\ Len(e.log) \in Nat
      /\ DOMAIN c.log = 1..Len(c.log) /\ DOMAIN d.log = 1..Len(d.log)
  BY DEF Follows, Sound, Controller
<1>2. Len(c.log) <= Len(e.log)
  BY <1>1 DEF Follows, Prefix
<1>3. \A i \in DOMAIN c.log : i \in DOMAIN d.log
  BY <1>1 DEF Follows, Prefix
<1>4. \A i \in DOMAIN c.log : e.log[i] = c.log[i]
  BY Zenon, <1>3 DEF Follows, Prefix
<1> QED
  BY Zenon, <1>2, <1>4 DEF Follows, Prefix

\* add_event of a plain event.
LEMMA AddAsked ==
  ASSUME NEW c, NEW n \in Nat, Sound(c), Asked(c, n), NEW e, Plain(e, n)
  PROVE  /\ Follows(c, Add(c, e), n)
         /\ OnItsWay(Add(c, e)) <=> OnItsWay(c)
         /\ Told(c) /\ e.type # "state" => Told(Add(c, e))
<1> DEFINE d == Add(c, e)
           l == c.log
           m == d.log
<1>1. e \in Event /\ e.type # "change" /\ ~Word(e) /\ ~Startable(e) /\ ~Asks(e) /\ ~Confirms(e)
  BY Zenon DEF Plain, Confirms
<1>2. /\ Sound(d) /\ d.log = Append(c.log, e) /\ d.state = c.state
      /\ d.pending = c.pending /\ d.pos = c.pos
  BY Zenon, <1>1, AddSound DEF LeadsTo
<1>3. l \in Seq(Event) /\ c.pos \in Nat /\ c.pos <= Len(l) /\ c.pending \in Pending
  BY Zenon DEF Sound, Controller
<1>4. /\ Len(m) = Len(l) + 1 /\ Len(l) \in Nat
      /\ DOMAIN m = 1..Len(m) /\ DOMAIN l = 1..Len(l) /\ m[Len(m)] = e
      /\ \A i \in 1..Len(l) : m[i] = l[i]
      /\ Prefix(l, m)
  BY <1>1, <1>2, <1>3, AppendFacts
<1>5. CallsOK(m, n) /\ OwnChanges(m)
  BY Zenon, <1>2, <1>3, PlainCalls DEF Asked
<1> HIDE DEF d
<1>6. \A i \in DOMAIN m : (i = Len(m) /\ m[i] = e) \/ (i \in DOMAIN l /\ m[i] = l[i])
  BY <1>4
<1>7. \A i \in DOMAIN l : i \in DOMAIN m /\ m[i] = l[i]
  BY <1>4
<1>8. \A i \in (c.pos + 1)..Len(m) :
        (i = Len(m) /\ m[i] = e) \/ (i \in (c.pos + 1)..Len(l) /\ m[i] = l[i])
  BY <1>3, <1>4
<1>9. \A i \in (c.pos + 1)..Len(l) : i \in (c.pos + 1)..Len(m) /\ m[i] = l[i]
  BY <1>3, <1>4
<1>10. OnItsWay(d) <=> OnItsWay(c)
  BY Zenon, <1>1, <1>2, <1>8, <1>9 DEF OnItsWay
<1>11. AskedLast(d)
  <2> SUFFICES ASSUME Asks(c.pending.event)
               PROVE  /\ c.pending.id \in DOMAIN m /\ m[c.pending.id] = c.pending.event
                      /\ \A i \in DOMAIN m : Asks(m[i]) => i <= c.pending.id
                      /\ \A i \in DOMAIN m : Startable(m[i]) => m[i].call # c.pending.event.call
    BY Zenon, <1>2 DEF AskedLast
  <2>1. /\ c.pending.id \in DOMAIN l /\ l[c.pending.id] = c.pending.event
        /\ \A i \in DOMAIN l : Asks(l[i]) => i <= c.pending.id
        /\ \A i \in DOMAIN l : Startable(l[i]) => l[i].call # c.pending.event.call
    BY Zenon DEF Asked, AskedLast
  <2> QED
    BY Zenon, <1>1, <1>6, <1>7, <2>1
<1>12. \A j \in (d.pos + 1)..Len(m) : Confirms(m[j]) => Awaits(d, j)
  <2> SUFFICES ASSUME NEW j \in (c.pos + 1)..Len(l), Confirms(l[j]), m[j] = l[j]
               PROVE  Awaits(d, j)
    BY Zenon, <1>1, <1>2, <1>8
  <2>1. Awaits(c, j)
    BY Zenon DEF Asked
  <2>2. \A h \in (d.pos + 1)..Len(m) : h # j => ~Word(m[h])
    BY Zenon, <1>1, <1>2, <1>8, <2>1 DEF Awaits
  <2> QED
    BY Zenon, <1>2, <2>1, <2>2 DEF Awaits
<1>13. Asked(d, n)
  BY Zenon, <1>2, <1>5, <1>11, <1>12 DEF Asked
<1>14. ASSUME Shows(c), e.type # "state" PROVE Shows(d)
  <2>1. CASE \A i \in DOMAIN l : l[i].type # "state"
    <3>1. \A i \in DOMAIN m : m[i].type # "state"
      BY Zenon, <1>6, <1>14, <2>1
    <3> QED
      BY Zenon, <3>1 DEF Shows
  <2>2. ASSUME NEW i \in DOMAIN l, l[i].type = "state", c.state = "LOADING" \/ l[i].arg = c.state,
               \A h \in DOMAIN l : h > i => l[h].type # "state"
        PROVE  Shows(d)
    <3>1. /\ i \in DOMAIN m /\ m[i].type = "state" /\ (d.state = "LOADING" \/ m[i].arg = d.state)
          /\ \A h \in DOMAIN m : h > i => m[h].type # "state"
      BY Zenon, <1>2, <1>6, <1>7, <1>14, <2>2
    <3> QED
      BY Zenon, <3>1 DEF Shows
  <2> QED
    BY Zenon, <1>14, <2>1, <2>2 DEF Shows
<1>15. Told(c) /\ e.type # "state" => Told(d)
  BY Zenon, <1>2, <1>14 DEF Told
<1> QED
  BY Zenon, <1>2, <1>4, <1>10, <1>13, <1>15 DEF Follows, d

\* A change of state has told the client.
LEMMA AddTold ==
  ASSUME NEW c, Sound(c), NEW new \in AgentState, c.state = new,
         new = "AWAITING_USER_CONFIRMATION" => Asks(c.pending.event), new # "LOADING"
  PROVE  Told(Add(c, Ev("state", "environment", new)))
<1> DEFINE e == Ev("state", "environment", new)
           d == Add(c, e)
           m == d.log
<1>1. e \in Event /\ e.type = "state" /\ e.arg = new
  BY Zenon DEF Ev, Event
<1> HIDE DEF e
<1>2. /\ Sound(d) /\ d.log = Append(c.log, e) /\ d.state = c.state /\ d.pending = c.pending
  BY Zenon, <1>1, AddSound DEF LeadsTo
<1>3. c.log \in Seq(Event)
  BY Zenon DEF Sound, Controller
<1>4. Len(m) \in Nat /\ DOMAIN m = 1..Len(m) /\ m[Len(m)] = e /\ Len(m) \in DOMAIN m
  BY <1>1, <1>2, <1>3, AppendFacts
<1> HIDE DEF d
<1>5. \A h \in DOMAIN m : ~(h > Len(m))
  BY <1>4
<1>6. Shows(d)
  BY Zenon, <1>1, <1>2, <1>4, <1>5 DEF Shows
<1> QED
  BY Zenon, <1>2, <1>6 DEF Told, d, e

\* Another pending action: none, or one that is not put to the user, with no
\* confirmation on its way.
LEMMA PendingAsked ==
  ASSUME NEW c, NEW n \in Nat, Sound(c), Asked(c, n), NEW p \in Pending,
         p.event.type # "change", ~Asks(p.event),
         p.event.type = "action" => p.event.call \in 1..n,
         p = NoPending \/ ~OnItsWay(c)
  PROVE  LET d == [c EXCEPT !.pending = p] IN
         /\ Follows(c, d, n) /\ d.state = c.state /\ d.log = c.log /\ d.pending = p
         /\ d.pos = c.pos
<1> DEFINE d == [c EXCEPT !.pending = p]
<1>1. /\ Sound(d) /\ d.pending = p /\ d.state = c.state /\ d.log = c.log /\ d.pos = c.pos
  BY Zenon, PendingSound DEF LeadsTo
<1> HIDE DEF d
<1>2. Len(c.log) \in Nat
  BY DEF Sound, Controller
<1>3. Prefix(c.log, d.log)
  BY <1>1, <1>2 DEF Prefix
<1>4. \A j \in (c.pos + 1)..Len(c.log) : Confirms(c.log[j]) => Awaits(d, j)
  BY Zenon, <1>1 DEF Asked, Awaits, OnItsWay
<1>5. Asked(d, n)
  BY Zenon, <1>1, <1>4 DEF Asked, AskedLast
<1> QED
  BY Zenon, <1>1, <1>3, <1>5 DEF Follows, d

\* _reset
LEMMA ResetAsked ==
  ASSUME NEW c, NEW n \in Nat, Sound(c), Asked(c, n)
  PROVE  Follows(c, Reset(c), n) /\ (OnItsWay(Reset(c)) <=> OnItsWay(c))
<1> DEFINE e == [Ev("obs", "agent", "not_executed") EXCEPT
                   !.call = c.pending.event.call, !.cause = c.pending.id]
           t == Add(c, e)
<1>1. e \in Event /\ e.type = "obs"
  <2>1. c.pending.event.call \in Nat /\ c.pending.id \in Nat
    BY Zenon DEF Sound, Controller, Pending, Event
  <2> QED
    BY Zenon, <2>1 DEF Ev, Event
<1> HIDE DEF e
<1>2. Plain(e, n)
  BY Zenon, <1>1 DEF Plain, Word, Startable, Asks
<1>3. Follows(c, t, n) /\ (OnItsWay(t) <=> OnItsWay(c))
  BY Zenon, <1>2, AddAsked
<1> HIDE DEF t
<1>4. PICK b \in {c, t} : Reset(c) = [b EXCEPT !.pending = NoPending]
  BY Zenon DEF Reset, t, e
<1>5. Follows(c, b, n) /\ (OnItsWay(b) <=> OnItsWay(c))
  BY Zenon, <1>3, SameAsked
<1>6. Sound(b) /\ Asked(b, n)
  BY Zenon, <1>5 DEF Follows
<1>7. /\ Follows(b, Reset(c), n) /\ Reset(c).log = b.log /\ Reset(c).pos = b.pos
  BY <1>4, <1>6, PendingAsked, BlankFacts, BlankPlain
<1>8. OnItsWay(Reset(c)) <=> OnItsWay(b)
  BY Zenon, <1>7 DEF OnItsWay
<1> QED
  BY Zenon, <1>5, <1>7, <1>8, FollowsOn

\* Another state.
LEMMA StateAsked ==
  ASSUME NEW c, NEW n \in Nat, Sound(c), Asked(c, n), NEW new \in AgentState,
         OnItsWay(c) => new \notin {"RUNNING", "USER_CONFIRMED"}
  PROVE  LET d == [c EXCEPT !.state = new] IN
         /\ Follows(c, d, n) /\ d.state = new /\ d.pending = c.pending
         /\ d.log = c.log /\ d.pos = c.pos
         /\ OnItsWay(d) <=> OnItsWay(c)
<1> DEFINE d == [c EXCEPT !.state = new]
<1>1. /\ Sound(d) /\ d.state = new /\ d.pending = c.pending /\ d.log = c.log /\ d.pos = c.pos
  BY Zenon, StateSound DEF LeadsTo
<1> HIDE DEF d
<1>2. Len(c.log) \in Nat
  BY DEF Sound, Controller
<1>3. Prefix(c.log, d.log)
  BY <1>1, <1>2 DEF Prefix
<1>4. \A j \in (c.pos + 1)..Len(c.log) : Confirms(c.log[j]) => Awaits(d, j)
  BY Zenon, <1>1 DEF Asked, Awaits, OnItsWay
<1>5. Asked(d, n)
  BY Zenon, <1>1, <1>4 DEF Asked, AskedLast
<1>6. OnItsWay(d) <=> OnItsWay(c)
  BY Zenon, <1>1 DEF OnItsWay
<1> QED
  BY Zenon, <1>1, <1>3, <1>5, <1>6 DEF Follows, d

\* The pending action published again, rejected.
LEMMA RejectAsked ==
  ASSUME NEW c, NEW n \in Nat, Sound(c), Asked(c, n), ~OnItsWay(c)
  PROVE  Follows(c, Decide(c, "rejected"), n) /\ ~OnItsWay(Decide(c, "rejected"))
<1> DEFINE e == [c.pending.event EXCEPT !.conf = "rejected", !.source = "agent"]
           t == Add(c, e)
           p == [id |-> Len(c.log) + 1, event |-> e]
<1>1. /\ c.pending.event \in Event /\ c.pending.event.type # "change" /\ Len(c.log) \in Nat
  BY DEF Sound, Controller, Pending
<1>2. /\ e \in Event /\ e.type = c.pending.event.type /\ e.call = c.pending.event.call
      /\ e.conf = "rejected" /\ e.source = "agent"
  BY ZenonT(60), <1>1 DEF Event
<1> HIDE DEF e
<1>3. Plain(e, n)
  BY Zenon, <1>1, <1>2 DEF Plain, Word, Startable, Asks, Asked
<1>4. Follows(c, t, n) /\ ~OnItsWay(t)
  BY Zenon, <1>3, AddAsked
<1>5. p \in Pending /\ p.event = e
  BY <1>1, <1>2 DEF Pending
<1>6. Decide(c, "rejected") = [t EXCEPT !.pending = p]
  BY Zenon DEF Decide, e
<1> HIDE DEF t, p
<1>7. Sound(t) /\ Asked(t, n)
  BY Zenon, <1>4 DEF Follows
<1>8. /\ p.event.type # "change" /\ ~Asks(p.event)
      /\ p.event.type = "action" => p.event.call \in 1..n
  BY Zenon, <1>3, <1>5 DEF Plain
<1>9. /\ Follows(t, Decide(c, "rejected"), n)
      /\ Decide(c, "rejected").log = t.log /\ Decide(c, "rejected").pos = t.pos
  <2> DEFINE d == [t EXCEPT !.pending = p]
  <2>1. Follows(t, d, n) /\ d.log = t.log /\ d.pos = t.pos
    BY Zenon, <1>4, <1>5, <1>7, <1>8, PendingAsked
  <2> QED
    BY Zenon, <1>6, <2>1
<1>10. ~OnItsWay(Decide(c, "rejected"))
  BY Zenon, <1>4, <1>9 DEF OnItsWay
<1> QED
  BY Zenon, <1>4, <1>9, <1>10, FollowsOn

\* Every change of state but a confirmation and the question itself.
LEMMA SetStateAsked ==
  ASSUME NEW c, NEW n \in Nat, Sound(c), Asked(c, n), Shows(c),
         NEW new \in AgentState \ {"LOADING", "USER_CONFIRMED", "AWAITING_USER_CONFIRMATION"},
         OnItsWay(c) => new \notin {"RUNNING", "USER_REJECTED"}
  PROVE  LET d == set_agent_state_to(c, new) IN
         /\ Follows(c, d, n) /\ Told(d) /\ d.state = new
         /\ new = "RUNNING" => d.pending = c.pending
<1> DEFINE d == set_agent_state_to(c, new)
<1>1. CASE new = c.state
  <2>1. d = c
    BY Zenon, <1>1 DEF set_agent_state_to
  <2>2. Told(c) /\ Follows(c, c, n)
    BY Zenon, <1>1, SameAsked DEF Told
  <2> QED
    BY Zenon, <1>1, <2>1, <2>2
<1>2. CASE new # c.state
  <2> DEFINE entered == [c EXCEPT !.state = new]
             reset == IF new \in {"STOPPED", "ERROR"} THEN Reset(entered) ELSE entered
             raised == IF c.state = "ERROR" /\ new = "RUNNING"
                       THEN [reset EXCEPT !.flag = IncreaseLimit(@), !.resumes = @ + 1]
                       ELSE reset
             decided == IF raised.pending = NoPending THEN raised
                        ELSE CASE new = "USER_CONFIRMED" -> Decide(raised, "confirmed")
                               [] new = "USER_REJECTED" -> Decide(raised, "rejected")
                               [] OTHER -> raised
             e == Ev("state", "environment", new)
             told == Add(decided, e)
  <2>1. d = [told EXCEPT !.saved = told.flag]
    BY Zenon, <1>2 DEF set_agent_state_to
  <2> HIDE DEF d
  <2>2. /\ Follows(c, entered, n) /\ entered.state = new /\ entered.pending = c.pending
        /\ OnItsWay(entered) <=> OnItsWay(c)
    BY StateAsked
  <2>3. Sound(entered) /\ Asked(entered, n)
    BY Zenon, <2>2 DEF Follows
  <2> HIDE DEF entered
  <2>4. /\ Follows(entered, reset, n) /\ reset.state = new
        /\ OnItsWay(reset) <=> OnItsWay(entered)
        /\ new = "RUNNING" => reset.pending = entered.pending
    BY Zenon, <2>2, <2>3, ResetAsked, ResetSound, SameAsked
  <2>5. Sound(reset) /\ Asked(reset, n)
    BY Zenon, <2>4 DEF Follows
  <2> HIDE DEF reset
  <2>6. /\ Follows(reset, raised, n) /\ raised.state = new
        /\ OnItsWay(raised) <=> OnItsWay(reset)
        /\ raised.pending = reset.pending
    <3> DEFINE x == [reset EXCEPT !.flag = IncreaseLimit(@), !.resumes = @ + 1]
    <3>1. Sound(x)
      BY Zenon, <2>5, RaiseSound DEF LeadsTo
    <3>2. /\ x.state = reset.state /\ x.pending = reset.pending /\ x.log = reset.log
          /\ x.pos = reset.pos
      BY Zenon, <2>5 DEF Sound, Controller
    <3>3. raised = x \/ raised = reset
      BY Zenon
    <3> HIDE DEF x, raised
    <3>4. Sound(raised) /\ raised.state = reset.state /\ raised.pending = reset.pending
          /\ raised.log = reset.log /\ raised.pos = reset.pos
      BY Zenon, <2>5, <3>1, <3>2, <3>3
    <3>5. Follows(reset, raised, n)
      BY Zenon, <2>5, <3>4, SameAsked
    <3>6. OnItsWay(raised) <=> OnItsWay(reset)
      BY Zenon, <3>4 DEF OnItsWay
    <3> QED
      BY Zenon, <2>4, <3>4, <3>5, <3>6
  <2>7. Sound(raised) /\ Asked(raised, n)
    BY Zenon, <2>6 DEF Follows
  <2> HIDE DEF raised
  <2>8. /\ Follows(raised, decided, n) /\ decided.state = new
        /\ new = "RUNNING" => decided.pending = raised.pending
    <3>1. CASE new = "USER_REJECTED"
      <4>1. ~OnItsWay(raised)
        BY Zenon, <2>2, <2>4, <2>6, <3>1
      <4>2. decided = raised \/ decided = Decide(raised, "rejected")
        BY Zenon, <3>1
      <4> HIDE DEF decided
      <4> QED
        BY Zenon, <2>6, <2>7, <3>1, <4>1, <4>2, RejectAsked, DecideSound, SameAsked
    <3>2. CASE new # "USER_REJECTED"
      <4>1. decided = raised
        BY Zenon, <3>2
      <4> QED
        BY Zenon, <2>6, <2>7, <4>1, SameAsked
    <3> QED
      BY Zenon, <3>1, <3>2
  <2>9. Sound(decided) /\ Asked(decided, n)
    BY Zenon, <2>8 DEF Follows
  <2> HIDE DEF decided
  <2>10. Follows(decided, told, n) /\ Told(told) /\ told.pending = decided.pending
    <3>1. e \in Event /\ e.type = "state"
      BY Zenon DEF Ev, Event
    <3>2. Told(told)
      BY Zenon, <2>8, <2>9, AddTold
    <3> HIDE DEF e
    <3>3. Plain(e, n)
      BY Zenon, <3>1 DEF Plain, Word, Startable, Asks
    <3>4. Follows(decided, told, n)
      BY Zenon, <2>9, <3>3, AddAsked
    <3>5. told.pending = decided.pending
      BY Zenon, <2>9, <3>1, AddSound
    <3> QED
      BY Zenon, <3>2, <3>4, <3>5
  <2>11. Sound(told) /\ Asked(told, n)
    BY Zenon, <2>10 DEF Follows
  <2> HIDE DEF told
  <2>12. Sound(d) /\ d.state = new
    BY Zenon, SetStateSound DEF LeadsTo, d
  <2>13. d.state = told.state /\ d.pending = told.pending /\ d.log = told.log /\ d.pos = told.pos
    BY Zenon, <2>1, <2>11 DEF Sound, Controller
  <2>14. Follows(told, d, n) /\ Told(d)
    BY Zenon, <2>10, <2>11, <2>12, <2>13, SameAsked
  <2>15. Follows(c, raised, n)
    BY Zenon, <2>2, <2>3, <2>4, <2>5, <2>6, FollowsOn
  <2>16. Follows(c, told, n)
    BY Zenon, <2>7, <2>8, <2>9, <2>10, <2>15, FollowsOn
  <2>17. Follows(c, d, n)
    BY Zenon, <2>14, <2>16, FollowsOn
  <2>18. new = "RUNNING" => d.pending = c.pending
    BY Zenon, <2>2, <2>4, <2>6, <2>8, <2>10, <2>13
  <2> QED
    BY Zenon, <2>12, <2>14, <2>17, <2>18 DEF d
<1> QED
  BY Zenon, <1>1, <1>2

\* An action published for execution once the user has confirmed it.
LEMMA ConfirmCalls ==
  ASSUME NEW l \in Seq(Event), NEW n \in Nat, CallsOK(l, n), OwnChanges(l),
         NEW q \in DOMAIN l, Asks(l[q]), NEW k \in DOMAIN l, q < k, Confirms(l[k]),
         l[k].call = l[q].call,
         \A i \in DOMAIN l : Startable(l[i]) => l[i].call # l[q].call,
         NEW e \in Event, Startable(e), e.call = l[q].call
  PROVE  CallsOK(Append(l, e), n) /\ OwnChanges(Append(l, e))
<1> DEFINE m == Append(l, e)
           last == Len(l) + 1
<1>1. /\ DOMAIN m = 1..last /\ DOMAIN l = 1..Len(l) /\ m[last] = e /\ Len(l) \in Nat
      /\ \A i \in 1..Len(l) : m[i] = l[i]
  BY Zenon, AppendFacts
<1> HIDE DEF m
<1>2. \A i \in DOMAIN m : (i = last /\ m[i] = e) \/ (i \in DOMAIN l /\ m[i] = l[i])
  BY <1>1
<1>3. \A i, j \in DOMAIN l : \A h \in i..j : h \in DOMAIN l /\ m[h] = l[h]
  BY <1>1
<1>4. e.type = "action" /\ ~Asks(e) /\ e.call \in 1..n
  BY Zenon DEF Startable, Asks, CallsOK
<1>5. \A i \in DOMAIN m : m[i].type = "action" => m[i].call \in 1..n
  BY Zenon, <1>2, <1>4 DEF CallsOK
<1>6. ASSUME NEW i \in DOMAIN m, NEW j \in DOMAIN m, m[i].call = m[j].call
      PROVE  /\ Startable(m[i]) /\ Startable(m[j]) => i = j
             /\ Asks(m[i]) /\ Asks(m[j]) => i = j
             /\ Asks(m[i]) /\ Startable(m[j]) =>
                  \E h \in i..j : Confirms(m[h]) /\ m[h].call = m[j].call
  <2>1. CASE i \in DOMAIN l /\ m[i] = l[i] /\ j \in DOMAIN l /\ m[j] = l[j]
    <3>1. /\ Startable(l[i]) /\ Startable(l[j]) => i = j
          /\ Asks(l[i]) /\ Asks(l[j]) => i = j
          /\ Asks(l[i]) /\ Startable(l[j]) =>
               \E h \in i..j : Confirms(l[h]) /\ l[h].call = l[j].call
      BY Zenon, <1>6, <2>1 DEF CallsOK
    <3> QED
      BY Zenon, <1>3, <2>1, <3>1
  <2>2. CASE i = last /\ m[i] = e /\ j = last /\ m[j] = e
    BY Zenon, <1>4, <2>2
  <2>3. CASE i = last /\ m[i] = e /\ j \in DOMAIN l /\ m[j] = l[j]
    BY Zenon, <1>4, <1>6, <2>3
  <2>4. CASE i \in DOMAIN l /\ m[i] = l[i] /\ j = last /\ m[j] = e
    <3>1. ~Startable(l[i])
      BY Zenon, <1>6, <2>4
    <3>2. Asks(l[i]) => i = q
      BY Zenon, <1>6, <2>4 DEF CallsOK
    <3>3. k \in q..last /\ m[k] = l[k]
      BY <1>1
    <3> QED
      BY Zenon, <1>4, <2>4, <3>1, <3>2, <3>3
  <2> QED
    BY Zenon, <1>2, <2>1, <2>2, <2>3, <2>4
<1>7. OwnChanges(m)
  <2>1. \A i \in DOMAIN l : i = 2 => m[1] = l[1]
    BY <1>1
  <2> QED
    BY Zenon, <1>2, <1>4, <2>1 DEF OwnChanges
<1> QED
  BY Zenon, <1>5, <1>6, <1>7 DEF CallsOK, m

\* An action under a new tool call.
LEMMA FreshCalls ==
  ASSUME NEW l \in Seq(Event), NEW n \in Nat, CallsOK(l, n), OwnChanges(l),
         NEW e \in Event, e.type = "action", e.call = n + 1, e.conf \in {"none", "awaiting"}
  PROVE  CallsOK(Append(l, e), n + 1) /\ OwnChanges(Append(l, e))
<1> DEFINE m == Append(l, e)
           last == Len(l) + 1
<1>1. /\ DOMAIN m = 1..last /\ DOMAIN l = 1..Len(l) /\ m[last] = e /\ Len(l) \in Nat
      /\ \A i \in 1..Len(l) : m[i] = l[i]
  BY Zenon, AppendFacts
<1> HIDE DEF m
<1>2. \A i \in DOMAIN m : (i = last /\ m[i] = e) \/ (i \in DOMAIN l /\ m[i] = l[i])
  BY <1>1
<1>3. \A i, j \in DOMAIN l : \A h \in i..j : h \in DOMAIN l /\ m[h] = l[h]
  BY <1>1
<1>4. ~(Asks(e) /\ Startable(e))
  BY Zenon DEF Startable, Asks
<1>5. \A i \in DOMAIN m : m[i].type = "action" => m[i].call \in 1..(n + 1)
  <2>1. \A x \in 1..n : x \in 1..(n + 1)
    OBVIOUS
  <2>2. n + 1 \in 1..(n + 1)
    OBVIOUS
  <2> QED
    BY Zenon, <1>2, <2>1, <2>2 DEF CallsOK
<1>6. \A i \in DOMAIN l : Startable(l[i]) \/ Asks(l[i]) => l[i].call # n + 1
  <2>1. \A x \in 1..n : x # n + 1
    OBVIOUS
  <2> QED
    BY Zenon, <2>1 DEF CallsOK, Startable, Asks
<1>7. ASSUME NEW i \in DOMAIN m, NEW j \in DOMAIN m, m[i].call = m[j].call
      PROVE  /\ Startable(m[i]) /\ Startable(m[j]) => i = j
             /\ Asks(m[i]) /\ Asks(m[j]) => i = j
             /\ Asks(m[i]) /\ Startable(m[j]) =>
                  \E h \in i..j : Confirms(m[h]) /\ m[h].call = m[j].call
  <2>1. CASE i \in DOMAIN l /\ m[i] = l[i] /\ j \in DOMAIN l /\ m[j] = l[j]
    <3>1. /\ Startable(l[i]) /\ Startable(l[j]) => i = j
          /\ Asks(l[i]) /\ Asks(l[j]) => i = j
          /\ Asks(l[i]) /\ Startable(l[j]) =>
               \E h \in i..j : Confirms(l[h]) /\ l[h].call = l[j].call
      BY Zenon, <1>7, <2>1 DEF CallsOK
    <3> QED
      BY Zenon, <1>3, <2>1, <3>1
  <2>2. CASE i = last /\ m[i] = e /\ j = last /\ m[j] = e
    BY Zenon, <1>4, <2>2
  <2>3. CASE i = last /\ m[i] = e /\ j \in DOMAIN l /\ m[j] = l[j]
    BY Zenon, <1>6, <1>7, <2>3
  <2>4. CASE i \in DOMAIN l /\ m[i] = l[i] /\ j = last /\ m[j] = e
    BY Zenon, <1>6, <1>7, <2>4
  <2> QED
    BY Zenon, <1>2, <2>1, <2>2, <2>3, <2>4
<1>8. OwnChanges(m)
  <2>1. \A i \in DOMAIN l : i = 2 => m[1] = l[1]
    BY <1>1
  <2> QED
    BY Zenon, <1>2, <2>1 DEF OwnChanges
<1> QED
  BY Zenon, <1>5, <1>7, <1>8 DEF CallsOK, m

\* With no confirmation on its way, an event that is no change, and a pending action.
LEMMA Republish ==
  ASSUME NEW c, NEW n \in Nat, Sound(c), ~OnItsWay(c), NEW e \in Event, e.type # "change",
         CallsOK(Append(c.log, e), n), OwnChanges(Append(c.log, e)),
         NEW p \in Pending, p.event = e, ~Asks(e),
         e.type = "action" => e.call \in 1..n
  PROVE  LET d == [Add(c, e) EXCEPT !.pending = p] IN
         /\ Follows(c, d, n) /\ ~OnItsWay(d) /\ d.state = c.state /\ d.pending = p
         /\ d.log = Append(c.log, e)
<1> DEFINE t == Add(c, e)
           d == [t EXCEPT !.pending = p]
           l == c.log
           m == Append(l, e)
<1>1. /\ Sound(t) /\ t.log = m /\ t.state = c.state /\ t.pos = c.pos
  BY Zenon, AddSound DEF LeadsTo
<1> HIDE DEF t
<1>2. /\ Sound(d) /\ d.pending = p /\ d.state = c.state /\ d.log = m /\ d.pos = c.pos
  BY <1>1, PendingSound DEF LeadsTo
<1> HIDE DEF d
<1>3. l \in Seq(Event) /\ c.pos \in Nat /\ c.pos <= Len(l)
  BY Zenon DEF Sound, Controller
<1>4. /\ Len(m) = Len(l) + 1 /\ Len(l) \in Nat /\ m[Len(m)] = e
      /\ \A i \in 1..Len(l) : m[i] = l[i]
      /\ Prefix(l, m)
  BY <1>3, AppendFacts
<1> HIDE DEF m
<1>5. \A i \in (c.pos + 1)..Len(m) :
        (i = Len(m) /\ m[i] = e) \/ (i \in (c.pos + 1)..Len(l) /\ m[i] = l[i])
  BY SMTT(60), <1>3, <1>4
<1>6. ~OnItsWay(d)
  BY Zenon, <1>2, <1>5 DEF OnItsWay, Confirms
<1>7. Asked(d, n)
  BY Zenon, <1>2, <1>6 DEF Asked, AskedLast, OnItsWay, m
<1> QED
  BY Zenon, <1>2, <1>4, <1>6, <1>7 DEF Follows, d, t, m

\* set_agent_state_to for a confirmation that has arrived, the k-th event.
LEMMA ConfirmAsked ==
  ASSUME NEW c, NEW n \in Nat, Sound(c), Asked(c, n), ~OnItsWay(c),
         NEW k \in DOMAIN c.log, Confirms(c.log[k]), c.state # "USER_CONFIRMED",
         \/ c.pending = NoPending
         \/ /\ Asks(c.pending.event) /\ c.pending.id < k
            /\ c.pending.event.call = c.log[k].call
  PROVE  LET d == set_agent_state_to(c, "USER_CONFIRMED") IN
         Follows(c, d, n) /\ Told(d) /\ d.state = "USER_CONFIRMED"
<1> DEFINE new == "USER_CONFIRMED"
           d == set_agent_state_to(c, new)
           entered == [c EXCEPT !.state = new]
           decided == IF entered.pending = NoPending THEN entered
                      ELSE Decide(entered, "confirmed")
           e == Ev("state", "environment", new)
           told == Add(decided, e)
<1>1. d = [told EXCEPT !.saved = told.flag]
  BY Zenon DEF set_agent_state_to
<1>2. new \in AgentState
  BY Zenon DEF AgentState
<1>3. Sound(d) /\ d.state = new
  BY Zenon, <1>2, SetStateSound DEF LeadsTo
<1> HIDE DEF d
<1>4. /\ Follows(c, entered, n) /\ entered.state = new /\ entered.pending = c.pending
      /\ entered.log = c.log /\ entered.pos = c.pos /\ ~OnItsWay(entered)
  BY <1>2, StateAsked
<1>5. Sound(entered) /\ Asked(entered, n)
  BY Zenon, <1>4 DEF Follows
<1> HIDE DEF entered
<1>6. Follows(entered, decided, n) /\ decided.state = new
  <2>1. CASE entered.pending = NoPending
    <3>1. decided = entered
      BY Zenon, <2>1
    <3> QED
      BY Zenon, <1>4, <1>5, <3>1, SameAsked
  <2>2. CASE entered.pending # NoPending
    <3> DEFINE l == entered.log
               q == entered.pending.id
               o == entered.pending.event
               a == [o EXCEPT !.conf = "confirmed", !.source = "agent"]
               p == [id |-> Len(l) + 1, event |-> a]
    <3>1. /\ Asks(o) /\ q < k /\ o.call = l[k].call /\ k \in DOMAIN l /\ Confirms(l[k])
      BY Zenon, <1>4, <2>2
    <3>2. /\ q \in DOMAIN l /\ l[q] = o
          /\ \A i \in DOMAIN l : Startable(l[i]) => l[i].call # o.call
      BY Zenon, <1>5, <3>1 DEF Asked, AskedLast
    <3>3. /\ o \in Event /\ Len(l) \in Nat /\ l \in Seq(Event) /\ o.type = "action"
      BY <1>5, <3>1 DEF Sound, Controller, Pending, Asks
    <3>4. a \in Event /\ a.type = "action" /\ a.conf = "confirmed" /\ a.call = o.call
      BY Zenon, <3>3 DEF Event
    <3>5. decided = [Add(entered, a) EXCEPT !.pending = p]
      BY Zenon, <2>2 DEF Decide
    <3> HIDE DEF decided, a
    <3>6. p \in Pending /\ p.event = a
      BY <3>3, <3>4 DEF Pending
    <3> HIDE DEF p
    <3>7. Startable(a) /\ ~Asks(a)
      BY Zenon, <3>4 DEF Startable, Asks
    <3>8. CallsOK(l, n) /\ OwnChanges(l) /\ o.call \in 1..n
      BY Zenon, <1>5, <3>3 DEF Asked
    <3> HIDE DEF l, q, o
    <3>9. CallsOK(Append(l, a), n) /\ OwnChanges(Append(l, a))
      BY ZenonT(60), <3>1, <3>2, <3>3, <3>4, <3>7, <3>8, ConfirmCalls
    <3>10. LET x == [Add(entered, a) EXCEPT !.pending = p] IN
             Follows(entered, x, n) /\ x.state = entered.state
      BY <1>4, <1>5, <3>4, <3>6, <3>7, <3>8, <3>9, Republish DEF l
    <3> QED
      BY Zenon, <1>4, <3>5, <3>10
  <2> QED
    BY Zenon, <2>1, <2>2
<1>7. Sound(decided) /\ Asked(decided, n)
  BY Zenon, <1>6 DEF Follows
<1> HIDE DEF decided
<1>8. Told(told)
  BY Zenon, <1>2, <1>6, <1>7, AddTold
<1>9. e \in Event /\ e.type = "state"
  BY Zenon, <1>2 DEF Ev, Event
<1> HIDE DEF e
<1>10. Plain(e, n)
  BY Zenon, <1>9 DEF Plain, Word, Startable, Asks
<1>11. Follows(decided, told, n)
  BY Zenon, <1>7, <1>10, AddAsked
<1>12. Sound(told) /\ Asked(told, n)
  BY Zenon, <1>11 DEF Follows
<1> HIDE DEF told
<1>13. d.state = told.state /\ d.pending = told.pending /\ d.log = told.log /\ d.pos = told.pos
  BY Zenon, <1>1, <1>12 DEF Sound, Controller
<1>14. Follows(told, d, n) /\ Told(d)
  BY Zenon, <1>3, <1>8, <1>12, <1>13, SameAsked
<1>15. Follows(c, told, n)
  BY Zenon, <1>4, <1>5, <1>6, <1>7, <1>11, FollowsOn
<1>16. Follows(c, d, n)
  BY Zenon, <1>14, <1>15, FollowsOn
<1> QED
  BY Zenon, <1>3, <1>14, <1>16 DEF d

\* _handle_message_action
LEMMA MessageAsked ==
  ASSUME NEW c, NEW n \in Nat, Sound(c), Asked(c, n), Told(c), NEW e, NEW i,
         e.source = "user" => ~OnItsWay(c)
  PROVE  LET d == HandleMessage(c, e, i) IN
         /\ Follows(c, d, n) /\ Told(d)
         /\ e.source = "user" => d.pending # NoPending
<1> DEFINE d == HandleMessage(c, e, i)
<1>1. CASE e.source = "user"
  <2> DEFINE first == \A j \in 1..(i - 1) :
                        ~(c.log[j].type = "message" /\ c.log[j].source = "user")
             kind == IF first THEN "workspace" ELSE "knowledge"
             recall == Ev("recall", "user", kind)
             added == Add(c, recall)
             p == [id |-> Len(c.log) + 1, event |-> recall]
             asked == [added EXCEPT !.pending = p]
  <2>1. d = set_agent_state_to(asked, "RUNNING")
    BY Zenon, <1>1 DEF HandleMessage
  <2>2. recall \in Event /\ recall.type = "recall"
    <3>1. kind \in {"workspace", "knowledge"}
      BY Zenon
    <3> HIDE DEF kind
    <3> QED
      BY Zenon, <3>1 DEF Ev, Event
  <2> HIDE DEF recall, d
  <2>3. Plain(recall, n) /\ ~Asks(recall)
    BY Zenon, <2>2 DEF Plain, Word, Startable, Asks
  <2>4. Follows(c, added, n) /\ ~OnItsWay(added) /\ Told(added)
    BY Zenon, <1>1, <2>2, <2>3, AddAsked
  <2>5. p \in Pending /\ p.event = recall /\ p # NoPending
    <3>1. Len(c.log) \in Nat
      BY DEF Sound, Controller
    <3>2. Blank.type = "none"
      BY Zenon DEF Blank, Ev
    <3> QED
      BY <2>2, <3>1, <3>2 DEF Pending, NoPending
  <2>6. Sound(added) /\ Asked(added, n)
    BY Zenon, <2>4 DEF Follows
  <2> HIDE DEF added, p
  <2>7. /\ Follows(added, asked, n) /\ asked.state = added.state /\ asked.log = added.log
        /\ asked.pending = p /\ asked.pos = added.pos
    BY Zenon, <2>2, <2>3, <2>4, <2>5, <2>6, PendingAsked
  <2>8. Sound(asked) /\ Asked(asked, n)
    BY Zenon, <2>7 DEF Follows
  <2> HIDE DEF asked
  <2>9. Shows(asked) /\ ~OnItsWay(asked)
    BY <2>4, <2>7 DEF Told, Shows, OnItsWay
  <2>10. "RUNNING" \in AgentState \ {"LOADING", "USER_CONFIRMED", "AWAITING_USER_CONFIRMATION"}
    BY Zenon DEF AgentState
  <2>11. Follows(asked, d, n) /\ Told(d) /\ d.pending = asked.pending
    BY Zenon, <2>1, <2>8, <2>9, <2>10, SetStateAsked
  <2>12. Follows(c, d, n)
    BY Zenon, <2>4, <2>6, <2>7, <2>8, <2>11, FollowsOn
  <2> QED
    BY Zenon, <2>5, <2>7, <2>11, <2>12 DEF d
<1>2. CASE e.source # "user" /\ e.arg = "wait"
  <2>1. d = set_agent_state_to(c, "AWAITING_USER_INPUT")
    BY Zenon, <1>2 DEF HandleMessage
  <2>2. "AWAITING_USER_INPUT" \in AgentState \ {"LOADING", "USER_CONFIRMED",
                                                "AWAITING_USER_CONFIRMATION"}
    BY Zenon DEF AgentState
  <2> HIDE DEF d
  <2>3. Follows(c, d, n) /\ Told(d)
    BY Zenon, <2>1, <2>2, SetStateAsked DEF Told
  <2> QED
    BY Zenon, <1>2, <2>3 DEF d
<1>3. CASE e.source # "user" /\ e.arg # "wait"
  <2>1. d = c
    BY Zenon, <1>3 DEF HandleMessage
  <2> QED
    BY Zenon, <1>3, <2>1, SameAsked
<1> QED
  BY Zenon, <1>1, <1>2, <1>3

\* _handle_observation
LEMMA ObservationAsked ==
  ASSUME NEW c, NEW n \in Nat, Sound(c), Asked(c, n), Told(c), NEW e
  PROVE  LET d == HandleObservation(c, e) IN Follows(c, d, n) /\ Told(d)
<1> DEFINE d == HandleObservation(c, e)
           free == [c EXCEPT !.pending = NoPending]
<1>1. d = c \/ /\ c.state # "AWAITING_USER_CONFIRMATION"
               /\ \/ c.state = "USER_CONFIRMED" /\ d = set_agent_state_to(free, "RUNNING")
                  \/ d = set_agent_state_to(free, "AWAITING_USER_INPUT")
                  \/ d = free
  BY Zenon DEF HandleObservation
<1> SUFFICES Follows(c, d, n) /\ Told(d)
  BY Zenon
<1> HIDE DEF d
<1>2. CASE d = c
  BY Zenon, <1>2, SameAsked
<1>3. CASE c.state # "AWAITING_USER_CONFIRMATION"
  <2>1. /\ Follows(c, free, n) /\ free.state = c.state /\ free.log = c.log
        /\ free.pending = NoPending /\ free.pos = c.pos
    BY ZenonT(60), PendingAsked, BlankFacts, BlankPlain
  <2>2. Sound(free) /\ Asked(free, n)
    BY Zenon, <2>1 DEF Follows
  <2> HIDE DEF free
  <2>3. Told(free)
    BY <1>3, <2>1 DEF Told, Shows
  <2>4. {"RUNNING", "AWAITING_USER_INPUT"} \subseteq
          AgentState \ {"LOADING", "USER_CONFIRMED", "AWAITING_USER_CONFIRMATION"}
    BY Zenon DEF AgentState
  <2>5. CASE d = free
    BY Zenon, <2>1, <2>3, <2>5
  <2>6. CASE d = set_agent_state_to(free, "AWAITING_USER_INPUT")
    <3>1. Follows(free, d, n) /\ Told(d)
      BY Zenon, <2>2, <2>3, <2>4, <2>6, SetStateAsked DEF Told
    <3> QED
      BY Zenon, <2>1, <3>1, FollowsOn
  <2>7. CASE c.state = "USER_CONFIRMED" /\ d = set_agent_state_to(free, "RUNNING")
    <3>1. ~OnItsWay(free)
      BY Zenon, <2>1, <2>2, <2>7 DEF OnItsWay, Asked, Awaits
    <3>2. Follows(free, d, n) /\ Told(d)
      BY Zenon, <2>2, <2>3, <2>4, <2>7, <3>1, SetStateAsked DEF Told
    <3> QED
      BY Zenon, <2>1, <3>2, FollowsOn
  <2> QED
    BY Zenon, <1>1, <1>2, <2>5, <2>6, <2>7
<1> QED
  BY Zenon, <1>1, <1>2, <1>3

\* The controller takes the next event.
LEMMA HandleAsked ==
  ASSUME ControllerInv, ConfirmInv, NEW i \in NextOf(ControllerTypes, cpos),
         NEW c, c = [Ctl EXCEPT !.pos = i]
  PROVE  LET d == Handle(c, log[i], i) IN
         /\ Follows(c, d, calls) /\ Told(d) /\ c.log = log /\ c.pos = i /\ Sound(c)
         /\ (log[i].type = "message" /\ log[i].source = "user") => d.pending # NoPending
<1> DEFINE d == Handle(c, log[i], i)
           n == calls
<1>1. /\ i \in (cpos + 1)..Len(log) /\ log[i].type \in ControllerTypes
  BY Zenon DEF NextOf
<1>2. /\ Sound(Ctl) /\ Obeys(Ctl) /\ n \in Nat /\ Asked(Ctl, n) /\ Told(Ctl)
  BY Zenon DEF ControllerInv, ConfirmInv
<1>3. /\ i \in 1..Len(log) /\ i \in DOMAIN log /\ cpos \in Nat /\ i \in Nat /\ Len(log) \in Nat
      /\ ChangesOK(log)
  BY <1>1, <1>2, CtlFacts
<1>4. Sound(c) /\ c.log = log /\ c.pos = i
  BY Zenon, <1>2, HandleSound
<1>5. /\ c.state = agent_state /\ c.pending = pending
      /\ Ctl.state = agent_state /\ Ctl.pending = pending /\ Ctl.log = log /\ Ctl.pos = cpos
  BY Zenon DEF Ctl
<1>6. \A j \in (i + 1)..Len(log) : j \in (cpos + 1)..Len(log) /\ j # i
  BY <1>1, <1>3
<1>7. \A j \in (i + 1)..Len(log) : Confirms(log[j]) => Awaits(Ctl, j)
  BY Zenon, <1>2, <1>5, <1>6 DEF Asked
<1>8. OnItsWay(c) => ~Word(log[i])
  BY Zenon, <1>1, <1>4, <1>5, <1>6, <1>7 DEF OnItsWay, Awaits
<1>9. \A j \in (i + 1)..Len(log) : Awaits(Ctl, j) => Awaits(c, j)
  BY Zenon, <1>4, <1>5, <1>6 DEF Awaits
<1>10. Asked(c, n)
  BY Zenon, <1>2, <1>4, <1>5, <1>7, <1>9 DEF Asked, AskedLast
<1>11. Told(c)
  BY <1>2, <1>4, <1>5 DEF Told, Shows
<1> DEFINE Goal == /\ Follows(c, d, n) /\ Told(d)
                   /\ (log[i].type = "message" /\ log[i].source = "user") => d.pending # NoPending
<1> SUFFICES Goal
  BY Zenon, <1>4
<1>12. CASE log[i].type = "message"
  <2>1. d = HandleMessage(c, log[i], i)
    BY Zenon, <1>12 DEF Handle
  <2>2. log[i].source = "user" => ~OnItsWay(c)
    BY Zenon, <1>8, <1>12 DEF Word
  <2> HIDE DEF d
  <2> QED
    BY Zenon, <1>2, <1>4, <1>10, <1>11, <2>1, <2>2, MessageAsked
<1>13. CASE log[i].type = "finish"
  <2>1. d = set_agent_state_to(c, "FINISHED")
    BY Zenon, <1>13 DEF Handle
  <2>2. "FINISHED" \in AgentState \ {"LOADING", "USER_CONFIRMED", "AWAITING_USER_CONFIRMATION"}
    BY Zenon DEF AgentState
  <2> HIDE DEF d
  <2> QED
    BY Zenon, <1>2, <1>4, <1>10, <1>11, <1>13, <2>1, <2>2, SetStateAsked DEF Told
<1>14. CASE log[i].type = "reject"
  <2>1. d = set_agent_state_to(c, "REJECTED")
    BY Zenon, <1>14 DEF Handle
  <2>2. "REJECTED" \in AgentState \ {"LOADING", "USER_CONFIRMED", "AWAITING_USER_CONFIRMATION"}
    BY Zenon DEF AgentState
  <2> HIDE DEF d
  <2> QED
    BY ZenonT(60), <1>2, <1>4, <1>10, <1>11, <1>14, <2>1, <2>2, SetStateAsked DEF Told
<1>15. CASE log[i].type \in {"obs", "null_obs"}
  <2>1. d = HandleObservation(c, log[i])
    BY Zenon, <1>15 DEF Handle
  <2> HIDE DEF d
  <2> QED
    BY ZenonT(60), <1>2, <1>4, <1>10, <1>11, <1>15, <2>1, ObservationAsked
<1>16. CASE log[i].type = "condense"
  <2>1. d = c
    BY Zenon, <1>16 DEF Handle
  <2> HIDE DEF d
  <2> QED
    BY Zenon, <1>4, <1>10, <1>11, <1>16, <2>1, SameAsked
<1>17. CASE log[i].type = "change"
  <2> DEFINE new == log[i].arg
  <2>1. new \in {"RUNNING", "AWAITING_USER_INPUT", "STOPPED", "PAUSED",
                 "USER_CONFIRMED", "USER_REJECTED"}
    BY Zenon, <1>3, <1>17 DEF ChangesOK
  <2>2. d = set_agent_state_to(c, new)
    BY Zenon, <1>17 DEF Handle
  <2> HIDE DEF d
  <2>3. CASE new = "USER_CONFIRMED"
    <3>1. Confirms(log[i]) /\ Word(log[i])
      BY Zenon, <1>17, <2>3 DEF Confirms, Word
    <3>2. ~OnItsWay(c) /\ Awaits(Ctl, i)
      BY Zenon, <1>1, <1>2, <1>5, <1>8, <3>1 DEF Asked
    <3>3. /\ c.state # "USER_CONFIRMED"
          /\ \/ c.pending = NoPending
             \/ /\ Asks(c.pending.event) /\ c.pending.id < i
                /\ c.pending.event.call = c.log[i].call
      BY Zenon, <1>4, <1>5, <3>2 DEF Awaits
    <3>4. i \in DOMAIN c.log /\ Confirms(c.log[i])
      BY Zenon, <1>3, <1>4, <3>1
    <3>5. Follows(c, d, n) /\ Told(d)
      BY ZenonT(60), <1>2, <1>4, <1>10, <2>2, <2>3, <3>2, <3>3, <3>4, ConfirmAsked
    <3> QED
      BY Zenon, <1>17, <3>5
  <2>4. CASE new # "USER_CONFIRMED"
    <3>1. new \in AgentState \ {"LOADING", "USER_CONFIRMED", "AWAITING_USER_CONFIRMATION"}
      BY Zenon, <2>1, <2>4 DEF AgentState
    <3>2. OnItsWay(c) => new \notin {"RUNNING", "USER_REJECTED"}
      BY Zenon, <1>8, <1>17 DEF Word
    <3> HIDE DEF new
    <3>3. Follows(c, d, n) /\ Told(d)
      BY SMTT(60), <1>2, <1>4, <1>10, <1>11, <2>2, <3>1, <3>2, SetStateAsked DEF Told
    <3> QED
      BY Zenon, <1>17, <3>3
  <2> QED
    BY Zenon, <2>3, <2>4
<1> QED
  BY ZenonT(60), <1>1, <1>12, <1>13, <1>14, <1>15, <1>16, <1>17 DEF ControllerTypes

\* _react_to_exception
LEMMA ReactAsked ==
  ASSUME NEW c, NEW n \in Nat, Sound(c), Asked(c, n), Shows(c)
  PROVE  Follows(c, React(c), n) /\ Told(React(c)) /\ React(c).state = "ERROR"
<1> DEFINE d == [c EXCEPT !.status = c.status + 1]
<1>1. c.status + 1 \in Nat /\ c \in Controller
  BY DEF Sound, Controller
<1>2. Sound(d)
  BY Zenon, <1>1, StatusSound DEF LeadsTo
<1>3. /\ [c EXCEPT !.status = @ + 1] = d
      /\ d.state = c.state /\ d.pending = c.pending /\ d.log = c.log /\ d.pos = c.pos
  BY Zenon, <1>1 DEF Controller
<1> HIDE DEF d
<1>4. React(c) = set_agent_state_to(d, "ERROR")
  BY Zenon, <1>3 DEF React
<1>5. "ERROR" \in AgentState \ {"LOADING", "USER_CONFIRMED", "AWAITING_USER_CONFIRMATION"}
  BY Zenon DEF AgentState
<1>6. Follows(c, d, n) /\ Shows(d)
  BY <1>2, <1>3, SameAsked DEF Shows
<1>7. Follows(d, React(c), n) /\ Told(React(c)) /\ React(c).state = "ERROR"
  BY <1>4, <1>5, <1>6, SetStateAsked DEF Follows
<1> QED
  BY Zenon, <1>6, <1>7, FollowsOn

----------------------------------------------------------------------------
(* Actions that are published, and what the other parties add.             *)

\* More tool calls.
LEMMA MoreCalls ==
  ASSUME NEW c, NEW n \in Nat, Asked(c, n)
  PROVE  Asked(c, n + 1)
<1>1. \A x \in 1..n : x \in 1..(n + 1)
  OBVIOUS
<1>2. CallsOK(c.log, n + 1)
  BY Zenon, <1>1 DEF Asked, CallsOK
<1> QED
  BY Zenon, <1>1, <1>2 DEF Asked

\* The controller as the question leaves it: the client is told, and then the action
\* is published and pending.
LEMMA QuestionAsked ==
  ASSUME NEW c, NEW n \in Nat, Sound(c), Asked(c, n), ~OnItsWay(c),
         NEW st, Plain(st, n), st.type = "state", st.arg = "AWAITING_USER_CONFIRMATION",
         NEW e \in Event, e.type = "action", e.call = n + 1, e.conf = "awaiting",
         NEW d, d.log = Append(Append(c.log, st), e), d.pos = c.pos,
         d.state = "AWAITING_USER_CONFIRMATION",
         d.pending.id = Len(c.log) + 2, d.pending.event = e
  PROVE  Asked(d, n + 1) /\ Told(d) /\ Prefix(c.log, d.log)
<1> DEFINE l == c.log
           k == Append(l, st)
           m == Append(k, e)
<1>1. l \in Seq(Event) /\ c.pos \in Nat /\ c.pos <= Len(l) /\ st \in Event
  BY Zenon DEF Sound, Controller, Plain
<1>2. /\ k \in Seq(Event) /\ Len(k) = Len(l) + 1 /\ Len(l) \in Nat
      /\ DOMAIN l = 1..Len(l) /\ k[Len(l) + 1] = st
      /\ \A i \in 1..Len(l) : k[i] = l[i]
  BY Zenon, <1>1, AppendFacts
<1>3. CallsOK(k, n) /\ OwnChanges(k)
  BY Zenon, <1>1, PlainCalls DEF Asked
<1> HIDE DEF k
<1>4. /\ Len(m) = Len(k) + 1 /\ DOMAIN m = 1..(Len(k) + 1) /\ m[Len(k) + 1] = e
      /\ \A i \in 1..Len(k) : m[i] = k[i]
  BY Zenon, <1>2, AppendFacts
<1>5. CallsOK(m, n + 1) /\ OwnChanges(m)
  BY Zenon, <1>2, <1>3, FreshCalls
<1>6. d.log = m
  BY Zenon DEF k
<1> HIDE DEF m
<1> DEFINE last == Len(l) + 2
<1>7. /\ last \in Nat /\ DOMAIN m = 1..last /\ Len(m) = last /\ m[last] = e
      /\ last - 1 \in DOMAIN m /\ m[last - 1] = st
      /\ \A i \in 1..Len(l) : m[i] = l[i]
  <2>1. /\ \A i \in 1..Len(l) : i \in 1..Len(k)
        /\ Len(l) + 1 \in 1..Len(k) /\ Len(k) + 1 = last
        /\ last \in Nat /\ last - 1 = Len(l) + 1 /\ last - 1 \in 1..last
    BY <1>2
  <2> QED
    BY Zenon, <1>2, <1>4, <2>1
<1>8. \A i \in DOMAIN m : \/ i = last /\ m[i] = e
                          \/ i = last - 1 /\ m[i] = st
                          \/ i \in DOMAIN l /\ m[i] = l[i]
  BY <1>2, <1>7
<1>9. Asks(e) /\ ~Startable(e) /\ ~Startable(st) /\ ~Confirms(e) /\ ~Confirms(st)
  BY Zenon DEF Asks, Startable, Confirms
<1>10. AskedLast(d)
  <2>1. \A i \in DOMAIN m : i <= last
    BY <1>7
  <2>2. \A i \in DOMAIN l : Startable(l[i]) => l[i].call # n + 1
    <3>1. \A x \in 1..n : x # n + 1
      OBVIOUS
    <3> QED
      BY Zenon, <3>1 DEF Asked, CallsOK, Startable
  <2>3. \A i \in DOMAIN m : Startable(m[i]) => m[i].call # e.call
    BY Zenon, <1>8, <1>9, <2>2
  <2>4. last \in DOMAIN m
    BY <1>2, <1>7
  <2> QED
    BY Zenon, <1>6, <1>7, <2>1, <2>3, <2>4 DEF AskedLast
<1>11. \A j \in (c.pos + 1)..Len(m) : ~Confirms(m[j])
  <2>1. \A j \in (c.pos + 1)..Len(m) : \/ j = last /\ m[j] = e
                                       \/ j = last - 1 /\ m[j] = st
                                       \/ j \in (c.pos + 1)..Len(l) /\ m[j] = l[j]
    <3> SUFFICES ASSUME NEW j \in (c.pos + 1)..Len(m)
                 PROVE  \/ j = last /\ m[j] = e
                        \/ j = last - 1 /\ m[j] = st
                        \/ j \in (c.pos + 1)..Len(l) /\ m[j] = l[j]
      BY Zenon
    <3>1. j \in Int /\ c.pos + 1 <= j /\ j <= last /\ j \in 1..last
      BY <1>1, <1>7
    <3>2. CASE j <= Len(l)
      <4>1. j \in 1..Len(l) /\ j \in (c.pos + 1)..Len(l)
        BY <1>1, <1>2, <3>1, <3>2
      <4> QED
        BY Zenon, <1>7, <4>1
    <3>3. CASE ~(j <= Len(l))
      <4>1. j = last \/ j = last - 1
        BY SMTT(60), <1>2, <3>1, <3>3
      <4> QED
        BY Zenon, <1>7, <4>1
    <3> QED
      BY Zenon, <3>2, <3>3
  <2> QED
    BY Zenon, <1>9, <2>1 DEF OnItsWay
<1>12. n + 1 \in 1..(n + 1)
  OBVIOUS
<1>13. Asked(d, n + 1)
  BY Zenon, <1>5, <1>6, <1>10, <1>11, <1>12 DEF Asked
<1>14. Shows(d)
  <2>1. \A h \in DOMAIN m : h > last - 1 => m[h].type # "state"
    BY <1>2, <1>7
  <2> QED
    BY ZenonT(60), <1>6, <1>7, <2>1 DEF Shows
<1>15. Told(d)
  BY Zenon, <1>9, <1>14 DEF Told
<1>16. Prefix(l, m)
  BY SMTT(60), <1>2, <1>7 DEF Prefix
<1> QED
  BY Zenon, <1>6, <1>13, <1>15, <1>16

\* Publish adds the event and makes it the pending one.
LEMMA PublishHeld ==
  ASSUME NEW c \in Controller, NEW e, NEW k
  PROVE  LET d == Publish(c, e, k) IN
         /\ d.log = Append(c.log, e) /\ d.pos = c.pos /\ d.state = c.state
         /\ d.pending.id = k /\ d.pending.event = c.pending.event
<1> DEFINE d == Publish(c, e, k)
<1> SUFFICES /\ d.log = Append(c.log, e) /\ d.pos = c.pos /\ d.state = c.state
             /\ d.pending.id = k /\ d.pending.event = c.pending.event
  BY Zenon
<1> DEFINE a == Add(c, e)
           p == [a.pending EXCEPT !.id = k]
<1>1. /\ a.log = Append(c.log, e) /\ a.pos = c.pos /\ a.state = c.state
      /\ a.pending = c.pending
      /\ DOMAIN a = {"state", "pending", "log", "flag", "saved", "pos", "status", "resumes"}
  BY Zenon DEF Add, Controller
<1>2. c.pending \in Pending
  BY Zenon DEF Controller
<1>3. p.id = k /\ p.event = c.pending.event
  BY Zenon, <1>1, <1>2 DEF Pending
<1> HIDE DEF a
<1>4. d = [a EXCEPT !.pending = p]
  BY Zenon, <1>1 DEF a, Publish
<1> HIDE DEF p, d
<1> QED
  BY Zenon, <1>1, <1>3, <1>4

\* An error sends no confirmation on its way.
LEMMA ErrorWay ==
  ASSUME NEW c, NEW n \in Nat, Sound(c), Asked(c, n), ~OnItsWay(c)
  PROVE  ~OnItsWay(set_agent_state_to(c, "ERROR"))
<1> DEFINE d == set_agent_state_to(c, "ERROR")
           entered == [c EXCEPT !.state = "ERROR"]
           reset == Reset(entered)
           e == Ev("state", "environment", "ERROR")
           told == Add(reset, e)
<1>1. CASE c.state = "ERROR"
  BY Zenon, <1>1 DEF set_agent_state_to
<1>2. CASE c.state # "ERROR"
  <2>1. d = [told EXCEPT !.saved = told.flag]
    BY Zenon, <1>2 DEF set_agent_state_to
  <2> HIDE DEF d
  <2>2. Follows(c, entered, n) /\ ~OnItsWay(entered)
    BY ZenonT(60), StateAsked DEF AgentState
  <2>3. Sound(entered) /\ Asked(entered, n)
    BY Zenon, <2>2 DEF Follows
  <2> HIDE DEF entered
  <2>4. Follows(entered, reset, n) /\ ~OnItsWay(reset)
    BY Zenon, <2>2, <2>3, ResetAsked
  <2>5. Sound(reset) /\ Asked(reset, n)
    BY Zenon, <2>4 DEF Follows
  <2> HIDE DEF reset
  <2>6. e \in Event /\ e.type = "state"
    BY Zenon DEF Ev, Event, AgentState
  <2> HIDE DEF e
  <2>7. Plain(e, n)
    BY Zenon, <2>6 DEF Plain, Word, Startable, Asks
  <2>8. Follows(reset, told, n) /\ ~OnItsWay(told)
    BY Zenon, <2>4, <2>5, <2>7, AddAsked
  <2> HIDE DEF told
  <2>9. d.log = told.log /\ d.pos = told.pos
    BY Zenon, <2>1, <2>8 DEF Follows, Sound, Controller
  <2> QED
    BY Zenon, <2>8, <2>9 DEF OnItsWay, d
<1> QED
  BY Zenon, <1>1, <1>2

\* An observation is plain, and so is nothing at all.
LEMMA ObsPlain ==
  ASSUME NEW e \in Event, e.type \in {"obs", "null_obs", "none"}, NEW n
  PROVE  Plain(e, n) /\ e.type # "state"
  BY Zenon DEF Plain, Word, Startable, Asks

----------------------------------------------------------------------------
(* What follows from the invariant.                                        *)

\* What the two invariants say of the controller between two steps.
LEMMA ConfirmFacts ==
  ASSUME ControllerInv, ConfirmInv
  PROVE  /\ calls \in Nat /\ Asked(Ctl, calls) /\ Told(Ctl) /\ Sound(Ctl)
         /\ CallsOK(log, calls)
         /\ log \in Seq(Event) /\ Len(log) \in Nat /\ cpos \in Nat /\ cpos <= Len(log)
         /\ ChangesOK(log)
<1>1. calls \in Nat /\ Sound(Ctl)
  BY Zenon DEF ControllerInv
<1>2. Asked(Ctl, calls) /\ Told(Ctl)
  BY Zenon DEF ConfirmInv
<1>3. CallsOK(Ctl.log, calls) /\ Ctl.log = log
  BY Zenon, <1>2 DEF Asked, Ctl
<1> QED
  BY Zenon, <1>1, <1>2, <1>3, CtlFacts

\* The controller's record, and what it is after a step.
LEMMA CtlFields ==
  /\ Ctl.log = log /\ Ctl.pending = pending /\ Ctl.state = agent_state /\ Ctl.pos = cpos
  /\ Ctl'.log = log' /\ Ctl'.pending = pending' /\ Ctl'.state = agent_state' /\ Ctl'.pos = cpos'
  BY Zenon DEF Ctl

\* The pending action after a step.
LEMMA PendingTyped == ASSUME ControllerInv' PROVE pending' \in Pending /\ Sound(Ctl')
<1>1. Sound(Ctl')
  BY Zenon DEF ControllerInv
<1>2. Ctl'.pending \in Pending
  BY Zenon, <1>1 DEF Sound, Controller
<1> QED
  BY Zenon, <1>1, <1>2, CtlFields

\* What the invariants say of what the runtime started: each action once, ...
LEMMA OnceFollows == ASSUME ControllerInv, ConfirmInv PROVE StartedOnce
<1> SUFFICES ASSUME NEW m \in DOMAIN started, NEW n \in DOMAIN started, CallOf(m) = CallOf(n)
             PROVE  m = n
  BY Zenon DEF StartedOnce
<1>1. /\ started \in Seq(Nat) /\ started[m] \in 1..rpos /\ started[n] \in 1..rpos
      /\ Startable(log[started[m]]) /\ Startable(log[started[n]])
      /\ m < n => started[m] < started[n]
      /\ n < m => started[n] < started[m]
  BY Zenon DEF ConfirmInv
<1>2. started[m] \in DOMAIN log /\ started[n] \in DOMAIN log
  <2>1. \A x \in 1..rpos : x \in DOMAIN log
    BY PlaceFacts
  <2> QED
    BY Zenon, <1>1, <2>1
<1>3. CallsOK(log, calls)
  BY Zenon, ConfirmFacts
<1>4. started[m] = started[n]
  BY Zenon, <1>1, <1>2, <1>3 DEF CallsOK, CallOf
<1>5. m \in Nat /\ n \in Nat
  BY <1>1
<1> QED
  BY <1>1, <1>4, <1>5

\* ... and one that was put to the user after they confirmed it.
LEMMA ConfirmedFollows == ASSUME ControllerInv, ConfirmInv PROVE ConfirmedFirst
<1> SUFFICES ASSUME NEW n \in DOMAIN started,
                    NEW i \in Asking(started[n]), log[i].call = CallOf(n)
             PROVE  \E j \in i..started[n] : /\ log[j].type = "change"
                                             /\ log[j].arg = "USER_CONFIRMED"
                                             /\ log[j].call = CallOf(n)
  BY Zenon DEF ConfirmedFirst
<1>1. started[n] \in 1..rpos /\ Startable(log[started[n]])
  BY Zenon DEF ConfirmInv
<1>2. started[n] \in DOMAIN log /\ i \in DOMAIN log /\ Asks(log[i])
  BY <1>1, PlaceFacts DEF Asking, Asks
<1>3. CallsOK(log, calls)
  BY Zenon, ConfirmFacts
<1>4. \E h \in i..started[n] : Confirms(log[h]) /\ log[h].call = log[started[n]].call
  BY Zenon, <1>1, <1>2, <1>3 DEF CallsOK, CallOf
<1> QED
  BY Zenon, <1>4 DEF Confirms, CallOf

----------------------------------------------------------------------------
(* From a handler to the step that runs it.                                *)

\* The rest of the invariant, when the log only grows and the runtime starts nothing.
LEMMA ConfirmRest ==
  ASSUME ControllerInv, ControllerInv', ConfirmInv, Asked(Ctl', calls'), Told(Ctl'),
         Prefix(log, log'), rpos \in 0..rpos', started' = started,
         llm' = "calling" => agent_state' \in {"RUNNING", "ERROR"} /\ ~OnItsWay(Ctl'),
         (log[1].type = "message" /\ cpos' < 2) => calls' = 0 /\ llm' = "idle"
  PROVE  ConfirmInv'
<1>1. Len(log) \in Nat /\ Len(log') \in Nat /\ DOMAIN log = 1..Len(log) /\ rpos \in 0..Len(log)
      /\ rpos' \in 0..Len(log')
  <2>1. log \in Seq(Event)
    BY Zenon, ConfirmFacts
  <2>2. Ctl'.log \in Seq(Event) /\ Ctl'.log = log'
    BY Zenon, PendingTyped, CtlFields DEF Sound, Controller
  <2>3. rpos \in 0..Len(log) /\ rpos' \in 0..Len(log')
    BY Zenon DEF ControllerInv
  <2> QED
    BY <2>1, <2>2, <2>3
<1>2. 1 <= Len(log) /\ Len(log) <= Len(log') /\ log'[1] = log[1]
  BY <1>1 DEF ConfirmInv, Prefix
<1>3. 1 <= Len(log')
  BY <1>1, <1>2
<1>4. log'[1].type = "message" => /\ log'[1].source = "user" /\ 2 <= Len(log')
                                  /\ cpos' < 2 => calls' = 0 /\ llm' = "idle"
  BY <1>1, <1>2 DEF ConfirmInv
<1>5. \A x \in 1..rpos : x \in 1..rpos' /\ log'[x] = log[x]
  BY <1>1 DEF Prefix
<1>6. \A m \in DOMAIN started' :
        /\ started'[m] \in 1..rpos' /\ Startable(log'[started'[m]])
        /\ \A n \in DOMAIN started' : m < n => started'[m] < started'[n]
  BY Zenon, <1>5 DEF ConfirmInv
<1>7. started' \in Seq(Nat)
  BY Zenon DEF ConfirmInv
<1> QED
  BY Zenon, <1>3, <1>4, <1>6, <1>7 DEF ConfirmInv, OnItsWay

\* The first events of a conversation ask nothing of the user.
LEMMA InitConfirm == Init => ConfirmInv
<1> SUFFICES ASSUME Init PROVE ConfirmInv
  BY Zenon
<1> DEFINE wait == Ev("change", "environment", "AWAITING_USER_INPUT")
           first == Ev("message", "user", "")
           go == Ev("change", "environment", "RUNNING")
<1>1. /\ wait.type = "change" /\ wait.arg = "AWAITING_USER_INPUT"
      /\ first.type = "message" /\ first.source = "user"
      /\ go.type = "change" /\ go.arg = "RUNNING"
  BY Zenon DEF Ev
<1>2. log \in {<<wait>>, <<first, go>>}
  BY Zenon DEF Init
<1> HIDE DEF wait, first, go
<1>3. /\ agent_state = "LOADING" /\ pending = NoPending /\ cpos = 0 /\ llm = "idle" /\ calls = 0
      /\ started = <<>>
  BY Zenon DEF Init
<1>4. /\ Len(log) \in {1, 2} /\ DOMAIN log = 1..Len(log)
      /\ log[1] = wait \/ (log[1] = first /\ Len(log) = 2)
      /\ \A i \in DOMAIN log : log[i] = wait \/ log[i] = first \/ (log[i] = go /\ i = 2 /\ log[1] = first)
  <2>1. CASE log = <<wait>>
    <3>1. Len(log) = 1 /\ DOMAIN log = 1..1 /\ log[1] = wait
      BY <2>1
    <3>2. \A i \in 1..1 : i = 1
      OBVIOUS
    <3> QED
      BY Zenon, <3>1, <3>2
  <2>2. CASE log = <<first, go>>
    <3>1. Len(log) = 2 /\ DOMAIN log = 1..2 /\ log[1] = first /\ log[2] = go
      BY <2>2
    <3>2. \A i \in 1..2 : i = 1 \/ i = 2
      OBVIOUS
    <3> QED
      BY Zenon, <3>1, <3>2
  <2> QED
    BY ZenonT(60), <1>2, <2>1, <2>2
<1>5. \A i \in DOMAIN log : /\ log[i].type \notin {"action", "state"}
                            /\ log[i].type = "change" => log[i].arg # "USER_CONFIRMED"
  BY Zenon, <1>1, <1>4
<1>6. CallsOK(log, 0) /\ OwnChanges(log)
  BY Zenon, <1>1, <1>4, <1>5 DEF CallsOK, OwnChanges, Startable, Asks
<1>7. Ctl.log = log /\ Ctl.state = "LOADING" /\ Ctl.pending = NoPending /\ Ctl.pos = 0
  BY Zenon, <1>3 DEF Ctl
<1>8. Asked(Ctl, 0)
  <2>1. \A j \in (0 + 1)..Len(log) : j \in DOMAIN log
    BY <1>4
  <2> QED
    BY ZenonT(60), <1>5, <1>6, <1>7, <2>1, BlankPlain DEF Asked, AskedLast, Confirms
<1>9. Told(Ctl)
  BY Zenon, <1>5, <1>7 DEF Told, Shows
<1>10. 1 <= Len(log) /\ started \in Seq(Nat) /\ DOMAIN started = {}
  BY SMTT(60), <1>3, <1>4
<1>11. log[1].type = "message" => log[1].source = "user" /\ 2 <= Len(log)
  BY <1>1, <1>4
<1> QED
  BY Zenon, <1>3, <1>8, <1>9, <1>10, <1>11 DEF ConfirmInv

----------------------------------------------------------------------------
(* The user, who waits until the controller has taken what they sent.      *)

\* What the client that has shown everything displays.
LEMMA DisplayedFacts ==
  ASSUME ControllerInv, ConfirmInv, Displayed(Len(log)) # "LOADING"
  PROVE  /\ agent_state \in {"LOADING", Displayed(Len(log))}
         /\ \E i \in DOMAIN log : log[i].type = "state"
<1>1. log \in Seq(Event) /\ Len(log) \in Nat /\ DOMAIN log = 1..Len(log)
  BY PlaceFacts
<1>2. Shows(Ctl) /\ Ctl.log = log /\ Ctl.state = agent_state
  BY Zenon, ConfirmFacts, CtlFields DEF Told
<1> DEFINE P(j) == /\ log[j].type = "state"
                   /\ \A h \in (j + 1)..Len(log) : log[h].type # "state"
           c == CHOOSE j \in 1..Len(log) : P(j)
<1>3. \E i \in 1..Len(log) : log[i].type = "state"
  BY Zenon DEF Displayed
<1>4. PICK i \in DOMAIN log :
        /\ log[i].type = "state" /\ (agent_state = "LOADING" \/ log[i].arg = agent_state)
        /\ \A h \in DOMAIN log : h > i => log[h].type # "state"
  BY Zenon, <1>1, <1>2, <1>3 DEF Shows
<1>5. P(i) /\ i \in 1..Len(log)
  BY SMTT(60), <1>1, <1>4
<1>6. c \in 1..Len(log) /\ P(c)
  BY Zenon, <1>5
<1>7. c = i
  <2> HIDE DEF c
  <2>1. ~(c > i)
    BY Zenon, <1>1, <1>4, <1>6
  <2>2. ~(i > c)
    BY <1>4, <1>5, <1>6
  <2> QED
    BY <1>5, <1>6, <2>1, <2>2
<1>8. Displayed(Len(log)) = log[c].arg
  BY Zenon, <1>3 DEF Displayed
<1> QED
  BY Zenon, <1>4, <1>7, <1>8

\* The user's word at the end of the log, with none before it that is still unheard.
LEMMA WordAsked ==
  ASSUME ControllerInv, ControllerInv', ConfirmInv, NEW e \in Event,
         e.type \in {"message", "change"}, e.source = "user", log' = Append(log, e),
         UNCHANGED <<controller, counts, parties>>,
         \A i \in (cpos + 1)..Len(log) :
           ~(log[i].source = "user" /\ log[i].type \in {"message", "change"}),
         Confirms(e) =>
           /\ agent_state \in {"LOADING", "AWAITING_USER_CONFIRMATION"} /\ calls # 0
           /\ Asks(pending.event) => pending.event.call = e.call
  PROVE  ConfirmInv'
<1> DEFINE n == calls
           last == Len(log) + 1
<1>1. /\ n \in Nat /\ Asked(Ctl, n) /\ Told(Ctl) /\ Ctl.log = log /\ Ctl.pending = pending
      /\ Ctl.state = agent_state /\ Ctl.pos = cpos
  BY Zenon, ConfirmFacts, CtlFields
<1>2. /\ log \in Seq(Event) /\ Len(log) \in Nat /\ cpos \in Nat /\ cpos <= Len(log)
      /\ ChangesOK(log)
  BY Zenon, ConfirmFacts
<1>3. UNCHANGED <<agent_state, pending, cpos, llm, calls, rpos, started>>
  BY Zenon DEF controller, counts, parties
<1>4. /\ Ctl'.log = log' /\ Ctl'.pending = pending /\ Ctl'.state = agent_state
      /\ Ctl'.pos = cpos
  BY Zenon, <1>3, CtlFields
<1>5. /\ DOMAIN log' = 1..last /\ DOMAIN log = 1..Len(log) /\ log'[last] = e
      /\ Len(log') = last /\ \A i \in 1..Len(log) : log'[i] = log[i]
      /\ Prefix(log, log')
  BY <1>2, AppendFacts
<1>6. ~Startable(e) /\ ~Asks(e) /\ e.type # "action" /\ e.type # "state"
  BY Zenon DEF Startable, Asks
<1>7. CallsOK(log', n) /\ OwnChanges(log')
  BY Zenon, <1>1, <1>2, <1>6, OtherCalls DEF Asked
<1>8. \A i \in DOMAIN log' : (i = last /\ log'[i] = e) \/ (i \in DOMAIN log /\ log'[i] = log[i])
  BY Zenon, <1>2, AppendPlaces
<1>9. \A i \in DOMAIN log : i \in DOMAIN log' /\ log'[i] = log[i]
  BY Zenon, <1>2, AppendPlaces
<1>10. AskedLast(Ctl')
  <2> SUFFICES ASSUME Asks(pending.event)
               PROVE  /\ pending.id \in DOMAIN log' /\ log'[pending.id] = pending.event
                      /\ \A i \in DOMAIN log' : Asks(log'[i]) => i <= pending.id
                      /\ \A i \in DOMAIN log' :
                           Startable(log'[i]) => log'[i].call # pending.event.call
    BY Zenon, <1>4 DEF AskedLast
  <2>1. /\ pending.id \in DOMAIN log /\ log[pending.id] = pending.event
        /\ \A i \in DOMAIN log : Asks(log[i]) => i <= pending.id
        /\ \A i \in DOMAIN log : Startable(log[i]) => log[i].call # pending.event.call
    BY Zenon, <1>1 DEF Asked, AskedLast
  <2> QED
    BY Zenon, <1>6, <1>8, <1>9, <2>1
<1>11. \A j \in (cpos + 1)..Len(log) : j \in DOMAIN log /\ ~Confirms(log[j])
  <2>1. \A j \in (cpos + 1)..Len(log) : j \in DOMAIN log
    BY <1>2, <1>5
  <2> QED
    BY Zenon, <1>2, <2>1 DEF Confirms, ChangesOK
<1>12. \A j \in (cpos + 1)..Len(log') :
         (j = last /\ log'[j] = e) \/ (j \in (cpos + 1)..Len(log) /\ log'[j] = log[j])
  BY <1>2, <1>5
<1>13. Confirms(e) => Awaits(Ctl', last)
  <2> SUFFICES ASSUME Confirms(e) PROVE Awaits(Ctl', last)
    BY Zenon
  <2>1. agent_state \in {"LOADING", "AWAITING_USER_CONFIRMATION"} /\ calls # 0
    BY Zenon
  <2>2. \/ pending = NoPending
        \/ /\ Asks(pending.event) /\ pending.id < last /\ pending.event.call = e.call
    <3>1. pending = NoPending \/ Asks(pending.event)
      BY Zenon, <1>1, <2>1 DEF Told
    <3>2. Asks(pending.event) => pending.id \in DOMAIN log
      BY Zenon, <1>1 DEF Asked, AskedLast
    <3> QED
      BY <1>2, <1>5, <3>1, <3>2
  <2>3. \A h \in (cpos + 1)..Len(log') : h # last => ~Word(log'[h])
    <3> SUFFICES ASSUME NEW h \in (cpos + 1)..Len(log), Word(log[h]) PROVE FALSE
      BY Zenon, <1>12
    <3>1. log[h].type = "change" /\ log[h].source # "user" /\ log[h].arg # "AWAITING_USER_INPUT"
      BY Zenon DEF Word
    <3>2. h \in DOMAIN log
      BY Zenon, <1>11
    <3>3. h = 2 /\ log[1].type = "message"
      BY Zenon, <1>1, <3>1, <3>2 DEF Asked, OwnChanges
    <3>4. cpos < 2
      BY <1>2, <3>3
    <3> QED
      BY Zenon, <2>1, <3>3, <3>4 DEF ConfirmInv
  <2> QED
    BY ZenonT(60), <1>4, <1>5, <2>1, <2>2, <2>3 DEF Awaits
<1>14. Asked(Ctl', n)
  <2>1. \A j \in (cpos + 1)..Len(log') : Confirms(log'[j]) => Awaits(Ctl', j)
    BY Zenon, <1>11, <1>12, <1>13
  <2>2. pending.event.type = "action" => pending.event.call \in 1..n
    BY Zenon, <1>1 DEF Asked
  <2> QED
    BY ZenonT(60), <1>4, <1>7, <1>10, <2>1, <2>2 DEF Asked
<1>15. Shows(Ctl')
  <2>1. CASE \A i \in DOMAIN log : log[i].type # "state"
    <3>1. \A i \in DOMAIN log' : log'[i].type # "state"
      BY Zenon, <1>6, <1>8, <2>1
    <3> QED
      BY Zenon, <1>4, <3>1 DEF Shows
  <2>2. ASSUME NEW i \in DOMAIN log, log[i].type = "state",
               agent_state = "LOADING" \/ log[i].arg = agent_state,
               \A h \in DOMAIN log : h > i => log[h].type # "state"
        PROVE  Shows(Ctl')
    <3>1. /\ i \in DOMAIN log' /\ log'[i].type = "state"
          /\ (agent_state = "LOADING" \/ log'[i].arg = agent_state)
          /\ \A h \in DOMAIN log' : h > i => log'[h].type # "state"
      BY Zenon, <1>6, <1>8, <1>9, <2>2
    <3> QED
      BY <1>4, <3>1 DEF Shows
  <2> QED
    BY Zenon, <1>1, <2>1, <2>2 DEF Shows, Told
<1>16. Told(Ctl')
  BY Zenon, <1>1, <1>4, <1>15 DEF Told
<1>17. llm' = "calling" => agent_state' \in {"RUNNING", "ERROR"} /\ ~OnItsWay(Ctl')
  <2> SUFFICES ASSUME llm = "calling"
               PROVE  agent_state \in {"RUNNING", "ERROR"} /\ ~OnItsWay(Ctl')
    BY Zenon, <1>3
  <2>1. agent_state \in {"RUNNING", "ERROR"}
    BY Zenon DEF ConfirmInv
  <2>2. ~Confirms(e)
    BY Zenon, <2>1
  <2> QED
    BY <1>4, <1>11, <1>12, <2>1, <2>2 DEF OnItsWay
<1>18. (log[1].type = "message" /\ cpos' < 2) => calls' = 0 /\ llm' = "idle"
  BY Zenon, <1>3 DEF ConfirmInv
<1>19. rpos \in 0..rpos' /\ started' = started
  BY <1>3, PlaceFacts
<1> QED
  BY ZenonT(60), <1>3, <1>5, <1>14, <1>16, <1>17, <1>18, <1>19, ConfirmRest

\* The user's moves: a message, stop, resume, a decision on the action shown.
LEMMA UserConfirm ==
  ASSUME Patient, ControllerInv, ControllerInv', ConfirmInv,
         UserMessage \/ UserDecides \/ UserStops
  PROVE  ConfirmInv'
<1>1. ASSUME NEW k, MaySend(k)
      PROVE  /\ k = Len(log)
             /\ \A i \in (cpos + 1)..Len(log) :
                  ~(log[i].source = "user" /\ log[i].type \in {"message", "change"})
  BY Zenon, <1>1 DEF MaySend
<1>2. ASSUME NEW k, NEW e \in Event, MaySend(k), Send(k, e), e.type \in {"message", "change"},
             e.source = "user",
             Confirms(e) =>
               /\ agent_state \in {"LOADING", "AWAITING_USER_CONFIRMATION"} /\ calls # 0
               /\ Asks(pending.event) => pending.event.call = e.call
      PROVE  ConfirmInv'
  <2>1. log' = Append(log, e) /\ UNCHANGED <<controller, counts, parties>>
    BY Zenon, <1>2 DEF Send
  <2> QED
    BY Zenon, <1>1, <1>2, <2>1, WordAsked
<1>3. CASE UserMessage
  <2>1. PICK k : MaySend(k) /\ Send(k, Ev("message", "user", ""))
    BY Zenon, <1>3 DEF UserMessage
  <2> DEFINE e == Ev("message", "user", "")
  <2>2. e \in Event /\ e.type = "message" /\ e.source = "user"
    BY Zenon DEF Ev, Event
  <2> HIDE DEF e
  <2>3. ~Confirms(e)
    BY Zenon, <2>2 DEF Confirms
  <2> QED
    BY Zenon, <1>2, <2>1, <2>2, <2>3 DEF e
<1>4. CASE UserStops
  <2>1. PICK k \in seen..Len(log), new \in {"STOPPED", "PAUSED"} :
          MaySend(k) /\ Send(k, Ev("change", "user", new))
    BY Zenon, <1>4 DEF UserStops
  <2> DEFINE e == Ev("change", "user", new)
  <2>2. e \in Event /\ e.type = "change" /\ e.source = "user" /\ e.arg = new
    BY Zenon DEF Ev, Event, AgentState
  <2>3. MaySend(k) /\ Send(k, e)
    BY Zenon, <2>1
  <2> HIDE DEF e
  <2>4. ~Confirms(e)
    BY Zenon, <2>2 DEF Confirms
  <2> QED
    BY Zenon, <1>2, <2>2, <2>3, <2>4
<1>5. CASE UserDecides
  <2>1. PICK k \in seen..Len(log), new \in {"USER_CONFIRMED", "USER_REJECTED"} :
          /\ MaySend(k) /\ Displayed(k) = "AWAITING_USER_CONFIRMATION"
          /\ \E i \in Asking(k) :
               /\ \A j \in Asking(k) : j <= i
               /\ Send(k, [Ev("change", "user", new) EXCEPT !.call = log[i].call])
    BY Zenon, <1>5 DEF UserDecides
  <2>2. PICK i \in Asking(k) :
          /\ \A j \in Asking(k) : j <= i
          /\ Send(k, [Ev("change", "user", new) EXCEPT !.call = log[i].call])
    BY Zenon, <2>1
  <2> DEFINE x == log[i].call
             e == [Ev("change", "user", new) EXCEPT !.call = x]
  <2>3. k = Len(log)
    BY Zenon, <1>1, <2>1
  <2>4. /\ log \in Seq(Event) /\ Len(log) \in Nat /\ DOMAIN log = 1..Len(log)
    BY PlaceFacts
  <2>5. i \in DOMAIN log /\ Asks(log[i]) /\ log[i] \in Event
    BY <2>3, <2>4 DEF Asking, Asks
  <2>6. x \in Nat
    BY Zenon, <2>5 DEF Event
  <2>7. Send(k, e)
    BY Zenon, <2>2
  <2> HIDE DEF x
  <2>8. e \in Event /\ e.type = "change" /\ e.source = "user" /\ e.call = x
    <3>1. new \in AgentState
      BY Zenon DEF AgentState
    <3> QED
      BY Zenon, <2>6, <3>1 DEF Ev, Event
  <2> HIDE DEF e
  <2>9. agent_state \in {"LOADING", "AWAITING_USER_CONFIRMATION"}
    BY Zenon, <2>1, <2>3, DisplayedFacts
  <2>10. /\ Asked(Ctl, calls) /\ Ctl.log = log /\ Ctl.pending = pending /\ calls \in Nat
    BY Zenon, ConfirmFacts, CtlFields
  <2>11. calls # 0
    <3>1. log[i].call \in 1..calls
      BY Zenon, <2>5, <2>10 DEF Asked, CallsOK, Asks
    <3> QED
      BY <2>10, <3>1
  <2>12. Asks(pending.event) => pending.event.call = e.call
    <3> SUFFICES ASSUME Asks(pending.event) PROVE pending.event.call = x
      BY Zenon, <2>8
    <3>1. /\ pending.id \in DOMAIN log /\ log[pending.id] = pending.event
          /\ \A j \in DOMAIN log : Asks(log[j]) => j <= pending.id
      BY Zenon, <2>10 DEF Asked, AskedLast
    <3>2. pending.id \in Asking(k)
      BY Zenon, <2>3, <2>4, <3>1 DEF Asking, Asks
    <3>3. pending.id <= i /\ i <= pending.id
      BY ZenonT(60), <2>2, <2>5, <3>1, <3>2
    <3>4. pending.id = i
      BY <2>4, <2>5, <3>1, <3>3
    <3> QED
      BY Zenon, <3>1, <3>4 DEF x
  <2> QED
    BY ZenonT(60), <1>2, <2>1, <2>7, <2>8, <2>9, <2>11, <2>12
<1> QED
  BY Zenon, <1>3, <1>4, <1>5

----------------------------------------------------------------------------
(* A death, the runtime and the memory.                                    *)

\* The server dies: nothing is pending, and the log so far is taken.
LEMMA CrashConfirm ==
  ASSUME ControllerInv, ControllerInv', ConfirmInv, CrashRestart
  PROVE  ConfirmInv'
<1> DEFINE n == calls
           e == Ev("change", "environment", "AWAITING_USER_INPUT")
           last == Len(log) + 1
<1>1. e \in Event /\ e.type = "change" /\ e.arg = "AWAITING_USER_INPUT"
  BY Zenon DEF Ev, Event, AgentState
<1>2. /\ log' = Append(log, e) /\ agent_state' = "LOADING" /\ pending' = NoPending
      /\ cpos' = Len(log) /\ rpos' = Len(log) /\ llm' = "idle"
      /\ UNCHANGED <<started, calls>>
  BY Zenon DEF CrashRestart, counts
<1> HIDE DEF e
<1>3. /\ n \in Nat /\ Asked(Ctl, n) /\ Told(Ctl) /\ Ctl.log = log
  BY Zenon, ConfirmFacts, CtlFields
<1>4. log \in Seq(Event) /\ Len(log) \in Nat /\ rpos \in 0..Len(log)
  BY Zenon, PlaceFacts
<1>5. /\ Ctl'.log = log' /\ Ctl'.pending = NoPending /\ Ctl'.state = "LOADING"
      /\ Ctl'.pos = Len(log)
  BY Zenon, <1>2, CtlFields
<1>6. /\ DOMAIN log' = 1..last /\ DOMAIN log = 1..Len(log) /\ log'[last] = e
      /\ Len(log') = last /\ \A i \in 1..Len(log) : log'[i] = log[i]
      /\ Prefix(log, log')
  BY Zenon, <1>1, <1>2, <1>4, AppendFacts
<1>7. ~Startable(e) /\ ~Asks(e) /\ ~Confirms(e)
  BY Zenon, <1>1 DEF Startable, Asks, Confirms
<1>8. CallsOK(log', n) /\ OwnChanges(log')
  BY ZenonT(60), <1>1, <1>2, <1>3, <1>4, <1>7, OtherCalls DEF Asked
<1>9. \A j \in (Len(log) + 1)..Len(log') : log'[j] = e
  BY <1>4, <1>6
<1>10. Asked(Ctl', n)
  BY Zenon, <1>5, <1>7, <1>8, <1>9, BlankPlain DEF Asked, AskedLast
<1>11. Shows(Ctl')
  <2>1. \A i \in DOMAIN log' : (i = last /\ log'[i] = e) \/ (i \in DOMAIN log /\ log'[i] = log[i])
    BY Zenon, <1>1, <1>2, <1>4, AppendPlaces
  <2>2. \A i \in DOMAIN log : i \in DOMAIN log' /\ log'[i] = log[i]
    BY Zenon, <1>1, <1>2, <1>4, AppendPlaces
  <2>3. CASE \A i \in DOMAIN log : log[i].type # "state"
    <3>1. \A i \in DOMAIN log' : log'[i].type # "state"
      BY Zenon, <1>1, <2>1, <2>3
    <3> QED
      BY Zenon, <1>5, <3>1 DEF Shows
  <2>4. ASSUME NEW i \in DOMAIN log, log[i].type = "state",
               \A h \in DOMAIN log : h > i => log[h].type # "state"
        PROVE  Shows(Ctl')
    <3>1. /\ i \in DOMAIN log' /\ log'[i].type = "state"
          /\ \A h \in DOMAIN log' : h > i => log'[h].type # "state"
      BY Zenon, <1>1, <2>1, <2>2, <2>4
    <3> QED
      BY Zenon, <1>5, <3>1 DEF Shows
  <2> QED
    BY Zenon, <1>3, <2>3, <2>4 DEF Shows, Told
<1>12. Told(Ctl')
  BY Zenon, <1>5, <1>11 DEF Told
<1>13. (log[1].type = "message" /\ cpos' < 2) => calls' = 0 /\ llm' = "idle"
  BY <1>2, <1>4 DEF ConfirmInv
<1> QED
  BY ZenonT(60), <1>2, <1>4, <1>6, <1>10, <1>12, <1>13, ConfirmRest

\* The runtime begins to execute an action that lies behind those it began before.
LEMMA StartsConfirm ==
  ASSUME ControllerInv, ControllerInv', ConfirmInv, RuntimeStarts
  PROVE  ConfirmInv'
<1>1. PICK i \in NextOf({"action", "think"}, rpos) :
        /\ log[i].type = "action" /\ log[i].conf \in {"none", "confirmed"}
        /\ rpos' = i /\ started' = Append(started, i)
  BY Zenon DEF RuntimeStarts
<1>2. UNCHANGED <<log, agent_state, pending, cpos, llm, calls>>
  BY Zenon DEF RuntimeStarts, controller, counts
<1>3. i \in Nat /\ rpos \in Nat /\ rpos < i
  <2>1. rpos \in 0..Len(log) /\ Len(log) \in Nat
    BY Zenon, PlaceFacts
  <2>2. i \in (rpos + 1)..Len(log)
    BY Zenon DEF NextOf
  <2> QED
    BY <2>1, <2>2
<1>4. started \in Seq(Nat) /\ \A m \in DOMAIN started : started[m] \in 1..rpos
  BY Zenon DEF ConfirmInv
<1> DEFINE k == Len(started) + 1
<1>5. /\ started' \in Seq(Nat) /\ DOMAIN started' = 1..k /\ started'[k] = i
      /\ DOMAIN started = 1..Len(started) /\ Len(started) \in Nat
      /\ \A m \in 1..Len(started) : started'[m] = started[m]
  BY <1>1, <1>3, <1>4
<1>6. \A m \in DOMAIN started' :
        (m = k /\ started'[m] = i) \/ (m \in DOMAIN started /\ started'[m] = started[m] /\ m < k)
  BY <1>5
<1>7. \A x \in 1..rpos : x \in 1..i /\ x < i
  BY <1>3
<1>8. i \in 1..i /\ Startable(log[i])
  BY <1>1, <1>3 DEF Startable
<1>9. \A m \in DOMAIN started' : started'[m] \in 1..rpos' /\ Startable(log'[started'[m]])
  BY ZenonT(60), <1>1, <1>2, <1>4, <1>6, <1>7, <1>8 DEF ConfirmInv
<1>10. \A m, n \in DOMAIN started' : m < n => started'[m] < started'[n]
  <2> SUFFICES ASSUME NEW m \in DOMAIN started', NEW n \in DOMAIN started', m < n
               PROVE  started'[m] < started'[n]
    BY Zenon
  <2>1. m \in DOMAIN started /\ started'[m] = started[m]
    BY <1>5, <1>6
  <2>2. CASE n = k
    BY Zenon, <1>4, <1>5, <1>7, <2>1, <2>2
  <2>3. CASE n # k
    <3>1. n \in DOMAIN started /\ started'[n] = started[n]
      BY Zenon, <1>6, <2>3
    <3> QED
      BY Zenon, <2>1, <3>1 DEF ConfirmInv
  <2> QED
    BY Zenon, <2>2, <2>3
<1>11. /\ Ctl'.log = Ctl.log /\ Ctl'.state = Ctl.state /\ Ctl'.pending = Ctl.pending
       /\ Ctl'.pos = Ctl.pos
  BY Zenon, <1>2, CtlFields
<1>12. Asked(Ctl', calls) /\ Told(Ctl') /\ (OnItsWay(Ctl') <=> OnItsWay(Ctl))
  <2>1. Sound(Ctl) /\ Sound(Ctl') /\ Asked(Ctl, calls) /\ Told(Ctl)
    BY Zenon, ConfirmFacts, PendingTyped
  <2>2. Follows(Ctl, Ctl', calls) /\ Told(Ctl')
    BY Zenon, <1>11, <2>1, SameAsked
  <2> QED
    BY Zenon, <1>11, <2>2 DEF Follows, OnItsWay
<1> QED
  BY ZenonT(60), <1>2, <1>5, <1>9, <1>10, <1>12 DEF ConfirmInv

\* A step that leaves the controller alone and adds at most a plain event.
LEMMA PartyConfirm ==
  ASSUME ControllerInv, ControllerInv', ConfirmInv, UNCHANGED <<controller, counts, started>>,
         rpos \in 0..rpos', NEW e, Plain(e, calls), e.type # "state",
         log' \in {log, Append(log, e)}
  PROVE  ConfirmInv'
<1> DEFINE n == calls
<1>1. Sound(Ctl) /\ Sound(Ctl') /\ n \in Nat /\ Asked(Ctl, n) /\ Told(Ctl)
  <2>1. Sound(Ctl')
    BY Zenon DEF ControllerInv, Sound
  <2> QED
    BY Zenon, <2>1 DEF ControllerInv, ConfirmInv
<1>2. UNCHANGED <<agent_state, pending, cpos, llm, calls>>
  BY Zenon DEF controller, counts
<1>3. PICK d \in {Ctl, Add(Ctl, e)} :
        d.log = log' /\ d.state = agent_state /\ d.pending = pending /\ d.pos = cpos
  BY Zenon DEF Add, Ctl
<1>4. Ctl'.log = log' /\ Ctl'.state = agent_state /\ Ctl'.pending = pending /\ Ctl'.pos = cpos
  BY Zenon, <1>2 DEF Ctl
<1>5. /\ Follows(Ctl, d, n) /\ Told(d) /\ (OnItsWay(d) <=> OnItsWay(Ctl))
  BY Zenon, <1>1, AddAsked, SameAsked
<1>6. Sound(d) /\ Asked(d, n) /\ Prefix(log, log')
  BY Zenon, <1>3, <1>5 DEF Follows, Ctl
<1>7. Asked(Ctl', n) /\ Told(Ctl')
  <2>1. Follows(d, Ctl', n) /\ Told(Ctl')
    BY Zenon, <1>1, <1>3, <1>4, <1>5, <1>6, SameAsked
  <2> QED
    BY Zenon, <2>1 DEF Follows
<1>8. OnItsWay(Ctl') <=> OnItsWay(Ctl)
  BY Zenon, <1>3, <1>4, <1>5 DEF OnItsWay
<1>9. /\ llm' = "calling" => agent_state' \in {"RUNNING", "ERROR"} /\ ~OnItsWay(Ctl')
      /\ (log[1].type = "message" /\ cpos' < 2) => calls' = 0 /\ llm' = "idle"
  BY Zenon, <1>2, <1>8 DEF ConfirmInv
<1> QED
  BY Zenon, <1>2, <1>6, <1>7, <1>9, ConfirmRest

\* The runtime executes an action, or passes an event by.
LEMMA RuntimeConfirm ==
  ASSUME ControllerInv, ControllerInv', ConfirmInv, RuntimeAnswers \/ RuntimeEnds
  PROVE  ConfirmInv'
<1>1. UNCHANGED <<controller, counts, started>>
  BY Zenon DEF RuntimeAnswers, RuntimeEnds
<1>2. CASE RuntimeAnswers
  <2>1. PICK i \in NextOf({"action", "think"}, rpos) :
          /\ \/ log' = Append(log, RuntimeObs(i, "result"))
             \/ log' = log
             \/ log' = Append(log, RuntimeObs(i, "user_reject"))
          /\ rpos' = i
    BY Zenon, <1>2 DEF RuntimeAnswers
  <2>2. i \in 1..Len(log) /\ i \in Nat /\ log[i] \in Event
    BY PlaceFacts
  <2>3. rpos \in 0..i
    BY PlaceFacts DEF NextOf
  <2>4. /\ RuntimeObs(i, "result") \in Event /\ RuntimeObs(i, "result").type = "obs"
        /\ RuntimeObs(i, "user_reject") \in Event /\ RuntimeObs(i, "user_reject").type = "obs"
    BY Zenon, <2>2, RuntimeObsFacts
  <2>5. PICK e \in Event : e.type = "obs" /\ log' \in {log, Append(log, e)}
    BY Zenon, <2>1, <2>4
  <2> QED
    BY ZenonT(60), <1>1, <2>1, <2>3, <2>5, ObsPlain, PartyConfirm
<1>3. CASE RuntimeEnds
  <2>1. running \in 1..Len(log) /\ running \in Nat /\ log[running] \in Event
    BY <1>3, PlaceFacts DEF RuntimeEnds
  <2>2. RuntimeObs(running, "result") \in Event /\ RuntimeObs(running, "result").type = "obs"
    BY Zenon, <2>1, RuntimeObsFacts
  <2>3. log' \in {log, Append(log, RuntimeObs(running, "result"))} /\ rpos' = rpos
    BY Zenon, <1>3 DEF RuntimeEnds
  <2>4. rpos \in 0..rpos'
    BY <2>3, PlaceFacts
  <2> QED
    BY ZenonT(60), <1>1, <2>2, <2>3, <2>4, ObsPlain, PartyConfirm
<1> QED
  BY Zenon, <1>2, <1>3

\* The memory answers a recall, or passes an event by.
LEMMA MemoryConfirm ==
  ASSUME ControllerInv, ControllerInv', ConfirmInv,
         MemoryAnswers \/ MemoryFails \/ MemoryLoopRuns
  PROVE  ConfirmInv'
<1>1. UNCHANGED <<controller, counts, started, rpos>>
  BY Zenon DEF MemoryAnswers, MemoryFails, MemoryLoopRuns
<1>2. rpos \in 0..rpos'
  BY <1>1, PlaceFacts
<1>3. CASE MemoryAnswers
  <2>1. PICK i \in NextOf({"recall"}, mpos) :
          \/ \E t \in {"obs", "null_obs"} :
               log' = Append(log, [Ev(t, "environment", "result") EXCEPT !.cause = i])
          \/ log' = log
    BY Zenon, <1>3 DEF MemoryAnswers
  <2>2. i \in Nat
    BY PlaceFacts
  <2>3. \A t \in {"obs", "null_obs"} :
          /\ [Ev(t, "environment", "result") EXCEPT !.cause = i] \in Event
          /\ [Ev(t, "environment", "result") EXCEPT !.cause = i].type = t
    BY Zenon, <2>2 DEF Ev, Event
  <2>4. Blank \in Event /\ Blank.type = "none"
    BY Zenon DEF Blank, Ev, Event
  <2>5. PICK e \in Event : /\ e.type \in {"obs", "null_obs", "none"}
                           /\ log' \in {log, Append(log, e)}
    BY Zenon, <2>1, <2>3, <2>4
  <2> QED
    BY Zenon, <1>1, <1>2, <2>5, ObsPlain, PartyConfirm
<1>4. CASE MemoryFails \/ MemoryLoopRuns
  <2>1. log' = log
    BY Zenon, <1>4 DEF MemoryFails, MemoryLoopRuns
  <2>2. Blank \in Event /\ Blank.type = "none"
    BY Zenon DEF Blank, Ev, Event
  <2> QED
    BY Zenon, <1>1, <1>2, <2>1, <2>2, ObsPlain, PartyConfirm
<1> QED
  BY Zenon, <1>3, <1>4

----------------------------------------------------------------------------
(* The controller.                                                         *)

\* on_event
LEMMA HandleConfirm ==
  ASSUME ControllerInv, ControllerInv', ConfirmInv, HandleOnly \/ HandleAndStep
  PROVE  ConfirmInv'
<1>1. PICK i \in NextOf(ControllerTypes, cpos) :
        LET c == Handle([Ctl EXCEPT !.pos = i], log[i], i)
            counted == [c EXCEPT !.flag = Counted(@)]
        IN \/ Becomes(c) /\ llm' = "idle"
           \/ /\ c.state = "RUNNING" /\ c.pending = NoPending
              /\ \/ Becomes(React(c)) /\ llm' = "idle"
                 \/ Becomes(React([c EXCEPT !.flag.hit = TRUE])) /\ llm' = "idle"
                 \/ ~ReachedLimit(c.flag) /\ Becomes(React(counted)) /\ llm' = "idle"
                 \/ ~ReachedLimit(c.flag) /\ Becomes(counted) /\ llm' = "calling"
  BY Zenon DEF HandleOnly, HandleAndStep
<1>2. UNCHANGED <<rpos, started, calls>>
  BY Zenon DEF HandleOnly, HandleAndStep, parties
<1> DEFINE b == [Ctl EXCEPT !.pos = i]
           c == Handle(b, log[i], i)
           n == calls
           counted == [c EXCEPT !.flag = Counted(@)]
           hit == [c EXCEPT !.flag.hit = TRUE]
<1>3. /\ Follows(b, c, n) /\ Told(c) /\ b.log = log /\ b.pos = i /\ Sound(b)
      /\ (log[i].type = "message" /\ log[i].source = "user") => c.pending # NoPending
  BY Zenon, HandleAsked
<1>4. Sound(c) /\ Asked(c, n) /\ c.pos = i /\ Prefix(log, c.log) /\ Shows(c)
  BY Zenon, <1>3 DEF Follows, Told
<1>5. n \in Nat /\ rpos \in 0..rpos' /\ cpos \in Nat /\ i \in Nat /\ cpos < i
  <2>1. rpos \in Nat /\ n \in Nat
    BY CtlFacts DEF ControllerInv
  <2>2. i \in (cpos + 1)..Len(log) /\ cpos \in Nat /\ Len(log) \in Nat
    BY Zenon, CtlFacts DEF ControllerInv, NextOf
  <2> QED
    BY SMTT(60), <1>2, <2>1, <2>2
<1>6. (log[1].type = "message" /\ i < 2) => calls' = 0 /\ c.pending # NoPending
  <2> SUFFICES ASSUME log[1].type = "message", i < 2
               PROVE  calls' = 0 /\ c.pending # NoPending
    BY Zenon
  <2>1. i = 1 /\ cpos < 2
    BY <1>5
  <2>2. calls = 0 /\ log[1].source = "user"
    BY Zenon, <2>1 DEF ConfirmInv
  <2> QED
    BY ZenonT(60), <1>2, <1>3, <2>1, <2>2
<1> HIDE DEF b, c
<1>7. c \in Controller /\ c.flag \in Flag /\ c.resumes \in Nat /\ Granted(c.flag, c.resumes)
  BY Zenon, <1>4 DEF Sound, Controller
<1>8. /\ Sound(hit) /\ hit.state = c.state /\ hit.pending = c.pending /\ hit.log = c.log
      /\ hit.pos = c.pos
  <2> DEFINE h == [c.flag EXCEPT !.hit = TRUE]
             x == [c EXCEPT !.flag = h]
  <2>1. hit = x
    BY Zenon, <1>7 DEF Controller
  <2>2. h \in Flag /\ h.cur = c.flag.cur /\ h.max = c.flag.max
    BY Zenon, <1>7, FlagSet
  <2> HIDE DEF h
  <2>3. Granted(h, c.resumes)
    BY Zenon, <1>7, <2>2 DEF Granted
  <2>4. Sound(x)
    BY Zenon, <1>4, <2>2, <2>3, FlagSound
  <2>5. x.state = c.state /\ x.pending = c.pending /\ x.log = c.log /\ x.pos = c.pos
    BY Zenon, <1>7 DEF Controller
  <2> QED
    BY Zenon, <2>1, <2>4, <2>5
<1>9. ASSUME ~ReachedLimit(c.flag)
      PROVE  /\ Sound(counted) /\ counted.state = c.state /\ counted.pending = c.pending
             /\ counted.log = c.log /\ counted.pos = c.pos
  <2> DEFINE g == Counted(c.flag)
             x == [c EXCEPT !.flag = g]
  <2>1. counted = x
    BY Zenon, <1>7 DEF Controller
  <2>2. g \in Flag /\ g.cur = c.flag.cur + 1 /\ g.max = c.flag.max
    BY Zenon, <1>7, FlagSet
  <2>3. c.flag.cur \in Nat /\ c.flag.max \in Nat
    BY Zenon, <1>7 DEF Flag
  <2> HIDE DEF g
  <2>4. Granted(g, c.resumes)
    BY <1>7, <1>9, <2>2, <2>3 DEF Granted, ReachedLimit
  <2>5. Sound(x)
    BY ZenonT(60), <1>4, <2>2, <2>4, FlagSound
  <2>6. x.state = c.state /\ x.pending = c.pending /\ x.log = c.log /\ x.pos = c.pos
    BY Zenon, <1>7 DEF Controller
  <2> QED
    BY Zenon, <2>1, <2>5, <2>6
<1> HIDE DEF hit, counted
<1>10. ASSUME NEW d, Follows(b, d, n), Told(d), Becomes(d),
              llm' = "calling" => d.state = "RUNNING" /\ c.pending = NoPending,
              llm' \in {"idle", "calling"}
       PROVE  ConfirmInv'
  <2>1. Sound(d) /\ Asked(d, n) /\ d.pos = i /\ Prefix(log, d.log)
    BY Zenon, <1>3, <1>10 DEF Follows
  <2>2. Ctl' = d /\ log' = d.log /\ agent_state' = d.state /\ cpos' = d.pos
    BY Zenon, <1>10, <2>1, BecomesFacts
  <2>3. d.state = "RUNNING" => ~OnItsWay(d)
    BY Zenon, <2>1 DEF Asked, Awaits, OnItsWay
  <2>4. (log[1].type = "message" /\ cpos' < 2) => calls' = 0 /\ llm' = "idle"
    BY ZenonT(60), <1>6, <1>10, <2>1, <2>2
  <2> QED
    BY ZenonT(60), <1>2, <1>5, <1>10, <2>1, <2>2, <2>3, <2>4, ConfirmRest
<1>11. ASSUME NEW x, Sound(x), x.state = c.state, x.pending = c.pending, x.log = c.log,
              x.pos = c.pos
       PROVE  /\ Follows(b, x, n) /\ Told(x)
              /\ Follows(b, React(x), n) /\ Told(React(x))
  <2>1. Follows(c, x, n) /\ Told(x)
    BY ZenonT(60), <1>3, <1>4, <1>11, SameAsked
  <2>2. Asked(x, n) /\ Shows(x)
    BY Zenon, <2>1 DEF Follows, Told
  <2>3. Follows(x, React(x), n) /\ Told(React(x))
    BY ZenonT(60), <1>5, <1>11, <2>2, ReactAsked
  <2>4. Follows(b, x, n)
    BY Zenon, <1>3, <2>1, FollowsOn
  <2> QED
    BY ZenonT(60), <1>3, <2>1, <2>3, <2>4, FollowsOn
<1>12. \/ Becomes(c) /\ llm' = "idle"
       \/ Becomes(React(c)) /\ llm' = "idle"
       \/ Becomes(React(hit)) /\ llm' = "idle"
       \/ ~ReachedLimit(c.flag) /\ Becomes(React(counted)) /\ llm' = "idle"
       \/ /\ c.state = "RUNNING" /\ c.pending = NoPending
          /\ ~ReachedLimit(c.flag) /\ Becomes(counted) /\ llm' = "calling"
  BY Zenon, <1>1 DEF c, b, hit, counted
<1>13. CASE Becomes(c) /\ llm' = "idle"
  BY ZenonT(60), <1>3, <1>10, <1>13
<1>14. CASE Becomes(React(c)) /\ llm' = "idle"
  BY ZenonT(60), <1>4, <1>10, <1>11, <1>14
<1>15. CASE Becomes(React(hit)) /\ llm' = "idle"
  BY ZenonT(60), <1>8, <1>10, <1>11, <1>15
<1>16. CASE ~ReachedLimit(c.flag) /\ Becomes(React(counted)) /\ llm' = "idle"
  BY ZenonT(60), <1>9, <1>10, <1>11, <1>16
<1>17. CASE /\ c.state = "RUNNING" /\ c.pending = NoPending
            /\ ~ReachedLimit(c.flag) /\ Becomes(counted) /\ llm' = "calling"
  BY ZenonT(60), <1>9, <1>10, <1>11, <1>17
<1> QED
  BY ZenonT(60), <1>12, <1>13, <1>14, <1>15, <1>16, <1>17

\* agent.step returns a runnable action.
LEMMA ActsConfirm ==
  ASSUME ControllerInv, ControllerInv', ConfirmInv, LLMActs
  PROVE  ConfirmInv'
<1> DEFINE n == calls
<1>1. /\ Sound(Ctl) /\ n \in Nat /\ Asked(Ctl, n) /\ Told(Ctl) /\ ~OnItsWay(Ctl)
      /\ agent_state \in {"RUNNING", "ERROR"} /\ ~(log[1].type = "message" /\ cpos < 2)
  BY Zenon DEF ControllerInv, ConfirmInv, LLMActs
<1>2. /\ UNCHANGED <<rpos, started>> /\ calls' = n + 1 /\ llm' = "idle" /\ rpos \in 0..rpos'
  BY DEF LLMActs, parties, ControllerInv
<1>3. /\ log \in Seq(Event) /\ Len(log) \in Nat /\ cpos \in Nat
  BY Zenon, <1>1, CtlFacts
<1>4. Ctl.log = log /\ Ctl.pos = cpos /\ Ctl.state = agent_state
  BY Zenon DEF Ctl
<1>6. PICK o \in {"run", "ask"} :
        LET e == [Ev("action", "agent", "") EXCEPT
                    !.call = calls + 1, !.conf = IF o = "ask" THEN "awaiting" ELSE "none"]
            held == [Ctl EXCEPT !.pending = [id |-> 0, event |-> e]]
            put == IF o = "ask" THEN set_agent_state_to(held, "AWAITING_USER_CONFIRMATION")
                   ELSE held
        IN Becomes([Add(put, e) EXCEPT !.pending.id = Len(put.log) + 1])
  BY ZenonT(60) DEF LLMActs
<1> DEFINE conf == IF o = "ask" THEN "awaiting" ELSE "none"
           e == [Ev("action", "agent", "") EXCEPT !.call = n + 1, !.conf = conf]
           zero == [id |-> 0, event |-> e]
           held == [Ctl EXCEPT !.pending = zero]
           put == IF o = "ask" THEN set_agent_state_to(held, "AWAITING_USER_CONFIRMATION")
                  ELSE held
<1>7. Becomes(Publish(put, e, Len(put.log) + 1))
  BY Zenon, <1>6 DEF Publish
<1>8. /\ e \in Event /\ e.type = "action" /\ e.call = n + 1
      /\ e.conf = conf
  <2>1. conf \in {"awaiting", "none"} /\ n + 1 \in Nat
    BY <1>1
  <2> HIDE DEF conf
  <2> QED
    BY Zenon, <2>1 DEF Ev, Event
<1> HIDE DEF e
<1>9. n + 1 \in Nat /\ n + 1 \in 1..(n + 1)
  BY <1>1
<1>10. CASE o = "run"
  <2>1. put = held /\ e.conf = "none"
    BY Zenon, <1>8, <1>10
  <2> DEFINE p == [id |-> Len(log) + 1, event |-> e]
             d == [Add(Ctl, e) EXCEPT !.pending = p]
  <2>2. held.log = log
    BY Zenon DEF Ctl
  <2> DEFINE x == Publish(held, e, Len(log) + 1)
  <2>3. /\ x.log = Append(log, e) /\ x.pos = cpos /\ x.state = agent_state
        /\ x.pending.id = p.id /\ x.pending.event = p.event
    <3>1. held \in Controller
      <4>1. Ctl \in Controller /\ zero \in Pending
        BY Zenon, <1>1, <1>8 DEF Sound, Pending
      <4> QED
        BY Zenon, <4>1 DEF Controller
    <3>2. held.log = log /\ held.pos = cpos /\ held.state = agent_state /\ held.pending = zero
      BY Zenon DEF Ctl
    <3> HIDE DEF held
    <3>3. /\ x.log = Append(held.log, e) /\ x.pos = held.pos /\ x.state = held.state
          /\ x.pending.id = Len(log) + 1 /\ x.pending.event = held.pending.event
      BY <3>1, PublishHeld
    <3> QED
      BY <3>2, <3>3
  <2>4. Becomes(x)
    BY Zenon, <1>7, <2>1, <2>2
  <2> HIDE DEF x
  <2>5. p \in Pending /\ p.event = e
    BY <1>3, <1>8 DEF Pending
  <2> HIDE DEF p
  <2>6. CallsOK(Append(log, e), n + 1) /\ OwnChanges(Append(log, e))
    BY ZenonT(60), <1>1, <1>3, <1>4, <1>8, <2>1, FreshCalls DEF Asked
  <2>7. ~Asks(e)
    BY Zenon, <2>1 DEF Asks
  <2>8. /\ Follows(Ctl, d, n + 1) /\ d.state = agent_state /\ d.log = Append(log, e)
    BY SMTT(60), <1>1, <1>4, <1>8, <1>9, <2>5, <2>6, <2>7, Republish
  <2>9. Sound(d) /\ Asked(d, n + 1) /\ Prefix(log, d.log) /\ d.pos = cpos
    BY Zenon, <1>4, <2>8 DEF Follows
  <2>10. d.pending = p
    BY Zenon DEF Ctl, Add
  <2> HIDE DEF d
  <2>11. Told(d)
    <3>1. Plain(e, n + 1) \/ ~Asks(e)
      BY Zenon, <2>7
    <3>2. Shows(d)
      <4> DEFINE m == Append(log, e)
      <4>1. /\ DOMAIN m = 1..(Len(log) + 1) /\ DOMAIN log = 1..Len(log)
            /\ m[Len(log) + 1] = e /\ \A i \in 1..Len(log) : m[i] = log[i]
        BY ZenonT(60), <1>3, <1>8, AppendFacts
      <4> HIDE DEF m
      <4>2. /\ \A i \in DOMAIN m : (i = Len(log) + 1 /\ m[i] = e) \/ (i \in DOMAIN log /\ m[i] = log[i])
            /\ \A i \in DOMAIN log : i \in DOMAIN m /\ m[i] = log[i]
        BY <1>3, <4>1
      <4>3. Shows(Ctl)
        BY Zenon, <1>1 DEF Told
      <4>4. CASE \A i \in DOMAIN log : log[i].type # "state"
        <5>1. \A i \in DOMAIN m : m[i].type # "state"
          BY Zenon, <1>8, <4>2, <4>4
        <5> QED
          BY Zenon, <2>8, <5>1 DEF Shows, m
      <4>5. ASSUME NEW i \in DOMAIN log, log[i].type = "state", log[i].arg = agent_state,
                   \A h \in DOMAIN log : h > i => log[h].type # "state"
            PROVE  Shows(d)
        <5>1. /\ i \in DOMAIN m /\ m[i].type = "state" /\ m[i].arg = d.state
              /\ \A h \in DOMAIN m : h > i => m[h].type # "state"
          BY ZenonT(60), <1>8, <2>8, <4>2, <4>5
        <5> QED
          BY Zenon, <2>8, <5>1 DEF Shows, m
      <4> QED
        BY ZenonT(60), <1>1, <1>4, <4>3, <4>4, <4>5 DEF Shows
    <3> QED
      BY Zenon, <1>1, <2>8, <3>2 DEF Told
  <2>12. log' = x.log /\ cpos' = x.pos /\ agent_state' = x.state /\ pending' = x.pending
    BY Zenon, <2>4 DEF Becomes
  <2>15. pending' = p
    <3>1. pending' \in Pending
      BY Zenon, PendingTyped
    <3>2. pending'.id = p.id /\ pending'.event = p.event
      BY Zenon, <2>3, <2>12
    <3> QED
      BY <2>5, <3>1, <3>2 DEF Pending
  <2>13. /\ Ctl'.log = d.log /\ Ctl'.pos = d.pos /\ Ctl'.state = d.state
         /\ Ctl'.pending = d.pending
    BY ZenonT(60), <2>3, <2>8, <2>9, <2>10, <2>12, <2>15 DEF Ctl
  <2>14. Asked(Ctl', n + 1) /\ Told(Ctl')
    BY <2>9, <2>11, <2>13 DEF Asked, AskedLast, Awaits, Told, Shows
  <2> QED
    BY ZenonT(60), <1>1, <1>2, <2>3, <2>8, <2>9, <2>12, <2>14, ConfirmRest
<1>11. CASE o = "ask"
  <2> DEFINE new == "AWAITING_USER_CONFIRMATION"
             st == Ev("state", "environment", new)
             d == Publish(put, e, Len(put.log) + 1)
  <2>1. e.conf = "awaiting" /\ put = set_agent_state_to(held, new)
    BY Zenon, <1>8, <1>11
  <2>2. put = [Add([held EXCEPT !.state = new], st) EXCEPT !.saved = flag]
    <3>1. held.state # new /\ held.pending # NoPending
      <4>1. Blank.type = "none"
        BY Zenon DEF Blank, Ev
      <4> QED
        BY Zenon, <1>1, <1>8, <4>1 DEF Ctl, NoPending
    <3>2. set_agent_state_to(held, new) =
            [Add([held EXCEPT !.state = new], st) EXCEPT
               !.saved = Add([held EXCEPT !.state = new], st).flag]
      BY Zenon, <3>1 DEF set_agent_state_to
    <3>3. Add([held EXCEPT !.state = new], st).flag = flag
      BY Zenon DEF Add, Ctl
    <3> QED
      BY Zenon, <2>1, <3>2, <3>3
  <2>3. /\ put.log = Append(log, st) /\ put.pending = zero /\ put.state = new /\ put.pos = cpos
    BY ZenonT(60), <2>2 DEF Add, Ctl
  <2>4. st \in Event /\ st.type = "state" /\ st.arg = new
    BY Zenon DEF Ev, Event, AgentState
  <2> HIDE DEF st
  <2>5. Plain(st, n)
    BY Zenon, <2>4 DEF Plain, Word, Startable, Asks
  <2>6. Len(put.log) + 1 = Len(log) + 2
    <3>1. Len(Append(log, st)) = Len(log) + 1
      BY Zenon, <1>3, <2>4, AppendFacts
    <3> QED
      BY <1>3, <2>3, <3>1
  <2>7. /\ d.log = Append(Append(log, st), e) /\ d.pos = cpos /\ d.state = new
        /\ d.pending.id = Len(log) + 2 /\ d.pending.event = e
    <3>1. put \in Controller
      <4>1. Ctl \in Controller /\ zero \in Pending
        BY Zenon, <1>1, <1>8 DEF Sound, Pending
      <4>2. held \in Controller
        BY Zenon, <4>1 DEF Controller
      <4>3. Append(log, st) \in Seq(Event) /\ new \in AgentState
        BY <1>3, <2>4 DEF AgentState
      <4>4. held.log = log /\ flag = held.flag
        BY Zenon DEF Ctl
      <4> HIDE DEF held
      <4>5. put = [[[held EXCEPT !.state = new] EXCEPT !.log = Append(@, st)]
                     EXCEPT !.saved = flag]
        BY Zenon, <2>2 DEF Add
      <4> QED
        BY Zenon, <4>2, <4>3, <4>4, <4>5 DEF Controller
    <3> HIDE DEF put
    <3>2. /\ d.log = Append(put.log, e) /\ d.pos = put.pos /\ d.state = put.state
          /\ d.pending.id = Len(put.log) + 1 /\ d.pending.event = put.pending.event
      BY <3>1, PublishHeld
    <3> QED
      BY <2>3, <2>6, <3>2
  <2> HIDE DEF put
  <2>8. Becomes(d)
    BY Zenon, <1>7
  <2> HIDE DEF d
  <2>9. Asked(d, n + 1) /\ Told(d) /\ Prefix(log, d.log)
    BY ZenonT(60), <1>1, <1>4, <1>8, <2>1, <2>4, <2>5, <2>7, QuestionAsked
  <2>10. log' = d.log /\ cpos' = d.pos /\ agent_state' = d.state /\ pending' = d.pending
    BY Zenon, <2>8 DEF Becomes
  <2>11. /\ Ctl'.log = d.log /\ Ctl'.pos = d.pos /\ Ctl'.state = d.state
         /\ Ctl'.pending = d.pending
    BY ZenonT(60), <2>10 DEF Ctl
  <2>12. Asked(Ctl', n + 1) /\ Told(Ctl')
    BY <2>9, <2>11 DEF Asked, AskedLast, Awaits, Told, Shows
  <2> QED
    BY ZenonT(60), <1>1, <1>2, <2>7, <2>9, <2>10, <2>12, ConfirmRest
<1> QED
  BY Zenon, <1>10, <1>11

\* The other ends of an LLM call, and an error reported to the session.
LEMMA SpeaksConfirm ==
  ASSUME ControllerInv, ControllerInv', ConfirmInv, LLMSpeaks \/ LLMRaises \/ StatusError
  PROVE  ConfirmInv'
<1> DEFINE n == calls
<1>1. Sound(Ctl) /\ n \in Nat /\ Asked(Ctl, n) /\ Told(Ctl) /\ Shows(Ctl)
  BY Zenon DEF ControllerInv, ConfirmInv, Told
<1>2. UNCHANGED <<rpos, started>> /\ rpos \in 0..rpos' /\ n + 1 \in Nat
  <2>1. UNCHANGED <<rpos, started>>
    BY Zenon DEF LLMSpeaks, LLMRaises, StatusError, parties
  <2>2. rpos \in Nat
    BY PlaceFacts
  <2> QED
    BY <1>1, <2>1, <2>2
<1>3. Ctl.log = log /\ Ctl.pos = cpos /\ Ctl.state = agent_state
  BY Zenon DEF Ctl
<1>4. ASSUME NEW d, NEW m \in {n, n + 1}, Follows(Ctl, d, n), Told(d), Becomes(d), calls' = m,
             llm' = "calling" => d.state = "ERROR" /\ ~OnItsWay(d),
             (log[1].type = "message" /\ cpos < 2) => calls' = 0 /\ llm' = "idle"
      PROVE  ConfirmInv'
  <2>1. Sound(d) /\ Asked(d, n) /\ d.pos = cpos /\ Prefix(log, d.log)
    BY Zenon, <1>3, <1>4 DEF Follows
  <2>2. Ctl' = d /\ log' = d.log /\ agent_state' = d.state /\ cpos' = d.pos
    BY Zenon, <1>4, <2>1, BecomesFacts
  <2>3. Asked(d, m)
    BY Zenon, <1>1, <1>4, <2>1, MoreCalls
  <2> QED
    BY Zenon, <1>2, <1>4, <2>1, <2>2, <2>3, ConfirmRest
<1>5. llm = "calling" => ~(log[1].type = "message" /\ cpos < 2) /\ ~OnItsWay(Ctl)
  BY Zenon DEF ConfirmInv
<1>6. CASE LLMSpeaks
  <2>1. PICK e \in {Ev("think", "agent", ""), Ev("message", "agent", ""),
                    Ev("message", "agent", "wait"), Ev("finish", "agent", ""),
                    Ev("reject", "agent", ""), Ev("condense", "agent", "")} :
          /\ Becomes(Add(Ctl, IF e.type = "think" THEN [e EXCEPT !.call = calls + 1] ELSE e))
          /\ calls' = IF e.type = "think" THEN calls + 1 ELSE calls
    BY Zenon, <1>6 DEF LLMSpeaks
  <2> DEFINE f == IF e.type = "think" THEN [e EXCEPT !.call = n + 1] ELSE e
  <2>2. /\ e \in Event /\ e.type \in {"think", "message", "finish", "reject", "condense"}
        /\ e.source = "agent"
    <3>1. \A t \in {"think", "message", "finish", "reject", "condense"}, a \in {"", "wait"} :
            /\ Ev(t, "agent", a) \in Event /\ Ev(t, "agent", a).type = t
            /\ Ev(t, "agent", a).source = "agent"
      BY ZenonT(60) DEF Ev, Event
    <3> QED
      BY ZenonT(60), <2>1, <3>1
  <2>3. f \in Event /\ f.type = e.type /\ f.source = "agent"
    BY Zenon, <1>2, <2>2 DEF Event
  <2>4. Plain(f, n)
    <3> HIDE DEF f
    <3> QED
      BY Zenon, <2>2, <2>3 DEF Plain, Word, Startable, Asks
  <2>5. Becomes(Add(Ctl, f)) /\ calls' \in {n, n + 1} /\ llm' = "idle" /\ llm = "calling"
    BY Zenon, <1>6, <2>1 DEF LLMSpeaks
  <2>6. f.type # "state"
    BY Zenon, <2>2, <2>3
  <2> HIDE DEF f
  <2>7. Follows(Ctl, Add(Ctl, f), n) /\ Told(Add(Ctl, f))
    BY ZenonT(60), <1>1, <2>4, <2>6, AddAsked
  <2> QED
    BY Zenon, <1>4, <1>5, <2>5, <2>7
<1>7. CASE LLMRaises
  <2>1. calls' = n /\ n \in {n, n + 1} /\ llm' = "idle" /\ llm = "calling"
    BY Zenon, <1>7 DEF LLMRaises
  <2> DEFINE e == Ev("obs", "agent", "error")
  <2>2. \/ Becomes(Add(Ctl, e)) \/ Becomes(React(Ctl))
        \/ Becomes(set_agent_state_to(Ctl, "RATE_LIMITED"))
    BY Zenon, <1>7 DEF LLMRaises
  <2>3. Plain(e, n) /\ e.type # "state"
    <3>1. e \in Event /\ e.type = "obs"
      BY Zenon DEF Ev, Event
    <3> HIDE DEF e
    <3> QED
      BY Zenon, <3>1 DEF Plain, Word, Startable, Asks
  <2> HIDE DEF e
  <2>4. Follows(Ctl, Add(Ctl, e), n) /\ Told(Add(Ctl, e))
    BY Zenon, <1>1, <2>3, AddAsked
  <2>5. Follows(Ctl, React(Ctl), n) /\ Told(React(Ctl))
    BY Zenon, <1>1, ReactAsked
  <2>6. /\ Follows(Ctl, set_agent_state_to(Ctl, "RATE_LIMITED"), n)
        /\ Told(set_agent_state_to(Ctl, "RATE_LIMITED"))
    BY Zenon, <1>1, SetStateAsked DEF AgentState
  <2> QED
    BY ZenonT(60), <1>4, <1>5, <2>1, <2>2, <2>4, <2>5, <2>6
<1>8. CASE StatusError
  <2> DEFINE b == [Ctl EXCEPT !.status = @ - 1]
             d == set_agent_state_to(b, "ERROR")
  <2>1. calls' = n /\ n \in {n, n + 1} /\ llm' = llm /\ Becomes(d) /\ status > 0
    BY Zenon, <1>8 DEF StatusError
  <2>2. Sound(b)
    <3>1. status - 1 \in Nat /\ Ctl.status = status
      BY <1>1, <2>1, CtlFacts DEF Ctl
    <3> QED
      BY Zenon, <1>1, <3>1 DEF Sound, Controller
  <2>3. b.state = Ctl.state /\ b.pending = Ctl.pending /\ b.log = Ctl.log /\ b.pos = Ctl.pos
    BY Zenon DEF Ctl
  <2> HIDE DEF b
  <2>4. Follows(Ctl, b, n) /\ Told(b) /\ (OnItsWay(b) <=> OnItsWay(Ctl))
    BY ZenonT(60), <1>1, <2>2, <2>3, SameAsked DEF OnItsWay
  <2>5. Asked(b, n) /\ Shows(b)
    BY Zenon, <2>4 DEF Follows, Told
  <2>6. Follows(b, d, n) /\ Told(d) /\ d.state = "ERROR"
    BY Zenon, <1>1, <2>2, <2>5, SetStateAsked DEF AgentState
  <2>7. ~OnItsWay(b) => ~OnItsWay(d)
    BY Zenon, <1>1, <2>2, <2>5, ErrorWay
  <2> HIDE DEF d
  <2>8. Follows(Ctl, d, n)
    BY Zenon, <1>1, <2>4, <2>6, FollowsOn
  <2>9. (log[1].type = "message" /\ cpos < 2) => calls' = 0 /\ llm' = "idle"
    BY Zenon, <2>1 DEF ConfirmInv
  <2>10. llm' = "calling" => d.state = "ERROR" /\ ~OnItsWay(d)
    BY Zenon, <1>5, <2>1, <2>4, <2>6, <2>7
  <2> QED
    BY ZenonT(60), <1>4, <2>1, <2>6, <2>8, <2>9, <2>10
<1> QED
  BY Zenon, <1>6, <1>7, <1>8

----------------------------------------------------------------------------
(* The invariant holds throughout.                                         *)

\* Every step keeps the invariant.
LEMMA NextConfirm ==
  ASSUME Patient, ControllerInv, ControllerInv', ConfirmInv, [Next]_vars
  PROVE  ConfirmInv'
<1>1. CASE UNCHANGED vars
  <2>1. Ctl' = Ctl /\ UNCHANGED <<agent_state, llm, cpos, log, calls, started, rpos>>
    BY Zenon, <1>1 DEF vars, Ctl
  <2>2. Asked(Ctl', calls') /\ Told(Ctl') /\ (OnItsWay(Ctl') <=> OnItsWay(Ctl))
    BY Zenon, <2>1 DEF ConfirmInv
  <2>3. Prefix(log, log') /\ rpos \in 0..rpos'
    <3>1. Len(log) \in Nat /\ rpos \in 0..Len(log)
      BY Zenon, PlaceFacts
    <3>2. Len(log) <= Len(log) /\ rpos \in 0..rpos
      BY <3>1
    <3> QED
      BY Zenon, <2>1, <3>2 DEF Prefix
  <2> QED
    BY Zenon, <2>1, <2>2, <2>3, ConfirmRest DEF ConfirmInv
<1>2. CASE Next
  BY ZenonT(60), <1>2, HandleConfirm, ActsConfirm, SpeaksConfirm, RuntimeConfirm, StartsConfirm,
     MemoryConfirm, UserConfirm, CrashConfirm DEF Next
<1> QED
  BY Zenon, <1>1, <1>2

\* For a user who sends nothing while what they sent before is still unheard, every
\* action put to them waits for their answer to that very action, whatever the other
\* threads do and through any number of restarts.
THEOREM ConfirmAlways ==
  ASSUME Patient
  PROVE  Spec => []ConfirmInv
<1>1. ControllerInv /\ ControllerInv' /\ ConfirmInv /\ [Next]_vars => ConfirmInv'
  BY Zenon, NextConfirm
<1> QED
  BY InitConfirm, ControllerAlways, <1>1, PTL DEF Spec

\* For such a user the runtime executes each action of the LLM at most once
\* (_handle_action and set_agent_state_to publish a confirmed action again under a
\* new id, and the runtime starts from where it subscribed).
THEOREM OnceHolds ==
  ASSUME Patient
  PROVE  Spec => []StartedOnce
<1>1. ControllerInv /\ ConfirmInv => StartedOnce
  BY Zenon, OnceFollows
<1> QED
  BY ControllerAlways, ConfirmAlways, <1>1, PTL

\* For such a user the runtime executes an action that was put to them only after
\* they confirmed that very action.
THEOREM ConfirmedHolds ==
  ASSUME Patient
  PROVE  Spec => []ConfirmedFirst
<1>1. ControllerInv /\ ConfirmInv => ConfirmedFirst
  BY Zenon, ConfirmedFollows
<1> QED
  BY ControllerAlways, ConfirmAlways, <1>1, PTL

=============================================================================
