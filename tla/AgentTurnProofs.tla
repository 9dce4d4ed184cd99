-------------------------- MODULE AgentTurnProofs --------------------------
(***************************************************************************)
(* A turn of the conversation, for a user who waits for it to end: the     *)
(* agent never rests without telling the user that it is their turn, and   *)
(* the LLM is never called while an action it asked for is unanswered, for *)
(* any number of messages, tool calls and failures of the runtime.         *)
(*                                                                         *)
(* The LLM and the main loop are here, the other steps in AgentTurnLemmas; *)
(* what the user sees before they write comes from the invariant of        *)
(* confirmation mode.                                                      *)
(***************************************************************************)
EXTENDS AgentTurnLemmas, AgentConfirmProofs, WellFoundedInduction

----------------------------------------------------------------------------
(* The LLM and the main loop.                                              *)

\* While the LLM is called nobody else has anything to do.
LEMMA CallingReady ==
  ASSUME ControllerInv, TurnInv, llm = "calling"
  PROVE  Ready(Ctl, running, Unheard(Ctl), Backlog(Ctl), Recalls(Ctl))
<1>1. Turn(Ctl, "calling", running, Unheard(Ctl), Backlog(Ctl), Recalls(Ctl))
  BY Zenon, TurnFacts
<1>2. Thinks(Ctl, "calling", running, Unheard(Ctl), Backlog(Ctl), Recalls(Ctl))
  BY Zenon, <1>1 DEF Turn, Waits, Opens, Recalling, Recalled, Acts, Questions
<1> QED
  BY Zenon, <1>2 DEF Thinks, Ready

\* An action that is held as the pending one is published.
LEMMA PublishTodo ==
  ASSUME NEW c, Sound(c), Placed(c), Answered(c), NEW e \in Event, e.type = "action",
         c.pending.event = e
  PROVE  LET k == Len(c.log) + 1
             d == Publish(c, e, k)
         IN /\ Sound(d) /\ Answered(d) /\ d.state = c.state /\ d.status = c.status
            /\ Pends(d, "action") /\ d.pending.event = e /\ d.pending.id = k
            /\ Unheard(d) = Unheard(c) /\ Recalls(d) = Recalls(c)
            /\ Asks(e) => Backlog(d) = Backlog(c)
            /\ e.conf # "awaiting" => Backlog(d) = Backlog(c) \cup {k}
<1> DEFINE k == Len(c.log) + 1
           t == Add(c, e)
           p == [t.pending EXCEPT !.id = k]
           d == [t EXCEPT !.pending = p]
<1>1. e.type # "change"
  OBVIOUS
<1>2. /\ Sound(t) /\ Placed(t) /\ t.log = Append(c.log, e) /\ t.state = c.state
      /\ t.pending = c.pending /\ t.pos = c.pos /\ t.status = c.status
  BY Zenon, <1>1, AddTodo
<1>3. /\ e.conf # "awaiting" =>
           /\ Unheard(t) = Unheard(c) /\ Backlog(t) = Backlog(c) \cup {k}
           /\ Recalls(t) = Recalls(c)
      /\ Asks(e) => Same(c, t)
  BY Zenon, <1>1, AddTodo
<1>4. k \in Nat /\ c.log \in Seq(Event) /\ c.pending \in Pending
  BY DEF Sound, Controller
<1> HIDE DEF t, k
<1>5. t \in Controller /\ t.pending \in Pending
  BY Zenon, <1>2 DEF Sound, Controller
<1>6. Publish(c, e, k) = d
  BY Zenon, <1>5 DEF Publish, t, Controller
<1>7. p \in Pending /\ p.id = k /\ p.event = e
  BY Zenon, <1>2, <1>4, <1>5 DEF Pending
<1> HIDE DEF p
<1>8. /\ LeadsTo(t, d) /\ d.pending = p /\ d.state = t.state
      /\ d.log = t.log /\ d.pos = t.pos /\ d.status = t.status
  BY Zenon, <1>1, <1>2, <1>7, PendingSound
<1> HIDE DEF d
<1>9. Sound(d)
  BY Zenon, <1>8 DEF LeadsTo
<1>10. Same(t, d)
  BY Zenon, <1>8, SameTodo
<1>11. d.log = Append(c.log, e) /\ d.pending.event = e /\ d.pending.id = k
  BY Zenon, <1>2, <1>7, <1>8
<1>12. Answered(d)
  BY Zenon, <1>4, <1>11, AnsweredAdd
<1>13. k \in DOMAIN Append(c.log, e)
  BY <1>4 DEF k
<1>14. Append(c.log, e)[k] = e
  BY Zenon, <1>4, AppendFacts DEF k
<1>15. Pends(d, "action")
  BY Zenon, <1>11, <1>13, <1>14 DEF Pends
<1>16. /\ Asks(e) => Unheard(d) = Unheard(c) /\ Recalls(d) = Recalls(c) /\ Backlog(d) = Backlog(c)
       /\ e.conf # "awaiting" =>
            /\ Unheard(d) = Unheard(c) /\ Recalls(d) = Recalls(c)
            /\ Backlog(d) = Backlog(c) \cup {k}
  BY Zenon, <1>3, <1>10 DEF Same
<1>17. Asks(e) \/ e.conf # "awaiting"
  BY Zenon DEF Asks
<1> QED
  BY Zenon, <1>2, <1>6, <1>8, <1>9, <1>11, <1>12, <1>15, <1>16, <1>17 DEF k

\* agent.step returns a runnable action.
LEMMA LLMActsTurn ==
  ASSUME ControllerInv, TurnInv, LLMActs
  PROVE  TurnInv'
<1>1. /\ llm = "calling" /\ llm' = "idle" /\ running' = running
      /\ UNCHANGED <<rpos, mpos, mfail>>
  BY Zenon DEF LLMActs, parties
<1>2. /\ Sound(Ctl) /\ Placed(Ctl) /\ Answered(Ctl) /\ calls + 1 \in Nat
      /\ Ctl.pending.event.type # "action"
      /\ Ready(Ctl, running, Unheard(Ctl), Backlog(Ctl), Recalls(Ctl))
  <2>1. Ready(Ctl, running, Unheard(Ctl), Backlog(Ctl), Recalls(Ctl))
    BY Zenon, <1>1, CallingReady
  <2>2. Ctl.pending.event.type # "action"
    BY Zenon, <2>1, BlankPlain DEF Ready
  <2>3. calls + 1 \in Nat
    BY DEF ControllerInv
  <2> QED
    BY Zenon, <2>1, <2>2, <2>3, TurnFacts
<1>3. PICK o \in {"run", "ask"} :
        LET e == [Ev("action", "agent", "") EXCEPT
                    !.call = calls + 1, !.conf = IF o = "ask" THEN "awaiting" ELSE "none"]
            held == [Ctl EXCEPT !.pending = [id |-> 0, event |-> e]]
            put == IF o = "ask" THEN set_agent_state_to(held, "AWAITING_USER_CONFIRMATION")
                   ELSE held
        IN Becomes([Add(put, e) EXCEPT !.pending.id = Len(put.log) + 1])
  BY ZenonT(60) DEF LLMActs
<1> DEFINE conf == IF o = "ask" THEN "awaiting" ELSE "none"
           e == [Ev("action", "agent", "") EXCEPT !.call = calls + 1, !.conf = conf]
           zero == [id |-> 0, event |-> e]
           held == [Ctl EXCEPT !.pending = zero]
           put == IF o = "ask" THEN set_agent_state_to(held, "AWAITING_USER_CONFIRMATION")
                  ELSE held
           k == Len(put.log) + 1
           d == Publish(put, e, k)
<1>4. Becomes(d)
  BY Zenon, <1>3 DEF Publish
<1>5. e \in Event /\ e.type = "action" /\ e.conf = conf
  <2>1. conf \in {"awaiting", "none"}
    BY Zenon
  <2> HIDE DEF conf
  <2> QED
    BY Zenon, <1>2, <2>1 DEF Ev, Event
<1> HIDE DEF e
<1>6. zero \in Pending /\ zero.event = e /\ e.type # "change"
  BY Zenon, <1>5 DEF Pending
<1> HIDE DEF zero
<1>7. /\ LeadsTo(Ctl, held) /\ held.pending = zero /\ held.state = Ctl.state
      /\ held.log = Ctl.log /\ held.pos = Ctl.pos /\ held.status = Ctl.status
  BY Zenon, <1>2, <1>6, PendingSound
<1> HIDE DEF held
<1>8. Sound(held) /\ Same(Ctl, held) /\ Placed(held) /\ Answered(held)
  <2>1. Sound(held)
    BY Zenon, <1>7 DEF LeadsTo
  <2>2. Same(Ctl, held) /\ Placed(held)
    BY Zenon, <1>2, <1>7, SameTodo
  <2>3. Answered(held)
    BY Zenon, <1>2, <1>7, AnsweredSame
  <2> QED
    BY Zenon, <2>1, <2>2, <2>3
<1>9. /\ held.state = "RUNNING" /\ held.status = 0 /\ running = 0
      /\ Unheard(held) = {} /\ Backlog(held) = {} /\ Recalls(held) = {}
  BY Zenon, <1>2, <1>7, <1>8 DEF Ready, Same
<1>10. /\ Sound(put) /\ Placed(put) /\ Answered(put) /\ put.pending.event = e
       /\ put.status = 0 /\ Unheard(put) = {} /\ Backlog(put) = {} /\ Recalls(put) = {}
       /\ put.state = IF o = "ask" THEN "AWAITING_USER_CONFIRMATION" ELSE "RUNNING"
  <2>1. CASE o = "ask"
    <3> DEFINE h == set_agent_state_to(held, "AWAITING_USER_CONFIRMATION")
    <3>1. /\ "AWAITING_USER_CONFIRMATION" \in AgentState
          /\ "AWAITING_USER_CONFIRMATION" # held.state
          /\ "AWAITING_USER_CONFIRMATION" \notin {"STOPPED", "ERROR", "USER_CONFIRMED", "USER_REJECTED"}
      BY Zenon, <1>9 DEF AgentState
    <3>2. /\ Sound(h) /\ Placed(h) /\ Same(held, h) /\ Answered(h)
          /\ h.state = "AWAITING_USER_CONFIRMATION" /\ h.pending = held.pending
          /\ h.status = held.status
      BY Zenon, <1>8, <3>1, Enters
    <3>3. put = h
      BY Zenon, <2>1
    <3> HIDE DEF h, put
    <3> QED
      BY Zenon, <1>6, <1>7, <1>9, <2>1, <3>2, <3>3 DEF Same
  <2>2. CASE o = "run"
    <3>1. put = held
      BY Zenon, <2>2
    <3> HIDE DEF put
    <3> QED
      BY Zenon, <1>6, <1>7, <1>8, <1>9, <2>2, <3>1
  <2> QED
    BY Zenon, <2>1, <2>2
<1> HIDE DEF put
<1>11. /\ Sound(d) /\ Answered(d) /\ d.state = put.state /\ d.status = put.status
       /\ Pends(d, "action") /\ d.pending.event = e /\ d.pending.id = k
       /\ Unheard(d) = Unheard(put) /\ Recalls(d) = Recalls(put)
       /\ Asks(e) => Backlog(d) = Backlog(put)
       /\ e.conf # "awaiting" => Backlog(d) = Backlog(put) \cup {k}
  <2>1. Sound(put) /\ Placed(put) /\ Answered(put) /\ put.pending.event = e
    BY Zenon, <1>10
  <2>2. e \in Event /\ e.type = "action"
    BY Zenon, <1>5
  <2> QED
    BY SMT, <2>1, <2>2, PublishTodo
<1> HIDE DEF d, k
<1>12. Turn(d, "idle", running, Unheard(d), Backlog(d), Recalls(d))
  <2>1. CASE o = "ask"
    <3>1. Asks(e) /\ e.conf = "awaiting"
      BY Zenon, <1>5, <2>1 DEF Asks
    <3>2. Questions(d, "idle", running, Unheard(d), Backlog(d), Recalls(d))
      BY Zenon, <1>9, <1>10, <1>11, <2>1, <3>1 DEF Questions
    <3> QED
      BY Zenon, <3>2 DEF Turn
  <2>2. CASE o = "run"
    <3>1. e.conf = "none" /\ e.conf # "awaiting"
      BY Zenon, <1>5, <2>2
    <3>2. Backlog(d) = {d.pending.id} /\ d.state = "RUNNING"
      BY <1>10, <1>11, <2>2, <3>1
    <3>3. Acts(d, "idle", running, Unheard(d), Backlog(d), Recalls(d))
      BY Zenon, <1>9, <1>10, <1>11, <3>1, <3>2 DEF Acts
    <3> QED
      BY Zenon, <3>3 DEF Turn
  <2> QED
    BY Zenon, <2>1, <2>2
<1>13. Turn(d, llm', running', Unheard(d), Backlog(d), Recalls(d))
  BY Zenon, <1>1, <1>12
<1> QED
  BY Zenon, <1>1, <1>4, <1>11, <1>13, TurnPassed DEF d, k

\* One call more.
LEMMA PlusOne == ASSUME NEW n \in Nat PROVE n + 1 \in Nat
  OBVIOUS

\* An event of the agent's that is not a runnable action.
LEMMA SpeaksTurn ==
  ASSUME ControllerInv, TurnInv, llm = "calling", NEW e \in Event, Becomes(Add(Ctl, e)),
         e.type \in ControllerTypes \cup {"think"}, e.type # "change", ~FromUser(e),
         e.type = "think" => e.conf = "none",
         llm' = "idle", UNCHANGED <<parties>>
  PROVE  TurnInv'
<1> DEFINE d == Add(Ctl, e)
           n == Len(Ctl.log) + 1
<1>1. /\ Sound(Ctl) /\ Placed(Ctl) /\ Answered(Ctl)
  BY Zenon, TurnFacts
<1>2. Ready(Ctl, running, Unheard(Ctl), Backlog(Ctl), Recalls(Ctl))
  BY Zenon, CallingReady
<1>3. /\ Sound(d) /\ d.log = Append(Ctl.log, e) /\ d.state = Ctl.state
      /\ d.pending = Ctl.pending /\ d.status = Ctl.status
      /\ e.type \in ControllerTypes =>
           /\ Unheard(d) = Unheard(Ctl) \cup {n} /\ Backlog(d) = Backlog(Ctl)
           /\ Recalls(d) = Recalls(Ctl)
      /\ e.type = "think" =>
           /\ Unheard(d) = Unheard(Ctl) /\ Backlog(d) = Backlog(Ctl) \cup {n}
           /\ Recalls(d) = Recalls(Ctl)
  BY SMT, <1>1, AddTodo
<1>4. running' = running /\ UNCHANGED <<rpos, mpos, mfail>> /\ Becomes(d)
  BY Zenon DEF parties
<1>5. Ctl.log \in Seq(Event)
  BY Zenon, <1>1 DEF Sound, Controller
<1> HIDE DEF d
<1>6. n \in DOMAIN d.log
  BY <1>3, <1>5
<1>7. Append(Ctl.log, e)[n] = e
  BY Zenon, <1>5, AppendFacts
<1>8. d.log[n] = e
  BY Zenon, <1>3, <1>7
<1> HIDE DEF n
<1>9. e.type # "action"
  BY Zenon DEF ControllerTypes
<1>10. Answered(d)
  BY Zenon, <1>1, <1>3, <1>5, <1>9, AnsweredAdd
<1>11. /\ d.state = "RUNNING" /\ d.pending = NoPending /\ d.status = 0 /\ running = 0
       /\ Unheard(Ctl) = {} /\ Backlog(Ctl) = {} /\ Recalls(Ctl) = {}
  BY Zenon, <1>2, <1>3 DEF Ready
<1>12. CASE e.type = "think"
  <2>1. Unheard(d) = {} /\ Backlog(d) = {n} /\ Recalls(d) = {}
    BY <1>3, <1>11, <1>12
  <2>2. Thinks(d, "idle", running, Unheard(d), Backlog(d), Recalls(d))
    BY Zenon, <1>6, <1>8, <1>11, <1>12, <2>1 DEF Thinks
  <2> QED
    BY Zenon, <1>3, <1>4, <1>10, <2>2, TurnPassed DEF Turn
<1>13. CASE e.type \in ControllerTypes
  <2>1. Unheard(d) = {n} /\ Backlog(d) = {} /\ Recalls(d) = {}
    BY <1>3, <1>11, <1>13
  <2>2. Thinks(d, "idle", running, Unheard(d), Backlog(d), Recalls(d))
    BY Zenon, <1>6, <1>8, <1>11, <2>1 DEF Thinks
  <2> QED
    BY Zenon, <1>3, <1>4, <1>10, <2>2, TurnPassed DEF Turn
<1> QED
  BY Zenon, <1>12, <1>13

\* agent.step returns something else.
LEMMA LLMSpeaksTurn ==
  ASSUME ControllerInv, TurnInv, LLMSpeaks
  PROVE  TurnInv'
<1>1. llm = "calling" /\ llm' = "idle" /\ UNCHANGED <<parties>>
  BY Zenon DEF LLMSpeaks
<1>2. PICK e \in {Ev("think", "agent", ""), Ev("message", "agent", ""),
                  Ev("message", "agent", "wait"), Ev("finish", "agent", ""),
                  Ev("reject", "agent", ""), Ev("condense", "agent", "")} :
        Becomes(Add(Ctl, IF e.type = "think" THEN [e EXCEPT !.call = calls + 1] ELSE e))
  BY Zenon DEF LLMSpeaks
<1> DEFINE x == IF e.type = "think" THEN [e EXCEPT !.call = calls + 1] ELSE e
<1>3. calls + 1 \in Nat
  BY Zenon, PlusOne DEF ControllerInv
<1>4. /\ e \in Event /\ e.type \in ControllerTypes \cup {"think"} /\ e.type # "change"
      /\ e.source = "agent" /\ e.conf = "none"
  <2>1. \E t \in {"think", "message", "finish", "reject", "condense"} :
          \E a \in {"", "wait"} : e = Ev(t, "agent", a)
    BY Zenon
  <2>2. PICK t \in {"think", "message", "finish", "reject", "condense"} :
          \E a \in {"", "wait"} : e = Ev(t, "agent", a)
    BY Zenon, <2>1
  <2>3. PICK a \in {"", "wait"} : e = Ev(t, "agent", a)
    BY Zenon, <2>2
  <2>4. e.type = t /\ e.source = "agent" /\ e \in Event /\ e.conf = "none"
    BY Zenon, <2>3 DEF Ev, Event
  <2> QED
    BY Zenon, <2>4 DEF ControllerTypes
<1> DEFINE y == [e EXCEPT !.call = calls + 1]
<1>5. y \in Event /\ y.type = e.type /\ y.source = e.source /\ y.conf = e.conf
  <2> HIDE DEF x
  <2>1. e \in Event
    BY Zenon, <1>4
  <2> QED
    BY ZenonT(60), <1>3, <2>1 DEF Event
<1>6. /\ x \in Event /\ x.type = e.type /\ x.source = "agent" /\ x.conf = "none"
  BY Zenon, <1>4, <1>5
<1>7. Becomes(Add(Ctl, x))
  BY Zenon, <1>2
<1> HIDE DEF x
<1>8. ~FromUser(x)
  BY Zenon, <1>6 DEF FromUser
<1> QED
  BY Zenon, <1>1, <1>4, <1>6, <1>7, <1>8, SpeaksTurn

\* agent.step raises.
LEMMA LLMRaisesTurn ==
  ASSUME ControllerInv, TurnInv, LLMRaises
  PROVE  TurnInv'
<1>1. llm = "calling" /\ llm' = "idle" /\ UNCHANGED <<parties>>
  BY Zenon DEF LLMRaises
<1>2. running' = running /\ UNCHANGED <<rpos, mpos, mfail>>
  BY Zenon, <1>1 DEF parties
<1>3. /\ Sound(Ctl) /\ Placed(Ctl) /\ Answered(Ctl)
  BY Zenon, TurnFacts
<1>4. Ready(Ctl, running, Unheard(Ctl), Backlog(Ctl), Recalls(Ctl))
  BY Zenon, <1>1, CallingReady
<1>5. CASE Becomes(Add(Ctl, Ev("obs", "agent", "error")))
  <2> DEFINE e == Ev("obs", "agent", "error")
  <2>1. e \in Event /\ e.type = "obs"
    BY Zenon DEF Ev, Event
  <2> HIDE DEF e
  <2>2. e.type \in ControllerTypes /\ e.type # "change" /\ ~FromUser(e)
    BY Zenon, <2>1 DEF ControllerTypes, FromUser
  <2>3. Becomes(Add(Ctl, e))
    BY Zenon, <1>5 DEF e
  <2> QED
    BY Zenon, <1>1, <2>1, <2>2, <2>3, SpeaksTurn
<1>6. CASE Becomes(React(Ctl))
  <2> DEFINE d == React(Ctl)
  <2>1. /\ Sound(d) /\ Answered(d)
        /\ Turn(d, "idle", running, Unheard(d), Backlog(d), Recalls(d))
    BY Zenon, <1>3, <1>4, ReactRests
  <2>2. Becomes(d)
    BY Zenon, <1>6
  <2> HIDE DEF d
  <2> QED
    BY Zenon, <1>1, <1>2, <2>1, <2>2, TurnPassed
<1>7. CASE Becomes(set_agent_state_to(Ctl, "RATE_LIMITED"))
  <2> DEFINE d == set_agent_state_to(Ctl, "RATE_LIMITED")
  <2>1. /\ Ctl.pending = NoPending /\ running = 0 /\ Unheard(Ctl) = {} /\ Backlog(Ctl) = {}
        /\ Recalls(Ctl) = {} /\ "RATE_LIMITED" \in UsersTurn /\ "RATE_LIMITED" # Ctl.state
        /\ Ctl.status = 0
    BY Zenon, <1>4 DEF Ready, UsersTurn
  <2>2. /\ Sound(d) /\ Answered(d)
        /\ Waits(d, "idle", running, Unheard(d), Backlog(d), Recalls(d))
    BY Zenon, <1>3, <2>1, Rests
  <2>3. Becomes(d)
    BY Zenon, <1>7
  <2> HIDE DEF d
  <2> QED
    BY Zenon, <1>1, <1>2, <2>2, <2>3, TurnPassed DEF Turn
<1> QED
  BY Zenon, <1>5, <1>6, <1>7 DEF LLMRaises

\* An error status reaches the session's main loop.
LEMMA StatusTurn ==
  ASSUME ControllerInv, TurnInv, StatusError
  PROVE  TurnInv'
<1> DEFINE n == status - 1
           s == [Ctl EXCEPT !.status = n]
           d == set_agent_state_to(s, "ERROR")
           u == Unheard(Ctl)
           b == Backlog(Ctl)
           m == Recalls(Ctl)
<1>1. /\ Sound(Ctl) /\ Placed(Ctl) /\ Answered(Ctl) /\ Ctl.status = status
      /\ Turn(Ctl, llm, running, u, b, m)
  BY Zenon, TurnFacts
<1>2. status > 0 /\ status \in Nat /\ n \in Nat
  BY <1>1, CtlFacts DEF StatusError
<1>3. llm' = llm /\ running' = running /\ UNCHANGED <<rpos, mpos, mfail>>
  BY Zenon DEF StatusError, parties
<1> HIDE DEF n
<1>4. Becomes(d)
  BY Zenon DEF StatusError, Ctl, n
<1>5. LeadsTo(Ctl, s) /\ s.state = Ctl.state
  BY Zenon, <1>1, <1>2, StatusSound
<1>6. s.log = Ctl.log /\ s.pos = Ctl.pos /\ s.pending = Ctl.pending /\ s.status = n
  BY Zenon DEF Ctl
<1> HIDE DEF s
<1>7. Sound(s)
  BY Zenon, <1>5 DEF LeadsTo
<1>8. Same(Ctl, s) /\ Placed(s)
  BY Zenon, <1>1, <1>6, SameTodo
<1>9. Answered(s)
  BY Zenon, <1>1, <1>6, AnsweredSame
<1>10. status # 0 /\ ~(status = 0)
  BY <1>2
<1>11. \/ Waits(Ctl, llm, running, u, b, m)
       \/ Acts(Ctl, llm, running, u, b, m)
  BY Zenon, <1>1, <1>10 DEF Turn, Opens, Recalling, Recalled, Thinks, Questions
<1>12. CASE Waits(Ctl, llm, running, u, b, m)
  <2>1. s.state = "ERROR"
    BY Zenon, <1>1, <1>2, <1>5, <1>12 DEF Waits
  <2>2. d = s
    BY Zenon, <2>1 DEF set_agent_state_to
  <2>3. Waits(s, llm, running, Unheard(s), Backlog(s), Recalls(s))
    <3>1. /\ s.state \in UsersTurn /\ s.pending = NoPending
          /\ llm = "idle" /\ running = 0 /\ Backlog(s) = {} /\ Recalls(s) = {}
      BY Zenon, <1>5, <1>6, <1>8, <1>12 DEF Waits, Same
    <3>2. Unheard(s) = u
      BY Zenon, <1>8 DEF Same
    <3>3. \A i \in u : s.log[i].type = "obs"
      BY Zenon, <1>1, <1>6, <1>10, <1>12 DEF Waits
    <3> QED
      BY Zenon, <2>1, <3>1, <3>2, <3>3 DEF Waits
  <2>4. Becomes(s)
    BY Zenon, <1>4, <2>2
  <2>5. Turn(s, llm', running', Unheard(s), Backlog(s), Recalls(s))
    BY Zenon, <1>3, <2>3 DEF Turn
  <2> QED
    BY Zenon, <1>3, <1>7, <1>9, <2>4, <2>5, TurnPassed
<1>13. CASE Acts(Ctl, llm, running, u, b, m)
  <2>1. /\ llm = "idle" /\ running = 0 /\ u = {} /\ b = {} /\ m = {} /\ status = 1
    BY Zenon, <1>1, <1>10, <1>13 DEF Acts
  <2>2. n = 0 /\ ~(n > 0)
    BY <2>1 DEF n
  <2>3. s.state # "ERROR"
    BY Zenon, <1>5, <1>13 DEF Acts
  <2>4. /\ Sound(d) /\ Answered(d)
        /\ d.pending = NoPending /\ d.state = "ERROR" /\ d.status = s.status
        /\ Backlog(d) = Backlog(s) /\ Recalls(d) = Recalls(s)
        /\ \A i \in Unheard(d) : \/ i \in Unheard(s) /\ d.log[i] = s.log[i]
                                 \/ d.log[i].type = "obs"
    BY Zenon, <1>7, <1>8, <1>9, <2>3, Fails
  <2> HIDE DEF d
  <2>5. Unheard(s) = {} /\ Backlog(d) = {} /\ Recalls(d) = {}
    BY Zenon, <1>8, <2>1, <2>4 DEF Same
  <2>6. \A i \in Unheard(d) : d.log[i].type = "obs"
    BY Zenon, <2>4, <2>5
  <2>7. Waits(d, "idle", running, Unheard(d), Backlog(d), Recalls(d))
    BY Zenon, <1>6, <2>1, <2>2, <2>4, <2>5, <2>6 DEF Waits, UsersTurn
  <2>8. Turn(d, llm', running', Unheard(d), Backlog(d), Recalls(d))
    BY Zenon, <1>3, <2>1, <2>7 DEF Turn
  <2> QED
    BY Zenon, <1>3, <1>4, <2>4, <2>8, TurnPassed
<1> QED
  BY Zenon, <1>11, <1>12, <1>13

----------------------------------------------------------------------------
(* The invariant, and what it says.                                        *)

\* A conversation begins with the initial message and the change to RUNNING, or with
\* the change to AWAITING_USER_INPUT.
LEMMA InitTurn == Init => TurnInv
<1> SUFFICES ASSUME Init PROVE TurnInv
  BY Zenon
<1> DEFINE wait == Ev("change", "environment", "AWAITING_USER_INPUT")
           first == Ev("message", "user", "")
           go == Ev("change", "environment", "RUNNING")
           u == Unheard(Ctl)
<1>1. /\ wait.type = "change" /\ wait.arg = "AWAITING_USER_INPUT" /\ wait \in Event
      /\ FromUser(first) /\ first.type = "message" /\ first \in Event
      /\ Starts(go) /\ go.type = "change" /\ go \in Event
  BY Zenon DEF Ev, Event, AgentState, FromUser, Starts
<1>2. log \in {<<wait>>, <<first, go>>}
  BY Zenon DEF Init
<1> HIDE DEF wait, first, go
<1>3. /\ agent_state = "LOADING" /\ pending = NoPending /\ cpos = 0 /\ llm = "idle"
      /\ rpos = 0 /\ running = 0 /\ mpos = 0 /\ mfail = 0 /\ status = 0
  BY Zenon DEF Init
<1>4. /\ Ctl.log = log /\ Ctl.state = "LOADING" /\ Ctl.pending = NoPending /\ Ctl.pos = 0
      /\ Ctl.status = 0
  BY Zenon, <1>3 DEF Ctl
<1>5. \/ Len(log) = 1 /\ DOMAIN log = {1} /\ log[1] = wait
      \/ Len(log) = 2 /\ DOMAIN log = {1, 2} /\ log[1] = first /\ log[2] = go
  <2>1. CASE log = <<wait>>
    BY SMT, <2>1
  <2>2. CASE log = <<first, go>>
    BY SMT, <2>2
  <2> QED
    BY Zenon, <1>2, <2>1, <2>2
<1>6. (0 + 1)..Len(log) = DOMAIN log
  BY SMT, <1>5
<1>7. \A i \in DOMAIN log : /\ log[i] \in Event /\ log[i].type \in {"change", "message"}
  BY Zenon, <1>1, <1>5
<1>8. /\ DOMAIN log \subseteq u /\ u \subseteq DOMAIN log
      /\ Backlog(Ctl) = {} /\ Recalls(Ctl) = {}
  BY Zenon, <1>3, <1>4, <1>6, <1>7
  DEF Unheard, Backlog, Recalls, After, ForController, ForRuntime, ForMemory, ControllerTypes
<1>9. u = DOMAIN log
  BY Zenon, <1>8
<1> HIDE DEF u
<1>10. \/ u = {1} /\ log[1].type = "change" /\ log[1].arg = "AWAITING_USER_INPUT"
       \/ u = {1, 2} /\ FromUser(log[1]) /\ Starts(log[2])
  BY Zenon, <1>1, <1>5, <1>9
<1>11. Opens(Ctl, llm, running, u, {}, {})
  BY Zenon, <1>3, <1>4, <1>7, <1>10 DEF Opens
<1>12. Answered(Ctl)
  BY Zenon, <1>4, <1>7 DEF Answered
<1> QED
  BY Zenon, <1>3, <1>8, <1>11, <1>12 DEF TurnInv, Turn, u

\* Every step of an orderly conversation keeps TurnInv.
LEMMA NextTurn ==
  ASSUME Orderly, ControllerInv, Displays, TurnInv, [Next]_vars
  PROVE  TurnInv'
<1>1. CASE UNCHANGED vars
  <2>1. Ctl' = Ctl /\ UNCHANGED <<llm, running, rpos, mpos, mfail>>
    BY Zenon, <1>1 DEF vars, Ctl
  <2>2. Unheard(Ctl)' = Unheard(Ctl) /\ Backlog(Ctl)' = Backlog(Ctl) /\ Recalls(Ctl)' = Recalls(Ctl)
    BY Zenon, <2>1 DEF Unheard, Backlog, Recalls
  <2> QED
    BY Zenon, <2>1, <2>2 DEF TurnInv
<1>2. CASE MemoryFails \/ MemoryLoopRuns \/ UserStops \/ CrashRestart
  <2>1. ~MemoryFails
    BY Zenon DEF MemoryFails, Orderly
  <2>2. ~MemoryLoopRuns
    <3>1. mfail = 0
      BY Zenon, TurnFacts
    <3> QED
      BY SMT, <3>1 DEF MemoryLoopRuns
  <2>3. ~UserStops
    BY Zenon DEF UserStops, Orderly
  <2>4. ~CrashRestart
    <3>1. crashes \in Nat /\ MaxCrashes = 0
      BY Zenon DEF ControllerInv, Orderly
    <3>2. ~(crashes < MaxCrashes)
      BY <3>1
    <3> QED
      BY Zenon, <3>2 DEF CrashRestart
  <2> QED
    BY Zenon, <1>2, <2>1, <2>2, <2>3, <2>4
<1>3. CASE HandleOnly \/ HandleAndStep \/ LLMActs \/ LLMSpeaks \/ LLMRaises \/ StatusError
  BY Zenon, <1>3, HandleOnlyTurn, HandleStepTurn, LLMActsTurn, LLMSpeaksTurn, LLMRaisesTurn,
     StatusTurn
<1>4. CASE RuntimeAnswers \/ RuntimeStarts \/ RuntimeEnds \/ MemoryAnswers
  BY Zenon, <1>4, RuntimeAnswersTurn, RuntimeStartsTurn, RuntimeEndsTurn, MemoryTurn
<1>5. CASE UserMessage \/ UserDecides
  BY Zenon, <1>5, UserMessageTurn, UserDecidesTurn
<1> QED
  BY Zenon, <1>1, <1>2, <1>3, <1>4, <1>5 DEF Next

\* While the LLM is called the controller has heard everything and nothing is pending.
LEMMA AnswersFollow ==
  ASSUME ControllerInv, TurnInv
  PROVE  LLMSeesAnswers
<1> SUFFICES ASSUME llm = "calling", NEW i \in 1..cpos, log[i].type = "action"
             PROVE  \E j \in 1..cpos : log[j].type = "obs" /\ log[j].call = log[i].call
  BY Zenon DEF LLMSeesAnswers
<1>1. /\ Answered(Ctl) /\ Ctl.log = log /\ Ctl.pending = pending /\ Ctl.pos = cpos
      /\ log \in Seq(Event) /\ cpos \in 0..Len(log) /\ Len(log) \in Nat
  BY Zenon, TurnFacts
<1>2. Unheard(Ctl) = {} /\ Ctl.pending = NoPending
  BY Zenon, CallingReady DEF Ready
<1>3. DOMAIN log = 1..Len(log) /\ i \in DOMAIN log
  BY SMT, <1>1
<1>4. NoPending.event.type # "action"
  BY Zenon, BlankPlain
<1>5. PICK j \in DOMAIN log : log[j].type = "obs" /\ log[j].call = log[i].call
  BY Zenon, <1>1, <1>2, <1>3, <1>4 DEF Answered
<1>6. log[j] \in ForController
  <2>1. log[j] \in Event
    BY SMT, <1>1
  <2> QED
    BY Zenon, <1>5, <2>1 DEF ForController, ControllerTypes
<1>7. j \notin (cpos + 1)..Len(log)
  BY Zenon, <1>1, <1>2, <1>6 DEF Unheard, After
<1>8. j \in 1..cpos
  BY SMT, <1>1, <1>3, <1>7
<1> QED
  BY Zenon, <1>5, <1>8

----------------------------------------------------------------------------
(* Whoever has something to do finds it.                                   *)

\* A set of places in the log has a first one.
LEMMA FirstPlace ==
  ASSUME NEW S, S \subseteq Nat, S # {}
  PROVE  \E x \in S : \A y \in S : x <= y
<1> DEFINE R == OpToRel(<, Nat)
<1>1. \A x, y \in Nat : <<y, x>> \in R <=> y < x
  BY DEF OpToRel
<1>2. IsWellFoundedOn(R, Nat)
  BY Zenon, NatLessThanWellFounded
<1> HIDE DEF R
<1>3. PICK x \in S : \A y \in S : ~(<<y, x>> \in R)
  BY Zenon, <1>2, WFMin
<1>4. \A y \in S : ~(y < x)
  BY Zenon, <1>1, <1>3
<1>5. \A y \in S : x <= y
  BY <1>4
<1> QED
  BY Zenon, <1>5

\* Whoever has something to do finds it next.
LEMMA NextFirst ==
  ASSUME ControllerInv, NEW kind, NEW types, NEW p \in 0..Len(log), After(log, p, kind) # {},
         \A e \in kind : e.type \in types
  PROVE  NextOf(types, p) # {}
<1> DEFINE S == {i \in (p + 1)..Len(log) : log[i].type \in types}
<1>1. log \in Seq(Event) /\ Len(log) \in Nat /\ p \in Nat
  <2>1. log \in Seq(Event) /\ Len(log) \in Nat
    BY Zenon, CtlFacts DEF ControllerInv
  <2> QED
    BY SMT, <2>1
<1>2. S # {}
  BY Zenon DEF After
<1>3. S \subseteq Nat
  <2>1. \A i \in (p + 1)..Len(log) : i \in Nat
    BY SMT, <1>1
  <2> QED
    BY Zenon, <2>1
<1>4. PICK x \in S : \A y \in S : x <= y
  BY Zenon, <1>2, <1>3, FirstPlace
<1>5. x \in (p + 1)..Len(log) /\ log[x].type \in types
  BY Zenon
<1>6. \A j \in (p + 1)..(x - 1) : j \in (p + 1)..Len(log) /\ ~(x <= j)
  BY SMT, <1>1, <1>5
<1>7. \A j \in (p + 1)..(x - 1) : log[j].type \notin types
  BY Zenon, <1>4, <1>6
<1>8. x \in NextOf(types, p)
  BY Zenon, <1>5, <1>7 DEF NextOf
<1> QED
  BY Zenon, <1>8

\* When nobody has anything to do, only the user's turn is left of Turn.
LEMMA HangFollows ==
  ASSUME ControllerInv, TurnInv
  PROVE  NoSilentHang
<1> DEFINE u == Unheard(Ctl)
           b == Backlog(Ctl)
           m == Recalls(Ctl)
<1> SUFFICES ASSUME Quiescent PROVE YourTurn
  BY Zenon DEF NoSilentHang
<1>1. /\ llm = "idle" /\ NextOf(ControllerTypes, cpos) = {} /\ running = 0
      /\ NextOf({"action", "think"}, rpos) = {} /\ NextOf({"recall"}, mpos) = {} /\ status = 0
  BY Zenon DEF Quiescent
<1>2. /\ Turn(Ctl, llm, running, u, b, m) /\ Ctl.log = log /\ Ctl.state = agent_state
      /\ Ctl.pending = pending /\ Ctl.status = status /\ Ctl.pos = cpos
      /\ rpos \in 0..Len(log) /\ mpos \in 0..Len(log) /\ cpos \in 0..Len(log)
  BY Zenon, TurnFacts
<1>3. /\ \A e \in ForController : e.type \in ControllerTypes
      /\ \A e \in ForRuntime : e.type \in {"action", "think"}
      /\ \A e \in ForMemory : e.type \in {"recall"}
  BY Zenon DEF ForController, ForRuntime, ForMemory
<1>4. u = {}
  BY Zenon, <1>1, <1>2, <1>3, NextFirst DEF Unheard
<1>5. b = {}
  BY Zenon, <1>1, <1>2, <1>3, NextFirst DEF Backlog
<1>6. m = {}
  BY Zenon, <1>1, <1>2, <1>3, NextFirst DEF Recalls
<1> HIDE DEF u, b, m
<1>7. ~Opens(Ctl, llm, running, u, b, m) /\ ~Recalling(Ctl, llm, running, u, b, m)
      /\ ~Recalled(Ctl, llm, running, u, b, m)
  BY Zenon, <1>4, <1>6 DEF Opens, Recalling, Recalled
<1>8. ~Thinks(Ctl, llm, running, u, b, m)
  BY Zenon, <1>1, <1>4, <1>5 DEF Thinks
<1>9. ~Acts(Ctl, llm, running, u, b, m)
  <2>1. status # 1
    BY SMT, <1>1
  <2>2. Pends(Ctl, "action") => Ctl.pending.id # 0
    <3>1. log \in Seq(Event)
      BY Zenon, TurnFacts
    <3>2. 0 \notin DOMAIN log
      BY SMT, <3>1
    <3> QED
      BY Zenon, <1>2, <3>2 DEF Pends
  <2> QED
    BY Zenon, <1>1, <1>2, <1>4, <1>5, <2>1, <2>2 DEF Acts
<1>10. Waits(Ctl, llm, running, u, b, m) \/ Questions(Ctl, llm, running, u, b, m)
  BY Zenon, <1>2, <1>7, <1>8, <1>9 DEF Turn
<1> QED
  BY Zenon, <1>2, <1>10 DEF Waits, Questions, UsersTurn, YourTurn

----------------------------------------------------------------------------
(* The theorems.                                                           *)

\* In an orderly conversation somebody is always about to act, or the user has been told
\* that it is their turn.
THEOREM TurnAlways ==
  ASSUME Orderly
  PROVE  Spec => []TurnInv
<1>1. ControllerInv /\ ConfirmInv /\ TurnInv /\ [Next]_vars => TurnInv'
  <2>1. ControllerInv /\ ConfirmInv => Displays
    BY Zenon, DisplayedFacts DEF Displays
  <2> QED
    BY Zenon, <2>1, NextTurn
<1>2. Patient
  BY Zenon DEF Orderly
<1>3. Spec => []ConfirmInv
  BY Zenon, <1>2, ConfirmAlways
<1> QED
  BY InitTurn, ControllerAlways, <1>1, <1>3, PTL DEF Spec

\* The agent never hangs: it does not sit in RUNNING, or in a decision it has taken, with
\* nobody working for it, whatever the LLM answers and however often the runtime fails.
THEOREM HangHolds ==
  ASSUME Orderly
  PROVE  Spec => []NoSilentHang
<1>1. ControllerInv /\ TurnInv => NoSilentHang
  BY Zenon, HangFollows
<1>2. Spec => []TurnInv
  BY Zenon, TurnAlways
<1> QED
  BY ControllerAlways, <1>1, <1>2, PTL

\* Whenever the LLM is called, every runnable action in the history it is shown has an
\* observation there (_reset, on_event and the runtime see to it together).
THEOREM AnswersHold ==
  ASSUME Orderly
  PROVE  Spec => []LLMSeesAnswers
<1>1. ControllerInv /\ TurnInv => LLMSeesAnswers
  BY Zenon, AnswersFollow
<1>2. Spec => []TurnInv
  BY Zenon, TurnAlways
<1> QED
  BY ControllerAlways, <1>1, <1>2, PTL

=============================================================================
