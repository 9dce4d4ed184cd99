----------------------- MODULE AgentControllerProofs -----------------------
(***************************************************************************)
(* Theorems about AgentController, for any number of messages, tool calls, *)
(* crashes and any iteration limit: a stopped agent stays stopped until    *)
(* the user speaks or resumes, and the steps taken stay within what the    *)
(* user has granted.                                                       *)
(*                                                                         *)
(* A handler is a function of the controller and its log, so most of the   *)
(* argument is about those functions: LeadsTo says that one keeps the      *)
(* controller Sound and only moves it to an agent that runs when the log   *)
(* holds the word that released it.  ControllerInv says so of the          *)
(* variables and adds the other parties' places in the log.                *)
(***************************************************************************)
EXTENDS AgentController, TLAPS

Flag == [cur : Nat, max : Nat, hit : BOOLEAN]
Pending == [id : Nat, event : Event]
Controller == [state : AgentState, pending : Pending, log : Seq(Event), flag : Flag,
               saved : Flag, pos : Nat, status : Nat, resumes : Nat]

\* A change of the agent's state that is asked for over the stream: to run only as
\* the second event of a conversation that begins with a message, to go on with a
\* confirmed action only by the user.
ChangesOK(l) ==
    \A i \in DOMAIN l : l[i].type = "change" =>
      /\ l[i].arg \in {"RUNNING", "AWAITING_USER_INPUT", "STOPPED", "PAUSED",
                       "USER_CONFIRMED", "USER_REJECTED"}
      /\ l[i].arg = "RUNNING" => i = 2 /\ l[1].type = "message"
      /\ l[i].arg = "USER_CONFIRMED" => l[i].source = "user"

\* Every stop or pause among the first p events has the user's word after it.
Released(l, p) ==
    \A i \in 1..p : (l[i].type = "change" /\ l[i].arg \in {"STOPPED", "PAUSED"}) =>
      \E j \in (i + 1)..p :
        /\ l[j].source = "user"
        /\ l[j].type = "message" \/ l[j].arg = "USER_CONFIRMED"

\* The limit is what the user granted, and the count is within it.
Granted(f, r) == f.cur <= f.max /\ f.max <= MaxIterations * (1 + r)

\* What holds of the controller before and after each of its handlers.
Sound(c) ==
    /\ c \in Controller /\ c.pos <= Len(c.log) /\ ChangesOK(c.log)
    /\ c.pending.event.type # "change"
    /\ Granted(c.flag, c.resumes) /\ Granted(c.saved, c.resumes)

\* A controller that runs, or goes on with what the user confirmed, has the user's
\* word for it.
Obeys(c) == c.state \in {"RUNNING", "USER_CONFIRMED"} => Released(c.log, c.pos)

\* A handler leads from c to d: the log grows, and what was taken of it is the same.
LeadsTo(c, d) ==
    /\ Sound(d) /\ d.pos = c.pos /\ d.flag.cur = c.flag.cur
    /\ Len(c.log) <= Len(d.log)
    /\ Released(d.log, d.pos) <=> Released(c.log, c.pos)

ControllerInv ==
    /\ Sound(Ctl) /\ Obeys(Ctl)
    /\ llm \in {"idle", "calling"}
    /\ rpos \in 0..Len(log) /\ running \in 0..Len(log)
    /\ mpos \in 0..Len(log) /\ mfail \in 0..Len(log)
    /\ seen \in 0..Len(log)
    /\ calls \in Nat /\ steps \in Nat /\ crashes \in Nat
    /\ crashes = 0 => steps <= flag.cur

----------------------------------------------------------------------------
(* What each handler's parts keep.                                         *)

\* The event that stands for no pending action.
LEMMA BlankFacts == Blank \in Event /\ Blank.type # "change" /\ NoPending \in Pending
                    /\ NoPending.event.type # "change"
  BY Zenon DEF Blank, Ev, Event, NoPending, Pending

\* Appending to the log leaves what has been taken as it was.
LEMMA LogGrows ==
  ASSUME NEW l \in Seq(Event), NEW e \in Event, NEW p \in Nat, p <= Len(l)
  PROVE  /\ Append(l, e) \in Seq(Event) /\ Len(Append(l, e)) = Len(l) + 1
         /\ Append(l, e)[Len(l) + 1] = e
         /\ \A i \in 1..Len(l) : Append(l, e)[i] = l[i]
         /\ Released(Append(l, e), p) <=> Released(l, p)
<1> DEFINE m == Append(l, e)
<1>1. /\ m \in Seq(Event) /\ Len(m) = Len(l) + 1 /\ Len(l) \in Nat
      /\ m[Len(l) + 1] = e /\ \A i \in 1..Len(l) : m[i] = l[i]
  OBVIOUS
<1> HIDE DEF m
<1>2. \A i \in 1..p : m[i] = l[i] /\ \A j \in (i + 1)..p : m[j] = l[j]
  BY <1>1
<1>3. Released(m, p) <=> Released(l, p)
  BY SMTT(60), <1>2 DEF Released
<1> QED
  BY Zenon, <1>1, <1>3 DEF m

\* The changes asked for stay in order when an event is added that is none, or one
\* that the session or the user may add.
LEMMA ChangesGrow ==
  ASSUME NEW l \in Seq(Event), ChangesOK(l), NEW e \in Event,
         e.type = "change" =>
           \/ e.arg \in {"AWAITING_USER_INPUT", "STOPPED", "PAUSED", "USER_REJECTED"}
           \/ e.arg = "USER_CONFIRMED" /\ e.source = "user"
  PROVE  ChangesOK(Append(l, e))
<1> DEFINE m == Append(l, e)
<1>1. /\ DOMAIN m = 1..(Len(l) + 1) /\ DOMAIN l = 1..Len(l) /\ Len(l) \in Nat
      /\ m[Len(l) + 1] = e /\ \A i \in 1..Len(l) : m[i] = l[i]
  OBVIOUS
<1> HIDE DEF m
<1> SUFFICES ASSUME NEW i \in DOMAIN m, m[i].type = "change"
             PROVE  /\ m[i].arg \in {"RUNNING", "AWAITING_USER_INPUT", "STOPPED", "PAUSED",
                                     "USER_CONFIRMED", "USER_REJECTED"}
                    /\ m[i].arg = "RUNNING" => i = 2 /\ m[1].type = "message"
                    /\ m[i].arg = "USER_CONFIRMED" => m[i].source = "user"
  BY Zenon DEF ChangesOK, m
<1>2. CASE i \in 1..Len(l)
  <2>1. m[i] = l[i] /\ (i = 2 => m[1] = l[1])
    BY <1>1, <1>2
  <2>2. /\ l[i].arg \in {"RUNNING", "AWAITING_USER_INPUT", "STOPPED", "PAUSED",
                         "USER_CONFIRMED", "USER_REJECTED"}
        /\ l[i].arg = "RUNNING" => i = 2 /\ l[1].type = "message"
        /\ l[i].arg = "USER_CONFIRMED" => l[i].source = "user"
    BY Zenon, <1>1, <1>2, <2>1 DEF ChangesOK
  <2> QED
    BY Zenon, <2>1, <2>2
<1>3. CASE i = Len(l) + 1
  BY Zenon, <1>1, <1>3
<1> QED
  BY <1>1, <1>2, <1>3

\* add_event of anything but a change.
LEMMA AddSound ==
  ASSUME NEW c, Sound(c), NEW e \in Event, e.type # "change"
  PROVE  /\ LeadsTo(c, Add(c, e)) /\ Add(c, e).log = Append(c.log, e)
         /\ Add(c, e).state = c.state /\ Add(c, e).pending = c.pending
         /\ Add(c, e).flag = c.flag /\ Add(c, e).saved = c.saved /\ Add(c, e).pos = c.pos
         /\ Add(c, e).status = c.status /\ Add(c, e).resumes = c.resumes
<1> DEFINE d == Add(c, e)
<1>1. c \in Controller /\ c.log \in Seq(Event) /\ c.pos \in Nat /\ c.pos <= Len(c.log)
  BY Zenon DEF Sound, Controller
<1>2. /\ d.log = Append(c.log, e) /\ d.state = c.state /\ d.pending = c.pending
      /\ d.flag = c.flag /\ d.saved = c.saved /\ d.pos = c.pos
      /\ d.status = c.status /\ d.resumes = c.resumes
  BY Zenon, <1>1 DEF Add, Controller
<1>3. /\ Append(c.log, e) \in Seq(Event) /\ Len(Append(c.log, e)) = Len(c.log) + 1
      /\ Released(Append(c.log, e), c.pos) <=> Released(c.log, c.pos)
  BY Zenon, <1>1, LogGrows
<1>4. ChangesOK(d.log)
  BY Zenon, <1>1, <1>2, ChangesGrow DEF Sound
<1>5. d \in Controller
  BY Zenon, <1>1, <1>3 DEF Add, Controller
<1>6. Len(c.log) \in Nat
  BY <1>1
<1> HIDE DEF d
<1>7. Sound(d)
  BY <1>1, <1>2, <1>3, <1>4, <1>5, <1>6 DEF Sound
<1>8. LeadsTo(c, d)
  BY <1>2, <1>3, <1>6, <1>7 DEF LeadsTo
<1> QED
  BY Zenon, <1>2, <1>8 DEF d

\* Another pending action.
LEMMA PendingSound ==
  ASSUME NEW c, Sound(c), NEW p \in Pending, p.event.type # "change"
  PROVE  LET d == [c EXCEPT !.pending = p] IN
         /\ LeadsTo(c, d) /\ d.pending = p
         /\ d.state = c.state /\ d.log = c.log /\ d.flag = c.flag /\ d.saved = c.saved
         /\ d.pos = c.pos /\ d.status = c.status /\ d.resumes = c.resumes
<1> DEFINE d == [c EXCEPT !.pending = p]
<1>1. c \in Controller
  BY Zenon DEF Sound
<1>2. /\ d \in Controller /\ d.pending = p
      /\ d.state = c.state /\ d.log = c.log /\ d.flag = c.flag /\ d.saved = c.saved
      /\ d.pos = c.pos /\ d.status = c.status /\ d.resumes = c.resumes
  BY Zenon, <1>1 DEF Controller
<1> HIDE DEF d
<1>3. Len(c.log) \in Nat
  BY <1>1 DEF Controller
<1>4. LeadsTo(c, d)
  BY <1>2, <1>3 DEF Sound, LeadsTo
<1> QED
  BY Zenon, <1>2, <1>4 DEF d

\* Another state.
LEMMA StateSound ==
  ASSUME NEW c, Sound(c), NEW new \in AgentState
  PROVE  LET d == [c EXCEPT !.state = new] IN
         /\ LeadsTo(c, d) /\ d.state = new
         /\ d.pending = c.pending /\ d.log = c.log /\ d.flag = c.flag /\ d.saved = c.saved
         /\ d.pos = c.pos /\ d.status = c.status /\ d.resumes = c.resumes
<1> DEFINE d == [c EXCEPT !.state = new]
<1>1. c \in Controller
  BY Zenon DEF Sound
<1>2. /\ d \in Controller /\ d.state = new
      /\ d.pending = c.pending /\ d.log = c.log /\ d.flag = c.flag /\ d.saved = c.saved
      /\ d.pos = c.pos /\ d.status = c.status /\ d.resumes = c.resumes
  BY Zenon, <1>1 DEF Controller
<1> HIDE DEF d
<1>3. Len(c.log) \in Nat
  BY <1>1 DEF Controller
<1>4. LeadsTo(c, d)
  BY <1>2, <1>3 DEF Sound, LeadsTo
<1> QED
  BY Zenon, <1>2, <1>4 DEF d

\* Parts of a handler compose.
LEMMA LeadsOn ==
  ASSUME NEW c, NEW d, NEW e, Sound(c), LeadsTo(c, d), LeadsTo(d, e)
  PROVE  LeadsTo(c, e)
<1>1. Len(c.log) \in Nat /\ Len(d.log) \in Nat /\ Len(e.log) \in Nat
  BY DEF LeadsTo, Sound, Controller
<1> QED
  BY <1>1 DEF LeadsTo

\* A handler that does nothing leads to where it was.
LEMMA Stays == ASSUME NEW c, Sound(c) PROVE LeadsTo(c, c)
<1>1. Len(c.log) \in Nat
  BY DEF Sound, Controller
<1> QED
  BY <1>1 DEF LeadsTo

\* _reset
LEMMA ResetSound ==
  ASSUME NEW c, Sound(c)
  PROVE  /\ LeadsTo(c, Reset(c)) /\ Reset(c).pending = NoPending
         /\ Reset(c).state = c.state /\ Reset(c).flag = c.flag
         /\ Reset(c).status = c.status /\ Reset(c).resumes = c.resumes
<1> DEFINE e == [Ev("obs", "agent", "not_executed") EXCEPT
                   !.call = c.pending.event.call, !.cause = c.pending.id]
           t == Add(c, e)
<1>1. c \in Controller /\ c.pending \in Pending /\ c.pending.event \in Event
  BY Zenon DEF Sound, Controller, Pending
<1>2. e \in Event /\ e.type = "obs"
  <2>1. c.pending.event.call \in Nat /\ c.pending.id \in Nat
    BY Zenon, <1>1 DEF Pending, Event
  <2> QED
    BY Zenon, <2>1 DEF Ev, Event
<1> HIDE DEF e
<1>3. /\ LeadsTo(c, t) /\ t.state = c.state /\ t.flag = c.flag
      /\ t.status = c.status /\ t.resumes = c.resumes
  BY Zenon, <1>2, AddSound
<1> HIDE DEF t
<1>4. PICK b \in {c, t} : Reset(c) = [b EXCEPT !.pending = NoPending]
  BY Zenon DEF Reset, t, e
<1>5. /\ LeadsTo(c, b) /\ b.state = c.state /\ b.flag = c.flag
      /\ b.status = c.status /\ b.resumes = c.resumes /\ Sound(b)
  BY Zenon, <1>3, Stays DEF LeadsTo
<1>6. /\ LeadsTo(b, Reset(c)) /\ Reset(c).pending = NoPending
      /\ Reset(c).state = b.state /\ Reset(c).flag = b.flag
      /\ Reset(c).status = b.status /\ Reset(c).resumes = b.resumes
  BY <1>4, <1>5, PendingSound, BlankFacts
<1> QED
  BY Zenon, <1>5, <1>6, LeadsOn

\* The limit is raised by what a resume grants.
LEMMA RaiseSound ==
  ASSUME NEW c, Sound(c)
  PROVE  LET d == [c EXCEPT !.flag = IncreaseLimit(@), !.resumes = @ + 1] IN
         /\ LeadsTo(c, d) /\ d.state = c.state /\ d.pending = c.pending
         /\ d.status = c.status
<1> DEFINE f == IncreaseLimit(c.flag)
           d == [c EXCEPT !.flag = IncreaseLimit(@), !.resumes = @ + 1]
<1>1. /\ c \in Controller /\ c.flag \in Flag /\ c.saved \in Flag /\ c.resumes \in Nat
      /\ MaxIterations \in Nat
  BY Zenon, ControllerAssumption DEF Sound, Controller
<1>2. f \in Flag /\ f.cur = c.flag.cur /\ f.max \in {c.flag.max, c.flag.max + MaxIterations}
  <2>1. CASE c.flag.hit
    <3>1. f = [c.flag EXCEPT !.max = @ + MaxIterations, !.hit = FALSE]
      BY Zenon, <2>1 DEF IncreaseLimit
    <3>2. c.flag.max + MaxIterations \in Nat /\ FALSE \in BOOLEAN
      BY <1>1 DEF Flag
    <3> QED
      BY Zenon, <1>1, <3>1, <3>2 DEF Flag
  <2>2. CASE ~c.flag.hit
    BY Zenon, <1>1, <2>2 DEF IncreaseLimit
  <2> QED
    BY Zenon, <2>1, <2>2
<1> HIDE DEF f
<1>3. d = [c EXCEPT !.flag = f, !.resumes = c.resumes + 1]
  BY Zenon, <1>1 DEF f, Controller
<1>4. /\ d \in Controller /\ d.flag = f /\ d.resumes = c.resumes + 1
      /\ d.pending = c.pending /\ d.log = c.log /\ d.state = c.state /\ d.saved = c.saved
      /\ d.pos = c.pos /\ d.status = c.status
  <2>1. f \in Flag /\ c.resumes + 1 \in Nat
    BY <1>1, <1>2
  <2> HIDE DEF d
  <2>2. d \in Controller
    BY Zenon, <1>1, <1>3, <2>1 DEF Controller
  <2> QED
    BY Zenon, <1>1, <1>3, <2>2 DEF Controller
<1>5. MaxIterations * (1 + (c.resumes + 1)) = MaxIterations * (1 + c.resumes) + MaxIterations
  BY <1>1
<1>6. Granted(c.flag, c.resumes) /\ Granted(c.saved, c.resumes)
  BY Zenon DEF Sound
<1>7. MaxIterations * (1 + c.resumes) \in Nat
  BY <1>1
<1>8. Granted(f, c.resumes + 1) /\ Granted(c.saved, c.resumes + 1)
  <2> DEFINE g == MaxIterations * (1 + c.resumes)
             h == MaxIterations * (1 + (c.resumes + 1))
  <2>1. h = g + MaxIterations /\ g \in Nat
    BY Zenon, <1>5, <1>7
  <2>2. /\ c.flag.cur <= c.flag.max /\ c.flag.max <= g
        /\ c.saved.cur <= c.saved.max /\ c.saved.max <= g
    BY Zenon, <1>6 DEF Granted
  <2> HIDE DEF g, h
  <2>3. f.cur <= f.max /\ f.max <= h /\ c.saved.max <= h
    BY <1>1, <1>2, <2>1, <2>2 DEF Flag
  <2> QED
    BY Zenon, <2>2, <2>3 DEF Granted, h
<1> HIDE DEF d
<1>9. Len(c.log) \in Nat
  BY <1>1 DEF Controller
<1>10. LeadsTo(c, d)
  BY <1>2, <1>4, <1>8, <1>9 DEF Sound, LeadsTo
<1> QED
  BY Zenon, <1>4, <1>10 DEF d

\* The pending action published again.
LEMMA DecideSound ==
  ASSUME NEW c, Sound(c), NEW conf \in {"confirmed", "rejected"}
  PROVE  /\ LeadsTo(c, Decide(c, conf)) /\ Decide(c, conf).state = c.state
         /\ Decide(c, conf).flag = c.flag /\ Decide(c, conf).status = c.status
<1> DEFINE e == [c.pending.event EXCEPT !.conf = conf, !.source = "agent"]
           t == Add(c, e)
           p == [id |-> Len(c.log) + 1, event |-> e]
<1>1. /\ c.pending.event \in Event /\ c.pending.event.type # "change" /\ Len(c.log) \in Nat
  BY DEF Sound, Controller, Pending
<1>2. e \in Event /\ e.type # "change"
  BY ZenonT(60), <1>1 DEF Event
<1> HIDE DEF e
<1>3. /\ LeadsTo(c, t) /\ t.state = c.state /\ t.flag = c.flag /\ t.status = c.status
  BY Zenon, <1>2, AddSound
<1>4. p \in Pending /\ p.event.type # "change"
  BY <1>1, <1>2 DEF Pending
<1>5. Decide(c, conf) = [t EXCEPT !.pending = p]
  BY Zenon DEF Decide, e
<1> HIDE DEF t, p
<1>6. Sound(t)
  BY Zenon, <1>3 DEF LeadsTo
<1>7. /\ LeadsTo(t, Decide(c, conf)) /\ Decide(c, conf).state = t.state
      /\ Decide(c, conf).flag = t.flag /\ Decide(c, conf).status = t.status
  BY <1>4, <1>5, <1>6, PendingSound
<1> QED
  BY Zenon, <1>3, <1>7, LeadsOn

\* The save at the end of a change of state.
LEMMA SaveSound ==
  ASSUME NEW c, Sound(c)
  PROVE  LET d == [c EXCEPT !.saved = c.flag] IN LeadsTo(c, d) /\ d.state = c.state
<1> DEFINE d == [c EXCEPT !.saved = c.flag]
<1>1. c \in Controller /\ c.flag \in Flag /\ Len(c.log) \in Nat
  BY DEF Sound, Controller
<1>2. /\ d \in Controller /\ d.state = c.state /\ d.saved = c.flag
      /\ d.pending = c.pending /\ d.log = c.log /\ d.flag = c.flag
      /\ d.pos = c.pos /\ d.status = c.status /\ d.resumes = c.resumes
  BY Zenon, <1>1 DEF Controller
<1> HIDE DEF d
<1>3. LeadsTo(c, d)
  BY <1>1, <1>2 DEF Sound, LeadsTo
<1> QED
  BY Zenon, <1>2, <1>3 DEF d

\* set_agent_state_to ends in the state it is given.
LEMMA SetStateSound ==
  ASSUME NEW c, Sound(c), NEW new \in AgentState
  PROVE  LeadsTo(c, set_agent_state_to(c, new)) /\ set_agent_state_to(c, new).state = new
<1>1. CASE new = c.state
  BY Zenon, <1>1, Stays DEF set_agent_state_to
<1>2. CASE new # c.state
  <2> DEFINE entered == [c EXCEPT !.state = new]
             reset == IF new \in {"STOPPED", "ERROR"} THEN Reset(entered) ELSE entered
             raised == IF c.state = "ERROR" /\ new = "RUNNING"
                       THEN [reset EXCEPT !.flag = IncreaseLimit(@), !.resumes = @ + 1]
                       ELSE reset
             decided == IF raised.pending = NoPending THEN raised
                        ELSE CASE new = "USER_CONFIRMED" -> Decide(raised, "confirmed")
                               [] new = "USER_REJECTED" -> Decide(raised, "rejected")
                               [] OTHER -> raised
             e == Ev("state", "environment", new)
             told == Add(decided, e)
  <2>1. set_agent_state_to(c, new) = [told EXCEPT !.saved = told.flag]
    BY Zenon, <1>2 DEF set_agent_state_to
  <2>2. LeadsTo(c, entered) /\ entered.state = new
    BY Zenon, StateSound
  <2> HIDE DEF entered
  <2>3. LeadsTo(entered, reset) /\ reset.state = new
    BY Zenon, <2>2, ResetSound, Stays DEF LeadsTo
  <2> HIDE DEF reset
  <2>4. LeadsTo(reset, raised) /\ raised.state = new
    <3>1. Sound(reset)
      BY Zenon, <2>3 DEF LeadsTo
    <3> QED
      BY Zenon, <2>3, <3>1, RaiseSound, Stays
  <2> HIDE DEF raised
  <2>5. LeadsTo(raised, decided) /\ decided.state = new
    <3>1. Sound(raised)
      BY Zenon, <2>4 DEF LeadsTo
    <3>2. decided \in {raised, Decide(raised, "confirmed"), Decide(raised, "rejected")}
      BY Zenon DEF decided
    <3> QED
      BY Zenon, <2>4, <3>1, <3>2, DecideSound, Stays
  <2> HIDE DEF decided
  <2>6. LeadsTo(decided, told) /\ told.state = new
    <3>1. Sound(decided)
      BY Zenon, <2>5 DEF LeadsTo
    <3>2. e \in Event /\ e.type # "change"
      BY Zenon DEF Ev, Event
    <3> HIDE DEF e
    <3> QED
      BY Zenon, <2>5, <3>1, <3>2, AddSound
  <2> HIDE DEF told
  <2>7. /\ LeadsTo(told, set_agent_state_to(c, new))
        /\ set_agent_state_to(c, new).state = new
    <3>1. Sound(told)
      BY Zenon, <2>6 DEF LeadsTo
    <3> QED
      BY Zenon, <2>1, <2>6, <3>1, SaveSound
  <2>8. Sound(entered) /\ Sound(reset) /\ Sound(raised) /\ Sound(decided)
    BY Zenon, <2>2, <2>3, <2>4, <2>5 DEF LeadsTo
  <2>9. LeadsTo(c, raised)
    BY Zenon, <2>2, <2>3, <2>4, LeadsOn
  <2>10. LeadsTo(c, told)
    BY Zenon, <2>5, <2>6, <2>9, LeadsOn
  <2> QED
    BY Zenon, <2>7, <2>10, LeadsOn
<1> QED
  BY Zenon, <1>1, <1>2

\* The count of the error statuses.
LEMMA StatusSound ==
  ASSUME NEW c, Sound(c), NEW n \in Nat
  PROVE  LET d == [c EXCEPT !.status = n] IN LeadsTo(c, d) /\ d.state = c.state /\ d.flag = c.flag
<1> DEFINE d == [c EXCEPT !.status = n]
<1>1. c \in Controller /\ Len(c.log) \in Nat
  BY DEF Sound, Controller
<1>2. /\ d \in Controller /\ d.state = c.state /\ d.saved = c.saved
      /\ d.pending = c.pending /\ d.log = c.log /\ d.flag = c.flag
      /\ d.pos = c.pos /\ d.resumes = c.resumes
  BY Zenon, <1>1 DEF Controller
<1> HIDE DEF d
<1>3. LeadsTo(c, d)
  BY <1>1, <1>2 DEF Sound, LeadsTo
<1> QED
  BY Zenon, <1>2, <1>3 DEF d

\* _react_to_exception ends in ERROR.
LEMMA ReactSound ==
  ASSUME NEW c, Sound(c)
  PROVE  LeadsTo(c, React(c)) /\ React(c).state = "ERROR"
<1> DEFINE d == [c EXCEPT !.status = c.status + 1]
<1>1. c.status + 1 \in Nat
  BY DEF Sound, Controller
<1>2. LeadsTo(c, d)
  BY Zenon, <1>1, StatusSound
<1>3. [c EXCEPT !.status = @ + 1] = d
  BY Zenon DEF Sound, Controller
<1> HIDE DEF d
<1>4. React(c) = set_agent_state_to(d, "ERROR") /\ "ERROR" \in AgentState
  BY Zenon, <1>3 DEF React, AgentState
<1>5. Sound(d)
  BY Zenon, <1>2 DEF LeadsTo
<1>6. LeadsTo(d, React(c)) /\ React(c).state = "ERROR"
  BY Zenon, <1>4, <1>5, SetStateSound
<1> QED
  BY Zenon, <1>2, <1>6, LeadsOn

\* Another way to say what a user's message, or decision, as the last event taken means.
LEMMA UsersWord ==
  ASSUME NEW l, NEW p \in Nat \ {0},
         l[p].source = "user",
         l[p].type = "message" \/ (l[p].type = "change" /\ l[p].arg = "USER_CONFIRMED")
  PROVE  Released(l, p)
<1> SUFFICES ASSUME NEW i \in 1..p, l[i].type = "change", l[i].arg \in {"STOPPED", "PAUSED"}
             PROVE  p \in (i + 1)..p
  BY Zenon DEF Released
<1>1. i # p
  BY Zenon
<1> QED
  BY <1>1

\* _handle_message_action
LEMMA MessageSound ==
  ASSUME NEW c, Sound(c), NEW i \in 1..Len(c.log), c.pos = i, c.log[i].type = "message",
         c.state \in {"RUNNING", "USER_CONFIRMED"} => Released(c.log, i)
  PROVE  LET d == HandleMessage(c, c.log[i], i) IN LeadsTo(c, d) /\ Obeys(d)
<1> DEFINE e == c.log[i]
           d == HandleMessage(c, e, i)
<1>1. Len(c.log) \in Nat /\ i \in Nat \ {0}
  BY DEF Sound, Controller
<1>2. CASE e.source = "user"
  <2> DEFINE first == \A j \in 1..(i - 1) :
                        ~(c.log[j].type = "message" /\ c.log[j].source = "user")
             kind == IF first THEN "workspace" ELSE "knowledge"
             recall == Ev("recall", "user", kind)
             added == Add(c, recall)
             p == [id |-> Len(c.log) + 1, event |-> recall]
             asked == [added EXCEPT !.pending = p]
  <2>1. d = set_agent_state_to(asked, "RUNNING") /\ "RUNNING" \in AgentState
    BY Zenon, <1>2 DEF HandleMessage, AgentState
  <2>2. recall \in Event /\ recall.type = "recall"
    <3>1. kind \in {"workspace", "knowledge"}
      BY Zenon
    <3> HIDE DEF kind
    <3> QED
      BY Zenon, <3>1 DEF Ev, Event
  <2> HIDE DEF recall
  <2>3. LeadsTo(c, added) /\ p \in Pending /\ p.event.type # "change"
    BY <1>1, <2>2, AddSound DEF Pending
  <2>4. Sound(added)
    BY Zenon, <2>3 DEF LeadsTo
  <2> HIDE DEF added, p
  <2>5. LeadsTo(added, asked) /\ Sound(asked)
    BY ZenonT(60), <2>3, <2>4, PendingSound DEF LeadsTo
  <2> HIDE DEF asked
  <2>6. LeadsTo(asked, d)
    BY Zenon, <2>1, <2>5, SetStateSound
  <2>7. LeadsTo(c, d)
    BY Zenon, <2>3, <2>4, <2>5, <2>6, LeadsOn
  <2>8. Released(c.log, c.pos)
    BY Zenon, <1>1, <1>2, UsersWord
  <2> HIDE DEF d
  <2> QED
    BY Zenon, <2>7, <2>8 DEF LeadsTo, Obeys, d
<1>3. CASE e.source # "user" /\ e.arg = "wait"
  <2>1. d = set_agent_state_to(c, "AWAITING_USER_INPUT") /\ "AWAITING_USER_INPUT" \in AgentState
    BY Zenon, <1>3 DEF HandleMessage, AgentState
  <2> QED
    BY Zenon, <2>1, SetStateSound DEF Obeys
<1>4. CASE e.source # "user" /\ e.arg # "wait"
  <2>1. d = c
    BY Zenon, <1>4 DEF HandleMessage
  <2> QED
    BY Zenon, <2>1, Stays DEF Obeys
<1> QED
  BY Zenon, <1>2, <1>3, <1>4

\* _handle_observation
LEMMA ObservationSound ==
  ASSUME NEW c, Sound(c), Obeys(c), NEW e
  PROVE  LeadsTo(c, HandleObservation(c, e)) /\ Obeys(HandleObservation(c, e))
<1> DEFINE d == HandleObservation(c, e)
           free == [c EXCEPT !.pending = NoPending]
<1>1. LeadsTo(c, free) /\ free.state = c.state
  BY Zenon, PendingSound, BlankFacts
<1>2. Sound(free)
  BY Zenon, <1>1 DEF LeadsTo
<1>3. CASE d = c
  BY Zenon, <1>3, Stays
<1>4. CASE d = set_agent_state_to(free, "RUNNING") /\ c.state = "USER_CONFIRMED"
  <2>1. LeadsTo(free, d)
    BY Zenon, <1>2, <1>4, SetStateSound DEF AgentState
  <2>2. LeadsTo(c, d)
    BY Zenon, <1>1, <2>1, LeadsOn
  <2>3. Released(c.log, c.pos)
    BY Zenon, <1>4 DEF Obeys
  <2> QED
    BY Zenon, <2>2, <2>3 DEF LeadsTo, Obeys
<1>5. CASE d = set_agent_state_to(free, "AWAITING_USER_INPUT")
  <2>1. LeadsTo(free, d) /\ d.state = "AWAITING_USER_INPUT"
    BY <1>2, <1>5, SetStateSound DEF AgentState
  <2> QED
    BY Zenon, <1>1, <2>1, LeadsOn DEF Obeys
<1>6. CASE d = free
  BY Zenon, <1>1, <1>6 DEF LeadsTo, Obeys
<1> QED
  BY Zenon, <1>3, <1>4, <1>5, <1>6 DEF HandleObservation

\* What Sound says of the variables themselves.
LEMMA CtlFacts ==
  ASSUME Sound(Ctl)
  PROVE  /\ log \in Seq(Event) /\ Len(log) \in Nat /\ agent_state \in AgentState
         /\ pending \in Pending /\ flag \in Flag /\ saved \in Flag
         /\ cpos \in Nat /\ cpos <= Len(log) /\ status \in Nat /\ resumes \in Nat
         /\ ChangesOK(log) /\ pending.event.type # "change"
         /\ Granted(flag, resumes) /\ Granted(saved, resumes)
<1>1. /\ Ctl.state = agent_state /\ Ctl.pending = pending /\ Ctl.log = log /\ Ctl.flag = flag
      /\ Ctl.saved = saved /\ Ctl.pos = cpos /\ Ctl.status = status /\ Ctl.resumes = resumes
  BY Zenon DEF Ctl
<1>2. /\ Ctl.state \in AgentState /\ Ctl.pending \in Pending /\ Ctl.log \in Seq(Event)
      /\ Ctl.flag \in Flag /\ Ctl.saved \in Flag /\ Ctl.pos \in Nat /\ Ctl.status \in Nat
      /\ Ctl.resumes \in Nat
  BY Zenon DEF Sound, Controller
<1>3. /\ Ctl.pos <= Len(Ctl.log) /\ ChangesOK(Ctl.log) /\ Ctl.pending.event.type # "change"
      /\ Granted(Ctl.flag, Ctl.resumes) /\ Granted(Ctl.saved, Ctl.resumes)
  BY Zenon DEF Sound
<1>4. Len(Ctl.log) \in Nat
  BY <1>2
<1> HIDE DEF Ctl
<1> QED
  BY Zenon, <1>1, <1>2, <1>3, <1>4

\* The controller takes the next event: its handler, for every class of event,
\* leaves it sound and obedient.
LEMMA HandleSound ==
  ASSUME Sound(Ctl), Obeys(Ctl), NEW i \in NextOf(ControllerTypes, cpos),
         NEW c, c = [Ctl EXCEPT !.pos = i]
  PROVE  /\ Sound(c) /\ c.flag = flag /\ c.log = log /\ c.pos = i
         /\ LeadsTo(c, Handle(c, log[i], i)) /\ Obeys(Handle(c, log[i], i))
<1> DEFINE d == Handle(c, log[i], i)
<1>1. /\ i \in (cpos + 1)..Len(log) /\ log[i].type \in ControllerTypes
      /\ \A j \in (cpos + 1)..(i - 1) : log[j].type \notin ControllerTypes
  BY Zenon DEF NextOf
<1>2. i \in 1..Len(log) /\ i \in Nat \ {0} /\ cpos < i /\ cpos \in Nat /\ i <= Len(log)
  BY <1>1, CtlFacts
<1>3. /\ c.state = agent_state /\ c.pending = pending /\ c.log = log /\ c.flag = flag
      /\ c.saved = saved /\ c.pos = i /\ c.status = status /\ c.resumes = resumes
  BY Zenon DEF Ctl
<1>4. c \in Controller
  BY Zenon, <1>2, CtlFacts DEF Ctl, Controller
<1>5. Sound(c)
  BY Zenon, <1>2, <1>3, <1>4, CtlFacts DEF Sound
<1>6. Ctl.state = agent_state /\ Ctl.log = log /\ Ctl.pos = cpos
  BY Zenon DEF Ctl
<1>7. CASE log[i].type # "change"
  <2>1. Released(log, cpos) => Released(log, i)
    <3> SUFFICES ASSUME Released(log, cpos), NEW k \in 1..i,
                        log[k].type = "change", log[k].arg \in {"STOPPED", "PAUSED"}
                 PROVE  \E j \in (k + 1)..i :
                          /\ log[j].source = "user"
                          /\ log[j].type = "message" \/ log[j].arg = "USER_CONFIRMED"
      BY Zenon DEF Released
    <3>1. k \in 1..cpos
      <4>1. k # i /\ k \notin (cpos + 1)..(i - 1)
        BY Zenon, <1>1, <1>7 DEF ControllerTypes
      <4> QED
        BY <1>2, <4>1
    <3>2. PICK j \in (k + 1)..cpos :
            /\ log[j].source = "user"
            /\ log[j].type = "message" \/ log[j].arg = "USER_CONFIRMED"
      BY Zenon, <3>1 DEF Released
    <3>3. j \in (k + 1)..i
      BY <1>2
    <3> QED
      BY Zenon, <3>2, <3>3
  <2>2. c.state \in {"RUNNING", "USER_CONFIRMED"} => Released(c.log, i)
    BY Zenon, <1>3, <1>6, <2>1 DEF Obeys
  <2>3. Obeys(c)
    BY Zenon, <1>3, <2>2 DEF Obeys
  <2>4. CASE log[i].type = "message"
    <3>1. d = HandleMessage(c, log[i], i)
      BY Zenon, <2>4 DEF Handle
    <3>2. i \in 1..Len(c.log) /\ c.log[i].type = "message" /\ c.log[i] = log[i]
      BY Zenon, <1>2, <1>3, <2>4
    <3> QED
      BY Zenon, <1>3, <1>5, <2>2, <3>1, <3>2, MessageSound
  <2>5. CASE log[i].type = "finish"
    <3>1. d = set_agent_state_to(c, "FINISHED") /\ "FINISHED" \in AgentState
      BY Zenon, <2>5 DEF Handle, AgentState
    <3> QED
      BY <1>3, <1>5, <3>1, SetStateSound DEF Obeys
  <2>6. CASE log[i].type = "reject"
    <3>1. d = set_agent_state_to(c, "REJECTED") /\ "REJECTED" \in AgentState
      BY Zenon, <2>6 DEF Handle, AgentState
    <3> QED
      BY <1>3, <1>5, <3>1, SetStateSound DEF Obeys
  <2>7. CASE log[i].type \in {"obs", "null_obs"}
    <3>1. d = HandleObservation(c, log[i])
      BY Zenon, <2>7 DEF Handle
    <3> QED
      BY <1>3, <1>5, <2>3, <3>1, ObservationSound
  <2>8. CASE log[i].type = "condense"
    <3>1. d = c
      BY Zenon, <2>8 DEF Handle
    <3> QED
      BY Zenon, <1>3, <1>5, <2>3, <3>1, Stays
  <2> QED
    BY Zenon, <1>1, <1>7, <2>4, <2>5, <2>6, <2>7, <2>8 DEF ControllerTypes
<1>8. CASE log[i].type = "change"
  <2> DEFINE new == log[i].arg
  <2>1. /\ new \in {"RUNNING", "AWAITING_USER_INPUT", "STOPPED", "PAUSED",
                    "USER_CONFIRMED", "USER_REJECTED"}
        /\ new = "RUNNING" => i = 2 /\ log[1].type = "message"
        /\ new = "USER_CONFIRMED" => log[i].source = "user"
    <3>1. i \in DOMAIN log /\ ChangesOK(log)
      BY <1>2, CtlFacts
    <3> QED
      BY Zenon, <1>8, <3>1 DEF ChangesOK
  <2>2. d = set_agent_state_to(c, new) /\ new \in AgentState
    BY Zenon, <1>8, <2>1 DEF Handle, AgentState
  <2>3. LeadsTo(c, d) /\ d.state = new
    BY Zenon, <1>5, <2>2, SetStateSound
  <2>4. new = "USER_CONFIRMED" => Released(log, i)
    BY Zenon, <1>2, <1>8, <2>1, UsersWord
  <2>5. new = "RUNNING" => Released(log, i)
    <3> SUFFICES ASSUME new = "RUNNING" PROVE Released(log, i)
      BY Zenon
    <3>1. i = 2 /\ log[1].type = "message"
      BY Zenon, <2>1
    <3>2. \A k \in 1..i : k = 1 \/ k = 2
      BY <3>1
    <3> QED
      BY Zenon, <3>1, <3>2 DEF Released
  <2> HIDE DEF d, new
  <2>6. Obeys(d)
    BY Zenon, <1>3, <2>3, <2>4, <2>5 DEF Obeys, LeadsTo
  <2> QED
    BY Zenon, <1>3, <1>5, <2>3, <2>6 DEF d
<1> QED
  BY Zenon, <1>7, <1>8

\* A flag with its count raised, or marked as having hit the limit.
LEMMA FlagSet ==
  ASSUME NEW f \in Flag
  PROVE  /\ Counted(f) \in Flag /\ Counted(f).cur = f.cur + 1 /\ Counted(f).max = f.max
         /\ LET g == [f EXCEPT !.hit = TRUE]
            IN g \in Flag /\ g.cur = f.cur /\ g.max = f.max
<1>1. f.cur + 1 \in Nat /\ TRUE \in BOOLEAN /\ FALSE \in BOOLEAN
  BY DEF Flag
<1>2. Counted(f) \in Flag /\ Counted(f).cur = f.cur + 1 /\ Counted(f).max = f.max
  BY Zenon, <1>1 DEF Flag, Counted
<1>3. LET g == [f EXCEPT !.hit = TRUE]
      IN g \in Flag /\ g.cur = f.cur /\ g.max = f.max
  BY Zenon, <1>1 DEF Flag
<1> QED
  BY Zenon, <1>2, <1>3

\* Another count of iterations.
LEMMA FlagSound ==
  ASSUME NEW c, Sound(c), NEW f \in Flag, Granted(f, c.resumes)
  PROVE  LET d == [c EXCEPT !.flag = f] IN
         /\ Sound(d) /\ d.state = c.state /\ d.flag = f /\ d.log = c.log /\ d.pos = c.pos
<1> DEFINE d == [c EXCEPT !.flag = f]
<1>1. c \in Controller
  BY Zenon DEF Sound
<1>2. /\ d \in Controller /\ d.state = c.state /\ d.saved = c.saved
      /\ d.pending = c.pending /\ d.log = c.log /\ d.flag = f
      /\ d.pos = c.pos /\ d.status = c.status /\ d.resumes = c.resumes
  BY Zenon, <1>1 DEF Controller
<1> HIDE DEF d
<1>3. Sound(d)
  BY Zenon, <1>2 DEF Sound
<1> QED
  BY Zenon, <1>2, <1>3 DEF d

----------------------------------------------------------------------------
(* The steps.                                                              *)

\* What the variables are after a handler.
LEMMA BecomesSound ==
  ASSUME NEW c, Sound(c), Obeys(c), Becomes(c)
  PROVE  /\ Sound(Ctl)' /\ Obeys(Ctl)'
         /\ log' = c.log /\ flag' = c.flag /\ agent_state' = c.state /\ cpos' = c.pos
<1>1. /\ agent_state' = c.state /\ pending' = c.pending /\ log' = c.log
      /\ flag' = c.flag /\ saved' = c.saved /\ cpos' = c.pos
      /\ status' = c.status /\ resumes' = c.resumes
  BY Zenon DEF Becomes
<1>2. c \in Controller
  BY Zenon DEF Sound
<1>3. Ctl' = c
  BY Zenon, <1>1, <1>2 DEF Ctl, Controller
<1>4. Sound(Ctl') /\ Obeys(Ctl')
  BY Zenon, <1>3
<1> QED
  BY Zenon, <1>1, <1>4

\* The rest of the invariant, for a step of the controller.
LEMMA RestKept ==
  ASSUME ControllerInv, Sound(Ctl)', Obeys(Ctl)', Len(log) <= Len(log'),
         UNCHANGED <<rpos, running, mpos, mfail, seen, crashes>>,
         llm' \in {"idle", "calling"}, calls' \in Nat, steps' \in Nat,
         crashes = 0 => steps' <= flag'.cur
  PROVE  ControllerInv'
<1>1. Len(log) \in Nat /\ Len(log') \in Nat
  <2>1. Len(log) \in Nat
    BY Zenon, CtlFacts DEF ControllerInv
  <2>2. Ctl'.log \in Seq(Event) /\ Ctl'.log = log'
    BY Zenon DEF Sound, Controller, Ctl
  <2>3. Len(log') \in Nat
    BY <2>2
  <2> QED
    BY Zenon, <2>1, <2>3
<1>2. \A n \in 0..Len(log) : n \in 0..Len(log')
  BY <1>1
<1> QED
  BY Zenon, <1>2 DEF ControllerInv

\* A handler that makes no LLM call.
LEMMA HandlerKeeps ==
  ASSUME ControllerInv, NEW d, Sound(d), Obeys(d), Becomes(d),
         flag.cur <= d.flag.cur, Len(log) <= Len(d.log),
         UNCHANGED <<parties, user, crashes, steps>>,
         llm' \in {"idle", "calling"}, calls' \in Nat
  PROVE  ControllerInv'
<1>1. /\ Sound(Ctl)' /\ Obeys(Ctl)' /\ log' = d.log /\ flag' = d.flag
  BY Zenon, BecomesSound
<1>2. d.flag.cur \in Nat /\ flag.cur \in Nat /\ steps \in Nat
  <2>1. flag \in Flag
    BY Zenon, CtlFacts DEF ControllerInv
  <2>2. d.flag \in Flag
    BY Zenon DEF Sound, Controller
  <2> QED
    BY Zenon, <2>1, <2>2 DEF Flag, ControllerInv
<1>3. crashes = 0 => steps' <= flag'.cur
  BY SMTT(60), <1>1, <1>2 DEF ControllerInv
<1>4. /\ UNCHANGED <<rpos, running, mpos, mfail, seen, crashes>> /\ steps' \in Nat
  BY Zenon, <1>2 DEF parties, user
<1> QED
  BY Zenon, <1>1, <1>3, <1>4, RestKept

\* on_event.
LEMMA HandleKeeps ==
  ASSUME ControllerInv, HandleOnly \/ HandleAndStep
  PROVE  ControllerInv' /\ (steps' # steps => agent_state' = "RUNNING")
<1>1. PICK i \in NextOf(ControllerTypes, cpos) :
        LET c == Handle([Ctl EXCEPT !.pos = i], log[i], i)
            counted == [c EXCEPT !.flag = Counted(@)]
        IN \/ Becomes(c) /\ UNCHANGED <<llm, steps>>
           \/ c.state = "RUNNING" /\ Becomes(React(c)) /\ UNCHANGED <<llm, steps>>
           \/ /\ c.state = "RUNNING"
              /\ Becomes(React([c EXCEPT !.flag.hit = TRUE])) /\ UNCHANGED <<llm, steps>>
           \/ /\ c.state = "RUNNING" /\ ~ReachedLimit(c.flag)
              /\ Becomes(React(counted)) /\ UNCHANGED <<llm, steps>>
           \/ /\ c.state = "RUNNING" /\ ~ReachedLimit(c.flag)
              /\ Becomes(counted) /\ llm' = "calling" /\ steps' = steps + 1
  BY Zenon DEF HandleOnly, HandleAndStep
<1>2. UNCHANGED <<parties, user, crashes, calls>>
  BY Zenon DEF HandleOnly, HandleAndStep
<1> DEFINE b == [Ctl EXCEPT !.pos = i]
           c == Handle(b, log[i], i)
           g == Counted(c.flag)
           h == [c.flag EXCEPT !.hit = TRUE]
           counted == [c EXCEPT !.flag = g]
           hit == [c EXCEPT !.flag = h]
<1>3. /\ Sound(b) /\ b.flag = flag /\ b.log = log
      /\ LeadsTo(b, c) /\ Obeys(c)
  BY Zenon, HandleSound DEF ControllerInv
<1>4. Sound(c) /\ c.flag.cur = flag.cur /\ Len(log) <= Len(c.log)
  BY Zenon, <1>3 DEF LeadsTo
<1>5. c \in Controller /\ c.flag \in Flag /\ Len(c.log) \in Nat /\ c.resumes \in Nat
  BY <1>4 DEF Sound, Controller
<1>6. /\ [c EXCEPT !.flag = Counted(@)] = counted
      /\ [c EXCEPT !.flag.hit = TRUE] = hit
  <2> HIDE DEF b, c
  <2>1. [c EXCEPT !.flag = Counted(@)] = counted
    BY Zenon, <1>5 DEF Controller
  <2>2. [c EXCEPT !.flag.hit = TRUE] = hit
    BY Zenon, <1>5 DEF Controller
  <2> QED
    BY Zenon, <2>1, <2>2
<1> HIDE DEF b, c
<1>7. g \in Flag /\ g.cur = c.flag.cur + 1 /\ g.max = c.flag.max
  BY Zenon, <1>5, FlagSet
<1>8. h \in Flag /\ h.cur = c.flag.cur /\ h.max = c.flag.max
  BY Zenon, <1>5, FlagSet
<1>9. c.flag.cur \in Nat /\ c.flag.max \in Nat
  BY Zenon, <1>5 DEF Flag
<1>10. Granted(c.flag, c.resumes)
  BY Zenon, <1>4 DEF Sound
<1>11. Granted(h, c.resumes) /\ (~ReachedLimit(c.flag) => Granted(g, c.resumes))
  <2> HIDE DEF g, h
  <2> QED
    BY <1>7, <1>8, <1>9, <1>10 DEF Granted, ReachedLimit
<1> HIDE DEF g, h
<1>12. /\ Sound(hit) /\ hit.flag = h /\ hit.log = c.log
       /\ ~ReachedLimit(c.flag) =>
            Sound(counted) /\ counted.state = c.state /\ counted.flag = g
              /\ counted.log = c.log /\ counted.pos = c.pos
  BY Zenon, <1>4, <1>7, <1>8, <1>11, FlagSound
<1> HIDE DEF hit, counted
<1>13. llm \in {"idle", "calling"} /\ calls \in Nat /\ steps \in Nat
  BY Zenon DEF ControllerInv
<1>14. CASE Becomes(c) /\ UNCHANGED <<llm, steps>>
  BY <1>2, <1>3, <1>4, <1>9, <1>13, <1>14, HandlerKeeps
<1>15. ASSUME NEW x, Sound(x), x.log = c.log, c.flag.cur <= x.flag.cur,
              Becomes(React(x)), UNCHANGED <<llm, steps>>
       PROVE  ControllerInv'
  <2>1. LeadsTo(x, React(x)) /\ React(x).state = "ERROR"
    BY Zenon, <1>15, ReactSound
  <2>2. Sound(React(x)) /\ Obeys(React(x)) /\ React(x).flag.cur = x.flag.cur
        /\ Len(c.log) <= Len(React(x).log)
    BY Zenon, <1>15, <2>1 DEF LeadsTo, Obeys
  <2>3. React(x).log \in Seq(Event)
    BY Zenon, <2>2 DEF Sound, Controller
  <2>4. Len(log) <= Len(React(x).log)
    <3>1. Len(log) \in Nat /\ Len(React(x).log) \in Nat
      BY <2>3, CtlFacts DEF ControllerInv
    <3> QED
      BY <1>4, <1>5, <2>2, <3>1
  <2> QED
    BY Zenon, <1>2, <1>4, <1>13, <1>15, <2>2, <2>4, HandlerKeeps
<1>16. CASE c.state = "RUNNING" /\ Becomes(React(c)) /\ UNCHANGED <<llm, steps>>
  BY <1>4, <1>9, <1>15, <1>16
<1>17. CASE Becomes(React(hit)) /\ UNCHANGED <<llm, steps>>
  BY <1>8, <1>9, <1>12, <1>15, <1>17
<1>18. CASE ~ReachedLimit(c.flag) /\ Becomes(React(counted)) /\ UNCHANGED <<llm, steps>>
  <2>1. c.flag.cur <= g.cur
    BY <1>7, <1>9
  <2> QED
    BY Zenon, <1>12, <1>15, <1>18, <2>1
<1>19. CASE /\ c.state = "RUNNING" /\ ~ReachedLimit(c.flag)
            /\ Becomes(counted) /\ llm' = "calling" /\ steps' = steps + 1
  <2>1. Obeys(counted)
    BY Zenon, <1>3, <1>12, <1>19 DEF Obeys
  <2>2. /\ Sound(Ctl)' /\ Obeys(Ctl)'
        /\ log' = c.log /\ flag' = g /\ agent_state' = "RUNNING"
    BY Zenon, <1>12, <1>19, <2>1, BecomesSound
  <2>3. crashes = 0 => steps' <= flag'.cur
    BY <1>4, <1>7, <1>9, <1>13, <1>19, <2>2 DEF ControllerInv
  <2>4. ControllerInv'
    BY <1>2, <1>4, <1>13, <1>19, <2>2, <2>3, RestKept DEF parties, user
  <2> QED
    BY Zenon, <2>2, <2>4
<1>20. \/ Becomes(c) /\ UNCHANGED <<llm, steps>>
       \/ c.state = "RUNNING" /\ Becomes(React(c)) /\ UNCHANGED <<llm, steps>>
       \/ Becomes(React(hit)) /\ UNCHANGED <<llm, steps>>
       \/ ~ReachedLimit(c.flag) /\ Becomes(React(counted)) /\ UNCHANGED <<llm, steps>>
       \/ /\ c.state = "RUNNING" /\ ~ReachedLimit(c.flag)
          /\ Becomes(counted) /\ llm' = "calling" /\ steps' = steps + 1
  BY Zenon, <1>1, <1>6 DEF c, b
<1> QED
  BY Zenon, <1>14, <1>16, <1>17, <1>18, <1>19, <1>20

\* An action carries the number of its tool call.
LEMMA SetCall ==
  ASSUME NEW x \in Event, NEW n \in Nat
  PROVE  [x EXCEPT !.call = n] \in Event /\ [x EXCEPT !.call = n].type = x.type
  BY Zenon DEF Event

\* agent.step returns or raises, or an error status arrives.
LEMMA LLMKeeps ==
  ASSUME ControllerInv, LLMActs \/ LLMSpeaks \/ LLMRaises \/ StatusError
  PROVE  ControllerInv' /\ steps' = steps
<1>1. Sound(Ctl) /\ Obeys(Ctl)
  BY Zenon DEF ControllerInv
<1>2. /\ Ctl.log = log /\ Ctl.flag = flag /\ Ctl.state = agent_state /\ Ctl.pos = cpos
      /\ Ctl.status = status /\ Ctl.pending = pending
  BY Zenon DEF Ctl
<1>3. /\ calls \in Nat /\ calls + 1 \in Nat /\ Len(log) \in Nat /\ flag.cur \in Nat /\ status \in Nat
      /\ llm \in {"idle", "calling"}
  BY SMTT(60), CtlFacts DEF ControllerInv, Flag
<1>4. UNCHANGED <<parties, user, crashes, steps>>
  BY Zenon DEF LLMActs, LLMSpeaks, LLMRaises, StatusError
<1>5. llm' \in {"idle", "calling"} /\ calls' \in Nat
  <2>1. llm' = llm \/ llm' = "idle"
    BY Zenon DEF LLMActs, LLMSpeaks, LLMRaises, StatusError
  <2>2. calls' = calls \/ calls' = calls + 1
    BY Zenon DEF LLMActs, LLMSpeaks, LLMRaises, StatusError
  <2> QED
    BY Zenon, <1>3, <2>1, <2>2
<1>6. ASSUME NEW d, LeadsTo(Ctl, d), Obeys(d), Becomes(d) PROVE ControllerInv'
  <2>1. Sound(d) /\ d.flag.cur = flag.cur /\ Len(log) <= Len(d.log)
    BY Zenon, <1>2, <1>6 DEF LeadsTo
  <2> QED
    BY <1>3, <1>4, <1>5, <1>6, <2>1, HandlerKeeps
<1>7. ASSUME NEW e \in Event, e.type # "change", Becomes(Add(Ctl, e)) PROVE ControllerInv'
  <2>1. LeadsTo(Ctl, Add(Ctl, e)) /\ Add(Ctl, e).state = Ctl.state
    BY Zenon, <1>1, <1>7, AddSound
  <2>2. Obeys(Add(Ctl, e))
    BY Zenon, <1>1, <2>1 DEF LeadsTo, Obeys
  <2> QED
    BY Zenon, <1>6, <1>7, <2>1, <2>2
<1>8. CASE LLMActs
  <2>1. PICK o \in {"run", "ask"} :
          LET e == [Ev("action", "agent", "") EXCEPT
                      !.call = calls + 1, !.conf = IF o = "ask" THEN "awaiting" ELSE "none"]
              held == [Ctl EXCEPT !.pending = [id |-> 0, event |-> e]]
              put == IF o = "ask" THEN set_agent_state_to(held, "AWAITING_USER_CONFIRMATION")
                     ELSE held
          IN Becomes([Add(put, e) EXCEPT !.pending.id = Len(put.log) + 1])
    BY Zenon, <1>8 DEF LLMActs
  <2> DEFINE conf == IF o = "ask" THEN "awaiting" ELSE "none"
             e == [Ev("action", "agent", "") EXCEPT !.call = calls + 1, !.conf = conf]
             held == [Ctl EXCEPT !.pending = [id |-> 0, event |-> e]]
             put == IF o = "ask" THEN set_agent_state_to(held, "AWAITING_USER_CONFIRMATION")
                    ELSE held
             added == Add(put, e)
             p == [added.pending EXCEPT !.id = Len(put.log) + 1]
             d == [added EXCEPT !.pending = p]
  <2>2. e \in Event /\ e.type = "action"
    <3>1. conf \in {"awaiting", "none"} /\ calls + 1 \in Nat
      BY Zenon, <1>3
    <3> HIDE DEF conf
    <3> QED
      BY Zenon, <3>1 DEF Ev, Event
  <2>3. Becomes([added EXCEPT !.pending.id = Len(put.log) + 1])
    BY Zenon, <2>1
  <2> HIDE DEF e
  <2>4. LeadsTo(Ctl, held) /\ held.state = Ctl.state
    <3>1. [id |-> 0, event |-> e] \in Pending /\ [id |-> 0, event |-> e].event.type # "change"
      BY Zenon, <2>2 DEF Pending
    <3> QED
      BY Zenon, <1>1, <3>1, PendingSound
  <2>5. Sound(held)
    BY Zenon, <2>4 DEF LeadsTo
  <2> HIDE DEF held
  <2>6. /\ LeadsTo(held, put)
        /\ put.state = held.state \/ put.state = "AWAITING_USER_CONFIRMATION"
    BY Zenon, <2>5, SetStateSound, Stays DEF AgentState
  <2>7. Sound(put)
    BY Zenon, <2>6 DEF LeadsTo
  <2> HIDE DEF put
  <2>8. LeadsTo(put, added) /\ added.state = put.state
    BY Zenon, <2>2, <2>7, AddSound
  <2>9. Sound(added)
    BY Zenon, <2>8 DEF LeadsTo
  <2> HIDE DEF added
  <2>10. added \in Controller /\ added.pending \in Pending /\ Len(put.log) + 1 \in Nat
         /\ added.pending.event.type # "change"
    BY <2>7, <2>9 DEF Sound, Controller
  <2>11. p \in Pending /\ p.event.type # "change"
    BY Zenon, <2>10 DEF Pending
  <2>12. [added EXCEPT !.pending.id = Len(put.log) + 1] = d
    BY Zenon, <2>10 DEF Controller
  <2> HIDE DEF p
  <2>13. LeadsTo(added, d) /\ d.state = added.state
    BY Zenon, <2>9, <2>11, PendingSound
  <2> HIDE DEF d
  <2>14. LeadsTo(Ctl, put)
    BY Zenon, <1>1, <2>4, <2>6, LeadsOn
  <2>15. LeadsTo(Ctl, added)
    BY Zenon, <1>1, <2>8, <2>14, LeadsOn
  <2>16. LeadsTo(Ctl, d)
    BY Zenon, <1>1, <2>13, <2>15, LeadsOn
  <2>17. Obeys(d)
    BY Zenon, <1>1, <2>4, <2>6, <2>8, <2>13, <2>16 DEF Obeys, LeadsTo
  <2> QED
    BY Zenon, <1>4, <1>6, <2>3, <2>12, <2>16, <2>17
<1>9. CASE LLMSpeaks
  <2>1. PICK e \in {Ev("think", "agent", ""), Ev("message", "agent", ""),
                    Ev("message", "agent", "wait"), Ev("finish", "agent", ""),
                    Ev("reject", "agent", ""), Ev("condense", "agent", "")} :
          Becomes(Add(Ctl, IF e.type = "think" THEN [e EXCEPT !.call = calls + 1] ELSE e))
    BY Zenon, <1>9 DEF LLMSpeaks
  <2>2. e \in Event /\ e.type # "change"
    <3>1. \A t \in {"think", "message", "finish", "reject", "condense"}, a \in {"", "wait"} :
            Ev(t, "agent", a) \in Event /\ Ev(t, "agent", a).type # "change"
      BY ZenonT(60) DEF Ev, Event
    <3> QED
      BY Zenon, <3>1
  <2>3. [e EXCEPT !.call = calls + 1] \in Event /\ [e EXCEPT !.call = calls + 1].type # "change"
    <3>1. calls + 1 \in Nat
      BY Zenon, <1>3
    <3>2. \A x \in Event, n \in Nat :
            [x EXCEPT !.call = n] \in Event /\ [x EXCEPT !.call = n].type = x.type
      BY Zenon, SetCall
    <3> QED
      BY Zenon, <2>2, <3>1, <3>2
  <2> QED
    BY Zenon, <1>4, <1>7, <2>1, <2>2, <2>3
<1>10. CASE LLMRaises
  <2>1. CASE Becomes(Add(Ctl, Ev("obs", "agent", "error")))
    <3>1. Ev("obs", "agent", "error") \in Event /\ Ev("obs", "agent", "error").type # "change"
      BY Zenon DEF Ev, Event
    <3> QED
      BY Zenon, <1>4, <1>7, <2>1, <3>1
  <2>2. CASE Becomes(React(Ctl))
    <3>1. LeadsTo(Ctl, React(Ctl)) /\ Obeys(React(Ctl))
      BY Zenon, <1>1, ReactSound DEF Obeys
    <3> QED
      BY Zenon, <1>4, <1>6, <2>2, <3>1
  <2>3. CASE Becomes(set_agent_state_to(Ctl, "RATE_LIMITED"))
    <3>1. /\ LeadsTo(Ctl, set_agent_state_to(Ctl, "RATE_LIMITED"))
          /\ Obeys(set_agent_state_to(Ctl, "RATE_LIMITED"))
      BY Zenon, <1>1, SetStateSound DEF Obeys, AgentState
    <3> QED
      BY Zenon, <1>4, <1>6, <2>3, <3>1
  <2> QED
    BY Zenon, <1>10, <2>1, <2>2, <2>3 DEF LLMRaises
<1>11. CASE StatusError
  <2> DEFINE d == [Ctl EXCEPT !.status = status - 1]
             r == set_agent_state_to(d, "ERROR")
  <2>1. status - 1 \in Nat
    BY <1>3, <1>11 DEF StatusError
  <2>2. [Ctl EXCEPT !.status = @ - 1] = d
    BY Zenon DEF Ctl
  <2>3. Becomes(r)
    BY Zenon, <1>11, <2>2 DEF StatusError
  <2>4. LeadsTo(Ctl, d)
    BY Zenon, <1>1, <2>1, StatusSound
  <2> HIDE DEF d
  <2>5. Sound(d)
    BY Zenon, <2>4 DEF LeadsTo
  <2>6. LeadsTo(d, r) /\ r.state = "ERROR"
    BY Zenon, <2>5, SetStateSound DEF AgentState
  <2> HIDE DEF r
  <2>7. LeadsTo(Ctl, r) /\ Obeys(r)
    BY Zenon, <1>1, <2>4, <2>6, LeadsOn DEF Obeys
  <2> QED
    BY Zenon, <1>4, <1>6, <2>3, <2>7
<1> QED
  BY Zenon, <1>8, <1>9, <1>10, <1>11

\* The runtime, the memory or the user adds an event, or nothing.
LEMMA PartyKeeps ==
  ASSUME ControllerInv, UNCHANGED <<controller, crashes, counts>>, status' \in Nat,
         NEW e \in Event,
         e.type = "change" =>
           \/ e.arg \in {"AWAITING_USER_INPUT", "STOPPED", "PAUSED", "USER_REJECTED"}
           \/ e.arg = "USER_CONFIRMED" /\ e.source = "user",
         log' \in {log, Append(log, e)},
         {rpos', running', mpos', mfail', seen'} \subseteq 0..Len(log)
  PROVE  ControllerInv'
<1>1. Sound(Ctl) /\ Obeys(Ctl)
  BY Zenon DEF ControllerInv
<1>2. /\ log \in Seq(Event) /\ cpos \in Nat /\ cpos <= Len(log) /\ Len(log) \in Nat
      /\ ChangesOK(log)
  BY Zenon, <1>1, CtlFacts
<1>3. /\ log' \in Seq(Event) /\ Len(log') \in Nat /\ Len(log) <= Len(log')
      /\ ChangesOK(log') /\ (Released(log', cpos) <=> Released(log, cpos))
  <2>1. CASE log' = log
    BY <1>2, <2>1
  <2>2. CASE log' = Append(log, e)
    <3>1. /\ Append(log, e) \in Seq(Event) /\ Len(Append(log, e)) = Len(log) + 1
          /\ Released(Append(log, e), cpos) <=> Released(log, cpos)
      BY Zenon, <1>2, LogGrows
    <3>2. ChangesOK(Append(log, e))
      BY Zenon, <1>2, ChangesGrow
    <3> QED
      BY <1>2, <2>2, <3>1, <3>2
  <2> QED
    BY Zenon, <2>1, <2>2
<1>4. UNCHANGED <<agent_state, pending, flag, saved, cpos, llm, resumes, calls, steps, crashes>>
  BY Zenon DEF controller, counts
<1>5. /\ agent_state \in AgentState /\ pending \in Pending /\ flag \in Flag /\ saved \in Flag
      /\ resumes \in Nat /\ pending.event.type # "change"
      /\ Granted(flag, resumes) /\ Granted(saved, resumes)
  BY Zenon, <1>1, CtlFacts
<1>6. /\ Ctl'.state = agent_state /\ Ctl'.pending = pending /\ Ctl'.log = log'
      /\ Ctl'.flag = flag /\ Ctl'.saved = saved /\ Ctl'.pos = cpos
      /\ Ctl'.status = status' /\ Ctl'.resumes = resumes
  BY Zenon, <1>4 DEF Ctl
<1>7. Ctl' \in Controller
  BY Zenon, <1>2, <1>3, <1>4, <1>5 DEF Ctl, Controller
<1>8. Ctl.state = agent_state /\ Ctl.log = log /\ Ctl.pos = cpos
  BY Zenon DEF Ctl
<1>9. cpos <= Len(log')
  BY <1>2, <1>3
<1>10. Sound(Ctl)'
  BY Zenon, <1>3, <1>5, <1>6, <1>7, <1>9 DEF Sound
<1>11. Obeys(Ctl)'
  BY Zenon, <1>1, <1>3, <1>6, <1>8 DEF Obeys
<1>12. \A n \in 0..Len(log) : n \in 0..Len(log')
  BY <1>2, <1>3
<1> QED
  BY Zenon, <1>4, <1>10, <1>11, <1>12 DEF ControllerInv

\* The places the parties' steps move to.
LEMMA PlaceFacts ==
  ASSUME ControllerInv
  PROVE  /\ log \in Seq(Event) /\ Len(log) \in Nat /\ status \in Nat /\ status + 1 \in Nat
         /\ {rpos, running, mpos, mfail, seen, 0} \subseteq 0..Len(log)
         /\ \A t, p : p \in 0..Len(log) => NextOf(t, p) \subseteq 1..Len(log)
         /\ \A n \in 1..Len(log) : n \in 0..Len(log) /\ log[n] \in Event
         /\ Blank \in Event /\ Blank.type # "change"
<1>1. log \in Seq(Event) /\ Len(log) \in Nat /\ status \in Nat /\ status + 1 \in Nat
  BY CtlFacts DEF ControllerInv
<1>2. {rpos, running, mpos, mfail, seen, 0} \subseteq 0..Len(log)
  BY <1>1 DEF ControllerInv
<1>3. \A t, p : p \in 0..Len(log) => NextOf(t, p) \subseteq 1..Len(log)
  BY <1>1 DEF NextOf
<1>4. \A n \in 1..Len(log) : n \in 0..Len(log) /\ log[n] \in Event
  BY <1>1
<1> QED
  BY Zenon, <1>1, <1>2, <1>3, <1>4, BlankFacts

\* The runtime's observation of an event.
LEMMA RuntimeObsFacts ==
  ASSUME NEW i \in Nat, log[i] \in Event, NEW a \in {"result", "user_reject"}
  PROVE  RuntimeObs(i, a) \in Event /\ RuntimeObs(i, a).type = "obs"
<1>1. /\ log[i].source \in {"none", "user", "agent", "environment"} /\ log[i].call \in Nat
  BY Zenon DEF Event
<1> DEFINE src == log[i].source
           n == log[i].call
<1> HIDE DEF src, n
<1>2. [Ev("obs", src, a) EXCEPT !.call = n, !.cause = i] \in Event
  BY Zenon, <1>1 DEF Ev, Event, src, n
<1>3. [Ev("obs", src, a) EXCEPT !.call = n, !.cause = i].type = "obs"
  BY Zenon DEF Ev
<1> QED
  BY Zenon, <1>2, <1>3 DEF RuntimeObs, src, n

\* The runtime adds observations and no state change.
LEMMA RuntimeKeeps ==
  ASSUME ControllerInv, RuntimeAnswers \/ RuntimeStarts \/ RuntimeEnds
  PROVE  ControllerInv' /\ steps' = steps
<1>1. UNCHANGED <<controller, crashes, counts, mpos, mfail, seen>> /\ steps' = steps
  BY Zenon DEF RuntimeAnswers, RuntimeStarts, RuntimeEnds, user, counts
<1>2. CASE RuntimeAnswers
  <2>1. PICK i \in NextOf({"action", "think"}, rpos) :
          /\ \/ log' = Append(log, RuntimeObs(i, "result"))
             \/ log' = log
             \/ log' = Append(log, RuntimeObs(i, "user_reject"))
          /\ rpos' = i
    BY Zenon, <1>2 DEF RuntimeAnswers
  <2>2. i \in 1..Len(log) /\ i \in 0..Len(log) /\ log[i] \in Event /\ i \in Nat
    BY PlaceFacts
  <2>3. running' = running /\ status' \in Nat
    BY Zenon, <1>2, PlaceFacts DEF RuntimeAnswers
  <2>4. {rpos', running', mpos', mfail', seen'} \subseteq 0..Len(log)
    BY Zenon, <1>1, <2>1, <2>2, <2>3, PlaceFacts
  <2>5. /\ RuntimeObs(i, "result") \in Event /\ RuntimeObs(i, "result").type # "change"
        /\ RuntimeObs(i, "user_reject") \in Event /\ RuntimeObs(i, "user_reject").type # "change"
    BY Zenon, <2>2, RuntimeObsFacts
  <2>6. \E e \in Event : e.type # "change" /\ log' \in {log, Append(log, e)}
    BY Zenon, <2>1, <2>5
  <2> QED
    BY Zenon, <1>1, <2>3, <2>4, <2>6, PartyKeeps
<1>3. CASE RuntimeStarts
  <2>1. log' = log /\ status' \in Nat
    BY Zenon, <1>3, PlaceFacts DEF RuntimeStarts
  <2>2. rpos' \in 0..Len(log) /\ running' = rpos'
    BY Zenon, <1>3, PlaceFacts DEF RuntimeStarts
  <2>3. {rpos', running', mpos', mfail', seen'} \subseteq 0..Len(log)
    BY Zenon, <1>1, <2>2, PlaceFacts
  <2> QED
    BY Zenon, <1>1, <2>1, <2>3, PlaceFacts, PartyKeeps
<1>4. CASE RuntimeEnds
  <2>1. running \in 1..Len(log) /\ running \in Nat /\ log[running] \in Event
    BY <1>4, PlaceFacts DEF RuntimeEnds
  <2>2. RuntimeObs(running, "result") \in Event /\ RuntimeObs(running, "result").type # "change"
    BY Zenon, <2>1, RuntimeObsFacts
  <2>3. log' \in {log, Append(log, RuntimeObs(running, "result"))} /\ status' \in Nat
    BY Zenon, <1>4, PlaceFacts DEF RuntimeEnds
  <2>4. {rpos', running', mpos', mfail', seen'} \subseteq 0..Len(log)
    BY Zenon, <1>1, <1>4, PlaceFacts DEF RuntimeEnds
  <2> QED
    BY Zenon, <1>1, <2>2, <2>3, <2>4, PartyKeeps
<1> QED
  BY Zenon, <1>1, <1>2, <1>3, <1>4

\* The memory adds observations and no state change.
LEMMA MemoryKeeps ==
  ASSUME ControllerInv, MemoryAnswers \/ MemoryFails \/ MemoryLoopRuns
  PROVE  ControllerInv' /\ steps' = steps
<1>1. UNCHANGED <<controller, crashes, counts, rpos, running, seen>> /\ steps' = steps
  BY Zenon DEF MemoryAnswers, MemoryFails, MemoryLoopRuns, user, counts
<1>2. CASE MemoryAnswers
  <2>1. PICK i \in NextOf({"recall"}, mpos) :
          /\ mpos' = i
          /\ \/ \E t \in {"obs", "null_obs"} :
                  log' = Append(log, [Ev(t, "environment", "result") EXCEPT !.cause = i])
             \/ log' = log
    BY Zenon, <1>2 DEF MemoryAnswers
  <2>2. i \in 0..Len(log) /\ i \in Nat
    BY PlaceFacts
  <2>3. mfail' = mfail /\ status' \in Nat
    BY Zenon, <1>2, PlaceFacts DEF MemoryAnswers
  <2>4. {rpos', running', mpos', mfail', seen'} \subseteq 0..Len(log)
    BY Zenon, <1>1, <2>1, <2>2, <2>3, PlaceFacts
  <2>5. \A t \in {"obs", "null_obs"} :
          /\ [Ev(t, "environment", "result") EXCEPT !.cause = i] \in Event
          /\ [Ev(t, "environment", "result") EXCEPT !.cause = i].type # "change"
    BY Zenon, <2>2 DEF Ev, Event
  <2>6. \E e \in Event : e.type # "change" /\ log' \in {log, Append(log, e)}
    BY Zenon, <2>1, <2>5, PlaceFacts
  <2> QED
    BY Zenon, <1>1, <2>3, <2>4, <2>6, PartyKeeps
<1>3. CASE MemoryFails
  <2>1. log' = log /\ status' \in Nat
    BY Zenon, <1>3, PlaceFacts DEF MemoryFails
  <2>2. mpos' \in 0..Len(log) /\ mfail' = mpos'
    BY Zenon, <1>3, PlaceFacts DEF MemoryFails
  <2>3. {rpos', running', mpos', mfail', seen'} \subseteq 0..Len(log)
    BY Zenon, <1>1, <2>2, PlaceFacts
  <2> QED
    BY Zenon, <1>1, <2>1, <2>3, PlaceFacts, PartyKeeps
<1>4. CASE MemoryLoopRuns
  <2>1. log' = log /\ status' \in Nat
    BY Zenon, <1>4, PlaceFacts DEF MemoryLoopRuns
  <2>2. {rpos', running', mpos', mfail', seen'} \subseteq 0..Len(log)
    BY Zenon, <1>1, <1>4, PlaceFacts DEF MemoryLoopRuns
  <2> QED
    BY Zenon, <1>1, <2>1, <2>2, PlaceFacts, PartyKeeps
<1> QED
  BY Zenon, <1>1, <1>2, <1>3, <1>4

\* The user's moves add to the log what the user did.
LEMMA UserKeeps ==
  ASSUME ControllerInv, UserMessage \/ UserDecides \/ UserStops
  PROVE  ControllerInv' /\ steps' = steps
<1>1. ASSUME NEW k \in seen..Len(log), NEW e \in Event, Send(k, e),
             e.type = "change" =>
               \/ e.arg \in {"AWAITING_USER_INPUT", "STOPPED", "PAUSED", "USER_REJECTED"}
               \/ e.arg = "USER_CONFIRMED" /\ e.source = "user"
      PROVE  ControllerInv' /\ steps' = steps
  <2>1. /\ UNCHANGED <<controller, crashes, counts, rpos, running, mpos, mfail, steps>>
        /\ log' = Append(log, e) /\ status' \in Nat /\ seen' = k
    BY Zenon, <1>1, PlaceFacts DEF Send, parties, counts
  <2>2. k \in 0..Len(log)
    BY PlaceFacts
  <2>3. {rpos', running', mpos', mfail', seen'} \subseteq 0..Len(log)
    BY Zenon, <2>1, <2>2, PlaceFacts
  <2> QED
    BY Zenon, <1>1, <2>1, <2>3, PartyKeeps
<1>2. CASE UserMessage
  <2>1. Ev("message", "user", "") \in Event /\ Ev("message", "user", "").type # "change"
    BY Zenon DEF Ev, Event
  <2> QED
    BY Zenon, <1>1, <1>2, <2>1 DEF UserMessage
<1>3. CASE UserDecides
  <2>0. PICK k \in seen..Len(log), new \in {"USER_CONFIRMED", "USER_REJECTED"} :
          \E i \in Asking(k) : Send(k, [Ev("change", "user", new) EXCEPT !.call = log[i].call])
    BY Zenon, <1>3 DEF UserDecides
  <2>1. PICK i \in Asking(k) : Send(k, [Ev("change", "user", new) EXCEPT !.call = log[i].call])
    BY Zenon, <2>0
  <2> DEFINE n == log[i].call
             e == [Ev("change", "user", new) EXCEPT !.call = n]
  <2>2. n \in Nat
    <3>1. i \in 1..Len(log)
      BY PlaceFacts DEF Asking
    <3> QED
      BY Zenon, <3>1, PlaceFacts DEF Event
  <2> HIDE DEF n
  <2>3. e \in Event /\ e.arg = new /\ e.source = "user"
    <3>1. new \in AgentState
      BY Zenon DEF AgentState
    <3> QED
      BY Zenon, <2>2, <3>1 DEF Ev, Event
  <2>4. Send(k, e)
    BY Zenon, <2>1 DEF n
  <2> HIDE DEF e
  <2> QED
    BY Zenon, <1>1, <2>3, <2>4
<1>4. CASE UserStops
  <2>1. PICK k \in seen..Len(log), new \in {"STOPPED", "PAUSED"} : Send(k, Ev("change", "user", new))
    BY Zenon, <1>4 DEF UserStops
  <2>2. Ev("change", "user", new) \in Event /\ Ev("change", "user", new).arg = new
    <3>1. new \in AgentState
      BY Zenon DEF AgentState
    <3> QED
      BY Zenon, <3>1 DEF Ev, Event
  <2> QED
    BY Zenon, <1>1, <2>1, <2>2
<1> QED
  BY Zenon, <1>2, <1>3, <1>4

\* The server dies: the count goes back to the one last saved.
LEMMA CrashKeeps ==
  ASSUME ControllerInv, CrashRestart
  PROVE  ControllerInv' /\ steps' = steps
<1> DEFINE e == Ev("change", "environment", "AWAITING_USER_INPUT")
<1>1. e \in Event /\ e.arg = "AWAITING_USER_INPUT"
  BY Zenon DEF Ev, Event, AgentState
<1>2. /\ log' = Append(log, e) /\ agent_state' = "LOADING" /\ pending' = NoPending
      /\ flag' = saved /\ saved' = saved /\ cpos' = Len(log) /\ llm' = "idle"
      /\ rpos' = Len(log) /\ running' = 0 /\ mpos' = Len(log) /\ mfail' = 0
      /\ status' = 0 /\ UNCHANGED <<seen, calls, steps, resumes>> /\ crashes' = crashes + 1
  BY Zenon DEF CrashRestart, user, counts
<1> HIDE DEF e
<1>3. /\ Sound(Ctl) /\ crashes \in Nat /\ calls \in Nat /\ steps \in Nat
      /\ seen \in 0..Len(log)
  BY Zenon DEF ControllerInv
<1>4. /\ log \in Seq(Event) /\ Len(log) \in Nat /\ ChangesOK(log)
      /\ saved \in Flag /\ resumes \in Nat /\ Granted(saved, resumes)
  BY Zenon, <1>3, CtlFacts
<1>5. /\ log' \in Seq(Event) /\ Len(log') = Len(log) + 1
  BY <1>1, <1>2, <1>4
<1>6. ChangesOK(log')
  BY Zenon, <1>1, <1>2, <1>4, ChangesGrow
<1>7. /\ Ctl'.state = "LOADING" /\ Ctl'.pending = NoPending /\ Ctl'.log = log'
      /\ Ctl'.flag = saved /\ Ctl'.saved = saved /\ Ctl'.pos = Len(log)
      /\ Ctl'.status = 0 /\ Ctl'.resumes = resumes
  BY Zenon, <1>2 DEF Ctl
<1>8. Ctl' \in Controller
  <2>1. "LOADING" \in AgentState
    BY Zenon DEF AgentState
  <2>2. NoPending \in Pending
    BY Zenon, BlankFacts
  <2> QED
    BY Zenon, <1>2, <1>4, <1>5, <2>1, <2>2 DEF Ctl, Controller
<1>9. Sound(Ctl)'
  BY <1>4, <1>5, <1>6, <1>7, <1>8, BlankFacts DEF Sound
<1>10. Obeys(Ctl)'
  BY Zenon, <1>7 DEF Obeys
<1>11. crashes' \in Nat /\ crashes' # 0
  BY <1>2, <1>3
<1>12. {rpos', running', mpos', mfail', seen'} \subseteq 0..Len(log')
  BY <1>2, <1>3, <1>4, <1>5
<1> QED
  BY Zenon, <1>2, <1>3, <1>9, <1>10, <1>11, <1>12 DEF ControllerInv

----------------------------------------------------------------------------
(* The invariant and what follows from it.                                 *)

\* What Init says of everything but the log.
LEMMA InitRest ==
  ASSUME Init, log \in Seq(Event), Len(log) \in Nat, ChangesOK(log)
  PROVE  ControllerInv
<1>1. Fresh \in Flag
  BY Zenon, ControllerAssumption DEF Fresh, Flag
<1>2. resumes = 0 /\ flag = Fresh /\ saved = Fresh
  BY Zenon DEF Init
<1>3. Granted(Fresh, 0)
  BY ControllerAssumption DEF Fresh, Granted
<1>4. Ctl \in Controller
  <2>1. agent_state \in AgentState /\ pending \in Pending /\ cpos \in Nat /\ status \in Nat
    BY Zenon, BlankFacts DEF Init, AgentState
  <2>2. flag \in Flag /\ saved \in Flag /\ resumes \in Nat
    BY Zenon, <1>1, <1>2
  <2> QED
    BY Zenon, <2>1, <2>2 DEF Ctl, Controller
<1>5. /\ Ctl.pos = 0 /\ Ctl.log = log /\ Ctl.pending = NoPending /\ Ctl.flag = Fresh
       /\ Ctl.saved = Fresh /\ Ctl.resumes = 0 /\ Ctl.state = "LOADING"
  BY Zenon, <1>2 DEF Ctl, Init
<1>6. Sound(Ctl) /\ Obeys(Ctl)
  <2>1. Ctl.pos <= Len(Ctl.log) /\ ChangesOK(Ctl.log) /\ Ctl.pending.event.type # "change"
    BY <1>5, BlankFacts
  <2>2. Granted(Ctl.flag, Ctl.resumes) /\ Granted(Ctl.saved, Ctl.resumes)
    BY Zenon, <1>3, <1>5
  <2>3. Obeys(Ctl)
    BY Zenon, <1>5 DEF Obeys
  <2> QED
    BY Zenon, <1>4, <2>1, <2>2, <2>3 DEF Sound
<1>7. flag.cur = 0
  BY Zenon, <1>2 DEF Fresh
<1>8. /\ llm = "idle" /\ rpos = 0 /\ running = 0 /\ mpos = 0 /\ mfail = 0 /\ seen = 0
      /\ calls = 0 /\ steps = 0 /\ crashes = 0
  BY Zenon DEF Init
<1>9. 0 \in 0..Len(log)
  OBVIOUS
<1> QED
  BY <1>6, <1>7, <1>8, <1>9 DEF ControllerInv

\* The invariant holds of a conversation that begins.
LEMMA InitController == Init => ControllerInv
<1> SUFFICES ASSUME Init PROVE ControllerInv
  BY Zenon
<1> SUFFICES log \in Seq(Event) /\ Len(log) \in Nat /\ ChangesOK(log)
  BY Zenon, InitRest
<1> DEFINE wait == Ev("change", "environment", "AWAITING_USER_INPUT")
           first == Ev("message", "user", "")
           go == Ev("change", "environment", "RUNNING")
<1>1. wait \in Event /\ first \in Event /\ go \in Event
  BY Zenon DEF Ev, Event, AgentState
<1>2. /\ wait.type = "change" /\ wait.arg = "AWAITING_USER_INPUT"
      /\ first.type = "message" /\ go.type = "change" /\ go.arg = "RUNNING"
  BY Zenon DEF Ev
<1>3. log \in {<<wait>>, <<first, go>>}
  BY Zenon DEF Init
<1> HIDE DEF wait, first, go
<1>4. CASE log = <<wait>>
  <2>1. log \in Seq(Event) /\ Len(log) = 1 /\ log[1] = wait
    BY <1>1, <1>4
  <2> QED
    BY <1>2, <2>1 DEF ChangesOK
<1>5. CASE log = <<first, go>>
  <2>1. log \in Seq(Event) /\ Len(log) = 2 /\ log[1] = first /\ log[2] = go
    BY <1>1, <1>5
  <2>2. \A i \in DOMAIN log : i \in {1, 2}
    BY <2>1
  <2>3. ChangesOK(log)
    BY Zenon, <1>2, <2>1, <2>2 DEF ChangesOK
  <2> QED
    BY <2>1, <2>3
<1> QED
  BY Zenon, <1>3, <1>4, <1>5

\* A step keeps the invariant, and calls the LLM only with the agent running.
LEMMA NextController ==
  ASSUME ControllerInv, [Next]_vars
  PROVE  ControllerInv' /\ (steps' # steps => agent_state' = "RUNNING")
<1>1. CASE UNCHANGED vars
  <2>1. Ctl' = Ctl /\ UNCHANGED <<llm, rpos, running, mpos, mfail, seen, calls, steps, crashes,
                                  log, flag>>
    BY Zenon, <1>1 DEF vars, Ctl
  <2> QED
    BY Zenon, <2>1 DEF ControllerInv, Sound, Obeys
<1>2. CASE Next
  BY Zenon, <1>2, HandleKeeps, LLMKeeps, RuntimeKeeps, MemoryKeeps, UserKeeps, CrashKeeps DEF Next
<1> QED
  BY Zenon, <1>1, <1>2

\* The controller's inductive invariant holds throughout.
THEOREM ControllerAlways == Spec => []ControllerInv
<1>1. ControllerInv /\ [Next]_vars => ControllerInv'
  BY Zenon, NextController
<1> QED
  BY InitController, <1>1, PTL DEF Spec

\* Once the controller has handled a stop or a pause it calls the LLM again only
\* after the user has written or confirmed an action (set_agent_state_to, _step),
\* whatever the other threads do and through any number of restarts.
THEOREM StopHolds == Spec => StopObeyed
<1> DEFINE A == steps' # steps =>
                  \A i \in 1..cpos' :
                    (log'[i].type = "change" /\ log'[i].arg \in {"STOPPED", "PAUSED"}) =>
                      \E j \in (i + 1)..cpos' :
                        /\ log'[j].source = "user"
                        /\ log'[j].type = "message" \/ log'[j].arg = "USER_CONFIRMED"
<1>1. ControllerInv /\ [Next]_vars => A
  <2> SUFFICES ASSUME ControllerInv, [Next]_vars, steps' # steps
               PROVE  Released(log', cpos')
    BY Zenon DEF Released
  <2>1. ControllerInv' /\ agent_state' = "RUNNING"
    BY Zenon, NextController
  <2>2. Obeys(Ctl') /\ Ctl'.state = agent_state' /\ Ctl'.log = log' /\ Ctl'.pos = cpos'
    BY Zenon, <2>1 DEF ControllerInv, Ctl, Obeys
  <2> QED
    BY Zenon, <2>1, <2>2 DEF Obeys
<1>2. ControllerInv /\ [Next]_vars => [A]_vars
  BY Zenon, <1>1
<1> HIDE DEF A
<1>3. Spec => [][A]_vars
  BY ControllerAlways, <1>2, PTL DEF Spec
<1> QED
  BY Zenon, <1>3 DEF StopObeyed, A

\* As long as the server has not died, the LLM has been called at most once per
\* iteration the user granted: the first limit, and once more for every resume after
\* an error (IterationControlFlag.step and increase_limit).
THEOREM LimitHolds == Spec => [](crashes = 0 => WithinLimit)
<1>1. ControllerInv => (crashes = 0 => WithinLimit)
  <2> SUFFICES ASSUME ControllerInv, crashes = 0 PROVE WithinLimit
    BY Zenon
  <2>1. Sound(Ctl) /\ steps \in Nat /\ steps <= flag.cur
    BY Zenon DEF ControllerInv
  <2>2. /\ flag \in Flag /\ resumes \in Nat /\ Granted(flag, resumes)
    BY Zenon, <2>1, CtlFacts
  <2>3. flag.cur \in Nat /\ flag.max \in Nat /\ MaxIterations * (1 + resumes) \in Nat
    BY <2>2, ControllerAssumption DEF Flag
  <2> QED
    BY <2>1, <2>2, <2>3 DEF Granted, WithinLimit
<1> QED
  BY ControllerAlways, <1>1, PTL

----------------------------------------------------------------------------
(* What the modules on confirmation mode and on turns start from.          *)

\* An action that awaits the user's decision.
Asks(e) == e.type = "action" /\ e.conf = "awaiting"

\* Once the action is published its id completes _pending_action.
Publish(c, e, k) == [Add(c, e) EXCEPT !.pending.id = k]

Prefix(l, m) == Len(l) <= Len(m) /\ \A i \in DOMAIN l : m[i] = l[i]

\* What appending an event to a log gives.
LEMMA AppendFacts ==
  ASSUME NEW l \in Seq(Event), NEW e \in Event
  PROVE  /\ Append(l, e) \in Seq(Event) /\ Len(Append(l, e)) = Len(l) + 1 /\ Len(l) \in Nat
         /\ DOMAIN Append(l, e) = 1..(Len(l) + 1) /\ DOMAIN l = 1..Len(l)
         /\ Append(l, e)[Len(l) + 1] = e
         /\ \A i \in 1..Len(l) : Append(l, e)[i] = l[i]
         /\ Prefix(l, Append(l, e))
<1>1. /\ Append(l, e) \in Seq(Event) /\ Len(Append(l, e)) = Len(l) + 1 /\ Len(l) \in Nat
      /\ Append(l, e)[Len(l) + 1] = e
  OBVIOUS
<1>2. DOMAIN Append(l, e) = 1..(Len(l) + 1) /\ DOMAIN l = 1..Len(l)
  OBVIOUS
<1>3. \A i \in 1..Len(l) : Append(l, e)[i] = l[i]
  OBVIOUS
<1>4. Prefix(l, Append(l, e))
  <2> DEFINE m == Append(l, e)
  <2>1. Len(m) = Len(l) + 1 /\ Len(l) \in Nat /\ DOMAIN l = 1..Len(l)
        /\ \A i \in 1..Len(l) : m[i] = l[i]
    BY Zenon, <1>1, <1>2, <1>3
  <2> HIDE DEF m
  <2>2. Prefix(l, m)
    BY <2>1 DEF Prefix
  <2> QED
    BY Zenon, <2>2 DEF m
<1> QED
  BY Zenon, <1>1, <1>2, <1>3, <1>4

\* An event of the longer log is the new one or one of the log before.
LEMMA AppendPlaces ==
  ASSUME NEW l \in Seq(Event), NEW e \in Event
  PROVE  /\ \A i \in DOMAIN Append(l, e) : \/ i = Len(l) + 1 /\ Append(l, e)[i] = e
                                           \/ i \in DOMAIN l /\ Append(l, e)[i] = l[i]
         /\ \A i \in DOMAIN l : i \in DOMAIN Append(l, e) /\ Append(l, e)[i] = l[i]
<1> DEFINE n == Len(l)
<1>1. /\ n \in Nat /\ DOMAIN Append(l, e) = 1..(n + 1) /\ DOMAIN l = 1..n
      /\ Append(l, e)[n + 1] = e /\ \A i \in 1..n : Append(l, e)[i] = l[i]
  BY Zenon, AppendFacts
<1> HIDE DEF n
<1>2. \A i \in 1..(n + 1) : i = n + 1 \/ i \in 1..n
  BY <1>1
<1>3. \A i \in 1..n : i \in 1..(n + 1)
  BY <1>1
<1> QED
  BY Zenon, <1>1, <1>2, <1>3 DEF n

\* No action is pending: nothing is asked.
LEMMA BlankPlain == ~Asks(NoPending.event) /\ NoPending.event.type = "none"
  BY Zenon DEF NoPending, Blank, Ev, Asks

\* What the variables are after a handler.
LEMMA BecomesFacts ==
  ASSUME NEW d, Sound(d), Becomes(d)
  PROVE  /\ Ctl' = d /\ log' = d.log /\ agent_state' = d.state /\ cpos' = d.pos
         /\ pending' = d.pending
<1>1. /\ agent_state' = d.state /\ pending' = d.pending /\ log' = d.log
      /\ flag' = d.flag /\ saved' = d.saved /\ cpos' = d.pos
      /\ status' = d.status /\ resumes' = d.resumes
  BY Zenon DEF Becomes
<1>2. d \in Controller
  BY Zenon DEF Sound
<1>3. Ctl' = d
  BY Zenon, <1>1, <1>2 DEF Ctl, Controller
<1> QED
  BY Zenon, <1>1, <1>3

=============================================================================
