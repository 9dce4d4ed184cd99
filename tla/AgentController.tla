--------------------------- MODULE AgentController ---------------------------
(***************************************************************************)
(* One conversation with an agent: the controller                          *)
(* (openhands/controller/agent_controller.py) and the three parties it     *)
(* talks to over the event stream: the runtime that executes actions, the  *)
(* memory that answers recalls, and the user behind a client.              *)
(*                                                                         *)
(* The stream is the sequence log; an event's id is its place in it.  Each *)
(* party handles events in that order on a thread of its own (EventStream  *)
(* shows why they agree on the order), so how far each one has come is a   *)
(* variable.  A handler is one step, except that the controller's is left  *)
(* while it waits for the LLM.  The server's main loop sets the agent to   *)
(* ERROR from outside when an error status reaches it.                     *)
(***************************************************************************)
EXTENDS Integers, Sequences, FiniteSets

CONSTANTS
    MaxIterations,   \* iteration_delta: the first limit and what a resume adds
    MaxInputs,       \* bound: what the user sends
    MaxCrashes,      \* bound: deaths of the server
    LLMOutcomes,     \* what an LLM call may lead to
    UserInputs,      \* what the user may send besides messages
    MessageStates,   \* displayed states in which the user sends messages
    Patient,         \* the user looks at everything and waits to be heard
    Faults           \* which may happen: "runtime", "memory", "stuck", "budget"

Outcomes == {"run", "ask", "think", "say", "question", "finish", "reject",
             "condense", "malformed", "raise", "rate_limit"}

ASSUME ControllerAssumption ==
    /\ MaxIterations \in Nat \ {0} /\ MaxInputs \in Nat /\ MaxCrashes \in Nat
    /\ LLMOutcomes \subseteq Outcomes
    /\ Patient \in BOOLEAN

VARIABLES
    log,           \* the events of the stream, in order
    agent_state,   \* State.agent_state
    pending,       \* _pending_action with the id it has in the stream
    flag,          \* State.iteration_flag
    saved,         \* the iteration flag in the saved session state
    cpos,          \* the last event the controller has taken
    llm,           \* whether the controller is inside agent.step
    rpos,          \* the last event the runtime has taken
    running,       \* the action event the runtime is executing, or 0
    started,       \* every action event the runtime began to execute
    mpos,          \* the last recall the memory has taken
    mfail,         \* a recall whose error status waits in the memory's own loop
    status,        \* error statuses queued for the main loop
    seen,          \* how much of the log the client has shown
    inputs,        \* what the user has sent so far
    crashes,       \* deaths of the server so far
    calls,         \* runnable actions the LLM has produced
    steps,         \* LLM calls since the conversation began
    resumes        \* times the agent went from ERROR to RUNNING

controller == <<agent_state, pending, flag, saved, cpos, llm>>
parties == <<rpos, running, started, mpos, mfail>>
user == <<seen, inputs>>
counts == <<calls, steps, resumes>>
vars == <<log, agent_state, pending, flag, saved, cpos, llm, rpos, running, started,
          mpos, mfail, status, seen, inputs, crashes, calls, steps, resumes>>

AgentState == {"LOADING", "RUNNING", "AWAITING_USER_INPUT", "PAUSED", "STOPPED",
               "FINISHED", "REJECTED", "ERROR", "AWAITING_USER_CONFIRMATION",
               "USER_CONFIRMED", "USER_REJECTED", "RATE_LIMITED"}

\* An event: its class, its source, its argument (an agent state, a kind of recall
\* or of observation), the tool call it belongs to (0 when there is none), its
\* confirmation state, and the event that caused it.
Event == [type : {"none", "message", "recall", "change", "state", "action", "think",
                  "finish", "reject", "condense", "obs", "null_obs"},
          source : {"none", "user", "agent", "environment"},
          arg : AgentState \cup {"", "wait", "workspace", "knowledge", "result",
                                 "user_reject", "not_executed", "error"},
          call : Nat, conf : {"none", "awaiting", "confirmed", "rejected"}, cause : Nat]
Ev(type, source, arg) ==
    [type |-> type, source |-> source, arg |-> arg, call |-> 0, conf |-> "none", cause |-> 0]
Blank == Ev("none", "none", "")
NoPending == [id |-> 0, event |-> Blank]

----------------------------------------------------------------------------
(* The controller's handlers, as functions of what they read and write.    *)

Ctl == [state |-> agent_state, pending |-> pending, log |-> log, flag |-> flag,
        saved |-> saved, pos |-> cpos, status |-> status, resumes |-> resumes]

Becomes(c) ==
    /\ agent_state' = c.state /\ pending' = c.pending /\ log' = c.log
    /\ flag' = c.flag /\ saved' = c.saved /\ cpos' = c.pos
    /\ status' = c.status /\ resumes' = c.resumes

\* event_stream.add_event
Add(c, e) == [c EXCEPT !.log = Append(@, e)]

\* State.history holds the events taken, without the backend's own.
InHistory(c, i) == i <= c.pos /\ c.log[i].type \notin {"state", "change", "null_obs"}

\* Mutant: the tool call is left without an observation.
Reset_silent(c) == [c EXCEPT !.pending = NoPending]

\* _reset: a pending action without an observation of its tool call gets one that
\* says it was not executed.
Reset(c) ==
    LET answered == \E i \in DOMAIN c.log :
          InHistory(c, i) /\ c.log[i].type = "obs" /\ c.log[i].call = c.pending.event.call
        told == Add(c, [Ev("obs", "agent", "not_executed") EXCEPT
                          !.call = c.pending.event.call, !.cause = c.pending.id])
    IN [(IF c.pending # NoPending /\ ~answered THEN told ELSE c)
          EXCEPT !.pending = NoPending]

\* IterationControlFlag.increase_limit
IncreaseLimit(f) ==
    IF f.hit THEN [f EXCEPT !.max = @ + MaxIterations, !.hit = FALSE] ELSE f

\* A pending action that the user decided on is published again under a new id.
Decide(c, conf) ==
    LET e == [c.pending.event EXCEPT !.conf = conf, !.source = "agent"]
    IN [Add(c, e) EXCEPT !.pending = [id |-> Len(c.log) + 1, event |-> e]]

\* set_agent_state_to, with the save at its end.
set_agent_state_to(c, new) ==
    IF new = c.state THEN c
    ELSE LET entered == [c EXCEPT !.state = new]
             reset == IF new \in {"STOPPED", "ERROR"} THEN Reset(entered) ELSE entered
             raised == IF c.state = "ERROR" /\ new = "RUNNING"
                       THEN [reset EXCEPT !.flag = IncreaseLimit(@), !.resumes = @ + 1]
                       ELSE reset
             decided == IF raised.pending = NoPending THEN raised
                        ELSE CASE new = "USER_CONFIRMED" -> Decide(raised, "confirmed")
                               [] new = "USER_REJECTED" -> Decide(raised, "rejected")
                               [] OTHER -> raised
             told == Add(decided, Ev("state", "environment", new))
         IN [told EXCEPT !.saved = told.flag]

\* _react_to_exception, except for a rate limit.
React(c) == set_agent_state_to([c EXCEPT !.status = @ + 1], "ERROR")

\* _handle_message_action
HandleMessage(c, e, i) ==
    IF e.source = "user"
    THEN LET first == \A j \in 1..(i - 1) :
                        ~(c.log[j].type = "message" /\ c.log[j].source = "user")
             recall == Ev("recall", "user", IF first THEN "workspace" ELSE "knowledge")
             asked == [Add(c, recall) EXCEPT
                         !.pending = [id |-> Len(c.log) + 1, event |-> recall]]
         IN set_agent_state_to(asked, "RUNNING")
    ELSE IF e.arg = "wait" THEN set_agent_state_to(c, "AWAITING_USER_INPUT") ELSE c

\* Mutant: an answer to the pending action resumes a paused agent too.
HandleObservation_resumes(c, e) ==
    IF c.pending = NoPending \/ c.pending.id # e.cause
       \/ c.state = "AWAITING_USER_CONFIRMATION"
    THEN c
    ELSE LET free == [c EXCEPT !.pending = NoPending]
         IN CASE c.state \in {"USER_CONFIRMED", "PAUSED"} -> set_agent_state_to(free, "RUNNING")
              [] c.state = "USER_REJECTED" ->
                   set_agent_state_to(free, "AWAITING_USER_INPUT")
              [] OTHER -> free

\* _handle_observation
HandleObservation(c, e) ==
    IF \/ c.pending = NoPending \/ c.pending.id # e.cause
       \/ c.state = "AWAITING_USER_CONFIRMATION"
    THEN c
    ELSE LET free == [c EXCEPT !.pending = NoPending]
         IN CASE c.state = "USER_CONFIRMED" -> set_agent_state_to(free, "RUNNING")
              [] c.state = "USER_REJECTED" ->
                   set_agent_state_to(free, "AWAITING_USER_INPUT")
              [] OTHER -> free

\* _handle_action and _handle_observation, for the i-th event.
Handle(c, e, i) ==
    CASE e.type = "message" -> HandleMessage(c, e, i)
      [] e.type = "change" -> set_agent_state_to(c, e.arg)
      [] e.type = "finish" -> set_agent_state_to(c, "FINISHED")
      [] e.type = "reject" -> set_agent_state_to(c, "REJECTED")
      [] e.type \in {"obs", "null_obs"} -> HandleObservation(c, e)
      [] OTHER -> c

should_step(c, e) ==
    \/ e.type = "message" /\ (e.source = "user" \/ c.state # "AWAITING_USER_INPUT")
    \/ e.type \in {"condense", "obs", "null_obs"}

----------------------------------------------------------------------------
Fresh == [cur |-> 0, max |-> MaxIterations, hit |-> FALSE]

\* A new conversation, as AgentSession.start leaves it: with a first message, or
\* the agent told to wait for one.
Init ==
    /\ log \in {<<Ev("change", "environment", "AWAITING_USER_INPUT")>>,
               <<Ev("message", "user", ""), Ev("change", "environment", "RUNNING")>>}
    /\ agent_state = "LOADING" /\ pending = NoPending
    /\ flag = Fresh /\ saved = Fresh
    /\ cpos = 0 /\ llm = "idle"
    /\ rpos = 0 /\ running = 0 /\ started = <<>>
    /\ mpos = 0 /\ mfail = 0
    /\ status = 0
    /\ inputs = IF log[1].type = "message" THEN 1 ELSE 0
    /\ seen = 0 /\ crashes = 0
    /\ calls = 0 /\ steps = 0 /\ resumes = 0

\* The next event of one of these classes after pos; the others change nothing.
NextOf(types, pos) ==
    {i \in (pos + 1)..Len(log) :
       log[i].type \in types /\ \A j \in (pos + 1)..(i - 1) : log[j].type \notin types}

ControllerTypes == {"message", "change", "finish", "reject", "condense", "obs", "null_obs"}

\* on_event when the event leads to no step, or the step finds the agent not
\* running or an action pending.
HandleOnly ==
    /\ llm = "idle"
    /\ \E i \in NextOf(ControllerTypes, cpos) :
         LET c == Handle([Ctl EXCEPT !.pos = i], log[i], i)
         IN /\ ~(should_step(c, log[i]) /\ c.state = "RUNNING" /\ c.pending = NoPending)
            /\ Becomes(c)
    /\ UNCHANGED <<llm, parties, user, crashes, calls, steps>>

\* Mutant: one iteration too many.
ReachedLimit_late(f) == f.cur > f.max

\* IterationControlFlag.reached_limit
ReachedLimit(f) == f.cur >= f.max

\* IterationControlFlag.step below the limit
Counted(f) == [f EXCEPT !.cur = @ + 1, !.hit = FALSE]

\* on_event up to the LLM call: _step runs the stuck detector and the control flags.
HandleAndStep ==
    /\ llm = "idle"
    /\ \E i \in NextOf(ControllerTypes, cpos) :
         LET c == Handle([Ctl EXCEPT !.pos = i], log[i], i)
             counted == [c EXCEPT !.flag = Counted(@)]
         IN /\ should_step(c, log[i]) /\ c.state = "RUNNING" /\ c.pending = NoPending
            /\ \/ /\ "stuck" \in Faults
                  /\ Becomes(React(c)) /\ UNCHANGED <<llm, steps>>
               \/ /\ ReachedLimit(c.flag)
                  /\ Becomes(React([c EXCEPT !.flag.hit = TRUE])) /\ UNCHANGED <<llm, steps>>
               \/ /\ ~ReachedLimit(c.flag)
                  /\ "budget" \in Faults
                  /\ Becomes(React(counted)) /\ UNCHANGED <<llm, steps>>
               \/ /\ ~ReachedLimit(c.flag)
                  /\ Becomes(counted)
                  /\ llm' = "calling" /\ steps' = steps + 1
    /\ UNCHANGED <<parties, user, crashes, calls>>

\* agent.step returns a runnable action; one that must be asked about is put to
\* the user first.
LLMActs ==
    /\ llm = "calling"
    /\ \E o \in LLMOutcomes \cap {"run", "ask"} :
         LET e == [Ev("action", "agent", "") EXCEPT
                     !.call = calls + 1, !.conf = IF o = "ask" THEN "awaiting" ELSE "none"]
             held == [Ctl EXCEPT !.pending = [id |-> 0, event |-> e]]
             put == IF o = "ask" THEN set_agent_state_to(held, "AWAITING_USER_CONFIRMATION")
                    ELSE held
         IN Becomes([Add(put, e) EXCEPT !.pending.id = Len(put.log) + 1])
    /\ calls' = calls + 1
    /\ llm' = "idle"
    /\ UNCHANGED <<parties, user, crashes, steps>>

\* agent.step returns an action that the controller does not wait for.
LLMSpeaks ==
    /\ llm = "calling"
    /\ \E e \in {Ev("think", "agent", ""), Ev("message", "agent", ""),
                 Ev("message", "agent", "wait"), Ev("finish", "agent", ""),
                 Ev("reject", "agent", ""), Ev("condense", "agent", "")} :
         /\ (CASE e.type = "message" -> IF e.arg = "wait" THEN "question" ELSE "say"
               [] OTHER -> e.type) \in LLMOutcomes
         /\ Becomes(Add(Ctl, IF e.type = "think" THEN [e EXCEPT !.call = calls + 1] ELSE e))
         /\ calls' = IF e.type = "think" THEN calls + 1 ELSE calls
    /\ llm' = "idle"
    /\ UNCHANGED <<parties, user, crashes, steps>>

\* agent.step raises: a malformed answer is reported to the agent, an error ends
\* the run, and a rate limit that outlived its retries is reported as such.
LLMRaises ==
    /\ llm = "calling"
    /\ \/ "malformed" \in LLMOutcomes /\ Becomes(Add(Ctl, Ev("obs", "agent", "error")))
       \/ "raise" \in LLMOutcomes /\ Becomes(React(Ctl))
       \/ "rate_limit" \in LLMOutcomes /\ Becomes(set_agent_state_to(Ctl, "RATE_LIMITED"))
    /\ llm' = "idle"
    /\ UNCHANGED <<parties, user, crashes, calls, steps>>

\* Mutant: the client is told, the agent is left as it is.
StatusError_tells ==
    /\ status > 0
    /\ status' = status - 1
    /\ UNCHANGED <<log, controller, parties, user, crashes, counts>>

\* Session._send_status_message on the main loop.
StatusError ==
    /\ status > 0
    /\ Becomes(set_agent_state_to([Ctl EXCEPT !.status = @ - 1], "ERROR"))
    /\ UNCHANGED <<llm, parties, user, crashes, calls, steps>>

----------------------------------------------------------------------------
(* Runtime and Memory.                                                     *)

RuntimeObs(i, arg) ==
    [Ev("obs", log[i].source, arg) EXCEPT !.call = log[i].call, !.cause = i]

\* Runtime._handle_action for an action that is not executed: a thought is
\* acknowledged, an action that awaits the user is left alone, a rejected one is
\* answered as such.
RuntimeAnswers ==
    /\ running = 0
    /\ \E i \in NextOf({"action", "think"}, rpos) :
         /\ \/ log[i].type = "think" /\ log' = Append(log, RuntimeObs(i, "result"))
            \/ log[i].conf = "awaiting" /\ log' = log
            \/ log[i].conf = "rejected" /\ log' = Append(log, RuntimeObs(i, "user_reject"))
         /\ rpos' = i
    /\ UNCHANGED <<controller, running, started, mpos, mfail, status, user, crashes, counts>>

\* Mutant: the confirmation state is not looked at.
RuntimeStarts_unasked ==
    /\ running = 0
    /\ \E i \in NextOf({"action", "think"}, rpos) :
         /\ log[i].type = "action"
         /\ running' = i /\ rpos' = i
         /\ started' = Append(started, i)
    /\ UNCHANGED <<log, controller, mpos, mfail, status, user, crashes, counts>>

\* It begins to execute one ...
RuntimeStarts ==
    /\ running = 0
    /\ \E i \in NextOf({"action", "think"}, rpos) :
         /\ log[i].type = "action" /\ log[i].conf \in {"none", "confirmed"}
         /\ running' = i /\ rpos' = i
         /\ started' = Append(started, i)
    /\ UNCHANGED <<log, controller, mpos, mfail, status, user, crashes, counts>>

\* ... and ends with an observation, or with an error status and nothing else.
RuntimeEnds ==
    /\ running # 0
    /\ \/ log' = Append(log, RuntimeObs(running, "result")) /\ status' = status
       \/ "runtime" \in Faults /\ status' = status + 1 /\ log' = log
    /\ running' = 0
    /\ UNCHANGED <<controller, rpos, started, mpos, mfail, user, crashes, counts>>

\* Mutant: a recall that finds nothing is not answered.
MemoryAnswers_found ==
    /\ \E i \in NextOf({"recall"}, mpos) :
         /\ mpos' = i
         /\ \/ log' = Append(log, [Ev("obs", "environment", "result") EXCEPT !.cause = i])
            \/ log' = log
    /\ UNCHANGED <<controller, rpos, running, started, mfail, status, user, crashes, counts>>

\* Memory._on_event: a recall is answered, with nothing found too, unless it is a
\* workspace recall that does not come from the user.
MemoryAnswers ==
    /\ \E i \in NextOf({"recall"}, mpos) :
         /\ mpos' = i
         /\ IF log[i].arg = "knowledge" \/ log[i].source = "user"
            THEN \E t \in {"obs", "null_obs"} :
                   log' = Append(log, [Ev(t, "environment", "result") EXCEPT !.cause = i])
            ELSE log' = log
    /\ UNCHANGED <<controller, rpos, running, started, mfail, status, user, crashes, counts>>

\* It fails: the status is scheduled on the loop that is running this handler.
MemoryFails ==
    /\ "memory" \in Faults
    /\ mfail = 0
    /\ \E i \in NextOf({"recall"}, mpos) : mpos' = i /\ mfail' = i
    /\ UNCHANGED <<log, controller, rpos, running, started, status, user, crashes, counts>>

\* That loop runs again for the next event the memory is given.
MemoryLoopRuns ==
    /\ mfail # 0
    /\ Len(log) > mfail
    /\ mfail' = 0
    /\ status' = status + 1
    /\ UNCHANGED <<log, controller, rpos, running, started, mpos, user, crashes, counts>>

----------------------------------------------------------------------------
(* The user and the server.                                                *)

\* What a client that has shown k events displays.
Displayed(k) ==
    IF \E i \in 1..k : log[i].type = "state"
    THEN LET i == CHOOSE j \in 1..k : /\ log[j].type = "state"
                                      /\ \A h \in (j + 1)..k : log[h].type # "state"
         IN log[i].arg
    ELSE "LOADING"

Asking(k) == {i \in 1..k : log[i].type = "action" /\ log[i].conf = "awaiting"}

Send(k, e) ==
    /\ log' = Append(log, e)
    /\ seen' = k
    /\ inputs' = inputs + 1
    /\ UNCHANGED <<controller, parties, status, crashes, counts>>

\* A user who has shown k of the events may send something.  It arrives on the
\* main loop, after the statuses that were queued there before.
MaySend(k) ==
    /\ inputs < MaxInputs
    /\ status = 0
    /\ Patient => /\ k = Len(log)
                  /\ \A i \in (cpos + 1)..Len(log) :
                       ~(log[i].source = "user" /\ log[i].type \in {"message", "change"})

UserMessage ==
    \E k \in seen..Len(log) :
      /\ MaySend(k)
      /\ Displayed(k) \in MessageStates
      /\ Send(k, Ev("message", "user", ""))

\* The buttons, or their shortcuts, for the last action that awaits confirmation.
UserDecides ==
    \E k \in seen..Len(log), new \in {"USER_CONFIRMED", "USER_REJECTED"} \cap UserInputs :
      /\ MaySend(k)
      /\ Displayed(k) = "AWAITING_USER_CONFIRMATION"
      /\ \E i \in Asking(k) :
           /\ \A j \in Asking(k) : j <= i
           /\ Send(k, [Ev("change", "user", new) EXCEPT !.call = log[i].call])

UserStops ==
    \E k \in seen..Len(log), new \in {"STOPPED", "PAUSED"} \cap UserInputs :
      /\ MaySend(k)
      /\ Displayed(k) = "RUNNING"
      /\ Send(k, Ev("change", "user", new))

\* Mutant: the runtime subscribes at the beginning of the stream.
CrashRestart_replays ==
    /\ crashes < MaxCrashes
    /\ crashes' = crashes + 1
    /\ log' = Append(log, Ev("change", "environment", "AWAITING_USER_INPUT"))
    /\ agent_state' = "LOADING" /\ pending' = NoPending
    /\ flag' = saved /\ saved' = saved
    /\ cpos' = Len(log) /\ llm' = "idle"
    /\ rpos' = 0 /\ running' = 0 /\ mpos' = Len(log) /\ mfail' = 0
    /\ status' = 0
    /\ UNCHANGED <<started, user, counts>>

\* The server dies and the conversation is opened again: the history comes from
\* the stream, the rest of the state from the last save.
CrashRestart ==
    /\ crashes < MaxCrashes
    /\ crashes' = crashes + 1
    /\ log' = Append(log, Ev("change", "environment", "AWAITING_USER_INPUT"))
    /\ agent_state' = "LOADING" /\ pending' = NoPending
    /\ flag' = saved /\ saved' = saved
    /\ cpos' = Len(log) /\ llm' = "idle"
    /\ rpos' = Len(log) /\ running' = 0 /\ mpos' = Len(log) /\ mfail' = 0
    /\ status' = 0
    /\ UNCHANGED <<started, user, counts>>

Next ==
    \/ HandleOnly \/ HandleAndStep \/ LLMActs \/ LLMSpeaks \/ LLMRaises \/ StatusError
    \/ RuntimeAnswers \/ RuntimeStarts \/ RuntimeEnds
    \/ MemoryAnswers \/ MemoryFails \/ MemoryLoopRuns
    \/ UserMessage \/ UserDecides \/ UserStops
    \/ CrashRestart

Spec == Init /\ [][Next]_vars

\* Every thread and loop goes on with what it has to do; LLM calls and runtime
\* actions have timeouts.  The user owes nothing and the server need not die.
Fairness ==
    /\ WF_vars(HandleOnly \/ HandleAndStep)
    /\ WF_vars(LLMActs \/ LLMSpeaks \/ LLMRaises)
    /\ WF_vars(StatusError)
    /\ WF_vars(RuntimeAnswers \/ RuntimeStarts \/ RuntimeEnds)
    /\ WF_vars(MemoryAnswers \/ MemoryFails)
    /\ WF_vars(MemoryLoopRuns)

LiveSpec == Spec /\ Fairness

----------------------------------------------------------------------------
(* Properties.                                                             *)

\* Nothing will happen unless the user sends something.
Quiescent ==
    /\ llm = "idle" /\ NextOf(ControllerTypes, cpos) = {}
    /\ running = 0 /\ NextOf({"action", "think"}, rpos) = {}
    /\ NextOf({"recall"}, mpos) = {}
    /\ mfail = 0 \/ Len(log) = mfail
    /\ status = 0

\* The agent is in a state that tells the user it is their turn.
YourTurn ==
    \/ agent_state \in {"AWAITING_USER_INPUT", "PAUSED", "STOPPED", "FINISHED",
                        "REJECTED", "ERROR", "RATE_LIMITED"}
    \/ agent_state = "AWAITING_USER_CONFIRMATION" /\ pending.event.conf = "awaiting"

\* When nothing will happen any more the agent tells the user it is their turn; it
\* never sits in RUNNING, or in a decision it has taken, with nobody working for it.
NoSilentHang == Quiescent => YourTurn

\* Every turn ends: an agent that runs comes to rest, by itself or at its iteration
\* limit, in a state that tells the user so.
TurnEnds == agent_state = "RUNNING" ~> (Quiescent /\ YourTurn)

CallOf(n) == log[started[n]].call

\* The runtime executes an action that was put to the user only after the user
\* confirmed that very action.
ConfirmedFirst ==
    \A n \in DOMAIN started : \A i \in Asking(started[n]) :
      log[i].call = CallOf(n) =>
        \E j \in i..started[n] : /\ log[j].type = "change"
                                 /\ log[j].arg = "USER_CONFIRMED"
                                 /\ log[j].call = CallOf(n)

\* The runtime executes each action of the LLM at most once.
StartedOnce ==
    \A m, n \in DOMAIN started : CallOf(m) = CallOf(n) => m = n

\* Whenever the LLM is called, every runnable action in the history it is shown has
\* an observation there (_reset: "Runnable actions need an Observation").
LLMSeesAnswers ==
    llm = "calling" =>
      \A i \in 1..cpos : log[i].type = "action" =>
        \E j \in 1..cpos : log[j].type = "obs" /\ log[j].call = log[i].call

\* The LLM is called at most once per iteration the user has granted.
WithinLimit == steps <= MaxIterations * (1 + resumes)

\* An action that the agent is told was not executed was not.
NotExecuted ==
    \A i \in DOMAIN log :
      log[i].arg = "not_executed" /\ log[i].call # 0 =>
        \A n \in DOMAIN started : CallOf(n) # log[i].call

\* Once a stop or a pause has been handled, the LLM is not called again before the
\* user has written, or confirmed an action, after it.
StopObeyed ==
    [][steps' # steps =>
         \A i \in 1..cpos' :
           (log'[i].type = "change" /\ log'[i].arg \in {"STOPPED", "PAUSED"}) =>
             \E j \in (i + 1)..cpos' :
               /\ log'[j].source = "user"
               /\ log'[j].type = "message" \/ log'[j].arg = "USER_CONFIRMED"]_vars

=============================================================================
