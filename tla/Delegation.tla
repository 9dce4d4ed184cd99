----------------------------- MODULE Delegation -----------------------------
(***************************************************************************)
(* An agent that hands a task to another one: AgentController.on_event,    *)
(* start_delegate and end_delegate (openhands/controller/                  *)
(* agent_controller.py), and the history that StateTracker rebuilds from   *)
(* the stream when the conversation is opened again.                       *)
(*                                                                         *)
(* Only the parent is subscribed.  While it has a delegate it passes every *)
(* event on, until the delegate has ended; the event that finds it ended   *)
(* goes to nobody and makes the parent publish the result.  Both share one *)
(* iteration flag and one budget.  The parent is the agent that calls      *)
(* tools; its delegate, the browsing agent, has none and cannot delegate.  *)
(* Confirmation, malformed replies and the errors the runtime reports are  *)
(* in AgentController.  No microagent is triggered, so that only the first *)
(* recall of a controller finds something.                                 *)
(*                                                                         *)
(* Events are known by their place in the stream, which starts at 1.       *)
(***************************************************************************)
EXTENDS Naturals, Sequences, SequencesExt, FiniteSets

CONSTANTS
    DIterations,   \* max_iterations
    DMaxInputs,    \* bound: messages and stops of the user
    DMaxRestarts   \* bound: times the conversation is opened again

VARIABLES
    dlog,       \* the event stream
    dpos,       \* how many events on_event was called for
    dparent,    \* the parent's controller and state
    ddelegate,  \* the delegate's, or NoDelegate
    dflag,      \* the shared control flags
    dsaved,     \* what is stored of the parent's state
    dllm,       \* whose LLM is being called: "idle", "parent" or "delegate"
    dwaiting,   \* the actions and recalls that will be answered
    dinputs, drestarts

dvars == <<dlog, dpos, dparent, ddelegate, dflag, dsaved, dllm, dwaiting, dinputs, drestarts>>

NewController == [state |-> "LOADING", pending |-> 0, error |-> "none",
                  hist |-> <<>>, start |-> 1, sub |-> FALSE]
NoDelegate == [NewController EXCEPT !.state = "NONE"]
NewFlag == [cur |-> 0, max |-> DIterations, hit |-> FALSE, budget |-> "left"]

(* What a handler reads and writes *)
DWorld == [log |-> dlog, parent |-> dparent, delegate |-> ddelegate, flag |-> dflag, saved |-> dsaved]
DBecomes(w) ==
    /\ dlog' = w.log /\ dparent' = w.parent /\ ddelegate' = w.delegate
    /\ dflag' = w.flag /\ dsaved' = w.saved

(* event_stream.add_event *)
DAdd(w, kind, cause) == [w EXCEPT !.log = Append(@, [kind |-> kind, cause |-> cause])]

-----------------------------------------------------------------------------
(* The actions that the runtime answers: the parent's, which come of a     *)
(* tool call, and the delegate's, which like recalls have none.            *)
Runnable == {"act", "browse"}
ToolCall(w, i) == IF w.log[i].kind = "act" THEN i ELSE 0

(* An observation with the same tool call, or also with none, is in the    *)
(* history.                                                                *)
DAnswered(w, who) ==
    \E n \in DOMAIN w[who].hist :
        LET e == w.log[w[who].hist[n]]
        IN e.kind = "answer" /\ ToolCall(w, e.cause) = ToolCall(w, w[who].pending)

(* _reset *)
DReset(w, who) ==
    [IF w[who].pending # 0 /\ ~DAnswered(w, who) THEN DAdd(w, "answer", w[who].pending) ELSE w
        EXCEPT ![who].pending = 0]

(* maybe_increase_control_flags_limits *)
DIncrease(f) ==
    [f EXCEPT !.max = IF f.hit THEN @ + DIterations ELSE @,
              !.hit = FALSE,
              !.budget = IF @ = "hit" THEN "left" ELSE @]

(* set_agent_state_to.  A delegate's state is stored under a name of its   *)
(* own and never read.                                                     *)
DSetState(w, who, new) ==
    IF new = w[who].state THEN w
    ELSE LET entered == [w EXCEPT ![who].state = new]
             reset == IF new \in {"STOPPED", "ERROR"} THEN DReset(entered, who) ELSE entered
             raised == IF w[who].state = "ERROR" /\ new = "RUNNING"
                       THEN [reset EXCEPT !.flag = DIncrease(@)] ELSE reset
             told == DAdd(raised, "state", 0)
         IN IF who = "parent"
            THEN [told EXCEPT !.saved = [start |-> told.parent.start, flag |-> told.flag]]
            ELSE told

(* _react_to_exception: nothing ever clears last_error. *)
DReact(w, who, error) == DSetState([w EXCEPT ![who].error = error], who, "ERROR")

-----------------------------------------------------------------------------
(* A message by the user, or one that stands for it: the task *)
DMessage(w, who, i) ==
    LET first == \A j \in w[who].start..(i - 1) : w.log[j].kind \notin {"user", "task"}
        recall == DAdd(w, IF first THEN "context" ELSE "recall", 0)
    IN DSetState([recall EXCEPT ![who].pending = Len(recall.log)], who, "RUNNING")

(* start_delegate, the task, and the delegate's first state.  A delegate   *)
(* that is handed the parent's action has a delegate that hears nothing.   *)
StartDelegate(w, who) ==
    IF who = "parent"
    THEN DSetState(DAdd([w EXCEPT !.delegate = [NewController EXCEPT !.start = Len(w.log) + 1]],
                        "task", 0), "delegate", "RUNNING")
    ELSE DAdd(DAdd([w EXCEPT !.delegate.sub = TRUE], "task", 0), "state", 0)

\* Mutant: the result is left for the parent to look up.
EndDelegate_silent(w) == [DSetState(w, "delegate", "STOPPED") EXCEPT !.delegate = NoDelegate]

(* end_delegate *)
EndDelegate(w) ==
    [DAdd(DSetState(w, "delegate", "STOPPED"), "result", 0) EXCEPT !.delegate = NoDelegate]

(* agent_history_filter *)
DFiltered(e) == e.kind \in {"state", "stop", "wait", "null"}

(* _on_event without the step: add_history, _handle_action and             *)
(* _handle_observation                                                     *)
DHandle(w, who, i) ==
    LET e == w.log[i]
        heard == IF DFiltered(e) THEN w ELSE [w EXCEPT ![who].hist = Append(@, i)]
    IN CASE e.kind \in {"user", "task"} -> DMessage(heard, who, i)
         [] e.kind = "stop" -> DSetState(heard, who, "STOPPED")
         [] e.kind \in {"ask", "wait"} -> DSetState(heard, who, "AWAITING_USER_INPUT")
         [] e.kind = "finish" -> DSetState(heard, who, "FINISHED")
         [] e.kind = "delegate" -> StartDelegate(heard, who)
         [] e.kind \in {"answer", "null"} /\ e.cause = w[who].pending -> [heard EXCEPT ![who].pending = 0]
         [] OTHER -> heard

(* should_step, and the two early returns of _step *)
DShouldStep(w, who, e) ==
    /\ IF who = "parent" THEN w.delegate = NoDelegate ELSE ~w.delegate.sub
    /\ e.kind \in {"user", "task", "answer", "null", "result"}
    /\ w[who].state = "RUNNING" /\ w[who].pending = 0

(* The delegate gets the event: it has not ended, or its last error was    *)
(* the iteration limit, which the user may raise.  The budget's message    *)
(* does not match the text it is compared with.                            *)
Forwards ==
    \/ ddelegate.state \notin {"FINISHED", "ERROR", "REJECTED"}
    \/ ddelegate.error = "iterations"

-----------------------------------------------------------------------------
(* _init_history: pairs of a delegation and its result, matched on a stack *)
DelegateRanges(events) ==
    FoldLeft(LAMBDA acc, i :
                CASE dlog[i].kind = "delegate" -> [acc EXCEPT !.open = Append(@, i)]
                  [] dlog[i].kind = "result" /\ acc.open # <<>> ->
                       [open |-> Front(acc.open), ranges |-> Append(acc.ranges, <<Last(acc.open), i>>)]
                  [] OTHER -> acc,
             [open |-> <<>>, ranges |-> <<>>], events).ranges

\* Mutant: the delegation itself is cut out with what came of it.
InitHistory_cuts(start) ==
    LET events == SelectSeq([k \in 1..(Len(dlog) + 1 - start) |-> start + k - 1],
                            LAMBDA i : ~DFiltered(dlog[i]))
        ranges == DelegateRanges(events)
    IN [hist |-> SelectSeq(events, LAMBDA i :
                    \A n \in DOMAIN ranges : ~(ranges[n][1] <= i /\ i < ranges[n][2])),
        start |-> start]

(* The loop over the ranges reuses the name start_id, so that it ends as   *)
(* the place of the last delegation, and is kept as the state's.           *)
InitHistory(start) ==
    LET events == SelectSeq([k \in 1..(Len(dlog) + 1 - start) |-> start + k - 1],
                            LAMBDA i : ~DFiltered(dlog[i]))
        ranges == DelegateRanges(events)
        cut == FoldLeft(LAMBDA acc, r :
                 [hist |-> acc.hist \o SelectSeq(events, LAMBDA i : acc.next <= i /\ i < r[1])
                                    \o <<r[1], r[2]>>,
                  next |-> r[2] + 1],
               [hist |-> <<>>, next |-> start], ranges)
    IN [hist |-> cut.hist \o SelectSeq(events, LAMBDA i : cut.next <= i),
        start |-> IF ranges = <<>> THEN start ELSE Last(ranges)[1]]

-----------------------------------------------------------------------------
DInit ==
    /\ dlog = <<[kind |-> "wait", cause |-> 0]>> /\ dpos = 0
    /\ dparent = NewController /\ ddelegate = NoDelegate
    /\ dflag = NewFlag /\ dsaved = [start |-> 1, flag |-> NewFlag]
    /\ dllm = "idle" /\ dwaiting = {}
    /\ dinputs = 0 /\ drestarts = 0

Recalls(w) == {i \in (Len(dlog) + 1)..Len(w.log) : w.log[i].kind \in {"context", "recall"}}

(* on_event when it leads to no call of the LLM: the event is passed on    *)
(* or taken, or it ends the delegate and is dropped.                       *)
OnEvent ==
    /\ dllm = "idle" /\ dpos < Len(dlog)
    /\ LET i == dpos + 1
           who == IF ddelegate = NoDelegate THEN "parent" ELSE "delegate"
           ends == ddelegate # NoDelegate /\ ~Forwards
           w == IF ends THEN EndDelegate(DWorld) ELSE DHandle(DWorld, who, i)
           hit == w.flag.cur >= w.flag.max
           counted == [w EXCEPT !.flag.cur = @ + 1, !.flag.hit = FALSE]
       IN /\ dpos' = i
          /\ IF ends \/ ~DShouldStep(w, who, dlog[i])
             THEN DBecomes(w) /\ UNCHANGED dllm
             ELSE \/ hit /\ UNCHANGED dllm
                     /\ DBecomes(DReact([w EXCEPT !.flag.hit = TRUE], who, "iterations"))
                  \/ ~hit /\ w.flag.budget # "left" /\ UNCHANGED dllm
                     /\ DBecomes(DReact([counted EXCEPT !.flag.budget = "hit"], who, "budget"))
                  \/ ~hit /\ w.flag.budget = "left" /\ dllm' = who /\ DBecomes(counted)
          /\ dwaiting' = dwaiting \cup Recalls(w)
    /\ UNCHANGED <<dinputs, drestarts>>

(* agent.step returns; the call may have used up the budget. *)
StepReturns(kind) ==
    /\ dllm # "idle"
    /\ \E spent \in {dflag.budget, "spent"} :
          LET w == [DAdd(DWorld, kind, 0) EXCEPT !.flag.budget = spent]
          IN DBecomes(IF kind \in Runnable THEN [w EXCEPT ![dllm].pending = Len(w.log)] ELSE w)
    /\ dwaiting' = IF kind \in Runnable THEN dwaiting \cup {Len(dlog) + 1} ELSE dwaiting
    /\ dllm' = "idle"
    /\ UNCHANGED <<dpos, dinputs, drestarts>>

(* It raises. *)
StepRaises ==
    /\ dllm # "idle"
    /\ DBecomes(DReact(DWorld, dllm, "other"))
    /\ dllm' = "idle"
    /\ UNCHANGED <<dpos, dwaiting, dinputs, drestarts>>

(* The runtime or the memory, each in its order, answers. *)
Answer(i) ==
    /\ i \in dwaiting
    /\ \A j \in dwaiting : (dlog[j].kind \in Runnable) = (dlog[i].kind \in Runnable) => i <= j
    /\ dlog' = DAdd(DWorld, IF dlog[i].kind = "recall" THEN "null" ELSE "answer", i).log
    /\ dwaiting' = dwaiting \ {i}
    /\ UNCHANGED <<dpos, dparent, ddelegate, dflag, dsaved, dllm, dinputs, drestarts>>

(* The user says something or stops the agent, at any moment. *)
Input(kind) ==
    /\ dinputs < DMaxInputs /\ dinputs' = dinputs + 1
    /\ dlog' = DAdd(DWorld, kind, 0).log
    /\ UNCHANGED <<dpos, dparent, ddelegate, dflag, dsaved, dllm, dwaiting, drestarts>>

(* The server is gone and the conversation is opened again: the delegate   *)
(* is lost, the state is the stored one, the history comes from the stream.*)
Reopen ==
    LET restored == InitHistory(dsaved.start)
    IN /\ drestarts < DMaxRestarts /\ drestarts' = drestarts + 1
       /\ dparent' = [NewController EXCEPT !.hist = restored.hist, !.start = restored.start]
       /\ ddelegate' = NoDelegate
       /\ dflag' = dsaved.flag
       /\ dpos' = Len(dlog)
       /\ dlog' = DAdd(DWorld, "wait", 0).log
       /\ dllm' = "idle" /\ dwaiting' = {}
       /\ UNCHANGED <<dsaved, dinputs>>

DNext ==
    \/ OnEvent \/ StepRaises \/ Reopen
    \/ \E kind \in {"finish", "ask"} : StepReturns(kind)
    \/ dllm = "parent" /\ \E kind \in {"act", "delegate"} : StepReturns(kind)
    \/ dllm = "delegate" /\ StepReturns("browse")
    \/ \E i \in dwaiting : Answer(i)
    \/ \E kind \in {"user", "stop"} : Input(kind)

DSpec == DInit /\ [][DNext]_dvars

-----------------------------------------------------------------------------
DControllers(states) ==
    [state : states, pending : Nat, error : {"none", "iterations", "budget", "other"},
     hist : Seq(1..Len(dlog)), start : 1..(Len(dlog) + 1), sub : BOOLEAN]
DFlags == [cur : Nat, max : Nat, hit : BOOLEAN, budget : {"left", "spent", "hit"}]
DStates == {"LOADING", "RUNNING", "AWAITING_USER_INPUT", "STOPPED", "FINISHED", "ERROR"}

(* Every variable has its type, and what is in a history is in the stream. *)
DTypeOK ==
    /\ \A i \in DOMAIN dlog : dlog[i].cause < i
    /\ dpos \in 0..Len(dlog) /\ dwaiting \subseteq DOMAIN dlog
    /\ dparent \in DControllers(DStates)
    /\ ddelegate \in DControllers(DStates \cup {"NONE"})
    /\ {dflag, dsaved.flag} \subseteq DFlags
    /\ dllm \in {"idle", "parent", "delegate"}

DQuiescent == dllm = "idle" /\ dpos = Len(dlog) /\ dwaiting = {}

(* The delegation and the result between which an event lies, if any *)
Between(i) ==
    \E a, r \in DOMAIN dlog :
        /\ a < i /\ i < r
        /\ dlog[a].kind = "delegate" /\ dlog[r].kind = "result"
        /\ \A k \in (a + 1)..(r - 1) : dlog[k].kind \notin {"delegate", "result"}

(* When nothing will happen any more, nobody is left in the middle: no     *)
(* agent is RUNNING and no ended delegate stands before its parent, so     *)
(* that the parent, as end_delegate says, can resume normal operation.     *)
NobodyForgotten ==
    DQuiescent =>
        IF ddelegate = NoDelegate THEN dparent.state # "RUNNING"
        ELSE ddelegate.state \in {"AWAITING_USER_INPUT", "STOPPED", "ERROR"}

(* The same, with the three ways in which the code leaves somebody: an     *)
(* answer the parent waits for that was passed on to the delegate, a       *)
(* delegate that was resumed after the iteration limit, whose last error   *)
(* still says so when it has finished, and a second delegation of the      *)
(* parent that was passed on to the first delegate.                        *)
ForgottenOnlyWhen ==
    DQuiescent =>
        IF ddelegate = NoDelegate
        THEN dparent.state = "RUNNING" =>
                \E i \in DOMAIN dlog : dlog[i].kind \in {"answer", "null"}
                                       /\ dlog[i].cause = dparent.pending /\ Between(i)
        ELSE \/ ddelegate.state \in {"AWAITING_USER_INPUT", "STOPPED"}
             \/ ddelegate.error = "iterations" /\ ddelegate.state # "RUNNING"
             \/ ddelegate.sub

(* A conversation that is opened again for the first time has the history  *)
(* it had, without what the parent took between the end of a delegate and  *)
(* its result.                                                             *)
ReopenKeepsHistory ==
    drestarts = 0 /\ dpos = Len(dlog) /\ ddelegate = NoDelegate =>
        SelectSeq(dparent.hist, LAMBDA i : ~Between(i)) = InitHistory(dsaved.start).hist

=============================================================================
