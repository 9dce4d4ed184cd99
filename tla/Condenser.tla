------------------------------ MODULE Condenser ------------------------------
(***************************************************************************)
(* What the LLM is shown of the history: View.from_events                  *)
(* (openhands/memory/view.py) and the two rolling condensers that forget   *)
(* its middle, LLMSummarizingCondenser and AmortizedForgettingCondenser.   *)
(*                                                                         *)
(* A step of the agent computes the view; when it is too long, or when a   *)
(* condensation was requested, the step results in a CondensationAction    *)
(* instead of a call of the LLM.  A summary takes a call of another LLM,   *)
(* during which the user may say something.  Events are their ids and      *)
(* kinds.                                                                  *)
(***************************************************************************)
EXTENDS Integers, Sequences, SequencesExt, FiniteSets, FiniteSetsExt

CONSTANTS
    CMaxSize,    \* max_size
    CKeepFirst,  \* keep_first
    CMaxEvents   \* bound: the length of the history

(* The constructors demand keep_first < max_size // 2.  A summary takes up *)
(* a place of its own: with keep_first = max_size // 2 - 1 the slice that  *)
(* is to be forgotten ends at -0 and is empty, and every condensation of   *)
(* the summarizing condenser fails.                                        *)
ASSUME CondenserAssumption ==
    /\ CKeepFirst \in Nat /\ CMaxSize \in Nat
    /\ CKeepFirst + 1 < CMaxSize \div 2

VARIABLES
    chistory,      \* the events of state.history
    csummarizing,  \* whether the condenser is the summarizing one
    cview,         \* the view a condensation under way works on, or <<>>
    cfailed        \* whether the last step failed

cvars == <<chistory, csummarizing, cview, cfailed>>

CEvent(kind, from, to) ==
    [id |-> Len(chistory), kind |-> kind, from |-> from, to |-> to]

(* The AgentCondensationObservation that stands for the summary *)
Summary == [id |-> -1, kind |-> "summary", from |-> 0, to |-> 0]

-----------------------------------------------------------------------------
(* CondensationAction.forgotten, with the controls themselves *)
Forgotten(e) ==
    CASE e.kind = "condensation" -> (e.from)..(e.to) \cup {e.id}
      [] e.kind = "request" -> {e.id}
      [] OTHER -> {}

(* e.id in forgotten_event_ids *)
Hidden(history, e) == \E i \in DOMAIN history : e.id \in Forgotten(history[i])

(* View.from_events.  list.insert past the end inserts at the end. *)
ViewOf(history) ==
    LET kept == SelectSeq(history, LAMBDA e : ~Hidden(history, e))
        offset == Min({CKeepFirst, Len(kept)})
    IN IF csummarizing /\ \E i \in DOMAIN history : history[i].kind = "condensation"
       THEN InsertAt(kept, offset + 1, Summary)
       ELSE kept

\* Mutant: a request counts although it was handled.
Unhandled_any(history) == \E i \in DOMAIN history : history[i].kind = "request"

(* unhandled_condensation_request *)
Unhandled(history) ==
    \E i \in DOMAIN history :
        /\ history[i].kind = "request"
        /\ \A j \in (i + 1)..Len(history) : history[j].kind # "condensation"

(* should_condense *)
ShouldCondense(history) == Len(ViewOf(history)) > CMaxSize \/ Unhandled(history)

(* How many events are kept from the end of the view *)
TailSize(view) ==
    CMaxSize \div 2 - Min({CKeepFirst, Len(view)}) - (IF csummarizing THEN 1 ELSE 0)

\* Mutant: the head is not left out.
ToForget_head(view) ==
    {view[i].id : i \in {j \in 1..(Len(view) - TailSize(view)) : view[j] # Summary}}

(* get_condensation: the ids of what is neither in the head nor in the     *)
(* tail, and not the summary                                               *)
ToForget(view) ==
    {view[i].id : i \in {j \in (CKeepFirst + 1)..(Len(view) - TailSize(view)) :
                            view[j] # Summary}}

-----------------------------------------------------------------------------
CInit ==
    /\ chistory = <<>> /\ cview = <<>>
    /\ csummarizing \in BOOLEAN
    /\ cfailed = FALSE

(* An action, an observation or a message is added to the history. *)
NewEvent ==
    /\ Len(chistory) < CMaxEvents
    /\ chistory' = Append(chistory, CEvent("event", 0, 0))
    /\ cfailed' = FALSE
    /\ UNCHANGED <<csummarizing, cview>>

(* A step that calls the LLM ends in a request: the agent asks for a       *)
(* condensation, or the context was too long and the controller does.      *)
RequestCondensation ==
    /\ cview = <<>> /\ chistory # <<>> /\ ~ShouldCondense(chistory)
    /\ Len(chistory) < CMaxEvents
    /\ chistory' = Append(chistory, CEvent("request", 0, 0))
    /\ cfailed' = FALSE
    /\ UNCHANGED <<csummarizing, cview>>

(* A step that must condense and can: there is something to forget. *)
StepBegins ==
    /\ cview = <<>> /\ ShouldCondense(chistory)
    /\ ToForget(ViewOf(chistory)) # {}
    /\ cview' = ViewOf(chistory)
    /\ cfailed' = FALSE
    /\ UNCHANGED <<chistory, csummarizing>>

(* min() of nothing, or view[keep_first] past the end: the step raises and *)
(* the request stays unhandled.                                            *)
StepFails ==
    /\ cview = <<>> /\ ShouldCondense(chistory)
    /\ ToForget(ViewOf(chistory)) = {}
    /\ cfailed' = TRUE
    /\ UNCHANGED <<chistory, csummarizing, cview>>

\* Mutant: everything up to the end is forgotten, with what came meanwhile.
StepCondenses_late ==
    /\ cview # <<>>
    /\ chistory' = Append(chistory,
                      CEvent("condensation", Min(ToForget(cview)), Len(chistory) - 1))
    /\ cview' = <<>>
    /\ UNCHANGED <<csummarizing, cfailed>>

(* The CondensationAction is added to the history. *)
StepCondenses ==
    /\ cview # <<>>
    /\ chistory' = Append(chistory,
                      CEvent("condensation", Min(ToForget(cview)), Max(ToForget(cview))))
    /\ cview' = <<>>
    /\ UNCHANGED <<csummarizing, cfailed>>

CNext == NewEvent \/ RequestCondensation \/ StepBegins \/ StepFails \/ StepCondenses

CSpec == CInit /\ [][CNext]_cvars

-----------------------------------------------------------------------------
CView == ViewOf(chistory)
CEvents(s) == SelectSeq(s, LAMBDA e : e.kind = "event")

(* The history is numbered in order, and a condensation forgets only       *)
(* events that came before it.                                             *)
CTypeOK ==
    /\ \A i \in DOMAIN chistory :
          /\ chistory[i].id = i - 1
          /\ chistory[i].kind \in {"event", "request", "condensation"}
          /\ chistory[i].from <= chistory[i].to /\ chistory[i].to < i
    /\ cfailed \in BOOLEAN

(* The first events of the conversation (the system message, the task) are *)
(* the first of every view, whatever was condensed, and a summary follows  *)
(* them at once, where the next condensation looks for it.                 *)
ViewKeepsHead ==
    LET n == Min({CKeepFirst, Len(CEvents(chistory))})
    IN /\ SubSeq(CView, 1, n) = SubSeq(CEvents(chistory), 1, n)
       /\ \A i \in DOMAIN CView : CView[i] = Summary => i = CKeepFirst + 1

(* What happened while the condensation under way was worked on *)
Since == SelectSeq(chistory, LAMBDA e : e.kind = "event" /\ e.id > Last(cview).id)

(* Everything that happened since the last condensation was computed is in *)
(* the view, also what the user said while the summary was being written,  *)
(* together with the end of the view that was condensed.                   *)
RecentKept ==
    [][cview # <<>> /\ cview' = <<>> =>
          LET kept == SubSeq(cview, Len(cview) - TailSize(cview) + 1, Len(cview))
          IN Range(CEvents(kept \o Since)) \subseteq Range(CView')]_cvars

(* A condensation settles the matter: no request is left, and the view has *)
(* at most half of max_size and what came meanwhile.  The agent does not   *)
(* condense again and again.                                               *)
CondensationSettles ==
    [][cview # <<>> /\ cview' = <<>> =>
          /\ ~Unhandled(chistory)'
          /\ Len(CView') <= CMaxSize \div 2 + Len(Since)]_cvars

=============================================================================
