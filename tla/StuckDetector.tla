---------------------------- MODULE StuckDetector ----------------------------
(***************************************************************************)
(* StuckDetector.is_stuck (openhands/controller/stuck.py), which the       *)
(* controller asks before every call of the LLM, over the histories an     *)
(* agent can write.                                                        *)
(*                                                                         *)
(* An event has a kind, what is compared of it, and the rest: the process  *)
(* and the text of a command's output, what follows the first three lines  *)
(* of an edit.  Condensation observations are made for a view and are not  *)
(* in a history, so the fifth scenario never occurs.  Positions start at 1.*)
(***************************************************************************)
EXTENDS Naturals, Sequences, SequencesExt, FiniteSets, FiniteSetsExt

CONSTANTS
    KMaxMoves,    \* bound: moves of the agent and the user together
    KPalette      \* bound: how many kinds of moves an agent makes

VARIABLES
    kmoves,       \* what the agent and the user did
    kpalette,     \* the agent's kinds of moves
    kheadless,    \* headless_mode
    kanalysis     \* the loop_type of stuck_analysis

kvars == <<kmoves, kpalette, kheadless, kanalysis>>

KEvent(kind, what, rest) == [kind |-> kind, what |-> what, rest |-> rest]
KError == KEvent("error", "failed", 0)

(* A move of the agent is an action with its observation, a message, or a  *)
(* reply that could not be parsed: an error without an action.             *)
KMoves ==
    { <<KEvent("run", "a", 0), KEvent("cmd", "x", 1)>>, <<KEvent("run", "a", 0), KEvent("cmd", "x", 2)>>,
      <<KEvent("run", "a", 0), KError>>, <<KEvent("run", "b", 0), KEvent("cmd", "y", 1)>>,
      <<KEvent("edit", "h", 1), KEvent("cell", "syntax", 0)>>,
      <<KEvent("edit", "h", 2), KEvent("cell", "syntax", 0)>>,
      <<KEvent("edit", "short", 0), KError>>,
      <<KEvent("say", "m", 0)>>, <<KError>> }

(* The user's is a message with the recall it leads to. *)
KUserMove == <<KEvent("user", "u", 0), KEvent("recall", "u", 0)>>

IsUser(e) == e.kind = "user"
KAction(e) == e.kind \in {"run", "edit", "say", "recall"}
KObservation(e) == e.kind \in {"cmd", "cell", "error"}

-----------------------------------------------------------------------------
\* Mutant: outputs are compared with their text and process.
EqNoPid_all(e, f) ==
    IF e.kind = "edit" /\ f.kind = "edit" THEN e.what # "short" /\ e.what = f.what ELSE e = f

(* _eq_no_pid.  Of an edit, the first three lines; one that is shorter is  *)
(* equal to none, not to itself.                                           *)
EqNoPid(e, f) ==
    CASE e.kind = "edit" /\ f.kind = "edit" -> e.what # "short" /\ e.what = f.what
      [] e.kind = "cmd" /\ f.kind = "cmd" -> e.what = f.what
      [] OTHER -> e = f

AllEqual(s) == \A i \in DOMAIN s : EqNoPid(s[1], s[i])

(* The last n at most of a sequence, the newest first *)
Newest(s, n) == SubSeq(Reverse(s), 1, Min({n, Len(s)}))

(* Only what follows the user's last message counts, unless in headless    *)
(* mode.                                                                   *)
KOffset(hist, headless) ==
    IF headless THEN 0 ELSE Max({0} \cup {i \in DOMAIN hist : IsUser(hist[i])})

NotStuck == "none"

(* Scenario 1 *)
RepeatingActionObservation(actions, observations) ==
    Len(actions) = 4 /\ Len(observations) = 4 /\ AllEqual(actions) /\ AllEqual(observations)

(* Scenario 2: errors, or cells that fail at the same line in the same way *)
RepeatingActionError(actions, observations) ==
    /\ Len(actions) >= 3 /\ Len(observations) >= 3
    /\ AllEqual(SubSeq(actions, 1, 3))
    /\ \/ \A i \in 1..3 : observations[i].kind = "error"
       \/ \A i \in 1..3 : observations[i].kind = "cell" /\ observations[i].what = "syntax"

(* Scenario 3: the last three messages of the agent, nothing observed      *)
(* between them                                                            *)
Monologue(filtered) ==
    LET said == SelectSeq([i \in DOMAIN filtered |-> i], LAMBDA i : filtered[i].kind = "say")
        three == Newest(said, 3)
    IN /\ Len(three) = 3
       /\ \A i \in 1..3 : filtered[three[i]] = filtered[three[3]]
       /\ \A i \in three[3]..three[1] : ~KObservation(filtered[i])

(* Scenario 4 *)
EveryOther(s) == Len(s) = 6 /\ AllEqual(<<s[1], s[3], s[5]>>) /\ AllEqual(<<s[2], s[4], s[6]>>)

IsStuck(hist, headless) ==
    LET offset == KOffset(hist, headless)
        filtered == SelectSeq(SubSeq(hist, offset + 1, Len(hist)), LAMBDA e : ~IsUser(e))
        actions == SelectSeq(filtered, KAction)
        observations == SelectSeq(filtered, KObservation)
        last_actions == Newest(actions, 4)
        last_observations == Newest(observations, 4)
        six == Newest(actions, 6)
    IN CASE Len(filtered) < 3 -> NotStuck
         [] RepeatingActionObservation(last_actions, last_observations) -> "action_observation"
         [] RepeatingActionError(last_actions, last_observations) -> "action_error"
         [] Monologue(filtered) -> "monologue"
         [] EveryOther(six) /\ EveryOther(Newest(observations, 6)) -> "pattern"
         [] OTHER -> NotStuck

-----------------------------------------------------------------------------
KInit ==
    /\ kmoves = <<>> /\ kheadless \in BOOLEAN /\ kanalysis = NotStuck
    /\ kpalette \in kSubset(KPalette, KMoves)

(* A move, and the check before the next one: an agent that is stuck is in *)
(* ERROR until the user says something.                                    *)
KMove(m) ==
    /\ Len(kmoves) < KMaxMoves
    /\ kanalysis = NotStuck \/ IsUser(m[1])
    /\ kmoves' = Append(kmoves, m)
    /\ kanalysis' = IsStuck(FlattenSeq(kmoves'), kheadless)
    /\ UNCHANGED <<kpalette, kheadless>>

KNext == \E m \in kpalette \cup {KUserMove} : KMove(m)

KSpec == KInit /\ [][KNext]_kvars

-----------------------------------------------------------------------------
(* The moves that count, in headless mode all of them *)
KSince ==
    SubSeq(kmoves, Max({1} \cup {i \in DOMAIN kmoves : IsUser(kmoves[i][1]) /\ ~kheadless}), Len(kmoves))

Same(e, f) == e.kind = f.kind /\ e.what = f.what /\ e.what # "short"
Acted(m) == Len(m) = 2 /\ ~IsUser(m[1])
Repeats(m, n) == Acted(m) /\ Acted(n) /\ Same(m[1], n[1]) /\ Same(m[2], n[2])
Failing(m, n) ==
    /\ Acted(m) /\ Acted(n) /\ Same(m[1], n[1])
    /\ m[2].kind = n[2].kind /\ m[2].kind \in {"error", "cell"}

(* What a loop is, in terms of moves: the same four times, the same error  *)
(* three times, two in turn three times, the same message three times.     *)
Looping ==
    LET last == Newest(KSince, 6)
        said == Newest(SelectSeq(KSince, LAMBDA m : ~IsUser(m[1])), 3)
    IN \/ Len(last) >= 4 /\ \A i \in 1..4 : Repeats(last[1], last[i])
       \/ Len(last) >= 3 /\ \A i \in 1..3 : Failing(last[1], last[i])
       \/ Len(last) = 6 /\ \A i \in 1..4 : Repeats(last[i], last[i + 2])
       \/ Len(said) = 3 /\ \A i \in 1..3 : said[i] = <<KEvent("say", "m", 0)>>

(* The same action three times, though not three times with an error: the  *)
(* last errors are those of other moves, as replies that could not be      *)
(* parsed; a message of the user counts with its recall.                   *)
FalseAlarm ==
    LET places == [i \in DOMAIN KSince |-> i]
        acted == Newest(SelectSeq(places, LAMBDA i : KSince[i] # <<KError>>), 3)
        seen == Newest(SelectSeq(places, LAMBDA i : KObservation(Last(KSince[i]))), 3)
        actions == Newest(SelectSeq(FlattenSeq(KSince), KAction), 3)
    IN (\A i \in 1..3 : Same(actions[1], actions[i])) /\ acted # seen

(* The detector says stuck exactly when the agent repeats itself since the *)
(* user's last message, save for its false alarms.                         *)
StuckIffLoop ==
    /\ Looping => kanalysis # NotStuck
    /\ kanalysis # NotStuck => Looping \/ (kanalysis = "action_error" /\ FalseAlarm)

=============================================================================
