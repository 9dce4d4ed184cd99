--------------------------- MODULE ErrorReporting ---------------------------
(***************************************************************************)
(* Reporting errors to the Devin service                                   *)
(* (openhands/integrations/devin_integration.py, DevinIntegrationService). *)
(*                                                                         *)
(* A report passes the checks of the cooldown, of the active session, of   *)
(* the duplicates and of the rate limit in one step of the event loop,     *)
(* waits for the API, and is recorded when the answer comes; meanwhile     *)
(* other reports and the callbacks of merged or cancelled sessions run.    *)
(* report_error_sync and its like run a report on a thread and a loop of   *)
(* its own while the caller waits: two that run at once are taken to pass  *)
(* the checks one after the other.                                         *)
(*                                                                         *)
(* Time is a clock in units that the constants share.  It may not pass a   *)
(* request by more than ERequestTime, the timeout of the HTTP client.      *)
(***************************************************************************)
EXTENDS Integers, Sequences, FiniteSets

CONSTANTS
    Errors,        \* the error hashes
    EHour,         \* 3600 seconds: the hour of the rate limit
    EWindow,       \* DEDUPLICATION_WINDOW_SECONDS
    ECooldown,     \* PR_MERGE_COOLDOWN_SECONDS
    EMaxPerHour,   \* MAX_REQUESTS_PER_HOUR
    ERequestTime,  \* the longest a request to the API takes
    EMaxClock,     \* bound: the clock
    EMaxReports    \* bound: requests to the two services

(* A request ends (30 seconds) long before its hash may be reported again  *)
(* (an hour).                                                              *)
ASSUME ReportingAssumption ==
    /\ EHour \in Nat \ {0} /\ EWindow \in Nat /\ ECooldown \in Nat
    /\ EMaxPerHour \in Nat /\ ERequestTime \in Nat /\ EMaxClock \in Nat
    /\ ERequestTime < EWindow

VARIABLES
    eclock,     \* time.time()
    erecent,    \* _recent_error_hashes: error -> time, or Never
    ecounts,    \* _request_counts: hour -> requests counted
    ereset,     \* _last_request_reset
    erequests,  \* requests to Devin's API under way
    eactive,    \* _active_sessions: error -> session, or NoSession
    ehistory,   \* _error_history: error -> attempts
    eresolved,  \* _resolved_errors: error -> resolved_at, or Never
    esent       \* ghost: the hour of every request sent, in order

evars == <<eclock, erecent, ecounts, ereset, erequests, eactive, ehistory,
           eresolved, esent>>

Never == -1
NoSession == 0   \* also the empty session id of an answer without one
HourOf(t) == t \div EHour
EHours == 0..HourOf(EMaxClock)

EInit ==
    /\ eclock \in 0..(EHour - 1)
    /\ ereset = eclock
    /\ erecent = [e \in Errors |-> Never]
    /\ eresolved = [e \in Errors |-> Never]
    /\ ecounts = [h \in EHours |-> 0]
    /\ eactive = [e \in Errors |-> NoSession]
    /\ ehistory = [e \in Errors |-> <<>>]
    /\ erequests = {} /\ esent = <<>>

(* Time passes; a request under way is answered or times out in time. *)
Tick ==
    /\ eclock < EMaxClock
    /\ \A r \in erequests : eclock < r.started + ERequestTime
    /\ eclock' = eclock + 1
    /\ UNCHANGED <<erecent, ecounts, ereset, erequests, eactive, ehistory, eresolved, esent>>

-----------------------------------------------------------------------------
(* _check_pr_merge_cooldown *)
InCooldown(e) == eresolved[e] # Never /\ eclock < eresolved[e] + ECooldown

(* _check_duplicate, which forgets a hash once it is as old as the window *)
Duplicate(e) == erecent[e] # Never /\ erecent[e] > eclock - EWindow

(* _check_rate_limit: the counters as it finds them after its reset *)
ResetDue == eclock - ereset > EHour
Counts == IF ResetDue THEN [h \in EHours |-> 0] ELSE ecounts
LimitReached == Counts[HourOf(eclock)] >= EMaxPerHour

(* The request to the API *)
Request(e, recorded) ==
    [id |-> Len(esent) + 1, error |-> e, started |-> eclock, recorded |-> recorded]

\* Mutant: the hash is left to be recorded after the API has answered.
RecordHash_later(e) == UNCHANGED erecent

(* _check_duplicate records the hash. *)
RecordHash(e) == erecent' = [erecent EXCEPT ![e] = eclock]

\* Mutant: _last_request_reset is not moved.
RecordReset_kept == UNCHANGED ereset

(* The reset of _check_rate_limit. *)
RecordReset == ereset' = IF ResetDue THEN eclock ELSE ereset

(* _check_rate_limit, and the request it lets through, which is kept when  *)
(* something is done with its answer.                                      *)
Limited(awaited) ==
    /\ RecordReset
    /\ IF LimitReached
       THEN ecounts' = Counts /\ UNCHANGED <<erequests, esent>>
       ELSE /\ Len(esent) < EMaxReports
            /\ ecounts' = [Counts EXCEPT ![HourOf(eclock)] = @ + 1]
            /\ esent' = Append(esent, HourOf(eclock))
            /\ erequests' = erequests \cup awaited

(* The checks that the two reports to Devin share.  A report stopped by    *)
(* the rate limit has already recorded its hash.                           *)
Submit(e, recorded) ==
    /\ ~Duplicate(e)
    /\ RecordHash(e)
    /\ Limited({Request(e, recorded)})

(* report_error: no cooldown, no history *)
ReportError(e) ==
    /\ Submit(e, FALSE)
    /\ UNCHANGED <<eclock, eactive, ehistory, eresolved>>

(* report_error_with_cooldown_and_history up to its await *)
ReportWithHistory(e) ==
    /\ ~InCooldown(e)
    /\ eactive[e] = NoSession
    /\ Submit(e, TRUE)
    /\ UNCHANGED <<eclock, eactive, ehistory, eresolved>>

(* report_error_to_chatuserinterface with the key of that service (without *)
(* it, it is ReportWithHistory): of the checks there is only the rate      *)
(* limit, shared with the others, and the answer changes nothing.          *)
ReportCentrally ==
    /\ Limited({})
    /\ UNCHANGED <<eclock, erecent, eactive, ehistory, eresolved>>

(* The API answers 200; the session of a request with history is recorded  *)
(* (_record_attempt), its id being empty when the answer has none.         *)
SessionCreated(r, session) ==
    /\ r.recorded
    /\ ehistory' = [ehistory EXCEPT ![r.error] =
                       Append(@, [session |-> session, status |-> "in_progress"])]
    /\ eactive' = [eactive EXCEPT ![r.error] = session]
    /\ erequests' = erequests \ {r}
    /\ UNCHANGED <<eclock, erecent, ecounts, ereset, eresolved, esent>>

(* The API fails or times out, or the request keeps no history. *)
RequestEnds(r) ==
    /\ erequests' = erequests \ {r}
    /\ UNCHANGED <<eclock, erecent, ecounts, ereset, eactive, ehistory, eresolved, esent>>

(* The attempt of a session: the first with its id. *)
AttemptOf(e, session) ==
    {i \in 1..Len(ehistory[e]) :
        /\ ehistory[e][i].session = session
        /\ \A j \in 1..(i - 1) : ehistory[e][j].session # session}

(* mark_pr_merged(error_hash, session_id) *)
MarkMerged(e, session) ==
    /\ eresolved' = [eresolved EXCEPT ![e] = eclock]
    /\ ehistory' = [ehistory EXCEPT ![e] = [i \in DOMAIN @ |->
                       IF i \in AttemptOf(e, session) THEN [@[i] EXCEPT !.status = "resolved"]
                       ELSE @[i]]]
    /\ eactive' = [eactive EXCEPT ![e] = NoSession]
    /\ UNCHANGED <<eclock, erecent, ecounts, ereset, erequests, esent>>

(* clear_active_session *)
ClearSession(e) ==
    /\ eactive[e] # NoSession
    /\ eactive' = [eactive EXCEPT ![e] = NoSession]
    /\ UNCHANGED <<eclock, erecent, ecounts, ereset, erequests, ehistory, eresolved, esent>>

(* A session is merged when there is one: the ids the history has seen. *)
SessionsOf(e) == {ehistory[e][i].session : i \in 1..Len(ehistory[e])}

ENext ==
    \/ Tick \/ ReportCentrally
    \/ \E e \in Errors :
          \/ ReportError(e)
          \/ ReportWithHistory(e)
          \/ ClearSession(e)
          \/ \E session \in SessionsOf(e) : MarkMerged(e, session)
    \/ \E r \in erequests :
          \/ \E session \in {r.id, NoSession} : SessionCreated(r, session)
          \/ RequestEnds(r)

ESpec == EInit /\ [][ENext]_evars

-----------------------------------------------------------------------------
ERequests == [id : 1..EMaxReports, error : Errors, started : Int, recorded : BOOLEAN]

(* Every variable has its type; the times kept for an error are never in   *)
(* the future.                                                             *)
ETypeOK ==
    /\ eclock \in Nat /\ ereset \in Nat
    /\ erecent \in [Errors -> {Never} \cup 0..eclock]
    /\ eresolved \in [Errors -> {Never} \cup 0..eclock]
    /\ ecounts \in [EHours -> Nat]
    /\ erequests \subseteq ERequests
    /\ eactive \in [Errors -> Nat]
    /\ ehistory \in [Errors -> Seq([session : Nat, status : {"in_progress", "resolved"}])]
    /\ esent \in Seq(EHours)

(* "Active session deduplication": the session is looked up before the     *)
(* await and recorded after it, yet a session that is recorded never       *)
(* replaces one that is active: a second report of the error made in       *)
(* between is a duplicate.                                                 *)
OneActiveSession ==
    [][\A e \in Errors : Len(ehistory'[e]) > Len(ehistory[e]) => eactive[e] = NoSession]_evars

(* The table of active sessions and the history agree: the active session  *)
(* of an error is an attempt in progress, whatever merges and cancelled    *)
(* sessions came while the answer was awaited.                             *)
ActiveIsInProgress ==
    \A e \in Errors : eactive[e] # NoSession =>
        \E i \in 1..Len(ehistory[e]) :
            ehistory[e][i] = [session |-> eactive[e], status |-> "in_progress"]

(* A session opened while the cooldown of a merge runs was asked for       *)
(* before the merge: no report made during the cooldown opens one.         *)
CooldownHolds ==
    [][\A r \in erequests :
          r \notin erequests' /\ Len(ehistory'[r.error]) > Len(ehistory[r.error])
             => ~InCooldown(r.error) \/ r.started <= eresolved[r.error]]_evars

(* The counters are cleared once per hour, counted from the last clearing, *)
(* while they are kept per hour of the clock: so that twice the limit, and *)
(* no more, may be sent in an hour of the clock.                           *)
TwiceTheLimit ==
    \A h \in EHours :
        Cardinality({i \in 1..Len(esent) : esent[i] = h}) <= 2 * EMaxPerHour

=============================================================================
