------------------------------ MODULE EventLog ------------------------------
(***************************************************************************)
(* What the event stream promises its users, without threads, pages or     *)
(* crashes: a log in which an event is stored once under an id of its own, *)
(* and from which each subscriber is handed stored events, each at most    *)
(* once.                                                                   *)
(***************************************************************************)
EXTENDS Naturals, Sequences

CONSTANTS Subscribers, MaxCalls

VARIABLES log, seen

Seen(s) == {seen[s][i] : i \in DOMAIN seen[s]}

Init == log = {} /\ seen = [s \in Subscribers |-> <<>>]

\* An event enters the log under an id that no stored event has.
Store(e) ==
    /\ \A f \in log : f.id # e.id
    /\ log' = log \cup {e}
    /\ UNCHANGED seen

\* A subscriber is handed a stored event it has not been handed before.
Deliver(s, e) ==
    /\ e \notin Seen(s)
    /\ seen' = [seen EXCEPT ![s] = Append(@, e)]
    /\ UNCHANGED log

Next ==
    \/ \E i \in 0..MaxCalls, c \in 1..MaxCalls : Store([id |-> i, call |-> c])
    \/ \E s \in Subscribers : \E e \in log : Deliver(s, e)

Spec == Init /\ [][Next]_<<log, seen>>

=============================================================================
