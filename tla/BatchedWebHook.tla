--------------------------- MODULE BatchedWebHook ---------------------------
(***************************************************************************)
(* The file store that mirrors every write and delete to a web hook        *)
(* (openhands/storage/batched_web_hook.py).                                *)
(*                                                                         *)
(* Threads write the wrapped store, then queue the update under the batch  *)
(* lock.  A batch is sent when it reaches a size, when its timer runs, or  *)
(* by flush().  Batches are sent by the threads of an executor, so that    *)
(* several may be under way, each with up to HMaxTries attempts.           *)
(*                                                                         *)
(* The lock is held across a step in one place, the synchronous send of    *)
(* flush(); every other critical section is one step.  The content of an   *)
(* update is its number and its size; size 0 is a delete (or an empty      *)
(* write, which the code counts alike).                                    *)
(***************************************************************************)
EXTENDS Naturals, FiniteSets, FiniteSetsExt

CONSTANTS
    HPaths,       \* the paths that are written
    HWriters,     \* the threads that write
    HSizes,       \* path -> the sizes of its updates
    HLimit,       \* batch_size_limit_bytes
    HMaxTries,    \* attempts of tenacity.stop_after_attempt
    HMaxCalls     \* bound: updates and calls of flush() in a behaviour

ASSUME HookAssumption ==
    /\ HPaths # {} /\ HMaxTries \in Nat \ {0}
    /\ HSizes \in [HPaths -> SUBSET Nat] /\ HLimit \in Nat

VARIABLES
    hstore,    \* path -> the update the wrapped store holds
    hwriter,   \* thread -> the update it has stored and not yet queued
    hbatch,    \* _batch: path -> update, or NoUpdate
    hsize,     \* _batch_size
    htimer,    \* _batch_timer: "none", "armed", or "fired" and waiting for the lock
    hstale,    \* timers no longer in _batch_timer that fired before their cancel()
    hsends,    \* batches under way: the batch, failed attempts, whether flush() waits
    hlate,     \* the attempts given up by the client that the hook may still receive
    hremote,   \* path -> the update the receiver of the hook has
    hcount,    \* updates and calls of flush() so far
    hcrossed   \* ghost: paths whose updates were dropped or could overtake one another

hvars == <<hstore, hwriter, hbatch, hsize, htimer, hstale, hsends, hlate,
           hremote, hcount, hcrossed>>

NoUpdate == [id |-> 0, size |-> 0]
HUpdates == [id : 1..HMaxCalls, size : UNION {HSizes[p] : p \in HPaths}]
HIdle == [path |-> CHOOSE p \in HPaths : TRUE, update |-> NoUpdate]
HEmpty == [p \in HPaths |-> NoUpdate]

HInit ==
    /\ hstore = HEmpty /\ hbatch = HEmpty /\ hremote = HEmpty
    /\ hwriter = [w \in HWriters |-> HIdle]
    /\ hsize = 0 /\ hcount = 0
    /\ htimer = "none" /\ hstale = 0
    /\ hsends = {} /\ hlate = {} /\ hcrossed = {}

(* The batch lock is held while flush() sends synchronously. *)
HLocked == \E s \in hsends : s.sync

HPathsOf(batch) == {p \in HPaths : batch[p] # NoUpdate}

(* Paths of a batch that an earlier batch, or a request the client gave    *)
(* up, still carries: the two may arrive in either order.                  *)
HOverlap(batch) ==
    {p \in HPathsOf(batch) : \/ \E s \in hsends : p \in HPathsOf(s.batch)
                             \/ \E l \in hlate : p \in HPathsOf(l.batch)}

-----------------------------------------------------------------------------
(* write() and delete(): the wrapped store first, outside the lock.  Two   *)
(* threads between the store and the queue with the same path may queue in *)
(* the other order.                                                        *)
HookWrite(w, p, size) ==
    /\ hwriter[w] = HIdle /\ hcount < HMaxCalls
    /\ LET u == [id |-> hcount + 1, size |-> size]
       IN /\ hstore' = [hstore EXCEPT ![p] = u]
          /\ hwriter' = [hwriter EXCEPT ![w] = [path |-> p, update |-> u]]
    /\ hcount' = hcount + 1
    /\ hcrossed' = hcrossed \cup
          (IF \E v \in HWriters : hwriter[v] # HIdle /\ hwriter[v].path = p THEN {p} ELSE {})
    /\ UNCHANGED <<hbatch, hsize, htimer, hstale, hsends, hlate, hremote>>

(* Timer.cancel(): a timer that has fired runs its function all the same,  *)
(* as soon as it gets the lock.                                            *)
CancelTimer == hstale' = IF htimer = "fired" THEN hstale + 1 ELSE hstale

(* _enqueue_batch_from_lock: the batch is handed over and emptied and the  *)
(* timer cancelled; _send_batch does nothing with an empty batch.          *)
Enqueue(batch) ==
    /\ hsends' = IF batch = HEmpty THEN hsends
                 ELSE hsends \cup {[batch |-> batch, tries |-> 0, sync |-> FALSE]}
    /\ hcrossed' = hcrossed \cup HOverlap(batch)
    /\ hbatch' = HEmpty /\ hsize' = 0
    /\ htimer' = "none"

(* with self._batch_lock *)
LockFree == ~HLocked

(* _batch_size without the update of the path that is replaced *)
SizeWith(p, u) == hsize - hbatch[p].size + u.size

\* Mutant: the first update of a path stays in the batch.
BatchWith_first(p, u) == IF hbatch[p] = NoUpdate THEN [hbatch EXCEPT ![p] = u] ELSE hbatch

(* _batch[path] = (operation, contents) *)
BatchWith(p, u) == [hbatch EXCEPT ![p] = u]

(* _queue_update *)
HookQueue(w) ==
    LET p == hwriter[w].path
        u == hwriter[w].update
    IN /\ hwriter[w] # HIdle /\ LockFree
       /\ CancelTimer
       /\ IF SizeWith(p, u) >= HLimit
          THEN Enqueue(BatchWith(p, u))
          ELSE /\ hbatch' = BatchWith(p, u) /\ hsize' = SizeWith(p, u)
               /\ htimer' = "armed"
               /\ UNCHANGED <<hsends, hcrossed>>
       /\ hwriter' = [hwriter EXCEPT ![w] = HIdle]
       /\ UNCHANGED <<hstore, hlate, hremote, hcount>>

(* The timeout of the pending timer expires. *)
TimerFires ==
    /\ htimer = "armed"
    /\ htimer' = "fired"
    /\ UNCHANGED <<hstore, hwriter, hbatch, hsize, hstale, hsends, hlate, hremote,
                   hcount, hcrossed>>

(* _enqueue_batch_from_timer.  A timer that was cancelled after it fired   *)
(* sends the batch of another timer, and cancels that one.                 *)
TimerRuns ==
    /\ LockFree
    /\ \/ htimer = "fired" /\ UNCHANGED hstale
       \/ /\ hstale > 0
          /\ hstale' = IF htimer = "fired" THEN hstale ELSE hstale - 1
    /\ Enqueue(hbatch)
    /\ UNCHANGED <<hstore, hwriter, hlate, hremote, hcount>>

(* flush(): the lock is taken and the batch sent by the caller; the timer  *)
(* is cancelled when the send has ended (FlushEnds).                       *)
Flush ==
    /\ LockFree /\ hcount < HMaxCalls
    /\ hcount' = hcount + 1
    /\ IF hbatch = HEmpty
       THEN /\ CancelTimer /\ htimer' = "none"
            /\ UNCHANGED <<hsends, hcrossed>>
       ELSE /\ hsends' = hsends \cup {[batch |-> hbatch, tries |-> 0, sync |-> TRUE]}
            /\ hcrossed' = hcrossed \cup HOverlap(hbatch)
            /\ UNCHANGED <<htimer, hstale>>
    /\ hbatch' = HEmpty /\ hsize' = 0
    /\ UNCHANGED <<hstore, hwriter, hlate, hremote>>

FlushEnds(s) ==
    IF s.sync THEN CancelTimer /\ htimer' = "none" ELSE UNCHANGED <<htimer, hstale>>

Deliver(batch) ==
    hremote' = [p \in HPaths |-> IF batch[p] = NoUpdate THEN hremote[p] ELSE batch[p]]

(* _send_batch_request returns. *)
SendOk(s) ==
    /\ Deliver(s.batch)
    /\ hsends' = hsends \ {s}
    /\ FlushEnds(s)
    /\ UNCHANGED <<hstore, hwriter, hbatch, hsize, hlate, hcount, hcrossed>>

(* tenacity.stop_after_attempt *)
LastTry(s) == s.tries + 1 >= HMaxTries

\* Mutant: the batch is tried again however often it failed.
GivesUp_never(s) == hsends' = (hsends \ {s}) \cup {[s EXCEPT !.tries = HMaxTries - 1]}

(* _send_batch logs the exception. *)
GivesUp(s) == hsends' = hsends \ {s}

(* An attempt fails: the request did not arrive, arrived without an answer *)
(* in time, or may yet arrive.  After the last attempt the batch is gone.  *)
SendFails(s) ==
    /\ \/ UNCHANGED <<hremote, hlate>>
       \/ Deliver(s.batch) /\ UNCHANGED hlate
       \/ hlate' = hlate \cup {s} /\ UNCHANGED hremote
    /\ IF LastTry(s)
       THEN /\ GivesUp(s)
            /\ FlushEnds(s)
            /\ hcrossed' = hcrossed \cup HPathsOf(s.batch)
       ELSE /\ hsends' = (hsends \ {s}) \cup {[s EXCEPT !.tries = @ + 1]}
            /\ UNCHANGED <<htimer, hstale, hcrossed>>
    /\ UNCHANGED <<hstore, hwriter, hbatch, hsize, hcount>>

(* A request the client has given up arrives after all, or is lost. *)
LateRequest(l) ==
    /\ Deliver(l.batch) \/ UNCHANGED hremote
    /\ hlate' = hlate \ {l}
    /\ UNCHANGED <<hstore, hwriter, hbatch, hsize, htimer, hstale, hsends, hcount, hcrossed>>

HSystem ==
    \/ \E w \in HWriters : HookQueue(w)
    \/ TimerFires
    \/ TimerRuns
    \/ \E s \in hsends : SendOk(s) \/ SendFails(s)
    \/ \E l \in hlate : LateRequest(l)

HNext ==
    \/ \E w \in HWriters, p \in HPaths : \E size \in HSizes[p] : HookWrite(w, p, size)
    \/ Flush
    \/ HSystem

HSpec == HInit /\ [][HNext]_hvars

-----------------------------------------------------------------------------
(* Every variable has its type; in particular, no batch is tried more      *)
(* often than stop_after_attempt allows.                                   *)
HTypeOK ==
    /\ {hstore, hbatch, hremote} \subseteq [HPaths -> HUpdates \cup {NoUpdate}]
    /\ hwriter \in [HWriters -> [path : HPaths, update : HUpdates \cup {NoUpdate}]]
    /\ hsize \in Nat /\ hstale \in Nat
    /\ htimer \in {"none", "armed", "fired"}
    /\ hsends \subseteq [batch : [HPaths -> HUpdates \cup {NoUpdate}],
                         tries : 0..(HMaxTries - 1), sync : BOOLEAN]
    /\ hlate \subseteq [batch : [HPaths -> HUpdates \cup {NoUpdate}],
                        tries : 0..(HMaxTries - 1), sync : BOOLEAN]
    /\ hcount \in 0..HMaxCalls
    /\ hcrossed \subseteq HPaths

(* No update is left in a batch that nothing will send: while nobody holds *)
(* the lock, a batch that is not empty has a pending timer, or a fired     *)
(* one that is about to take it.  Cancelled timers that still run, size    *)
(* limits and flush() may come in between.                                 *)
BatchHasSender == hbatch # HEmpty /\ ~HLocked => htimer # "none" \/ hstale > 0

(* The newest updates of a path on their way from the store to the hook:   *)
(* held by a writer, in the batch, in a batch under way, or delivered.     *)
HNewest(p) ==
    LET held == {w \in HWriters : hwriter[w] # HIdle /\ hwriter[w].path = p}
        sent == {s \in hsends : s.batch[p] # NoUpdate}
    IN IF held # {} THEN {hwriter[w].update : w \in held}
       ELSE IF hbatch[p] # NoUpdate THEN {hbatch[p]}
       ELSE IF sent # {} THEN {s.batch[p] : s \in sent}
       ELSE {hremote[p]}

(* The hook ends with what the store holds: what is on its way for a path, *)
(* newest first, is the store's content, unless a batch with the path was  *)
(* dropped after its last attempt, two threads raced between the store and *)
(* the queue, or two batches (or a late request) with it were under way at *)
(* once.  These three are the only ways for the copy to differ for good.   *)
RemoteFollowsStore == \A p \in HPaths \ hcrossed : HNewest(p) = {hstore[p]}

(* Once the writers stop, everything queued is sent or dropped: a failing  *)
(* hook does not keep a batch, the lock or a thread for ever.  (A writer   *)
(* that never stops restarts the timer each time and may postpone a small  *)
(* batch for ever; HMaxCalls is what makes the writers stop.)            *)
HQuiet ==
    /\ \A w \in HWriters : hwriter[w] = HIdle
    /\ hbatch = HEmpty /\ hsends = {}
HookDrains == []<>HQuiet

=============================================================================
