--------------------------- MODULE RemoteProofs -----------------------------
(***************************************************************************)
(* Theorems about three parts of the server whose other half is remote:    *)
(* the web hook that mirrors the file store, the cluster that shares the   *)
(* conversations through Redis, and the limit on the requests to the Devin *)
(* service.                                                                *)
(***************************************************************************)
EXTENDS BatchedWebHook, Cluster, ErrorReporting, FiniteSetTheorems, TLAPS

----------------------------------------------------------------------------
(***************************************************************************)
(* The batched web hook.                                                   *)
(*                                                                         *)
(* For any paths, threads, sizes, limits and attempts: a batch that is not *)
(* empty has a sender, and what is on its way for a path that was never    *)
(* dropped or crossed is what the store holds.                             *)
(***************************************************************************)

Ups == [id : Nat, size : Nat]
Batches == [HPaths -> Ups]
Sends == [batch : Batches, tries : Nat, sync : BOOLEAN]

(* What the proof needs of the types *)
HShape ==
    /\ hstore \in Batches /\ hbatch \in Batches /\ hremote \in Batches
    /\ hwriter \in [HWriters -> [path : HPaths, update : Ups]]
    /\ hsends \subseteq Sends /\ hlate \subseteq Sends
    /\ hcount \in Nat /\ hstale \in Nat
    /\ htimer \in {"none", "armed", "fired"}

Holds(w, p) == hwriter[w] # HIdle /\ hwriter[w].path = p

(* A writer that is not idle holds an update; while flush() holds the lock *)
(* nothing else does, and the batch is empty.                              *)
LockInv ==
    /\ \A w \in HWriters : hwriter[w] # HIdle => hwriter[w].update # NoUpdate
    /\ \A s, t \in hsends : s.sync /\ t.sync => s = t
    /\ HLocked => hbatch = HEmpty

(* One writer holds the path, *)
OneWriter(p) == \A v, w \in HWriters : Holds(v, p) /\ Holds(w, p) => v = w

(* one batch under way carries it, and a late request with it repeats that *)
(* batch, or what was delivered.                                           *)
OneSend(p) ==
    /\ \A s, t \in hsends : s.batch[p] # NoUpdate /\ t.batch[p] # NoUpdate => s = t
    /\ \A l \in hlate : l.batch[p] # NoUpdate =>
          \/ \E s \in hsends : s.batch[p] = l.batch[p]
          \/ (\A s \in hsends : s.batch[p] = NoUpdate) /\ hremote[p] = l.batch[p]

(* HNewest(p) = {hstore[p]}, stage by stage *)
Follows(p) ==
    /\ \A w \in HWriters : Holds(w, p) => hwriter[w].update = hstore[p]
    /\ (\A w \in HWriters : ~Holds(w, p)) =>
          IF hbatch[p] # NoUpdate THEN hbatch[p] = hstore[p]
          ELSE /\ \A s \in hsends : s.batch[p] # NoUpdate => s.batch[p] = hstore[p]
               /\ (\A s \in hsends : s.batch[p] = NoUpdate) => hremote[p] = hstore[p]

Clean(p) == OneWriter(p) /\ OneSend(p) /\ Follows(p)

(* The inductive invariant *)
HInv ==
    /\ HShape /\ LockInv /\ BatchHasSender
    /\ \A p \in HPaths \ hcrossed : Clean(p)

-----------------------------------------------------------------------------
(* The types of the constants of the model *)
LEMMA NoUpdateType == NoUpdate \in Ups /\ HEmpty \in Batches /\ \A p \in HPaths : HEmpty[p] = NoUpdate
  BY Zenon DEF NoUpdate, Ups, HEmpty, Batches

(* HIdle is a writer's state, without an update. *)
LEMMA IdleType == HIdle \in [path : HPaths, update : Ups] /\ HIdle.update = NoUpdate
  BY Zenon, HookAssumption, NoUpdateType DEF HIdle

(* The stages amount to the definition the run checks. *)
LEMMA FollowsNewest ==
    ASSUME HShape, NEW p \in HPaths, Follows(p)
    PROVE  HNewest(p) = {hstore[p]}
  <1> DEFINE held == {w \in HWriters : hwriter[w] # HIdle /\ hwriter[w].path = p}
             sent == {s \in hsends : s.batch[p] # NoUpdate}
  <1>1. CASE held # {}
    BY Zenon, <1>1 DEF HNewest, Follows, Holds
  <1>2. CASE held = {} /\ hbatch[p] # NoUpdate
    BY Zenon, <1>2 DEF HNewest, Follows, Holds
  <1>3. CASE held = {} /\ hbatch[p] = NoUpdate /\ sent # {}
    BY Zenon, <1>3 DEF HNewest, Follows, Holds
  <1>4. CASE held = {} /\ hbatch[p] = NoUpdate /\ sent = {}
    BY Zenon, <1>4 DEF HNewest, Follows, Holds
  <1> QED
    BY Zenon, <1>1, <1>2, <1>3, <1>4

(* The initial states satisfy the invariant. *)
LEMMA HInitInv == HInit => HInv
  <1> SUFFICES ASSUME HInit PROVE HInv
    BY Zenon
  <1>1. HShape
    BY Zenon, NoUpdateType, IdleType DEF HInit, HShape
  <1>2. LockInv /\ BatchHasSender
    BY Zenon DEF HInit, LockInv, BatchHasSender, HLocked
  <1>3. \A p \in HPaths : Clean(p)
    BY Zenon, NoUpdateType DEF HInit, Clean, OneWriter, OneSend, Follows, Holds
  <1> QED
    BY Zenon, <1>1, <1>2, <1>3 DEF HInv

(* write() and delete() *)
LEMMA HookWriteInv ==
    ASSUME HInv, NEW w \in HWriters, NEW q \in HPaths, NEW size \in HSizes[q],
           HookWrite(w, q, size)
    PROVE  HInv'
  <1> DEFINE u == [id |-> hcount + 1, size |-> size]
             new == [path |-> q, update |-> u]
  <1>1. u \in Ups /\ u # NoUpdate
    BY HookAssumption DEF HInv, HShape, Ups, NoUpdate
  <1>2. new \in [path : HPaths, update : Ups] /\ new.update = u /\ new.path = q
    BY Zenon, <1>1
  <1>3. /\ hwriter[w] = HIdle
        /\ hstore' = [hstore EXCEPT ![q] = u] /\ hwriter' = [hwriter EXCEPT ![w] = new]
        /\ hcount' = hcount + 1
        /\ hcrossed' = hcrossed \cup
              (IF \E v \in HWriters : hwriter[v] # HIdle /\ hwriter[v].path = q THEN {q} ELSE {})
        /\ UNCHANGED <<hbatch, htimer, hstale, hsends, hlate, hremote>>
    BY Zenon DEF HookWrite
  <1> HIDE DEF u, new
  <1>4. new # HIdle
    BY Zenon, <1>1, <1>2, IdleType
  <1>5. HShape'
    BY <1>1, <1>2, <1>3 DEF HInv, HShape, Batches
  <1>6. LockInv' /\ BatchHasSender'
    BY Zenon, <1>1, <1>2, <1>3 DEF HInv, HShape, LockInv, BatchHasSender, HLocked
  <1>7. ASSUME NEW p \in HPaths \ hcrossed' PROVE Clean(p)'
    <2>1. Clean(p)
      BY Zenon, <1>3 DEF HInv
    <2>2. OneSend(p)'
      BY Zenon, <1>3, <2>1 DEF Clean, OneSend
    <2>3. CASE p = q
      <3>1. \A v \in HWriters : ~Holds(v, p)
        BY Zenon, <1>3, <2>3 DEF Holds
      <3>2. \A v \in HWriters : Holds(v, p)' => v = w
        BY Zenon, <1>3, <3>1 DEF HInv, HShape, Holds
      <3>3. Holds(w, p)' /\ hwriter'[w].update = hstore'[p]
        BY Zenon, <1>2, <1>3, <1>4, <2>3 DEF HInv, HShape, Batches, Holds
      <3> QED
        BY Zenon, <2>2, <3>2, <3>3 DEF Clean, OneWriter, Follows
    <2>4. CASE p # q
      <3>1. \A v \in HWriters : /\ Holds(v, p)' <=> Holds(v, p)
                                /\ Holds(v, p) => hwriter'[v] = hwriter[v]
        BY Zenon, <1>2, <1>3, <2>4 DEF HInv, HShape, Holds
      <3>2. hstore'[p] = hstore[p]
        BY Zenon, <1>3, <2>4 DEF HInv, HShape, Batches
      <3> QED
        BY Zenon, <1>3, <2>1, <2>2, <3>1, <3>2 DEF Clean, OneWriter, Follows
    <2> QED
      BY Zenon, <2>3, <2>4
  <1> QED
    BY Zenon, <1>5, <1>6, <1>7 DEF HInv

(* A batch is handed over to be sent: a path of it that is not crossed is  *)
(* in no other batch and in no late request.                               *)
LEMMA HandOver ==
    ASSUME HShape, NEW batch \in Batches, NEW n \in Sends, n.batch = batch,
           \/ batch = HEmpty /\ hsends' = hsends
           \/ batch # HEmpty /\ hsends' = hsends \cup {n},
           hcrossed' = hcrossed \cup HOverlap(batch),
           UNCHANGED <<hlate, hremote>>,
           NEW p \in HPaths \ hcrossed', OneSend(p)
    PROVE  /\ OneSend(p)'
           /\ batch[p] # NoUpdate => /\ n \in hsends'
                                     /\ \A s \in hsends' : s.batch[p] # NoUpdate => s = n
           /\ batch[p] = NoUpdate => \A s \in hsends' : s.batch[p] # NoUpdate => s \in hsends
           /\ \A s \in hsends : s \in hsends'
  <1>1. CASE batch[p] = NoUpdate
    BY Zenon, <1>1 DEF OneSend
  <1>2. CASE batch[p] # NoUpdate
    <2>1. batch # HEmpty
      BY Zenon, <1>2, NoUpdateType
    <2>2. /\ \A s \in hsends : s.batch[p] = NoUpdate
          /\ \A l \in hlate : l.batch[p] = NoUpdate
      BY Zenon, <1>2 DEF HOverlap, HPathsOf
    <2> QED
      BY Zenon, <1>2, <2>1, <2>2 DEF OneSend
  <1> QED
    BY Zenon, <1>1, <1>2

(* When the batch is taken, by a timer or by flush(), every clean path of  *)
(* it goes on to follow the store.                                         *)
LEMMA TakeBatch ==
    ASSUME HInv, NEW n \in Sends, n.batch = hbatch,
           \/ hbatch = HEmpty /\ hsends' = hsends
           \/ hbatch # HEmpty /\ hsends' = hsends \cup {n},
           hcrossed' = hcrossed \cup HOverlap(hbatch),
           hbatch' = HEmpty,
           UNCHANGED <<hstore, hwriter, hlate, hremote>>
    PROVE  \A p \in HPaths \ hcrossed' : Clean(p)'
  <1> SUFFICES ASSUME NEW p \in HPaths \ hcrossed' PROVE Clean(p)'
    BY Zenon
  <1>1. HShape /\ hbatch \in Batches /\ Clean(p)
    BY Zenon DEF HInv, HShape
  <1>2. OneSend(p)
    BY Zenon, <1>1 DEF Clean
  <1>3. /\ OneSend(p)'
        /\ hbatch[p] # NoUpdate => /\ n \in hsends'
                                   /\ \A s \in hsends' : s.batch[p] # NoUpdate => s = n
        /\ hbatch[p] = NoUpdate => \A s \in hsends' : s.batch[p] # NoUpdate => s \in hsends
        /\ \A s \in hsends : s \in hsends'
    BY <1>1, <1>2, HandOver
  <1>4. OneWriter(p)'
    BY Zenon, <1>1 DEF Clean, OneWriter, Holds
  <1>5. hbatch'[p] = NoUpdate
    BY Zenon, NoUpdateType
  <1>6. Follows(p)'
    <2>1. CASE hbatch[p] # NoUpdate
      BY Zenon, <1>1, <1>3, <1>5, <2>1 DEF Clean, Follows, Holds
    <2>2. CASE hbatch[p] = NoUpdate
      BY Zenon, <1>1, <1>3, <1>5, <2>2 DEF Clean, Follows, Holds
    <2> QED
      BY Zenon, <2>1, <2>2
  <1> QED
    BY Zenon, <1>3, <1>4, <1>6 DEF Clean

(* The timer's function *)
LEMMA TimerRunsInv ==
    ASSUME HInv, TimerRuns
    PROVE  HInv'
  <1> DEFINE n == [batch |-> hbatch, tries |-> 0, sync |-> FALSE]
  <1>1. n \in Sends /\ n.batch = hbatch /\ n.sync = FALSE
    BY Zenon DEF HInv, HShape, Sends
  <1>2. /\ ~HLocked
        /\ \/ hbatch = HEmpty /\ hsends' = hsends
           \/ hbatch # HEmpty /\ hsends' = hsends \cup {n}
        /\ hcrossed' = hcrossed \cup HOverlap(hbatch)
        /\ hbatch' = HEmpty /\ htimer' = "none" /\ hstale' \in Nat
        /\ UNCHANGED <<hstore, hwriter, hlate, hremote, hcount>>
    BY DEF TimerRuns, LockFree, Enqueue, HInv, HShape
  <1> HIDE DEF n
  <1>3. HShape'
    BY Zenon, <1>1, <1>2, NoUpdateType DEF HInv, HShape
  <1>4. LockInv' /\ BatchHasSender'
    BY Zenon, <1>1, <1>2 DEF HInv, HShape, LockInv, BatchHasSender, HLocked
  <1>5. \A p \in HPaths \ hcrossed' : Clean(p)'
    BY Zenon, <1>1, <1>2, TakeBatch
  <1> QED
    BY Zenon, <1>3, <1>4, <1>5 DEF HInv

(* flush() *)
LEMMA FlushInv ==
    ASSUME HInv, Flush
    PROVE  HInv'
  <1> DEFINE n == [batch |-> hbatch, tries |-> 0, sync |-> TRUE]
  <1>1. n \in Sends /\ n.batch = hbatch
    BY Zenon DEF HInv, HShape, Sends
  <1>2. /\ ~HLocked
        /\ \/ hbatch = HEmpty /\ hsends' = hsends /\ hcrossed' = hcrossed
           \/ /\ hbatch # HEmpty /\ hsends' = hsends \cup {n}
              /\ hcrossed' = hcrossed \cup HOverlap(hbatch)
        /\ hbatch' = HEmpty /\ htimer' \in {"none", "armed", "fired"} /\ hstale' \in Nat
        /\ UNCHANGED <<hstore, hwriter, hlate, hremote>> /\ hcount' \in Nat
    BY DEF Flush, LockFree, CancelTimer, HInv, HShape
  <1> HIDE DEF n
  <1>3. HShape'
    BY Zenon, <1>1, <1>2, NoUpdateType DEF HInv, HShape
  <1>4. LockInv' /\ BatchHasSender'
    BY Zenon, <1>1, <1>2 DEF HInv, HShape, LockInv, BatchHasSender, HLocked
  <1>5. hbatch = HEmpty => HOverlap(hbatch) = {}
    BY Zenon, NoUpdateType DEF HOverlap, HPathsOf
  <1>6. \A p \in HPaths \ hcrossed' : Clean(p)'
    BY Zenon, <1>1, <1>2, <1>5, TakeBatch
  <1> QED
    BY Zenon, <1>3, <1>4, <1>6 DEF HInv

(* _queue_update *)
LEMMA HookQueueInv ==
    ASSUME HInv, NEW w \in HWriters, HookQueue(w)
    PROVE  HInv'
  <1> DEFINE q == hwriter[w].path
             u == hwriter[w].update
             batch == BatchWith(q, u)
             n == [batch |-> batch, tries |-> 0, sync |-> FALSE]
  <1>1. q \in HPaths /\ u \in Ups /\ u # NoUpdate
    BY Zenon DEF HInv, HShape, LockInv, HookQueue
  <1>2. /\ batch \in Batches /\ batch[q] = u
        /\ \A p \in HPaths : p # q => batch[p] = hbatch[p]
    BY Zenon, <1>1 DEF HInv, HShape, Batches, BatchWith
  <1>3. n \in Sends /\ n.batch = batch /\ n.sync = FALSE
    BY Zenon, <1>2 DEF Sends
  <1>4. batch # HEmpty
    BY Zenon, <1>1, <1>2, NoUpdateType
  <1>5. /\ hwriter[w] # HIdle /\ ~HLocked
        /\ hwriter' = [hwriter EXCEPT ![w] = HIdle] /\ hstale' \in Nat
        /\ UNCHANGED <<hstore, hlate, hremote, hcount>>
        /\ \/ /\ hsends' = hsends \cup {n} /\ hcrossed' = hcrossed \cup HOverlap(batch)
              /\ hbatch' = HEmpty /\ htimer' = "none"
           \/ /\ hbatch' = batch /\ htimer' = "armed" /\ UNCHANGED <<hsends, hcrossed>>
    BY <1>4 DEF HookQueue, LockFree, CancelTimer, Enqueue, HInv, HShape
  <1> HIDE DEF n, batch, q, u
  <1>6. HShape'
    BY Zenon, <1>2, <1>3, <1>5, NoUpdateType, IdleType DEF HInv, HShape
  <1>7. LockInv' /\ BatchHasSender'
    BY Zenon, <1>3, <1>5 DEF HInv, HShape, LockInv, BatchHasSender, HLocked
  <1>8. ASSUME NEW p \in HPaths \ hcrossed' PROVE Clean(p)'
    <2>1. HShape /\ OneWriter(p) /\ OneSend(p) /\ Follows(p)
      BY Zenon, <1>5 DEF HInv, Clean
    <2>2. \A v \in HWriters : /\ Holds(v, p)' <=> Holds(v, p) /\ v # w
                              /\ v # w => hwriter'[v] = hwriter[v]
      BY Zenon, <1>5 DEF HInv, HShape, Holds
    <2>3. OneWriter(p)'
      BY Zenon, <2>1, <2>2 DEF OneWriter
    <2>4. p = q => Holds(w, p) /\ u = hstore[p] /\ \A v \in HWriters : ~Holds(v, p)'
      BY Zenon, <1>5, <2>1, <2>2 DEF Holds, Follows, OneWriter, q, u
    <2>5. p # q => \A v \in HWriters : Holds(v, p)' <=> Holds(v, p)
      BY Zenon, <2>2 DEF Holds, q
    <2>6. CASE /\ hsends' = hsends \cup {n} /\ hcrossed' = hcrossed \cup HOverlap(batch)
               /\ hbatch' = HEmpty
      <3>1. /\ OneSend(p)'
            /\ batch[p] # NoUpdate => /\ n \in hsends'
                                      /\ \A s \in hsends' : s.batch[p] # NoUpdate => s = n
            /\ batch[p] = NoUpdate => \A s \in hsends' : s.batch[p] # NoUpdate => s \in hsends
            /\ \A s \in hsends : s \in hsends'
        BY <1>2, <1>3, <1>4, <1>5, <2>1, <2>6, HandOver
      <3>2. hbatch'[p] = NoUpdate
        BY Zenon, <2>6, NoUpdateType
      <3>3. Follows(p)'
        <4>1. CASE p = q
          BY Zenon, <1>1, <1>2, <1>3, <1>5, <2>4, <3>1, <3>2, <4>1 DEF Follows
        <4>2. CASE p # q /\ batch[p] # NoUpdate
          BY <1>2, <1>3, <1>5, <2>1, <2>2, <2>5, <3>1, <3>2, <4>2 DEF Follows
        <4>3. CASE p # q /\ batch[p] = NoUpdate
          BY Zenon, <1>2, <1>5, <2>1, <2>2, <2>5, <3>1, <3>2, <4>3 DEF Follows
        <4> QED
          BY Zenon, <4>1, <4>2, <4>3
      <3> QED
        BY Zenon, <2>3, <3>1, <3>3 DEF Clean
    <2>7. CASE hbatch' = batch /\ UNCHANGED <<hsends, hcrossed>>
      <3>1. OneSend(p)'
        BY Zenon, <1>5, <2>1, <2>7 DEF OneSend
      <3>2. Follows(p)'
        <4>1. CASE p = q
          BY Zenon, <1>1, <1>2, <1>5, <2>4, <2>7, <4>1 DEF Follows
        <4>2. CASE p # q
          BY Zenon, <1>2, <1>5, <2>1, <2>2, <2>5, <2>7, <4>2 DEF Follows
        <4> QED
          BY Zenon, <4>1, <4>2
      <3> QED
        BY Zenon, <2>3, <3>1, <3>2 DEF Clean
    <2> QED
      BY Zenon, <1>5, <2>6, <2>7
  <1> QED
    BY Zenon, <1>6, <1>7, <1>8 DEF HInv

(* What a delivered batch does to one path of the receiver *)
LEMMA Delivered ==
    ASSUME HShape, NEW batch \in Batches, Deliver(batch)
    PROVE  /\ hremote' \in Batches
           /\ \A p \in HPaths :
                 hremote'[p] = IF batch[p] = NoUpdate THEN hremote[p] ELSE batch[p]
  BY Zenon DEF Deliver, HShape, Batches

(* A batch arrives. *)
LEMMA SendOkInv ==
    ASSUME HInv, NEW s \in hsends, SendOk(s)
    PROVE  HInv'
  <1>1. s \in Sends /\ s.batch \in Batches
    BY Zenon DEF HInv, HShape, Sends
  <1>2. /\ Deliver(s.batch) /\ hsends' = hsends \ {s}
        /\ htimer' \in {"none", "armed", "fired"} /\ hstale' \in Nat
        /\ ~s.sync => UNCHANGED <<htimer, hstale>>
        /\ UNCHANGED <<hstore, hwriter, hbatch, hlate, hcount, hcrossed>>
    BY DEF SendOk, FlushEnds, CancelTimer, HInv, HShape
  <1>3. HShape'
    BY Zenon, <1>1, <1>2, Delivered DEF HInv, HShape
  <1>4. LockInv' /\ BatchHasSender'
    BY Zenon, <1>2 DEF HInv, LockInv, BatchHasSender, HLocked
  <1>5. ASSUME NEW p \in HPaths \ hcrossed' PROVE Clean(p)'
    <2>1. HShape /\ OneWriter(p) /\ OneSend(p) /\ Follows(p)
      BY Zenon, <1>2 DEF HInv, Clean
    <2>2. hremote'[p] = IF s.batch[p] = NoUpdate THEN hremote[p] ELSE s.batch[p]
      BY Zenon, <1>1, <1>2, <2>1, Delivered
    <2>3. OneWriter(p)'
      BY Zenon, <1>2, <2>1 DEF OneWriter, Holds
    <2>4. CASE s.batch[p] = NoUpdate
      <3>1. \A t \in hsends : t.batch[p] # NoUpdate => t \in hsends'
        BY Zenon, <1>2, <2>4
      <3>2. OneSend(p)'
        BY <1>2, <2>1, <2>2, <2>4, <3>1 DEF OneSend
      <3>3. Follows(p)'
        BY Zenon, <1>2, <2>1, <2>2, <2>4, <3>1 DEF Follows, Holds
      <3> QED
        BY Zenon, <2>3, <3>2, <3>3 DEF Clean
    <2>5. CASE s.batch[p] # NoUpdate
      <3>1. \A t \in hsends' : t.batch[p] = NoUpdate
        BY Zenon, <1>2, <2>1, <2>5 DEF OneSend
      <3>2. \A l \in hlate : l.batch[p] # NoUpdate => l.batch[p] = s.batch[p]
        BY Zenon, <2>1, <2>5 DEF OneSend
      <3>3. OneSend(p)'
        BY Zenon, <1>2, <2>2, <2>5, <3>1, <3>2 DEF OneSend
      <3>4. Follows(p)'
        BY Zenon, <1>2, <2>1, <2>2, <2>5, <3>1 DEF Follows, Holds
      <3> QED
        BY Zenon, <2>3, <3>3, <3>4 DEF Clean
    <2> QED
      BY Zenon, <2>4, <2>5
  <1> QED
    BY Zenon, <1>3, <1>4, <1>5 DEF HInv

(* An attempt fails, and is repeated or was the last. *)
LEMMA SendFailsInv ==
    ASSUME HInv, NEW s \in hsends, SendFails(s)
    PROVE  HInv'
  <1> DEFINE again == [s EXCEPT !.tries = @ + 1]
  <1>1. s \in Sends /\ s.batch \in Batches
    BY Zenon DEF HInv, HShape, Sends
  <1>2. again \in Sends /\ again.batch = s.batch /\ again.sync = s.sync
    BY <1>1 DEF Sends
  <1>3. /\ \/ UNCHANGED <<hremote, hlate>>
           \/ Deliver(s.batch) /\ UNCHANGED hlate
           \/ hlate' = hlate \cup {s} /\ UNCHANGED hremote
        /\ \/ /\ hsends' = (hsends \ {s}) \cup {again}
              /\ UNCHANGED <<htimer, hstale, hcrossed>>
           \/ /\ hsends' = hsends \ {s}
              /\ hcrossed' = hcrossed \cup HPathsOf(s.batch)
              /\ ~s.sync => UNCHANGED <<htimer, hstale>>
        /\ htimer' \in {"none", "armed", "fired"} /\ hstale' \in Nat
        /\ UNCHANGED <<hstore, hwriter, hbatch, hcount>>
    BY DEF SendFails, GivesUp, FlushEnds, CancelTimer, HInv, HShape
  <1> HIDE DEF again
  <1>4. HShape'
    BY Zenon, <1>1, <1>2, <1>3, Delivered DEF HInv, HShape
  <1>5. LockInv' /\ BatchHasSender'
    <2>1. CASE hsends' = (hsends \ {s}) \cup {again} /\ UNCHANGED <<htimer, hstale>>
      BY Zenon, <1>2, <1>3, <2>1 DEF HInv, LockInv, BatchHasSender, HLocked
    <2>2. CASE hsends' = hsends \ {s} /\ (~s.sync => UNCHANGED <<htimer, hstale>>)
      BY Zenon, <1>3, <2>2 DEF HInv, LockInv, BatchHasSender, HLocked
    <2> QED
      BY Zenon, <1>3, <2>1, <2>2
  <1>6. ASSUME NEW p \in HPaths \ hcrossed' PROVE Clean(p)'
    <2>1. HShape /\ OneWriter(p) /\ OneSend(p) /\ Follows(p)
      BY Zenon, <1>3 DEF HInv, Clean
    <2>2. OneWriter(p)'
      BY Zenon, <1>3, <2>1 DEF OneWriter, Holds
    <2>3. \/ UNCHANGED hremote
          \/ hremote'[p] = IF s.batch[p] = NoUpdate THEN hremote[p] ELSE s.batch[p]
      BY Zenon, <1>1, <1>3, <2>1, Delivered
    <2>4. \A l \in hlate' : l \in hlate \/ l = s
      BY Zenon, <1>3
    <2>5. CASE s.batch[p] = NoUpdate
      <3>1. hremote'[p] = hremote[p]
        BY Zenon, <2>3, <2>5
      <3>2. /\ \A t \in hsends : t.batch[p] # NoUpdate => t \in hsends'
            /\ \A t \in hsends' : t.batch[p] # NoUpdate => t \in hsends
        BY Zenon, <1>2, <1>3, <2>5
      <3>3. OneSend(p)'
        BY Zenon, <2>1, <2>4, <2>5, <3>1, <3>2 DEF OneSend
      <3>4. Follows(p)'
        BY Zenon, <1>3, <2>1, <3>1, <3>2 DEF Follows, Holds
      <3> QED
        BY Zenon, <2>2, <3>3, <3>4 DEF Clean
    <2>6. CASE s.batch[p] # NoUpdate
      <3>1. hsends' = (hsends \ {s}) \cup {again}
        BY Zenon, <1>3, <2>6 DEF HPathsOf
      <3>2. /\ again \in hsends'
            /\ \A t \in hsends' : t.batch[p] # NoUpdate => t = again
        BY Zenon, <2>1, <2>6, <3>1 DEF OneSend
      <3>3. \A l \in hlate' : l.batch[p] # NoUpdate => l.batch[p] = again.batch[p]
        BY <1>2, <2>1, <2>4, <2>6 DEF OneSend
      <3>4. OneSend(p)'
        BY Zenon, <3>2, <3>3 DEF OneSend
      <3>5. Follows(p)'
        BY <1>2, <1>3, <2>1, <2>6, <3>2 DEF Follows, Holds
      <3> QED
        BY Zenon, <2>2, <3>4, <3>5 DEF Clean
    <2> QED
      BY Zenon, <2>5, <2>6
  <1> QED
    BY Zenon, <1>4, <1>5, <1>6 DEF HInv

(* A request that was given up arrives, or is lost. *)
LEMMA LateRequestInv ==
    ASSUME HInv, NEW l \in hlate, LateRequest(l)
    PROVE  HInv'
  <1>1. l.batch \in Batches
    BY Zenon DEF HInv, HShape, Sends
  <1>2. /\ Deliver(l.batch) \/ UNCHANGED hremote
        /\ hlate' = hlate \ {l}
        /\ UNCHANGED <<hstore, hwriter, hbatch, htimer, hstale, hsends, hcount, hcrossed>>
    BY Zenon DEF LateRequest
  <1>3. HShape'
    BY Zenon, <1>1, <1>2, Delivered DEF HInv, HShape
  <1>4. LockInv' /\ BatchHasSender'
    BY Zenon, <1>2 DEF HInv, LockInv, BatchHasSender, HLocked
  <1>5. ASSUME NEW p \in HPaths \ hcrossed' PROVE Clean(p)'
    <2>1. HShape /\ OneWriter(p) /\ OneSend(p) /\ Follows(p)
      BY Zenon, <1>2 DEF HInv, Clean
    <2>2. \/ hremote'[p] = hremote[p]
          \/ l.batch[p] # NoUpdate /\ hremote'[p] = l.batch[p]
      BY Zenon, <1>1, <1>2, <2>1, Delivered
    <2>3. (\A s \in hsends : s.batch[p] = NoUpdate) => hremote'[p] = hremote[p]
      BY Zenon, <2>1, <2>2 DEF OneSend
    <2>4. OneSend(p)'
      BY Zenon, <1>2, <2>1, <2>3 DEF OneSend
    <2> QED
      BY Zenon, <1>2, <2>1, <2>3, <2>4 DEF Clean, OneWriter, Follows, Holds
  <1> QED
    BY Zenon, <1>3, <1>4, <1>5 DEF HInv

(* Every step preserves the invariant. *)
LEMMA HNextInv == HInv /\ [HNext]_hvars => HInv'
  <1> SUFFICES ASSUME HInv, [HNext]_hvars PROVE HInv'
    BY Zenon
  <1>1. CASE TimerFires
    BY <1>1 DEF TimerFires, HInv, HShape, LockInv, BatchHasSender, HLocked, Clean, OneWriter,
       OneSend, Follows, Holds
  <1>2. CASE UNCHANGED hvars
    BY <1>2 DEF hvars, HInv, HShape, LockInv, BatchHasSender, HLocked, Clean, OneWriter,
       OneSend, Follows, Holds
  <1> QED
    BY Zenon, <1>1, <1>2, HookWriteInv, HookQueueInv, TimerRunsInv, FlushInv, SendOkInv, SendFailsInv,
       LateRequestInv DEF HNext, HSystem

(* The invariant holds in every reachable state. *)
THEOREM HookInvariant == HSpec => []HInv
  BY HInitInv, HNextInv, PTL DEF HSpec

(* No update is left in a batch that nothing will send, whichever timers   *)
(* were cancelled too late.                                                *)
THEOREM BatchesHaveSenders == HSpec => []BatchHasSender
  <1>1. HInv => BatchHasSender
    BY Zenon DEF HInv
  <1> QED
    BY HookInvariant, <1>1, PTL

(* The copy of the hook follows the store, but for the three ways in which *)
(* a path is dropped or crossed.                                           *)
THEOREM RemoteFollowsTheStore == HSpec => []RemoteFollowsStore
  <1>1. HInv => RemoteFollowsStore
    BY Zenon, FollowsNewest DEF HInv, Clean, RemoteFollowsStore
  <1> QED
    BY HookInvariant, <1>1, PTL

----------------------------------------------------------------------------
(***************************************************************************)
(* The cluster.                                                            *)
(*                                                                         *)
(* The key of a conversation keeps two servers of a cluster from running   *)
(* its loop, for any number of servers, clients, closes, failed starts and *)
(* deaths, as long as it does not expire under the server that holds it.   *)
(***************************************************************************)

(* Where the variables the argument is about may be *)
LShape ==
    /\ lkey \in BOOLEAN /\ llapsed \in BOOLEAN
    /\ lwork \in [LTasks -> {"idle", "sleep", "set", "start"}]
    /\ lloop \in [LNodes -> {"none", "young", "kept"}]
    /\ lclose \in [LCalls -> [pc : {"idle", "disconnect", "delete", "close"},
                              gone : SUBSET LConns]]
    /\ lconn \subseteq LConns
    /\ ltodo \in [LNodes -> SUBSET LConns]

(* A server holds the key from when it sets it to when it deletes it.  One *)
(* server holds it at a time, in one of the three ways, and while one does *)
(* the key is there: a server that finds no key is the first, and a call   *)
(* that deletes the key deletes its own.                                   *)
LHeldInv ==
    ~llapsed =>
        /\ LTable # {} \/ LStarting # {} \/ LDeleting # {} => lkey
        /\ \A m, n \in LTable : m = n
        /\ \A t, u \in LStarting : t = u
        /\ \A j, k \in LDeleting : j = k
        /\ LTable = {} \/ LStarting = {}
        /\ LTable = {} \/ LDeleting = {}
        /\ LStarting = {} \/ LDeleting = {}

LInv == LShape /\ LHeldInv

(* A server has a part in tasks and calls. *)
LEMMA LParts ==
  /\ \A t \in LTasks : t[1] \in LNodes
  /\ \A k \in LCalls : k[1] \in LNodes
  /\ \A c \in LConns : /\ <<c[1], c[2], "join">> \in LTasks
                       /\ <<c[1], c[2], "listen">> \in LTasks
  /\ \A n \in LNodes : /\ <<n, "route">> \in LCalls
                       /\ <<n, "cleanup">> \in LCalls
                       /\ <<n, "listener">> \in LCalls
  BY Zenon DEF LTasks, LCalls, LConns

(* At the start nobody holds the key. *)
LEMMA LInitInv == LInit => LInv
<1> SUFFICES ASSUME LInit PROVE LInv
  BY Zenon
<1> USE DEF LInit, NoCall
<1>1. LShape
  BY Zenon DEF LShape
<1>2. LTable = {} /\ LStarting = {} /\ LDeleting = {}
  BY Zenon DEF LTable, LStarting, LDeleting
<1> QED
  BY Zenon, <1>1, <1>2 DEF LInv, LHeldInv

(* Fewer holders of a key that stays are no harm. *)
LEMMA LFewer ==
  ASSUME LHeldInv, llapsed' = llapsed, lkey => lkey',
         LTable' \subseteq LTable, LStarting' \subseteq LStarting, LDeleting' \subseteq LDeleting
  PROVE  LHeldInv'
  BY Zenon DEF LHeldInv

(* The part of _close_session before the key is deleted: who had the loop  *)
(* in its table now is about to delete the key.                            *)
LEMMA LPopHeld ==
  ASSUME LInv, NEW k \in LCalls, NEW gone \in SUBSET LConns, LPop(k, gone),
         UNCHANGED <<lkey, lwork, ltodo, llapsed>>
  PROVE  LInv'
<1> USE DEF LInv
<1>1. k[1] \in LNodes
  BY Zenon, LParts
<1>2. LShape'
  BY Zenon, <1>1 DEF LShape, LPop, NoCall
<1>3. LStarting' = LStarting
  BY Zenon DEF LStarting
<1>4. LTable' = LTable \ {k[1]}
  BY Zenon, <1>1 DEF LTable, LPop, LShape
<1>5. CASE lloop[k[1]] = "none"
  <2>1. LDeleting' \subseteq LDeleting
    BY Zenon, <1>5 DEF LDeleting, LPop, LShape, NoCall
  <2> QED
    BY Zenon, <1>2, <1>3, <1>4, <2>1, LFewer
<1>6. CASE lloop[k[1]] # "none"
  <2>1. k[1] \in LTable
    BY Zenon, <1>1, <1>6 DEF LTable
  <2>2. LDeleting' \subseteq LDeleting \cup {k}
    BY Zenon, <1>6 DEF LDeleting, LPop, LShape
  <2>3. ~llapsed => LTable' = {} /\ LStarting' = {} /\ LDeleting = {} /\ lkey
    BY Zenon, <1>3, <1>4, <2>1 DEF LHeldInv
  <2> QED
    BY Zenon, <1>2, <2>2, <2>3 DEF LHeldInv
<1> QED
  BY Zenon, <1>5, <1>6

(* The same for the beginning of _close_session, which may have to         *)
(* disconnect clients first.                                               *)
LEMMA LBeginsHeld ==
  ASSUME LInv, NEW k \in LCalls, LBegins(k), UNCHANGED <<lkey, lwork, ltodo, llapsed>>
  PROVE  LInv'
<1>1. CASE ConnsOf(k[1]) = {}
  <2>1. LPop(k, {})
    BY Zenon, <1>1 DEF LBegins
  <2> QED
    BY Zenon, <2>1, LPopHeld
<1>2. CASE ConnsOf(k[1]) # {}
  <2>1. /\ lclose' = [lclose EXCEPT ![k] = [pc |-> "disconnect", gone |-> ConnsOf(k[1])]]
        /\ lconn' = lconn /\ lloop' = lloop
    BY Zenon, <1>2 DEF LBegins
  <2>2. ConnsOf(k[1]) \subseteq LConns
    BY Zenon DEF ConnsOf, LInv, LShape
  <2>3. LShape'
    BY Zenon, <2>1, <2>2 DEF LInv, LShape
  <2>4. LDeleting' \subseteq LDeleting
    BY Zenon, <2>1 DEF LDeleting, LInv, LShape
  <2>5. LTable' = LTable /\ LStarting' = LStarting
    BY Zenon, <2>1 DEF LTable, LStarting
  <2> QED
    BY Zenon, <2>3, <2>4, <2>5, LFewer DEF LInv
<1> QED
  BY Zenon, <1>1, <1>2

(* A task that ends is no longer starting the loop. *)
LEMMA LTaskEnds ==
  ASSUME LShape, NEW t \in LTasks, TaskEnds(t)
  PROVE  /\ lwork' = [lwork EXCEPT ![t] = "idle"]
         /\ ltodo' \in [LNodes -> SUBSET LConns]
         /\ LStarting' = LStarting \ {t}
<1>1. t[1] \in LNodes
  BY Zenon, LParts
<1>2. lwork' = [lwork EXCEPT ![t] = "idle"]
  BY Zenon DEF TaskEnds, TaskRaises
<1>3. ltodo' \in [LNodes -> SUBSET LConns]
  BY Zenon, <1>1 DEF TaskEnds, TaskRaises, LShape
<1>4. LStarting' = LStarting \ {t}
  BY Zenon, <1>2 DEF LStarting, LShape
<1> QED
  BY Zenon, <1>2, <1>3, <1>4

(* Every task step keeps the invariant: the key goes from nobody to the    *)
(* task that sets it, and from the task to the table.                      *)
LEMMA LTaskHeld ==
  ASSUME LInv, NEW t \in LTasks, LTaskStep(t)
  PROVE  LInv'
<1> USE DEF LInv
<1>1. t[1] \in LNodes
  BY Zenon, LParts
<1>2. CASE LWake(t)
  <2>1. LShape'
    BY Zenon, <1>2 DEF LWake, LShape
  <2>2. LStarting' \subseteq LStarting
    BY Zenon, <1>2 DEF LStarting, LWake, LShape
  <2>3. LTable' = LTable /\ LDeleting' = LDeleting
    BY Zenon, <1>2 DEF LTable, LDeleting, LWake
  <2> QED
    BY Zenon, <1>2, <2>1, <2>2, <2>3, LFewer DEF LWake
<1>3. CASE LSet(t) /\ lkey
  <2>1. TaskEnds(t)
    BY Zenon, <1>3 DEF LSet
  <2>2. LShape'
    BY Zenon, <1>3, <2>1, LTaskEnds DEF LSet, LShape
  <2>3. LTable' = LTable /\ LDeleting' = LDeleting /\ LStarting' \subseteq LStarting
    BY Zenon, <1>3, <2>1, LTaskEnds DEF LTable, LDeleting, LSet
  <2> QED
    BY Zenon, <1>3, <2>2, <2>3, LFewer DEF LSet
<1>4. CASE LSet(t) /\ ~lkey
  <2>1. LShape'
    BY Zenon, <1>4 DEF LSet, LShape
  <2>2. LTable' = LTable /\ LDeleting' = LDeleting
    BY Zenon, <1>4 DEF LTable, LDeleting, LSet
  <2>3. LStarting' \subseteq LStarting \cup {t}
    BY Zenon, <1>4 DEF LStarting, LSet, LShape
  <2>4. ~llapsed => LTable = {} /\ LStarting = {} /\ LDeleting = {}
    BY Zenon, <1>4 DEF LHeldInv
  <2>5. lkey' /\ llapsed' = llapsed
    BY Zenon, <1>4 DEF LSet
  <2> QED
    BY Zenon, <2>1, <2>2, <2>3, <2>4, <2>5 DEF LHeldInv
<1>5. CASE LRegister(t)
  <2>1. TaskEnds(t) /\ t \in LStarting
    BY Zenon, <1>5 DEF LRegister, LStarting
  <2>2. LShape'
    BY Zenon, <1>1, <1>5, <2>1, LTaskEnds DEF LRegister, LShape
  <2>3. LDeleting' = LDeleting /\ LStarting' = LStarting \ {t}
    BY Zenon, <1>5, <2>1, LTaskEnds DEF LDeleting, LRegister
  <2>4. LTable' \subseteq LTable \cup {t[1]}
    BY Zenon, <1>1, <1>5 DEF LTable, LRegister, LShape
  <2>5. ~llapsed => LTable = {} /\ LStarting' = {} /\ LDeleting = {} /\ lkey
    BY Zenon, <2>1, <2>3 DEF LHeldInv
  <2>6. lkey' = lkey /\ llapsed' = llapsed
    BY Zenon, <1>5 DEF LRegister
  <2> QED
    BY Zenon, <2>2, <2>3, <2>4, <2>5, <2>6 DEF LHeldInv
<1>6. CASE LStartRaises(t)
  <2>1. TaskEnds(t)
    BY Zenon, <1>6 DEF LStartRaises, TaskEnds
  <2>2. LShape'
    BY Zenon, <1>6, <2>1, LTaskEnds DEF LStartRaises, LShape
  <2>3. LTable' = LTable /\ LDeleting' = LDeleting /\ LStarting' \subseteq LStarting
    BY Zenon, <1>6, <2>1, LTaskEnds DEF LTable, LDeleting, LStartRaises
  <2> QED
    BY Zenon, <1>6, <2>2, <2>3, LFewer DEF LStartRaises
<1> QED
  BY Zenon, <1>2, <1>3, <1>4, <1>5, <1>6 DEF LTaskStep

(* A call that deletes the key deletes the one it held. *)
LEMMA LCloseHeld ==
  ASSUME LInv, NEW k \in LCalls, LCloseStep(k)
  PROVE  LInv'
<1> USE DEF LInv
<1>1. CASE LDisconnects(k)
  <2>1. lclose[k].gone \in SUBSET LConns
    BY Zenon DEF LShape
  <2> QED
    BY Zenon, <1>1, <2>1, LPopHeld DEF LDisconnects
<1>2. CASE LDeletes(k)
  <2>1. LShape'
    BY ZenonT(60), <1>2 DEF LDeletes, LShape
  <2>2. LTable' = LTable /\ LStarting' = LStarting /\ llapsed' = llapsed
    BY Zenon, <1>2 DEF LTable, LStarting, LDeletes
  <2>3. k \in LDeleting /\ LDeleting' \subseteq LDeleting \ {k}
    BY Zenon, <1>2 DEF LDeleting, LDeletes, LShape
  <2>4. ~llapsed => LTable = {} /\ LStarting = {} /\ LDeleting' = {}
    BY Zenon, <2>3 DEF LHeldInv
  <2> QED
    BY Zenon, <2>1, <2>2, <2>4 DEF LHeldInv
<1>3. CASE LClosed(k)
  <2>1. LShape'
    BY Zenon, <1>3 DEF LClosed, LShape, NoCall
  <2>2. LTable' = LTable /\ LStarting' = LStarting
    BY Zenon, <1>3 DEF LTable, LStarting, LClosed
  <2>3. LDeleting' \subseteq LDeleting
    BY Zenon, <1>3 DEF LDeleting, LClosed, LShape, NoCall
  <2> QED
    BY Zenon, <1>3, <2>1, <2>2, <2>3, LFewer DEF LClosed
<1> QED
  BY Zenon, <1>1, <1>2, <1>3 DEF LCloseStep

(* What else a server does leaves the key with its holder, or takes the    *)
(* holder away.                                                            *)
LEMMA LNodeHeld ==
  ASSUME LInv, NEW n \in LNodes,
         \/ LStopped(n) \/ LListenStep(n) \/ LUpdate(n) \/ LExecute(n)
         \/ LCloseAsked(n) \/ LCloseDue(n) \/ LCrash(n)
  PROVE  LInv'
<1> USE DEF LInv
<1>0. ConnsOf(n) \subseteq LConns
  BY Zenon DEF ConnsOf, LShape
<1>1. CASE LStopped(n)
  <2>1. LShape' /\ LStarting' \subseteq LStarting
    BY Zenon, <1>1 DEF LStopped, LShape, LStarting
  <2>2. LTable' = LTable /\ LDeleting' = LDeleting
    BY Zenon, <1>1 DEF LTable, LDeleting, LStopped
  <2> QED
    BY Zenon, <1>1, <2>1, <2>2, LFewer DEF LStopped
<1>2. CASE LReadClose(n)
  <2>1. CASE lloop[n] # "none"
    BY Zenon, <1>2, <2>1, LParts, LBeginsHeld DEF LReadClose
  <2>2. CASE lloop[n] = "none"
    <3>1. UNCHANGED <<lkey, lconn, lwork, ltodo, lloop, lclose, llapsed>>
      BY Zenon, <1>2, <2>2 DEF LReadClose
    <3>2. LShape'
      BY Zenon, <3>1 DEF LShape
    <3>3. LTable' = LTable /\ LStarting' = LStarting /\ LDeleting' = LDeleting
      BY Zenon, <3>1 DEF LTable, LStarting, LDeleting
    <3> QED
      BY Zenon, <3>1, <3>2, <3>3, LFewer
  <2> QED
    BY Zenon, <2>1, <2>2
<1>3. CASE LReadClosing(n)
  <2>1. LShape'
    BY Zenon, <1>0, <1>3 DEF LReadClosing, LShape
  <2>2. LTable' = LTable /\ LStarting' = LStarting /\ LDeleting' = LDeleting
    BY Zenon, <1>3 DEF LTable, LStarting, LDeleting, LReadClosing
  <2> QED
    BY Zenon, <1>3, <2>1, <2>2, LFewer DEF LReadClosing
<1>4. CASE LHandles(n)
  <2>1. PICK c \in ltodo[n] :
          /\ ltodo' = [ltodo EXCEPT ![n] = @ \ {c}]
          /\ lwork' = IF c \in lconn
                      THEN [lwork EXCEPT ![<<c[1], c[2], "listen">>] = "sleep"] ELSE lwork
    BY Zenon, <1>4 DEF LHandles
  <2>2. c \in LConns
    BY Zenon DEF LShape
  <2>3. <<c[1], c[2], "listen">> \in LTasks
    BY Zenon, <2>2, LParts
  <2>4. LShape' /\ LStarting' \subseteq LStarting
    BY Zenon, <1>4, <2>1, <2>3 DEF LHandles, LShape, LStarting
  <2>5. LTable' = LTable /\ LDeleting' = LDeleting
    BY Zenon, <1>4 DEF LTable, LDeleting, LHandles
  <2> QED
    BY Zenon, <1>4, <2>4, <2>5, LFewer DEF LHandles
<1>5. CASE LUpdate(n)
  <2>1. LShape'
    BY Zenon, <1>5 DEF LUpdate, LShape
  <2>2. LTable' = LTable /\ LStarting' = LStarting /\ LDeleting' = LDeleting
    BY Zenon, <1>5 DEF LTable, LStarting, LDeleting, LUpdate
  <2> QED
    BY Zenon, <1>5, <2>1, <2>2, LFewer DEF LUpdate
<1>6. CASE LExecute(n)
  <2>1. LShape' /\ LTable' \subseteq LTable
    BY Zenon, <1>6 DEF LExecute, LShape, LTable
  <2>2. LStarting' = LStarting /\ LDeleting' = LDeleting
    BY Zenon, <1>6 DEF LStarting, LDeleting, LExecute
  <2> QED
    BY Zenon, <1>6, <2>1, <2>2, LFewer DEF LExecute
<1>7. CASE LCloseAsked(n)
  BY Zenon, <1>7, LParts, LBeginsHeld DEF LCloseAsked
<1>8. CASE LCloseDue(n)
  BY Zenon, <1>8, LParts, LBeginsHeld DEF LCloseDue
<1>9. CASE LCrash(n)
  <2>1. LShape'
    BY Zenon, <1>9 DEF LCrash, LShape, NoCall
  <2>2. LTable' \subseteq LTable /\ LStarting' \subseteq LStarting
    BY Zenon, <1>9 DEF LTable, LStarting, LCrash, LShape
  <2>3. LDeleting' \subseteq LDeleting
    BY Zenon, <1>9 DEF LDeleting, LCrash, LShape, NoCall
  <2> QED
    BY Zenon, <1>9, <2>1, <2>2, <2>3, LFewer DEF LCrash
<1> QED
  BY Zenon, <1>1, <1>2, <1>3, <1>4, <1>5, <1>6, <1>7, <1>8, <1>9 DEF LListenStep

(* A client that comes or goes, and a key that expires *)
LEMMA LClientHeld ==
  ASSUME LInv, NEW c \in LConns, LJoin(c) \/ LLeave(c)
  PROVE  LInv'
<1> USE DEF LInv
<1>1. LShape' /\ LStarting' \subseteq LStarting
  BY Zenon, LParts DEF LJoin, LLeave, LShape, LStarting
<1>2. LTable' = LTable /\ LDeleting' = LDeleting
  BY Zenon DEF LTable, LDeleting, LJoin, LLeave
<1> QED
  BY <1>1, <1>2, LFewer DEF LJoin, LLeave

LEMMA LExpiresHeld ==
  ASSUME LInv, LExpires
  PROVE  LInv'
<1> USE DEF LInv
<1>1. LTable' = LTable /\ LStarting' = LStarting /\ LDeleting' = LDeleting
  BY Zenon DEF LTable, LStarting, LDeleting, LExpires
<1>2. LShape'
  BY Zenon DEF LShape, LExpires
<1>3. CASE LTable = {} /\ LStarting = {} /\ LDeleting = {}
  BY Zenon, <1>1, <1>2, <1>3 DEF LHeldInv
<1>4. CASE ~(LTable = {} /\ LStarting = {} /\ LDeleting = {})
  BY Zenon, <1>2, <1>4 DEF LHeldInv, LExpires
<1> QED
  BY Zenon, <1>3, <1>4

(* Every step keeps the invariant. *)
LEMMA LNextInv == LInv /\ [LNext]_lvars => LInv'
<1> SUFFICES ASSUME LInv, [LNext]_lvars PROVE LInv'
  BY Zenon
<1>1. CASE UNCHANGED lvars
  BY <1>1 DEF lvars, LInv, LShape, LHeldInv, LTable, LStarting, LDeleting
<1>2. CASE LNext
  BY Zenon, <1>2, LTaskHeld, LCloseHeld, LNodeHeld, LClientHeld, LExpiresHeld DEF LNext, LSystem
<1> QED
  BY Zenon, <1>1, <1>2

(* In every behaviour of the cluster the key has one holder at most, until *)
(* it expires under one: _close_session deletes no other server's key, and *)
(* maybe_start_agent_loop finds none while another server has the loop.    *)
THEOREM KeyHasOneHolder == LSpec => []LInv
<1> QED
  BY LInitInv, LNextInv, PTL DEF LSpec

(* Until then no two loops of a conversation are started or registered     *)
(* (OneOwner), whatever servers die, close and fail to start.              *)
THEOREM ClusterRunsOneLoop == LSpec => []OneOwner
<1>1. LInv => OneOwner
  BY Zenon DEF LInv, LHeldInv, OneOwner
<1> QED
  BY <1>1, KeyHasOneHolder, PTL

----------------------------------------------------------------------------
(***************************************************************************)
(* The rate limit of the error reports.                                    *)
(*                                                                         *)
(* For any length of the hour and any limit: twice the limit bounds the    *)
(* requests of an hour of the clock.                                       *)
(***************************************************************************)

(* The places of a sequence of hours that have the hour h, and their       *)
(* number.                                                                 *)
SentIn(l, h) == {i \in 1..Len(l) : l[i] = h}
SentCount(l, h) == Cardinality(SentIn(l, h))

(* The hour of a time is the whole number of hours it has in it. *)
LEMMA Quotient ==
  ASSUME NEW t \in Nat
  PROVE  /\ HourOf(t) \in Nat /\ EHour * HourOf(t) <= t /\ t < EHour * (HourOf(t) + 1)
  BY ReportingAssumption DEF HourOf

(* Two times more than an hour apart are in different hours of the clock:  *)
(* a reset is never due twice in one.                                      *)
LEMMA HoursApart ==
  ASSUME NEW s \in Nat, NEW t \in Nat, t - s > EHour
  PROVE  HourOf(s) < HourOf(t)
<1> DEFINE p == HourOf(s)
           q == HourOf(t)
           n == EHour
<1>1. p \in Nat /\ n * p <= s /\ s < n * (p + 1) /\ q \in Nat /\ n * q <= t /\ t < n * (q + 1)
  BY Quotient
<1>2. n \in Nat \ {0}
  BY ReportingAssumption
<1> HIDE DEF p, q, n
<1>3. SUFFICES ASSUME q <= p PROVE FALSE
  BY <1>1 DEF p, q
<1>4. n * (q + 1) <= n * (p + 1)
  BY <1>1, <1>2, <1>3
<1>5. t < n * (p + 1)
  BY <1>1, <1>2, <1>4
<1> QED
  BY <1>1, <1>2, <1>5 DEF n

(* A later time has no earlier hour. *)
LEMMA HoursRise ==
  ASSUME NEW s \in Nat, NEW t \in Nat, s <= t
  PROVE  HourOf(s) <= HourOf(t)
<1> DEFINE p == HourOf(s)
           q == HourOf(t)
           n == EHour
<1>1. p \in Nat /\ n * p <= s /\ q \in Nat /\ t < n * (q + 1)
  BY Quotient
<1>2. n \in Nat \ {0}
  BY ReportingAssumption
<1> HIDE DEF p, q, n
<1>3. SUFFICES ASSUME q + 1 <= p PROVE FALSE
  BY <1>1 DEF p, q
<1>4. n * (q + 1) <= n * p
  BY <1>1, <1>2, <1>3
<1> QED
  BY <1>1, <1>2, <1>4

(* A tick of the clock stays in the hour or goes on to the next. *)
LEMMA HourOn ==
  ASSUME NEW t \in Nat
  PROVE  HourOf(t + 1) = HourOf(t) \/ HourOf(t + 1) = HourOf(t) + 1
<1> DEFINE p == HourOf(t)
           q == HourOf(t + 1)
           n == EHour
<1>1. p \in Nat /\ n * p <= t /\ t < n * (p + 1) /\ q \in Nat /\ n * q <= t + 1 /\ t + 1 < n * (q + 1)
  BY Quotient
<1>2. n \in Nat \ {0}
  BY ReportingAssumption
<1> HIDE DEF p, q, n
<1>3. ~(q < p)
  <2> SUFFICES ASSUME q + 1 <= p PROVE FALSE
    BY <1>1
  <2>1. n * (q + 1) <= n * p
    BY <1>1, <1>2
  <2> QED
    BY <1>1, <1>2, <2>1
<1>4. ~(p + 2 <= q)
  <2> SUFFICES ASSUME p + 2 <= q PROVE FALSE
    BY <1>1
  <2>1. n * (p + 2) <= n * q
    BY <1>1, <1>2
  <2>2. n * (p + 2) = n * (p + 1) + n
    BY <1>1, <1>2
  <2> QED
    BY <1>1, <1>2, <2>1, <2>2
<1> QED
  BY <1>1, <1>3, <1>4 DEF p, q

(* No request is counted for an hour to come, twice the limit bounds the   *)
(* hours gone by, and in the hour of the clock the requests sent are       *)
(* bounded by its counter, plus once the limit if the counters were last   *)
(* cleared in this very hour: what the clearing forgot was sent under the  *)
(* limit, and it happens once in an hour.                                  *)
HourInv ==
    /\ eclock \in Nat /\ ereset \in Nat /\ ereset <= eclock /\ HourOf(eclock) \in EHours
    /\ ecounts \in [EHours -> 0..EMaxPerHour] /\ esent \in Seq(EHours)
    /\ \A h \in EHours : /\ h > HourOf(eclock) => SentIn(esent, h) = {}
                         /\ h < HourOf(eclock) => SentCount(esent, h) <= 2 * EMaxPerHour
    /\ SentCount(esent, HourOf(eclock)) <= ecounts[HourOf(eclock)] +
                                (IF HourOf(ereset) = HourOf(eclock) THEN EMaxPerHour ELSE 0)

(* The hours of the model are numbers, from 0 to the one of the last       *)
(* time.                                                                   *)
LEMMA HourTypes ==
  /\ EHours = 0..HourOf(EMaxClock) /\ HourOf(EMaxClock) \in Nat
  /\ \A h \in EHours : h \in Nat
<1>1. HourOf(EMaxClock) \in Nat
  BY Quotient, ReportingAssumption
<1> QED
  BY <1>1 DEF EHours

(* The requests of an hour are finitely many. *)
LEMMA SendsCount ==
  ASSUME NEW l \in Seq(EHours), NEW h
  PROVE  /\ IsFiniteSet(SentIn(l, h)) /\ SentCount(l, h) \in Nat
         /\ SentIn(l, h) = {} => SentCount(l, h) = 0
<1>1. Len(l) \in Nat
  OBVIOUS
<1>2. IsFiniteSet(1..Len(l))
  BY <1>1, FS_Interval
<1>3. IsFiniteSet(SentIn(l, h))
  BY <1>2, FS_Subset DEF SentIn
<1> QED
  BY <1>3, FS_CardinalityType, FS_EmptySet DEF SentCount

(* One more request in hour c adds one to that hour and none to another. *)
LEMMA SendsMore ==
  ASSUME NEW l \in Seq(EHours), NEW c \in EHours
  PROVE  LET k == Append(l, c)
         IN /\ k \in Seq(EHours) /\ SentCount(k, c) = SentCount(l, c) + 1
            /\ \A h : h # c => SentIn(k, h) = SentIn(l, h) /\ SentCount(k, h) = SentCount(l, h)
<1> DEFINE n == Len(l)
           k == Append(l, c)
           x == n + 1
<1>1. /\ n \in Nat /\ k \in Seq(EHours) /\ Len(k) = x /\ k[x] = c
      /\ \A i \in 1..n : k[i] = l[i]
  OBVIOUS
<1>2. \A i : i \in 1..x <=> i \in 1..n \/ i = x
  BY <1>1
<1>3. \A i \in 1..n : i # x
  BY <1>1
<1> HIDE DEF x, k
<1>4. \A h, i : i \in SentIn(k, h) <=> i \in SentIn(l, h) \/ (i = x /\ h = c)
  BY Zenon, <1>1, <1>2, <1>3 DEF SentIn
<1>5. \A i : i \in SentIn(k, c) <=> i \in SentIn(l, c) \cup {x}
  BY Zenon, <1>4
<1>6. x \notin SentIn(l, c)
  BY Zenon, <1>3 DEF SentIn
<1>7. SentCount(k, c) = SentCount(l, c) + 1
  <2> DEFINE S == SentIn(l, c)
             T == SentIn(k, c)
  <2>1. IsFiniteSet(S)
    BY Zenon, SendsCount
  <2> HIDE DEF S, T
  <2>2. T = S \cup {x}
    BY SMT, <1>5 DEF S, T
  <2>3. x \notin S
    BY Zenon, <1>6 DEF S
  <2>4. Cardinality(S \cup {x}) = Cardinality(S) + 1
    BY Zenon, <2>1, <2>3, FS_AddElement
  <2> QED
    BY Zenon, <2>2, <2>4 DEF SentCount, S, T
<1>8. ASSUME NEW h, h # c PROVE SentIn(k, h) = SentIn(l, h)
  <2> DEFINE S == SentIn(l, h)
             T == SentIn(k, h)
  <2>1. \A i : i \in T <=> i \in S
    BY Zenon, <1>4, <1>8
  <2> HIDE DEF S, T
  <2>2. T = S
    BY Zenon, <2>1
  <2> QED
    BY Zenon, <2>2 DEF S, T
<1>9. ASSUME NEW h, h # c PROVE SentCount(k, h) = SentCount(l, h)
  BY Zenon, <1>8, <1>9 DEF SentCount
<1> QED
  BY Zenon, <1>1, <1>7, <1>8, <1>9 DEF k

(* The invariant holds when the service starts: nothing was sent. *)
LEMMA InitHours == EInit => HourInv
<1> SUFFICES ASSUME EInit PROVE HourInv
  BY Zenon
<1>1. /\ eclock \in Nat /\ eclock < EHour /\ ereset = eclock /\ esent = <<>>
      /\ ecounts = [h \in EHours |-> 0]
  BY ReportingAssumption DEF EInit
<1>2. HourOf(eclock) = 0
  <2> DEFINE q == HourOf(eclock)
  <2>1. q \in Nat /\ EHour * q <= eclock /\ EHour \in Nat
    BY <1>1, Quotient, ReportingAssumption
  <2> HIDE DEF q
  <2>2. q >= 1 => EHour * q >= EHour
    BY <2>1
  <2> QED
    BY <1>1, <2>1, <2>2 DEF q
<1>3. 0 \in EHours /\ EMaxPerHour \in Nat
  BY HourTypes, ReportingAssumption
<1>4. \A h : SentIn(esent, h) = {}
  BY <1>1 DEF SentIn
<1>5. \A h : SentCount(esent, h) = 0
  BY Zenon, <1>4, FS_EmptySet DEF SentCount
<1>6. ecounts \in [EHours -> 0..EMaxPerHour] /\ esent \in Seq(EHours) /\ ecounts[0] = 0
  BY <1>1, <1>3
<1> QED
  BY <1>1, <1>2, <1>3, <1>4, <1>5, <1>6, HourTypes DEF HourInv

(* Time passes: the hour that ends is within twice the limit, and nothing  *)
(* was sent in the one that begins.                                        *)
LEMMA TickHours == ASSUME HourInv, Tick PROVE HourInv'
<1> DEFINE c == HourOf(eclock)
           d == HourOf(eclock')
           r == HourOf(ereset)
<1>1. /\ eclock \in Nat /\ ereset \in Nat /\ ereset <= eclock /\ c \in EHours
      /\ ecounts \in [EHours -> 0..EMaxPerHour] /\ esent \in Seq(EHours)
  BY Zenon DEF HourInv
<1>2. /\ eclock' = eclock + 1 /\ eclock < EMaxClock
      /\ UNCHANGED <<ecounts, ereset, esent>>
  BY Zenon DEF Tick
<1>3. \A h : SentIn(esent', h) = SentIn(esent, h) /\ SentCount(esent', h) = SentCount(esent, h)
  BY Zenon, <1>2
<1>4. d = c \/ d = c + 1
  BY Zenon, <1>1, <1>2, HourOn
<1>5. eclock' \in Nat /\ ereset' \in Nat /\ ereset' <= eclock'
  BY <1>1, <1>2
<1>6. d \in EHours
  <2>1. EMaxClock \in Nat /\ eclock' <= EMaxClock
    BY <1>1, <1>2, ReportingAssumption
  <2>2. d \in Nat /\ d <= HourOf(EMaxClock)
    BY <1>5, <2>1, HoursRise, Quotient
  <2> QED
    BY <2>2, HourTypes
<1>7. /\ \A h \in EHours : /\ h > c => SentIn(esent, h) = {}
                           /\ h < c => SentCount(esent, h) <= 2 * EMaxPerHour
      /\ SentCount(esent, c) <= ecounts[c] + (IF r = c THEN EMaxPerHour ELSE 0)
  BY Zenon DEF HourInv
<1>8. /\ \A h : SentCount(esent, h) \in Nat /\ (SentIn(esent, h) = {} => SentCount(esent, h) = 0)
  BY Zenon, <1>1, SendsCount
<1>9. \A h \in EHours : h \in Nat /\ ecounts[h] \in Nat /\ ecounts[h] <= EMaxPerHour
  BY <1>1, HourTypes, ReportingAssumption
<1> HIDE DEF c, d, r
<1>10. \A h \in EHours : /\ h > d => SentIn(esent, h) = {}
                         /\ h < d => SentCount(esent, h) <= 2 * EMaxPerHour
  <2> SUFFICES ASSUME NEW h \in EHours
               PROVE  /\ h > d => SentIn(esent, h) = {}
                      /\ h < d => SentCount(esent, h) <= 2 * EMaxPerHour
    BY Zenon
  <2>1. h > d => h > c
    BY <1>1, <1>4, <1>9
  <2>2. h < d => h < c \/ h = c
    BY <1>1, <1>4, <1>9
  <2>3. SentCount(esent, c) <= 2 * EMaxPerHour
    BY <1>1, <1>7, <1>8, <1>9, ReportingAssumption
  <2> QED
    BY Zenon, <1>7, <2>1, <2>2, <2>3
<1>11. SentCount(esent, d) <= ecounts[d] + (IF r = d THEN EMaxPerHour ELSE 0)
  <2>1. CASE d = c
    BY Zenon, <1>7, <2>1
  <2>2. CASE d = c + 1
    <3>1. d > c
      BY <1>1, <1>9, <2>2
    <3>2. SentCount(esent, d) = 0
      BY Zenon, <1>6, <1>7, <1>8, <3>1
    <3> QED
      BY <1>6, <1>9, <3>2, ReportingAssumption
  <2> QED
    BY Zenon, <1>4, <2>1, <2>2
<1>12. HourOf(ereset)' = r /\ HourOf(eclock)' = d
  BY Zenon, <1>2 DEF r, d, HourOf
<1> QED
  BY Zenon, <1>1, <1>2, <1>3, <1>5, <1>6, <1>10, <1>11, <1>12 DEF HourInv, d, EHours

(* _check_rate_limit keeps the invariant.  A reset is due only when the    *)
(* last one was in an earlier hour, so the counter it clears had counted   *)
(* every request of this hour.                                             *)
LEMMA LimitedHours ==
  ASSUME HourInv, NEW awaited, Limited(awaited), eclock' = eclock
  PROVE  HourInv'
<1> DEFINE c == HourOf(eclock)
           r == HourOf(ereset)
           k == Counts
           M == EMaxPerHour
<1>1. /\ eclock \in Nat /\ ereset \in Nat /\ ereset <= eclock /\ c \in EHours
      /\ ecounts \in [EHours -> 0..M] /\ esent \in Seq(EHours)
  BY Zenon DEF HourInv
<1>2. /\ \A h \in EHours : /\ h > c => SentIn(esent, h) = {}
                           /\ h < c => SentCount(esent, h) <= 2 * M
      /\ SentCount(esent, c) <= ecounts[c] + (IF r = c THEN M ELSE 0)
  BY Zenon DEF HourInv
<1>3. /\ \A h : SentCount(esent, h) \in Nat
      /\ \A h \in EHours : h \in Nat /\ ecounts[h] \in Nat /\ ecounts[h] <= M
      /\ M \in Nat
  <2>1. \A h : SentCount(esent, h) \in Nat
    BY Zenon, <1>1, SendsCount
  <2> QED
    BY SMT, <1>1, <2>1, HourTypes, ReportingAssumption
<1>4. /\ ereset' = IF ResetDue THEN eclock ELSE ereset
      /\ \/ k[c] >= M /\ ecounts' = k /\ esent' = esent
         \/ ~(k[c] >= M) /\ ecounts' = [k EXCEPT ![c] = @ + 1] /\ esent' = Append(esent, c)
  BY Zenon DEF Limited, RecordReset, LimitReached
\* After the reset, if it was due.
<1>5. /\ ereset' \in Nat /\ ereset' <= eclock
      /\ k \in [EHours -> 0..M] /\ SentCount(esent, c) <= k[c] + (IF HourOf(ereset') = c THEN M ELSE 0)
  <2>1. CASE ResetDue
    <3>1. ereset' = eclock /\ k = [h \in EHours |-> 0]
      BY Zenon, <1>4, <2>1 DEF Counts
    <3>2. r < c
      BY Zenon, <1>1, <2>1, HoursApart DEF ResetDue
    <3>3. r # c
      <4>1. r \in Nat /\ c \in Nat
        BY Zenon, <1>1, Quotient
      <4> QED
        BY <3>2, <4>1
    <3> HIDE DEF k
    <3>4. k \in [EHours -> 0..M] /\ k[c] = 0
      BY <1>1, <1>3, <3>1
    <3>5. HourOf(ereset') = c
      BY Zenon, <3>1
    <3>6. SentCount(esent, c) <= ecounts[c]
      <4> HIDE DEF c, r, M
      <4> QED
        BY SMT, <1>1, <1>2, <1>3, <3>3
    <3>7. SentCount(esent, c) <= 0 + M
      <4> HIDE DEF c, r, M
      <4> QED
        BY SMT, <1>1, <1>3, <3>6
    <3> QED
      BY <1>1, <3>1, <3>4, <3>5, <3>7
  <2>2. CASE ~ResetDue
    <3>1. ereset' = ereset /\ k = ecounts
      BY Zenon, <1>4, <2>2 DEF Counts
    <3> QED
      BY Zenon, <1>1, <1>2, <3>1
  <2> QED
    BY Zenon, <2>1, <2>2
<1> DEFINE q == HourOf(ereset')
<1> HIDE DEF k, c, r, M, q
<1>6. HourOf(eclock)' = c /\ HourOf(ereset)' = q
  BY Zenon DEF c, q, HourOf
<1>7. k[c] \in Nat /\ k[c] <= M
  BY SMT, <1>1, <1>3, <1>5
<1>8. CASE k[c] >= M /\ ecounts' = k /\ esent' = esent
  <2>1. \A h : SentIn(esent', h) = SentIn(esent, h) /\ SentCount(esent', h) = SentCount(esent, h)
    BY Zenon, <1>8
  <2> QED
    BY Zenon, <1>1, <1>2, <1>5, <1>6, <1>8, <2>1 DEF HourInv, q, M, EHours
<1>9. CASE ~(k[c] >= M) /\ ecounts' = [k EXCEPT ![c] = @ + 1] /\ esent' = Append(esent, c)
  <2>1. /\ esent' \in Seq(EHours) /\ SentCount(esent', c) = SentCount(esent, c) + 1
        /\ \A h : h # c => SentIn(esent', h) = SentIn(esent, h) /\ SentCount(esent', h) = SentCount(esent, h)
    BY SMT, <1>1, <1>9, SendsMore
  <2>2. ecounts' \in [EHours -> 0..M] /\ ecounts'[c] = k[c] + 1
    BY SMT, <1>1, <1>3, <1>5, <1>7, <1>9
  <2>3. SentCount(esent', c) <= ecounts'[c] + (IF q = c THEN M ELSE 0)
    <3>1. SentCount(esent, c) \in Nat /\ SentCount(esent, c) <= k[c] + (IF q = c THEN M ELSE 0)
      BY Zenon, <1>3, <1>5 DEF q
    <3> QED
      BY SMT, <1>3, <1>7, <2>1, <2>2, <3>1
  <2>4. \A h \in EHours : /\ h > c => h # c
                          /\ h < c => h # c
    BY SMT, <1>1, <1>3
  <2>5. \A h \in EHours : /\ h > c => SentIn(esent', h) = {}
                          /\ h < c => SentCount(esent', h) <= 2 * M
    BY Zenon, <1>2, <2>1, <2>4
  <2> QED
    BY Zenon, <1>1, <1>5, <1>6, <2>1, <2>2, <2>3, <2>5 DEF HourInv, M, EHours
<1> QED
  BY Zenon, <1>4, <1>8, <1>9

(* Every step keeps the invariant. *)
LEMMA NextHours == HourInv /\ [ENext]_evars => HourInv'
<1> SUFFICES ASSUME HourInv, [ENext]_evars PROVE HourInv'
  BY Zenon
<1>1. CASE Tick
  BY Zenon, <1>1, TickHours
<1>2. ASSUME NEW e, ReportError(e) \/ ReportWithHistory(e) \/ ReportCentrally PROVE HourInv'
  <2>1. eclock' = eclock /\ \E awaited : Limited(awaited)
    BY Zenon, <1>2 DEF ReportError, ReportWithHistory, ReportCentrally, Submit
  <2> QED
    BY Zenon, <2>1, LimitedHours
<1>3. CASE UNCHANGED <<eclock, ereset, ecounts, esent>>
  <2>1. \A h : SentIn(esent', h) = SentIn(esent, h) /\ SentCount(esent', h) = SentCount(esent, h)
    BY Zenon, <1>3
  <2>2. UNCHANGED <<HourOf(eclock), HourOf(ereset)>>
    BY Zenon, <1>3 DEF HourOf
  <2> QED
    BY Zenon, <1>3, <2>1, <2>2 DEF HourInv, EHours
<1>4. \A e, session : ClearSession(e) \/ MarkMerged(e, session) =>
        UNCHANGED <<eclock, ereset, ecounts, esent>>
  BY Zenon DEF ClearSession, MarkMerged
<1>5. \A r, session : SessionCreated(r, session) \/ RequestEnds(r) =>
        UNCHANGED <<eclock, ereset, ecounts, esent>>
  BY Zenon DEF SessionCreated, RequestEnds
<1>6. CASE UNCHANGED evars
  BY Zenon, <1>3, <1>6 DEF evars
<1> QED
  BY Zenon, <1>1, <1>2, <1>3, <1>4, <1>5, <1>6 DEF ENext

(* The invariant of the hours holds in every state. *)
THEOREM HoursInvariant == ESpec => []HourInv
  BY InitHours, NextHours, PTL DEF ESpec

(* The rate limit of devin_integration.py lets at most twice its number    *)
(* of requests through in an hour of the clock, for any length of the      *)
(* hour, any limit and any number of errors.                               *)
THEOREM LimitIsTwice == ESpec => []TwiceTheLimit
<1>1. HourInv => TwiceTheLimit
  <2> SUFFICES ASSUME HourInv, NEW h \in EHours PROVE SentCount(esent, h) <= 2 * EMaxPerHour
    BY Zenon DEF TwiceTheLimit, SentCount, SentIn
  <2> DEFINE c == HourOf(eclock)
  <2>1. /\ c \in EHours /\ ecounts \in [EHours -> 0..EMaxPerHour] /\ esent \in Seq(EHours)
        /\ h > c => SentIn(esent, h) = {}
        /\ h < c => SentCount(esent, h) <= 2 * EMaxPerHour
        /\ SentCount(esent, c) <= ecounts[c] + (IF HourOf(ereset) = c THEN EMaxPerHour ELSE 0)
    BY Zenon DEF HourInv
  <2>2. /\ SentCount(esent, h) \in Nat /\ SentCount(esent, c) \in Nat /\ h \in Nat /\ c \in Nat
        /\ SentIn(esent, h) = {} => SentCount(esent, h) = 0
    BY Zenon, <2>1, SendsCount, HourTypes
  <2> HIDE DEF c
  <2>3. ecounts[c] \in Nat /\ ecounts[c] <= EMaxPerHour /\ EMaxPerHour \in Nat
    BY SMT, <2>1, ReportingAssumption
  <2>4. h < c \/ h = c \/ h > c
    BY SMT, <2>2
  <2>5. SentCount(esent, c) <= 2 * EMaxPerHour /\ 0 <= 2 * EMaxPerHour
    BY SMT, <2>1, <2>2, <2>3
  <2> QED
    BY Zenon, <2>1, <2>2, <2>4, <2>5
<1>2. ESpec => []HourInv
  BY Zenon, HoursInvariant
<1> QED
  BY <1>1, <1>2, PTL

=============================================================================
