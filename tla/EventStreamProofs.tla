------------------------- MODULE EventStreamProofs -------------------------
(***************************************************************************)
(* Theorems about EventStream, for any number of publishers, subscribers,  *)
(* calls, crashes and faults and any page size: its types, that it         *)
(* implements the event log, that the subscribers get what they share in   *)
(* one order, that close() is final, that one publisher's ids agree with   *)
(* the order of delivery, and that search_events finds in the pages what   *)
(* get_event finds in the files.                                           *)
(*                                                                         *)
(* Two invariants carry the argument.  IdInv: an id is taken once, so the  *)
(* file a publisher writes replaces none.  OnePlaceInv: an event is in one *)
(* place on its way to a subscriber, so it is handed over once.  What      *)
(* relates several parties rests on a strengthening of its own.  OrderInv: *)
(* what a subscriber was handed is what it handled followed by its pool's  *)
(* work, and the event being passed on is the last of it.  ClosedInv: a    *)
(* pool that is gone has no work.  RisingInv: ids rise along the whole     *)
(* path of an event.  PageInv: a write page is a run of ids and a page     *)
(* file is a full one of them.                                             *)
(***************************************************************************)
EXTENDS EventStream, TLAPS

----------------------------------------------------------------------------
(* Type correctness.                                                       *)

\* The initial state has the types of TypeOK.
LEMMA InitTypeOK == Init => TypeOK
<1> SUFFICES ASSUME Init PROVE TypeOK
  BY Zenon
<1> USE SubscribersAssumption, BoundsAssumption DEF Init, Event, NoEvent, NoSubscriber,
        InitialPools
<1>1. NoEvent \in Event
  BY Zenon
<1>2. /\ << <<>> >> \in Seq(Seq(Event))
      /\ Len(<< <<>> >>) = 1
      /\ << <<>> >>[1] = <<>>
      /\ Len(<<>>) = 0
  OBVIOUS
<1>3. /\ pages \in Seq(Seq(Event)) /\ Len(pages) >= 1
      /\ \A i \in 1..Len(pages) : Len(pages[i]) <= CACHE_SIZE
      /\ Len(pages[Len(pages)]) < CACHE_SIZE
  BY <1>2
<1>4. wev \in [Writers -> Event] /\ dev \in Event
  BY Zenon, <1>1
<1>5. wpage \in [Writers -> Nat] /\ \A w \in Writers : wpage[w] \in 1..Len(pages)
  BY <1>2
<1>6. /\ <<>> \in Seq(Event)
      /\ work \in [Subscribers -> Seq(Event)]
      /\ delivered \in [Subscribers -> Seq(Event)]
      /\ queue \in Seq(Event)
  OBVIOUS
<1>7. /\ wpc \in [Writers -> {"idle", "write", "page", "put"}]
      /\ pool \in [Subscribers -> {"none", "open", "shut"}]
  BY Zenon
<1>8. QED
  BY ZenonT(30), <1>3, <1>4, <1>5, <1>6, <1>7 DEF TypeOK

\* Appending one page to a list of pages, or replacing the last one, keeps the
\* bound on their lengths.
LEMMA PageTurn ==
  ASSUME NEW ps \in Seq(Seq(Event)), Len(ps) >= 1,
         \A i \in 1..Len(ps) : Len(ps[i]) <= CACHE_SIZE,
         Len(ps[Len(ps)]) < CACHE_SIZE,
         NEW page \in Seq(Event),
         Len(page) = Len(ps[Len(ps)]) + 1,
         NEW qs,
         qs = IF Len(page) = CACHE_SIZE
              THEN Append([ps EXCEPT ![Len(ps)] = page], <<>>)
              ELSE [ps EXCEPT ![Len(ps)] = page]
  PROVE  /\ qs \in Seq(Seq(Event)) /\ Len(qs) >= Len(ps)
         /\ \A i \in 1..Len(qs) : Len(qs[i]) <= CACHE_SIZE
         /\ Len(qs[Len(qs)]) < CACHE_SIZE
<1> DEFINE n == Len(ps)
           old == [ps EXCEPT ![n] = page]
<1> USE BoundsAssumption
<1>1. /\ n \in Nat /\ n >= 1 /\ n \in 1..n
      /\ ps[n] \in Seq(Event) /\ Len(ps[n]) \in Nat
      /\ Len(page) \in Nat /\ Len(page) <= CACHE_SIZE
  OBVIOUS
<1>2. /\ old \in Seq(Seq(Event)) /\ Len(old) = n /\ old[n] = page
      /\ \A i \in 1..n : i # n => old[i] = ps[i]
  BY <1>1
<1>3. \A i \in 1..n : Len(old[i]) <= CACHE_SIZE
  BY ZenonT(30), <1>1, <1>2
<1>4. <<>> \in Seq(Event) /\ Len(<<>>) = 0
  OBVIOUS
<1>5. CASE Len(page) = CACHE_SIZE
  <2>1. qs = Append(old, <<>>)
    BY Zenon, <1>5
  <2> HIDE DEF old, n
  <2>2. /\ qs \in Seq(Seq(Event)) /\ Len(qs) = n + 1 /\ qs[n + 1] = <<>>
        /\ \A i \in 1..n : qs[i] = old[i]
    BY SMTT(60), <2>1, <1>1, <1>2, <1>4
  <2>3. ASSUME NEW i \in 1..Len(qs) PROVE Len(qs[i]) <= CACHE_SIZE
    <3>1. CASE i = n + 1
      BY <3>1, <2>2, <1>4
    <3>2. CASE i \in 1..n
      BY Zenon, <3>2, <2>2, <1>3
    <3> QED
      BY SMTT(60), <3>1, <3>2, <2>2, <1>1
  <2>4. Len(qs[Len(qs)]) < CACHE_SIZE
    BY <2>2, <1>4
  <2> QED
    BY <2>2, <2>3, <2>4, <1>1 DEF n
<1>6. CASE Len(page) # CACHE_SIZE
  <2>1. qs = old
    BY Zenon, <1>6
  <2> QED
    <3> HIDE DEF old, n
    <3>1. Len(old[n]) < CACHE_SIZE
      BY SMTT(60), <1>1, <1>2, <1>6
    <3>2. n = Len(ps)
      BY Zenon DEF n
    <3> QED
      BY <2>1, <3>1, <3>2, <1>1, <1>2, <1>3
<1> QED
  BY Zenon, <1>5, <1>6

\* Taking an id and a page slot keeps the types: the page bound is what the
\* turn to a new page is for.
LEMMA AddEventTypeOK ==
  ASSUME TypeOK, NEW w \in Writers, AddEventLocked(w)
  PROVE  TypeOK'
<1> DEFINE e == [id |-> cur_id, call |-> calls + 1]
           n == Len(pages)
           page == Append(pages[n], e)
<1>1. e \in Event
  BY DEF TypeOK, Event
<1>2. n \in 1..n /\ n \in Nat /\ pages[n] \in Seq(Event)
  BY DEF TypeOK
<1>3. page \in Seq(Event) /\ Len(page) = Len(pages[n]) + 1
  BY <1>1, <1>2
<1>4. pages' = IF Len(page) = CACHE_SIZE
               THEN Append([pages EXCEPT ![n] = page], <<>>)
               ELSE [pages EXCEPT ![n] = page]
  BY Zenon DEF AddEventLocked
<1>5. /\ pages' \in Seq(Seq(Event)) /\ Len(pages') >= n
      /\ \A i \in 1..Len(pages') : Len(pages'[i]) <= CACHE_SIZE
      /\ Len(pages'[Len(pages')]) < CACHE_SIZE
  <2> HIDE DEF page
  <2> QED
    BY ZenonT(30), <1>3, <1>4, PageTurn DEF TypeOK
<1>6. wev' = [wev EXCEPT ![w] = e] /\ wpage' = [wpage EXCEPT ![w] = n]
  BY Zenon DEF AddEventLocked
<1>7. wev' \in [Writers -> Event]
  BY Zenon, <1>1, <1>6 DEF TypeOK
<1>8. wpage' \in [Writers -> Nat] /\ \A v \in Writers : wpage'[v] \in 1..Len(pages')
  <2> HIDE DEF n
  <2>1. wpage \in [Writers -> Nat] /\ \A v \in Writers : wpage[v] \in 1..n
    BY Zenon DEF TypeOK, n
  <2>2. Len(pages') \in Nat
    BY <1>5
  <2> QED
    BY <2>1, <2>2, <1>2, <1>5, <1>6
<1>9. wpc' \in [Writers -> {"idle", "write", "page", "put"}]
  BY Zenon DEF TypeOK, AddEventLocked
<1>10. cur_id' \in Nat /\ calls' \in Nat /\ Len(pages') >= 1
  BY SMTT(30), <1>2, <1>5 DEF TypeOK, AddEventLocked
<1> HIDE DEF n, e, page
<1> QED
  BY SMTT(60), <1>5, <1>7, <1>8, <1>9, <1>10
     DEF TypeOK, AddEventLocked, store, dispatcher, subs, owner

\* Every step keeps the types.
LEMMA NextTypeOK == TypeOK /\ [Next]_vars => TypeOK'
<1> SUFFICES ASSUME TypeOK, [Next]_vars PROVE TypeOK'
  BY Zenon
<1> USE SubscribersAssumption, BoundsAssumption
        DEF TypeOK, store, writer, dispatcher, subs, owner
<1>1. ASSUME NEW w \in Writers, Publish(w) PROVE TypeOK'
  <2>1. CASE AddEventLocked(w)
    BY ZenonT(30), <2>1, AddEventTypeOK
  <2>2. CASE AddEventRaises(w)
    <3>1. cur_id' \in Nat /\ calls' \in Nat
      BY <2>2 DEF AddEventRaises
    <3>2. UNCHANGED <<event_files, cache_files, pages, wpc, wev, wpage, queue, dpc,
                      dev, todo, stop_flag, registered, known, pool, work, opc, osub,
                      closing, delivered, crashes>>
      BY Zenon, <2>2 DEF AddEventRaises
    <3> QED
      BY ZenonT(60), <3>1, <3>2
  <2>3. CASE WriteFile(w)
    <3>1. event_files' \subseteq Event
      BY Zenon, <2>3 DEF WriteFile, WriteEventFile
    <3>2. wpc' \in [Writers -> {"idle", "write", "page", "put"}]
      BY Zenon, <2>3 DEF WriteFile
    <3> QED
      BY ZenonT(60), <2>3, <3>1, <3>2 DEF WriteFile
  <2>4. CASE StorePage(w)
    <3> DEFINE page == pages[wpage[w]]
               p == [start |-> page[1].id, events |-> page]
    <3>1. page \in Seq(Event)
      OBVIOUS
    <3>2. Len(page) >= CACHE_SIZE => page[1] \in Event
      BY <3>1
    <3>3. Len(page) >= CACHE_SIZE => p \in Page
      BY ZenonT(30), <3>1, <3>2 DEF Page, Event
    <3>4. Len(page) \in Nat
      BY SMTT(30), <3>1
    <3>5. cache_files' = IF Len(page) < CACHE_SIZE THEN cache_files
                         ELSE WriteCacheFile(cache_files, p)
      BY Zenon, <2>4 DEF StorePage
    <3> HIDE DEF page, p
    <3>6. cache_files' \subseteq Page
      BY <3>3, <3>4, <3>5 DEF WriteCacheFile
    <3> QED
      BY ZenonT(60), <3>6, <2>4 DEF StorePage
  <2>5. CASE WriteRaises(w)
    BY ZenonT(60), <2>5 DEF WriteRaises
  <2>6. CASE QueuePut(w)
    <3>1. queue' \in Seq(Event)
      BY SMTT(30), <2>6 DEF QueuePut
    <3> QED
      BY ZenonT(60), <2>6, <3>1 DEF QueuePut
  <2> QED
    BY ZenonT(30), <1>1, <2>1, <2>2, <2>3, <2>4, <2>5, <2>6 DEF Publish
<1>2. ASSUME Dispatch PROVE TypeOK'
  <2>1. CASE LoopCheck
    BY SMTT(60), <2>1 DEF LoopCheck
  <2>2. CASE QueueGet
    <3>1. CASE queue = <<>>
      BY ZenonT(30), <2>2, <3>1 DEF QueueGet
    <3>2. CASE queue # <<>>
      <4>1. Head(queue) \in Event /\ Tail(queue) \in Seq(Event)
        BY <3>2
      <4>2. /\ dev' = Head(queue) /\ queue' = Tail(queue) /\ todo' = known
            /\ dpc' = "next"
        BY Zenon, <2>2, <3>2 DEF QueueGet
      <4> QED
        BY ZenonT(30), <2>2, <4>1, <4>2 DEF QueueGet
    <3> QED
      BY ZenonT(30), <3>1, <3>2
  <2>3. CASE VisitSubscriber
    BY ZenonT(60), <2>3 DEF VisitSubscriber
  <2>4. CASE LookupPool
    BY ZenonT(30), <2>4 DEF LookupPool
  <2>5. CASE SubmitCallback
    <3>1. PICK s \in Subscribers :
            IF pool[s] = "open"
            THEN /\ work' = [work EXCEPT ![s] = Append(@, dev)]
                 /\ todo' = todo \ {s}
                 /\ dpc' = "next"
            ELSE dpc' = "dead" /\ UNCHANGED <<work, todo>>
      BY ZenonT(30), <2>5 DEF SubmitCallback
    <3>2. Append(work[s], dev) \in Seq(Event)
      OBVIOUS
    <3>3. work' \in [Subscribers -> Seq(Event)]
      BY ZenonT(30), <3>1, <3>2
    <3>4. todo' \subseteq Subscribers /\ dpc' \in {"next", "dead"}
      BY ZenonT(30), <3>1
    <3> QED
      BY ZenonT(30), <2>5, <3>3, <3>4 DEF SubmitCallback
  <2> QED
    BY ZenonT(30), <1>2, <2>1, <2>2, <2>3, <2>4, <2>5 DEF Dispatch
<1>3. ASSUME NEW s \in Subscribers, RunCallback(s) PROVE TypeOK'
  <2>1. /\ Head(work[s]) \in Event /\ Tail(work[s]) \in Seq(Event)
        /\ delivered[s] \in Seq(Event)
    BY <1>3 DEF RunCallback
  <2>2. /\ work' \in [Subscribers -> Seq(Event)]
        /\ delivered' \in [Subscribers -> Seq(Event)]
    BY SMTT(60), <1>3, <2>1 DEF RunCallback
  <2> QED
    BY ZenonT(60), <1>3, <2>2 DEF RunCallback
<1>4. ASSUME NEW s \in Subscribers, SubscribeCallback(s) PROVE TypeOK'
  BY ZenonT(30), <1>4 DEF SubscribeCallback
<1>5. ASSUME SubscribePool PROVE TypeOK'
  BY ZenonT(30), <1>5 DEF SubscribePool
<1>6. ASSUME CleanUp PROVE TypeOK'
  <2>1. ASSUME NEW s \in Subscribers, ShutdownPool(s) PROVE TypeOK'
    BY ZenonT(30), <2>1 DEF ShutdownPool
  <2>2. CASE ShutdownReturns
    BY ZenonT(30), <2>2 DEF ShutdownReturns
  <2>3. CASE UnregisterCallback
    BY SMTT(60), <2>3 DEF UnregisterCallback
  <2> QED
    BY ZenonT(30), <1>6, <2>1, <2>2, <2>3 DEF CleanUp
<1>7. ASSUME Close PROVE TypeOK'
  <2>1. CASE CloseStop
    BY SMTT(60), <2>1 DEF CloseStop
  <2>2. CASE CloseJoin
    BY SMTT(60), <2>2 DEF CloseJoin
  <2>3. CASE CloseDrain
    <3>1. queue' \in Seq(Event) /\ opc' = "closed"
      BY <2>3 DEF CloseDrain
    <3>2. UNCHANGED <<event_files, cache_files, cur_id, pages, wpc, wev, wpage, dpc, dev,
                      todo, stop_flag, registered, known, pool, work, osub, closing,
                      delivered, calls, crashes>>
      BY Zenon, <2>3 DEF CloseDrain
    <3> QED
      BY SMTT(60), <3>1, <3>2
  <2> QED
    BY ZenonT(30), <1>7, <2>1, <2>2, <2>3 DEF Close
<1>8. ASSUME CrashRestart PROVE TypeOK'
  <2>1. NoEvent \in Event
    BY Zenon DEF NoEvent, Event
  <2>2. /\ pages' \in Seq(Seq(Event)) /\ Len(pages') = 1
        /\ Len(pages'[1]) = 0
    BY <1>8 DEF CrashRestart
  <2>3. /\ wpc' \in [Writers -> {"idle", "write", "page", "put"}]
        /\ wev' \in [Writers -> Event] /\ dev' \in Event
        /\ wpage' \in [Writers -> Nat] /\ \A w \in Writers : wpage'[w] = 1
        /\ queue' \in Seq(Event)
        /\ work' \in [Subscribers -> Seq(Event)]
        /\ pool' \in [Subscribers -> {"none", "open", "shut"}]
    <3>1. /\ wpc' = [w \in Writers |-> "idle"]
          /\ wev' = [w \in Writers |-> NoEvent] /\ dev' = NoEvent
          /\ wpage' = [w \in Writers |-> 1]
          /\ queue' = <<>>
          /\ work' = [s \in Subscribers |-> <<>>]
          /\ pool' = InitialPools
      BY Zenon, <1>8 DEF CrashRestart
    <3>2. InitialPools \in [Subscribers -> {"none", "open", "shut"}]
      BY Zenon DEF InitialPools
    <3>3. <<>> \in Seq(Event)
      OBVIOUS
    <3> QED
      BY Zenon, <3>1, <3>2, <3>3, <2>1
  <2>4. cur_id' \in Nat
    BY <1>8 DEF CrashRestart
  <2>5. /\ dpc' = "check" /\ todo' = {} /\ opc' = "idle" /\ osub' = NoSubscriber
        /\ registered' \subseteq Subscribers /\ known' \subseteq Subscribers
        /\ crashes' \in Nat
        /\ UNCHANGED <<event_files, cache_files, delivered, calls>>
    BY <1>8 DEF CrashRestart
  <2>6. closing' \in BOOLEAN /\ stop_flag' \in BOOLEAN
    BY ZenonT(30), <1>8 DEF CrashRestart
  <2>7. /\ Len(pages') >= 1
        /\ \A i \in 1..Len(pages') : Len(pages'[i]) <= CACHE_SIZE
        /\ Len(pages'[Len(pages')]) < CACHE_SIZE
        /\ \A w \in Writers : wpage'[w] \in 1..Len(pages')
    BY <2>2, <2>3
  <2> QED
    BY ZenonT(30), <2>2, <2>3, <2>4, <2>5, <2>6, <2>7
<1>9. CASE UNCHANGED vars
  BY SMTT(60), <1>9 DEF vars
<1> QED
  BY ZenonT(30), <1>1, <1>2, <1>3, <1>4, <1>5, <1>6, <1>7, <1>8, <1>9 DEF Next

\* Type correctness of the stream (EventStream and EventStore), with the bound
\* on the write pages.
THEOREM TypeCorrect == Spec => []TypeOK
  BY InitTypeOK, NextTypeOK, PTL DEF Spec

----------------------------------------------------------------------------
(* Sequences.                                                              *)

\* The empty sequence has no elements.
LEMMA EmptyElements == Elements(<<>>) = {} /\ NoRepeats(<<>>)
  BY DEF Elements, NoRepeats

\* Append adds one element, and keeps a sequence without repeats when it is new.
LEMMA AppendElements ==
  ASSUME NEW S, NEW q \in Seq(S), NEW e \in S
  PROVE  /\ Elements(Append(q, e)) = Elements(q) \cup {e}
         /\ NoRepeats(q) /\ e \notin Elements(q) => NoRepeats(Append(q, e))
<1>1. /\ Append(q, e) \in Seq(S) /\ Len(Append(q, e)) = Len(q) + 1
      /\ Len(q) \in Nat
      /\ DOMAIN q = 1..Len(q) /\ DOMAIN Append(q, e) = 1..(Len(q) + 1)
      /\ Append(q, e)[Len(q) + 1] = e
      /\ \A i \in 1..Len(q) : Append(q, e)[i] = q[i]
  OBVIOUS
<1>2. \A i \in 1..(Len(q) + 1) : i \in 1..Len(q) \/ i = Len(q) + 1
  BY <1>1
<1>3. Elements(Append(q, e)) = Elements(q) \cup {e}
  BY <1>1, <1>2 DEF Elements
<1>4. ASSUME NoRepeats(q), e \notin Elements(q) PROVE NoRepeats(Append(q, e))
  BY ZenonT(60), <1>1, <1>2, <1>4 DEF Elements, NoRepeats
<1> QED
  BY Zenon, <1>3, <1>4

\* A non-empty sequence is its head and its tail; without repeats they are disjoint.
LEMMA TailElements ==
  ASSUME NEW S, NEW q \in Seq(S), q # <<>>
  PROVE  /\ Elements(q) = {Head(q)} \cup Elements(Tail(q))
         /\ NoRepeats(q) => NoRepeats(Tail(q)) /\ Head(q) \notin Elements(Tail(q))
<1>1. /\ Len(q) \in Nat /\ Len(q) >= 1
      /\ Len(Tail(q)) = Len(q) - 1 /\ Head(q) = q[1]
      /\ DOMAIN q = 1..Len(q) /\ DOMAIN Tail(q) = 1..(Len(q) - 1)
      /\ \A i \in 1..(Len(q) - 1) : Tail(q)[i] = q[i + 1]
  OBVIOUS
<1>2. \A i \in 1..(Len(q) - 1) : i + 1 \in 1..Len(q) /\ i + 1 # 1
  BY <1>1
<1>3. Elements(q) \subseteq {Head(q)} \cup Elements(Tail(q))
  <2> SUFFICES ASSUME NEW i \in 1..Len(q), q[i] # Head(q)
               PROVE  q[i] \in Elements(Tail(q))
    BY <1>1 DEF Elements
  <2>1. i - 1 \in 1..(Len(q) - 1) /\ (i - 1) + 1 = i
    BY <1>1
  <2>2. Tail(q)[i - 1] = q[i]
    BY Zenon, <1>1, <2>1
  <2> QED
    BY Zenon, <1>1, <2>1, <2>2 DEF Elements
<1>4. {Head(q)} \cup Elements(Tail(q)) \subseteq Elements(q)
  BY <1>1, <1>2 DEF Elements
<1>5. ASSUME NoRepeats(q)
      PROVE  NoRepeats(Tail(q)) /\ Head(q) \notin Elements(Tail(q))
  <2>1. \A i, j \in 1..(Len(q) - 1) : i + 1 = j + 1 => i = j
    BY <1>1
  <2>2. 1 \in 1..Len(q)
    BY <1>1
  <2>3. NoRepeats(Tail(q))
    BY <1>1, <1>2, <1>5, <2>1 DEF NoRepeats
  <2>4. Head(q) \notin Elements(Tail(q))
    BY <1>1, <1>2, <1>5, <2>2 DEF NoRepeats, Elements
  <2> QED
    BY Zenon, <2>3, <2>4
<1> QED
  BY Zenon, <1>3, <1>4, <1>5

----------------------------------------------------------------------------
(* The inductive invariant.                                                *)

Safe == IdInv /\ PersistedBeforeDelivered /\ OnePlaceInv /\ DeliveredOnce

\* Nothing is stored, queued or handed over in the initial state.
LEMMA InitSafe == Init => Safe
<1> SUFFICES ASSUME Init PROVE Safe
  BY Zenon
<1>1. /\ Elements(queue) = {} /\ NoRepeats(queue) /\ ~PassingOn
      /\ \A s \in Subscribers : /\ Elements(work[s]) = {} /\ NoRepeats(work[s])
                                /\ Elements(delivered[s]) = {} /\ NoRepeats(delivered[s])
  BY Zenon, EmptyElements DEF Init, PassingOn
<1>2. IdInv
  BY BoundsAssumption DEF Init, IdInv
<1>3. PersistedBeforeDelivered /\ DeliveredOnce
  BY Zenon, <1>1 DEF PersistedBeforeDelivered, DeliveredOnce
<1>4. OnePlaceInv
  BY Zenon, <1>1 DEF Init, OnePlaceInv
<1> QED
  BY Zenon, <1>2, <1>3, <1>4 DEF Safe

\* A step that moves no event - the owner's, and the queue thread's between two
\* events or two subscribers - keeps the invariant.
LEMMA PassiveSafe ==
  ASSUME Safe,
         UNCHANGED <<event_files, cur_id, wpc, wev, queue, work, delivered, calls, dev>>,
         PassingOn' => PassingOn, todo' \subseteq todo
  PROVE  Safe'
<1>1. IdInv'
  BY Zenon DEF Safe, IdInv, get_event
<1>2. PersistedBeforeDelivered' /\ DeliveredOnce'
  BY Zenon DEF Safe, PersistedBeforeDelivered, DeliveredOnce
<1>3. OnePlaceInv'
  BY Zenon DEF Safe, OnePlaceInv
<1> QED
  BY Zenon, <1>1, <1>2, <1>3 DEF Safe

\* Taking an id: it is new because cur_id is above every id in use.
LEMMA AddEventSafe ==
  ASSUME TypeOK, Safe, NEW w \in Writers, AddEventLocked(w)
  PROVE  Safe'
<1> DEFINE e == [id |-> cur_id, call |-> calls + 1]
<1>1. /\ wev' = [wev EXCEPT ![w] = e] /\ wpc' = [wpc EXCEPT ![w] = "write"]
      /\ cur_id' = cur_id + 1 /\ calls' = calls + 1 /\ calls < MaxCalls
      /\ UNCHANGED <<event_files, queue, dpc, dev, todo, work, delivered>>
  BY Zenon DEF AddEventLocked, store, dispatcher
<1>2. /\ cur_id \in Nat /\ calls \in Nat /\ e.id = cur_id /\ e.call = calls + 1
      /\ wev \in [Writers -> Event] /\ DOMAIN wpc = Writers /\ event_files \subseteq Event
  BY Zenon DEF TypeOK
<1>3. wev'[w] = e /\ wpc'[w] = "write" /\ \A v \in Writers \ {w} : wev'[v] = wev[v] /\ wpc'[v] = wpc[v]
  BY Zenon, <1>1, <1>2
<1> HIDE DEF e
<1>4. IdInv'
  <2>1. cur_id' <= calls' /\ calls' <= MaxCalls
    BY <1>1, <1>2, BoundsAssumption DEF Safe, IdInv
  <2>2. \A f \in event_files' : f.id < cur_id'
    BY <1>1, <1>2 DEF Safe, IdInv, Event
  <2>3. \A v \in Writers : wpc'[v] # "idle" => wev'[v].id < cur_id' /\ wev'[v].call \in 1..calls'
    BY <1>1, <1>2, <1>3 DEF Safe, IdInv, Event
  <2>4. \A u, v \in Writers :
          u # v /\ wpc'[u] # "idle" /\ wpc'[v] # "idle" => wev'[u].id # wev'[v].id
    BY <1>1, <1>2, <1>3 DEF Safe, IdInv, Event
  <2>5. \A v \in Writers : wpc'[v] = "write" => get_event(wev[v].id)' = {}
    BY <1>1, <1>2, <1>3 DEF Safe, IdInv, Event, get_event
  <2>6. \A v \in Writers : wpc'[v] \in {"page", "put"} => wev'[v] \in event_files'
    BY Zenon, <1>1, <1>2, <1>3 DEF Safe, IdInv
  <2> QED
    BY Zenon, <2>1, <2>2, <2>3, <2>4, <2>5, <2>6 DEF IdInv
<1>5. PersistedBeforeDelivered' /\ DeliveredOnce'
  BY Zenon, <1>1 DEF Safe, PersistedBeforeDelivered, DeliveredOnce, PassingOn
<1>6. OnePlaceInv'
  BY Zenon, <1>1, <1>3 DEF Safe, OnePlaceInv, PassingOn
<1> QED
  BY Zenon, <1>4, <1>5, <1>6 DEF Safe

\* Writing the event file: no file had the id, so the file adds one event and
\* replaces none, and nobody downstream can hold that event yet.
LEMMA WriteFileSafe ==
  ASSUME TypeOK, Safe, NEW w \in Writers, WriteFile(w)
  PROVE  /\ Safe'
         /\ event_files' = event_files \cup {wev[w]}
         /\ \A f \in event_files : f.id # wev[w].id
<1>1. /\ wpc[w] = "write" /\ wpc' = [wpc EXCEPT ![w] = "page"]
      /\ event_files' = WriteEventFile(event_files, wev[w])
      /\ UNCHANGED <<wev, cur_id, calls, queue, dpc, dev, todo, work, delivered>>
  BY Zenon DEF WriteFile, dispatcher
<1>2. /\ wev \in [Writers -> Event] /\ DOMAIN wpc = Writers /\ event_files \subseteq Event
  BY Zenon DEF TypeOK
<1>3. \A f \in event_files : f.id # wev[w].id
  BY Zenon, <1>1 DEF Safe, IdInv, get_event
<1>4. event_files' = event_files \cup {wev[w]} /\ wev[w] \notin event_files
  BY Zenon, <1>1, <1>3 DEF WriteEventFile
<1>5. wpc'[w] = "page" /\ \A v \in Writers \ {w} : wpc'[v] = wpc[v]
  BY Zenon, <1>1, <1>2
<1>6. IdInv'
  <2>1. \A f \in event_files' : f.id < cur_id'
    BY Zenon, <1>1, <1>4 DEF Safe, IdInv
  <2>2. \A v \in Writers : wpc'[v] = "write" => get_event(wev[v].id)' = {}
    BY <1>1, <1>4, <1>5 DEF Safe, IdInv, get_event
  <2>3. \A v \in Writers : wpc'[v] \in {"page", "put"} => wev'[v] \in event_files'
    BY Zenon, <1>1, <1>4, <1>5 DEF Safe, IdInv
  <2>4. /\ cur_id' <= calls' /\ calls' <= MaxCalls
        /\ \A v \in Writers : wpc'[v] # "idle" => wev'[v].id < cur_id' /\ wev'[v].call \in 1..calls'
        /\ \A u, v \in Writers :
             u # v /\ wpc'[u] # "idle" /\ wpc'[v] # "idle" => wev'[u].id # wev'[v].id
    BY <1>1, <1>5 DEF Safe, IdInv
  <2> QED
    BY Zenon, <2>1, <2>2, <2>3, <2>4 DEF IdInv
<1>7. PersistedBeforeDelivered' /\ DeliveredOnce'
  BY Zenon, <1>1, <1>4 DEF Safe, PersistedBeforeDelivered, DeliveredOnce, PassingOn
<1>8. OnePlaceInv'
  <2>1. /\ wev[w] \notin Elements(queue)
        /\ PassingOn => wev[w] # dev
        /\ \A s \in Subscribers : wev[w] \notin Elements(work[s]) \cup Elements(delivered[s])
    BY Zenon, <1>4 DEF Safe, PersistedBeforeDelivered
  <2> QED
    BY Zenon, <1>1, <1>5, <2>1 DEF Safe, OnePlaceInv, PassingOn
<1> QED
  BY Zenon, <1>3, <1>4, <1>6, <1>7, <1>8 DEF Safe

\* The other steps of a publisher.
LEMMA PublishSafe ==
  ASSUME TypeOK, Safe, NEW w \in Writers, Publish(w)
  PROVE  Safe'
<1>1. CASE AddEventLocked(w)
  BY Zenon, <1>1, AddEventSafe
<1>2. CASE AddEventRaises(w)
  <2>1. /\ cur_id' = cur_id + 1 /\ calls' = calls + 1 /\ calls < MaxCalls
        /\ UNCHANGED <<event_files, wpc, wev, queue, dpc, dev, todo, work, delivered>>
    BY Zenon, <1>2 DEF AddEventRaises, store, dispatcher, writer
  <2>2. cur_id \in Nat /\ calls \in Nat /\ event_files \subseteq Event /\ wev \in [Writers -> Event]
    BY Zenon DEF TypeOK
  <2>3. IdInv'
    BY <2>1, <2>2, BoundsAssumption DEF Safe, IdInv, Event, get_event
  <2>4. PersistedBeforeDelivered' /\ DeliveredOnce'
    BY Zenon, <2>1 DEF Safe, PersistedBeforeDelivered, DeliveredOnce, PassingOn
  <2>5. OnePlaceInv'
    BY Zenon, <2>1 DEF Safe, OnePlaceInv, PassingOn
  <2> QED
    BY Zenon, <2>3, <2>4, <2>5 DEF Safe
<1>3. CASE WriteFile(w)
  BY SMTT(30), <1>3, WriteFileSafe
<1>4. CASE StorePage(w) \/ WriteRaises(w)
  <2>1. /\ \/ wpc[w] = "page" /\ wpc' = [wpc EXCEPT ![w] = "put"]
           \/ wpc' = [wpc EXCEPT ![w] = "idle"]
        /\ UNCHANGED <<event_files, cur_id, calls, wev, queue, dpc, dev, todo, work, delivered>>
    BY Zenon, <1>4 DEF StorePage, WriteRaises, store, dispatcher
  <2>2. \A v \in Writers : \/ wpc'[v] = wpc[v] \/ wpc'[v] = "idle"
                           \/ wpc'[v] = "put" /\ wpc[v] = "page"
    BY Zenon, <2>1 DEF TypeOK
  <2>3. IdInv'
    BY <2>1, <2>2 DEF Safe, IdInv, get_event
  <2>4. PersistedBeforeDelivered' /\ DeliveredOnce'
    BY Zenon, <2>1 DEF Safe, PersistedBeforeDelivered, DeliveredOnce, PassingOn
  <2>5. OnePlaceInv'
    BY Zenon, <2>1, <2>2 DEF Safe, OnePlaceInv, PassingOn
  <2> QED
    BY Zenon, <2>3, <2>4, <2>5 DEF Safe
<1>5. CASE QueuePut(w)
  <2>1. /\ wpc[w] = "put" /\ wpc' = [wpc EXCEPT ![w] = "idle"]
        /\ queue' = Append(queue, wev[w])
        /\ UNCHANGED <<event_files, cur_id, calls, wev, dpc, dev, todo, work, delivered>>
    BY Zenon, <1>5 DEF QueuePut, store, dispatcher
  <2>2. \A v \in Writers : wpc'[v] = IF v = w THEN "idle" ELSE wpc[v]
    BY Zenon, <2>1 DEF TypeOK
  <2>3. queue \in Seq(Event) /\ wev[w] \in Event
    BY Zenon DEF TypeOK
  <2>4. wev[w] \in event_files /\ wev[w] \notin Elements(queue) /\ NoRepeats(queue)
    BY Zenon, <2>1 DEF Safe, IdInv, OnePlaceInv
  <2>5. Elements(queue') = Elements(queue) \cup {wev[w]} /\ NoRepeats(queue')
    BY <2>1, <2>3, <2>4, AppendElements
  <2>6. IdInv'
    BY <2>1, <2>2 DEF Safe, IdInv, get_event
  <2>7. PersistedBeforeDelivered' /\ DeliveredOnce'
    BY Zenon, <2>1, <2>4, <2>5 DEF Safe, PersistedBeforeDelivered, DeliveredOnce, PassingOn
  <2>8. OnePlaceInv'
    <3>1. \A v \in Writers : wpc'[v] \in {"page", "put"} => v # w /\ wpc[v] = wpc'[v] /\ wev[v] # wev[w]
      BY <2>1, <2>2 DEF Safe, IdInv
    <3>2. /\ PassingOn => wev[w] # dev
          /\ \A s \in Subscribers : wev[w] \notin Elements(work[s]) \cup Elements(delivered[s])
      BY Zenon, <2>1 DEF Safe, OnePlaceInv
    <3>3. PassingOn' => dev' \notin Elements(queue')
      BY ZenonT(60), <2>1, <2>5, <3>2 DEF Safe, OnePlaceInv, PassingOn
    <3>4. \A v \in Writers : wpc'[v] \in {"page", "put"} =>
            /\ wev'[v] \notin Elements(queue')
            /\ PassingOn' => wev'[v] # dev'
            /\ \A s \in Subscribers : wev'[v] \notin Elements(work'[s]) \cup Elements(delivered'[s])
      BY SMTT(30), <2>1, <2>5, <3>1 DEF Safe, OnePlaceInv, PassingOn
    <3>5. \A s \in Subscribers :
            /\ NoRepeats(work'[s])
            /\ Elements(work'[s]) \cap Elements(delivered'[s]) = {}
            /\ Elements(queue') \cap (Elements(work'[s]) \cup Elements(delivered'[s])) = {}
            /\ PassingOn' /\ s \in todo' => dev' \notin Elements(work'[s]) \cup Elements(delivered'[s])
      BY Zenon, <2>1, <2>5, <3>2 DEF Safe, OnePlaceInv, PassingOn
    <3> QED
      BY Zenon, <2>5, <3>3, <3>4, <3>5 DEF OnePlaceInv
  <2> QED
    BY Zenon, <2>6, <2>7, <2>8 DEF Safe
<1> QED
  BY Zenon, <1>1, <1>2, <1>3, <1>4, <1>5 DEF Publish

\* Taking an event off the queue moves it from one place to the next.
LEMMA QueueGetSafe ==
  ASSUME TypeOK, Safe, QueueGet
  PROVE  Safe'
<1>1. CASE queue = <<>>
  <2>1. PassingOn' => PassingOn
    BY Zenon, <1>1 DEF QueueGet, PassingOn
  <2> QED
    BY Zenon, <1>1, <2>1, PassiveSafe DEF QueueGet, store, writer
<1>2. CASE queue # <<>>
  <2>1. /\ dpc = "get" /\ dpc' = "next" /\ dev' = Head(queue) /\ queue' = Tail(queue)
        /\ UNCHANGED <<event_files, cur_id, calls, wpc, wev, work, delivered>>
    BY SMTT(30), <1>2 DEF QueueGet, store, writer
  <2>2. /\ Elements(queue) = {dev'} \cup Elements(queue')
        /\ NoRepeats(queue') /\ dev' \notin Elements(queue')
    BY SMTT(30), <1>2, <2>1, TailElements DEF TypeOK, Safe, OnePlaceInv
  <2>3. IdInv'
    BY Zenon, <2>1 DEF Safe, IdInv, get_event
  <2>4. PersistedBeforeDelivered' /\ DeliveredOnce'
    BY Zenon, <2>1, <2>2 DEF Safe, PersistedBeforeDelivered, DeliveredOnce
  <2>5. OnePlaceInv'
    BY Zenon, <2>1, <2>2 DEF Safe, OnePlaceInv
  <2> QED
    BY Zenon, <2>3, <2>4, <2>5 DEF Safe
<1> QED
  BY Zenon, <1>1, <1>2

\* Submitting a callback gives the event to a pool that has not had it, and takes
\* the subscriber off the list so that it is not given again.
LEMMA SubmitSafe ==
  ASSUME TypeOK, Safe, SubmitCallback
  PROVE  Safe'
<1>1. PICK s \in Subscribers :
        /\ Visiting(s)
        /\ IF pool[s] = "open"
           THEN /\ work' = [work EXCEPT ![s] = Append(@, dev)]
                /\ todo' = todo \ {s}
                /\ dpc' = "next"
           ELSE dpc' = "dead" /\ UNCHANGED <<work, todo>>
  BY Zenon DEF SubmitCallback
<1>2. /\ dpc = "submit"
      /\ UNCHANGED <<event_files, cur_id, calls, wpc, wev, queue, dev, delivered>>
  BY Zenon DEF SubmitCallback, store, writer
<1>3. PassingOn /\ s \in todo
  BY Zenon, <1>1, <1>2 DEF PassingOn, Visiting
<1>4. CASE pool[s] # "open"
  BY Zenon, <1>1, <1>2, <1>3, <1>4, PassiveSafe
<1>5. CASE pool[s] = "open"
  <2>1. /\ work' = [work EXCEPT ![s] = Append(@, dev)] /\ todo' = todo \ {s}
        /\ work \in [Subscribers -> Seq(Event)] /\ dev \in Event /\ work[s] \in Seq(Event)
    BY Zenon, <1>1, <1>5 DEF TypeOK
  <2>2. work'[s] = Append(work[s], dev) /\ \A r \in Subscribers \ {s} : work'[r] = work[r]
    BY Zenon, <2>1
  <2>3. dev \notin Elements(work[s]) \cup Elements(delivered[s]) /\ NoRepeats(work[s])
    BY Zenon, <1>3 DEF Safe, OnePlaceInv
  <2>4. Elements(work'[s]) = Elements(work[s]) \cup {dev} /\ NoRepeats(work'[s])
    BY <2>1, <2>2, <2>3, AppendElements
  <2>5. IdInv'
    BY Zenon, <1>2 DEF Safe, IdInv, get_event
  <2>6. PersistedBeforeDelivered' /\ DeliveredOnce'
    BY ZenonT(30), <1>2, <1>3, <2>2, <2>4 DEF Safe, PersistedBeforeDelivered, DeliveredOnce
  <2>7. OnePlaceInv'
    <3>1. \A w \in Writers : wpc[w] \in {"page", "put"} => wev[w] # dev
      BY Zenon, <1>3 DEF Safe, OnePlaceInv
    <3>2. dev \notin Elements(queue)
      BY Zenon, <1>3 DEF Safe, OnePlaceInv
    <3>3. \A w \in Writers : wpc'[w] \in {"page", "put"} =>
            /\ wev'[w] \notin Elements(queue')
            /\ PassingOn' => wev'[w] # dev'
            /\ \A r \in Subscribers : wev'[w] \notin Elements(work'[r]) \cup Elements(delivered'[r])
      BY ZenonT(30), <1>2, <2>2, <2>4, <3>1 DEF Safe, OnePlaceInv
    <3>4. \A r \in Subscribers :
            /\ NoRepeats(work'[r])
            /\ Elements(work'[r]) \cap Elements(delivered'[r]) = {}
            /\ Elements(queue') \cap (Elements(work'[r]) \cup Elements(delivered'[r])) = {}
            /\ PassingOn' /\ r \in todo' => dev' \notin Elements(work'[r]) \cup Elements(delivered'[r])
      <4> SUFFICES ASSUME NEW r \in Subscribers
                   PROVE  /\ NoRepeats(work'[r])
                          /\ Elements(work'[r]) \cap Elements(delivered[r]) = {}
                          /\ Elements(queue) \cap (Elements(work'[r]) \cup Elements(delivered[r])) = {}
                          /\ r \in todo' => dev \notin Elements(work'[r]) \cup Elements(delivered[r])
        BY Zenon, <1>2
      <4>1. /\ NoRepeats(work[r])
            /\ Elements(work[r]) \cap Elements(delivered[r]) = {}
            /\ Elements(queue) \cap (Elements(work[r]) \cup Elements(delivered[r])) = {}
            /\ r \in todo => dev \notin Elements(work[r]) \cup Elements(delivered[r])
        BY Zenon, <1>3 DEF Safe, OnePlaceInv
      <4>2. CASE r = s
        BY <2>1, <2>3, <2>4, <3>2, <4>1, <4>2
      <4>3. CASE r # s
        BY Zenon, <2>1, <2>2, <4>1, <4>3
      <4> QED
        BY Zenon, <4>2, <4>3
    <3> QED
      BY Zenon, <1>2, <1>3, <3>2, <3>3, <3>4 DEF Safe, OnePlaceInv
  <2> QED
    BY Zenon, <2>5, <2>6, <2>7 DEF Safe
<1> QED
  BY Zenon, <1>4, <1>5

\* Running a callback: the event was in the pool, so it had not been handled.
LEMMA RunCallbackSafe ==
  ASSUME TypeOK, Safe, NEW s \in Subscribers, RunCallback(s)
  PROVE  /\ Safe'
         /\ Head(work[s]) \in event_files
         /\ Head(work[s]) \notin Elements(delivered[s])
<1> DEFINE e == Head(work[s])
<1>1. /\ work[s] # <<>> /\ work[s] \in Seq(Event) /\ delivered[s] \in Seq(Event) /\ e \in Event
      /\ delivered' = [delivered EXCEPT ![s] = Append(@, e)]
      /\ work' = [work EXCEPT ![s] = Tail(@)]
      /\ UNCHANGED <<event_files, cur_id, calls, wpc, wev, queue, dpc, dev, todo>>
  BY DEF RunCallback, store, writer, dispatcher, TypeOK
<1>2. /\ work'[s] = Tail(work[s]) /\ delivered'[s] = Append(delivered[s], e)
      /\ \A r \in Subscribers \ {s} : work'[r] = work[r] /\ delivered'[r] = delivered[r]
  BY SMTT(30), <1>1 DEF TypeOK
<1>3. /\ NoRepeats(work[s]) /\ NoRepeats(delivered[s])
      /\ Elements(work[s]) \cap Elements(delivered[s]) = {}
  BY Zenon DEF Safe, OnePlaceInv, DeliveredOnce
<1>4. /\ Elements(work[s]) = {e} \cup Elements(work'[s])
      /\ NoRepeats(work'[s]) /\ e \notin Elements(work'[s])
  BY <1>1, <1>2, <1>3, TailElements
<1>5. Elements(delivered'[s]) = Elements(delivered[s]) \cup {e} /\ NoRepeats(delivered'[s])
  BY <1>1, <1>2, <1>3, <1>4, AppendElements
<1> HIDE DEF e
<1>6. e \in event_files
  BY Zenon, <1>4 DEF Safe, PersistedBeforeDelivered
<1>7. IdInv'
  BY SMTT(30), <1>1 DEF Safe, IdInv, get_event
<1>8. PersistedBeforeDelivered' /\ DeliveredOnce'
  BY SMTT(30), <1>1, <1>2, <1>4, <1>5, <1>6 DEF Safe, PersistedBeforeDelivered, DeliveredOnce, PassingOn
<1>9. OnePlaceInv'
  <2>1. \A r \in Subscribers : Elements(work'[r]) \cup Elements(delivered'[r])
                                 \subseteq Elements(work[r]) \cup Elements(delivered[r])
    BY ZenonT(30), <1>2, <1>4, <1>5
  <2>2. \A w \in Writers : wpc'[w] \in {"page", "put"} =>
          /\ wev'[w] \notin Elements(queue')
          /\ PassingOn' => wev'[w] # dev'
          /\ \A r \in Subscribers : wev'[w] \notin Elements(work'[r]) \cup Elements(delivered'[r])
    BY ZenonT(30), <1>1, <2>1 DEF Safe, OnePlaceInv, PassingOn
  <2>3. \A r \in Subscribers :
          /\ NoRepeats(work'[r])
          /\ Elements(work'[r]) \cap Elements(delivered'[r]) = {}
    <3>1. NoRepeats(work'[s]) /\ Elements(work'[s]) \cap Elements(delivered'[s]) = {}
      BY Zenon, <1>3, <1>4, <1>5
    <3>2. \A r \in Subscribers : NoRepeats(work[r]) /\ Elements(work[r]) \cap Elements(delivered[r]) = {}
      BY Zenon DEF Safe, OnePlaceInv
    <3> QED
      BY ZenonT(30), <1>2, <3>1, <3>2
  <2>4. \A r \in Subscribers :
          /\ Elements(queue') \cap (Elements(work'[r]) \cup Elements(delivered'[r])) = {}
          /\ PassingOn' /\ r \in todo' => dev' \notin Elements(work'[r]) \cup Elements(delivered'[r])
    BY ZenonT(30), <1>1, <2>1 DEF Safe, OnePlaceInv, PassingOn
  <2> QED
    BY ZenonT(30), <1>1, <2>2, <2>3, <2>4 DEF Safe, OnePlaceInv, PassingOn
<1> QED
  BY Zenon, <1>3, <1>4, <1>6, <1>7, <1>8, <1>9 DEF Safe, e

\* A restart loses everything on its way and keeps the files and the ids in them.
LEMMA CrashSafe ==
  ASSUME TypeOK, Safe, CrashRestart
  PROVE  Safe'
<1>1. PICK n \in 0..cur_id : CurIdAfterRestart(n) /\ cur_id' = n
  BY Zenon DEF CrashRestart
<1>2. /\ wpc' = [w \in Writers |-> "idle"] /\ queue' = <<>> /\ dpc' = "check"
      /\ work' = [s \in Subscribers |-> <<>>]
      /\ UNCHANGED <<event_files, delivered, calls>>
  BY Zenon DEF CrashRestart, store
<1>3. /\ ~PassingOn' /\ Elements(queue') = {} /\ NoRepeats(queue')
      /\ \A s \in Subscribers : Elements(work'[s]) = {} /\ NoRepeats(work'[s])
  BY Zenon, <1>2, EmptyElements DEF PassingOn
<1>4. IdInv'
  <2>1. \A e \in event_files : e.id < cur_id'
    BY Zenon, <1>1 DEF CurIdAfterRestart
  <2>2. cur_id' <= calls' /\ calls' <= MaxCalls
    BY <1>1, <1>2, BoundsAssumption DEF Safe, IdInv, TypeOK
  <2> QED
    BY Zenon, <1>2, <2>1, <2>2 DEF IdInv
<1>5. PersistedBeforeDelivered' /\ DeliveredOnce'
  BY Zenon, <1>2, <1>3 DEF Safe, PersistedBeforeDelivered, DeliveredOnce
<1>6. OnePlaceInv'
  BY Zenon, <1>2, <1>3 DEF OnePlaceInv
<1> QED
  BY Zenon, <1>4, <1>5, <1>6 DEF Safe

\* Every step keeps the invariant.
LEMMA NextSafe == TypeOK /\ Safe /\ [Next]_vars => Safe'
<1> SUFFICES ASSUME TypeOK, Safe, [Next]_vars PROVE Safe'
  BY Zenon
<1> USE DEF store, writer, dispatcher, subs, owner
<1>1. ASSUME NEW w \in Writers, Publish(w) PROVE Safe'
  BY Zenon, <1>1, PublishSafe
<1>2. ASSUME Dispatch PROVE Safe'
  <2>1. CASE LoopCheck
    BY Zenon, <2>1, PassiveSafe DEF LoopCheck, PassingOn
  <2>2. CASE QueueGet
    BY Zenon, <2>2, QueueGetSafe
  <2>3. CASE VisitSubscriber
    <3>1. todo' \subseteq todo /\ PassingOn
      BY Zenon, <2>3 DEF VisitSubscriber, PassingOn
    <3> QED
      BY Zenon, <2>3, <3>1, PassiveSafe DEF VisitSubscriber
  <2>4. CASE LookupPool
    BY Zenon, <2>4, PassiveSafe DEF LookupPool, PassingOn
  <2>5. CASE SubmitCallback
    BY Zenon, <2>5, SubmitSafe
  <2> QED
    BY Zenon, <1>2, <2>1, <2>2, <2>3, <2>4, <2>5 DEF Dispatch
<1>3. ASSUME NEW s \in Subscribers, RunCallback(s) PROVE Safe'
  BY Zenon, <1>3, RunCallbackSafe
<1>4. ASSUME NEW s \in Subscribers, SubscribeCallback(s) PROVE Safe'
  BY Zenon, <1>4, PassiveSafe DEF SubscribeCallback, PassingOn
<1>5. ASSUME SubscribePool PROVE Safe'
  BY Zenon, <1>5, PassiveSafe DEF SubscribePool, PassingOn
<1>6. ASSUME CleanUp PROVE Safe'
  <2>1. ASSUME NEW s \in Subscribers, ShutdownPool(s) PROVE Safe'
    BY Zenon, <2>1, PassiveSafe DEF ShutdownPool, PassingOn
  <2>2. CASE ShutdownReturns
    BY Zenon, <2>2, PassiveSafe DEF ShutdownReturns, PassingOn
  <2>3. CASE UnregisterCallback
    BY Zenon, <2>3, PassiveSafe DEF UnregisterCallback, PassingOn
  <2> QED
    BY Zenon, <1>6, <2>1, <2>2, <2>3 DEF CleanUp
<1>7. ASSUME Close PROVE Safe'
  <2>1. CASE CloseStop
    BY Zenon, <2>1, PassiveSafe DEF CloseStop, PassingOn
  <2>2. CASE CloseJoin
    BY Zenon, <2>2, PassiveSafe DEF CloseJoin, PassingOn
  <2>3. CASE CloseDrain
    <3>1. /\ Elements(queue') = {} /\ NoRepeats(queue')
          /\ UNCHANGED <<event_files, cur_id, calls, wpc, wev, dpc, dev, todo, work, delivered>>
      BY SMTT(30), <2>3, EmptyElements DEF CloseDrain
    <3>2. IdInv'
      BY SMTT(30), <3>1 DEF Safe, IdInv, get_event
    <3>3. PersistedBeforeDelivered' /\ DeliveredOnce'
      BY SMTT(30), <3>1 DEF Safe, PersistedBeforeDelivered, DeliveredOnce, PassingOn
    <3>4. OnePlaceInv'
      BY Zenon, <3>1 DEF Safe, OnePlaceInv, PassingOn
    <3> QED
      BY Zenon, <3>2, <3>3, <3>4 DEF Safe
  <2> QED
    BY Zenon, <1>7, <2>1, <2>2, <2>3 DEF Close
<1>8. ASSUME CrashRestart PROVE Safe'
  BY Zenon, <1>8, CrashSafe
<1>9. CASE UNCHANGED vars
  BY Zenon, <1>9, PassiveSafe DEF vars, PassingOn
<1> QED
  BY Zenon, <1>1, <1>2, <1>3, <1>4, <1>5, <1>6, <1>7, <1>8, <1>9 DEF Next

\* The invariant holds of every reachable state.
LEMMA SafeCorrect == Spec => [](TypeOK /\ Safe)
  BY InitTypeOK, NextTypeOK, InitSafe, NextSafe, PTL DEF Spec

----------------------------------------------------------------------------
(* What follows from it.                                                   *)

\* What add_event queues is stored first: no handler is given an event that the
\* stream's files do not hold.
THEOREM Persisted == Spec => []PersistedBeforeDelivered
<1>1. Safe => PersistedBeforeDelivered
  BY Zenon DEF Safe
<1> QED
  BY <1>1, SafeCorrect, PTL

\* No callback runs twice for one event, across crashes and restarts too.
THEOREM Once == Spec => []DeliveredOnce
<1>1. Safe => DeliveredOnce
  BY Zenon DEF Safe
<1> QED
  BY <1>1, SafeCorrect, PTL

\* The steps of the stream that touch neither the event files nor what was handed
\* over are stutters of the log.
LEMMA StepRefines ==
  ASSUME TypeOK, Safe, [Next]_vars
  PROVE  [Log!Next]_<<event_files, delivered>>
<1> USE DEF store, writer, dispatcher, subs, owner
<1>1. ASSUME NEW w \in Writers, WriteFile(w) PROVE Log!Next
  <2>1. /\ event_files' = event_files \cup {wev[w]} /\ delivered' = delivered
        /\ \A f \in event_files : f.id # wev[w].id
    BY ZenonT(30), <1>1, WriteFileSafe DEF WriteFile
  <2>2. /\ wev[w] \in Event /\ wev[w].id < cur_id /\ wev[w].call \in 1..calls
        /\ cur_id <= calls /\ calls <= MaxCalls /\ cur_id \in Nat /\ calls \in Nat
    BY Zenon, <1>1 DEF WriteFile, Safe, IdInv, TypeOK
  <2>3. /\ wev[w].id \in 0..MaxCalls /\ wev[w].call \in 1..MaxCalls
        /\ wev[w] = [id |-> wev[w].id, call |-> wev[w].call]
    BY <2>2, BoundsAssumption DEF Event
  <2>4. Log!Store([id |-> wev[w].id, call |-> wev[w].call])
    BY Zenon, <2>1, <2>3 DEF Log!Store
  <2> QED
    BY SMTT(30), <2>3, <2>4 DEF Log!Next
<1>2. ASSUME NEW s \in Subscribers, RunCallback(s) PROVE Log!Next
  <2>1. /\ Head(work[s]) \in event_files
        /\ Head(work[s]) \notin Elements(delivered[s])
    BY SMTT(30), <1>2, RunCallbackSafe
  <2>2. Log!Deliver(s, Head(work[s]))
    BY SMTT(30), <1>2, <2>1 DEF Log!Deliver, Log!Seen, RunCallback, Elements
  <2> QED
    BY Zenon, <2>1, <2>2 DEF Log!Next
<1>3. ASSUME NEW w \in Writers,
             AddEventLocked(w) \/ AddEventRaises(w) \/ StorePage(w) \/ WriteRaises(w)
               \/ QueuePut(w)
      PROVE  UNCHANGED <<event_files, delivered>>
  BY ZenonT(30), <1>3 DEF AddEventLocked, AddEventRaises, StorePage, WriteRaises, QueuePut
<1>4. ASSUME Dispatch PROVE UNCHANGED <<event_files, delivered>>
  BY Zenon, <1>4 DEF Dispatch, LoopCheck, QueueGet, VisitSubscriber, LookupPool, SubmitCallback
<1>5. ASSUME NEW s \in Subscribers, SubscribeCallback(s)
      PROVE  UNCHANGED <<event_files, delivered>>
  BY SMTT(30), <1>5 DEF SubscribeCallback
<1>6. ASSUME SubscribePool \/ CleanUp \/ Close \/ CrashRestart
      PROVE  UNCHANGED <<event_files, delivered>>
  BY Zenon, <1>6 DEF SubscribePool, CleanUp, ShutdownPool, ShutdownReturns, UnregisterCallback,
              Close, CloseStop, CloseJoin, CloseDrain, CrashRestart
<1>7. CASE UNCHANGED vars
  BY Zenon, <1>7 DEF vars
<1> QED
  BY SMTT(30), <1>1, <1>2, <1>3, <1>4, <1>5, <1>6, <1>7 DEF Next, Publish

\* The stream implements the event log.
THEOREM Refinement == Spec => LogSpec
<1>1. Init => Log!Init
  BY Zenon DEF Init, Log!Init
<1>2. TypeOK /\ Safe /\ [Next]_vars => [Log!Next]_<<event_files, delivered>>
  BY Zenon, StepRefines
<1> QED
  BY <1>1, <1>2, SafeCorrect, PTL DEF Spec, LogSpec, Log!Spec

\* No step replaces or removes a stored event file, a restart included: the id a
\* new stream computes from the files is above every id in them.
THEOREM FilesImmutable == Spec => EventFilesImmutable
<1>1. TypeOK /\ Safe /\ [Next]_vars => [event_files \subseteq event_files']_vars
  <2> SUFFICES ASSUME TypeOK, Safe, [Next]_vars PROVE event_files \subseteq event_files'
    BY Zenon
  <2>1. [Log!Next]_<<event_files, delivered>>
    BY Zenon, StepRefines
  <2> QED
    BY Zenon, <2>1 DEF Log!Next, Log!Store, Log!Deliver
<1> QED
  BY <1>1, SafeCorrect, PTL DEF Spec, EventFilesImmutable

----------------------------------------------------------------------------
(* Concatenation, and the order of two sequences' common elements.         *)

\* What subscriber s has been handed so far: what it has handled, then what waits
\* in its pool.
Got(s) == delivered[s] \o work[s]

\* What is in both sequences is in the same order in both.
InOrder(p, q) ==
    \A i, j \in DOMAIN p : \A k, l \in DOMAIN q :
      (p[i] = q[k] /\ p[j] = q[l] /\ i < j) => k < l

\* The places of a concatenation.
LEMMA ConcatPlaces ==
  ASSUME NEW S, NEW p \in Seq(S), NEW q \in Seq(S)
  PROVE  /\ p \o q \in Seq(S) /\ Len(p \o q) = Len(p) + Len(q)
         /\ \A i \in 1..Len(p) : (p \o q)[i] = p[i]
         /\ \A i \in 1..Len(q) : (p \o q)[Len(p) + i] = q[i]
         /\ DOMAIN p = 1..Len(p) /\ DOMAIN q = 1..Len(q)
         /\ DOMAIN (p \o q) = 1..(Len(p) + Len(q))
         /\ Len(p) \in Nat /\ Len(q) \in Nat
<1>1. p \o q \in Seq(S) /\ Len(p \o q) = Len(p) + Len(q)
  OBVIOUS
<1>2. \A i \in 1..Len(p) : (p \o q)[i] = p[i]
  OBVIOUS
<1>3. \A i \in 1..Len(q) : (p \o q)[Len(p) + i] = q[i]
  OBVIOUS
<1> QED
  BY <1>1, <1>2, <1>3

\* A concatenation has the elements of both parts, each once when neither part
\* repeats one and they share none.
LEMMA ConcatElements ==
  ASSUME NEW S, NEW p \in Seq(S), NEW q \in Seq(S)
  PROVE  /\ Elements(p \o q) = Elements(p) \cup Elements(q)
         /\ NoRepeats(p) /\ NoRepeats(q) /\ Elements(p) \cap Elements(q) = {}
              => NoRepeats(p \o q)
<1> DEFINE m == Len(p)
           n == Len(q)
           r == p \o q
<1>1. /\ \A i \in 1..m : r[i] = p[i]
      /\ \A i \in 1..n : r[m + i] = q[i]
      /\ DOMAIN p = 1..m /\ DOMAIN q = 1..n /\ DOMAIN r = 1..(m + n)
      /\ m \in Nat /\ n \in Nat
  BY ConcatPlaces
<1> HIDE DEF m, n, r
<1>2. ASSUME NEW i \in 1..(m + n), i \notin 1..m PROVE i - m \in 1..n /\ r[i] = q[i - m]
  <2>1. i - m \in 1..n /\ m + (i - m) = i
    BY <1>1, <1>2
  <2> QED
    BY Zenon, <1>1, <2>1
<1>3. Elements(r) = Elements(p) \cup Elements(q)
  <2>1. \A i \in 1..m : i \in 1..(m + n)
    BY <1>1
  <2>2. \A i \in 1..n : m + i \in 1..(m + n)
    BY <1>1
  <2>3. Elements(p) \cup Elements(q) \subseteq Elements(r)
    BY Zenon, <1>1, <2>1, <2>2 DEF Elements
  <2>4. Elements(r) \subseteq Elements(p) \cup Elements(q)
    BY ZenonT(60), <1>1, <1>2 DEF Elements
  <2> QED
    BY Zenon, <2>3, <2>4
<1>4. ASSUME NoRepeats(p), NoRepeats(q), Elements(p) \cap Elements(q) = {},
             NEW i \in 1..(m + n), NEW j \in 1..(m + n), r[i] = r[j]
      PROVE  i = j
  <2>1. CASE i \in 1..m /\ j \in 1..m
    BY Zenon, <1>1, <1>4, <2>1 DEF NoRepeats
  <2>2. CASE i \in 1..m /\ j \notin 1..m
    <3>1. r[i] \in Elements(p)
      BY Zenon, <1>1, <2>2 DEF Elements
    <3>2. r[j] \in Elements(q)
      BY Zenon, <1>1, <1>2, <2>2 DEF Elements
    <3> QED
      BY Zenon, <1>4, <3>1, <3>2
  <2>3. CASE i \notin 1..m /\ j \in 1..m
    <3>1. r[j] \in Elements(p)
      BY Zenon, <1>1, <2>3 DEF Elements
    <3>2. r[i] \in Elements(q)
      BY Zenon, <1>1, <1>2, <2>3 DEF Elements
    <3> QED
      BY Zenon, <1>4, <3>1, <3>2
  <2>4. CASE i \notin 1..m /\ j \notin 1..m
    <3>1. /\ i - m \in 1..n /\ r[i] = q[i - m]
          /\ j - m \in 1..n /\ r[j] = q[j - m]
      BY Zenon, <1>2, <2>4
    <3>2. i - m = j - m
      BY Zenon, <1>1, <1>4, <3>1 DEF NoRepeats
    <3> QED
      BY <1>1, <3>2
  <2> QED
    BY Zenon, <2>1, <2>2, <2>3, <2>4
<1> QED
  BY Zenon, <1>1, <1>3, <1>4 DEF NoRepeats, r

\* Moving the head of the second part to the end of the first changes nothing.
LEMMA MoveHead ==
  ASSUME NEW S, NEW p \in Seq(S), NEW q \in Seq(S), q # <<>>
  PROVE  Append(p, Head(q)) \o Tail(q) = p \o q
<1> DEFINE a == Append(p, Head(q)) \o Tail(q)
           b == p \o q
<1>1. /\ Head(q) \in S /\ Tail(q) \in Seq(S) /\ Append(p, Head(q)) \in Seq(S)
      /\ Len(q) \in Nat \ {0} /\ Len(Tail(q)) = Len(q) - 1
      /\ Len(p) \in Nat /\ Len(Append(p, Head(q))) = Len(p) + 1
      /\ Head(q) = q[1]
      /\ \A i \in 1..Len(p) : Append(p, Head(q))[i] = p[i]
      /\ Append(p, Head(q))[Len(p) + 1] = Head(q)
      /\ \A i \in 1..(Len(q) - 1) : Tail(q)[i] = q[i + 1]
  OBVIOUS
<1>2. /\ a \in Seq(S) /\ Len(a) = Len(p) + Len(q)
      /\ \A i \in 1..(Len(p) + 1) : a[i] = Append(p, Head(q))[i]
      /\ \A i \in 1..(Len(q) - 1) : a[(Len(p) + 1) + i] = Tail(q)[i]
  BY <1>1, ConcatPlaces
<1>3. /\ b \in Seq(S) /\ Len(b) = Len(p) + Len(q)
      /\ \A i \in 1..Len(p) : b[i] = p[i]
      /\ \A i \in 1..Len(q) : b[Len(p) + i] = q[i]
  BY ConcatPlaces
<1> HIDE DEF a, b
<1>4. ASSUME NEW i \in 1..(Len(p) + Len(q)) PROVE a[i] = b[i]
  <2>1. CASE i \in 1..Len(p)
    <3>1. i \in 1..(Len(p) + 1)
      BY <1>1, <2>1
    <3> QED
      BY Zenon, <1>1, <1>2, <1>3, <2>1, <3>1
  <2>2. CASE i = Len(p) + 1
    <3>1. 1 \in 1..Len(q) /\ Len(p) + 1 \in 1..(Len(p) + 1)
      BY <1>1
    <3> QED
      BY Zenon, <1>1, <1>2, <1>3, <2>2, <3>1
  <2>3. CASE i \notin 1..(Len(p) + 1)
    <3> DEFINE h == i - (Len(p) + 1)
    <3>1. /\ h \in 1..(Len(q) - 1) /\ (Len(p) + 1) + h = i
          /\ h + 1 \in 1..Len(q) /\ Len(p) + (h + 1) = i
      BY <1>1, <2>3
    <3> HIDE DEF h
    <3>2. a[i] = Tail(q)[h] /\ Tail(q)[h] = q[h + 1]
      BY Zenon, <1>1, <1>2, <3>1
    <3>3. b[i] = q[h + 1]
      BY Zenon, <1>3, <3>1
    <3> QED
      BY Zenon, <3>2, <3>3
  <2> QED
    BY <1>1, <2>1, <2>2, <2>3
<1>5. a = b
  BY <1>2, <1>3, <1>4
<1> QED
  BY Zenon, <1>5 DEF a, b

\* Appending to the second part appends to the whole.
LEMMA ConcatAppend ==
  ASSUME NEW S, NEW p \in Seq(S), NEW q \in Seq(S), NEW e \in S
  PROVE  p \o Append(q, e) = Append(p \o q, e)
<1> DEFINE r == Append(q, e)
           a == p \o r
           c == p \o q
           b == Append(c, e)
<1>1. /\ r \in Seq(S) /\ Len(r) = Len(q) + 1 /\ Len(q) \in Nat /\ Len(p) \in Nat
      /\ r[Len(q) + 1] = e /\ \A i \in 1..Len(q) : r[i] = q[i]
  OBVIOUS
<1> HIDE DEF r
<1>2. /\ a \in Seq(S) /\ Len(a) = Len(p) + Len(r)
      /\ \A i \in 1..Len(p) : a[i] = p[i]
      /\ \A i \in 1..Len(r) : a[Len(p) + i] = r[i]
  <2> HIDE DEF r
  <2>1. r \in Seq(S)
    BY Zenon, <1>1
  <2> QED
    BY <2>1, ConcatPlaces
<1>3. /\ c \in Seq(S) /\ Len(c) = Len(p) + Len(q)
      /\ \A i \in 1..Len(p) : c[i] = p[i]
      /\ \A i \in 1..Len(q) : c[Len(p) + i] = q[i]
  BY ConcatPlaces
<1> HIDE DEF a, c
<1>4. /\ b \in Seq(S) /\ Len(b) = Len(c) + 1 /\ b[Len(c) + 1] = e
      /\ \A i \in 1..Len(c) : b[i] = c[i]
  BY <1>3
<1> HIDE DEF b
<1>5. ASSUME NEW i \in 1..(Len(p) + Len(q) + 1) PROVE a[i] = b[i]
  <2>1. CASE i \in 1..Len(p)
    <3>1. i \in 1..Len(c)
      BY <1>1, <1>3, <2>1
    <3> QED
      BY Zenon, <1>2, <1>3, <1>4, <2>1, <3>1
  <2>2. CASE i = Len(p) + Len(q) + 1
    <3>1. Len(q) + 1 \in 1..Len(r) /\ i = Len(p) + (Len(q) + 1) /\ i = Len(c) + 1
      BY <1>1, <1>3, <2>2
    <3> QED
      BY Zenon, <1>1, <1>2, <1>4, <3>1
  <2>3. CASE i \notin 1..Len(p) /\ i # Len(p) + Len(q) + 1
    <3> DEFINE h == i - Len(p)
    <3>1. h \in 1..Len(q) /\ h \in 1..Len(r) /\ i = Len(p) + h /\ i \in 1..Len(c)
      BY <1>1, <1>3, <2>3
    <3> HIDE DEF h
    <3> QED
      BY Zenon, <1>1, <1>2, <1>3, <1>4, <3>1
  <2> QED
    BY Zenon, <1>1, <2>1, <2>2, <2>3
<1>6. Len(a) = Len(p) + Len(q) + 1 /\ Len(b) = Len(p) + Len(q) + 1
  BY <1>1, <1>2, <1>3, <1>4
<1>7. a = b
  BY SMTT(60), <1>2, <1>4, <1>5, <1>6
<1> QED
  BY Zenon, <1>7 DEF a, b, c, r

\* A new element at the end of the first sequence keeps the order, when the second
\* does not have it or has it last.
LEMMA OrderAppendLeft ==
  ASSUME NEW S, NEW p \in Seq(S), NEW q \in Seq(S), NEW e \in S,
         InOrder(p, q), NoRepeats(q), e \notin Elements(p),
         e \in Elements(q) => e = q[Len(q)]
  PROVE  InOrder(Append(p, e), q)
<1> DEFINE r == Append(p, e)
<1>1. /\ DOMAIN p = 1..Len(p) /\ DOMAIN q = 1..Len(q) /\ DOMAIN r = 1..(Len(p) + 1)
      /\ Len(p) \in Nat /\ Len(q) \in Nat
      /\ r[Len(p) + 1] = e /\ \A i \in 1..Len(p) : r[i] = p[i]
  OBVIOUS
<1> HIDE DEF r
<1> SUFFICES ASSUME NEW i \in DOMAIN r, NEW j \in DOMAIN r, NEW k \in DOMAIN q,
                    NEW l \in DOMAIN q, r[i] = q[k], r[j] = q[l], i < j
             PROVE  k < l
  BY Zenon DEF InOrder, r
<1>2. i \in 1..Len(p) /\ r[i] = p[i]
  BY <1>1
<1>3. CASE j \in 1..Len(p)
  BY Zenon, <1>1, <1>2, <1>3 DEF InOrder
<1>4. CASE j = Len(p) + 1
  <2>1. q[l] = e /\ q[l] = q[Len(q)] /\ Len(q) \in DOMAIN q
    BY <1>1, <1>4 DEF Elements
  <2>2. l = Len(q)
    BY Zenon, <2>1 DEF NoRepeats
  <2>3. q[k] # e
    BY Zenon, <1>1, <1>2 DEF Elements
  <2> QED
    BY <1>1, <2>1, <2>2, <2>3
<1> QED
  BY <1>1, <1>3, <1>4

\* The same at the end of the second.
LEMMA OrderAppendRight ==
  ASSUME NEW S, NEW p \in Seq(S), NEW q \in Seq(S), NEW e \in S,
         InOrder(p, q), NoRepeats(p), e \notin Elements(q),
         e \in Elements(p) => e = p[Len(p)]
  PROVE  InOrder(p, Append(q, e))
<1> DEFINE r == Append(q, e)
<1>1. /\ DOMAIN p = 1..Len(p) /\ DOMAIN q = 1..Len(q) /\ DOMAIN r = 1..(Len(q) + 1)
      /\ Len(p) \in Nat /\ Len(q) \in Nat
      /\ r[Len(q) + 1] = e /\ \A i \in 1..Len(q) : r[i] = q[i]
  OBVIOUS
<1> HIDE DEF r
<1> SUFFICES ASSUME NEW i \in DOMAIN p, NEW j \in DOMAIN p, NEW k \in DOMAIN r,
                    NEW l \in DOMAIN r, p[i] = r[k], p[j] = r[l], i < j
             PROVE  k < l
  BY Zenon DEF InOrder, r
<1>2. CASE k \in 1..Len(q) /\ l \in 1..Len(q)
  BY Zenon, <1>1, <1>2 DEF InOrder
<1>3. CASE k \in 1..Len(q) /\ l = Len(q) + 1
  BY <1>1, <1>3
<1>4. CASE k = Len(q) + 1
  <2>1. p[i] = e /\ p[i] = p[Len(p)] /\ Len(p) \in DOMAIN p
    BY <1>1, <1>4 DEF Elements
  <2>2. i = Len(p)
    BY Zenon, <2>1 DEF NoRepeats
  <2> QED
    BY <1>1, <2>2
<1> QED
  BY <1>1, <1>2, <1>3, <1>4

\* The same for what comes first in both.
LEMMA OrderFirstPart ==
  ASSUME NEW S, NEW p \in Seq(S), NEW q \in Seq(S), NEW u \in Seq(S), NEW v \in Seq(S),
         InOrder(p \o u, q \o v)
  PROVE  InOrder(p, q)
<1>1. /\ \A i \in 1..Len(p) : i \in DOMAIN (p \o u) /\ (p \o u)[i] = p[i]
      /\ \A i \in 1..Len(q) : i \in DOMAIN (q \o v) /\ (q \o v)[i] = q[i]
      /\ DOMAIN p = 1..Len(p) /\ DOMAIN q = 1..Len(q)
  <2>1. \A i \in 1..Len(p) : i \in 1..(Len(p) + Len(u))
    OBVIOUS
  <2>2. \A i \in 1..Len(q) : i \in 1..(Len(q) + Len(v))
    OBVIOUS
  <2> QED
    BY <2>1, <2>2, ConcatPlaces
<1> QED
  BY Zenon, <1>1 DEF InOrder

----------------------------------------------------------------------------
(* The subscribers agree on the order.                                     *)

\* Two subscribers were handed what they have both got in the same order, and
\* whoever got the event that is being passed on got it last.
OrderInv ==
    /\ \A s, r \in Subscribers : InOrder(Got(s), Got(r))
    /\ PassingOn => \A s \in Subscribers :
         dev \in Elements(Got(s)) => dev = Got(s)[Len(Got(s))]

\* What the types and the invariant say of what a subscriber got.
LEMMA GotFacts ==
  ASSUME TypeOK, Safe, NEW s \in Subscribers
  PROVE  /\ Got(s) \in Seq(Event) /\ NoRepeats(Got(s))
         /\ Elements(Got(s)) = Elements(delivered[s]) \cup Elements(work[s])
         /\ Elements(Got(s)) \subseteq event_files
         /\ Elements(Got(s)) \cap Elements(queue) = {}
         /\ PassingOn /\ s \in todo => dev \notin Elements(Got(s))
<1>1. delivered[s] \in Seq(Event) /\ work[s] \in Seq(Event)
  BY Zenon DEF TypeOK
<1>2. /\ NoRepeats(delivered[s]) /\ NoRepeats(work[s])
      /\ Elements(work[s]) \cap Elements(delivered[s]) = {}
      /\ Elements(queue) \cap (Elements(work[s]) \cup Elements(delivered[s])) = {}
      /\ PassingOn /\ s \in todo => dev \notin Elements(work[s]) \cup Elements(delivered[s])
      /\ Elements(work[s]) \cup Elements(delivered[s]) \subseteq event_files
  BY Zenon DEF Safe, OnePlaceInv, DeliveredOnce, PersistedBeforeDelivered
<1>3. /\ Elements(Got(s)) = Elements(delivered[s]) \cup Elements(work[s])
      /\ NoRepeats(Got(s))
  BY <1>1, <1>2, ConcatElements DEF Got
<1>4. Got(s) \in Seq(Event)
  BY <1>1 DEF Got
<1> QED
  BY Zenon, <1>2, <1>3, <1>4

\* A step that hands over nothing, and gives the queue thread no event.
LEMMA PassiveOrder ==
  ASSUME OrderInv, UNCHANGED <<work, delivered, dev>>, PassingOn' => PassingOn
  PROVE  OrderInv'
<1>1. \A s : Got(s)' = Got(s)
  BY Zenon DEF Got
<1> QED
  BY Zenon, <1>1 DEF OrderInv

\* The queue thread takes an event that nobody has got.
LEMMA QueueGetOrder ==
  ASSUME TypeOK, Safe, OrderInv, QueueGet
  PROVE  OrderInv'
<1>1. CASE queue = <<>>
  BY Zenon, <1>1, PassiveOrder DEF QueueGet, PassingOn
<1>2. CASE queue # <<>>
  <2>1. dev' = Head(queue) /\ UNCHANGED <<work, delivered>>
    BY Zenon, <1>2 DEF QueueGet
  <2>2. dev' \in Elements(queue)
    BY <1>2, <2>1, TailElements DEF TypeOK
  <2>3. \A s : Got(s)' = Got(s)
    BY Zenon, <2>1 DEF Got
  <2>4. \A s \in Subscribers : dev' \notin Elements(Got(s))
    BY Zenon, <2>2, GotFacts
  <2> QED
    BY Zenon, <2>3, <2>4 DEF OrderInv
<1> QED
  BY Zenon, <1>1, <1>2

\* It hands the event to the next subscriber, or finds its pool shut and dies.
LEMMA SubmitGot ==
  ASSUME TypeOK, Safe, SubmitCallback
  PROVE  /\ PassingOn /\ UNCHANGED <<dev, delivered, queue, event_files, wpc, wev>>
         /\ \/ ~PassingOn' /\ UNCHANGED <<work, todo>>
            \/ \E s \in Subscribers :
                 /\ s \in todo /\ todo' = todo \ {s} /\ dev \notin Elements(Got(s))
                 /\ Got(s)' = Append(Got(s), dev)
                 /\ \A r \in Subscribers \ {s} : Got(r)' = Got(r)
<1>1. PICK s \in Subscribers :
        /\ Visiting(s)
        /\ IF pool[s] = "open"
           THEN /\ work' = [work EXCEPT ![s] = Append(@, dev)]
                /\ todo' = todo \ {s}
                /\ dpc' = "next"
           ELSE dpc' = "dead" /\ UNCHANGED <<work, todo>>
  BY Zenon DEF SubmitCallback
<1>2. /\ dpc = "submit" /\ PassingOn /\ s \in todo
      /\ UNCHANGED <<dev, delivered, queue, event_files, wpc, wev>>
  BY Zenon, <1>1 DEF SubmitCallback, PassingOn, Visiting, store, writer
<1>3. CASE pool[s] # "open"
  BY Zenon, <1>1, <1>2, <1>3 DEF PassingOn
<1>4. CASE pool[s] = "open"
  <2>1. /\ work' = [work EXCEPT ![s] = Append(@, dev)]
        /\ work \in [Subscribers -> Seq(Event)] /\ dev \in Event
        /\ work[s] \in Seq(Event) /\ delivered[s] \in Seq(Event)
    BY Zenon, <1>1, <1>4 DEF TypeOK
  <2>2. work'[s] = Append(work[s], dev) /\ \A r \in Subscribers \ {s} : work'[r] = work[r]
    BY Zenon, <2>1
  <2>3. delivered[s] \o Append(work[s], dev) = Append(delivered[s] \o work[s], dev)
    <3>1. delivered[s] \in Seq(Event) /\ work[s] \in Seq(Event) /\ dev \in Event
      BY Zenon, <2>1
    <3>2. \A d, w \in Seq(Event), e \in Event : d \o Append(w, e) = Append(d \o w, e)
      BY ConcatAppend
    <3> QED
      BY Zenon, <3>1, <3>2
  <2>4. Got(s)' = Append(Got(s), dev) /\ \A r \in Subscribers \ {s} : Got(r)' = Got(r)
    BY Zenon, <1>2, <2>2, <2>3 DEF Got
  <2>5. dev \notin Elements(Got(s))
    BY Zenon, <1>2, GotFacts
  <2> QED
    BY Zenon, <1>1, <1>2, <1>4, <2>4, <2>5
<1> QED
  BY Zenon, <1>3, <1>4

\* Whoever got the event before this subscriber got it last.
LEMMA SubmitOrder ==
  ASSUME TypeOK, Safe, OrderInv, SubmitCallback
  PROVE  OrderInv'
<1>1. PassingOn /\ UNCHANGED <<dev, delivered>>
  BY Zenon, SubmitGot
<1>2. CASE ~PassingOn' /\ UNCHANGED <<work, todo>>
  BY Zenon, <1>1, <1>2, PassiveOrder
<1>3. ASSUME NEW s \in Subscribers, dev \notin Elements(Got(s)),
             Got(s)' = Append(Got(s), dev),
             \A r \in Subscribers \ {s} : Got(r)' = Got(r)
      PROVE  OrderInv'
  <2>1. dev \in Event /\ \A r \in Subscribers : Got(r) \in Seq(Event) /\ NoRepeats(Got(r))
    BY Zenon, GotFacts DEF TypeOK
  <2>2. \A r \in Subscribers : dev \in Elements(Got(r)) => dev = Got(r)[Len(Got(r))]
    BY Zenon, <1>1 DEF OrderInv
  <2>3. \A a, b \in Subscribers : InOrder(Got(a), Got(b))
    BY Zenon DEF OrderInv
  <2>4. NoRepeats(Append(Got(s), dev))
    BY Zenon, <1>3, <2>1, AppendElements
  <2>5. ASSUME NEW a \in Subscribers, NEW b \in Subscribers PROVE InOrder(Got(a)', Got(b)')
    <3>1. CASE a = s /\ b = s
      BY <1>3, <2>4, <3>1 DEF InOrder, NoRepeats
    <3>2. CASE a = s /\ b # s
      <4>1. InOrder(Append(Got(s), dev), Got(b))
        BY Zenon, <1>3, <2>1, <2>2, <2>3, OrderAppendLeft
      <4> QED
        BY Zenon, <1>3, <3>2, <4>1
    <3>3. CASE a # s /\ b = s
      <4>1. InOrder(Got(a), Append(Got(s), dev))
        BY Zenon, <1>3, <2>1, <2>2, <2>3, OrderAppendRight
      <4> QED
        BY Zenon, <1>3, <3>3, <4>1
    <3>4. CASE a # s /\ b # s
      BY Zenon, <1>3, <2>3, <3>4
    <3> QED
      BY Zenon, <3>1, <3>2, <3>3, <3>4
  <2>6. \A r \in Subscribers : dev' \in Elements(Got(r)') => dev' = Got(r)'[Len(Got(r)')]
    <3>1. Append(Got(s), dev)[Len(Append(Got(s), dev))] = dev
      BY <2>1
    <3> QED
      BY Zenon, <1>1, <1>3, <2>2, <3>1
  <2> QED
    BY Zenon, <2>5, <2>6 DEF OrderInv
<1> QED
  BY Zenon, <1>2, <1>3, SubmitGot

\* A pool's worker moves an event on within what its subscriber got.
LEMMA RunCallbackGot ==
  ASSUME TypeOK, NEW s \in Subscribers, RunCallback(s)
  PROVE  /\ \A r \in Subscribers : Got(r)' = Got(r)
         /\ UNCHANGED <<dpc, dev, todo, queue, event_files, wpc, wev>>
<1>1. /\ work[s] # <<>> /\ work[s] \in Seq(Event) /\ delivered[s] \in Seq(Event)
      /\ delivered' = [delivered EXCEPT ![s] = Append(@, Head(work[s]))]
      /\ work' = [work EXCEPT ![s] = Tail(@)]
      /\ UNCHANGED <<dpc, dev, todo, queue, event_files, wpc, wev>>
      /\ work \in [Subscribers -> Seq(Event)] /\ delivered \in [Subscribers -> Seq(Event)]
  BY Zenon DEF RunCallback, dispatcher, store, writer, TypeOK
<1>2. /\ work'[s] = Tail(work[s]) /\ delivered'[s] = Append(delivered[s], Head(work[s]))
      /\ \A r \in Subscribers \ {s} : work'[r] = work[r] /\ delivered'[r] = delivered[r]
  BY Zenon, <1>1
<1>3. Append(delivered[s], Head(work[s])) \o Tail(work[s]) = delivered[s] \o work[s]
  BY Zenon, <1>1, MoveHead
<1> QED
  BY Zenon, <1>1, <1>2, <1>3 DEF Got

\* Handling an event leaves what a subscriber got as it is.
LEMMA RunCallbackOrder ==
  ASSUME TypeOK, OrderInv, NEW s \in Subscribers, RunCallback(s)
  PROVE  OrderInv'
  BY Zenon, RunCallbackGot DEF OrderInv, PassingOn

\* A restart takes away the end of what a subscriber got.
LEMMA CrashGot ==
  ASSUME TypeOK, CrashRestart
  PROVE  \A s \in Subscribers : Got(s)' = delivered[s]
<1>1. UNCHANGED delivered /\ \A s \in Subscribers : work'[s] = <<>>
  BY Zenon DEF CrashRestart
<1>2. \A s \in Subscribers : delivered[s] \o <<>> = delivered[s]
  BY DEF TypeOK
<1> QED
  BY Zenon, <1>1, <1>2 DEF Got

\* A restart drops the work of the pools: a first part of what was handed over is left.
LEMMA CrashOrder ==
  ASSUME TypeOK, OrderInv, CrashRestart
  PROVE  OrderInv'
<1>1. ~PassingOn'
  BY Zenon DEF CrashRestart, PassingOn
<1>2. \A s \in Subscribers : delivered[s] \in Seq(Event) /\ work[s] \in Seq(Event)
  BY Zenon DEF TypeOK
<1>3. ASSUME NEW s \in Subscribers, NEW r \in Subscribers PROVE InOrder(delivered[s], delivered[r])
  <2>1. InOrder(delivered[s] \o work[s], delivered[r] \o work[r])
    BY Zenon DEF OrderInv, Got
  <2> QED
    BY Zenon, <1>2, <2>1, OrderFirstPart
<1> QED
  BY Zenon, <1>1, <1>3, CrashGot DEF OrderInv

\* Every other step leaves what the subscribers got, and what the queue thread
\* holds, as it is.
LEMMA OtherSteps ==
  ASSUME [Next]_vars
  PROVE  \/ QueueGet \/ SubmitCallback \/ CrashRestart
         \/ \E s \in Subscribers : RunCallback(s)
         \/ UNCHANGED <<work, delivered, dev>> /\ (PassingOn' => PassingOn)
<1> USE DEF store, writer, dispatcher, subs, owner
<1>1. ASSUME NEW w \in Writers, Publish(w)
      PROVE  UNCHANGED <<work, delivered, dev, dpc>>
  BY ZenonT(30), <1>1 DEF Publish, AddEventLocked, AddEventRaises, WriteFile, StorePage,
                          WriteRaises, QueuePut
<1>2. ASSUME LoopCheck \/ VisitSubscriber \/ LookupPool
      PROVE  UNCHANGED <<work, delivered, dev>> /\ (PassingOn' => PassingOn)
  BY Zenon, <1>2 DEF LoopCheck, VisitSubscriber, LookupPool, PassingOn
<1>3. ASSUME NEW s \in Subscribers, SubscribeCallback(s)
      PROVE  UNCHANGED <<work, delivered, dev, dpc>>
  BY SMTT(30), <1>3 DEF SubscribeCallback
<1>4. ASSUME SubscribePool \/ CleanUp \/ Close
      PROVE  UNCHANGED <<work, delivered, dev, dpc>>
  BY Zenon, <1>4 DEF SubscribePool, CleanUp, ShutdownPool, ShutdownReturns, UnregisterCallback,
              Close, CloseStop, CloseJoin, CloseDrain
<1>5. CASE UNCHANGED vars
  BY Zenon, <1>5 DEF vars, PassingOn
<1> QED
  BY Zenon, <1>1, <1>2, <1>3, <1>4, <1>5 DEF Next, Dispatch, PassingOn

\* Every step keeps the order.
LEMMA NextOrder == TypeOK /\ Safe /\ OrderInv /\ [Next]_vars => OrderInv'
  BY Zenon, OtherSteps, PassiveOrder, QueueGetOrder, SubmitOrder, RunCallbackOrder, CrashOrder

\* Nobody got anything yet.
LEMMA InitOrder == Init => OrderInv
<1> SUFFICES ASSUME Init PROVE OrderInv
  BY Zenon
<1>1. \A s \in Subscribers : Got(s) = <<>>
  BY DEF Init, Got
<1> QED
  BY <1>1 DEF OrderInv, InOrder, Init, PassingOn

\* Subscribers that have handled the same two events handled them in the same
\* order: the dispatch order of the one queue thread is every pool's order, and a
\* restart, which drops what waits in the pools, changes none of what was handled.
THEOREM SameOrder == Spec => []SameOrderEverywhere
<1>1. TypeOK /\ OrderInv => SameOrderEverywhere
  <2> SUFFICES ASSUME TypeOK, OrderInv, NEW s \in Subscribers, NEW r \in Subscribers
               PROVE  InOrder(delivered[s], delivered[r])
    BY DEF SameOrderEverywhere, InOrder
  <2>1. InOrder(delivered[s] \o work[s], delivered[r] \o work[r])
    BY Zenon DEF OrderInv, Got
  <2>2. /\ delivered[s] \in Seq(Event) /\ work[s] \in Seq(Event)
        /\ delivered[r] \in Seq(Event) /\ work[r] \in Seq(Event)
    BY Zenon DEF TypeOK
  <2> QED
    BY Zenon, <2>1, <2>2, OrderFirstPart
<1> QED
  BY <1>1, InitOrder, NextOrder, SafeCorrect, PTL DEF Spec

----------------------------------------------------------------------------
(* close() is final.                                                       *)

\* A pool that is gone has no work, a subscriber without a callback has no pool,
\* and the owner's call is about the subscriber it began with; once close() has
\* returned no subscriber has a callback.
ClosedInv ==
    /\ \A s \in Subscribers : pool[s] = "none" => work[s] = <<>>
    /\ \A s \in Subscribers \ registered : pool[s] = "none"
    /\ opc = "subscribe" => osub \in registered
    /\ opc = "unregister" => pool[osub] = "none"
    /\ opc = "closed" => registered = {}

\* The subscribers that are registered at the start have their pools.
LEMMA InitClosed == Init => ClosedInv
  BY Zenon, SubscribersAssumption DEF Init, ClosedInv, InitialPools

\* Every step keeps it: only an open pool is given work, only an empty one is
\* given up, and nobody subscribes during or after close().
LEMMA NextClosed == TypeOK /\ ClosedInv /\ [Next]_vars => ClosedInv'
<1> SUFFICES ASSUME TypeOK, ClosedInv, [Next]_vars PROVE ClosedInv'
  BY Zenon
<1> USE DEF store, writer, dispatcher, subs, owner
<1>1. CASE UNCHANGED <<work, pool, registered, opc, osub>>
  BY Zenon, <1>1 DEF ClosedInv
<1>2. ASSUME NEW w \in Writers, Publish(w)
      PROVE  UNCHANGED <<work, pool, registered, opc, osub>>
  BY ZenonT(30), <1>2 DEF Publish, AddEventLocked, AddEventRaises, WriteFile, StorePage,
                          WriteRaises, QueuePut
<1>3. ASSUME LoopCheck \/ QueueGet \/ VisitSubscriber \/ LookupPool
      PROVE  UNCHANGED <<work, pool, registered, opc, osub>>
  BY Zenon, <1>3 DEF LoopCheck, QueueGet, VisitSubscriber, LookupPool
<1>4. CASE SubmitCallback
  <2>1. PICK s \in Subscribers :
          \/ pool[s] = "open" /\ work' = [work EXCEPT ![s] = Append(@, dev)]
          \/ work' = work
    BY Zenon, <1>4 DEF SubmitCallback
  <2>2. UNCHANGED <<pool, registered, opc, osub>>
    BY Zenon, <1>4 DEF SubmitCallback
  <2>3. \A r \in Subscribers : pool[r] = "none" => work'[r] = work[r]
    BY Zenon, <2>1 DEF TypeOK
  <2> QED
    BY Zenon, <2>2, <2>3 DEF ClosedInv
<1>5. ASSUME NEW s \in Subscribers, RunCallback(s) PROVE ClosedInv'
  <2>1. work[s] # <<>> /\ work' = [work EXCEPT ![s] = Tail(@)] /\ UNCHANGED <<pool, registered, opc, osub>>
    BY Zenon, <1>5 DEF RunCallback
  <2>2. \A r \in Subscribers : pool[r] = "none" => work'[r] = work[r]
    BY Zenon, <2>1 DEF ClosedInv, TypeOK
  <2> QED
    BY Zenon, <2>1, <2>2 DEF ClosedInv
<1>6. ASSUME NEW s \in Subscribers, SubscribeCallback(s) PROVE ClosedInv'
  BY Zenon, <1>6 DEF SubscribeCallback, ClosedInv
<1>7. CASE SubscribePool
  <2>1. /\ pool' = [pool EXCEPT ![osub] = "open"] /\ osub \in registered /\ opc' = "idle"
        /\ UNCHANGED <<work, registered>>
    BY Zenon, <1>7 DEF SubscribePool, ClosedInv
  <2>2. \A r \in Subscribers : pool'[r] = IF r = osub THEN "open" ELSE pool[r]
    BY Zenon, <2>1 DEF TypeOK
  <2> QED
    BY <2>1, <2>2 DEF ClosedInv
<1>8. ASSUME NEW s \in Subscribers, ShutdownPool(s) PROVE ClosedInv'
  <2>1. /\ pool' = [pool EXCEPT ![s] = "shut"] /\ s \in registered /\ opc' = "shutdown"
        /\ UNCHANGED <<work, registered>>
    BY Zenon, <1>8 DEF ShutdownPool
  <2>2. \A r \in Subscribers : pool'[r] = IF r = s THEN "shut" ELSE pool[r]
    BY Zenon, <2>1 DEF TypeOK
  <2> QED
    BY <2>1, <2>2 DEF ClosedInv
<1>9. CASE ShutdownReturns
  <2>1. /\ pool' = [pool EXCEPT ![osub] = "none"] /\ work[osub] = <<>> /\ opc' = "unregister"
        /\ osub \in Subscribers
        /\ UNCHANGED <<work, registered, osub>>
    BY Zenon, <1>9 DEF ShutdownReturns, TypeOK
  <2>2. \A r \in Subscribers : pool'[r] = IF r = osub THEN "none" ELSE pool[r]
    BY Zenon, <2>1 DEF TypeOK
  <2> QED
    BY Zenon, <2>1, <2>2 DEF ClosedInv
<1>10. CASE UnregisterCallback
  BY Zenon, <1>10 DEF UnregisterCallback, ClosedInv
<1>11. CASE Close
  BY Zenon, <1>11 DEF Close, CloseStop, CloseJoin, CloseDrain, ClosedInv
<1>12. CASE CrashRestart
  BY Zenon, <1>12, SubscribersAssumption DEF CrashRestart, ClosedInv, InitialPools
<1>13. CASE UNCHANGED vars
  BY Zenon, <1>1, <1>13 DEF vars
<1> QED
  BY Zenon, <1>1, <1>2, <1>3, <1>4, <1>5, <1>6, <1>7, <1>8, <1>9, <1>10, <1>11, <1>12, <1>13
     DEF Next, Dispatch, CleanUp

\* Once close() has returned, no callback of the stream runs any more, whatever
\* publishers still queue: there is no pool left to run one.
THEOREM ClosedIsFinal == Spec => NoDeliveryAfterClose
<1>1. TypeOK /\ Safe /\ ClosedInv /\ [Next]_vars
        => [opc = "closed" /\ crashes' = crashes => delivered' = delivered]_vars
  <2> SUFFICES ASSUME TypeOK, Safe, ClosedInv, [Next]_vars, opc = "closed"
               PROVE  delivered' = delivered
    BY Zenon
  <2>1. \A s \in Subscribers : work[s] = <<>>
    BY Zenon DEF ClosedInv
  <2>2. \A s \in Subscribers : ~RunCallback(s)
    BY Zenon, <2>1 DEF RunCallback
  <2>3. UNCHANGED delivered \/ QueueGet \/ SubmitCallback \/ CrashRestart
    BY Zenon, <2>2, OtherSteps
  <2> QED
    BY Zenon, <2>3 DEF QueueGet, SubmitCallback, CrashRestart
<1> QED
  BY <1>1, InitClosed, NextClosed, SafeCorrect, PTL DEF Spec, NoDeliveryAfterClose

----------------------------------------------------------------------------
(* One publisher: ids and places agree.                                    *)

Rising(q) == \A i, j \in DOMAIN q : i < j => q[i].id < q[j].id

\* One publisher's ids rise along the whole path of an event: what is stored comes
\* before what it is adding, what is handed over before what is being passed on,
\* and that before what is queued.
RisingInv ==
    /\ \A w \in Writers : wpc[w] # "idle" => \A e \in event_files \ {wev[w]} : e.id < wev[w].id
    /\ Rising(queue)
    /\ PassingOn => \A e \in Elements(queue) : dev.id < e.id
    /\ \A s \in Subscribers :
         /\ Rising(Got(s))
         /\ \A e \in Elements(Got(s)), f \in Elements(queue) : e.id < f.id
         /\ PassingOn => \A e \in Elements(Got(s)) : e.id < dev.id \/ (s \notin todo /\ e = dev)

\* A higher id at the end, the tail, and a first part keep a sequence rising.
LEMMA RisingAppend ==
  ASSUME NEW q \in Seq(Event), NEW e \in Event, Rising(q),
         \A f \in Elements(q) : f.id < e.id
  PROVE  Rising(Append(q, e))
<1> DEFINE r == Append(q, e)
<1>1. /\ DOMAIN q = 1..Len(q) /\ DOMAIN r = 1..(Len(q) + 1) /\ Len(q) \in Nat
      /\ r[Len(q) + 1] = e /\ \A i \in 1..Len(q) : r[i] = q[i]
  OBVIOUS
<1> HIDE DEF r
<1>2. ASSUME NEW i \in DOMAIN r, NEW j \in DOMAIN r, i < j PROVE r[i].id < r[j].id
  <2>1. i \in 1..Len(q) /\ r[i] = q[i] /\ q[i] \in Elements(q)
    BY <1>1, <1>2 DEF Elements
  <2>2. CASE j \in 1..Len(q)
    BY Zenon, <1>1, <1>2, <2>1, <2>2 DEF Rising
  <2>3. CASE j = Len(q) + 1
    BY Zenon, <1>1, <2>1, <2>3
  <2> QED
    BY <1>1, <2>2, <2>3
<1> QED
  BY Zenon, <1>2 DEF Rising, r

\* The tail.
LEMMA RisingTail ==
  ASSUME NEW q \in Seq(Event), q # <<>>, Rising(q)
  PROVE  Rising(Tail(q)) /\ \A f \in Elements(Tail(q)) : Head(q).id < f.id
<1> DEFINE r == Tail(q)
<1>1. /\ Len(q) \in Nat /\ Len(q) >= 1 /\ Head(q) = q[1]
      /\ DOMAIN q = 1..Len(q) /\ DOMAIN r = 1..(Len(q) - 1)
      /\ \A i \in 1..(Len(q) - 1) : r[i] = q[i + 1]
  OBVIOUS
<1> HIDE DEF r
<1>2. \A i \in DOMAIN r : i + 1 \in DOMAIN q /\ r[i] = q[i + 1] /\ 1 < i + 1
  BY <1>1
<1>3. 1 \in DOMAIN q /\ \A i, j \in DOMAIN r : i < j => i + 1 < j + 1
  BY <1>1
<1>4. Rising(r)
  BY Zenon, <1>2, <1>3 DEF Rising
<1>5. \A f \in Elements(r) : q[1].id < f.id
  BY Zenon, <1>2, <1>3 DEF Rising, Elements
<1> QED
  BY Zenon, <1>1, <1>4, <1>5 DEF r

\* A first part.
LEMMA RisingFirstPart ==
  ASSUME NEW p \in Seq(Event), NEW q \in Seq(Event), Rising(p \o q)
  PROVE  Rising(p)
<1>1. /\ \A i \in 1..Len(p) : i \in DOMAIN (p \o q) /\ (p \o q)[i] = p[i]
      /\ DOMAIN p = 1..Len(p)
  <2>1. \A i \in 1..Len(p) : i \in 1..(Len(p) + Len(q))
    OBVIOUS
  <2> QED
    BY <2>1, ConcatPlaces
<1> QED
  BY <1>1 DEF Rising

\* Nothing is stored or queued yet.
LEMMA InitRising == Init => RisingInv
<1> SUFFICES ASSUME Init PROVE RisingInv
  BY Zenon
<1>1. \A s \in Subscribers : Got(s) = <<>>
  BY DEF Init, Got
<1>2. Rising(<<>>) /\ Elements(<<>>) = {}
  BY EmptyElements DEF Rising
<1> QED
  BY Zenon, <1>1, <1>2 DEF RisingInv, Init, PassingOn

\* A step of the publisher: what it adds is above all that is stored, so above all
\* that is on its way.
LEMMA PublishRising ==
  ASSUME \A w, v \in Writers : w = v,
         TypeOK, Safe, RisingInv, NEW w \in Writers, Publish(w)
  PROVE  RisingInv'
<1> USE DEF store, writer, dispatcher, subs, owner
<1>1. /\ UNCHANGED <<dev, dpc, todo, work, delivered>>
      /\ \A s \in Subscribers : Got(s)' = Got(s)
      /\ PassingOn' = PassingOn
  <2>1. UNCHANGED <<dev, dpc, todo, work, delivered>>
    BY ZenonT(30) DEF Publish, AddEventLocked, AddEventRaises, WriteFile, StorePage,
                      WriteRaises, QueuePut
  <2> QED
    BY Zenon, <2>1 DEF Got, PassingOn
<1>2. wpc \in [Writers -> {"idle", "write", "page", "put"}] /\ wev \in [Writers -> Event]
  BY Zenon DEF TypeOK
<1>3. ASSUME queue' = queue,
             wpc'[w] # "idle" => \A e \in event_files' \ {wev'[w]} : e.id < wev'[w].id
      PROVE  RisingInv'
  <2>1. \A v \in Writers : v = w
    BY Zenon
  <2> QED
    BY Zenon, <1>1, <1>3, <2>1 DEF RisingInv
<1>4. CASE AddEventLocked(w)
  <2> DEFINE e == [id |-> cur_id, call |-> calls + 1]
  <2>1. wev'[w] = e /\ event_files' = event_files /\ queue' = queue
    BY Zenon, <1>2, <1>4 DEF AddEventLocked
  <2>2. \A f \in event_files : f.id < e.id
    BY Zenon DEF Safe, IdInv
  <2> QED
    BY Zenon, <1>3, <2>1, <2>2
<1>5. CASE AddEventRaises(w)
  BY Zenon, <1>3, <1>5 DEF AddEventRaises, RisingInv
<1>6. CASE WriteFile(w)
  <2>1. /\ wpc[w] = "write" /\ UNCHANGED <<wev, queue>>
        /\ event_files' \ {wev[w]} \subseteq event_files \ {wev[w]}
    BY Zenon, <1>6 DEF WriteFile, WriteEventFile
  <2> QED
    BY Zenon, <1>3, <2>1 DEF RisingInv
<1>7. CASE StorePage(w)
  <2>1. wpc[w] = "page" /\ UNCHANGED <<wev, queue, event_files>>
    BY Zenon, <1>7 DEF StorePage
  <2> QED
    BY Zenon, <1>3, <2>1 DEF RisingInv
<1>8. CASE WriteRaises(w)
  <2>1. wpc'[w] = "idle" /\ queue' = queue
    BY Zenon, <1>2, <1>8 DEF WriteRaises
  <2> QED
    BY Zenon, <1>3, <2>1
<1>9. CASE QueuePut(w)
  <2>1. /\ wpc[w] = "put" /\ queue' = Append(queue, wev[w]) /\ wpc'[w] = "idle"
        /\ queue \in Seq(Event) /\ wev[w] \in Event
    BY Zenon, <1>2, <1>9 DEF QueuePut, TypeOK
  <2>2. \A e \in event_files \ {wev[w]} : e.id < wev[w].id
    BY Zenon, <2>1 DEF RisingInv
  <2>3. /\ Elements(queue) \subseteq event_files \ {wev[w]}
        /\ PassingOn => dev \in event_files \ {wev[w]}
        /\ \A s \in Subscribers : Elements(Got(s)) \subseteq event_files \ {wev[w]}
    <3>1. /\ Elements(queue) \subseteq event_files /\ wev[w] \notin Elements(queue)
          /\ PassingOn => dev \in event_files /\ dev # wev[w]
      BY Zenon, <2>1 DEF Safe, PersistedBeforeDelivered, OnePlaceInv
    <3>2. \A s \in Subscribers : wev[w] \notin Elements(work[s]) \cup Elements(delivered[s])
      BY Zenon, <2>1 DEF Safe, OnePlaceInv
    <3> QED
      BY <3>1, <3>2, GotFacts
  <2>4. Rising(queue') /\ Elements(queue') = Elements(queue) \cup {wev[w]}
    BY <2>1, <2>2, <2>3, RisingAppend, AppendElements DEF RisingInv
  <2>5. PassingOn' => \A e \in Elements(queue') : dev'.id < e.id
    BY Zenon, <1>1, <2>2, <2>3, <2>4 DEF RisingInv
  <2>6. ASSUME NEW s \in Subscribers
        PROVE  \A e \in Elements(Got(s)), f \in Elements(queue') : e.id < f.id
    BY Zenon, <2>2, <2>3, <2>4 DEF RisingInv
  <2>7. \A v \in Writers : wpc'[v] = "idle"
    BY Zenon, <2>1
  <2> QED
    BY Zenon, <1>1, <2>4, <2>5, <2>6, <2>7 DEF RisingInv
<1> QED
  BY Zenon, <1>4, <1>5, <1>6, <1>7, <1>8, <1>9 DEF Publish

\* A step of the queue thread: the event it takes is the lowest queued, and above
\* all that was handed over.
LEMMA DispatchRising ==
  ASSUME TypeOK, Safe, RisingInv, Dispatch
  PROVE  RisingInv'
<1> USE DEF store, writer, dispatcher, subs, owner
<1>1. ASSUME UNCHANGED <<event_files, wpc, wev, queue, dev, work, delivered>>,
             PassingOn' => PassingOn, todo' \subseteq todo
      PROVE  RisingInv'
  <2>1. \A s \in Subscribers : Got(s)' = Got(s)
    BY Zenon, <1>1 DEF Got
  <2> QED
    BY Zenon, <1>1, <2>1 DEF RisingInv
<1>2. CASE LoopCheck
  BY Zenon, <1>1, <1>2 DEF LoopCheck, PassingOn
<1>3. CASE QueueGet
  <2>1. CASE queue = <<>>
    BY Zenon, <1>1, <1>3, <2>1 DEF QueueGet, PassingOn
  <2>2. CASE queue # <<>>
    <3>1. /\ dev' = Head(queue) /\ queue' = Tail(queue) /\ queue \in Seq(Event)
          /\ UNCHANGED <<event_files, wpc, wev, work, delivered>>
      BY Zenon, <1>3, <2>2 DEF QueueGet, TypeOK
    <3>2. /\ Rising(queue') /\ \A f \in Elements(queue') : dev'.id < f.id
          /\ Elements(queue) = {dev'} \cup Elements(queue')
      BY Zenon, <2>2, <3>1, RisingTail, TailElements DEF RisingInv
    <3>3. \A s \in Subscribers : Got(s)' = Got(s)
      BY Zenon, <3>1 DEF Got
    <3>4. \A s \in Subscribers : \A e \in Elements(Got(s)), f \in Elements(queue) : e.id < f.id
      BY Zenon DEF RisingInv
    <3>5. \A s \in Subscribers :
            /\ Rising(Got(s)')
            /\ \A e \in Elements(Got(s)'), f \in Elements(queue') : e.id < f.id
            /\ \A e \in Elements(Got(s)') : e.id < dev'.id
      BY Zenon, <3>2, <3>3, <3>4 DEF RisingInv
    <3>6. (\A v \in Writers : wpc[v] # "idle" => \A e \in event_files \ {wev[v]} : e.id < wev[v].id)'
      BY Zenon, <3>1 DEF RisingInv
    <3> QED
      BY Zenon, <3>2, <3>5, <3>6 DEF RisingInv
  <2> QED
    BY Zenon, <2>1, <2>2
<1>4. CASE VisitSubscriber
  BY Zenon, <1>1, <1>4 DEF VisitSubscriber, PassingOn
<1>5. CASE LookupPool
  BY Zenon, <1>1, <1>5 DEF LookupPool, PassingOn
<1>6. CASE SubmitCallback
  <2>1. PassingOn /\ UNCHANGED <<dev, delivered, queue, event_files, wpc, wev>>
    BY Zenon, <1>6, SubmitGot
  <2>2. CASE ~PassingOn' /\ UNCHANGED <<work, todo>>
    BY Zenon, <1>1, <2>1, <2>2
  <2>3. ASSUME NEW s \in Subscribers, s \in todo, todo' = todo \ {s},
               dev \notin Elements(Got(s)),
               Got(s)' = Append(Got(s), dev),
               \A r \in Subscribers \ {s} : Got(r)' = Got(r)
        PROVE  RisingInv'
    <3>1. /\ Rising(Got(s)) /\ \A e \in Elements(Got(s)) : e.id < dev.id
          /\ \A e \in Elements(queue) : dev.id < e.id
          /\ \A e \in Elements(Got(s)), f \in Elements(queue) : e.id < f.id
      BY Zenon, <2>1, <2>3 DEF RisingInv
    <3>2. Got(s) \in Seq(Event) /\ dev \in Event
      BY Zenon, GotFacts DEF TypeOK
    <3>3. Rising(Got(s)') /\ Elements(Got(s)') = Elements(Got(s)) \cup {dev}
      BY <2>3, <3>1, <3>2, RisingAppend, AppendElements
    <3>4. /\ \A e \in Elements(Got(s)'), f \in Elements(queue) : e.id < f.id
          /\ \A e \in Elements(Got(s)') : e.id < dev.id \/ (s \notin todo' /\ e = dev)
      BY Zenon, <2>3, <3>1, <3>3
    <3>5. ASSUME NEW r \in Subscribers \ {s}
          PROVE  /\ Rising(Got(r)')
                 /\ \A e \in Elements(Got(r)'), f \in Elements(queue) : e.id < f.id
                 /\ \A e \in Elements(Got(r)') : e.id < dev.id \/ (r \notin todo' /\ e = dev)
      BY Zenon, <2>1, <2>3 DEF RisingInv
    <3>6. \A r \in Subscribers :
            /\ Rising(Got(r)')
            /\ \A e \in Elements(Got(r)'), f \in Elements(queue') : e.id < f.id
            /\ \A e \in Elements(Got(r)') : e.id < dev'.id \/ (r \notin todo' /\ e = dev')
      BY Zenon, <2>1, <3>3, <3>4, <3>5
    <3>7. /\ (\A v \in Writers : wpc[v] # "idle" => \A e \in event_files \ {wev[v]} : e.id < wev[v].id)'
          /\ Rising(queue') /\ \A e \in Elements(queue') : dev'.id < e.id
      BY Zenon, <2>1, <3>1 DEF RisingInv
    <3> QED
      BY Zenon, <3>6, <3>7 DEF RisingInv
  <2> QED
    BY Zenon, <1>6, <2>2, <2>3, SubmitGot
<1> QED
  BY Zenon, <1>2, <1>3, <1>4, <1>5, <1>6 DEF Dispatch

\* With one publisher every step keeps the ids rising.
LEMMA NextRising ==
  ASSUME \A w, v \in Writers : w = v, TypeOK, Safe, RisingInv, [Next]_vars
  PROVE  RisingInv'
<1> USE DEF store, writer, dispatcher, subs, owner
<1>1. ASSUME NEW w \in Writers, Publish(w) PROVE RisingInv'
  BY Zenon, <1>1, PublishRising
<1>2. CASE Dispatch
  BY Zenon, <1>2, DispatchRising
<1>3. ASSUME NEW s \in Subscribers, RunCallback(s) PROVE RisingInv'
  BY Zenon, <1>3, RunCallbackGot DEF RisingInv, PassingOn
<1>4. ASSUME UNCHANGED <<event_files, wpc, wev, dpc, dev, todo, work, delivered>>,
             queue' \in {queue, <<>>}
      PROVE  RisingInv'
  <2>1. (\A s \in Subscribers : Got(s)' = Got(s)) /\ PassingOn' = PassingOn
    BY Zenon, <1>4 DEF Got, PassingOn
  <2>2. Rising(<<>>) /\ Elements(<<>>) = {}
    BY EmptyElements DEF Rising
  <2>3. Rising(queue') /\ Elements(queue') \subseteq Elements(queue)
    BY Zenon, <1>4, <2>2 DEF RisingInv
  <2> QED
    BY Zenon, <1>4, <2>1, <2>3 DEF RisingInv
<1>5. ASSUME NEW s \in Subscribers, SubscribeCallback(s) PROVE RisingInv'
  <2>1. UNCHANGED <<event_files, wpc, wev, dpc, dev, todo, work, delivered, queue>>
    BY SMTT(30), <1>5 DEF SubscribeCallback
  <2> QED
    BY Zenon, <1>4, <2>1
<1>6. CASE SubscribePool \/ CleanUp
  <2>1. UNCHANGED <<event_files, wpc, wev, dpc, dev, todo, work, delivered, queue>>
    BY Zenon, <1>6 DEF SubscribePool, CleanUp, ShutdownPool, ShutdownReturns, UnregisterCallback
  <2> QED
    BY Zenon, <1>4, <2>1
<1>7. CASE Close
  <2>1. UNCHANGED <<event_files, wpc, wev, dpc, dev, todo, work, delivered>>
    BY Zenon, <1>7 DEF Close, CloseStop, CloseJoin, CloseDrain
  <2>2. queue' \in {queue, <<>>}
    BY Zenon, <1>7 DEF Close, CloseStop, CloseJoin, CloseDrain
  <2> QED
    BY Zenon, <1>4, <2>1, <2>2
<1>8. CASE CrashRestart
  <2>1. ~PassingOn' /\ queue' = <<>> /\ \A w \in Writers : wpc'[w] = "idle"
    BY Zenon, <1>8 DEF CrashRestart, PassingOn
  <2>2. Rising(<<>>) /\ Elements(<<>>) = {}
    BY EmptyElements DEF Rising
  <2>3. ASSUME NEW s \in Subscribers PROVE Rising(Got(s)')
    <3>1. Rising(delivered[s] \o work[s])
      BY Zenon DEF RisingInv, Got
    <3>2. delivered[s] \in Seq(Event) /\ work[s] \in Seq(Event)
      BY Zenon DEF TypeOK
    <3> QED
      BY Zenon, <1>8, <3>1, <3>2, CrashGot, RisingFirstPart
  <2> QED
    BY Zenon, <2>1, <2>2, <2>3 DEF RisingInv
<1>9. CASE UNCHANGED vars
  BY Zenon, <1>4, <1>9 DEF vars
<1> QED
  BY Zenon, <1>1, <1>2, <1>3, <1>5, <1>6, <1>7, <1>8, <1>9 DEF Next

\* With one publishing thread every subscriber handles events in the order of
\* their ids, over any number of restarts: a restart takes its next id from the
\* files, and all that was handed over is in them.
THEOREM IdOrder ==
  ASSUME \A w, v \in Writers : w = v
  PROVE  Spec => []DeliveredInIdOrder
<1>1. TypeOK /\ RisingInv => DeliveredInIdOrder
  <2> SUFFICES ASSUME TypeOK, RisingInv, NEW s \in Subscribers
               PROVE  Rising(delivered[s])
    BY Zenon DEF DeliveredInIdOrder, Rising
  <2>1. Rising(delivered[s] \o work[s])
    BY Zenon DEF RisingInv, Got
  <2>2. delivered[s] \in Seq(Event) /\ work[s] \in Seq(Event)
    BY Zenon DEF TypeOK
  <2> QED
    BY Zenon, <2>1, <2>2, RisingFirstPart
<1>2. TypeOK /\ Safe /\ RisingInv /\ [Next]_vars => RisingInv'
  BY Zenon, NextRising
<1> QED
  BY <1>1, <1>2, InitRising, SafeCorrect, PTL DEF Spec

----------------------------------------------------------------------------
(* The cache pages and the event files.                                    *)

\* Every event that has a slot in a write page.
Paged == UNION {Elements(pages[k]) : k \in DOMAIN pages}

\* A write page holds consecutive ids, the last one up to the next id; an id is
\* in one slot; what is stored, or about to be, has its slot; and a page file is
\* a full write page under the id it starts with.
PageInv ==
    /\ \A k \in DOMAIN pages : \A j \in DOMAIN pages[k] : pages[k][j].id = pages[k][1].id + (j - 1)
    /\ LET last == pages[Len(pages)] IN last # <<>> => last[1].id + Len(last) = cur_id
    /\ \A e \in Paged : e.id < cur_id
    /\ \A e, f \in Paged : e.id = f.id => e = f
    /\ event_files \subseteq Paged
    /\ \A w \in Writers : wpc[w] # "idle" => wev[w] \in Paged
    /\ \A p \in cache_files : \E k \in DOMAIN pages :
         Len(pages[k]) = CACHE_SIZE /\ p.start = pages[k][1].id /\ p.events = pages[k]

\* One empty write page and no files.
LEMMA InitPages == Init => PageInv
<1> SUFFICES ASSUME Init PROVE PageInv
  BY Zenon
<1>1. /\ DOMAIN pages = {1} /\ pages[1] = <<>> /\ Len(pages) = 1 /\ DOMAIN (<<>>) = {}
      /\ event_files = {} /\ cache_files = {} /\ \A w \in Writers : wpc[w] = "idle"
  BY DEF Init
<1>2. Paged = {}
  BY Zenon, <1>1, EmptyElements DEF Paged
<1> QED
  BY Zenon, <1>1, <1>2 DEF PageInv

\* Replacing the last element of a sequence.
LEMMA ReplaceLast ==
  ASSUME NEW S, NEW s \in Seq(S), Len(s) >= 1, NEW x \in S
  PROVE  /\ [s EXCEPT ![Len(s)] = x] \in Seq(S)
         /\ Len([s EXCEPT ![Len(s)] = x]) = Len(s)
         /\ [s EXCEPT ![Len(s)] = x][Len(s)] = x
         /\ \A k \in 1..Len(s) : k # Len(s) => [s EXCEPT ![Len(s)] = x][k] = s[k]
  OBVIOUS

\* What add_event does to the list of write pages: the last one gets the new
\* event, and an empty one follows when that fills it.
LEMMA PagesAfterAdd ==
  ASSUME TypeOK, NEW w \in Writers, AddEventLocked(w),
         NEW e, e = [id |-> cur_id, call |-> calls + 1]
  PROVE  /\ e \in Event /\ Len(pages) \in 1..Len(pages)
         /\ \A k \in 1..Len(pages) : k # Len(pages) => pages'[k] = pages[k]
         /\ pages'[Len(pages)] = Append(pages[Len(pages)], e)
         /\ \/ Len(pages') = Len(pages)
            \/ Len(pages') = Len(pages) + 1 /\ pages'[Len(pages) + 1] = <<>>
         /\ DOMAIN pages = 1..Len(pages) /\ DOMAIN pages' = 1..Len(pages')
<1> DEFINE n == Len(pages)
           page == Append(pages[n], e)
           old == [pages EXCEPT ![n] = page]
<1>1. n \in 1..n /\ n \in Nat /\ pages[n] \in Seq(Event) /\ e \in Event
  BY SMTT(60) DEF TypeOK, Event
<1>2. page \in Seq(Event)
  BY <1>1
<1>3. pages' = IF Len(page) = CACHE_SIZE THEN Append(old, <<>>) ELSE old
  BY Zenon DEF AddEventLocked
<1>4. DOMAIN pages = 1..n /\ pages \in Seq(Seq(Event))
  BY DEF TypeOK
<1>5. pages' \in Seq(Seq(Event))
  BY Zenon, AddEventTypeOK DEF TypeOK
<1> HIDE DEF page
<1>6. /\ old \in Seq(Seq(Event)) /\ Len(old) = n /\ old[n] = page
      /\ \A k \in 1..n : k # n => old[k] = pages[k]
  <2>1. pages \in Seq(Seq(Event)) /\ Len(pages) >= 1 /\ page \in Seq(Event)
    BY Zenon, <1>2, <1>4 DEF TypeOK
  <2> QED
    BY <2>1, ReplaceLast
<1>7. <<>> \in Seq(Event)
  OBVIOUS
<1> HIDE DEF old, n
<1>8. /\ Len(Append(old, <<>>)) = n + 1 /\ Append(old, <<>>)[n + 1] = <<>>
      /\ \A k \in 1..n : Append(old, <<>>)[k] = old[k]
  BY <1>1, <1>6, <1>7
<1>9. /\ \A k \in 1..n : pages'[k] = old[k]
      /\ \/ Len(pages') = n
         \/ Len(pages') = n + 1 /\ pages'[n + 1] = <<>>
  BY Zenon, <1>3, <1>6, <1>8
<1>10. DOMAIN pages' = 1..Len(pages')
  BY <1>5
<1> QED
  BY Zenon, <1>1, <1>4, <1>6, <1>9, <1>10 DEF n, page

\* add_event gives the next slot the next id.
LEMMA AddEventPages ==
  ASSUME TypeOK, PageInv, NEW w \in Writers, AddEventLocked(w)
  PROVE  PageInv'
<1> DEFINE e == [id |-> cur_id, call |-> calls + 1]
           n == Len(pages)
           q == pages[n]
           page == Append(q, e)
<1>1. /\ e \in Event /\ n \in 1..n
      /\ \A k \in 1..n : k # n => pages'[k] = pages[k]
      /\ pages'[n] = page
      /\ \/ Len(pages') = n
         \/ Len(pages') = n + 1 /\ pages'[n + 1] = <<>>
      /\ DOMAIN pages = 1..n /\ DOMAIN pages' = 1..Len(pages')
  BY Zenon, PagesAfterAdd
<1>2. /\ cur_id' = cur_id + 1 /\ cur_id \in Nat /\ wev' = [wev EXCEPT ![w] = e]
      /\ wpc' = [wpc EXCEPT ![w] = "write"] /\ UNCHANGED <<event_files, cache_files>>
      /\ wpc \in [Writers -> {"idle", "write", "page", "put"}] /\ wev \in [Writers -> Event]
      /\ q \in Seq(Event) /\ n \in Nat /\ Len(q) < CACHE_SIZE
  BY DEF AddEventLocked, TypeOK, store
<1>3. e.id = cur_id
  BY Zenon
<1>4. /\ Len(page) = Len(q) + 1 /\ Len(q) \in Nat /\ page[Len(q) + 1] = e
      /\ \A j \in 1..Len(q) : page[j] = q[j]
      /\ DOMAIN q = 1..Len(q) /\ DOMAIN page = 1..(Len(q) + 1)
      /\ q = <<>> <=> Len(q) = 0
      /\ Elements(page) = Elements(q) \cup {e}
  <2> HIDE DEF e, q
  <2>1. e \in Event /\ q \in Seq(Event)
    BY Zenon, <1>1, <1>2
  <2>2. Elements(page) = Elements(q) \cup {e}
    BY <2>1, AppendElements
  <2> QED
    BY <2>1, <2>2
<1>5. /\ \A j \in 1..Len(q) : q[j].id = q[1].id + (j - 1)
      /\ Len(q) # 0 => q[1].id + Len(q) = cur_id
      /\ Len(q) # 0 => q[1] \in Event
  <2>1. \A j \in DOMAIN q : q[j].id = q[1].id + (j - 1)
    BY Zenon, <1>1 DEF PageInv
  <2>2. q # <<>> => q[1].id + Len(q) = cur_id
    BY Zenon DEF PageInv
  <2>3. Len(q) # 0 => q[1] \in Event
    BY <1>2
  <2> HIDE DEF q, page
  <2> QED
    BY Zenon, <1>4, <2>1, <2>2, <2>3
<1> HIDE DEF e, n, q, page
<1>6. page[1].id + Len(page) = cur_id' /\ \A j \in 1..(Len(q) + 1) : page[j].id = page[1].id + (j - 1)
  <2>1. CASE Len(q) = 0
    <3>1. page[1] = e /\ Len(page) = 1
      BY <1>4, <2>1
    <3>2. \A j \in 1..(Len(q) + 1) : j = 1
      BY <2>1
    <3> QED
      BY <1>2, <1>3, <3>1, <3>2
  <2>2. CASE Len(q) # 0
    <3>1. page[1] = q[1] /\ q[1].id \in Nat
      BY <1>4, <1>5, <2>2 DEF Event
    <3>2. page[1].id + Len(page) = cur_id'
      <4>1. /\ page[1].id = q[1].id /\ q[1].id \in Nat /\ Len(page) = Len(q) + 1
            /\ Len(q) \in Nat /\ q[1].id + Len(q) = cur_id /\ cur_id' = cur_id + 1
        BY Zenon, <1>2, <1>4, <1>5, <2>2, <3>1
      <4> QED
        BY SMTT(60), <4>1
    <3>3. ASSUME NEW j \in 1..(Len(q) + 1) PROVE page[j].id = page[1].id + (j - 1)
      <4>1. CASE j \in 1..Len(q)
        BY Zenon, <1>4, <1>5, <3>1, <4>1
      <4>2. CASE j = Len(q) + 1
        BY <1>3, <1>4, <1>5, <2>2, <3>1, <4>2
      <4> QED
        BY <1>4, <4>1, <4>2
    <3> QED
      BY Zenon, <3>2, <3>3
  <2> QED
    BY Zenon, <2>1, <2>2
<1>7. \A k \in DOMAIN pages' : k \in 1..n \/ (k = n + 1 /\ pages'[k] = <<>>)
  <2>1. CASE Len(pages') = n
    BY Zenon, <1>1, <2>1
  <2>2. CASE Len(pages') = n + 1 /\ pages'[n + 1] = <<>>
    <3>1. n \in Nat /\ DOMAIN pages' = 1..(n + 1)
      BY Zenon, <1>1, <1>2, <2>2
    <3>2. \A k \in 1..(n + 1) : k \in 1..n \/ k = n + 1
      BY <3>1
    <3> QED
      BY Zenon, <2>2, <3>1, <3>2
  <2> QED
    BY Zenon, <1>1, <2>1, <2>2
<1>8. n \in DOMAIN pages' /\ \A k \in DOMAIN pages : k \in DOMAIN pages'
  <2>1. n \in Nat /\ Len(pages') \in {n, n + 1}
    BY Zenon, <1>1, <1>2
  <2>2. \A k \in 1..n : k \in 1..Len(pages')
    BY <2>1
  <2> QED
    BY Zenon, <1>1, <2>2
<1>9. Paged' = Paged \cup {e}
  <2>1. Elements(pages'[n]) = Elements(pages[n]) \cup {e}
    BY Zenon, <1>1, <1>4 DEF q
  <2>2. \A k \in DOMAIN pages' : Elements(pages'[k]) \subseteq Paged \cup {e}
    BY Zenon, <1>1, <1>7, <2>1, EmptyElements DEF Paged
  <2>3. \A k \in DOMAIN pages : Elements(pages[k]) \subseteq Elements(pages'[k])
    BY Zenon, <1>1, <2>1
  <2>4. Paged \cup {e} \subseteq Paged'
    BY <1>1, <1>8, <2>1, <2>3 DEF Paged
  <2>5. Paged' \subseteq Paged \cup {e}
    BY Zenon, <2>2 DEF Paged
  <2> QED
    BY Zenon, <2>4, <2>5
<1>10. \A k \in DOMAIN pages' : \A j \in DOMAIN pages'[k] :
         pages'[k][j].id = pages'[k][1].id + (j - 1)
  <2> SUFFICES ASSUME NEW k \in DOMAIN pages', NEW j \in DOMAIN pages'[k]
               PROVE  pages'[k][j].id = pages'[k][1].id + (j - 1)
    BY Zenon
  <2>1. CASE k = n
    BY Zenon, <1>1, <1>4, <1>6, <2>1
  <2>2. CASE k \in 1..n /\ k # n
    BY <1>1, <2>2 DEF PageInv
  <2>3. CASE pages'[k] = <<>>
    BY <2>3
  <2> QED
    BY Zenon, <1>7, <2>1, <2>2, <2>3
<1>11. pages'[Len(pages')] # <<>> => pages'[Len(pages')][1].id + Len(pages'[Len(pages')]) = cur_id'
  BY Zenon, <1>1, <1>6
<1>12. \A f \in Paged' : f.id < cur_id'
  <2>1. \A f \in Paged : f.id < cur_id
    BY Zenon DEF PageInv
  <2>2. \A f \in Paged : f.id \in Nat
    <3>1. \A k \in DOMAIN pages : \A j \in DOMAIN pages[k] : pages[k][j] \in Event
      BY DEF TypeOK
    <3>2. Paged \subseteq Event
      BY <3>1 DEF Paged, Elements
    <3> QED
      BY Zenon, <3>2 DEF Event
  <2> QED
    BY <1>2, <1>3, <1>9, <2>1, <2>2
<1>13. \A f, g \in Paged' : f.id = g.id => f = g
  <2>1. /\ \A f \in Paged : f.id < cur_id
        /\ \A f, g \in Paged : f.id = g.id => f = g
    BY Zenon DEF PageInv
  <2>2. \A f \in Paged : f.id # e.id
    BY <1>2, <1>3, <2>1
  <2> QED
    BY Zenon, <1>9, <2>1, <2>2
<1>14. event_files' \subseteq Paged' /\ \A v \in Writers : wpc'[v] # "idle" => wev'[v] \in Paged'
  BY Zenon, <1>2, <1>9 DEF PageInv
<1>15. ASSUME NEW p \in cache_files'
       PROVE  \E k \in DOMAIN pages' :
                Len(pages'[k]) = CACHE_SIZE /\ p.start = pages'[k][1].id /\ p.events = pages'[k]
  <2>1. PICK k \in DOMAIN pages :
          Len(pages[k]) = CACHE_SIZE /\ p.start = pages[k][1].id /\ p.events = pages[k]
    BY Zenon, <1>2 DEF PageInv
  <2>2. k # n
    BY <1>2, <2>1, BoundsAssumption DEF q
  <2> QED
    BY Zenon, <1>1, <1>8, <2>1, <2>2
<1> QED
  BY Zenon, <1>10, <1>11, <1>12, <1>13, <1>14, <1>15 DEF PageInv

\* Without a death of the process, and as long as no event fails to serialize under
\* the lock, every step keeps the pages and the files together.
LEMMA NextPages ==
  ASSUME MaxCrashes = 0, "serialize" \notin Faults, TypeOK, PageInv, [Next]_vars
  PROVE  PageInv'
<1> USE DEF store, writer, dispatcher, subs, owner
<1>1. ASSUME UNCHANGED <<pages, cur_id, event_files, cache_files, wpc, wev>>
      PROVE  PageInv'
  BY <1>1 DEF PageInv, Paged
<1>2. ASSUME NEW w \in Writers, Publish(w) PROVE PageInv'
  <2>1. CASE AddEventLocked(w)
    BY Zenon, <2>1, AddEventPages
  <2>2. CASE AddEventRaises(w)
    BY Zenon, <2>2 DEF AddEventRaises
  <2>3. wpc \in [Writers -> {"idle", "write", "page", "put"}]
    BY Zenon DEF TypeOK
  <2>4. ASSUME UNCHANGED <<pages, cur_id, cache_files, wev>>,
               event_files' \subseteq event_files \cup {wev[w]}, wpc[w] # "idle",
               NEW c, wpc' = [wpc EXCEPT ![w] = c]
        PROVE  PageInv'
    <3>1. Paged' = Paged
      BY Zenon, <2>4 DEF Paged
    <3>2. wev[w] \in Paged /\ event_files' \subseteq Paged
      BY Zenon, <2>4 DEF PageInv
    <3>3. \A v \in Writers : wpc'[v] # "idle" => wpc[v] # "idle"
      BY Zenon, <2>3, <2>4
    <3> QED
      BY Zenon, <2>4, <3>1, <3>2, <3>3 DEF PageInv
  <2>5. CASE WriteFile(w)
    BY Zenon, <2>4, <2>5 DEF WriteFile, WriteEventFile
  <2>6. CASE StorePage(w)
    <3> DEFINE page == pages[wpage[w]]
    <3>1. /\ UNCHANGED <<pages, cur_id, event_files, wev>> /\ wpc[w] = "page"
          /\ wpc' = [wpc EXCEPT ![w] = "put"]
          /\ cache_files' = IF Len(page) < CACHE_SIZE THEN cache_files
                            ELSE WriteCacheFile(cache_files,
                                   [start |-> page[1].id, events |-> page])
      BY Zenon, <2>6 DEF StorePage
    <3>2. wpage[w] \in DOMAIN pages /\ Len(page) \in Nat /\ Len(page) <= CACHE_SIZE
      BY DEF TypeOK
    <3>3. Paged' = Paged
      BY Zenon, <3>1 DEF Paged
    <3>4. \A v \in Writers : wpc'[v] # "idle" => wpc[v] # "idle"
      BY Zenon, <2>3, <3>1
    <3>5. ASSUME NEW p \in cache_files'
          PROVE  \E k \in DOMAIN pages :
                   Len(pages[k]) = CACHE_SIZE /\ p.start = pages[k][1].id /\ p.events = pages[k]
      <4>1. CASE p \in cache_files
        BY Zenon, <4>1 DEF PageInv
      <4>2. CASE p \notin cache_files
        <5>1. p = [start |-> page[1].id, events |-> page] /\ ~(Len(page) < CACHE_SIZE)
          BY Zenon, <3>1, <4>2 DEF WriteCacheFile
        <5>2. Len(page) = CACHE_SIZE
          BY <3>2, <5>1, BoundsAssumption
        <5> QED
          BY Zenon, <3>2, <5>1, <5>2
      <4> QED
        BY Zenon, <4>1, <4>2
    <3> HIDE DEF page
    <3> QED
      BY Zenon, <3>1, <3>3, <3>4, <3>5 DEF PageInv
  <2>7. CASE WriteRaises(w)
    BY Zenon, <2>4, <2>7 DEF WriteRaises
  <2>8. CASE QueuePut(w)
    BY Zenon, <2>4, <2>8 DEF QueuePut
  <2> QED
    BY Zenon, <1>2, <2>1, <2>2, <2>5, <2>6, <2>7, <2>8 DEF Publish
<1>3. CASE Dispatch
  BY Zenon, <1>1, <1>3 DEF Dispatch, LoopCheck, QueueGet, VisitSubscriber, LookupPool, SubmitCallback
<1>4. ASSUME NEW s \in Subscribers, RunCallback(s) \/ SubscribeCallback(s) PROVE PageInv'
  BY Zenon, <1>1, <1>4 DEF RunCallback, SubscribeCallback
<1>5. CASE SubscribePool \/ CleanUp \/ Close
  BY Zenon, <1>1, <1>5 DEF SubscribePool, CleanUp, ShutdownPool, ShutdownReturns, UnregisterCallback,
                    Close, CloseStop, CloseJoin, CloseDrain
<1>6. CASE CrashRestart
  BY <1>6 DEF CrashRestart, TypeOK
<1>7. CASE UNCHANGED vars
  BY Zenon, <1>1, <1>7 DEF vars
<1> QED
  BY ZenonT(60), <1>2, <1>3, <1>4, <1>5, <1>6, <1>7 DEF Next

\* In one life of the process, while every event serializes, search_events and
\* get_event agree on every stored event, for any page size and any number of
\* publishers racing to store the page they share.
THEOREM SearchAgrees ==
  ASSUME MaxCrashes = 0, "serialize" \notin Faults
  PROVE  Spec => []SearchAgreesWithGet
<1>1. TypeOK /\ PageInv => SearchAgreesWithGet
  <2> SUFFICES ASSUME TypeOK, PageInv, NEW i \in 0..(cur_id - 1), NEW e \in get_event(i)
               PROVE  search_events(i) = get_event(i)
    BY Zenon DEF SearchAgreesWithGet
  <2>1. e \in Paged /\ e.id = i /\ event_files \subseteq Paged
    BY Zenon DEF get_event, PageInv
  <2>2. \A f \in Paged : f.id = i => f = e
    BY Zenon, <2>1 DEF PageInv
  <2>3. get_event(i) = {e}
    BY Zenon, <2>1, <2>2 DEF get_event
  <2>4. ASSUME NEW p \in PageFor(i) PROVE p.events[(i % CACHE_SIZE) + 1] = e
    <3> DEFINE m == i % CACHE_SIZE
    <3>1. i \in Nat /\ m \in 0..(CACHE_SIZE - 1)
      BY BoundsAssumption DEF TypeOK
    <3>2. p \in cache_files /\ p.start = i - m
      BY Zenon DEF PageFor
    <3>3. PICK k \in DOMAIN pages :
            Len(pages[k]) = CACHE_SIZE /\ p.start = pages[k][1].id /\ p.events = pages[k]
      BY Zenon, <3>2 DEF PageInv
    <3> HIDE DEF m
    <3>4. m + 1 \in 1..CACHE_SIZE /\ DOMAIN pages[k] = 1..CACHE_SIZE
      BY SMTT(60), <3>1, <3>3, BoundsAssumption DEF TypeOK
    <3>5. pages[k][m + 1].id = i
      <4>1. pages[k][m + 1].id = pages[k][1].id + ((m + 1) - 1)
        BY Zenon, <3>3, <3>4 DEF PageInv
      <4> QED
        BY <3>1, <3>2, <3>3, <4>1
    <3>6. pages[k][m + 1] \in Paged
      BY <3>3, <3>4 DEF Paged, Elements
    <3> QED
      BY Zenon, <2>2, <3>3, <3>5, <3>6 DEF m
  <2> QED
    BY Zenon, <2>3, <2>4 DEF search_events
<1>2. TypeOK /\ PageInv /\ [Next]_vars => PageInv'
  BY Zenon, NextPages
<1> QED
  BY <1>1, <1>2, InitPages, TypeCorrect, PTL DEF Spec

=============================================================================
