---------------------------- MODULE EventStream ----------------------------
(***************************************************************************)
(* The event stream of one conversation: openhands/events/stream.py on top *)
(* of openhands/events/event_store.py.                                     *)
(*                                                                         *)
(* Any thread may publish (add_event).  The id and the slot in the write   *)
(* page are taken under a lock; the event file, the cache page and the     *)
(* dispatch queue are written after the lock is released, so those steps   *)
(* of different publishers interleave.  One queue thread hands each event  *)
(* to the single-threaded pool of every subscriber.  One owner thread (the *)
(* server's main loop) subscribes, unsubscribes and closes.  The process   *)
(* may die at any step and be started again over the same files.           *)
(*                                                                         *)
(* An event is [id, call]: the id the stream gave it and the number of the *)
(* add_event call that made it, which stands for its content.              *)
(***************************************************************************)
EXTENDS Integers, Sequences, FiniteSets

CONSTANTS
    Writers,             \* threads that call add_event
    Subscribers,         \* subscriber ids: numbers, in the order sorted() visits
    InitialSubscribers,  \* those already subscribed when the behaviour starts
    CACHE_SIZE,          \* EventStore.cache_size
    MaxCalls,            \* bound: calls of add_event
    MaxCrashes,          \* bound: deaths of the process
    Faults,              \* which calls may raise: "serialize", "write", "page"
    MayUnsubscribe,      \* whether the owner unsubscribes
    MayClose             \* whether the owner closes the stream

ASSUME SubscribersAssumption ==
    Subscribers \subseteq Nat /\ InitialSubscribers \subseteq Subscribers

ASSUME BoundsAssumption ==
    CACHE_SIZE \in Nat \ {0} /\ MaxCalls \in Nat /\ MaxCrashes \in Nat

VARIABLES
    event_files,   \* durable: the stored event files, one event per id
    cache_files,   \* durable: the stored cache pages, [start, events]
    cur_id,        \* EventStore._cur_id
    pages,         \* every write page list made so far; the last is _write_page_cache
    wpc,           \* where each publisher stands in add_event
    wev,           \* the event it is adding
    wpage,         \* its current_write_page, an index into pages
    queue,         \* EventStream._queue
    dpc,           \* where the queue thread stands in _process_queue
    dev,           \* the event it is passing on
    todo,          \* subscribers it has yet to visit for that event
    stop_flag,     \* EventStream._stop_flag
    registered,    \* keys of _subscribers that hold a callback
    known,         \* keys of _subscribers, never removed
    pool,          \* the thread pool of each subscriber: none, open or shut down
    work,          \* callbacks submitted to each pool and not finished
    opc,           \* where the owner thread stands
    osub,          \* the subscriber its current call is about
    closing,       \* whether its current call is close()
    delivered,     \* events whose callback has run, per subscriber, in order
    calls,         \* calls of add_event so far
    crashes        \* deaths of the process so far

store == <<event_files, cache_files>>
writer == <<wpc, wev, wpage>>
dispatcher == <<dpc, dev, todo>>
subs == <<registered, known, pool>>
owner == <<opc, osub, closing, stop_flag>>
vars == <<event_files, cache_files, cur_id, pages, wpc, wev, wpage, queue, dpc,
          dev, todo, stop_flag, registered, known, pool, work, opc, osub,
          closing, delivered, calls, crashes>>

Event == [id : Nat, call : Nat]
NoEvent == [id |-> 0, call |-> 0]
NoSubscriber == -1
Page == [start : Nat, events : Seq(Event)]

----------------------------------------------------------------------------
(* EventStore: what the files hold and what a reader gets.                 *)

\* get_event: the content of the event file, if there is one.
get_event(i) == {e \in event_files : e.id = i}

\* Mutant: the next id is the highest one stored.
CurIdAfterRestart_reuse(n) ==
    IF event_files = {} THEN n = 0
    ELSE /\ \E e \in event_files : n = e.id
         /\ \A e \in event_files : e.id <= n

\* _calculate_cur_id: one more than the highest id among the event files.
CurIdAfterRestart(n) ==
    IF event_files = {} THEN n = 0
    ELSE /\ \E e \in event_files : n = e.id + 1
         /\ \A e \in event_files : e.id < n

\* file_store.write of an event file replaces whatever had that name.
WriteEventFile(files, e) == {f \in files : f.id # e.id} \cup {e}

WriteCacheFile(files, p) == {f \in files : f.start # p.start} \cup {p}

\* Mutant: the end of a page is taken to be inside it.
PageFor_inclusive(i) ==
    {p \in cache_files : p.start <= i /\ i <= p.start + CACHE_SIZE}

\* _load_cache_page_for_index: the page file whose name covers index i.
PageFor(i) == {p \in cache_files : p.start = i - (i % CACHE_SIZE)}

\* What search_events yields for index i: the slot of the cached page when the
\* page file exists, else the event file, else nothing.
search_events(i) ==
    IF PageFor(i) # {}
    THEN {p.events[(i % CACHE_SIZE) + 1] : p \in PageFor(i)}
    ELSE get_event(i)

----------------------------------------------------------------------------
InitialPools ==
    [s \in Subscribers |-> IF s \in InitialSubscribers THEN "open" ELSE "none"]

\* A stream as __init__ leaves it, with its first subscribers in place.
Init ==
    /\ pages = << <<>> >>
    /\ wpc = [w \in Writers |-> "idle"]
    /\ wev = [w \in Writers |-> NoEvent]
    /\ wpage = [w \in Writers |-> 1]
    /\ queue = <<>>
    /\ dpc = "check" /\ dev = NoEvent /\ todo = {}
    /\ registered = InitialSubscribers /\ known = InitialSubscribers
    /\ pool = InitialPools
    /\ work = [s \in Subscribers |-> <<>>]
    /\ opc = "idle" /\ osub = NoSubscriber
    /\ closing = FALSE /\ stop_flag = FALSE
    /\ event_files = {}
    /\ cache_files = {}
    /\ cur_id = 0
    /\ delivered = [s \in Subscribers |-> <<>>]
    /\ calls = 0
    /\ crashes = 0

----------------------------------------------------------------------------
(* add_event, by publisher w.                                              *)

\* The block under _lock: take an id, append to the write page, and start a
\* new page when this one is full.
AddEventLocked(w) ==
    /\ wpc[w] = "idle"
    /\ calls < MaxCalls
    /\ LET e == [id |-> cur_id, call |-> calls + 1]
           n == Len(pages)
           page == Append(pages[n], e)
       IN /\ wev' = [wev EXCEPT ![w] = e]
          /\ pages' = IF Len(page) = CACHE_SIZE
                      THEN Append([pages EXCEPT ![n] = page], <<>>)
                      ELSE [pages EXCEPT ![n] = page]
          /\ wpage' = [wpage EXCEPT ![w] = n]
    /\ cur_id' = cur_id + 1
    /\ calls' = calls + 1
    /\ wpc' = [wpc EXCEPT ![w] = "write"]
    /\ UNCHANGED <<store, queue, dispatcher, subs, work, owner, delivered, crashes>>

\* event_to_dict, _replace_secrets or event_from_dict raises under the lock:
\* the id is spent and nothing reaches the page.
AddEventRaises(w) ==
    /\ "serialize" \in Faults
    /\ wpc[w] = "idle"
    /\ calls < MaxCalls
    /\ cur_id' = cur_id + 1
    /\ calls' = calls + 1
    /\ UNCHANGED <<store, pages, writer, queue, dispatcher, subs, work, owner,
                   delivered, crashes>>

\* file_store.write of the event file.
WriteFile(w) ==
    /\ wpc[w] = "write"
    /\ event_files' = WriteEventFile(event_files, wev[w])
    /\ wpc' = [wpc EXCEPT ![w] = "page"]
    /\ UNCHANGED <<cache_files, cur_id, pages, wev, wpage, queue, dispatcher, subs,
                   work, owner, delivered, calls, crashes>>

\* _store_cache_page: nothing unless the page this call appended to is full by
\* now, whoever filled it.
StorePage(w) ==
    /\ wpc[w] = "page"
    /\ LET page == pages[wpage[w]]
       IN cache_files' = IF Len(page) < CACHE_SIZE THEN cache_files
                         ELSE WriteCacheFile(cache_files,
                                 [start |-> page[1].id, events |-> page])
    /\ wpc' = [wpc EXCEPT ![w] = "put"]
    /\ UNCHANGED <<event_files, cur_id, pages, wev, wpage, queue, dispatcher, subs,
                   work, owner, delivered, calls, crashes>>

\* Mutant: the exception is swallowed and the event queued all the same.
WriteRaises_swallowed(w) ==
    /\ \/ wpc[w] = "write" /\ "write" \in Faults
       \/ wpc[w] = "page" /\ "page" \in Faults
             /\ Len(pages[wpage[w]]) >= CACHE_SIZE
    /\ wpc' = [wpc EXCEPT ![w] = "put"]
    /\ UNCHANGED <<store, cur_id, pages, wev, wpage, queue, dispatcher, subs, work,
                   owner, delivered, calls, crashes>>

\* One of the two writes raises: add_event is left, the event is never queued.
WriteRaises(w) ==
    /\ \/ wpc[w] = "write" /\ "write" \in Faults
       \/ wpc[w] = "page" /\ "page" \in Faults
             /\ Len(pages[wpage[w]]) >= CACHE_SIZE
    /\ wpc' = [wpc EXCEPT ![w] = "idle"]
    /\ UNCHANGED <<store, cur_id, pages, wev, wpage, queue, dispatcher, subs, work,
                   owner, delivered, calls, crashes>>

\* _queue.put
QueuePut(w) ==
    /\ wpc[w] = "put"
    /\ queue' = Append(queue, wev[w])
    /\ wpc' = [wpc EXCEPT ![w] = "idle"]
    /\ UNCHANGED <<store, cur_id, pages, wev, wpage, dispatcher, subs, work, owner,
                   delivered, calls, crashes>>

----------------------------------------------------------------------------
(* _process_queue, by the queue thread.                                    *)

\* The loop condition: leave once the stop flag is set.
LoopCheck ==
    /\ dpc = "check"
    /\ dpc' = IF stop_flag THEN "exited" ELSE "get"
    /\ UNCHANGED <<store, cur_id, pages, writer, queue, dev, todo, subs, work, owner,
                   delivered, calls, crashes>>

\* queue.get with its timeout; an event is taken with a copy of the keys.
QueueGet ==
    /\ dpc = "get"
    /\ \/ /\ queue = <<>>
          /\ dpc' = "check"
          /\ UNCHANGED <<queue, dev, todo>>
       \/ /\ queue # <<>>
          /\ dev' = Head(queue)
          /\ queue' = Tail(queue)
          /\ todo' = known
          /\ dpc' = "next"
    /\ UNCHANGED <<store, cur_id, pages, writer, subs, work, owner, delivered, calls,
                   crashes>>

\* sorted(): the queue thread visits the smallest key left.
Visiting(s) == s \in todo /\ \A r \in todo : s <= r

\* The next subscriber, if it still has a callback; at the end, the next event.
VisitSubscriber ==
    /\ dpc = "next"
    /\ \/ todo = {} /\ dpc' = "check" /\ todo' = todo
       \/ \E s \in Subscribers :
            /\ Visiting(s)
            /\ IF s \in registered
               THEN dpc' = "pool" /\ todo' = todo
               ELSE dpc' = "next" /\ todo' = todo \ {s}
    /\ UNCHANGED <<store, cur_id, pages, writer, queue, dev, subs, work, owner,
                   delivered, calls, crashes>>

\* _thread_pools[key][callback_id]: a KeyError ends the queue thread.
LookupPool ==
    /\ dpc = "pool"
    /\ \E s \in Subscribers :
         /\ Visiting(s)
         /\ dpc' = IF pool[s] = "none" THEN "dead" ELSE "submit"
    /\ UNCHANGED <<store, cur_id, pages, writer, queue, dev, todo, subs, work, owner,
                   delivered, calls, crashes>>

\* Mutant: the loop over the subscribers ends after the first submit.
SubmitCallback_firstOnly ==
    /\ dpc = "submit"
    /\ \E s \in Subscribers :
         /\ Visiting(s)
         /\ IF pool[s] = "open"
            THEN /\ work' = [work EXCEPT ![s] = Append(@, dev)]
                 /\ todo' = {}
                 /\ dpc' = "check"
            ELSE dpc' = "dead" /\ UNCHANGED <<work, todo>>
    /\ UNCHANGED <<store, cur_id, pages, writer, queue, dev, subs, owner, delivered,
                   calls, crashes>>

\* Mutant: a subscriber is left in the keys to visit.
SubmitCallback_again ==
    /\ dpc = "submit"
    /\ \E s \in Subscribers :
         /\ Visiting(s)
         /\ IF pool[s] = "open"
            THEN /\ work' = [work EXCEPT ![s] = Append(@, dev)]
                 /\ todo' = IF dev \in {work[s][i] : i \in DOMAIN work[s]}
                            THEN todo \ {s} ELSE todo
                 /\ dpc' = "next"
            ELSE dpc' = "dead" /\ UNCHANGED <<work, todo>>
    /\ UNCHANGED <<store, cur_id, pages, writer, queue, dev, subs, owner, delivered,
                   calls, crashes>>

\* pool.submit: a pool that was shut down raises, which ends the queue thread.
SubmitCallback ==
    /\ dpc = "submit"
    /\ \E s \in Subscribers :
         /\ Visiting(s)
         /\ IF pool[s] = "open"
            THEN /\ work' = [work EXCEPT ![s] = Append(@, dev)]
                 /\ todo' = todo \ {s}
                 /\ dpc' = "next"
            ELSE dpc' = "dead" /\ UNCHANGED <<work, todo>>
    /\ UNCHANGED <<store, cur_id, pages, writer, queue, dev, subs, owner, delivered,
                   calls, crashes>>

\* Mutant: the pool has two workers and the second may finish first.
RunCallback_twoWorkers(s) ==
    /\ work[s] # <<>>
    /\ \E i \in 1..2 :
         /\ i <= Len(work[s])
         /\ delivered' = [delivered EXCEPT ![s] = Append(@, work[s][i])]
         /\ work' = [work EXCEPT ![s] = SubSeq(@, 1, i - 1)
                                          \o SubSeq(@, i + 1, Len(@))]
    /\ UNCHANGED <<store, cur_id, pages, writer, queue, dispatcher, subs, owner,
                   calls, crashes>>

\* The single worker of s's pool runs the oldest callback to its end; an
\* exception in it is logged by the done-callback and changes nothing here.
RunCallback(s) ==
    /\ work[s] # <<>>
    /\ delivered' = [delivered EXCEPT ![s] = Append(@, Head(work[s]))]
    /\ work' = [work EXCEPT ![s] = Tail(@)]
    /\ UNCHANGED <<store, cur_id, pages, writer, queue, dispatcher, subs, owner,
                   calls, crashes>>

----------------------------------------------------------------------------
(* subscribe, unsubscribe and close, by the owner thread.                  *)

\* subscribe: the callback is registered first ...
SubscribeCallback(s) ==
    /\ opc = "idle"
    /\ ~closing
    /\ s \notin known
    /\ registered' = registered \cup {s}
    /\ known' = known \cup {s}
    /\ opc' = "subscribe"
    /\ osub' = s
    /\ UNCHANGED <<store, cur_id, pages, writer, queue, dispatcher, pool, work,
                   closing, stop_flag, delivered, calls, crashes>>

\* ... and its pool second.
SubscribePool ==
    /\ opc = "subscribe"
    /\ pool' = [pool EXCEPT ![osub] = "open"]
    /\ opc' = "idle"
    /\ UNCHANGED <<store, cur_id, pages, writer, queue, dispatcher, registered,
                   known, work, osub, closing, stop_flag, delivered, calls, crashes>>

\* unsubscribe, and close for each subscriber left: pool.shutdown() refuses new
\* work, then waits for the work it has.
ShutdownPool(s) ==
    /\ opc = IF closing THEN "cleaning" ELSE "idle"
    /\ closing \/ MayUnsubscribe
    /\ s \in registered
    /\ pool' = [pool EXCEPT ![s] = "shut"]
    /\ opc' = "shutdown"
    /\ osub' = s
    /\ UNCHANGED <<store, cur_id, pages, writer, queue, dispatcher, registered,
                   known, work, closing, stop_flag, delivered, calls, crashes>>

\* Mutant: shutdown(wait=False).
ShutdownReturns_noWait ==
    /\ opc = "shutdown"
    /\ pool' = [pool EXCEPT ![osub] = "none"]
    /\ opc' = "unregister"
    /\ UNCHANGED <<store, cur_id, pages, writer, queue, dispatcher, registered,
                   known, work, osub, closing, stop_flag, delivered, calls, crashes>>

ShutdownReturns ==
    /\ opc = "shutdown"
    /\ work[osub] = <<>>
    /\ pool' = [pool EXCEPT ![osub] = "none"]
    /\ opc' = "unregister"
    /\ UNCHANGED <<store, cur_id, pages, writer, queue, dispatcher, registered,
                   known, work, osub, closing, stop_flag, delivered, calls, crashes>>

UnregisterCallback ==
    /\ opc = "unregister"
    /\ registered' = registered \ {osub}
    /\ opc' = IF closing THEN "cleaning" ELSE "idle"
    /\ UNCHANGED <<store, cur_id, pages, writer, queue, dispatcher, known, pool, work,
                   osub, closing, stop_flag, delivered, calls, crashes>>

\* Mutant: the queue thread is joined but never told to stop.
CloseStop_noFlag ==
    /\ MayClose
    /\ opc = "idle"
    /\ ~closing
    /\ closing' = TRUE
    /\ opc' = "join"
    /\ UNCHANGED <<store, cur_id, pages, writer, queue, dispatcher, subs, work, osub,
                   stop_flag, delivered, calls, crashes>>

\* close: raise the stop flag, then join the queue thread.
CloseStop ==
    /\ MayClose
    /\ opc = "idle"
    /\ ~closing
    /\ closing' = TRUE
    /\ stop_flag' = TRUE
    /\ opc' = "join"
    /\ UNCHANGED <<store, cur_id, pages, writer, queue, dispatcher, subs, work, osub,
                   delivered, calls, crashes>>

CloseJoin ==
    /\ opc = "join"
    /\ dpc \in {"exited", "dead"}
    /\ opc' = "cleaning"
    /\ UNCHANGED <<store, cur_id, pages, writer, queue, dispatcher, subs, work, osub,
                   closing, stop_flag, delivered, calls, crashes>>

\* Once no subscriber is left close empties the queue and returns.
CloseDrain ==
    /\ opc = "cleaning"
    /\ registered = {}
    /\ queue' = <<>>
    /\ opc' = "closed"
    /\ UNCHANGED <<store, cur_id, pages, writer, dispatcher, subs, work, osub, closing,
                   stop_flag, delivered, calls, crashes>>

----------------------------------------------------------------------------
\* The process dies; a new stream is made over the same files and takes its
\* next id from them.
CrashRestart ==
    /\ crashes < MaxCrashes
    /\ crashes' = crashes + 1
    /\ pages' = << <<>> >>
    /\ wpc' = [w \in Writers |-> "idle"]
    /\ wev' = [w \in Writers |-> NoEvent]
    /\ wpage' = [w \in Writers |-> 1]
    /\ queue' = <<>>
    /\ dpc' = "check" /\ dev' = NoEvent /\ todo' = {}
    /\ registered' = InitialSubscribers /\ known' = InitialSubscribers
    /\ pool' = InitialPools
    /\ work' = [s \in Subscribers |-> <<>>]
    /\ opc' = "idle" /\ osub' = NoSubscriber
    /\ closing' = FALSE /\ stop_flag' = FALSE
    /\ \E n \in 0..cur_id : CurIdAfterRestart(n) /\ cur_id' = n
    /\ UNCHANGED <<store, delivered, calls>>

Publish(w) ==
    \/ AddEventLocked(w) \/ AddEventRaises(w) \/ WriteFile(w) \/ StorePage(w)
    \/ WriteRaises(w) \/ QueuePut(w)

Dispatch ==
    LoopCheck \/ QueueGet \/ VisitSubscriber \/ LookupPool \/ SubmitCallback

CleanUp ==
    \/ \E s \in Subscribers : ShutdownPool(s)
    \/ ShutdownReturns \/ UnregisterCallback

Close == CloseStop \/ CloseJoin \/ CloseDrain

Next ==
    \/ \E w \in Writers : Publish(w)
    \/ Dispatch
    \/ \E s \in Subscribers : RunCallback(s) \/ SubscribeCallback(s)
    \/ SubscribePool
    \/ CleanUp
    \/ Close
    \/ CrashRestart

Spec == Init /\ [][Next]_vars

----------------------------------------------------------------------------
(* Properties.                                                             *)

\* Every variable keeps its type, and no write page outgrows cache_size: the call
\* that fills a page puts an empty one in its place before it leaves the lock.
TypeOK ==
    /\ event_files \subseteq Event
    /\ cache_files \subseteq Page
    /\ cur_id \in Nat
    /\ pages \in Seq(Seq(Event)) /\ Len(pages) >= 1
    /\ \A i \in 1..Len(pages) : Len(pages[i]) <= CACHE_SIZE
    /\ Len(pages[Len(pages)]) < CACHE_SIZE
    /\ wpc \in [Writers -> {"idle", "write", "page", "put"}]
    /\ wev \in [Writers -> Event]
    /\ wpage \in [Writers -> Nat] /\ \A w \in Writers : wpage[w] \in 1..Len(pages)
    /\ queue \in Seq(Event)
    /\ dpc \in {"check", "get", "next", "pool", "submit", "dead", "exited"}
    /\ dev \in Event
    /\ todo \subseteq Subscribers
    /\ registered \subseteq Subscribers
    /\ known \subseteq Subscribers
    /\ pool \in [Subscribers -> {"none", "open", "shut"}]
    /\ work \in [Subscribers -> Seq(Event)]
    /\ opc \in {"idle", "subscribe", "shutdown", "unregister", "join", "cleaning",
                "closed"}
    /\ osub \in Subscribers \cup {NoSubscriber}
    /\ opc \in {"subscribe", "shutdown", "unregister"} => osub \in Subscribers
    /\ closing \in BOOLEAN
    /\ stop_flag \in BOOLEAN
    /\ delivered \in [Subscribers -> Seq(Event)]
    /\ calls \in Nat
    /\ crashes \in Nat

Elements(seq) == {seq[i] : i \in DOMAIN seq}
NoRepeats(seq) == \A i, j \in DOMAIN seq : seq[i] = seq[j] => i = j
PassingOn == dpc \in {"next", "pool", "submit"}

\* An event that a subscriber can ever see - queued, being passed on, submitted
\* to a pool or already handled - is in its event file: add_event stores before
\* it queues, so a handler that rereads the stream finds what it was given.
PersistedBeforeDelivered ==
    /\ Elements(queue) \subseteq event_files
    /\ PassingOn => dev \in event_files
    /\ \A s \in Subscribers :
         Elements(work[s]) \cup Elements(delivered[s]) \subseteq event_files

\* What add_event knows of the id it took, at each of its steps: the id is below
\* cur_id and nobody else's, no event file has it until this call writes one, and
\* from then on that file holds this very event.
IdInv ==
    /\ cur_id <= calls /\ calls <= MaxCalls
    /\ \A e \in event_files : e.id < cur_id
    /\ \A w \in Writers :
         wpc[w] # "idle" => wev[w].id < cur_id /\ wev[w].call \in 1..calls
    /\ \A w, v \in Writers :
         w # v /\ wpc[w] # "idle" /\ wpc[v] # "idle" => wev[w].id # wev[v].id
    /\ \A w \in Writers : wpc[w] = "write" => get_event(wev[w].id) = {}
    /\ \A w \in Writers : wpc[w] \in {"page", "put"} => wev[w] \in event_files

\* An event is in one place on its way to a subscriber: with its publisher, in the
\* queue, with the queue thread, in the pool, or handled; it never goes back and is
\* never in two places, so no path leads to a second delivery.
OnePlaceInv ==
    /\ NoRepeats(queue)
    /\ PassingOn => dev \notin Elements(queue)
    /\ \A w \in Writers : wpc[w] \in {"page", "put"} =>
         /\ wev[w] \notin Elements(queue)
         /\ PassingOn => wev[w] # dev
         /\ \A s \in Subscribers : wev[w] \notin Elements(work[s]) \cup Elements(delivered[s])
    /\ \A s \in Subscribers :
         /\ NoRepeats(work[s])
         /\ Elements(work[s]) \cap Elements(delivered[s]) = {}
         /\ Elements(queue) \cap (Elements(work[s]) \cup Elements(delivered[s])) = {}
         /\ PassingOn /\ s \in todo => dev \notin Elements(work[s]) \cup Elements(delivered[s])

\* A stored event file is never replaced or removed, not even by a stream that
\* was started again over the files of one that died between taking an id and
\* writing its file.
EventFilesImmutable == [][event_files \subseteq event_files']_vars

\* No subscriber's callback runs twice for one event.
DeliveredOnce ==
    \A s \in Subscribers : NoRepeats(delivered[s])

\* Any two subscribers that both handled two events handled them in the same
\* order, whatever the interleaving of publishers: one queue thread feeds every
\* pool and each pool has one worker.
SameOrderEverywhere ==
    \A s, r \in Subscribers :
      \A i, j \in DOMAIN delivered[s] : \A k, l \in DOMAIN delivered[r] :
        (/\ delivered[s][i] = delivered[r][k]
         /\ delivered[s][j] = delivered[r][l]
         /\ i < j) => k < l

\* Each subscriber handles events in the order of their ids.  True of one
\* publishing thread; two threads may queue in the opposite order of the lock.
DeliveredInIdOrder ==
    \A s \in Subscribers : \A i, j \in DOMAIN delivered[s] :
      i < j => delivered[s][i].id < delivered[s][j].id

\* search_events and get_event never disagree about a stored event: a cache page
\* that a reader picks up for an index holds in that slot what the event file of
\* that index holds.
SearchAgreesWithGet ==
    \A i \in 0..(cur_id - 1) :
      get_event(i) # {} => search_events(i) = get_event(i)

\* Once close() has returned no callback of this stream runs again.
NoDeliveryAfterClose == [][opc = "closed" /\ crashes' = crashes
                             => delivered' = delivered]_vars

Log == INSTANCE EventLog WITH log <- event_files, seen <- delivered

\* The stream implements the event log: its event files are the log, and what the
\* callbacks ran for is what the subscribers have seen.
LogSpec == Log!Spec

\* The queue thread outlives a subscriber leaving while it iterates.
QueueThreadSurvives == dpc # "dead"

\* Fairness: every started thread keeps running - a publisher inside add_event,
\* the queue thread, the pool workers, the owner inside a call it has begun.
\* Nobody has to start an add_event, a subscribe, an unsubscribe or a close.
Fairness ==
    /\ \A w \in Writers : WF_vars(WriteFile(w) \/ StorePage(w) \/ QueuePut(w))
    /\ WF_vars(Dispatch)
    /\ \A s \in Subscribers : WF_vars(RunCallback(s))
    /\ WF_vars(SubscribePool \/ ShutdownReturns \/ UnregisterCallback)
    /\ WF_vars(CloseJoin \/ CloseDrain
                 \/ (closing /\ \E s \in Subscribers : ShutdownPool(s)))

FairSpec == Spec /\ Fairness

\* Every event whose add_event stored it is handled by every subscriber, as
\* long as nobody leaves, closes or dies.
EventuallyDelivered ==
    \A w \in Writers, s \in Subscribers, c \in 1..MaxCalls, k \in 0..MaxCrashes :
      (wpc[w] = "put" /\ wev[w].call = c /\ pool[s] = "open" /\ crashes = k)
        ~> \/ closing \/ crashes > k
           \/ \E i \in DOMAIN delivered[s] : delivered[s][i].call = c

\* close() returns, even when callbacks are queued in the pools, unless the
\* process dies in it.
CloseTerminates == closing ~> (opc = "closed" \/ ~closing)

=============================================================================
