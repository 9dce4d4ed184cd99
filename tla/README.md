# Formal verification of the agent server

TLA+ models of the parts of this repository in which several threads, tasks or
processes share state, with TLC configurations that check them on small
instances and TLAPS proofs for every instance.  Paths are relative to `src/`.

## 1. The system

A conversation is a sequence of events. Everything an agent, its sandbox, its
memory and its user do is an event that somebody adds to the conversation's
event stream, which stores it and hands it to its subscribers.

| Part | State | Operations | Talks to |
|---|---|---|---|
| Event stream (`openhands/events/stream.py`, `event_store.py`) | next id, write page, event and page files, queue, subscribers, a pool and a loop per callback | `add_event`, `search_events`, `get_event`, `subscribe`, `unsubscribe`, `close`, restart | every part below |
| Agent controller (`openhands/controller/`) | agent state, pending action, control flags, history, delegate | `on_event`, `_step`, `set_agent_state_to`, `_reset`, `start_delegate`, `end_delegate`, save, restore | stream, LLM, session |
| Runtime (`openhands/runtime/`) | sandbox, action in execution | `on_event`, `_handle_action`, `run_action`, connect, close | stream, session (error status) |
| Memory (`openhands/memory/memory.py`) | microagents, workspace information | `on_event`, recall, `set_runtime_status` | stream, session (error status) |
| Condensers and view (`openhands/memory/condenser/`, `view.py`) | none or a summary | `View.from_events`, `condensed_history` | agent |
| Web session (`openhands/server/session/`) | publish queue, agent session, start and close flags | `dispatch`, `send`, `initialize_agent`, `close`, status messages | client, controller |
| Conversation manager (`openhands/server/conversation_manager/`) | active and detached conversations with counts, agent loops, connections | attach, detach, join, start, disconnect, cleanup, close | sessions |
| Clustered manager (`enterprise/server/clustered_conversation_manager.py`) | a key in Redis per conversation that expires, loops and connections per server, messages between servers | join, start, refresh, recover, close, listen | Redis, the other servers |
| Storage (`openhands/storage/`) | files; for webhooks a batch, its size and a timer | write, delete, timer, flush, send with retries | remote store |
| V1 app server (`openhands/app_server/`) | conversations, start tasks, callbacks, sandboxes in SQL | start, webhooks, callbacks, pause | agent servers in sandboxes |
| LLM client (`openhands/llm/`) | retry count, metrics | completion with retries | provider |
| Client (`frontend/src/`) | what it has shown, the last event it knows | connect, reconnect, message, stop, confirm, reject | session |
| Error reporting (`openhands/integrations/devin_integration.py`, `error_router.py`) | recent hashes, counts per hour, active sessions, merges | report, merge, clear | external API |
| Supervisors (`juristech-ext/backend/supervisor_manager.py`) | auto-send counters and pause per session | review, pause, resume | LLM providers |
| Port locks (`openhands/runtime/utils/port_lock.py`) | lock files | acquire, release, cleanup | other processes |

`PROJECT.json` lists these and the remaining parts (agents, routes,
integrations, the rest of the enterprise server, evaluation) with the reason each one is or is
not modelled, and every hazard with its line.

What is hard to get right, and the properties asked of it:

* **Stream.** Ids are given out under a lock, files are written and the queue
  is filled outside it; subscribers come and go while the queue thread walks
  over them; the process may die anywhere.  *A file is never replaced, nothing
  is handled before it is stored or handled twice, all subscribers agree on the
  order, pages agree with files, close returns and nothing runs after it.*
* **Controller.** One pending action at a time decides whether the agent steps;
  user, runtime, memory and main loop all change it.  *No action runs twice or
  without the confirmation it needs; a stop is obeyed; the LLM never sees an
  action without its observation; the iteration limit holds; the agent never
  waits for nobody.*
* **Delegation.** One subscriber passes events to another controller until that
  one has ended. *Nobody is left in the middle; a reopened conversation has the
  history it had.*
* **Conversation manager.** Coroutines await between a check and the use of it.
  *A conversation in use is not disconnected; no loop is out of reach; a joined
  client has one; calls return.*
* **Clustered manager.** A key that expires stands for a loop that runs. *One
  server runs the loop; when it dies its clients get another.*
* **Connecting clients.** A replay of the store, then a room. *What a client
  lacks is what the server let go by.*
* **Batched webhook.** A pool of senders, retries, and a timer that may already
  have fired. *The remote store ends up with the last content of every path.*
* **App server.** The agent server's webhooks race the start that created it.
  *Only an outdated copy takes back what is stored; a callback that is off stays
  off.*
* **Error reporting.** A request is awaited between checks and records. *One
  session per error at a time; the rate per hour.*
* **Port locks.** Locks on files that are unlinked. *A port is given once.*
* **Pure algorithms.** The view and its condensation, the stuck detector, the
  ranges of delegates. *They agree with a definition one can read.*

## 2. Modules

| Module | Models |
|---|---|
| `EventLog` | what users of the stream rely on: an append-only log and subscribers that see each stored event at most once |
| `EventStream`, `MCEventStream`, `EventStreamProofs` | the stream, lock by lock and write by write |
| `AgentController`, `MCAgentController`, `AgentControllerProofs`, `AgentConfirmProofs`, `AgentTurnLemmas`, `AgentTurnProofs` | one conversation: controller, runtime, memory, main loop, client, restart |
| `Delegation` | parent and delegate on one stream, and the history that is rebuilt from it |
| `StuckDetector` | `is_stuck` over the histories an agent can write |
| `Condenser` | the view the LLM is shown and two rolling condensers |
| `ConversationManager`, `MCConversationManager`, `ConversationManagerProofs` | the manager of one server with its sessions and attached conversations |
| `Cluster` | the manager of one server among several |
| `MCManagers` | both managers: a behaviour is of one or of the other |
| `ClientReplay` | a client that connects, drops and connects again |
| `BatchedWebHook` | the mirror of the file store |
| `PortLock` | lock files of ports |
| `ErrorReporting` | deduplication, rate limit, cooldown, sessions |
| `AppConversation` | the stored record of a V1 conversation |
| `MCServices` | the components that share no state, side by side: a behaviour runs one of them |
| `ServicesProofs` | theorems about `PortLock`, `AppConversation`, `ClientReplay` and the sessions of `ErrorReporting` |
| `RemoteProofs` | theorems about `BatchedWebHook`, `Cluster` and the rate limit of `ErrorReporting` |

The variables of modules that `MCServices` and `MCManagers` bring together
start with a letter of their own (`h` hook, `p` ports, `e` errors, `a` app
conversation, `c` condenser, `d` delegation, `k` stuck detector, `r` replay,
`l` cluster).

**EventStream.** A publisher's `add_event` is `AddEventLocked` (id, timestamp,
write page, under the lock; `AddEventRaises` when serialisation fails there),
`WriteFile`, `StorePage` when it filled the page, `QueuePut`; `WriteRaises` ends
it early. The queue thread is `LoopCheck`, `QueueGet`, `VisitSubscriber`,
`LookupPool`, `SubmitCallback`, with the dictionary accesses of
`_process_queue` as steps of their own because the owner's thread changes the
dictionaries meanwhile. A pool runs one callback at a time (`RunCallback`).
`SubscribeCallback`/`SubscribePool` and
`ShutdownPool`/`ShutdownReturns`/`UnregisterCallback` are the halves of
subscribing and cleaning up; `CloseStop`, `CloseJoin`, `CloseDrain` are
`close()`. `CrashRestart` forgets everything but the files and recomputes
the next id from their names. Subscribing, unsubscribing and closing happen on
one owner thread; each subscriber subscribes once; an event's content is the
number of the call that made it.

**AgentController.** `log` is the stream and an event's id its place in it. Each
party has a position in it, because each handles events in that order on a
thread of its own: that they agree on the order is `SameOrderEverywhere` of
`EventStream`. The handlers are operators from a record of what they may
change (`Ctl`) to the record they leave, in the order of the code's calls;
`HandleOnly` and `HandleAndStep` are `on_event` without and with an LLM call;
`LLMActs`, `LLMSpeaks` and `LLMRaises` are the rest of `_step`. `StatusError`
is the main loop's `set_agent_state_to(ERROR)`. The runtime's handler is
`RuntimeAnswers` for what it does not execute, `RuntimeStarts` and
`RuntimeEnds`; the memory's is `MemoryAnswers` or `MemoryFails`, whose status
waits for `MemoryLoopRuns`. The user acts on what their client shows
(`Displayed`), which may lag behind unless `Patient`. A restart rebuilds the
history from the stream and reads the control flags from the last save.
Abstractions: a handler is one step outside the LLM call; an error status
queued on the main loop is handled before a later input of the user; an action
is its tool call number, its confirmation state and its cause; the stuck
detector, the budget and the risk analysis that makes an action need a
confirmation are outcomes; delegation is `Delegation`; replay and loop recovery
are left out.

**Delegation.** `dlog` is the stream; `OnEvent` is the parent's `on_event`, which
passes the event on, takes it, or ends the delegate, and up to the LLM call what
follows; `StepReturns` and `StepRaises` end the call; `Answer` is the runtime or
the memory; `Reopen` builds a new parent with `InitHistory`. Both agents share
the iteration flag. Answers and recalls may be late.

**StuckDetector.** A move is an action with its observation, a message, or a
reply that could not be parsed; the detector's scenarios are operators on the
events of the moves, and `Looping` is the reference definition on the moves.

**Condenser.** `NewEvent` and `RequestCondensation` extend the history,
`StepBegins` takes the view to condense and `StepCondenses` adds the
`CondensationAction`, with events in between; `StepFails` is the step that
finds nothing to forget.

**ConversationManager.** An action is what runs between two points at which a
coroutine is really suspended. Joining, evicting, attaching, the cleanup task,
the route that stops a conversation and the closes they call are processes;
`closer` has a record per caller of `_close_session`. `AgentSession.start` and
`close` are steps of the session they belong to, with the runtime's connect and
the timeout that cancels a close. `stray` and `lost` are ghosts: clients that
joined behind a close's list, and sessions whose entry was overwritten or whose
close was cancelled.

**Cluster.** One conversation. A task that may start the loop serves one
connection: a join, the recovery a server's cleanup makes, or the listener's
(`lwork`: sleep, set, start). `LSet` is the `SET NX` of the key, `LRegister` the
end of `_start_agent_loop`; `LUpdate` and `LExecute` are the two ends of the
pipeline that refreshes the key; `LExpires` is Redis. `_close_session` is
`LBegins`, `LDisconnects`, `LDeletes`, `LClosed`, called by a route or an
eviction, by the cleanup and by the listener, which reads its messages one at a
time (`LReadClose`, `LReadClosing`, `LHandles`). A server that dies comes back
with empty tables. `llapsed` is a ghost: the key expired under a server that
was starting the loop, had not refreshed the key, or was about to delete it. Left out: the connection keys, which
only keep an idle loop from being closed, so `LCloseDue` may close it whether or
not clients elsewhere are known; events and completions sent to another server;
other conversations and the limit on them; failures of Redis.

**ClientReplay.** `RConnect`, `RReplay`, `RReplayed` and `RJoin` are `connect`;
`RPublish` is the session's send to the room; `Receive` is what the client does
with an event; `RDrop` breaks the connection. `rlost` is a ghost of what nobody
will send again.

**BatchedWebHook.** A write is a store write and, later, `Queue` under the lock;
`TimerFires` and `TimerRuns` are apart because a fired timer cannot be
cancelled; a send is an element of `hsends` with its attempts, and a late
request may still arrive after it was given up. `hcrossed` is a ghost of the
paths two updates of which overtook each other or were dropped.

**PortLock.** A file is an inode: opening, locking, probing, releasing and
unlinking are system calls and steps of their own. A container belongs to a
conversation and outlives its runtime: `Connect` attaches to it, and starts it
again on its old port without a lock if it has exited, or begins a search;
`StartContainer` runs a new one; `CloseRuntime` stops one or all and gives the
lock back, or returns early and keeps both; `Delete` removes it.
`CleanupStaleLocks` is the cleanup that an evaluation worker calls
(`evaluation/benchmarks/swefficiency/run_infer.py`). `pbroken` is a ghost of the
ports whose lock file was unlinked while open, or taken without a lock.

**ErrorReporting.** A report is one step up to its request (`Submit`), another when
the answer comes; `ReportCentrally` is the report to the other service, which
shares the rate limit (`Limited`) and nothing else; `Tick` moves the clock, which does not pass a request by more
than its timeout. The `_sync` wrappers run a report on a thread and an event loop
of its own: the model takes the checks of two reports to follow one another,
which the interpreter does not guarantee for them.

**AppConversation.** A handler reads the record, waits, and saves the whole. The
handlers are the web hook (`Update*`, `EventsArrive`), the poller that replaces it
(`Poll*`), the user's two edits (`User*`, `Rename*`) and the runs of the title
callback (`CallbacksRead`, `Title*`, `CallbacksSaved`). A handler that runs the
callback has its session's row of it and its own copy of it, and `Merged` is the
merge of the copy: it writes the columns in which the copy differs from the
session's row.

## 3. Runs

| Run | Instance | Checks |
|---|---|---|
| `stream_concurrent` | 2 publishers, 4 calls, page size 2, 2 subscribers of whom one joins late, unsubscribe and close | `SameOrderEverywhere`, `DeliveredOnce`, `SearchAgreesWithGet`, `NoDeliveryAfterClose` |
| `stream_crash` | 1 publisher, 3 calls, page size 2, 2 subscribers, failing serialisation and writes, 2 deaths, close; fair | `DeliveredInIdOrder`, `PersistedBeforeDelivered`, `LogSpec`, `EventuallyDelivered`, `CloseTerminates` |
| `stream_queue_thread` | unsubscribe during dispatch | violates `QueueThreadSurvives` |
| `controller_turns` | 3 inputs when it is the user's turn, limit 2, failing runtime | `NoSilentHang`, `LLMSeesAnswers`, `WithinLimit` |
| `controller_crash` | 3 inputs at any time, a death, failing runtime and memory | `ConfirmedFirst`, `StartedOnce`, `StopObeyed` |
| `controller_live` | 3 inputs at any time, stuck, over budget, rate limited; fair | `TurnEnds` |
| `controller_stop` | a stop while an action executes | violates `NotExecuted` |
| `controller_late_decision` | a user whose view lags | violates `ConfirmedFirst` |
| `sessions` | one server: 2 conversations with room for 1, 2 clients, 2 requests, a stop, 3 calls; or a cluster: 2 servers, 2 joins, a trouble; fair | `HeldIsConnected`, `NoSilentLoop`, `JoinedHasLoop`, `CallsReturn`; `OneOwner`, `ConnectedGetsLoop` |
| `session_close_waits` | a close during a start | violates `CloseWaitsForStart` |
| `services` | hook: 2 paths, 2 writers, 3 updates or flushes, 2 attempts; ports: 2 workers, 2 conversations, 1 port, 2 files; errors: 2 errors, 3 reports, an hour of 3 ticks; record: 2 handlers, 4 requests; condenser: max_size 6, keep_first 1, 11 events; delegation: limit 2, 2 inputs, a restart; detector: 6 moves of 2 kinds; client: 3 events, 2 drops | `ServicesTypeOK`, `RemoteFollowsStore`, `HookDrains`, `PortGivenOnce`, `StartFindsPortFree`, `TwiceTheLimit`, `OneActiveSession`, `RecordKept`, `CallbackStaysOff`, `ViewKeepsHead`, `RecentKept`, `CondensationSettles`, `ForgottenOnlyWhen`, `ReopenKeepsHistory`, `StuckIffLoop`, `LacksOnlyLost` |
| `delegation_resumes` | a delegate while the parent waits for an answer | violates `NobodyForgotten` |

**Bounds.** Two publishers and a page of two are the least for which a page is
shared, filled by one publisher and overtaken by the other; four calls fill two
pages. Three inputs are a message, an interruption and a message after it. A
limit of two lets the agent take a step after an observation and then hit it,
and be resumed. Two conversations with room for one make every second join
evict; three calls (a leave, an attach, a stop and a join are calls) are two joins and
a stop, or a join, an attach and a stop.
In the cluster a trouble is a client that leaves, a close, a start that raises, a
lapse of the key or a death; with two joins each of them meets a loop that is
starting, running or closing while the other server has a client (with two
troubles, about 1.5 million states, both properties hold as well, in more time
than a run should take). Three updates of two paths let one overtake another in
the store, in the batch and on its way. Two inodes are a lock file and its
replacement, and two conversations a container that is run and one that is
started again. Five ticks and an hour of three let the counters be
cleared inside an hour of the clock. Eleven events are a full view, its
condensation, and another on request. Six moves are the longest pattern.
Symmetry is used for publishers only, and not with liveness. Deadlock is not
checked where the system may rest: a closed stream, a user who sends no more,
everybody gone.

**Fairness.** Threads that have started go on: publishers inside `add_event`, the
queue thread, pool workers, an owner inside a call; the controller, runtime and
memory callbacks, the main loop; the executor and timers of the hook. For the
managers it is one condition on all event loops together: something that can
run does. Refreshing the key of the cluster is not part of it and is not needed;
that Redis expires a key that nobody refreshes is. LLM calls and runtime actions
end because both have timeouts. Nobody owes a call, an input, a death or a
close.

## 4. What the runs show beyond the properties

Where a property names its exceptions, or is claimed for a part of the
instances, a schedule is behind it. The violation runs come first.

* `stream_queue_thread`: unsubscribing between the check for a callback and the
  use of its pool raises in the queue thread and ends it for everybody.
* `controller_stop`: the runtime executes an action that the agent is told was
  not executed.
* `controller_late_decision`: a confirmation names no action and confirms the
  one that is pending when it arrives.
* `session_close_waits`: `AgentSession.close` compares the clocks the wrong way
  round, so it gives up waiting for a start after the first interval.
* `delegation_resumes`: while there is a delegate every event goes to it, also
  the answer the parent waits for. Two more ways are in `ForgottenOnlyWhen`: a
  delegate resumed after the iteration limit, whose last error still names the
  limit when it has finished, and a second delegation of the parent that was
  passed on to the first delegate.

*Stream.*

* With two publishers a page may be stored before the other publisher's event
  file, events may be queued in the opposite order of their ids
  (`DeliveredInIdOrder`), and after a death in between a page may disagree with
  the file written later under the same id (`SearchAgreesWithGet`). Hence the
  first is claimed for one publisher, the last without a death.
* An `add_event` that raises under the lock spends an id without a page slot, and
  later pages are shifted against the ids. `SearchAgreesWithGet` is claimed
  without this fault.

*Controller.*

* A message while an action executes replaces the pending action by its recall,
  so the LLM may be called before the action is answered: `LLMSeesAnswers` is
  claimed for a user who waits.
* A stop answers the pending action and leaves the runtime at work on it. When the
  user goes on at once, what the runtime then says comes into the next turn. If
  the action fails, its status sets ERROR during the next LLM call; the action
  that the LLM returns becomes pending in ERROR, and the user's next message
  replaces it by a recall. If the status comes between a confirmation and its
  handling, the confirmation finds nothing pending, and the agent stays in
  USER_CONFIRMED. If the action succeeds, its observation makes the agent step a
  second time although it may just have finished. These take a fourth input or
  a fourth iteration; `LLMSeesAnswers` and `NoSilentHang` are claimed, and
  proved, for a user who neither stops nor pauses.
* A death forgets the iterations counted since the last change of state:
  `WithinLimit` is claimed without deaths.
* After a death a confirmation finds no pending action and leaves the agent in
  USER_CONFIRMED; a recall that fails as the last event keeps its status in a loop
  that nobody runs; a runtime error overtaken by a message and a stale
  confirmation has the same end. `NoSilentHang` is claimed without them.
* A rate limit ends in RATE_LIMITED and never in ERROR: the last attempt raises
  before the callback that would note it. A write that raises in
  `State.save_to_session` leaves `conversation_stats` None.

*Delegation and history.*

* The event that finds the delegate ended goes to nobody. The budget's text, by
  which `on_event` would recognise a delegate out of budget, is never produced.
* What the parent takes between the end of a delegate and its result is not in
  the history that is rebuilt.
* `ReopenKeepsHistory` is about the first restart. `_init_history` remembers the
  first event of the history it rebuilt; the second restart starts there and
  may be without what came before the last delegation.

*Stuck detector and condensers.*

* The false alarms `StuckIffLoop` excepts: the same action three times, while the
  last three errors belong to other moves.
* `keep_first = max_size // 2 - 1` is accepted by the summarizing condenser, and
  then every condensation fails: the summary needs the last place.
  `CondenserAssumption` leaves this value out.
* A request for a condensation of a short view raises and stays unhandled.

*Managers.*

* A start that evicts waits, and a second start for the same conversation that
  waits too overwrites its session (`lost`); the
  limit on concurrent conversations is exceeded the same way.
* A client that joins while a close disconnects the connections it has listed
  loses its loop and is not told (`stray`).
* The timeout of `wait_all` cancels closes half way; a conversation that is joined
  again while its old session closes has two streams on the same files for a
  while.
* A request that attaches while the session has no runtime gets the session's
  stream, with a runtime of its own, and closes it under the session when it is
  cleaned up (`Disconnect` of a conversation that is not `shared`).
* In a cluster the key may expire during a start that takes longer than 15
  seconds, or before the first refresh; then two servers run the loop, and both
  refresh the key without looking. The key is deleted before the session is
  closed: another server may start the loop while the old agent still stops,
  although `clustered_conversation_manager.py:397` takes the key as a sign that
  no other worker runs the conversation. A pipeline filled before a close may
  set the key again, and clients wait until it expires.
* A conversation that was stopped, or evicted, is started again by a server that
  has a client for it, which takes the message as the end of a crashed server. A
  recovery starts a loop also for a client that left during its one second of
  sleep.
* Two things outside the model: the conversation being opened counts among the
  running ones and may be the least recently updated, so that a start over the
  limit closes the conversation it is starting; and a completion asked of
  another server is sent as `message` and read as `messages`, so that it times
  out.

*Connecting clients.*

* Events published between the listing of the store and the joining of the room
  are lost to the client; so is a state held back when the connection breaks,
  if the client has handled later events by then. The server does not set
  `always_connect`, and a client that handles nothing before `connect` has
  returned asks for the whole replay again.
* An error that is published after the replay has shown a later state is
  displayed over it; if the connection then breaks, the client does not ask for
  that state again.

*Services.*

* The hook and the store differ for good after a dropped batch, two writers that
  race between store and queue, or two batches under way at once; these are the
  only ways.
* `release()` unlinks the lock file: a worker that has it open and one that
  opens it anew lock two files of one name. `cleanup_stale_locks` unlinks every
  file older than its limit, held or not, to the same effect: a lock is held for
  as long as its container runs.
* A runtime that attaches to a container that has exited starts it on the port it
  had, without a lock or a probe, also between the probe and the start of a
  worker that was given this port meanwhile; `StartFindsPortFree` names it.
* Twice the hourly limit fits in an hour of the clock. A report is noted as sent
  before the rate limit and the request, so that one that was not sent counts as
  a duplicate until its window is over. A merge that names an old session clears
  the newer one.
* Saves of a stale copy take back fields of the record (`StaleSave`), among them
  what was asked for at the start and a title that was made or given. Two batches
  of events that read the callback as active both ask for a title. `on_conversation_update` builds the record anew without
  metrics, creation time and whether it is public, although
  `webhook_router.py:127` says it preserves other metadata.

## 5. Proofs

Each theorem is for every value of its module's constants, under the named
assumptions of that module, which only say what the code or its configuration
guarantees. Every `XInv` below is inductive: it holds at first, each action
preserves it, and it implies the property.

* `EventStreamProofs`, for any publishers, subscribers, page size, calls, deaths
  and faults (`SubscribersAssumption`: subscribers are numbers, as `sorted()`
  needs an order; `BoundsAssumption`: a page holds at least one event).
  `TypeCorrect`, `Persisted`, `Once`, `FilesImmutable`, and `Refinement`: the
  stream implements `EventLog`, `WriteFile` being an append, `RunCallback` a
  subscriber's step, everything else a stutter. The invariant `Safe` adds
  `IdInv` (ids held by publishers or in files are below `cur_id`, no two
  publishers hold the same one, and no file has it before its publisher writes
  it), which makes a write create a file rather than replace one, and
  `OnePlaceInv` (for a subscriber an event is in one place: with its publisher,
  in the queue, in the queue thread's hands, in the pool's work, or delivered),
  which makes a delivery the first.
* `EventStreamProofs`, what several parties see, under the same assumptions. `SameOrder`: its invariant
  `OrderInv` says that what two subscribers were handed so far (`Got`: what they
  have handled, then the work of their pools) has its common events in one
  order, and that whoever has the event that is being passed on has it last; so
  appending it to a pool that lacks it disturbs no order. `ClosedIsFinal`:
  `ClosedInv` follows the owner through the halves of a clean-up, so that no pool
  with work is left when `close()` returns. `IdOrder`, for one publisher:
  `RisingInv` says that ids rise along the whole path of an event. `SearchAgrees`,
  without deaths and with events that serialize: `PageInv` says that a write page
  is a run of consecutive ids and a page file is a full write page, however many
  publishers race to store it.
* `AgentControllerProofs`, for any number of inputs, tool calls, deaths and any
  iteration limit (`ControllerAssumption`). The handlers are functions from a
  controller to a controller, and `LeadsTo` says of each that it keeps a `Sound`
  controller sound, only adds to the log, and leaves what was taken of it as it
  was. The invariant `ControllerInv` adds `Obeys`: a controller that runs, or goes
  on with a confirmed action, has a word of the user after every stop and pause
  it has taken. `StopHolds` and `LimitHolds` follow, the latter until the first
  death: a death forgets iterations (section 4).
* `AgentConfirmProofs`, for any number of inputs, tool
  calls and deaths, and a user who waits to be heard (`Patient`; without it
  `controller_late_decision` is the counterexample). `OnceHolds` and
  `ConfirmedHolds`. The invariant `ConfirmInv` has to say why a confirmation
  reaches the action it was given for: the client that has shown the whole log
  displays the agent's state (`Shows`); an agent that waits for a decision has
  the last action it asked about pending, unpublished (`AskedLast`); a
  confirmation on its way finds that action, or after a death none, and an agent
  that does not run (`Awaits`); and so every call is asked at most once,
  published for execution at most once, and only after its confirmation
  (`CallsOK`). The runtime starts what it finds in the order of the log.
* `AgentTurnLemmas` and `AgentTurnProofs`, for any number of inputs and tool calls, any iteration limit, any answers of the LLM and a
  runtime that may fail at every action, under `Orderly`: the user waits to be
  heard and for the end of the turn and neither stops nor pauses, the server does
  not die, and no recall fails. Each part excludes a schedule of section 4 that
  refutes the properties. `HangHolds` and `AnswersHold`. What no party has left to
  do cannot be seen from one party's state, so the invariant `TurnInv` says it of
  all of them: `Unheard`, `Backlog` and `Recalls` are the events that the
  controller, the runtime and the memory still have before them, and `Turn` is
  a case distinction over the phases of a turn (`Waits`, `Opens`, `Recalling`,
  `Recalled`, `Thinks`, `Acts`, `Questions`), each with the state, the pending
  action, the LLM, the execution, the error status and these three sets. A step
  of any party leads from a phase to a phase. In a phase other than `Waits` and
  `Questions` a set is not empty, or somebody is at work: hence `HangHolds`, for
  a set that is not empty has a first element (the library's well-foundedness of
  the naturals). `Answered` (every action but the pending one has an observation)
  with the phase `Thinks`, which has nothing pending, is `AnswersHold`. What the
  user sees before they write is `Shows` of `ConfirmInv`.
* `ConversationManagerProofs`, for any conversations, clients, requests and calls
  (`ManagerAssumption`: at least one conversation may run; the requests are
  finitely many, so that they can be counted). `HeldStaysConnected`,
  `NoLoopOutOfReach`, `JoinedClientsHaveLoops`. The invariant `MInv` has three parts: `HeldInv` (the
  count of a conversation is that of its holders, it is not also detached, and
  a request that connects has the lock and the conversation to itself),
  `SessionInv` (a session that is marked closed and not released has a close
  that waits for it or was cancelled; where a close stands tells what it
  closes) and `JoinInv` (a close that disconnects has listed every connection
  but the strays).
* `RemoteProofs`, web hook: for any paths, threads, sizes, limits and attempts.
  `BatchesHaveSenders` (no batch is left that nothing will send) and
  `RemoteFollowsTheStore`; the invariant `HInv` says that for a path not crossed
  at most one writer and one batch under way have it, and which of the places
  holds the newest update.
* `RemoteProofs`, cluster: for any servers, clients, joins and troubles.
  `KeyHasOneHolder` is the invariant, `LInv`: until the key has expired under its holder, at most
  one server is between setting the key and deleting it, in one way (starting,
  in the table, about to delete), and meanwhile the key is there. So a server
  that finds no key is the first, and a delete deletes the deleter's own key.
  `ClusterRunsOneLoop` follows.
* `ServicesProofs`, client: for any conversation and any number of drops.
  `ReplayLosesOnlyLost`. The invariant says for each stage of a connection which
  events the client has or has lost: up to `rlast`, up to where the replay is,
  up to what was listed, up to what was published.
* `ServicesProofs`, ports: for any workers, conversations, ports, attempts and files.
  `PortsAreGivenOnce`, `StartsFindPortsFree`; the invariant `PInv` says that until
  a lock is broken whoever has a lock file open has the one its name stands for,
  that a stage that owns a port has the lock on that file, and that on a port
  that was probed no container is run but by whoever has its lock.
* `ServicesProofs`, error reports: for any errors, windows and limits, with requests that
  end before their hash may be reported again (`ReportingAssumption`).
  `SessionsNeverReplaced`, `ActiveSessionsInProgress`, `CooldownIsKept`; the
  invariant `EInv` says that while a request is under way its hash is recent and
  no session of its error is active.
* `RemoteProofs`, the rate limit of the error reports, under the same assumption and
  for any length of the hour. `LimitIsTwice`: the invariant `HourInv` bounds the requests of the present hour by its counter, plus once the limit if
  the counters were last cleared in this hour. A clearing is due only an hour
  after the last one, hence at most once in an hour of the clock, and what it
  forgets is within the limit.
* `ServicesProofs`, V1 records: for any handlers and requests. `RecordsAreKept`,
  `CallbacksStayOff`, both action properties: `AGood` is what each step is shown
  to do. The invariant `AInv` adds that a callback exists and is worked on only
  after the start's own save, and that whoever works on it has read it as active
  (`Follows`), so that a merge writes its status only to disable it.

Only model-checked: liveness (the prover has no fairness and no ENABLED); the
views (`ViewKeepsHead`, `RecentKept`), the rebuilt histories
(`ReopenKeepsHistory`) and the stuck detector (`StuckIffLoop`), which compute
over sequences and need induction over data; with the histories the rest of
`Delegation` (`ForgottenOnlyWhen`); and `ServicesTypeOK`, of which the proofs
state what they need.

The prover prepares every obligation in the context of all definitions and
lemmas before it, and in large modules the preparation alone runs into its time
limit. Hence the theorems about the error reports are in two modules, those about the
controller in four, and the lemmas on turns come before those they do not need.

## 6. Not modelled

Prompts, parsing and formatting; the inside of sandboxes and of the LLM, and the
loop of retries around its call; HTTP routing and SQL; the user interface beyond
the controls and the events named above; managers that drive containers over
HTTP; supervisors, whose decision is one step after the awaited reviews; the
rest of the enterprise server, evaluation and tools. These are most of the
repository's lines: they keep no state that two parties share, or keep it in an
external service.

In the modelled parts: the interleaving of the main loop with the inside of a
controller's handler other than its LLM call; cleaning up the loop of a callback
that is running; replay; loop recovery, whose choices only the command line
sends; the `is_alive` flag of a web session; condensers that mask or that
ask an LLM what to forget; the limit on running sandboxes; graceful shutdown of
a cluster's server; `pause()` and `resume()` of a Docker runtime, which nothing
calls, and port locks on systems without `flock`.
