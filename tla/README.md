# Formal models of mycode-web

`mycode-web` runs one Core process per Session in a Docker Sandbox and lets Web
Users talk to it through a browser.  The difficult part is not the HTTP surface
but the service behind it: a bounded pool of Sandboxes on one asyncio loop, with
queues, handoffs, timeouts, dying processes and failed cleanups.  This directory
holds TLA+ models of that service, TLC configurations that check them, and
TLAPS proofs about them.  All source paths below are relative to the repository.

Files:

| file | content |
|---|---|
| `RuntimePool.tla` | the Runtime pool of `app/services/runtime.py`: all Sessions, their generations, slots and queue |
| `SandboxPool.tla` | the abstract pool: who holds a place, who leaves, who is promised one, who waits |
| `PoolRefinement.tla` | the mapping under which `RuntimePool` implements `SandboxPool` |
| `MCRuntimePool.tla`, `Pool*.cfg` | instances of the three for TLC |
| `RuntimePool_proofs.tla` | proofs about `RuntimePool`: its type, finalizers and starts, queue and status, promises of slots, tokens, Turns, generations, shutdown |
| `RuntimePoolLimits_proofs.tla` | the limits, order of the queue, no idle slot, handoff of idle Runtimes, the loop that serves the queue |
| `SandboxPool_proofs.tla`, `PoolRefinement_proofs.tla` | the promise of the abstract pool; that `RuntimePool` implements it |
| `RuntimeProtocol.tla`, `Protocol*.cfg` | one generation and its Core: identifiers, messages in flight, controls, readiness, teardown |
| `RuntimeProtocol_proofs.tla` | proofs of its safety properties |
| `Console.tla`, `EventHub.tla` | the console recorder with its rows; the event hub with its history and streams |
| `Feed.tla`, `Feed*.cfg` | the two composed with the routes and the page that reads them |
| `Feed_proofs.tla` | proofs of its safety properties |
| `Terminal.tla`, `Watcher.tla` | the terminal of a Session with its leases; the watch of its workspace |
| `SessionServices.tla`, `Services.cfg` | the two composed with the generations, the deletion of the Session and the shutdown |
| `SessionServices_proofs.tla` | proofs of its safety properties |
| `Stepwise.tla` | lemmas: induction over the naturals for sets, functions defined step by step |
| `PROJECT.json` | components, runs, mutants, the map of definitions to source lines, findings, hazards, theorems |

Mutants (definitions marked so) stand next to the definition they replace.
Run `tlc -config PoolQuota.cfg MCRuntimePool.tla` (and so on: the module of each
run is in `PROJECT.json`) and `tlapm RuntimePool_proofs.tla` (and so on, for each
`*_proofs.tla`) in this directory.

## 1. Inventory

One asyncio loop runs everything; there are threads only around blocking file
calls.  Nothing of a Runtime is persisted: after a restart of the service every
Session starts as `stopped`, and only SQLite and the workspace directories
survive.

**RuntimeManager** (`services/runtime.py`, 2400 lines).  State: `_sessions` (one
`_RuntimeSession` per Session), `_queue` (a deque of `_QueuedTurn`),
`_background_tasks`, `_closed`; one manager lock, and one `lifecycle_lock` and
one condition per Session.  Operations: `activate`, `send_message`,
`stop_session`, `context_status`/`compact` (`_run_control`),
`resolve_permission`, `acquire/release_terminal_lease`, `sweep_expired`,
`shutdown`; background: `_start_runtime`, `_start_queued_turn`,
`_dispatch_from_idle`, `_read_output`, `_run_generation_finalizer`.
Correct when: the limits hold; a generation is started once, ended once and
never overlaps the next; a Turn is neither lost nor delivered twice; queued
Turns are served in order and as soon as a slot is free; shutdown leaves nothing.
Hard: six ways to end the same generation, starts that hold the lifecycle lock
through a 30 s wait, a slot that is in two hands during a handoff, per-user and
global limits that count that handoff differently.

**Message protocol and readiness** (`runtime.py`, `jsonl_runtime.py`).  State:
`active_turn_id`, `pending_permission`, `pending_mcp_trust`, `pending_control`,
the readiness clock; a line buffer over a byte stream.  Correct when: late,
repeated or foreign identifiers change nothing; the readiness budget counts
exactly the time that is not spent waiting for MCP Trust; framing does not
depend on how the stream is cut.

**Generation teardown** (`runtime.py:2010-2241`).  A close handshake with time
limits, terminate, kill, container removal, hooks, cancellation of the reader,
which may itself have begun the teardown.  Correct when it ends, and leaves
`cleanup_pending` exactly when something may survive.

**Docker launcher** (`runtime.py`, `container.py`): commands and mounts.

**Relay** (`relay.py`).  State: token by Session, Session by token.  Correct
when a token is valid only for the generation it was issued to.

**Event hub** (`events.py`).  State: per Session a sequence, a history ring and
subscriber queues.  Correct when a client that reconnects with Last-Event-ID
misses no stable event that is still in the history, and never waits on an id
that cannot come.

**Console** (`console.py`).  State: the assistant buffer per Session; rows in
SQLite.  Correct when text is attributed to its Turn, in order, once.

**Terminal** (`terminal.py`).  State: shells, start tasks, readers, clients and
their leases.  Correct when a shell belongs to one generation and no shell or
lease outlives it.

**Watcher** (`watcher.py`).  State: one watch per Session.  Correct when a
running generation is watched and a stopped one is not.

**Session lifecycle** (`lifecycle.py`, `db/database.py`).  Deletion and
retention.  Correct when a deleted Session does not run, and what runs has its
data.  Hard: a deletion awaits four times, and a Session may start in between.

**Workspace and uploads** (`workspace.py`).  File I/O; counters of concurrent
uploads and limits on the workspace.

**API, wiring, configuration, frontend, deployment.**  Routing, validation, the
projection of events in the browser, scripts.

Interactions: the API calls the services; the manager calls hooks (watcher,
terminal, console) around starts and teardowns; the terminal takes leases and
calls `activate`; Core's messages come through the reader; the relay asks for
tokens; every service publishes through the event hub.

## 2. What the modules model

### RuntimePool

**State.**

| variable | code |
|---|---|
| `rt[s]` | `_RuntimeSession` of `s`: `status`, `runtime_generation`, `process` (none, live, or with a return code), `container_ref`, `active_turn_id`, `busy`, a pending `_send_when_ready`, `pending_control`, `terminal_lease_ids`, `capacity_source`, the generation of the registered relay token, `finalizing_generation`, the finalizer's phase and `final_status`, `cleanup_pending` |
| `queue` | `_queue`, as Sessions (one Turn each) |
| `starts` | the `_start_runtime` tasks that have not returned: their Session, generation, Turn and source, and whether they wait for the source, launch, or wait for readiness |
| `dispatch` | Sessions with a spawned `_dispatch_from_idle` |
| `sweep`, `closing` | the generations whose finalizers `sweep_expired` and `shutdown` await |
| `mode` | `_closed`, and whether `shutdown` has returned |

`died` is a history variable: the process of this generation ended before
anybody had claimed the generation.

**Steps.**
Nothing suspends while the manager lock is held, and asyncio is cooperative, so
a step is the code between two real suspensions.  `_start_runtime` becomes
`StartChecks` (up to the launch), `StartLaunches`/`StartLaunchFails`, and
`StartCompletes`/`StartFails`; a finalizer becomes `FinalizerLocks` (its wait
for the lifecycle lock), `FinalizerTearsDown`, and `FinalizerConverges`, which
includes `_schedule_waiting`.  Every call of a client is one action per outcome:
`ActivateReclaims`, `ActivateAdmits`, `SendReclaims`, `SendToStarting`,
`SendToIdle`, `SendAdmits`, `SendQueues`.  Refusals change no state and have no
action.

The `_locked` helpers are operators on one `_RuntimeSession` (`Prepared`,
`Begin`, `Converged`) or on a map of them (`CountsSlot`, `UserHasCapacity`,
`Evictable`, ...), so that `ScheduleWaiting` can work on the state its caller has
just produced, as the code does.

**Abstractions.**

* A Turn is its presence; the code allows one per Session.  Its text and ids are
  not kept.
* Time is not kept.  `last_activity` is not kept either, so any candidate may be
  the oldest idle Runtime, and anything the TTL applies to may have expired.
* A call that must first finish an earlier generation (`ReclaimFirst`) begins
  that finalization; the code then waits and starts over, which is another call.
* `_schedule_waiting` loops (`Loop`); `Admitted` says in closed form which items
  the loop admits, and `AdmittedIsTheLoop`, checked by PoolQuota and proved, says
  that the two are the same.
* Several dispatches of one Session are one member of `dispatch`: a second one
  finds what the first left.
* A pending `_send_when_ready` wakes as soon as its Runtime is claimed.  The
  condition is notified in the step of the claim and the wait fails on any
  status but `starting`, `waiting_mcp_trust` and `idle`.
* Core asks for MCP Trust only while it starts, for a permission only while it
  runs a Turn.
* Outcomes of the surroundings are the members of the constant `Env`; an
  instance switches them on.

**Bounds.**
`MaxGen` bounds `runtime_generation`.  `QueueMax`, `MaxActive` and `MaxPerUser`
are settings of the program, not bounds of the model.

### SandboxPool and PoolRefinement

`SandboxPool` says what the pool promises without statuses, generations, tasks
or locks: `hold`, `leaving`, `promises` (holder and heir), `waits`, `open`.  A
place changes hands only when its holder has left it; `Fits` bounds the holders
by `Slots`, and by `Quota` the holders of one Web User together with the heirs
who follow somebody else's Session.  `Release`, `Keep` and `Forgo` are the ends
of a finalization (place free, Sandbox not removed, start given up), each of
which may admit some of those who wait; `Fail` is a process that ends by itself.
A place is promised once: `Promise` and `Fail` require that it has no heir yet.

`PoolRefinement` maps `RuntimePool` to it: a Session holds a place from the
admission of a generation until that generation has converged without a Sandbox
left, and is an heir instead while it waits for its source.  The mapping reads
generations and sources, never the counters with which the code admits
(`_counts_slot_locked` and its relatives), so a wrong counter is a step that
`SandboxPool` does not have.

### RuntimeProtocol

One `_RuntimeSession` from the launch of its process to the end of its
finalizer.

| variable | code |
|---|---|
| `rt` | `status`, `active_turn_id`, `busy`, `pending_permission`, `pending_mcp_trust` with `mcp_trust_resume_status`, `pending_control`, `ready`, `runtime_closed`, the readiness pause, the finalizer's phase |
| `start`, `clock` | `_start_runtime` in `_wait_for_ready`, with `budget_used`, `last_checked`, `last_paused_total`, `counted_interval`; the clock it reads |
| `reader` | `_read_output`: reading, waiting for the finalizer it began or for another's |
| `controls`, `resolving` | the calls of `_run_control`; the calls of `resolve_*` that have written and not yet published |
| `shown` | the status of the last `runtime_status` event |
| `core`, `up`, `down` | the process and the messages on their way in both directions |

Each message type has a handler action (`ReadyReceived`, `AskReceived`,
`FinishReceived`, `ReplyReceived`, `ClosedReceived`); each call is split at its
suspensions (`ControlBegins` and `ControlReturns`, `ControlFails`,
`ControlTimesOut`; `ResolvePermission`, `ResolveTrust` and `ResolvePublishes`,
`ResolveFails`); the teardown is `FinalizerStarts`, `HandshakeEnds`,
`CoreKilled`, `FinalizerConverges`.

Core is not in the repository.  Its actions are what the handlers and the tests
expect of it: it becomes ready, asks one thing at a time and waits for the
answer, finishes the Turn it was given, answers controls in the order in which
it reads them.  The faults the code provides for are switched on by `Env`: a
`turn_finished` that is repeated or late, output that is not JSONL (with the loss
of the messages before it in its chunk, `ReaderBreaks`), an exit at any moment.
The clock runs only while the start waits; nothing else measures time, other
limits may pass at any moment.

Left out: several messages in one Turn that only display something, the ids of
Turns in `completed_turn_ids` (they can never equal the active one), the way the
bytes of a line are collected.

### Console, EventHub, Feed

`Console` is the recorder's buffer and the rows.  A text is a sequence of deltas,
each of which stands for one character of what Core said: its place in that (`no`),
the Turn it belongs to, whether it is a line break (`blank`) and the passage it is
part of (`part`).  `AppendRow` stores what `append_console_event` stores: the text
without the line breaks at its ends (`Stripped`), of that the first `TextLimit`
characters (`Cut`; `TextLimit` is `CONSOLE_EVENT_MAX_CHARS`), no row if nothing is
left, and the oldest rows go.  A passage is what Core says between two things that
flush the buffer: a tool call, the end of the Turn, or text of another Turn.  The
text of the other rows is left out.  `EventHub` is
`_SessionEvents` with one `stream()` per browser connection, its replay, its
queue and what is on the wire.  `Feed` composes them as `EventHub.publish` does
(the event, then `console_live`, then the new rows, in `Items`, each through one
`Published`) and adds the
requests of a page (`OpenPage`: the cursor; `LoadConsole`: the rows; `Connect`:
the stream from the cursor or from Last-Event-ID), the listeners of the page
(`Receive`), broken connections, the deletion of the Session, and the restart
of the service.  `turn` and `running` stand for the Runtime that produces events;
one event type stands for each way of being treated: a delta, another agent
event, a stable event with a row (permission request, user message), one without
(runtime_status); the text of Core comes as `text_delta` and `line_break`.  `no`, `part`, `boot`, `seen`, `missed`, `stale`, `evicted` and `said` are
history variables.

### Terminal, Watcher, SessionServices

`Terminal` is the `_TerminalState` of a Session with the sockets of its clients
and their leases; `_start_shell` is split at its suspensions (`StartActivated`,
`StartReclaims`, `TargetFound`, `LaunchReturns`, `StartErrs`, `StartFailTold`,
`StartUnwinds`), the reader in `ShellExits` and `ReaderTells`, `stop_session` in
`StopBegins`, `ShellTerminated`, `StopEnds`.  `Watcher` is the registered task,
its generation and its pending done callback.

`SessionServices` composes them through the hooks of `main.py`.  The Runtime is
abstracted to the phases in which it calls them; it may end in any phase, and
its container may turn out not to be removable (`GenerationStopped`), after
which `activate`, a stop or a deletion retries the cleanup.  `delete_session` is
split at each of its awaits (`DeleteStops`, `DeleteData`, `DeleteRefused`,
`DeleteRow`); the cleanup loop calls the same function, so it too is a deletion
at any moment.  `ShutdownBegins`, `RuntimesDown` and `TerminalsDown` are the
`finally` block of `lifespan`; a cancelled deletion leaves its thread running.
A Turn that waits in the queue is `queued` (`TurnQueues`, and `TurnWithdrawn` when a
stop takes it away): `activate` then returns `queued`, and `wait_until_ready` waits
for it without a limit, whatever generation the Session has reached.
`revived`, `late`, `loose` and `broke` are history variables.

## 3. Properties

**Pool.**  `ImplementsSandboxPool`: every step of the pool is a step of
`SandboxPool`.  `LimitsRespected` (real Sandboxes, that is processes, unconfirmed
containers and launches under way, never exceed the limits of the pool and of a
user, across handoffs between users); `SourcePromisedOnce` (no slot is promised
to two targets); `QueueAgrees`; `FinalizerOwnsGeneration`, `StartOwnsGeneration`,
`GenerationsDoNotOverlap`, `TokenBound` (everything is bound to its generation);
`TurnCarriedOnce` (an accepted Turn is in exactly one place); `WorkConserving`
and `IdleHandedOver` (no slot idles beside a Turn that could have it: the first
is about free slots; the second, an action property, about idle Runtimes: when a
Runtime becomes one whose slot a queued Turn could take, `_dispatch_from_idle`
has been spawned for it);
`IdleCanExpire` (no idle Runtime escapes the TTL for ever);
`ShutdownLeavesNothing`; `FifoAmongEligible`.  Liveness: `FinalizationEnds`,
`StartEnds`, and `QueuedServed`: if nobody uses Context controls or a terminal for
ever (`UsersLetGo`), every queued Turn leaves the queue.  Without the condition it
is not so: each control sets `last_activity` anew (`runtime.py:413`, `:1702`), so a
Runtime whose status is asked for more often than the TTL never expires, and the
end of a control hands no slot over (PoolControlHandoff); the Turn waits beside it
for ever.  A terminal lease keeps a Runtime as long as it is held.

**Protocol.**  `TurnEndsByItsOwnFinish` (no late or repeated `turn_finished` ends
another Turn), `RequestsAnswerable` (Core never waits for an answer nobody can
give, and answers go to the request that was shown), `ControlGetsItsReply`
(replies have no id and still do not cross), `StatusShown` (the last published
status is the current one), `StartGivesItsTime` (the budget excludes exactly the
time users are asked).  Liveness: `WaitsEnd` (every finalizer and every control
ends, whatever Core does).

**Feed.**  `EventsReachPage` (no page gets past a stable event it has not
received), `ConsoleReachesPage` (no gap between the rows a page loads and those
pushed to it), `LiveIsCurrent` (text is never shown both as a row and as being
written; text of nothing but line breaks may stay on the page, since it becomes no
row whose event would hide it), `TextKept` (text is stored once, in order, under its
Turn: what Core said is in the buffer, or in a row if it belongs into one, or went
with the oldest rows).  What belongs into a row is `Due`: not the line breaks at the
ends of a passage, and not what a passage has beyond `CONSOLE_EVENT_MAX_CHARS`, which
`append_console_event` cuts off without a trace (`db/database.py:330`).  Liveness:
`StableEventSeen` (a stable event reaches every page that stays open, also
through streams closed for being slow).  A page that was open during a restart is
excepted from all but `TextKept`, see `EventsSurviveRestart` and section 6.

**Services.**  `GenerationOwnsServices` (shell, reader, start and watch belong to
the current generation, and shutdown leaves none), `RunningIsWatched`,
`UsersHoldLeases` and `LeasesHaveClients` (a Runtime is kept alive exactly for
those who use it), `DeletedLeavesNothing`.  Liveness: `AttachedIsServed` (who
attaches gets a shell or is told that there is none, unless clients come and go for
ever, `ClientsCease`, and with the three exceptions below).

Some properties name exceptions, each a behaviour of the code that a reader
should know of: `late` (a client that attaches while a cancelled start unwinds
loses its lease and gets no answer), the first generation and the queued Turn (a
terminal that attaches to a Session that never ran, or while a Turn of the Session
is in the queue, waits for capacity as long as that lasts, `runtime.py:1881` and
`:1915`), `revived` (a generation that begins during a deletion loses its watch and
its data), trust asked between `runtime_ready` and the start's next check (the
start is given up), `died` in the pool (see section 6), and `missed` (the
history has moved on before a page reconnected; README.md promises nothing
then), and `FreesQuotaOnly` (the end of a Session frees a place in the quota of
its user but no slot, as the slot is promised to another user or was itself
taken over: idle Runtimes are not looked at then).

For each property of a passing run, `PROJECT.json` names a mutant: a plausible
bug in one definition, kept in the module next to the definition it replaces,
under which the property fails in the same run.

## 4. Runs

| run | instance | what it shows |
|---|---|---|
| PoolQuota | 4 Sessions of 3 users (two of one user), 2 slots, 1 per user, queue of 2, one generation each | the refinement, limits, fairness of the queue and its exception for users at their quota, work conservation, closed form of the loop |
| PoolRestart | 2 Sessions of 2 users, 1 slot, 2 generations each, stops, sweeps, failed cleanups, clients that give up waiting, shutdown | the refinement; the binding of starts, finalizers, tokens, queue items and sources to their generation |
| PoolClients | 2 Sessions, 1 slot, 1 generation, one terminal lease, one Context control, both questions of Core, exits, failed starts, unreadable output | Turns and idle Runtimes under every client at once |
| PoolLive | 2 Sessions, 1 slot, 1 generation, a control, stops, sweeps, exits, shutdown, with fairness | everything begun ends; queued Turns are served once users let go |
| Protocol | 2 Turns, 2 requests, 2 controls of 2 kinds, 3 of these together, 2 unread messages, a clock of 3 with a budget of 2, all faults | the properties of the protocol |
| Feed | 1 page, 2 Turns, 9 events, a history of 3, a queue of 3, 3 rows of at most 1 character, 1 event on the wire, broken connections, deletion, restart | what the page sees |
| Services | 2 terminal clients, 2 generations, failed cleanups, deletion, shutdown | what follows a generation |
| PoolActivate, PoolSlowStart, PoolControlHandoff, FeedRestart, ProtocolRetry | as above | the findings of section 6 |

Why these bounds are enough.

*Pool.*  A handoff involves a source and a target; the third Session of
PoolQuota competes with the target, and the fourth gives the user of the target
a second Session, the only way to tell the user quota from the global limit and
to skip a queue item.  A queue of two is the smallest in which order matters.
Two generations are needed for a late task or finalizer of one to meet the next;
the third would repeat this, as nothing but equality of generations is ever
tested.  In PoolLive one generation per Session is enough for each obligation to
arise, since every one is about a single generation or queue item; what it
cannot show is starvation by endless restarts.  The run has no terminal; one client
makes it take four minutes instead of one, and it passes with one too.  The refinement is checked
where users compete and hand over to each other (PoolQuota) and where cleanups
fail, stops, sweeps and the shutdown come in between (PoolRestart); exits are in
neither, and it has also been checked on the instance of PoolClients, which has
them.

*Protocol.*  Confusing two Turns, requests or controls takes two of each; three
together let the third be of another kind than the first two.  Two unread
messages are the smallest reordering of a handler and a message behind it.  A
budget of 2 and a clock of 3 let a pause begin and end inside the budget and
time still run out.

*Feed.*  Two Turns are needed to attribute text wrongly.  One publish makes up to
four events, so a queue and a history of three overflow within the nine events of
a run, which is the fewest in which text of a second Turn follows text that no
`turn_finished` has flushed; rows are dropped likewise.  With rows of one character
the cut and the strip happen in every mixture, but a row has no line break inside;
those are left to the theorem, which is for every `TextLimit`.  `StableEventSeen` follows
four of the events (`Followed`), each formula being a liveness check of its own:
an early one, one whose stream is closed for being slow, and late ones.  Streams do not influence
each other, so one page is enough.

*Services.*  Two clients are the first to leave one behind; two generations as
in the pool.

`SYMMETRY` exchanges Sessions of one user, or Sessions that are the only ones of
their user; users occur in no variable.  It is used in no liveness run.

Deadlock is checked in the runs of the pool (the only states without another
step are those after shutdown, and those in which every Session has had the last
generation of the bound, `Ended`) and of `Feed` (`Quiet` when the bound on
events is reached or the Session is gone).  It is not checked in Services and
Protocol: a deleted Session or a service that has shut down has nothing left to
do, nor has a generation that has ended; that nobody waits there is what
`AttachedIsServed` and `WaitsEnd` say.

### Fairness

*Pool.*  `FairSpec` assumes only what asyncio and the timeouts of the code
provide: a spawned task, reader or finalizer runs; launches, hooks and teardowns
return (each has a time limit); Core finishes its Turns, and a control ends or
times out.  One condition is strong: a dispatch is scheduled in the step that
makes its Runtime idle, so a message cannot overtake it for ever.  The sweep has
weak fairness only.  What stays idle, unused and silent has at some time been so
for the TTL; what is used again and again need never expire, and `QueuedServed`
therefore assumes `UsersLetGo`.  That Turns do not have to cease is
because the end of a Turn, unlike that of a control, hands the slot over.
Clients, failures and `Shutdown` have no fairness.  No fairness is given to
Core's answers to questions: PoolLive has none.

*Protocol.*  The start, the finalizer and the calls of controls run or time out.
Core and the users owe nothing: `WaitsEnd` holds although Core may stay silent
for ever.

*Feed.*  A page loads its console and reconnects.  The delivery of an event is
strongly fair: connections may break again and again, but not each of them
before it has carried anything.

*Services.*  A start ends: within its time limit, or, while it waits for somebody
to trust its MCP servers and has none, by the TTL, to which every Runtime in
`waiting_mcp_trust` is subject (`runtime.py:987-1009`).  Each attach and each detach
begins the TTL anew (`:561`, `:574`), so the assumption holds of the code only where
these cease, and `AttachedIsServed` is stated for such behaviours (`ClientsCease`).
Hooks and tasks return, a shutdown goes on.  Nobody has to attach, leave, start or
stop anything, and no Turn has to leave the queue.

## 5. Proofs

Eight modules hold theorems.  Those about the pool build on each other, the
others stand alone:

    Stepwise
    RuntimePool_proofs <- RuntimePoolLimits_proofs <- PoolRefinement_proofs
    SandboxPool_proofs
    RuntimeProtocol_proofs
    SessionServices_proofs
    Feed_proofs

Everything about the pool is proved for every set of Sessions, users, clients
and events and for all limits, from `PoolAssumption`: finite Sessions, every
Session has an owner, limits are naturals, `None` is no Session, no control and
no source.  The assumptions of the other modules say as little.  Every theorem
that names a property of a run states it as the run does.

| theorem | |
|---|---|
| *RuntimePool_proofs* | |
| `TypeCorrect` | `Spec => []TypeOK`; it includes `Len(queue) <= QueueMax` |
| `OneFinalizerPerGeneration` | `Spec => []FinalizerOwnsGeneration` |
| `StartsOwnTheirGeneration` | `Spec => []StartOwnsGeneration` |
| `QueueMatchesStatus` | `Spec => []QueueAgrees` |
| `SlotPromisedOnce` | `Spec => []SourcePromisedOnce` |
| `TokenBelongsToGeneration` | `Spec => []TokenBound` |
| `NothingLeftAfterShutdown` | `Spec => []ShutdownLeavesNothing` |
| `NoOverlap` | `Spec => GenerationsDoNotOverlap` |
| `OneCarrierPerTurn` | `"slow" \notin Env => (Spec => []TurnCarriedOnce)` |
| `IdleExpires` | `"slow" \notin Env => (Spec => []IdleCanExpire)` |
| *RuntimePoolLimits_proofs* | |
| `LimitsAreKept` | `Spec => []LimitsRespected` |
| `QueueIsFair` | `Spec => FifoAmongEligible` |
| `NoIdleSlot` | `Spec => []WorkConserving` |
| `IdleIsHandedOver` | `Control = {} => (Spec => IdleHandedOver)` |
| `ServiceIsTheLoop` | `Spec => []AdmittedIsTheLoop` |
| *PoolRefinement_proofs* | |
| `PoolKeepsItsPromises` | `Spec => ImplementsSandboxPool` |
| *SandboxPool_proofs* | |
| `PlacesFit` | `Spec => []Fits(hold, promises)` |
| *RuntimeProtocol_proofs* | |
| `TypeCorrect` | `Spec => []TypeOK` |
| `CoreIsAlwaysAnswerable` | `Spec => []RequestsAnswerable` |
| `RepliesFindTheirControl` | `Spec => []ControlGetsItsReply` |
| `ShownStatusIsTheStatus` | `Spec => []StatusShown` |
| `BudgetIsGiven` | `Spec => StartGivesItsTime` |
| `TurnsEndAlone` | `Spec => TurnEndsByItsOwnFinish` |
| *SessionServices_proofs* | |
| `TypeCorrect` | `Spec => []TypeOK` |
| `ServicesFollowGenerations` | `Spec => []GenerationOwnsServices` |
| `RunningGenerationsAreWatched` | `Spec => []RunningIsWatched` |
| `AttachedClientsHoldLeases` | `Spec => []UsersHoldLeases` |
| `NoLeaseForNobody` | `Spec => []LeasesHaveClients` |
| `DeletionIsComplete` | `Spec => []DeletedLeavesNothing` |
| *Feed_proofs* | |
| `FeedTyped` | `Spec => []TypeOK`; it includes `HistoryLimit`, `QueueLimit` and `StoreLimit` |
| `NothingIsPassed` | `Spec => []EventsReachPage` |
| `PagesShowTheRows` | `Spec => []ConsoleReachesPage` |
| `LiveTextIsCurrent` | `Spec => []LiveIsCurrent` |
| `TextIsKept` | `Spec => []TextKept` |

The conditions of three of them are not conveniences: without them the code does
otherwise.  With `"slow"` in `Env` a message may give up before the start it
joined, and PoolSlowStart shows the Turn that is left; with a Context control,
PoolControlHandoff shows the Runtime that is not handed over (section 6).  The
runs that check these properties have the same constants.

### The pool, generation by generation

The first three theorems are not inductive alone.  A finalizer's
claim is of the current generation only if no start may advance the generation
of a Session that is stopping; a start's is the only one only if a finalizer
waits for the lifecycle lock; and a call may claim generation 0 of a Session,
which is how the code says "no claim", unless nothing that was never started can
be claimed.  The inductive invariant `IInv` is the conjunction of

* `TypeOK`;
* `Owned(rt[s])` for every Session: `FinalizerOwnsGeneration` for it, and that a
  Session of generation 0 is stopped or queued with nothing to clean up, that a
  queued one may still start, that a starting one is not busy;
* `StartBound(t, rt)` for every start task: its generation has begun;
* `StartOwnsGeneration`.

`Owned` is about one record, so the first lemmas are about the helpers
(`BeginKeeps`, `PreparedKeeps`, `ConvergedKeeps`); `StepKeeps` then lifts them to
a step in which some Sessions enter their next generation, with its special
cases for one Session (`OneStarts`, `OneSession`, `QuietStep`), for none
(`SameGenerations`, `ManyStep`), for an eviction or handoff (`EvictStep`) and for
the service of the queue (`ScheduleKeeps`).  `RequestKeeps`, `CoreKeeps`,
`GenerationsKeeps`, `StartKeeps`, `SweepKeeps` and `ShutdownKeeps` have one step
per action.  The queue needs a lemma of its own: `Without` is written with
cardinalities of sets of positions, and `KthExists` shows that the k-th position
exists without an induction, from the least natural at which a counting function
reaches k.

### Order: queue, sources, tokens, Turns

`OInv` adds to `IInv`, for every Session, `Good`: which statuses go with a
queue item, a source, a token, a Turn, a lifecycle lock, an unconfirmed
container.  Together with it go `StartsGood` and `TurnStarts` (what a start task
finds when it goes on), `QueueGood` (the queue holds exactly the Sessions that
are queued, once), `SourcesGood` (a source is a finalization under way of the
generation its target remembers, and has one target) and `ClosingGood` (what is
left once shutdown has begun).  A step that handles one Session may
touch many: it serves the queue, hands over, drops targets.  `Passes` and
`Follows` say what such a step may do to each Session within its generation; the
helpers are shown to do no more, and each conjunct is shown to survive whatever
does no more.  `TurnCarriedOnce` and `IdleCanExpire` are consequences of
`Good` where no start is slow.

### Limits

`LimitsRespected` is about what exists: processes, containers, launches under
way.  The code admits by what it counts (`_counts_slot_locked`): generations that
occupy a slot, and those promised one.  `LInv` is `OInv` and `Counted`: what the
pool counts stays within the limits.  During a handoff the two differ.  The
source still exists and is no longer counted once its target is; that
the difference is harmless takes the invariant that a source has one target, and
lemma `Replaced`: the map from sources to targets is an injection, so
leaving out the sources and adding the targets does not make a set of Sessions
smaller.  A user's limit is kept across users because the target of another
user is admitted only if its own user has room.

### The queue

`QueueIsFair` needs `LInv`: whoever is served was the first that could be, in
the queue as it was before the step, and `Without` keeps the order of what it
leaves.  `NoIdleSlot` needs `WInv`, which is `LInv` and `Busy`: all slots are taken,
or every queued Turn waits for a place in its user's quota.  Taken means from
the start of a generation to its convergence, so that an exit nobody has noticed
still counts and only a convergence gives a place back; what converges serves
the queue in the same step.  Between an exit and its notice the code counts
less than that, which is the exception `WorkConserving` makes.

`IdleIsHandedOver` goes by what changed.  If the Runtime has just become free,
the end of a Turn, of a start or of the last lease made it so, and each of them
spawns the dispatch (`StepNotFreed`).  If it was free and nobody could take
its slot, somebody became eligible: a new Turn that is queued would have
evicted it, so a user's quota has been freed by a convergence (`Converging`).
Then the slot that comes free with it went to its target, who takes the place in
the quota too (`TargetTakesOver`), or was given to the queue in the same step
(`SlotIsFree`, `NoneConverging`); what is left is `FreesQuotaOnly`.

`ServiceIsTheLoop` frees all of this from the one idea in the model that is not
in the code, the closed form `Admitted`.  It is an induction over the rounds of
the loop (`LoopAdmits`, `NextAdmitted`): what has been popped is always an initial
part (`Initial`) of the items within the quota of their users, and the first
eligible item that is left extends it.  That the quota of a user does not change
under the items of others, and that a pop takes exactly one slot and one place
of its user, is `ServiceOccupies`.

### The promise of the pool

`PlacesFit` is about the abstract pool alone.  `Fits` is inductive only with
`Apart` (a promised place is held, a place has one heir, an heir one place, and
nobody holds, inherits and waits at once): `Release` checks no limit, so an heir
that follows must have been counted in the place it follows.

`PoolKeepsItsPromises` is the refinement that PoolQuota and PoolRestart check,
for every value of the constants: `Init` maps to the abstract `Init`
(`InitImplements`), and each step of the pool to one of `SandboxPool` or to
none (`NextImplements`).  The abstract state is a function of the map of Sessions
alone (`HoldersOf`, `PromisesOf`, `LeaversOf`), so the end of a finalization, which
converges a generation and then serves the queue, can be followed in these two
phases although it is one step (`EndPlaces`, `ServicePlaces`, `ConvergeStep`).
Most actions leave every Session where it is and can at most claim it, which is
`Settled`, and a `Leave`; admission, queueing, withdrawal, handoff, exit, sweep
and shutdown each have a lemma that names the abstract action.  That the result
`Fits` follows from `LInv`, not from the counters the code admits by
(`PlacesCounted`, `PlacesFitAfter`).

### Protocol and services

The invariant of `RuntimeProtocol_proofs` has a part for each thing of which
only one is under way: `Asks` (one request of Core, unread, shown or answered),
`Works` (one Turn or control, written, read, at work or replied to) and
`Finishes` (the end of a Turn is read before what Core asks after it).  Each
says what may be among the messages not yet read, as a reply without an id is
told from a late one only by its place.  `Phases` relates status, start and
finalizer; `Publishing` says that a status not shown is about to be; `Clocks` is
what the readiness loop knows of the time it has given away; `Unstarted` that
Core has nothing to do before its first command.  `TurnsEndAlone` and
`BudgetIsGiven` are action properties, proved step by step from it.

The invariant of `SessionServices_proofs` says who may be where together:
`ClientsServed` (who is attached holds a lease, unless its start has failed),
`TerminalOwned` and `WatchOwned` (which phases of a generation a shell, its start
and the watch belong to), `Begun`, `ShutdownOrder` and `DeletionAhead` (what the
later steps of a shutdown and of a deletion have not reached yet).

### What a page sees

`FeedInv` is `Base` and `Pages`.  `Base` is the hub and the console alone: the
history is rising in ids and holds only stable events after `evicted`
(`HubGood`), id and number of an event differ by the same amount for all of them
(`Known`), rows and buffer have their types and limits (`ConsoleGood`), and what was
said is where it belongs (`Filed`).  `Filed` says that the buffer is the end of
`said`, of one Turn and one passage (`BufferIs`), that nothing of an earlier passage
is still to come, and that a delta before the buffer is in a row exactly if it is
`Due`, or was dropped (`RowsHold`).  A flush turns the buffer into a row; that this
row holds what is due of its passage, and nothing else, is `CutAndStripped` and
`FlushedIsDue`, where the passage is known to be the buffer from end to end.  `Pages` says of every open page that no
restart has confused (`PageGood`) what is true at any moment of a delivery, not
only when all has arrived:

* `StreamGood`: what is on the wire, in the replay and in the queue follow each
  other in increasing ids, and every event of the history later than what the
  page has received is in one of them, unless the stream was unsubscribed, and
  then the event is later than all it still has to send;
* `RowKnown`: every stored row is on the page, or its event is on its way or in
  the history after the page's place, or the page has lost something that it
  will find out about when it connects again (`Lost`);
* `TextKnown`: the page's live text, and every live text on its way, is the
  beginning of the recorder's buffer, or the event of a row comes after it,
  which hides it, or the page has lost something.

`EventsReachPage` is part of it; `ConsoleReachesPage` and `LiveIsCurrent` follow
when nothing is left that could come (`NothingComes`).

One call of `EventHub.publish` sends up to four events, and each of them meets
 queues that the ones before it have filled.  The rows of those still to
be sent are a parameter `M` of `RowKnown` and `TextKnown`; one `Published` takes its
row out of `M` (`PublishedState`, `PublishedThrough`), and `PublishAll` goes through all events of a
publish.  That induction, and those over the rows of a console and the events
of a history, are made without the library's induction theorems: a set of
naturals that holds 0 and with n also n + 1 is `Nat`, which follows from the
least element of its complement (`NatSet`, `UpTo` in `Stepwise`), and a function
that is defined step by step exists because the set of lengths it exists for is
such a set (`Iterated`).  For this `AllPublished` and `After` are written as recursive
functions.

### What the proofs found

`IdleHandedOver` used to be an invariant; it held in the runs and is false
with three users: the quota of a user may become free in a step that frees no
slot, beside a Runtime that became idle long before, and the code dispatches
nothing.  It is now the action property that the code does keep, and
`FreesQuotaOnly` names the exception.  `SandboxPool` allowed a place to be
promised twice, with which `Fits` is not inductive, and let nobody in at the end
of a finalization whose Sandbox could not be removed, where the code serves the
queue all the same; it is now stricter in the one and wider in the other.
`LiveIsCurrent` is false of text that consists of line breaks only, once the strip
is in the model: it is flushed without a row, and the page is told nothing that
would hide it.  The property now says so.

### What is only model-checked

* Liveness (`FinalizationEnds`, `StartEnds`, `QueuedServed`, `WaitsEnd`,
  `StableEventSeen`, `AttachedIsServed`): fairness is stated with ENABLED.

Everything else that a passing run checks is a theorem.

## 6. Findings

* **PoolActivate** (`app/services/runtime.py:634`).  `activate` takes "no live
  process" in status `starting` for a dead process.  Until `launch()` has
  returned that is every start, so a second `activate`, or a terminal that
  attaches, finalizes a start that is under way.  `docs/实施记录.md:57` says that
  a repeated activate does not start again and joins the start.
* **PoolSlowStart** (`runtime.py:1822`).  A message that joins a start waits 30 s
  from its own call; the start waits 30 s from the end of its launch.  When the
  message gives up first, `active_turn_id` stays: the Runtime becomes idle with a
  Turn nobody carries and cannot be used, evicted or swept, where `README.md:57`
  subjects idle Runtimes to the TTL.
* **PoolControlHandoff** (`runtime.py:1700`).  The end of a Context control makes
  a Runtime idle without `_dispatch_from_idle`: a Turn queued meanwhile is not
  started, where `docs/实施记录.md:34` has the slot handed over at once.
* **FeedRestart** (`app/services/events.py:137`).  Event ids begin at 1 in every
  process.  A page that was open during a restart reconnects with a Last-Event-ID
  from before; the stream takes it as its cursor and drops every new event whose
  id is not greater, from the history and from the queue.  `README.md:79` says
  events must not be lost; `README.md:107` concedes only that old ones are not
  replayed after a restart.
* **ProtocolRetry** (`runtime.py:449`).  A control that Core refused is cleared
  before its call goes on.  If another client is admitted with the same control
  in between, the failed call takes that control for its own, aborts it and stops
  the Runtime, where `tests/test_runtime.py:2786` has the Runtime idle and ready
  for a retry.

`LimitsRespected` and the refinement leave out generations
whose process ended by itself: `_occupies_slot` stops counting them at once,
before the reader has claimed them and the container is removed.  `README.md:57`
counts them until then.

## 7. Not modelled, and the plan

Not modelled, and why:

* Docker commands, HTTP routing and validation, configuration, deployment, and
  the rendering of the frontend have no state that interacts with anything above.
* How `JsonlRuntimeAdapter.feed` cuts bytes into lines is a pure function that
  unit tests reach; what a broken line does to everybody else is in
  `RuntimeProtocol`.
* The forwarding of the relay is one streamed request after one lookup of a
  token, whose life is in `RuntimePool`.
* Uploads check limits and move files in threads; the state is the file system.
* Retention: which Sessions and users have expired is one SQL statement each.
  That the list of Sessions is stale by the time the last of them is deleted
  (`lifecycle.py:53`) is a hazard without a property: activity is not kept, and
  `SessionServices` lets every Session be deleted at any moment.
* The text of the terminal, with its buffer and its queues for slow clients.

Left in the plan: an abstract specification of the feed of a Session, a log of
stable events in which every page has a place that only moves forward, and the
proof that `Feed` implements it; the same for `SessionServices`, whose promise is
that a generation has an owner for everything that is started for it.
