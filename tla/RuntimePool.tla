----------------------------- MODULE RuntimePool -----------------------------
(***************************************************************************)
(* The Runtime pool of app/services/runtime.py: class RuntimeManager.      *)
(*                                                                         *)
(* Every Session owns at most one Sandbox at a time.  A Sandbox belongs to *)
(* one GENERATION of its Session; a generation is started by a start task, *)
(* used by Turns, Context controls and terminal clients, and ended by the  *)
(* one finalizer that claims it.  The pool bounds the Sandboxes globally   *)
(* and per Web User, queues Turns it cannot admit, and hands the slot of   *)
(* an idle Runtime (the SOURCE) to another Session (the TARGET).           *)
(*                                                                         *)
(* Atomicity.  The manager runs on one asyncio loop, and nothing suspends  *)
(* while self._lock is held, so a step of this module is the code between  *)
(* two real suspensions: a spawned task that has not run yet, the          *)
(* per-Session lifecycle_lock, a process, a container, a hook, a sleep.    *)
(*                                                                         *)
(* Abstractions.  A Turn is its presence (active_turn_id is not None): the *)
(* code allows one per Session.  last_activity is not kept, so any         *)
(* candidate may be the oldest, and any candidate may have expired.        *)
(* EventHub publications change no state of the manager and are left out.  *)
(***************************************************************************)
EXTENDS Integers, Sequences, FiniteSets

CONSTANTS
    Session,      \* Session ids
    User,         \* Web Users
    Owner,        \* session_owner_resolver: [Session -> User]
    Client,       \* terminal lease ids
    Control,      \* the Context controls in use: context_status, compact
    Ask,          \* what Core may ask the user: permission, mcp_trust
    Env,          \* what may happen around the pool: see EnvKinds
    MaxActive,    \* settings.sandbox_max_active
    MaxPerUser,   \* settings.sandbox_max_active_per_user
    QueueMax,     \* settings.sandbox_queue_max
    MaxGen,       \* bound of the model on runtime_generation
    None          \* Python's None

(* stop: a Session is stopped; expiry: the inactivity TTL runs out;        *)
(* shutdown: the application ends; exit: a process ends on its own;        *)
(* protocol: its output cannot be read; start: a launch, a readiness wait  *)
(* or the first write fails; cleanup: a process or container survives its  *)
(* teardown; slow: a client waits for readiness longer than its budget.    *)
EnvKinds ==
    {"stop", "expiry", "shutdown", "exit", "protocol", "start", "cleanup", "slow"}

ASSUME PoolAssumption ==
    /\ IsFiniteSet(Session)
    /\ Owner \in [Session -> User]
    /\ Ask \subseteq {"permission", "mcp_trust"}
    /\ Env \subseteq EnvKinds
    /\ MaxActive \in Nat /\ MaxPerUser \in Nat /\ QueueMax \in Nat /\ MaxGen \in Nat
    /\ None \notin Session \cup Control \cup (Session \X (0..MaxGen))

VARIABLES
    rt,        \* _sessions: the _RuntimeSession of every Session
    queue,     \* _queue: the Sessions with a _QueuedTurn, oldest first
    starts,    \* the _start_runtime tasks that have not returned
    dispatch,  \* the Sessions with a spawned _dispatch_from_idle
    sweep,     \* the <<Session, generation>> whose finalizers the sweep awaits
    closing,   \* the <<Session, generation>> whose finalizers shutdown awaits
    mode       \* "open", then _closed: "closing" until shutdown returns

vars == <<rt, queue, starts, dispatch, sweep, closing, mode>>

Status == {"stopped", "starting", "idle", "running", "queued", "stopping", "error",
           "waiting_permission", "waiting_mcp_trust"}

Generation == 0..MaxGen

Source == (Session \X Generation) \cup {None}

(* proc is state.process: None, or a process that is live or has a return  *)
(* code.  fin is the finalizer task: its phase, "kept" standing for        *)
(* "hooks" after a container whose removal could not be confirmed.  died   *)
(* is not in the code: it remembers that the process of this generation    *)
(* ended before anyone had claimed the generation.                         *)
Runtime ==
    [status  : Status,
     gen     : Generation,                        \* runtime_generation
     proc    : {"none", "live", "exited"},
     ref     : BOOLEAN,                           \* container_ref is not None
     turn    : BOOLEAN,                           \* active_turn_id is not None
     busy    : BOOLEAN,
     waiter  : BOOLEAN,                           \* a pending _send_when_ready
     control : Control \cup {None},               \* pending_control
     leases  : SUBSET Client,                     \* terminal_lease_ids
     src     : Source,                            \* capacity_source
     token   : Generation,                        \* generation of the registered token, 0: none
     finGen  : Generation,                        \* finalizing_generation, 0: None
     fin     : {"none", "waiting", "teardown", "hooks", "kept"},
     final   : {"stopped", "error"},              \* final_status of the finalizer
     cleanup : BOOLEAN,                           \* cleanup_pending
     died    : BOOLEAN]                           \* history

StartTask ==
    [sess : Session, gen : Generation, turn : BOOLEAN,
     src : Source,
     at : {"source", "launching", "ready"}]

Fresh ==
    [status |-> "stopped", gen |-> 0, proc |-> "none", ref |-> FALSE, turn |-> FALSE,
     busy |-> FALSE, waiter |-> FALSE, control |-> None, leases |-> {}, src |-> None,
     token |-> 0, finGen |-> 0, fin |-> "none", final |-> "stopped", cleanup |-> FALSE,
     died |-> FALSE]

Init ==
    /\ rt = [s \in Session |-> Fresh]
    /\ queue = <<>>
    /\ starts = {}
    /\ dispatch = {}
    /\ sweep = {}
    /\ closing = {}
    /\ mode = "open"

-----------------------------------------------------------------------------
(* Predicates on one _RuntimeSession.                                      *)

Live(r) == r.proc = "live"

Finalizing(r) == r.status = "stopping" \/ r.finGen # 0

(* Mutant: a slot is free as soon as its process has ended.                *)
OccupiesSlotWhileLive(r) == r.cleanup \/ r.status = "starting" \/ Live(r)

OccupiesSlot(r) == r.cleanup \/ r.status = "starting" \/ Finalizing(r) \/ Live(r)

GenuinelyIdle(r) == r.status = "idle" /\ Live(r) /\ ~r.turn /\ ~r.busy

(* What the pool counts, for a map f of Sessions to their state.           *)
SourceOccupied(f, r) ==
    /\ r.src # None
    /\ f[r.src[1]].gen = r.src[2]
    /\ OccupiesSlot(f[r.src[1]])

(* A target that has not launched is not counted: its source still is.     *)
Reserving(f, s) == f[s].proc = "none" /\ SourceOccupied(f, f[s])

CountsSlot(f, s) == OccupiesSlot(f[s]) /\ ~Reserving(f, s)

(* Mutant: only Runtimes that have been launched count for their user.     *)
CountsUserSlotLaunched(f, s) == Live(f[s])

(* Per user, a target also counts when the slot comes from another user.   *)
CountsUserSlot(f, s) ==
    /\ OccupiesSlot(f[s])
    /\ Reserving(f, s) => Owner[f[s].src[1]] # Owner[s]

Occupied(f) == Cardinality({s \in Session : CountsSlot(f, s)})

UserOccupied(f, u, releasing) ==
    Cardinality({s \in Session : Owner[s] = u /\ s # releasing /\ CountsUserSlot(f, s)})

UserHasCapacity(f, s, releasing) == UserOccupied(f, Owner[s], releasing) < MaxPerUser

CanStart(f, s) == Occupied(f) < MaxActive /\ UserHasCapacity(f, s, None)

Evictable(f, target) ==
    {v \in Session : /\ GenuinelyIdle(f[v])
                     /\ f[v].leases = {}
                     /\ UserHasCapacity(f, target, v)}

-----------------------------------------------------------------------------
(* What the _locked helpers do to one _RuntimeSession.                     *)

(* _prepare_start_locked: the next generation of the Session, its relay    *)
(* token issued and the previous one revoked.  turn is what the caller     *)
(* assigns to active_turn_id right after it.                               *)
Prepared(r, src, turn) ==
    [r EXCEPT !.status = "starting", !.gen = @ + 1, !.ref = FALSE, !.turn = turn,
              !.busy = FALSE, !.control = None, !.src = src, !.token = r.gen + 1,
              !.died = FALSE]

CanPrepare(r) == ~r.cleanup /\ r.gen < MaxGen

(* _claim_finalization_locked: one generation finishes once, and only      *)
(* while something of it is left.                                          *)
Claimable(r, g) ==
    /\ r.gen = g
    /\ r.finGen = 0
    /\ ~(r.status \in {"stopped", "error"} /\ r.proc = "none" /\ ~r.cleanup)

(* _begin_finalization_locked.  The status change wakes a pending          *)
(* _send_when_ready, which raises before the finalizer's first step.       *)
Begin(r, g, final) ==
    IF Claimable(r, g)
    THEN [r EXCEPT !.finGen = g, !.status = "stopping", !.fin = "waiting",
                   !.final = final, !.waiter = FALSE]
    ELSE r

(* _pop_next_eligible_locked: the first item whose user has capacity.      *)
EligibleFor(f, q, releasing) ==
    {i \in DOMAIN q : /\ f[q[i]].status = "queued"
                      /\ UserHasCapacity(f, q[i], releasing)}

(* Mutant: the newest eligible item.                                       *)
Last(I) == CHOOSE i \in I : \A j \in I : i >= j

First(I) == CHOOSE i \in I : \A j \in I : i <= j

(* The queue without the items at the positions I.                         *)
KthOf(K, k) == CHOOSE i \in K : Cardinality({j \in K : j <= i}) = k

Without(q, I) ==
    LET K == DOMAIN q \ I
    IN  [k \in 1..Cardinality(K) |-> q[KthOf(K, k)]]

(* _schedule_waiting: the loop pops the first eligible item until no slot  *)
(* is free.  Each pop takes one slot of the pool and one of its user, so   *)
(* the loop admits the items that are within their user's quota counting   *)
(* the items of that user before them, and of these as many as slots are   *)
(* free.                                                                   *)
WithinQuota(f, q) ==
    {i \in DOMAIN q :
        /\ f[q[i]].status = "queued"
        /\ UserOccupied(f, Owner[q[i]], None)
             + Cardinality({j \in 1..(i - 1) : Owner[q[j]] = Owner[q[i]]}) < MaxPerUser}

(* Mutant: the free slots are counted once, before the loop.               *)
AdmittedTooMany(f, q) ==
    {i \in WithinQuota(f, q) : Occupied(f) < MaxActive}

Admitted(f, q) ==
    LET W == WithinQuota(f, q)
    IN  {i \in W : Occupied(f) + Cardinality({j \in W : j < i}) < MaxActive}

(* The loop itself.  Popped: the state f after the items at the positions  *)
(* I have been popped; NextItem: what is popped next.                      *)
Popped(f, q, I) ==
    [s \in Session |-> IF s \in {q[i] : i \in I} THEN Prepared(f[s], None, TRUE) ELSE f[s]]

NextItem(f, q, I) ==
    LET g == Popped(f, q, I)
        E == EligibleFor(g, q, None) \ I
    IN  {i \in E : Occupied(g) < MaxActive /\ \A j \in E : i <= j}

Loop(f, q) ==
    LET items[k \in 0..Len(q)] ==
          IF k = 0 THEN {} ELSE items[k - 1] \cup NextItem(f, q, items[k - 1])
    IN  items[Len(q)]

(* _schedule_waiting on the state f: the admitted Sessions are prepared,   *)
(* and a _start_queued_turn is spawned for each.                           *)
ScheduleWaiting(f) ==
    LET I == IF mode = "open" THEN Admitted(f, queue) ELSE {}
        A == {queue[i] : i \in I}
    IN  /\ rt' = [s \in Session |->
                    IF s \in A THEN Prepared(f[s], None, TRUE) ELSE f[s]]
        /\ queue' = Without(queue, I)
        /\ starts' = starts \cup
              {[sess |-> s, gen |-> f[s].gen + 1, turn |-> TRUE,
                src |-> None, at |-> "source"] : s \in A}

(* The lifecycle_lock of a Session: a start holds it from its admission    *)
(* check on, a finalizer from its first step on.                           *)
StartHoldsLock(s) == \E t \in starts : t.sess = s /\ t.at # "source"

FinalizerHoldsLock(s) == rt[s].fin \in {"teardown", "hooks", "kept"}

(* Admission of s in its own slot, or in the slot of the evicted idle      *)
(* Runtime v, which is claimed in the same step.                           *)
StartTaskFor(s, src, turn) ==
    [sess |-> s, gen |-> rt[s].gen + 1, turn |-> turn, src |-> src, at |-> "source"]

AdmitFree(s, turn) ==
    /\ CanStart(rt, s)
    /\ CanPrepare(rt[s])
    /\ rt' = [rt EXCEPT ![s] = Prepared(@, None, turn)]
    /\ starts' = starts \cup {StartTaskFor(s, None, turn)}

(* Mutant: the victim is claimed by the start task, not by the admission.  *)
AdmitBeforeClaim(s, turn) ==
    /\ ~CanStart(rt, s)
    /\ CanPrepare(rt[s])
    /\ \E v \in Evictable(rt, s) :
         LET src == <<v, rt[v].gen>>
         IN  /\ rt' = [rt EXCEPT ![s] = Prepared(@, src, turn)]
             /\ starts' = starts \cup {StartTaskFor(s, src, turn)}

(* Mutant: the source is reserved without its generation.                  *)
AdmitWithoutGeneration(s, turn) ==
    /\ ~CanStart(rt, s)
    /\ CanPrepare(rt[s])
    /\ \E v \in Evictable(rt, s) :
         /\ rt' = [rt EXCEPT ![v] = Begin(@, @.gen, "stopped"),
                             ![s] = Prepared(@, <<v>>, turn)]
         /\ starts' = starts \cup {StartTaskFor(s, <<v, rt[v].gen>>, turn)}

AdmitEvicting(s, turn) ==
    /\ ~CanStart(rt, s)
    /\ CanPrepare(rt[s])
    /\ \E v \in Evictable(rt, s) :
         LET src == <<v, rt[v].gen>>
         IN  /\ rt' = [rt EXCEPT ![v] = Begin(@, @.gen, "stopped"),
                                 ![s] = Prepared(@, src, turn)]
             /\ starts' = starts \cup {StartTaskFor(s, src, turn)}

(* The finalizer of an earlier generation is retried, or the finalizer of  *)
(* a process found dead is begun; the call then waits and starts over,     *)
(* which is another call of this model.                                    *)
ReclaimFirst(s) ==
    rt' = [rt EXCEPT ![s] = Begin(@, @.gen, IF @.cleanup THEN "stopped" ELSE "error")]

-----------------------------------------------------------------------------
(* activate                                                                *)

(* The dead-process test of activate also holds for a start whose process  *)
(* is not launched yet.                                                    *)
ActivateReclaims(s) ==
    LET r == rt[s] IN
    /\ mode = "open"
    /\ ~Finalizing(r)
    /\ \/ r.cleanup
       \/ /\ r.status \in {"starting", "idle", "running",
                           "waiting_permission", "waiting_mcp_trust"}
          /\ r.gen > 0
          /\ ~Live(r)
    /\ ReclaimFirst(s)
    /\ UNCHANGED <<queue, starts, dispatch, sweep, closing, mode>>

ActivateAdmits(s) ==
    /\ mode = "open"
    /\ rt[s].status \in {"stopped", "error"}
    /\ ~Finalizing(rt[s])
    /\ AdmitFree(s, FALSE) \/ AdmitEvicting(s, FALSE)
    /\ UNCHANGED <<queue, dispatch, sweep, closing, mode>>

(* send_message                                                            *)

Sendable(s) == mode = "open" /\ ~Finalizing(rt[s]) /\ rt[s].control = None

SendReclaims(s) ==
    LET r == rt[s] IN
    /\ Sendable(s)
    /\ \/ r.cleanup
       \/ /\ ~r.turn
          /\ r.status \in {"idle", "running", "waiting_permission", "waiting_mcp_trust"}
          /\ r.gen > 0
          /\ ~Live(r)
    /\ ReclaimFirst(s)
    /\ UNCHANGED <<queue, starts, dispatch, sweep, closing, mode>>

(* Mutant: the waiting Turn is not reserved.                               *)
SendWithoutReserving(s) ==
    /\ Sendable(s)
    /\ ~rt[s].cleanup /\ ~rt[s].turn /\ rt[s].status = "starting"
    /\ rt' = [rt EXCEPT ![s].waiter = TRUE]
    /\ UNCHANGED <<queue, starts, dispatch, sweep, closing, mode>>

(* The Turn waits for the start that is under way: _send_when_ready.       *)
SendToStarting(s) ==
    /\ Sendable(s)
    /\ ~rt[s].cleanup /\ ~rt[s].turn /\ rt[s].status = "starting"
    /\ rt' = [rt EXCEPT ![s].turn = TRUE, ![s].waiter = TRUE]
    /\ UNCHANGED <<queue, starts, dispatch, sweep, closing, mode>>

SendToIdle(s) ==
    /\ Sendable(s)
    /\ ~rt[s].cleanup /\ GenuinelyIdle(rt[s])
    /\ rt' = [rt EXCEPT ![s].status = "running", ![s].busy = TRUE, ![s].turn = TRUE]
    /\ UNCHANGED <<queue, starts, dispatch, sweep, closing, mode>>

Restartable(s) ==
    /\ Sendable(s)
    /\ rt[s].status \in {"stopped", "error"}
    /\ ~rt[s].cleanup /\ ~rt[s].turn /\ ~rt[s].busy

SendAdmits(s) ==
    /\ Restartable(s)
    /\ AdmitFree(s, TRUE) \/ AdmitEvicting(s, TRUE)
    /\ UNCHANGED <<queue, dispatch, sweep, closing, mode>>

SendQueues(s) ==
    /\ Restartable(s)
    /\ ~CanStart(rt, s)
    /\ Evictable(rt, s) = {}
    /\ Len(queue) < QueueMax
    /\ rt[s].gen < MaxGen
    /\ rt' = [rt EXCEPT ![s].status = "queued", ![s].turn = TRUE]
    /\ queue' = Append(queue, s)
    /\ UNCHANGED <<starts, dispatch, sweep, closing, mode>>

(* _send_when_ready, once its Runtime is idle.                             *)
SendWhenReady(s) ==
    /\ rt[s].waiter
    /\ rt[s].status = "idle" /\ Live(rt[s])
    /\ rt' = [rt EXCEPT ![s].status = "running", ![s].busy = TRUE, ![s].waiter = FALSE]
    /\ UNCHANGED <<queue, starts, dispatch, sweep, closing, mode>>

(* Its own readiness budget ran out: the call raises and leaves the Turn.  *)
SendWaitTimesOut(s) ==
    /\ "slow" \in Env
    /\ rt[s].waiter /\ rt[s].status = "starting"
    /\ rt' = [rt EXCEPT ![s].waiter = FALSE]
    /\ UNCHANGED <<queue, starts, dispatch, sweep, closing, mode>>

-----------------------------------------------------------------------------
(* _start_runtime                                                          *)

(* Mutant: the target waits until its source starts again.                 *)
SourceReplaced(t) == t.src # None => rt[t.src[1]].gen # t.src[2]

SourceDone(t) == t.src # None => rt[t.src[1]].finGen # t.src[2]

(* Mutant: the task of a cancelled start goes on in a later generation.    *)
StartIsForSession(t) == mode = "open" /\ rt[t.sess].status = "starting"

(* The generation binding: the task of a cancelled start does nothing.     *)
StartIsCurrent(t) ==
    mode = "open" /\ rt[t.sess].gen = t.gen /\ rt[t.sess].status = "starting"

(* The check under the locks, before anything is launched.                 *)
StartChecks(t) ==
    LET s == t.sess
        blocked == \/ SourceOccupied(rt, rt[s])
                   \/ Occupied(rt) > MaxActive
                   \/ ~UserHasCapacity(rt, s, s)
    IN  /\ t.at = "source"
        /\ SourceDone(t)
        /\ ~StartHoldsLock(s) /\ ~FinalizerHoldsLock(s)
        /\ \/ /\ ~StartIsCurrent(t)
              /\ starts' = starts \ {t}
              /\ UNCHANGED rt
           \/ /\ StartIsCurrent(t) /\ blocked
              /\ starts' = starts \ {t}
              /\ rt' = [rt EXCEPT ![s] = Begin(@, t.gen, "error")]
           \/ /\ StartIsCurrent(t) /\ ~blocked
              /\ starts' = (starts \ {t}) \cup {[t EXCEPT !.at = "launching"]}
              /\ rt' = [rt EXCEPT ![s].src = None]
        /\ UNCHANGED <<queue, dispatch, sweep, closing, mode>>

(* The container was launched: a start that lost its generation meanwhile  *)
(* keeps the process for the finalizer and gets no reader.                 *)
StartLaunches(t) ==
    LET s == t.sess
        r == [rt[s] EXCEPT !.proc = "live", !.ref = TRUE]
    IN  /\ t.at = "launching"
        /\ \/ /\ StartIsCurrent(t)
              /\ rt' = [rt EXCEPT ![s] = r]
              /\ starts' = (starts \ {t}) \cup {[t EXCEPT !.at = "ready"]}
           \/ /\ ~StartIsCurrent(t)
              /\ rt' = [rt EXCEPT ![s] = Begin(r, t.gen, "stopped")]
              /\ starts' = starts \ {t}
        /\ UNCHANGED <<queue, dispatch, sweep, closing, mode>>

(* A hook, the relay credential or the launch itself raised.               *)
StartLaunchFails(t) ==
    /\ "start" \in Env
    /\ t.at = "launching"
    /\ rt' = [rt EXCEPT ![t.sess] = Begin(@, t.gen, "error")]
    /\ starts' = starts \ {t}
    /\ UNCHANGED <<queue, dispatch, sweep, closing, mode>>

(* Core reported runtime_ready: the Runtime is idle, or runs its Turn.     *)
StartCompletes(t) ==
    LET s == t.sess IN
    /\ t.at = "ready"
    /\ rt[s].status = "starting" /\ Live(rt[s])
    /\ rt' = [rt EXCEPT ![s].status = IF t.turn THEN "running" ELSE "idle",
                        ![s].busy = t.turn]
    /\ starts' = starts \ {t}
    /\ dispatch' = IF t.turn THEN dispatch ELSE dispatch \cup {s}
    /\ UNCHANGED <<queue, sweep, closing, mode>>

(* Mutant: a claim does not wake _wait_for_ready.                          *)
StartNotWoken(t) ==
    /\ t.at = "ready"
    /\ rt[t.sess].status = "starting" /\ "start" \in Env
    /\ rt' = [rt EXCEPT ![t.sess] = Begin(@, t.gen, "error")]
    /\ starts' = starts \ {t}
    /\ UNCHANGED <<queue, dispatch, sweep, closing, mode>>

(* _wait_for_ready raised because the generation was claimed or its budget *)
(* ran out, or the first write failed.                                     *)
StartFails(t) ==
    LET s == t.sess IN
    /\ t.at = "ready"
    /\ \/ rt[s].status \notin {"starting", "waiting_mcp_trust"}
       \/ rt[s].status = "starting" /\ "start" \in Env
    /\ rt' = [rt EXCEPT ![s] = Begin(@, t.gen, "error")]
    /\ starts' = starts \ {t}
    /\ UNCHANGED <<queue, dispatch, sweep, closing, mode>>

-----------------------------------------------------------------------------
(* Messages of Core, the user's answers, and the Context controls.         *)

(* Mutant: nobody is told that the Runtime is idle.                        *)
TurnFinishedSilently(s) ==
    /\ rt[s].proc # "none" /\ ~Finalizing(rt[s])
    /\ rt[s].turn /\ rt[s].busy
    /\ rt' = [rt EXCEPT ![s].status = "idle", ![s].busy = FALSE, ![s].turn = FALSE]
    /\ UNCHANGED <<queue, starts, dispatch, sweep, closing, mode>>

TurnFinished(s) ==
    /\ rt[s].proc # "none" /\ ~Finalizing(rt[s])
    /\ rt[s].turn /\ rt[s].busy
    /\ rt' = [rt EXCEPT ![s].status = "idle", ![s].busy = FALSE, ![s].turn = FALSE]
    /\ dispatch' = dispatch \cup {s}
    /\ UNCHANGED <<queue, starts, sweep, closing, mode>>

(* Core asks for a permission while it runs a Turn, and for trust in an    *)
(* MCP server before it is ready.                                          *)
Asks(s) ==
    /\ Live(rt[s])
    /\ \/ /\ "permission" \in Ask /\ rt[s].status = "running" /\ rt[s].turn
          /\ rt' = [rt EXCEPT ![s].status = "waiting_permission"]
       \/ /\ "mcp_trust" \in Ask /\ rt[s].status = "starting"
          /\ rt' = [rt EXCEPT ![s].status = "waiting_mcp_trust"]
    /\ UNCHANGED <<queue, starts, dispatch, sweep, closing, mode>>

Resolve(s) ==
    /\ \/ /\ rt[s].status = "waiting_permission"
          /\ rt' = [rt EXCEPT ![s].status = "running"]
       \/ /\ rt[s].status = "waiting_mcp_trust"
          /\ rt' = [rt EXCEPT ![s].status = "starting"]
    /\ UNCHANGED <<queue, starts, dispatch, sweep, closing, mode>>

(* _run_control up to its wait for the result.                             *)
ControlBegins(s, c) ==
    /\ mode = "open"
    /\ GenuinelyIdle(rt[s]) /\ ~Finalizing(rt[s]) /\ rt[s].control = None
    /\ rt' = [rt EXCEPT ![s].control = c, ![s].busy = TRUE]
    /\ UNCHANGED <<queue, starts, dispatch, sweep, closing, mode>>

(* Mutant: the result of a control leaves the Runtime busy.                *)
ControlEndsBusy(s) ==
    /\ rt[s].control # None /\ rt[s].proc # "none"
    /\ rt' = [rt EXCEPT ![s].control = None]
    /\ UNCHANGED <<queue, starts, dispatch, sweep, closing, mode>>

(* _complete_control and _fail_control.                                    *)
ControlEnds(s) ==
    /\ rt[s].control # None /\ rt[s].proc # "none"
    /\ rt' = [rt EXCEPT ![s].control = None, ![s].busy = FALSE]
    /\ UNCHANGED <<queue, starts, dispatch, sweep, closing, mode>>

(* A timeout or a failed write: _abort_control, then stop_session.         *)
(* Mutant: a start that has no process yet cannot be stopped.              *)
StoppableOnceLive(r) == Live(r) \/ r.finGen # 0 \/ r.cleanup

Stoppable(r) == Live(r) \/ r.status = "starting" \/ r.finGen # 0 \/ r.cleanup

ControlAborts(s) ==
    LET r == [rt[s] EXCEPT !.control = None, !.busy = FALSE] IN
    /\ rt[s].control # None
    /\ rt' = [rt EXCEPT ![s] = IF Stoppable(r) THEN Begin(r, r.gen, "stopped") ELSE r]
    /\ UNCHANGED <<queue, starts, dispatch, sweep, closing, mode>>

-----------------------------------------------------------------------------
(* Terminal demand and the handoff of an idle Runtime.                     *)

LeaseAcquire(s, c) ==
    /\ mode = "open" /\ ~Finalizing(rt[s])
    /\ c \notin rt[s].leases
    /\ rt' = [rt EXCEPT ![s].leases = @ \cup {c}]
    /\ UNCHANGED <<queue, starts, dispatch, sweep, closing, mode>>

LeaseRelease(s, c) ==
    /\ c \in rt[s].leases
    /\ rt' = [rt EXCEPT ![s].leases = @ \ {c}]
    /\ dispatch' = IF rt[s].leases = {c} /\ GenuinelyIdle(rt[s]) /\ queue # <<>>
                   THEN dispatch \cup {s} ELSE dispatch
    /\ UNCHANGED <<queue, starts, sweep, closing, mode>>

(* _dispatch_from_idle: the slot of s goes to the first queued Session     *)
(* whose user has capacity once s is released.                             *)
CanDispatch(s) ==
    /\ mode = "open"
    /\ GenuinelyIdle(rt[s]) /\ rt[s].leases = {}
    /\ EligibleFor(rt, queue, s) # {}

DispatchFromIdle(s) ==
    /\ s \in dispatch
    /\ dispatch' = dispatch \ {s}
    /\ \/ /\ ~CanDispatch(s)
          /\ UNCHANGED <<rt, queue, starts>>
       \/ /\ CanDispatch(s)
          /\ LET i == First(EligibleFor(rt, queue, s))
                 target == queue[i]
                 src == <<s, rt[s].gen>>
             IN  /\ rt' = [rt EXCEPT ![s] = Begin(@, @.gen, "stopped"),
                                     ![target] = Prepared(@, src, TRUE)]
                 /\ queue' = Without(queue, {i})
                 /\ starts' = starts \cup {StartTaskFor(target, src, TRUE)}
    /\ UNCHANGED <<sweep, closing, mode>>

-----------------------------------------------------------------------------
(* The end of a generation.                                                *)

(* A process ends without being asked to.                                  *)
ProcessExit(s) ==
    /\ "exit" \in Env
    /\ Live(rt[s])
    /\ rt' = [rt EXCEPT ![s].proc = "exited",
                        ![s].died = @ \/ ~(Finalizing(rt[s]) \/ rt[s].cleanup)]
    /\ UNCHANGED <<queue, starts, dispatch, sweep, closing, mode>>

(* _read_output at the end of the output, or at output it cannot decode.   *)
ReaderClaims(s) ==
    /\ ~Finalizing(rt[s]) /\ ~rt[s].cleanup
    /\ \E final \in {"stopped", "error"} :
         /\ \/ rt[s].proc = "exited"
            \/ Live(rt[s]) /\ "protocol" \in Env /\ final = "error"
         /\ rt' = [rt EXCEPT ![s] = Begin(@, @.gen, final)]
    /\ UNCHANGED <<queue, starts, dispatch, sweep, closing, mode>>

(* _run_generation_finalizer, from its wait for the lifecycle_lock on.     *)
FinalizerLocks(s) ==
    /\ rt[s].fin = "waiting"
    /\ ~StartHoldsLock(s)
    /\ rt' = [rt EXCEPT ![s].fin = "teardown"]
    /\ UNCHANGED <<queue, starts, dispatch, sweep, closing, mode>>

(* Mutant: the token outlives its generation.                              *)
TearsDownKeepingToken(s) ==
    /\ rt[s].fin = "teardown"
    /\ rt' = [rt EXCEPT ![s].proc = IF @ = "live" THEN "exited" ELSE @, ![s].fin = "hooks"]
    /\ UNCHANGED <<queue, starts, dispatch, sweep, closing, mode>>

(* The process is closed or killed, the container removed, the token       *)
(* revoked.  The process may survive, the container may be kept, and any   *)
(* other error of the cleanup, of its hooks too, makes the final status    *)
(* "error".                                                                *)
FinalizerTearsDown(s) ==
    /\ rt[s].fin = "teardown"
    /\ \E survives, kept, errors \in BOOLEAN :
         /\ survives \/ kept \/ errors => "cleanup" \in Env
         /\ survives => Live(rt[s])
         /\ kept => rt[s].ref
         /\ rt' = [rt EXCEPT
                ![s].proc = IF Live(rt[s]) /\ ~survives THEN "exited" ELSE @,
                ![s].fin = IF kept THEN "kept" ELSE "hooks",
                ![s].final = IF errors THEN "error" ELSE @,
                ![s].token = 0]
    /\ UNCHANGED <<queue, starts, dispatch, sweep, closing, mode>>

(* Mutant: what could not be removed is forgotten.                         *)
ConvergedForgetting(r) ==
    [r EXCEPT !.status = r.final, !.cleanup = FALSE, !.src = None,
              !.busy = FALSE, !.turn = FALSE, !.control = None, !.leases = {},
              !.finGen = 0, !.fin = "none"]

(* Mutant: finalizing_generation is not reset.                             *)
ConvergedStillClaimed(r) ==
    LET failed == Live(r) \/ r.fin = "kept"
    IN  [r EXCEPT !.status = IF failed THEN "error" ELSE r.final,
                  !.cleanup = failed, !.src = None,
                  !.proc = IF Live(r) THEN "live" ELSE "none",
                  !.ref = r.ref /\ r.fin = "kept",
                  !.busy = FALSE, !.turn = FALSE, !.control = None, !.leases = {},
                  !.fin = "none"]

(* What the finalizer leaves behind.                                       *)
Converged(r) ==
    LET failed == Live(r) \/ r.fin = "kept"
    IN  [r EXCEPT !.status = IF failed THEN "error" ELSE r.final,
                  !.cleanup = failed, !.src = None,
                  !.proc = IF Live(r) THEN "live" ELSE "none",
                  !.ref = r.ref /\ r.fin = "kept",
                  !.busy = FALSE, !.turn = FALSE, !.control = None, !.leases = {},
                  !.finGen = 0, !.fin = "none"]

(* Mutant: the freed slot is offered to nobody.                            *)
ConvergesSilently(s) ==
    /\ rt[s].fin \in {"hooks", "kept"}
    /\ rt' = [rt EXCEPT ![s] = Converged(@)]
    /\ UNCHANGED <<queue, starts, dispatch, sweep, closing, mode>>

(* The hooks have run: the generation converges and the queue is served.   *)
FinalizerConverges(s) ==
    /\ rt[s].fin \in {"hooks", "kept"}
    /\ ScheduleWaiting([rt EXCEPT ![s] = Converged(@)])
    /\ UNCHANGED <<dispatch, sweep, closing, mode>>

(* Mutant: a stop leaves the queue item behind.                            *)
StopLeavesItem(s) ==
    /\ "stop" \in Env
    /\ \/ /\ rt[s].status = "queued"
          /\ rt' = [rt EXCEPT ![s].status = "stopped", ![s].turn = FALSE]
       \/ /\ rt[s].status # "queued" /\ Stoppable(rt[s])
          /\ rt' = [rt EXCEPT ![s] = Begin(@, @.gen, "stopped")]
    /\ UNCHANGED <<queue, starts, dispatch, sweep, closing, mode>>

(* stop_session                                                            *)
StopSession(s) ==
    /\ "stop" \in Env
    /\ \/ /\ rt[s].status = "queued"
          /\ queue' = Without(queue, {i \in DOMAIN queue : queue[i] = s})
          /\ rt' = [rt EXCEPT ![s].status = "stopped", ![s].turn = FALSE]
       \/ /\ rt[s].status # "queued" /\ Stoppable(rt[s])
          /\ rt' = [rt EXCEPT ![s] = Begin(@, @.gen, "stopped")]
          /\ UNCHANGED queue
    /\ UNCHANGED <<starts, dispatch, sweep, closing, mode>>

(* sweep_expired: what the TTL applies to; any of it may have expired.     *)
Expirable(r) ==
    /\ Live(r)
    /\ \/ r.status = "waiting_mcp_trust"
       \/ r.status = "waiting_permission" /\ r.leases = {}
       \/ GenuinelyIdle(r) /\ r.leases = {}

Sweep ==
    /\ "expiry" \in Env
    /\ sweep = {}
    /\ \E E \in (SUBSET {s \in Session : Expirable(rt[s])}) \ {{}} :
         /\ rt' = [s \in Session |->
                     IF s \in E THEN Begin(rt[s], rt[s].gen, "stopped") ELSE rt[s]]
         /\ sweep' = {<<s, rt[s].gen>> : s \in E}
    /\ UNCHANGED <<queue, starts, dispatch, closing, mode>>

(* Every expired generation is reclaimed: the sweep serves the queue too.  *)
SweepEnds ==
    /\ sweep # {}
    /\ \A p \in sweep : rt[p[1]].finGen # p[2]
    /\ sweep' = {}
    /\ ScheduleWaiting(rt)
    /\ UNCHANGED <<dispatch, closing, mode>>

(* shutdown                                                                *)
Shutdown ==
    /\ "shutdown" \in Env
    /\ mode = "open"
    /\ mode' = "closing"
    /\ queue' = <<>>
    /\ LET C == {s \in Session : Stoppable(rt[s])}
       IN  /\ rt' = [s \in Session |->
                       IF s \in C THEN Begin(rt[s], rt[s].gen, "stopped")
                       ELSE IF rt[s].status = "queued" THEN [rt[s] EXCEPT !.status = "stopped"]
                       ELSE rt[s]]
           /\ closing' = {<<s, rt[s].gen>> : s \in C}
    /\ UNCHANGED <<starts, dispatch, sweep>>

(* The awaited finalizers are done: the background tasks are cancelled and *)
(* the token registry is cleared.                                          *)
ShutdownReturns ==
    /\ mode = "closing"
    /\ \A p \in closing : rt[p[1]].finGen # p[2]
    /\ mode' = "closed"
    /\ closing' = {}
    /\ starts' = {} /\ dispatch' = {}
    /\ rt' = [s \in Session |-> [rt[s] EXCEPT !.token = 0]]
    /\ UNCHANGED <<queue, sweep>>

(* The pool is closed, or every Session has had its MaxGen generations:    *)
(* only so that TLC takes neither for a deadlock.                          *)
Ended ==
    /\ \/ mode = "closed"
       \/ \A s \in Session : rt[s].gen = MaxGen /\ rt[s].status \in {"stopped", "error"}
    /\ UNCHANGED vars

-----------------------------------------------------------------------------
Request(s) ==
    \/ ActivateReclaims(s) \/ ActivateAdmits(s)
    \/ SendReclaims(s) \/ SendToStarting(s) \/ SendToIdle(s) \/ SendAdmits(s)
    \/ SendQueues(s) \/ SendWhenReady(s) \/ SendWaitTimesOut(s)
    \/ Resolve(s) \/ StopSession(s)
    \/ \E c \in Control : ControlBegins(s, c)
    \/ \E c \in Client : LeaseAcquire(s, c) \/ LeaseRelease(s, c)

Core(s) == TurnFinished(s) \/ Asks(s) \/ ControlEnds(s) \/ ControlAborts(s) \/ ProcessExit(s)

Generations(s) ==
    \/ DispatchFromIdle(s) \/ ReaderClaims(s)
    \/ FinalizerLocks(s) \/ FinalizerTearsDown(s) \/ FinalizerConverges(s)

Start(t) ==
    \/ StartChecks(t) \/ StartLaunches(t) \/ StartLaunchFails(t)
    \/ StartCompletes(t) \/ StartFails(t)

Next ==
    \/ \E s \in Session : Request(s) \/ Core(s) \/ Generations(s)
    \/ \E t \in starts : Start(t)
    \/ Sweep \/ SweepEnds
    \/ Shutdown \/ ShutdownReturns \/ Ended

Spec == Init /\ [][Next]_vars

(***************************************************************************)
(* Fairness.  Spawned tasks, readers and finalizers run; launches, hooks   *)
(* and teardowns return; Core finishes its Turns; a control ends or times  *)
(* out; what stays idle, unused and silent, is old enough for some later   *)
(* sweep, while every use of it begins the TTL anew.  A dispatch is        *)
(* scheduled by the step that makes its Runtime idle, so a message to that *)
(* Runtime cannot overtake it for ever: strong fairness.                   *)
(***************************************************************************)
Fairness ==
    /\ \A s \in Session :
         /\ WF_vars(\E t \in starts : t.sess = s /\ Start(t))
         /\ WF_vars(FinalizerLocks(s)) /\ WF_vars(FinalizerTearsDown(s))
         /\ WF_vars(FinalizerConverges(s))
         /\ WF_vars(ReaderClaims(s) /\ rt[s].proc = "exited")
         /\ WF_vars(SendWhenReady(s))
         /\ WF_vars(TurnFinished(s))
         /\ WF_vars(ControlEnds(s) \/ ControlAborts(s))
         /\ WF_vars(DispatchFromIdle(s))
         /\ SF_vars(DispatchFromIdle(s) /\ CanDispatch(s))
         /\ WF_vars(Sweep /\ rt[s].status # "stopping" /\ rt'[s].status = "stopping")
    /\ WF_vars(SweepEnds)

FairSpec == Spec /\ Fairness

-----------------------------------------------------------------------------
TypeOK ==
    /\ rt \in [Session -> Runtime]
    /\ queue \in Seq(Session) /\ Len(queue) <= QueueMax
    /\ starts \subseteq StartTask
    /\ dispatch \subseteq Session
    /\ sweep \subseteq Session \X Generation
    /\ closing \subseteq Session \X Generation
    /\ mode \in {"open", "closing", "closed"}

(* A Sandbox exists, as far as the manager can know: a process runs, a     *)
(* container was not confirmed removed, or a launch is under way.          *)
HasSandbox(s) ==
    \/ Live(rt[s]) \/ rt[s].ref
    \/ \E t \in starts : t.sess = s /\ t.at = "launching"

(* Between the end of a process and its reader's claim.                    *)
ExitUnnoticed(s) == rt[s].proc = "exited" /\ ~Finalizing(rt[s]) /\ ~rt[s].cleanup

(* Admission, eviction, handoff and queue together never give Sandboxes to *)
(* more Sessions than the pool has slots, nor to more of one Web User than *)
(* the quota, across users that hand slots to each other.  A generation    *)
(* whose process ended by itself is left out: _occupies_slot stops         *)
(* counting it before its container is removed.                            *)
LimitsRespected ==
    LET InSandbox == {s \in Session : HasSandbox(s) /\ ~rt[s].died}
    IN  /\ Cardinality(InSandbox) <= MaxActive
        /\ \A u \in User : Cardinality({s \in InSandbox : Owner[s] = u}) <= MaxPerUser

(* The queue and the statuses never disagree: a Session is queued exactly  *)
(* when it has one item, and then it owns nothing else of the pool.        *)
QueueAgrees ==
    /\ \A i, j \in DOMAIN queue : queue[i] = queue[j] => i = j
    /\ \A s \in Session :
         /\ rt[s].status = "queued" <=> \E i \in DOMAIN queue : queue[i] = s
         /\ rt[s].status = "queued" => /\ rt[s].turn /\ ~rt[s].busy /\ rt[s].finGen = 0
                                       /\ rt[s].proc = "none" /\ ~rt[s].cleanup

(* A slot is promised once: no two targets wait for the same generation of *)
(* the same source, and a source that still holds its slot is on its way   *)
(* out, so no Turn is cut off by a handoff that began while it was idle.   *)
SourcePromisedOnce ==
    \A s \in Session : SourceOccupied(rt, rt[s]) =>
        /\ Finalizing(rt[rt[s].src[1]]) \/ rt[rt[s].src[1]].cleanup
        /\ \A x \in Session : rt[x].src = rt[s].src => x = s

(* One finalizer, of the current generation, exactly while the Session is  *)
(* stopping: it never converges a generation it was not started for.       *)
FinalizerOwnsGeneration ==
    \A s \in Session :
        /\ rt[s].finGen # 0 <=> rt[s].status = "stopping"
        /\ rt[s].finGen # 0 <=> rt[s].fin # "none"
        /\ rt[s].finGen # 0 => rt[s].finGen = rt[s].gen

(* A start that has passed its check is the start of the current           *)
(* generation, and the only one: a stop waits for it, a restart for both.  *)
StartOwnsGeneration ==
    \A t \in starts : t.at # "source" =>
        /\ t.gen = rt[t.sess].gen
        /\ rt[t.sess].status \in {"starting", "waiting_mcp_trust", "stopping"}
        /\ rt[t.sess].fin \in {"none", "waiting"}
        /\ \A x \in starts : x.sess = t.sess /\ x.at # "source" => x = t

(* An accepted Turn is carried by exactly one of: its queue item, the      *)
(* start that will write it, the call that waits for readiness, or Core.   *)
(* None is lost and none is delivered twice.                               *)
Carriers(s) ==
    {c \in {"queue", "start", "waiter", "core"} :
        \/ c = "queue" /\ rt[s].status = "queued"
        \/ c = "start" /\ rt[s].status \in {"starting", "waiting_mcp_trust"}
                       /\ \E t \in starts : t.sess = s /\ t.gen = rt[s].gen /\ t.turn
        \/ c = "waiter" /\ rt[s].waiter
        \/ c = "core" /\ rt[s].busy /\ rt[s].control = None}

TurnCarriedOnce ==
    mode = "open" => \A s \in Session : ~Finalizing(rt[s]) =>
        Cardinality(Carriers(s)) = IF rt[s].turn THEN 1 ELSE 0

(* The TTL applies to every idle Runtime nobody uses, so its slot cannot   *)
(* be lost to the pool.                                                    *)
IdleCanExpire ==
    \A s \in Session :
        /\ rt[s].status = "idle" /\ Live(rt[s]) /\ rt[s].leases = {}
        /\ ~rt[s].waiter /\ rt[s].control = None
        => Expirable(rt[s])

(* No slot stays free while a queued Turn could take it.  A process that   *)
(* just ended frees its slot before its reader has noticed.                *)
WorkConserving ==
    mode = "open" /\ (\A s \in Session : ~ExitUnnoticed(s))
        => Admitted(rt, queue) = {}

(* Wherever _schedule_waiting may run, after a finalization or after a     *)
(* sweep, what it admits in the closed form is what its loop pops one by   *)
(* one, the state changing with every pop.                                 *)
AdmittedIsTheLoop ==
    /\ Admitted(rt, queue) = Loop(rt, queue)
    /\ \A s \in Session : rt[s].fin \in {"hooks", "kept"} =>
         LET f == [rt EXCEPT ![s] = Converged(@)]
         IN  Admitted(f, queue) = Loop(f, queue)

(* The end of x frees a place in the quota of its user, but no slot: its   *)
(* slot is promised to another user, or it was promised one itself.        *)
FreesQuotaOnly(x) ==
    /\ rt[x].finGen # 0 /\ rt'[x].finGen = 0
    /\ CountsUserSlot(rt, x)
    /\ \/ Reserving(rt, x)
       \/ \E y \in Session : /\ Reserving(rt, y) /\ rt[y].src[1] = x
                            /\ Owner[y] # Owner[x]

(* A Turn that could take the slot of an idle Runtime is not left waiting: *)
(* the handoff of that Runtime is on its way.  It is missed only when the  *)
(* Turn becomes eligible because the quota of its user is freed without a  *)
(* slot, and nothing is said of processes that ended by themselves, which  *)
(* the pool stops counting before they are gone.                           *)
IdleHandedOver ==
    [][\A s \in Session :
          /\ CanDispatch(s)' /\ ~(CanDispatch(s) /\ s \notin dispatch)
          /\ \A x \in Session : ~rt'[x].died /\ ~FreesQuotaOnly(x)
          => s \in dispatch']_vars

(* The relay token in the registry is the current generation's, and is     *)
(* gone once the generation has converged.                                 *)
TokenBound ==
    \A s \in Session :
        /\ rt[s].token \in {0, rt[s].gen}
        /\ rt[s].token # 0 => OccupiesSlot(rt[s]) \/ ExitUnnoticed(s)
        /\ mode = "open" /\ Live(rt[s]) /\ ~Finalizing(rt[s]) /\ ~rt[s].cleanup
              => rt[s].token = rt[s].gen

(* Once shutdown has returned, nothing of the pool runs any more, except   *)
(* what a failed teardown or an unnoticed exit left behind.                *)
ShutdownLeavesNothing ==
    mode = "closed" => /\ queue = <<>>
                       /\ \A s \in Session : HasSandbox(s) =>
                             rt[s].cleanup \/ rt[s].died

(* A generation begins only when nothing of the one before is left.        *)
GenerationsDoNotOverlap ==
    [][\A s \in Session : rt'[s].gen # rt[s].gen =>
          /\ rt'[s].gen = rt[s].gen + 1
          /\ ~HasSandbox(s) /\ ~FinalizerHoldsLock(s) /\ rt[s].token = 0]_vars

(* docs: a repeated activate does not start again; it joins the start.     *)
ActivateJoinsStart ==
    [][\A s \in Session : ActivateReclaims(s) =>
          ~\E t \in starts : t.sess = s /\ t.gen = rt[s].gen]_vars

(* The queue is FIFO among the Turns that can be admitted: nobody passes   *)
(* an older Turn, unless the quota of that Turn's user is in the way.      *)
FifoAmongEligible ==
    [][\A i, j \in DOMAIN queue :
          /\ i < j
          /\ rt'[queue[j]].status = "starting" /\ rt'[queue[i]].status = "queued"
          => /\ Owner[queue[i]] # Owner[queue[j]]
             /\ LET src == rt'[queue[j]].src
                IN  ~UserHasCapacity(rt', queue[i], IF src = None THEN None ELSE src[1])]_vars

(* Every finalization and every start ends.                                *)
FinalizationEnds == \A s \in Session : rt[s].finGen # 0 ~> rt[s].finGen = 0
StartEnds == \A s \in Session : rt[s].status = "starting" ~> rt[s].status # "starting"

(* Every queued Turn leaves the queue, unless somebody uses the context    *)
(* controls or a terminal for ever: a lease keeps its Runtime, and so does *)
(* a control, which begins the TTL anew and hands no slot over at its end. *)
UsersLetGo == <>[](\A s \in Session : rt[s].control = None /\ rt[s].leases = {})
QueuedServed ==
    UsersLetGo => \A s \in Session : rt[s].status = "queued" ~> rt[s].status # "queued"
=============================================================================
