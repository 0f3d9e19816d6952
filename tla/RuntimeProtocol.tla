---------------------------- MODULE RuntimeProtocol ----------------------------
(***************************************************************************)
(* What one generation of a Runtime and its Core say to each other, over   *)
(* the JSONL protocol of app/services/jsonl_runtime.py: class              *)
(* RuntimeManager of app/services/runtime.py from the moment the process   *)
(* is launched and its reader runs, to the end of its finalizer.           *)
(*                                                                         *)
(* RuntimePool has the Sessions, the slots and the generations; this       *)
(* module has the identifiers, the messages in flight, the calls that wait *)
(* for them, and the time the start gives Core.  Core itself is not part   *)
(* of this repository: its actions are what the manager's handlers, README *)
(* and tests expect of it, and the faults they provide for.                *)
(*                                                                         *)
(* Atomicity: as in RuntimePool.  A handler does not suspend; the calls    *)
(* suspend in drain, in wait_for and in the waits for the process.         *)
(***************************************************************************)
EXTENDS Integers, Sequences, FiniteSets

CONSTANTS
    Kind,        \* the Context controls: context_status, compact
    Env,         \* the faults: see EnvKinds
    MaxTurn,     \* bounds of the model: Turns,
    MaxAsk,      \*   permission and MCP Trust requests,
    MaxControl,  \*   Context controls,
    MaxWork,     \*   all of these together,
    MaxUp,       \*   messages of Core that are not read yet,
    MaxClock,    \*   and the time a start may take
    Budget       \* the readiness timeout of _start_runtime

(* repeat: Core reports a Turn as finished again; garbage: it writes what  *)
(* is not JSONL; exit: it ends by itself.                                  *)
EnvKinds == {"repeat", "garbage", "exit"}

ASSUME ProtocolAssumption ==
    /\ Env \subseteq EnvKinds
    /\ {MaxTurn, MaxAsk, MaxControl, MaxWork, MaxUp, MaxClock, Budget} \subseteq Nat
    /\ MaxTurn > 0

VARIABLES
    rt,         \* the _RuntimeSession
    start,      \* the _start_runtime task, in _wait_for_ready
    reader,     \* the _read_output task
    controls,   \* the calls of _run_control, in the order of their admission
    resolving,  \* the calls of resolve_* between their write and their events
    shown,      \* the status of the last runtime_status event
    clock,      \* the manager's clock, while the start waits
    core,       \* the process
    up,         \* its output that is not read yet
    down        \* its input that it has not read yet

vars == <<rt, start, reader, controls, resolving, shown, clock, core, up, down>>

Turn == 1..MaxTurn
Request == 1..MaxAsk
Time == 0..MaxClock
NoTime == -1

(* turns counts the Turns accepted; pause and paused are                   *)
(* readiness_pause_started and readiness_pause_total; control is the       *)
(* position of the pending control in controls.                            *)
Runtime ==
    [status   : {"starting", "idle", "running", "waiting_permission",
                 "waiting_mcp_trust", "stopping", "stopped", "error"},
     turn     : 0..MaxTurn,                 \* active_turn_id, 0: None
     turns    : 0..MaxTurn,
     busy     : BOOLEAN,
     perm     : 0..MaxAsk,                  \* pending_permission, 0: None
     trust    : 0..MaxAsk,                  \* pending_mcp_trust, 0: None
     resume   : {"none", "starting", "idle", "running", "waiting_mcp_trust"},
     control  : 0..MaxControl,              \* pending_control, 0: None
     ready    : BOOLEAN,
     closed   : BOOLEAN,
     pause    : Time \cup {NoTime},
     paused   : Time,
     fin      : {"none", "waiting", "closing", "killing", "reaped", "ended"},
     final    : {"stopped", "error"}]

(* used, last, seen, counted: budget_used, last_checked, last_paused_total *)
(* and counted_interval.  woken: status_changed is set.  given is not in   *)
(* the code: the time that has passed while no user was asked.             *)
Start ==
    [at : {"waiting", "ended"}, turn : 0..MaxTurn, woken : BOOLEAN,
     used : Time, last : Time, seen : Time, counted : BOOLEAN, given : Time]

(* It reads, waits for the finalizer it has begun, or for another's.       *)
Reader == {"reading", "claimed", "joined", "ended"}

StartEnded ==
    [at |-> "ended", turn |-> 0, woken |-> FALSE,
     used |-> 0, last |-> 0, seen |-> 0, counted |-> FALSE, given |-> 0]

(* at: the future is pending, has a result or an exception, or the call    *)
(* has returned.  got: the request that Core answered with the result.     *)
ControlCall ==
    [kind : Kind, at : {"waiting", "answered", "failed", "returned"}, got : 0..MaxControl]

Core ==
    [at   : {"booting", "idle", "turn", "control", "closed", "gone"},
     job  : 0..(MaxTurn + MaxControl),  \* the Turn or the control at work
     next : {"none", "turn", "control"}, \* read and not begun, with its id
     id   : 0..(MaxTurn + MaxControl),
     ask  : 0..MaxAsk,                  \* the request it waits for, 0: none
     asks : 0..MaxAsk,                  \* requests made
     done : SUBSET Turn]

(* The process was launched for a Turn, or by activate.                    *)
Init ==
    /\ \E t \in {0, 1} :
         /\ rt = [status |-> "starting", turn |-> t, turns |-> t, busy |-> FALSE,
                  perm |-> 0, trust |-> 0, resume |-> "none",
                  control |-> 0, ready |-> FALSE, closed |-> FALSE,
                  pause |-> NoTime, paused |-> 0, fin |-> "none", final |-> "stopped"]
         /\ start = [StartEnded EXCEPT !.at = "waiting", !.turn = t, !.woken = TRUE]
    /\ reader = "reading"
    /\ controls = <<>>
    /\ resolving = {}
    /\ shown = "starting"
    /\ clock = 0
    /\ core = [at |-> "booting", job |-> 0, next |-> "none", id |-> 0,
               ask |-> 0, asks |-> 0, done |-> {}]
    /\ up = <<>>
    /\ down = <<>>

Work == rt.turns + core.asks + Len(controls)

Live == core.at # "gone"

Finalizing == rt.status = "stopping"

(* _set_status_locked wakes whoever waits for readiness.                   *)
Woken == [start EXCEPT !.woken = (start.at = "waiting")]

(* _begin_finalization_locked: one finalizer for the generation.           *)
Begin(r, final) ==
    IF r.fin # "none" THEN r
    ELSE [r EXCEPT !.status = "stopping", !.fin = "waiting", !.final = final]

Write(type, id, for) == Append(down, [type |-> type, id |-> id, for |-> for])

-----------------------------------------------------------------------------
(* Core.                                                                   *)
coreVars == <<core, up, down>>
managerVars == <<rt, start, reader, controls, resolving, shown, clock>>

Emit(type, id) ==
    /\ Live /\ Len(up) < MaxUp
    /\ up' = Append(up, [type |-> type, id |-> id])

(* It asks one thing at a time: for a permission during a Turn, and for    *)
(* trust in MCP servers before or after it is ready.                       *)
CoreAsks ==
    /\ core.ask = 0 /\ core.asks < MaxAsk /\ Work < MaxWork
    /\ \/ core.at \in {"booting", "idle"} /\ Emit("trust", core.asks + 1)
       \/ core.at = "turn" /\ Emit("permission", core.asks + 1)
    /\ core' = [core EXCEPT !.ask = core.asks + 1, !.asks = @ + 1]
    /\ UNCHANGED <<managerVars, down>>

CoreReady ==
    /\ core.at = "booting" /\ core.ask = 0
    /\ Emit("ready", 0)
    /\ core' = [core EXCEPT !.at = "idle"]
    /\ UNCHANGED <<managerVars, down>>

CoreBegins ==
    /\ core.at = "idle" /\ core.ask = 0 /\ core.next # "none"
    /\ core' = [core EXCEPT !.at = core.next, !.job = core.id, !.next = "none", !.id = 0]
    /\ UNCHANGED <<managerVars, up, down>>

CoreFinishes ==
    /\ core.at = "turn" /\ core.ask = 0
    /\ Emit("finished", core.job)
    /\ core' = [core EXCEPT !.at = "idle", !.job = 0, !.done = @ \cup {core.job}]
    /\ UNCHANGED <<managerVars, down>>

CoreReplies ==
    /\ core.at = "control"
    /\ Emit("reply", core.job) \/ Emit("refused", core.job)
    /\ core' = [core EXCEPT !.at = "idle", !.job = 0]
    /\ UNCHANGED <<managerVars, down>>

(* Core reads on while it works or waits.                                  *)
CoreReads ==
    /\ core.at \notin {"closed", "gone"} /\ down # <<>>
    /\ LET m == Head(down) IN
       \/ /\ m.type \in {"turn", "control"}
          /\ core' = [core EXCEPT !.next = m.type, !.id = m.id]
          /\ UNCHANGED up
       \/ /\ m.type = "answer"
          /\ core' = [core EXCEPT !.ask = IF @ = m.id THEN 0 ELSE @]
          /\ UNCHANGED up
       \/ /\ m.type = "close"
          /\ core' = [core EXCEPT !.at = "closed", !.ask = 0, !.job = 0,
                                  !.next = "none", !.id = 0]
          /\ Emit("closed", 0)
    /\ down' = Tail(down)
    /\ UNCHANGED managerVars

(* A late or repeated turn_finished, or what is not a message.             *)
CoreErrs ==
    /\ \/ /\ "repeat" \in Env
          /\ \E t \in core.done : Emit("finished", t)
       \/ "garbage" \in Env /\ Emit("garbage", 0)
    /\ UNCHANGED <<managerVars, core, down>>

CoreExits ==
    /\ core.at = "closed" \/ (Live /\ "exit" \in Env)
    /\ core' = [core EXCEPT !.at = "gone", !.ask = 0, !.job = 0,
                            !.next = "none", !.id = 0]
    /\ down' = <<>>
    /\ UNCHANGED <<managerVars, up>>

-----------------------------------------------------------------------------
(* _start_runtime in _wait_for_ready.                                      *)

(* The wait ends with an error: the finalizer is begun, if it is not.      *)
StartFails ==
    /\ rt' = Begin(rt, "error")
    /\ start' = StartEnded /\ clock' = 0

(* Mutant: only the current pause is given back.                           *)
PausedOnlyNow(s) ==
    IF rt.pause = NoTime THEN 0
    ELSE (clock - rt.pause) - (IF s.last > rt.pause THEN s.last - rt.pause ELSE 0)

(* paused_delta: the pauses that ended since the last check, and the part  *)
(* of the current one that is not counted yet.                             *)
PausedSince(s) ==
    (rt.paused - s.seen)
      + (IF rt.pause = NoTime THEN 0
         ELSE (clock - rt.pause) - (IF s.last > rt.pause THEN s.last - rt.pause ELSE 0))

Checked(s) ==
    [s EXCEPT !.woken = FALSE,
              !.used = IF s.counted THEN @ + (clock - s.last) - PausedSince(s) ELSE @,
              !.last = clock, !.seen = rt.paused,
              !.counted = (rt.status = "starting")]

(* A turn of the loop.  On readiness the Runtime is idle or runs its Turn; *)
(* whatever status but "starting" it finds then is taken for a failure.    *)
StartChecks ==
    /\ start.at = "waiting" /\ start.woken
    /\ \/ /\ Live /\ ~Finalizing /\ rt.ready /\ rt.status = "starting"
          /\ rt' = [rt EXCEPT !.status = IF start.turn = 0 THEN "idle" ELSE "running",
                              !.busy = (start.turn # 0), !.ready = (start.turn = 0)]
          /\ shown' = rt'.status
          /\ down' = IF start.turn = 0 THEN down ELSE Write("turn", start.turn, 0)
          /\ start' = StartEnded /\ clock' = 0
       \/ /\ \/ Finalizing
             \/ Live /\ rt.ready /\ rt.status # "starting"
          /\ StartFails
          /\ UNCHANGED <<shown, down>>
       \/ /\ ~Finalizing /\ ~(Live /\ rt.ready)
          /\ IF rt.status = "starting" /\ Checked(start).used >= Budget
             THEN StartFails
             ELSE start' = Checked(start) /\ UNCHANGED <<rt, clock>>
          /\ UNCHANGED <<shown, down>>
    /\ UNCHANGED <<reader, controls, resolving, core, up>>

(* wait_for: nothing has changed for as long as the budget lasts.          *)
StartTimesOut ==
    /\ start.at = "waiting" /\ start.counted /\ ~start.woken
    /\ clock - start.last >= Budget - start.used
    /\ StartFails
    /\ UNCHANGED <<reader, controls, resolving, shown, coreVars>>

Tick ==
    /\ start.at = "waiting" /\ clock < MaxClock
    /\ clock' = clock + 1
    /\ start' = [start EXCEPT !.given = IF rt.trust = 0 THEN @ + 1 ELSE @]
    /\ UNCHANGED <<rt, reader, controls, resolving, shown, coreVars>>

-----------------------------------------------------------------------------
(* _read_output and _handle_message.                                       *)
ReadyReceived ==
    /\ rt' = IF Finalizing THEN rt ELSE [rt EXCEPT !.ready = TRUE]
    /\ start' = Woken
    /\ UNCHANGED <<controls, shown>>

(* Both kinds of request; a second one would replace the first.            *)
AskReceived(m) ==
    /\ IF Finalizing THEN UNCHANGED <<rt, start, shown>>
       ELSE /\ rt' = IF m.type = "trust"
                     THEN [rt EXCEPT !.resume = rt.status, !.trust = m.id, !.pause = clock,
                                     !.status = "waiting_mcp_trust"]
                     ELSE [rt EXCEPT !.perm = m.id, !.status = "waiting_permission"]
            /\ shown' = rt'.status
            /\ start' = Woken
    /\ UNCHANGED controls

(* Mutant: only the presence of a Turn is looked at.                       *)
RejectedWithoutTurn(t) == Finalizing \/ rt.turn = 0 \/ ~rt.busy

(* _turn_finished_rejection_reason.  The ids are random: one in            *)
(* completed_turn_ids is never that of the active Turn.                    *)
Rejected(t) ==
    Finalizing \/ rt.turn = 0 \/ t # rt.turn \/ ~rt.busy

FinishReceived(m) ==
    /\ IF Rejected(m.id) THEN UNCHANGED <<rt, start, shown>>
       ELSE /\ rt' = [rt EXCEPT !.busy = FALSE, !.perm = 0,
                                !.status = "idle", !.turn = 0]
            /\ shown' = "idle"
            /\ start' = Woken
    /\ UNCHANGED controls

(* _complete_control and _fail_control: replies carry their kind, no id.   *)
ReplyReceived(m) ==
    LET c == rt.control IN
    /\ IF c = 0 \/ controls[c].kind # controls[m.id].kind THEN UNCHANGED <<rt, controls>>
       ELSE /\ rt' = [rt EXCEPT !.control = 0, !.busy = FALSE]
            /\ controls' = [controls EXCEPT
                 ![c].at = IF m.type = "reply" THEN "answered" ELSE "failed", ![c].got = m.id]
    /\ UNCHANGED <<start, shown>>

ClosedReceived ==
    /\ rt' = [rt EXCEPT !.closed = TRUE]
    /\ UNCHANGED <<start, controls, shown>>

ReaderReads ==
    /\ reader = "reading" /\ up # <<>>
    /\ LET m == Head(up) IN
       \/ m.type = "ready" /\ ReadyReceived
       \/ m.type \in {"trust", "permission"} /\ AskReceived(m)
       \/ m.type = "finished" /\ FinishReceived(m)
       \/ m.type \in {"reply", "refused"} /\ ReplyReceived(m)
       \/ m.type = "closed" /\ ClosedReceived
    /\ up' = Tail(up)
    /\ UNCHANGED <<reader, resolving, clock, core, down>>

(* JsonlProtocolError: the messages before the line in its chunk are lost. *)
ReaderBreaks ==
    /\ reader = "reading"
    /\ \E i \in DOMAIN up : up[i].type = "garbage"
    /\ reader' = IF rt.fin = "none" THEN "claimed" ELSE "joined"
    /\ rt' = Begin(rt, "error")
    /\ start' = Woken
    /\ UNCHANGED <<controls, resolving, shown, clock, coreVars>>

(* The end of the output.                                                  *)
ReaderEnds ==
    /\ reader = "reading" /\ up = <<>> /\ ~Live
    /\ reader' = IF rt.fin = "none" THEN "claimed" ELSE "joined"
    /\ \E final \in {"stopped", "error"} : rt' = Begin(rt, final)
    /\ start' = Woken
    /\ UNCHANGED <<controls, resolving, shown, clock, coreVars>>

-----------------------------------------------------------------------------
(* The calls of the users.                                                 *)

(* send_message to an idle Runtime.                                        *)
SendTurn ==
    /\ rt.status = "idle" /\ Live /\ ~rt.busy /\ rt.turn = 0 /\ rt.control = 0
    /\ rt.turns < MaxTurn /\ Work < MaxWork
    /\ rt' = [rt EXCEPT !.status = "running", !.busy = TRUE, !.ready = FALSE,
                        !.turn = rt.turns + 1, !.turns = @ + 1]
    /\ shown' = "running"
    /\ down' = Write("turn", rt.turns + 1, 0)
    /\ start' = Woken
    /\ UNCHANGED <<reader, controls, resolving, clock, core, up>>

(* The answer to request r is written by a user who was shown request by.  *)
Answer(r, by, next) ==
    /\ rt' = IF Live THEN next ELSE Begin(next, "stopped")
    /\ down' = IF Live THEN Write("answer", r, by) ELSE down
    /\ resolving' = IF Live THEN resolving \cup {[turn |-> rt.turn, status |-> next.status]}
                    ELSE resolving
    /\ start' = Woken
    /\ UNCHANGED <<reader, controls, shown, clock, core, up>>

(* Mutant: the answer goes to whatever is pending.                         *)
ResolveAnyPermission(r) ==
    /\ rt.perm # 0 /\ ~Finalizing
    /\ Answer(rt.perm, r, [rt EXCEPT !.perm = 0, !.status = "running"])

(* resolve_permission                                                      *)
ResolvePermission(r) ==
    /\ rt.perm # 0 /\ rt.perm = r /\ ~Finalizing
    /\ Answer(rt.perm, r, [rt EXCEPT !.perm = 0, !.status = "running"])

(* Mutant: readiness_pause_started is not reset.                           *)
ResolveTrustKeepsPause(r) ==
    /\ rt.trust # 0 /\ rt.trust = r /\ ~Finalizing
    /\ Answer(rt.trust, r,
              [rt EXCEPT !.trust = 0, !.status = rt.resume, !.resume = "none",
                         !.paused = IF rt.pause = NoTime THEN @ ELSE @ + (clock - rt.pause)])

(* resolve_mcp_trust                                                       *)
ResolveTrust(r) ==
    /\ rt.trust # 0 /\ rt.trust = r /\ ~Finalizing
    /\ Answer(rt.trust, r,
              [rt EXCEPT !.trust = 0, !.status = rt.resume, !.resume = "none",
                         !.paused = IF rt.pause = NoTime THEN @ ELSE @ + (clock - rt.pause),
                         !.pause = NoTime])

(* Mutant: the events are published whatever happened since the write.     *)
ResolvePublishesAnyway(c) ==
    /\ resolving' = resolving \ {c}
    /\ shown' = c.status
    /\ UNCHANGED <<rt, start, reader, controls, clock, coreVars>>

(* After drain: the status is published if it still is that of the Turn.   *)
ResolvePublishes(c) ==
    /\ resolving' = resolving \ {c}
    /\ shown' = IF rt.turn = c.turn /\ rt.status = c.status /\ Live THEN c.status ELSE shown
    /\ UNCHANGED <<rt, start, reader, controls, clock, coreVars>>

(* The write failed, Core being gone: stop_session.                        *)
ResolveFails(c) ==
    /\ ~Live
    /\ resolving' = resolving \ {c}
    /\ rt' = Begin(rt, "stopped")
    /\ start' = Woken
    /\ UNCHANGED <<reader, controls, shown, clock, coreVars>>

(* _run_control up to its wait.                                            *)
ControlBegins(k) ==
    /\ rt.status = "idle" /\ Live /\ ~rt.busy /\ rt.turn = 0 /\ rt.control = 0
    /\ rt.perm = 0 /\ rt.trust = 0
    /\ Len(controls) < MaxControl /\ Work < MaxWork
    /\ controls' = Append(controls, [kind |-> k, at |-> "waiting", got |-> 0])
    /\ rt' = [rt EXCEPT !.control = Len(controls) + 1, !.busy = TRUE]
    /\ down' = Write("control", Len(controls) + 1, 0)
    /\ UNCHANGED <<start, reader, resolving, shown, clock, core, up>>

(* _abort_control: whatever control is pending, its future is cancelled.   *)
Aborted(r) == [r EXCEPT !.control = 0, !.busy = IF r.control = 0 THEN @ ELSE FALSE]

CallsAfterAbort(c) ==
    [i \in DOMAIN controls |->
        IF i = c THEN [controls[i] EXCEPT !.at = "returned"]
        ELSE IF i = rt.control THEN [controls[i] EXCEPT !.at = "failed"]
        ELSE controls[i]]

(* Mutant: the late reply of a control that timed out is still to come.    *)
ControlTimesOutOnly(c) ==
    /\ controls[c].at = "waiting"
    /\ rt' = Aborted(rt)
    /\ controls' = CallsAfterAbort(c)
    /\ UNCHANGED <<start, reader, resolving, shown, clock, coreVars>>

(* A timeout, a cancelled request, or a write that failed: the control is  *)
(* aborted and the Runtime is stopped.                                     *)
ControlTimesOut(c) ==
    /\ controls[c].at = "waiting"
    /\ rt' = Begin(Aborted(rt), "stopped")
    /\ controls' = CallsAfterAbort(c)
    /\ start' = Woken
    /\ UNCHANGED <<reader, resolving, shown, clock, coreVars>>

ControlReturns(c) ==
    /\ controls[c].at = "answered"
    /\ controls' = [controls EXCEPT ![c].at = "returned"]
    /\ UNCHANGED <<rt, start, reader, resolving, shown, clock, coreVars>>

(* The future has an exception: the handler looks for a pending control of *)
(* its own kind, and aborts it and stops the Runtime if there is one.      *)
ControlFails(c) ==
    /\ controls[c].at = "failed"
    /\ IF rt.control # 0 /\ controls[rt.control].kind = controls[c].kind
       THEN rt' = Begin(Aborted(rt), "stopped") /\ controls' = CallsAfterAbort(c)
       ELSE controls' = [controls EXCEPT ![c].at = "returned"] /\ UNCHANGED rt
    /\ start' = Woken
    /\ UNCHANGED <<reader, resolving, shown, clock, coreVars>>

(* stop_session, the TTL sweep, an eviction, a handoff or shutdown.        *)
Stop ==
    /\ rt.fin = "none"
    /\ rt' = Begin(rt, "stopped")
    /\ start' = Woken
    /\ UNCHANGED <<reader, controls, resolving, shown, clock, coreVars>>

-----------------------------------------------------------------------------
(* _run_generation_finalizer, under the lifecycle_lock that the start      *)
(* holds until it ends.                                                    *)
finalVars == <<start, resolving, clock>>

FinalizerStarts ==
    /\ rt.fin = "waiting" /\ start.at = "ended"
    /\ IF Live /\ reader # "claimed"
       THEN rt' = [rt EXCEPT !.fin = "closing"] /\ down' = Write("close", 0, 0)
       ELSE rt' = [rt EXCEPT !.fin = IF Live THEN "killing" ELSE "reaped"] /\ UNCHANGED down
    /\ UNCHANGED <<finalVars, reader, controls, shown, core, up>>

(* Mutant: the handshake has no time limit.                                *)
HandshakeWaits ==
    /\ rt.fin = "closing" /\ rt.closed /\ ~Live
    /\ rt' = [rt EXCEPT !.fin = "reaped"]
    /\ UNCHANGED <<finalVars, reader, controls, shown, coreVars>>

(* _close_runtime: runtime_closed and the exit, or RUNTIME_CLOSE_TIMEOUT.  *)
HandshakeEnds ==
    /\ rt.fin = "closing"
    /\ \E next \in {"reaped", "killing"} :
         /\ next = "reaped" => rt.closed /\ ~Live
         /\ rt' = [rt EXCEPT !.fin = next]
    /\ UNCHANGED <<finalVars, reader, controls, shown, coreVars>>

(* terminate and kill.                                                     *)
CoreKilled ==
    /\ rt.fin = "killing"
    /\ rt' = [rt EXCEPT !.fin = "reaped"]
    /\ core' = [core EXCEPT !.at = "gone", !.ask = 0, !.job = 0, !.next = "none", !.id = 0]
    /\ down' = <<>>
    /\ UNCHANGED <<finalVars, reader, controls, shown, up>>

(* The reader is cancelled and the state converges.                        *)
FinalizerConverges ==
    /\ rt.fin = "reaped"
    /\ reader' = "ended" /\ up' = <<>>
    /\ rt' = [rt EXCEPT !.fin = "ended", !.status = rt.final, !.ready = FALSE,
                        !.busy = FALSE, !.turn = 0, !.perm = 0, !.trust = 0,
                        !.resume = "none", !.control = 0, !.pause = NoTime, !.paused = 0]
    /\ controls' = [i \in DOMAIN controls |->
                       IF i = rt.control THEN [controls[i] EXCEPT !.at = "failed"]
                       ELSE controls[i]]
    /\ shown' = rt.final
    /\ UNCHANGED <<finalVars, core, down>>

-----------------------------------------------------------------------------
CoreStep ==
    \/ CoreAsks \/ CoreReady \/ CoreBegins \/ CoreFinishes \/ CoreReplies
    \/ CoreReads \/ CoreErrs \/ CoreExits

UserStep ==
    \/ SendTurn \/ Stop
    \/ \E r \in Request : ResolvePermission(r) \/ ResolveTrust(r)
    \/ \E k \in Kind : ControlBegins(k)
    \/ \E c \in DOMAIN controls : ControlTimesOut(c)

TaskStep ==
    \/ StartChecks \/ StartTimesOut
    \/ ReaderReads \/ ReaderBreaks \/ ReaderEnds
    \/ \E c \in resolving : ResolvePublishes(c) \/ ResolveFails(c)
    \/ \E c \in DOMAIN controls : ControlReturns(c) \/ ControlFails(c)
    \/ FinalizerStarts \/ HandshakeEnds \/ CoreKilled \/ FinalizerConverges

Next == CoreStep \/ UserStep \/ TaskStep \/ Tick

Spec == Init /\ [][Next]_vars

(* The loop runs its tasks, time passes, the Docker commands end, and Core *)
(* takes note of a close, or the handshake is given up.  Neither Core nor  *)
(* the users have to do anything.                                          *)
FairSpec ==
    /\ Spec
    /\ WF_vars(StartChecks) /\ WF_vars(StartTimesOut)
    /\ WF_vars(FinalizerStarts) /\ WF_vars(HandshakeEnds)
    /\ WF_vars(CoreKilled) /\ WF_vars(FinalizerConverges)
    /\ \A c \in 1..MaxControl :
         WF_vars(c \in DOMAIN controls
                 /\ (ControlReturns(c) \/ ControlFails(c) \/ ControlTimesOut(c)))

-----------------------------------------------------------------------------
(* The state keeps its type; the readiness pause lasts as long as the      *)
(* request for trust.                                                      *)
TypeOK ==
    /\ rt \in Runtime
    /\ rt.pause # NoTime <=> rt.trust # 0
    /\ start \in Start
    /\ reader \in Reader
    /\ controls \in Seq(ControlCall) /\ Len(controls) <= MaxControl
    /\ resolving \subseteq [turn : 0..MaxTurn, status : {"starting", "idle", "running"}]
    /\ shown \in {"starting", "idle", "running", "waiting_permission",
                  "waiting_mcp_trust", "stopped", "error"}
    /\ clock \in Time
    /\ core \in Core
    /\ Len(up) <= MaxUp

(* README: only turn_finished with the id of the Turn that is executed     *)
(* completes it.  No late or repeated one ends a Turn that Core has not    *)
(* finished; only the end of the generation does.                          *)
TurnEndsByItsOwnFinish ==
    [][rt.turn # 0 /\ rt'.turn # rt.turn => rt.turn \in core.done \/ rt'.fin = "ended"]_vars

(* Core never waits for an answer that nobody can give: its request is on  *)
(* its way, or is shown to the users, or its answer is on its way.  The    *)
(* status is that of the request, and an answer is given by a user who was *)
(* shown this very request.                                                *)
Unread(r) == \E i \in DOMAIN up : up[i].type \in {"trust", "permission"} /\ up[i].id = r

RequestsAnswerable ==
    /\ core.ask # 0 /\ rt.fin = "none" =>
         \/ Unread(core.ask)
         \/ core.ask \in {rt.perm, rt.trust}
         \/ \E i \in DOMAIN down : down[i].type = "answer" /\ down[i].id = core.ask
    /\ rt.fin = "none" => /\ rt.perm # 0 <=> rt.status = "waiting_permission"
                          /\ rt.trust # 0 <=> rt.status = "waiting_mcp_trust"
    /\ \A i \in DOMAIN down : down[i].type = "answer" => down[i].id = down[i].for

(* Replies have no request id, yet no control gets the reply to another.   *)
ControlGetsItsReply ==
    \A c \in DOMAIN controls : controls[c].got \in {0, c}

(* A start gives up on Core only after the whole budget, the time in which *)
(* users are asked left out, wherever pauses begin and end between two     *)
(* checks; except when Core asks for trust before the start has seen that  *)
(* it is ready.                                                            *)
StartGivesItsTime ==
    [][rt.fin = "none" /\ rt'.fin # "none" /\ start'.at # start.at =>
          start.given >= Budget \/ (rt.ready /\ rt.status = "waiting_mcp_trust")]_vars

(* Users are shown the status the Runtime has, unless a call is about to   *)
(* publish it, Core has just ended, or the generation is ending.           *)
StatusShown == resolving = {} /\ ~Finalizing /\ (Live \/ rt.fin = "ended") => shown = rt.status

(* Every finalizer ends, whoever began it and whatever Core still does,    *)
(* and no call waits for a reply for ever.                                 *)
WaitsEnd ==
    /\ rt.fin # "none" ~> rt.fin = "ended"
    /\ \A c \in 1..MaxControl :
         Len(controls) >= c ~> Len(controls) >= c /\ controls[c].at = "returned"

(* tests/test_runtime.py: a control that fails in Core leaves the Runtime  *)
(* idle, and can be retried.  So the failed call stops nothing, in         *)
(* particular not a retry that was admitted before the call went on.       *)
FailedControlStopsNothing ==
    [][\A c \in DOMAIN controls :
          controls[c].at = "failed" /\ controls'[c].at = "returned" => rt'.fin = rt.fin]_vars
=============================================================================
