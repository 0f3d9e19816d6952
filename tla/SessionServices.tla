--------------------------- MODULE SessionServices ---------------------------
(***************************************************************************)
(* One Session's generations with the services that follow them: the       *)
(* terminal and the watch of the workspace, its deletion, and the shutdown *)
(* of the service.  app/main.py connects them to the Runtime manager:      *)
(* runtime_start_hook and runtime_stop_hook, the terminal's leases and its *)
(* call of activate, and the order of the shutdown.                        *)
(* SessionLifecycleService of app/services/lifecycle.py deletes the        *)
(* Session, for its user or when its retention has passed.                 *)
(*                                                                         *)
(* The Runtime is abstracted to the phases in which it calls the hooks;    *)
(* RuntimePool has the details.  It may end in any phase for any reason.   *)
(***************************************************************************)
EXTENDS Terminal, Watcher

VARIABLES
    rt,        \* the Runtime
    queued,    \* a Turn waits in the queue: "stopped" is "queued" then
    deletion,  \* the call of delete_session
    files,     \* the Session has a directory with data
    mode       \* how far lifespan has shut down the service

vars == <<term, ws, leases, late, watch, rt, queued, deletion, files, mode>>

sessionVars == <<queued, deletion, files, mode>>

(* hooked: the start hook has run; watchless and closing: the two halves   *)
(* of the stop hook; every one but the first and the last two is a status  *)
(* the finalizer has not claimed.  box: whether there may be a container,  *)
(* and whether one is left that could not be removed (cleanup_pending).    *)
RuntimeState ==
    [at  : {"stopped", "starting", "hooked", "idle", "stopping", "watchless", "closing"},
     gen : Generation,
     box : {"none", "running", "left"}]

(* It waits for a finalizer, which then has converged; for the thread that *)
(* deletes the data; has deleted the row; or was cancelled while the       *)
(* thread runs.  revived is not in the code: a generation has begun between the   *)
(* stop it asked for and the end of the row.                               *)
Deletion ==
    [at : {"none", "stopping", "stopped", "data", "done", "cut"}, revived : BOOLEAN]

(* In the order of lifespan: runtime, terminal, watcher.                   *)
Mode == {"open", "runtimes", "terminals", "down"}

Init ==
    /\ TerminalInit
    /\ WatchInit
    /\ rt = [at |-> "stopped", gen |-> 0, box |-> "none"]
    /\ queued = FALSE
    /\ deletion = [at |-> "none", revived |-> FALSE]
    /\ files = TRUE
    /\ mode = "open"

(* The Session's row in the database: who is let in, and whether a start   *)
(* finds an owner.                                                         *)
Row == deletion.at # "done"

Finalizing == rt.at \in {"stopping", "watchless", "closing"}

(* Stopped, with cleanup_pending.                                          *)
Unclean == rt.at = "stopped" /\ rt.box = "left"

CanStart == rt.at = "stopped" /\ ~Unclean /\ rt.gen < MaxGen /\ mode = "open"

Starts ==
    /\ CanStart
    /\ rt' = [at |-> "starting", gen |-> rt.gen + 1, box |-> "none"]
    /\ queued' = FALSE
    /\ deletion' = [deletion EXCEPT !.revived = @ \/ deletion.at \in {"stopping", "stopped", "data"}]

-----------------------------------------------------------------------------
(* The Runtime.                                                            *)

(* send_message, when there is no capacity; and a stop, which withdraws    *)
(* the Turn.                                                               *)
TurnQueues ==
    /\ Row /\ CanStart /\ ~queued
    /\ queued' = TRUE
    /\ UNCHANGED <<terminalVars, watch, rt, deletion, files, mode>>

TurnWithdrawn ==
    /\ queued /\ mode = "open"
    /\ queued' = FALSE
    /\ UNCHANGED <<terminalVars, watch, rt, deletion, files, mode>>

(* For its user, or for the Turn in the queue.                             *)
GenerationStarts ==
    /\ Row \/ queued
    /\ Starts
    /\ UNCHANGED <<terminalVars, watch, files, mode>>

(* The owner is looked up, the directories are made, the hook is called.   *)
StartHook ==
    /\ rt.at = "starting"
    /\ IF Row
       THEN /\ Ensure(rt.gen) /\ files' = TRUE
            /\ rt' = [rt EXCEPT !.at = "hooked", !.box = "running"]
       ELSE rt' = [rt EXCEPT !.at = "stopping"] /\ UNCHANGED <<watch, files>>
    /\ UNCHANGED <<terminalVars, queued, deletion, mode>>

Ready ==
    /\ rt.at = "hooked"
    /\ rt' = [rt EXCEPT !.at = "idle"]
    /\ UNCHANGED <<terminalVars, watch, sessionVars>>

(* A stop, an exit, an error or a failed start; or a retry of the cleanup. *)
GenerationEnds ==
    /\ rt.at \in {"starting", "hooked", "idle"} \/ (Unclean /\ mode = "open")
    /\ rt' = [rt EXCEPT !.at = "stopping"]
    /\ UNCHANGED <<terminalVars, watch, sessionVars>>

(* runtime_stop_hook: the watch, then the terminal.                        *)
StopHookWatch ==
    /\ rt.at = "stopping"
    /\ StopWatch(rt.gen)
    /\ rt' = [rt EXCEPT !.at = "watchless"]
    /\ UNCHANGED <<terminalVars, sessionVars>>

StopHookTerminal ==
    /\ rt.at = "watchless"
    /\ StopBegins
    /\ rt' = [rt EXCEPT !.at = "closing"]
    /\ UNCHANGED <<watch, sessionVars>>

(* The finalizer converges: whatever leases are left are dropped.  The     *)
(* container may be there still.                                           *)
GenerationStopped ==
    /\ rt.at = "closing" /\ term.stop = "none"
    /\ \E left \in {"none", IF rt.box = "none" THEN "none" ELSE "left"} :
          rt' = [rt EXCEPT !.at = "stopped", !.box = left]
    /\ leases' = {}
    /\ deletion' = [deletion EXCEPT !.at = IF @ = "stopping" THEN "stopped" ELSE @]
    /\ UNCHANGED <<term, ws, late, watch, queued, files, mode>>

-----------------------------------------------------------------------------
(* The terminal and what it asks of the Runtime.                           *)

(* acquire_terminal_lease refuses while the Runtime is finalized.          *)
ClientAttaches(c) ==
    /\ Row /\ ~Finalizing /\ mode = "open"
    /\ Attach(c)
    /\ UNCHANGED <<watch, rt, sessionVars>>

ClientDetaches(c) == Detach(c) /\ UNCHANGED <<watch, rt, sessionVars>>

(* activate: starts a generation, unless there is one, a Turn waits for    *)
(* one, or there is no capacity.  It cleans up first what an earlier one   *)
(* left.                                                                   *)
ShellActivates ==
    /\ mode = "open"
    /\ \/ /\ ~Unclean
          /\ StartActivated
          /\ (~queued /\ Starts) \/ UNCHANGED <<rt, queued, deletion>>
       \/ /\ Unclean
          /\ StartReclaims
          /\ rt' = [rt EXCEPT !.at = "stopping"]
          /\ UNCHANGED <<queued, deletion>>
    /\ UNCHANGED <<watch, files, mode>>

ShellTargets ==
    /\ rt.at = "idle"
    /\ TargetFound(rt.gen)
    /\ UNCHANGED <<watch, rt, sessionVars>>

(* wait_until_ready gives up on a Runtime that is not starting, except on  *)
(* one that is queued, and on one that never was: "Waiting for Sandbox     *)
(* capacity."  A Turn that the shutdown takes from the queue leaves its id *)
(* behind: an error too.                                                   *)
ShellErrs ==
    /\ term.start = "waiting" => /\ rt.at # "idle" /\ ~queued
                                 /\ rt.at = "stopped" => rt.gen > 0 \/ mode # "open"
    /\ StartErrs
    /\ UNCHANGED <<watch, rt, sessionVars>>

TerminalRuns ==
    /\ \/ LaunchReturns \/ StartFailTold \/ StartUnwinds
       \/ ReaderTells \/ ShellTerminated \/ StopEnds
    /\ UNCHANGED <<watch, rt, sessionVars>>

ShellEnds == ShellExits /\ UNCHANGED <<watch, rt, sessionVars>>

WatchRuns ==
    /\ WatchEnds \/ DiscardFinished
    /\ UNCHANGED <<terminalVars, rt, sessionVars>>

-----------------------------------------------------------------------------
(* delete_session                                                          *)

(* What stop_session and shutdown find to finalize, or being finalized.    *)
Stoppable == rt.at # "stopped" \/ Unclean

Finalized == IF Stoppable THEN [rt EXCEPT !.at = IF Finalizing THEN @ ELSE "stopping"] ELSE rt

(* stop_session: withdraws the Turn, begins the finalizer or joins the one *)
(* that runs.                                                              *)
DeleteStops ==
    /\ deletion.at = "none" /\ mode = "open"
    /\ deletion' = [at |-> IF Stoppable THEN "stopping" ELSE "stopped", revived |-> FALSE]
    /\ rt' = Finalized /\ queued' = FALSE
    /\ UNCHANGED <<terminalVars, watch, files, mode>>

(* Mutant: the call does not wait for the finalizer.                       *)
DeleteEarly ==
    /\ deletion.at \in {"stopping", "stopped"}
    /\ deletion' = [deletion EXCEPT !.at = "data"]
    /\ StopWatch(0)
    /\ UNCHANGED <<terminalVars, rt, queued, files, mode>>

(* The watch is stopped whatever generation it serves, and the thread is   *)
(* started.                                                                *)
DeleteData ==
    /\ deletion.at = "stopped" /\ rt.box # "left"
    /\ deletion' = [deletion EXCEPT !.at = "data"]
    /\ StopWatch(0)
    /\ UNCHANGED <<terminalVars, rt, queued, files, mode>>

(* has_pending_cleanup: the call fails, and may be repeated.               *)
DeleteRefused ==
    /\ deletion.at = "stopped" /\ rt.box = "left"
    /\ deletion' = [deletion EXCEPT !.at = "none"]
    /\ UNCHANGED <<terminalVars, watch, rt, queued, files, mode>>

(* The thread has deleted the data; the row follows, and the event hub     *)
(* forgets the Session.                                                    *)
DeleteRow ==
    /\ deletion.at \in {"data", "cut"}
    /\ files' = FALSE
    /\ deletion' = [deletion EXCEPT !.at = IF @ = "data" THEN "done" ELSE "none"]
    /\ UNCHANGED <<terminalVars, watch, rt, queued, mode>>

-----------------------------------------------------------------------------
(* The end of lifespan.  A deletion is cancelled where it waits, but not   *)
(* the thread; every generation is finalized, then the terminals stopped,  *)
(* then the watches.                                                       *)
ShutdownBegins ==
    /\ mode = "open"
    /\ mode' = "runtimes"
    /\ deletion' = [deletion EXCEPT !.at = CASE @ \in {"stopping", "stopped"} -> "none"
                                            [] @ = "data" -> "cut"
                                            [] OTHER      -> @]
    /\ rt' = Finalized /\ queued' = FALSE
    /\ UNCHANGED <<terminalVars, watch, files>>

RuntimesDown ==
    /\ mode = "runtimes" /\ rt.at = "stopped"
    /\ StopBegins
    /\ mode' = "terminals"
    /\ UNCHANGED <<watch, rt, queued, deletion, files>>

TerminalsDown ==
    /\ mode = "terminals" /\ term.stop = "none"
    /\ StopWatch(0)
    /\ mode' = "down"
    /\ UNCHANGED <<terminalVars, rt, queued, deletion, files>>

Next ==
    \/ TurnQueues \/ TurnWithdrawn
    \/ GenerationStarts \/ StartHook \/ Ready \/ GenerationEnds
    \/ StopHookWatch \/ StopHookTerminal \/ GenerationStopped
    \/ \E c \in Client : ClientAttaches(c) \/ ClientDetaches(c)
    \/ ShellActivates \/ ShellTargets \/ ShellErrs \/ TerminalRuns \/ ShellEnds
    \/ WatchRuns
    \/ DeleteStops \/ DeleteData \/ DeleteRefused \/ DeleteRow
    \/ ShutdownBegins \/ RuntimesDown \/ TerminalsDown

Spec == Init /\ [][Next]_vars

(* Tasks of the loop run and hooks return.  A start becomes ready or is    *)
(* ended: by its time limit, or by the TTL while it waits for somebody to  *)
(* trust its MCP servers, provided that nobody begins that anew for ever   *)
(* (ClientsCease).  Nobody has to attach, leave, start or stop anything,   *)
(* and no capacity has to become free.                                     *)
FairSpec ==
    /\ Spec
    /\ WF_vars(StartHook)
    /\ WF_vars(Ready \/ (rt.at = "hooked" /\ GenerationEnds))
    /\ WF_vars(StopHookWatch) /\ WF_vars(StopHookTerminal) /\ WF_vars(GenerationStopped)
    /\ WF_vars(ShellActivates) /\ WF_vars(ShellTargets \/ ShellErrs) /\ WF_vars(TerminalRuns)
    /\ WF_vars(RuntimesDown)

-----------------------------------------------------------------------------
(* The state keeps its type, and a shell has exactly one reader.           *)
TypeOK ==
    /\ term \in TerminalState
    /\ ws \in [Client -> {"away", "attached", "told"}]
    /\ leases \subseteq Client /\ late \subseteq Client
    /\ watch \in WatchState(Generation)
    /\ rt \in RuntimeState /\ queued \in BOOLEAN /\ deletion \in Deletion /\ files \in BOOLEAN
    /\ mode \in Mode
    /\ term.shell # 0 <=> term.reader = "reading"

(* README.md:61: the shell and the watch belong to one generation, and its *)
(* final status comes after their cleanup.  A start task that is cancelled *)
(* in launch, a watch that ends by itself and its late callback leave      *)
(* nothing of an older generation behind; nor does the shutdown, which     *)
(* also ends what never reached a generation.                              *)
GenerationOwnsServices ==
    /\ rt.at = "stopped" => term.shell = 0 /\ watch.task # "live"
    /\ term.shell \in {0, rt.gen}
    /\ term.start = "launching" => term.target = rt.gen
    /\ watch.task = "live" => watch.gen = rt.gen
    /\ ~watch.loose
    /\ mode = "down" => /\ term.shell = 0 /\ term.start = "none" /\ term.reader = "none"
                        /\ leases = {} /\ watch.task # "live"

(* A running generation is watched, unless its watch has failed, or a      *)
(* deletion that it overlaps has stopped the watch.                        *)
RunningIsWatched ==
    rt.at \in {"hooked", "idle"} =>
        watch.task = "live" \/ watch.broke \/ deletion.revived

(* Who uses a shell holds a lease, so that the Runtime is neither evicted  *)
(* nor expired under it; except a client that attached while a cancelled   *)
(* start was unwinding, whose lease that start takes away.                 *)
UsersHoldLeases ==
    (term.shell # 0 /\ term.stop = "none") =>
        \A c \in Client : ws[c] = "attached" => c \in leases \cup late

(* A lease is held by a client that is attached, or whose state the stop   *)
(* in progress will release: none keeps a Runtime alive for nobody.        *)
LeasesHaveClients == leases \subseteq term.clients

(* A deleted Session leaves no shell, no watch, no Runtime, no container   *)
(* and no data, whichever phase of a generation the deletion met and       *)
(* however often a cleanup failed; except when another generation began    *)
(* before the row was gone.  Later ones find no owner.                     *)
DeletedLeavesNothing ==
    ~Row => \/ deletion.revived
            \/ /\ term.shell = 0 /\ watch.task # "live" /\ ~files
               /\ rt.box = "none"

(* Each attach and each detach begins the TTL anew, and with it the limit  *)
(* of a start that waits for trust.                                        *)
ClientsCease == \A c \in Client : <>[](ws[c] = "away") \/ <>[](ws[c] # "away")

(* A client that attaches gets a shell or is told that there is none,      *)
(* unless some come and go for ever, with three exceptions: it attached    *)
(* while a cancelled start was unwinding, it waits for the Session's first *)
(* generation, or a Turn of the Session waits in the queue, for as long as *)
(* it does.                                                                *)
AttachedIsServed ==
    ClientsCease =>
        \A c \in Client :
            ws[c] = "attached" ~> (\/ ws[c] # "attached"
                                   \/ term.shell # 0
                                   \/ c \in late
                                   \/ rt.gen = 0 \/ queued)
=============================================================================
