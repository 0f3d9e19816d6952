------------------------ MODULE SessionServices_proofs ------------------------
(***************************************************************************)
(* Proofs about SessionServices, for every set of clients and every number *)
(* of generations: all the invariants that TLC checks on two clients and   *)
(* two generations, from one inductive invariant, IInv.                    *)
(*                                                                         *)
(* Its parts say who may be where together: the clients and the start of a *)
(* shell, the shell and the watch in the phases of a generation, and the   *)
(* phases a deletion has passed.                                           *)
(***************************************************************************)
EXTENDS SessionServices, TLAPS

-----------------------------------------------------------------------------
(* The inductive invariant.                                                *)

(* A client that is attached is known to the terminal, is not met by a     *)
(* stop, and holds a lease unless its start has failed; a start that was   *)
(* cancelled will take leases only from who came while it unwinds.         *)
Served(c) ==
    ws[c] = "attached" =>
        /\ c \in term.clients
        /\ term.stop = "none" /\ rt.at # "closing"
        /\ term.start # "failed" => c \in leases \cup late
        /\ term.start = "cancelled" => c \in late

ClientsServed ==
    /\ leases \subseteq term.clients
    /\ \A c \in Client : Served(c)

(* A start and a shell exclude each other, and what a stop has not reached *)
(* yet belongs to a generation that has not passed the stop hook.          *)
TerminalOwned ==
    /\ term.start # "none" => term.shell = 0
    /\ term.stop # "none" => /\ term.start \in {"none", "cancelled"}
                             /\ rt.at = "closing" \/ mode = "terminals"
    /\ term.stop = "tasks" => term.shell = 0
    /\ term.shell # 0 => /\ term.shell = rt.gen
                         /\ \/ rt.at \in {"idle", "stopping", "watchless"}
                            \/ rt.at = "closing" /\ term.stop = "shell"
    /\ term.start = "launching" => /\ term.target = rt.gen
                                   /\ rt.at \in {"idle", "stopping", "watchless"}
    /\ rt.at = "closing" /\ term.stop = "none" =>
         term.start = "none" /\ term.reader = "none"

WatchOwned ==
    /\ watch.task = "live" =>
         watch.gen = rt.gen /\ rt.at \in {"hooked", "idle", "stopping"}
    /\ ~watch.loose

(* Before its first generation the Runtime is stopped and left nothing.    *)
Begun == rt.gen = 0 => rt.at = "stopped" /\ rt.box = "none"

(* The terminals are stopped after the last generation has ended.          *)
ShutdownOrder ==
    /\ mode \in {"terminals", "down"} => rt.at = "stopped"
    /\ mode = "terminals" /\ term.stop = "none" =>
         term.start = "none" /\ term.reader = "none" /\ leases = {}
    /\ mode = "down" => /\ term.stop = "none" /\ term.start = "none"
                        /\ term.reader = "none" /\ leases = {}

(* What a deletion that no generation overlaps has behind it.              *)
Undisturbed(at) == deletion.at = at /\ ~deletion.revived

DeletionAhead ==
    /\ rt.at = "stopped" => rt.box # "running"
    /\ Undisturbed("stopping") => Finalizing
    /\ Undisturbed("stopped") =>
         rt.at = "stopped" \/ (Finalizing /\ rt.box = "left")
    /\ Undisturbed("data") => rt.at = "stopped" /\ rt.box = "none"
    /\ Undisturbed("done") => /\ ~files /\ rt.box = "none"
                              /\ rt.at \notin {"hooked", "idle"}
                              /\ term.shell = 0 /\ term.start # "launching"
                              /\ watch.task # "live"

IInv ==
    /\ TypeOK
    /\ ClientsServed
    /\ TerminalOwned
    /\ WatchOwned
    /\ Begun
    /\ RunningIsWatched
    /\ ShutdownOrder
    /\ DeletionAhead

-----------------------------------------------------------------------------
(* What the operations of the terminal and of the watch do to their types. *)
LEMMA GenerationFacts == 0 \in Generation /\ Generation \subseteq Nat
BY TerminalAssumption DEF Generation

TerminalTyped ==
    /\ term \in TerminalState
    /\ ws \in [Client -> {"away", "attached", "told"}]
    /\ leases \subseteq Client /\ late \subseteq Client

LEMMA UnregisteredTyped ==
    ASSUME NEW w \in WatchState(Generation)
    PROVE  Unregistered(w) \in WatchState(Generation)
BY GenerationFacts DEF Unregistered, WatchState

(* A watch stays a watch, whichever operation meets it.                    *)
LEMMA WatchSteps ==
    ASSUME watch \in WatchState(Generation), NEW g \in Generation,
           Ensure(g) \/ StopWatch(g) \/ WatchEnds \/ DiscardFinished
    PROVE  watch' \in WatchState(Generation)
<1>1. CASE Ensure(g)
  BY <1>1 DEF Ensure, WatchState
<1>2. CASE StopWatch(g)
  BY <1>2, UnregisteredTyped DEF StopWatch
<1>3. CASE WatchEnds
  BY <1>3 DEF WatchEnds, WatchState
<1>4. CASE DiscardFinished
  <2> DEFINE w == IF watch.task = "ended" THEN Unregistered(watch) ELSE watch
  <2>1. w \in WatchState(Generation)
    BY UnregisteredTyped
  <2>2. watch' = [w EXCEPT !.discard = FALSE]
    BY <1>4 DEF DiscardFinished
  <2> HIDE DEF w
  <2> QED
    BY <2>1, <2>2 DEF WatchState
<1> QED
  BY <1>1, <1>2, <1>3, <1>4

(* detach, unless a stop has taken the state away: the fields it leaves.   *)
LEMMA DetachStep ==
    ASSUME TerminalTyped, NEW c \in Client, Detach(c), term.stop = "none"
    PROVE  /\ term' \in TerminalState
           /\ term'.clients = term.clients \ {c}
           /\ term'.start = IF term.clients \subseteq {c} /\ term.shell = 0
                            THEN Cancelled(term.start) ELSE term.start
           /\ term'.target = term.target /\ term'.shell = term.shell
           /\ term'.reader = term.reader /\ term'.left = term.left
           /\ term'.stop = "none"
<1> DEFINE start == IF term.clients \subseteq {c} /\ term.shell = 0
                    THEN Cancelled(term.start) ELSE term.start
           clients == term.clients \ {c}
<1>1. start \in {"none", "new", "reclaiming", "waiting", "launching", "failed",
                 "cancelled"}
  BY DEF TerminalTyped, TerminalState, Cancelled
<1>2. clients \in SUBSET Client
  BY DEF TerminalTyped, TerminalState
<1>3. term' = [term EXCEPT !.clients = clients, !.start = start]
  BY DEF Detach
<1> HIDE DEF start, clients
<1>4. term' \in TerminalState
  BY <1>1, <1>2, <1>3 DEF TerminalTyped, TerminalState
<1>5. /\ term'.clients = clients /\ term'.start = start
      /\ term'.target = term.target /\ term'.shell = term.shell
      /\ term'.reader = term.reader /\ term'.left = term.left
      /\ term'.stop = term.stop
  BY <1>3 DEF TerminalTyped
<1> QED
  BY <1>4, <1>5 DEF start, clients

LEMMA TerminalSteps ==
    ASSUME TerminalTyped, NEW c \in Client, NEW g \in Generation,
           \/ Attach(c) \/ Detach(c)
           \/ StartActivated \/ StartReclaims \/ TargetFound(g)
           \/ LaunchReturns \/ StartErrs \/ StartFailTold \/ StartUnwinds
           \/ ShellExits \/ ReaderTells
           \/ StopBegins \/ ShellTerminated \/ StopEnds
    PROVE  TerminalTyped'
<1> USE GenerationFacts DEF TerminalTyped
<1>1. CASE Attach(c)
  BY <1>1 DEF Attach, TerminalState
<1>2. CASE Detach(c)
  <2>1. term' \in TerminalState
    BY <1>2, DetachStep DEF Detach
  <2> QED
    BY <1>2, <2>1 DEF Detach
<1>3. CASE StartActivated \/ StartReclaims
  BY <1>3 DEF StartActivated, StartReclaims, TerminalState
<1>4. CASE TargetFound(g)
  BY <1>4 DEF TargetFound, TerminalState
<1>5. CASE LaunchReturns
  BY <1>5 DEF LaunchReturns, TerminalState
<1>6. CASE StartErrs \/ StartUnwinds
  BY <1>6 DEF StartErrs, StartUnwinds, TerminalState
<1>7. CASE StartFailTold
  BY <1>7 DEF StartFailTold, Tell, TerminalState
<1>8. CASE ShellExits
  <2>1. term' \in TerminalState
    BY <1>8 DEF ShellExits, TerminalState
  <2> QED
    BY <1>8, <2>1 DEF ShellExits
<1>9. CASE ReaderTells
  BY <1>9 DEF ReaderTells, Tell, TerminalState
<1>10. CASE StopBegins
  BY <1>10 DEF StopBegins, Cancelled, Tell, TerminalState
<1>11. CASE ShellTerminated
  <2>1. term' \in TerminalState
    BY <1>11 DEF ShellTerminated, TerminalState
  <2> QED
    BY <1>11, <2>1 DEF ShellTerminated
<1>12. CASE StopEnds
  BY <1>12 DEF StopEnds, TerminalState
<1> QED
  BY <1>1, <1>2, <1>3, <1>4, <1>5, <1>6, <1>7, <1>8, <1>9, <1>10, <1>11, <1>12

-----------------------------------------------------------------------------
(* The steps that begin a generation.                                      *)

(* A deletion that has begun and not ended is disturbed by a generation.   *)
LEMMA StartsStep ==
    ASSUME IInv, Starts
    PROVE  /\ rt' \in RuntimeState /\ queued' \in BOOLEAN /\ deletion' \in Deletion
           /\ rt' = [at |-> "starting", gen |-> rt.gen + 1, box |-> "none"]
           /\ deletion'.at = deletion.at
           /\ deletion.revived => deletion'.revived
           /\ \A at \in {"stopping", "stopped", "data"} : ~Undisturbed(at)'
<1>1. rt.gen + 1 \in Generation
  BY TerminalAssumption DEF IInv, TypeOK, RuntimeState, Starts, CanStart,
     Generation
<1>2. rt' \in RuntimeState
  BY <1>1 DEF Starts, RuntimeState
<1>3. deletion' \in Deletion
  BY DEF Starts, IInv, TypeOK, Deletion
<1>4. /\ deletion'.at = deletion.at
      /\ deletion'.revived = (deletion.revived
                              \/ deletion.at \in {"stopping", "stopped", "data"})
  BY DEF Starts, IInv, TypeOK
<1> QED
  BY <1>2, <1>3, <1>4 DEF Starts, Undisturbed

(* A generation begins beside the shell and the watch as it finds them:    *)
(* there is none.                                                          *)
LEMMA StartsKeepsServices ==
    ASSUME IInv, Starts, UNCHANGED <<watch, files, mode>>,
           UNCHANGED term.shell, term'.start = "launching" => UNCHANGED term.start
    PROVE  WatchOwned' /\ Begun' /\ RunningIsWatched' /\ DeletionAhead'
<1>1. rt.at = "stopped" /\ rt'.gen # 0 /\ rt'.at = "starting" /\ rt'.box = "none"
  BY StartsStep, GenerationFacts DEF Starts, CanStart, IInv, TypeOK,
     RuntimeState
<1>2. term.shell = 0 /\ watch.task # "live" /\ term.start # "launching"
  BY <1>1 DEF IInv, TerminalOwned, WatchOwned
<1>3. WatchOwned' /\ Begun' /\ RunningIsWatched'
  BY <1>1, <1>2 DEF IInv, WatchOwned, Begun, RunningIsWatched
<1>4. DeletionAhead'
  BY <1>1, <1>2, StartsStep DEF IInv, DeletionAhead, Undisturbed
<1> QED
  BY <1>3, <1>4

LEMMA GenerationStartsKeeps == ASSUME IInv, GenerationStarts PROVE IInv'
<1>1. TypeOK'
  BY StartsStep DEF GenerationStarts, terminalVars, IInv, TypeOK
<1>2. ClientsServed' /\ TerminalOwned'
  BY StartsStep DEF GenerationStarts, Starts, CanStart, terminalVars, IInv,
     ClientsServed, Served, TerminalOwned
<1>3. WatchOwned' /\ Begun' /\ RunningIsWatched' /\ DeletionAhead'
  BY StartsKeepsServices DEF GenerationStarts, terminalVars
<1>4. ShutdownOrder'
  BY DEF GenerationStarts, Starts, CanStart, IInv, ShutdownOrder
<1> QED
  BY <1>1, <1>2, <1>3, <1>4 DEF IInv

(* The queue touches neither the services nor the deletion.                *)
LEMMA QueueKeeps == ASSUME IInv, TurnQueues \/ TurnWithdrawn PROVE IInv'
<1>1. /\ queued' \in BOOLEAN
      /\ UNCHANGED <<term, ws, leases, late, watch, rt, deletion, files, mode>>
  BY DEF TurnQueues, TurnWithdrawn, terminalVars
<1>2. TypeOK' /\ ClientsServed' /\ TerminalOwned'
  BY <1>1 DEF IInv, TypeOK, ClientsServed, Served, TerminalOwned
<1>3. WatchOwned' /\ Begun' /\ RunningIsWatched' /\ ShutdownOrder' /\ DeletionAhead'
  BY <1>1 DEF IInv, WatchOwned, Begun, RunningIsWatched, ShutdownOrder,
     DeletionAhead, Undisturbed, Finalizing
<1> QED
  BY <1>2, <1>3 DEF IInv

LEMMA ShellActivatesKeeps == ASSUME IInv, ShellActivates PROVE IInv'
<1>1. PICK start \in {"waiting", "reclaiming"} :
         term' = [term EXCEPT !.start = start]
  BY DEF ShellActivates, StartActivated, StartReclaims
<1>2. /\ term'.start = start /\ term.start = "new"
      /\ term'.shell = term.shell /\ term'.reader = term.reader
      /\ term'.stop = term.stop /\ term'.clients = term.clients
      /\ term'.target = term.target
  BY <1>1 DEF ShellActivates, StartActivated, StartReclaims, IInv, TypeOK
<1>3. /\ UNCHANGED <<ws, leases, late, watch, files, mode>>
      /\ mode = "open"
  BY DEF ShellActivates, StartActivated, StartReclaims
<1>4. term' \in TerminalState
  BY <1>1 DEF IInv, TypeOK, TerminalState
<1>5. CASE Starts
  <2>1. TypeOK'
    BY <1>2, <1>3, <1>4, <1>5, StartsStep DEF IInv, TypeOK
  <2>2. ClientsServed' /\ TerminalOwned'
    BY <1>2, <1>3, <1>5, StartsStep DEF Starts, CanStart, IInv, ClientsServed,
       Served, TerminalOwned
  <2>3. WatchOwned' /\ Begun' /\ RunningIsWatched' /\ DeletionAhead'
    BY <1>2, <1>3, <1>5, StartsKeepsServices
  <2>4. ShutdownOrder'
    BY <1>3 DEF ShutdownOrder
  <2> QED
    BY <2>1, <2>2, <2>3, <2>4 DEF IInv
<1>6. CASE UNCHANGED <<rt, queued, deletion>>
  <2>1. TypeOK'
    BY <1>2, <1>3, <1>4, <1>6 DEF IInv, TypeOK
  <2>2. ClientsServed' /\ TerminalOwned'
    BY <1>2, <1>3, <1>6 DEF IInv, ClientsServed, Served, TerminalOwned
  <2>3. WatchOwned' /\ Begun' /\ RunningIsWatched' /\ ShutdownOrder'
    BY <1>3, <1>6 DEF IInv, WatchOwned, Begun, RunningIsWatched, ShutdownOrder
  <2>4. DeletionAhead'
    BY <1>2, <1>3, <1>6 DEF IInv, DeletionAhead, Undisturbed, Finalizing
  <2> QED
    BY <2>1, <2>2, <2>3, <2>4 DEF IInv
<1>7. CASE /\ Unclean /\ rt' = [rt EXCEPT !.at = "stopping"]
         /\ UNCHANGED <<queued, deletion>>
  <2>1. /\ rt' \in RuntimeState /\ rt.at = "stopped" /\ rt'.at = "stopping"
        /\ rt'.gen = rt.gen /\ rt.box = "left" /\ rt'.box = rt.box
    BY <1>7 DEF Unclean, IInv, TypeOK, RuntimeState
  <2>2. TypeOK'
    BY <1>2, <1>3, <1>4, <1>7, <2>1 DEF IInv, TypeOK
  <2>3. ClientsServed' /\ TerminalOwned'
    BY <1>2, <1>3, <2>1 DEF IInv, ClientsServed, Served, TerminalOwned
  <2>4. WatchOwned' /\ Begun' /\ RunningIsWatched' /\ ShutdownOrder'
    BY <1>3, <2>1 DEF IInv, WatchOwned, Begun, RunningIsWatched, ShutdownOrder
  <2>5. DeletionAhead'
    BY <1>2, <1>3, <1>7, <2>1 DEF IInv, DeletionAhead, Undisturbed, Finalizing
  <2> QED
    BY <2>2, <2>3, <2>4, <2>5 DEF IInv
<1> QED
  BY <1>5, <1>6, <1>7 DEF ShellActivates

LEMMA StartHookKeeps == ASSUME IInv, StartHook PROVE IInv'
<1>1. CASE Row
  <2>1. /\ rt' \in RuntimeState /\ rt.at = "starting" /\ rt'.at = "hooked"
        /\ rt'.gen = rt.gen /\ rt'.box = "running"
    <3>1. rt \in RuntimeState
      BY DEF IInv, TypeOK
    <3> QED
      BY <1>1, <3>1 DEF StartHook, RuntimeState
  <2>2. Ensure(rt.gen) /\ files' = TRUE
        /\ UNCHANGED <<terminalVars, queued, deletion, mode>>
    BY <1>1 DEF StartHook
  <2>3. TypeOK'
    BY <2>1, <2>2, WatchSteps DEF IInv, TypeOK, RuntimeState, terminalVars
  <2>4. ClientsServed' /\ TerminalOwned'
    BY <2>1, <2>2 DEF terminalVars, IInv, ClientsServed, Served, TerminalOwned
  <2>5. WatchOwned' /\ Begun' /\ RunningIsWatched'
    BY <2>1, <2>2 DEF Ensure, IInv, WatchOwned, Begun, RunningIsWatched, TypeOK
  <2>6. ShutdownOrder' /\ DeletionAhead'
    BY <1>1, <2>1, <2>2 DEF terminalVars, Row, IInv, ShutdownOrder,
       DeletionAhead, Undisturbed, Finalizing
  <2> QED
    BY <2>3, <2>4, <2>5, <2>6 DEF IInv
<1>2. CASE ~Row
  <2>1. /\ rt' \in RuntimeState /\ rt.at = "starting" /\ rt'.at = "stopping"
        /\ rt'.gen = rt.gen /\ rt'.box = rt.box
    BY <1>2 DEF StartHook, IInv, TypeOK, RuntimeState
  <2>2. UNCHANGED <<terminalVars, watch, queued, deletion, files, mode>>
    BY <1>2 DEF StartHook
  <2>3. TypeOK'
    BY <2>1, <2>2 DEF IInv, TypeOK, terminalVars
  <2>4. ClientsServed' /\ TerminalOwned'
    BY <2>1, <2>2 DEF terminalVars, IInv, ClientsServed, Served, TerminalOwned
  <2>5. WatchOwned' /\ Begun' /\ RunningIsWatched'
    BY <2>1, <2>2 DEF IInv, WatchOwned, Begun, RunningIsWatched
  <2>6. ShutdownOrder' /\ DeletionAhead'
    BY <1>2, <2>1, <2>2 DEF terminalVars, Row, IInv, ShutdownOrder,
       DeletionAhead, Undisturbed
  <2> QED
    BY <2>3, <2>4, <2>5, <2>6 DEF IInv
<1> QED
  BY <1>1, <1>2

(* The finalizer converges: the stop hook has left it no shell, no start   *)
(* and no watch.                                                           *)
LEMMA GenerationStoppedKeeps == ASSUME IInv, GenerationStopped PROVE IInv'
<1>1. PICK left \in {"none", IF rt.box = "none" THEN "none" ELSE "left"} :
         rt' = [rt EXCEPT !.at = "stopped", !.box = left]
  BY DEF GenerationStopped
<1>2. left \in {"none", "left"} /\ (rt.box = "none" => left = "none")
  OBVIOUS
<1>3. /\ rt' \in RuntimeState /\ rt.at = "closing" /\ rt'.at = "stopped"
      /\ rt'.gen = rt.gen /\ rt'.box = left
  BY <1>1, <1>2 DEF GenerationStopped, IInv, TypeOK, RuntimeState
<1>4. /\ deletion' \in Deletion /\ deletion'.revived = deletion.revived
      /\ deletion'.at = IF deletion.at = "stopping" THEN "stopped" ELSE deletion.at
  BY DEF GenerationStopped, IInv, TypeOK, Deletion
<1>5. leases' = {} /\ UNCHANGED <<term, ws, late, watch, queued, files, mode>>
  BY DEF GenerationStopped
<1>6. TypeOK'
  BY <1>3, <1>4, <1>5 DEF IInv, TypeOK
<1>7. ClientsServed' /\ TerminalOwned'
  BY <1>3, <1>5 DEF GenerationStopped, IInv, ClientsServed, Served,
     TerminalOwned
<1>8. WatchOwned' /\ Begun' /\ RunningIsWatched' /\ ShutdownOrder'
  BY <1>2, <1>3, <1>5 DEF IInv, WatchOwned, Begun, RunningIsWatched,
     ShutdownOrder
<1>9. DeletionAhead'
  BY <1>2, <1>3, <1>4, <1>5 DEF IInv, DeletionAhead, Undisturbed
<1> QED
  BY <1>6, <1>7, <1>8, <1>9 DEF IInv

LEMMA ClientDetachesKeeps ==
    ASSUME NEW c \in Client, IInv, ClientDetaches(c) PROVE IInv'
<1>1. UNCHANGED <<watch, rt, queued, deletion, files, mode>>
  BY DEF ClientDetaches, sessionVars
<1>2. ws' = [ws EXCEPT ![c] = "away"] /\ late' = late \ {c}
  BY DEF ClientDetaches, Detach
<1>3. TypeOK' /\ WatchOwned' /\ Begun' /\ RunningIsWatched'
  <2>1. TerminalTyped'
    BY TerminalSteps, GenerationFacts DEF ClientDetaches, TerminalTyped, IInv,
       TypeOK
  <2>2. term'.shell = term.shell /\ term'.reader = term.reader
    BY DetachStep DEF ClientDetaches, Detach, TerminalTyped, IInv, TypeOK
  <2> QED
    BY <1>1, <2>1, <2>2 DEF TerminalTyped, IInv, TypeOK, WatchOwned, Begun,
       RunningIsWatched
<1>4. CASE term.stop # "none"
  <2>1. UNCHANGED <<term, leases>>
    BY <1>4 DEF ClientDetaches, Detach
  <2>2. ClientsServed' /\ TerminalOwned'
    BY <1>1, <1>2, <2>1 DEF IInv, TypeOK, ClientsServed, Served, TerminalOwned
  <2>3. ShutdownOrder' /\ DeletionAhead'
    BY <1>1, <2>1 DEF IInv, ShutdownOrder, DeletionAhead, Undisturbed,
       Finalizing
  <2> QED
    BY <1>3, <2>2, <2>3 DEF IInv
<1>5. CASE term.stop = "none"
  <2>1. leases' = leases \ ({c} \cap term.clients)
    BY <1>5 DEF ClientDetaches, Detach
  <2>2. /\ term'.clients = term.clients \ {c}
        /\ term'.start = IF term.clients \subseteq {c} /\ term.shell = 0
                         THEN Cancelled(term.start) ELSE term.start
        /\ term'.target = term.target /\ term'.shell = term.shell
        /\ term'.reader = term.reader /\ term'.stop = "none"
    BY <1>5, DetachStep DEF ClientDetaches, TerminalTyped, IInv, TypeOK
  <2>3. ClientsServed'
    BY <1>1, <1>2, <1>5, <2>1, <2>2 DEF IInv, TypeOK, ClientsServed, Served
  <2>4. TerminalOwned'
    BY <1>1, <1>5, <2>2 DEF IInv, TerminalOwned, Cancelled
  <2>5. ShutdownOrder' /\ DeletionAhead'
    BY <1>1, <1>5, <2>1, <2>2 DEF IInv, ShutdownOrder, DeletionAhead,
       Undisturbed, Finalizing, Cancelled
  <2> QED
    BY <1>3, <2>3, <2>4, <2>5 DEF IInv
<1> QED
  BY <1>4, <1>5

LEMMA ClientAttachesKeeps ==
    ASSUME NEW c \in Client, IInv, ClientAttaches(c) PROVE IInv'
<1>1. /\ UNCHANGED <<watch, rt, queued, deletion, files, mode>>
      /\ ws' = [ws EXCEPT ![c] = "attached"] /\ leases' = leases \cup {c}
      /\ late' = IF term.start = "cancelled" THEN late \cup {c} ELSE late \ {c}
      /\ term.stop = "none" /\ ~Finalizing /\ mode = "open"
  BY DEF ClientAttaches, Attach, sessionVars
<1>2. /\ term'.clients = term.clients \cup {c}
      /\ term'.start = IF term.shell = 0 /\ term.start = "none" THEN "new"
                       ELSE term.start
      /\ term'.target = term.target /\ term'.shell = term.shell
      /\ term'.reader = term.reader /\ term'.stop = "none"
  BY <1>1 DEF ClientAttaches, Attach, IInv, TypeOK
<1>3. TypeOK'
  <2>1. TerminalTyped'
    BY TerminalSteps, GenerationFacts DEF ClientAttaches, TerminalTyped, IInv,
       TypeOK
  <2> QED
    BY <1>1, <1>2, <2>1 DEF TerminalTyped, IInv, TypeOK
<1>4. ClientsServed'
  BY <1>1, <1>2 DEF Finalizing, IInv, TypeOK, ClientsServed, Served
<1>5. TerminalOwned'
  BY <1>1, <1>2 DEF Finalizing, IInv, TerminalOwned
<1>6. WatchOwned' /\ Begun' /\ RunningIsWatched'
  BY <1>1 DEF IInv, WatchOwned, Begun, RunningIsWatched
<1>7. ShutdownOrder' /\ DeletionAhead'
  BY <1>1, <1>2 DEF IInv, ShutdownOrder, DeletionAhead, Undisturbed
<1> QED
  BY <1>3, <1>4, <1>5, <1>6, <1>7 DEF IInv

-----------------------------------------------------------------------------
(* The other steps.                                                        *)
LEMMA GenerationEndsKeeps == ASSUME IInv, GenerationEnds PROVE IInv'
<1>1. TypeOK'
  BY GenerationFacts DEF GenerationEnds, Unclean, terminalVars, sessionVars,
     IInv, TypeOK, RuntimeState, TerminalOwned, Begun
<1>2. ClientsServed' /\ TerminalOwned'
  BY GenerationFacts DEF GenerationEnds, Unclean, terminalVars, sessionVars,
     IInv, TypeOK, RuntimeState, ClientsServed, Served, TerminalOwned
<1>3. WatchOwned' /\ Begun' /\ RunningIsWatched'
  BY GenerationFacts DEF GenerationEnds, Unclean, terminalVars, sessionVars,
     IInv, TypeOK, RuntimeState, WatchOwned, Begun, RunningIsWatched,
     ShutdownOrder, DeletionAhead, Undisturbed
<1>4. ShutdownOrder' /\ DeletionAhead'
  BY GenerationFacts DEF GenerationEnds, Unclean, terminalVars, sessionVars,
     IInv, TypeOK, RuntimeState, ShutdownOrder, DeletionAhead, Undisturbed,
     Finalizing, TerminalOwned, WatchOwned, RunningIsWatched
<1> QED
  BY <1>1, <1>2, <1>3, <1>4 DEF IInv

LEMMA ReadyKeeps == ASSUME IInv, Ready PROVE IInv'
<1>1. TypeOK'
  BY GenerationFacts DEF Ready, terminalVars, sessionVars, IInv, TypeOK,
     RuntimeState, TerminalOwned, Begun
<1>2. ClientsServed' /\ TerminalOwned'
  BY GenerationFacts DEF Ready, terminalVars, sessionVars, IInv, TypeOK,
     RuntimeState, ClientsServed, Served, TerminalOwned
<1>3. WatchOwned' /\ Begun' /\ RunningIsWatched'
  BY GenerationFacts DEF Ready, terminalVars, sessionVars, IInv, TypeOK,
     RuntimeState, WatchOwned, Begun, RunningIsWatched, ShutdownOrder,
     DeletionAhead, Undisturbed
<1>4. ShutdownOrder' /\ DeletionAhead'
  BY GenerationFacts DEF Ready, terminalVars, sessionVars, IInv, TypeOK,
     RuntimeState, ShutdownOrder, DeletionAhead, Undisturbed, Finalizing,
     TerminalOwned, WatchOwned, RunningIsWatched
<1> QED
  BY <1>1, <1>2, <1>3, <1>4 DEF IInv

LEMMA StopHookWatchKeeps == ASSUME IInv, StopHookWatch PROVE IInv'
<1>1. TypeOK'
  BY GenerationFacts, WatchSteps DEF StopHookWatch, StopWatch, Unregistered,
     terminalVars, sessionVars, IInv, TypeOK, RuntimeState, WatchState,
     TerminalOwned, Begun
<1>2. ClientsServed' /\ TerminalOwned'
  BY GenerationFacts DEF StopHookWatch, StopWatch, Unregistered, terminalVars,
     sessionVars, IInv, TypeOK, RuntimeState, WatchState, ClientsServed,
     Served, TerminalOwned
<1>3. WatchOwned' /\ Begun' /\ RunningIsWatched'
  BY GenerationFacts, SMTT(40) DEF StopHookWatch, StopWatch, Unregistered, terminalVars,
     sessionVars, IInv, TypeOK, RuntimeState, WatchState, WatchOwned, Begun,
     RunningIsWatched, ShutdownOrder, DeletionAhead, Undisturbed
<1>4. ShutdownOrder' /\ DeletionAhead'
  BY GenerationFacts DEF StopHookWatch, StopWatch, Unregistered, terminalVars,
     sessionVars, IInv, TypeOK, RuntimeState, WatchState, ShutdownOrder,
     DeletionAhead, Undisturbed, Finalizing, TerminalOwned, WatchOwned,
     RunningIsWatched
<1> QED
  BY <1>1, <1>2, <1>3, <1>4 DEF IInv

LEMMA StopHookTerminalKeeps == ASSUME IInv, StopHookTerminal PROVE IInv'
<1>1. TypeOK'
  <2>1. TerminalTyped'
    <3>1. StopBegins /\ TerminalTyped
      BY DEF StopHookTerminal, TerminalTyped, IInv, TypeOK
    <3> QED
      BY <3>1 DEF StopBegins, Cancelled, Tell, TerminalTyped, TerminalState
  <2>2. rt' \in RuntimeState /\ UNCHANGED <<watch, queued, deletion, files, mode>>
    BY DEF StopHookTerminal, sessionVars, IInv, TypeOK, RuntimeState
  <2>3. term'.shell = term.shell /\ term'.reader = term.reader
    BY DEF StopHookTerminal, StopBegins, IInv, TypeOK, TerminalState
  <2> QED
    BY <2>1, <2>2, <2>3 DEF TerminalTyped, IInv, TypeOK
<1>2. ClientsServed' /\ TerminalOwned'
  BY GenerationFacts DEF StopHookTerminal, StopBegins, Tell, Cancelled,
     terminalVars, sessionVars, IInv, TypeOK, RuntimeState, TerminalState,
     ClientsServed, Served, TerminalOwned
<1>3. WatchOwned' /\ Begun' /\ RunningIsWatched'
  BY GenerationFacts DEF StopHookTerminal, StopBegins, Tell, Cancelled,
     terminalVars, sessionVars, IInv, TypeOK, RuntimeState, TerminalState,
     WatchOwned, Begun, RunningIsWatched, ShutdownOrder, DeletionAhead,
     Undisturbed
<1>4. ShutdownOrder' /\ DeletionAhead'
  BY GenerationFacts DEF StopHookTerminal, StopBegins, Tell, Cancelled,
     terminalVars, sessionVars, IInv, TypeOK, RuntimeState, TerminalState,
     ShutdownOrder, DeletionAhead, Undisturbed, Finalizing, TerminalOwned,
     WatchOwned, RunningIsWatched
<1> QED
  BY <1>1, <1>2, <1>3, <1>4 DEF IInv

LEMMA ShellTargetsKeeps == ASSUME IInv, ShellTargets PROVE IInv'
<1>1. TypeOK'
  BY GenerationFacts, TerminalSteps DEF ShellTargets, TargetFound,
     terminalVars, sessionVars, IInv, TypeOK, TerminalTyped, TerminalState,
     RuntimeState, TerminalOwned, Begun
<1>2. ClientsServed' /\ TerminalOwned'
  BY GenerationFacts DEF ShellTargets, TargetFound, terminalVars, sessionVars,
     IInv, TypeOK, TerminalState, RuntimeState, ClientsServed, Served,
     TerminalOwned
<1>3. WatchOwned' /\ Begun' /\ RunningIsWatched'
  BY GenerationFacts DEF ShellTargets, TargetFound, terminalVars, sessionVars,
     IInv, TypeOK, TerminalState, RuntimeState, WatchOwned, Begun,
     RunningIsWatched, ShutdownOrder, DeletionAhead, Undisturbed
<1>4. ShutdownOrder' /\ DeletionAhead'
  BY GenerationFacts DEF ShellTargets, TargetFound, terminalVars, sessionVars,
     IInv, TypeOK, TerminalState, RuntimeState, ShutdownOrder, DeletionAhead,
     Undisturbed, Finalizing, TerminalOwned, WatchOwned, RunningIsWatched
<1> QED
  BY <1>1, <1>2, <1>3, <1>4 DEF IInv

LEMMA ShellErrsKeeps == ASSUME IInv, ShellErrs PROVE IInv'
<1>1. TypeOK'
  BY GenerationFacts, TerminalSteps DEF ShellErrs, StartErrs, terminalVars,
     sessionVars, IInv, TypeOK, TerminalTyped, TerminalState, TerminalOwned,
     Begun
<1>2. ClientsServed' /\ TerminalOwned'
  BY GenerationFacts DEF ShellErrs, StartErrs, terminalVars, sessionVars, IInv,
     TypeOK, TerminalState, ClientsServed, Served, TerminalOwned
<1>3. WatchOwned' /\ Begun' /\ RunningIsWatched'
  BY GenerationFacts DEF ShellErrs, StartErrs, terminalVars, sessionVars, IInv,
     TypeOK, TerminalState, WatchOwned, Begun, RunningIsWatched, ShutdownOrder,
     DeletionAhead, Undisturbed
<1>4. ShutdownOrder' /\ DeletionAhead'
  BY GenerationFacts DEF ShellErrs, StartErrs, terminalVars, sessionVars, IInv,
     TypeOK, TerminalState, ShutdownOrder, DeletionAhead, Undisturbed,
     Finalizing, TerminalOwned, WatchOwned, RunningIsWatched
<1> QED
  BY <1>1, <1>2, <1>3, <1>4 DEF IInv

LEMMA ShellEndsKeeps == ASSUME IInv, ShellEnds PROVE IInv'
<1>1. TypeOK'
  BY GenerationFacts, TerminalSteps DEF ShellEnds, ShellExits, terminalVars,
     sessionVars, IInv, TypeOK, TerminalTyped, TerminalState, TerminalOwned,
     Begun
<1>2. ClientsServed' /\ TerminalOwned'
  BY GenerationFacts DEF ShellEnds, ShellExits, terminalVars, sessionVars,
     IInv, TypeOK, TerminalState, ClientsServed, Served, TerminalOwned
<1>3. WatchOwned' /\ Begun' /\ RunningIsWatched'
  BY GenerationFacts DEF ShellEnds, ShellExits, terminalVars, sessionVars,
     IInv, TypeOK, TerminalState, WatchOwned, Begun, RunningIsWatched,
     ShutdownOrder, DeletionAhead, Undisturbed
<1>4. ShutdownOrder' /\ DeletionAhead'
  BY GenerationFacts DEF ShellEnds, ShellExits, terminalVars, sessionVars,
     IInv, TypeOK, TerminalState, ShutdownOrder, DeletionAhead, Undisturbed,
     Finalizing, TerminalOwned, WatchOwned, RunningIsWatched
<1> QED
  BY <1>1, <1>2, <1>3, <1>4 DEF IInv

LEMMA WatchRunsKeeps == ASSUME IInv, WatchRuns PROVE IInv'
<1>1. TypeOK'
  BY GenerationFacts, WatchSteps DEF WatchRuns, WatchEnds, DiscardFinished,
     Unregistered, terminalVars, sessionVars, IInv, TypeOK, WatchState,
     TerminalOwned, Begun
<1>2. ClientsServed' /\ TerminalOwned'
  BY GenerationFacts DEF WatchRuns, WatchEnds, DiscardFinished, Unregistered,
     terminalVars, sessionVars, IInv, TypeOK, WatchState, ClientsServed,
     Served, TerminalOwned
<1>3. WatchOwned' /\ Begun' /\ RunningIsWatched'
  BY GenerationFacts DEF WatchRuns, WatchEnds, DiscardFinished, Unregistered,
     terminalVars, sessionVars, IInv, TypeOK, WatchState, WatchOwned, Begun,
     RunningIsWatched, ShutdownOrder, DeletionAhead, Undisturbed
<1>4. ShutdownOrder' /\ DeletionAhead'
  BY GenerationFacts DEF WatchRuns, WatchEnds, DiscardFinished, Unregistered,
     terminalVars, sessionVars, IInv, TypeOK, WatchState, ShutdownOrder,
     DeletionAhead, Undisturbed, Finalizing, TerminalOwned, WatchOwned,
     RunningIsWatched
<1> QED
  BY <1>1, <1>2, <1>3, <1>4 DEF IInv

LEMMA DeleteStopsKeeps == ASSUME IInv, DeleteStops PROVE IInv'
<1>1. TypeOK'
  BY GenerationFacts DEF DeleteStops, Finalized, Stoppable, Unclean,
     Finalizing, terminalVars, sessionVars, IInv, TypeOK, RuntimeState,
     Deletion, TerminalOwned, Begun
<1>2. ClientsServed' /\ TerminalOwned'
  BY GenerationFacts DEF DeleteStops, Finalized, Stoppable, Unclean,
     Finalizing, terminalVars, sessionVars, IInv, TypeOK, RuntimeState,
     Deletion, ClientsServed, Served, TerminalOwned
<1>3. WatchOwned' /\ Begun' /\ RunningIsWatched'
  BY GenerationFacts DEF DeleteStops, Finalized, Stoppable, Unclean,
     Finalizing, terminalVars, sessionVars, IInv, TypeOK, RuntimeState,
     Deletion, WatchOwned, Begun, RunningIsWatched, ShutdownOrder,
     DeletionAhead
<1>4. ShutdownOrder' /\ DeletionAhead'
  BY GenerationFacts DEF DeleteStops, Finalized, Stoppable, Unclean,
     Finalizing, terminalVars, sessionVars, IInv, TypeOK, RuntimeState,
     Deletion, ShutdownOrder, DeletionAhead, Undisturbed, TerminalOwned,
     WatchOwned, RunningIsWatched
<1> QED
  BY <1>1, <1>2, <1>3, <1>4 DEF IInv

LEMMA DeleteDataKeeps == ASSUME IInv, DeleteData PROVE IInv'
<1>1. TypeOK'
  BY GenerationFacts, WatchSteps DEF DeleteData, StopWatch, Unregistered,
     terminalVars, sessionVars, IInv, TypeOK, WatchState, Deletion,
     RuntimeState, TerminalOwned, Begun
<1>2. ClientsServed' /\ TerminalOwned'
  BY GenerationFacts DEF DeleteData, StopWatch, Unregistered, terminalVars,
     sessionVars, IInv, TypeOK, WatchState, Deletion, RuntimeState,
     ClientsServed, Served, TerminalOwned
<1>3. WatchOwned' /\ Begun' /\ RunningIsWatched'
  BY GenerationFacts DEF DeleteData, StopWatch, Unregistered, terminalVars,
     sessionVars, IInv, TypeOK, WatchState, Deletion, RuntimeState, WatchOwned,
     Begun, RunningIsWatched, ShutdownOrder, DeletionAhead, Undisturbed
<1>4. ShutdownOrder' /\ DeletionAhead'
  BY GenerationFacts DEF DeleteData, StopWatch, Unregistered, terminalVars,
     sessionVars, IInv, TypeOK, WatchState, Deletion, RuntimeState,
     ShutdownOrder, DeletionAhead, Undisturbed, Finalizing, TerminalOwned,
     WatchOwned, RunningIsWatched
<1> QED
  BY <1>1, <1>2, <1>3, <1>4 DEF IInv

LEMMA DeleteRefusedKeeps == ASSUME IInv, DeleteRefused PROVE IInv'
<1>1. TypeOK'
  BY GenerationFacts DEF DeleteRefused, terminalVars, sessionVars, IInv,
     TypeOK, Deletion, TerminalOwned, Begun
<1>2. ClientsServed' /\ TerminalOwned'
  BY GenerationFacts DEF DeleteRefused, terminalVars, sessionVars, IInv,
     TypeOK, Deletion, ClientsServed, Served, TerminalOwned
<1>3. WatchOwned' /\ Begun' /\ RunningIsWatched'
  BY GenerationFacts DEF DeleteRefused, terminalVars, sessionVars, IInv,
     TypeOK, Deletion, WatchOwned, Begun, RunningIsWatched, ShutdownOrder,
     DeletionAhead, Undisturbed
<1>4. ShutdownOrder' /\ DeletionAhead'
  BY GenerationFacts DEF DeleteRefused, terminalVars, sessionVars, IInv,
     TypeOK, Deletion, ShutdownOrder, DeletionAhead, Undisturbed, Finalizing,
     TerminalOwned, WatchOwned, RunningIsWatched
<1> QED
  BY <1>1, <1>2, <1>3, <1>4 DEF IInv

LEMMA DeleteRowKeeps == ASSUME IInv, DeleteRow PROVE IInv'
<1>1. TypeOK'
  BY GenerationFacts DEF DeleteRow, terminalVars, sessionVars, IInv, TypeOK,
     Deletion, TerminalOwned, Begun
<1>2. ClientsServed' /\ TerminalOwned'
  BY GenerationFacts DEF DeleteRow, terminalVars, sessionVars, IInv, TypeOK,
     Deletion, ClientsServed, Served, TerminalOwned
<1>3. WatchOwned' /\ Begun' /\ RunningIsWatched'
  BY GenerationFacts DEF DeleteRow, terminalVars, sessionVars, IInv, TypeOK,
     Deletion, WatchOwned, Begun, RunningIsWatched, ShutdownOrder,
     DeletionAhead, Undisturbed
<1>4. ShutdownOrder' /\ DeletionAhead'
  BY GenerationFacts DEF DeleteRow, terminalVars, sessionVars, IInv, TypeOK,
     Deletion, ShutdownOrder, DeletionAhead, Undisturbed, Finalizing,
     TerminalOwned, WatchOwned, RunningIsWatched
<1> QED
  BY <1>1, <1>2, <1>3, <1>4 DEF IInv

LEMMA ShutdownBeginsKeeps == ASSUME IInv, ShutdownBegins PROVE IInv'
<1>1. TypeOK'
  BY GenerationFacts DEF ShutdownBegins, Finalized, Stoppable, Unclean,
     Finalizing, terminalVars, sessionVars, IInv, TypeOK, RuntimeState,
     Deletion, TerminalOwned, Begun, Mode
<1>2. ClientsServed' /\ TerminalOwned'
  BY GenerationFacts DEF ShutdownBegins, Finalized, Stoppable, Unclean,
     Finalizing, terminalVars, sessionVars, IInv, TypeOK, RuntimeState,
     Deletion, ClientsServed, Served, TerminalOwned
<1>3. WatchOwned' /\ Begun' /\ RunningIsWatched'
  BY GenerationFacts DEF ShutdownBegins, Finalized, Stoppable, Unclean,
     Finalizing, terminalVars, sessionVars, IInv, TypeOK, RuntimeState,
     Deletion, WatchOwned, Begun, RunningIsWatched, ShutdownOrder,
     DeletionAhead
<1>4. ShutdownOrder' /\ DeletionAhead'
  BY GenerationFacts DEF ShutdownBegins, Finalized, Stoppable, Unclean,
     Finalizing, terminalVars, sessionVars, IInv, TypeOK, RuntimeState,
     Deletion, ShutdownOrder, DeletionAhead, Undisturbed, TerminalOwned,
     WatchOwned, RunningIsWatched
<1> QED
  BY <1>1, <1>2, <1>3, <1>4 DEF IInv

LEMMA RuntimesDownKeeps == ASSUME IInv, RuntimesDown PROVE IInv'
<1>1. TypeOK'
  BY GenerationFacts, TerminalSteps DEF RuntimesDown, StopBegins, Tell,
     Cancelled, terminalVars, sessionVars, IInv, TypeOK, TerminalTyped,
     TerminalState, TerminalOwned, Begun, Mode
<1>2. ClientsServed' /\ TerminalOwned'
  BY GenerationFacts DEF RuntimesDown, StopBegins, Tell, Cancelled,
     terminalVars, sessionVars, IInv, TypeOK, TerminalState, ClientsServed,
     Served, TerminalOwned
<1>3. WatchOwned' /\ Begun' /\ RunningIsWatched'
  BY GenerationFacts DEF RuntimesDown, StopBegins, Tell, Cancelled,
     terminalVars, sessionVars, IInv, TypeOK, TerminalState, WatchOwned, Begun,
     RunningIsWatched, ShutdownOrder, DeletionAhead, Undisturbed
<1>4. ShutdownOrder' /\ DeletionAhead'
  BY GenerationFacts DEF RuntimesDown, StopBegins, Tell, Cancelled,
     terminalVars, sessionVars, IInv, TypeOK, TerminalState, ShutdownOrder,
     DeletionAhead, Undisturbed, Finalizing, TerminalOwned, WatchOwned,
     RunningIsWatched
<1> QED
  BY <1>1, <1>2, <1>3, <1>4 DEF IInv

LEMMA TerminalsDownKeeps == ASSUME IInv, TerminalsDown PROVE IInv'
<1>1. TypeOK'
  BY GenerationFacts, WatchSteps DEF TerminalsDown, StopWatch, Unregistered,
     terminalVars, sessionVars, IInv, TypeOK, WatchState, TerminalOwned, Begun,
     Mode
<1>2. ClientsServed' /\ TerminalOwned'
  BY GenerationFacts DEF TerminalsDown, StopWatch, Unregistered, terminalVars,
     sessionVars, IInv, TypeOK, WatchState, ClientsServed, Served,
     TerminalOwned
<1>3. WatchOwned' /\ Begun' /\ RunningIsWatched'
  BY GenerationFacts DEF TerminalsDown, StopWatch, Unregistered, terminalVars,
     sessionVars, IInv, TypeOK, WatchState, WatchOwned, Begun,
     RunningIsWatched, ShutdownOrder, DeletionAhead, Undisturbed
<1>4. ShutdownOrder' /\ DeletionAhead'
  BY GenerationFacts DEF TerminalsDown, StopWatch, Unregistered, terminalVars,
     sessionVars, IInv, TypeOK, WatchState, ShutdownOrder, DeletionAhead,
     Undisturbed, Finalizing, TerminalOwned, WatchOwned, RunningIsWatched
<1> QED
  BY <1>1, <1>2, <1>3, <1>4 DEF IInv

LEMMA TerminalRunsKeeps == ASSUME IInv, TerminalRuns PROVE IInv'
<1>1. CASE LaunchReturns
<2>1. TypeOK'
    BY <1>1, GenerationFacts, TerminalSteps DEF LaunchReturns, TerminalRuns,
       sessionVars, IInv, TypeOK, TerminalTyped, TerminalState, TerminalOwned,
       Begun
<2>2. ClientsServed' /\ TerminalOwned'
    BY <1>1, GenerationFacts DEF LaunchReturns, TerminalRuns, sessionVars,
       IInv, TypeOK, TerminalState, ClientsServed, Served, TerminalOwned
<2>3. WatchOwned' /\ Begun' /\ RunningIsWatched'
    BY <1>1, GenerationFacts DEF LaunchReturns, TerminalRuns, sessionVars,
       IInv, TypeOK, TerminalState, WatchOwned, Begun, RunningIsWatched,
       ShutdownOrder, DeletionAhead, Undisturbed
<2>4. ShutdownOrder' /\ DeletionAhead'
    BY <1>1, GenerationFacts DEF LaunchReturns, TerminalRuns, sessionVars,
       IInv, TypeOK, TerminalState, ShutdownOrder, DeletionAhead, Undisturbed,
       Finalizing, TerminalOwned, WatchOwned, RunningIsWatched
<2> QED
    BY <2>1, <2>2, <2>3, <2>4 DEF IInv
<1>2. CASE StartFailTold
<2>1. TypeOK'
    BY <1>2, GenerationFacts, TerminalSteps DEF StartFailTold, Tell,
       TerminalRuns, sessionVars, IInv, TypeOK, TerminalTyped, TerminalState,
       TerminalOwned, Begun
<2>2. ClientsServed' /\ TerminalOwned'
    BY <1>2, GenerationFacts DEF StartFailTold, Tell, TerminalRuns,
       sessionVars, IInv, TypeOK, TerminalState, ClientsServed, Served,
       TerminalOwned
<2>3. WatchOwned' /\ Begun' /\ RunningIsWatched'
    BY <1>2, GenerationFacts DEF StartFailTold, Tell, TerminalRuns,
       sessionVars, IInv, TypeOK, TerminalState, WatchOwned, Begun,
       RunningIsWatched, ShutdownOrder, DeletionAhead, Undisturbed
<2>4. ShutdownOrder' /\ DeletionAhead'
    BY <1>2, GenerationFacts DEF StartFailTold, Tell, TerminalRuns,
       sessionVars, IInv, TypeOK, TerminalState, ShutdownOrder, DeletionAhead,
       Undisturbed, Finalizing, TerminalOwned, WatchOwned, RunningIsWatched
<2> QED
    BY <2>1, <2>2, <2>3, <2>4 DEF IInv
<1>3. CASE StartUnwinds
<2>1. TypeOK'
    BY <1>3, GenerationFacts, TerminalSteps DEF StartUnwinds, TerminalRuns,
       sessionVars, IInv, TypeOK, TerminalTyped, TerminalState, TerminalOwned,
       Begun
<2>2. ClientsServed' /\ TerminalOwned'
    BY <1>3, GenerationFacts DEF StartUnwinds, TerminalRuns, sessionVars, IInv,
       TypeOK, TerminalState, ClientsServed, Served, TerminalOwned
<2>3. WatchOwned' /\ Begun' /\ RunningIsWatched'
    BY <1>3, GenerationFacts DEF StartUnwinds, TerminalRuns, sessionVars, IInv,
       TypeOK, TerminalState, WatchOwned, Begun, RunningIsWatched,
       ShutdownOrder, DeletionAhead, Undisturbed
<2>4. ShutdownOrder' /\ DeletionAhead'
    BY <1>3, GenerationFacts DEF StartUnwinds, TerminalRuns, sessionVars, IInv,
       TypeOK, TerminalState, ShutdownOrder, DeletionAhead, Undisturbed,
       Finalizing, TerminalOwned, WatchOwned, RunningIsWatched
<2> QED
    BY <2>1, <2>2, <2>3, <2>4 DEF IInv
<1>4. CASE ReaderTells
<2>1. TypeOK'
    BY <1>4, GenerationFacts, TerminalSteps DEF ReaderTells, Tell,
       TerminalRuns, sessionVars, IInv, TypeOK, TerminalTyped, TerminalState,
       TerminalOwned, Begun
<2>2. ClientsServed' /\ TerminalOwned'
    BY <1>4, GenerationFacts DEF ReaderTells, Tell, TerminalRuns, sessionVars,
       IInv, TypeOK, TerminalState, ClientsServed, Served, TerminalOwned
<2>3. WatchOwned' /\ Begun' /\ RunningIsWatched'
    BY <1>4, GenerationFacts DEF ReaderTells, Tell, TerminalRuns, sessionVars,
       IInv, TypeOK, TerminalState, WatchOwned, Begun, RunningIsWatched,
       ShutdownOrder, DeletionAhead, Undisturbed
<2>4. ShutdownOrder' /\ DeletionAhead'
    BY <1>4, GenerationFacts DEF ReaderTells, Tell, TerminalRuns, sessionVars,
       IInv, TypeOK, TerminalState, ShutdownOrder, DeletionAhead, Undisturbed,
       Finalizing, TerminalOwned, WatchOwned, RunningIsWatched
<2> QED
    BY <2>1, <2>2, <2>3, <2>4 DEF IInv
<1>5. CASE ShellTerminated
<2>1. TypeOK'
    BY <1>5, GenerationFacts, TerminalSteps DEF ShellTerminated, TerminalRuns,
       sessionVars, IInv, TypeOK, TerminalTyped, TerminalState, TerminalOwned,
       Begun
<2>2. ClientsServed' /\ TerminalOwned'
    BY <1>5, GenerationFacts DEF ShellTerminated, TerminalRuns, sessionVars,
       IInv, TypeOK, TerminalState, ClientsServed, Served, TerminalOwned
<2>3. WatchOwned' /\ Begun' /\ RunningIsWatched'
    BY <1>5, GenerationFacts DEF ShellTerminated, TerminalRuns, sessionVars,
       IInv, TypeOK, TerminalState, WatchOwned, Begun, RunningIsWatched,
       ShutdownOrder, DeletionAhead, Undisturbed
<2>4. ShutdownOrder' /\ DeletionAhead'
    BY <1>5, GenerationFacts DEF ShellTerminated, TerminalRuns, sessionVars,
       IInv, TypeOK, TerminalState, ShutdownOrder, DeletionAhead, Undisturbed,
       Finalizing, TerminalOwned, WatchOwned, RunningIsWatched
<2> QED
    BY <2>1, <2>2, <2>3, <2>4 DEF IInv
<1>6. CASE StopEnds
<2>1. TypeOK'
    BY <1>6, GenerationFacts, TerminalSteps DEF StopEnds, TerminalRuns,
       sessionVars, IInv, TypeOK, TerminalTyped, TerminalState, TerminalOwned,
       Begun
<2>2. ClientsServed' /\ TerminalOwned'
    BY <1>6, GenerationFacts DEF StopEnds, TerminalRuns, sessionVars, IInv,
       TypeOK, TerminalState, ClientsServed, Served, TerminalOwned
<2>3. WatchOwned' /\ Begun' /\ RunningIsWatched'
    BY <1>6, GenerationFacts DEF StopEnds, TerminalRuns, sessionVars, IInv,
       TypeOK, TerminalState, WatchOwned, Begun, RunningIsWatched,
       ShutdownOrder, DeletionAhead, Undisturbed
<2>4. ShutdownOrder' /\ DeletionAhead'
    BY <1>6, GenerationFacts DEF StopEnds, TerminalRuns, sessionVars, IInv,
       TypeOK, TerminalState, ShutdownOrder, DeletionAhead, Undisturbed,
       Finalizing, TerminalOwned, WatchOwned, RunningIsWatched, ClientsServed
<2> QED
    BY <2>1, <2>2, <2>3, <2>4 DEF IInv
<1> QED
  BY <1>1, <1>2, <1>3, <1>4, <1>5, <1>6 DEF TerminalRuns

-----------------------------------------------------------------------------
(* The invariant holds, and with it what the runs check.                   *)
LEMMA InitIInv == Init => IInv
<1> SUFFICES ASSUME Init PROVE IInv
  OBVIOUS
<1>1. TypeOK
  BY GenerationFacts DEF Init, TerminalInit, WatchInit, TypeOK, TerminalState,
     WatchState, RuntimeState, Deletion, Mode
<1>2. ClientsServed /\ TerminalOwned /\ WatchOwned /\ Begun
  BY DEF Init, TerminalInit, WatchInit, ClientsServed, Served, TerminalOwned,
     WatchOwned, Begun
<1>3. RunningIsWatched /\ ShutdownOrder /\ DeletionAhead
  BY DEF Init, TerminalInit, RunningIsWatched, ShutdownOrder, DeletionAhead,
     Undisturbed
<1> QED
  BY <1>1, <1>2, <1>3 DEF IInv

LEMMA StutterKeeps == IInv /\ UNCHANGED vars => IInv'
BY DEF vars, IInv, TypeOK, ClientsServed, Served, TerminalOwned, WatchOwned,
   Begun, RunningIsWatched, ShutdownOrder, DeletionAhead, Undisturbed,
   Finalizing

LEMMA NextIInv == IInv /\ [Next]_vars => IInv'
<1> SUFFICES ASSUME IInv, Next PROVE IInv'
  BY StutterKeeps
<1>1. CASE TurnQueues \/ TurnWithdrawn \/ GenerationStarts \/ StartHook \/ Ready
         \/ GenerationEnds
  BY <1>1, QueueKeeps, GenerationStartsKeeps, StartHookKeeps, ReadyKeeps,
     GenerationEndsKeeps
<1>2. CASE StopHookWatch \/ StopHookTerminal \/ GenerationStopped
  BY <1>2, StopHookWatchKeeps, StopHookTerminalKeeps, GenerationStoppedKeeps
<1>3. CASE \E c \in Client : ClientAttaches(c) \/ ClientDetaches(c)
  BY <1>3, ClientAttachesKeeps, ClientDetachesKeeps
<1>4. CASE ShellActivates \/ ShellTargets \/ ShellErrs \/ TerminalRuns \/ ShellEnds
  BY <1>4, ShellActivatesKeeps, ShellTargetsKeeps, ShellErrsKeeps,
     TerminalRunsKeeps, ShellEndsKeeps
<1>5. CASE WatchRuns
  BY <1>5, WatchRunsKeeps
<1>6. CASE DeleteStops \/ DeleteData \/ DeleteRefused \/ DeleteRow
  BY <1>6, DeleteStopsKeeps, DeleteDataKeeps, DeleteRefusedKeeps,
     DeleteRowKeeps
<1>7. CASE ShutdownBegins \/ RuntimesDown \/ TerminalsDown
  BY <1>7, ShutdownBeginsKeeps, RuntimesDownKeeps, TerminalsDownKeeps
<1> QED
  BY <1>1, <1>2, <1>3, <1>4, <1>5, <1>6, <1>7 DEF Next

LEMMA InvariantHolds == Spec => []IInv
<1> QED
  BY InitIInv, NextIInv, PTL DEF Spec

(* The records of the terminal, the watch, the Runtime and the deletion    *)
(* keep their types, and a shell has exactly one reader, whatever clients, *)
(* generations, deletions and the shutdown do to each other.               *)
THEOREM TypeCorrect == Spec => []TypeOK
<1>1. IInv => TypeOK
  BY DEF IInv
<1> QED
  BY <1>1, InvariantHolds, PTL

(* A shell and a watch belong to the current generation and are gone when  *)
(* it is stopped: neither a start task cancelled in launch nor a late      *)
(* callback of the watch brings back one of an earlier generation; and the *)
(* shutdown leaves neither of them, no start of a shell, no reader and no  *)
(* lease (TerminalManager.stop_session,                                    *)
(* WorkspaceWatchManager._discard_finished).                               *)
THEOREM ServicesFollowGenerations == Spec => []GenerationOwnsServices
<1>1. IInv => GenerationOwnsServices
  BY DEF IInv, TypeOK, TerminalState, TerminalOwned, WatchOwned, ShutdownOrder,
     GenerationOwnsServices
<1> QED
  BY <1>1, InvariantHolds, PTL

(* Between its two hooks a generation has a watch, unless the watch failed *)
(* or a deletion that the generation overlaps has stopped it               *)
(* (WorkspaceWatchManager.ensure and stop).                                *)
THEOREM RunningGenerationsAreWatched == Spec => []RunningIsWatched
<1>1. IInv => RunningIsWatched
  BY DEF IInv
<1> QED
  BY <1>1, InvariantHolds, PTL

(* Who sees a shell holds a lease, so that the manager neither evicts nor  *)
(* expires the Runtime under an attached client, however the release of    *)
(* the leases by failed, cancelled and ended shells interleaves with new   *)
(* clients; the exception is who came while a cancelled start unwound      *)
(* (TerminalManager.attach, _start_shell and _read_output).                *)
THEOREM AttachedClientsHoldLeases == Spec => []UsersHoldLeases
<1>1. IInv => UsersHoldLeases
  BY DEF IInv, ClientsServed, Served, TerminalOwned, UsersHoldLeases
<1> QED
  BY <1>1, InvariantHolds, PTL

(* Every lease is that of a client the terminal still knows, so none keeps *)
(* a Runtime alive for nobody.                                             *)
THEOREM NoLeaseForNobody == Spec => []LeasesHaveClients
<1>1. IInv => LeasesHaveClients
  BY DEF IInv, ClientsServed, LeasesHaveClients
<1> QED
  BY <1>1, InvariantHolds, PTL

(* When delete_session has removed the row, no shell, watch, container or  *)
(* data is left, however often a cleanup failed before and whichever phase *)
(* of a generation the call met; the exception is a generation that began  *)
(* after its stop (SessionLifecycleService._delete_session).               *)
THEOREM DeletionIsComplete == Spec => []DeletedLeavesNothing
<1>1. IInv => DeletedLeavesNothing
  BY DEF IInv, DeletionAhead, Undisturbed, Row, DeletedLeavesNothing
<1> QED
  BY <1>1, InvariantHolds, PTL
=============================================================================
