------------------------------- MODULE Watcher -------------------------------
(***************************************************************************)
(* The watch of one Session's workspace: WorkspaceWatchManager of          *)
(* app/services/watcher.py.  A watch is one asyncio task; the manager      *)
(* registers it with the generation it serves.                             *)
(***************************************************************************)
EXTENDS Integers

VARIABLE watch

(* discard: the done callback of a task that has ended has not run yet.    *)
(* loose is not in the code: a task runs that is not registered.  broke:   *)
(* the watch of this generation has ended by itself.                       *)
WatchState(Gens) ==
    [task : {"none", "live", "ended"}, gen : Gens, discard : BOOLEAN,
     loose : BOOLEAN, broke : BOOLEAN]

WatchInit ==
    watch = [task |-> "none", gen |-> 0, discard |-> FALSE, loose |-> FALSE,
             broke |-> FALSE]

Unregistered(w) == [w EXCEPT !.task = "none", !.gen = 0]

(* ensure: a watch that still runs is taken over by the generation.        *)
Ensure(g) ==
    watch' = [watch EXCEPT !.task = "live", !.gen = g,
                           !.broke = IF watch.task = "live" THEN @ ELSE FALSE]

(* stop: of the given generation only, 0 standing for None.                *)
StopWatch(g) ==
    watch' = IF g # 0 /\ watch.gen # g THEN watch ELSE Unregistered(watch)

(* The watch fails; _discard_finished runs one turn of the loop later.     *)
WatchEnds ==
    /\ watch.task = "live" /\ ~watch.discard
    /\ watch' = [watch EXCEPT !.task = "ended", !.discard = TRUE, !.broke = TRUE]

(* Mutant: the callback does not look whose task it discards.              *)
DiscardAny ==
    /\ watch.discard
    /\ watch' = [Unregistered(watch) EXCEPT !.discard = FALSE,
                                            !.loose = (watch.task = "live")]

DiscardFinished ==
    /\ watch.discard
    /\ watch' = [IF watch.task = "ended" THEN Unregistered(watch) ELSE watch
                 EXCEPT !.discard = FALSE]
=============================================================================
