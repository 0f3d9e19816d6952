--------------------------- MODULE PoolRefinement ---------------------------
(***************************************************************************)
(* RuntimePool implements SandboxPool.  The places are read off the        *)
(* generations and their sources, never off the counters the code admits   *)
(* with, so that a wrong counter breaks the implementation.                *)
(***************************************************************************)
EXTENDS RuntimePool

(* A generation was prepared and has not converged, or left a Sandbox.     *)
Begun(s) == rt[s].status \notin {"stopped", "error", "queued"} \/ rt[s].cleanup

(* s has launched nothing: it waits for the generation of its source.      *)
AwaitsSource(s) ==
    /\ Begun(s) /\ rt[s].proc = "none" /\ ~rt[s].cleanup /\ rt[s].src # None
    /\ rt[rt[s].src[1]].gen = rt[s].src[2]
    /\ Begun(rt[s].src[1])

Holders == {s \in Session : Begun(s) /\ ~AwaitsSource(s) /\ ~rt[s].died}

Promises == {<<rt[s].src[1], s>> : s \in {x \in Session : AwaitsSource(x)}}

Leavers == {s \in Session : rt[s].finGen # 0 /\ ~rt[s].died}

Pool == INSTANCE SandboxPool WITH
    Slots <- MaxActive, Quota <- MaxPerUser,
    hold <- Holders, leaving <- Leavers, promises <- Promises,
    waits <- {queue[i] : i \in DOMAIN queue}, open <- (mode = "open")

(* The pool of runtime.py keeps the promises of SandboxPool: every step of *)
(* an admission, eviction, handoff, finalization, sweep or shutdown is a   *)
(* step of SandboxPool or changes no place.                                *)
ImplementsSandboxPool == Pool!Spec

=============================================================================
