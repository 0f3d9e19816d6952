----------------------- MODULE PoolRefinement_proofs -----------------------
(***************************************************************************)
(* RuntimePool implements SandboxPool, for every value of the constants.   *)
(*                                                                         *)
(* The places of SandboxPool are read off a map of Sessions to their state *)
(* (HoldersOf, PromisesOf, LeaversOf), so that a step may be followed      *)
(* through the map in its middle: a finalizer converges its generation and *)
(* then serves the queue.  That the places fit is the invariant LInv of    *)
(* RuntimePoolLimits_proofs, and which step of SandboxPool a step is       *)
(* depends only on what it does to the places.                             *)
(***************************************************************************)
EXTENDS PoolRefinement, RuntimePoolLimits_proofs

(* s has launched nothing, and the generation it follows is still there.   *)
Heir(f, s) ==
    /\ f[s].src # None
    /\ f[f[s].src[1]].gen = f[s].src[2]
    /\ Takes(f[f[s].src[1]])

HoldersOf(f) == {s \in Session : Takes(f[s]) /\ ~Heir(f, s) /\ ~f[s].died}

PromisesOf(f) == {<<f[s].src[1], s>> : s \in {x \in Session : Heir(f, x)}}

LeaversOf(f) == {s \in Session : f[s].finGen # 0 /\ ~f[s].died}

(* What OInv says of the Sessions and of their sources.                    *)
Known(f, m) ==
    /\ \A s \in Session : Sound(f[s], m)
    /\ \A s \in Session : f[s].src # None =>
          /\ f[s].src[1] \in Session
          /\ SourceOver(f[s].src, f)
          /\ \A x \in Session : f[x].src = f[s].src => x = s

-----------------------------------------------------------------------------
(* Places.                                                                 *)

LEMMA KnownBefore ==
    ASSUME OInv
    PROVE  Known(rt, mode)
<1>1. \A s \in Session : Sound(rt[s], mode)
  BY RecordFacts DEF Sound
<1>2. SourcesGood
  BY DEF OInv
<1>3. \A s \in Session : rt[s].src # None => rt[s].src[1] \in Session
  BY SourcesKnown
<1> QED
  BY <1>1, <1>2, <1>3 DEF Known, SourcesGood

LEMMA KnownAfter ==
    ASSUME OInv'
    PROVE  Known(rt', mode')
<1>1. \A s \in Session : Sound(rt'[s], mode')
  BY DEF OInv, IInv, TypeOK, Sound
<1>2. SourcesGood'
  BY DEF OInv
<1>3. \A s \in Session : rt'[s].src # None => rt'[s].src[1] \in Session
  <2> SUFFICES ASSUME NEW s \in Session, rt'[s].src # None
               PROVE  rt'[s].src[1] \in Session
    OBVIOUS
  <2>1. rt'[s].src \in Session \X Generation
    BY <1>1 DEF Sound, Runtime, Source
  <2> QED
    BY <2>1
<1> QED
  BY <1>1, <1>2, <1>3 DEF Known, SourcesGood

(* What an heir and its source are.                                        *)
LEMMA HeirFacts ==
    ASSUME NEW f, NEW m, Known(f, m), NEW s \in Session, Heir(f, s)
    PROVE  LET v == f[s].src[1] IN
           /\ v \in Session /\ f[s].src = <<v, f[v].gen>>
           /\ Takes(f[v]) /\ ~f[v].died /\ f[v].src = None /\ Over(f[v])
           /\ Takes(f[s]) /\ ~f[s].died /\ ~f[s].cleanup /\ Unlaunched(f[s])
           /\ \A x \in Session : Heir(f, x) /\ f[x].src[1] = v => x = s
<1> DEFINE v == f[s].src[1]
<1>1. f[s].src # None /\ f[v].gen = f[s].src[2] /\ Takes(f[v])
  BY DEF Heir
<1>2. Sound(f[s], m) /\ v \in Session /\ SourceOver(f[s].src, f)
      /\ \A x \in Session : f[x].src = f[s].src => x = s
  BY <1>1 DEF Known
<1>3. f[s].src \in Session \X Generation
  BY <1>1, <1>2 DEF Sound, Runtime, Source
<1>4. f[s].src = <<v, f[v].gen>>
  BY <1>1, <1>3
<1>5. Over(f[v]) /\ ~f[v].died /\ f[v].src = None
  BY <1>1, <1>2 DEF SourceOver
<1>6. Takes(f[s]) /\ ~f[s].died /\ ~f[s].cleanup /\ Unlaunched(f[s])
  BY <1>1, <1>2 DEF Sound, Good, Takes, Unlaunched
<1>7. ASSUME NEW x \in Session, Heir(f, x), f[x].src[1] = v
      PROVE  x = s
  <2>1. f[x].src # None /\ f[x].src[2] = f[v].gen /\ Sound(f[x], m)
    BY <1>7 DEF Heir, Known
  <2>2. f[x].src \in Session \X Generation
    BY <2>1 DEF Sound, Runtime, Source
  <2>3. f[x].src = f[s].src
    BY <1>4, <1>7, <2>1, <2>2
  <2> QED
    BY <1>2, <2>3
<1> QED
  BY <1>1, <1>2, <1>4, <1>5, <1>6, <1>7

(* The heirs are the targets that the pool does not count.                 *)
LEMMA HeirReserves ==
    ASSUME NEW f, NEW m, Known(f, m), NEW s \in Session
    PROVE  Reserving(f, s) <=> Heir(f, s)
<1>1. ASSUME Reserving(f, s) PROVE Heir(f, s)
  <2> DEFINE v == f[s].src[1]
  <2>1. f[s].src # None /\ f[v].gen = f[s].src[2] /\ OccupiesSlot(f[v])
    BY <1>1 DEF Reserving, SourceOccupied
  <2>2. v \in Session /\ Sound(f[v], m)
    BY <2>1 DEF Known
  <2>3. Takes(f[v])
    BY <2>1, <2>2, OccupiedTakes
  <2> QED
    BY <2>1, <2>3 DEF Heir
<1>2. ASSUME Heir(f, s) PROVE Reserving(f, s)
  <2> DEFINE v == f[s].src[1]
  <2>1. /\ v \in Session /\ f[s].src = <<v, f[v].gen>>
        /\ Takes(f[v]) /\ ~f[v].died /\ Unlaunched(f[s])
    BY <1>2, HeirFacts
  <2>2. Sound(f[v], m) /\ f[s].src # None /\ f[v].gen = f[s].src[2]
    BY <1>2, <2>1 DEF Known, Heir
  <2>3. OccupiesSlot(f[v])
    BY <2>1, <2>2, TakesHolds
  <2> QED
    BY <2>1, <2>2, <2>3 DEF Reserving, SourceOccupied, Unlaunched
<1> QED
  BY <1>1, <1>2

(* The refinement mapping, on the state before a step and after it.        *)
LEMMA AwaitsIsHeir ==
    ASSUME NEW f, NEW m, Known(f, m), NEW s \in Session
    PROVE  (/\ Takes(f[s]) /\ f[s].proc = "none" /\ ~f[s].cleanup
            /\ f[s].src # None
            /\ f[f[s].src[1]].gen = f[s].src[2] /\ Takes(f[f[s].src[1]]))
           <=> Heir(f, s)
BY HeirFacts DEF Heir, Unlaunched

LEMMA PlacesBefore ==
    ASSUME OInv
    PROVE  /\ Holders = HoldersOf(rt) /\ Promises = PromisesOf(rt)
           /\ Leavers = LeaversOf(rt)
<1>1. Known(rt, mode)
  BY KnownBefore
<1>2. \A s : Begun(s) <=> Takes(rt[s])
  BY DEF Begun, Takes, Resting
<1>3. \A s \in Session : AwaitsSource(s) <=> Heir(rt, s)
  BY <1>1, <1>2, AwaitsIsHeir DEF AwaitsSource
<1> QED
  BY <1>2, <1>3 DEF Holders, Promises, Leavers, HoldersOf, PromisesOf, LeaversOf

LEMMA PlacesAfter ==
    ASSUME OInv'
    PROVE  /\ Holders' = HoldersOf(rt') /\ Promises' = PromisesOf(rt')
           /\ Leavers' = LeaversOf(rt')
<1>1. Known(rt', mode')
  BY KnownAfter
<1>2. \A s : Begun(s)' <=> Takes(rt'[s])
  BY DEF Begun, Takes, Resting
<1>3. \A s \in Session : AwaitsSource(s)' <=> Heir(rt', s)
  BY <1>1, <1>2, AwaitsIsHeir DEF AwaitsSource
<1> QED
  BY <1>2, <1>3 DEF Holders, Promises, Leavers, HoldersOf, PromisesOf, LeaversOf

(* The instance has its own copy of the operator of FiniteSets.            *)
LEMMA SameCardinality ==
    ASSUME NEW S
    PROVE  Pool!Cardinality(S) = Cardinality(S)
BY DEF Pool!Cardinality, Cardinality

(* The places are what the pool counts: they fit.                          *)
LEMMA PlacesCounted ==
    ASSUME NEW f, NEW m, Known(f, m), Counted(f)
    PROVE  Pool!Fits(HoldersOf(f), PromisesOf(f))
<1>1. \A s \in Session : Reserving(f, s) <=> Heir(f, s)
  BY HeirReserves
<1>2. \A s \in Session : ~f[s].died => (OccupiesSlot(f[s]) <=> Takes(f[s]))
  BY OccupiedTakes, TakesHolds DEF Known
<1>3. HoldersOf(f) = Slots(f)
  BY <1>1, <1>2 DEF HoldersOf, Slots, CountsSlot
<1>4. ASSUME NEW u \in User
      PROVE  Pool!Claims(HoldersOf(f), PromisesOf(f), u) = UserSlots(f, u)
  <2>1. ASSUME NEW s \in Session
        PROVE  (s \in HoldersOf(f)
                \/ \E p \in PromisesOf(f) : p[2] = s /\ Owner[p[1]] # u)
               <=> /\ Takes(f[s]) /\ ~f[s].died
                   /\ Heir(f, s) => Owner[f[s].src[1]] # u
    <3>1. CASE Heir(f, s)
      <4>1. s \notin HoldersOf(f) /\ Takes(f[s]) /\ ~f[s].died
        BY <3>1, HeirFacts DEF HoldersOf
      <4>2. <<f[s].src[1], s>> \in PromisesOf(f)
            /\ \A p \in PromisesOf(f) : p[2] = s => p[1] = f[s].src[1]
        BY <3>1 DEF PromisesOf
      <4> QED
        BY <3>1, <4>1, <4>2
    <3>2. CASE ~Heir(f, s)
      <4>1. ~\E p \in PromisesOf(f) : p[2] = s
        BY <3>2 DEF PromisesOf
      <4> QED
        BY <3>2, <4>1 DEF HoldersOf
    <3> QED
      BY <3>1, <3>2
  <2>2. \A s \in Session : ~f[s].died =>
           (CountsUserSlot(f, s) <=>
              Takes(f[s]) /\ (Heir(f, s) => Owner[f[s].src[1]] # Owner[s]))
    BY <1>1, <1>2 DEF CountsUserSlot
  <2> QED
    BY <2>1, <2>2 DEF Pool!Claims, UserSlots
<1> QED
  BY <1>3, <1>4, SameCardinality DEF Pool!Fits, Counted

-----------------------------------------------------------------------------
(* Steps that change no place.                                             *)

Alike(r, n) == n.gen = r.gen /\ (n.died <=> r.died) /\ (Takes(n) <=> Takes(r))

(* A source may be forgotten only when it is no longer awaited.            *)
SourceAlike(f, g, x) == g[x].src = f[x].src \/ (g[x].src = None /\ ~Heir(f, x))

LEMMA SameHeirs ==
    ASSUME NEW f, NEW g, NEW m, Known(f, m),
           \A x \in Session : Alike(f[x], g[x]) /\ SourceAlike(f, g, x),
           NEW s \in Session
    PROVE  /\ Heir(g, s) <=> Heir(f, s)
           /\ Heir(f, s) => g[s].src = f[s].src
<1>1. f[s].src # None => f[s].src[1] \in Session
  BY DEF Known
<1>2. CASE g[s].src = f[s].src
  BY <1>1, <1>2 DEF Heir, Alike
<1>3. CASE g[s].src = None /\ ~Heir(f, s)
  BY <1>3 DEF Heir
<1> QED
  BY <1>2, <1>3 DEF SourceAlike

LEMMA SamePlaces ==
    ASSUME NEW f, NEW g, NEW m, Known(f, m),
           \A x \in Session : Alike(f[x], g[x]) /\ SourceAlike(f, g, x)
    PROVE  HoldersOf(g) = HoldersOf(f) /\ PromisesOf(g) = PromisesOf(f)
<1>1. \A s \in Session : /\ Heir(g, s) <=> Heir(f, s)
                         /\ Heir(f, s) => g[s].src = f[s].src
  BY SameHeirs
<1>2. HoldersOf(g) = HoldersOf(f)
  BY <1>1 DEF HoldersOf, Alike
<1>3. {x \in Session : Heir(g, x)} = {x \in Session : Heir(f, x)}
  BY <1>1
<1>4. PromisesOf(g) = PromisesOf(f)
  BY <1>1, <1>3 DEF PromisesOf
<1> QED
  BY <1>2, <1>4

(* Whoever is on its way out has a place or the promise of one.            *)
LEMMA LeaversPlaced ==
    ASSUME NEW f, NEW m, Known(f, m)
    PROVE  LeaversOf(f) \subseteq HoldersOf(f) \cup {p[2] : p \in PromisesOf(f)}
<1> SUFFICES ASSUME NEW s \in LeaversOf(f)
             PROVE  s \in HoldersOf(f) \cup {p[2] : p \in PromisesOf(f)}
  OBVIOUS
<1>1. s \in Session /\ f[s].finGen # 0 /\ ~f[s].died
  BY DEF LeaversOf
<1>2. Takes(f[s])
  BY <1>1 DEF Known, Sound, Owned, Takes, Resting
<1>3. CASE Heir(f, s)
  <2>1. <<f[s].src[1], s>> \in PromisesOf(f)
    BY <1>1, <1>3 DEF PromisesOf
  <2> QED
    BY <2>1
<1>4. CASE ~Heir(f, s)
  BY <1>1, <1>2, <1>4 DEF HoldersOf
<1> QED
  BY <1>3, <1>4

LEMMA LeaveStep ==
    ASSUME Holders' = Holders, Promises' = Promises,
           {queue[i] : i \in DOMAIN queue}' = {queue[i] : i \in DOMAIN queue},
           mode' = "open" <=> mode = "open",
           Leavers \subseteq Leavers',
           Leavers' \subseteq Holders \cup {p[2] : p \in Promises}
    PROVE  Pool!Next
<1>1. Pool!Leave
  BY DEF Pool!Leave, Pool!Heirs
<1> QED
  BY <1>1 DEF Pool!Next

LEMMA UnmovedStep ==
    ASSUME OInv, OInv', UNCHANGED queue, mode' = "open" <=> mode = "open",
           \A x \in Session : /\ Alike(rt[x], rt'[x]) /\ SourceAlike(rt, rt', x)
                              /\ rt[x].finGen # 0 => rt'[x].finGen # 0
    PROVE  Pool!Next
<1>1. Known(rt, mode) /\ Known(rt', mode')
  BY KnownBefore, KnownAfter
<1>2. HoldersOf(rt') = HoldersOf(rt) /\ PromisesOf(rt') = PromisesOf(rt)
  BY <1>1, SamePlaces
<1>3. Holders' = Holders /\ Promises' = Promises
  BY <1>2, PlacesBefore, PlacesAfter
<1>4. LeaversOf(rt) \subseteq LeaversOf(rt')
  BY DEF LeaversOf, Alike
<1>5. LeaversOf(rt') \subseteq HoldersOf(rt') \cup {p[2] : p \in PromisesOf(rt')}
  BY <1>1, LeaversPlaced
<1>6. /\ Leavers \subseteq Leavers'
      /\ Leavers' \subseteq Holders \cup {p[2] : p \in Promises}
  BY <1>2, <1>4, <1>5, PlacesBefore, PlacesAfter
<1> QED
  BY <1>3, <1>6, LeaveStep

(* What no step but the convergence of a generation, or the end of its     *)
(* process, does to a Session.                                             *)
Keeps(r, n) == (r.finGen # 0 => n.finGen # 0) /\ (n.died => r.died)

LEMMA PassingStep ==
    ASSUME OInv, OInv', Passing, UNCHANGED queue, mode' = "open" <=> mode = "open",
           \A x \in Session : /\ Takes(rt[x]) => Takes(rt'[x])
                              /\ Keeps(rt[x], rt'[x])
    PROVE  Pool!Next
<1>1. Known(rt, mode) /\ Known(rt', mode')
  BY KnownBefore, KnownAfter
<1>2. ASSUME NEW x \in Session
      PROVE  Alike(rt[x], rt'[x]) /\ rt'[x].src = rt[x].src
  <2>1. Passes(rt[x], rt'[x]) /\ Sound(rt[x], mode) /\ Sound(rt'[x], mode')
    BY <1>1 DEF Passing, Known
  <2>2. Takes(rt'[x]) => Takes(rt[x])
    BY <2>1 DEF Passes, Takes
  <2>3. rt'[x].died <=> rt[x].died
    BY <2>1 DEF Passes, Keeps
  <2>4. rt'[x].gen = rt[x].gen /\ rt'[x].src \in {rt[x].src, None}
        /\ (rt'[x].src = rt[x].src \/ ~OccupiesSlot(rt'[x]))
    BY <2>1 DEF Passes
  <2>5. CASE rt[x].src = None
    BY <2>2, <2>3, <2>4, <2>5 DEF Alike
  <2>6. CASE rt[x].src # None
    <3>1. Takes(rt[x]) /\ ~rt[x].died
      BY <2>1, <2>6 DEF Sound, Good, Takes
    <3>2. OccupiesSlot(rt'[x])
      BY <2>1, <2>3, <3>1, TakesHolds
    <3> QED
      BY <2>2, <2>3, <2>4, <3>2 DEF Alike
  <2> QED
    BY <2>5, <2>6
<1> QED
  BY <1>2, UnmovedStep DEF Keeps, SourceAlike

-----------------------------------------------------------------------------
(* The steps that neither admit, nor end, nor lose a generation.           *)

Settled == /\ \A x \in Session : Keeps(rt[x], rt'[x])
           /\ UNCHANGED queue
           /\ mode' = "open" <=> mode = "open"

LEMMA BeginKept ==
    ASSUME NEW r \in Runtime, NEW g, NEW final
    PROVE  Keeps(r, Begin(r, g, final))
<1>1. CASE ~Claimable(r, g)
  BY <1>1 DEF Begin, Keeps
<1>2. CASE Claimable(r, g)
  <2> DEFINE n == [r EXCEPT !.finGen = g, !.status = "stopping", !.fin = "waiting",
                            !.final = final, !.waiter = FALSE]
  <2>1. n.died = r.died
    BY DEF Runtime
  <2>2. Begin(r, g, final) = n /\ r.finGen = 0
    BY <1>2 DEF Begin, Claimable
  <2> HIDE DEF n
  <2> QED
    BY <2>1, <2>2 DEF Keeps
<1> QED
  BY <1>1, <1>2

LEMMA OneSettled ==
    ASSUME rt \in [Session -> Runtime], NEW s \in Session, NEW n,
           rt' = [rt EXCEPT ![s] = n], Keeps(rt[s], n), UNCHANGED <<queue, mode>>
    PROVE  Settled
<1>1. rt'[s] = n /\ \A x \in Session \ {s} : rt'[x] = rt[x]
  OBVIOUS
<1>2. \A x \in Session : Keeps(rt[x], rt'[x])
  BY <1>1 DEF Keeps
<1> QED
  BY <1>2 DEF Settled

LEMMA ClaimSettled ==
    ASSUME rt \in [Session -> Runtime], NEW s \in Session, NEW g, NEW final,
           rt' = [rt EXCEPT ![s] = Begin(rt[s], g, final)], UNCHANGED <<queue, mode>>
    PROVE  Settled
<1> DEFINE n == Begin(rt[s], g, final)
<1>1. Keeps(rt[s], n)
  BY BeginKept
<1> HIDE DEF n
<1> QED
  BY <1>1, OneSettled DEF n

LEMMA SameSettled ==
    ASSUME rt \in [Session -> Runtime], NEW s \in Session, NEW n,
           rt' = [rt EXCEPT ![s] = n], n.finGen = rt[s].finGen, n.died = rt[s].died,
           UNCHANGED <<queue, mode>>
    PROVE  Settled
BY OneSettled DEF Keeps

LEMMA RequestSettled ==
    ASSUME OInv, NEW s \in Session, Request(s),
           ~ActivateAdmits(s), ~SendAdmits(s), ~SendQueues(s),
           ~(StopSession(s) /\ rt[s].status = "queued")
    PROVE  Settled
<1>1. rt \in [Session -> Runtime] /\ rt[s] \in Runtime
  BY RecordFacts
<1>2. CASE ActivateReclaims(s) \/ SendReclaims(s)
  BY <1>1, <1>2, ClaimSettled DEF ActivateReclaims, SendReclaims, ReclaimFirst
<1>3. CASE SendToStarting(s)
  <2> DEFINE n == [rt[s] EXCEPT !.turn = TRUE, !.waiter = TRUE]
  <2>1. n.finGen = rt[s].finGen /\ n.died = rt[s].died
    BY <1>1 DEF Runtime
  <2>2. rt' = [rt EXCEPT ![s] = n] /\ UNCHANGED <<queue, mode>>
    BY <1>1, <1>3 DEF SendToStarting
  <2> HIDE DEF n
  <2> QED
    BY <1>1, <2>1, <2>2, SameSettled
<1>4. CASE SendToIdle(s)
  <2> DEFINE n == [rt[s] EXCEPT !.status = "running", !.busy = TRUE, !.turn = TRUE]
  <2>1. n.finGen = rt[s].finGen /\ n.died = rt[s].died
    BY <1>1 DEF Runtime
  <2>2. rt' = [rt EXCEPT ![s] = n] /\ UNCHANGED <<queue, mode>>
    BY <1>1, <1>4 DEF SendToIdle
  <2> HIDE DEF n
  <2> QED
    BY <1>1, <2>1, <2>2, SameSettled
<1>5. CASE SendWhenReady(s)
  <2> DEFINE n == [rt[s] EXCEPT !.status = "running", !.busy = TRUE, !.waiter = FALSE]
  <2>1. n.finGen = rt[s].finGen /\ n.died = rt[s].died
    BY <1>1 DEF Runtime
  <2>2. rt' = [rt EXCEPT ![s] = n] /\ UNCHANGED <<queue, mode>>
    BY <1>1, <1>5 DEF SendWhenReady
  <2> HIDE DEF n
  <2> QED
    BY <1>1, <2>1, <2>2, SameSettled
<1>6. CASE SendWaitTimesOut(s)
  <2> DEFINE n == [rt[s] EXCEPT !.waiter = FALSE]
  <2>1. n.finGen = rt[s].finGen /\ n.died = rt[s].died
    BY <1>1 DEF Runtime
  <2>2. rt' = [rt EXCEPT ![s] = n] /\ UNCHANGED <<queue, mode>>
    BY <1>1, <1>6 DEF SendWaitTimesOut
  <2> HIDE DEF n
  <2> QED
    BY <1>1, <2>1, <2>2, SameSettled
<1>7. CASE Resolve(s)
  <2>1. PICK status : rt' = [rt EXCEPT ![s].status = status]
    BY <1>7 DEF Resolve
  <2> DEFINE n == [rt[s] EXCEPT !.status = status]
  <2>2. n.finGen = rt[s].finGen /\ n.died = rt[s].died
    BY <1>1 DEF Runtime
  <2>3. rt' = [rt EXCEPT ![s] = n] /\ UNCHANGED <<queue, mode>>
    BY <1>1, <1>7, <2>1 DEF Resolve
  <2> HIDE DEF n
  <2> QED
    BY <1>1, <2>2, <2>3, SameSettled
<1>8. CASE StopSession(s)
  BY <1>1, <1>8, ClaimSettled DEF StopSession
<1>9. ASSUME NEW c, ControlBegins(s, c) PROVE Settled
  <2> DEFINE n == [rt[s] EXCEPT !.control = c, !.busy = TRUE]
  <2>1. n.finGen = rt[s].finGen /\ n.died = rt[s].died
    BY <1>1 DEF Runtime
  <2>2. rt' = [rt EXCEPT ![s] = n] /\ UNCHANGED <<queue, mode>>
    BY <1>1, <1>9 DEF ControlBegins
  <2> HIDE DEF n
  <2> QED
    BY <1>1, <2>1, <2>2, SameSettled
<1>10. ASSUME NEW c, LeaseAcquire(s, c) \/ LeaseRelease(s, c) PROVE Settled
  <2>1. PICK leases : rt' = [rt EXCEPT ![s].leases = leases]
    BY <1>10 DEF LeaseAcquire, LeaseRelease
  <2> DEFINE n == [rt[s] EXCEPT !.leases = leases]
  <2>2. n.finGen = rt[s].finGen /\ n.died = rt[s].died
    BY <1>1 DEF Runtime
  <2>3. rt' = [rt EXCEPT ![s] = n] /\ UNCHANGED <<queue, mode>>
    BY <1>1, <1>10, <2>1 DEF LeaseAcquire, LeaseRelease
  <2> HIDE DEF n
  <2> QED
    BY <1>1, <2>2, <2>3, SameSettled
<1> QED
  BY <1>2, <1>3, <1>4, <1>5, <1>6, <1>7, <1>8, <1>9, <1>10 DEF Request

LEMMA CoreSettled ==
    ASSUME OInv, NEW s \in Session, Core(s), ~ProcessExit(s)
    PROVE  Settled
<1>1. rt \in [Session -> Runtime] /\ rt[s] \in Runtime
  BY RecordFacts
<1>2. CASE TurnFinished(s)
  <2> DEFINE n == [rt[s] EXCEPT !.status = "idle", !.busy = FALSE, !.turn = FALSE]
  <2>1. n.finGen = rt[s].finGen /\ n.died = rt[s].died
    BY <1>1 DEF Runtime
  <2>2. rt' = [rt EXCEPT ![s] = n] /\ UNCHANGED <<queue, mode>>
    BY <1>1, <1>2 DEF TurnFinished
  <2> HIDE DEF n
  <2> QED
    BY <1>1, <2>1, <2>2, SameSettled
<1>3. CASE Asks(s)
  <2>1. PICK status : rt' = [rt EXCEPT ![s].status = status]
    BY <1>3 DEF Asks
  <2> DEFINE n == [rt[s] EXCEPT !.status = status]
  <2>2. n.finGen = rt[s].finGen /\ n.died = rt[s].died
    BY <1>1 DEF Runtime
  <2>3. rt' = [rt EXCEPT ![s] = n] /\ UNCHANGED <<queue, mode>>
    BY <1>1, <1>3, <2>1 DEF Asks
  <2> HIDE DEF n
  <2> QED
    BY <1>1, <2>2, <2>3, SameSettled
<1>4. CASE ControlEnds(s) \/ ControlAborts(s)
  <2> DEFINE r == [rt[s] EXCEPT !.control = None, !.busy = FALSE]
             b == Begin(r, r.gen, "stopped")
  <2>1. r.finGen = rt[s].finGen /\ r.died = rt[s].died
    BY <1>1 DEF Runtime
  <2>2. \E n \in {r, b} : rt' = [rt EXCEPT ![s] = n]
    BY <1>1, <1>4 DEF ControlEnds, ControlAborts
  <2>3. r \in Runtime
    BY <1>1 DEF Runtime
  <2>4. UNCHANGED <<queue, mode>>
    BY <1>4 DEF ControlEnds, ControlAborts
  <2> HIDE DEF r
  <2>5. Keeps(r, b) /\ Keeps(r, r)
    BY <2>3, BeginKept DEF Keeps
  <2>6. Keeps(rt[s], r) /\ Keeps(rt[s], b)
    BY <2>1, <2>5 DEF Keeps
  <2> HIDE DEF b
  <2> QED
    BY <1>1, <2>2, <2>4, <2>6, OneSettled
<1> QED
  BY <1>2, <1>3, <1>4 DEF Core

LEMMA GenerationsSettled ==
    ASSUME OInv, NEW s \in Session, Generations(s), ~FinalizerConverges(s),
           DispatchFromIdle(s) => UNCHANGED <<rt, queue>>
    PROVE  Settled
<1>1. rt \in [Session -> Runtime] /\ rt[s] \in Runtime
  BY RecordFacts
<1>2. CASE DispatchFromIdle(s)
  BY <1>2 DEF DispatchFromIdle, Settled, Keeps
<1>3. CASE ReaderClaims(s)
  <2>1. PICK final : rt' = [rt EXCEPT ![s] = Begin(rt[s], rt[s].gen, final)]
    BY <1>1, <1>3 DEF ReaderClaims
  <2>2. UNCHANGED <<queue, mode>>
    BY <1>3 DEF ReaderClaims
  <2> QED
    BY <1>1, <2>1, <2>2, ClaimSettled
<1>4. CASE FinalizerLocks(s)
  <2> DEFINE n == [rt[s] EXCEPT !.fin = "teardown"]
  <2>1. n.finGen = rt[s].finGen /\ n.died = rt[s].died
    BY <1>1 DEF Runtime
  <2>2. rt' = [rt EXCEPT ![s] = n] /\ UNCHANGED <<queue, mode>>
    BY <1>1, <1>4 DEF FinalizerLocks
  <2> HIDE DEF n
  <2> QED
    BY <1>1, <2>1, <2>2, SameSettled
<1>5. CASE FinalizerTearsDown(s)
  <2>1. PICK survives, kept, errors \in BOOLEAN :
         /\ survives \/ kept \/ errors => "cleanup" \in Env
         /\ survives => Live(rt[s])
         /\ kept => rt[s].ref
         /\ rt' = [rt EXCEPT
                ![s].proc = IF Live(rt[s]) /\ ~survives THEN "exited" ELSE @,
                ![s].fin = IF kept THEN "kept" ELSE "hooks",
                ![s].final = IF errors THEN "error" ELSE @,
                ![s].token = 0]
    BY <1>5 DEF FinalizerTearsDown
  <2> DEFINE a == IF Live(rt[s]) /\ ~survives THEN "exited" ELSE rt[s].proc
             b == IF kept THEN "kept" ELSE "hooks"
             c == IF errors THEN "error" ELSE rt[s].final
             n == [rt[s] EXCEPT !.proc = a, !.fin = b, !.final = c, !.token = 0]
  <2>2. rt' = [rt EXCEPT ![s] = n]
    BY <1>1, <2>1, ZenonT(60) DEF Runtime
  <2>3. UNCHANGED <<queue, mode>>
    BY <1>5 DEF FinalizerTearsDown
  <2> HIDE DEF a, b, c
  <2>4. n.finGen = rt[s].finGen /\ n.died = rt[s].died
    BY <1>1 DEF Runtime
  <2> HIDE DEF n
  <2> QED
    BY <1>1, <2>2, <2>3, <2>4, SameSettled
<1> QED
  BY <1>2, <1>3, <1>4, <1>5 DEF Generations

LEMMA StartSettled ==
    ASSUME OInv, NEW t \in starts, Start(t)
    PROVE  Settled
<1> DEFINE s == t.sess
<1>1. s \in Session /\ rt \in [Session -> Runtime] /\ rt[s] \in Runtime
  BY TaskFacts, RecordFacts
<1>2. CASE StartChecks(t)
  <2>1. UNCHANGED <<queue, mode>>
    BY <1>2 DEF StartChecks
  <2>2. CASE UNCHANGED rt
    BY <2>1, <2>2 DEF Settled, Keeps
  <2>3. CASE rt' = [rt EXCEPT ![s] = Begin(@, t.gen, "error")]
    BY <1>1, <2>1, <2>3, ClaimSettled
  <2>4. CASE rt' = [rt EXCEPT ![s].src = None]
    <3> DEFINE n == [rt[s] EXCEPT !.src = None]
    <3>1. rt' = [rt EXCEPT ![s] = n]
          /\ n.finGen = rt[s].finGen /\ n.died = rt[s].died
      BY <1>1, <2>4 DEF Runtime
    <3> HIDE DEF n
    <3> QED
      BY <1>1, <2>1, <3>1, SameSettled
  <2> QED
    BY <1>2, <2>2, <2>3, <2>4 DEF StartChecks
<1>3. CASE StartLaunches(t)
  <2> DEFINE r == [rt[s] EXCEPT !.proc = "live", !.ref = TRUE]
             b == Begin(r, t.gen, "stopped")
  <2>1. r.finGen = rt[s].finGen /\ r.died = rt[s].died /\ r \in Runtime
    BY <1>1 DEF Runtime
  <2>2. \E n \in {r, b} : rt' = [rt EXCEPT ![s] = n]
    BY <1>3 DEF StartLaunches
  <2>3. UNCHANGED <<queue, mode>>
    BY <1>3 DEF StartLaunches
  <2> HIDE DEF r
  <2>4. Keeps(r, b) /\ Keeps(r, r)
    BY <2>1, BeginKept DEF Keeps
  <2>5. Keeps(rt[s], r) /\ Keeps(rt[s], b)
    BY <2>1, <2>4 DEF Keeps
  <2> HIDE DEF b
  <2> QED
    BY <1>1, <2>2, <2>3, <2>5, OneSettled
<1>4. CASE StartLaunchFails(t) \/ StartFails(t)
  <2>1. rt' = [rt EXCEPT ![s] = Begin(rt[s], t.gen, "error")] /\ UNCHANGED <<queue, mode>>
    BY <1>1, <1>4 DEF StartLaunchFails, StartFails
  <2> QED
    BY <1>1, <2>1, ClaimSettled
<1>5. CASE StartCompletes(t)
  <2> DEFINE st == IF t.turn THEN "running" ELSE "idle"
             n == [rt[s] EXCEPT !.status = st, !.busy = t.turn]
  <2>1. rt' = [rt EXCEPT ![s] = n] /\ UNCHANGED <<queue, mode>>
    BY <1>1, <1>5 DEF StartCompletes
  <2> HIDE DEF st
  <2>2. n.finGen = rt[s].finGen /\ n.died = rt[s].died
    BY <1>1 DEF Runtime
  <2> HIDE DEF n
  <2> QED
    BY <1>1, <2>1, <2>2, SameSettled
<1> QED
  BY <1>2, <1>3, <1>4, <1>5 DEF Start

LEMMA PoolSettled ==
    ASSUME OInv, Sweep \/ ShutdownReturns \/ UNCHANGED vars
    PROVE  Settled
<1>1. \A x \in Session : rt[x] \in Runtime
  BY RecordFacts
<1>2. CASE Sweep
  <2>1. PICK E : rt' = [s \in Session |->
                    IF s \in E THEN Begin(rt[s], rt[s].gen, "stopped") ELSE rt[s]]
    BY <1>2 DEF Sweep
  <2>2. \A x \in Session : rt'[x] = Begin(rt[x], rt[x].gen, "stopped") \/ rt'[x] = rt[x]
    BY <2>1
  <2>3. \A x \in Session :
           Keeps(rt[x], Begin(rt[x], rt[x].gen, "stopped")) /\ Keeps(rt[x], rt[x])
    BY <1>1, BeginKept DEF Keeps
  <2>4. UNCHANGED <<queue, mode>>
    BY <1>2 DEF Sweep
  <2> QED
    BY <2>2, <2>3, <2>4 DEF Settled
<1>3. CASE ShutdownReturns
  <2>1. ASSUME NEW x \in Session PROVE Keeps(rt[x], rt'[x])
    <3> DEFINE n == [rt[x] EXCEPT !.token = 0]
    <3>1. rt'[x] = n /\ n.finGen = rt[x].finGen /\ n.died = rt[x].died
      BY <1>1, <1>3 DEF ShutdownReturns, Runtime
    <3> HIDE DEF n
    <3> QED
      BY <3>1 DEF Keeps
  <2> QED
    BY <1>3, <2>1 DEF ShutdownReturns, Settled
<1>4. CASE UNCHANGED vars
  BY <1>4 DEF vars, Settled, Keeps
<1> QED
  BY <1>2, <1>3, <1>4

LEMMA BeginAlike ==
    ASSUME NEW r \in Runtime, Takes(r), NEW g, NEW final
    PROVE  /\ Alike(r, Begin(r, g, final)) /\ Begin(r, g, final).src = r.src
           /\ r.finGen # 0 => Begin(r, g, final).finGen # 0
<1>1. CASE ~Claimable(r, g)
  BY <1>1 DEF Begin, Alike
<1>2. CASE Claimable(r, g)
  <2> DEFINE n == [r EXCEPT !.finGen = g, !.status = "stopping", !.fin = "waiting",
                            !.final = final, !.waiter = FALSE]
  <2>1. n.died = r.died /\ n.gen = r.gen /\ n.src = r.src /\ n.status = "stopping"
    BY DEF Runtime
  <2>2. Begin(r, g, final) = n /\ r.finGen = 0
    BY <1>2 DEF Begin, Claimable
  <2> HIDE DEF n
  <2> QED
    BY <2>1, <2>2 DEF Alike, Takes, Resting
<1> QED
  BY <1>1, <1>2

LEMMA OneUnmoved ==
    ASSUME OInv, OInv', NEW s \in Session, NEW n, rt' = [rt EXCEPT ![s] = n],
           UNCHANGED <<queue, mode>>, Alike(rt[s], n),
           n.src = rt[s].src \/ (n.src = None /\ ~Heir(rt, s)),
           rt[s].finGen # 0 => n.finGen # 0
    PROVE  Pool!Next
<1>1. rt \in [Session -> Runtime]
  BY RecordFacts
<1>2. rt'[s] = n /\ \A x \in Session \ {s} : rt'[x] = rt[x]
  BY <1>1
<1> QED
  BY <1>2, UnmovedStep DEF Alike, SourceAlike

(* A start goes on: a target forgets its source once that has let go.      *)
LEMMA StartUnmoved ==
    ASSUME OInv, OInv', NEW t \in starts, StartChecks(t) \/ StartLaunches(t)
    PROVE  [Pool!Next]_(Pool!vars)
<1> DEFINE s == t.sess
<1>1. s \in Session /\ rt \in [Session -> Runtime] /\ rt[s] \in Runtime
      /\ UNCHANGED <<queue, mode>>
  BY TaskFacts, RecordFacts DEF StartChecks, StartLaunches
<1>2. CASE StartChecks(t) /\ UNCHANGED rt
  <2>1. \A x \in Session : /\ Alike(rt[x], rt'[x]) /\ SourceAlike(rt, rt', x)
                           /\ rt[x].finGen # 0 => rt'[x].finGen # 0
    BY <1>2 DEF Alike, SourceAlike
  <2>2. Pool!Next
    BY <1>1, <2>1, UnmovedStep
  <2> QED
    BY <2>2
<1>3. CASE StartIsCurrent(t) /\ rt' = [rt EXCEPT ![s] = Begin(@, t.gen, "error")]
  <2>1. Takes(rt[s])
    BY <1>3 DEF StartIsCurrent, Takes, Resting
  <2> DEFINE n == Begin(rt[s], t.gen, "error")
  <2>2. /\ Alike(rt[s], n) /\ n.src = rt[s].src
        /\ rt[s].finGen # 0 => n.finGen # 0
    BY <1>1, <2>1, BeginAlike
  <2>3. rt' = [rt EXCEPT ![s] = n]
    BY <1>1, <1>3
  <2> HIDE DEF n
  <2>4. Pool!Next
    BY <1>1, <2>2, <2>3, OneUnmoved
  <2> QED
    BY <2>4
<1>4. CASE ~SourceOccupied(rt, rt[s]) /\ rt' = [rt EXCEPT ![s].src = None]
  <2> DEFINE n == [rt[s] EXCEPT !.src = None]
  <2>1. rt' = [rt EXCEPT ![s] = n] /\ n.src = None /\ n.finGen = rt[s].finGen
        /\ n.status = rt[s].status /\ n.cleanup = rt[s].cleanup
        /\ n.gen = rt[s].gen /\ n.died = rt[s].died
    BY <1>1, <1>4 DEF Runtime
  <2>2. ~Heir(rt, s)
    BY <1>1, <1>4, KnownBefore, HeirReserves DEF Reserving
  <2> HIDE DEF n
  <2>3. Alike(rt[s], n)
    BY <2>1 DEF Alike, Takes, Resting
  <2>4. Pool!Next
    BY <1>1, <2>1, <2>2, <2>3, OneUnmoved
  <2> QED
    BY <2>4
<1>5. CASE StartLaunches(t)
  <2>1. Held(rt[s])
    BY <1>5, TaskFacts DEF StartLaunches
  <2> DEFINE r == [rt[s] EXCEPT !.proc = "live", !.ref = TRUE]
             b == Begin(r, t.gen, "stopped")
  <2>2. /\ r \in Runtime /\ r.src = rt[s].src /\ r.finGen = rt[s].finGen
        /\ r.status = rt[s].status /\ r.cleanup = rt[s].cleanup
        /\ r.gen = rt[s].gen /\ r.died = rt[s].died
    BY <1>1 DEF Runtime
  <2>3. \E n \in {r, b} : rt' = [rt EXCEPT ![s] = n]
    BY <1>5 DEF StartLaunches
  <2> HIDE DEF r
  <2>4. Alike(rt[s], r) /\ Takes(r)
    BY <2>1, <2>2 DEF Alike, Takes, Resting, Held
  <2>5. /\ Alike(r, b) /\ b.src = r.src
        /\ r.finGen # 0 => b.finGen # 0
    BY <2>2, <2>4, BeginAlike
  <2> HIDE DEF b
  <2>6. Alike(rt[s], b)
    BY <2>4, <2>5 DEF Alike
  <2>7. Pool!Next
    BY <1>1, <2>2, <2>3, <2>4, <2>5, <2>6, OneUnmoved
  <2> QED
    BY <2>7
<1> QED
  BY <1>2, <1>3, <1>4, <1>5 DEF StartChecks

(* A step that settles, and is no admission, passes every Session on.      *)
LEMMA SettledStep ==
    ASSUME OInv, OInv', [Next]_vars, Passing, Settled,
           ~SweepEnds, \A s \in Session : ~FinalizerConverges(s)
    PROVE  Pool!Next
<1>1. ASSUME NEW x \in Session, Takes(rt[x])
      PROVE  Takes(rt'[x])
  <2>1. ~SendQueues(x)
    BY <1>1 DEF SendQueues, Restartable, Takes, Resting
  <2>2. Remains(rt[x], rt'[x])
    BY <2>1, StepRemains
  <2> QED
    BY <1>1, <2>2 DEF Remains
<1> QED
  BY <1>1, PassingStep DEF Settled

(* A process ends on its own: its Session loses its place, unless it is on *)
(* its way out already.                                                    *)
LEMMA ExitStep ==
    ASSUME OInv, OInv', NEW s \in Session, ProcessExit(s)
    PROVE  Pool!Next
<1> DEFINE d == rt[s].died \/ ~(Finalizing(rt[s]) \/ rt[s].cleanup)
           n == [rt[s] EXCEPT !.proc = "exited", !.died = d]
<1>1. /\ rt \in [Session -> Runtime] /\ rt[s] \in Runtime
      /\ Sound(rt[s], mode) /\ Known(rt, mode) /\ Known(rt', mode')
  BY RecordFacts, KnownBefore, KnownAfter DEF Sound
<1>2. rt' = [rt EXCEPT ![s] = n] /\ UNCHANGED <<queue, mode>> /\ rt[s].proc = "live"
  BY <1>1 DEF ProcessExit, Live
<1> HIDE DEF d
<1>3. /\ n.src = rt[s].src /\ n.finGen = rt[s].finGen
      /\ n.status = rt[s].status /\ n.cleanup = rt[s].cleanup
      /\ n.gen = rt[s].gen /\ n.died = d
  BY <1>1 DEF Runtime
<1> HIDE DEF n
<1>4. Takes(n) <=> Takes(rt[s])
  BY <1>3 DEF Takes, Resting
<1>5. ~rt[s].died /\ rt[s].src = None /\ Takes(rt[s])
  BY <1>1, <1>2 DEF Sound, Good, Takes, Unlaunched
<1>6. CASE ~d
  <2>1. Alike(rt[s], n)
    BY <1>3, <1>4, <1>5, <1>6 DEF Alike
  <2> QED
    BY <1>2, <1>3, <2>1, OneUnmoved
<1>7. CASE d
  <2>1. rt[s].status # "stopping" /\ rt[s].finGen = 0 /\ ~rt[s].cleanup
    BY <1>5, <1>7 DEF d, Finalizing
  <2>2. ~Over(rt[s])
    BY <1>5, <2>1 DEF Over, Takes
  <2>3. \A x \in Session : Heir(rt, x) => rt[x].src[1] # s
    BY <1>1, <2>2, HeirFacts
  <2>4. rt'[s] = n /\ \A x \in Session \ {s} : rt'[x] = rt[x]
    BY <1>1, <1>2
  <2>5. \A x \in Session : Heir(rt', x) <=> Heir(rt, x)
    <3> SUFFICES ASSUME NEW x \in Session PROVE Heir(rt', x) <=> Heir(rt, x)
      OBVIOUS
    <3>1. rt'[x].src = rt[x].src
      BY <1>3, <2>4
    <3>2. \A v \in Session : rt'[v].gen = rt[v].gen /\ (Takes(rt'[v]) <=> Takes(rt[v]))
      BY <1>3, <1>4, <2>4
    <3>3. rt[x].src # None => rt[x].src[1] \in Session
      BY <1>1 DEF Known
    <3> QED
      BY <3>1, <3>2, <3>3 DEF Heir
  <2>6. ~Heir(rt, s)
    BY <1>5 DEF Heir
  <2>7. s \in HoldersOf(rt) /\ HoldersOf(rt') = HoldersOf(rt) \ {s}
    BY <1>3, <1>4, <1>5, <1>7, <2>4, <2>5, <2>6 DEF HoldersOf
  <2>8. PromisesOf(rt') = PromisesOf(rt)
    <3>1. \A x \in Session : rt'[x].src = rt[x].src
      BY <1>3, <2>4
    <3>2. {x \in Session : Heir(rt', x)} = {x \in Session : Heir(rt, x)}
      BY <2>5
    <3> QED
      BY <3>1, <3>2 DEF PromisesOf
  <2>9. s \notin LeaversOf(rt) /\ LeaversOf(rt') = LeaversOf(rt)
    BY <1>3, <2>1, <2>4 DEF LeaversOf
  <2>10. \A p \in PromisesOf(rt) : p[1] # s
    BY <2>3 DEF PromisesOf
  <2>11. Pool!Fail(s)
    BY <1>2, <2>7, <2>8, <2>9, <2>10, PlacesBefore, PlacesAfter
       DEF Pool!Fail, Pool!Promised
  <2> QED
    BY <2>11 DEF Pool!Next
<1> QED
  BY <1>6, <1>7

-----------------------------------------------------------------------------
(* The queue, and the end of the pool.                                     *)

(* Who is at rest has neither a place nor a promise.                       *)
LEMMA RestOutside ==
    ASSUME NEW f, NEW m, Known(f, m), NEW s \in Session, ~Takes(f[s])
    PROVE  /\ ~Heir(f, s) /\ s \notin HoldersOf(f)
           /\ s \notin {p[2] : p \in PromisesOf(f)}
           /\ f[s].finGen = 0 /\ f[s].src = None
<1>1. ~Heir(f, s)
  BY HeirFacts
<1>2. \A p \in PromisesOf(f) : p[2] # s
  BY <1>1 DEF PromisesOf
<1>3. f[s].finGen = 0 /\ f[s].src = None
  BY DEF Known, Sound, Owned, Good, Takes, Resting
<1> QED
  BY <1>1, <1>2, <1>3 DEF HoldersOf

(* A Session changes at rest.                                              *)
LEMMA RestAlike ==
    ASSUME OInv, OInv', NEW s \in Session, NEW n, rt' = [rt EXCEPT ![s] = n],
           ~Takes(rt[s]), Alike(rt[s], n), n.src = rt[s].src, n.finGen = rt[s].finGen
    PROVE  Holders' = Holders /\ Promises' = Promises /\ Leavers' = Leavers
<1>1. rt \in [Session -> Runtime] /\ Known(rt, mode)
  BY RecordFacts, KnownBefore
<1>2. rt'[s] = n /\ \A x \in Session \ {s} : rt'[x] = rt[x]
  BY <1>1
<1>3. \A x \in Session : Alike(rt[x], rt'[x]) /\ SourceAlike(rt, rt', x)
  BY <1>2 DEF Alike, SourceAlike
<1>4. HoldersOf(rt') = HoldersOf(rt) /\ PromisesOf(rt') = PromisesOf(rt)
  BY <1>1, <1>3, SamePlaces
<1>5. LeaversOf(rt') = LeaversOf(rt)
  BY <1>2 DEF LeaversOf, Alike
<1> QED
  BY <1>4, <1>5, PlacesBefore, PlacesAfter

LEMMA QueuedWaits ==
    ASSUME OInv, NEW s \in Session
    PROVE  s \in {queue[i] : i \in DOMAIN queue} <=> rt[s].status = "queued"
BY DEF OInv, QueueGood

LEMMA WaitStep ==
    ASSUME OInv, OInv', NEW s \in Session, SendQueues(s)
    PROVE  Pool!Next
<1> DEFINE n == [rt[s] EXCEPT !.status = "queued", !.turn = TRUE]
           W == {queue[i] : i \in DOMAIN queue}
<1>1. rt \in [Session -> Runtime] /\ rt[s] \in Runtime /\ Known(rt, mode)
      /\ queue \in Seq(Session)
  BY RecordFacts, KnownBefore, QueueFacts
<1>2. /\ mode = "open" /\ mode' = mode /\ rt' = [rt EXCEPT ![s] = n]
      /\ queue' = Append(queue, s)
      /\ rt[s].status \in {"stopped", "error"} /\ ~rt[s].cleanup
  BY <1>1 DEF SendQueues, Restartable, Sendable
<1>3. /\ n.src = rt[s].src /\ n.finGen = rt[s].finGen /\ n.status = "queued"
      /\ n.cleanup = rt[s].cleanup /\ n.gen = rt[s].gen /\ n.died = rt[s].died
  BY <1>1 DEF Runtime
<1> HIDE DEF n
<1>4. ~Takes(rt[s]) /\ Alike(rt[s], n)
  BY <1>2, <1>3 DEF Alike, Takes, Resting
<1>5. Holders' = Holders /\ Promises' = Promises /\ Leavers' = Leavers
  BY <1>1, <1>2, <1>3, <1>4, RestAlike
<1>6. W' = W \cup {s}
  BY <1>1, <1>2
<1>7. s \notin Holders /\ s \notin {p[2] : p \in Promises} /\ s \notin W
  BY <1>1, <1>2, <1>4, RestOutside, PlacesBefore, QueuedWaits
<1>8. Pool!Wait(s)
  BY <1>2, <1>5, <1>6, <1>7 DEF Pool!Wait, Pool!Outside, Pool!Heirs
<1> QED
  BY <1>8 DEF Pool!Next

(* The Sessions whose items leave the queue wait no more.                  *)
LEMMA WithoutWaits ==
    ASSUME OInv, NEW I \in SUBSET (DOMAIN queue), queue' = Without(queue, I)
    PROVE  {queue[i] : i \in DOMAIN queue}'
              = {queue[i] : i \in DOMAIN queue} \ ItemsAt(queue, I)
<1>1. queue \in Seq(Session) /\ \A i, j \in DOMAIN queue : queue[i] = queue[j] => i = j
  BY QueueFacts
<1>2. /\ \A i, j \in DOMAIN queue' : queue'[i] = queue'[j] => i = j
      /\ \A s : (\E i \in DOMAIN queue' : queue'[i] = s)
                  <=> \E i \in DOMAIN queue \ I : queue[i] = s
  BY <1>1, WithoutItems
<1>3. \A s : (\E i \in DOMAIN queue \ I : queue[i] = s)
               <=> (\E i \in DOMAIN queue : queue[i] = s) /\ ~\E i \in I : queue[i] = s
  BY <1>1
<1> QED
  BY <1>2, <1>3 DEF ItemsAt

LEMMA WithdrawStep ==
    ASSUME OInv, OInv', NEW s \in Session, StopSession(s), rt[s].status = "queued"
    PROVE  Pool!Next
<1> DEFINE n == [rt[s] EXCEPT !.status = "stopped", !.turn = FALSE]
           W == {queue[i] : i \in DOMAIN queue}
           I == {i \in DOMAIN queue : queue[i] = s}
<1>1. rt \in [Session -> Runtime] /\ rt[s] \in Runtime /\ Known(rt, mode)
      /\ queue \in Seq(Session) /\ \A i, j \in DOMAIN queue : queue[i] = queue[j] => i = j
  BY RecordFacts, KnownBefore, QueueFacts
<1>2. mode' = mode /\ rt' = [rt EXCEPT ![s] = n] /\ queue' = Without(queue, I)
  BY <1>1 DEF StopSession
<1>3. /\ n.src = rt[s].src /\ n.finGen = rt[s].finGen /\ n.status = "stopped"
      /\ n.cleanup = rt[s].cleanup /\ n.gen = rt[s].gen /\ n.died = rt[s].died
  BY <1>1 DEF Runtime
<1> HIDE DEF n
<1>4. ~Takes(rt[s]) /\ Alike(rt[s], n)
  BY <1>1, <1>3 DEF Alike, Takes, Resting, Known, Sound, Good
<1>5. Holders' = Holders /\ Promises' = Promises /\ Leavers' = Leavers
  BY <1>1, <1>2, <1>3, <1>4, RestAlike
<1>6. W' = W \ {s}
  <2>1. I \in SUBSET (DOMAIN queue)
    OBVIOUS
  <2>2. W' = W \ ItemsAt(queue, I)
    BY <1>2, <2>1, WithoutWaits
  <2>3. \A x \in ItemsAt(queue, I) : x = s
    BY DEF ItemsAt
  <2>4. s \in W => s \in ItemsAt(queue, I)
    BY DEF ItemsAt
  <2> QED
    BY <2>2, <2>3, <2>4
<1>7. s \in W
  BY QueuedWaits
<1>8. Pool!Withdraw(s)
  BY <1>2, <1>5, <1>6, <1>7 DEF Pool!Withdraw
<1> QED
  BY <1>8 DEF Pool!Next

(* Shutdown claims all that holds a place or waits for its source.         *)
LEMMA AllClaimed ==
    ASSUME NEW r, NEW m, Sound(r, m), Takes(r), ~r.died
    PROVE  /\ Stoppable(r)
           /\ Begin(r, r.gen, "stopped").finGen # 0
<1>1. Stoppable(r)
  <2>1. OccupiesSlot(r)
    BY TakesHolds
  <2> QED
    BY <2>1 DEF OccupiesSlot, Stoppable, Finalizing, Sound, Owned
<1>2. r \in Runtime /\ Owned(r) /\ r.gen # 0
  BY <1>1, StoppableStarted DEF Sound
<1>3. CASE r.finGen # 0
  BY <1>1, <1>3 DEF Begin, Claimable
<1>4. CASE r.finGen = 0
  <2>1. Claimable(r, r.gen)
    BY <1>4, <1>2 DEF Claimable, Takes, Resting, Sound, Good
  <2> DEFINE n == [r EXCEPT !.finGen = r.gen, !.status = "stopping", !.fin = "waiting",
                            !.final = "stopped", !.waiter = FALSE]
  <2>2. n.finGen = r.gen
    BY <1>2 DEF Runtime
  <2> QED
    BY <1>1, <1>2, <2>1, <2>2 DEF Begin
<1> QED
  BY <1>1, <1>3, <1>4

LEMMA ClosingSession ==
    ASSUME OInv, Shutdown, NEW x \in Session
    PROVE  /\ Alike(rt[x], rt'[x]) /\ rt'[x].src = rt[x].src
           /\ Takes(rt[x]) /\ ~rt[x].died => rt'[x].finGen # 0
<1>1. rt[x] \in Runtime /\ Sound(rt[x], mode)
  BY RecordFacts DEF Sound
<1>2. CASE Takes(rt[x])
  <2>1. rt[x].status # "queued"
    BY <1>1, <1>2 DEF Sound, Good, Takes, Resting
  <2>2. rt'[x] = IF Stoppable(rt[x]) THEN Begin(rt[x], rt[x].gen, "stopped") ELSE rt[x]
    BY <2>1 DEF Shutdown
  <2>3. ~rt[x].died => Stoppable(rt[x]) /\ Begin(rt[x], rt[x].gen, "stopped").finGen # 0
    BY <1>1, <1>2, AllClaimed
  <2>4. /\ Alike(rt[x], Begin(rt[x], rt[x].gen, "stopped"))
        /\ Begin(rt[x], rt[x].gen, "stopped").src = rt[x].src
    BY <1>1, <1>2, BeginAlike
  <2> QED
    BY <1>2, <2>2, <2>3, <2>4 DEF Alike
<1>3. CASE ~Takes(rt[x])
  <2> DEFINE n == [rt[x] EXCEPT !.status = "stopped"]
  <2>1. ~Stoppable(rt[x])
    BY <1>1, <1>3
       DEF Sound, Good, Owned, Takes, Resting, Stoppable, Live, Unlaunched
  <2>2. rt'[x] = rt[x] \/ rt'[x] = n
    BY <2>1 DEF Shutdown
  <2>3. /\ n.src = rt[x].src /\ n.status = "stopped"
        /\ n.cleanup = rt[x].cleanup /\ n.gen = rt[x].gen /\ n.died = rt[x].died
    BY <1>1 DEF Runtime
  <2> HIDE DEF n
  <2> QED
    BY <1>3, <2>2, <2>3 DEF Alike, Takes, Resting
<1> QED
  BY <1>2, <1>3

LEMMA CloseStep ==
    ASSUME OInv, OInv', Shutdown
    PROVE  Pool!Next
<1> DEFINE W == {queue[i] : i \in DOMAIN queue}
           Q == {p[2] : p \in PromisesOf(rt)}
<1>1. Known(rt, mode) /\ Known(rt', mode')
  BY KnownBefore, KnownAfter
<1>2. \A x \in Session : Alike(rt[x], rt'[x]) /\ SourceAlike(rt, rt', x)
  BY ClosingSession DEF SourceAlike
<1>3. HoldersOf(rt') = HoldersOf(rt) /\ PromisesOf(rt') = PromisesOf(rt)
  BY <1>1, <1>2, SamePlaces
<1>4. LeaversOf(rt') \subseteq HoldersOf(rt) \cup Q
  BY <1>1, <1>3, LeaversPlaced
<1>5. HoldersOf(rt) \cup Q \subseteq LeaversOf(rt')
  <2>1. \A x \in Session : Heir(rt, x) => Takes(rt[x]) /\ ~rt[x].died
    BY <1>1, HeirFacts
  <2>2. \A x \in HoldersOf(rt) \cup Q : x \in Session /\ Takes(rt[x]) /\ ~rt[x].died
    BY <2>1 DEF HoldersOf, PromisesOf
  <2> QED
    BY <1>2, <2>2, ClosingSession DEF LeaversOf, Alike
<1>6. Leavers' = Holders \cup {p[2] : p \in Promises}
  BY <1>4, <1>5, PlacesBefore, PlacesAfter
<1>7. Holders' = Holders /\ Promises' = Promises
  BY <1>3, PlacesBefore, PlacesAfter
<1>8. mode = "open" /\ mode' # "open" /\ W' = {}
  BY DEF Shutdown
<1>9. Pool!Close
  BY <1>6, <1>7, <1>8 DEF Pool!Close, Pool!Heirs
<1> QED
  BY <1>9 DEF Pool!Next

-----------------------------------------------------------------------------
(* The steps that begin generations.                                       *)

(* The Sessions of A begin generations in free places.                     *)
Joins(f, g, A) ==
    /\ \A x \in A : /\ ~Takes(f[x]) /\ Takes(g[x]) /\ g[x].gen = f[x].gen + 1
                    /\ g[x].src = None /\ ~g[x].died /\ g[x].finGen = 0
    /\ \A x \in Session \ A : g[x] = f[x]

LEMMA JoinPlaces ==
    ASSUME NEW f, NEW g, NEW m, Known(f, m), NEW A \in SUBSET Session, Joins(f, g, A)
    PROVE  /\ HoldersOf(g) = HoldersOf(f) \cup A
           /\ PromisesOf(g) = PromisesOf(f) /\ LeaversOf(g) = LeaversOf(f)
<1>1. \A x \in A : /\ ~Heir(f, x) /\ f[x].finGen = 0
                   /\ ~Takes(f[x]) /\ Takes(g[x]) /\ g[x].gen = f[x].gen + 1
                   /\ g[x].src = None /\ ~g[x].died /\ g[x].finGen = 0
  BY RestOutside DEF Joins
<1>2. \A x \in Session \ A : g[x] = f[x]
  BY DEF Joins
<1>3. ASSUME NEW x \in Session PROVE Heir(g, x) <=> Heir(f, x)
  <2>1. CASE x \in A
    BY <1>1, <2>1 DEF Heir
  <2>2. CASE x \notin A /\ f[x].src = None
    BY <1>2, <2>2 DEF Heir
  <2>3. CASE x \notin A /\ f[x].src # None
    <3> DEFINE v == f[x].src[1]
    <3>1. v \in Session /\ f[x].src[2] <= f[v].gen /\ Sound(f[x], m) /\ Sound(f[v], m)
      BY <2>3 DEF Known, SourceOver
    <3>2. f[v].gen \in Nat /\ f[x].src[2] \in Nat
      BY <2>3, <3>1 DEF Sound, Runtime, Source, Generation
    <3>3. v \in A => g[v].gen # f[x].src[2] /\ ~Takes(f[v])
      BY <1>1, <3>1, <3>2
    <3> QED
      BY <1>2, <2>3, <3>1, <3>3 DEF Heir
  <2> QED
    BY <2>1, <2>2, <2>3
<1>4. HoldersOf(g) = HoldersOf(f) \cup A
  BY <1>1, <1>2, <1>3 DEF HoldersOf
<1>5. {x \in Session : Heir(g, x)} = {x \in Session : Heir(f, x)}
  BY <1>3
<1>6. \A x \in {z \in Session : Heir(f, z)} : g[x].src = f[x].src
  BY <1>1, <1>2
<1>7. PromisesOf(g) = PromisesOf(f)
  BY <1>5, <1>6 DEF PromisesOf
<1>8. LeaversOf(g) = LeaversOf(f)
  BY <1>1, <1>2 DEF LeaversOf
<1> QED
  BY <1>4, <1>7, <1>8

LEMMA PreparedJoins ==
    ASSUME NEW r, NEW m, Sound(r, m), ~Takes(r), NEW src, NEW turn
    PROVE  LET n == Prepared(r, src, turn) IN
           /\ Takes(n) /\ n.gen = r.gen + 1 /\ n.src = src
           /\ ~n.died /\ n.finGen = 0
<1> DEFINE n == Prepared(r, src, turn)
<1>1. /\ n.status = "starting" /\ n.gen = r.gen + 1 /\ n.src = src
      /\ n.died = FALSE /\ n.finGen = r.finGen
  BY DEF Prepared, Sound, Runtime
<1>2. r.finGen = 0
  BY DEF Sound, Owned, Takes, Resting
<1> HIDE DEF n
<1>3. Takes(n)
  BY <1>1 DEF Takes, Resting
<1> QED
  BY <1>1, <1>2, <1>3 DEF n

LEMMA PlacesFitAfter ==
    ASSUME LInv'
    PROVE  Pool!Fits(Holders', Promises')
<1>1. OInv' /\ Counted(rt')
  BY DEF LInv, Counted
<1>2. Known(rt', mode')
  BY <1>1, KnownAfter
<1>3. Pool!Fits(HoldersOf(rt'), PromisesOf(rt'))
  BY <1>1, <1>2, PlacesCounted
<1> QED
  BY <1>1, <1>3, PlacesAfter

LEMMA TakeStep ==
    ASSUME LInv, LInv', mode = "open", NEW s \in Session, NEW turn,
           rt[s].status \in {"stopped", "error"}, AdmitFree(s, turn),
           UNCHANGED <<queue, mode>>
    PROVE  Pool!Next
<1> DEFINE n == Prepared(rt[s], None, turn)
           A == {s}
<1>1. OInv /\ OInv' /\ rt \in [Session -> Runtime] /\ Known(rt, mode) /\ Sound(rt[s], mode)
  BY RecordFacts, KnownBefore DEF LInv, Known
<1>2. ~Takes(rt[s])
  BY DEF AdmitFree, CanPrepare, Takes, Resting
<1>3. rt'[s] = n /\ \A x \in Session \ {s} : rt'[x] = rt[x]
  BY <1>1 DEF AdmitFree
<1>4. Takes(n) /\ n.gen = rt[s].gen + 1 /\ n.src = None /\ ~n.died /\ n.finGen = 0
  BY <1>1, <1>2, PreparedJoins
<1> HIDE DEF n
<1>5. Joins(rt, rt', A) /\ A \in SUBSET Session
  BY <1>2, <1>3, <1>4 DEF Joins
<1>6. /\ HoldersOf(rt') = HoldersOf(rt) \cup A
      /\ PromisesOf(rt') = PromisesOf(rt) /\ LeaversOf(rt') = LeaversOf(rt)
  <2> HIDE DEF A
  <2> QED
    BY <1>1, <1>5, JoinPlaces
<1>7. /\ Holders' = Holders \cup {s} /\ Promises' = Promises /\ Leavers' = Leavers
  BY <1>1, <1>6, PlacesBefore, PlacesAfter
<1>8. Pool!Fits(Holders', Promises')
  BY PlacesFitAfter
<1>9. s \notin Holders /\ s \notin {p[2] : p \in Promises}
      /\ s \notin {queue[i] : i \in DOMAIN queue}
  BY <1>1, <1>2, RestOutside, PlacesBefore, QueuedWaits
<1>10. Pool!Take(s)
  BY <1>7, <1>8, <1>9 DEF Pool!Take, Pool!Outside, Pool!Heirs
<1> QED
  BY <1>10 DEF Pool!Next

(* v is claimed, and s begins a generation that follows it.                *)
Follower(f, g, v, s) ==
    /\ v # s
    /\ ~Takes(f[s]) /\ Takes(g[s]) /\ g[s].gen = f[s].gen + 1
    /\ g[s].src = <<v, f[v].gen>> /\ g[s].src # None /\ ~g[s].died /\ g[s].finGen = 0
    /\ Takes(f[v]) /\ Alike(f[v], g[v]) /\ f[v].src = None /\ g[v].src = None
    /\ ~f[v].died /\ f[v].finGen = 0 /\ g[v].finGen # 0
    /\ \A x \in Session : f[x].src # <<v, f[v].gen>>
    /\ \A x \in Session \ {s, v} : g[x] = f[x]

LEMMA FollowerPlaces ==
    ASSUME NEW f, NEW g, NEW m, Known(f, m), NEW v \in Session, NEW s \in Session,
           Follower(f, g, v, s)
    PROVE  /\ HoldersOf(g) = HoldersOf(f)
           /\ PromisesOf(g) = PromisesOf(f) \cup {<<v, s>>}
           /\ LeaversOf(g) = LeaversOf(f) \cup {v}
           /\ v \in HoldersOf(f) \ LeaversOf(f)
           /\ \A p \in PromisesOf(f) : p[1] # v
<1>1. /\ v # s
      /\ ~Takes(f[s]) /\ Takes(g[s]) /\ g[s].gen = f[s].gen + 1
      /\ g[s].src = <<v, f[v].gen>> /\ g[s].src # None /\ ~g[s].died /\ g[s].finGen = 0
      /\ Takes(f[v]) /\ f[v].src = None /\ g[v].src = None
      /\ ~f[v].died /\ f[v].finGen = 0 /\ g[v].finGen # 0
      /\ g[v].gen = f[v].gen /\ ~g[v].died /\ Takes(g[v])
  BY DEF Follower, Alike
<1>2. \A x \in Session \ {s, v} : g[x] = f[x]
  BY DEF Follower
<1>3. \A x \in Session : Heir(f, x) => f[x].src[1] # v
  BY HeirFacts DEF Follower
<1>4. Heir(g, s) /\ ~Heir(f, s) /\ ~Heir(f, v) /\ ~Heir(g, v)
  BY <1>1, HeirFacts DEF Heir
<1>5. ASSUME NEW x \in Session, x # s PROVE Heir(g, x) <=> Heir(f, x)
  <2>1. CASE x = v
    BY <1>4, <2>1
  <2>2. CASE x # v /\ f[x].src = None
    BY <1>2, <1>5, <2>2 DEF Heir
  <2>3. CASE x # v /\ f[x].src # None
    <3> DEFINE w == f[x].src[1]
    <3>1. w \in Session /\ f[x].src[2] <= f[w].gen /\ Sound(f[x], m) /\ Sound(f[w], m)
      BY <2>3 DEF Known, SourceOver
    <3>2. f[w].gen \in Nat /\ f[x].src[2] \in Nat
      BY <2>3, <3>1 DEF Sound, Runtime, Source, Generation
    <3>3. w = s => g[w].gen # f[x].src[2] /\ ~Takes(f[w])
      BY <1>1, <3>1, <3>2
    <3>4. g[x] = f[x]
      BY <1>2, <1>5, <2>3
    <3>5. CASE w = s
      BY <3>3, <3>4, <3>5 DEF Heir
    <3>6. CASE w # s
      <4>1. g[w].gen = f[w].gen /\ (Takes(g[w]) <=> Takes(f[w]))
        BY <1>1, <1>2, <3>1, <3>6
      <4> QED
        BY <3>4, <4>1 DEF Heir
    <3> QED
      BY <3>5, <3>6
  <2> QED
    BY <2>1, <2>2, <2>3
<1>6. HoldersOf(g) = HoldersOf(f)
  BY <1>1, <1>2, <1>4, <1>5 DEF HoldersOf
<1>7. PromisesOf(g) = PromisesOf(f) \cup {<<v, s>>}
  <2>1. {x \in Session : Heir(g, x)} = {x \in Session : Heir(f, x)} \cup {s}
    BY <1>4, <1>5
  <2>2. \A x \in {z \in Session : Heir(f, z)} : g[x].src = f[x].src
    BY <1>1, <1>2, <1>4
  <2>3. g[s].src[1] = v
    BY <1>1
  <2> DEFINE S == {x \in Session : Heir(f, x)}
  <2>4. PromisesOf(g) = {<<g[x].src[1], x>> : x \in S \cup {s}}
    BY <2>1 DEF PromisesOf
  <2>5. PromisesOf(f) = {<<f[x].src[1], x>> : x \in S}
    BY DEF PromisesOf
  <2> HIDE DEF S
  <2> QED
    BY <2>2, <2>3, <2>4, <2>5 DEF S
<1>8. LeaversOf(g) = LeaversOf(f) \cup {v}
  <2>1. f[s].finGen = 0
    BY <1>1, RestOutside
  <2> QED
    BY <1>1, <1>2, <2>1 DEF LeaversOf
<1>9. v \in HoldersOf(f) \ LeaversOf(f)
  BY <1>1, <1>4 DEF HoldersOf, LeaversOf
<1>10. \A p \in PromisesOf(f) : p[1] # v
  BY <1>3 DEF PromisesOf
<1> QED
  BY <1>6, <1>7, <1>8, <1>9, <1>10

LEMMA ClaimedIdle ==
    ASSUME OInv, NEW v \in Session, GenuinelyIdle(rt[v])
    PROVE  LET b == Begin(rt[v], rt[v].gen, "stopped") IN
           /\ Takes(rt[v]) /\ Alike(rt[v], b) /\ rt[v].src = None /\ b.src = None
           /\ ~rt[v].died /\ rt[v].finGen = 0 /\ b.finGen # 0
           /\ \A x \in Session : rt[x].src # <<v, rt[v].gen>>
<1> DEFINE b == Begin(rt[v], rt[v].gen, "stopped")
<1>1. /\ rt[v] \in Runtime /\ Sound(rt[v], mode) /\ rt[v].status = "idle" /\ Live(rt[v])
  BY RecordFacts DEF Sound, GenuinelyIdle
<1>2. Takes(rt[v]) /\ rt[v].finGen = 0
  BY <1>1 DEF Takes, Resting, Sound, Owned
<1>3. /\ rt[v].src = None /\ ~rt[v].died
      /\ \A x \in Session : rt[x].src # <<v, rt[v].gen>>
  BY IdleUnpromised
<1>4. Alike(rt[v], b) /\ b.src = rt[v].src
  BY <1>1, <1>2, BeginAlike
<1>5. b.finGen # 0
  BY <1>1, <1>2, <1>3, AllClaimed
<1> QED
  BY <1>2, <1>3, <1>4, <1>5

(* A slot changes hands; s may have been waiting in the queue.             *)
LEMMA PromiseStep ==
    ASSUME LInv, LInv', mode = "open", mode' = mode,
           NEW s \in Session, NEW v \in Session, NEW turn,
           Resting(rt[s]), ~rt[s].cleanup, GenuinelyIdle(rt[v]), HandsOver(v, s, turn),
           {queue[i] : i \in DOMAIN queue}' = {queue[i] : i \in DOMAIN queue} \ {s}
    PROVE  Pool!Next
<1> DEFINE src == <<v, rt[v].gen>>
           n == Prepared(rt[s], src, turn)
           b == Begin(rt[v], rt[v].gen, "stopped")
           W == {queue[i] : i \in DOMAIN queue}
<1>1. OInv /\ OInv' /\ rt \in [Session -> Runtime] /\ Known(rt, mode) /\ Sound(rt[s], mode)
  BY RecordFacts, KnownBefore DEF LInv, Known
<1>2. ~Takes(rt[s])
  BY DEF Takes
<1>3. v # s /\ rt'[s].src # None
  BY HandoffAlike
<1>4. rt'[s] = n /\ rt'[v] = b /\ \A x \in Session \ {s, v} : rt'[x] = rt[x]
  BY <1>1, <1>3 DEF HandsOver
<1>5. Takes(n) /\ n.gen = rt[s].gen + 1 /\ n.src = src /\ ~n.died /\ n.finGen = 0
  BY <1>1, <1>2, PreparedJoins
<1>6. /\ Takes(rt[v]) /\ Alike(rt[v], b) /\ rt[v].src = None /\ b.src = None
      /\ ~rt[v].died /\ rt[v].finGen = 0 /\ b.finGen # 0
      /\ \A x \in Session : rt[x].src # <<v, rt[v].gen>>
  BY <1>1, ClaimedIdle
<1> HIDE DEF n, b
<1>7. Follower(rt, rt', v, s)
  BY <1>2, <1>3, <1>4, <1>5, <1>6 DEF Follower
<1>8. /\ HoldersOf(rt') = HoldersOf(rt)
      /\ PromisesOf(rt') = PromisesOf(rt) \cup {<<v, s>>}
      /\ LeaversOf(rt') = LeaversOf(rt) \cup {v}
      /\ v \in HoldersOf(rt) \ LeaversOf(rt)
      /\ \A p \in PromisesOf(rt) : p[1] # v
  BY <1>1, <1>7, FollowerPlaces
<1>9. /\ Holders' = Holders /\ Promises' = Promises \cup {<<v, s>>}
      /\ Leavers' = Leavers \cup {v} /\ v \in Holders \ Leavers
      /\ \A p \in Promises : p[1] # v
  BY <1>1, <1>8, PlacesBefore, PlacesAfter
<1>10. Pool!Fits(Holders, Promises')
  BY <1>9, PlacesFitAfter
<1>11. s \notin Holders /\ s \notin {p[2] : p \in Promises}
  BY <1>1, <1>2, RestOutside, PlacesBefore
<1>12. Pool!Promised(v) = {}
  BY <1>9 DEF Pool!Promised
<1>13. Pool!Promise(v, s)
  BY <1>9, <1>10, <1>11, <1>12 DEF Pool!Promise, Pool!Outside, Pool!Heirs
<1> QED
  BY <1>13 DEF Pool!Next
-----------------------------------------------------------------------------
(* The steps that end generations and serve the queue.                     *)

LEMMA ServingKnown ==
    ASSUME OInv, NEW f, Serving(f)
    PROVE  Known(f, mode)
<1>1. Known(rt, mode)
  BY KnownBefore
<1>2. \A x \in Session : Sound(f[x], mode) /\ Passes(rt[x], f[x])
  BY DEF Serving, Follows
<1>3. ASSUME NEW x \in Session, f[x].src # None
      PROVE  /\ f[x].src[1] \in Session /\ SourceOver(f[x].src, f)
             /\ \A z \in Session : f[z].src = f[x].src => z = x
  <2>1. f[x].src = rt[x].src /\ rt[x].src # None
    BY <1>2, <1>3 DEF Passes
  <2> DEFINE v == rt[x].src[1]
  <2>2. v \in Session /\ SourceOver(rt[x].src, rt)
        /\ \A z \in Session : rt[z].src = rt[x].src => z = x
    BY <1>1, <2>1 DEF Known
  <2>3. Passes(rt[v], f[v])
    BY <1>2, <2>2
  <2>4. SourceOver(f[x].src, f)
    BY <2>1, <2>2, <2>3 DEF SourceOver, Passes
  <2>5. ASSUME NEW z \in Session, f[z].src = f[x].src PROVE z = x
    <3>1. rt[z].src = rt[x].src
      BY <1>2, <1>3, <2>1, <2>5 DEF Passes
    <3> QED
      BY <2>2, <3>1
  <2> QED
    BY <2>1, <2>2, <2>4, <2>5
<1> QED
  BY <1>2, <1>3 DEF Known

(* Of those who wait, the service of the queue lets some in.               *)
LEMMA ServicePlaces ==
    ASSUME OInv, OInv', NEW f, Serving(f), ScheduleWaiting(f)
    PROVE  \E A \in SUBSET {queue[i] : i \in DOMAIN queue} :
              /\ Holders' = HoldersOf(f) \cup A
              /\ Promises' = PromisesOf(f) /\ Leavers' = LeaversOf(f)
              /\ {queue[i] : i \in DOMAIN queue}' = {queue[i] : i \in DOMAIN queue} \ A
              /\ A # {} => mode = "open"
<1> DEFINE I == IF mode = "open" THEN Admitted(f, queue) ELSE {}
           A == ItemsAt(queue, I)
           W == {queue[i] : i \in DOMAIN queue}
<1>1. I \in SUBSET (DOMAIN queue)
  BY DEF Admitted, WithinQuota
<1>2. A \in SUBSET W /\ A \in SUBSET Session
  BY <1>1, QueueFacts DEF ItemsAt
<1>3. /\ \A x \in Session : rt'[x] = IF x \in A THEN Prepared(f[x], None, TRUE) ELSE f[x]
      /\ queue' = Without(queue, I)
  BY DEF ScheduleWaiting, ItemsAt
<1>4. A # {} => mode = "open"
  BY DEF ItemsAt
<1> HIDE DEF I
<1>5. W' = W \ A
  BY <1>1, <1>3, WithoutWaits
<1>6. Known(f, mode)
  BY ServingKnown
<1>7. ASSUME NEW x \in A PROVE ~Takes(f[x])
  <2>1. x \in Session /\ rt[x].status = "queued"
    BY <1>2, <1>7, QueuedWaits
  <2>2. Follows(rt[x], f[x]) /\ Sound(f[x], mode)
    BY <2>1 DEF Serving
  <2> QED
    BY <2>1, <2>2 DEF Follows, Sound, Good, Takes, Resting
<1> DEFINE turn == TRUE
<1>8. \A x \in A : LET n == Prepared(f[x], None, turn) IN
         /\ Takes(n) /\ n.gen = f[x].gen + 1 /\ n.src = None
         /\ ~n.died /\ n.finGen = 0
  <2> HIDE DEF turn
  <2> QED
    BY <1>2, <1>6, <1>7, PreparedJoins DEF Known
<1> HIDE DEF A
<1>9. Joins(f, rt', A)
  BY <1>2, <1>3, <1>7, <1>8 DEF Joins
<1>10. /\ HoldersOf(rt') = HoldersOf(f) \cup A
       /\ PromisesOf(rt') = PromisesOf(f) /\ LeaversOf(rt') = LeaversOf(f)
  BY <1>2, <1>6, <1>9, JoinPlaces
<1>11. /\ Holders' = HoldersOf(f) \cup A
       /\ Promises' = PromisesOf(f) /\ Leavers' = LeaversOf(f)
  BY <1>10, PlacesAfter
<1> QED
  BY <1>2, <1>4, <1>5, <1>11

(* The end of one generation, before the queue is served: nothing of it    *)
(* was left, its Session gives up a promise, could not be cleaned up, or   *)
(* leaves its place to its heir.                                           *)
Gone(f, g, y) ==
    /\ HoldersOf(g) = HoldersOf(f) /\ PromisesOf(g) = PromisesOf(f)
    /\ LeaversOf(g) = LeaversOf(f)

GivesUp(f, g, y) ==
    /\ y \in LeaversOf(f) /\ \E p \in PromisesOf(f) : p[2] = y
    /\ HoldersOf(g) = HoldersOf(f)
    /\ PromisesOf(g) = {p \in PromisesOf(f) : p[2] # y}
    /\ LeaversOf(g) = LeaversOf(f) \ {y}

Stuck(f, g, y) ==
    /\ y \in LeaversOf(f) \cap HoldersOf(f)
    /\ HoldersOf(g) = HoldersOf(f) /\ PromisesOf(g) = PromisesOf(f)
    /\ LeaversOf(g) = LeaversOf(f) \ {y}

LetsGo(f, g, y) ==
    /\ y \in LeaversOf(f) \cap HoldersOf(f)
    /\ HoldersOf(g) = (HoldersOf(f) \ {y})
                         \cup {p[2] : p \in {q \in PromisesOf(f) : q[1] = y}}
    /\ PromisesOf(g) = {p \in PromisesOf(f) : p[1] # y}
    /\ LeaversOf(g) = LeaversOf(f) \ {y}

(* What converging does to the Session y.                                  *)
Converges(f, g, y) ==
    /\ Takes(f[y]) /\ f[y].finGen # 0
    /\ g[y].gen = f[y].gen /\ (g[y].died <=> f[y].died)
    /\ g[y].src = None /\ g[y].finGen = 0
    /\ Heir(f, y) => ~Takes(g[y])
    /\ \A x \in Session \ {y} : g[x] = f[x]

LEMMA EndPlaces ==
    ASSUME NEW f, NEW g, NEW m, Known(f, m), NEW y \in Session, Converges(f, g, y)
    PROVE  Gone(f, g, y) \/ GivesUp(f, g, y) \/ Stuck(f, g, y) \/ LetsGo(f, g, y)
<1>1. /\ Takes(f[y]) /\ f[y].finGen # 0
      /\ g[y].gen = f[y].gen /\ (g[y].died <=> f[y].died)
      /\ g[y].src = None /\ g[y].finGen = 0
      /\ Heir(f, y) => ~Takes(g[y])
  BY DEF Converges
<1>2. \A x \in Session \ {y} : g[x] = f[x]
  BY DEF Converges
<1>3. ~Heir(g, y)
  BY <1>1 DEF Heir
<1>4. \A x \in Session \ {y} :
         f[x].src # None => f[x].src[1] \in Session
  BY DEF Known
<1>5. ASSUME NEW x \in Session \ {y}
      PROVE  Heir(g, x) <=> Heir(f, x) /\ (f[x].src[1] = y => Takes(g[y]))
  BY <1>1, <1>2, <1>4 DEF Heir
<1>6. \A x \in Session \ {y} : g[x].src = f[x].src
  BY <1>2
<1>7. LeaversOf(g) = LeaversOf(f) \ {y}
  BY <1>1, <1>2 DEF LeaversOf
<1>8. ~f[y].died => y \in LeaversOf(f)
  BY <1>1 DEF LeaversOf
<1>9. CASE f[y].died
  <2>1. \A x \in Session : Heir(f, x) => f[x].src[1] # y
    BY <1>9, HeirFacts
  <2>2. ~Heir(f, y)
    BY <1>9, HeirFacts
  <2>3. \A x \in Session : Heir(g, x) <=> Heir(f, x)
    BY <1>3, <1>5, <2>1, <2>2
  <2>4. HoldersOf(g) = HoldersOf(f)
    BY <1>1, <1>2, <1>9, <2>3 DEF HoldersOf
  <2>5. {x \in Session : Heir(g, x)} = {x \in Session : Heir(f, x)}
    BY <2>3
  <2>6. \A x \in {z \in Session : Heir(f, z)} : g[x].src = f[x].src
    BY <1>6, <2>2
  <2>7. PromisesOf(g) = PromisesOf(f)
    BY <2>5, <2>6 DEF PromisesOf
  <2>8. LeaversOf(g) = LeaversOf(f)
    BY <1>7, <1>9 DEF LeaversOf
  <2> QED
    BY <2>4, <2>7, <2>8 DEF Gone
<1>10. CASE ~f[y].died /\ Heir(f, y)
  <2>1. \A x \in Session : Heir(f, x) => f[x].src[1] # y
    BY <1>10, HeirFacts, SMTT(40) DEF Heir
  <2>2. \A x \in Session : Heir(g, x) <=> Heir(f, x) /\ x # y
    BY <1>3, <1>5, <2>1
  <2>3. HoldersOf(g) = HoldersOf(f)
    BY <1>1, <1>2, <1>10, <2>2 DEF HoldersOf
  <2>4. PromisesOf(g) = {p \in PromisesOf(f) : p[2] # y}
    BY <1>6, <2>2 DEF PromisesOf
  <2>5. \E p \in PromisesOf(f) : p[2] = y
    <3>1. <<f[y].src[1], y>> \in PromisesOf(f)
      BY <1>10 DEF PromisesOf
    <3> QED
      BY <3>1
  <2> QED
    BY <1>7, <1>8, <1>10, <2>3, <2>4, <2>5 DEF GivesUp
<1>11. CASE ~f[y].died /\ ~Heir(f, y) /\ Takes(g[y])
  <2>1. \A x \in Session : Alike(f[x], g[x]) /\ SourceAlike(f, g, x)
    BY <1>1, <1>2, <1>11 DEF Alike, SourceAlike
  <2>2. HoldersOf(g) = HoldersOf(f) /\ PromisesOf(g) = PromisesOf(f)
    BY <2>1, SamePlaces
  <2>3. y \in HoldersOf(f)
    BY <1>1, <1>11 DEF HoldersOf
  <2> QED
    BY <1>7, <1>8, <1>11, <2>2, <2>3 DEF Stuck
<1>12. CASE ~f[y].died /\ ~Heir(f, y) /\ ~Takes(g[y])
  <2>1. \A x \in Session : Heir(g, x) <=> Heir(f, x) /\ f[x].src[1] # y
    BY <1>3, <1>5, <1>12
  <2>2. \A x \in Session : Heir(f, x) => Takes(f[x]) /\ ~f[x].died
    BY HeirFacts
  <2>3. PromisesOf(g) = {p \in PromisesOf(f) : p[1] # y}
    <3>1. \A x \in Session : Heir(f, x) => g[x].src = f[x].src
      BY <1>6, <1>12
    <3> QED
      BY <2>1, <3>1 DEF PromisesOf
  <2>4. {p[2] : p \in {q \in PromisesOf(f) : q[1] = y}}
           = {x \in Session : Heir(f, x) /\ f[x].src[1] = y}
    <3>1. ASSUME NEW p \in PromisesOf(f), p[1] = y
          PROVE  p[2] \in Session /\ Heir(f, p[2]) /\ f[p[2]].src[1] = y
      <4>1. PICK x \in Session : Heir(f, x) /\ p = <<f[x].src[1], x>>
        BY DEF PromisesOf
      <4>2. p[2] = x /\ p[1] = f[x].src[1]
        BY <4>1
      <4> QED
        BY <3>1, <4>1, <4>2
    <3>2. ASSUME NEW x \in Session, Heir(f, x), f[x].src[1] = y
          PROVE  <<y, x>> \in PromisesOf(f)
      BY <3>2 DEF PromisesOf
    <3>3. \A x : <<y, x>>[1] = y /\ <<y, x>>[2] = x
      OBVIOUS
    <3> QED
      BY <3>1, <3>2, <3>3
  <2>5. HoldersOf(g) = (HoldersOf(f) \ {y})
                          \cup {x \in Session : Heir(f, x) /\ f[x].src[1] = y}
    BY <1>2, <1>12, <2>1, <2>2 DEF HoldersOf
  <2>6. y \in HoldersOf(f)
    BY <1>1, <1>12 DEF HoldersOf
  <2> QED
    BY <1>7, <1>8, <1>12, <2>3, <2>4, <2>5, <2>6 DEF LetsGo
<1> QED
  BY <1>9, <1>10, <1>11, <1>12

LEMMA EndingEnds ==
    ASSUME OInv, NEW y \in Session, FinalizerConverges(y)
    PROVE  Converges(rt, Ending(y), y)
<1> DEFINE c == Converged(rt[y])
           failed == Live(rt[y]) \/ rt[y].fin = "kept"
<1>1. rt \in [Session -> Runtime] /\ rt[y] \in Runtime /\ Sound(rt[y], mode)
      /\ Known(rt, mode)
  BY RecordFacts, KnownBefore DEF Sound
<1>2. /\ c.status = (IF failed THEN "error" ELSE rt[y].final) /\ c.cleanup = failed
      /\ c.gen = rt[y].gen /\ c.died = rt[y].died /\ c.src = None /\ c.finGen = 0
  BY <1>1 DEF Converged, Runtime
<1>3. rt[y].status = "stopping" /\ rt[y].finGen # 0 /\ (rt[y].fin = "kept" => rt[y].ref)
  BY <1>1 DEF FinalizerConverges, Sound, Owned, Good
<1>4. Takes(rt[y])
  BY <1>3 DEF Takes, Resting
<1>5. ASSUME Heir(rt, y) PROVE ~Takes(c)
  <2>1. Unlaunched(rt[y])
    BY <1>1, <1>5, HeirFacts
  <2>2. ~failed
    BY <1>3, <2>1 DEF Unlaunched, Live
  <2>3. c.status \in {"stopped", "error"} /\ ~c.cleanup
    BY <1>1, <1>2, <2>2 DEF Runtime
  <2> QED
    BY <2>3 DEF Takes, Resting
<1>6. Ending(y)[y] = c /\ \A x \in Session \ {y} : Ending(y)[x] = rt[x]
  BY <1>1 DEF Ending
<1> HIDE DEF c
<1> QED
  BY <1>2, <1>3, <1>4, <1>5, <1>6 DEF Converges

(* Nobody comes in, and nothing ends; or somebody does, or something.      *)
LEMMA AdmitStep ==
    ASSUME LInv', mode' = mode, NEW A \in SUBSET {queue[i] : i \in DOMAIN queue},
           Holders' = Holders \cup A, Promises' = Promises, Leavers' = Leavers,
           {queue[i] : i \in DOMAIN queue}' = {queue[i] : i \in DOMAIN queue} \ A,
           A # {} => mode = "open"
    PROVE  [Pool!Next]_(Pool!vars)
<1>1. CASE A = {}
  BY <1>1 DEF Pool!vars
<1>2. CASE A # {}
  <2>1. Pool!Admit(A)
    BY <1>2 DEF Pool!Admit
  <2>2. Pool!Ends(A)
    BY <1>2, <2>1, PlacesFitAfter DEF Pool!Ends
  <2> QED
    BY <2>2 DEF Pool!Next
<1> QED
  BY <1>1, <1>2

LEMMA SweepEndsStep ==
    ASSUME LInv, LInv', SweepEnds
    PROVE  [Pool!Next]_(Pool!vars)
<1>1. OInv /\ OInv' /\ Serving(rt) /\ ScheduleWaiting(rt) /\ mode' = mode
  BY ServedFrom DEF LInv, SweepEnds
<1>2. PICK A \in SUBSET {queue[i] : i \in DOMAIN queue} :
         /\ Holders' = HoldersOf(rt) \cup A
         /\ Promises' = PromisesOf(rt) /\ Leavers' = LeaversOf(rt)
         /\ {queue[i] : i \in DOMAIN queue}' = {queue[i] : i \in DOMAIN queue} \ A
         /\ A # {} => mode = "open"
  BY <1>1, ServicePlaces
<1>3. Holders' = Holders \cup A /\ Promises' = Promises /\ Leavers' = Leavers
  BY <1>1, <1>2, PlacesBefore
<1> QED
  BY <1>1, <1>2, <1>3, AdmitStep

LEMMA ConvergeStep ==
    ASSUME LInv, LInv', NEW y \in Session, FinalizerConverges(y)
    PROVE  [Pool!Next]_(Pool!vars)
<1> DEFINE f == Ending(y)
<1>1. OInv /\ OInv' /\ Serving(f) /\ ScheduleWaiting(f) /\ mode' = mode
  BY ServedFrom DEF LInv, FinalizerConverges, Ending
<1>2. PICK A \in SUBSET {queue[i] : i \in DOMAIN queue} :
         /\ Holders' = HoldersOf(f) \cup A
         /\ Promises' = PromisesOf(f) /\ Leavers' = LeaversOf(f)
         /\ {queue[i] : i \in DOMAIN queue}' = {queue[i] : i \in DOMAIN queue} \ A
         /\ A # {} => mode = "open"
  BY <1>1, ServicePlaces
<1>3. /\ Holders = HoldersOf(rt) /\ Promises = PromisesOf(rt)
      /\ Leavers = LeaversOf(rt)
  BY <1>1, PlacesBefore
<1>4. Gone(rt, f, y) \/ GivesUp(rt, f, y) \/ Stuck(rt, f, y) \/ LetsGo(rt, f, y)
  BY <1>1, KnownBefore, EndingEnds, EndPlaces
<1>5. Pool!Fits(Holders', Promises')
  BY PlacesFitAfter
<1> HIDE DEF f
<1>6. CASE Gone(rt, f, y)
  <2>1. Holders' = Holders \cup A /\ Promises' = Promises /\ Leavers' = Leavers
    BY <1>2, <1>3, <1>6 DEF Gone
  <2> QED
    BY <1>1, <1>2, <2>1, AdmitStep
<1>7. CASE GivesUp(rt, f, y)
  <2>1. Pool!Forgo(y, A)
    BY <1>2, <1>3, <1>7 DEF GivesUp, Pool!Forgo, Pool!Heirs
  <2>2. Pool!Ends(A)
    BY <1>1, <1>2, <1>5, <2>1 DEF Pool!Ends
  <2> QED
    BY <2>2 DEF Pool!Next
<1>8. CASE Stuck(rt, f, y)
  <2>1. Pool!Keep(y, A)
    BY <1>2, <1>3, <1>8 DEF Stuck, Pool!Keep
  <2>2. Pool!Ends(A)
    BY <1>1, <1>2, <1>5, <2>1 DEF Pool!Ends
  <2> QED
    BY <2>2 DEF Pool!Next
<1>9. CASE LetsGo(rt, f, y)
  <2>1. Pool!Release(y, A)
    BY <1>2, <1>3, <1>9 DEF LetsGo, Pool!Release, Pool!Promised
  <2>2. Pool!Ends(A)
    BY <1>1, <1>2, <1>5, <2>1 DEF Pool!Ends
  <2> QED
    BY <2>2 DEF Pool!Next
<1> QED
  BY <1>4, <1>6, <1>7, <1>8, <1>9
-----------------------------------------------------------------------------
(* Every step.                                                             *)

LEMMA AdmissionPlaces ==
    ASSUME LInv, LInv', NEW s \in Session, ActivateAdmits(s) \/ SendAdmits(s)
    PROVE  Pool!Next
<1>1. PICK turn \in BOOLEAN :
         /\ rt[s].status \in {"stopped", "error"} /\ mode = "open"
         /\ AdmitFree(s, turn) \/ AdmitEvicting(s, turn)
  BY DEF ActivateAdmits, SendAdmits, Restartable, Sendable
<1>2. UNCHANGED <<queue, mode>> /\ OInv
  BY DEF ActivateAdmits, SendAdmits, LInv
<1>3. CASE AdmitFree(s, turn)
  BY <1>1, <1>2, <1>3, TakeStep
<1>4. CASE AdmitEvicting(s, turn)
  <2>1. PICK v \in Evictable(rt, s) :
           rt' = [rt EXCEPT ![v] = Begin(@, @.gen, "stopped"),
                            ![s] = Prepared(@, <<v, rt[v].gen>>, turn)]
    BY <1>4 DEF AdmitEvicting
  <2>2. v \in Session /\ GenuinelyIdle(rt[v]) /\ Resting(rt[s]) /\ ~rt[s].cleanup
    BY <1>1, <1>4 DEF AdmitEvicting, CanPrepare, Evictable, Resting
  <2>3. HandsOver(v, s, turn)
    BY <1>2, <2>1, <2>2, RecordFacts DEF HandsOver
  <2>4. s \notin {queue[i] : i \in DOMAIN queue}
    BY <1>1, <1>2, QueuedWaits
  <2>5. {queue[i] : i \in DOMAIN queue}' = {queue[i] : i \in DOMAIN queue} \ {s}
    BY <1>2, <2>4
  <2> QED
    BY <1>1, <1>2, <2>2, <2>3, <2>5, PromiseStep
<1> QED
  BY <1>1, <1>3, <1>4

LEMMA DispatchPromises ==
    ASSUME LInv, LInv', NEW s \in Session, DispatchFromIdle(s), ~UNCHANGED <<rt, queue>>
    PROVE  Pool!Next
<1> DEFINE i == First(EligibleFor(rt, queue, s))
           target == queue[i]
           I == {i}
           turn == TRUE
<1>1. OInv /\ CanDispatch(s) /\ mode' = mode
  BY DEF LInv, DispatchFromIdle
<1>2. /\ rt' = [rt EXCEPT ![s] = Begin(@, @.gen, "stopped"),
                          ![target] = Prepared(@, <<s, rt[s].gen>>, turn)]
      /\ queue' = Without(queue, I)
  BY DEF DispatchFromIdle
<1>3. i \in DOMAIN queue /\ target \in Session /\ rt[target].status = "queued"
  BY <1>1, DispatchTarget DEF OInv
<1>4. mode = "open" /\ GenuinelyIdle(rt[s])
  BY <1>1 DEF CanDispatch
<1>5. I \in SUBSET (DOMAIN queue) /\ ItemsAt(queue, I) = {target}
  BY <1>3 DEF ItemsAt
<1> HIDE DEF i, I
<1>6. {queue[j] : j \in DOMAIN queue}' = {queue[j] : j \in DOMAIN queue} \ {target}
  BY <1>1, <1>2, <1>5, WithoutWaits
<1> HIDE DEF target, turn
<1>7. Resting(rt[target]) /\ ~rt[target].cleanup
  BY <1>1, <1>3, RecordFacts DEF Resting, Good
<1>8. HandsOver(s, target, turn)
  BY <1>1, <1>2, <1>3, RecordFacts DEF HandsOver
<1> QED
  BY <1>1, <1>3, <1>4, <1>6, <1>7, <1>8, PromiseStep

LEMMA NextSettled ==
    ASSUME OInv, OInv', [Next]_vars, Passing \/ Admitting,
           \A s \in Session : /\ ~ActivateAdmits(s) /\ ~SendAdmits(s) /\ ~SendQueues(s)
                              /\ ~(StopSession(s) /\ rt[s].status = "queued")
                              /\ ~ProcessExit(s) /\ ~FinalizerConverges(s)
                              /\ DispatchFromIdle(s) => UNCHANGED <<rt, queue>>,
           \A t \in starts : ~StartChecks(t) /\ ~StartLaunches(t),
           ~SweepEnds, ~Shutdown
    PROVE  Pool!Next
<1>1. Settled
  <2>1. ASSUME NEW s \in Session, Request(s) PROVE Settled
    BY <2>1, RequestSettled
  <2>2. ASSUME NEW s \in Session, Core(s) PROVE Settled
    BY <2>2, CoreSettled
  <2>3. ASSUME NEW s \in Session, Generations(s) PROVE Settled
    BY <2>3, GenerationsSettled
  <2>4. ASSUME NEW t \in starts, Start(t) PROVE Settled
    BY <2>4, StartSettled
  <2>5. CASE Sweep \/ ShutdownReturns \/ UNCHANGED vars
    BY <2>5, PoolSettled
  <2> QED
    BY <2>1, <2>2, <2>3, <2>4, <2>5 DEF Next, Ended
<1>2. CASE Passing
  BY <1>1, <1>2, SettledStep
<1>3. CASE Admitting
  <2>1. PICK s \in Session : DispatchFromIdle(s)
    BY <1>3 DEF Admitting
  <2>2. UNCHANGED <<rt, queue, mode>>
    BY <2>1 DEF DispatchFromIdle
  <2>3. \A x \in Session : /\ Alike(rt[x], rt'[x]) /\ SourceAlike(rt, rt', x)
                           /\ rt[x].finGen # 0 => rt'[x].finGen # 0
    BY <2>2 DEF Alike, SourceAlike
  <2> QED
    BY <2>2, <2>3, UnmovedStep
<1> QED
  BY <1>2, <1>3

LEMMA NextImplements ==
    ASSUME LInv, LInv', [Next]_vars
    PROVE  [Pool!Next]_(Pool!vars)
<1>1. OInv /\ OInv' /\ (Passing \/ Admitting)
  BY NextOInv DEF LInv, Advances
<1>2. CASE \E s \in Session : ActivateAdmits(s) \/ SendAdmits(s)
  BY <1>2, AdmissionPlaces
<1>3. CASE \E s \in Session : SendQueues(s)
  BY <1>1, <1>3, WaitStep
<1>4. CASE \E s \in Session : StopSession(s) /\ rt[s].status = "queued"
  BY <1>1, <1>4, WithdrawStep
<1>5. CASE \E s \in Session : ProcessExit(s)
  BY <1>1, <1>5, ExitStep
<1>6. CASE \E s \in Session : FinalizerConverges(s)
  BY <1>6, ConvergeStep
<1>7. CASE \E s \in Session : DispatchFromIdle(s) /\ ~UNCHANGED <<rt, queue>>
  BY <1>7, DispatchPromises
<1>8. CASE \E t \in starts : StartChecks(t) \/ StartLaunches(t)
  BY <1>1, <1>8, StartUnmoved
<1>9. CASE SweepEnds
  BY <1>9, SweepEndsStep
<1>10. CASE Shutdown
  BY <1>1, <1>10, CloseStep
<1>11. CASE /\ \A s \in Session :
                 /\ ~ActivateAdmits(s) /\ ~SendAdmits(s) /\ ~SendQueues(s)
                 /\ ~(StopSession(s) /\ rt[s].status = "queued")
                 /\ ~ProcessExit(s) /\ ~FinalizerConverges(s)
                 /\ DispatchFromIdle(s) => UNCHANGED <<rt, queue>>
            /\ \A t \in starts : ~StartChecks(t) /\ ~StartLaunches(t)
            /\ ~SweepEnds /\ ~Shutdown
  BY <1>1, <1>11, NextSettled
<1> QED
  BY <1>2, <1>3, <1>4, <1>5, <1>6, <1>7, <1>8, <1>9, <1>10, <1>11

(* At first nobody holds, waits, or follows anybody.                       *)
LEMMA InitImplements == Init => Pool!Init
<1> SUFFICES ASSUME Init PROVE Pool!Init
  OBVIOUS
<1>1. \A s \in Session : ~Takes(rt[s]) /\ rt[s].finGen = 0 /\ rt[s].src = None
  BY DEF Init, Fresh, Takes, Resting
<1>2. \A s \in Session : ~Begun(s)
  BY <1>1 DEF Begun, Takes, Resting
<1>3. Holders = {} /\ Leavers = {} /\ Promises = {}
  BY <1>1, <1>2 DEF Holders, Leavers, Promises, AwaitsSource
<1>4. {queue[i] : i \in DOMAIN queue} = {} /\ mode = "open"
  BY DEF Init
<1> QED
  BY <1>3, <1>4 DEF Pool!Init

(* The pool of runtime.py keeps the promises of SandboxPool: every step of *)
(* an admission, eviction, handoff, finalization, sweep or shutdown is a   *)
(* step of SandboxPool or changes no place.  So a place of a Sandbox goes  *)
(* on to its one heir only once its holder has left it, whichever calls,   *)
(* exits and failed cleanups come in between.                              *)
THEOREM PoolKeepsItsPromises == Spec => ImplementsSandboxPool
<1>1. LInv /\ LInv' /\ [Next]_vars => [Pool!Next]_(Pool!vars)
  BY NextImplements
<1> QED
  BY <1>1, InitImplements, LimitsHold, PTL DEF Spec, ImplementsSandboxPool, Pool!Spec
=============================================================================
