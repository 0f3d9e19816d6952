---------------------- MODULE RuntimePoolLimits_proofs ----------------------
(***************************************************************************)
(* The limits of the pool of RuntimePool and the service of its queue, for *)
(* every value of its constants.  sandbox_max_active and                   *)
(* sandbox_max_active_per_user hold for Sandboxes, whatever is admitted,   *)
(* evicted, handed off and queued.  The queue is first in first out among  *)
(* the Turns that may start, no slot stays free beside a Turn that could   *)
(* take it, and no idle Runtime keeps a slot from a Turn that became       *)
(* eligible; and the one pass over the queue that serves it in the model   *)
(* admits what the loop of _schedule_waiting would.                        *)
(*                                                                         *)
(* What the pool counts is not what exists: a target that waits for its    *)
(* source is not counted, and a Runtime that exits is no longer.  So the   *)
(* invariant, Counted, is about what _occupies_slot counts, and a step     *)
(* that ends a source counts its target instead of it.                     *)
(***************************************************************************)
EXTENDS RuntimePool_proofs, Stepwise

-----------------------------------------------------------------------------
(* The inductive invariant.                                                *)

(* The Sessions that count for the pool, and for one Web User, in the      *)
(* state f; a Runtime that died by itself is left out, as in               *)
(* LimitsRespected.                                                        *)
Slots(f) == {s \in Session : CountsSlot(f, s) /\ ~f[s].died}

UserSlots(f, u) ==
    {s \in Session : Owner[s] = u /\ CountsUserSlot(f, s) /\ ~f[s].died}

Counted(f) ==
    /\ Cardinality(Slots(f)) <= MaxActive
    /\ \A u \in User : Cardinality(UserSlots(f, u)) <= MaxPerUser

LInv == OInv /\ Counted(rt)

-----------------------------------------------------------------------------
(* Counting.                                                               *)

(* Sets of Sessions are finite.                                            *)
LEMMA Fewer ==
    ASSUME NEW B \in SUBSET Session, NEW C \in SUBSET B
    PROVE  /\ IsFiniteSet(B) /\ IsFiniteSet(C)
           /\ Cardinality(B) \in Nat /\ Cardinality(C) \in Nat
           /\ Cardinality(C) <= Cardinality(B)
<1>1. IsFiniteSet(B)
  BY PoolAssumption, FS_Subset
<1>2. IsFiniteSet(C) /\ Cardinality(C) <= Cardinality(B)
  BY <1>1, FS_Subset
<1> QED
  BY <1>1, <1>2, FS_CardinalityType

(* One set more adds its members, at most.                                 *)
LEMMA TogetherAtMost ==
    ASSUME NEW B \in SUBSET Session, NEW A \in SUBSET Session,
           NEW C \in SUBSET (B \cup A)
    PROVE  /\ Cardinality(A) \in Nat /\ Cardinality(B) \in Nat /\ Cardinality(C) \in Nat
           /\ Cardinality(C) <= Cardinality(B) + Cardinality(A)
<1>1. /\ IsFiniteSet(A) /\ IsFiniteSet(B)
      /\ Cardinality(A) \in Nat /\ Cardinality(B) \in Nat
  BY Fewer
<1>2. Cardinality(B \cup A) = Cardinality(B) + Cardinality(A) - Cardinality(B \cap A)
  BY <1>1, FS_Union
<1>3. B \cap A \in SUBSET B
  OBVIOUS
<1>4. Cardinality(B \cap A) \in Nat
  BY <1>3, Fewer
<1>5. B \cup A \in SUBSET Session
  OBVIOUS
<1>6. Cardinality(C) \in Nat /\ Cardinality(C) <= Cardinality(B \cup A)
      /\ Cardinality(B \cup A) \in Nat
  BY <1>5, Fewer
<1> QED
  BY <1>1, <1>2, <1>4, <1>6

(* A set is no larger than B when each of its members that B lacks stands  *)
(* for a member of B that it lacks, and no two for the same one.           *)
LEMMA Replaced ==
    ASSUME NEW B \in SUBSET Session, NEW C \in SUBSET Session,
           NEW h \in [C \ B -> B \ C],
           \A x, y \in C \ B : h[x] = h[y] => x = y
    PROVE  Cardinality(C) <= Cardinality(B)
<1> DEFINE g == [x \in C |-> IF x \in B THEN x ELSE h[x]]
<1>1. g \in [C -> B]
  OBVIOUS
<1>2. ASSUME NEW x \in C, NEW y \in C, g[x] = g[y] PROVE x = y
  <2>1. CASE x \in B /\ y \in B
    BY <1>2, <2>1
  <2>2. CASE x \in B /\ y \notin B
    <3>1. g[x] = x /\ g[y] = h[y] /\ h[y] \in B \ C
      BY <2>2
    <3> QED
      BY <1>2, <3>1
  <2>3. CASE x \notin B /\ y \in B
    <3>1. g[y] = y /\ g[x] = h[x] /\ h[x] \in B \ C
      BY <2>3
    <3> QED
      BY <1>2, <3>1
  <2>4. CASE x \notin B /\ y \notin B
    <3>1. g[x] = h[x] /\ g[y] = h[y]
      BY <2>4
    <3> QED
      BY <1>2, <2>4, <3>1
  <2> QED
    BY <2>1, <2>2, <2>3, <2>4
<1> HIDE DEF g
<1>3. g \in Injection(C, B)
  BY <1>1, <1>2 DEF Injection, IsInjective
<1>4. IsFiniteSet(B)
  BY Fewer
<1> QED
  BY <1>3, <1>4, FS_Injection

(* The Sessions at the positions I of a queue are no more than those.      *)
LEMMA ItemsAtMost ==
    ASSUME NEW q \in Seq(Session), NEW I \in SUBSET (DOMAIN q)
    PROVE  /\ IsFiniteSet(I) /\ Cardinality(I) \in Nat
           /\ Cardinality({q[i] : i \in I}) <= Cardinality(I)
<1> DEFINE T == {q[i] : i \in I}
           g == [i \in I |-> q[i]]
<1>1. IsFiniteSet(I)
  <2>1. Len(q) \in Nat /\ DOMAIN q = 1..Len(q)
    OBVIOUS
  <2>2. IsFiniteSet(1..Len(q))
    BY <2>1, FS_Interval
  <2> QED
    BY <2>1, <2>2, FS_Subset
<1>2. g \in Surjection(I, T)
  <2>1. g \in [I -> T] /\ \A t \in T : \E i \in I : g[i] = t
    OBVIOUS
  <2> HIDE DEF g, T
  <2> QED
    BY <2>1 DEF Surjection
<1> HIDE DEF g, T
<1>3. Cardinality(T) <= Cardinality(I)
  BY <1>1, <1>2, FS_Surjection
<1> QED
  BY <1>1, <1>3, FS_CardinalityType DEF T

(* Some positions of a queue include a last one.                           *)
LEMMA Greatest ==
    ASSUME NEW q \in Seq(Session), NEW I \in SUBSET (DOMAIN q), I # {}
    PROVE  \E m \in I : \A i \in I : i <= m
<1> DEFINE n == Len(q)
           B == {n - i : i \in I}
<1>1. n \in Nat /\ \A i \in I : i \in Nat /\ i <= n
  OBVIOUS
<1> HIDE DEF n
<1>2. B \in SUBSET Nat /\ B # {}
  BY <1>1
<1>3. PICK b \in B : \A c \in B : b <= c
  BY <1>2, Least
<1>4. PICK m \in I : b = n - m
  OBVIOUS
<1>5. \A i \in I : n - m <= n - i
  BY <1>3, <1>4
<1>6. \A i \in I : i <= m
  BY <1>1, <1>5
<1> QED
  BY <1>6

(* The last of some positions, and how many of them there may be: those    *)
(* of K before it, and itself.                                             *)
LEMMA UpToTheLast ==
    ASSUME NEW q \in Seq(Session), NEW K \in SUBSET (DOMAIN q), NEW I \in SUBSET K, I # {}
    PROVE  \E m \in I :
              /\ Cardinality({j \in K : j < m}) \in Nat
              /\ Cardinality(I) \in Nat
              /\ Cardinality(I) <= Cardinality({j \in K : j < m}) + 1
<1>1. PICK m \in I : \A i \in I : i <= m
  BY Greatest
<1> DEFINE B == {j \in K : j < m}
<1>2. \A i \in I : i \in Nat
  OBVIOUS
<1>3. I \in SUBSET (B \cup {m})
  <2>1. \A i \in I : i < m \/ i = m
    BY <1>1, <1>2
  <2> QED
    BY <2>1
<1>4. B \in SUBSET (DOMAIN q)
  OBVIOUS
<1>5. IsFiniteSet(B) /\ Cardinality(B) \in Nat /\ Cardinality(I) \in Nat
  BY <1>4, ItemsAtMost
<1> HIDE DEF B
<1>6. /\ IsFiniteSet(B \cup {m})
      /\ Cardinality(B \cup {m}) = IF m \in B THEN Cardinality(B) ELSE Cardinality(B) + 1
  BY <1>5, FS_AddElement
<1>7. Cardinality(I) <= Cardinality(B \cup {m})
  BY <1>3, <1>6, FS_Subset
<1>8. Cardinality(I) <= Cardinality(B) + 1
  BY <1>5, <1>6, <1>7
<1> QED
  BY <1>5, <1>8 DEF B

-----------------------------------------------------------------------------
(* Occupation.                                                             *)

(* A Session of a state f of the pool in the mode m.                       *)
Sound(r, m) == r \in Runtime /\ Owned(r) /\ Good(r, m)

(* What holds a slot within a generation held it before.                   *)
LEMMA OccupiedBefore ==
    ASSUME NEW r, NEW n, NEW k, NEW m, Sound(r, k), Sound(n, m), Passes(r, n),
           OccupiesSlot(n), ~n.died
    PROVE  OccupiesSlot(r) /\ ~r.died
<1>1. ~r.died
  BY DEF Passes
<1>2. ASSUME ~OccupiesSlot(r) PROVE FALSE
  <2>1. r.status \in Status /\ r.proc \in {"none", "live", "exited"}
    BY DEF Sound, Runtime
  <2>2. ~r.cleanup /\ r.status \notin {"starting", "stopping"} /\ r.proc # "live"
    BY <1>2 DEF OccupiesSlot, Finalizing, Live
  <2>3. Resting(r)
    BY <1>1, <2>1, <2>2 DEF Sound, Good, Status, Resting, Up, Over
  <2>4. Resting(n) /\ ~n.cleanup
    BY <2>2, <2>3 DEF Passes
  <2>5. ~OccupiesSlot(n)
    BY <2>4 DEF Sound, Good, Owned, Resting, Unlaunched, OccupiesSlot, Finalizing, Live
  <2> QED
    BY <2>5
<1> QED
  BY <1>1, <1>2

(* The source of a Session that reserves its slot is counted itself.       *)
LEMMA SourceCounts ==
    ASSUME OInv, NEW s \in Session, SourceOccupied(rt, rt[s])
    PROVE  /\ rt[s].src # None /\ rt[s].src[1] \in Session
           /\ rt[s].src = <<rt[s].src[1], rt[rt[s].src[1]].gen>>
           /\ OccupiesSlot(rt[rt[s].src[1]]) /\ ~rt[rt[s].src[1]].died
           /\ rt[rt[s].src[1]].src = None
           /\ rt[s].src[1] \in Slots(rt)
           /\ rt[s].src[1] \in UserSlots(rt, Owner[rt[s].src[1]])
<1> DEFINE v == rt[s].src[1]
<1>1. rt[s].src # None /\ rt[v].gen = rt[s].src[2] /\ OccupiesSlot(rt[v])
  BY DEF SourceOccupied
<1>2. rt[s].src \in Session \X Generation
  BY <1>1, RecordFacts DEF Runtime, Source
<1>3. v \in Session /\ rt[s].src = <<v, rt[v].gen>>
  BY <1>1, <1>2
<1>4. SourceOver(rt[s].src, rt)
  BY <1>1 DEF OInv, SourcesGood
<1>5. rt[v].src = None /\ ~rt[v].died
  BY <1>1, <1>4 DEF SourceOver
<1>6. ~Reserving(rt, v)
  BY <1>5 DEF Reserving, SourceOccupied
<1> QED
  BY <1>1, <1>3, <1>5, <1>6 DEF Slots, UserSlots, CountsSlot, CountsUserSlot

(* A Session that begins to count in f, after a step within generations,   *)
(* was a target; its source, which counted for the same user or for        *)
(* another one, no longer holds its slot.                                  *)
LEMMA SourceReleased ==
    ASSUME OInv, NEW m, NEW f,
           \A x \in Session : Sound(f[x], m) /\ Passes(rt[x], f[x]),
           NEW s \in Session, OccupiesSlot(f[s]), ~f[s].died,
           Reserving(rt, s),
           Reserving(f, s) => Owner[f[s].src[1]] # Owner[rt[s].src[1]]
    PROVE  ~OccupiesSlot(f[rt[s].src[1]])
<1> DEFINE v == rt[s].src[1]
<1>1. /\ rt[s].src # None /\ v \in Session /\ rt[s].src = <<v, rt[v].gen>>
      /\ rt[s].proc = "none" /\ ~rt[s].died /\ Sound(rt[s], mode)
  <2>1. SourceOccupied(rt, rt[s])
    BY DEF Reserving
  <2>2. Sound(rt[s], mode)
    BY RecordFacts DEF Sound
  <2>3. Passes(rt[s], f[s])
    OBVIOUS
  <2> QED
    BY <2>1, <2>2, <2>3, SourceCounts DEF Reserving, Passes
<1>2. f[s].src = rt[s].src
  BY DEF Passes
<1>3. f[s].proc = "none"
  <2>1. Passes(rt[s], f[s])
    OBVIOUS
  <2>2. Unlaunched(rt[s])
    BY <1>1 DEF Sound, Good
  <2> QED
    BY <1>1, <2>1, <2>2 DEF Passes, Unlaunched
<1>4. ~Reserving(f, s)
  BY <1>2
<1>5. f[v].gen = rt[v].gen
  BY <1>1 DEF Passes
<1> QED
  BY <1>1, <1>2, <1>3, <1>4, <1>5 DEF Reserving, SourceOccupied

(* A step within the generations of all Sessions keeps the limits.         *)
LEMMA PassCounts ==
    ASSUME LInv, NEW m, NEW f,
           \A x \in Session : Sound(f[x], m) /\ Passes(rt[x], f[x])
    PROVE  Counted(f)
<1> DEFINE src(x) == rt[x].src[1]
<1>1. OInv /\ Counted(rt)
  BY DEF LInv
<1>2. ASSUME NEW x \in Session, OccupiesSlot(f[x]), ~f[x].died
      PROVE  OccupiesSlot(rt[x]) /\ ~rt[x].died
  <2>1. Sound(rt[x], mode) /\ Sound(f[x], m) /\ Passes(rt[x], f[x])
    BY <1>1, RecordFacts DEF Sound
  <2> QED
    BY <1>2, <2>1, OccupiedBefore
<1>3. ASSUME NEW x \in Session, NEW y \in Session,
             Reserving(rt, x), Reserving(rt, y), src(x) = src(y)
      PROVE  x = y
  <2>1. rt[x].src # None /\ rt[x].src = rt[y].src
    BY <1>1, <1>3, SourceCounts DEF Reserving
  <2> QED
    BY <1>1, <2>1 DEF OInv, SourcesGood
<1>4. Cardinality(Slots(f)) <= Cardinality(Slots(rt))
  <2> DEFINE B == Slots(rt)
             C == Slots(f)
             h == [x \in C \ B |-> src(x)]
  <2>1. B \in SUBSET Session /\ C \in SUBSET Session
    BY DEF Slots
  <2>2. ASSUME NEW x \in C \ B PROVE Reserving(rt, x) /\ src(x) \in B \ C
    <3>1. x \in Session /\ OccupiesSlot(f[x]) /\ ~f[x].died /\ ~Reserving(f, x)
      BY DEF Slots, CountsSlot
    <3>2. Reserving(rt, x)
      BY <1>2, <3>1 DEF Slots, CountsSlot
    <3>3. ~OccupiesSlot(f[src(x)])
      BY <1>1, <3>1, <3>2, SourceReleased
    <3>4. src(x) \in B
      BY <1>1, <3>1, <3>2, SourceCounts DEF Reserving
    <3> QED
      BY <3>2, <3>3, <3>4 DEF Slots, CountsSlot
  <2> HIDE DEF src, B, C
  <2>3. h \in [C \ B -> B \ C]
    BY <2>2
  <2>4. \A x, y \in C \ B : h[x] = h[y] => x = y
    BY <1>3, <2>1, <2>2
  <2> HIDE DEF h
  <2>5. Cardinality(C) <= Cardinality(B)
    BY <2>1, <2>3, <2>4, Replaced
  <2> QED
    BY <2>5 DEF B, C
<1>5. ASSUME NEW u \in User
      PROVE  Cardinality(UserSlots(f, u)) <= Cardinality(UserSlots(rt, u))
  <2> DEFINE B == UserSlots(rt, u)
             C == UserSlots(f, u)
             h == [x \in C \ B |-> src(x)]
  <2>1. B \in SUBSET Session /\ C \in SUBSET Session
    BY DEF UserSlots
  <2>2. ASSUME NEW x \in C \ B PROVE Reserving(rt, x) /\ src(x) \in B \ C
    <3>1. /\ x \in Session /\ OccupiesSlot(f[x]) /\ ~f[x].died /\ Owner[x] = u
          /\ Reserving(f, x) => Owner[f[x].src[1]] # u
      BY DEF UserSlots, CountsUserSlot
    <3>2. Reserving(rt, x) /\ Owner[src(x)] = u
      BY <1>2, <3>1 DEF UserSlots, CountsUserSlot
    <3>3. ~OccupiesSlot(f[src(x)])
      BY <1>1, <3>1, <3>2, SourceReleased
    <3>4. src(x) \in B
      BY <1>1, <3>1, <3>2, SourceCounts DEF Reserving
    <3> QED
      BY <3>2, <3>3, <3>4 DEF UserSlots, CountsUserSlot
  <2> HIDE DEF src, B, C
  <2>3. h \in [C \ B -> B \ C]
    BY <2>2
  <2>4. \A x, y \in C \ B : h[x] = h[y] => x = y
    BY <1>3, <2>1, <2>2
  <2> HIDE DEF h
  <2>5. Cardinality(C) <= Cardinality(B)
    BY <2>1, <2>3, <2>4, Replaced
  <2> QED
    BY <2>5 DEF B, C
<1>6. /\ Cardinality(Slots(f)) \in Nat /\ Cardinality(Slots(rt)) \in Nat
      /\ \A u : Cardinality(UserSlots(f, u)) \in Nat /\ Cardinality(UserSlots(rt, u)) \in Nat
  BY Fewer DEF Slots, UserSlots
<1> QED
  BY <1>1, <1>4, <1>5, <1>6, PoolAssumption DEF Counted

-----------------------------------------------------------------------------
(* Admissions.                                                             *)

(* The Sessions that the pool counts in f, and those of the user u but the *)
(* one whose slot is released.                                             *)
PoolSet(f) == {s \in Session : CountsSlot(f, s)}

UserSet(f, u, releasing) ==
    {s \in Session : Owner[s] = u /\ s # releasing /\ CountsUserSlot(f, s)}

LEMMA CountedSets ==
    ASSUME NEW f
    PROVE  /\ Occupied(f) = Cardinality(PoolSet(f))
           /\ \A u, v : UserOccupied(f, u, v) = Cardinality(UserSet(f, u, v))
           /\ PoolSet(f) \in SUBSET Session /\ Slots(f) \in SUBSET PoolSet(f)
           /\ \A u, v : UserSet(f, u, v) \in SUBSET Session
           /\ \A u : /\ UserSlots(f, u) \in SUBSET Session
                     /\ UserSlots(f, u) \in SUBSET UserSet(f, u, None)
<1>1. None \notin Session
  BY PoolAssumption
<1> QED
  BY <1>1 DEF Occupied, UserOccupied, PoolSet, UserSet, Slots, UserSlots

(* The Sessions of A begin the generations that f prepares; who reserves a *)
(* slot without being one of them still does.                              *)
LEMMA ReservedAlike ==
    ASSUME NEW f, NEW g, NEW m, NEW A \in SUBSET Session,
           \A x \in Session : Sound(f[x], m) /\ f[x].gen \in Nat,
           \A x \in Session : f[x].src # None =>
              f[x].src[1] \in Session /\ f[x].src[2] <= f[f[x].src[1]].gen,
           \A x \in A : Resting(f[x]) /\ ~f[x].cleanup /\ g[x].gen = f[x].gen + 1,
           \A x \in Session \ A :
              /\ g[x].gen = f[x].gen /\ g[x].src = f[x].src /\ g[x].proc = f[x].proc
              /\ OccupiesSlot(g[x]) <=> OccupiesSlot(f[x])
    PROVE  \A x \in Session \ A :
              /\ CountsSlot(g, x) <=> CountsSlot(f, x)
              /\ CountsUserSlot(g, x) <=> CountsUserSlot(f, x)
<1> SUFFICES ASSUME NEW x \in Session \ A
             PROVE  SourceOccupied(g, g[x]) <=> SourceOccupied(f, f[x])
  BY DEF CountsSlot, CountsUserSlot, Reserving
<1> DEFINE p == f[x].src
<1>1. g[x].src = p
  OBVIOUS
<1>2. CASE p = None
  BY <1>1, <1>2 DEF SourceOccupied
<1>3. CASE p # None /\ p[1] \notin A
  <2>1. p[1] \in Session \ A
    BY <1>3
  <2> QED
    BY <1>1, <2>1 DEF SourceOccupied
<1>4. CASE p # None /\ p[1] \in A
  <2>1. ~OccupiesSlot(f[p[1]])
    <3>1. Sound(f[p[1]], m) /\ Resting(f[p[1]]) /\ ~f[p[1]].cleanup
      BY <1>4
    <3> QED
      BY <3>1
         DEF Sound, Good, Owned, Resting, Unlaunched, OccupiesSlot, Finalizing, Live
  <2>2. g[p[1]].gen # p[2]
    <3>1. f[p[1]].gen \in Nat /\ g[p[1]].gen = f[p[1]].gen + 1
      BY <1>4
    <3>2. p[2] <= f[p[1]].gen
      BY <1>4
    <3>3. CASE g[p[1]].gen = p[2]
      BY <3>1, <3>2, <3>3
    <3> QED
      BY <3>3
  <2> QED
    BY <1>1, <2>1, <2>2 DEF SourceOccupied
<1> QED
  BY <1>2, <1>3, <1>4

(* The sources of the pool, for ReservedAlike.                             *)
LEMMA SourcesKnown ==
    ASSUME OInv, NEW x \in Session, rt[x].src # None
    PROVE  rt[x].src[1] \in Session /\ rt[x].src[2] <= rt[rt[x].src[1]].gen
BY RecordFacts DEF OInv, SourcesGood, SourceOver, Runtime, Source

(* A start in a free slot.                                                 *)
LEMMA FreeCounts ==
    ASSUME LInv, NEW s \in Session, NEW turn,
           rt[s].status \in {"stopped", "error"}, AdmitFree(s, turn)
    PROVE  Counted(rt')
<1> DEFINE n == Prepared(rt[s], None, turn)
<1>1. OInv /\ Counted(rt)
  BY DEF LInv
<1>2. Resting(rt[s]) /\ ~rt[s].cleanup /\ CanStart(rt, s)
  BY DEF Resting, AdmitFree, CanPrepare
<1>3. n.gen = rt[s].gen + 1
  BY <1>1, <1>2, PreparedBegins
<1>4. rt' = [rt EXCEPT ![s] = n]
  BY <1>1, RecordFacts DEF AdmitFree
<1> HIDE DEF n
<1>5. rt'[s] = n /\ \A x \in Session \ {s} : rt'[x] = rt[x]
  BY <1>1, <1>4, RecordFacts
<1>6. \A x \in Session \ {s} :
         /\ CountsSlot(rt', x) <=> CountsSlot(rt, x)
         /\ CountsUserSlot(rt', x) <=> CountsUserSlot(rt, x)
  <2> DEFINE A == {s}
  <2>1. \A x \in Session : Sound(rt[x], mode) /\ rt[x].gen \in Nat
    BY <1>1, RecordFacts DEF Sound
  <2>2. \A x \in Session : rt[x].src # None =>
           rt[x].src[1] \in Session /\ rt[x].src[2] <= rt[rt[x].src[1]].gen
    BY <1>1, SourcesKnown
  <2>3. \A x \in A : Resting(rt[x]) /\ ~rt[x].cleanup /\ rt'[x].gen = rt[x].gen + 1
    BY <1>2, <1>3, <1>5
  <2>4. \A x \in Session \ A :
           /\ rt'[x].gen = rt[x].gen /\ rt'[x].src = rt[x].src /\ rt'[x].proc = rt[x].proc
           /\ OccupiesSlot(rt'[x]) <=> OccupiesSlot(rt[x])
    BY <1>5
  <2>5. A \in SUBSET Session
    OBVIOUS
  <2>6. \A x \in Session \ A :
           /\ CountsSlot(rt', x) <=> CountsSlot(rt, x)
           /\ CountsUserSlot(rt', x) <=> CountsUserSlot(rt, x)
    <3> HIDE DEF A
    <3> QED
      BY <2>1, <2>2, <2>3, <2>4, <2>5, ReservedAlike
  <2> QED
    BY <2>6
<1> DEFINE A == {s}
<1>7. A \in SUBSET Session /\ Cardinality(A) = 1
  BY FS_Singleton
<1>8. Cardinality(Slots(rt')) <= MaxActive
  <2>1. Slots(rt') \in SUBSET (PoolSet(rt) \cup A)
    BY <1>5, <1>6 DEF Slots, PoolSet
  <2>2. Cardinality(PoolSet(rt)) < MaxActive /\ PoolSet(rt) \in SUBSET Session
    BY <1>2, CountedSets DEF CanStart
  <2> HIDE DEF A
  <2>3. /\ Cardinality(Slots(rt')) \in Nat /\ Cardinality(PoolSet(rt)) \in Nat
        /\ Cardinality(Slots(rt')) <= Cardinality(PoolSet(rt)) + 1
    BY <1>7, <2>1, <2>2, TogetherAtMost
  <2> QED
    BY <2>2, <2>3, PoolAssumption
<1>9. ASSUME NEW u \in User PROVE Cardinality(UserSlots(rt', u)) <= MaxPerUser
  <2>1. CASE u = Owner[s]
    <3>1. UserSlots(rt', u) \in SUBSET (UserSet(rt, u, None) \cup A)
      <4>1. None \notin Session
        BY PoolAssumption
      <4> QED
        BY <1>5, <1>6, <4>1 DEF UserSlots, UserSet
    <3>2. /\ Cardinality(UserSet(rt, u, None)) < MaxPerUser
          /\ UserSet(rt, u, None) \in SUBSET Session
      BY <1>2, <2>1, CountedSets DEF CanStart, UserHasCapacity
    <3> HIDE DEF A
    <3>3. /\ Cardinality(UserSlots(rt', u)) \in Nat
          /\ Cardinality(UserSet(rt, u, None)) \in Nat
          /\ Cardinality(UserSlots(rt', u)) <= Cardinality(UserSet(rt, u, None)) + 1
      BY <1>7, <3>1, <3>2, TogetherAtMost
    <3> QED
      BY <3>2, <3>3, PoolAssumption
  <2>2. CASE u # Owner[s]
    <3>1. UserSlots(rt', u) \in SUBSET UserSlots(rt, u)
      BY <1>5, <1>6, <2>2 DEF UserSlots
    <3>2. UserSlots(rt, u) \in SUBSET Session
      BY CountedSets
    <3>3. Cardinality(UserSlots(rt, u)) <= MaxPerUser
      BY <1>1 DEF Counted
    <3> QED
      BY <3>1, <3>2, <3>3, Fewer, PoolAssumption
  <2> QED
    BY <2>1, <2>2
<1> QED
  BY <1>8, <1>9 DEF Counted

(* A start of s in the slot of the Runtime v, which is claimed.            *)
HandsOver(v, s, turn) ==
    rt' = [rt EXCEPT ![v] = Begin(rt[v], rt[v].gen, "stopped"),
                     ![s] = Prepared(@, <<v, rt[v].gen>>, turn)]

(* The target of a handoff is not counted while its source is, and nobody  *)
(* else is counted otherwise than before.                                  *)
LEMMA HandoffAlike ==
    ASSUME LInv, NEW s \in Session, NEW v \in Session, NEW turn,
           Resting(rt[s]), ~rt[s].cleanup, GenuinelyIdle(rt[v]),
           HandsOver(v, s, turn)
    PROVE  /\ v # s /\ Reserving(rt', s)
           /\ rt'[s].src # None /\ rt'[s].src[1] = v
           /\ \A x \in Session \ {s} :
                 /\ CountsSlot(rt', x) <=> CountsSlot(rt, x)
                 /\ CountsUserSlot(rt', x) <=> CountsUserSlot(rt, x)
                 /\ rt'[x].died <=> rt[x].died
<1> DEFINE src == <<v, rt[v].gen>>
           n == Prepared(rt[s], src, turn)
           b == Begin(rt[v], rt[v].gen, "stopped")
<1>1. OInv
  BY DEF LInv
<1>2. v # s
  BY DEF Resting, GenuinelyIdle
<1>3. n.gen = rt[s].gen + 1 /\ n.src = src /\ Unlaunched(n)
  BY <1>1, PreparedBegins DEF Begins
<1>4. /\ b.gen = rt[v].gen /\ b.src = rt[v].src /\ b.proc = rt[v].proc
      /\ b.died = rt[v].died /\ OccupiesSlot(b) /\ OccupiesSlot(rt[v])
  BY <1>1, RecordFacts
     DEF Begin, Runtime, OccupiesSlot, Live, Finalizing, GenuinelyIdle
<1>5. rt'[s] = n /\ rt'[v] = b /\ \A x \in Session \ {s, v} : rt'[x] = rt[x]
  BY <1>1, <1>2, RecordFacts DEF HandsOver
<1> HIDE DEF n, b
<1>6. \A x \in Session \ {s} :
         /\ CountsSlot(rt', x) <=> CountsSlot(rt, x)
         /\ CountsUserSlot(rt', x) <=> CountsUserSlot(rt, x)
  <2> DEFINE A == {s}
  <2>1. \A x \in Session : Sound(rt[x], mode) /\ rt[x].gen \in Nat
    BY <1>1, RecordFacts DEF Sound
  <2>2. \A x \in Session : rt[x].src # None =>
           rt[x].src[1] \in Session /\ rt[x].src[2] <= rt[rt[x].src[1]].gen
    BY <1>1, SourcesKnown
  <2>3. \A x \in A : Resting(rt[x]) /\ ~rt[x].cleanup /\ rt'[x].gen = rt[x].gen + 1
    BY <1>3, <1>5
  <2>4. \A x \in Session \ A :
           /\ rt'[x].gen = rt[x].gen /\ rt'[x].src = rt[x].src /\ rt'[x].proc = rt[x].proc
           /\ OccupiesSlot(rt'[x]) <=> OccupiesSlot(rt[x])
    BY <1>4, <1>5
  <2>5. A \in SUBSET Session
    OBVIOUS
  <2>6. \A x \in Session \ A :
           /\ CountsSlot(rt', x) <=> CountsSlot(rt, x)
           /\ CountsUserSlot(rt', x) <=> CountsUserSlot(rt, x)
    <3> HIDE DEF A
    <3> QED
      BY <2>1, <2>2, <2>3, <2>4, <2>5, ReservedAlike
  <2> QED
    BY <2>6
<1>7. Reserving(rt', s) /\ rt'[s].src # None /\ rt'[s].src[1] = v
  <2>1. src # None
    <3>1. src \in Session \X (0..MaxGen)
      BY <1>1, RecordFacts DEF Runtime, Generation
    <3> QED
      BY <3>1, PoolAssumption
  <2> QED
    BY <1>3, <1>4, <1>5, <2>1 DEF Reserving, SourceOccupied, Unlaunched
<1>8. \A x \in Session \ {s} : rt'[x].died <=> rt[x].died
  BY <1>4, <1>5
<1> QED
  BY <1>2, <1>6, <1>7, <1>8

LEMMA HandoffCounts ==
    ASSUME LInv, NEW s \in Session, NEW v \in Session, NEW turn,
           Resting(rt[s]), ~rt[s].cleanup, GenuinelyIdle(rt[v]),
           UserHasCapacity(rt, s, v), HandsOver(v, s, turn)
    PROVE  Counted(rt')
<1>1. Counted(rt)
  BY DEF LInv
<1>2. /\ Reserving(rt', s) /\ rt'[s].src[1] = v
      /\ \A x \in Session \ {s} :
            /\ CountsSlot(rt', x) <=> CountsSlot(rt, x)
            /\ CountsUserSlot(rt', x) <=> CountsUserSlot(rt, x)
            /\ rt'[x].died <=> rt[x].died
  BY HandoffAlike
<1>3. Cardinality(Slots(rt')) <= MaxActive
  <2>1. Slots(rt') \in SUBSET Slots(rt)
    BY <1>2 DEF Slots, CountsSlot
  <2>2. Slots(rt) \in SUBSET Session
    BY DEF Slots
  <2>3. Cardinality(Slots(rt)) <= MaxActive
    BY <1>1 DEF Counted
  <2> QED
    BY <2>1, <2>2, <2>3, Fewer, PoolAssumption
<1>4. ASSUME NEW u \in User PROVE Cardinality(UserSlots(rt', u)) <= MaxPerUser
  <2>1. CASE u = Owner[s] /\ Owner[v] # u
    <3> DEFINE A == {s}
    <3>1. UserSlots(rt', u) \in SUBSET (UserSet(rt, u, v) \cup A)
      BY <1>2, <2>1 DEF UserSlots, UserSet
    <3>2. /\ Cardinality(UserSet(rt, u, v)) < MaxPerUser
          /\ UserSet(rt, u, v) \in SUBSET Session
      BY <2>1, CountedSets DEF UserHasCapacity
    <3>3. A \in SUBSET Session /\ Cardinality(A) = 1
      BY FS_Singleton
    <3> HIDE DEF A
    <3>4. /\ Cardinality(UserSlots(rt', u)) \in Nat
          /\ Cardinality(UserSet(rt, u, v)) \in Nat
          /\ Cardinality(UserSlots(rt', u)) <= Cardinality(UserSet(rt, u, v)) + 1
      BY <3>1, <3>2, <3>3, TogetherAtMost
    <3> QED
      BY <3>2, <3>4, PoolAssumption
  <2>2. CASE u # Owner[s] \/ Owner[v] = u
    <3>1. UserSlots(rt', u) \in SUBSET UserSlots(rt, u)
      BY <1>2, <2>2 DEF UserSlots, CountsUserSlot
    <3>2. UserSlots(rt, u) \in SUBSET Session
      BY CountedSets
    <3>3. Cardinality(UserSlots(rt, u)) <= MaxPerUser
      BY <1>1 DEF Counted
    <3> QED
      BY <3>1, <3>2, <3>3, Fewer, PoolAssumption
  <2> QED
    BY <2>1, <2>2
<1> QED
  BY <1>3, <1>4 DEF Counted

(* The Sessions of A still fit into the state f of the pool.               *)
RoomFor(f, A) ==
    /\ Occupied(f) \in Nat /\ Occupied(f) + Cardinality(A) <= MaxActive
    /\ \A u \in User :
          LET mine == {x \in A : Owner[x] = u} IN
          mine # {} =>
             /\ UserOccupied(f, u, None) \in Nat
             /\ UserOccupied(f, u, None) + Cardinality(mine) <= MaxPerUser

(* The service of the queue from the state f admits, of the Sessions A at  *)
(* the positions I, no more than the pool and each Web User have room for. *)
LEMMA RoomForAdmitted ==
    ASSUME NEW q \in Seq(Session), NEW f, Admitted(f, q) # {},
           NEW A, A = {q[i] : i \in Admitted(f, q)}
    PROVE  RoomFor(f, A)
<1> DEFINE I == Admitted(f, q)
           W == WithinQuota(f, q)
<1>1. I \in SUBSET W /\ W \in SUBSET (DOMAIN q)
  BY DEF Admitted, WithinQuota
<1>2. A \in SUBSET Session
  BY <1>1
<1>3. Occupied(f) \in Nat /\ \A u : UserOccupied(f, u, None) \in Nat
  BY CountedSets, Fewer
<1>4. \A i \in I : Occupied(f) + Cardinality({j \in W : j < i}) < MaxActive
  BY DEF Admitted
<1>5. \A i \in I : UserOccupied(f, Owner[q[i]], None)
                     + Cardinality({j \in 1..(i - 1) : Owner[q[j]] = Owner[q[i]]}) < MaxPerUser
  BY <1>1 DEF WithinQuota
<1>6. A = {q[i] : i \in I} /\ I # {}
  OBVIOUS
<1> HIDE DEF I, W
<1>7. Cardinality(A) \in Nat /\ Cardinality(A) <= Cardinality(I)
  BY <1>1, <1>2, <1>6, ItemsAtMost, Fewer
<1>8. Occupied(f) + Cardinality(A) <= MaxActive
  <2>1. PICK m \in I : /\ Cardinality({j \in W : j < m}) \in Nat
                       /\ Cardinality(I) \in Nat
                       /\ Cardinality(I) <= Cardinality({j \in W : j < m}) + 1
    BY <1>1, <1>6, UpToTheLast
  <2>2. Occupied(f) + Cardinality({j \in W : j < m}) < MaxActive
    BY <1>4
  <2> DEFINE c == Cardinality({j \in W : j < m})
  <2>3. c \in Nat /\ Cardinality(I) \in Nat /\ Cardinality(I) <= c + 1
        /\ Occupied(f) + c < MaxActive
    BY <2>1, <2>2
  <2> HIDE DEF c
  <2> QED
    BY <1>3, <1>7, <2>3, PoolAssumption
<1>9. ASSUME NEW u \in User, {x \in A : Owner[x] = u} # {}
      PROVE  UserOccupied(f, u, None) + Cardinality({x \in A : Owner[x] = u}) <= MaxPerUser
  <2> DEFINE mine == {x \in A : Owner[x] = u}
             J == {i \in I : Owner[q[i]] = u}
             K == {i \in DOMAIN q : Owner[q[i]] = u}
  <2>1. mine = {q[i] : i \in J} /\ J # {} /\ J \in SUBSET K /\ K \in SUBSET (DOMAIN q)
    BY <1>1, <1>6, <1>9
  <2>2. J \in SUBSET I /\ \A i \in J : Owner[q[i]] = u
    OBVIOUS
  <2>3. \A i \in J : {j \in K : j < i} = {j \in 1..(i - 1) : Owner[q[j]] = u}
    <3>1. Len(q) \in Nat /\ DOMAIN q = 1..Len(q)
      OBVIOUS
    <3>2. \A i \in J : i \in 1..Len(q)
      BY <2>1, <3>1
    <3> QED
      BY <3>1, <3>2
  <2>4. mine \in SUBSET Session
    BY <1>2
  <2> HIDE DEF mine, J, K
  <2>5. Cardinality(mine) \in Nat /\ Cardinality(mine) <= Cardinality(J)
    <3>1. J \in SUBSET (DOMAIN q)
      BY <2>1
    <3> QED
      BY <2>1, <2>4, <3>1, ItemsAtMost, Fewer
  <2>6. PICK m \in J : /\ Cardinality({j \in K : j < m}) \in Nat
                       /\ Cardinality(J) \in Nat
                       /\ Cardinality(J) <= Cardinality({j \in K : j < m}) + 1
    BY <2>1, UpToTheLast
  <2> DEFINE c == Cardinality({j \in K : j < m})
  <2>7. UserOccupied(f, u, None) + c < MaxPerUser
    <3>1. /\ m \in I /\ Owner[q[m]] = u
          /\ {j \in K : j < m} = {j \in 1..(m - 1) : Owner[q[j]] = u}
      BY <2>2, <2>3
    <3>2. UserOccupied(f, Owner[q[m]], None)
            + Cardinality({j \in 1..(m - 1) : Owner[q[j]] = Owner[q[m]]}) < MaxPerUser
      BY <1>5, <3>1
    <3> QED
      BY <3>1, <3>2
  <2>8. c \in Nat /\ Cardinality(J) \in Nat /\ Cardinality(J) <= c + 1
    BY <2>6
  <2> HIDE DEF c
  <2>9. UserOccupied(f, u, None) + Cardinality(mine) <= MaxPerUser
    BY <1>3, <2>5, <2>7, <2>8, PoolAssumption
  <2> QED
    BY <2>9 DEF mine
<1> QED
  BY <1>3, <1>8, <1>9 DEF RoomFor

(* The service of the queue.                                               *)
LEMMA ScheduleCounts ==
    ASSUME LInv, NEW f,
           \A x \in Session : Sound(f[x], mode) /\ Follows(rt[x], f[x]),
           ScheduleWaiting(f)
    PROVE  Counted(rt')
<1> DEFINE I == IF mode = "open" THEN Admitted(f, queue) ELSE {}
           A == {queue[i] : i \in I}
<1>1. OInv /\ queue \in Seq(Session)
  BY DEF LInv, OInv, IInv, TypeOK
<1>2. rt' = [x \in Session |-> IF x \in A THEN Prepared(f[x], None, TRUE) ELSE f[x]]
  BY DEF ScheduleWaiting
<1>3. \A i \in I : i \in DOMAIN queue /\ f[queue[i]].status = "queued"
  BY DEF Admitted, WithinQuota
<1>4. Counted(f)
  BY PassCounts DEF Follows
<1>5. I # {} => I = Admitted(f, queue)
  OBVIOUS
<1> HIDE DEF I
<1>6. A \in SUBSET Session /\ \A x \in A : f[x].status = "queued"
  BY <1>1, <1>3
<1>7. I = {} => A = {}
  OBVIOUS
<1>8. I # {} => A = {queue[i] : i \in Admitted(f, queue)}
  BY <1>5
<1> HIDE DEF A
<1>9. \A x \in Session \ A : rt'[x] = f[x]
  BY <1>2
<1>10. \A x \in A : Resting(f[x]) /\ ~f[x].cleanup /\ rt'[x].gen = f[x].gen + 1
  <2> SUFFICES ASSUME NEW x \in A
               PROVE  Resting(f[x]) /\ ~f[x].cleanup /\ rt'[x].gen = f[x].gen + 1
    OBVIOUS
  <2>1. f[x].status = "queued" /\ Sound(f[x], mode)
    BY <1>6
  <2>2. Resting(f[x]) /\ ~f[x].cleanup
    BY <2>1 DEF Sound, Good, Resting
  <2>3. rt'[x] = Prepared(f[x], None, TRUE)
    BY <1>2, <1>6
  <2>4. rt'[x].gen = f[x].gen + 1
    BY <2>1, <2>3 DEF Prepared, Sound, Runtime
  <2> QED
    BY <2>2, <2>4
<1>11. \A x \in Session \ A :
          /\ CountsSlot(rt', x) <=> CountsSlot(f, x)
          /\ CountsUserSlot(rt', x) <=> CountsUserSlot(f, x)
  <2>1. \A x \in Session : Sound(f[x], mode) /\ f[x].gen \in Nat
    BY DEF Sound, Runtime, Generation
  <2>2. \A x \in Session : f[x].src # None =>
           f[x].src[1] \in Session /\ f[x].src[2] <= f[f[x].src[1]].gen
    BY <1>1, SourcesKnown DEF Follows, Passes
  <2>3. \A x \in Session \ A :
           /\ rt'[x].gen = f[x].gen /\ rt'[x].src = f[x].src /\ rt'[x].proc = f[x].proc
           /\ OccupiesSlot(rt'[x]) <=> OccupiesSlot(f[x])
    BY <1>9
  <2> QED
    BY <1>6, <1>10, <2>1, <2>2, <2>3, ReservedAlike
<1>12. CASE I = {}
  <2>1. Slots(rt') = Slots(f) /\ \A u \in User : UserSlots(rt', u) = UserSlots(f, u)
    BY <1>7, <1>9, <1>11, <1>12 DEF Slots, UserSlots
  <2> QED
    BY <1>4, <2>1 DEF Counted
<1>13. CASE I # {}
  <2>1. RoomFor(f, A)
    <3>1. Admitted(f, queue) # {} /\ A = {queue[i] : i \in Admitted(f, queue)}
      BY <1>5, <1>8, <1>13
    <3> QED
      BY <1>1, <3>1, RoomForAdmitted
  <2>2. Cardinality(Slots(rt')) <= MaxActive
    <3>1. Slots(rt') \in SUBSET (PoolSet(f) \cup A)
      BY <1>11 DEF Slots, PoolSet
    <3>2. Occupied(f) = Cardinality(PoolSet(f)) /\ PoolSet(f) \in SUBSET Session
      BY CountedSets
    <3>3. /\ Cardinality(Slots(rt')) \in Nat /\ Cardinality(A) \in Nat
          /\ Cardinality(Slots(rt')) <= Occupied(f) + Cardinality(A)
      BY <1>6, <3>1, <3>2, TogetherAtMost
    <3> QED
      BY <2>1, <3>3, PoolAssumption DEF RoomFor
  <2>3. ASSUME NEW u \in User PROVE Cardinality(UserSlots(rt', u)) <= MaxPerUser
    <3> DEFINE mine == {x \in A : Owner[x] = u}
    <3>1. CASE mine = {}
      <4>1. UserSlots(rt', u) \in SUBSET UserSlots(f, u)
        BY <1>9, <1>11, <3>1 DEF UserSlots
      <4>2. UserSlots(f, u) \in SUBSET Session
        BY CountedSets
      <4>3. Cardinality(UserSlots(f, u)) <= MaxPerUser
        BY <1>4 DEF Counted
      <4> QED
        BY <4>1, <4>2, <4>3, Fewer, PoolAssumption
    <3>2. CASE mine # {}
      <4>1. UserSlots(rt', u) \in SUBSET (UserSet(f, u, None) \cup mine)
        <5>1. None \notin Session
          BY PoolAssumption
        <5> QED
          BY <1>11, <5>1 DEF UserSlots, UserSet
      <4>2. /\ UserOccupied(f, u, None) = Cardinality(UserSet(f, u, None))
            /\ UserSet(f, u, None) \in SUBSET Session
        BY CountedSets
      <4>3. /\ UserOccupied(f, u, None) \in Nat
            /\ UserOccupied(f, u, None) + Cardinality(mine) <= MaxPerUser
        BY <2>1, <3>2 DEF RoomFor
      <4>4. mine \in SUBSET Session
        BY <1>6
      <4> HIDE DEF mine
      <4>5. /\ Cardinality(UserSlots(rt', u)) \in Nat /\ Cardinality(mine) \in Nat
            /\ Cardinality(UserSlots(rt', u))
                 <= UserOccupied(f, u, None) + Cardinality(mine)
        BY <4>1, <4>2, <4>4, TogetherAtMost
      <4> QED
        BY <4>3, <4>5, PoolAssumption
    <3> QED
      BY <3>1, <3>2
  <2> QED
    BY <2>2, <2>3 DEF Counted
<1> QED
  BY <1>12, <1>13

-----------------------------------------------------------------------------
(* Starts.                                                                 *)

(* Who counts in g counted in f.                                           *)
LEMMA NoMoreCounted ==
    ASSUME NEW f, NEW g, Counted(f), Slots(g) \in SUBSET Slots(f),
           \A u \in User : UserSlots(g, u) \in SUBSET UserSlots(f, u)
    PROVE  Counted(g)
<1>1. Cardinality(Slots(g)) <= MaxActive
  <2>1. Slots(f) \in SUBSET Session /\ Cardinality(Slots(f)) <= MaxActive
    BY DEF Slots, Counted
  <2> QED
    BY <2>1, Fewer, PoolAssumption
<1>2. ASSUME NEW u \in User PROVE Cardinality(UserSlots(g, u)) <= MaxPerUser
  <2>1. UserSlots(f, u) \in SUBSET Session /\ Cardinality(UserSlots(f, u)) <= MaxPerUser
    BY DEF UserSlots, Counted
  <2> QED
    BY <2>1, Fewer, PoolAssumption
<1> QED
  BY <1>1, <1>2 DEF Counted

(* A Session that reserves nothing and holds its slot before and after.    *)
LEMMA HeldCounts ==
    ASSUME LInv, NEW s \in Session, NEW n, rt' = [rt EXCEPT ![s] = n],
           n.gen = rt[s].gen, n.died = rt[s].died,
           OccupiesSlot(rt[s]), OccupiesSlot(n), ~SourceOccupied(rt, rt[s])
    PROVE  Counted(rt')
<1>1. OInv /\ Counted(rt)
  BY DEF LInv
<1>2. rt'[s] = n /\ \A x \in Session \ {s} : rt'[x] = rt[x]
  BY <1>1, RecordFacts
<1>3. \A x \in Session : rt'[x].gen = rt[x].gen /\ (rt'[x].died <=> rt[x].died)
                         /\ (OccupiesSlot(rt'[x]) <=> OccupiesSlot(rt[x]))
  BY <1>2
<1>4. ASSUME NEW x \in Session, Reserving(rt, x)
      PROVE  Reserving(rt', x) /\ rt'[x].src = rt[x].src
  <2>1. x # s /\ rt'[x] = rt[x]
    BY <1>2, <1>4 DEF Reserving
  <2>2. rt[x].src # None /\ rt[x].src[1] \in Session
    BY <1>1, <1>4, SourceCounts DEF Reserving
  <2> QED
    BY <1>3, <1>4, <2>1, <2>2 DEF Reserving, SourceOccupied
<1>5. \A x \in Session : /\ CountsSlot(rt', x) => CountsSlot(rt, x)
                         /\ CountsUserSlot(rt', x) => CountsUserSlot(rt, x)
  BY <1>3, <1>4 DEF CountsSlot, CountsUserSlot
<1>6. Slots(rt') \in SUBSET Slots(rt)
  BY <1>3, <1>5 DEF Slots
<1>7. \A u \in User : UserSlots(rt', u) \in SUBSET UserSlots(rt, u)
  BY <1>3, <1>5 DEF UserSlots
<1> QED
  BY <1>1, <1>6, <1>7, NoMoreCounted

(* The check of a start, and its launch.                                   *)
LEMMA StartCounts ==
    ASSUME LInv, OInv', NEW t \in starts, StartChecks(t) \/ StartLaunches(t)
    PROVE  Counted(rt')
<1> DEFINE s == t.sess
<1>1. /\ OInv /\ s \in Session /\ rt \in [Session -> Runtime] /\ Sound(rt[s], mode)
      /\ \A x \in Session : Sound(rt[x], mode) /\ Sound(rt'[x], mode')
  <2>1. OInv /\ s \in Session
    BY TaskFacts DEF LInv
  <2>2. \A x \in Session : Sound(rt'[x], mode')
    BY DEF OInv, IInv, TypeOK, Sound
  <2> QED
    BY <2>1, <2>2, RecordFacts DEF Sound
<1>2. t.at # "source" => t.gen = rt[s].gen /\ Held(rt[s]) /\ rt[s].src = None
                         /\ (t.at # "ready" => Unlaunched(rt[s]))
  BY <1>1, TaskFacts DEF OInv, StartsGood
<1>3. CASE StartChecks(t)
  <2>1. CASE UNCHANGED rt
    BY <2>1 DEF LInv, Counted
  <2>2. CASE StartIsCurrent(t) /\ rt' = [rt EXCEPT ![s] = Begin(@, t.gen, "error")]
    <3>1. rt[s].status = "starting"
      BY <2>2 DEF StartIsCurrent
    <3>2. Follows(rt[s], Begin(rt[s], t.gen, "error"))
      BY <1>1, <3>1, BeginFollows DEF Sound
    <3>3. rt'[s] = Begin(rt[s], t.gen, "error") /\ \A x \in Session \ {s} : rt'[x] = rt[x]
      BY <1>1, <2>2
    <3>4. \A x \in Session : Passes(rt[x], rt'[x])
      BY <1>1, <3>2, <3>3, Stays DEF Follows
    <3> QED
      BY <1>1, <3>4, PassCounts
  <2>3. CASE /\ StartIsCurrent(t) /\ ~SourceOccupied(rt, rt[s])
             /\ rt' = [rt EXCEPT ![s].src = None]
    <3> DEFINE n == [rt[s] EXCEPT !.src = None]
    <3>1. rt' = [rt EXCEPT ![s] = n] /\ rt[s].status = "starting"
      BY <1>1, <2>3 DEF StartIsCurrent
    <3>2. n.gen = rt[s].gen /\ n.died = rt[s].died /\ n.status = "starting"
      BY <1>1, <3>1 DEF Sound, Runtime
    <3> HIDE DEF n
    <3>3. OccupiesSlot(rt[s]) /\ OccupiesSlot(n)
      BY <3>1, <3>2 DEF OccupiesSlot
    <3> QED
      BY <1>1, <2>3, <3>1, <3>2, <3>3, HeldCounts
  <2> QED
    BY <1>3, <2>1, <2>2, <2>3 DEF StartChecks
<1>4. CASE StartLaunches(t)
  <2> DEFINE r == [rt[s] EXCEPT !.proc = "live", !.ref = TRUE]
             n == IF StartIsCurrent(t) THEN r ELSE Begin(r, t.gen, "stopped")
  <2>1. t.at = "launching" /\ rt' = [rt EXCEPT ![s] = n]
    BY <1>4 DEF StartLaunches
  <2>2. /\ rt[s].status \in {"starting", "stopping"} /\ rt[s].src = None
    BY <1>1, <1>2, <2>1 DEF Held, Sound, Good, Unlaunched
  <2>3. r.gen = rt[s].gen /\ r.died = rt[s].died /\ r.proc = "live"
        /\ r \in Runtime
    BY <1>1 DEF Sound, Runtime
  <2>4. n.gen = rt[s].gen /\ n.died = rt[s].died /\ n.proc = "live"
    <3> HIDE DEF r
    <3>1. Begin(r, t.gen, "stopped").gen = r.gen /\ Begin(r, t.gen, "stopped").died = r.died
          /\ Begin(r, t.gen, "stopped").proc = r.proc
      BY <2>3 DEF Begin, Runtime
    <3> QED
      BY <2>3, <3>1
  <2> HIDE DEF n
  <2>5. OccupiesSlot(rt[s]) /\ OccupiesSlot(n) /\ ~SourceOccupied(rt, rt[s])
    BY <2>2, <2>4 DEF OccupiesSlot, Finalizing, Live, SourceOccupied
  <2> QED
    BY <1>1, <2>1, <2>4, <2>5, HeldCounts
<1> QED
  BY <1>3, <1>4

-----------------------------------------------------------------------------
(* The invariant, and what follows from it.                                *)

(* No step counts more Sessions than the limits allow.                     *)
LEMMA NextLInv == LInv /\ [Next]_vars => LInv'
<1> SUFFICES ASSUME LInv, [Next]_vars PROVE LInv'
  OBVIOUS
<1>1. OInv /\ OInv' /\ (Passing \/ Admitting)
  BY NextOInv DEF LInv, Advances
<1>2. \A x \in Session : Sound(rt[x], mode) /\ Sound(rt'[x], mode')
  <2>1. \A x \in Session : Sound(rt'[x], mode')
    BY <1>1 DEF OInv, IInv, TypeOK, Sound
  <2> QED
    BY <1>1, <2>1, RecordFacts DEF Sound
<1> SUFFICES Counted(rt')
  BY <1>1 DEF LInv
<1>3. CASE Passing
  BY <1>2, <1>3, PassCounts DEF Passing
<1>4. ASSUME NEW s \in Session, NEW turn \in BOOLEAN,
             rt[s].status \in {"stopped", "error"}, mode = "open",
             AdmitFree(s, turn) \/ AdmitEvicting(s, turn)
      PROVE  Counted(rt')
  <2>1. CASE AdmitFree(s, turn)
    BY <1>4, <2>1, FreeCounts
  <2>2. CASE AdmitEvicting(s, turn)
    <3>1. PICK v \in Evictable(rt, s) :
             rt' = [rt EXCEPT ![v] = Begin(@, @.gen, "stopped"),
                              ![s] = Prepared(@, <<v, rt[v].gen>>, turn)]
      BY <2>2 DEF AdmitEvicting
    <3>2. /\ v \in Session /\ GenuinelyIdle(rt[v]) /\ UserHasCapacity(rt, s, v)
          /\ Resting(rt[s]) /\ ~rt[s].cleanup
      BY <1>4, <2>2 DEF AdmitEvicting, CanPrepare, Evictable, Resting
    <3>3. HandsOver(v, s, turn)
      BY <1>1, <3>1, <3>2, RecordFacts DEF HandsOver
    <3> QED
      BY <3>2, <3>3, HandoffCounts
  <2> QED
    BY <1>4, <2>1, <2>2
<1>5. ASSUME NEW s \in Session, ActivateAdmits(s) \/ SendAdmits(s)
      PROVE  Counted(rt')
  <2>1. PICK turn \in BOOLEAN :
           /\ rt[s].status \in {"stopped", "error"} /\ mode = "open"
           /\ AdmitFree(s, turn) \/ AdmitEvicting(s, turn)
    BY <1>5 DEF ActivateAdmits, SendAdmits, Restartable, Sendable
  <2> QED
    BY <1>4, <2>1
<1>6. ASSUME NEW s \in Session, DispatchFromIdle(s)
      PROVE  Counted(rt')
  <2>1. CASE UNCHANGED rt
    BY <2>1 DEF LInv, Counted
  <2>2. CASE CanDispatch(s) /\ ~UNCHANGED rt
    <3> DEFINE target == queue[First(EligibleFor(rt, queue, s))]
    <3>1. rt' = [rt EXCEPT ![s] = Begin(@, @.gen, "stopped"),
                           ![target] = Prepared(@, <<s, rt[s].gen>>, TRUE)]
      BY <1>6, <2>2 DEF DispatchFromIdle
    <3>2. /\ target \in Session /\ rt[target].status = "queued"
          /\ UserHasCapacity(rt, target, s)
      BY <1>1, <2>2, DispatchTarget DEF OInv
    <3> HIDE DEF target
    <3>3. HandsOver(s, target, TRUE)
      BY <1>1, <3>1, <3>2, RecordFacts DEF HandsOver
    <3>4. GenuinelyIdle(rt[s]) /\ Resting(rt[target]) /\ ~rt[target].cleanup
      BY <1>2, <2>2, <3>2 DEF CanDispatch, Sound, Good, Resting
    <3> DEFINE turn == TRUE
    <3>5. HandsOver(s, target, turn)
      BY <3>3
    <3> HIDE DEF turn
    <3> QED
      BY <3>2, <3>4, <3>5, HandoffCounts
  <2> QED
    BY <1>6, <2>1, <2>2 DEF DispatchFromIdle
<1>7. ASSUME NEW s \in Session, FinalizerConverges(s)
      PROVE  Counted(rt')
  <2> DEFINE c == Converged(rt[s])
             f == [rt EXCEPT ![s] = c]
  <2>1. rt[s].fin \in {"hooks", "kept"} /\ Sound(rt[s], mode)
    BY <1>2, <1>7 DEF FinalizerConverges
  <2>2. Sound(c, mode) /\ Follows(rt[s], c)
    <3>1. Good(c, mode) /\ Follows(rt[s], c)
      BY <2>1, ConvergedFollows DEF Sound
    <3>2. c \in Runtime /\ Owned(c)
      BY <2>1, ConvergedKeeps DEF Sound
    <3> QED
      BY <3>1, <3>2 DEF Sound
  <2>3. ScheduleWaiting(f)
    BY <1>1, <1>7, RecordFacts DEF FinalizerConverges
  <2> HIDE DEF c
  <2>4. f[s] = c /\ \A x \in Session \ {s} : f[x] = rt[x]
    BY <1>1, RecordFacts
  <2> HIDE DEF f
  <2>5. \A x \in Session : Sound(f[x], mode) /\ Follows(rt[x], f[x])
    BY <1>1, <1>2, <2>2, <2>4, Stays
  <2> QED
    BY <2>3, <2>5, ScheduleCounts
<1>8. CASE SweepEnds
  <2>1. \A x \in Session : Sound(rt[x], mode) /\ Follows(rt[x], rt[x])
    BY <1>1, <1>2, Stays
  <2>2. ScheduleWaiting(rt)
    BY <1>8 DEF SweepEnds
  <2> QED
    BY <2>1, <2>2, ScheduleCounts
<1>9. ASSUME NEW t \in starts, StartChecks(t) \/ StartLaunches(t)
      PROVE  Counted(rt')
  BY <1>1, <1>9, StartCounts
<1> QED
  BY <1>1, <1>3, <1>5, <1>6, <1>7, <1>8, <1>9 DEF Admitting

(* Before the first call nothing is counted.                               *)
LEMMA InitLInv == Init => LInv
<1> SUFFICES ASSUME Init PROVE LInv
  OBVIOUS
<1>1. OInv
  BY InitOInv
<1>2. \A s \in Session : ~OccupiesSlot(rt[s])
  BY DEF Init, Fresh, OccupiesSlot, Finalizing, Live
<1>3. Slots(rt) = {} /\ \A u : UserSlots(rt, u) = {}
  BY <1>2 DEF Slots, UserSlots, CountsSlot, CountsUserSlot
<1>4. Cardinality({}) = 0
  BY FS_EmptySet
<1> QED
  BY <1>1, <1>3, <1>4, PoolAssumption DEF LInv, Counted

(* A Session in a Sandbox that has not died by itself is counted.          *)
LEMMA SandboxCounts ==
    ASSUME OInv, NEW s \in Session, HasSandbox(s), ~rt[s].died
    PROVE  s \in Slots(rt) /\ s \in UserSlots(rt, Owner[s])
<1>1. Sound(rt[s], mode)
  BY RecordFacts DEF Sound
<1>2. rt[s].status \in Status /\ rt[s].proc \in {"none", "live", "exited"}
  BY <1>1 DEF Sound, Runtime
<1>3. OccupiesSlot(rt[s]) /\ rt[s].src = None
  <2>1. CASE rt[s].proc = "live" \/ rt[s].ref
    <3>1. ~Unlaunched(rt[s]) /\ rt[s].src = None
      BY <1>1, <2>1 DEF Sound, Good, Unlaunched
    <3>2. OccupiesSlot(rt[s])
      BY <1>1, <1>2, <2>1, <3>1
         DEF Sound, Good, Status, Resting, Up, Over, OccupiesSlot, Finalizing, Live
    <3> QED
      BY <3>1, <3>2
  <2>2. ASSUME NEW t \in starts, t.sess = s, t.at = "launching"
        PROVE  OccupiesSlot(rt[s]) /\ rt[s].src = None
    <3>1. t.gen = rt[s].gen /\ Held(rt[s])
      BY <2>2, TaskFacts
    <3>2. Unlaunched(rt[s]) /\ rt[s].src = None
      BY <2>2, <3>1 DEF OInv, StartsGood
    <3>3. rt[s].status \in {"starting", "stopping"}
      BY <1>1, <3>1, <3>2 DEF Held, Sound, Good, Unlaunched
    <3> QED
      BY <3>2, <3>3 DEF OccupiesSlot, Finalizing
  <2> QED
    BY <2>1, <2>2 DEF HasSandbox, Live
<1>4. ~Reserving(rt, s)
  BY <1>3 DEF Reserving, SourceOccupied
<1> QED
  BY <1>3, <1>4 DEF Slots, UserSlots, CountsSlot, CountsUserSlot

LEMMA LimitsHold == Spec => []LInv
BY InitLInv, NextLInv, PTL DEF Spec

(* sandbox_max_active and sandbox_max_active_per_user hold for the         *)
(* Sandboxes that exist, also while a slot is handed from one Session to   *)
(* another, across Web Users, and however calls, starts and finalizers     *)
(* interleave; _occupies_slot, _source_occupies_slot and                   *)
(* _schedule_waiting never count one too few.                              *)
THEOREM LimitsAreKept == Spec => []LimitsRespected
<1>1. ASSUME LInv PROVE LimitsRespected
  <2> DEFINE B == {s \in Session : HasSandbox(s) /\ ~rt[s].died}
  <2>1. OInv /\ Counted(rt)
    BY <1>1 DEF LInv
  <2>2. B \in SUBSET Slots(rt) /\ Slots(rt) \in SUBSET Session
    BY <2>1, SandboxCounts DEF Slots
  <2>3. Cardinality(B) <= MaxActive
    BY <2>1, <2>2, Fewer, PoolAssumption DEF Counted
  <2>4. ASSUME NEW u \in User PROVE Cardinality({s \in B : Owner[s] = u}) <= MaxPerUser
    <3>1. /\ {s \in B : Owner[s] = u} \in SUBSET UserSlots(rt, u)
          /\ UserSlots(rt, u) \in SUBSET Session
      BY <2>1, SandboxCounts DEF UserSlots
    <3>2. Cardinality(UserSlots(rt, u)) <= MaxPerUser
      BY <2>1 DEF Counted
    <3> QED
      BY <3>1, <3>2, Fewer, PoolAssumption
  <2> QED
    BY <2>3, <2>4 DEF LimitsRespected
<1> QED
  BY <1>1, LimitsHold, PTL

-----------------------------------------------------------------------------
(* Positions of a queue.                                                   *)

(* A set that lacks a member of a finite one is smaller.                   *)
LEMMA Smaller ==
    ASSUME NEW B, IsFiniteSet(B), NEW C \in SUBSET B, NEW x \in B \ C
    PROVE  Cardinality(B) \in Nat /\ Cardinality(C) \in Nat
           /\ Cardinality(C) < Cardinality(B)
<1>1. /\ IsFiniteSet(C) /\ Cardinality(C) \in Nat /\ Cardinality(B) \in Nat
      /\ Cardinality(C) <= Cardinality(B)
  BY FS_Subset, FS_CardinalityType
<1>2. Cardinality(C) = Cardinality(B) => C = B
  BY FS_Subset
<1> QED
  BY <1>1, <1>2

(* Each position of a queue without repetitions is another Session.        *)
LEMMA ItemsAlike ==
    ASSUME NEW q \in Seq(Session), \A i, j \in DOMAIN q : q[i] = q[j] => i = j,
           NEW L \in SUBSET (DOMAIN q), NEW T \in SUBSET Session,
           \A l \in L : q[l] \in T
    PROVE  Cardinality(L) \in Nat /\ Cardinality(T) \in Nat
           /\ Cardinality(L) <= Cardinality(T)
<1> DEFINE g == [l \in L |-> q[l]]
<1>1. g \in [L -> T] /\ \A x, y \in L : g[x] = g[y] => x = y
  OBVIOUS
<1>2. IsFiniteSet(T) /\ Cardinality(T) \in Nat
  BY Fewer
<1>3. Cardinality(L) \in Nat
  BY ItemsAtMost
<1> HIDE DEF g
<1>4. g \in Injection(L, T)
  BY <1>1 DEF Injection, IsInjective
<1> QED
  BY <1>2, <1>3, <1>4, FS_Injection

Before(K, l) == {j \in K : j < l}

(* The positions that hold an item of the user u.                          *)
OfUser(q, I, u) == {i \in I : Owner[q[i]] = u}

(* The first m of the positions K: before each of them there are fewer.    *)
LEMMA FirstFew ==
    ASSUME NEW q \in Seq(Session), NEW K \in SUBSET (DOMAIN q),
           NEW m \in 1..Cardinality(K)
    PROVE  \E L \in SUBSET K :
              /\ Cardinality(L) = m
              /\ \A l \in L : /\ Cardinality(Before(K, l)) \in Nat
                              /\ Cardinality(Before(K, l)) < m
<1> DEFINE n == Len(q)
           k == KthOf(K, m)
           L == {j \in K : j <= k}
<1>1. n \in Nat /\ K \in SUBSET (1..n)
  OBVIOUS
<1>2. k \in K /\ Cardinality(L) = m
  BY <1>1, KthExists
<1>3. \A j \in K : j \in Nat
  OBVIOUS
<1>4. IsFiniteSet(L)
  BY ItemsAtMost
<1>5. ASSUME NEW l \in L
      PROVE  Cardinality(Before(K, l)) \in Nat /\ Cardinality(Before(K, l)) < m
  <2> DEFINE C == {j \in K : j < l}
  <2>1. l \in K /\ l <= k /\ l \in Nat /\ k \in Nat
    BY <1>2, <1>3
  <2>2. C \in SUBSET L
    BY <1>3, <2>1
  <2>3. l \in L \ C
    BY <2>1
  <2> HIDE DEF L, C
  <2>4. Cardinality(C) \in Nat /\ Cardinality(C) < Cardinality(L)
    BY <1>4, <2>2, <2>3, Smaller
  <2> QED
    BY <1>2, <2>4 DEF C, Before
<1>6. L \in SUBSET K
  OBVIOUS
<1> HIDE DEF L
<1> QED
  BY <1>2, <1>5, <1>6

-----------------------------------------------------------------------------
(* The service of the queue.                                               *)

(* The state g after the items of the queue q at the positions I have been *)
(* admitted in the state f.                                                *)
ItemsAt(q, I) == {q[i] : i \in I}

Served(f, g, q, I) ==
    \A x \in Session :
        g[x] = IF x \in ItemsAt(q, I) THEN Prepared(f[x], None, TRUE) ELSE f[x]

(* A state of the pool, as far as counting goes.                           *)
States(f, m) ==
    /\ \A x \in Session : Sound(f[x], m) /\ f[x].gen \in Nat
    /\ \A x \in Session : f[x].src # None =>
          f[x].src[1] \in Session /\ f[x].src[2] <= f[f[x].src[1]].gen

(* Who is admitted begins to count, for the pool and for its user; nobody  *)
(* else does.                                                              *)
LEMMA ServiceCounts ==
    ASSUME NEW f, NEW g, NEW m, NEW q \in Seq(Session), NEW I \in SUBSET (DOMAIN q),
           States(f, m), Served(f, g, q, I), \A i \in I : f[q[i]].status = "queued"
    PROVE  /\ ItemsAt(q, I) \in SUBSET Session
           /\ \A x \in ItemsAt(q, I) : /\ CountsSlot(g, x) /\ CountsUserSlot(g, x)
                                       /\ ~CountsSlot(f, x) /\ ~CountsUserSlot(f, x)
           /\ \A x \in Session \ ItemsAt(q, I) :
                 /\ CountsSlot(g, x) <=> CountsSlot(f, x)
                 /\ CountsUserSlot(g, x) <=> CountsUserSlot(f, x)
<1> DEFINE A == ItemsAt(q, I)
<1>1. A \in SUBSET Session /\ \A x \in A : f[x].status = "queued"
  BY DEF ItemsAt
<1>2. \A x \in Session : g[x] = IF x \in A THEN Prepared(f[x], None, TRUE) ELSE f[x]
  BY DEF Served
<1> HIDE DEF A
<1>3. ASSUME NEW x \in A
      PROVE  /\ Resting(f[x]) /\ ~f[x].cleanup /\ ~OccupiesSlot(f[x])
             /\ g[x].gen = f[x].gen + 1 /\ g[x].src = None /\ OccupiesSlot(g[x])
  <2>1. f[x].status = "queued" /\ Sound(f[x], m)
    BY <1>1 DEF States
  <2>2. Resting(f[x]) /\ ~f[x].cleanup
    BY <2>1 DEF Sound, Good, Resting
  <2>3. ~OccupiesSlot(f[x])
    BY <2>1, <2>2 DEF Sound, Good, Owned, Resting, Unlaunched, OccupiesSlot, Finalizing, Live
  <2>4. g[x] = Prepared(f[x], None, TRUE)
    BY <1>1, <1>2
  <2>5. g[x].gen = f[x].gen + 1 /\ g[x].src = None /\ g[x].status = "starting"
    BY <2>1, <2>4 DEF Prepared, Sound, Runtime
  <2> QED
    BY <2>2, <2>3, <2>5 DEF OccupiesSlot
<1>4. \A x \in Session \ A :
         /\ CountsSlot(g, x) <=> CountsSlot(f, x)
         /\ CountsUserSlot(g, x) <=> CountsUserSlot(f, x)
  <2>1. \A x \in Session \ A : g[x] = f[x]
    BY <1>2
  <2>2. \A x \in A : Resting(f[x]) /\ ~f[x].cleanup /\ g[x].gen = f[x].gen + 1
    BY <1>3
  <2>3. /\ \A x \in Session : Sound(f[x], m) /\ f[x].gen \in Nat
        /\ \A x \in Session : f[x].src # None =>
              f[x].src[1] \in Session /\ f[x].src[2] <= f[f[x].src[1]].gen
    BY DEF States
  <2>4. \A x \in Session \ A :
           /\ g[x].gen = f[x].gen /\ g[x].src = f[x].src /\ g[x].proc = f[x].proc
           /\ OccupiesSlot(g[x]) <=> OccupiesSlot(f[x])
    BY <2>1
  <2> QED
    BY <1>1, <2>2, <2>3, <2>4, ReservedAlike
<1>5. \A x \in A : /\ CountsSlot(g, x) /\ CountsUserSlot(g, x)
                   /\ ~CountsSlot(f, x) /\ ~CountsUserSlot(f, x)
  BY <1>3 DEF CountsSlot, CountsUserSlot, Reserving, SourceOccupied
<1> QED
  BY <1>1, <1>4, <1>5 DEF A

(* So many more are occupied.                                              *)
LEMMA ServiceAdds ==
    ASSUME NEW f, NEW g, NEW m, NEW q \in Seq(Session), NEW I \in SUBSET (DOMAIN q),
           States(f, m), Served(f, g, q, I), \A i \in I : f[q[i]].status = "queued",
           \A i, j \in DOMAIN q : q[i] = q[j] => i = j
    PROVE  /\ Occupied(f) \in Nat /\ Occupied(g) \in Nat /\ Cardinality(I) \in Nat
           /\ Occupied(g) >= Occupied(f) + Cardinality(I)
           /\ \A u : /\ UserOccupied(f, u, None) \in Nat
                    /\ UserOccupied(g, u, None) \in Nat
                    /\ Cardinality(OfUser(q, I, u)) \in Nat
                    /\ UserOccupied(g, u, None)
                         >= UserOccupied(f, u, None) + Cardinality(OfUser(q, I, u))
<1> DEFINE A == ItemsAt(q, I)
<1>1. /\ A \in SUBSET Session
      /\ \A x \in A : /\ CountsSlot(g, x) /\ CountsUserSlot(g, x)
                      /\ ~CountsSlot(f, x) /\ ~CountsUserSlot(f, x)
      /\ \A x \in Session \ A : /\ CountsSlot(g, x) <=> CountsSlot(f, x)
                                /\ CountsUserSlot(g, x) <=> CountsUserSlot(f, x)
  BY ServiceCounts
<1>2. \A i \in I : q[i] \in A
  BY DEF ItemsAt
<1> HIDE DEF A
<1>3. /\ Occupied(f) = Cardinality(PoolSet(f)) /\ Occupied(g) = Cardinality(PoolSet(g))
      /\ PoolSet(f) \in SUBSET Session /\ PoolSet(g) \in SUBSET Session
      /\ \A u : /\ UserOccupied(f, u, None) = Cardinality(UserSet(f, u, None))
                /\ UserOccupied(g, u, None) = Cardinality(UserSet(g, u, None))
                /\ UserSet(f, u, None) \in SUBSET Session
                /\ UserSet(g, u, None) \in SUBSET Session
  BY CountedSets
<1>4. ASSUME NEW B \in SUBSET Session, NEW C \in SUBSET Session, NEW J \in SUBSET I,
             B \in SUBSET C, \A i \in J : q[i] \in C /\ q[i] \notin B
      PROVE  /\ Cardinality(B) \in Nat /\ Cardinality(C) \in Nat /\ Cardinality(J) \in Nat
             /\ Cardinality(C) >= Cardinality(B) + Cardinality(J)
  <2> DEFINE T == C \ B
  <2>1. T \in SUBSET Session /\ J \in SUBSET (DOMAIN q) /\ \A i \in J : q[i] \in T
    BY <1>4
  <2>2. /\ Cardinality(J) \in Nat /\ Cardinality(T) \in Nat
        /\ Cardinality(J) <= Cardinality(T)
    BY <2>1, ItemsAlike
  <2>3. /\ IsFiniteSet(B) /\ IsFiniteSet(T) /\ B \cap T = {} /\ C = B \cup T
        /\ Cardinality(B) \in Nat /\ Cardinality(C) \in Nat
    BY <1>4, <2>1, Fewer
  <2> HIDE DEF T
  <2>4. Cardinality(C) = Cardinality(B) + Cardinality(T)
    <3>1. Cardinality(B \cup T)
            = Cardinality(B) + Cardinality(T) - Cardinality(B \cap T)
      BY <2>3, FS_Union
    <3>2. Cardinality(B \cap T) = 0
      BY <2>3, FS_EmptySet
    <3>3. Cardinality(C) = Cardinality(B) + Cardinality(T) - 0
      BY <2>3, <3>1, <3>2
    <3> QED
      BY <2>2, <2>3, <3>3
  <2> QED
    BY <2>2, <2>3, <2>4
<1>5. /\ Cardinality(PoolSet(f)) \in Nat /\ Cardinality(PoolSet(g)) \in Nat
      /\ Cardinality(I) \in Nat
      /\ Cardinality(PoolSet(g)) >= Cardinality(PoolSet(f)) + Cardinality(I)
  <2>1. PoolSet(f) \in SUBSET PoolSet(g)
        /\ \A i \in I : q[i] \in PoolSet(g) /\ q[i] \notin PoolSet(f)
    BY <1>1, <1>2 DEF PoolSet
  <2> QED
    BY <1>3, <1>4, <2>1
<1>6. ASSUME NEW u
      PROVE  /\ Cardinality(UserSet(f, u, None)) \in Nat
             /\ Cardinality(UserSet(g, u, None)) \in Nat
             /\ Cardinality(OfUser(q, I, u)) \in Nat
             /\ Cardinality(UserSet(g, u, None))
                  >= Cardinality(UserSet(f, u, None)) + Cardinality(OfUser(q, I, u))
  <2> DEFINE mine == OfUser(q, I, u)
  <2>1. None \notin Session
    BY PoolAssumption
  <2>2. UserSet(f, u, None) \in SUBSET UserSet(g, u, None)
    BY <1>1 DEF UserSet
  <2>3. \A i \in mine : q[i] \in UserSet(g, u, None) /\ q[i] \notin UserSet(f, u, None)
    BY <1>1, <1>2, <2>1 DEF UserSet, OfUser
  <2>4. mine \in SUBSET I
    BY DEF OfUser
  <2> HIDE DEF mine
  <2>5. /\ Cardinality(UserSet(f, u, None)) \in Nat
        /\ Cardinality(UserSet(g, u, None)) \in Nat
        /\ Cardinality(mine) \in Nat
        /\ Cardinality(UserSet(g, u, None))
             >= Cardinality(UserSet(f, u, None)) + Cardinality(mine)
    BY <1>3, <1>4, <2>2, <2>3, <2>4, SMTT(40)
  <2> QED
    BY <2>5 DEF mine
<1> QED
  BY <1>3, <1>5, <1>6

(* An item that is beyond its user's quota stays behind a full quota, when *)
(* every item before it that was within its own has been admitted.         *)
LEMMA QuotaFilled ==
    ASSUME NEW f, NEW g, NEW m, NEW q \in Seq(Session), NEW I \in SUBSET (DOMAIN q),
           States(f, m), Served(f, g, q, I), \A i \in DOMAIN q : f[q[i]].status = "queued",
           \A i, j \in DOMAIN q : q[i] = q[j] => i = j,
           NEW i \in DOMAIN q, i \notin WithinQuota(f, q),
           \A l \in WithinQuota(f, q) : l < i => l \in I
    PROVE  UserOccupied(g, Owner[q[i]], None) \in Nat
           /\ UserOccupied(g, Owner[q[i]], None) >= MaxPerUser
<1> DEFINE u == Owner[q[i]]
           K == {j \in 1..(i - 1) : Owner[q[j]] = u}
           U == UserOccupied(f, u, None)
           mine == OfUser(q, I, u)
<1>1. /\ U \in Nat /\ UserOccupied(g, u, None) \in Nat /\ Cardinality(mine) \in Nat
      /\ UserOccupied(g, u, None) >= U + Cardinality(mine)
  BY ServiceAdds
<1>2. ~(U + Cardinality(K) < MaxPerUser)
  BY DEF WithinQuota
<1>3. Len(q) \in Nat /\ DOMAIN q = 1..Len(q) /\ i \in 1..Len(q)
  OBVIOUS
<1>4. K \in SUBSET (DOMAIN q) /\ \A j \in K : j < i /\ Owner[q[j]] = u
  BY <1>3
<1>5. ASSUME NEW l \in K PROVE {j \in 1..(l - 1) : Owner[q[j]] = u} = Before(K, l)
  BY <1>3, <1>4 DEF Before
<1>6. Cardinality(K) \in Nat
  BY <1>4, ItemsAtMost
<1>7. ASSUME NEW l \in K,
             U + Cardinality(Before(K, l)) < MaxPerUser
      PROVE  l \in mine
  <2>1. l \in DOMAIN q /\ Owner[q[l]] = u /\ l < i
    BY <1>4
  <2> DEFINE before == {j \in 1..(l - 1) : Owner[q[j]] = u}
  <2>2. U + Cardinality(before) < MaxPerUser
    BY <1>5, <1>7
  <2>3. before = {j \in 1..(l - 1) : Owner[q[j]] = Owner[q[l]]}
        /\ U = UserOccupied(f, Owner[q[l]], None)
    BY <2>1
  <2> HIDE DEF before, U
  <2>4. l \in WithinQuota(f, q)
    BY <2>1, <2>2, <2>3 DEF WithinQuota
  <2> QED
    BY <2>1, <2>4 DEF OfUser
<1>8. mine \in SUBSET (DOMAIN q)
  BY DEF OfUser
<1> HIDE DEF U, K, mine
<1>9. CASE U >= MaxPerUser
  BY <1>1, <1>9, PoolAssumption
<1>10. CASE ~(U >= MaxPerUser)
  <2> DEFINE n == MaxPerUser - U
  <2>1. n \in 1..Cardinality(K)
    BY <1>1, <1>2, <1>6, <1>10, PoolAssumption
  <2> HIDE DEF n
  <2>2. PICK L \in SUBSET K :
           /\ Cardinality(L) = n
           /\ \A l \in L : /\ Cardinality(Before(K, l)) \in Nat
                           /\ Cardinality(Before(K, l)) < n
    BY <1>4, <2>1, FirstFew
  <2>3. ASSUME NEW l \in L PROVE l \in mine
    <3> DEFINE c == Cardinality(Before(K, l))
    <3>1. c \in Nat /\ c < n
      BY <2>2
    <3> HIDE DEF c
    <3>2. U + c < MaxPerUser
      BY <1>1, <3>1, PoolAssumption DEF n
    <3>3. l \in K
      OBVIOUS
    <3> QED
      BY <1>7, <3>2, <3>3 DEF c
  <2>4. n <= Cardinality(mine)
    <3>1. L \in SUBSET mine
      BY <2>3
    <3>2. IsFiniteSet(mine)
      BY <1>8, ItemsAtMost
    <3> QED
      BY <2>2, <3>1, <3>2, FS_Subset
  <2> QED
    BY <1>1, <2>4, PoolAssumption DEF n
<1> QED
  BY <1>1, <1>9, <1>10

(* The pool is full when an item within its user's quota stays behind.     *)
LEMMA PoolFilled ==
    ASSUME NEW f, NEW g, NEW m, NEW q \in Seq(Session), NEW I, I = Admitted(f, q),
           States(f, m), Served(f, g, q, I),
           \A i, j \in DOMAIN q : q[i] = q[j] => i = j,
           NEW i \in WithinQuota(f, q), i \notin I
    PROVE  Occupied(g) \in Nat /\ Occupied(g) >= MaxActive
<1> DEFINE W == WithinQuota(f, q)
           K == {j \in W : j < i}
           O == Occupied(f)
<1>1. W \in SUBSET (DOMAIN q) /\ I \in SUBSET W /\ \A j \in W : f[q[j]].status = "queued"
  BY DEF WithinQuota, Admitted
<1>2. /\ I \in SUBSET (DOMAIN q) /\ IsFiniteSet(I)
      /\ \A j \in I : f[q[j]].status = "queued"
  BY <1>1, ItemsAtMost
<1>3. /\ O \in Nat /\ Occupied(g) \in Nat /\ Cardinality(I) \in Nat
      /\ Occupied(g) >= O + Cardinality(I)
  BY <1>2, ServiceAdds
<1>4. ~(O + Cardinality(K) < MaxActive)
  BY DEF Admitted
<1>5. \A j \in W : j \in Nat
  BY <1>1
<1>6. ASSUME NEW l \in K, O + Cardinality(Before(K, l)) < MaxActive
      PROVE  l \in I
  <2>1. l \in W /\ l < i /\ l \in Nat /\ i \in Nat
    BY <1>5
  <2>2. \A j \in W : j < l => j < i
    BY <1>5, <2>1
  <2>3. Before(W, l) = Before(K, l)
    BY <2>2 DEF Before
  <2>4. O + Cardinality(Before(W, l)) < MaxActive
    BY <1>6, <2>3
  <2> QED
    BY <2>1, <2>4 DEF Admitted, Before
<1>7. K \in SUBSET (DOMAIN q)
  BY <1>1
<1> HIDE DEF W, O, K
<1>8. Cardinality(K) \in Nat
  BY <1>7, ItemsAtMost
<1>9. CASE O >= MaxActive
  BY <1>3, <1>9, PoolAssumption
<1>10. CASE ~(O >= MaxActive)
  <2> DEFINE n == MaxActive - O
  <2>1. n \in 1..Cardinality(K)
    BY <1>3, <1>4, <1>8, <1>10, PoolAssumption
  <2> HIDE DEF n
  <2>2. PICK L \in SUBSET K :
           /\ Cardinality(L) = n
           /\ \A l \in L : /\ Cardinality(Before(K, l)) \in Nat
                           /\ Cardinality(Before(K, l)) < n
    BY <1>7, <2>1, FirstFew
  <2>3. ASSUME NEW l \in L PROVE l \in I
    <3> DEFINE c == Cardinality(Before(K, l))
    <3>1. c \in Nat /\ c < n
      BY <2>2
    <3> HIDE DEF c
    <3>2. O + c < MaxActive
      BY <1>3, <3>1, PoolAssumption DEF n
    <3>3. l \in K
      OBVIOUS
    <3> QED
      BY <1>6, <3>2, <3>3 DEF c
  <2>4. n <= Cardinality(I)
    <3>1. L \in SUBSET I
      BY <2>3
    <3> QED
      BY <1>2, <2>2, <3>1, FS_Subset
  <2> QED
    BY <1>3, <2>4, PoolAssumption DEF n
<1> QED
  BY <1>3, <1>9, <1>10

-----------------------------------------------------------------------------
(* First in, first out.                                                    *)

(* What the queue of the pool is.                                          *)
LEMMA QueueFacts ==
    ASSUME OInv
    PROVE  /\ queue \in Seq(Session)
           /\ \A i, j \in DOMAIN queue : queue[i] = queue[j] => i = j
           /\ \A i \in DOMAIN queue : queue[i] \in Session /\ rt[queue[i]].status = "queued"
<1>1. queue \in Seq(Session)
  BY DEF OInv, IInv, TypeOK
<1>2. \A i \in DOMAIN queue : queue[i] \in Session
  BY <1>1
<1> QED
  BY <1>1, <1>2 DEF OInv, QueueGood

(* The states that the queue is served from.                               *)
Serving(f) == \A x \in Session : Sound(f[x], mode) /\ Follows(rt[x], f[x])

(* The service of the queue in an open pool.                               *)
LEMMA ServiceStep ==
    ASSUME OInv, NEW f, Serving(f), mode = "open", ScheduleWaiting(f)
    PROVE  /\ States(f, mode) /\ Served(f, rt', queue, Admitted(f, queue))
           /\ queue' = Without(queue, Admitted(f, queue))
           /\ \A i \in DOMAIN queue : f[queue[i]].status = "queued"
           /\ WithinQuota(f, queue) \in SUBSET (DOMAIN queue)
           /\ Admitted(f, queue) \in SUBSET WithinQuota(f, queue)
<1>1. \A x \in Session : Sound(f[x], mode) /\ f[x].gen \in Nat
  BY DEF Serving, Sound, Runtime, Generation
<1>2. \A x \in Session : f[x].src # None =>
         f[x].src[1] \in Session /\ f[x].src[2] <= f[f[x].src[1]].gen
  BY SourcesKnown DEF Serving, Follows, Passes
<1>3. Served(f, rt', queue, Admitted(f, queue)) /\ queue' = Without(queue, Admitted(f, queue))
  BY DEF ScheduleWaiting, Served, ItemsAt
<1>4. \A i \in DOMAIN queue : f[queue[i]].status = "queued"
  BY QueueFacts DEF Serving, Follows
<1> QED
  BY <1>1, <1>2, <1>3, <1>4 DEF States, WithinQuota, Admitted

(* A Session that is admitted rises; one that stays behind does not.       *)
LEMMA AdmittedRise ==
    ASSUME OInv, NEW f, Serving(f), mode = "open", ScheduleWaiting(f),
           NEW i \in DOMAIN queue
    PROVE  /\ i \in Admitted(f, queue) =>
                rt'[queue[i]].status = "starting" /\ rt'[queue[i]].src = None
           /\ i \notin Admitted(f, queue) => rt'[queue[i]].status = "queued"
<1> DEFINE I == Admitted(f, queue)
           s == queue[i]
<1>1. /\ Served(f, rt', queue, I) /\ f[s].status = "queued" /\ s \in Session
      /\ I \in SUBSET (DOMAIN queue)
      /\ \A j \in DOMAIN queue : queue[j] = s => j = i
      /\ f[s] \in Runtime
  BY ServiceStep, QueueFacts DEF Serving, Sound
<1>2. CASE i \in I
  <2>1. s \in ItemsAt(queue, I)
    BY <1>2 DEF ItemsAt
  <2>2. rt'[s] = Prepared(f[s], None, TRUE)
    BY <1>1, <2>1 DEF Served
  <2> QED
    BY <1>1, <1>2, <2>2 DEF Prepared, Runtime
<1>3. CASE i \notin I
  <2>1. s \notin ItemsAt(queue, I)
    BY <1>1, <1>3 DEF ItemsAt
  <2>2. rt'[s] = f[s]
    BY <1>1, <2>1 DEF Served
  <2> QED
    BY <1>1, <1>3, <2>2
<1> QED
  BY <1>2, <1>3

(* i stays behind j, an item after it, only because of its user's quota.   *)
Overtaken(i, j) ==
    /\ Owner[queue[i]] # Owner[queue[j]]
    /\ LET src == rt'[queue[j]].src
       IN  ~UserHasCapacity(rt', queue[i], IF src = None THEN None ELSE src[1])

(* In the service of the queue.                                            *)
LEMMA ServedInOrder ==
    ASSUME OInv, NEW f, Serving(f), ScheduleWaiting(f),
           NEW i \in DOMAIN queue, NEW j \in DOMAIN queue, i < j,
           rt'[queue[j]].status = "starting", rt'[queue[i]].status = "queued"
    PROVE  Overtaken(i, j)
<1> DEFINE I == Admitted(f, queue)
           W == WithinQuota(f, queue)
<1>1. mode = "open"
  <2>1. CASE mode # "open"
    <3>1. queue = <<>>
      BY <2>1 DEF OInv, ClosingGood
    <3> QED
      BY <3>1
  <2> QED
    BY <2>1
<1>2. /\ States(f, mode) /\ Served(f, rt', queue, I)
      /\ \A k \in DOMAIN queue : f[queue[k]].status = "queued"
      /\ W \in SUBSET (DOMAIN queue) /\ I \in SUBSET W
  BY <1>1, ServiceStep
<1>3. /\ queue \in Seq(Session)
      /\ \A k, l \in DOMAIN queue : queue[k] = queue[l] => k = l
      /\ \A k \in DOMAIN queue : k \in Nat
  <2>1. /\ queue \in Seq(Session)
        /\ \A k, l \in DOMAIN queue : queue[k] = queue[l] => k = l
    BY QueueFacts
  <2> QED
    BY <2>1
<1>4. j \in I /\ i \notin I /\ rt'[queue[j]].src = None
  BY <1>1, AdmittedRise
<1>5. Occupied(f) \in Nat
  BY CountedSets, Fewer
<1>6. ASSUME NEW l \in W, l < j PROVE l \in I
  <2>1. {k \in W : k < l} \in SUBSET {k \in W : k < j}
    BY <1>2, <1>3, <1>6
  <2>2. {k \in W : k < j} \in SUBSET (DOMAIN queue)
        /\ {k \in W : k < l} \in SUBSET (DOMAIN queue)
    BY <1>2
  <2>3. Occupied(f) + Cardinality({k \in W : k < j}) < MaxActive
    BY <1>4 DEF Admitted
  <2> DEFINE b == Cardinality({k \in W : k < j})
             c == Cardinality({k \in W : k < l})
  <2>4. b \in Nat /\ c \in Nat /\ c <= b
    BY <1>3, <2>1, <2>2, ItemsAtMost, FS_Subset
  <2>5. Occupied(f) + b < MaxActive
    BY <2>3
  <2> HIDE DEF b, c
  <2>6. Occupied(f) + c < MaxActive
    BY <1>5, <2>4, <2>5, PoolAssumption
  <2> QED
    BY <2>6 DEF c, Admitted
<1>7. i \notin W
  BY <1>4, <1>6
<1>8. UserOccupied(rt', Owner[queue[i]], None) \in Nat
      /\ UserOccupied(rt', Owner[queue[i]], None) >= MaxPerUser
  <2>1. \A l \in W : l < i => l \in I
    BY <1>2, <1>3, <1>6
  <2>2. I \in SUBSET (DOMAIN queue)
    BY <1>2
  <2> HIDE DEF I
  <2> QED
    BY <1>2, <1>3, <1>7, <2>1, <2>2, QuotaFilled
<1>9. Owner[queue[i]] # Owner[queue[j]]
  <2> SUFFICES ASSUME Owner[queue[i]] = Owner[queue[j]] PROVE FALSE
    OBVIOUS
  <2> DEFINE u == Owner[queue[j]]
             B == {k \in 1..(j - 1) : Owner[queue[k]] = u}
             C == {k \in 1..(i - 1) : Owner[queue[k]] = u}
             U == UserOccupied(f, u, None)
  <2>1. U + Cardinality(B) < MaxPerUser
    BY <1>2, <1>4 DEF WithinQuota
  <2>2. ~(U + Cardinality(C) < MaxPerUser)
    BY <1>2, <1>7 DEF WithinQuota
  <2>3. C \in SUBSET B /\ B \in SUBSET (DOMAIN queue) /\ C \in SUBSET (DOMAIN queue)
    BY <1>3
  <2>4. U \in Nat
    BY CountedSets, Fewer
  <2> HIDE DEF B, C, U
  <2>5. Cardinality(B) \in Nat /\ Cardinality(C) \in Nat /\ Cardinality(C) <= Cardinality(B)
    BY <1>3, <2>3, ItemsAtMost, FS_Subset
  <2> QED
    BY <2>1, <2>2, <2>4, <2>5, PoolAssumption
<1> QED
  BY <1>4, <1>8, <1>9, PoolAssumption DEF Overtaken, UserHasCapacity

(* In the handoff of an idle Runtime.                                      *)
LEMMA DispatchedInOrder ==
    ASSUME LInv, NEW s \in Session, DispatchFromIdle(s),
           NEW i \in DOMAIN queue, NEW j \in DOMAIN queue, i < j,
           rt'[queue[j]].status = "starting", rt'[queue[i]].status = "queued"
    PROVE  Overtaken(i, j)
<1> DEFINE E == EligibleFor(rt, queue, s)
           k == First(E)
           target == queue[k]
           u == Owner[queue[i]]
<1>1. OInv
  BY DEF LInv
<1>2. /\ queue \in Seq(Session)
      /\ \A n \in DOMAIN queue :
            n \in Nat /\ queue[n] \in Session /\ rt[queue[n]].status = "queued"
      /\ \A n, l \in DOMAIN queue : queue[n] = queue[l] => n = l
  <2>1. /\ queue \in Seq(Session)
        /\ \A n \in DOMAIN queue : queue[n] \in Session /\ rt[queue[n]].status = "queued"
        /\ \A n, l \in DOMAIN queue : queue[n] = queue[l] => n = l
    BY <1>1, QueueFacts
  <2> QED
    BY <2>1
<1>3. CanDispatch(s)
      /\ rt' = [rt EXCEPT ![s] = Begin(@, @.gen, "stopped"),
                          ![target] = Prepared(@, <<s, rt[s].gen>>, TRUE)]
  <2>1. ~UNCHANGED rt
    BY <1>2
  <2> QED
    BY <2>1 DEF DispatchFromIdle
<1>4. /\ k \in DOMAIN queue /\ target \in Session /\ rt[target].status = "queued"
      /\ UserHasCapacity(rt, target, s)
  BY <1>1, <1>3, DispatchTarget DEF OInv
<1>5. \A n \in E : k <= n
  <2>1. E \in SUBSET Nat /\ E # {}
    BY <1>2, <1>3 DEF EligibleFor, CanDispatch
  <2>2. \E m \in E : \A n \in E : m <= n
    BY <2>1, Least
  <2> QED
    BY <2>2 DEF First
<1> HIDE DEF E, k
<1> DEFINE turn == TRUE
<1>6. GenuinelyIdle(rt[s]) /\ Resting(rt[target]) /\ ~rt[target].cleanup
      /\ HandsOver(s, target, turn)
  <2>1. HandsOver(s, target, turn)
    BY <1>1, <1>3, RecordFacts DEF HandsOver
  <2>2. Resting(rt[target]) /\ ~rt[target].cleanup
    BY <1>1, <1>4, RecordFacts DEF Resting, Good
  <2> QED
    BY <1>3, <2>1, <2>2 DEF CanDispatch
<1> HIDE DEF turn
<1>7. /\ s # target /\ rt'[target].src # None /\ rt'[target].src[1] = s
      /\ \A x \in Session \ {target} :
            CountsUserSlot(rt', x) <=> CountsUserSlot(rt, x)
  BY <1>4, <1>6, HandoffAlike
<1>8. j = k
  <2> SUFFICES ASSUME j # k PROVE FALSE
    OBVIOUS
  <2>1. queue[j] # target /\ queue[j] # s /\ queue[j] \in Session
    BY <1>2, <1>4, <1>6 DEF GenuinelyIdle
  <2>2. rt'[queue[j]] = rt[queue[j]]
    BY <1>1, <1>3, <2>1, RecordFacts
  <2> QED
    BY <1>2, <2>2
<1>9. ~UserHasCapacity(rt, queue[i], s)
  <2>1. i \notin E
    BY <1>2, <1>5, <1>8
  <2> QED
    BY <1>2, <2>1 DEF E, EligibleFor
<1>10. u # Owner[target]
  BY <1>4, <1>9 DEF UserHasCapacity
<1>11. UserSet(rt, u, s) \in SUBSET UserSet(rt', u, s)
  BY <1>7, <1>10 DEF UserSet
<1>12. ~UserHasCapacity(rt', queue[i], s)
  <2>1. /\ UserOccupied(rt, u, s) = Cardinality(UserSet(rt, u, s))
        /\ UserOccupied(rt', u, s) = Cardinality(UserSet(rt', u, s))
        /\ UserSet(rt', u, s) \in SUBSET Session
    BY CountedSets
  <2>2. /\ Cardinality(UserSet(rt, u, s)) \in Nat /\ Cardinality(UserSet(rt', u, s)) \in Nat
        /\ Cardinality(UserSet(rt, u, s)) <= Cardinality(UserSet(rt', u, s))
    BY <1>11, <2>1, Fewer
  <2> QED
    BY <1>9, <2>1, <2>2, PoolAssumption DEF UserHasCapacity
<1> QED
  BY <1>7, <1>8, <1>10, <1>12 DEF Overtaken

(* The states that FinalizerConverges and SweepEnds serve the queue from.  *)
LEMMA EndServes ==
    ASSUME LInv, NEW s \in Session, rt[s].fin \in {"hooks", "kept"}
    PROVE  Serving([rt EXCEPT ![s] = Converged(@)])
<1>1. /\ rt \in [Session -> Runtime]
      /\ \A x \in Session : Sound(rt[x], mode) /\ Follows(rt[x], rt[x])
  <2>1. OInv
    BY DEF LInv
  <2>2. rt \in [Session -> Runtime]
    BY <2>1 DEF OInv, IInv, TypeOK
  <2>3. \A x \in Session : Sound(rt[x], mode) /\ Follows(rt[x], rt[x])
    BY <2>1, RecordFacts, Stays DEF Sound
  <2> QED
    BY <2>2, <2>3
<1> DEFINE c == Converged(rt[s])
           f == [rt EXCEPT ![s] = Converged(@)]
<1>2. Good(c, mode) /\ Follows(rt[s], c)
  BY <1>1, ConvergedFollows DEF Sound
<1>3. c \in Runtime /\ Owned(c)
  BY <1>1, ConvergedKeeps DEF Sound
<1>4. f[s] = c /\ \A x \in Session \ {s} : f[x] = rt[x]
  BY <1>1
<1> HIDE DEF c, f
<1>5. Serving(f)
  BY <1>1, <1>2, <1>3, <1>4 DEF Serving, Sound
<1> QED
  BY <1>5 DEF f

LEMMA ServedFrom ==
    ASSUME LInv
    PROVE  /\ Serving(rt)
           /\ \A s \in Session : FinalizerConverges(s) =>
                 LET f == [rt EXCEPT ![s] = Converged(@)] IN
                 Serving(f) /\ ScheduleWaiting(f)
<1>1. Serving(rt)
  <2>1. OInv
    BY DEF LInv
  <2>2. \A x \in Session : Sound(rt[x], mode) /\ Follows(rt[x], rt[x])
    BY <2>1, RecordFacts, Stays DEF Sound
  <2> QED
    BY <2>2 DEF Serving
<1>2. ASSUME NEW s \in Session, FinalizerConverges(s)
      PROVE  /\ Serving([rt EXCEPT ![s] = Converged(@)])
             /\ ScheduleWaiting([rt EXCEPT ![s] = Converged(@)])
  BY <1>2, EndServes DEF FinalizerConverges
<1> QED
  BY <1>1, <1>2

(* The queue is FIFO among the Turns that can be admitted:                 *)
(* _pop_next_eligible_locked passes an older Turn over only while the      *)
(* quota of its user, who is another one, is used up, by running Sandboxes *)
(* or by Turns that this very step admits.                                 *)
THEOREM QueueIsFair == Spec => FifoAmongEligible
<1> DEFINE Fair ==
             \A i, j \in DOMAIN queue :
                /\ i < j
                /\ rt'[queue[j]].status = "starting" /\ rt'[queue[i]].status = "queued"
                => Overtaken(i, j)
<1>1. ASSUME LInv, [Next]_vars PROVE Fair
  <2> SUFFICES ASSUME NEW i \in DOMAIN queue, NEW j \in DOMAIN queue, i < j,
                      rt'[queue[j]].status = "starting", rt'[queue[i]].status = "queued"
               PROVE  Overtaken(i, j)
    OBVIOUS
  <2>1. OInv /\ (Passing \/ Admitting)
    BY <1>1, NextOInv DEF LInv, Advances
  <2> DEFINE x == queue[j]
  <2>2. x \in Session /\ rt[x].status = "queued" /\ rt'[x].status = "starting"
    BY <2>1, QueueFacts
  <2>3. CASE Passing
    BY <2>2, <2>3 DEF Passing, Passes, Rising
  <2>4. ASSUME NEW s \in Session, rt[s].status \in {"stopped", "error"}, NEW turn,
               AdmitFree(s, turn) \/ AdmitEvicting(s, turn)
        PROVE  FALSE
    <3>1. x # s
      BY <2>2, <2>4
    <3>2. CASE AdmitFree(s, turn)
      <4>1. rt'[x] = rt[x]
        BY <2>1, <2>2, <3>1, <3>2, RecordFacts DEF AdmitFree
      <4> QED
        BY <2>2, <4>1
    <3>3. CASE AdmitEvicting(s, turn)
      <4>1. PICK v \in Session :
               /\ GenuinelyIdle(rt[v])
               /\ rt' = [rt EXCEPT ![v] = Begin(@, @.gen, "stopped"),
                                   ![s] = Prepared(@, <<v, rt[v].gen>>, turn)]
        BY <3>3 DEF AdmitEvicting, Evictable
      <4>2. x # v
        BY <2>2, <4>1 DEF GenuinelyIdle
      <4>3. rt'[x] = rt[x]
        BY <2>1, <2>2, <3>1, <4>1, <4>2, RecordFacts
      <4> QED
        BY <2>2, <4>3
    <3> QED
      BY <2>4, <3>2, <3>3
  <2>5. ASSUME NEW s \in Session, ActivateAdmits(s) \/ SendAdmits(s)
        PROVE  FALSE
    <3>1. rt[s].status \in {"stopped", "error"}
          /\ \E turn \in BOOLEAN : AdmitFree(s, turn) \/ AdmitEvicting(s, turn)
      BY <2>5 DEF ActivateAdmits, SendAdmits, Restartable
    <3> QED
      BY <2>4, <3>1
  <2>6. CASE \E s \in Session : DispatchFromIdle(s)
    BY <1>1, <2>6, DispatchedInOrder
  <2>7. CASE \E s \in Session : FinalizerConverges(s)
    BY <1>1, <2>1, <2>7, ServedFrom, ServedInOrder
  <2>8. CASE SweepEnds
    <3>1. ScheduleWaiting(rt) /\ Serving(rt)
      BY <1>1, <2>8, ServedFrom DEF SweepEnds
    <3> QED
      BY <2>1, <3>1, ServedInOrder
  <2>9. ASSUME NEW t \in starts, StartChecks(t) \/ StartLaunches(t)
        PROVE  FALSE
    <3>1. t.sess \in Session /\ rt \in [Session -> Runtime]
      BY <2>1, TaskFacts, RecordFacts
    <3>2. CASE x # t.sess
      <4>1. rt'[x] = rt[x]
        BY <2>2, <2>9, <3>1, <3>2 DEF StartChecks, StartLaunches
      <4> QED
        BY <2>2, <4>1
    <3>3. CASE x = t.sess
      <4>1. ~StartIsCurrent(t)
        BY <2>2, <3>3 DEF StartIsCurrent
      <4>2. CASE StartChecks(t)
        BY <2>2, <4>1, <4>2 DEF StartChecks
      <4>3. CASE StartLaunches(t)
        <5>1. Held(rt[x])
          BY <2>1, <3>3, <4>3, TaskFacts DEF StartLaunches
        <5> QED
          BY <2>2, <5>1 DEF Held
      <4> QED
        BY <2>9, <4>2, <4>3
    <3> QED
      BY <3>2, <3>3
  <2> QED
    BY <2>1, <2>3, <2>5, <2>6, <2>7, <2>8, <2>9 DEF Admitting
<1>2. ASSUME LInv, [Next]_vars PROVE [Fair]_vars
  BY <1>1, <1>2
<1>3. Spec => [][Fair]_vars
  <2> HIDE DEF Fair
  <2> QED
    BY <1>2, LimitsHold, PTL DEF Spec
<1>4. [Fair]_vars => [\A i, j \in DOMAIN queue :
          /\ i < j
          /\ rt'[queue[j]].status = "starting" /\ rt'[queue[i]].status = "queued"
          => /\ Owner[queue[i]] # Owner[queue[j]]
             /\ LET src == rt'[queue[j]].src
                IN  ~UserHasCapacity(rt', queue[i], IF src = None THEN None ELSE src[1])]_vars
  BY DEF Overtaken
<1> HIDE DEF Fair
<1> QED
  BY <1>3, <1>4, PTL DEF FifoAmongEligible


-----------------------------------------------------------------------------
(* What a step leaves of a Session's hold on its slot.                     *)

(* A Session takes a slot from the start of a generation until that has    *)
(* converged, and on when its cleanup failed; also while it is a target,   *)
(* and while the end of its process is unnoticed, so it is more than what  *)
(* _occupies_slot counts.                                                  *)
Takes(r) == ~Resting(r) \/ r.cleanup

(* The Session goes on, as n, as what it was.                              *)
Remains(r, n) ==
    /\ Takes(r) => Takes(n)
    /\ n.status = "queued" => r.status = "queued"

LEMMA BeginRemains ==
    ASSUME NEW r \in Runtime, NEW g, NEW final
    PROVE  Remains(r, Begin(r, g, final))
<1>1. CASE ~Claimable(r, g)
  BY <1>1 DEF Begin, Remains
<1>2. CASE Claimable(r, g)
  <2>1. Begin(r, g, final).status = "stopping"
    BY <1>2 DEF Begin, Runtime
  <2> QED
    BY <2>1 DEF Remains, Takes, Resting
<1> QED
  BY <1>1, <1>2

(* A step that changes one Session to n.                                   *)
LEMMA OneRemains ==
    ASSUME rt \in [Session -> Runtime], NEW s \in Session, NEW n,
           rt' = [rt EXCEPT ![s] = n], Remains(rt[s], n)
    PROVE  \A x \in Session : Remains(rt[x], rt'[x])
<1> SUFFICES ASSUME NEW x \in Session PROVE Remains(rt[x], rt'[x])
  OBVIOUS
<1>1. CASE x = s
  <2>1. rt'[x] = n
    BY <1>1
  <2> QED
    BY <1>1, <2>1
<1>2. CASE x # s
  <2>1. rt'[x] = rt[x]
    BY <1>2
  <2> QED
    BY <2>1 DEF Remains
<1> QED
  BY <1>1, <1>2

(* A step that claims one Session.                                         *)
LEMMA ClaimRemains ==
    ASSUME rt \in [Session -> Runtime], NEW s \in Session, NEW g, NEW final,
           rt' = [rt EXCEPT ![s] = Begin(rt[s], g, final)]
    PROVE  \A x \in Session : Remains(rt[x], rt'[x])
<1> DEFINE n == Begin(rt[s], g, final)
<1>1. Remains(rt[s], n)
  BY BeginRemains
<1> HIDE DEF n
<1> QED
  BY <1>1, OneRemains DEF n

(* A Session that is prepared takes its slot.                              *)
LEMMA PreparedRemains ==
    ASSUME NEW r \in Runtime, NEW src, NEW turn
    PROVE  Remains(r, Prepared(r, src, turn))
<1>1. Prepared(r, src, turn).status = "starting"
  BY DEF Prepared, Runtime
<1> QED
  BY <1>1 DEF Remains, Takes, Resting

(* A handoff to s, which is at rest, by the idle Runtime v.                *)
LEMMA HandoffRemains ==
    ASSUME rt \in [Session -> Runtime], NEW s \in Session, NEW v \in Session, NEW turn,
           Resting(rt[s]), GenuinelyIdle(rt[v]), HandsOver(v, s, turn)
    PROVE  \A x \in Session : Remains(rt[x], rt'[x])
<1> DEFINE n == Prepared(rt[s], <<v, rt[v].gen>>, turn)
           b == Begin(rt[v], rt[v].gen, "stopped")
<1>1. v # s
  BY DEF Resting, GenuinelyIdle
<1>2. Remains(rt[s], n) /\ Remains(rt[v], b)
  BY BeginRemains, PreparedRemains
<1>3. rt'[s] = n /\ rt'[v] = b /\ \A x \in Session \ {s, v} : rt'[x] = rt[x]
  BY <1>1 DEF HandsOver
<1> HIDE DEF n, b
<1>4. ASSUME NEW x \in Session \ {s, v} PROVE Remains(rt[x], rt'[x])
  BY <1>3 DEF Remains
<1> QED
  BY <1>2, <1>3, <1>4

(* The admissions, except those of the service of the queue.               *)
LEMMA AdmissionRemains ==
    ASSUME rt \in [Session -> Runtime], NEW s \in Session, NEW turn,
           Resting(rt[s]), AdmitFree(s, turn) \/ AdmitEvicting(s, turn)
    PROVE  \A x \in Session : Remains(rt[x], rt'[x])
<1>1. CASE AdmitFree(s, turn)
  <2> DEFINE n == Prepared(rt[s], None, turn)
  <2>1. rt' = [rt EXCEPT ![s] = n] /\ Remains(rt[s], n)
    BY <1>1, PreparedRemains DEF AdmitFree
  <2> HIDE DEF n
  <2> QED
    BY <2>1, OneRemains
<1>2. CASE AdmitEvicting(s, turn)
  <2>1. PICK v \in Session :
           /\ GenuinelyIdle(rt[v])
           /\ rt' = [rt EXCEPT ![v] = Begin(@, @.gen, "stopped"),
                               ![s] = Prepared(@, <<v, rt[v].gen>>, turn)]
    BY <1>2 DEF AdmitEvicting, Evictable
  <2>2. HandsOver(v, s, turn)
    BY <2>1 DEF HandsOver
  <2> QED
    BY <2>1, <2>2, HandoffRemains
<1> QED
  BY <1>1, <1>2

LEMMA DispatchRemains ==
    ASSUME OInv, NEW s \in Session, DispatchFromIdle(s)
    PROVE  \A x \in Session : Remains(rt[x], rt'[x])
<1>1. CASE UNCHANGED rt
  BY <1>1 DEF Remains
<1>2. CASE CanDispatch(s) /\ ~UNCHANGED rt
  <2> DEFINE target == queue[First(EligibleFor(rt, queue, s))]
             turn == TRUE
  <2>1. rt' = [rt EXCEPT ![s] = Begin(@, @.gen, "stopped"),
                         ![target] = Prepared(@, <<s, rt[s].gen>>, turn)]
    BY <1>2 DEF DispatchFromIdle
  <2>2. target \in Session /\ Resting(rt[target])
    BY <1>2, DispatchTarget DEF OInv, Resting
  <2> HIDE DEF target, turn
  <2>3. HandsOver(s, target, turn) /\ rt \in [Session -> Runtime]
    BY <2>1, <2>2, RecordFacts DEF HandsOver
  <2>4. GenuinelyIdle(rt[s])
    BY <1>2 DEF CanDispatch
  <2> QED
    BY <2>2, <2>3, <2>4, HandoffRemains
<1> QED
  BY <1>1, <1>2 DEF DispatchFromIdle

LEMMA RequestRemains ==
    ASSUME OInv, NEW s \in Session, Request(s), ~SendQueues(s)
    PROVE  \A x \in Session : Remains(rt[x], rt'[x])
<1>1. rt \in [Session -> Runtime] /\ rt[s] \in Runtime
  BY RecordFacts
<1>2. CASE ActivateReclaims(s) \/ SendReclaims(s)
  BY <1>1, <1>2, ClaimRemains DEF ActivateReclaims, SendReclaims, ReclaimFirst
<1>3. CASE ActivateAdmits(s) \/ SendAdmits(s)
  <2>1. Resting(rt[s]) /\ \E turn : AdmitFree(s, turn) \/ AdmitEvicting(s, turn)
    BY <1>3 DEF ActivateAdmits, SendAdmits, Restartable, Resting
  <2> QED
    BY <1>1, <2>1, AdmissionRemains
<1>4. CASE SendToStarting(s)
  <2>1. rt[s].status = "starting"
        /\ rt' = [rt EXCEPT ![s] = [rt[s] EXCEPT !.turn = TRUE, !.waiter = TRUE]]
    BY <1>1, <1>4 DEF SendToStarting
  <2> DEFINE n == [rt[s] EXCEPT !.turn = TRUE, !.waiter = TRUE]
  <2>2. n.status = "starting"
    BY <1>1, <2>1 DEF Runtime
  <2> HIDE DEF n
  <2>3. Remains(rt[s], n)
    BY <2>2 DEF Remains, Takes, Resting
  <2> QED
    BY <1>1, <2>1, <2>3, OneRemains DEF n
<1>5. CASE SendToIdle(s) \/ SendWhenReady(s) \/ SendWaitTimesOut(s) \/ Resolve(s)
  <2>1. PICK n : /\ rt' = [rt EXCEPT ![s] = n]
                 /\ n.status \in {"running", "starting"}
    BY <1>1, <1>5
       DEF SendToIdle, SendWhenReady, SendWaitTimesOut, Resolve, Runtime
  <2>2. Remains(rt[s], n)
    BY <2>1 DEF Remains, Takes, Resting
  <2> QED
    BY <1>1, <2>1, <2>2, OneRemains
<1>6. CASE StopSession(s)
  <2>1. CASE /\ rt[s].status = "queued"
             /\ rt' = [rt EXCEPT ![s].status = "stopped", ![s].turn = FALSE]
    <3> DEFINE n == [rt[s] EXCEPT !.status = "stopped", !.turn = FALSE]
    <3>1. rt' = [rt EXCEPT ![s] = n]
      BY <1>1, <2>1
    <3>2. n.status = "stopped" /\ n.cleanup = rt[s].cleanup
      BY <1>1 DEF Runtime
    <3> HIDE DEF n
    <3>3. Remains(rt[s], n)
      BY <2>1, <3>2 DEF Remains, Takes, Resting
    <3> QED
      BY <1>1, <3>1, <3>3, OneRemains
  <2>2. CASE rt' = [rt EXCEPT ![s] = Begin(@, @.gen, "stopped")]
    BY <1>1, <2>2, ClaimRemains
  <2> QED
    BY <1>6, <2>1, <2>2 DEF StopSession
<1>7. ASSUME NEW c, ControlBegins(s, c) \/ LeaseAcquire(s, c) \/ LeaseRelease(s, c)
      PROVE  \A x \in Session : Remains(rt[x], rt'[x])
  <2>1. PICK n : /\ rt' = [rt EXCEPT ![s] = n]
                 /\ n.status = rt[s].status /\ n.cleanup = rt[s].cleanup
    <3>1. CASE ControlBegins(s, c)
      <4> DEFINE n == [rt[s] EXCEPT !.control = c, !.busy = TRUE]
      <4>1. rt' = [rt EXCEPT ![s] = n]
            /\ n.status = rt[s].status /\ n.cleanup = rt[s].cleanup
        BY <1>1, <3>1 DEF ControlBegins, Runtime
      <4> QED
        BY <4>1
    <3>2. CASE LeaseAcquire(s, c)
      <4> DEFINE n == [rt[s] EXCEPT !.leases = @ \cup {c}]
      <4>1. rt' = [rt EXCEPT ![s] = n]
            /\ n.status = rt[s].status /\ n.cleanup = rt[s].cleanup
        BY <1>1, <3>2 DEF LeaseAcquire, Runtime
      <4> QED
        BY <4>1
    <3>3. CASE LeaseRelease(s, c)
      <4> DEFINE n == [rt[s] EXCEPT !.leases = @ \ {c}]
      <4>1. rt' = [rt EXCEPT ![s] = n]
            /\ n.status = rt[s].status /\ n.cleanup = rt[s].cleanup
        BY <1>1, <3>3 DEF LeaseRelease, Runtime
      <4> QED
        BY <4>1
    <3> QED
      BY <1>7, <3>1, <3>2, <3>3
  <2>2. Remains(rt[s], n)
    BY <2>1 DEF Remains, Takes, Resting
  <2> QED
    BY <1>1, <2>1, <2>2, OneRemains
<1> QED
  BY <1>2, <1>3, <1>4, <1>5, <1>6, <1>7 DEF Request

LEMMA CoreRemains ==
    ASSUME OInv, NEW s \in Session, Core(s)
    PROVE  \A x \in Session : Remains(rt[x], rt'[x])
<1>1. rt \in [Session -> Runtime] /\ rt[s] \in Runtime
  BY RecordFacts
<1>2. CASE TurnFinished(s) \/ Asks(s)
  <2>1. PICK n : /\ rt' = [rt EXCEPT ![s] = n]
                 /\ n.status \in {"idle", "waiting_permission", "waiting_mcp_trust"}
    BY <1>1, <1>2 DEF TurnFinished, Asks, Runtime
  <2>2. Remains(rt[s], n)
    BY <2>1 DEF Remains, Takes, Resting
  <2> QED
    BY <1>1, <2>1, <2>2, OneRemains
<1>3. CASE ControlEnds(s)
  <2> DEFINE n == [rt[s] EXCEPT !.control = None, !.busy = FALSE]
  <2>1. rt' = [rt EXCEPT ![s] = n]
        /\ n.status = rt[s].status /\ n.cleanup = rt[s].cleanup
    BY <1>1, <1>3 DEF ControlEnds, Runtime
  <2> HIDE DEF n
  <2>2. Remains(rt[s], n)
    BY <2>1 DEF Remains, Takes, Resting
  <2> QED
    BY <1>1, <2>1, <2>2, OneRemains
<1>4. CASE ControlAborts(s)
  <2> DEFINE r == [rt[s] EXCEPT !.control = None, !.busy = FALSE]
             n == IF Stoppable(r) THEN Begin(r, r.gen, "stopped") ELSE r
  <2>1. rt' = [rt EXCEPT ![s] = n]
    BY <1>4 DEF ControlAborts
  <2>2. r.status = rt[s].status /\ r.cleanup = rt[s].cleanup
    BY <1>1 DEF Runtime
  <2>3. r \in Runtime
    BY <1>1 DEF Runtime
  <2> HIDE DEF r
  <2>4. Remains(r, Begin(r, r.gen, "stopped"))
    BY <2>3, BeginRemains
  <2>5. Remains(rt[s], n)
    BY <2>2, <2>4 DEF Remains, Takes, Resting
  <2> HIDE DEF n
  <2> QED
    BY <1>1, <2>1, <2>5, OneRemains
<1>5. CASE ProcessExit(s)
  <2>1. PICK n : /\ rt' = [rt EXCEPT ![s] = n]
                 /\ n.status = rt[s].status /\ n.cleanup = rt[s].cleanup
    <3> DEFINE d == rt[s].died \/ ~(Finalizing(rt[s]) \/ rt[s].cleanup)
               n == [rt[s] EXCEPT !.proc = "exited", !.died = d]
    <3>1. rt' = [rt EXCEPT ![s] = n]
      BY <1>1, <1>5 DEF ProcessExit
    <3> HIDE DEF d
    <3>2. n.status = rt[s].status /\ n.cleanup = rt[s].cleanup
      BY <1>1 DEF Runtime
    <3> QED
      BY <3>1, <3>2
  <2>2. Remains(rt[s], n)
    BY <2>1 DEF Remains, Takes, Resting
  <2> QED
    BY <1>1, <2>1, <2>2, OneRemains
<1> QED
  BY <1>2, <1>3, <1>4, <1>5 DEF Core

LEMMA GenerationsRemain ==
    ASSUME OInv, NEW s \in Session, Generations(s), ~FinalizerConverges(s)
    PROVE  \A x \in Session : Remains(rt[x], rt'[x])
<1>1. rt \in [Session -> Runtime] /\ rt[s] \in Runtime
  BY RecordFacts
<1>2. CASE DispatchFromIdle(s)
  BY <1>2, DispatchRemains
<1>3. CASE ReaderClaims(s)
  <2>1. PICK final : rt' = [rt EXCEPT ![s] = Begin(rt[s], rt[s].gen, final)]
    BY <1>1, <1>3 DEF ReaderClaims
  <2> QED
    BY <1>1, <2>1, ClaimRemains
<1>4. CASE FinalizerLocks(s)
  <2> DEFINE n == [rt[s] EXCEPT !.fin = "teardown"]
  <2>1. rt' = [rt EXCEPT ![s] = n]
        /\ n.status = rt[s].status /\ n.cleanup = rt[s].cleanup
    BY <1>1, <1>4 DEF FinalizerLocks, Runtime
  <2> HIDE DEF n
  <2>2. Remains(rt[s], n)
    BY <2>1 DEF Remains, Takes, Resting
  <2> QED
    BY <1>1, <2>1, <2>2, OneRemains
<1>5. CASE FinalizerTearsDown(s)
  <2>1. PICK survives, kept, errors \in BOOLEAN :
         /\ survives \/ kept \/ errors => "cleanup" \in Env
         /\ survives => Live(rt[s])
         /\ kept => rt[s].ref
         /\ rt' = [rt EXCEPT
                ![s].proc = IF Live(rt[s]) /\ ~survives THEN "exited" ELSE @,
                ![s].fin = IF kept THEN "kept" ELSE "hooks",
                ![s].final = IF errors THEN "error" ELSE @,
                ![s].token = 0]
    BY <1>5 DEF FinalizerTearsDown
  <2> DEFINE a == IF Live(rt[s]) /\ ~survives THEN "exited" ELSE rt[s].proc
             b == IF kept THEN "kept" ELSE "hooks"
             c == IF errors THEN "error" ELSE rt[s].final
             n == [rt[s] EXCEPT !.proc = a, !.fin = b, !.final = c, !.token = 0]
  <2>2. rt' = [rt EXCEPT ![s] = n]
    BY <1>1, <2>1 DEF Runtime
  <2> HIDE DEF a, b, c
  <2>3. n.status = rt[s].status /\ n.cleanup = rt[s].cleanup
    BY <1>1 DEF Runtime
  <2> HIDE DEF n
  <2>4. Remains(rt[s], n)
    BY <2>3 DEF Remains, Takes, Resting
  <2> QED
    BY <1>1, <2>2, <2>4, OneRemains
<1> QED
  BY <1>2, <1>3, <1>4, <1>5 DEF Generations

LEMMA StartRemains ==
    ASSUME OInv, NEW t \in starts, Start(t)
    PROVE  \A x \in Session : Remains(rt[x], rt'[x])
<1> DEFINE s == t.sess
<1>1. s \in Session /\ rt \in [Session -> Runtime] /\ rt[s] \in Runtime
  BY TaskFacts, RecordFacts
<1>2. CASE StartChecks(t)
  <2>1. CASE UNCHANGED rt
    BY <2>1 DEF Remains
  <2>2. CASE rt' = [rt EXCEPT ![s] = Begin(@, t.gen, "error")]
    BY <1>1, <2>2, ClaimRemains
  <2>3. CASE rt' = [rt EXCEPT ![s].src = None]
    <3> DEFINE n == [rt[s] EXCEPT !.src = None]
    <3>1. rt' = [rt EXCEPT ![s] = n]
          /\ n.status = rt[s].status /\ n.cleanup = rt[s].cleanup
      BY <1>1, <2>3 DEF Runtime
    <3> HIDE DEF n
    <3>2. Remains(rt[s], n)
      BY <3>1 DEF Remains, Takes, Resting
    <3> QED
      BY <1>1, <3>1, <3>2, OneRemains
  <2> QED
    BY <1>2, <2>1, <2>2, <2>3 DEF StartChecks
<1>3. CASE StartLaunches(t)
  <2> DEFINE r == [rt[s] EXCEPT !.proc = "live", !.ref = TRUE]
             n == IF StartIsCurrent(t) THEN r ELSE Begin(r, t.gen, "stopped")
  <2>1. rt' = [rt EXCEPT ![s] = n]
    BY <1>3 DEF StartLaunches
  <2>2. r.status = rt[s].status /\ r.cleanup = rt[s].cleanup /\ r \in Runtime
    BY <1>1 DEF Runtime
  <2> HIDE DEF r
  <2>3. Remains(r, Begin(r, t.gen, "stopped"))
    BY <2>2, BeginRemains
  <2>4. Remains(rt[s], n)
    BY <2>2, <2>3 DEF Remains, Takes, Resting
  <2> HIDE DEF n
  <2> QED
    BY <1>1, <2>1, <2>4, OneRemains
<1>4. CASE StartLaunchFails(t) \/ StartFails(t)
  <2>1. rt' = [rt EXCEPT ![s] = Begin(rt[s], t.gen, "error")]
    BY <1>1, <1>4 DEF StartLaunchFails, StartFails
  <2> QED
    BY <1>1, <2>1, ClaimRemains
<1>5. CASE StartCompletes(t)
  <2> DEFINE st == IF t.turn THEN "running" ELSE "idle"
             n == [rt[s] EXCEPT !.status = st, !.busy = t.turn]
  <2>1. rt' = [rt EXCEPT ![s] = n] /\ n.status = st /\ st \in {"running", "idle"}
    BY <1>1, <1>5 DEF StartCompletes, Runtime
  <2> HIDE DEF n, st
  <2>2. Remains(rt[s], n)
    BY <2>1 DEF Remains, Takes, Resting
  <2> QED
    BY <1>1, <2>1, <2>2, OneRemains
<1> QED
  BY <1>2, <1>3, <1>4, <1>5 DEF Start

(* A slot is let go by the convergence of its generation only, and a       *)
(* Session enters the queue by its own call only.                          *)
LEMMA StepRemains ==
    ASSUME OInv, [Next]_vars, ~SweepEnds, \A s \in Session : ~FinalizerConverges(s),
           NEW x \in Session
    PROVE  Remains(rt[x], rt'[x]) \/ SendQueues(x)
<1>1. rt \in [Session -> Runtime] /\ \A s \in Session : rt[s] \in Runtime
  BY RecordFacts
<1>2. ASSUME NEW s \in Session, Request(s) PROVE Remains(rt[x], rt'[x]) \/ SendQueues(x)
  <2>1. CASE ~SendQueues(s)
    BY <1>2, <2>1, RequestRemains
  <2>2. CASE SendQueues(s) /\ s # x
    <3>1. rt'[x] = rt[x]
      BY <1>1, <2>2 DEF SendQueues
    <3> QED
      BY <3>1 DEF Remains
  <2> QED
    BY <2>1, <2>2
<1>3. CASE Sweep
  <2>1. PICK E : rt' = [s \in Session |->
                    IF s \in E THEN Begin(rt[s], rt[s].gen, "stopped") ELSE rt[s]]
    BY <1>3 DEF Sweep
  <2>2. rt'[x] = Begin(rt[x], rt[x].gen, "stopped") \/ rt'[x] = rt[x]
    BY <2>1
  <2>3. Remains(rt[x], Begin(rt[x], rt[x].gen, "stopped")) /\ Remains(rt[x], rt[x])
    BY <1>1, BeginRemains DEF Remains
  <2> QED
    BY <2>2, <2>3
<1>4. CASE Shutdown
  <2> DEFINE n == [rt[x] EXCEPT !.status = "stopped"]
  <2>1. \/ rt'[x] = Begin(rt[x], rt[x].gen, "stopped") \/ rt'[x] = rt[x]
        \/ rt[x].status = "queued" /\ rt'[x] = n
    BY <1>4 DEF Shutdown
  <2>2. Remains(rt[x], Begin(rt[x], rt[x].gen, "stopped")) /\ Remains(rt[x], rt[x])
    BY <1>1, BeginRemains DEF Remains
  <2>3. n.status = "stopped" /\ n.cleanup = rt[x].cleanup
    BY <1>1 DEF Runtime
  <2> HIDE DEF n
  <2>4. rt[x].status = "queued" => Remains(rt[x], n)
    BY <2>3 DEF Remains, Takes, Resting
  <2> QED
    BY <2>1, <2>2, <2>4
<1>5. CASE ShutdownReturns
  <2> DEFINE n == [rt[x] EXCEPT !.token = 0]
  <2>1. rt'[x] = n /\ n.status = rt[x].status /\ n.cleanup = rt[x].cleanup
    BY <1>1, <1>5 DEF ShutdownReturns, Runtime
  <2> HIDE DEF n
  <2> QED
    BY <2>1 DEF Remains, Takes, Resting
<1>6. CASE UNCHANGED vars
  BY <1>6 DEF Remains, vars
<1>7. ASSUME NEW s \in Session, Core(s) \/ Generations(s) PROVE Remains(rt[x], rt'[x])
  BY <1>7, CoreRemains, GenerationsRemain
<1>8. ASSUME NEW t \in starts, Start(t) PROVE Remains(rt[x], rt'[x])
  BY <1>8, StartRemains
<1> QED
  BY <1>2, <1>3, <1>4, <1>5, <1>6, <1>7, <1>8 DEF Next, Ended

-----------------------------------------------------------------------------
(* Work conservation.                                                      *)

(* The Sessions that take a slot of the pool, and one of the user u, by    *)
(* themselves: a target takes its own once its source has let go, and one  *)
(* of its user at once when the source is another user's.                  *)
Taken(f) == {s \in Session : Takes(f[s]) /\ ~Reserving(f, s)}

TakenBy(f, u) ==
    {s \in Session : /\ Owner[s] = u /\ Takes(f[s])
                     /\ Reserving(f, s) => Owner[f[s].src[1]] # u}

(* The inductive invariant: all slots are taken, or every queued Turn      *)
(* waits for a place in its user's quota.                                  *)
Busy(f, q) ==
    \/ Cardinality(Taken(f)) >= MaxActive
    \/ \A i \in DOMAIN q : Cardinality(TakenBy(f, Owner[q[i]])) >= MaxPerUser

WInv == LInv /\ (mode = "open" => Busy(rt, queue))

(* Who holds a slot of the pool takes it.                                  *)
LEMMA OccupiedTakes ==
    ASSUME NEW r, NEW m, Sound(r, m), OccupiesSlot(r)
    PROVE  Takes(r)
BY DEF Sound, Owned, Good, OccupiesSlot, Finalizing, Live, Takes, Resting, Unlaunched

(* The other way round only the end of a process may be unnoticed.         *)
LEMMA TakesOccupied ==
    ASSUME OInv, NEW s \in Session, Takes(rt[s]), ~ExitUnnoticed(s)
    PROVE  OccupiesSlot(rt[s])
<1>1. /\ rt[s].status \in Status /\ rt[s].proc \in {"none", "live", "exited"}
      /\ Owned(rt[s]) /\ Good(rt[s], mode)
  BY RecordFacts DEF Runtime
<1>2. CASE Resting(rt[s]) \/ rt[s].status \in {"starting", "stopping"}
  BY <1>2 DEF Takes, OccupiesSlot, Finalizing
<1>3. CASE Up(rt[s]) \/ rt[s].status = "waiting_mcp_trust"
  <2>1. rt[s].proc # "none" /\ rt[s].status # "stopping" /\ rt[s].finGen = 0
    BY <1>1, <1>3 DEF Up, Good, Owned
  <2> QED
    BY <1>1, <2>1 DEF ExitUnnoticed, OccupiesSlot, Finalizing, Live
<1> QED
  BY <1>1, <1>2, <1>3 DEF Status, Resting, Up

(* What the pool counts is taken.                                          *)
LEMMA CountedAreTaken ==
    ASSUME NEW f, NEW m, \A x \in Session : Sound(f[x], m), NEW u
    PROVE  /\ Occupied(f) \in Nat /\ Cardinality(Taken(f)) \in Nat
           /\ Occupied(f) <= Cardinality(Taken(f))
           /\ UserOccupied(f, u, None) \in Nat /\ Cardinality(TakenBy(f, u)) \in Nat
           /\ UserOccupied(f, u, None) <= Cardinality(TakenBy(f, u))
<1>1. \A x \in Session : OccupiesSlot(f[x]) => Takes(f[x])
  BY OccupiedTakes
<1>2. PoolSet(f) \in SUBSET Taken(f) /\ Taken(f) \in SUBSET Session
  BY <1>1 DEF PoolSet, Taken, CountsSlot
<1>3. UserSet(f, u, None) \in SUBSET TakenBy(f, u) /\ TakenBy(f, u) \in SUBSET Session
  BY <1>1 DEF UserSet, TakenBy, CountsUserSlot
<1>4. Occupied(f) = Cardinality(PoolSet(f))
      /\ UserOccupied(f, u, None) = Cardinality(UserSet(f, u, None))
  BY CountedSets
<1> QED
  BY <1>2, <1>3, <1>4, Fewer

(* What a Session does that does not begin a generation: as a source it    *)
(* takes no slot back, as a target it changes no source.                   *)
Continues(r, n) ==
    /\ n.gen = r.gen
    /\ n.src \in {r.src, None}
    /\ Over(r) /\ ~r.died /\ OccupiesSlot(n) => OccupiesSlot(r)

LEMMA PassesContinue ==
    ASSUME NEW r, NEW n, NEW k, NEW m, Sound(r, k), Sound(n, m), Passes(r, n)
    PROVE  Continues(r, n)
<1>1. n.gen = r.gen /\ n.src \in {r.src, None}
  BY DEF Passes
<1>2. Over(r) /\ ~r.died => ~n.died
  BY DEF Passes
<1> QED
  BY <1>1, <1>2, OccupiedBefore DEF Continues

(* A target was one before the step, of the same source, unless its        *)
(* generation begins.                                                      *)
LEMMA NoNewTarget ==
    ASSUME OInv,
           \A x \in Session : Continues(rt[x], rt'[x]) \/ rt'[x].gen = rt[x].gen + 1,
           NEW s \in Session, Continues(rt[s], rt'[s]), Reserving(rt', s)
    PROVE  Reserving(rt, s) /\ rt'[s].src = rt[s].src
<1> DEFINE p == rt[s].src
<1>1. rt'[s].src = p /\ p # None /\ rt'[p[1]].gen = p[2] /\ OccupiesSlot(rt'[p[1]])
  BY DEF Reserving, SourceOccupied, Continues
<1>2. p[1] \in Session /\ p[2] <= rt[p[1]].gen /\ rt[p[1]].gen \in Nat
  BY <1>1, SourcesKnown, RecordFacts
<1>3. Continues(rt[p[1]], rt'[p[1]])
  <2>1. CASE rt'[p[1]].gen = rt[p[1]].gen + 1
    BY <1>1, <1>2, <2>1
  <2> QED
    BY <1>2, <2>1
<1>4. rt[p[1]].gen = p[2]
  BY <1>1, <1>3 DEF Continues
<1>5. SourceOver(p, rt)
  BY <1>1 DEF OInv, SourcesGood
<1>6. OccupiesSlot(rt[p[1]])
  BY <1>1, <1>3, <1>4, <1>5 DEF Continues, SourceOver
<1>7. rt[s].proc = "none"
  BY <1>1, RecordFacts DEF Good, Unlaunched
<1> QED
  BY <1>1, <1>4, <1>6, <1>7 DEF Reserving, SourceOccupied

(* What a step does not touch, and what it claims.                         *)
LEMMA SameContinues ==
    ASSUME NEW r
    PROVE  Continues(r, r)
BY DEF Continues

LEMMA ClaimContinues ==
    ASSUME OInv, NEW s \in Session, NEW g, NEW final,
           rt[s].status # "queued" \/ rt[s].gen # g,
           g \in Generation, final \in {"stopped", "error"}, g # 0 \/ rt[s].status # "queued"
    PROVE  Continues(rt[s], Begin(rt[s], g, final))
<1> DEFINE n == Begin(rt[s], g, final)
<1>1. Sound(rt[s], mode)
  BY RecordFacts DEF Sound
<1>2. Good(n, mode) /\ Passes(rt[s], n)
  BY <1>1, BeginFollows DEF Sound, Follows
<1>3. n \in Runtime /\ Owned(n)
  BY <1>1, BeginKeeps DEF Sound
<1> HIDE DEF n
<1>4. Sound(n, mode)
  BY <1>2, <1>3 DEF Sound
<1> QED
  BY <1>1, <1>2, <1>4, PassesContinue DEF n

(* A handoff.                                                              *)
LEMMA HandoffContinues ==
    ASSUME OInv, NEW s \in Session, NEW v \in Session, NEW turn,
           Resting(rt[s]), ~rt[s].cleanup, GenuinelyIdle(rt[v]), HandsOver(v, s, turn),
           NEW x \in Session
    PROVE  Continues(rt[x], rt'[x]) \/ rt'[x].gen = rt[x].gen + 1
<1> DEFINE n == Prepared(rt[s], <<v, rt[v].gen>>, turn)
           b == Begin(rt[v], rt[v].gen, "stopped")
<1>1. v # s /\ rt[v].status # "queued"
  BY DEF Resting, GenuinelyIdle
<1>2. n.gen = rt[s].gen + 1
  BY PreparedBegins
<1>3. Continues(rt[v], b)
  <2>1. rt[v].gen \in Generation
    BY RecordFacts DEF Runtime
  <2> QED
    BY <1>1, <2>1, ClaimContinues
<1>4. rt'[s] = n /\ rt'[v] = b /\ \A y \in Session \ {s, v} : rt'[y] = rt[y]
  BY <1>1, RecordFacts DEF HandsOver
<1> HIDE DEF n, b
<1> QED
  BY <1>2, <1>3, <1>4, SameContinues

(* An admission.                                                           *)
LEMMA AdmissionContinues ==
    ASSUME OInv, NEW s \in Session, NEW turn, rt[s].status \in {"stopped", "error"},
           AdmitFree(s, turn) \/ AdmitEvicting(s, turn), NEW x \in Session
    PROVE  Continues(rt[x], rt'[x]) \/ rt'[x].gen = rt[x].gen + 1
<1>1. Resting(rt[s]) /\ ~rt[s].cleanup /\ rt \in [Session -> Runtime]
  BY RecordFacts DEF Resting, AdmitFree, AdmitEvicting, CanPrepare
<1>2. CASE AdmitFree(s, turn)
  <2> DEFINE n == Prepared(rt[s], None, turn)
  <2>1. rt' = [rt EXCEPT ![s] = n] /\ n.gen = rt[s].gen + 1
    BY <1>1, <1>2, PreparedBegins DEF AdmitFree
  <2> HIDE DEF n
  <2>2. rt'[s] = n /\ \A y \in Session \ {s} : rt'[y] = rt[y]
    BY <1>1, <2>1
  <2> QED
    BY <2>1, <2>2, SameContinues
<1>3. CASE AdmitEvicting(s, turn)
  <2>1. PICK v \in Session :
           /\ GenuinelyIdle(rt[v])
           /\ rt' = [rt EXCEPT ![v] = Begin(@, @.gen, "stopped"),
                               ![s] = Prepared(@, <<v, rt[v].gen>>, turn)]
    BY <1>3 DEF AdmitEvicting, Evictable
  <2>2. HandsOver(v, s, turn)
    BY <1>1, <2>1 DEF HandsOver
  <2> QED
    BY <1>1, <2>1, <2>2, HandoffContinues
<1> QED
  BY <1>2, <1>3

LEMMA DispatchContinues ==
    ASSUME OInv, NEW s \in Session, DispatchFromIdle(s), NEW x \in Session
    PROVE  Continues(rt[x], rt'[x]) \/ rt'[x].gen = rt[x].gen + 1
<1>1. CASE UNCHANGED rt
  <2>1. rt'[x] = rt[x]
    BY <1>1
  <2> QED
    BY <2>1, SameContinues
<1>2. CASE CanDispatch(s) /\ ~UNCHANGED rt
  <2> DEFINE target == queue[First(EligibleFor(rt, queue, s))]
             turn == TRUE
  <2>1. rt' = [rt EXCEPT ![s] = Begin(@, @.gen, "stopped"),
                         ![target] = Prepared(@, <<s, rt[s].gen>>, turn)]
    BY <1>2 DEF DispatchFromIdle
  <2>2. target \in Session /\ rt[target].status = "queued"
    BY <1>2, DispatchTarget DEF OInv
  <2> HIDE DEF target, turn
  <2>3. HandsOver(s, target, turn) /\ Resting(rt[target]) /\ ~rt[target].cleanup
    BY <2>1, <2>2, RecordFacts DEF HandsOver, Resting, Good
  <2>4. GenuinelyIdle(rt[s])
    BY <1>2 DEF CanDispatch
  <2> QED
    BY <2>2, <2>3, <2>4, HandoffContinues
<1> QED
  BY <1>1, <1>2 DEF DispatchFromIdle

(* The service of the queue.                                               *)
LEMMA ServiceContinues ==
    ASSUME OInv, NEW f, Serving(f), ScheduleWaiting(f), NEW x \in Session
    PROVE  Continues(rt[x], rt'[x]) \/ rt'[x].gen = rt[x].gen + 1
<1>1. Sound(rt[x], mode) /\ Sound(f[x], mode) /\ Passes(rt[x], f[x])
  BY RecordFacts DEF Serving, Follows, Sound
<1>2. Continues(rt[x], f[x]) /\ f[x].gen = rt[x].gen
  BY <1>1, PassesContinue DEF Continues
<1>3. rt'[x] = f[x] \/ rt'[x] = Prepared(f[x], None, TRUE)
  BY DEF ScheduleWaiting
<1>4. Prepared(f[x], None, TRUE).gen = f[x].gen + 1
  BY <1>1 DEF Prepared, Sound, Runtime
<1> QED
  BY <1>2, <1>3, <1>4

(* The check of a start, and its launch.                                   *)
LEMMA StartContinues ==
    ASSUME OInv, NEW t \in starts, StartChecks(t) \/ StartLaunches(t), NEW x \in Session
    PROVE  Continues(rt[x], rt'[x])
<1> DEFINE s == t.sess
<1>1. /\ s \in Session /\ rt \in [Session -> Runtime] /\ rt[s] \in Runtime
      /\ Owned(rt[s]) /\ Good(rt[s], mode) /\ t.gen \in Generation /\ t.gen # 0
  BY TaskFacts, RecordFacts DEF StartTask
<1>2. CASE StartChecks(t)
  <2>1. CASE UNCHANGED rt
    <3>1. rt'[x] = rt[x]
      BY <2>1
    <3> QED
      BY <3>1, SameContinues
  <2>2. CASE StartIsCurrent(t) /\ rt' = [rt EXCEPT ![s] = Begin(@, t.gen, "error")]
    <3>1. rt[s].status # "queued"
      BY <2>2 DEF StartIsCurrent
    <3> DEFINE b == Begin(rt[s], t.gen, "error")
    <3>2. Continues(rt[s], b)
      BY <1>1, <3>1, ClaimContinues
    <3>3. rt'[s] = b /\ \A y \in Session \ {s} : rt'[y] = rt[y]
      BY <1>1, <2>2
    <3> HIDE DEF b
    <3> QED
      BY <3>2, <3>3, SameContinues
  <2>3. CASE StartIsCurrent(t) /\ rt' = [rt EXCEPT ![s].src = None]
    <3> DEFINE n == [rt[s] EXCEPT !.src = None]
    <3>1. rt' = [rt EXCEPT ![s] = n] /\ n.gen = rt[s].gen /\ n.src = None
      BY <1>1, <2>3 DEF Runtime
    <3>2. ~Over(rt[s])
      BY <2>3 DEF StartIsCurrent, Over, Resting
    <3> HIDE DEF n
    <3>3. Continues(rt[s], n)
      BY <3>1, <3>2 DEF Continues
    <3>4. rt'[s] = n /\ \A y \in Session \ {s} : rt'[y] = rt[y]
      BY <1>1, <3>1
    <3> QED
      BY <3>3, <3>4, SameContinues
  <2> QED
    BY <1>2, <2>1, <2>2, <2>3 DEF StartChecks
<1>3. CASE StartLaunches(t)
  <2> DEFINE r == [rt[s] EXCEPT !.proc = "live", !.ref = TRUE]
             n == IF StartIsCurrent(t) THEN r ELSE Begin(r, t.gen, "stopped")
  <2>1. rt' = [rt EXCEPT ![s] = n]
    BY <1>3 DEF StartLaunches
  <2>2. r.gen = rt[s].gen /\ r.src = rt[s].src
    BY <1>1 DEF Runtime
  <2>3. n.gen = rt[s].gen /\ n.src = rt[s].src
    <3>1. Begin(r, t.gen, "stopped").gen = r.gen /\ Begin(r, t.gen, "stopped").src = r.src
      <4>1. r \in Runtime
        BY <1>1 DEF Runtime
      <4> HIDE DEF r
      <4> QED
        BY <4>1 DEF Begin, Runtime
    <3> HIDE DEF r
    <3> QED
      BY <2>2, <3>1
  <2>4. Over(rt[s]) => OccupiesSlot(rt[s])
    <3>1. Held(rt[s])
      BY <1>3, TaskFacts DEF StartLaunches
    <3> QED
      BY <3>1 DEF Held, Over, Resting, OccupiesSlot, Finalizing
  <2> HIDE DEF n
  <2>5. Continues(rt[s], n)
    BY <2>3, <2>4 DEF Continues
  <2>6. rt'[s] = n /\ \A y \in Session \ {s} : rt'[y] = rt[y]
    BY <1>1, <2>1
  <2> QED
    BY <2>5, <2>6, SameContinues
<1> QED
  BY <1>2, <1>3

(* Every step continues each generation, or begins the next.               *)
LEMMA StepContinues ==
    ASSUME LInv, [Next]_vars, NEW x \in Session
    PROVE  Continues(rt[x], rt'[x]) \/ rt'[x].gen = rt[x].gen + 1
<1>1. OInv /\ OInv' /\ (Passing \/ Admitting)
  BY NextOInv DEF LInv, Advances
<1>2. CASE Passing
  <2>1. Sound(rt'[x], mode')
    BY <1>1 DEF OInv, IInv, TypeOK, Sound
  <2>2. Sound(rt[x], mode) /\ Passes(rt[x], rt'[x])
    BY <1>1, <1>2, RecordFacts DEF Sound, Passing
  <2> QED
    BY <2>1, <2>2, PassesContinue
<1>3. ASSUME NEW s \in Session, ActivateAdmits(s) \/ SendAdmits(s)
      PROVE  Continues(rt[x], rt'[x]) \/ rt'[x].gen = rt[x].gen + 1
  <2>1. rt[s].status \in {"stopped", "error"}
        /\ \E turn \in BOOLEAN : AdmitFree(s, turn) \/ AdmitEvicting(s, turn)
    BY <1>3 DEF ActivateAdmits, SendAdmits, Restartable
  <2> QED
    BY <1>1, <2>1, AdmissionContinues
<1>4. CASE \E s \in Session : DispatchFromIdle(s)
  BY <1>1, <1>4, DispatchContinues
<1>5. CASE (\E s \in Session : FinalizerConverges(s)) \/ SweepEnds
  <2>1. \E f : Serving(f) /\ ScheduleWaiting(f)
    BY <1>5, ServedFrom DEF SweepEnds
  <2> QED
    BY <1>1, <2>1, ServiceContinues
<1>6. CASE \E t \in starts : StartChecks(t) \/ StartLaunches(t)
  BY <1>1, <1>6, StartContinues
<1> QED
  BY <1>1, <1>2, <1>3, <1>4, <1>5, <1>6 DEF Admitting

(* Who takes a slot reserves it only if it did, in the same place.         *)
LEMMA StillTarget ==
    ASSUME LInv, [Next]_vars, NEW x \in Session, Takes(rt[x]), Reserving(rt', x)
    PROVE  Reserving(rt, x) /\ rt'[x].src = rt[x].src
<1>1. OInv /\ FromRest
  BY NextOInv DEF LInv, Advances
<1>2. \A y \in Session : Continues(rt[y], rt'[y]) \/ rt'[y].gen = rt[y].gen + 1
  BY StepContinues
<1>3. rt[x].gen \in Nat
  BY <1>1, RecordFacts
<1>4. rt'[x].gen = rt[x].gen
  BY <1>1 DEF FromRest, Takes
<1>5. Continues(rt[x], rt'[x])
  BY <1>2, <1>3, <1>4
<1> QED
  BY <1>1, <1>2, <1>5, NoNewTarget

(* While nobody lets go, all that takes a slot goes on taking it.          *)
LEMMA TakenStays ==
    ASSUME LInv, [Next]_vars, \A x \in Session : Takes(rt[x]) => Takes(rt'[x])
    PROVE  /\ Taken(rt) \in SUBSET Taken(rt')
           /\ \A u : TakenBy(rt, u) \in SUBSET TakenBy(rt', u)
BY StillTarget DEF Taken, TakenBy

(* The service of the queue fills the pool, or the quota of everyone who   *)
(* still waits.                                                            *)
LEMMA ServiceFills ==
    ASSUME OInv, OInv', NEW f, Serving(f), mode = "open", ScheduleWaiting(f)
    PROVE  Busy(rt', queue')
<1> DEFINE W == WithinQuota(f, queue)
           I == Admitted(f, queue)
<1>1. /\ States(f, mode) /\ Served(f, rt', queue, I)
      /\ queue' = Without(queue, I)
      /\ \A i \in DOMAIN queue : f[queue[i]].status = "queued"
      /\ W \in SUBSET (DOMAIN queue) /\ I \in SUBSET W
  BY ServiceStep
<1>2. /\ queue \in Seq(Session)
      /\ \A i, j \in DOMAIN queue : queue[i] = queue[j] => i = j
  BY QueueFacts
<1>3. \A x \in Session : Sound(rt'[x], mode')
  BY DEF OInv, IInv, TypeOK, Sound
<1>4. CASE W # I
  <2>1. PICK i \in W : i \notin I
    BY <1>1, <1>4
  <2>2. Occupied(rt') \in Nat /\ Occupied(rt') >= MaxActive
    BY <1>1, <1>2, <2>1, PoolFilled
  <2>3. \A u : Cardinality(Taken(rt')) \in Nat /\ Occupied(rt') <= Cardinality(Taken(rt'))
    BY <1>3, CountedAreTaken
  <2> QED
    BY <2>2, <2>3, PoolAssumption DEF Busy
<1>5. CASE W = I
  <2> SUFFICES ASSUME NEW k \in DOMAIN queue'
               PROVE  Cardinality(TakenBy(rt', Owner[queue'[k]])) >= MaxPerUser
    BY DEF Busy
  <2>1. PICK i \in DOMAIN queue : i \notin I /\ queue[i] = queue'[k]
    BY <1>1, <1>2, WithoutItems
  <2> DEFINE u == Owner[queue[i]]
  <2>2. UserOccupied(rt', u, None) \in Nat /\ UserOccupied(rt', u, None) >= MaxPerUser
    <3>1. /\ I \in SUBSET (DOMAIN queue) /\ i \notin W /\ \A l \in W : l < i => l \in I
      BY <1>1, <1>5, <2>1
    <3> HIDE DEF I, W
    <3>2. Served(f, rt', queue, I) /\ i \notin WithinQuota(f, queue)
          /\ \A l \in WithinQuota(f, queue) : l < i => l \in I
      BY <1>1, <3>1 DEF W
    <3> QED
      BY <1>1, <1>2, <3>1, <3>2, QuotaFilled
  <2>3. /\ Cardinality(TakenBy(rt', u)) \in Nat
        /\ UserOccupied(rt', u, None) <= Cardinality(TakenBy(rt', u))
    BY <1>3, CountedAreTaken
  <2> HIDE DEF u
  <2>4. Cardinality(TakenBy(rt', u)) >= MaxPerUser
    BY <2>2, <2>3, PoolAssumption
  <2> QED
    BY <2>1, <2>4 DEF u
<1> QED
  BY <1>4, <1>5

(* Who enters the queue found the pool, or its quota, used up.             *)
LEMMA QueuedBusy ==
    ASSUME OInv, NEW s \in Session, SendQueues(s)
    PROVE  \/ Cardinality(Taken(rt)) >= MaxActive
           \/ Cardinality(TakenBy(rt, Owner[s])) >= MaxPerUser
<1>1. \A x \in Session : Sound(rt[x], mode)
  BY RecordFacts DEF Sound
<1> DEFINE u == Owner[s]
<1>2. /\ Occupied(rt) \in Nat /\ Cardinality(Taken(rt)) \in Nat
      /\ Occupied(rt) <= Cardinality(Taken(rt))
      /\ UserOccupied(rt, u, None) \in Nat /\ Cardinality(TakenBy(rt, u)) \in Nat
      /\ UserOccupied(rt, u, None) <= Cardinality(TakenBy(rt, u))
  BY <1>1, CountedAreTaken
<1>3. ~(Occupied(rt) < MaxActive) \/ ~(UserOccupied(rt, u, None) < MaxPerUser)
  BY DEF SendQueues, CanStart, UserHasCapacity
<1> HIDE DEF u
<1>4. Cardinality(Taken(rt)) >= MaxActive \/ Cardinality(TakenBy(rt, u)) >= MaxPerUser
  BY <1>2, <1>3, PoolAssumption
<1> QED
  BY <1>4 DEF u

(* Nobody lets go: the pool stays as busy as it was.                       *)
LEMMA StaysBusy ==
    ASSUME LInv, OInv', [Next]_vars, Busy(rt, queue),
           \A x \in Session : Remains(rt[x], rt'[x]) \/ SendQueues(x)
    PROVE  Busy(rt', queue')
<1>1. OInv
  BY DEF LInv
<1>2. \A x \in Session : Takes(rt[x]) => Takes(rt'[x])
  <2>1. ASSUME NEW x \in Session, SendQueues(x) PROVE ~Takes(rt[x])
    BY <2>1 DEF SendQueues, Restartable, Takes, Resting
  <2> QED
    BY <2>1 DEF Remains
<1>3. /\ Taken(rt) \in SUBSET Taken(rt')
      /\ \A u : TakenBy(rt, u) \in SUBSET TakenBy(rt', u)
  BY <1>2, TakenStays
<1>4. Cardinality(Taken(rt)) >= MaxActive => Cardinality(Taken(rt')) >= MaxActive
  <2>1. Taken(rt') \in SUBSET Session
    BY DEF Taken
  <2>2. /\ Cardinality(Taken(rt)) \in Nat /\ Cardinality(Taken(rt')) \in Nat
        /\ Cardinality(Taken(rt)) <= Cardinality(Taken(rt'))
    BY <1>3, <2>1, Fewer
  <2> QED
    BY <2>2, PoolAssumption
<1>5. ASSUME NEW u, Cardinality(TakenBy(rt, u)) >= MaxPerUser
      PROVE  Cardinality(TakenBy(rt', u)) >= MaxPerUser
  <2>1. TakenBy(rt', u) \in SUBSET Session /\ TakenBy(rt, u) \in SUBSET TakenBy(rt', u)
    BY <1>3 DEF TakenBy
  <2>2. /\ Cardinality(TakenBy(rt, u)) \in Nat /\ Cardinality(TakenBy(rt', u)) \in Nat
        /\ Cardinality(TakenBy(rt, u)) <= Cardinality(TakenBy(rt', u))
    BY <2>1, Fewer
  <2> QED
    BY <1>5, <2>2, PoolAssumption
<1> SUFFICES ASSUME ~(Cardinality(Taken(rt')) >= MaxActive), NEW k \in DOMAIN queue'
             PROVE  Cardinality(TakenBy(rt', Owner[queue'[k]])) >= MaxPerUser
  BY DEF Busy
<1> DEFINE x == queue'[k]
<1>6. ~(Cardinality(Taken(rt)) >= MaxActive)
  <2>1. Taken(rt') \in SUBSET Session
    BY DEF Taken
  <2>2. Cardinality(Taken(rt')) \in Nat
    BY <2>1, Fewer
  <2> QED
    BY <1>4, <2>2, PoolAssumption
<1>7. x \in Session /\ rt'[x].status = "queued"
  <2>1. queue' \in Seq(Session) /\ QueueGood'
    BY DEF OInv, IInv, TypeOK
  <2>2. x \in Session
    BY <2>1
  <2> QED
    BY <2>1, <2>2 DEF QueueGood
<1>8. CASE rt[x].status = "queued"
  <2>1. PICK i \in DOMAIN queue : queue[i] = x
    BY <1>1, <1>7, <1>8 DEF OInv, QueueGood
  <2>2. Cardinality(TakenBy(rt, Owner[x])) >= MaxPerUser
    BY <1>6, <2>1 DEF Busy
  <2> QED
    BY <1>5, <2>2
<1>9. CASE rt[x].status # "queued"
  <2>1. SendQueues(x)
    BY <1>7, <1>9 DEF Remains
  <2>2. Cardinality(TakenBy(rt, Owner[x])) >= MaxPerUser
    BY <1>1, <1>6, <1>7, <2>1, QueuedBusy
  <2> QED
    BY <1>5, <2>2
<1> QED
  BY <1>8, <1>9

(* An open pool was open.                                                  *)
LEMMA WasOpen ==
    ASSUME OInv, [Next]_vars, mode' = "open"
    PROVE  mode = "open"
<1>1. mode \in {"open", "closing", "closed"}
  BY DEF OInv, IInv, TypeOK
<1>2. mode' = mode \/ Shutdown \/ ShutdownReturns
  BY ZenonT(60) DEF Next, Request, Core, Generations, Start, vars, Ended, Sweep, SweepEnds,
         ActivateReclaims, ActivateAdmits, SendReclaims, SendToStarting, SendToIdle,
         SendAdmits, SendQueues, SendWhenReady, SendWaitTimesOut, Resolve, StopSession,
         ControlBegins, LeaseAcquire, LeaseRelease, TurnFinished, Asks, ControlEnds,
         ControlAborts, ProcessExit, DispatchFromIdle, ReaderClaims, FinalizerLocks,
         FinalizerTearsDown, FinalizerConverges, StartChecks, StartLaunches,
         StartLaunchFails, StartCompletes, StartFails
<1> QED
  BY <1>1, <1>2 DEF Shutdown, ShutdownReturns

LEMMA NextWInv == WInv /\ [Next]_vars => WInv'
<1> SUFFICES ASSUME WInv, [Next]_vars PROVE WInv'
  OBVIOUS
<1>1. LInv /\ LInv' /\ OInv /\ OInv'
  <2>1. LInv /\ LInv'
    BY NextLInv DEF WInv
  <2> QED
    BY <2>1 DEF LInv
<1> SUFFICES ASSUME mode' = "open" PROVE Busy(rt', queue')
  BY <1>1 DEF WInv
<1>2. mode = "open"
  BY <1>1, WasOpen
<1>3. Busy(rt, queue)
  BY <1>2 DEF WInv
<1>4. CASE (\E s \in Session : FinalizerConverges(s)) \/ SweepEnds
  <2>1. \E f : Serving(f) /\ ScheduleWaiting(f)
    BY <1>1, <1>4, ServedFrom DEF SweepEnds
  <2> QED
    BY <1>1, <1>2, <2>1, ServiceFills
<1>5. CASE ~SweepEnds /\ \A s \in Session : ~FinalizerConverges(s)
  <2>1. \A x \in Session : Remains(rt[x], rt'[x]) \/ SendQueues(x)
    BY <1>1, <1>5, StepRemains
  <2> QED
    BY <1>1, <1>3, <2>1, StaysBusy
<1> QED
  BY <1>4, <1>5

LEMMA BusyHolds == Spec => []WInv
<1>1. Init => WInv
  <2>1. Init => queue = <<>>
    BY DEF Init
  <2> QED
    BY <2>1, InitLInv DEF WInv, Busy
<1> QED
  BY <1>1, NextWInv, PTL DEF Spec

(* No slot stays free beside a queued Turn that could take it: whatever    *)
(* lets go of a slot, a finalizer or a sweep, runs _schedule_waiting,      *)
(* which stops only at a full pool or at full quotas, and a call queues    *)
(* its Turn only when it finds one of them full.                           *)
THEOREM NoIdleSlot == Spec => []WorkConserving
<1>1. ASSUME WInv, mode = "open", \A s \in Session : ~ExitUnnoticed(s),
             NEW i \in Admitted(rt, queue)
      PROVE  FALSE
  <2> DEFINE u == Owner[queue[i]]
  <2>1. OInv /\ Busy(rt, queue)
    BY <1>1 DEF WInv, LInv
  <2>2. \A x \in Session : Takes(rt[x]) => OccupiesSlot(rt[x])
    BY <1>1, <2>1, TakesOccupied
  <2>3. Taken(rt) \in SUBSET PoolSet(rt)
    BY <2>2 DEF Taken, PoolSet, CountsSlot
  <2>4. TakenBy(rt, u) \in SUBSET UserSet(rt, u, None)
    <3>1. None \notin Session
      BY PoolAssumption
    <3> QED
      BY <2>2, <3>1 DEF TakenBy, UserSet, CountsUserSlot
  <2>5. /\ Occupied(rt) = Cardinality(PoolSet(rt)) /\ PoolSet(rt) \in SUBSET Session
        /\ UserOccupied(rt, u, None) = Cardinality(UserSet(rt, u, None))
        /\ UserSet(rt, u, None) \in SUBSET Session
    BY CountedSets
  <2>6. /\ Cardinality(Taken(rt)) \in Nat /\ Occupied(rt) \in Nat
        /\ Cardinality(Taken(rt)) <= Occupied(rt)
        /\ Cardinality(TakenBy(rt, u)) \in Nat /\ UserOccupied(rt, u, None) \in Nat
        /\ Cardinality(TakenBy(rt, u)) <= UserOccupied(rt, u, None)
    BY <2>3, <2>4, <2>5, Fewer
  <2>7. i \in DOMAIN queue /\ queue \in Seq(Session)
    BY <1>1, <2>1, QueueFacts DEF Admitted, WithinQuota
  <2>8. Occupied(rt) < MaxActive
    <3> DEFINE K == {j \in WithinQuota(rt, queue) : j < i}
    <3>1. Occupied(rt) + Cardinality(K) < MaxActive
      BY <1>1 DEF Admitted
    <3>2. K \in SUBSET (DOMAIN queue)
      BY DEF WithinQuota
    <3> HIDE DEF K
    <3>3. Cardinality(K) \in Nat
      BY <2>7, <3>2, ItemsAtMost
    <3> QED
      BY <2>6, <3>1, <3>3, PoolAssumption
  <2>9. UserOccupied(rt, u, None) < MaxPerUser
    <3> DEFINE K == {j \in 1..(i - 1) : Owner[queue[j]] = u}
    <3>1. UserOccupied(rt, u, None) + Cardinality(K) < MaxPerUser
      BY <1>1 DEF Admitted, WithinQuota
    <3>2. K \in SUBSET (DOMAIN queue)
      BY <2>7
    <3> HIDE DEF K, u
    <3>3. Cardinality(K) \in Nat
      BY <2>7, <3>2, ItemsAtMost
    <3> QED
      BY <2>6, <3>1, <3>3, PoolAssumption
  <2>10. Cardinality(TakenBy(rt, u)) >= MaxPerUser \/ Cardinality(Taken(rt)) >= MaxActive
    BY <2>1, <2>7 DEF Busy
  <2> HIDE DEF u
  <2> QED
    BY <2>6, <2>8, <2>9, <2>10, PoolAssumption
<1>2. ASSUME WInv PROVE WorkConserving
  BY <1>1, <1>2 DEF WorkConserving
<1> QED
  BY <1>2, BusyHolds, PTL

-----------------------------------------------------------------------------
(* How a Runtime becomes free to hand its slot over.                       *)

Free(r) == GenuinelyIdle(r) /\ r.leases = {}

NotFreed(r, n) == Free(n) => Free(r)

(* Its status says that it is not.                                         *)
LEMMA StatusNotFreed ==
    ASSUME NEW r, NEW n, n.status # "idle"
    PROVE  NotFreed(r, n)
BY DEF NotFreed, Free, GenuinelyIdle

LEMMA BeginNotFreed ==
    ASSUME NEW r \in Runtime, NEW g, NEW final
    PROVE  NotFreed(r, Begin(r, g, final))
<1>1. CASE ~Claimable(r, g)
  BY <1>1 DEF Begin, NotFreed
<1>2. CASE Claimable(r, g)
  <2>1. Begin(r, g, final).status = "stopping"
    BY <1>2 DEF Begin, Runtime
  <2> QED
    BY <2>1, StatusNotFreed
<1> QED
  BY <1>1, <1>2

LEMMA PreparedNotFreed ==
    ASSUME NEW r \in Runtime, NEW src, NEW turn
    PROVE  NotFreed(r, Prepared(r, src, turn))
<1>1. Prepared(r, src, turn).status = "starting"
  BY DEF Prepared, Runtime
<1> QED
  BY <1>1, StatusNotFreed

(* A step that changes one Session to n.                                   *)
LEMMA OneNotFreed ==
    ASSUME rt \in [Session -> Runtime], NEW s \in Session, NEW n,
           rt' = [rt EXCEPT ![s] = n], NotFreed(rt[s], n)
    PROVE  \A x \in Session : NotFreed(rt[x], rt'[x])
<1>1. rt'[s] = n /\ \A x \in Session \ {s} : rt'[x] = rt[x]
  OBVIOUS
<1> QED
  BY <1>1 DEF NotFreed

LEMMA ClaimNotFreed ==
    ASSUME rt \in [Session -> Runtime], NEW s \in Session, NEW g, NEW final,
           rt' = [rt EXCEPT ![s] = Begin(rt[s], g, final)]
    PROVE  \A x \in Session : NotFreed(rt[x], rt'[x])
<1> DEFINE n == Begin(rt[s], g, final)
<1>1. NotFreed(rt[s], n)
  BY BeginNotFreed
<1> HIDE DEF n
<1> QED
  BY <1>1, OneNotFreed DEF n

LEMMA HandoffNotFreed ==
    ASSUME rt \in [Session -> Runtime], NEW s \in Session, NEW v \in Session, NEW turn,
           Resting(rt[s]), GenuinelyIdle(rt[v]), HandsOver(v, s, turn)
    PROVE  \A x \in Session : NotFreed(rt[x], rt'[x])
<1> DEFINE n == Prepared(rt[s], <<v, rt[v].gen>>, turn)
           b == Begin(rt[v], rt[v].gen, "stopped")
<1>1. v # s
  BY DEF Resting, GenuinelyIdle
<1>2. NotFreed(rt[s], n) /\ NotFreed(rt[v], b)
  BY BeginNotFreed, PreparedNotFreed
<1>3. rt'[s] = n /\ rt'[v] = b /\ \A x \in Session \ {s, v} : rt'[x] = rt[x]
  BY <1>1 DEF HandsOver
<1> HIDE DEF n, b
<1>4. ASSUME NEW x \in Session \ {s, v} PROVE NotFreed(rt[x], rt'[x])
  BY <1>3 DEF NotFreed
<1> QED
  BY <1>2, <1>3, <1>4

LEMMA AdmissionNotFreed ==
    ASSUME rt \in [Session -> Runtime], NEW s \in Session, NEW turn,
           Resting(rt[s]), AdmitFree(s, turn) \/ AdmitEvicting(s, turn)
    PROVE  \A x \in Session : NotFreed(rt[x], rt'[x])
<1>1. CASE AdmitFree(s, turn)
  <2> DEFINE n == Prepared(rt[s], None, turn)
  <2>1. rt' = [rt EXCEPT ![s] = n] /\ NotFreed(rt[s], n)
    BY <1>1, PreparedNotFreed DEF AdmitFree
  <2> HIDE DEF n
  <2> QED
    BY <2>1, OneNotFreed
<1>2. CASE AdmitEvicting(s, turn)
  <2>1. PICK v \in Session :
           /\ GenuinelyIdle(rt[v])
           /\ rt' = [rt EXCEPT ![v] = Begin(@, @.gen, "stopped"),
                               ![s] = Prepared(@, <<v, rt[v].gen>>, turn)]
    BY <1>2 DEF AdmitEvicting, Evictable
  <2>2. HandsOver(v, s, turn)
    BY <2>1 DEF HandsOver
  <2> QED
    BY <2>1, <2>2, HandoffNotFreed
<1> QED
  BY <1>1, <1>2

LEMMA DispatchNotFreed ==
    ASSUME OInv, NEW s \in Session, DispatchFromIdle(s)
    PROVE  \A x \in Session : NotFreed(rt[x], rt'[x])
<1>1. CASE UNCHANGED rt
  BY <1>1 DEF NotFreed
<1>2. CASE CanDispatch(s) /\ ~UNCHANGED rt
  <2> DEFINE target == queue[First(EligibleFor(rt, queue, s))]
             turn == TRUE
  <2>1. rt' = [rt EXCEPT ![s] = Begin(@, @.gen, "stopped"),
                         ![target] = Prepared(@, <<s, rt[s].gen>>, turn)]
    BY <1>2 DEF DispatchFromIdle
  <2>2. target \in Session /\ Resting(rt[target])
    BY <1>2, DispatchTarget DEF OInv, Resting
  <2> HIDE DEF target, turn
  <2>3. HandsOver(s, target, turn) /\ rt \in [Session -> Runtime]
    BY <2>1, <2>2, RecordFacts DEF HandsOver
  <2>4. GenuinelyIdle(rt[s])
    BY <1>2 DEF CanDispatch
  <2> QED
    BY <2>2, <2>3, <2>4, HandoffNotFreed
<1> QED
  BY <1>1, <1>2 DEF DispatchFromIdle

LEMMA RequestNotFreed ==
    ASSUME OInv, NEW s \in Session, Request(s), NEW x \in Session
    PROVE  NotFreed(rt[x], rt'[x]) \/ x \in dispatch' \/ queue' = <<>>
<1>1. rt \in [Session -> Runtime] /\ rt[s] \in Runtime
  BY RecordFacts
<1>2. CASE ActivateReclaims(s) \/ SendReclaims(s)
  BY <1>1, <1>2, ClaimNotFreed DEF ActivateReclaims, SendReclaims, ReclaimFirst
<1>3. CASE ActivateAdmits(s) \/ SendAdmits(s)
  <2>1. Resting(rt[s]) /\ \E turn : AdmitFree(s, turn) \/ AdmitEvicting(s, turn)
    BY <1>3 DEF ActivateAdmits, SendAdmits, Restartable, Resting
  <2> QED
    BY <1>1, <2>1, AdmissionNotFreed
<1>4. CASE SendToStarting(s)
  <2> DEFINE n == [rt[s] EXCEPT !.turn = TRUE, !.waiter = TRUE]
  <2>1. rt' = [rt EXCEPT ![s] = n] /\ n.status = "starting"
    BY <1>1, <1>4 DEF SendToStarting, Runtime
  <2> HIDE DEF n
  <2> QED
    BY <1>1, <2>1, StatusNotFreed, OneNotFreed
<1>5. CASE SendToIdle(s) \/ SendWhenReady(s) \/ SendWaitTimesOut(s) \/ Resolve(s)
           \/ SendQueues(s)
  <2>1. PICK n : /\ rt' = [rt EXCEPT ![s] = n]
                 /\ n.status \in {"running", "starting", "queued"}
    BY <1>1, <1>5
       DEF SendToIdle, SendWhenReady, SendWaitTimesOut, Resolve, SendQueues, Runtime
  <2> QED
    BY <1>1, <2>1, StatusNotFreed, OneNotFreed
<1>6. CASE StopSession(s)
  <2>1. CASE rt' = [rt EXCEPT ![s].status = "stopped", ![s].turn = FALSE]
    <3> DEFINE n == [rt[s] EXCEPT !.status = "stopped", !.turn = FALSE]
    <3>1. rt' = [rt EXCEPT ![s] = n] /\ n.status = "stopped"
      BY <1>1, <2>1 DEF Runtime
    <3> HIDE DEF n
    <3> QED
      BY <1>1, <3>1, StatusNotFreed, OneNotFreed
  <2>2. CASE rt' = [rt EXCEPT ![s] = Begin(@, @.gen, "stopped")]
    BY <1>1, <2>2, ClaimNotFreed
  <2> QED
    BY <1>6, <2>1, <2>2 DEF StopSession
<1>7. ASSUME NEW c, ControlBegins(s, c) \/ LeaseAcquire(s, c)
      PROVE  \A y \in Session : NotFreed(rt[y], rt'[y])
  <2>1. CASE ControlBegins(s, c)
    <3> DEFINE n == [rt[s] EXCEPT !.control = c, !.busy = TRUE]
    <3>1. rt' = [rt EXCEPT ![s] = n] /\ n.busy
      BY <1>1, <2>1 DEF ControlBegins, Runtime
    <3> HIDE DEF n
    <3>2. NotFreed(rt[s], n)
      BY <3>1 DEF NotFreed, Free, GenuinelyIdle
    <3> QED
      BY <1>1, <3>1, <3>2, OneNotFreed
  <2>2. CASE LeaseAcquire(s, c)
    <3> DEFINE n == [rt[s] EXCEPT !.leases = @ \cup {c}]
    <3>1. rt' = [rt EXCEPT ![s] = n] /\ n.leases = rt[s].leases \cup {c}
      BY <1>1, <2>2 DEF LeaseAcquire, Runtime
    <3> HIDE DEF n
    <3>2. NotFreed(rt[s], n)
      BY <3>1 DEF NotFreed, Free, GenuinelyIdle
    <3> QED
      BY <1>1, <3>1, <3>2, OneNotFreed
  <2> QED
    BY <1>7, <2>1, <2>2
<1>8. ASSUME NEW c, LeaseRelease(s, c)
      PROVE  NotFreed(rt[x], rt'[x]) \/ x \in dispatch' \/ queue' = <<>>
  <2> DEFINE n == [rt[s] EXCEPT !.leases = @ \ {c}]
  <2>1. rt' = [rt EXCEPT ![s] = n]
    BY <1>1, <1>8 DEF LeaseRelease
  <2>2. /\ n.status = rt[s].status /\ n.proc = rt[s].proc /\ n.turn = rt[s].turn
        /\ n.busy = rt[s].busy /\ n.leases = rt[s].leases \ {c}
    BY <1>1 DEF Runtime
  <2> HIDE DEF n
  <2>3. rt'[s] = n /\ \A y \in Session \ {s} : rt'[y] = rt[y]
    BY <1>1, <2>1
  <2>4. CASE x # s
    BY <2>3, <2>4 DEF NotFreed
  <2>5. CASE x = s
    <3> SUFFICES ASSUME Free(n), queue' # <<>> PROVE s \in dispatch'
      BY <2>3, <2>5 DEF NotFreed
    <3>1. GenuinelyIdle(rt[s])
      BY <2>2 DEF Free, GenuinelyIdle, Live
    <3>2. rt[s].leases = {c} /\ queue # <<>>
      BY <1>8, <2>2 DEF LeaseRelease, Free
    <3> QED
      BY <1>8, <3>1, <3>2 DEF LeaseRelease
  <2> QED
    BY <2>4, <2>5
<1> QED
  BY <1>2, <1>3, <1>4, <1>5, <1>6, <1>7, <1>8 DEF Request

LEMMA CoreNotFreed ==
    ASSUME OInv, Control = {}, NEW s \in Session, Core(s), NEW x \in Session
    PROVE  NotFreed(rt[x], rt'[x]) \/ x \in dispatch'
<1>1. rt \in [Session -> Runtime] /\ rt[s] \in Runtime
  BY RecordFacts
<1>2. CASE TurnFinished(s)
  <2>1. \A y \in Session \ {s} : rt'[y] = rt[y]
    BY <1>1, <1>2 DEF TurnFinished
  <2>2. s \in dispatch'
    BY <1>2 DEF TurnFinished
  <2> QED
    BY <2>1, <2>2 DEF NotFreed
<1>3. CASE Asks(s)
  <2>1. PICK n : /\ rt' = [rt EXCEPT ![s] = n]
                 /\ n.status \in {"waiting_permission", "waiting_mcp_trust"}
    BY <1>1, <1>3 DEF Asks, Runtime
  <2> QED
    BY <1>1, <2>1, StatusNotFreed, OneNotFreed
<1>4. rt[s].control = None
  BY <1>1 DEF Runtime
<1>5. CASE ProcessExit(s)
  <2> DEFINE d == rt[s].died \/ ~(Finalizing(rt[s]) \/ rt[s].cleanup)
             n == [rt[s] EXCEPT !.proc = "exited", !.died = d]
  <2>1. rt' = [rt EXCEPT ![s] = n]
    BY <1>1, <1>5 DEF ProcessExit
  <2> HIDE DEF d
  <2>2. n.proc = "exited"
    BY <1>1 DEF Runtime
  <2> HIDE DEF n
  <2>3. NotFreed(rt[s], n)
    BY <2>2 DEF NotFreed, Free, GenuinelyIdle, Live
  <2> QED
    BY <1>1, <2>1, <2>3, OneNotFreed
<1> QED
  BY <1>2, <1>3, <1>4, <1>5 DEF Core, ControlEnds, ControlAborts

LEMMA ServiceNotFreed ==
    ASSUME NEW f, ScheduleWaiting(f), NEW x \in Session, f[x] \in Runtime,
           NotFreed(rt[x], f[x])
    PROVE  NotFreed(rt[x], rt'[x])
<1>1. rt'[x] = f[x] \/ rt'[x] = Prepared(f[x], None, TRUE)
  BY DEF ScheduleWaiting
<1>2. Prepared(f[x], None, TRUE).status = "starting"
  BY DEF Prepared, Runtime
<1> QED
  BY <1>1, <1>2, StatusNotFreed

LEMMA GenerationsNotFreed ==
    ASSUME OInv, NEW s \in Session, Generations(s), NEW x \in Session
    PROVE  NotFreed(rt[x], rt'[x])
<1>1. /\ rt \in [Session -> Runtime] /\ rt[s] \in Runtime
      /\ Owned(rt[s]) /\ Good(rt[s], mode)
  BY RecordFacts
<1>2. CASE DispatchFromIdle(s)
  BY <1>2, DispatchNotFreed
<1>3. CASE ReaderClaims(s)
  <2>1. PICK final : rt' = [rt EXCEPT ![s] = Begin(rt[s], rt[s].gen, final)]
    BY <1>1, <1>3 DEF ReaderClaims
  <2> QED
    BY <1>1, <2>1, ClaimNotFreed
<1>4. CASE FinalizerLocks(s)
  <2> DEFINE n == [rt[s] EXCEPT !.fin = "teardown"]
  <2>1. rt' = [rt EXCEPT ![s] = n] /\ n.status = rt[s].status /\ rt[s].status = "stopping"
    BY <1>1, <1>4 DEF FinalizerLocks, Runtime, Owned
  <2> HIDE DEF n
  <2> QED
    BY <1>1, <2>1, StatusNotFreed, OneNotFreed
<1>5. CASE FinalizerTearsDown(s)
  <2>1. PICK survives, kept, errors \in BOOLEAN :
         /\ survives \/ kept \/ errors => "cleanup" \in Env
         /\ survives => Live(rt[s])
         /\ kept => rt[s].ref
         /\ rt' = [rt EXCEPT
                ![s].proc = IF Live(rt[s]) /\ ~survives THEN "exited" ELSE @,
                ![s].fin = IF kept THEN "kept" ELSE "hooks",
                ![s].final = IF errors THEN "error" ELSE @,
                ![s].token = 0]
    BY <1>5 DEF FinalizerTearsDown
  <2> DEFINE a == IF Live(rt[s]) /\ ~survives THEN "exited" ELSE rt[s].proc
             b == IF kept THEN "kept" ELSE "hooks"
             c == IF errors THEN "error" ELSE rt[s].final
             n == [rt[s] EXCEPT !.proc = a, !.fin = b, !.final = c, !.token = 0]
  <2>2. rt' = [rt EXCEPT ![s] = n]
    BY <1>1, <2>1 DEF Runtime
  <2> HIDE DEF a, b, c
  <2>3. n.status = rt[s].status
    BY <1>1 DEF Runtime
  <2> HIDE DEF n
  <2>4. rt[s].status = "stopping"
    BY <1>1, <1>5 DEF FinalizerTearsDown, Owned
  <2> QED
    BY <1>1, <2>2, <2>3, <2>4, StatusNotFreed, OneNotFreed
<1>6. CASE FinalizerConverges(s)
  <2> DEFINE c == Converged(rt[s])
             f == [rt EXCEPT ![s] = Converged(@)]
  <2>1. rt[s].fin \in {"hooks", "kept"} /\ ScheduleWaiting(f)
    BY <1>6 DEF FinalizerConverges
  <2>2. c \in Runtime /\ c.status \in {"stopped", "error"}
    <3>1. c \in Runtime
      BY <1>1, <2>1, ConvergedKeeps
    <3>2. c.status \in {"error", rt[s].final}
      BY <1>1 DEF Converged, Runtime
    <3> QED
      BY <1>1, <3>1, <3>2 DEF Runtime
  <2>3. f[s] = c /\ \A y \in Session \ {s} : f[y] = rt[y]
    BY <1>1
  <2> HIDE DEF c, f
  <2>4. f[x] \in Runtime /\ NotFreed(rt[x], f[x])
    <3>1. CASE x = s
      BY <2>2, <2>3, <3>1, StatusNotFreed
    <3>2. CASE x # s
      BY <1>1, <2>3, <3>2 DEF NotFreed
    <3> QED
      BY <3>1, <3>2
  <2> QED
    BY <2>1, <2>4, ServiceNotFreed
<1> QED
  BY <1>2, <1>3, <1>4, <1>5, <1>6 DEF Generations

LEMMA StartNotFreed ==
    ASSUME OInv, NEW t \in starts, Start(t), NEW x \in Session
    PROVE  NotFreed(rt[x], rt'[x]) \/ x \in dispatch'
<1> DEFINE s == t.sess
<1>1. s \in Session /\ rt \in [Session -> Runtime] /\ rt[s] \in Runtime
  BY TaskFacts, RecordFacts
<1>2. CASE StartChecks(t)
  <2>1. CASE UNCHANGED rt
    BY <2>1 DEF NotFreed
  <2>2. CASE rt' = [rt EXCEPT ![s] = Begin(@, t.gen, "error")]
    BY <1>1, <2>2, ClaimNotFreed
  <2>3. CASE StartIsCurrent(t) /\ rt' = [rt EXCEPT ![s].src = None]
    <3> DEFINE n == [rt[s] EXCEPT !.src = None]
    <3>1. rt' = [rt EXCEPT ![s] = n] /\ n.status = "starting"
      BY <1>1, <2>3 DEF Runtime, StartIsCurrent
    <3> HIDE DEF n
    <3> QED
      BY <1>1, <3>1, StatusNotFreed, OneNotFreed
  <2> QED
    BY <1>2, <2>1, <2>2, <2>3 DEF StartChecks
<1>3. CASE StartLaunches(t)
  <2> DEFINE r == [rt[s] EXCEPT !.proc = "live", !.ref = TRUE]
             n == IF StartIsCurrent(t) THEN r ELSE Begin(r, t.gen, "stopped")
  <2>1. rt' = [rt EXCEPT ![s] = n]
    BY <1>3 DEF StartLaunches
  <2>2. r.status = rt[s].status /\ r \in Runtime
    BY <1>1 DEF Runtime
  <2>3. rt[s].status # "idle"
    <3>1. Held(rt[s])
      BY <1>3, TaskFacts DEF StartLaunches
    <3> QED
      BY <3>1 DEF Held
  <2> HIDE DEF r
  <2>4. Begin(r, t.gen, "stopped").status \in {r.status, "stopping"}
    BY <2>2 DEF Begin, Runtime
  <2>5. n.status # "idle"
    BY <2>2, <2>3, <2>4
  <2> HIDE DEF n
  <2> QED
    BY <1>1, <2>1, <2>5, StatusNotFreed, OneNotFreed
<1>4. CASE StartLaunchFails(t) \/ StartFails(t)
  <2>1. rt' = [rt EXCEPT ![s] = Begin(rt[s], t.gen, "error")]
    BY <1>1, <1>4 DEF StartLaunchFails, StartFails
  <2> QED
    BY <1>1, <2>1, ClaimNotFreed
<1>5. CASE StartCompletes(t)
  <2>1. CASE x = s /\ ~t.turn
    BY <1>5, <2>1 DEF StartCompletes
  <2>2. CASE x = s /\ t.turn
    <3>1. rt'[s].status = "running"
      BY <1>1, <1>5, <2>2 DEF StartCompletes, Runtime
    <3> QED
      BY <2>2, <3>1, StatusNotFreed
  <2>3. CASE x # s
    <3>1. rt'[x] = rt[x]
      BY <1>1, <1>5, <2>3 DEF StartCompletes
    <3> QED
      BY <3>1 DEF NotFreed
  <2> QED
    BY <2>1, <2>2, <2>3
<1> QED
  BY <1>2, <1>3, <1>4, <1>5 DEF Start

(* Whatever makes a Runtime free dispatches it, unless no Turn waits; only *)
(* the end of a Context control would not.                                 *)
LEMMA StepNotFreed ==
    ASSUME OInv, Control = {}, [Next]_vars, NEW x \in Session
    PROVE  NotFreed(rt[x], rt'[x]) \/ x \in dispatch' \/ queue' = <<>>
<1>1. rt \in [Session -> Runtime] /\ rt[x] \in Runtime
  BY RecordFacts
<1>2. CASE Sweep
  <2>1. rt'[x] = Begin(rt[x], rt[x].gen, "stopped") \/ rt'[x] = rt[x]
    BY <1>2 DEF Sweep
  <2>2. NotFreed(rt[x], Begin(rt[x], rt[x].gen, "stopped")) /\ NotFreed(rt[x], rt[x])
    BY <1>1, BeginNotFreed DEF NotFreed
  <2> QED
    BY <2>1, <2>2
<1>3. CASE SweepEnds
  BY <1>1, <1>3, ServiceNotFreed DEF SweepEnds, NotFreed
<1>4. CASE Shutdown
  BY <1>4 DEF Shutdown
<1>5. CASE ShutdownReturns
  <2> DEFINE n == [rt[x] EXCEPT !.token = 0]
  <2>1. rt'[x] = n
    BY <1>5 DEF ShutdownReturns
  <2>2. /\ n.status = rt[x].status /\ n.proc = rt[x].proc /\ n.turn = rt[x].turn
        /\ n.busy = rt[x].busy /\ n.leases = rt[x].leases
    BY <1>1 DEF Runtime
  <2> HIDE DEF n
  <2> QED
    BY <2>1, <2>2 DEF NotFreed, Free, GenuinelyIdle, Live
<1>6. CASE UNCHANGED vars
  BY <1>6 DEF NotFreed, vars
<1> QED
  BY <1>2, <1>3, <1>4, <1>5, <1>6, RequestNotFreed, CoreNotFreed, GenerationsNotFreed,
     StartNotFreed DEF Next, Ended

-----------------------------------------------------------------------------
(* The handoff of an idle Runtime.                                         *)

(* What takes a slot and has not died by itself holds it.                  *)
LEMMA TakesHolds ==
    ASSUME NEW r, NEW m, Sound(r, m), Takes(r), ~r.died
    PROVE  OccupiesSlot(r)
<1>1. r.status \in Status /\ r.proc \in {"none", "live", "exited"}
  BY DEF Sound, Runtime
<1>2. CASE Resting(r) \/ r.status \in {"starting", "stopping"}
  BY <1>2 DEF Takes, OccupiesSlot, Finalizing
<1>3. CASE Up(r) \/ r.status = "waiting_mcp_trust"
  <2>1. r.proc = "live"
    BY <1>1, <1>3 DEF Sound, Good, Up, Over, Resting
  <2> QED
    BY <2>1 DEF OccupiesSlot, Live
<1> QED
  BY <1>1, <1>2, <1>3 DEF Status, Resting, Up

(* Nobody has died after the step.                                         *)
NobodyDied == \A x \in Session : ~rt'[x].died

(* Who counts for u besides s and goes on taking a slot counts on.         *)
LEMMA QuotaStays ==
    ASSUME LInv, OInv', [Next]_vars, NobodyDied, NEW u, NEW s,
           NEW x \in UserSet(rt, u, s), Takes(rt'[x])
    PROVE  x \in UserSet(rt', u, s)
<1>1. x \in Session /\ Owner[x] = u /\ x # s /\ CountsUserSlot(rt, x)
  BY DEF UserSet
<1>2. Sound(rt[x], mode) /\ Sound(rt'[x], mode')
  BY <1>1, RecordFacts DEF LInv, OInv, IInv, TypeOK, Sound
<1>3. Takes(rt[x])
  BY <1>1, <1>2, OccupiedTakes DEF CountsUserSlot
<1>4. OccupiesSlot(rt'[x])
  BY <1>1, <1>2, TakesHolds DEF NobodyDied
<1>5. Reserving(rt', x) => Owner[rt'[x].src[1]] # Owner[x]
  BY <1>1, <1>3, StillTarget DEF CountsUserSlot
<1> QED
  BY <1>1, <1>4, <1>5 DEF UserSet, CountsUserSlot

(* A quota that was full is, when no fewer count for it.                   *)
LEMMA StaysFull ==
    ASSUME NEW x \in Session, NEW s, ~UserHasCapacity(rt, x, s),
           Cardinality(UserSet(rt, Owner[x], s)) <= Cardinality(UserSet(rt', Owner[x], s))
    PROVE  ~UserHasCapacity(rt', x, s)
<1> DEFINE u == Owner[x]
<1>1. /\ UserOccupied(rt, u, s) = Cardinality(UserSet(rt, u, s))
      /\ UserOccupied(rt', u, s) = Cardinality(UserSet(rt', u, s))
      /\ UserSet(rt, u, s) \in SUBSET Session /\ UserSet(rt', u, s) \in SUBSET Session
  BY CountedSets
<1>2. Cardinality(UserSet(rt, u, s)) \in Nat /\ Cardinality(UserSet(rt', u, s)) \in Nat
  BY <1>1, Fewer
<1> QED
  BY <1>1, <1>2, PoolAssumption DEF UserHasCapacity

LEMMA NobodyLetsGo ==
    ASSUME LInv, OInv', [Next]_vars, NobodyDied, NEW x \in Session, NEW s,
           ~UserHasCapacity(rt, x, s),
           \A y \in UserSet(rt, Owner[x], s) : Takes(rt'[y])
    PROVE  ~UserHasCapacity(rt', x, s)
<1> DEFINE B == UserSet(rt, Owner[x], s)
           C == UserSet(rt', Owner[x], s)
<1>1. B \in SUBSET C
  BY QuotaStays
<1>2. C \in SUBSET Session
  BY DEF UserSet
<1>3. Cardinality(B) <= Cardinality(C)
  BY <1>1, <1>2, Fewer
<1> QED
  BY <1>3, StaysFull

(* A Turn that waits found no capacity that s could give.                  *)
LEMMA NoneBefore ==
    ASSUME OInv, NEW s \in Session, Free(rt[s]), EligibleFor(rt, queue, s) = {},
           NEW x \in Session, rt[x].status = "queued" \/ SendQueues(x)
    PROVE  ~UserHasCapacity(rt, x, s)
<1>1. CASE rt[x].status = "queued"
  <2>1. PICK i \in DOMAIN queue : queue[i] = x
    BY <1>1 DEF OInv, QueueGood
  <2> QED
    BY <1>1, <2>1 DEF EligibleFor
<1>2. CASE SendQueues(x)
  <2>1. s \notin Evictable(rt, x)
    BY <1>2 DEF SendQueues
  <2> QED
    BY <2>1 DEF Evictable, Free
<1> QED
  BY <1>1, <1>2

(* In a step in which nobody lets go.                                      *)
LEMMA NoneNow ==
    ASSUME LInv, OInv', [Next]_vars, NobodyDied, NEW s \in Session,
           Free(rt[s]), EligibleFor(rt, queue, s) = {},
           \A y \in Session : Remains(rt[y], rt'[y]) \/ SendQueues(y),
           NEW x \in Session, rt'[x].status = "queued"
    PROVE  ~UserHasCapacity(rt', x, s)
<1>1. OInv
  BY DEF LInv
<1>2. ~UserHasCapacity(rt, x, s)
  <2>1. rt[x].status = "queued" \/ SendQueues(x)
    BY DEF Remains
  <2> QED
    BY <1>1, <2>1, NoneBefore
<1>3. ASSUME NEW y \in UserSet(rt, Owner[x], s) PROVE Takes(rt'[y])
  <2>1. y \in Session /\ OccupiesSlot(rt[y])
    BY DEF UserSet, CountsUserSlot
  <2>2. Takes(rt[y])
    BY <1>1, <2>1, RecordFacts, OccupiedTakes DEF Sound
  <2>3. ~SendQueues(y)
    BY <2>2 DEF SendQueues, Restartable, Takes, Resting
  <2> QED
    BY <2>1, <2>2, <2>3 DEF Remains
<1> QED
  BY <1>2, <1>3, NobodyLetsGo

(* The convergence of y, which then serves the queue.                      *)
Ending(y) == [rt EXCEPT ![y] = Converged(@)]

LEMMA Converging ==
    ASSUME LInv, mode = "open", NEW y \in Session, FinalizerConverges(y)
    PROVE  /\ Serving(Ending(y)) /\ ScheduleWaiting(Ending(y))
           /\ \A z \in Session \ {y} : Ending(y)[z] = rt[z]
           /\ rt'[y] = Ending(y)[y]
           /\ rt[y].status = "stopping" /\ rt[y].finGen # 0 /\ rt'[y].finGen = 0
           /\ \A z \in Session \ {y} : Takes(rt[z]) => Takes(rt'[z])
           /\ \A z \in Session : rt'[z].status = "queued" => rt[z].status = "queued"
           /\ \A z \in Session : OccupiesSlot(rt[z]) /\ ~rt'[z].died => ~rt[z].died
<1> DEFINE f == Ending(y)
           c == Converged(rt[y])
           I == Admitted(f, queue)
<1>1. OInv /\ rt \in [Session -> Runtime] /\ rt[y] \in Runtime /\ Owned(rt[y])
  BY RecordFacts DEF LInv
<1>2. f[y] = c /\ \A z \in Session \ {y} : f[z] = rt[z]
  BY <1>1 DEF Ending
<1>3. Serving(f) /\ ScheduleWaiting(f)
  BY ServedFrom DEF Ending
<1>4. rt[y].status = "stopping" /\ rt[y].finGen # 0
  BY <1>1 DEF FinalizerConverges, Owned
<1>5. c.finGen = 0 /\ c.status # "queued" /\ c.died = rt[y].died
  <2>1. c.status \in {"error", rt[y].final} /\ c.finGen = 0 /\ c.died = rt[y].died
    BY <1>1 DEF Converged, Runtime
  <2> QED
    BY <1>1, <2>1 DEF Runtime
<1> HIDE DEF f, c
<1>6. /\ Served(f, rt', queue, I)
      /\ \A i \in DOMAIN queue : f[queue[i]].status = "queued"
      /\ I \in SUBSET (DOMAIN queue)
  BY <1>1, <1>3, ServiceStep
<1>7. \A z \in Session :
         \/ rt'[z] = f[z]
         \/ f[z].status = "queued" /\ rt'[z] = Prepared(f[z], None, TRUE)
  BY <1>6, ZenonT(60) DEF Served, ItemsAt
<1>8. \A z \in Session : f[z] \in Runtime /\ f[z].status = "queued" => rt[z].status = "queued"
  BY <1>3 DEF Serving, Follows, Sound
<1>9. \A z \in Session : Prepared(f[z], None, TRUE).status = "starting"
  BY <1>3 DEF Serving, Sound, Prepared, Runtime
<1>10. rt'[y] = f[y]
  BY <1>2, <1>5, <1>7
<1>11. ASSUME NEW z \in Session, z # y, Takes(rt[z]) PROVE Takes(rt'[z])
  <2>1. rt'[z] = rt[z] \/ rt'[z].status = "starting"
    BY <1>2, <1>7, <1>9, <1>11
  <2> QED
    BY <1>11, <2>1 DEF Takes, Resting
<1>12. ASSUME NEW z \in Session, rt'[z].status = "queued" PROVE rt[z].status = "queued"
  <2>1. rt'[z] = f[z]
    BY <1>7, <1>9, <1>12
  <2>2. Follows(rt[z], f[z])
    BY <1>3 DEF Serving
  <2> QED
    BY <1>12, <2>1, <2>2 DEF Follows
<1>13. ASSUME NEW z \in Session, OccupiesSlot(rt[z]), ~rt'[z].died PROVE ~rt[z].died
  <2>1. CASE z = y
    BY <1>2, <1>5, <1>10, <1>13, <2>1
  <2>2. CASE z # y
    <3>1. Takes(rt[z])
      BY <1>1, <1>13, RecordFacts, OccupiedTakes DEF Sound
    <3>2. f[z] = rt[z] /\ f[z].status # "queued"
      BY <1>2, <2>2, <3>1, RecordFacts, <1>1 DEF Takes, Resting, Good
    <3>3. rt'[z] = rt[z]
      BY <1>7, <3>2
    <3> QED
      BY <1>13, <3>3
  <2> QED
    BY <2>1, <2>2
<1> QED
  BY <1>2, <1>3, <1>4, <1>5, <1>10, <1>11, <1>12, <1>13 DEF f

(* It lets go of a slot that was promised: the target takes the place.     *)
LEMMA TargetTakesOver ==
    ASSUME LInv, OInv', [Next]_vars, NobodyDied, NEW s \in Session, Live(rt[s]),
           NEW y \in Session, ~OccupiesSlot(rt'[y]),
           \A z \in Session \ {y} : Takes(rt[z]) => Takes(rt'[z]),
           NEW z \in Session, Reserving(rt, z), rt[z].src[1] = y, Owner[z] = Owner[y]
    PROVE  Cardinality(UserSet(rt, Owner[y], s)) <= Cardinality(UserSet(rt', Owner[y], s))
<1> DEFINE B == UserSet(rt, Owner[y], s)
           C == UserSet(rt', Owner[y], s)
<1>1. OInv /\ \A x \in Session : Sound(rt[x], mode) /\ Sound(rt'[x], mode')
  <2>1. OInv
    BY DEF LInv
  <2> QED
    BY <2>1, RecordFacts DEF OInv, IInv, TypeOK, Sound
<1>2. rt[z].src # None /\ rt[z].proc = "none" /\ rt[y].src = None
  BY <1>1, SourceCounts DEF Reserving
<1>3. z # y /\ z # s
  BY <1>2 DEF Live
<1>4. Takes(rt[z])
  BY <1>1, <1>2 DEF Sound, Good, Takes
<1>5. OccupiesSlot(rt'[z])
  BY <1>1, <1>3, <1>4, TakesHolds DEF NobodyDied
<1>6. ~Reserving(rt', z)
  <2>1. Reserving(rt', z) => rt'[z].src = rt[z].src
    BY <1>4, StillTarget
  <2> QED
    BY <2>1 DEF Reserving, SourceOccupied
<1>7. z \in C \ B
  BY <1>3, <1>5, <1>6 DEF UserSet, CountsUserSlot
<1>8. ASSUME NEW x \in B, x # y PROVE x \in C
  <2>1. x \in Session /\ OccupiesSlot(rt[x])
    BY DEF UserSet, CountsUserSlot
  <2>2. Takes(rt'[x])
    BY <1>1, <1>8, <2>1, OccupiedTakes
  <2> QED
    BY <2>2, QuotaStays
<1>9. B \in SUBSET Session /\ C \in SUBSET Session
  BY DEF UserSet
<1> HIDE DEF B, C
<1> DEFINE h == [x \in B \ C |-> z]
<1>10. h \in [B \ C -> C \ B] /\ \A x, w \in B \ C : h[x] = h[w] => x = w
  BY <1>7, <1>8
<1> HIDE DEF h
<1>11. Cardinality(B) <= Cardinality(C)
  BY <1>9, <1>10, Replaced
<1> QED
  BY <1>11 DEF B, C

(* It lets go of a slot that nobody was promised: the pool is no longer    *)
(* full, and the quotas that were full are, but for one place of y's user. *)
LEMMA SlotIsFree ==
    ASSUME LInv, mode = "open", NobodyDied, NEW s \in Session, Free(rt[s]),
           EligibleFor(rt, queue, s) = {},
           NEW y \in Session, FinalizerConverges(y), ~OccupiesSlot(rt'[y]),
           CountsUserSlot(rt, y), ~Reserving(rt, y),
           \A z \in Session : Reserving(rt, z) => rt[z].src[1] # y
    PROVE  /\ Occupied(Ending(y)) \in Nat /\ Occupied(Ending(y)) < MaxActive
           /\ \A j \in DOMAIN queue :
                 LET w == Owner[queue[j]]
                     o == UserOccupied(Ending(y), w, None)
                 IN  /\ w # Owner[s] /\ o \in Nat
                     /\ w # Owner[y] => o >= MaxPerUser
                     /\ o + 1 >= MaxPerUser
<1> DEFINE f == Ending(y)
<1>1. OInv /\ Counted(rt) /\ \A x \in Session : Sound(rt[x], mode)
  BY RecordFacts DEF LInv, Sound
<1>2. /\ \A z \in Session \ {y} : f[z] = rt[z]
      /\ rt'[y] = f[y]
      /\ \A z \in Session : OccupiesSlot(rt[z]) => ~rt[z].died
  BY Converging DEF NobodyDied
<1>3. ~OccupiesSlot(f[y])
  BY <1>2
<1> HIDE DEF f
<1>4. ASSUME NEW z \in Session, SourceOccupied(f, rt[z])
      PROVE  SourceOccupied(rt, rt[z])
  <2>1. rt[z].src # None /\ rt[z].src[1] \in Session
    BY <1>1, <1>4, SourcesKnown DEF SourceOccupied
  <2>2. rt[z].src[1] # y
    BY <1>3, <1>4 DEF SourceOccupied
  <2> QED
    BY <1>2, <1>4, <2>1, <2>2 DEF SourceOccupied
<1>5. ASSUME NEW z \in Session, SourceOccupied(rt, rt[z]), rt[z].src[1] # y
      PROVE  SourceOccupied(f, rt[z])
  <2>1. rt[z].src # None /\ rt[z].src[1] \in Session
    BY <1>1, <1>5, SourcesKnown DEF SourceOccupied
  <2> QED
    BY <1>2, <1>5, <2>1 DEF SourceOccupied
<1>6. \A z \in Session \ {y} : Reserving(f, z) <=> Reserving(rt, z)
  BY <1>2, <1>4, <1>5 DEF Reserving
<1>7. /\ Occupied(f) = Cardinality(PoolSet(f)) /\ PoolSet(f) \in SUBSET Session
      /\ PoolSet(rt) \in SUBSET Session
      /\ \A u, v : /\ UserOccupied(f, u, v) = Cardinality(UserSet(f, u, v))
                   /\ UserOccupied(rt, u, v) = Cardinality(UserSet(rt, u, v))
                   /\ UserSet(f, u, v) \in SUBSET Session
                   /\ UserSet(rt, u, v) \in SUBSET Session
  BY CountedSets
<1>8. Occupied(f) \in Nat /\ Occupied(f) < MaxActive
  <2>1. y \in PoolSet(rt) /\ y \notin PoolSet(f)
    BY <1>3 DEF PoolSet, CountsSlot, CountsUserSlot
  <2>2. PoolSet(f) \in SUBSET PoolSet(rt)
    BY <1>2, <1>3, <1>6 DEF PoolSet, CountsSlot
  <2>3. PoolSet(rt) = Slots(rt)
    BY <1>2 DEF PoolSet, Slots, CountsSlot
  <2>4. Cardinality(PoolSet(rt)) <= MaxActive /\ IsFiniteSet(PoolSet(rt))
    BY <1>1, <1>7, <2>3, Fewer DEF Counted
  <2>5. /\ Cardinality(PoolSet(rt)) \in Nat /\ Cardinality(PoolSet(f)) \in Nat
        /\ Cardinality(PoolSet(f)) < Cardinality(PoolSet(rt))
    BY <2>1, <2>2, <2>4, Smaller
  <2> QED
    BY <1>7, <2>4, <2>5, PoolAssumption
<1>9. ASSUME NEW j \in DOMAIN queue
      PROVE  /\ Owner[queue[j]] # Owner[s]
             /\ Cardinality(UserSet(rt, Owner[queue[j]], None)) >= MaxPerUser
  <2> DEFINE w == Owner[queue[j]]
             B == UserSet(rt, w, s)
             C == UserSet(rt, w, None)
  <2>1. queue[j] \in Session /\ rt[queue[j]].status = "queued"
    BY <1>1, QueueFacts
  <2>2. ~(UserOccupied(rt, w, s) < MaxPerUser)
    BY <2>1 DEF EligibleFor, UserHasCapacity
  <2>3. None \notin Session /\ w \in User
    BY <2>1, PoolAssumption
  <2>4. B \in SUBSET C /\ C \in SUBSET Session
    BY <1>7, <2>3 DEF UserSet
  <2>5. s \notin B /\ (w = Owner[s] => s \in C)
    BY <2>3 DEF UserSet, CountsUserSlot, OccupiesSlot, Reserving, Live, Free, GenuinelyIdle
  <2>6. C = UserSlots(rt, w)
    BY <1>2, <2>3 DEF UserSet, UserSlots, CountsUserSlot
  <2> HIDE DEF w
  <2>7. ~(Cardinality(B) < MaxPerUser) /\ Cardinality(C) <= MaxPerUser
    BY <1>1, <1>7, <2>2, <2>3, <2>6 DEF Counted
  <2> HIDE DEF B, C
  <2>8. /\ Cardinality(B) \in Nat /\ Cardinality(C) \in Nat
        /\ Cardinality(B) <= Cardinality(C) /\ IsFiniteSet(C)
    BY <2>4, Fewer
  <2>9. w # Owner[s]
    <3> SUFFICES ASSUME w = Owner[s] PROVE FALSE
      OBVIOUS
    <3>1. s \in C \ B
      BY <2>5
    <3>2. Cardinality(B) < Cardinality(C)
      BY <2>4, <2>8, <3>1, Smaller
    <3> QED
      BY <2>7, <2>8, <3>2, PoolAssumption
  <2>10. Cardinality(C) >= MaxPerUser
    BY <2>7, <2>8, PoolAssumption
  <2> QED
    BY <2>9, <2>10 DEF w, C
<1>10. ASSUME NEW w
       PROVE  /\ UserOccupied(f, w, None) \in Nat
              /\ Cardinality(UserSet(rt, w, None)) \in Nat
              /\ w # Owner[y] =>
                    Cardinality(UserSet(rt, w, None)) <= UserOccupied(f, w, None)
              /\ Cardinality(UserSet(rt, w, None)) <= UserOccupied(f, w, None) + 1
  <2> DEFINE B == UserSet(f, w, None)
             C == UserSet(rt, w, None)
             A == {y}
  <2>1. C \in SUBSET (B \cup A)
    <3>1. ASSUME NEW x \in C, x # y PROVE x \in B
      <4>1. x \in Session /\ CountsUserSlot(rt, x) /\ f[x] = rt[x]
        BY <1>2, <3>1 DEF UserSet
      <4>2. CountsUserSlot(f, x)
        BY <1>6, <3>1, <4>1 DEF CountsUserSlot
      <4> QED
        BY <4>2 DEF UserSet
    <3> QED
      BY <3>1
  <2>2. w # Owner[y] => C \in SUBSET B
    <3>1. w # Owner[y] => y \notin C
      BY DEF UserSet
    <3> QED
      BY <2>1, <3>1
  <2>3. A \in SUBSET Session /\ Cardinality(A) = 1
    BY FS_Singleton
  <2>4. B \in SUBSET Session /\ C \in SUBSET Session
        /\ UserOccupied(f, w, None) = Cardinality(B)
    BY <1>7
  <2> HIDE DEF A, B, C
  <2>5. /\ Cardinality(B) \in Nat /\ Cardinality(C) \in Nat
        /\ Cardinality(C) <= Cardinality(B) + Cardinality(A)
    BY <2>1, <2>3, <2>4, TogetherAtMost
  <2>6. w # Owner[y] => Cardinality(C) <= Cardinality(B)
    BY <2>2, <2>4, Fewer
  <2> QED
    BY <2>3, <2>4, <2>5, <2>6 DEF C
<1>11. ASSUME NEW j \in DOMAIN queue, NEW w, w = Owner[queue[j]],
              NEW o, o = UserOccupied(f, w, None)
       PROVE  /\ w # Owner[s] /\ o \in Nat
              /\ w # Owner[y] => o >= MaxPerUser
              /\ o + 1 >= MaxPerUser
  <2> DEFINE c == Cardinality(UserSet(rt, w, None))
  <2>1. w # Owner[s] /\ c >= MaxPerUser
    BY <1>9, <1>11
  <2>2. o \in Nat /\ c \in Nat /\ (w # Owner[y] => c <= o) /\ c <= o + 1
    BY <1>10, <1>11
  <2> HIDE DEF c
  <2> QED
    BY <2>1, <2>2, PoolAssumption
<1> QED
  BY <1>8, <1>11 DEF f

(* Whoever waits after the convergence of y waits for its own quota: the   *)
(* slot that y let go of went to its target, or to the queue.              *)
LEMMA NoneConverging ==
    ASSUME LInv, OInv', [Next]_vars, NobodyDied, mode = "open", NEW s \in Session,
           Free(rt[s]), EligibleFor(rt, queue, s) = {},
           NEW y \in Session, FinalizerConverges(y), ~FreesQuotaOnly(y),
           NEW x \in Session, rt'[x].status = "queued"
    PROVE  ~UserHasCapacity(rt', x, s)
<1> DEFINE f == Ending(y)
           I == Admitted(f, queue)
           W == WithinQuota(f, queue)
<1>1. /\ Serving(f) /\ ScheduleWaiting(f)
      /\ rt[y].finGen # 0 /\ rt'[y].finGen = 0
      /\ \A z \in Session \ {y} : Takes(rt[z]) => Takes(rt'[z])
      /\ rt[x].status = "queued"
  BY Converging
<1>2. OInv /\ \A z \in Session : Sound(rt[z], mode) /\ Sound(rt'[z], mode')
  <2>1. OInv
    BY DEF LInv
  <2> QED
    BY <2>1, RecordFacts DEF OInv, IInv, TypeOK, Sound
<1>3. ~UserHasCapacity(rt, x, s)
  BY <1>1, <1>2, NoneBefore
<1>4. CASE y \notin UserSet(rt, Owner[x], s) \/ Takes(rt'[y])
  <2>1. ASSUME NEW z \in UserSet(rt, Owner[x], s) PROVE Takes(rt'[z])
    <3>1. z \in Session /\ OccupiesSlot(rt[z])
      BY DEF UserSet, CountsUserSlot
    <3>2. Takes(rt[z])
      BY <1>2, <3>1, OccupiedTakes
    <3> QED
      BY <1>1, <1>4, <3>1, <3>2
  <2> QED
    BY <1>3, <2>1, NobodyLetsGo
<1>5. CASE y \in UserSet(rt, Owner[x], s) /\ ~Takes(rt'[y])
  <2>1. Owner[y] = Owner[x] /\ CountsUserSlot(rt, y) /\ ~OccupiesSlot(rt'[y])
    BY <1>2, <1>5, OccupiedTakes DEF UserSet
  <2>2. /\ ~Reserving(rt, y)
        /\ \A z \in Session : Reserving(rt, z) /\ rt[z].src[1] = y => Owner[z] = Owner[y]
    BY <1>1, <2>1 DEF FreesQuotaOnly
  <2>3. CASE \E z \in Session : Reserving(rt, z) /\ rt[z].src[1] = y
    <3>1. PICK z \in Session : Reserving(rt, z) /\ rt[z].src[1] = y
      BY <2>3
    <3>2. Live(rt[s]) /\ Owner[z] = Owner[y]
      BY <2>2, <3>1 DEF Free, GenuinelyIdle
    <3>3. Cardinality(UserSet(rt, Owner[y], s)) <= Cardinality(UserSet(rt', Owner[y], s))
      BY <1>1, <2>1, <3>1, <3>2, TargetTakesOver
    <3> QED
      BY <1>3, <2>1, <3>3, StaysFull
  <2>4. CASE \A z \in Session : Reserving(rt, z) => rt[z].src[1] # y
    <3>1. /\ Occupied(f) \in Nat /\ Occupied(f) < MaxActive
          /\ \A j \in DOMAIN queue :
                LET w == Owner[queue[j]]
                    o == UserOccupied(f, w, None)
                IN  /\ w # Owner[s] /\ o \in Nat
                    /\ w # Owner[y] => o >= MaxPerUser
                    /\ o + 1 >= MaxPerUser
      BY <2>1, <2>2, <2>4, SlotIsFree
    <3>2. /\ States(f, mode) /\ Served(f, rt', queue, I)
          /\ \A i \in DOMAIN queue : f[queue[i]].status = "queued"
          /\ W \in SUBSET (DOMAIN queue) /\ I \in SUBSET W
          /\ queue \in Seq(Session)
          /\ \A i, j \in DOMAIN queue : queue[i] = queue[j] => i = j
          /\ queue' = Without(queue, I)
      BY <1>1, <1>2, ServiceStep, QueueFacts
    <3> HIDE DEF f
    <3>3. ASSUME NEW j \in W
          PROVE  /\ Owner[queue[j]] = Owner[y]
                 /\ \A i \in 1..(j - 1) : Owner[queue[i]] # Owner[queue[j]]
      <4> DEFINE w == Owner[queue[j]]
                 o == UserOccupied(f, w, None)
                 K == {i \in 1..(j - 1) : Owner[queue[i]] = w}
      <4>1. o + Cardinality(K) < MaxPerUser
        BY DEF WithinQuota
      <4>2. j \in DOMAIN queue /\ K \in SUBSET (DOMAIN queue)
        BY <3>2
      <4> HIDE DEF K, o
      <4>3. Cardinality(K) \in Nat /\ IsFiniteSet(K)
        BY <3>2, <4>2, ItemsAtMost
      <4>4. /\ o \in Nat /\ (w # Owner[y] => o >= MaxPerUser)
            /\ o + 1 >= MaxPerUser
        BY <3>1, <4>2 DEF o
      <4>5. w = Owner[y] /\ Cardinality(K) = 0
        BY <4>1, <4>3, <4>4, PoolAssumption
      <4>6. K = {}
        BY <4>3, <4>5, FS_EmptySet
      <4>7. \A i \in 1..(j - 1) : Owner[queue[i]] # w
        BY <4>6 DEF K
      <4> QED
        BY <4>5, <4>7
    <3>4. ASSUME NEW i \in W, NEW j \in W PROVE ~(i < j)
      <4>1. Owner[queue[i]] = Owner[queue[j]]
        BY <3>3
      <4>2. Len(queue) \in Nat /\ i \in 1..Len(queue) /\ j \in 1..Len(queue)
        BY <3>2
      <4> QED
        BY <3>3, <4>1, <4>2
    <3>5. W \in SUBSET I
      <4> SUFFICES ASSUME NEW j \in W PROVE j \in I
        OBVIOUS
      <4> DEFINE K == {i \in W : i < j}
      <4>1. K = {}
        BY <3>4
      <4>2. Cardinality(K) = 0
        BY <4>1, FS_EmptySet
      <4> HIDE DEF K
      <4>3. Occupied(f) + Cardinality(K) < MaxActive
        BY <3>1, <4>2
      <4> QED
        BY <4>3 DEF Admitted, K
    <3>6. PICK i \in DOMAIN queue : queue[i] = x /\ i \notin I
      <4>1. PICK k \in DOMAIN queue' : queue'[k] = x
        BY DEF OInv, QueueGood
      <4> QED
        BY <3>2, <4>1, WithoutItems
    <3>7. UserOccupied(rt', Owner[x], None) \in Nat
          /\ UserOccupied(rt', Owner[x], None) >= MaxPerUser
      <4>1. I \in SUBSET (DOMAIN queue) /\ i \notin W /\ \A l \in W : l < i => l \in I
        BY <3>2, <3>5, <3>6
      <4> HIDE DEF I
      <4>2. i \notin WithinQuota(f, queue)
            /\ \A l \in WithinQuota(f, queue) : l < i => l \in I
        BY <4>1
      <4> HIDE DEF W
      <4> QED
        BY <3>2, <3>6, <4>1, <4>2, QuotaFilled
    <3>8. Owner[x] # Owner[s]
      BY <3>1, <3>6
    <3>9. UserSet(rt', Owner[x], s) = UserSet(rt', Owner[x], None)
      <4>1. None \notin Session
        BY PoolAssumption
      <4> QED
        BY <3>8, <4>1 DEF UserSet
    <3>10. UserOccupied(rt', Owner[x], s) = UserOccupied(rt', Owner[x], None)
      BY <3>9, CountedSets
    <3> QED
      BY <3>7, <3>10, PoolAssumption DEF UserHasCapacity
  <2> QED
    BY <2>3, <2>4
<1> QED
  BY <1>4, <1>5

(* A free Runtime that could give its slot to nobody still cannot, unless  *)
(* a place in a quota was freed without a slot.                            *)
LEMMA StillNoTarget ==
    ASSUME LInv, OInv', [Next]_vars, NobodyDied, mode' = "open", NEW s \in Session,
           Free(rt[s]), EligibleFor(rt, queue, s) = {},
           \A x \in Session : ~FreesQuotaOnly(x)
    PROVE  EligibleFor(rt', queue', s) = {}
<1>1. OInv /\ mode = "open" /\ rt \in [Session -> Runtime]
  BY WasOpen, RecordFacts DEF LInv
<1> SUFFICES ASSUME NEW i \in EligibleFor(rt', queue', s) PROVE FALSE
  OBVIOUS
<1> DEFINE x == queue'[i]
<1>2. x \in Session /\ rt'[x].status = "queued" /\ UserHasCapacity(rt', x, s)
  <2>1. queue' \in Seq(Session)
    BY DEF OInv, IInv, TypeOK
  <2>2. i \in DOMAIN queue'
    BY DEF EligibleFor
  <2> QED
    BY <2>1, <2>2 DEF EligibleFor
<1> HIDE DEF x
<1>3. CASE \E y \in Session : FinalizerConverges(y)
  <2>1. PICK y \in Session : FinalizerConverges(y)
    BY <1>3
  <2>2. ~FreesQuotaOnly(y)
    OBVIOUS
  <2> QED
    BY <1>1, <1>2, <2>1, <2>2, NoneConverging
<1>4. CASE ~\E y \in Session : FinalizerConverges(y)
  <2>1. ASSUME NEW y \in Session PROVE Remains(rt[y], rt'[y]) \/ SendQueues(y)
    <3>1. CASE SweepEnds
      <4>1. rt'[y] = rt[y] \/ rt'[y] = Prepared(rt[y], None, TRUE)
        BY <3>1 DEF SweepEnds, ScheduleWaiting
      <4>2. Prepared(rt[y], None, TRUE).status = "starting"
        BY <1>1 DEF Prepared, Runtime
      <4> QED
        BY <4>1, <4>2 DEF Remains, Takes, Resting
    <3>2. CASE ~SweepEnds
      BY <1>1, <1>4, <3>2, StepRemains
    <3> QED
      BY <3>1, <3>2
  <2> QED
    BY <1>2, <2>1, NoneNow
<1> QED
  BY <1>3, <1>4

(* The dispatch of a free Runtime with a target is not lost.               *)
LEMMA DispatchKept ==
    ASSUME OInv, [Next]_vars, mode' = "open", NEW s \in Session, s \in dispatch,
           CanDispatch(s), CanDispatch(s)'
    PROVE  s \in dispatch'
<1>1. rt \in [Session -> Runtime] /\ rt[s] \in Runtime /\ Owned(rt[s])
  BY RecordFacts
<1>2. ~DispatchFromIdle(s)
  <2> SUFFICES ASSUME DispatchFromIdle(s) PROVE FALSE
    OBVIOUS
  <2> DEFINE target == queue[First(EligibleFor(rt, queue, s))]
             b == Begin(rt[s], rt[s].gen, "stopped")
  <2>1. rt' = [rt EXCEPT ![s] = b, ![target] = Prepared(@, <<s, rt[s].gen>>, TRUE)]
    BY DEF DispatchFromIdle
  <2>2. target \in Session /\ rt[target].status = "queued"
    BY DispatchTarget DEF OInv
  <2>3. rt[s].status = "idle"
    BY DEF CanDispatch, GenuinelyIdle
  <2> HIDE DEF target, b
  <2>4. rt'[s] = b
    BY <1>1, <2>1, <2>2, <2>3
  <2>5. Claimable(rt[s], rt[s].gen)
    BY <1>1, <2>3 DEF Claimable, Owned
  <2>6. b.status = "stopping"
    BY <1>1, <2>5 DEF b, Begin, Runtime
  <2> QED
    BY <2>4, <2>6 DEF CanDispatch, GenuinelyIdle
<1>3. ~ShutdownReturns
  BY DEF ShutdownReturns
<1>4. CASE UNCHANGED dispatch
  BY <1>4
<1>5. CASE ~UNCHANGED dispatch
  <2>1. \/ \E x \in Session : \/ TurnFinished(x) \/ DispatchFromIdle(x)
                              \/ \E c \in Client : LeaseRelease(x, c)
        \/ \E t \in starts : StartCompletes(t)
    BY <1>3, <1>5, ZenonT(60)
       DEF Next, Request, Core, Generations, Start, vars, Ended, Sweep, SweepEnds, Shutdown,
         ActivateReclaims, ActivateAdmits, SendReclaims, SendToStarting, SendToIdle,
         SendAdmits, SendQueues, SendWhenReady, SendWaitTimesOut, Resolve, StopSession,
         ControlBegins, LeaseAcquire, Asks, ControlEnds,
         ControlAborts, ProcessExit, ReaderClaims, FinalizerLocks,
         FinalizerTearsDown, FinalizerConverges, StartChecks, StartLaunches,
         StartLaunchFails, StartFails
  <2> QED
    BY <1>2, <2>1 DEF TurnFinished, DispatchFromIdle, LeaseRelease, StartCompletes
<1> QED
  BY <1>4, <1>5

(* The slot of an idle Runtime is not kept from a Turn that could take it: *)
(* the end of a Turn, of the last terminal lease and of a start spawn      *)
(* _dispatch_from_idle, and whatever makes a waiting Turn eligible for a   *)
(* Runtime that was idle before frees a slot as well, which                *)
(* _schedule_waiting gives away, or only a place in a quota, which         *)
(* FreesQuotaOnly excepts.  A Context control that ends dispatches         *)
(* nothing, as PoolControlHandoff shows.                                   *)
THEOREM IdleIsHandedOver == Control = {} => (Spec => IdleHandedOver)
<1> SUFFICES ASSUME Control = {} PROVE Spec => IdleHandedOver
  OBVIOUS
<1> DEFINE Handed ==
             \A s \in Session :
                /\ CanDispatch(s)' /\ ~(CanDispatch(s) /\ s \notin dispatch)
                /\ \A x \in Session : ~rt'[x].died /\ ~FreesQuotaOnly(x)
                => s \in dispatch'
<1>1. ASSUME LInv, LInv', [Next]_vars PROVE Handed
  <2> SUFFICES ASSUME NEW s \in Session,
                      CanDispatch(s)', ~(CanDispatch(s) /\ s \notin dispatch),
                      \A x \in Session : ~rt'[x].died /\ ~FreesQuotaOnly(x)
               PROVE  s \in dispatch'
    OBVIOUS
  <2>1. OInv /\ OInv' /\ NobodyDied /\ mode' = "open"
    BY <1>1 DEF LInv, NobodyDied, CanDispatch
  <2>2. Free(rt'[s]) /\ EligibleFor(rt', queue', s) # {} /\ mode = "open"
    BY <1>1, <2>1, WasOpen DEF CanDispatch, Free
  <2>3. CASE CanDispatch(s)
    BY <1>1, <2>1, <2>3, DispatchKept
  <2>4. CASE ~CanDispatch(s) /\ Free(rt[s])
    <3>1. EligibleFor(rt, queue, s) = {}
      BY <2>2, <2>4 DEF CanDispatch, Free
    <3> QED
      BY <1>1, <2>1, <2>2, <2>4, <3>1, StillNoTarget
  <2>5. CASE ~Free(rt[s])
    <3>1. queue' # <<>>
      BY <2>2 DEF EligibleFor
    <3> QED
      BY <1>1, <2>1, <2>2, <2>5, <3>1, StepNotFreed DEF NotFreed
  <2> QED
    BY <2>3, <2>4, <2>5
<1> HIDE DEF Handed
<1>2. ASSUME LInv, [Next]_vars PROVE LInv'
  BY <1>2, NextLInv
<1>3. Spec => [][Handed]_vars
  BY <1>1, <1>2, LimitsHold, PTL DEF Spec
<1> QED
  BY <1>3 DEF Handed, IdleHandedOver

-----------------------------------------------------------------------------
(* The loop of _schedule_waiting.                                          *)

(* Exactly so many more are occupied.                                      *)
LEMMA ServiceOccupies ==
    ASSUME NEW f, NEW g, NEW m, NEW q \in Seq(Session), NEW I \in SUBSET (DOMAIN q),
           States(f, m), Served(f, g, q, I), \A i \in I : f[q[i]].status = "queued",
           \A i, j \in DOMAIN q : q[i] = q[j] => i = j
    PROVE  /\ Occupied(g) = Occupied(f) + Cardinality(I)
           /\ \A u : UserOccupied(g, u, None)
                       = UserOccupied(f, u, None) + Cardinality(OfUser(q, I, u))
<1> DEFINE A == ItemsAt(q, I)
<1>1. /\ A \in SUBSET Session
      /\ \A x \in A : /\ CountsSlot(g, x) /\ CountsUserSlot(g, x)
                      /\ ~CountsSlot(f, x) /\ ~CountsUserSlot(f, x)
      /\ \A x \in Session \ A : /\ CountsSlot(g, x) <=> CountsSlot(f, x)
                                /\ CountsUserSlot(g, x) <=> CountsUserSlot(f, x)
  BY ServiceCounts
<1>2. /\ Occupied(f) \in Nat /\ Occupied(g) \in Nat /\ Cardinality(I) \in Nat
      /\ Occupied(g) >= Occupied(f) + Cardinality(I)
      /\ \A u : /\ UserOccupied(f, u, None) \in Nat
                /\ UserOccupied(g, u, None) \in Nat
                /\ Cardinality(OfUser(q, I, u)) \in Nat
                /\ UserOccupied(g, u, None)
                     >= UserOccupied(f, u, None) + Cardinality(OfUser(q, I, u))
  BY ServiceAdds
<1>3. /\ Occupied(f) = Cardinality(PoolSet(f)) /\ Occupied(g) = Cardinality(PoolSet(g))
      /\ PoolSet(f) \in SUBSET Session /\ PoolSet(g) \in SUBSET Session
      /\ \A u : /\ UserOccupied(f, u, None) = Cardinality(UserSet(f, u, None))
                /\ UserOccupied(g, u, None) = Cardinality(UserSet(g, u, None))
                /\ UserSet(f, u, None) \in SUBSET Session
                /\ UserSet(g, u, None) \in SUBSET Session
  BY CountedSets
<1>4. ASSUME NEW B \in SUBSET Session, NEW C \in SUBSET Session, NEW J \in SUBSET I,
             C \in SUBSET (B \cup ItemsAt(q, J))
      PROVE  /\ Cardinality(B) \in Nat /\ Cardinality(C) \in Nat /\ Cardinality(J) \in Nat
             /\ Cardinality(C) <= Cardinality(B) + Cardinality(J)
  <2>1. J \in SUBSET (DOMAIN q) /\ ItemsAt(q, J) \in SUBSET Session
    BY DEF ItemsAt
  <2>2. Cardinality(J) \in Nat /\ Cardinality(ItemsAt(q, J)) <= Cardinality(J)
    BY <2>1, ItemsAtMost DEF ItemsAt
  <2>3. /\ Cardinality(ItemsAt(q, J)) \in Nat /\ Cardinality(B) \in Nat
        /\ Cardinality(C) \in Nat
        /\ Cardinality(C) <= Cardinality(B) + Cardinality(ItemsAt(q, J))
    BY <1>4, <2>1, TogetherAtMost
  <2> QED
    BY <2>2, <2>3
<1>5. Cardinality(PoolSet(g)) <= Cardinality(PoolSet(f)) + Cardinality(I)
  <2>1. PoolSet(g) \in SUBSET (PoolSet(f) \cup ItemsAt(q, I))
    BY <1>1 DEF PoolSet
  <2> QED
    BY <1>3, <1>4, <2>1
<1>6. ASSUME NEW u
      PROVE  Cardinality(UserSet(g, u, None))
               <= Cardinality(UserSet(f, u, None)) + Cardinality(OfUser(q, I, u))
  <2>1. OfUser(q, I, u) \in SUBSET I
    BY DEF OfUser
  <2>2. UserSet(g, u, None) \in SUBSET (UserSet(f, u, None) \cup ItemsAt(q, OfUser(q, I, u)))
    <3> SUFFICES ASSUME NEW x \in UserSet(g, u, None), x \notin UserSet(f, u, None)
                 PROVE  x \in ItemsAt(q, OfUser(q, I, u))
      OBVIOUS
    <3>1. x \in A /\ Owner[x] = u
      BY <1>1 DEF UserSet
    <3> QED
      BY <3>1 DEF ItemsAt, OfUser
  <2> QED
    BY <1>3, <1>4, <2>1, <2>2
<1>7. Occupied(g) = Occupied(f) + Cardinality(I)
  BY <1>2, <1>3, <1>5
<1>8. ASSUME NEW u
      PROVE  UserOccupied(g, u, None) = UserOccupied(f, u, None) + Cardinality(OfUser(q, I, u))
  <2>1. /\ UserOccupied(g, u, None) <= UserOccupied(f, u, None) + Cardinality(OfUser(q, I, u))
        /\ UserOccupied(g, u, None) >= UserOccupied(f, u, None) + Cardinality(OfUser(q, I, u))
        /\ UserOccupied(f, u, None) \in Nat /\ UserOccupied(g, u, None) \in Nat
        /\ Cardinality(OfUser(q, I, u)) \in Nat
    BY <1>2, <1>3, <1>6
  <2> QED
    BY <2>1
<1> QED
  BY <1>7, <1>8

(* An initial part of the items that are within their user's quota.        *)
Initial(f, q, I) ==
    /\ I \in SUBSET Admitted(f, q)
    /\ \A i \in I : \A j \in WithinQuota(f, q) : j < i => j \in I

(* What the loop serves: a queue without repetitions of queued Sessions.   *)
Servable(f, q, m) ==
    /\ q \in Seq(Session) /\ States(f, m)
    /\ \A i, j \in DOMAIN q : q[i] = q[j] => i = j
    /\ \A i \in DOMAIN q : f[q[i]].status = "queued"

(* What is popped next, in terms of the state before the loop.             *)
LEMMA NextPopped ==
    ASSUME NEW f, NEW q, NEW m, Servable(f, q, m), NEW I \in SUBSET (DOMAIN q)
    PROVE  /\ Cardinality(I) \in Nat /\ Occupied(f) \in Nat
           /\ NextItem(f, q, I) =
                LET E == {i \in DOMAIN q \ I :
                            UserOccupied(f, Owner[q[i]], None)
                              + Cardinality(OfUser(q, I, Owner[q[i]])) < MaxPerUser}
                IN  {i \in E : Occupied(f) + Cardinality(I) < MaxActive
                                 /\ \A j \in E : i <= j}
<1> DEFINE g == Popped(f, q, I)
<1>1. /\ q \in Seq(Session) /\ States(f, m)
      /\ \A i, j \in DOMAIN q : q[i] = q[j] => i = j
      /\ \A i \in DOMAIN q : f[q[i]].status = "queued"
  BY DEF Servable
<1>2. \A x \in Session : g[x] = IF x \in {q[i] : i \in I} THEN Prepared(f[x], None, TRUE) ELSE f[x]
  BY DEF Popped
<1> HIDE DEF g
<1>3. Served(f, g, q, I)
  BY <1>2 DEF Served, ItemsAt
<1>4. /\ Occupied(g) = Occupied(f) + Cardinality(I)
      /\ \A u : UserOccupied(g, u, None)
                  = UserOccupied(f, u, None) + Cardinality(OfUser(q, I, u))
  <2>1. \A i \in I : f[q[i]].status = "queued"
    BY <1>1
  <2> QED
    BY <1>1, <1>3, <2>1, ServiceOccupies
<1>5. Cardinality(I) \in Nat /\ Occupied(f) \in Nat
  BY <1>1, <1>3, ServiceAdds
<1>6. ASSUME NEW i \in DOMAIN q \ I PROVE g[q[i]].status = "queued"
  <2>1. q[i] \in Session /\ q[i] \notin {q[j] : j \in I}
    BY <1>1
  <2> QED
    BY <1>1, <1>2, <2>1
<1>7. EligibleFor(g, q, None) \ I =
        {i \in DOMAIN q \ I :
            UserOccupied(f, Owner[q[i]], None)
              + Cardinality(OfUser(q, I, Owner[q[i]])) < MaxPerUser}
  BY <1>4, <1>6 DEF EligibleFor, UserHasCapacity
<1> QED
  BY <1>4, <1>5, <1>7 DEF NextItem, g

(* One round of the loop adds the next of the admitted items, if any is    *)
(* left.                                                                   *)
LEMMA NextAdmitted ==
    ASSUME NEW f, NEW q, NEW m, Servable(f, q, m), NEW I, Initial(f, q, I)
    PROVE  \/ NextItem(f, q, I) = {} /\ I = Admitted(f, q)
           \/ \E e \in Admitted(f, q) \ I :
                 NextItem(f, q, I) = {e} /\ Initial(f, q, I \cup {e})
<1> DEFINE W == WithinQuota(f, q)
           A == Admitted(f, q)
           O == Occupied(f)
           U(u) == UserOccupied(f, u, None)
           mine(K, i) == OfUser(q, K, Owner[q[i]])
           older(i) == {j \in 1..(i - 1) : Owner[q[j]] = Owner[q[i]]}
           E == {i \in DOMAIN q \ I : U(Owner[q[i]]) + Cardinality(mine(I, i)) < MaxPerUser}
           room == O + Cardinality(I) < MaxActive
<1>1. /\ q \in Seq(Session) /\ Len(q) \in Nat /\ DOMAIN q = 1..Len(q)
      /\ \A i \in DOMAIN q : f[q[i]].status = "queued"
  BY DEF Servable
<1>2. /\ I \in SUBSET A /\ \A i \in I : \A j \in W : j < i => j \in I
  BY DEF Initial
<1>3. /\ A = {i \in W : O + Cardinality({j \in W : j < i}) < MaxActive}
      /\ W = {i \in DOMAIN q : U(Owner[q[i]]) + Cardinality(older(i)) < MaxPerUser}
  BY <1>1 DEF Admitted, WithinQuota
<1>4. A \in SUBSET W /\ W \in SUBSET (DOMAIN q) /\ I \in SUBSET (DOMAIN q) /\ I \in SUBSET W
  BY <1>2, <1>3
<1>5. /\ O \in Nat /\ Cardinality(I) \in Nat
      /\ NextItem(f, q, I) = {i \in E : room /\ \A j \in E : i <= j}
  BY <1>4, NextPopped
<1>6. \A u : U(u) \in Nat
  BY CountedSets, Fewer
<1>7. \A i \in DOMAIN q : i \in Nat
  BY <1>1
<1>8. ASSUME NEW K \in SUBSET (DOMAIN q), NEW L \in SUBSET K
      PROVE  /\ Cardinality(K) \in Nat /\ Cardinality(L) \in Nat
             /\ Cardinality(L) <= Cardinality(K)
  <2>1. IsFiniteSet(K) /\ Cardinality(K) \in Nat
    BY <1>1, ItemsAtMost
  <2>2. L \in SUBSET (DOMAIN q)
    OBVIOUS
  <2>3. Cardinality(L) \in Nat
    BY <1>1, <2>2, ItemsAtMost
  <2> QED
    BY <2>1, <2>3, FS_Subset
(* The items within their quota that are left come after those popped, and *)
(* their users have room.                                                  *)
<1>9. ASSUME NEW j \in W \ I
      PROVE  j \in E /\ \A i \in I : i < j
  <2>1. j \in DOMAIN q /\ j \in Nat
    BY <1>4, <1>7
  <2>2. \A i \in I : i \in Nat /\ i < j
    <3> SUFFICES ASSUME NEW i \in I PROVE i \in Nat /\ i < j
      OBVIOUS
    <3>1. i \in Nat /\ ~(j < i) /\ i # j
      BY <1>2, <1>4, <1>7
    <3> QED
      BY <2>1, <3>1
  <2>3. mine(I, j) \in SUBSET older(j)
    BY <1>1, <1>4, <2>1, <2>2 DEF OfUser
  <2>4. older(j) \in SUBSET (DOMAIN q)
    BY <1>1, <2>1
  <2>5. /\ Cardinality(older(j)) \in Nat /\ Cardinality(mine(I, j)) \in Nat
        /\ Cardinality(mine(I, j)) <= Cardinality(older(j))
    BY <1>8, <2>3, <2>4
  <2>6. U(Owner[q[j]]) + Cardinality(older(j)) < MaxPerUser
    BY <1>3
  <2> DEFINE a == Cardinality(older(j))
             b == Cardinality(mine(I, j))
             o == U(Owner[q[j]])
  <2>7. o \in Nat /\ a \in Nat /\ b \in Nat /\ b <= a /\ o + a < MaxPerUser
    BY <1>6, <2>5, <2>6
  <2> HIDE DEF a, b, o
  <2>8. o + b < MaxPerUser
    BY <2>7, PoolAssumption
  <2> QED
    BY <2>1, <2>2, <2>8 DEF a, b, o
<1> HIDE DEF W, A, O, room
<1>10. CASE ~room
  <2>1. NextItem(f, q, I) = {}
    BY <1>5, <1>10
  <2>2. ASSUME NEW e \in A, e \notin I PROVE FALSE
    <3> DEFINE K == {j \in W : j < e}
    <3>1. I \in SUBSET K
      BY <1>3, <1>4, <1>9, <2>2
    <3>2. K \in SUBSET (DOMAIN q)
      BY <1>4
    <3>3. /\ Cardinality(K) \in Nat /\ Cardinality(I) <= Cardinality(K)
      BY <1>8, <3>1, <3>2
    <3>4. O + Cardinality(K) < MaxActive
      BY <1>3, <2>2
    <3> HIDE DEF K
    <3> QED
      BY <1>5, <1>10, <3>3, <3>4, PoolAssumption DEF room
  <2> QED
    BY <1>2, <2>1, <2>2 DEF A
<1>11. CASE room /\ E = {}
  <2>1. NextItem(f, q, I) = {}
    BY <1>5, <1>11
  <2>2. W \in SUBSET I
    BY <1>9, <1>11
  <2> QED
    BY <1>2, <1>4, <2>1, <2>2 DEF A
<1>12. CASE room /\ E # {}
  <2>1. E \in SUBSET Nat
    BY <1>7
  <2>2. PICK e \in E : \A j \in E : e <= j
    BY <1>12, <2>1, LeastNat
  <2> HIDE DEF E
  <2>3. NextItem(f, q, I) = {e}
    <3>1. \A i \in E : (\A j \in E : i <= j) => i = e
      <4> SUFFICES ASSUME NEW i \in E, \A j \in E : i <= j PROVE i = e
        OBVIOUS
      <4>1. i \in Nat /\ e \in Nat /\ i <= e /\ e <= i
        BY <2>1, <2>2
      <4> QED
        BY <4>1
    <3> QED
      BY <1>5, <1>12, <2>2, <3>1
  <2>4. /\ e \in DOMAIN q /\ e \notin I /\ e \in Nat
        /\ U(Owner[q[e]]) + Cardinality(mine(I, e)) < MaxPerUser
    BY <1>7 DEF E
  <2>5. ASSUME NEW j \in W, j < e PROVE j \in I
    <3>1. j \in Nat
      BY <1>4, <1>7
    <3>2. j \in E => e <= j
      BY <2>2
    <3> QED
      BY <1>9, <2>4, <2>5, <3>1, <3>2
  <2>6. older(e) \in SUBSET mine(I, e)
    <3> SUFFICES ASSUME NEW j \in older(e), j \notin I PROVE FALSE
      BY DEF OfUser
    <3>1. j \in DOMAIN q /\ j < e /\ Owner[q[j]] = Owner[q[e]] /\ j \in Nat
      BY <1>1, <2>4
    <3>2. mine(I, j) = mine(I, e)
      BY <3>1
    <3>3. j \in E
      BY <2>4, <3>1, <3>2 DEF E
    <3> QED
      BY <2>2, <2>4, <3>1, <3>3
  <2>7. e \in W
    <3>1. mine(I, e) \in SUBSET (DOMAIN q)
      BY <1>4 DEF OfUser
    <3>2. /\ Cardinality(older(e)) \in Nat /\ Cardinality(mine(I, e)) \in Nat
          /\ Cardinality(older(e)) <= Cardinality(mine(I, e))
      BY <1>8, <2>6, <3>1
    <3> DEFINE a == Cardinality(older(e))
               b == Cardinality(mine(I, e))
               o == U(Owner[q[e]])
    <3>3. o \in Nat /\ a \in Nat /\ b \in Nat /\ a <= b /\ o + b < MaxPerUser
      BY <1>6, <2>4, <3>2
    <3> HIDE DEF a, b, o
    <3>4. o + a < MaxPerUser
      BY <3>3, PoolAssumption
    <3> QED
      BY <1>3, <2>4, <3>4 DEF a, o
  <2>8. e \in A
    <3> DEFINE K == {j \in W : j < e}
    <3>1. K \in SUBSET I
      BY <2>5
    <3>2. Cardinality(K) \in Nat /\ Cardinality(K) <= Cardinality(I)
      BY <1>4, <1>8, <3>1
    <3>3. O + Cardinality(K) < MaxActive
      <4> DEFINE k == Cardinality(K)
      <4>1. k \in Nat /\ k <= Cardinality(I)
        BY <3>2
      <4> HIDE DEF k
      <4>2. O + k < MaxActive
        BY <1>5, <1>12, <4>1, PoolAssumption DEF room
      <4> QED
        BY <4>2 DEF k
    <3> QED
      BY <1>3, <2>7, <3>3
  <2>9. Initial(f, q, I \cup {e})
    <3>1. I \cup {e} \in SUBSET A
      BY <1>2, <2>8
    <3>2. \A i \in I \cup {e} : \A j \in W : j < i => j \in I \cup {e}
      BY <1>2, <2>5
    <3> QED
      BY <3>1, <3>2 DEF Initial, A, W
  <2> QED
    BY <2>3, <2>4, <2>8, <2>9 DEF A
<1> QED
  BY <1>10, <1>11, <1>12

(* items[k]: what the loop has popped after k rounds.                      *)
Rounds(f, q, items) ==
    /\ items[0] = {} /\ items[Len(q)] = Loop(f, q)
    /\ \A k \in 1..Len(q) : items[k] = items[k - 1] \cup NextItem(f, q, items[k - 1])

LEMMA LoopSteps ==
    ASSUME NEW f, NEW q \in Seq(Session)
    PROVE  \E items : Rounds(f, q, items)
<1> DEFINE n == Len(q)
           S == SUBSET (DOMAIN q)
           base == {}
           step == [k \in 1..n |-> [I \in S |-> I \cup NextItem(f, q, I)]]
           body(g) == [k \in 0..n |->
                         IF k = 0 THEN {} ELSE g[k - 1] \cup NextItem(f, q, g[k - 1])]
           items == CHOOSE g : g = body(g)
<1>1. n \in Nat
  OBVIOUS
<1>2. step \in [1..n -> [S -> S]]
  <2>1. ASSUME NEW I \in S PROVE I \cup NextItem(f, q, I) \in S
    BY DEF NextItem, EligibleFor
  <2> QED
    BY <2>1
<1>3. PICK g : Runs(g, n, S, base, step)
  <2>1. base \in S
    OBVIOUS
  <2> HIDE DEF step, S, n, base, body, items
  <2> QED
    BY <1>1, <1>2, <2>1, Iterated
<1>4. ASSUME NEW k \in 1..n
      PROVE  k - 1 \in 0..n /\ g[k] = g[k - 1] \cup NextItem(f, q, g[k - 1])
  <2>1. k - 1 \in 0..n
    BY <1>1
  <2>2. g[k - 1] \in S
    BY <1>3, <2>1 DEF Runs
  <2> QED
    BY <1>3, <2>1, <2>2 DEF Runs
<1>5. g = body(g)
  <2>1. ASSUME NEW k \in 0..n PROVE body(g)[k] = g[k]
    <3>1. CASE k = 0
      BY <1>3, <3>1 DEF Runs
    <3>2. CASE k # 0
      <4>1. k \in 1..n
        BY <1>1, <3>2
      <4>2. body(g)[k] = g[k - 1] \cup NextItem(f, q, g[k - 1])
        BY <3>2
      <4> QED
        BY <1>4, <4>1, <4>2
    <3> QED
      BY <3>1, <3>2
  <2>2. body(g) = [k \in 0..n |-> g[k]]
    BY <2>1
  <2> QED
    BY <1>3, <2>2 DEF Runs
<1>6. items = body(items)
  BY <1>5
<1>7. Loop(f, q) = items[n]
  BY DEF Loop
<1>8. /\ items[0] = {}
      /\ \A k \in 1..n : items[k] = items[k - 1] \cup NextItem(f, q, items[k - 1])
  <2> HIDE DEF items
  <2>1. \A k \in 0..n : items[k] = body(items)[k]
    BY <1>6
  <2>2. 0 \in 0..n /\ \A k \in 1..n : k \in 0..n /\ k # 0
    BY <1>1
  <2> QED
    BY <2>1, <2>2
<1> HIDE DEF items
<1> QED
  BY <1>7, <1>8 DEF Rounds

(* After as many rounds as there are items it has popped what Admitted     *)
(* says.                                                                   *)
LEMMA LoopAdmits ==
    ASSUME NEW f, NEW q, NEW m, Servable(f, q, m)
    PROVE  Loop(f, q) = Admitted(f, q)
<1>1. PICK items : Rounds(f, q, items)
  BY LoopSteps DEF Servable
<1> DEFINE n == Len(q)
           A == Admitted(f, q)
           Popping(k, I) == Initial(f, q, I) /\ (I = A \/ Cardinality(I) = k)
<1>2. q \in Seq(Session) /\ n \in Nat /\ DOMAIN q = 1..n
  BY DEF Servable
<1>3. /\ items[0] = {} /\ items[n] = Loop(f, q)
      /\ \A k \in 1..n : items[k] = items[k - 1] \cup NextItem(f, q, items[k - 1])
  BY <1>1 DEF Rounds
<1>4. A \in SUBSET (DOMAIN q)
  BY DEF Admitted, WithinQuota
<1>5. ASSUME NEW I, Initial(f, q, I)
      PROVE  I \in SUBSET A /\ IsFiniteSet(I) /\ Cardinality(I) \in Nat
  <2>1. I \in SUBSET A
    BY <1>5 DEF Initial
  <2> QED
    BY <1>2, <1>4, <2>1, ItemsAtMost
<1> HIDE DEF n, A
<1> DEFINE T == {k \in 0..n : Popping(k, items[k])}
<1>6. 0 \in T
  <2>1. Initial(f, q, {}) /\ Cardinality({}) = 0
    BY FS_EmptySet DEF Initial
  <2>2. Popping(0, items[0])
    BY <1>3, <2>1
  <2>3. 0 \in 0..n
    BY <1>2
  <2> HIDE DEF Popping
  <2> QED
    BY <2>2, <2>3
<1>7. ASSUME NEW k \in 0..n, k \in T, k < n PROVE k + 1 \in T
  <2> DEFINE I == items[k]
  <2>1. k + 1 \in 1..n /\ (k + 1) - 1 = k /\ k \in Nat
    BY <1>2, <1>7
  <2>2. items[k + 1] = I \cup NextItem(f, q, I)
    <3>1. items[k + 1] = items[(k + 1) - 1] \cup NextItem(f, q, items[(k + 1) - 1])
      BY <1>3, <2>1
    <3> QED
      BY <2>1, <3>1
  <2>3. Popping(k, I)
    BY <1>7
  <2> HIDE DEF I
  <2>4. CASE NextItem(f, q, I) = {} /\ I = A
    <3>1. items[k + 1] = I
      BY <2>2, <2>4
    <3>2. Popping(k + 1, items[k + 1])
      BY <2>3, <2>4, <3>1
    <3> QED
      BY <2>1, <3>2
  <2>5. ASSUME NEW e \in A \ I, NextItem(f, q, I) = {e}, Initial(f, q, I \cup {e})
        PROVE  k + 1 \in T
    <3>1. Cardinality(I) = k /\ IsFiniteSet(I)
      BY <1>5, <2>3, <2>5
    <3>2. Cardinality(I \cup {e}) = k + 1
      BY <2>5, <3>1, FS_AddElement
    <3>3. Popping(k + 1, items[k + 1])
      BY <2>2, <2>5, <3>2
    <3> QED
      BY <2>1, <3>3
  <2> QED
    BY <2>3, <2>4, <2>5, NextAdmitted DEF A
<1>8. n \in T
  <2> HIDE DEF T
  <2>1. \A k \in 0..n : k \in T
    BY <1>2, <1>6, <1>7, UpTo
  <2> QED
    BY <1>2, <2>1
<1>9. Initial(f, q, items[n]) /\ (items[n] = A \/ Cardinality(items[n]) = n)
  BY <1>8
<1>10. CASE Cardinality(items[n]) = n
  <2>1. items[n] \in SUBSET A /\ A \in SUBSET (1..n)
    BY <1>2, <1>4, <1>5, <1>9
  <2>2. IsFiniteSet(1..n) /\ Cardinality(1..n) = n
    BY <1>2, FS_Interval
  <2>3. items[n] = 1..n
    BY <1>10, <2>1, <2>2, FS_Subset
  <2> QED
    BY <1>3, <2>1, <2>3 DEF A
<1> QED
  BY <1>3, <1>9, <1>10 DEF A

(* What the queue may be served from.                                      *)
LEMMA ServingServable ==
    ASSUME OInv, NEW f, Serving(f)
    PROVE  Servable(f, queue, mode)
<1>1. \A x \in Session : Sound(f[x], mode) /\ f[x].gen \in Nat
  BY DEF Serving, Sound, Runtime, Generation
<1>2. \A x \in Session : f[x].src # None =>
         f[x].src[1] \in Session /\ f[x].src[2] <= f[f[x].src[1]].gen
  BY SourcesKnown DEF Serving, Follows, Passes
<1>3. \A i \in DOMAIN queue : f[queue[i]].status = "queued"
  BY QueueFacts DEF Serving, Follows
<1> QED
  BY <1>1, <1>2, <1>3, QueueFacts DEF Servable, States

(* _schedule_waiting serves, in one pass over the queue, exactly what its  *)
(* loop over _pop_next_eligible_locked would, for every queue: what the    *)
(* other theorems say of Admitted they say of the loop.                    *)
THEOREM ServiceIsTheLoop == Spec => []AdmittedIsTheLoop
<1>1. ASSUME LInv PROVE AdmittedIsTheLoop
  <2>1. OInv /\ Serving(rt)
    BY <1>1, ServedFrom DEF LInv
  <2>2. ASSUME NEW s \in Session, rt[s].fin \in {"hooks", "kept"}
        PROVE  Serving([rt EXCEPT ![s] = Converged(@)])
    BY <1>1, <2>2, EndServes
  <2> QED
    BY <2>1, <2>2, LoopAdmits, ServingServable DEF AdmittedIsTheLoop
<1> QED
  BY <1>1, LimitsHold, PTL
=============================================================================
