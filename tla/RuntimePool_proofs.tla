------------------------- MODULE RuntimePool_proofs -------------------------
(***************************************************************************)
(* Proofs about RuntimePool, for every value of its constants.             *)
(*                                                                         *)
(* TypeOK, FinalizerOwnsGeneration and StartOwnsGeneration are proved from *)
(* one inductive invariant, IInv.  Its parts are about one Session (Owned) *)
(* and about one start task (StartBound), so the lemmas say what the       *)
(* helpers of the manager do to one Session, and the proof of a step adds  *)
(* which Sessions the step touches.                                        *)
(*                                                                         *)
(* That the queue and the statuses agree, a slot is promised once, the     *)
(* token is that of the generation, a Turn is carried once, an idle        *)
(* Runtime can expire, generations do not overlap and a shutdown leaves    *)
(* nothing follows from OInv, which is inductive together with IInv.  Most *)
(* steps change one Session within its generation; Passes says what such a *)
(* change may do.  The steps that start generations, change the queue or   *)
(* close the pool have lemmas of their own.                                *)
(***************************************************************************)
EXTENDS RuntimePool, TLAPS, FiniteSetTheorems, WellFoundedInduction

-----------------------------------------------------------------------------
(* The inductive invariant.                                                *)

(* A Session that was never started has nothing to finish; a queued one    *)
(* may still start; while one starts, no Turn can be finished.             *)
Owned(r) ==
    /\ r.finGen # 0 <=> r.status = "stopping"
    /\ r.finGen # 0 <=> r.fin # "none"
    /\ r.finGen # 0 => r.finGen = r.gen
    /\ r.gen = 0 => /\ r.status \in {"stopped", "queued"}
                    /\ r.proc = "none" /\ ~r.cleanup
    /\ r.status = "queued" => r.gen < MaxGen
    /\ r.status \in {"starting", "waiting_mcp_trust"} => ~r.busy

(* A start task belongs to a generation that has begun.                    *)
StartBound(t, f) == t.gen # 0 /\ t.gen <= f[t.sess].gen

(* What a start that holds the lifecycle_lock finds in its Session.        *)
Held(r) ==
    /\ r.status \in {"starting", "waiting_mcp_trust", "stopping"}
    /\ r.fin \in {"none", "waiting"}

(* The part of TypeOK about everything but rt and starts.                  *)
RestTyped ==
    /\ queue \in Seq(Session) /\ Len(queue) <= QueueMax
    /\ dispatch \subseteq Session
    /\ sweep \subseteq Session \X Generation
    /\ closing \subseteq Session \X Generation
    /\ mode \in {"open", "closing", "closed"}

IInv ==
    /\ TypeOK
    /\ \A s \in Session : Owned(rt[s])
    /\ \A t \in starts : StartBound(t, rt)
    /\ StartOwnsGeneration

-----------------------------------------------------------------------------
(* What the helpers do to one Session.                                     *)

(* A finalization that is begun, or refused, leaves the Session in order   *)
(* and in its generation.  A queued Session is never finalized as such.    *)
LEMMA BeginKeeps ==
    ASSUME NEW r \in Runtime, Owned(r),
           NEW g \in Generation, NEW final \in {"stopped", "error"},
           g # 0 \/ r.status # "queued"
    PROVE  /\ Begin(r, g, final) \in Runtime
           /\ Owned(Begin(r, g, final))
           /\ Begin(r, g, final).gen = r.gen
           /\ Held(r) => Held(Begin(r, g, final))
           /\ Begin(r, g, final).status \in {r.status, "stopping"}
<1>1. CASE ~Claimable(r, g)
  BY <1>1 DEF Begin
<1>2. CASE Claimable(r, g)
  <2> DEFINE n == [r EXCEPT !.finGen = g, !.status = "stopping", !.fin = "waiting",
                            !.final = final, !.waiter = FALSE]
  <2>1. Begin(r, g, final) = n
    BY <1>2 DEF Begin
  <2>2. n \in Runtime
    BY DEF Runtime, Status
  <2>3. /\ n.finGen = g /\ n.status = "stopping" /\ n.fin = "waiting"
        /\ n.gen = r.gen
    BY DEF Runtime
  <2>4. r.gen = g /\ g # 0
    BY <1>2 DEF Claimable, Owned
  <2>5. Owned(n)
    BY <2>3, <2>4 DEF Owned
  <2> QED
    BY <2>1, <2>2, <2>3, <2>5 DEF Held
<1> QED
  BY <1>1, <1>2

(* A Session that is prepared for a start enters its next generation.      *)
LEMMA PreparedKeeps ==
    ASSUME NEW r \in Runtime, Owned(r), r.status # "stopping", r.gen < MaxGen,
           NEW src \in Source, NEW turn \in BOOLEAN
    PROVE  /\ Prepared(r, src, turn) \in Runtime
           /\ Owned(Prepared(r, src, turn))
           /\ Prepared(r, src, turn).gen = r.gen + 1
           /\ Prepared(r, src, turn).status = "starting"
<1> DEFINE n == Prepared(r, src, turn)
<1>1. r.gen + 1 \in Generation
  BY PoolAssumption DEF Runtime, Generation
<1>2. n \in Runtime
  BY <1>1 DEF Prepared, Runtime, Status
<1>3. /\ n.gen = r.gen + 1 /\ n.status = "starting" /\ n.busy = FALSE
      /\ n.finGen = r.finGen /\ n.fin = r.fin
  BY DEF Prepared, Runtime
<1>4. r.finGen = 0 /\ r.fin = "none" /\ n.gen # 0
  BY <1>3 DEF Owned, Runtime, Generation
<1>5. Owned(n)
  BY <1>3, <1>4 DEF Owned
<1> QED
  BY <1>2, <1>3, <1>5

(* A finalizer that converges leaves nothing claimed.                      *)
LEMMA ConvergedKeeps ==
    ASSUME NEW r \in Runtime, Owned(r), r.fin # "none"
    PROVE  /\ Converged(r) \in Runtime
           /\ Owned(Converged(r))
           /\ Converged(r).gen = r.gen
           /\ Converged(r).status \in {"stopped", "error"}
<1> DEFINE failed == Live(r) \/ r.fin = "kept"
           ref == r.ref /\ r.fin = "kept"
           proc == IF Live(r) THEN "live" ELSE "none"
           status == IF failed THEN "error" ELSE r.final
           n == [r EXCEPT !.status = status, !.cleanup = failed, !.src = None,
                          !.proc = proc, !.ref = ref, !.busy = FALSE, !.turn = FALSE,
                          !.control = None, !.leases = {}, !.finGen = 0, !.fin = "none"]
<1>1. Converged(r) = n
  BY DEF Converged
<1>2. status \in {"stopped", "error"}
  BY DEF Runtime
<1>3. failed \in BOOLEAN /\ ref \in BOOLEAN /\ proc \in {"none", "live"}
  OBVIOUS
<1>4. 0 \in Generation /\ None \in Source
  BY PoolAssumption DEF Generation, Source
<1> HIDE DEF failed, ref, proc, status
<1>5. n \in Runtime
  <2> DEFINE m == [r EXCEPT !.status = status, !.cleanup = failed, !.src = None,
                            !.proc = proc, !.ref = ref]
  <2>1. m \in Runtime
    <3>1. status \in Status /\ proc \in {"none", "live", "exited"}
      BY <1>2, <1>3 DEF Status
    <3> QED
      BY <1>3, <1>4, <3>1 DEF Runtime
  <2> HIDE DEF m
  <2>2. [m EXCEPT !.busy = FALSE, !.turn = FALSE, !.control = None,
                  !.leases = {}, !.finGen = 0, !.fin = "none"] \in Runtime
    BY <1>4, <2>1 DEF Runtime
  <2> QED
    BY <2>2 DEF m
<1>6. n.gen = r.gen /\ n.status = status /\ n.finGen = 0 /\ n.fin = "none"
  BY DEF Runtime
<1>7. r.gen # 0
  BY DEF Owned
<1>8. Owned(n)
  BY <1>2, <1>6, <1>7 DEF Owned
<1> QED
  BY <1>1, <1>2, <1>5, <1>6, <1>8

-----------------------------------------------------------------------------
(* The queue.                                                              *)

(* A set of naturals that is not empty has a least element.                *)
LEMMA Least ==
    ASSUME NEW T \in SUBSET Nat, T # {}
    PROVE  \E m \in T : \A n \in T : m <= n
<1>1. PICK m \in T : \A n \in T : <<n, m>> \notin OpToRel(<, Nat)
  BY NatLessThanWellFounded, WFMin
<1>2. \A n \in T : ~(n < m)
  BY <1>1 DEF OpToRel
<1> QED
  BY <1>2

(* The k-th of a finite set K of positions exists: counting the members up *)
(* to i grows by at most one with i, so it meets every value on its way.   *)
LEMMA KthExists ==
    ASSUME NEW N \in Nat, NEW K \in SUBSET (1..N), NEW k \in 1..Cardinality(K)
    PROVE  /\ KthOf(K, k) \in K
           /\ Cardinality({j \in K : j <= KthOf(K, k)}) = k
<1> DEFINE upTo(i) == {j \in K : j <= i}
           count(i) == Cardinality(upTo(i))
<1>1. \A j \in K : j \in Nat /\ 1 <= j /\ j <= N
  OBVIOUS
<1>2. IsFiniteSet(K) /\ Cardinality(K) \in Nat /\ k \in Nat /\ 0 < k
  <2>1. IsFiniteSet(1..N)
    BY FS_Interval
  <2>2. IsFiniteSet(K)
    BY <2>1, FS_Subset
  <2>3. Cardinality(K) \in Nat
    BY <2>2, FS_CardinalityType
  <2> QED
    BY <2>2, <2>3
<1>3. \A i \in 0..N : IsFiniteSet(upTo(i)) /\ count(i) \in Nat
  BY <1>2, FS_Subset, FS_CardinalityType
<1>4. count(0) = 0
  <2>1. ASSUME NEW j \in K, j <= 0 PROVE FALSE
    BY <1>1, <2>1
  <2>2. upTo(0) = {}
    BY <2>1
  <2> QED
    BY <2>2, FS_EmptySet
<1>5. count(N) = Cardinality(K)
  <2>1. upTo(N) = K
    BY <1>1
  <2> QED
    BY <2>1
<1>6. ASSUME NEW i \in 1..N
      PROVE  count(i) = IF i \in K THEN count(i - 1) + 1 ELSE count(i - 1)
  <2>1. i \in Nat /\ i - 1 \in 0..N
    OBVIOUS
  <2>2. ASSUME NEW j \in K, j # i PROVE j <= i <=> j <= i - 1
    <3>1. j \in Nat
      BY <1>1
    <3> QED
      BY <2>1, <2>2, <3>1
  <2>3. ~(i <= i - 1) /\ i <= i
    BY <2>1
  <2>4. CASE i \notin K
    <3>1. upTo(i) = upTo(i - 1)
      BY <2>2, <2>4
    <3> QED
      BY <2>4, <3>1
  <2>5. CASE i \in K
    <3>1. upTo(i) = upTo(i - 1) \cup {i} /\ i \notin upTo(i - 1)
      BY <2>2, <2>3, <2>5
    <3>2. IsFiniteSet(upTo(i - 1))
      BY <1>3, <2>1
    <3> QED
      BY <2>5, <3>1, <3>2, FS_AddElement
  <2> QED
    BY <2>4, <2>5
<1> HIDE DEF count
<1> DEFINE T == {i \in 0..N : k <= count(i)}
<1>7. PICK m \in T : \A n \in T : m <= n
  <2>1. N \in T
    BY <1>5
  <2>2. T \in SUBSET Nat
    OBVIOUS
  <2> HIDE DEF T
  <2> QED
    BY <2>1, <2>2, Least
<1>8. m \in 1..N /\ k <= count(m)
  BY <1>2, <1>4, <1>7
<1>9. m - 1 \in 0..N /\ count(m - 1) \in Nat /\ count(m) \in Nat
  <2>1. m - 1 \in 0..N /\ m \in 0..N
    BY <1>8
  <2> QED
    BY <1>3, <2>1
<1>10. count(m - 1) < k
  <2>1. m - 1 \notin T
    BY <1>7, <1>8
  <2> QED
    BY <1>2, <1>9, <2>1
<1>11. m \in K /\ count(m) = k
  BY <1>2, <1>6, <1>8, <1>9, <1>10
<1> QED
  BY <1>11 DEF KthOf, count

(* The items that stay form a queue, and not a longer one.                 *)
LEMMA WithoutKeeps ==
    ASSUME NEW q \in Seq(Session), NEW I
    PROVE  /\ Without(q, I) \in Seq(Session)
           /\ Len(Without(q, I)) <= Len(q)
<1> DEFINE K == DOMAIN q \ I
           n == Cardinality(K)
<1>1. Len(q) \in Nat /\ K \in SUBSET (1..Len(q))
  OBVIOUS
<1>2. n \in Nat /\ n <= Len(q)
  <2>1. IsFiniteSet(1..Len(q)) /\ Cardinality(1..Len(q)) = Len(q)
    <3> DEFINE l == Len(q)
    <3>1. l \in Nat
      BY <1>1
    <3> HIDE DEF l
    <3>2. IsFiniteSet(1..l) /\ Cardinality(1..l) = l
      BY <3>1, FS_Interval
    <3> QED
      BY <3>2 DEF l
  <2> QED
    BY <1>1, <2>1, FS_Subset, FS_CardinalityType
<1>3. \A k \in 1..n : q[KthOf(K, k)] \in Session
  <2> HIDE DEF K
  <2>1. \A k \in 1..n : KthOf(K, k) \in K
    BY <1>1, KthExists
  <2>2. \A i \in K : q[i] \in Session
    BY <1>1
  <2> QED
    BY <2>1, <2>2
<1>4. Without(q, I) = [k \in 1..n |-> q[KthOf(K, k)]]
  BY DEF Without
<1> HIDE DEF n, K
<1>5. /\ [k \in 1..n |-> q[KthOf(K, k)]] \in Seq(Session)
      /\ Len([k \in 1..n |-> q[KthOf(K, k)]]) = n
  BY <1>2, <1>3
<1> QED
  BY <1>2, <1>4, <1>5

-----------------------------------------------------------------------------
(* Steps.                                                                  *)

(* What IInv says of one Session.                                          *)
LEMMA SessionFacts ==
    ASSUME IInv, NEW s \in Session
    PROVE  /\ rt[s] \in Runtime
           /\ Owned(rt[s])
           /\ rt[s].gen \in Generation
           /\ StartHoldsLock(s) => Held(rt[s])
<1>1. rt[s] \in Runtime /\ Owned(rt[s])
  BY DEF IInv, TypeOK
<1>2. rt[s].gen \in Generation
  BY <1>1 DEF Runtime
<1>3. StartHoldsLock(s) => Held(rt[s])
  BY DEF IInv, StartOwnsGeneration, StartHoldsLock, Held
<1> QED
  BY <1>1, <1>2, <1>3

(* A step that lets the Sessions of A begin their next generation, with    *)
(* the start tasks N, and keeps every other Session in its generation.     *)
LEMMA StepKeeps ==
    ASSUME IInv,
           NEW A \in SUBSET Session, NEW N \in SUBSET StartTask,
           rt' \in [Session -> Runtime], starts' \subseteq starts \cup N, RestTyped',
           \A s \in Session : Owned(rt'[s]),
           \A s \in A : ~Held(rt[s]) /\ rt'[s].gen = rt[s].gen + 1,
           \A s \in Session \ A :
              /\ rt'[s].gen = rt[s].gen
              /\ (\E t \in starts' : t.sess = s /\ t.at # "source") => Held(rt'[s]),
           \A t \in N : t.at = "source" /\ StartBound(t, rt')
    PROVE  IInv'
<1>1. starts' \subseteq StartTask
  BY DEF IInv, TypeOK
<1>2. TypeOK'
  BY <1>1 DEF TypeOK, RestTyped
<1>3. ASSUME NEW t \in starts' PROVE StartBound(t, rt')
  <2>1. CASE t \in N
    BY <2>1
  <2>2. CASE t \in starts
    <3>1. t.sess \in Session /\ t.gen \in Nat /\ rt[t.sess].gen \in Nat
      BY <2>2, SessionFacts DEF IInv, TypeOK, StartTask, Generation
    <3>2. rt'[t.sess].gen \in {rt[t.sess].gen, rt[t.sess].gen + 1}
      BY <3>1
    <3>3. StartBound(t, rt)
      BY <2>2 DEF IInv
    <3> QED
      BY <3>1, <3>2, <3>3 DEF StartBound
  <2> QED
    BY <2>1, <2>2
<1>4. ASSUME NEW t \in starts', t.at # "source"
      PROVE  /\ t.gen = rt'[t.sess].gen
             /\ Held(rt'[t.sess])
             /\ \A x \in starts' : x.sess = t.sess /\ x.at # "source" => x = t
  <2>1. t \in starts /\ t.sess \in Session
    BY <1>4 DEF IInv, TypeOK, StartTask
  <2>2. t.gen = rt[t.sess].gen /\ Held(rt[t.sess])
    BY <1>4, <2>1 DEF IInv, StartOwnsGeneration, Held
  <2>3. t.sess \in Session \ A
    BY <2>1, <2>2
  <2>4. \A x \in starts' : x.at # "source" => x \in starts
    OBVIOUS
  <2>5. \A x \in starts' : x.sess = t.sess /\ x.at # "source" => x = t
    BY <1>4, <2>1, <2>4 DEF IInv, StartOwnsGeneration
  <2> QED
    BY <1>4, <2>2, <2>3, <2>5
<1>5. StartOwnsGeneration'
  BY <1>4 DEF StartOwnsGeneration, Held
<1> QED
  BY <1>2, <1>3, <1>5 DEF IInv

(* A step within the generations of all Sessions.                          *)
LEMMA SameGenerations ==
    ASSUME IInv,
           rt' \in [Session -> Runtime], starts' \subseteq starts, RestTyped',
           \A s \in Session :
              /\ Owned(rt'[s])
              /\ rt'[s].gen = rt[s].gen
              /\ (\E t \in starts' : t.sess = s /\ t.at # "source") => Held(rt'[s])
    PROVE  IInv'
<1> DEFINE A == {} N == {}
<1>1. A \in SUBSET Session /\ N \in SUBSET StartTask /\ starts' \subseteq starts \cup N
  OBVIOUS
<1>2. \A s \in A : ~Held(rt[s]) /\ rt'[s].gen = rt[s].gen + 1
  OBVIOUS
<1>3. \A t \in N : t.at = "source" /\ StartBound(t, rt')
  OBVIOUS
<1>4. \A s \in Session : Owned(rt'[s])
  OBVIOUS
<1>5. \A s \in Session \ A :
         /\ rt'[s].gen = rt[s].gen
         /\ (\E t \in starts' : t.sess = s /\ t.at # "source") => Held(rt'[s])
  OBVIOUS
<1> HIDE DEF A, N
<1> QED
  BY <1>1, <1>2, <1>3, <1>4, <1>5, StepKeeps

(* A step that changes one Session within its generation.                  *)
LEMMA OneSession ==
    ASSUME IInv, NEW s \in Session, NEW r \in Runtime,
           rt' = [rt EXCEPT ![s] = r], starts' \subseteq starts, RestTyped',
           Owned(r), r.gen = rt[s].gen,
           (\E t \in starts' : t.sess = s /\ t.at # "source") => Held(r)
    PROVE  IInv'
<1>1. rt \in [Session -> Runtime]
  BY DEF IInv, TypeOK
<1>2. rt' \in [Session -> Runtime] /\ rt'[s] = r
  BY <1>1
<1>3. \A x \in Session \ {s} : rt'[x] = rt[x]
  BY <1>1
<1>4. \A x \in Session : Owned(rt'[x]) /\ rt'[x].gen = rt[x].gen
  BY <1>2, <1>3 DEF IInv
<1>5. \A x \in Session :
         (\E t \in starts' : t.sess = x /\ t.at # "source") => Held(rt'[x])
  BY <1>2, <1>3, SessionFacts DEF StartHoldsLock
<1> QED
  BY <1>2, <1>4, <1>5, SameGenerations

(* A finalization that is begun for one Session, which the step may have   *)
(* changed to r before.                                                    *)
LEMMA BeginStep ==
    ASSUME IInv, NEW s \in Session, NEW r \in Runtime, Owned(r), r.gen = rt[s].gen,
           Held(rt[s]) => Held(r),
           NEW g \in Generation, NEW final \in {"stopped", "error"},
           g # 0 \/ r.status # "queued",
           rt' = [rt EXCEPT ![s] = Begin(r, g, final)],
           starts' \subseteq starts, RestTyped'
    PROVE  IInv'
<1> DEFINE b == Begin(r, g, final)
<1>1. StartHoldsLock(s) => Held(rt[s])
  BY SessionFacts
<1>2. b \in Runtime /\ Owned(b) /\ b.gen = rt[s].gen /\ (Held(r) => Held(b))
  BY BeginKeeps
<1>3. (\E t \in starts' : t.sess = s /\ t.at # "source") => Held(b)
  BY <1>1, <1>2 DEF StartHoldsLock
<1>4. rt' = [rt EXCEPT ![s] = b]
  OBVIOUS
<1> HIDE DEF b
<1> QED
  BY <1>2, <1>3, <1>4, OneSession

(* A step that lets one Session begin its next generation.                 *)
LEMMA OneStarts ==
    ASSUME IInv, NEW s \in Session, NEW N \in SUBSET StartTask,
           rt' \in [Session -> Runtime], starts' \subseteq starts \cup N, RestTyped',
           \A x \in Session : Owned(rt'[x]),
           ~Held(rt[s]), rt'[s].gen = rt[s].gen + 1,
           \A x \in Session \ {s} : rt'[x].gen = rt[x].gen,
           \A x \in Session \ {s} : Held(rt[x]) => Held(rt'[x]),
           \A t \in N : t.at = "source" /\ StartBound(t, rt')
    PROVE  IInv'
<1> DEFINE A == {s}
<1>1. A \in SUBSET Session
  OBVIOUS
<1>2. \A x \in A : ~Held(rt[x]) /\ rt'[x].gen = rt[x].gen + 1
  OBVIOUS
<1>3. \A x \in Session \ A : rt'[x].gen = rt[x].gen
  OBVIOUS
<1>4. \A t \in starts' : t.at # "source" => t \in starts
  OBVIOUS
<1>5. \A x \in Session \ A :
         (\E t \in starts' : t.sess = x /\ t.at # "source") => Held(rt'[x])
  BY <1>4, SessionFacts DEF StartHoldsLock
<1> HIDE DEF A
<1>6. \A x \in Session \ A :
         /\ rt'[x].gen = rt[x].gen
         /\ (\E t \in starts' : t.sess = x /\ t.at # "source") => Held(rt'[x])
  BY <1>3, <1>5
<1> QED
  BY <1>1, <1>2, <1>6, StepKeeps

(* The task of a start that has just been admitted.                        *)
LEMMA StartTaskKeeps ==
    ASSUME IInv, NEW s \in Session, NEW turn \in BOOLEAN, NEW src \in Source,
           rt[s].status # "stopping", rt[s].gen < MaxGen
    PROVE  /\ Prepared(rt[s], src, turn) \in Runtime
           /\ Owned(Prepared(rt[s], src, turn))
           /\ Prepared(rt[s], src, turn).gen = rt[s].gen + 1
           /\ StartTaskFor(s, src, turn) \in StartTask
           /\ StartTaskFor(s, src, turn).at = "source"
           /\ StartTaskFor(s, src, turn).sess = s
           /\ StartTaskFor(s, src, turn).gen = rt[s].gen + 1
           /\ rt[s].gen + 1 \in Generation /\ rt[s].gen + 1 # 0
<1>1. rt[s] \in Runtime /\ Owned(rt[s]) /\ rt[s].gen \in Generation
  BY SessionFacts
<1>2. rt[s].gen + 1 \in Generation /\ rt[s].gen + 1 # 0
  BY <1>1, PoolAssumption DEF Generation
<1>3. StartTaskFor(s, src, turn) \in StartTask
  BY <1>2 DEF StartTaskFor, StartTask
<1> QED
  BY <1>1, <1>2, <1>3, PreparedKeeps DEF StartTaskFor

(* A start in a free slot.                                                 *)
LEMMA FreeStep ==
    ASSUME IInv, NEW s \in Session, NEW turn \in BOOLEAN,
           rt[s].status \in {"stopped", "error"}, AdmitFree(s, turn), RestTyped'
    PROVE  IInv'
<1> DEFINE p == Prepared(rt[s], None, turn)
           N == {StartTaskFor(s, None, turn)}
<1>1. None \in Source /\ rt[s].gen < MaxGen /\ ~Held(rt[s]) /\ rt[s].status # "stopping"
  BY DEF Source, AdmitFree, CanPrepare, Held
<1>2. rt \in [Session -> Runtime]
  BY DEF IInv, TypeOK
<1>3. p \in Runtime /\ Owned(p) /\ p.gen = rt[s].gen + 1
  BY <1>1, StartTaskKeeps
<1>4. rt' = [rt EXCEPT ![s] = p]
  BY DEF AdmitFree
<1>5. starts' \subseteq starts \cup N /\ N \in SUBSET StartTask
  BY <1>1, StartTaskKeeps DEF AdmitFree
<1> HIDE DEF p
<1>6. rt' \in [Session -> Runtime] /\ rt'[s] = p
  BY <1>2, <1>3, <1>4
<1>7. \A x \in Session \ {s} : rt'[x] = rt[x]
  BY <1>2, <1>4
<1>8. \A x \in Session : Owned(rt'[x])
  BY <1>3, <1>6, <1>7 DEF IInv
<1>9. \A t \in N : t.at = "source" /\ StartBound(t, rt')
  BY <1>1, <1>3, <1>6, StartTaskKeeps DEF StartBound, Generation
<1> HIDE DEF N
<1>10. /\ rt'[s].gen = rt[s].gen + 1
       /\ \A x \in Session \ {s} : rt'[x].gen = rt[x].gen
       /\ \A x \in Session \ {s} : Held(rt[x]) => Held(rt'[x])
  BY <1>3, <1>6, <1>7
<1> QED
  BY <1>1, <1>5, <1>6, <1>8, <1>9, <1>10, OneStarts

(* A start in the slot of the idle Runtime v, which is claimed.            *)
LEMMA EvictStep ==
    ASSUME IInv, NEW s \in Session, NEW v \in Session, NEW turn \in BOOLEAN,
           rt[s].status \in {"stopped", "error", "queued"}, rt[s].gen < MaxGen,
           rt[v].status = "idle",
           rt' = [rt EXCEPT ![v] = Begin(rt[v], rt[v].gen, "stopped"),
                            ![s] = Prepared(@, <<v, rt[v].gen>>, turn)],
           starts' = starts \cup {StartTaskFor(s, <<v, rt[v].gen>>, turn)},
           RestTyped'
    PROVE  IInv'
<1> DEFINE src == <<v, rt[v].gen>>
           b == Begin(rt[v], rt[v].gen, "stopped")
           p == Prepared(rt[s], src, turn)
           N == {StartTaskFor(s, src, turn)}
<1>1. v # s /\ ~Held(rt[s]) /\ ~Held(rt[v]) /\ rt[s].status # "stopping"
  BY DEF Held
<1>2. rt \in [Session -> Runtime]
  BY DEF IInv, TypeOK
<1>3. src \in Source
  BY SessionFacts DEF Source
<1>4. p \in Runtime /\ Owned(p) /\ p.gen = rt[s].gen + 1
  BY <1>1, <1>3, StartTaskKeeps
<1>5. b \in Runtime /\ Owned(b) /\ b.gen = rt[v].gen
  <2>1. rt[v] \in Runtime /\ Owned(rt[v]) /\ rt[v].gen \in Generation
    BY SessionFacts
  <2> QED
    BY <2>1, BeginKeeps
<1>6. rt' = [rt EXCEPT ![v] = b, ![s] = p]
  BY <1>1, <1>2
<1>7. starts' \subseteq starts \cup N /\ N \in SUBSET StartTask
  BY <1>1, <1>3, StartTaskKeeps
<1> HIDE DEF p, b, src
<1>8. rt' \in [Session -> Runtime] /\ rt'[s] = p /\ rt'[v] = b
  BY <1>1, <1>2, <1>4, <1>5, <1>6
<1>9. \A x \in Session \ {s, v} : rt'[x] = rt[x]
  BY <1>2, <1>6
<1>10. \A x \in Session : Owned(rt'[x])
  BY <1>4, <1>5, <1>8, <1>9 DEF IInv
<1>11. \A t \in N : t.at = "source" /\ StartBound(t, rt')
  BY <1>1, <1>3, <1>4, <1>8, StartTaskKeeps DEF StartBound, Generation
<1> HIDE DEF N
<1>12. rt'[s].gen = rt[s].gen + 1
  BY <1>4, <1>8
<1>13. \A x \in Session \ {s} : rt'[x].gen = rt[x].gen
  BY <1>5, <1>8, <1>9
<1>14. \A x \in Session \ {s} : Held(rt[x]) => Held(rt'[x])
  BY <1>1, <1>9
<1> QED
  BY <1>1, <1>7, <1>8, <1>10, <1>11, <1>12, <1>13, <1>14, OneStarts

(* An admission, into a free slot or into the slot of an idle Runtime.     *)
LEMMA AdmissionStep ==
    ASSUME IInv, NEW s \in Session, NEW turn \in BOOLEAN,
           rt[s].status \in {"stopped", "error"},
           AdmitFree(s, turn) \/ AdmitEvicting(s, turn), RestTyped'
    PROVE  IInv'
<1>1. CASE AdmitFree(s, turn)
  BY <1>1, FreeStep
<1>2. CASE AdmitEvicting(s, turn)
  <2>1. PICK v \in Evictable(rt, s) :
           /\ rt' = [rt EXCEPT ![v] = Begin(@, @.gen, "stopped"),
                               ![s] = Prepared(@, <<v, rt[v].gen>>, turn)]
           /\ starts' = starts \cup {StartTaskFor(s, <<v, rt[v].gen>>, turn)}
    BY <1>2 DEF AdmitEvicting
  <2>2. v \in Session /\ rt[v].status = "idle" /\ rt[s].gen < MaxGen
    BY <1>2 DEF AdmitEvicting, CanPrepare, Evictable, GenuinelyIdle
  <2>3. rt' = [rt EXCEPT ![v] = Begin(rt[v], rt[v].gen, "stopped"),
                         ![s] = Prepared(@, <<v, rt[v].gen>>, turn)]
    BY <2>1, <2>2 DEF IInv, TypeOK
  <2> QED
    BY <2>1, <2>2, <2>3, EvictStep
<1> QED
  BY <1>1, <1>2

(* The slot of an idle Runtime goes to a queued Session.                   *)
LEMMA DispatchStep ==
    ASSUME IInv, NEW s \in Session, DispatchFromIdle(s)
    PROVE  IInv'
<1>1. RestTyped
  BY DEF IInv, TypeOK, RestTyped
<1>2. dispatch' \subseteq Session /\ UNCHANGED <<sweep, closing, mode>>
  BY <1>1 DEF DispatchFromIdle, RestTyped
<1>3. CASE UNCHANGED <<rt, queue, starts>>
  BY <1>1, <1>2, <1>3 DEF IInv, TypeOK, Owned, StartBound, StartOwnsGeneration
<1>4. CASE CanDispatch(s) /\ ~UNCHANGED <<rt, queue, starts>>
  <2> DEFINE E == EligibleFor(rt, queue, s)
             i == First(E)
             target == queue[i]
  <2>1. /\ rt' = [rt EXCEPT ![s] = Begin(@, @.gen, "stopped"),
                            ![target] = Prepared(@, <<s, rt[s].gen>>, TRUE)]
        /\ queue' = Without(queue, {i})
        /\ starts' = starts \cup {StartTaskFor(target, <<s, rt[s].gen>>, TRUE)}
    BY <1>4 DEF DispatchFromIdle
  <2>2. E # {} /\ rt[s].status = "idle"
    BY <1>4 DEF CanDispatch, GenuinelyIdle
  <2>3. queue \in Seq(Session) /\ E \in SUBSET (DOMAIN queue) /\ E \in SUBSET Nat
    BY <1>1 DEF RestTyped, EligibleFor
  <2>4. i \in E
    <3>1. \E m \in E : \A n \in E : m <= n
      BY <2>2, <2>3, Least
    <3> QED
      BY <3>1 DEF First
  <2>5. target \in Session /\ rt[target].status = "queued"
    BY <2>3, <2>4 DEF EligibleFor
  <2>6. rt[target].gen < MaxGen
    BY <2>5, SessionFacts DEF Owned
  <2>7. RestTyped'
    <3>1. /\ Without(queue, {i}) \in Seq(Session)
          /\ Len(Without(queue, {i})) <= Len(queue)
      BY <2>3, WithoutKeeps
    <3>2. queue' \in Seq(Session) /\ Len(queue') <= Len(queue) /\ Len(queue) <= QueueMax
      BY <1>1, <2>1, <3>1 DEF RestTyped
    <3>3. Len(queue') <= QueueMax
      BY <2>3, <3>2, PoolAssumption
    <3> QED
      BY <1>1, <1>2, <3>2, <3>3 DEF RestTyped
  <2> HIDE DEF target
  <2>8. rt' = [rt EXCEPT ![s] = Begin(rt[s], rt[s].gen, "stopped"),
                         ![target] = Prepared(@, <<s, rt[s].gen>>, TRUE)]
    BY <2>1 DEF IInv, TypeOK
  <2> QED
    BY <2>1, <2>2, <2>5, <2>6, <2>7, <2>8, EvictStep
<1> QED
  BY <1>3, <1>4 DEF DispatchFromIdle

(* The queue is served from the state f of the Sessions.                   *)
LEMMA ScheduleKeeps ==
    ASSUME IInv, NEW f \in [Session -> Runtime],
           \A x \in Session : Owned(f[x]) /\ f[x].gen = rt[x].gen,
           \A x \in Session : Held(rt[x]) => Held(f[x]),
           ScheduleWaiting(f),
           dispatch' \subseteq Session, sweep' \subseteq Session \X Generation,
           closing' \subseteq Session \X Generation,
           mode' \in {"open", "closing", "closed"}
    PROVE  IInv'
<1> DEFINE I == IF mode = "open" THEN Admitted(f, queue) ELSE {}
           A == {queue[i] : i \in I}
           task(x) == [sess |-> x, gen |-> f[x].gen + 1, turn |-> TRUE,
                       src |-> None, at |-> "source"]
           N == {task(x) : x \in A}
<1>1. /\ rt' = [x \in Session |-> IF x \in A THEN Prepared(f[x], None, TRUE) ELSE f[x]]
      /\ queue' = Without(queue, I)
      /\ starts' = starts \cup N
  BY DEF ScheduleWaiting
<1>2. queue \in Seq(Session) /\ Len(queue) <= QueueMax
  BY DEF IInv, TypeOK
<1>3. \A i \in I : i \in DOMAIN queue /\ f[queue[i]].status = "queued"
  BY DEF Admitted, WithinQuota
<1>4. RestTyped'
  <2>1. /\ Without(queue, I) \in Seq(Session)
        /\ Len(Without(queue, I)) <= Len(queue)
    BY <1>2, WithoutKeeps
  <2> HIDE DEF I
  <2>2. queue' \in Seq(Session) /\ Len(queue') <= QueueMax
    BY <1>1, <1>2, <2>1, PoolAssumption
  <2> QED
    BY <2>2 DEF RestTyped
<1>5. ASSUME NEW x \in A
      PROVE  /\ x \in Session /\ f[x].status = "queued" /\ ~Held(rt[x])
             /\ f[x].gen < MaxGen
  <2>1. x \in Session /\ f[x].status = "queued"
    BY <1>2, <1>3
  <2> QED
    BY <2>1 DEF Held, Owned
<1> HIDE DEF A
<1>6. ASSUME NEW x \in A
      PROVE  /\ Prepared(f[x], None, TRUE) \in Runtime
             /\ Owned(Prepared(f[x], None, TRUE))
             /\ Prepared(f[x], None, TRUE).gen = f[x].gen + 1
             /\ f[x].gen \in Generation /\ f[x].gen + 1 \in Generation
             /\ f[x].gen + 1 # 0
             /\ None \in Source
  <2>1. f[x] \in Runtime /\ Owned(f[x]) /\ f[x].gen \in Generation /\ f[x].gen < MaxGen
    BY <1>5 DEF Runtime
  <2>2. f[x].gen + 1 \in Generation /\ f[x].gen + 1 # 0
    BY <2>1, PoolAssumption DEF Generation
  <2>3. None \in Source /\ f[x].status # "stopping"
    BY <1>5 DEF Source
  <2> QED
    BY <2>1, <2>2, <2>3, PreparedKeeps
<1>7. A \in SUBSET Session
  BY <1>5
<1>8. ASSUME NEW x \in A
       PROVE  /\ task(x) \in StartTask
              /\ task(x).sess = x /\ task(x).at = "source" /\ task(x).gen = f[x].gen + 1
  <2>1. x \in Session /\ f[x].gen + 1 \in Generation /\ None \in Source
    BY <1>5, <1>6
  <2> QED
    BY <2>1 DEF StartTask
<1> HIDE DEF task
<1>9. N \in SUBSET StartTask
  BY <1>8
<1>10. rt' \in [Session -> Runtime]
  BY <1>1, <1>6
<1>11. \A x \in Session : Owned(rt'[x])
  BY <1>1, <1>6
<1>12. \A x \in A : ~Held(rt[x]) /\ rt'[x].gen = rt[x].gen + 1
  BY <1>1, <1>5, <1>6, <1>7
<1>13. \A t \in N : t.at = "source" /\ StartBound(t, rt')
  <2>1. ASSUME NEW x \in A PROVE task(x).at = "source" /\ StartBound(task(x), rt')
    <3>1. rt'[x].gen = f[x].gen + 1
      BY <1>1, <1>6, <1>7
    <3>2. f[x].gen \in Generation /\ f[x].gen + 1 # 0
      BY <1>6
    <3> QED
      BY <1>8, <3>1, <3>2 DEF StartBound, Generation
  <2> QED
    BY <2>1
<1>14. \A t \in starts' : t.at # "source" => t \in starts
  BY <1>1, <1>13
<1> HIDE DEF N
<1>15. \A x \in Session \ A : rt'[x] = f[x]
  BY <1>1
<1>16. \A x \in Session \ A :
          /\ rt'[x].gen = rt[x].gen
          /\ (\E t \in starts' : t.sess = x /\ t.at # "source") => Held(rt'[x])
  BY <1>14, <1>15, SessionFacts DEF StartHoldsLock
<1>17. starts' \subseteq starts \cup N
  BY <1>1
<1> QED
  BY <1>4, <1>7, <1>9, <1>10, <1>11, <1>12, <1>13, <1>16, <1>17, StepKeeps

(* What a step leaves alone keeps its type.                                *)
LEMMA RestKeeps ==
    ASSUME IInv, UNCHANGED <<queue, sweep, closing, mode>>, dispatch' \subseteq Session
    PROVE  RestTyped'
  BY DEF IInv, TypeOK, RestTyped

(* A step that changes one Session, and nothing else but the dispatches.   *)
LEMMA QuietStep ==
    ASSUME IInv, NEW s \in Session, NEW r \in Runtime,
           rt' = [rt EXCEPT ![s] = r],
           UNCHANGED <<queue, starts, sweep, closing, mode>>,
           dispatch' \subseteq dispatch \cup {s},
           Owned(r), r.gen = rt[s].gen, Held(rt[s]) => Held(r)
    PROVE  IInv'
<1>1. RestTyped'
  BY RestKeeps DEF IInv, TypeOK
<1>2. (\E t \in starts' : t.sess = s /\ t.at # "source") => Held(r)
  BY SessionFacts DEF StartHoldsLock
<1> QED
  BY <1>1, <1>2, OneSession

(* A Session with something to stop has been started.                      *)
LEMMA StoppableStarted ==
    ASSUME NEW r \in Runtime, Owned(r), Stoppable(r) \/ r.proc # "none" \/ r.cleanup
    PROVE  r.gen # 0
  BY DEF Owned, Stoppable, Live

(* A step that begins the finalization of one Session.                     *)
LEMMA ClaimStep ==
    ASSUME IInv, NEW s \in Session, NEW final \in {"stopped", "error"},
           rt[s].gen # 0,
           rt' = [rt EXCEPT ![s] = Begin(rt[s], rt[s].gen, final)],
           UNCHANGED <<queue, starts, dispatch, sweep, closing, mode>>
    PROVE  IInv'
<1>1. rt[s] \in Runtime /\ Owned(rt[s]) /\ rt[s].gen \in Generation
  BY SessionFacts
<1>2. RestTyped'
  BY RestKeeps DEF IInv, TypeOK
<1> QED
  BY <1>1, <1>2, BeginStep

(* The calls of Web Users and clients.                                     *)
LEMMA RequestKeeps ==
    ASSUME IInv, NEW s \in Session, Request(s)
    PROVE  IInv'
<1>1. rt[s] \in Runtime /\ Owned(rt[s]) /\ rt \in [Session -> Runtime]
  BY SessionFacts DEF IInv, TypeOK
<1>2. CASE ActivateReclaims(s)
  <2>1. rt' = [rt EXCEPT ![s] = Begin(rt[s], rt[s].gen,
                                      IF rt[s].cleanup THEN "stopped" ELSE "error")]
    BY <1>1, <1>2 DEF ActivateReclaims, ReclaimFirst
  <2>2. rt[s].gen # 0
    BY <1>1, <1>2 DEF ActivateReclaims, Owned, Runtime, Generation
  <2> QED
    BY <1>2, <2>1, <2>2, ClaimStep DEF ActivateReclaims
<1>3. CASE ActivateAdmits(s)
  <2>1. RestTyped'
    BY <1>3, RestKeeps DEF ActivateAdmits, IInv, TypeOK
  <2> QED
    BY <1>3, <2>1, AdmissionStep DEF ActivateAdmits
<1>4. CASE SendReclaims(s)
  <2>1. rt' = [rt EXCEPT ![s] = Begin(rt[s], rt[s].gen,
                                      IF rt[s].cleanup THEN "stopped" ELSE "error")]
    BY <1>1, <1>4 DEF SendReclaims, ReclaimFirst
  <2>2. rt[s].gen # 0
    BY <1>1, <1>4 DEF SendReclaims, Owned, Runtime, Generation
  <2> QED
    BY <1>4, <2>1, <2>2, ClaimStep DEF SendReclaims
<1>5. CASE SendToStarting(s)
  <2> DEFINE r == [rt[s] EXCEPT !.turn = TRUE, !.waiter = TRUE]
  <2>1. r \in Runtime
    BY <1>1 DEF Runtime
  <2>2. Owned(r) /\ r.gen = rt[s].gen /\ (Held(rt[s]) => Held(r))
    BY <1>1 DEF Owned, Held, Runtime
  <2>3. rt' = [rt EXCEPT ![s] = r]
    BY <1>1, <1>5 DEF SendToStarting
  <2> HIDE DEF r
  <2> QED
    BY <1>5, <2>1, <2>2, <2>3, QuietStep DEF SendToStarting
<1>6. CASE SendToIdle(s)
  <2> DEFINE r == [rt[s] EXCEPT !.status = "running", !.busy = TRUE, !.turn = TRUE]
  <2>1. r \in Runtime
    BY <1>1 DEF Runtime, Status
  <2>2. rt[s].status = "idle"
    BY <1>6 DEF SendToIdle, GenuinelyIdle
  <2>3. Owned(r) /\ r.gen = rt[s].gen /\ (Held(rt[s]) => Held(r))
    BY <1>1, <2>2 DEF Owned, Held, Runtime
  <2>4. rt' = [rt EXCEPT ![s] = r]
    BY <1>1, <1>6 DEF SendToIdle
  <2> HIDE DEF r
  <2> QED
    BY <1>6, <2>1, <2>3, <2>4, QuietStep DEF SendToIdle
<1>7. CASE SendAdmits(s)
  <2>1. RestTyped'
    BY <1>7, RestKeeps DEF SendAdmits, IInv, TypeOK
  <2> QED
    BY <1>7, <2>1, AdmissionStep DEF SendAdmits, Restartable
<1>8. CASE SendQueues(s)
  <2> DEFINE r == [rt[s] EXCEPT !.status = "queued", !.turn = TRUE]
  <2>1. r \in Runtime
    BY <1>1 DEF Runtime, Status
  <2>2. rt[s].status \in {"stopped", "error"} /\ rt[s].gen < MaxGen
    BY <1>8 DEF SendQueues, Restartable
  <2>3. Owned(r) /\ r.gen = rt[s].gen /\ ~Held(rt[s])
    BY <1>1, <2>2 DEF Owned, Held, Runtime
  <2>4. rt' = [rt EXCEPT ![s] = r]
    BY <1>1, <1>8 DEF SendQueues
  <2>5. RestTyped'
    BY <1>8, PoolAssumption DEF SendQueues, RestTyped, IInv, TypeOK
  <2>6. starts' = starts /\ ~StartHoldsLock(s)
    BY <1>8, <2>3, SessionFacts DEF SendQueues
  <2>7. starts' \subseteq starts
        /\ ((\E t \in starts' : t.sess = s /\ t.at # "source") => Held(r))
    BY <2>6 DEF StartHoldsLock
  <2> HIDE DEF r
  <2> QED
    BY <2>1, <2>3, <2>4, <2>5, <2>7, OneSession
<1>9. CASE SendWhenReady(s)
  <2> DEFINE r == [rt[s] EXCEPT !.status = "running", !.busy = TRUE, !.waiter = FALSE]
  <2>1. r \in Runtime
    BY <1>1 DEF Runtime, Status
  <2>2. Owned(r) /\ r.gen = rt[s].gen /\ (Held(rt[s]) => Held(r))
    BY <1>1, <1>9 DEF SendWhenReady, Owned, Held, Runtime
  <2>3. rt' = [rt EXCEPT ![s] = r]
    BY <1>1, <1>9 DEF SendWhenReady
  <2> HIDE DEF r
  <2> QED
    BY <1>9, <2>1, <2>2, <2>3, QuietStep DEF SendWhenReady
<1>10. CASE SendWaitTimesOut(s)
  <2> DEFINE r == [rt[s] EXCEPT !.waiter = FALSE]
  <2>1. r \in Runtime
    BY <1>1 DEF Runtime
  <2>2. Owned(r) /\ r.gen = rt[s].gen /\ (Held(rt[s]) => Held(r))
    BY <1>1 DEF Owned, Held, Runtime
  <2>3. rt' = [rt EXCEPT ![s] = r]
    BY <1>1, <1>10 DEF SendWaitTimesOut
  <2> HIDE DEF r
  <2> QED
    BY <1>10, <2>1, <2>2, <2>3, QuietStep DEF SendWaitTimesOut
<1>11. CASE Resolve(s)
  <2>1. PICK status \in {"running", "starting"} :
           /\ rt[s].status = IF status = "running" THEN "waiting_permission"
                                                   ELSE "waiting_mcp_trust"
           /\ rt' = [rt EXCEPT ![s].status = status]
    BY <1>11 DEF Resolve
  <2> DEFINE r == [rt[s] EXCEPT !.status = status]
  <2>2. r \in Runtime
    BY <1>1 DEF Runtime, Status
  <2>3. Owned(r) /\ r.gen = rt[s].gen /\ (Held(rt[s]) => Held(r))
    BY <1>1, <2>1 DEF Owned, Held, Runtime
  <2>4. rt' = [rt EXCEPT ![s] = r]
    BY <1>1, <2>1
  <2> HIDE DEF r
  <2> QED
    BY <1>11, <2>2, <2>3, <2>4, QuietStep DEF Resolve
<1>12. CASE StopSession(s)
  <2>1. CASE rt[s].status = "queued"
    <3> DEFINE r == [rt[s] EXCEPT !.status = "stopped", !.turn = FALSE]
               I == {i \in DOMAIN queue : queue[i] = s}
    <3>1. r \in Runtime
      BY <1>1 DEF Runtime, Status
    <3>2. Owned(r) /\ r.gen = rt[s].gen /\ ~Held(rt[s])
      BY <1>1, <2>1 DEF Owned, Held, Runtime
    <3>3. /\ rt' = [rt EXCEPT ![s] = r] /\ queue' = Without(queue, I)
          /\ UNCHANGED <<starts, dispatch, sweep, closing, mode>>
      BY <1>1, <1>12, <2>1 DEF StopSession
    <3>4. RestTyped'
      <4>1. queue \in Seq(Session) /\ Len(queue) <= QueueMax
        BY DEF IInv, TypeOK
      <4>2. Without(queue, I) \in Seq(Session) /\ Len(Without(queue, I)) <= Len(queue)
        BY <4>1, WithoutKeeps
      <4> HIDE DEF I
      <4>3. queue' \in Seq(Session) /\ Len(queue') <= QueueMax
        BY <3>3, <4>1, <4>2, PoolAssumption
      <4> QED
        BY <3>3, <4>3 DEF RestTyped, IInv, TypeOK
    <3>5. starts' \subseteq starts
          /\ ((\E t \in starts' : t.sess = s /\ t.at # "source") => Held(r))
      BY <3>2, <3>3, SessionFacts DEF StartHoldsLock
    <3> HIDE DEF r
    <3> QED
      BY <3>1, <3>2, <3>3, <3>4, <3>5, OneSession
  <2>2. CASE rt[s].status # "queued"
    <3>1. /\ Stoppable(rt[s])
          /\ rt' = [rt EXCEPT ![s] = Begin(rt[s], rt[s].gen, "stopped")]
          /\ UNCHANGED <<queue, starts, dispatch, sweep, closing, mode>>
      BY <1>1, <1>12, <2>2 DEF StopSession
    <3>2. rt[s].gen # 0
      BY <1>1, <3>1, StoppableStarted
    <3> QED
      BY <3>1, <3>2, ClaimStep
  <2> QED
    BY <2>1, <2>2
<1>13. ASSUME NEW c \in Control, ControlBegins(s, c)
       PROVE  IInv'
  <2> DEFINE r == [rt[s] EXCEPT !.control = c, !.busy = TRUE]
  <2>1. r \in Runtime
    BY <1>1 DEF Runtime
  <2>2. rt[s].status = "idle"
    BY <1>13 DEF ControlBegins, GenuinelyIdle
  <2>3. Owned(r) /\ r.gen = rt[s].gen /\ (Held(rt[s]) => Held(r))
    BY <1>1, <2>2 DEF Owned, Held, Runtime
  <2>4. rt' = [rt EXCEPT ![s] = r]
    BY <1>1, <1>13 DEF ControlBegins
  <2> HIDE DEF r
  <2> QED
    BY <1>13, <2>1, <2>3, <2>4, QuietStep DEF ControlBegins
<1>14. ASSUME NEW c \in Client, LeaseAcquire(s, c) \/ LeaseRelease(s, c)
       PROVE  IInv'
  <2>1. PICK leases \in SUBSET Client : rt' = [rt EXCEPT ![s].leases = leases]
    <3>1. rt[s].leases \in SUBSET Client
      BY <1>1 DEF Runtime
    <3> QED
      BY <1>1, <1>14, <3>1 DEF LeaseAcquire, LeaseRelease
  <2> DEFINE r == [rt[s] EXCEPT !.leases = leases]
  <2>2. r \in Runtime
    BY <1>1 DEF Runtime
  <2>3. Owned(r) /\ r.gen = rt[s].gen /\ (Held(rt[s]) => Held(r))
    BY <1>1 DEF Owned, Held, Runtime
  <2>4. rt' = [rt EXCEPT ![s] = r]
    BY <1>1, <2>1
  <2>5. dispatch' \subseteq dispatch \cup {s} /\ UNCHANGED <<queue, starts, sweep, closing, mode>>
    BY <1>14 DEF LeaseAcquire, LeaseRelease
  <2> HIDE DEF r
  <2> QED
    BY <2>2, <2>3, <2>4, <2>5, QuietStep
<1> QED
  BY <1>2, <1>3, <1>4, <1>5, <1>6, <1>7, <1>8, <1>9, <1>10, <1>11, <1>12, <1>13, <1>14
     DEF Request

(* What Core and its process do.                                           *)
LEMMA CoreKeeps ==
    ASSUME IInv, NEW s \in Session, Core(s)
    PROVE  IInv'
<1>1. rt[s] \in Runtime /\ Owned(rt[s]) /\ rt \in [Session -> Runtime]
  BY SessionFacts DEF IInv, TypeOK
<1>2. CASE TurnFinished(s)
  <2> DEFINE r == [rt[s] EXCEPT !.status = "idle", !.busy = FALSE, !.turn = FALSE]
  <2>1. r \in Runtime
    BY <1>1 DEF Runtime, Status
  <2>2. rt[s].proc # "none" /\ rt[s].busy /\ rt[s].status # "stopping" /\ rt[s].finGen = 0
    BY <1>2 DEF TurnFinished, Finalizing
  <2>3. Owned(r) /\ r.gen = rt[s].gen /\ ~Held(rt[s])
    BY <1>1, <2>2 DEF Owned, Held, Runtime
  <2>4. rt' = [rt EXCEPT ![s] = r]
    BY <1>1, <1>2 DEF TurnFinished
  <2> HIDE DEF r
  <2> QED
    BY <1>2, <2>1, <2>3, <2>4, QuietStep DEF TurnFinished
<1>3. CASE Asks(s)
  <2>1. PICK status \in {"waiting_permission", "waiting_mcp_trust"} :
           /\ rt[s].status = IF status = "waiting_permission" THEN "running" ELSE "starting"
           /\ rt' = [rt EXCEPT ![s].status = status]
    BY <1>3 DEF Asks
  <2> DEFINE r == [rt[s] EXCEPT !.status = status]
  <2>2. r \in Runtime
    BY <1>1 DEF Runtime, Status
  <2>3. Owned(r) /\ r.gen = rt[s].gen /\ (Held(rt[s]) => Held(r))
    BY <1>1, <2>1 DEF Owned, Held, Runtime
  <2>4. rt' = [rt EXCEPT ![s] = r]
    BY <1>1, <2>1
  <2> HIDE DEF r
  <2> QED
    BY <1>3, <2>2, <2>3, <2>4, QuietStep DEF Asks
<1>4. CASE ControlEnds(s)
  <2> DEFINE r == [rt[s] EXCEPT !.control = None, !.busy = FALSE]
  <2>1. r \in Runtime
    BY <1>1 DEF Runtime
  <2>2. Owned(r) /\ r.gen = rt[s].gen /\ (Held(rt[s]) => Held(r))
    BY <1>1 DEF Owned, Held, Runtime
  <2>3. rt' = [rt EXCEPT ![s] = r]
    BY <1>1, <1>4 DEF ControlEnds
  <2> HIDE DEF r
  <2> QED
    BY <1>4, <2>1, <2>2, <2>3, QuietStep DEF ControlEnds
<1>5. CASE ControlAborts(s)
  <2> DEFINE r == [rt[s] EXCEPT !.control = None, !.busy = FALSE]
  <2>1. r \in Runtime /\ r.gen \in Generation
    BY <1>1 DEF Runtime
  <2>2. Owned(r) /\ r.gen = rt[s].gen /\ (Held(rt[s]) => Held(r))
    BY <1>1 DEF Owned, Held, Runtime
  <2>3. /\ rt' = [rt EXCEPT ![s] = IF Stoppable(r) THEN Begin(r, r.gen, "stopped") ELSE r]
        /\ UNCHANGED <<queue, starts, dispatch, sweep, closing, mode>>
    BY <1>5 DEF ControlAborts
  <2>4. RestTyped'
    BY <2>3, RestKeeps DEF IInv, TypeOK
  <2> HIDE DEF r
  <2>5. CASE Stoppable(r)
    <3>1. r.gen # 0
      BY <2>1, <2>2, <2>5, StoppableStarted
    <3>2. rt' = [rt EXCEPT ![s] = Begin(r, r.gen, "stopped")] /\ starts' \subseteq starts
      BY <2>3, <2>5
    <3> QED
      BY <2>1, <2>2, <2>4, <3>1, <3>2, BeginStep
  <2>6. CASE ~Stoppable(r)
    BY <2>1, <2>2, <2>3, <2>6, QuietStep
  <2> QED
    BY <2>5, <2>6
<1>6. CASE ProcessExit(s)
  <2> DEFINE died == rt[s].died \/ ~(Finalizing(rt[s]) \/ rt[s].cleanup)
  <2>1. died \in BOOLEAN
    OBVIOUS
  <2>2. rt' = [rt EXCEPT ![s].proc = "exited", ![s].died = died]
    BY <1>1, <1>6 DEF ProcessExit
  <2> HIDE DEF died
  <2> DEFINE r == [rt[s] EXCEPT !.proc = "exited", !.died = died]
  <2>3. r \in Runtime
    BY <1>1, <2>1 DEF Runtime
  <2>4. rt[s].gen # 0
    BY <1>1, <1>6, StoppableStarted DEF ProcessExit, Stoppable
  <2>5. Owned(r) /\ r.gen = rt[s].gen /\ (Held(rt[s]) => Held(r))
    BY <1>1, <2>4 DEF Owned, Held, Runtime
  <2>6. rt' = [rt EXCEPT ![s] = r]
    BY <1>1, <2>2
  <2> HIDE DEF r
  <2> QED
    BY <1>6, <2>3, <2>5, <2>6, QuietStep DEF ProcessExit
<1> QED
  BY <1>2, <1>3, <1>4, <1>5, <1>6 DEF Core

(* The handoff of an idle Runtime, the claim of a reader, and the steps of *)
(* a finalizer.                                                            *)
LEMMA GenerationsKeeps ==
    ASSUME IInv, NEW s \in Session, Generations(s)
    PROVE  IInv'
<1>1. rt[s] \in Runtime /\ Owned(rt[s]) /\ rt \in [Session -> Runtime]
  BY SessionFacts DEF IInv, TypeOK
<1>2. CASE ReaderClaims(s)
  <2>1. PICK final \in {"stopped", "error"} :
           rt' = [rt EXCEPT ![s] = Begin(rt[s], rt[s].gen, final)]
    BY <1>1, <1>2 DEF ReaderClaims
  <2>2. rt[s].gen # 0
    BY <1>1, <1>2, StoppableStarted DEF ReaderClaims, Live
  <2> QED
    BY <1>2, <2>1, <2>2, ClaimStep DEF ReaderClaims
<1>3. CASE FinalizerLocks(s)
  <2> DEFINE r == [rt[s] EXCEPT !.fin = "teardown"]
  <2>1. r \in Runtime
    BY <1>1 DEF Runtime
  <2>2. Owned(r) /\ r.gen = rt[s].gen
    BY <1>1, <1>3 DEF FinalizerLocks, Owned, Runtime
  <2>3. rt' = [rt EXCEPT ![s] = r]
    BY <1>1, <1>3 DEF FinalizerLocks
  <2>4. RestTyped'
    BY <1>3, RestKeeps DEF FinalizerLocks, IInv, TypeOK
  <2>5. starts' \subseteq starts
        /\ ((\E t \in starts' : t.sess = s /\ t.at # "source") => Held(r))
    BY <1>3 DEF FinalizerLocks, StartHoldsLock
  <2> HIDE DEF r
  <2> QED
    BY <2>1, <2>2, <2>3, <2>4, <2>5, OneSession
<1>4. CASE FinalizerTearsDown(s)
  <2>1. PICK survives, kept, errors \in BOOLEAN :
         /\ survives \/ kept \/ errors => "cleanup" \in Env
         /\ survives => Live(rt[s])
         /\ kept => rt[s].ref
         /\ rt' = [rt EXCEPT
                ![s].proc = IF Live(rt[s]) /\ ~survives THEN "exited" ELSE @,
                ![s].fin = IF kept THEN "kept" ELSE "hooks",
                ![s].final = IF errors THEN "error" ELSE @,
                ![s].token = 0]
    BY <1>4 DEF FinalizerTearsDown
  <2> DEFINE proc == IF Live(rt[s]) /\ ~survives THEN "exited" ELSE rt[s].proc
             fin == IF kept THEN "kept" ELSE "hooks"
             final == IF errors THEN "error" ELSE rt[s].final
  <2>2. /\ proc \in {"none", "live", "exited"} /\ (rt[s].proc = "none" => proc = "none")
        /\ fin \in {"hooks", "kept"} /\ final \in {"stopped", "error"}
        /\ 0 \in Generation
    BY <1>1, PoolAssumption DEF Runtime, Live, Generation
  <2>3. rt' = [rt EXCEPT ![s].proc = proc, ![s].fin = fin, ![s].final = final,
                         ![s].token = 0]
    BY <1>1, <2>1
  <2> HIDE DEF proc, fin, final
  <2> DEFINE r == [rt[s] EXCEPT !.proc = proc, !.fin = fin, !.final = final, !.token = 0]
  <2>4. r \in Runtime
    BY <1>1, <2>2 DEF Runtime
  <2>5. rt[s].fin = "teardown"
    BY <1>4 DEF FinalizerTearsDown
  <2>6. Owned(r) /\ r.gen = rt[s].gen /\ ~Held(rt[s])
    BY <1>1, <2>2, <2>5 DEF Owned, Held, Runtime
  <2>7. rt' = [rt EXCEPT ![s] = r]
    BY <1>1, <2>3
  <2> HIDE DEF r
  <2> QED
    BY <1>4, <2>4, <2>6, <2>7, QuietStep DEF FinalizerTearsDown
<1>5. CASE FinalizerConverges(s)
  <2> DEFINE c == Converged(rt[s])
             f == [rt EXCEPT ![s] = c]
  <2>1. rt[s].fin \in {"hooks", "kept"}
    BY <1>5 DEF FinalizerConverges
  <2>2. c \in Runtime /\ Owned(c) /\ c.gen = rt[s].gen /\ ~Held(rt[s])
    BY <1>1, <2>1, ConvergedKeeps DEF Held
  <2>3. ScheduleWaiting(f) /\ UNCHANGED <<dispatch, sweep, closing, mode>>
    BY <1>1, <1>5 DEF FinalizerConverges
  <2> HIDE DEF c
  <2>4. f \in [Session -> Runtime] /\ f[s] = c /\ \A x \in Session \ {s} : f[x] = rt[x]
    BY <1>1, <2>2
  <2> HIDE DEF f
  <2>5. \A x \in Session : Owned(f[x]) /\ f[x].gen = rt[x].gen
    BY <2>2, <2>4 DEF IInv
  <2>6. \A x \in Session : Held(rt[x]) => Held(f[x])
    BY <2>2, <2>4
  <2>7. /\ dispatch' \subseteq Session /\ sweep' \subseteq Session \X Generation
        /\ closing' \subseteq Session \X Generation /\ mode' \in {"open", "closing", "closed"}
    BY <2>3 DEF IInv, TypeOK
  <2> QED
    BY <2>3, <2>4, <2>5, <2>6, <2>7, ScheduleKeeps
<1> QED
  BY <1>2, <1>3, <1>4, <1>5, DispatchStep DEF Generations

(* The only start that can hold the lifecycle_lock of its Session goes on. *)
LEMMA AdvanceStep ==
    ASSUME IInv, NEW t \in starts, NEW u \in StartTask, NEW r \in Runtime,
           u.sess = t.sess, u.gen = t.gen, t.gen = rt[t.sess].gen,
           \A x \in starts : x.sess = t.sess /\ x.at # "source" => x = t,
           rt' = [rt EXCEPT ![t.sess] = r], starts' = (starts \ {t}) \cup {u}, RestTyped',
           Owned(r), r.gen = rt[t.sess].gen, Held(r)
    PROVE  IInv'
<1> DEFINE s == t.sess
<1>1. /\ rt \in [Session -> Runtime] /\ starts \in SUBSET StartTask /\ s \in Session
      /\ StartBound(t, rt)
  BY DEF IInv, TypeOK, StartTask
<1>2. rt' \in [Session -> Runtime] /\ rt'[s] = r /\ \A x \in Session \ {s} : rt'[x] = rt[x]
  BY <1>1
<1>3. \A x \in Session : Owned(rt'[x]) /\ rt'[x].gen = rt[x].gen
  BY <1>2 DEF IInv
<1>4. TypeOK'
  BY <1>1, <1>2 DEF TypeOK, RestTyped
<1>5. ASSUME NEW x \in starts' PROVE StartBound(x, rt')
  <2>1. x \in starts => x.sess \in Session /\ StartBound(x, rt)
    BY <1>1 DEF IInv, StartTask
  <2>2. x \in starts \/ x = u
    OBVIOUS
  <2> QED
    BY <1>1, <1>3, <2>1, <2>2 DEF StartBound
<1>6. ASSUME NEW x \in starts', x.at # "source"
      PROVE  /\ x.gen = rt'[x.sess].gen /\ Held(rt'[x.sess])
             /\ \A y \in starts' : y.sess = x.sess /\ y.at # "source" => y = x
  <2>1. CASE x = u
    <3>1. \A y \in starts' : y.sess = s /\ y.at # "source" => y = u
      OBVIOUS
    <3> QED
      BY <1>2, <2>1, <3>1
  <2>2. CASE x # u
    <3>1. x \in starts /\ x # t /\ x.sess \in Session /\ x.sess # s
      BY <1>1, <2>2, <1>6 DEF StartTask
    <3>2. /\ x.gen = rt[x.sess].gen /\ Held(rt[x.sess])
          /\ \A y \in starts : y.sess = x.sess /\ y.at # "source" => y = x
      BY <1>6, <3>1 DEF IInv, StartOwnsGeneration, Held
    <3> QED
      BY <1>2, <3>1, <3>2
  <2> QED
    BY <2>1, <2>2
<1>7. StartOwnsGeneration'
  BY <1>6 DEF StartOwnsGeneration, Held
<1> QED
  BY <1>3, <1>4, <1>5, <1>7 DEF IInv

(* A start that gives up, and asks for the finalization of its generation  *)
(* of a Session that it may have changed to r before.                      *)
LEMMA GiveUpStep ==
    ASSUME IInv, NEW t \in starts, NEW r \in Runtime, Owned(r), r.gen = rt[t.sess].gen,
           Held(rt[t.sess]) => Held(r),
           NEW final \in {"stopped", "error"},
           rt' = [rt EXCEPT ![t.sess] = Begin(r, t.gen, final)],
           starts' = starts \ {t}, UNCHANGED <<queue, dispatch, sweep, closing, mode>>
    PROVE  IInv'
<1>1. t.sess \in Session /\ t.gen \in Generation /\ t.gen # 0
  BY DEF IInv, TypeOK, StartTask, StartBound
<1>2. RestTyped'
  BY RestKeeps DEF IInv, TypeOK
<1> QED
  BY <1>1, <1>2, BeginStep

(* The steps of _start_runtime.                                            *)
LEMMA StartKeeps ==
    ASSUME IInv, NEW t \in starts, Start(t)
    PROVE  IInv'
<1> DEFINE s == t.sess
<1>1. /\ s \in Session /\ t \in StartTask /\ t.turn \in BOOLEAN
      /\ t.gen \in Generation /\ t.gen # 0 /\ t.gen <= rt[s].gen
  BY DEF IInv, TypeOK, StartTask, StartBound
<1>2. /\ rt[s] \in Runtime /\ Owned(rt[s]) /\ rt \in [Session -> Runtime]
      /\ rt[s].gen \in Generation /\ rt[s].gen # 0
  BY <1>1, SessionFacts DEF IInv, TypeOK, Generation
<1>3. rt[s].status = "starting" => rt[s].fin = "none" /\ Held(rt[s])
  BY <1>2 DEF Owned, Held
<1>4. t.at # "source" =>
         \A x \in starts : x.sess = s /\ x.at # "source" => x = t
  BY DEF IInv, StartOwnsGeneration
<1>5. CASE StartChecks(t)
  <2>1. t.at = "source" /\ ~StartHoldsLock(s) /\ UNCHANGED <<queue, dispatch, sweep, closing, mode>>
    BY <1>5 DEF StartChecks
  <2>2. RestTyped'
    BY <2>1, RestKeeps DEF IInv, TypeOK
  <2>3. CASE starts' = starts \ {t} /\ UNCHANGED rt
    <3>1. \A x \in Session :
             (\E y \in starts' : y.sess = x /\ y.at # "source") => Held(rt'[x])
      BY <2>3, SessionFacts DEF StartHoldsLock
    <3> QED
      BY <1>2, <2>2, <2>3, <3>1, SameGenerations DEF IInv
  <2>4. CASE /\ starts' = starts \ {t}
             /\ rt' = [rt EXCEPT ![s] = Begin(@, t.gen, "error")]
    <3>1. rt' = [rt EXCEPT ![s] = Begin(rt[s], t.gen, "error")]
      BY <1>1, <1>2, <2>4
    <3> QED
      BY <1>2, <2>1, <2>4, <3>1, GiveUpStep
  <2>5. CASE /\ StartIsCurrent(t)
             /\ starts' = (starts \ {t}) \cup {[t EXCEPT !.at = "launching"]}
             /\ rt' = [rt EXCEPT ![s].src = None]
    <3> DEFINE r == [rt[s] EXCEPT !.src = None]
               u == [t EXCEPT !.at = "launching"]
    <3>1. None \in Source
      BY DEF Source
    <3>2. r \in Runtime
      BY <1>2, <3>1 DEF Runtime
    <3>3. u \in StartTask /\ u.sess = t.sess /\ u.gen = t.gen
      BY <1>1 DEF StartTask
    <3>4. rt[s].status = "starting" /\ t.gen = rt[s].gen
      BY <2>5 DEF StartIsCurrent
    <3>5. Owned(r) /\ r.gen = rt[s].gen /\ Held(r)
      BY <1>2, <1>3, <3>4 DEF Owned, Held, Runtime
    <3>6. rt' = [rt EXCEPT ![s] = r]
      BY <1>2, <2>5
    <3>7. \A x \in starts : x.sess = s /\ x.at # "source" => x = t
      BY <2>1 DEF StartHoldsLock
    <3> HIDE DEF r, u
    <3>8. starts' = (starts \ {t}) \cup {u}
      BY <2>5 DEF u
    <3> QED
      BY <2>2, <3>2, <3>3, <3>4, <3>5, <3>6, <3>7, <3>8, AdvanceStep
  <2> QED
    BY <1>5, <2>3, <2>4, <2>5 DEF StartChecks
<1>6. CASE StartLaunches(t)
  <2> DEFINE r == [rt[s] EXCEPT !.proc = "live", !.ref = TRUE]
             u == [t EXCEPT !.at = "ready"]
  <2>1. r \in Runtime
    BY <1>2 DEF Runtime
  <2>2. Owned(r) /\ r.gen = rt[s].gen /\ (Held(rt[s]) => Held(r))
    BY <1>2 DEF Owned, Held, Runtime
  <2>3. /\ t.at = "launching" /\ UNCHANGED <<queue, dispatch, sweep, closing, mode>>
        /\ \/ /\ StartIsCurrent(t)
              /\ rt' = [rt EXCEPT ![s] = r]
              /\ starts' = (starts \ {t}) \cup {u}
           \/ /\ rt' = [rt EXCEPT ![s] = Begin(r, t.gen, "stopped")]
              /\ starts' = starts \ {t}
    BY <1>6 DEF StartLaunches
  <2>4. u \in StartTask /\ u.sess = t.sess /\ u.gen = t.gen
    BY <1>1 DEF StartTask
  <2>5. RestTyped'
    BY <2>3, RestKeeps DEF IInv, TypeOK
  <2> HIDE DEF r, u
  <2>6. CASE /\ StartIsCurrent(t)
             /\ rt' = [rt EXCEPT ![s] = r]
             /\ starts' = (starts \ {t}) \cup {u}
    <3>1. t.gen = rt[s].gen /\ rt[s].status = "starting"
      BY <2>6 DEF StartIsCurrent
    <3> QED
      BY <1>3, <1>4, <2>1, <2>2, <2>3, <2>4, <2>5, <2>6, <3>1, AdvanceStep
  <2>7. CASE /\ rt' = [rt EXCEPT ![s] = Begin(r, t.gen, "stopped")]
             /\ starts' = starts \ {t}
    BY <2>1, <2>2, <2>3, <2>7, GiveUpStep
  <2> QED
    BY <2>3, <2>6, <2>7
<1>7. CASE StartLaunchFails(t)
  <2>1. rt' = [rt EXCEPT ![s] = Begin(rt[s], t.gen, "error")]
    BY <1>2, <1>7 DEF StartLaunchFails
  <2> QED
    BY <1>2, <1>7, <2>1, GiveUpStep DEF StartLaunchFails
<1>8. CASE StartCompletes(t)
  <2> DEFINE status == IF t.turn THEN "running" ELSE "idle"
             r == [rt[s] EXCEPT !.status = status, !.busy = t.turn]
  <2>1. status \in {"running", "idle"}
    OBVIOUS
  <2>2. /\ rt' = [rt EXCEPT ![s].status = status, ![s].busy = t.turn]
        /\ t.at = "ready" /\ rt[s].status = "starting" /\ starts' = starts \ {t}
        /\ UNCHANGED <<queue, sweep, closing, mode>> /\ dispatch' \subseteq dispatch \cup {s}
    BY <1>8 DEF StartCompletes
  <2> HIDE DEF status
  <2>3. r \in Runtime
    BY <1>1, <1>2, <2>1 DEF Runtime, Status
  <2>4. Owned(r) /\ r.gen = rt[s].gen
    BY <1>2, <2>1, <2>2 DEF Owned, Runtime
  <2>5. rt' = [rt EXCEPT ![s] = r]
    BY <1>2, <2>2
  <2>6. RestTyped'
    BY <1>1, <2>2, RestKeeps DEF IInv, TypeOK
  <2>7. starts' \subseteq starts
        /\ ((\E x \in starts' : x.sess = s /\ x.at # "source") => Held(r))
    BY <1>4, <2>2
  <2> HIDE DEF r
  <2> QED
    BY <1>1, <2>3, <2>4, <2>5, <2>6, <2>7, OneSession
<1>9. CASE StartFails(t)
  <2>1. rt' = [rt EXCEPT ![s] = Begin(rt[s], t.gen, "error")]
    BY <1>2, <1>9 DEF StartFails
  <2> QED
    BY <1>2, <1>9, <2>1, GiveUpStep DEF StartFails
<1> QED
  BY <1>5, <1>6, <1>7, <1>8, <1>9 DEF Start

(* A step that may finalize several Sessions, or leave their queue.        *)
LEMMA ManyStep ==
    ASSUME IInv, rt' \in [Session -> Runtime], starts' \subseteq starts, RestTyped',
           \A s \in Session :
              /\ Owned(rt'[s]) /\ rt'[s].gen = rt[s].gen
              /\ Held(rt[s]) => Held(rt'[s])
    PROVE  IInv'
<1>1. \A s \in Session :
         (\E t \in starts' : t.sess = s /\ t.at # "source") => Held(rt'[s])
  BY SessionFacts DEF StartHoldsLock
<1> QED
  BY <1>1, SameGenerations

(* The sweep, and the service of the queue that ends it.                   *)
LEMMA SweepKeeps ==
    ASSUME IInv, Sweep \/ SweepEnds
    PROVE  IInv'
<1>1. \A s \in Session : /\ rt[s] \in Runtime /\ Owned(rt[s]) /\ rt[s].gen \in Generation
  BY SessionFacts
<1>2. CASE Sweep
  <2>1. PICK E \in SUBSET {s \in Session : Expirable(rt[s])} :
           /\ rt' = [s \in Session |->
                       IF s \in E THEN Begin(rt[s], rt[s].gen, "stopped") ELSE rt[s]]
           /\ sweep' = {<<s, rt[s].gen>> : s \in E}
    BY <1>2 DEF Sweep
  <2>2. ASSUME NEW s \in E
        PROVE  /\ s \in Session /\ rt[s].gen # 0
               /\ Begin(rt[s], rt[s].gen, "stopped") \in Runtime
               /\ Owned(Begin(rt[s], rt[s].gen, "stopped"))
               /\ Begin(rt[s], rt[s].gen, "stopped").gen = rt[s].gen
               /\ Held(rt[s]) => Held(Begin(rt[s], rt[s].gen, "stopped"))
    <3>1. s \in Session /\ Live(rt[s])
      BY DEF Expirable
    <3>2. rt[s].gen # 0
      BY <1>1, <3>1, StoppableStarted DEF Stoppable
    <3> QED
      BY <1>1, <3>1, <3>2, BeginKeeps
  <2>3. rt' \in [Session -> Runtime]
    BY <1>1, <2>1, <2>2
  <2>4. \A s \in Session :
           /\ Owned(rt'[s]) /\ rt'[s].gen = rt[s].gen
           /\ Held(rt[s]) => Held(rt'[s])
    BY <1>1, <2>1, <2>2
  <2>5. sweep' \subseteq Session \X Generation
    BY <1>1, <2>1, <2>2
  <2>6. RestTyped' /\ starts' \subseteq starts
    BY <1>2, <2>5 DEF Sweep, RestTyped, IInv, TypeOK
  <2> QED
    BY <2>3, <2>4, <2>6, ManyStep
<1>3. CASE SweepEnds
  <2>1. rt \in [Session -> Runtime]
    BY DEF IInv, TypeOK
  <2>2. ScheduleWaiting(rt)
    BY <1>3 DEF SweepEnds
  <2>3. /\ dispatch' \subseteq Session /\ sweep' \subseteq Session \X Generation
        /\ closing' \subseteq Session \X Generation /\ mode' \in {"open", "closing", "closed"}
    BY <1>3 DEF SweepEnds, IInv, TypeOK
  <2> QED
    BY <1>1, <2>1, <2>2, <2>3, ScheduleKeeps
<1> QED
  BY <1>2, <1>3

(* The end of the application.                                             *)
LEMMA ShutdownKeeps ==
    ASSUME IInv, Shutdown \/ ShutdownReturns
    PROVE  IInv'
<1>1. \A s \in Session : /\ rt[s] \in Runtime /\ Owned(rt[s]) /\ rt[s].gen \in Generation
  BY SessionFacts
<1>2. CASE Shutdown
  <2> DEFINE C == {s \in Session : Stoppable(rt[s])}
             stopped(s) == [rt[s] EXCEPT !.status = "stopped"]
  <2>1. /\ rt' = [s \in Session |->
                    IF s \in C THEN Begin(rt[s], rt[s].gen, "stopped")
                    ELSE IF rt[s].status = "queued" THEN stopped(s) ELSE rt[s]]
        /\ closing' = {<<s, rt[s].gen>> : s \in C}
        /\ queue' = <<>> /\ mode' = "closing" /\ UNCHANGED <<starts, dispatch, sweep>>
    BY <1>2 DEF Shutdown
  <2>2. ASSUME NEW s \in C
        PROVE  /\ s \in Session
               /\ Begin(rt[s], rt[s].gen, "stopped") \in Runtime
               /\ Owned(Begin(rt[s], rt[s].gen, "stopped"))
               /\ Begin(rt[s], rt[s].gen, "stopped").gen = rt[s].gen
               /\ Held(rt[s]) => Held(Begin(rt[s], rt[s].gen, "stopped"))
    <3>1. s \in Session /\ rt[s].gen # 0
      BY <1>1, StoppableStarted
    <3> QED
      BY <1>1, <3>1, BeginKeeps
  <2>3. ASSUME NEW s \in Session, rt[s].status = "queued"
        PROVE  /\ stopped(s) \in Runtime /\ Owned(stopped(s))
               /\ stopped(s).gen = rt[s].gen /\ ~Held(rt[s])
    <3>1. stopped(s) \in Runtime
      BY <1>1 DEF Runtime, Status
    <3> QED
      BY <1>1, <2>3, <3>1 DEF Owned, Held, Runtime
  <2>4. closing' \subseteq Session \X Generation
    BY <1>1, <2>1
  <2> HIDE DEF C, stopped
  <2>5. rt' \in [Session -> Runtime]
    BY <1>1, <2>1, <2>2, <2>3
  <2>6. \A s \in Session :
           /\ Owned(rt'[s]) /\ rt'[s].gen = rt[s].gen
           /\ Held(rt[s]) => Held(rt'[s])
    BY <1>1, <2>1, <2>2, <2>3
  <2>7. RestTyped' /\ starts' \subseteq starts
    <3>1. <<>> \in Seq(Session) /\ Len(<<>>) <= QueueMax
      BY PoolAssumption
    <3> QED
      BY <2>1, <2>4, <3>1 DEF RestTyped, IInv, TypeOK
  <2> QED
    BY <2>5, <2>6, <2>7, ManyStep
<1>3. CASE ShutdownReturns
  <2> DEFINE r(s) == [rt[s] EXCEPT !.token = 0]
  <2>1. rt' = [s \in Session |-> r(s)]
    BY <1>3 DEF ShutdownReturns
  <2>2. ASSUME NEW s \in Session
        PROVE  /\ r(s) \in Runtime /\ Owned(r(s)) /\ r(s).gen = rt[s].gen
               /\ Held(rt[s]) => Held(r(s))
    <3>1. 0 \in Generation
      BY PoolAssumption DEF Generation
    <3>2. r(s) \in Runtime
      BY <1>1, <3>1 DEF Runtime
    <3> QED
      BY <1>1, <3>2 DEF Owned, Held, Runtime
  <2> HIDE DEF r
  <2>3. rt' \in [Session -> Runtime]
    BY <2>1, <2>2
  <2>4. \A s \in Session :
           /\ Owned(rt'[s]) /\ rt'[s].gen = rt[s].gen
           /\ Held(rt[s]) => Held(rt'[s])
    BY <2>1, <2>2
  <2>5. RestTyped' /\ starts' \subseteq starts
    BY <1>3 DEF ShutdownReturns, RestTyped, IInv, TypeOK
  <2> QED
    BY <2>3, <2>4, <2>5, ManyStep
<1> QED
  BY <1>2, <1>3

-----------------------------------------------------------------------------
(* The invariant and what follows from it.                                 *)

(* Before the first call no Session was ever started, and nothing waits.   *)
LEMMA InitIInv == Init => IInv
<1> SUFFICES ASSUME Init PROVE IInv
  OBVIOUS
<1>1. 0 \in Generation /\ None \in Source
  BY PoolAssumption DEF Generation, Source
<1>2. Fresh \in Runtime
  BY <1>1 DEF Fresh, Runtime, Status
<1>3. <<>> \in Seq(Session) /\ Len(<<>>) <= QueueMax
  BY PoolAssumption
<1>4. TypeOK
  BY <1>2, <1>3 DEF Init, TypeOK
<1>5. Owned(Fresh)
  BY DEF Owned, Fresh
<1> QED
  BY <1>4, <1>5 DEF Init, IInv, StartOwnsGeneration

(* Every step of the manager, of its tasks and of its surroundings keeps   *)
(* the invariant.                                                          *)
LEMMA NextIInv == IInv /\ [Next]_vars => IInv'
<1> SUFFICES ASSUME IInv, [Next]_vars PROVE IInv'
  OBVIOUS
<1>1. ASSUME NEW s \in Session, Request(s) PROVE IInv'
  BY <1>1, RequestKeeps
<1>2. ASSUME NEW s \in Session, Core(s) PROVE IInv'
  BY <1>2, CoreKeeps
<1>3. ASSUME NEW s \in Session, Generations(s) PROVE IInv'
  BY <1>3, GenerationsKeeps
<1>4. ASSUME NEW t \in starts, Start(t) PROVE IInv'
  BY <1>4, StartKeeps
<1>5. CASE Sweep \/ SweepEnds
  BY <1>5, SweepKeeps
<1>6. CASE Shutdown \/ ShutdownReturns
  BY <1>6, ShutdownKeeps
<1>7. CASE UNCHANGED vars
  BY <1>7 DEF vars, IInv, TypeOK, Owned, StartBound, StartOwnsGeneration
<1> QED
  BY <1>1, <1>2, <1>3, <1>4, <1>5, <1>6, <1>7 DEF Next, Ended

LEMMA InvariantHolds == Spec => []IInv
  BY InitIInv, NextIInv, PTL DEF Spec

(* Type correctness: the records of the manager, its queue (which never    *)
(* exceeds sandbox_queue_max), its tasks and its pending waits.            *)
THEOREM TypeCorrect == Spec => []TypeOK
<1>1. IInv => TypeOK
  BY DEF IInv
<1> QED
  BY <1>1, InvariantHolds, PTL

(* However calls, exits, expiries and failures interleave, a Session is    *)
(* stopping exactly while one finalizer of its current generation works on *)
(* it: nothing finalizes twice, and no finalizer of an old generation      *)
(* converges a newer one (_claim_finalization_locked).                     *)
THEOREM OneFinalizerPerGeneration == Spec => []FinalizerOwnsGeneration
<1>1. IInv => FinalizerOwnsGeneration
  BY DEF IInv, Owned, FinalizerOwnsGeneration
<1> QED
  BY <1>1, InvariantHolds, PTL

(* A start task that has passed its check is the only one of its Session,  *)
(* is of the current generation, and has no finalizer tearing down beside  *)
(* it: the lifecycle_lock and the generation test of _start_runtime keep a *)
(* cancelled start from launching a Sandbox for a later generation.        *)
THEOREM StartsOwnTheirGeneration == Spec => []StartOwnsGeneration
<1>1. IInv => StartOwnsGeneration
  BY DEF IInv
<1> QED
  BY <1>1, InvariantHolds, PTL

-----------------------------------------------------------------------------
(* Statuses, queue, sources, tokens and Turns: the inductive invariant.    *)

Resting(r) == r.status \in {"stopped", "error", "queued"}

Rising(r) == r.status \in {"starting", "waiting_mcp_trust"}

Up(r) == r.status \in {"idle", "running", "waiting_permission"}

(* The generation is over, or its finalizer has been begun.                *)
Over(r) == Resting(r) \/ r.status = "stopping"

Unlaunched(r) == r.proc = "none" /\ ~r.ref /\ ~r.cleanup

(* One Session, in the mode m of the pool.  At rest it owns nothing but    *)
(* what a failed cleanup left; a Turn is with a call or with Core, never   *)
(* with both, and never beside a control; the token is that of the         *)
(* generation until the teardown.                                          *)
Good(r, m) ==
    /\ Resting(r) => /\ r.token = 0 /\ r.src = None
                     /\ ~r.busy /\ ~r.waiter /\ r.control = None
                     /\ r.cleanup \/ Unlaunched(r)
    /\ r.status = "queued" => r.turn /\ ~r.cleanup
    /\ m = "open" /\ r.status \in {"stopped", "error"} => ~r.turn
    /\ r.cleanup => r.status \in {"error", "stopping"} /\ r.token = 0
    /\ r.status = "stopping" => ~r.waiter
    /\ r.token \in {0, r.gen}
    /\ r.fin \in {"hooks", "kept"} => r.token = 0
    /\ m = "open" /\ (Rising(r) \/ Up(r)) => r.token = r.gen
    /\ r.fin = "kept" => r.ref
    /\ r.waiter => r.turn
    /\ Rising(r) => r.control = None
    /\ Up(r) \/ r.status = "waiting_mcp_trust" => r.proc # "none"
    /\ r.status \in {"running", "waiting_permission"} =>
          r.turn /\ r.busy /\ ~r.waiter /\ r.control = None
    /\ r.status = "idle" => /\ r.busy <=> r.control # None
                            /\ r.control # None => ~r.turn
    /\ r.status = "idle" /\ r.turn /\ "slow" \notin Env => r.waiter
    /\ r.src # None => Unlaunched(r) /\ ~r.died
    /\ r.proc = "exited" /\ ~Over(r) => r.died
    /\ r.proc = "live" => ~r.died

(* A generation has one start.  Until that has launched, there is nothing; *)
(* while it may still write its Turn, no call waits to write another.      *)
StartsGood ==
    \A t \in starts :
        /\ \A x \in starts : x.sess = t.sess /\ x.gen = t.gen => x = t
        /\ t.gen = rt[t.sess].gen =>
              /\ t.at # "ready" => Unlaunched(rt[t.sess]) /\ ~rt[t.sess].died
              /\ t.at # "source" => rt[t.sess].src = None
              /\ Rising(rt[t.sess]) /\ t.turn => rt[t.sess].turn /\ ~rt[t.sess].waiter

(* The Turn of a start that no call waits to write is with a start task.   *)
TurnStarts ==
    "slow" \notin Env /\ mode = "open" =>
        \A s \in Session : Rising(rt[s]) /\ rt[s].turn /\ ~rt[s].waiter =>
            \E t \in starts : t.sess = s /\ t.gen = rt[s].gen /\ t.turn

QueueGood ==
    /\ \A i, j \in DOMAIN queue : queue[i] = queue[j] => i = j
    /\ \A s \in Session :
          rt[s].status = "queued" <=> \E i \in DOMAIN queue : queue[i] = s

(* The source p of a Session, in the state f: that generation is ending or *)
(* has ended, by a claim and not by itself, and was no target any more.    *)
SourceOver(p, f) ==
    /\ p[2] <= f[p[1]].gen
    /\ f[p[1]].gen = p[2] => Over(f[p[1]]) /\ f[p[1]].src = None /\ ~f[p[1]].died

SourcesGood ==
    \A s \in Session : rt[s].src # None =>
        /\ SourceOver(rt[s].src, rt)
        /\ \A x \in Session : rt[x].src = rt[s].src => x = s

Vacant(r) == r.proc # "live" /\ ~r.ref

Launching(s) == \E t \in starts : t.sess = s /\ t.at = "launching"

(* In a closing pool whatever is left of a Session has its finalizer among *)
(* those shutdown waits for, has died by itself, or could not be removed.  *)
ClosingGood ==
    mode # "open" =>
        /\ queue = <<>>
        /\ \A s \in Session :
              \/ rt[s].died
              \/ rt[s].cleanup
              \/ Vacant(rt[s]) /\ ~Launching(s)
              \/ /\ mode = "closing"
                 /\ rt[s].finGen # 0 /\ <<s, rt[s].finGen>> \in closing

OInv ==
    /\ IInv
    /\ \A s \in Session : Good(rt[s], mode)
    /\ StartsGood
    /\ TurnStarts
    /\ QueueGood
    /\ SourcesGood
    /\ ClosingGood

(* What a step may do to a Session within its generation: n follows r.     *)
Passes(r, n) ==
    /\ n.gen = r.gen
    /\ n.src \in {r.src, None}
    /\ n.src = r.src \/ ~OccupiesSlot(n)
    /\ Resting(r) /\ ~r.cleanup => Resting(n) /\ ~n.cleanup
    /\ Over(r) => Over(n) /\ (r.died <=> n.died)
    /\ Unlaunched(r) /\ ~r.died => Unlaunched(n) /\ ~n.died
    /\ Rising(n) => /\ Rising(r)
                    /\ r.turn /\ ~r.waiter => n.turn /\ ~n.waiter
                    /\ n.turn /\ ~n.waiter => (r.turn /\ ~r.waiter) \/ "slow" \in Env
    /\ r.died => n.died
    /\ r.cleanup => n.cleanup \/ Vacant(n)
    /\ Vacant(r) => Vacant(n)
    /\ \/ n.finGen = r.finGen
       \/ r.finGen = 0
       \/ r.fin \in {"hooks", "kept"} /\ (n.cleanup \/ Vacant(n))

(* The same, for a Session that stays in the queue or out of it.           *)
Follows(r, n) == Passes(r, n) /\ (n.status = "queued" <=> r.status = "queued")

(* A Session enters its next generation from rest, with nothing left.      *)
FromRest ==
    \A s \in Session :
        \/ rt'[s].gen = rt[s].gen
        \/ /\ rt'[s].gen = rt[s].gen + 1
           /\ Resting(rt[s]) /\ ~rt[s].cleanup

(* The steps that take a slot of the pool, or let go of a source.          *)
Admitting ==
    \/ \E s \in Session : \/ ActivateAdmits(s) \/ SendAdmits(s)
                           \/ DispatchFromIdle(s) \/ FinalizerConverges(s)
    \/ SweepEnds
    \/ \E t \in starts : StartChecks(t) \/ StartLaunches(t)

Passing == \A s \in Session : Passes(rt[s], rt'[s])

(* What a step does to the Sessions: it passes them on within their        *)
(* generations, or it is one of those steps; it skips no generation.       *)
Advances == FromRest /\ (Passing \/ Admitting)

-----------------------------------------------------------------------------
(* What the helpers do to one Session.                                     *)

(* A claim ends nothing by itself.                                         *)
LEMMA BeginFollows ==
    ASSUME NEW r \in Runtime, Owned(r), NEW m, Good(r, m),
           NEW g, NEW final, r.status # "queued" \/ r.gen # g
    PROVE  /\ Good(Begin(r, g, final), m)
           /\ Follows(r, Begin(r, g, final))
<1>1. CASE ~Claimable(r, g)
  BY <1>1 DEF Begin, Follows, Passes
<1>2. CASE Claimable(r, g)
  <2> DEFINE n == [r EXCEPT !.finGen = g, !.status = "stopping", !.fin = "waiting",
                            !.final = final, !.waiter = FALSE]
  <2>1. Begin(r, g, final) = n
    BY <1>2 DEF Begin
  <2>2. /\ n.status = "stopping" /\ n.gen = r.gen /\ n.proc = r.proc /\ n.ref = r.ref
        /\ n.turn = r.turn /\ n.busy = r.busy /\ n.waiter = FALSE
        /\ n.control = r.control /\ n.src = r.src /\ n.token = r.token
        /\ n.finGen = g /\ n.fin = "waiting" /\ n.cleanup = r.cleanup /\ n.died = r.died
    BY DEF Runtime
  <2>3. r.gen = g /\ r.finGen = 0 /\ r.status # "queued"
        /\ ~(r.status \in {"stopped", "error"} /\ r.proc = "none" /\ ~r.cleanup)
    BY <1>2 DEF Claimable
  <2> HIDE DEF n
  <2>4. Good(n, m)
    BY <2>2, <2>3 DEF Good, Resting, Rising, Up, Over, Unlaunched
  <2>5. Follows(r, n)
    BY <2>2, <2>3 DEF Follows, Passes, Good, Resting, Rising, Over, Unlaunched, Vacant
  <2> QED
    BY <2>1, <2>4, <2>5
<1> QED
  BY <1>1, <1>2

(* A Session that is prepared owns its token, and nothing else yet.        *)
LEMMA PreparedGood ==
    ASSUME NEW r \in Runtime, NEW m, Good(r, m), Resting(r), ~r.cleanup, Owned(r),
           NEW src, NEW turn
    PROVE  LET n == Prepared(r, src, turn) IN
           /\ Good(n, m)
           /\ n.status = "starting" /\ n.gen = r.gen + 1 /\ n.src = src
           /\ n.turn = turn /\ ~n.waiter /\ Unlaunched(n) /\ ~n.died
<1> DEFINE n == Prepared(r, src, turn)
<1>1. /\ n.status = "starting" /\ n.gen = r.gen + 1 /\ n.proc = r.proc /\ n.ref = FALSE
      /\ n.turn = turn /\ n.busy = FALSE /\ n.waiter = r.waiter
      /\ n.control = None /\ n.src = src /\ n.token = r.gen + 1
      /\ n.finGen = r.finGen /\ n.fin = r.fin /\ n.cleanup = r.cleanup /\ n.died = FALSE
  BY DEF Prepared, Runtime
<1>2. ~r.waiter /\ r.proc = "none" /\ r.fin = "none"
  BY DEF Good, Unlaunched, Resting, Owned
<1> HIDE DEF n
<1>3. Good(n, m)
  BY <1>1, <1>2 DEF Good, Resting, Rising, Up, Over, Unlaunched
<1>4. Unlaunched(n)
  BY <1>1, <1>2 DEF Unlaunched
<1> QED
  BY <1>1, <1>2, <1>3, <1>4 DEF n

(* What a finalizer leaves is at rest, and claimed by nobody.              *)
LEMMA ConvergedFollows ==
    ASSUME NEW r \in Runtime, Owned(r), NEW m, Good(r, m), r.fin \in {"hooks", "kept"}
    PROVE  /\ Good(Converged(r), m)
           /\ Follows(r, Converged(r))
<1> DEFINE n == Converged(r)
           failed == Live(r) \/ r.fin = "kept"
<1>1. /\ n.status = (IF failed THEN "error" ELSE r.final)
      /\ n.gen = r.gen /\ n.proc = (IF Live(r) THEN "live" ELSE "none")
      /\ n.ref = (r.ref /\ r.fin = "kept")
      /\ n.turn = FALSE /\ n.busy = FALSE /\ n.waiter = r.waiter
      /\ n.control = None /\ n.src = None /\ n.token = r.token
      /\ n.finGen = 0 /\ n.fin = "none" /\ n.cleanup = failed /\ n.died = r.died
  BY DEF Converged, Runtime
<1>2. n.status \in {"stopped", "error"} /\ (failed => n.status = "error")
  BY <1>1 DEF Runtime
<1>3. r.status = "stopping" /\ ~r.waiter /\ r.token = 0 /\ (r.fin = "kept" => r.ref)
  BY DEF Good, Owned
<1>4. n.cleanup \/ (n.proc = "none" /\ ~n.ref)
  BY <1>1
<1>5. n.cleanup => n.status = "error"
  BY <1>1, <1>2
<1>6. n.proc = "live" => ~n.died
  BY <1>1 DEF Good, Live
<1>7. Unlaunched(r) => Unlaunched(n)
  BY <1>1, <1>3 DEF Unlaunched, Live
<1>8. Vacant(r) => Vacant(n)
  BY <1>1, <1>3 DEF Vacant, Live
<1> HIDE DEF n
<1>9. n.proc # "exited"
  BY <1>1
<1>10. Good(n, m)
  BY <1>1, <1>2, <1>3, <1>4, <1>5, <1>6, <1>9
     DEF Good, Resting, Rising, Up, Over, Unlaunched
<1>11. Passes(r, n)
  <2>1. n.src = r.src \/ ~OccupiesSlot(n)
    BY <1>1, <1>2, <1>3 DEF Good, Unlaunched, OccupiesSlot, Finalizing, Live
  <2> QED
    BY <1>1, <1>2, <1>3, <1>4, <1>7, <1>8, <2>1 DEF Passes, Resting, Rising, Over, Vacant
<1>12. Follows(r, n)
  BY <1>2, <1>3, <1>11 DEF Follows
<1> QED
  BY <1>10, <1>12 DEF n

-----------------------------------------------------------------------------
(* The queue.                                                              *)

(* Members of a finite set of positions are told apart by how many members *)
(* there are up to them.                                                   *)
LEMMA CountTellsApart ==
    ASSUME NEW N \in Nat, NEW K \in SUBSET (1..N), NEW i \in K, NEW j \in K,
           Cardinality({x \in K : x <= i}) = Cardinality({x \in K : x <= j})
    PROVE  i = j
<1> DEFINE upTo(y) == {x \in K : x <= y}
<1>1. IsFiniteSet(K)
  <2>1. IsFiniteSet(1..N)
    BY FS_Interval
  <2> QED
    BY <2>1, FS_Subset
<1>2. ASSUME NEW a \in K, NEW b \in K, a < b,
             Cardinality(upTo(a)) = Cardinality(upTo(b))
      PROVE  FALSE
  <2>1. a \in Nat /\ b \in Nat
    OBVIOUS
  <2>2. \A x \in K : x \in Nat
    OBVIOUS
  <2>3. upTo(a) \in SUBSET upTo(b) /\ b \in upTo(b) /\ b \notin upTo(a)
    <3>1. \A x \in K : x <= a => x <= b
      BY <1>2, <2>1, <2>2
    <3>2. b <= b /\ ~(b <= a)
      BY <1>2, <2>1
    <3> QED
      BY <3>1, <3>2
  <2>4. IsFiniteSet(upTo(b))
    BY <1>1, FS_Subset
  <2> HIDE DEF upTo
  <2>5. upTo(b) = upTo(a)
    BY <1>2, <2>3, <2>4, FS_Subset
  <2> QED
    BY <2>3, <2>5
<1>3. i \in Nat /\ j \in Nat
  OBVIOUS
<1> QED
  BY <1>2, <1>3

(* Without keeps the items that are not taken out, each of them once.      *)
LEMMA WithoutItems ==
    ASSUME NEW q \in Seq(Session), NEW I,
           \A i, j \in DOMAIN q : q[i] = q[j] => i = j
    PROVE  LET w == Without(q, I) IN
           /\ \A i, j \in DOMAIN w : w[i] = w[j] => i = j
           /\ \A s : (\E i \in DOMAIN w : w[i] = s) <=> \E i \in DOMAIN q \ I : q[i] = s
<1> DEFINE K == DOMAIN q \ I
           n == Cardinality(K)
           w == Without(q, I)
<1>1. Len(q) \in Nat /\ DOMAIN q = 1..Len(q) /\ K \in SUBSET (1..Len(q))
  OBVIOUS
<1>2. IsFiniteSet(K) /\ n \in Nat
  <2>1. IsFiniteSet(1..Len(q))
    BY <1>1, FS_Interval
  <2>2. IsFiniteSet(K)
    BY <1>1, <2>1, FS_Subset
  <2> QED
    BY <2>2, FS_CardinalityType
<1>3. DOMAIN w = 1..n /\ \A k \in 1..n : w[k] = q[KthOf(K, k)]
  BY DEF Without
<1> DEFINE count(y) == Cardinality({x \in K : x <= y})
<1>4. \A k \in 1..n : KthOf(K, k) \in K /\ count(KthOf(K, k)) = k
  BY <1>1, KthExists
<1>5. \A i, j \in K : count(i) = count(j) => i = j
  BY <1>1, CountTellsApart
<1>6. \A i \in K : count(i) \in 1..n
  <2> SUFFICES ASSUME NEW i \in K PROVE count(i) \in 1..n
    OBVIOUS
  <2> DEFINE below == {x \in K : x <= i}
  <2>1. below \in SUBSET K /\ i \in below
    <3>1. i \in Nat /\ i <= i
      BY <1>1
    <3> QED
      BY <3>1
  <2>2. IsFiniteSet(below) /\ Cardinality(below) <= n
    BY <1>2, <2>1, FS_Subset
  <2>3. Cardinality(below) \in Nat /\ Cardinality(below) # 0
    BY <2>1, <2>2, FS_CardinalityType, FS_EmptySet
  <2> QED
    BY <1>2, <2>2, <2>3
<1>7. \A i, j \in DOMAIN q : q[i] = q[j] => i = j
  OBVIOUS
<1>8. K \subseteq DOMAIN q
  OBVIOUS
<1> HIDE DEF w, K, n, count
<1>9. ASSUME NEW i \in DOMAIN w, NEW j \in DOMAIN w, w[i] = w[j] PROVE i = j
  <2>1. KthOf(K, i) = KthOf(K, j)
    BY <1>3, <1>4, <1>7, <1>8, <1>9
  <2> QED
    BY <1>3, <1>4, <2>1
<1>10. ASSUME NEW i \in K PROVE \E k \in DOMAIN w : w[k] = q[i]
  <2>1. count(i) \in 1..n
    BY <1>6
  <2>2. KthOf(K, count(i)) = i
    BY <1>4, <1>5, <2>1
  <2> QED
    BY <1>3, <2>1, <2>2
<1>11. \A s : (\E i \in DOMAIN w : w[i] = s) <=> \E i \in K : q[i] = s
  BY <1>3, <1>4, <1>10
<1> QED
  BY <1>9, <1>11 DEF w, K

-----------------------------------------------------------------------------
(* Steps.                                                                  *)

(* What OInv says of one Session.                                          *)
LEMMA RecordFacts ==
    ASSUME OInv, NEW s \in Session
    PROVE  /\ rt \in [Session -> Runtime] /\ rt[s] \in Runtime
           /\ Owned(rt[s]) /\ Good(rt[s], mode)
           /\ rt[s].gen \in Nat
<1>1. rt \in [Session -> Runtime] /\ rt[s] \in Runtime /\ Owned(rt[s]) /\ Good(rt[s], mode)
  BY SessionFacts DEF OInv, IInv, TypeOK
<1>2. rt[s].gen \in Nat
  BY <1>1 DEF Runtime, Generation
<1> QED
  BY <1>1, <1>2

(* What OInv says of one start task.                                       *)
LEMMA TaskFacts ==
    ASSUME OInv, NEW t \in starts
    PROVE  /\ t \in StartTask /\ t.sess \in Session
           /\ t.gen \in Nat /\ t.gen # 0 /\ t.gen <= rt[t.sess].gen
           /\ t.at # "source" => t.gen = rt[t.sess].gen /\ Held(rt[t.sess])
           /\ \A x \in starts : x.sess = t.sess /\ x.gen = t.gen => x = t
<1>1. t \in StartTask /\ t.sess \in Session /\ t.gen \in Nat
  BY DEF OInv, IInv, TypeOK, StartTask, Generation
<1>2. t.gen # 0 /\ t.gen <= rt[t.sess].gen
  BY DEF OInv, IInv, StartBound
<1>3. t.at # "source" => t.gen = rt[t.sess].gen /\ Held(rt[t.sess])
  BY DEF OInv, IInv, StartOwnsGeneration, Held
<1>4. \A x \in starts : x.sess = t.sess /\ x.gen = t.gen => x = t
  BY DEF OInv, StartsGood
<1> QED
  BY <1>1, <1>2, <1>3, <1>4

(* A step that passes leaves a closing pool in order.                      *)
LEMMA ClosingPasses ==
    ASSUME OInv, UNCHANGED <<closing, mode>>, starts' \subseteq starts,
           \A s \in Session : Passes(rt[s], rt'[s]),
           mode # "open" => queue' = <<>>
    PROVE  ClosingGood'
<1> SUFFICES ASSUME mode # "open", NEW s \in Session
             PROVE  \/ rt'[s].died
                    \/ rt'[s].cleanup
                    \/ Vacant(rt'[s]) /\ ~Launching(s)'
                    \/ /\ mode = "closing"
                       /\ rt'[s].finGen # 0 /\ <<s, rt'[s].finGen>> \in closing
  BY DEF ClosingGood
<1> DEFINE r == rt[s]
           n == rt'[s]
<1>1. Launching(s)' => Launching(s)
  BY DEF Launching
<1>2. Launching(s) => r.fin \notin {"hooks", "kept"} /\ ~r.cleanup
  <2> SUFFICES ASSUME NEW t \in starts, t.sess = s, t.at = "launching"
               PROVE  r.fin \notin {"hooks", "kept"} /\ ~r.cleanup
    BY DEF Launching
  <2>1. t.gen = rt[s].gen /\ Held(rt[s])
    BY TaskFacts
  <2>2. Unlaunched(rt[s])
    BY <2>1 DEF OInv, StartsGood
  <2> QED
    BY <2>1, <2>2 DEF Held, Unlaunched
<1>3. Passes(r, n)
  OBVIOUS
<1>4. \/ r.died
      \/ r.cleanup
      \/ Vacant(r) /\ ~Launching(s)
      \/ mode = "closing" /\ r.finGen # 0 /\ <<s, r.finGen>> \in closing
  BY DEF OInv, ClosingGood
<1> HIDE DEF r, n
<1>5. CASE r.died
  BY <1>3, <1>5 DEF Passes, n
<1>6. CASE r.cleanup
  BY <1>1, <1>2, <1>3, <1>6 DEF Passes, n
<1>7. CASE Vacant(r) /\ ~Launching(s)
  BY <1>1, <1>3, <1>7 DEF Passes, n
<1>8. CASE mode = "closing" /\ r.finGen # 0 /\ <<s, r.finGen>> \in closing
  BY <1>1, <1>2, <1>3, <1>8 DEF Passes, n
<1> QED
  BY <1>4, <1>5, <1>6, <1>7, <1>8

(* The source of a Session stays over while generations stay.              *)
LEMMA SourcePasses ==
    ASSUME OInv, IInv', NEW s \in Session, rt[s].src # None,
           NEW A \in SUBSET Session,
           \A x \in Session \ A : Passes(rt[x], rt'[x]),
           \A x \in A : rt'[x].gen = rt[x].gen + 1
    PROVE  SourceOver(rt[s].src, rt')
<1> DEFINE p == rt[s].src
<1>1. p \in Session \X Generation
  BY RecordFacts DEF Runtime, Source
<1>2. p[1] \in Session /\ p[2] \in Nat /\ rt[p[1]].gen \in Nat
  BY <1>1, RecordFacts DEF Generation
<1>3. SourceOver(p, rt)
  BY DEF OInv, SourcesGood
<1> SUFFICES SourceOver(p, rt')
  OBVIOUS
<1> HIDE DEF p
<1>4. CASE p[1] \in A
  <2>1. rt'[p[1]].gen = rt[p[1]].gen + 1
    BY <1>4
  <2>2. p[2] <= rt[p[1]].gen
    BY <1>3 DEF SourceOver
  <2>3. p[2] <= rt'[p[1]].gen /\ rt'[p[1]].gen # p[2]
    BY <1>2, <2>1, <2>2
  <2> QED
    BY <2>3 DEF SourceOver
<1>5. CASE p[1] \notin A
  <2>1. Passes(rt[p[1]], rt'[p[1]])
    BY <1>2, <1>5
  <2> QED
    BY <1>3, <2>1 DEF SourceOver, Passes
<1> QED
  BY <1>4, <1>5

(* A step within the generations of all Sessions keeps what is said of     *)
(* start tasks and sources.                                                *)
LEMMA PassKeeps ==
    ASSUME OInv, IInv', starts' \subseteq starts,
           \A s \in Session : Passes(rt[s], rt'[s])
    PROVE  StartsGood' /\ SourcesGood' /\ Advances
<1>1. StartsGood'
  <2> SUFFICES ASSUME NEW t \in starts'
               PROVE  /\ \A x \in starts' : x.sess = t.sess /\ x.gen = t.gen => x = t
                      /\ t.gen = rt'[t.sess].gen =>
                           /\ t.at # "ready" => Unlaunched(rt'[t.sess]) /\ ~rt'[t.sess].died
                           /\ t.at # "source" => rt'[t.sess].src = None
                           /\ Rising(rt'[t.sess]) /\ t.turn =>
                                rt'[t.sess].turn /\ ~rt'[t.sess].waiter
    BY DEF StartsGood
  <2>1. t \in starts /\ t.sess \in Session
    BY TaskFacts
  <2>2. Passes(rt[t.sess], rt'[t.sess])
    BY <2>1
  <2>3. \A x \in starts' : x.sess = t.sess /\ x.gen = t.gen => x = t
    BY <2>1, TaskFacts
  <2>4. t.gen = rt[t.sess].gen =>
           /\ t.at # "ready" => Unlaunched(rt[t.sess]) /\ ~rt[t.sess].died
           /\ t.at # "source" => rt[t.sess].src = None
           /\ Rising(rt[t.sess]) /\ t.turn => rt[t.sess].turn /\ ~rt[t.sess].waiter
    BY <2>1 DEF OInv, StartsGood
  <2> QED
    BY <2>2, <2>3, <2>4 DEF Passes
<1>2. SourcesGood'
  <2> SUFFICES ASSUME NEW s \in Session, rt'[s].src # None
               PROVE  /\ SourceOver(rt'[s].src, rt')
                      /\ \A x \in Session : rt'[x].src = rt'[s].src => x = s
    BY DEF SourcesGood
  <2>1. \A x \in Session : rt'[x].src \in {rt[x].src, None}
    BY DEF Passes
  <2>2. rt'[s].src = rt[s].src /\ rt[s].src # None
    BY <2>1
  <2>3. SourceOver(rt[s].src, rt')
    <3>1. {} \in SUBSET Session /\ Session \ {} = Session
      OBVIOUS
    <3> QED
      BY <2>2, <3>1, SourcePasses
  <2>4. \A x \in Session : rt[x].src = rt[s].src => x = s
    BY <2>2 DEF OInv, SourcesGood
  <2> QED
    BY <2>1, <2>2, <2>3, <2>4
<1>3. Advances
  BY DEF Advances, FromRest, Passing, Passes
<1> QED
  BY <1>1, <1>2, <1>3

(* The same, while the pool stays open or goes on closing.                 *)
LEMMA PassStep ==
    ASSUME OInv, IInv', UNCHANGED <<closing, mode>>, starts' \subseteq starts,
           \A s \in Session : Good(rt'[s], mode) /\ Passes(rt[s], rt'[s]),
           \A t \in starts \ starts' :
              mode = "open" /\ t.gen = rt[t.sess].gen => ~Rising(rt'[t.sess]),
           QueueGood', mode # "open" => queue' = <<>>
    PROVE  OInv' /\ Advances
<1>1. StartsGood' /\ SourcesGood' /\ Advances
  BY PassKeeps
<1>2. TurnStarts'
  <2> SUFFICES ASSUME "slow" \notin Env, mode = "open", NEW s \in Session,
                      Rising(rt'[s]), rt'[s].turn, ~rt'[s].waiter
               PROVE  \E t \in starts' : t.sess = s /\ t.gen = rt'[s].gen /\ t.turn
    BY DEF TurnStarts
  <2>1. Rising(rt[s]) /\ rt[s].turn /\ ~rt[s].waiter /\ rt'[s].gen = rt[s].gen
    BY DEF Passes
  <2>2. PICK t \in starts : t.sess = s /\ t.gen = rt[s].gen /\ t.turn
    BY <2>1 DEF OInv, TurnStarts
  <2>3. t \in starts'
    BY <2>2
  <2> QED
    BY <2>1, <2>2, <2>3
<1>3. ClosingGood'
  BY ClosingPasses
<1>4. \A s \in Session : Good(rt'[s], mode')
  OBVIOUS
<1> QED
  BY <1>1, <1>2, <1>3, <1>4 DEF OInv

(* A step that changes Sessions within their generations and the queue not.*)
LEMMA FollowStep ==
    ASSUME OInv, IInv', UNCHANGED <<queue, closing, mode>>, starts' \subseteq starts,
           \A s \in Session : Good(rt'[s], mode) /\ Follows(rt[s], rt'[s]),
           \A t \in starts \ starts' :
              mode = "open" /\ t.gen = rt[t.sess].gen => ~Rising(rt'[t.sess])
    PROVE  OInv' /\ Advances
<1>1. QueueGood'
  <2>1. QueueGood
    BY DEF OInv
  <2>2. \A s \in Session : rt'[s].status = "queued" <=> rt[s].status = "queued"
    BY DEF Follows
  <2> QED
    BY <2>1, <2>2 DEF QueueGood
<1>2. mode # "open" => queue' = <<>>
  BY DEF OInv, ClosingGood
<1>3. \A s \in Session : Good(rt'[s], mode) /\ Passes(rt[s], rt'[s])
  BY DEF Follows
<1> QED
  BY <1>1, <1>2, <1>3, PassStep

(* A Session that a step leaves alone.                                     *)
LEMMA Stays ==
    ASSUME OInv, NEW s \in Session
    PROVE  Good(rt[s], mode) /\ Follows(rt[s], rt[s])
<1>1. Good(rt[s], mode)
  BY RecordFacts
<1>2. Passes(rt[s], rt[s])
  BY DEF Passes
<1> QED
  BY <1>1, <1>2 DEF Follows

(* A step that changes one Session to n within its generation.             *)
LEMMA OneFollows ==
    ASSUME OInv, IInv', NEW s \in Session, NEW n,
           rt' = [rt EXCEPT ![s] = n],
           UNCHANGED <<queue, closing, mode>>, starts' \subseteq starts,
           Good(n, mode), Follows(rt[s], n),
           \A t \in starts \ starts' :
              t.sess = s /\ (mode = "open" /\ t.gen = rt[s].gen => ~Rising(n))
    PROVE  OInv' /\ Advances
<1>1. rt'[s] = n /\ \A x \in Session \ {s} : rt'[x] = rt[x]
  BY RecordFacts
<1>2. ASSUME NEW x \in Session PROVE Good(rt'[x], mode) /\ Follows(rt[x], rt'[x])
  <2>1. CASE x = s
    BY <1>1, <2>1
  <2>2. CASE x # s
    <3>1. rt'[x] = rt[x]
      BY <1>1, <2>2
    <3> QED
      BY <3>1, Stays
  <2> QED
    BY <2>1, <2>2
<1>3. \A t \in starts \ starts' : mode = "open" /\ t.gen = rt[t.sess].gen => ~Rising(rt'[t.sess])
  BY <1>1
<1> QED
  BY <1>2, <1>3, FollowStep

(* The finalization of one Session is begun, for g or not at all.          *)
LEMMA ClaimFollows ==
    ASSUME OInv, IInv', NEW s \in Session, NEW g, NEW final,
           rt[s].status # "queued" \/ rt[s].gen # g,
           rt' = [rt EXCEPT ![s] = Begin(rt[s], g, final)],
           UNCHANGED <<queue, closing, mode>>, starts' \subseteq starts,
           \A t \in starts \ starts' :
              t.sess = s /\ (mode = "open" /\ t.gen = rt[s].gen => ~Rising(Begin(rt[s], g, final)))
    PROVE  OInv' /\ Advances
<1>1. rt[s] \in Runtime /\ Owned(rt[s]) /\ Good(rt[s], mode)
  BY RecordFacts
<1> DEFINE n == Begin(rt[s], g, final)
<1>2. Good(n, mode) /\ Follows(rt[s], n)
  BY <1>1, BeginFollows
<1> HIDE DEF n
<1> QED
  BY <1>2, OneFollows DEF n

(* What a Session looks like in whose generation nothing has happened yet. *)
Begins(r, n) ==
    /\ Resting(r) /\ ~r.cleanup
    /\ n.status = "starting" /\ n.gen = r.gen + 1
    /\ Unlaunched(n) /\ ~n.died /\ ~n.waiter

(* The start tasks N of the generations that the Sessions of A begin.      *)
TasksOf(A, N) ==
    /\ starts' = starts \cup N
    /\ \A s \in A : rt'[s].turn => \E t \in N : t.sess = s /\ t.turn
    /\ \A t \in N : /\ t.sess \in A /\ t.gen = rt'[t.sess].gen /\ t.at = "source"
                    /\ t.turn => rt'[t.sess].turn
                    /\ \A x \in N : x.sess = t.sess => x = t

(* New targets wait for nobody, or the only one for the Runtime v that was *)
(* idle and is claimed.                                                    *)
SourcesOf(A) ==
    \/ \A s \in A : rt'[s].src = None
    \/ \E s \in Session, v \in Session :
         /\ A = {s} /\ v # s /\ rt'[s].src = <<v, rt[v].gen>>
         /\ GenuinelyIdle(rt[v])
         /\ rt'[v].status = "stopping" /\ ~rt'[v].died

(* The starts of the generations that begin in a step, N, are as new as    *)
(* these are.                                                              *)
LEMMA StartsBegin ==
    ASSUME OInv, IInv', mode' = mode, NEW A \in SUBSET Session, NEW N,
           \A s \in Session \ A : Passes(rt[s], rt'[s]),
           \A s \in A : Begins(rt[s], rt'[s]),
           TasksOf(A, N)
    PROVE  StartsGood' /\ TurnStarts'
<1> USE DEF TasksOf
<1>1. ASSUME NEW t \in starts, t.sess \in A PROVE t.gen # rt'[t.sess].gen
  <2>1. t.gen \in Nat /\ rt[t.sess].gen \in Nat /\ t.gen <= rt[t.sess].gen
    BY <1>1, TaskFacts, RecordFacts
  <2>2. rt'[t.sess].gen = rt[t.sess].gen + 1
    BY <1>1 DEF Begins
  <2> QED
    BY <2>1, <2>2
<1>2. StartsGood'
  <2> SUFFICES ASSUME NEW t \in starts'
               PROVE  /\ \A x \in starts' : x.sess = t.sess /\ x.gen = t.gen => x = t
                      /\ t.gen = rt'[t.sess].gen =>
                           /\ t.at # "ready" => Unlaunched(rt'[t.sess]) /\ ~rt'[t.sess].died
                           /\ t.at # "source" => rt'[t.sess].src = None
                           /\ Rising(rt'[t.sess]) /\ t.turn =>
                                rt'[t.sess].turn /\ ~rt'[t.sess].waiter
    BY DEF StartsGood
  <2>1. CASE t \in N
    <3>1. \A x \in starts' : x.sess = t.sess /\ x.gen = t.gen => x \in N
      BY <1>1, <2>1
    <3>2. Unlaunched(rt'[t.sess]) /\ ~rt'[t.sess].died /\ ~rt'[t.sess].waiter
      BY <2>1 DEF Begins
    <3> QED
      BY <2>1, <3>1, <3>2
  <2>2. CASE t \in starts /\ t.sess \in A
    <3>1. t.gen # rt'[t.sess].gen
      BY <1>1, <2>2
    <3>2. \A x \in N : x.sess = t.sess => x.gen # t.gen
      BY <3>1
    <3>3. \A x \in starts : x.sess = t.sess /\ x.gen = t.gen => x = t
      BY <2>2, TaskFacts
    <3> QED
      BY <3>1, <3>2, <3>3
  <2>3. CASE t \in starts /\ t.sess \notin A
    <3>1. t.sess \in Session \ A
      BY <2>3, TaskFacts
    <3>2. Passes(rt[t.sess], rt'[t.sess])
      BY <3>1
    <3>3. \A x \in N : x.sess # t.sess
      BY <2>3
    <3>4. \A x \in starts : x.sess = t.sess /\ x.gen = t.gen => x = t
      BY <2>3, TaskFacts
    <3>5. t.gen = rt[t.sess].gen =>
             /\ t.at # "ready" => Unlaunched(rt[t.sess]) /\ ~rt[t.sess].died
             /\ t.at # "source" => rt[t.sess].src = None
             /\ Rising(rt[t.sess]) /\ t.turn => rt[t.sess].turn /\ ~rt[t.sess].waiter
      BY <2>3 DEF OInv, StartsGood
    <3>6. t.gen = rt'[t.sess].gen =>
             /\ t.at # "ready" => Unlaunched(rt'[t.sess]) /\ ~rt'[t.sess].died
             /\ t.at # "source" => rt'[t.sess].src = None
             /\ Rising(rt'[t.sess]) /\ t.turn => rt'[t.sess].turn /\ ~rt'[t.sess].waiter
      BY <3>2, <3>5 DEF Passes
    <3> QED
      BY <3>3, <3>4, <3>6
  <2> QED
    BY <2>1, <2>2, <2>3
<1>3. TurnStarts'
  <2> SUFFICES ASSUME "slow" \notin Env, mode = "open", NEW s \in Session,
                      Rising(rt'[s]), rt'[s].turn, ~rt'[s].waiter
               PROVE  \E t \in starts' : t.sess = s /\ t.gen = rt'[s].gen /\ t.turn
    BY DEF TurnStarts
  <2>1. CASE s \in A
    BY <2>1
  <2>2. CASE s \notin A
    <3>1. Passes(rt[s], rt'[s])
      BY <2>2
    <3>2. Rising(rt[s]) /\ rt[s].turn /\ ~rt[s].waiter /\ rt'[s].gen = rt[s].gen
      BY <3>1 DEF Passes
    <3>3. PICK t \in starts : t.sess = s /\ t.gen = rt[s].gen /\ t.turn
      BY <3>2 DEF OInv, TurnStarts
    <3> QED
      BY <3>2, <3>3
  <2> QED
    BY <2>1, <2>2
<1> QED
  BY <1>2, <1>3

(* The slot of an idle Runtime was promised to nobody.                     *)
LEMMA IdleUnpromised ==
    ASSUME OInv, NEW v \in Session, GenuinelyIdle(rt[v])
    PROVE  /\ rt[v].src = None /\ ~rt[v].died
           /\ \A x \in Session : rt[x].src # <<v, rt[v].gen>>
<1>1. Good(rt[v], mode) /\ rt[v].status = "idle" /\ rt[v].proc = "live"
  BY RecordFacts DEF GenuinelyIdle, Live
<1>2. rt[v].src = None /\ ~rt[v].died
  BY <1>1 DEF Good, Unlaunched
<1>3. ASSUME NEW x \in Session, rt[x].src = <<v, rt[v].gen>> PROVE FALSE
  <2>1. <<v, rt[v].gen>> \in Session \X (0..MaxGen)
    BY RecordFacts DEF Runtime, Generation
  <2>2. rt[x].src # None
    BY <1>3, <2>1, PoolAssumption
  <2>3. SourceOver(<<v, rt[v].gen>>, rt)
    BY <1>3, <2>2 DEF OInv, SourcesGood
  <2> QED
    BY <1>1, <2>3 DEF SourceOver, Over, Resting
<1> QED
  BY <1>2, <1>3

(* No slot is promised twice.                                              *)
LEMMA SourcesBegin ==
    ASSUME OInv, IInv', NEW A \in SUBSET Session,
           \A s \in Session \ A : Passes(rt[s], rt'[s]),
           \A s \in A : Begins(rt[s], rt'[s]),
           SourcesOf(A)
    PROVE  SourcesGood'
<1> SUFFICES ASSUME NEW s \in Session, rt'[s].src # None
             PROVE  /\ SourceOver(rt'[s].src, rt')
                    /\ \A x \in Session : rt'[x].src = rt'[s].src => x = s
  BY DEF SourcesGood
<1>1. \A x \in Session \ A : rt'[x].src \in {rt[x].src, None}
  BY DEF Passes
<1>2. \A x \in A : rt'[x].gen = rt[x].gen + 1
  BY DEF Begins
<1>3. ASSUME NEW x \in Session \ A, rt'[x].src # None
      PROVE  /\ rt'[x].src = rt[x].src /\ rt[x].src # None
             /\ SourceOver(rt'[x].src, rt')
  <2>1. rt'[x].src = rt[x].src /\ rt[x].src # None
    BY <1>1, <1>3
  <2>2. SourceOver(rt[x].src, rt')
    BY <1>2, <2>1, SourcePasses
  <2> QED
    BY <2>1, <2>2
<1>4. ASSUME NEW x \in Session \ A, NEW y \in Session \ A,
             rt'[x].src # None, rt'[x].src = rt'[y].src
      PROVE  x = y
  <2>1. rt[x].src = rt[y].src /\ rt[x].src # None
    BY <1>3, <1>4
  <2> QED
    BY <2>1 DEF OInv, SourcesGood
<1>5. CASE \A x \in A : rt'[x].src = None
  <2>1. \A x \in Session : rt'[x].src = rt'[s].src => x \in Session \ A
    BY <1>5
  <2>2. s \in Session \ A
    BY <1>5
  <2> QED
    BY <1>3, <1>4, <2>1, <2>2
<1>6. ASSUME NEW a \in Session, NEW v \in Session,
             A = {a}, v # a, rt'[a].src = <<v, rt[v].gen>>, GenuinelyIdle(rt[v]),
             rt'[v].status = "stopping", ~rt'[v].died
      PROVE  /\ SourceOver(rt'[s].src, rt')
             /\ \A x \in Session : rt'[x].src = rt'[s].src => x = s
  <2>1. rt[v].src = None /\ \A x \in Session : rt[x].src # <<v, rt[v].gen>>
    BY <1>6, IdleUnpromised
  <2>2. \A x \in Session \ A : rt'[x].src # None => rt'[x].src # rt'[a].src
    BY <1>3, <1>6, <2>1
  <2>3. Passes(rt[v], rt'[v])
    BY <1>6
  <2>4. rt'[v].gen = rt[v].gen /\ rt'[v].src = None
    BY <2>1, <2>3 DEF Passes
  <2>5. SourceOver(rt'[a].src, rt')
    <3>1. rt[v].gen \in Nat
      BY RecordFacts
    <3> QED
      BY <1>6, <2>4, <3>1 DEF SourceOver, Over
  <2>6. CASE s = a
    <3>1. \A x \in Session : rt'[x].src = rt'[s].src => x = s
      BY <1>6, <2>2, <2>6
    <3> QED
      BY <2>5, <2>6, <3>1
  <2>7. CASE s # a
    <3>1. s \in Session \ A
      BY <1>6, <2>7
    <3>2. \A x \in Session : rt'[x].src = rt'[s].src => x \in Session \ A
      BY <1>6, <2>2, <3>1
    <3> QED
      BY <1>3, <1>4, <3>1, <3>2
  <2> QED
    BY <2>6, <2>7
<1> QED
  BY <1>5, <1>6 DEF SourcesOf

(* A step in which the Sessions of A begin their next generation.          *)
LEMMA BeginningStep ==
    ASSUME OInv, IInv', mode' = mode, NEW A \in SUBSET Session, NEW N,
           mode = "open" \/ A = {}, closing' = closing,
           \A s \in Session \ A : Passes(rt[s], rt'[s]),
           \A s \in A : Begins(rt[s], rt'[s]),
           \A s \in Session : Good(rt'[s], mode),
           TasksOf(A, N),
           SourcesOf(A),
           QueueGood', mode # "open" => queue' = <<>>
    PROVE  OInv' /\ FromRest
<1>1. StartsGood' /\ TurnStarts'
  BY StartsBegin
<1>2. SourcesGood'
  BY SourcesBegin
<1>3. ClosingGood'
  <2>1. CASE mode = "open"
    BY <2>1 DEF ClosingGood
  <2>2. CASE mode # "open"
    <3>1. A = {} /\ N = {}
      BY <2>2 DEF TasksOf
    <3>2. \A s \in Session : Passes(rt[s], rt'[s])
      BY <3>1
    <3>3. starts' \subseteq starts /\ UNCHANGED <<closing, mode>>
      BY <3>1 DEF TasksOf
    <3> QED
      BY <3>2, <3>3, ClosingPasses
  <2> QED
    BY <2>1, <2>2
<1>4. FromRest
  BY DEF FromRest, Passes, Begins
<1>5. \A s \in Session : Good(rt'[s], mode')
  OBVIOUS
<1> QED
  BY <1>1, <1>2, <1>3, <1>4, <1>5 DEF OInv

(* What a Session that was at rest is after it has been prepared.          *)
LEMMA PreparedBegins ==
    ASSUME OInv, NEW s \in Session, Resting(rt[s]), ~rt[s].cleanup,
           NEW src, NEW turn
    PROVE  LET n == Prepared(rt[s], src, turn) IN
           /\ Good(n, mode) /\ Begins(rt[s], n)
           /\ n.src = src /\ n.turn = turn /\ n.gen = rt[s].gen + 1
           /\ n.status = "starting"
<1>1. rt[s] \in Runtime /\ Owned(rt[s]) /\ Good(rt[s], mode)
  BY RecordFacts
<1> DEFINE n == Prepared(rt[s], src, turn)
<1>2. /\ Good(n, mode)
      /\ n.status = "starting" /\ n.gen = rt[s].gen + 1 /\ n.src = src
      /\ n.turn = turn /\ ~n.waiter /\ Unlaunched(n) /\ ~n.died
  BY <1>1, PreparedGood
<1> HIDE DEF n
<1>3. Begins(rt[s], n)
  BY <1>2 DEF Begins
<1> QED
  BY <1>2, <1>3 DEF n

(* The same for a start that carries a Turn.                               *)
LEMMA TurnBegins ==
    ASSUME OInv, NEW s \in Session, Resting(rt[s]), ~rt[s].cleanup, NEW src
    PROVE  LET n == Prepared(rt[s], src, TRUE) IN
           /\ Good(n, mode) /\ Begins(rt[s], n)
           /\ n.src = src /\ n.turn = TRUE /\ n.gen = rt[s].gen + 1
           /\ n.status = "starting"
<1> DEFINE turn == TRUE
<1> HIDE DEF turn
<1>1. LET n == Prepared(rt[s], src, turn) IN
      /\ Good(n, mode) /\ Begins(rt[s], n)
      /\ n.src = src /\ n.turn = turn /\ n.gen = rt[s].gen + 1
      /\ n.status = "starting"
  BY PreparedBegins
<1> QED
  BY <1>1 DEF turn

(* The queue is untouched while nobody enters or leaves it.                *)
LEMMA SameQueue ==
    ASSUME OInv, queue' = queue,
           \A s \in Session : rt'[s].status = "queued" <=> rt[s].status = "queued"
    PROVE  QueueGood'
BY DEF OInv, QueueGood

(* A start in a free slot.                                                 *)
LEMMA FreeBegins ==
    ASSUME OInv, IInv', mode = "open", NEW s \in Session, NEW turn \in BOOLEAN,
           rt[s].status \in {"stopped", "error"}, AdmitFree(s, turn),
           UNCHANGED <<queue, closing, mode>>
    PROVE  OInv' /\ FromRest
<1> DEFINE n == Prepared(rt[s], None, turn)
           t == StartTaskFor(s, None, turn)
<1>1. Resting(rt[s]) /\ ~rt[s].cleanup
  BY DEF Resting, AdmitFree, CanPrepare
<1>2. /\ Good(n, mode) /\ Begins(rt[s], n)
      /\ n.src = None /\ n.turn = turn /\ n.gen = rt[s].gen + 1 /\ n.status = "starting"
  BY <1>1, PreparedBegins
<1>3. rt' = [rt EXCEPT ![s] = n] /\ starts' = starts \cup {t}
  BY RecordFacts DEF AdmitFree
<1>4. t.sess = s /\ t.gen = rt[s].gen + 1 /\ t.turn = turn /\ t.at = "source"
  BY DEF StartTaskFor
<1> HIDE DEF n, t
<1>5. rt'[s] = n /\ \A x \in Session \ {s} : rt'[x] = rt[x]
  BY <1>3, RecordFacts
<1>6. \A x \in Session \ {s} : Passes(rt[x], rt'[x]) /\ Good(rt'[x], mode)
  BY <1>5, Stays DEF Follows
<1>7. QueueGood'
  BY <1>2, <1>5, SameQueue
<1>8. {s} \in SUBSET Session
  OBVIOUS
<1>9. \A x \in Session : Good(rt'[x], mode)
  BY <1>2, <1>5, <1>6
<1>10. \A x \in {s} : Begins(rt[x], rt'[x])
  BY <1>2, <1>5
<1>11. SourcesOf({s})
  BY <1>2, <1>5 DEF SourcesOf
<1>12. TasksOf({s}, {t})
  BY <1>2, <1>3, <1>4, <1>5 DEF TasksOf
<1> QED
  BY <1>6, <1>7, <1>8, <1>9, <1>10, <1>11, <1>12, BeginningStep

(* A start in the slot of the idle Runtime v, which is claimed.            *)
LEMMA HandoffBegins ==
    ASSUME OInv, IInv', mode = "open",
           NEW s \in Session, NEW v \in Session, NEW turn \in BOOLEAN,
           Resting(rt[s]), ~rt[s].cleanup, GenuinelyIdle(rt[v]),
           rt' = [rt EXCEPT ![v] = Begin(rt[v], rt[v].gen, "stopped"),
                            ![s] = Prepared(@, <<v, rt[v].gen>>, turn)],
           starts' = starts \cup {StartTaskFor(s, <<v, rt[v].gen>>, turn)},
           UNCHANGED <<closing, mode>>, QueueGood'
    PROVE  OInv' /\ FromRest
<1> DEFINE src == <<v, rt[v].gen>>
           n == Prepared(rt[s], src, turn)
           b == Begin(rt[v], rt[v].gen, "stopped")
           t == StartTaskFor(s, src, turn)
<1>1. v # s
  BY DEF Resting, GenuinelyIdle
<1>2. /\ Good(n, mode) /\ Begins(rt[s], n)
      /\ n.src = src /\ n.turn = turn /\ n.gen = rt[s].gen + 1 /\ n.status = "starting"
  BY PreparedBegins
<1>3. rt[v] \in Runtime /\ Owned(rt[v]) /\ Good(rt[v], mode) /\ rt[v].status = "idle"
  BY RecordFacts DEF GenuinelyIdle
<1>4. Good(b, mode) /\ Follows(rt[v], b)
  BY <1>3, BeginFollows
<1>5. b.status = "stopping" /\ ~b.died
  <2>1. rt[v].finGen = 0 /\ ~rt[v].died
    BY <1>3, IdleUnpromised DEF Owned
  <2>2. Claimable(rt[v], rt[v].gen)
    BY <1>3, <2>1 DEF Claimable
  <2> QED
    BY <1>3, <2>1, <2>2 DEF Begin, Runtime
<1>6. t.sess = s /\ t.gen = rt[s].gen + 1 /\ t.turn = turn /\ t.at = "source"
  BY DEF StartTaskFor
<1>7. starts' = starts \cup {t}
  OBVIOUS
<1>8. rt'[s] = n /\ rt'[v] = b /\ \A x \in Session \ {s, v} : rt'[x] = rt[x]
  BY <1>1, RecordFacts
<1> HIDE DEF n, b, t
<1>9. \A x \in Session \ {s} : Passes(rt[x], rt'[x]) /\ Good(rt'[x], mode)
  BY <1>4, <1>8, Stays DEF Follows
<1>10. {s} \in SUBSET Session
  OBVIOUS
<1>11. \A x \in Session : Good(rt'[x], mode)
  BY <1>2, <1>8, <1>9
<1>12. \A x \in {s} : Begins(rt[x], rt'[x])
  BY <1>2, <1>8
<1>13. TasksOf({s}, {t})
  BY <1>2, <1>6, <1>7, <1>8 DEF TasksOf
<1>14. SourcesOf({s})
  <2>1. /\ {s} = {s} /\ v # s /\ rt'[s].src = <<v, rt[v].gen>>
        /\ GenuinelyIdle(rt[v]) /\ rt'[v].status = "stopping" /\ ~rt'[v].died
    BY <1>1, <1>2, <1>5, <1>8
  <2> QED
    BY <2>1 DEF SourcesOf
<1>15. mode # "open" => queue' = <<>>
  OBVIOUS
<1> QED
  BY <1>9, <1>10, <1>11, <1>12, <1>13, <1>14, <1>15, BeginningStep

(* An admission, into a free slot or into the slot of an idle Runtime.     *)
LEMMA AdmissionBegins ==
    ASSUME OInv, IInv', mode = "open", NEW s \in Session, NEW turn \in BOOLEAN,
           rt[s].status \in {"stopped", "error"},
           AdmitFree(s, turn) \/ AdmitEvicting(s, turn),
           UNCHANGED <<queue, closing, mode>>
    PROVE  OInv' /\ FromRest
<1>1. CASE AdmitFree(s, turn)
  BY <1>1, FreeBegins
<1>2. CASE AdmitEvicting(s, turn)
  <2>1. PICK v \in Evictable(rt, s) :
           /\ rt' = [rt EXCEPT ![v] = Begin(@, @.gen, "stopped"),
                               ![s] = Prepared(@, <<v, rt[v].gen>>, turn)]
           /\ starts' = starts \cup {StartTaskFor(s, <<v, rt[v].gen>>, turn)}
    BY <1>2 DEF AdmitEvicting
  <2>2. v \in Session /\ GenuinelyIdle(rt[v]) /\ Resting(rt[s]) /\ ~rt[s].cleanup
    BY <1>2 DEF AdmitEvicting, CanPrepare, Evictable, Resting
  <2>3. rt' = [rt EXCEPT ![v] = Begin(rt[v], rt[v].gen, "stopped"),
                         ![s] = Prepared(@, <<v, rt[v].gen>>, turn)]
    BY <2>1, <2>2, RecordFacts
  <2>4. QueueGood'
    <3>3. v # s
      BY <2>2 DEF GenuinelyIdle
    <3>8. rt'[s] = Prepared(rt[s], <<v, rt[v].gen>>, turn)
      BY <2>2, <2>3, <3>3, RecordFacts
    <3>1. rt'[s].status = "starting"
      BY <2>2, <3>8, PreparedBegins
    <3>2. \A x \in Session \ {s, v} : rt'[x] = rt[x]
      BY <2>3, RecordFacts
    <3>4. rt'[v] = Begin(rt[v], rt[v].gen, "stopped")
      BY <2>2, <2>3, <3>3, RecordFacts
    <3>5. rt[v].status = "idle" /\ rt[v] \in Runtime /\ Owned(rt[v]) /\ Good(rt[v], mode)
      BY <2>2, RecordFacts DEF GenuinelyIdle
    <3>6. rt'[v].status # "queued"
      BY <3>4, <3>5, BeginFollows DEF Follows
    <3>7. \A x \in Session : rt'[x].status = "queued" <=> rt[x].status = "queued"
      BY <3>1, <3>2, <3>5, <3>6
    <3> QED
      BY <3>7, SameQueue
  <2> QED
    BY <2>1, <2>2, <2>3, <2>4, HandoffBegins
<1> QED
  BY <1>1, <1>2

(* The items of the Sessions of A leave the queue, and nothing else.       *)
LEMMA LeaveQueue ==
    ASSUME OInv, IInv, NEW I \in SUBSET (DOMAIN queue),
           queue' = Without(queue, I),
           \A s \in Session :
              rt'[s].status = "queued" <=>
                 rt[s].status = "queued" /\ ~\E i \in I : queue[i] = s
    PROVE  QueueGood'
<1>1. queue \in Seq(Session)
  BY DEF IInv, TypeOK
<1>2. \A i, j \in DOMAIN queue : queue[i] = queue[j] => i = j
  BY DEF OInv, QueueGood
<1>3. \A s \in Session : rt[s].status = "queued" <=> \E i \in DOMAIN queue : queue[i] = s
  BY DEF OInv, QueueGood
<1>4. /\ \A i, j \in DOMAIN queue' : queue'[i] = queue'[j] => i = j
      /\ \A s : (\E i \in DOMAIN queue' : queue'[i] = s)
                  <=> \E i \in DOMAIN queue \ I : queue[i] = s
  BY <1>1, <1>2, WithoutItems
<1>5. \A s : (\E i \in DOMAIN queue \ I : queue[i] = s)
               <=> (\E i \in DOMAIN queue : queue[i] = s) /\ ~\E i \in I : queue[i] = s
  BY <1>2
<1>6. \A s \in Session : rt'[s].status = "queued" <=> \E i \in DOMAIN queue' : queue'[i] = s
  BY <1>3, <1>4, <1>5
<1> QED
  BY <1>4, <1>6 DEF QueueGood

(* The slot of an idle Runtime goes to the first queued Session that may   *)
(* have it.                                                                *)
LEMMA DispatchTarget ==
    ASSUME IInv, NEW s \in Session, CanDispatch(s)
    PROVE  /\ First(EligibleFor(rt, queue, s)) \in DOMAIN queue
           /\ queue[First(EligibleFor(rt, queue, s))] \in Session
           /\ rt[queue[First(EligibleFor(rt, queue, s))]].status = "queued"
           /\ UserHasCapacity(rt, queue[First(EligibleFor(rt, queue, s))], s)
<1> DEFINE E == EligibleFor(rt, queue, s)
<1>1. queue \in Seq(Session)
  BY DEF IInv, TypeOK
<1>2. E # {} /\ E \in SUBSET Nat /\ E \in SUBSET (DOMAIN queue)
  BY <1>1 DEF CanDispatch, EligibleFor
<1>3. First(E) \in E
  <2>1. \E m \in E : \A n \in E : m <= n
    BY <1>2, Least
  <2> QED
    BY <2>1 DEF First
<1> QED
  BY <1>1, <1>2, <1>3 DEF EligibleFor

LEMMA DispatchBegins ==
    ASSUME OInv, IInv', NEW s \in Session, DispatchFromIdle(s)
    PROVE  OInv' /\ Advances
<1>1. CASE UNCHANGED <<rt, queue, starts>>
  <2>1. UNCHANGED <<closing, mode>>
    BY DEF DispatchFromIdle
  <2>2. \A x \in Session : Good(rt'[x], mode) /\ Follows(rt[x], rt'[x])
    BY <1>1, Stays
  <2> QED
    BY <1>1, <2>1, <2>2, FollowStep
<1>2. CASE CanDispatch(s) /\ ~UNCHANGED <<rt, queue, starts>>
  <2> DEFINE i == First(EligibleFor(rt, queue, s))
             target == queue[i]
  <2>1. /\ rt' = [rt EXCEPT ![s] = Begin(@, @.gen, "stopped"),
                            ![target] = Prepared(@, <<s, rt[s].gen>>, TRUE)]
        /\ queue' = Without(queue, {i})
        /\ starts' = starts \cup {StartTaskFor(target, <<s, rt[s].gen>>, TRUE)}
        /\ UNCHANGED <<closing, mode>>
    BY <1>2 DEF DispatchFromIdle
  <2>2. GenuinelyIdle(rt[s]) /\ mode = "open" /\ rt[s].status = "idle"
    BY <1>2 DEF CanDispatch, GenuinelyIdle
  <2>3. i \in DOMAIN queue /\ target \in Session /\ rt[target].status = "queued"
    BY <1>2, DispatchTarget DEF OInv
  <2> HIDE DEF i
  <2>4. Resting(rt[target]) /\ ~rt[target].cleanup
    BY <2>3, RecordFacts DEF Resting, Good
  <2>5. rt' = [rt EXCEPT ![s] = Begin(rt[s], rt[s].gen, "stopped"),
                         ![target] = Prepared(@, <<s, rt[s].gen>>, TRUE)]
    BY <2>1, RecordFacts
  <2>6. QueueGood'
    <3>3. target # s
      BY <2>2, <2>3
    <3>9. rt'[target] = Prepared(rt[target], <<s, rt[s].gen>>, TRUE)
      BY <2>3, <2>5, <3>3, RecordFacts
    <3>1. Prepared(rt[target], <<s, rt[s].gen>>, TRUE).status = "starting"
      BY <2>3, <2>4, TurnBegins
    <3>10. rt'[target].status = "starting"
      BY <3>1, <3>9
    <3>2. \A x \in Session \ {target, s} : rt'[x] = rt[x]
      BY <2>5, RecordFacts
    <3>4. rt'[s] = Begin(rt[s], rt[s].gen, "stopped")
      BY <2>3, <2>5, <3>3, RecordFacts
    <3>5. rt[s] \in Runtime /\ Owned(rt[s]) /\ Good(rt[s], mode)
      BY RecordFacts
    <3>6. rt'[s].status # "queued"
      BY <2>2, <3>4, <3>5, BeginFollows DEF Follows
    <3>7. \A x \in Session :
             rt'[x].status = "queued" <=>
                rt[x].status = "queued" /\ ~\E j \in {i} : queue[j] = x
      BY <2>2, <3>10, <3>2, <3>6
    <3>8. {i} \in SUBSET (DOMAIN queue)
      BY <2>3
    <3> QED
      BY <2>1, <3>7, <3>8, LeaveQueue DEF OInv
  <2> HIDE DEF target
  <2>7. OInv' /\ FromRest
    BY <2>1, <2>2, <2>3, <2>4, <2>5, <2>6, HandoffBegins
  <2> QED
    BY <2>7 DEF Advances, Admitting
<1> QED
  BY <1>1, <1>2 DEF DispatchFromIdle

(* The queue is served from the state f of the Sessions.                   *)
LEMMA ScheduleBegins ==
    ASSUME OInv, IInv', NEW f,
           \A x \in Session : Good(f[x], mode) /\ Follows(rt[x], f[x]),
           \A x \in Session : rt[x].status = "queued" => f[x] = rt[x],
           ScheduleWaiting(f), UNCHANGED <<closing, mode>>
    PROVE  OInv' /\ FromRest
<1> DEFINE I == IF mode = "open" THEN Admitted(f, queue) ELSE {}
           A == {queue[i] : i \in I}
           task(x) == [sess |-> x, gen |-> f[x].gen + 1, turn |-> TRUE,
                       src |-> None, at |-> "source"]
           N == {task(x) : x \in A}
<1>1. /\ rt' = [x \in Session |-> IF x \in A THEN Prepared(f[x], None, TRUE) ELSE f[x]]
      /\ queue' = Without(queue, I)
      /\ starts' = starts \cup N
  BY DEF ScheduleWaiting
<1>2. \A i \in I : i \in DOMAIN queue /\ f[queue[i]].status = "queued"
  BY DEF Admitted, WithinQuota
<1>3. queue \in Seq(Session)
  BY DEF OInv, IInv, TypeOK
<1>4. mode # "open" => queue = <<>> /\ I = {}
  BY DEF OInv, ClosingGood
<1> HIDE DEF I
<1>5. ASSUME NEW x \in A
      PROVE  x \in Session /\ f[x] = rt[x] /\ rt[x].status = "queued"
             /\ Resting(rt[x]) /\ ~rt[x].cleanup
  <2>1. x \in Session /\ f[x].status = "queued"
    BY <1>2, <1>3
  <2>2. f[x] = rt[x] /\ rt[x].status = "queued"
    BY <2>1 DEF Follows
  <2>3. Resting(rt[x]) /\ ~rt[x].cleanup
    BY <2>1, <2>2 DEF Resting, Good
  <2> QED
    BY <2>1, <2>2, <2>3
<1>6. QueueGood'
  <2>1. ASSUME NEW x \in A PROVE rt'[x].status = "starting"
    <3>1. rt'[x] = Prepared(rt[x], None, TRUE)
      BY <1>1, <1>5
    <3>2. Prepared(rt[x], None, TRUE).status = "starting"
      BY <1>5, TurnBegins
    <3> QED
      BY <3>1, <3>2
  <2>2. \A x \in Session \ A : rt'[x].status = "queued" <=> rt[x].status = "queued"
    BY <1>1 DEF Follows
  <2>3. \A x : x \in A <=> \E i \in I : queue[i] = x
    OBVIOUS
  <2>4. I \in SUBSET (DOMAIN queue)
    BY <1>2
  <2> HIDE DEF A
  <2>5. \A x \in Session :
           rt'[x].status = "queued" <=>
              rt[x].status = "queued" /\ ~\E i \in I : queue[i] = x
    BY <2>1, <2>2, <2>3
  <2> QED
    BY <1>1, <2>4, <2>5, LeaveQueue DEF OInv
<1>7. mode = "open" \/ A = {}
  BY <1>4
<1>8. mode # "open" => queue' = <<>>
  <2> SUFFICES ASSUME mode # "open" PROVE queue' = <<>>
    OBVIOUS
  <2>1. Len(Without(queue, I)) <= Len(queue) /\ Without(queue, I) \in Seq(Session)
    BY <1>3, WithoutKeeps
  <2>2. queue' \in Seq(Session) /\ Len(queue') = 0
    BY <1>1, <1>4, <2>1
  <2> QED
    BY <2>2
<1> HIDE DEF A
<1>9. A \in SUBSET Session
  BY <1>5
<1>10. ASSUME NEW x \in A
       PROVE  /\ Begins(rt[x], rt'[x]) /\ Good(rt'[x], mode)
              /\ rt'[x].src = None /\ rt'[x].turn /\ rt'[x].gen = f[x].gen + 1
  <2>1. rt'[x] = Prepared(rt[x], None, TRUE)
    BY <1>1, <1>5
  <2>2. f[x] = rt[x] /\ x \in Session
    BY <1>5
  <2> DEFINE n == Prepared(rt[x], None, TRUE)
  <2>3. /\ Begins(rt[x], n) /\ Good(n, mode)
        /\ n.src = None /\ n.turn /\ n.gen = rt[x].gen + 1
    <3>1. Resting(rt[x]) /\ ~rt[x].cleanup /\ x \in Session
      BY <1>5
    <3>2. Begins(rt[x], n) /\ Good(n, mode)
      BY <3>1, TurnBegins
    <3>3. n.src = None /\ n.turn = TRUE /\ n.gen = rt[x].gen + 1
      BY <3>1, TurnBegins
    <3> QED
      BY <3>2, <3>3
  <2> HIDE DEF n
  <2>4. rt'[x] = n
    BY <2>1 DEF n
  <2> QED
    BY <2>2, <2>3, <2>4
<1>11. \A x \in Session \ A : Passes(rt[x], rt'[x]) /\ Good(rt'[x], mode)
  BY <1>1 DEF Follows
<1>12. \A x \in Session : Good(rt'[x], mode)
  BY <1>10, <1>11
<1>13. ASSUME NEW x
       PROVE  /\ task(x).sess = x /\ task(x).gen = f[x].gen + 1
              /\ task(x).turn = TRUE /\ task(x).at = "source"
  OBVIOUS
<1> HIDE DEF task
<1>14. TasksOf(A, N)
  <2>1. \A t \in N : \E x \in A : t = task(x)
    OBVIOUS
  <2>2. \A x \in A : \E t \in N : t.sess = x /\ t.turn
    BY <1>13
  <2>3. ASSUME NEW t \in N
        PROVE  /\ t.sess \in A /\ t.gen = rt'[t.sess].gen /\ t.at = "source"
               /\ t.turn => rt'[t.sess].turn
               /\ \A y \in N : y.sess = t.sess => y = t
    <3>1. PICK x \in A : t = task(x)
      BY <2>1
    <3>2. t.sess = x /\ t.gen = f[x].gen + 1 /\ t.at = "source"
      BY <1>13, <3>1
    <3>3. ASSUME NEW y \in N, y.sess = x PROVE y = task(x)
      <4>1. PICK z \in A : y = task(z)
        BY <2>1
      <4>2. task(z).sess = z
        BY <1>13
      <4> QED
        BY <3>3, <4>1, <4>2
    <3> QED
      BY <1>10, <3>1, <3>2, <3>3
  <2> HIDE DEF N
  <2> QED
    BY <1>1, <2>2, <2>3 DEF TasksOf
<1>15. SourcesOf(A)
  BY <1>10 DEF SourcesOf
<1>16. \A x \in A : Begins(rt[x], rt'[x])
  BY <1>10
<1> HIDE DEF N
<1> QED
  BY <1>6, <1>7, <1>8, <1>9, <1>11, <1>12, <1>14, <1>15, <1>16, BeginningStep

-----------------------------------------------------------------------------
(* Actions.                                                                *)

(* A step that changes one Session, and no task of it, to n.               *)
LEMMA QuietFollows ==
    ASSUME OInv, IInv', NEW s \in Session, NEW n,
           rt' = [rt EXCEPT ![s] = n],
           UNCHANGED <<queue, starts, closing, mode>>,
           Good(n, mode), Follows(rt[s], n)
    PROVE  OInv' /\ Advances
<1>1. starts' \subseteq starts /\ starts \ starts' = {}
  OBVIOUS
<1> QED
  BY <1>1, OneFollows

(* A step that claims one Session, and changes no task of it.              *)
LEMMA QuietClaims ==
    ASSUME OInv, IInv', NEW s \in Session, NEW final,
           rt[s].status # "queued",
           rt' = [rt EXCEPT ![s] = Begin(rt[s], rt[s].gen, final)],
           UNCHANGED <<queue, starts, closing, mode>>
    PROVE  OInv' /\ Advances
<1>1. starts' \subseteq starts /\ starts \ starts' = {}
  OBVIOUS
<1> QED
  BY <1>1, ClaimFollows

(* What decides Good and Follows when a few fields of a record change.     *)
Written(r, n) ==
    /\ n.gen = r.gen /\ n.proc = r.proc /\ n.ref = r.ref /\ n.src = r.src
    /\ n.token = r.token /\ n.finGen = r.finGen /\ n.fin = r.fin
    /\ n.cleanup = r.cleanup /\ n.died = r.died

(* The calls of Web Users and clients.                                     *)
LEMMA RequestFollows ==
    ASSUME OInv, IInv', NEW s \in Session, Request(s)
    PROVE  OInv' /\ Advances
<1>1. /\ rt \in [Session -> Runtime] /\ rt[s] \in Runtime
      /\ Owned(rt[s]) /\ Good(rt[s], mode)
  BY RecordFacts
<1>2. CASE ActivateReclaims(s)
  <2>1. rt' = [rt EXCEPT ![s] = Begin(rt[s], rt[s].gen,
                                      IF rt[s].cleanup THEN "stopped" ELSE "error")]
    BY <1>1, <1>2 DEF ActivateReclaims, ReclaimFirst
  <2>2. rt[s].status # "queued"
    BY <1>1, <1>2 DEF ActivateReclaims, Good
  <2> QED
    BY <1>2, <2>1, <2>2, QuietClaims DEF ActivateReclaims
<1>3. CASE ActivateAdmits(s)
  <2>1. FALSE \in BOOLEAN /\ (AdmitFree(s, FALSE) \/ AdmitEvicting(s, FALSE))
        /\ rt[s].status \in {"stopped", "error"} /\ mode = "open"
        /\ UNCHANGED <<queue, closing, mode>>
    BY <1>3 DEF ActivateAdmits
  <2>2. OInv' /\ FromRest
    BY <2>1, AdmissionBegins
  <2> QED
    BY <1>3, <2>2 DEF Advances, Admitting
<1>4. CASE SendReclaims(s)
  <2>1. rt' = [rt EXCEPT ![s] = Begin(rt[s], rt[s].gen,
                                      IF rt[s].cleanup THEN "stopped" ELSE "error")]
    BY <1>1, <1>4 DEF SendReclaims, ReclaimFirst
  <2>2. rt[s].status # "queued"
    BY <1>1, <1>4 DEF SendReclaims, Good
  <2> QED
    BY <1>4, <2>1, <2>2, QuietClaims DEF SendReclaims
<1>5. CASE SendToStarting(s)
  <2> DEFINE n == [rt[s] EXCEPT !.turn = TRUE, !.waiter = TRUE]
  <2>1. rt' = [rt EXCEPT ![s] = n]
    BY <1>1, <1>5 DEF SendToStarting
  <2>2. ~rt[s].turn /\ rt[s].status = "starting"
    BY <1>5 DEF SendToStarting
  <2>3. /\ Written(rt[s], n) /\ n.status = "starting" /\ n.turn /\ n.waiter
        /\ n.busy = rt[s].busy /\ n.control = rt[s].control
    BY <1>1, <2>2 DEF Runtime, Written
  <2> HIDE DEF n
  <2>4. Good(n, mode)
    BY <1>1, <2>2, <2>3 DEF Good, Resting, Rising, Up, Over, Unlaunched, Written
  <2>5. Follows(rt[s], n)
    BY <2>2, <2>3 DEF Follows, Passes, Resting, Rising, Over, Unlaunched, Vacant, Written
  <2> QED
    BY <1>5, <2>1, <2>4, <2>5, QuietFollows DEF SendToStarting
<1>6. CASE SendToIdle(s)
  <2> DEFINE n == [rt[s] EXCEPT !.status = "running", !.busy = TRUE, !.turn = TRUE]
  <2>1. rt' = [rt EXCEPT ![s] = n]
    BY <1>1, <1>6 DEF SendToIdle
  <2>2. rt[s].status = "idle" /\ ~rt[s].turn /\ rt[s].control = None
    BY <1>6 DEF SendToIdle, GenuinelyIdle, Sendable
  <2>3. /\ Written(rt[s], n) /\ n.status = "running" /\ n.turn /\ n.busy
        /\ n.waiter = rt[s].waiter /\ n.control = rt[s].control
    BY <1>1 DEF Runtime, Written
  <2> HIDE DEF n
  <2>4. Good(n, mode)
    BY <1>1, <2>2, <2>3 DEF Good, Resting, Rising, Up, Over, Unlaunched, Written
  <2>5. Follows(rt[s], n)
    BY <2>2, <2>3 DEF Follows, Passes, Resting, Rising, Over, Unlaunched, Vacant, Written
  <2> QED
    BY <1>6, <2>1, <2>4, <2>5, QuietFollows DEF SendToIdle
<1>7. CASE SendAdmits(s)
  <2>1. TRUE \in BOOLEAN /\ (AdmitFree(s, TRUE) \/ AdmitEvicting(s, TRUE))
        /\ rt[s].status \in {"stopped", "error"} /\ mode = "open"
        /\ UNCHANGED <<queue, closing, mode>>
    BY <1>7 DEF SendAdmits, Restartable, Sendable
  <2>2. OInv' /\ FromRest
    BY <2>1, AdmissionBegins
  <2> QED
    BY <1>7, <2>2 DEF Advances, Admitting
<1>8. CASE SendQueues(s)
  <2> DEFINE n == [rt[s] EXCEPT !.status = "queued", !.turn = TRUE]
  <2>1. rt' = [rt EXCEPT ![s] = n]
    BY <1>1, <1>8 DEF SendQueues
  <2>2. rt[s].status \in {"stopped", "error"} /\ ~rt[s].cleanup /\ mode = "open"
    BY <1>8 DEF SendQueues, Restartable, Sendable
  <2>3. /\ Written(rt[s], n) /\ n.status = "queued" /\ n.turn
        /\ n.busy = rt[s].busy /\ n.waiter = rt[s].waiter /\ n.control = rt[s].control
    BY <1>1 DEF Runtime, Written
  <2> HIDE DEF n
  <2>4. Good(n, mode)
    BY <1>1, <2>2, <2>3 DEF Good, Resting, Rising, Up, Over, Unlaunched, Written
  <2>5. Passes(rt[s], n)
    BY <2>2, <2>3 DEF Passes, Resting, Rising, Over, Unlaunched, Vacant, Written
  <2>6. rt'[s] = n /\ \A x \in Session \ {s} : rt'[x] = rt[x]
    BY <1>1, <2>1
  <2>7. \A x \in Session : Good(rt'[x], mode) /\ Passes(rt[x], rt'[x])
    BY <2>4, <2>5, <2>6, Stays DEF Follows
  <2>8. QueueGood'
    <3>1. queue \in Seq(Session) /\ queue' = Append(queue, s)
      BY <1>8 DEF SendQueues, OInv, IInv, TypeOK
    <3>2. /\ \A i, j \in DOMAIN queue : queue[i] = queue[j] => i = j
          /\ \A x \in Session : rt[x].status = "queued" <=> \E i \in DOMAIN queue : queue[i] = x
      BY DEF OInv, QueueGood
    <3>3. \A i \in DOMAIN queue : queue[i] # s
      BY <2>2, <3>2
    <3>4. /\ DOMAIN queue' = DOMAIN queue \cup {Len(queue) + 1}
          /\ Len(queue) + 1 \notin DOMAIN queue
          /\ \A i \in DOMAIN queue : queue'[i] = queue[i]
          /\ queue'[Len(queue) + 1] = s
      BY <3>1
    <3>5. \A i, j \in DOMAIN queue' : queue'[i] = queue'[j] => i = j
      BY <3>2, <3>3, <3>4
    <3>6. \A x \in Session :
             rt'[x].status = "queued" <=> \E i \in DOMAIN queue' : queue'[i] = x
      BY <2>3, <2>6, <3>2, <3>4
    <3> QED
      BY <3>5, <3>6 DEF QueueGood
  <2>9. UNCHANGED <<starts, closing, mode>> /\ starts' \subseteq starts
        /\ starts \ starts' = {}
    BY <1>8 DEF SendQueues
  <2> QED
    BY <2>2, <2>7, <2>8, <2>9, PassStep
<1>9. CASE SendWhenReady(s)
  <2> DEFINE n == [rt[s] EXCEPT !.status = "running", !.busy = TRUE, !.waiter = FALSE]
  <2>1. rt' = [rt EXCEPT ![s] = n]
    BY <1>1, <1>9 DEF SendWhenReady
  <2>2. rt[s].status = "idle" /\ rt[s].waiter
    BY <1>9 DEF SendWhenReady
  <2>3. /\ Written(rt[s], n) /\ n.status = "running" /\ n.turn = rt[s].turn /\ n.busy
        /\ ~n.waiter /\ n.control = rt[s].control
    BY <1>1 DEF Runtime, Written
  <2> HIDE DEF n
  <2>4. Good(n, mode)
    BY <1>1, <2>2, <2>3 DEF Good, Resting, Rising, Up, Over, Unlaunched, Written
  <2>5. Follows(rt[s], n)
    BY <2>2, <2>3 DEF Follows, Passes, Resting, Rising, Over, Unlaunched, Vacant, Written
  <2> QED
    BY <1>9, <2>1, <2>4, <2>5, QuietFollows DEF SendWhenReady
<1>10. CASE SendWaitTimesOut(s)
  <2> DEFINE n == [rt[s] EXCEPT !.waiter = FALSE]
  <2>1. rt' = [rt EXCEPT ![s] = n]
    BY <1>1, <1>10 DEF SendWaitTimesOut
  <2>2. rt[s].status = "starting" /\ "slow" \in Env /\ rt[s].waiter
    BY <1>10 DEF SendWaitTimesOut
  <2>3. /\ Written(rt[s], n) /\ n.status = rt[s].status /\ n.turn = rt[s].turn
        /\ n.busy = rt[s].busy /\ ~n.waiter /\ n.control = rt[s].control
    BY <1>1 DEF Runtime, Written
  <2> HIDE DEF n
  <2>4. Good(n, mode)
    BY <1>1, <2>2, <2>3 DEF Good, Resting, Rising, Up, Over, Unlaunched, Written
  <2>5. Follows(rt[s], n)
    BY <2>2, <2>3 DEF Follows, Passes, Resting, Rising, Over, Unlaunched, Vacant, Written
  <2> QED
    BY <1>10, <2>1, <2>4, <2>5, QuietFollows DEF SendWaitTimesOut
<1>11. CASE Resolve(s)
  <2>1. PICK status \in {"running", "starting"} :
           /\ rt[s].status = IF status = "running" THEN "waiting_permission"
                                                   ELSE "waiting_mcp_trust"
           /\ rt' = [rt EXCEPT ![s].status = status]
    BY <1>11 DEF Resolve
  <2> DEFINE n == [rt[s] EXCEPT !.status = status]
  <2>2. rt' = [rt EXCEPT ![s] = n]
    BY <1>1, <2>1
  <2>3. /\ Written(rt[s], n) /\ n.status = status /\ n.turn = rt[s].turn
        /\ n.busy = rt[s].busy /\ n.waiter = rt[s].waiter /\ n.control = rt[s].control
    BY <1>1 DEF Runtime, Written
  <2> HIDE DEF n
  <2>4. Good(n, mode)
    BY <1>1, <2>1, <2>3 DEF Good, Resting, Rising, Up, Over, Unlaunched, Written
  <2>5. Follows(rt[s], n)
    BY <2>1, <2>3 DEF Follows, Passes, Resting, Rising, Over, Unlaunched, Vacant, Written
  <2> QED
    BY <1>11, <2>2, <2>4, <2>5, QuietFollows DEF Resolve
<1>12. CASE StopSession(s)
  <2>1. CASE rt[s].status = "queued"
    <3> DEFINE n == [rt[s] EXCEPT !.status = "stopped", !.turn = FALSE]
               I == {i \in DOMAIN queue : queue[i] = s}
    <3>1. rt' = [rt EXCEPT ![s] = n] /\ queue' = Without(queue, I)
          /\ UNCHANGED <<starts, closing, mode>>
      BY <1>1, <1>12, <2>1 DEF StopSession
    <3>2. /\ Written(rt[s], n) /\ n.status = "stopped" /\ ~n.turn
          /\ n.busy = rt[s].busy /\ n.waiter = rt[s].waiter /\ n.control = rt[s].control
      BY <1>1 DEF Runtime, Written
    <3> HIDE DEF n
    <3>3. Good(n, mode)
      BY <1>1, <2>1, <3>2 DEF Good, Resting, Rising, Up, Over, Unlaunched, Written
    <3>4. Passes(rt[s], n)
      BY <2>1, <3>2 DEF Passes, Resting, Rising, Over, Unlaunched, Vacant, Written
    <3>5. rt'[s] = n /\ \A x \in Session \ {s} : rt'[x] = rt[x]
      BY <1>1, <3>1
    <3>6. \A x \in Session : Good(rt'[x], mode) /\ Passes(rt[x], rt'[x])
      BY <3>3, <3>4, <3>5, Stays DEF Follows
    <3>7. QueueGood'
      <4>1. I \in SUBSET (DOMAIN queue)
        OBVIOUS
      <4>2. (\E i \in DOMAIN queue : queue[i] = s) /\ \A i \in I : queue[i] = s
        BY <2>1 DEF OInv, QueueGood
      <4>3. \E i \in I : queue[i] = s
        BY <4>2
      <4> HIDE DEF I
      <4>4. \A x \in Session :
               rt'[x].status = "queued" <=>
                  rt[x].status = "queued" /\ ~\E i \in I : queue[i] = x
        BY <3>2, <3>5, <4>2, <4>3
      <4> QED
        BY <3>1, <4>1, <4>4, LeaveQueue DEF OInv
    <3>8. starts' \subseteq starts /\ starts \ starts' = {} /\ mode = "open"
      <4>1. \E i \in DOMAIN queue : queue[i] = s
        BY <2>1 DEF OInv, QueueGood
      <4>2. mode = "open"
        BY <4>1 DEF OInv, ClosingGood
      <4> QED
        BY <3>1, <4>2
    <3> QED
      BY <3>1, <3>6, <3>7, <3>8, PassStep
  <2>2. CASE rt[s].status # "queued"
    <3>1. rt' = [rt EXCEPT ![s] = Begin(rt[s], rt[s].gen, "stopped")]
          /\ UNCHANGED <<queue, starts, closing, mode>>
      BY <1>1, <1>12, <2>2 DEF StopSession
    <3> QED
      BY <2>2, <3>1, QuietClaims
  <2> QED
    BY <2>1, <2>2
<1>13. ASSUME NEW c \in Control, ControlBegins(s, c)
       PROVE  OInv' /\ Advances
  <2> DEFINE n == [rt[s] EXCEPT !.control = c, !.busy = TRUE]
  <2>1. rt' = [rt EXCEPT ![s] = n]
    BY <1>1, <1>13 DEF ControlBegins
  <2>2. rt[s].status = "idle" /\ ~rt[s].turn /\ c # None
    BY <1>13, PoolAssumption DEF ControlBegins, GenuinelyIdle
  <2>3. /\ Written(rt[s], n) /\ n.status = rt[s].status /\ n.turn = rt[s].turn
        /\ n.busy /\ n.waiter = rt[s].waiter /\ n.control = c
    BY <1>1 DEF Runtime, Written
  <2> HIDE DEF n
  <2>4. Good(n, mode)
    BY <1>1, <2>2, <2>3 DEF Good, Resting, Rising, Up, Over, Unlaunched, Written
  <2>5. Follows(rt[s], n)
    BY <2>2, <2>3 DEF Follows, Passes, Resting, Rising, Over, Unlaunched, Vacant, Written
  <2> QED
    BY <1>13, <2>1, <2>4, <2>5, QuietFollows DEF ControlBegins
<1>14. ASSUME NEW c \in Client, LeaseAcquire(s, c) \/ LeaseRelease(s, c)
       PROVE  OInv' /\ Advances
  <2>1. PICK leases : rt' = [rt EXCEPT ![s].leases = leases]
    BY <1>14 DEF LeaseAcquire, LeaseRelease
  <2> DEFINE n == [rt[s] EXCEPT !.leases = leases]
  <2>2. rt' = [rt EXCEPT ![s] = n]
    BY <1>1, <2>1
  <2>3. /\ Written(rt[s], n) /\ n.status = rt[s].status /\ n.turn = rt[s].turn
        /\ n.busy = rt[s].busy /\ n.waiter = rt[s].waiter /\ n.control = rt[s].control
    BY <1>1 DEF Runtime, Written
  <2> HIDE DEF n
  <2>4. Good(n, mode)
    BY <1>1, <2>3 DEF Good, Resting, Rising, Up, Over, Unlaunched, Written
  <2>5. Follows(rt[s], n)
    BY <2>3 DEF Follows, Passes, Resting, Rising, Over, Unlaunched, Vacant, Written
  <2>6. UNCHANGED <<queue, starts, closing, mode>>
    BY <1>14 DEF LeaseAcquire, LeaseRelease
  <2> QED
    BY <2>2, <2>4, <2>5, <2>6, QuietFollows
<1> QED
  BY <1>2, <1>3, <1>4, <1>5, <1>6, <1>7, <1>8, <1>9, <1>10, <1>11, <1>12, <1>13, <1>14
     DEF Request


(* What Core does: it ends Turns and controls, asks, and exits.            *)
LEMMA CoreFollows ==
    ASSUME OInv, IInv', NEW s \in Session, Core(s)
    PROVE  OInv' /\ Advances
<1>1. /\ rt \in [Session -> Runtime] /\ rt[s] \in Runtime /\ rt[s].status \in Status
      /\ Owned(rt[s]) /\ Good(rt[s], mode)
  BY RecordFacts DEF Runtime
<1>2. CASE TurnFinished(s)
  <2> DEFINE n == [rt[s] EXCEPT !.status = "idle", !.busy = FALSE, !.turn = FALSE]
  <2>1. rt' = [rt EXCEPT ![s] = n] /\ UNCHANGED <<queue, starts, closing, mode>>
    BY <1>1, <1>2 DEF TurnFinished
  <2>2. rt[s].status \in {"running", "waiting_permission"} /\ rt[s].proc # "none"
    BY <1>1, <1>2 DEF TurnFinished, Finalizing, Good, Owned, Resting, Status
  <2>3. /\ Written(rt[s], n) /\ n.status = "idle" /\ ~n.turn /\ ~n.busy
        /\ n.waiter = rt[s].waiter /\ n.control = rt[s].control
    BY <1>1 DEF Runtime, Written
  <2> HIDE DEF n
  <2>4. Good(n, mode)
    BY <1>1, <2>2, <2>3 DEF Good, Resting, Rising, Up, Over, Unlaunched, Written
  <2>5. Follows(rt[s], n)
    BY <2>2, <2>3 DEF Follows, Passes, Resting, Rising, Over, Unlaunched, Vacant, Written
  <2> QED
    BY <2>1, <2>4, <2>5, QuietFollows
<1>3. CASE Asks(s)
  <2>1. PICK status \in {"waiting_permission", "waiting_mcp_trust"} :
           /\ rt[s].status = IF status = "waiting_permission" THEN "running" ELSE "starting"
           /\ rt' = [rt EXCEPT ![s].status = status]
    BY <1>3 DEF Asks
  <2> DEFINE n == [rt[s] EXCEPT !.status = status]
  <2>2. /\ rt' = [rt EXCEPT ![s] = n] /\ UNCHANGED <<queue, starts, closing, mode>>
        /\ rt[s].proc = "live"
    BY <1>1, <1>3, <2>1 DEF Asks, Live
  <2>3. /\ Written(rt[s], n) /\ n.status = status /\ n.turn = rt[s].turn
        /\ n.busy = rt[s].busy /\ n.waiter = rt[s].waiter /\ n.control = rt[s].control
    BY <1>1 DEF Runtime, Written
  <2> HIDE DEF n
  <2>4. Good(n, mode)
    BY <1>1, <2>1, <2>2, <2>3 DEF Good, Resting, Rising, Up, Over, Unlaunched, Written
  <2>5. Follows(rt[s], n)
    BY <2>1, <2>2, <2>3 DEF Follows, Passes, Resting, Rising, Over, Unlaunched, Vacant, Written
  <2> QED
    BY <2>2, <2>4, <2>5, QuietFollows
<1>4. CASE ControlEnds(s) \/ ControlAborts(s)
  <2> DEFINE n == [rt[s] EXCEPT !.control = None, !.busy = FALSE]
             m == IF Stoppable(n) THEN Begin(n, n.gen, "stopped") ELSE n
  <2>1. /\ rt' = [rt EXCEPT ![s] = n] \/ rt' = [rt EXCEPT ![s] = m]
        /\ UNCHANGED <<queue, starts, closing, mode>>
    BY <1>1, <1>4 DEF ControlEnds, ControlAborts
  <2>2. rt[s].status \in {"idle", "stopping"} /\ rt[s].control # None
    BY <1>1, <1>4 DEF ControlEnds, ControlAborts, Good, Resting, Rising, Status
  <2>3. /\ Written(rt[s], n) /\ n.status = rt[s].status /\ n.turn = rt[s].turn
        /\ ~n.busy /\ n.waiter = rt[s].waiter /\ n.control = None
    BY <1>1 DEF Runtime, Written
  <2>4. n \in Runtime
    BY <1>1 DEF Runtime
  <2>5. Owned(n)
    BY <1>1, <2>3 DEF Owned, Written
  <2> HIDE DEF n
  <2>6. Good(n, mode)
    BY <1>1, <2>2, <2>3 DEF Good, Resting, Rising, Up, Over, Unlaunched, Written
  <2>7. Follows(rt[s], n)
    BY <2>2, <2>3 DEF Follows, Passes, Resting, Rising, Over, Unlaunched, Vacant, Written
  <2>8. Good(Begin(n, n.gen, "stopped"), mode) /\ Follows(n, Begin(n, n.gen, "stopped"))
    BY <2>2, <2>3, <2>4, <2>5, <2>6, BeginFollows
  <2>9. Good(m, mode) /\ Follows(n, m)
    BY <2>6, <2>8 DEF Follows, Passes
  <2> HIDE DEF m
  <2>10. Follows(rt[s], m)
    BY <2>2, <2>3, <2>9
       DEF Follows, Passes, Resting, Rising, Over, Unlaunched, Vacant, Written
  <2> QED
    BY <2>1, <2>6, <2>7, <2>9, <2>10, QuietFollows
<1>5. CASE ProcessExit(s)
  <2> DEFINE died == rt[s].died \/ ~(Finalizing(rt[s]) \/ rt[s].cleanup)
             n == [rt[s] EXCEPT !.proc = "exited", !.died = died]
  <2>1. /\ rt' = [rt EXCEPT ![s] = n] /\ UNCHANGED <<queue, starts, closing, mode>>
        /\ rt[s].proc = "live"
    BY <1>1, <1>5 DEF ProcessExit, Live
  <2> HIDE DEF died
  <2>2. /\ n.status = rt[s].status /\ n.gen = rt[s].gen /\ n.proc = "exited"
        /\ n.ref = rt[s].ref /\ n.turn = rt[s].turn /\ n.busy = rt[s].busy
        /\ n.waiter = rt[s].waiter /\ n.control = rt[s].control /\ n.src = rt[s].src
        /\ n.token = rt[s].token /\ n.finGen = rt[s].finGen /\ n.fin = rt[s].fin
        /\ n.cleanup = rt[s].cleanup /\ n.died = died
    BY <1>1 DEF Runtime
  <2> HIDE DEF n
  <2>3. /\ rt[s].died => died
        /\ ~Over(rt[s]) => died
        /\ Over(rt[s]) => (died <=> rt[s].died)
    <3>1. rt[s].cleanup => rt[s].status \in {"error", "stopping"}
      BY <1>1 DEF Good
    <3>2. Resting(rt[s]) => rt[s].cleanup
      BY <1>1, <2>1 DEF Good, Unlaunched
    <3> QED
      BY <1>1, <3>1, <3>2 DEF died, Over, Resting, Finalizing, Owned
  <2>4. Good(n, mode)
    BY <1>1, <2>1, <2>2, <2>3 DEF Good, Resting, Rising, Up, Over, Unlaunched
  <2>5. Follows(rt[s], n)
    BY <2>1, <2>2, <2>3 DEF Follows, Passes, Resting, Rising, Over, Unlaunched, Vacant
  <2> QED
    BY <2>1, <2>4, <2>5, QuietFollows
<1> QED
  BY <1>2, <1>3, <1>4, <1>5 DEF Core

(* The end of a generation, and the handoff of an idle Runtime.            *)
LEMMA GenerationsFollow ==
    ASSUME OInv, IInv', NEW s \in Session, Generations(s)
    PROVE  OInv' /\ Advances
<1>1. /\ rt \in [Session -> Runtime] /\ rt[s] \in Runtime
      /\ Owned(rt[s]) /\ Good(rt[s], mode)
  BY RecordFacts
<1>2. CASE ReaderClaims(s)
  <2>1. PICK final \in {"stopped", "error"} :
           rt' = [rt EXCEPT ![s] = Begin(rt[s], rt[s].gen, final)]
    BY <1>1, <1>2 DEF ReaderClaims
  <2>2. rt[s].status # "queued" /\ UNCHANGED <<queue, starts, closing, mode>>
    BY <1>1, <1>2 DEF ReaderClaims, Live, Good, Resting, Unlaunched
  <2> QED
    BY <2>1, <2>2, QuietClaims
<1>3. CASE FinalizerLocks(s)
  <2> DEFINE n == [rt[s] EXCEPT !.fin = "teardown"]
  <2>1. /\ rt' = [rt EXCEPT ![s] = n] /\ UNCHANGED <<queue, starts, closing, mode>>
        /\ rt[s].fin = "waiting"
    BY <1>1, <1>3 DEF FinalizerLocks
  <2>2. /\ n.status = rt[s].status /\ n.gen = rt[s].gen /\ n.proc = rt[s].proc
        /\ n.ref = rt[s].ref /\ n.turn = rt[s].turn /\ n.busy = rt[s].busy
        /\ n.waiter = rt[s].waiter /\ n.control = rt[s].control /\ n.src = rt[s].src
        /\ n.token = rt[s].token /\ n.finGen = rt[s].finGen /\ n.fin = "teardown"
        /\ n.cleanup = rt[s].cleanup /\ n.died = rt[s].died
    BY <1>1 DEF Runtime
  <2> HIDE DEF n
  <2>3. Good(n, mode)
    BY <1>1, <2>1, <2>2 DEF Good, Resting, Rising, Up, Over, Unlaunched
  <2>4. Follows(rt[s], n)
    BY <2>1, <2>2 DEF Follows, Passes, Resting, Rising, Over, Unlaunched, Vacant
  <2> QED
    BY <2>1, <2>3, <2>4, QuietFollows
<1>4. CASE FinalizerTearsDown(s)
  <2>1. PICK survives, kept, errors \in BOOLEAN :
         /\ survives \/ kept \/ errors => "cleanup" \in Env
         /\ survives => Live(rt[s])
         /\ kept => rt[s].ref
         /\ rt' = [rt EXCEPT
                ![s].proc = IF Live(rt[s]) /\ ~survives THEN "exited" ELSE @,
                ![s].fin = IF kept THEN "kept" ELSE "hooks",
                ![s].final = IF errors THEN "error" ELSE @,
                ![s].token = 0]
    BY <1>4 DEF FinalizerTearsDown
  <2> DEFINE proc == IF Live(rt[s]) /\ ~survives THEN "exited" ELSE rt[s].proc
             fin == IF kept THEN "kept" ELSE "hooks"
             final == IF errors THEN "error" ELSE rt[s].final
             n == [rt[s] EXCEPT !.proc = proc, !.fin = fin, !.final = final, !.token = 0]
  <2>2. /\ proc = "none" <=> rt[s].proc = "none"
        /\ proc = "live" => rt[s].proc = "live"
        /\ fin \in {"hooks", "kept"} /\ (fin = "kept" => rt[s].ref)
    BY <2>1 DEF Live
  <2>3. rt' = [rt EXCEPT ![s] = n]
    BY <1>1, <2>1
  <2> HIDE DEF proc, fin, final
  <2>4. /\ n.status = rt[s].status /\ n.gen = rt[s].gen /\ n.proc = proc
        /\ n.ref = rt[s].ref /\ n.turn = rt[s].turn /\ n.busy = rt[s].busy
        /\ n.waiter = rt[s].waiter /\ n.control = rt[s].control /\ n.src = rt[s].src
        /\ n.token = 0 /\ n.finGen = rt[s].finGen /\ n.fin = fin
        /\ n.cleanup = rt[s].cleanup /\ n.died = rt[s].died
    BY <1>1 DEF Runtime
  <2>5. rt[s].status = "stopping"
    BY <1>1, <1>4 DEF FinalizerTearsDown, Owned
  <2> HIDE DEF n
  <2>6. Good(n, mode)
    BY <1>1, <2>2, <2>4, <2>5 DEF Good, Resting, Rising, Up, Over, Unlaunched
  <2>7. Follows(rt[s], n)
    BY <2>2, <2>4, <2>5 DEF Follows, Passes, Resting, Rising, Over, Unlaunched, Vacant
  <2> QED
    BY <1>4, <2>3, <2>6, <2>7, QuietFollows DEF FinalizerTearsDown
<1>5. CASE FinalizerConverges(s)
  <2> DEFINE c == Converged(rt[s])
             f == [rt EXCEPT ![s] = c]
  <2>1. rt[s].fin \in {"hooks", "kept"} /\ rt[s].status = "stopping"
    BY <1>1, <1>5 DEF FinalizerConverges, Owned
  <2>2. Good(c, mode) /\ Follows(rt[s], c)
    BY <1>1, <2>1, ConvergedFollows
  <2>3. ScheduleWaiting(f) /\ UNCHANGED <<closing, mode>>
    BY <1>1, <1>5 DEF FinalizerConverges
  <2> HIDE DEF c
  <2>4. f[s] = c /\ \A x \in Session \ {s} : f[x] = rt[x]
    BY <1>1
  <2> HIDE DEF f
  <2>5. \A x \in Session : Good(f[x], mode) /\ Follows(rt[x], f[x])
    BY <2>2, <2>4, Stays
  <2>6. \A x \in Session : rt[x].status = "queued" => f[x] = rt[x]
    BY <2>1, <2>4
  <2>7. OInv' /\ FromRest
    BY <2>3, <2>5, <2>6, ScheduleBegins
  <2> QED
    BY <1>5, <2>7 DEF Advances, Admitting
<1> QED
  BY <1>2, <1>3, <1>4, <1>5, DispatchBegins DEF Generations

(* The task t has become u, for a Session that is n.                       *)
GoesOn(t, u, n) ==
    /\ u.sess = t.sess /\ u.gen = t.gen /\ u.turn = t.turn
    /\ u.at \in {"launching", "ready"}
    /\ u.at = "launching" => Unlaunched(n)

(* The task of the current generation goes on as N, before its Runtime is  *)
(* ready: it lets go of its source, or it has launched.                    *)
LEMMA TaskStep ==
    ASSUME OInv, IInv', NEW t \in starts, NEW n, NEW N,
           t.at # "ready", t.gen = rt[t.sess].gen,
           rt' = [rt EXCEPT ![t.sess] = n], starts' = (starts \ {t}) \cup N,
           UNCHANGED <<queue, closing, mode>>,
           Good(n, mode), n.src = None, n.gen = rt[t.sess].gen,
           n.status = rt[t.sess].status, n.turn = rt[t.sess].turn,
           n.waiter = rt[t.sess].waiter, n.died = rt[t.sess].died,
           n.finGen = rt[t.sess].finGen,
           \A u \in N : GoesOn(t, u, n) /\ \A x \in N : x = u,
           rt[t.sess].status = "stopping" \/ N # {},
           mode # "open" => /\ mode = "closing" /\ rt[t.sess].finGen # 0
                            /\ <<t.sess, rt[t.sess].finGen>> \in closing
    PROVE  OInv' /\ FromRest
<1> DEFINE s == t.sess
<1>1. /\ s \in Session /\ rt[s].gen \in Nat
      /\ Unlaunched(rt[s]) /\ ~rt[s].died
      /\ Rising(rt[s]) /\ t.turn => rt[s].turn /\ ~rt[s].waiter
      /\ \A x \in starts : x.sess = s /\ x.gen = t.gen => x = t
  BY TaskFacts, RecordFacts DEF OInv, StartsGood
<1>2. rt'[s] = n /\ \A x \in Session \ {s} : rt'[x] = rt[x]
  BY <1>1, RecordFacts
<1>3. \A x \in Session : rt'[x].gen = rt[x].gen /\ rt'[x].status = rt[x].status
  BY <1>2
<1>4. \A x \in Session : Good(rt'[x], mode')
  <2>1. \A x \in Session : Good(rt[x], mode)
    BY RecordFacts
  <2> QED
    BY <1>2, <2>1
<1>5. StartsGood'
  <2> SUFFICES ASSUME NEW y \in starts'
               PROVE  /\ \A x \in starts' : x.sess = y.sess /\ x.gen = y.gen => x = y
                      /\ y.gen = rt'[y.sess].gen =>
                           /\ y.at # "ready" => Unlaunched(rt'[y.sess]) /\ ~rt'[y.sess].died
                           /\ y.at # "source" => rt'[y.sess].src = None
                           /\ Rising(rt'[y.sess]) /\ y.turn =>
                                rt'[y.sess].turn /\ ~rt'[y.sess].waiter
    BY DEF StartsGood
  <2>1. CASE y \in N
    <3>1. \A x \in starts' : x.sess = y.sess /\ x.gen = y.gen => x = y
      BY <1>1, <2>1 DEF GoesOn
    <3>2. y.at # "ready" => Unlaunched(n)
      BY <2>1 DEF GoesOn
    <3>3. Rising(n) /\ y.turn => n.turn /\ ~n.waiter
      BY <1>1, <2>1 DEF Rising, GoesOn
    <3> QED
      BY <1>1, <1>2, <2>1, <3>1, <3>2, <3>3 DEF GoesOn
  <2>2. CASE y \in starts \ {t}
    <3>1. y.sess \in Session /\ \A x \in starts : x.sess = y.sess /\ x.gen = y.gen => x = y
      BY <2>2, TaskFacts
    <3>2. ~(y.sess = s /\ y.gen = t.gen)
      BY <1>1, <2>2
    <3>3. \A x \in starts' : x.sess = y.sess /\ x.gen = y.gen => x = y
      BY <2>2, <3>1, <3>2 DEF GoesOn
    <3>4. CASE y.sess = s
      BY <1>2, <3>2, <3>3, <3>4
    <3>5. CASE y.sess # s
      <4>1. rt'[y.sess] = rt[y.sess]
        BY <1>2, <3>1, <3>5
      <4> QED
        BY <2>2, <3>3, <4>1 DEF OInv, StartsGood
    <3> QED
      BY <3>4, <3>5
  <2> QED
    BY <2>1, <2>2
<1>6. TurnStarts'
  <2> SUFFICES ASSUME "slow" \notin Env, mode = "open", NEW x \in Session,
                      Rising(rt'[x]), rt'[x].turn, ~rt'[x].waiter
               PROVE  \E y \in starts' : y.sess = x /\ y.gen = rt'[x].gen /\ y.turn
    BY DEF TurnStarts
  <2>1. Rising(rt[x]) /\ rt[x].turn /\ ~rt[x].waiter
    BY <1>2 DEF Rising
  <2>2. PICK y \in starts : y.sess = x /\ y.gen = rt[x].gen /\ y.turn
    BY <2>1 DEF OInv, TurnStarts
  <2>3. CASE y # t
    BY <1>3, <2>2, <2>3
  <2>4. CASE y = t
    <3>1. rt[s].status # "stopping"
      BY <2>1, <2>2, <2>4 DEF Rising
    <3>2. PICK u \in N : TRUE
      BY <3>1
    <3> QED
      BY <1>3, <2>2, <2>4, <3>2 DEF GoesOn
  <2> QED
    BY <2>3, <2>4
<1>7. SourcesGood'
  <2> SUFFICES ASSUME NEW x \in Session, rt'[x].src # None
               PROVE  /\ SourceOver(rt'[x].src, rt')
                      /\ \A y \in Session : rt'[y].src = rt'[x].src => y = x
    BY DEF SourcesGood
  <2>1. x # s /\ rt'[x].src = rt[x].src /\ rt[x].src # None
    BY <1>2
  <2>2. SourceOver(rt[x].src, rt) /\ \A y \in Session : rt[y].src = rt[x].src => y = x
    BY <2>1 DEF OInv, SourcesGood
  <2>3. \A y \in Session : rt'[y].src = rt[x].src => y = x
    BY <1>2, <2>1, <2>2
  <2> DEFINE p == rt[x].src
  <2>4. p[1] \in Session
    BY <2>1, RecordFacts DEF Runtime, Source
  <2>5. SourceOver(p, rt')
    <3> HIDE DEF p
    <3>1. CASE p[1] = s
      <4>1. Over(rt[s]) => Over(n)
        BY DEF Over, Resting
      <4>2. SourceOver(p, rt)
        BY <2>2 DEF p
      <4> QED
        BY <1>1, <1>2, <3>1, <4>1, <4>2 DEF SourceOver
    <3>2. CASE p[1] # s
      <4>1. rt'[p[1]] = rt[p[1]]
        BY <1>2, <2>4, <3>2
      <4>2. SourceOver(p, rt)
        BY <2>2 DEF p
      <4> QED
        BY <4>1, <4>2 DEF SourceOver
    <3> QED
      BY <3>1, <3>2
  <2> QED
    BY <2>1, <2>3, <2>5
<1>8. ClosingGood'
  <2> SUFFICES ASSUME mode # "open"
               PROVE  /\ queue = <<>>
                      /\ \A x \in Session :
                           \/ rt'[x].died
                           \/ rt'[x].cleanup
                           \/ Vacant(rt'[x]) /\ ~Launching(x)'
                           \/ /\ mode = "closing"
                              /\ rt'[x].finGen # 0 /\ <<x, rt'[x].finGen>> \in closing
    BY DEF ClosingGood
  <2>1. ASSUME NEW x \in Session, x # s
        PROVE  rt'[x] = rt[x] /\ (Launching(x)' => Launching(x))
    <3>1. rt'[x] = rt[x]
      BY <1>2, <2>1
    <3>2. Launching(x)' => Launching(x)
      BY <2>1 DEF Launching, GoesOn
    <3> QED
      BY <3>1, <3>2
  <2>2. rt'[s].finGen = rt[s].finGen
    BY <1>2
  <2> QED
    BY <1>1, <2>1, <2>2 DEF OInv, ClosingGood
<1>9. QueueGood'
  BY <1>3, SameQueue
<1>10. FromRest
  BY <1>3 DEF FromRest
<1> QED
  BY <1>4, <1>5, <1>6, <1>7, <1>8, <1>9, <1>10 DEF OInv

(* A claim of the generation of a start that holds the lifecycle_lock.     *)
LEMMA GivenUp ==
    ASSUME OInv, NEW t \in starts, t.gen = rt[t.sess].gen,
           Held(rt[t.sess]), NEW final
    PROVE  /\ ~Rising(Begin(rt[t.sess], t.gen, final))
           /\ rt[t.sess].status # "queued"
<1> DEFINE r == rt[t.sess]
<1>1. r \in Runtime /\ Owned(r)
  BY TaskFacts, RecordFacts
<1>2. r.status # "queued"
  BY DEF Held
<1>3. CASE r.status = "stopping"
  <2>1. Begin(r, t.gen, final) = r
    BY <1>1, <1>3 DEF Begin, Claimable, Owned
  <2> QED
    BY <1>2, <1>3, <2>1 DEF Rising
<1>4. CASE r.status \in {"starting", "waiting_mcp_trust"}
  <2>1. Claimable(r, t.gen)
    BY <1>1, <1>4 DEF Claimable, Owned
  <2>2. Begin(r, t.gen, final).status = "stopping"
    BY <1>1, <2>1 DEF Begin, Runtime
  <2> QED
    BY <1>2, <2>2 DEF Rising
<1> QED
  BY <1>3, <1>4 DEF Held

(* The steps of _start_runtime.                                            *)
LEMMA StartFollows ==
    ASSUME OInv, IInv', NEW t \in starts, Start(t)
    PROVE  OInv' /\ Advances
<1> DEFINE s == t.sess
<1>1. /\ s \in Session /\ t \in StartTask /\ rt \in [Session -> Runtime]
      /\ rt[s] \in Runtime /\ Owned(rt[s]) /\ Good(rt[s], mode)
  BY TaskFacts, RecordFacts
<1>2. /\ t.at # "source" => t.gen = rt[s].gen /\ Held(rt[s]) /\ rt[s].src = None
      /\ t.gen = rt[s].gen /\ t.at # "ready" =>
            Unlaunched(rt[s]) /\ ~rt[s].died /\ rt[s].status # "waiting_mcp_trust"
      /\ t.gen = rt[s].gen /\ Rising(rt[s]) /\ t.turn => rt[s].turn /\ ~rt[s].waiter
  <2>1. t.gen = rt[s].gen =>
              /\ t.at # "ready" => Unlaunched(rt[s]) /\ ~rt[s].died
              /\ t.at # "source" => rt[s].src = None
              /\ Rising(rt[s]) /\ t.turn => rt[s].turn /\ ~rt[s].waiter
    BY DEF OInv, StartsGood
  <2>2. Unlaunched(rt[s]) => rt[s].status # "waiting_mcp_trust"
    BY <1>1 DEF Good, Unlaunched
  <2> QED
    BY <2>1, <2>2, TaskFacts
<1>3. starts \ {t} \subseteq starts /\ starts \ (starts \ {t}) \subseteq {t}
  OBVIOUS
<1>4. ASSUME t.at # "source", NEW final,
             rt' = [rt EXCEPT ![s] = Begin(rt[s], t.gen, final)],
             starts' = starts \ {t}, UNCHANGED <<queue, closing, mode>>
      PROVE  OInv' /\ Advances
  <2>1. ~Rising(Begin(rt[s], t.gen, final)) /\ rt[s].status # "queued"
    BY <1>2, <1>4, GivenUp
  <2> QED
    BY <1>1, <1>3, <1>4, <2>1, ClaimFollows
<1>5. CASE StartChecks(t)
  <2>1. t.at = "source" /\ UNCHANGED <<queue, closing, mode>>
    BY <1>5 DEF StartChecks
  <2>2. CASE ~StartIsCurrent(t) /\ starts' = starts \ {t} /\ UNCHANGED rt
    <3>1. \A x \in Session : Good(rt'[x], mode) /\ Follows(rt[x], rt'[x])
      BY <2>2, Stays
    <3>2. mode = "open" /\ t.gen = rt[s].gen => ~Rising(rt[s])
      BY <1>2, <2>1, <2>2 DEF StartIsCurrent, Rising
    <3> QED
      BY <1>3, <2>1, <2>2, <3>1, <3>2, FollowStep
  <2>3. CASE /\ StartIsCurrent(t) /\ starts' = starts \ {t}
             /\ rt' = [rt EXCEPT ![s] = Begin(@, t.gen, "error")]
    <3>1. rt' = [rt EXCEPT ![s] = Begin(rt[s], t.gen, "error")]
      BY <1>1, <2>3
    <3>2. t.gen = rt[s].gen /\ rt[s].status = "starting" /\ Held(rt[s])
      BY <1>1, <2>3 DEF StartIsCurrent, Held, Owned
    <3>3. ~Rising(Begin(rt[s], t.gen, "error"))
      BY <3>2, GivenUp
    <3> QED
      BY <1>1, <1>3, <2>1, <2>3, <3>1, <3>2, <3>3, ClaimFollows
  <2>4. CASE /\ StartIsCurrent(t)
             /\ starts' = (starts \ {t}) \cup {[t EXCEPT !.at = "launching"]}
             /\ rt' = [rt EXCEPT ![s].src = None]
    <3> DEFINE n == [rt[s] EXCEPT !.src = None]
               u == [t EXCEPT !.at = "launching"]
    <3>1. mode = "open" /\ t.gen = rt[s].gen /\ rt[s].status = "starting"
      BY <2>4 DEF StartIsCurrent
    <3>2. rt' = [rt EXCEPT ![s] = n] /\ starts' = (starts \ {t}) \cup {u}
      BY <1>1, <2>4
    <3>3. /\ n.status = rt[s].status /\ n.gen = rt[s].gen /\ n.proc = rt[s].proc
          /\ n.ref = rt[s].ref /\ n.turn = rt[s].turn /\ n.busy = rt[s].busy
          /\ n.waiter = rt[s].waiter /\ n.control = rt[s].control /\ n.src = None
          /\ n.token = rt[s].token /\ n.finGen = rt[s].finGen /\ n.fin = rt[s].fin
          /\ n.cleanup = rt[s].cleanup /\ n.died = rt[s].died
      BY <1>1 DEF Runtime
    <3>4. u.sess = s /\ u.gen = t.gen /\ u.turn = t.turn /\ u.at = "launching"
      BY <1>1 DEF StartTask
    <3> HIDE DEF n, u
    <3>5. Good(n, mode)
      BY <1>1, <3>3 DEF Good, Resting, Rising, Up, Over, Unlaunched
    <3>6. Unlaunched(n)
      BY <1>2, <2>1, <3>1, <3>3 DEF Unlaunched
    <3> DEFINE N == {u}
    <3>7. \A x \in N : GoesOn(t, x, n) /\ \A y \in N : y = x
      BY <3>4, <3>6 DEF GoesOn
    <3>8. starts' = (starts \ {t}) \cup N /\ N # {}
      BY <3>2
    <3> HIDE DEF N
    <3>9. OInv' /\ FromRest
      BY <1>2, <2>1, <3>1, <3>2, <3>3, <3>5, <3>7, <3>8, TaskStep
    <3> QED
      BY <1>5, <3>9 DEF Advances, Admitting
  <2> QED
    BY <1>5, <2>2, <2>3, <2>4 DEF StartChecks
<1>6. CASE StartLaunches(t)
  <2> DEFINE n == [rt[s] EXCEPT !.proc = "live", !.ref = TRUE]
             u == [t EXCEPT !.at = "ready"]
  <2>1. /\ t.at = "launching" /\ UNCHANGED <<queue, closing, mode>>
        /\ \/ /\ StartIsCurrent(t)
              /\ rt' = [rt EXCEPT ![s] = n]
              /\ starts' = (starts \ {t}) \cup {u}
           \/ /\ ~StartIsCurrent(t)
              /\ rt' = [rt EXCEPT ![s] = Begin(n, t.gen, "stopped")]
              /\ starts' = starts \ {t}
    BY <1>6 DEF StartLaunches
  <2>2. /\ t.gen = rt[s].gen /\ rt[s].status \in {"starting", "stopping"}
        /\ rt[s].src = None /\ Unlaunched(rt[s]) /\ ~rt[s].died
        /\ rt[s].fin \in {"none", "waiting"}
    BY <1>2, <2>1 DEF Held
  <2>3. /\ n.status = rt[s].status /\ n.gen = rt[s].gen /\ n.proc = "live"
        /\ n.ref = TRUE /\ n.turn = rt[s].turn /\ n.busy = rt[s].busy
        /\ n.waiter = rt[s].waiter /\ n.control = rt[s].control /\ n.src = rt[s].src
        /\ n.token = rt[s].token /\ n.finGen = rt[s].finGen /\ n.fin = rt[s].fin
        /\ n.cleanup = rt[s].cleanup /\ n.died = rt[s].died
    BY <1>1 DEF Runtime
  <2>4. u.sess = s /\ u.gen = t.gen /\ u.turn = t.turn /\ u.at = "ready"
    BY <1>1 DEF StartTask
  <2> HIDE DEF n, u
  <2>5. Good(n, mode)
    BY <1>1, <2>2, <2>3 DEF Good, Resting, Rising, Up, Over, Unlaunched
  <2>6. mode # "open" => /\ mode = "closing" /\ rt[s].finGen # 0
                         /\ <<s, rt[s].finGen>> \in closing
    <3>1. Launching(s) /\ ~rt[s].cleanup
      BY <2>1, <2>2 DEF Launching, Unlaunched
    <3> QED
      BY <1>1, <2>2, <3>1 DEF OInv, ClosingGood
  <2>7. CASE StartIsCurrent(t) /\ rt' = [rt EXCEPT ![s] = n]
             /\ starts' = (starts \ {t}) \cup {u}
    <3>1. mode = "open" /\ rt[s].status = "starting"
      BY <2>7 DEF StartIsCurrent
    <3> DEFINE N == {u}
    <3>2. \A x \in N : GoesOn(t, x, n) /\ \A y \in N : y = x
      BY <2>4 DEF GoesOn
    <3>3. starts' = (starts \ {t}) \cup N /\ N # {}
      BY <2>7
    <3> HIDE DEF N
    <3>4. OInv' /\ FromRest
      BY <2>1, <2>2, <2>3, <2>5, <2>7, <3>1, <3>2, <3>3, TaskStep
    <3> QED
      BY <1>6, <3>4 DEF Advances, Admitting
  <2>8. CASE ~StartIsCurrent(t) /\ rt' = [rt EXCEPT ![s] = Begin(n, t.gen, "stopped")]
             /\ starts' = starts \ {t}
    <3>1. rt[s].finGen # 0 /\ rt[s].status = "stopping"
      BY <1>1, <2>2, <2>6, <2>8 DEF StartIsCurrent, Owned
    <3>2. Begin(n, t.gen, "stopped") = n
      BY <2>3, <3>1 DEF Begin, Claimable
    <3> DEFINE N == {}
    <3>3. rt' = [rt EXCEPT ![s] = n] /\ starts' = (starts \ {t}) \cup N
      BY <2>8, <3>2
    <3>4. \A x \in N : GoesOn(t, x, n) /\ \A y \in N : y = x
      OBVIOUS
    <3> HIDE DEF N
    <3>5. OInv' /\ FromRest
      BY <2>1, <2>2, <2>3, <2>5, <2>6, <3>1, <3>3, <3>4, TaskStep
    <3> QED
      BY <1>6, <3>5 DEF Advances, Admitting
  <2> QED
    BY <2>1, <2>7, <2>8
<1>7. CASE StartLaunchFails(t)
  <2>1. rt' = [rt EXCEPT ![s] = Begin(rt[s], t.gen, "error")]
    BY <1>1, <1>7 DEF StartLaunchFails
  <2> QED
    BY <1>4, <1>7, <2>1 DEF StartLaunchFails
<1>8. CASE StartCompletes(t)
  <2> DEFINE status == IF t.turn THEN "running" ELSE "idle"
             n == [rt[s] EXCEPT !.status = status, !.busy = t.turn]
  <2>1. /\ rt' = [rt EXCEPT ![s] = n] /\ t.at = "ready"
        /\ rt[s].status = "starting" /\ rt[s].proc = "live" /\ starts' = starts \ {t}
        /\ UNCHANGED <<queue, closing, mode>>
    BY <1>1, <1>8 DEF StartCompletes, Live
  <2>2. /\ n.status = status /\ n.gen = rt[s].gen /\ n.proc = rt[s].proc
        /\ n.ref = rt[s].ref /\ n.turn = rt[s].turn /\ n.busy = t.turn
        /\ n.waiter = rt[s].waiter /\ n.control = rt[s].control /\ n.src = rt[s].src
        /\ n.token = rt[s].token /\ n.finGen = rt[s].finGen /\ n.fin = rt[s].fin
        /\ n.cleanup = rt[s].cleanup /\ n.died = rt[s].died
    BY <1>1 DEF Runtime
  <2>3. t.gen = rt[s].gen /\ Rising(rt[s])
    BY <1>2, <2>1 DEF Rising
  <2>4. t.turn => rt[s].turn /\ ~rt[s].waiter
    BY <1>2, <2>3
  <2>5. mode = "open"
    BY <1>1, <2>1 DEF OInv, ClosingGood, Good, Owned, Vacant
  <2>6. ~t.turn /\ rt[s].turn /\ "slow" \notin Env => rt[s].waiter
    <3>1. \A y \in starts : y.sess = s /\ y.gen = rt[s].gen => y = t
      BY <2>3, TaskFacts
    <3> QED
      BY <1>1, <2>3, <2>5, <3>1 DEF OInv, TurnStarts
  <2>7. status \in {"running", "idle"} /\ (status = "running" <=> t.turn) /\ t.turn \in BOOLEAN
    BY <1>1 DEF StartTask
  <2> HIDE DEF n, status
  <2>8. Good(n, mode)
    BY <1>1, <2>1, <2>2, <2>4, <2>6, <2>7
       DEF Good, Resting, Rising, Up, Over, Unlaunched
  <2>9. Follows(rt[s], n)
    BY <2>1, <2>2, <2>7
       DEF Follows, Passes, Resting, Rising, Over, Unlaunched, Vacant
  <2>10. ~Rising(n)
    BY <2>2, <2>7 DEF Rising
  <2> QED
    BY <1>1, <1>3, <2>1, <2>8, <2>9, <2>10, OneFollows
<1>9. CASE StartFails(t)
  <2>1. rt' = [rt EXCEPT ![s] = Begin(rt[s], t.gen, "error")]
    BY <1>1, <1>9 DEF StartFails
  <2> QED
    BY <1>4, <1>9, <2>1 DEF StartFails
<1> QED
  BY <1>5, <1>6, <1>7, <1>8, <1>9 DEF Start

-----------------------------------------------------------------------------
(* Steps of the whole pool.                                                *)

(* The sweep of expired Sessions, and the service of the queue after it.   *)
LEMMA SweepFollows ==
    ASSUME OInv, IInv', Sweep \/ SweepEnds
    PROVE  OInv' /\ Advances
<1>1. CASE Sweep
  <2>1. PICK E \in SUBSET {s \in Session : Expirable(rt[s])} :
           rt' = [s \in Session |->
                    IF s \in E THEN Begin(rt[s], rt[s].gen, "stopped") ELSE rt[s]]
    BY <1>1 DEF Sweep
  <2>2. ASSUME NEW s \in Session
        PROVE  Good(rt'[s], mode) /\ Follows(rt[s], rt'[s])
    <3>1. CASE s \in E
      <4>1. rt'[s] = Begin(rt[s], rt[s].gen, "stopped") /\ rt[s].status # "queued"
        BY <2>1, <3>1 DEF Expirable, GenuinelyIdle
      <4>2. rt[s] \in Runtime /\ Owned(rt[s]) /\ Good(rt[s], mode)
        BY RecordFacts
      <4> QED
        BY <4>1, <4>2, BeginFollows
    <3>2. CASE s \notin E
      <4>1. rt'[s] = rt[s]
        BY <2>1, <3>2
      <4> QED
        BY <4>1, Stays
    <3> QED
      BY <3>1, <3>2
  <2>3. UNCHANGED <<queue, closing, mode>> /\ starts' \subseteq starts
        /\ starts \ starts' = {}
    BY <1>1 DEF Sweep
  <2> QED
    BY <2>2, <2>3, FollowStep
<1>2. CASE SweepEnds
  <2>1. \A s \in Session : Good(rt[s], mode) /\ Follows(rt[s], rt[s])
    BY Stays
  <2>2. ScheduleWaiting(rt) /\ UNCHANGED <<closing, mode>>
    BY <1>2 DEF SweepEnds
  <2>3. OInv' /\ FromRest
    BY <2>1, <2>2, ScheduleBegins
  <2> QED
    BY <1>2, <2>3 DEF Advances, Admitting
<1> QED
  BY <1>1, <1>2

(* What is neither stopped by shutdown nor died by itself is gone.         *)
LEMMA LeftAlone ==
    ASSUME OInv, NEW s \in Session, ~Stoppable(rt[s]), ~rt[s].died
    PROVE  Vacant(rt[s]) /\ ~Launching(s)
<1>1. rt[s] \in Runtime /\ Owned(rt[s]) /\ Good(rt[s], mode)
  BY RecordFacts
<1>2. /\ rt[s].proc # "live" /\ rt[s].status # "starting" /\ rt[s].finGen = 0
      /\ ~rt[s].cleanup /\ rt[s].status # "stopping"
  BY <1>1 DEF Stoppable, Live, Owned
<1>3. Resting(rt[s])
  <2>1. rt[s].proc \in {"none", "exited"} /\ rt[s].status \in Status
    BY <1>1, <1>2 DEF Runtime
  <2> QED
    BY <1>1, <1>2, <2>1 DEF Good, Up, Over, Resting, Status
<1>4. Vacant(rt[s])
  BY <1>1, <1>2, <1>3 DEF Good, Unlaunched, Vacant
<1>5. ~Launching(s)
  BY <1>3, TaskFacts DEF Launching, Held, Resting
<1> QED
  BY <1>4, <1>5

(* The end of the application.                                             *)
LEMMA ShutdownFollows ==
    ASSUME OInv, IInv', Shutdown
    PROVE  OInv' /\ Advances
<1> DEFINE C == {s \in Session : Stoppable(rt[s])}
<1>1. /\ rt' = [s \in Session |->
                  IF s \in C THEN Begin(rt[s], rt[s].gen, "stopped")
                  ELSE IF rt[s].status = "queued" THEN [rt[s] EXCEPT !.status = "stopped"]
                  ELSE rt[s]]
      /\ closing' = {<<s, rt[s].gen>> : s \in C}
      /\ queue' = <<>> /\ mode' = "closing" /\ starts' = starts
  BY DEF Shutdown
<1>2. ASSUME NEW s \in Session
      PROVE  /\ rt[s] \in Runtime /\ Owned(rt[s]) /\ Good(rt[s], "closing")
             /\ s \in C => rt[s].status # "queued"
  <2>1. rt[s] \in Runtime /\ Owned(rt[s]) /\ Good(rt[s], mode)
    BY RecordFacts
  <2>2. Good(rt[s], "closing")
    BY <2>1 DEF Good
  <2>3. s \in C => rt[s].status # "queued"
    BY <2>1 DEF Stoppable, Live, Good, Resting, Unlaunched, Owned
  <2> QED
    BY <2>1, <2>2, <2>3
<1>3. ASSUME NEW s \in Session
      PROVE  /\ Good(rt'[s], "closing") /\ Passes(rt[s], rt'[s])
             /\ rt'[s].status # "queued"
  <2>1. CASE s \in C
    <3>1. rt'[s] = Begin(rt[s], rt[s].gen, "stopped")
      BY <1>1, <2>1
    <3> QED
      BY <1>2, <2>1, <3>1, BeginFollows DEF Follows
  <2>2. CASE s \notin C /\ rt[s].status = "queued"
    <3> DEFINE n == [rt[s] EXCEPT !.status = "stopped"]
    <3>1. rt'[s] = n
      BY <1>1, <2>2
    <3>2. /\ Written(rt[s], n) /\ n.status = "stopped" /\ n.turn = rt[s].turn
          /\ n.busy = rt[s].busy /\ n.waiter = rt[s].waiter /\ n.control = rt[s].control
      BY <1>2 DEF Runtime, Written
    <3> HIDE DEF n
    <3>3. Good(n, "closing")
      BY <1>2, <2>2, <3>2 DEF Good, Resting, Rising, Up, Over, Unlaunched, Written
    <3>4. Passes(rt[s], n)
      BY <2>2, <3>2 DEF Passes, Resting, Rising, Over, Unlaunched, Vacant, Written
    <3> QED
      BY <3>1, <3>2, <3>3, <3>4
  <2>3. CASE s \notin C /\ rt[s].status # "queued"
    <3>1. rt'[s] = rt[s]
      BY <1>1, <2>3
    <3> QED
      BY <1>2, <2>3, <3>1, Stays DEF Follows
  <2> QED
    BY <2>1, <2>2, <2>3
<1>4. StartsGood' /\ SourcesGood' /\ Advances
  <2>1. starts' \subseteq starts
    BY <1>1
  <2> QED
    BY <1>3, <2>1, PassKeeps
<1>5. TurnStarts'
  BY <1>1 DEF TurnStarts
<1>6. QueueGood'
  <2>1. DOMAIN queue' = {}
    BY <1>1
  <2> QED
    BY <1>3, <2>1 DEF QueueGood
<1>7. ClosingGood'
  <2> SUFFICES ASSUME NEW s \in Session
               PROVE  \/ rt'[s].died
                      \/ Vacant(rt'[s]) /\ ~Launching(s)'
                      \/ rt'[s].finGen # 0 /\ <<s, rt'[s].finGen>> \in closing'
    BY <1>1 DEF ClosingGood
  <2>1. CASE s \in C
    <3>1. rt'[s] = Begin(rt[s], rt[s].gen, "stopped") /\ <<s, rt[s].gen>> \in closing'
      BY <1>1, <2>1
    <3>2. CASE ~Claimable(rt[s], rt[s].gen)
      <4>1. rt'[s] = rt[s]
        BY <3>1, <3>2 DEF Begin
      <4>2. rt[s].finGen # 0
        BY <2>1, <3>2 DEF Stoppable, Claimable, Live
      <4>3. rt[s].finGen = rt[s].gen
        BY <1>2, <4>2 DEF Owned
      <4> QED
        BY <3>1, <4>1, <4>2, <4>3
    <3>3. CASE Claimable(rt[s], rt[s].gen)
      <4>1. rt'[s].finGen = rt[s].gen /\ rt'[s].status = "stopping"
        BY <1>2, <3>1, <3>3 DEF Begin, Runtime
      <4>2. Owned(rt'[s])
        BY DEF IInv
      <4>3. rt'[s].finGen # 0
        BY <4>1, <4>2 DEF Owned
      <4> QED
        BY <3>1, <4>1, <4>3
    <3> QED
      BY <3>2, <3>3
  <2>2. CASE s \notin C
    <3>1. rt[s].died \/ (Vacant(rt[s]) /\ ~Launching(s))
      BY <2>2, LeftAlone
    <3>2. Launching(s)' <=> Launching(s)
      BY <1>1 DEF Launching
    <3> QED
      BY <1>3, <3>1, <3>2 DEF Passes
  <2> QED
    BY <2>1, <2>2
<1>8. \A s \in Session : Good(rt'[s], mode')
  BY <1>1, <1>3
<1> QED
  BY <1>4, <1>5, <1>6, <1>7, <1>8 DEF OInv

LEMMA ReturnFollows ==
    ASSUME OInv, IInv', ShutdownReturns
    PROVE  OInv' /\ Advances
<1>1. /\ mode = "closing" /\ mode' = "closed" /\ starts' = {} /\ queue' = queue
      /\ \A p \in closing : rt[p[1]].finGen # p[2]
      /\ rt' = [s \in Session |-> [rt[s] EXCEPT !.token = 0]]
  BY DEF ShutdownReturns
<1>2. ASSUME NEW s \in Session
      PROVE  /\ rt'[s].status = rt[s].status /\ rt'[s].cleanup = rt[s].cleanup
             /\ rt'[s].died = rt[s].died
             /\ Good(rt'[s], mode') /\ Passes(rt[s], rt'[s])
  <2> DEFINE n == [rt[s] EXCEPT !.token = 0]
  <2>1. rt[s] \in Runtime /\ Good(rt[s], mode)
    BY RecordFacts
  <2>2. rt'[s] = n
    BY <1>1
  <2>3. /\ n.status = rt[s].status /\ n.gen = rt[s].gen /\ n.proc = rt[s].proc
        /\ n.ref = rt[s].ref /\ n.turn = rt[s].turn /\ n.busy = rt[s].busy
        /\ n.waiter = rt[s].waiter /\ n.control = rt[s].control /\ n.src = rt[s].src
        /\ n.token = 0 /\ n.finGen = rt[s].finGen /\ n.fin = rt[s].fin
        /\ n.cleanup = rt[s].cleanup /\ n.died = rt[s].died
    BY <2>1 DEF Runtime
  <2> HIDE DEF n
  <2>4. Good(n, mode')
    BY <1>1, <2>1, <2>3 DEF Good, Resting, Rising, Up, Over, Unlaunched
  <2>5. Passes(rt[s], n)
    BY <2>3 DEF Passes, Resting, Rising, Over, Unlaunched, Vacant
  <2> QED
    BY <2>2, <2>3, <2>4, <2>5
<1>3. StartsGood' /\ SourcesGood' /\ Advances
  <2>1. starts' \subseteq starts
    BY <1>1
  <2> QED
    BY <1>2, <2>1, PassKeeps
<1>4. TurnStarts'
  BY <1>1 DEF TurnStarts
<1>5. QueueGood'
  BY <1>1, <1>2, SameQueue
<1>6. ClosingGood'
  <2> SUFFICES ASSUME NEW s \in Session
               PROVE  rt'[s].died \/ rt'[s].cleanup \/ (Vacant(rt'[s]) /\ ~Launching(s)')
    BY <1>1 DEF ClosingGood, OInv
  <2>1. ~Launching(s)'
    BY <1>1 DEF Launching
  <2>2. <<s, rt[s].finGen>> \notin closing
    BY <1>1
  <2>3. rt[s].died \/ rt[s].cleanup \/ Vacant(rt[s])
    BY <1>1, <2>2 DEF OInv, ClosingGood
  <2> QED
    BY <1>2, <2>1, <2>3 DEF Passes
<1> QED
  BY <1>2, <1>3, <1>4, <1>5, <1>6 DEF OInv

-----------------------------------------------------------------------------
(* The invariant.                                                          *)

(* Before the first call every Session is at rest.                         *)
LEMMA InitOInv == Init => OInv
<1> SUFFICES ASSUME Init PROVE OInv
  OBVIOUS
<1>1. IInv
  BY InitIInv
<1>2. Good(Fresh, "open") /\ Fresh.status = "stopped" /\ Fresh.src = None
  BY DEF Good, Fresh, Resting, Rising, Up, Over, Unlaunched
<1>3. /\ \A s \in Session : rt[s] = Fresh
      /\ queue = <<>> /\ starts = {} /\ mode = "open"
  BY DEF Init
<1> QED
  BY <1>1, <1>2, <1>3
     DEF OInv, StartsGood, TurnStarts, QueueGood, SourcesGood, ClosingGood, Rising

(* Every step keeps the invariant, and begins generations only from rest.  *)
LEMMA NextOInv == OInv /\ [Next]_vars => OInv' /\ Advances
<1> SUFFICES ASSUME OInv, [Next]_vars PROVE OInv' /\ Advances
  OBVIOUS
<1>1. IInv'
  BY NextIInv DEF OInv
<1>2. ASSUME NEW s \in Session, Request(s) PROVE OInv' /\ Advances
  BY <1>1, <1>2, RequestFollows
<1>3. ASSUME NEW s \in Session, Core(s) PROVE OInv' /\ Advances
  BY <1>1, <1>3, CoreFollows
<1>4. ASSUME NEW s \in Session, Generations(s) PROVE OInv' /\ Advances
  BY <1>1, <1>4, GenerationsFollow
<1>5. ASSUME NEW t \in starts, Start(t) PROVE OInv' /\ Advances
  BY <1>1, <1>5, StartFollows
<1>6. CASE Sweep \/ SweepEnds
  BY <1>1, <1>6, SweepFollows
<1>7. CASE Shutdown
  BY <1>1, <1>7, ShutdownFollows
<1>8. CASE ShutdownReturns
  BY <1>1, <1>8, ReturnFollows
<1>9. CASE UNCHANGED vars
  <2>1. UNCHANGED <<queue, closing, mode>> /\ starts' \subseteq starts
        /\ starts \ starts' = {} /\ rt' = rt
    BY <1>9 DEF vars
  <2>2. \A s \in Session : Good(rt'[s], mode) /\ Follows(rt[s], rt'[s])
    BY <2>1, Stays
  <2> QED
    BY <1>1, <2>1, <2>2, FollowStep
<1> QED
  BY <1>2, <1>3, <1>4, <1>5, <1>6, <1>7, <1>8, <1>9 DEF Next, Ended

LEMMA OrderHolds == Spec => []OInv
<1>1. OInv /\ [Next]_vars => OInv'
  BY NextOInv
<1> QED
  BY <1>1, InitOInv, PTL DEF Spec

-----------------------------------------------------------------------------
(* What follows from it.                                                   *)

(* The queue and the statuses never disagree: whatever calls, finalizers   *)
(* and handoffs do, a Session is "queued" exactly when _queue holds one    *)
(* item of it, and it then owns its Turn and nothing else of the pool.     *)
THEOREM QueueMatchesStatus == Spec => []QueueAgrees
<1>1. ASSUME OInv PROVE QueueAgrees
  <2>1. QueueGood
    BY <1>1 DEF OInv
  <2>2. ASSUME NEW s \in Session, rt[s].status = "queued"
        PROVE  /\ rt[s].turn /\ ~rt[s].busy /\ rt[s].finGen = 0
               /\ rt[s].proc = "none" /\ ~rt[s].cleanup
    <3>1. Owned(rt[s]) /\ Good(rt[s], mode)
      BY <1>1, RecordFacts
    <3> QED
      BY <2>2, <3>1 DEF Owned, Good, Resting, Unlaunched
  <2> QED
    BY <2>1, <2>2 DEF QueueGood, QueueAgrees
<1> QED
  BY <1>1, OrderHolds, PTL

(* The slot of a Runtime is promised to one target at most, and only once  *)
(* its generation has been claimed: _dispatch_from_idle, the eviction of   *)
(* _prepare_start_locked and a message that arrives in between never give  *)
(* away a Runtime that goes on working.                                    *)
THEOREM SlotPromisedOnce == Spec => []SourcePromisedOnce
<1>1. ASSUME OInv, NEW s \in Session, SourceOccupied(rt, rt[s])
      PROVE  /\ Finalizing(rt[rt[s].src[1]]) \/ rt[rt[s].src[1]].cleanup
             /\ \A x \in Session : rt[x].src = rt[s].src => x = s
  <2> DEFINE v == rt[s].src[1]
  <2>1. rt[s].src # None /\ rt[v].gen = rt[s].src[2] /\ OccupiesSlot(rt[v])
    BY <1>1 DEF SourceOccupied
  <2>2. /\ SourceOver(rt[s].src, rt)
        /\ \A x \in Session : rt[x].src = rt[s].src => x = s
    BY <1>1, <2>1 DEF OInv, SourcesGood
  <2>3. v \in Session
    BY <1>1, <2>1, RecordFacts DEF Runtime, Source
  <2>4. Good(rt[v], mode)
    BY <1>1, <2>3, RecordFacts
  <2>5. Over(rt[v])
    BY <2>1, <2>2 DEF SourceOver
  <2>6. Finalizing(rt[v]) \/ rt[v].cleanup
    BY <2>1, <2>4, <2>5
       DEF Good, Over, Resting, Unlaunched, OccupiesSlot, Finalizing, Live
  <2> QED
    BY <2>2, <2>6
<1>2. OInv => SourcePromisedOnce
  BY <1>1 DEF SourcePromisedOnce
<1> QED
  BY <1>2, OrderHolds, PTL

(* A relay token that authenticates is the one of the current generation:  *)
(* registered from the admission on, revoked before the generation has     *)
(* converged, and never that of an earlier one (_prepare_start_locked, the *)
(* teardown of _run_generation_finalizer).                                 *)
THEOREM TokenBelongsToGeneration == Spec => []TokenBound
<1>1. ASSUME OInv, NEW s \in Session
      PROVE  /\ rt[s].token \in {0, rt[s].gen}
             /\ rt[s].token # 0 => OccupiesSlot(rt[s]) \/ ExitUnnoticed(s)
             /\ mode = "open" /\ Live(rt[s]) /\ ~Finalizing(rt[s]) /\ ~rt[s].cleanup
                   => rt[s].token = rt[s].gen
  <2>1. rt[s] \in Runtime /\ Owned(rt[s]) /\ Good(rt[s], mode)
    BY <1>1, RecordFacts
  <2>2. rt[s].status \in Status /\ rt[s].proc \in {"none", "live", "exited"}
    BY <2>1 DEF Runtime
  <2>3. rt[s].token \in {0, rt[s].gen}
    BY <2>1 DEF Good
  <2>4. rt[s].token # 0 => OccupiesSlot(rt[s]) \/ ExitUnnoticed(s)
    BY <2>1, <2>2
       DEF Good, Status, Resting, Up, OccupiesSlot, ExitUnnoticed, Finalizing, Live
  <2>5. mode = "open" /\ Live(rt[s]) /\ ~Finalizing(rt[s]) /\ ~rt[s].cleanup
           => rt[s].token = rt[s].gen
    BY <2>1, <2>2
       DEF Good, Status, Resting, Rising, Up, Unlaunched, Finalizing, Live
  <2> QED
    BY <2>3, <2>4, <2>5
<1>2. OInv => TokenBound
  BY <1>1 DEF TokenBound
<1> QED
  BY <1>2, OrderHolds, PTL

(* When shutdown has returned, no Turn is queued, and a Sandbox that is    *)
(* left is one whose cleanup failed or whose process ended unnoticed: also *)
(* a launch that was under way when shutdown began has been finalized.     *)
THEOREM NothingLeftAfterShutdown == Spec => []ShutdownLeavesNothing
<1>1. OInv => ShutdownLeavesNothing
  BY DEF OInv, ClosingGood, ShutdownLeavesNothing, HasSandbox, Vacant, Launching, Live
<1> QED
  BY <1>1, OrderHolds, PTL

(* A generation begins only when nothing of the one before is left: no     *)
(* process, no container, no launch under way, no finalizer at work and no *)
(* token, and it is the next one.                                          *)
THEOREM NoOverlap == Spec => GenerationsDoNotOverlap
<1>1. ASSUME OInv, [Next]_vars, NEW s \in Session, rt'[s].gen # rt[s].gen
      PROVE  /\ rt'[s].gen = rt[s].gen + 1
             /\ ~HasSandbox(s) /\ ~FinalizerHoldsLock(s) /\ rt[s].token = 0
  <2>1. rt'[s].gen = rt[s].gen + 1 /\ Resting(rt[s]) /\ ~rt[s].cleanup
    BY <1>1, NextOInv DEF Advances, FromRest
  <2>2. Owned(rt[s]) /\ Good(rt[s], mode)
    BY <1>1, RecordFacts
  <2>3. rt[s].token = 0 /\ Unlaunched(rt[s])
    BY <2>1, <2>2 DEF Good
  <2>4. ~\E t \in starts : t.sess = s /\ t.at = "launching"
    BY <1>1, <2>1, TaskFacts DEF Held, Resting
  <2>5. ~FinalizerHoldsLock(s)
    BY <2>1, <2>2 DEF FinalizerHoldsLock, Owned, Resting
  <2> QED
    BY <2>1, <2>3, <2>4, <2>5 DEF HasSandbox, Unlaunched, Live
<1>2. OInv /\ [Next]_vars =>
         [\A s \in Session : rt'[s].gen # rt[s].gen =>
            /\ rt'[s].gen = rt[s].gen + 1
            /\ ~HasSandbox(s) /\ ~FinalizerHoldsLock(s) /\ rt[s].token = 0]_vars
  BY <1>1
<1> QED
  BY <1>2, OrderHolds, PTL DEF Spec, GenerationsDoNotOverlap

(* An accepted Turn has one carrier as long as its Session is not being    *)
(* finalized: its queue item, the start that will write it, the call that  *)
(* waits for readiness, or Core.  That holds while no call waits longer    *)
(* than its own readiness budget; _send_when_ready leaves the Turn of one  *)
(* that does without a carrier.                                            *)
THEOREM OneCarrierPerTurn ==
    ASSUME "slow" \notin Env
    PROVE  Spec => []TurnCarriedOnce
<1>1. ASSUME OInv, mode = "open", NEW s \in Session, ~Finalizing(rt[s])
      PROVE  Cardinality(Carriers(s)) = IF rt[s].turn THEN 1 ELSE 0
  <2> DEFINE started == \E t \in starts : t.sess = s /\ t.gen = rt[s].gen /\ t.turn
  <2>1. Owned(rt[s]) /\ Good(rt[s], "open") /\ rt[s].status \in Status
    BY <1>1, RecordFacts DEF Runtime
  <2>2. Rising(rt[s]) => (started <=> rt[s].turn /\ ~rt[s].waiter)
    BY <1>1 DEF OInv, StartsGood, TurnStarts
  <2>3. \A c : c \in Carriers(s) <=>
           \/ c = "queue" /\ rt[s].status = "queued"
           \/ c = "start" /\ Rising(rt[s]) /\ started
           \/ c = "waiter" /\ rt[s].waiter
           \/ c = "core" /\ rt[s].busy /\ rt[s].control = None
    BY DEF Carriers, Rising
  <2> HIDE DEF started
  <2>4. rt[s].turn => \E c : \A d : d \in Carriers(s) <=> d = c
    <3>1. CASE rt[s].status = "queued"
      <4>1. rt[s].status = "queued" /\ ~Rising(rt[s]) /\ ~rt[s].waiter /\ ~rt[s].busy
        BY <2>1, <3>1 DEF Good, Resting, Rising
      <4>2. \A d : d \in Carriers(s) <=> d = "queue"
        BY <2>3, <4>1
      <4> QED
        BY <4>2
    <3>2. CASE rt[s].status \in {"stopped", "error"}
      BY <2>1, <3>2 DEF Good
    <3>3. CASE Rising(rt[s]) /\ rt[s].turn
      <4>1. rt[s].status # "queued" /\ ~rt[s].busy /\ (started <=> ~rt[s].waiter)
        BY <2>1, <2>2, <3>3 DEF Owned, Rising
      <4>2. CASE rt[s].waiter
        <5>1. \A d : d \in Carriers(s) <=> d = "waiter"
          BY <2>3, <4>1, <4>2
        <5> QED
          BY <5>1
      <4>3. CASE ~rt[s].waiter
        <5>1. \A d : d \in Carriers(s) <=> d = "start"
          BY <2>3, <3>3, <4>1, <4>3
        <5> QED
          BY <5>1
      <4> QED
        BY <4>2, <4>3
    <3>4. CASE rt[s].status \in {"running", "waiting_permission"}
      <4>1. rt[s].status # "queued" /\ ~Rising(rt[s])
            /\ ~rt[s].waiter /\ rt[s].busy /\ rt[s].control = None
        BY <2>1, <3>4 DEF Good, Rising
      <4>2. \A d : d \in Carriers(s) <=> d = "core"
        BY <2>3, <4>1
      <4> QED
        BY <4>2
    <3>5. CASE rt[s].status = "idle" /\ rt[s].turn
      <4>1. rt[s].status # "queued" /\ ~Rising(rt[s]) /\ rt[s].waiter
            /\ ~(rt[s].busy /\ rt[s].control = None)
        BY <2>1, <3>5 DEF Good, Rising
      <4>2. \A d : d \in Carriers(s) <=> d = "waiter"
        BY <2>3, <4>1
      <4> QED
        BY <4>2
    <3> QED
      BY <1>1, <2>1, <3>1, <3>2, <3>3, <3>4, <3>5 DEF Status, Rising, Finalizing
  <2>5. ~rt[s].turn => \A d : d \notin Carriers(s)
    <3>1. ASSUME ~rt[s].turn
          PROVE  /\ rt[s].status # "queued" /\ ~rt[s].waiter
                 /\ ~(Rising(rt[s]) /\ started) /\ ~(rt[s].busy /\ rt[s].control = None)
      <4>1. rt[s].status # "queued" /\ ~rt[s].waiter /\ ~(Rising(rt[s]) /\ started)
        BY <2>1, <2>2, <3>1 DEF Good
      <4>2. ~(rt[s].busy /\ rt[s].control = None)
        BY <1>1, <2>1, <3>1 DEF Good, Owned, Status, Resting, Finalizing
      <4> QED
        BY <4>1, <4>2
    <3> QED
      BY <2>3, <3>1
  <2>6. CASE rt[s].turn
    <3>1. PICK c : \A d : d \in Carriers(s) <=> d = c
      BY <2>4, <2>6
    <3>2. Carriers(s) = {c}
      BY <3>1
    <3> QED
      BY <2>6, <3>2, FS_Singleton
  <2>7. CASE ~rt[s].turn
    <3>1. Carriers(s) = {}
      BY <2>5, <2>7
    <3> QED
      BY <2>7, <3>1, FS_EmptySet
  <2> QED
    BY <2>6, <2>7
<1>2. OInv => TurnCarriedOnce
  BY <1>1 DEF TurnCarriedOnce
<1> QED
  BY <1>2, OrderHolds, PTL

(* A Runtime that nobody uses can always be expired by sweep_expired, so   *)
(* its slot is not lost to the pool; again unless a call has waited longer *)
(* than its readiness budget, and left a Turn in an idle Runtime.          *)
THEOREM IdleExpires ==
    ASSUME "slow" \notin Env
    PROVE  Spec => []IdleCanExpire
<1>1. ASSUME OInv, NEW s \in Session,
             rt[s].status = "idle", Live(rt[s]), rt[s].leases = {},
             ~rt[s].waiter, rt[s].control = None
      PROVE  Expirable(rt[s])
  <2>1. Good(rt[s], mode)
    BY <1>1, RecordFacts
  <2>2. ~rt[s].turn /\ ~rt[s].busy
    BY <1>1, <2>1 DEF Good
  <2> QED
    BY <1>1, <2>2 DEF Expirable, GenuinelyIdle
<1>2. OInv => IdleCanExpire
  BY <1>1 DEF IdleCanExpire
<1> QED
  BY <1>2, OrderHolds, PTL

=============================================================================
