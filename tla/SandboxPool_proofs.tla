-------------------------- MODULE SandboxPool_proofs --------------------------
(***************************************************************************)
(* The promise of SandboxPool: places never exceed the pool, nor the quota *)
(* of a Web User, for every number of Sessions, users and places.          *)
(*                                                                         *)
(* A release checks no limit when nobody who waits is let in, so that the  *)
(* limits hold because an heir takes over one place only, and no place has *)
(* two heirs; also that has to be kept by each step.                       *)
(***************************************************************************)
EXTENDS SandboxPool, FiniteSetTheorems, TLAPS

-----------------------------------------------------------------------------
(* The inductive invariant.                                                *)

(* A place that is promised is held, one heir has one place, and nobody    *)
(* waits who has or inherits a place.                                      *)
Apart ==
    /\ hold \in SUBSET Session /\ waits \in SUBSET Session
    /\ promises \in SUBSET (Session \X Session)
    /\ \A p \in promises : p[1] \in hold /\ p[2] \notin hold \cup waits
    /\ \A p, q \in promises : p[1] = q[1] \/ p[2] = q[2] => p = q
    /\ hold \cap waits = {}

SInv == Apart /\ Fits(hold, promises)

-----------------------------------------------------------------------------
(* Counting.                                                               *)

(* One goes, at most one comes.                                            *)
LEMMA OneForOne ==
    ASSUME NEW B, IsFiniteSet(B), NEW v \in B, NEW s, NEW C \in SUBSET ((B \ {v}) \cup {s})
    PROVE  /\ Cardinality(C) \in Nat /\ Cardinality(B) \in Nat
           /\ Cardinality(C) <= Cardinality(B)
<1> DEFINE K == B \ {v}
           T == K \cup {s}
<1>1. IsFiniteSet(K) /\ Cardinality(K) = Cardinality(B) - 1 /\ Cardinality(B) \in Nat
  BY FS_RemoveElement, FS_CardinalityType
<1>2. IsFiniteSet(T) /\ Cardinality(T) \in {Cardinality(K), Cardinality(K) + 1}
  BY <1>1, FS_AddElement
<1>3. Cardinality(C) \in Nat /\ Cardinality(C) <= Cardinality(T)
  BY <1>2, FS_Subset, FS_CardinalityType
<1> HIDE DEF K, T
<1> QED
  BY <1>1, <1>2, <1>3

(* With fewer holders and fewer promises there are fewer claims.           *)
LEMMA FewerFit ==
    ASSUME IsFiniteSet(Session), Slots \in Nat, Quota \in Nat,
           NEW H \in SUBSET Session, NEW P, Fits(H, P),
           NEW G \in SUBSET H, NEW Q \in SUBSET P
    PROVE  Fits(G, Q)
<1>1. Cardinality(G) <= Slots
  <2>1. IsFiniteSet(H)
    BY FS_Subset
  <2>2. /\ Cardinality(G) \in Nat /\ Cardinality(H) \in Nat
        /\ Cardinality(G) <= Cardinality(H)
    BY <2>1, FS_Subset, FS_CardinalityType
  <2> QED
    BY <2>2 DEF Fits
<1>2. ASSUME NEW x \in User PROVE Cardinality(Claims(G, Q, x)) <= Quota
  <2> DEFINE B == Claims(H, P, x)
             C == Claims(G, Q, x)
  <2>1. B \in SUBSET Session /\ C \in SUBSET B
    BY DEF Claims
  <2>2. Cardinality(B) <= Quota
    BY DEF Fits
  <2> HIDE DEF B, C
  <2>3. IsFiniteSet(B)
    BY <2>1, FS_Subset
  <2>4. /\ Cardinality(C) \in Nat /\ Cardinality(B) \in Nat
        /\ Cardinality(C) <= Cardinality(B)
    BY <2>1, <2>3, FS_Subset, FS_CardinalityType
  <2>5. Cardinality(C) <= Quota
    BY <2>2, <2>4
  <2> QED
    BY <2>5 DEF C
<1> QED
  BY <1>1, <1>2 DEF Fits

(* The heir of v, if it has one, takes over the place of v.                *)
LEMMA HeirFits ==
    ASSUME IsFiniteSet(Session), Slots \in Nat, Quota \in Nat, SInv,
           NEW v \in hold, NEW H, H = (hold \ {v}) \cup Promised(v),
           NEW P, P = {p \in promises : p[1] # v}
    PROVE  Fits(H, P)
<1>1. CASE Promised(v) = {}
  <2>1. H \in SUBSET hold /\ P \in SUBSET promises /\ hold \in SUBSET Session
    BY <1>1 DEF SInv, Apart
  <2> QED
    BY <2>1, FewerFit DEF SInv
<1>2. CASE Promised(v) # {}
  <2>1. PICK q \in promises : q[1] = v
    BY <1>2 DEF Promised
  <2> DEFINE s == q[2]
  <2>2. /\ Promised(v) = {s} /\ s \in Session /\ s # v /\ s \notin hold
        /\ hold \in SUBSET Session /\ v \in Session
    BY <2>1 DEF Promised, SInv, Apart
  <2>3. H = (hold \ {v}) \cup {s}
    BY <2>2
  <2>4. Cardinality(H) <= Slots
    <3>1. IsFiniteSet(hold)
      BY <2>2, FS_Subset
    <3>2. /\ Cardinality(H) \in Nat /\ Cardinality(hold) \in Nat
          /\ Cardinality(H) <= Cardinality(hold)
      BY <2>3, <3>1, OneForOne
    <3> QED
      BY <3>2 DEF SInv, Fits
  <2>5. ASSUME NEW x \in User PROVE Cardinality(Claims(H, P, x)) <= Quota
    <3> DEFINE B == Claims(hold, promises, x)
               C == Claims(H, P, x)
    <3>1. B \in SUBSET Session
      BY DEF Claims
    <3>2. C \in SUBSET ((B \ {v}) \cup {s})
      <4>1. ASSUME NEW z \in C, z # s PROVE z \in B
        <5>1. z \in hold \/ \E p \in promises : p[2] = z /\ Owner[p[1]] # x
          BY <2>3, <4>1 DEF Claims
        <5> QED
          BY <5>1 DEF Claims
      <4>2. v \notin C
        <5>1. \A p \in promises : p[2] # v
          BY DEF SInv, Apart
        <5> QED
          BY <2>2, <2>3, <5>1 DEF Claims
      <4> QED
        BY <4>1, <4>2
    <3>3. Owner[v] = x => v \in B
      BY <2>2 DEF Claims
    <3>4. Owner[v] # x => C \in SUBSET B
      <4>1. Owner[v] # x /\ s \in C => s \in B
        BY <2>1, <2>2 DEF Claims
      <4> QED
        BY <3>2, <4>1
    <3>5. Cardinality(B) <= Quota
      BY DEF SInv, Fits
    <3> HIDE DEF B, C
    <3>6. IsFiniteSet(B)
      BY <3>1, FS_Subset
    <3>7. /\ Cardinality(C) \in Nat /\ Cardinality(B) \in Nat
          /\ Cardinality(C) <= Cardinality(B)
      <4>1. CASE Owner[v] = x
        BY <3>2, <3>3, <3>6, <4>1, OneForOne
      <4>2. CASE Owner[v] # x
        BY <3>4, <3>6, <4>2, FS_Subset, FS_CardinalityType
      <4> QED
        BY <4>1, <4>2
    <3>8. Cardinality(C) <= Quota
      BY <3>5, <3>7
    <3> QED
      BY <3>8 DEF C
  <2> QED
    BY <2>4, <2>5 DEF Fits
<1> QED
  BY <1>1, <1>2

-----------------------------------------------------------------------------
(* Every step keeps the invariant.                                         *)

LEMMA StepsApart == Apart /\ [Next]_vars => Apart'
<1> SUFFICES ASSUME Apart, [Next]_vars PROVE Apart'
  OBVIOUS
<1>1. CASE Leave \/ Close \/ UNCHANGED vars
  BY <1>1 DEF Apart, Leave, Close, vars
<1>2. ASSUME NEW s \in Session, Take(s) \/ Wait(s)
      PROVE  Apart'
  <2>1. s \notin hold \cup waits /\ \A p \in promises : p[2] # s
    BY <1>2 DEF Take, Wait, Outside, Heirs
  <2> QED
    BY <1>2, <2>1 DEF Apart, Take, Wait
<1>3. ASSUME NEW s \in Session, Withdraw(s) PROVE Apart'
  BY <1>3 DEF Apart, Withdraw
<1>4. ASSUME NEW v \in Session, Fail(v) PROVE Apart'
  <2>1. \A p \in promises : p[1] # v
    BY <1>4 DEF Fail, Promised
  <2> QED
    BY <1>4, <2>1 DEF Apart, Fail
<1>5. ASSUME NEW v \in Session, NEW s \in Session, Promise(v, s) PROVE Apart'
  <2> DEFINE n == <<v, s>>
  <2>1. promises' = promises \cup {n} /\ n \in Session \X Session
        /\ n[1] = v /\ n[2] = s
    BY <1>5 DEF Promise
  <2>2. v \in hold /\ \A p \in promises : p[1] # v
    BY <1>5 DEF Promise, Promised
  <2>3. s \notin hold /\ \A p \in promises : p[2] # s
    <3>1. CASE Outside(s)
      BY <3>1 DEF Outside, Heirs
    <3>2. CASE s \in waits
      BY <3>2 DEF Apart
    <3> QED
      BY <1>5, <3>1, <3>2 DEF Promise
  <2> HIDE DEF n
  <2> QED
    BY <1>5, <2>1, <2>2, <2>3 DEF Apart, Promise
<1>6. ASSUME NEW A \in SUBSET waits, Ends(A) PROVE Apart'
  <2>1. waits' = waits \ A /\ A \in SUBSET Session
    BY <1>6 DEF Ends, Apart
  <2>2. ASSUME NEW v \in Session, Release(v, A) PROVE Apart'
    <3>1. /\ hold' = (hold \ {v}) \cup Promised(v) \cup A
          /\ promises' = {p \in promises : p[1] # v}
      BY <2>2 DEF Release
    <3>2. \A x \in Promised(v) : \E p \in promises : p[1] = v /\ p[2] = x
      BY DEF Promised
    <3> QED
      BY <2>1, <3>1, <3>2 DEF Apart
  <2>3. ASSUME NEW s \in Session, Keep(s, A) \/ Forgo(s, A) PROVE Apart'
    BY <2>1, <2>3 DEF Apart, Keep, Forgo
  <2>4. CASE Admit(A)
    BY <2>1, <2>4 DEF Apart, Admit
  <2> QED
    BY <1>6, <2>2, <2>3, <2>4 DEF Ends
<1> QED
  BY <1>1, <1>2, <1>3, <1>4, <1>5, <1>6 DEF Next

LEMMA StepsFit ==
    ASSUME IsFiniteSet(Session), Slots \in Nat, Quota \in Nat
    PROVE  SInv /\ [Next]_vars => Fits(hold, promises)'
<1> SUFFICES ASSUME SInv, [Next]_vars PROVE Fits(hold', promises')
  BY DEF Fits, Claims
<1>1. hold \in SUBSET Session /\ Fits(hold, promises)
  BY DEF SInv, Apart
<1>2. ASSUME hold' \in SUBSET hold, promises' \in SUBSET promises
      PROVE  Fits(hold', promises')
  BY <1>1, <1>2, FewerFit
<1>3. CASE Leave \/ Close \/ UNCHANGED vars
  BY <1>2, <1>3 DEF Leave, Close, vars
<1>4. ASSUME NEW s \in Session, Wait(s) \/ Withdraw(s) \/ Fail(s)
      PROVE  Fits(hold', promises')
  BY <1>2, <1>4 DEF Wait, Withdraw, Fail
<1>5. ASSUME NEW s \in Session, Take(s) PROVE Fits(hold', promises')
  BY <1>5 DEF Take
<1>6. ASSUME NEW v \in Session, NEW s \in Session, Promise(v, s)
      PROVE  Fits(hold', promises')
  BY <1>6 DEF Promise
<1>7. ASSUME NEW A \in SUBSET waits, Ends(A) PROVE Fits(hold', promises')
  <2>1. CASE A # {}
    BY <1>7, <2>1 DEF Ends
  <2>2. CASE A = {}
    <3>1. ASSUME NEW v \in Session, Release(v, A) PROVE Fits(hold', promises')
      <4>1. v \in hold /\ hold' = (hold \ {v}) \cup Promised(v)
            /\ promises' = {p \in promises : p[1] # v}
        BY <2>2, <3>1 DEF Release
      <4> QED
        BY <4>1, HeirFits
    <3>2. ASSUME NEW v \in Session, Keep(v, A) \/ Forgo(v, A)
          PROVE  Fits(hold', promises')
      BY <1>2, <2>2, <3>2 DEF Keep, Forgo
    <3> QED
      BY <1>7, <2>2, <3>1, <3>2 DEF Ends, Admit
  <2> QED
    BY <2>1, <2>2
<1> QED
  BY <1>3, <1>4, <1>5, <1>6, <1>7 DEF Next

(* The places of the pool and the quota of every Web User are kept.        *)
THEOREM PlacesFit ==
    ASSUME IsFiniteSet(Session), Slots \in Nat, Quota \in Nat
    PROVE  Spec => []Fits(hold, promises)
<1>1. Init => SInv
  <2>1. ASSUME Init PROVE Fits(hold, promises)
    <3>1. hold = {} /\ \A x \in User : Claims(hold, promises, x) = {}
      BY <2>1 DEF Init, Claims
    <3> QED
      BY <3>1, FS_EmptySet DEF Fits
  <2> QED
    BY <2>1 DEF SInv, Apart, Init
<1>2. SInv /\ [Next]_vars => SInv'
  BY StepsApart, StepsFit DEF SInv
<1>3. SInv => Fits(hold, promises)
  BY DEF SInv
<1> QED
  BY <1>1, <1>2, <1>3, PTL DEF Spec

=============================================================================
