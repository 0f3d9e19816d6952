----------------------------- MODULE SandboxPool -----------------------------
(***************************************************************************)
(* What the Runtime pool promises, without how it is kept: no statuses,    *)
(* generations, tasks, locks or finalizers.  A Session HOLDS a place, may  *)
(* be LEAVING it, may WAIT for one, or is the heir to whom a leaving       *)
(* holder's place is PROMISED.  Places never exceed the pool nor the quota *)
(* of a Web User; a place changes hands only when its holder has left it;  *)
(* and only a holder that fails by itself loses its place before it left.  *)
(***************************************************************************)
EXTENDS Integers, FiniteSets

CONSTANTS
    Session,   \* Session ids
    User,      \* Web Users
    Owner,     \* the Web User of a Session
    Slots,     \* places of the pool
    Quota      \* places of one Web User

VARIABLES
    hold,      \* the Sessions that hold a place
    leaving,   \* the holders and heirs that are on their way out
    promises,  \* pairs <<holder, heir>>
    waits,     \* the Sessions that wait for any place
    open       \* the pool admits

vars == <<hold, leaving, promises, waits, open>>

Heirs == {p[2] : p \in promises}

Promised(v) == {p[2] : p \in {q \in promises : q[1] = v}}

(* An heir counts for its user too, unless it follows a Session of theirs. *)
Claims(H, P, x) ==
    {s \in Session : /\ Owner[s] = x
                     /\ \/ s \in H
                        \/ \E p \in P : p[2] = s /\ Owner[p[1]] # x}

Fits(H, P) ==
    /\ Cardinality(H) <= Slots
    /\ \A x \in User : Cardinality(Claims(H, P, x)) <= Quota

Outside(s) == s \notin hold \cup Heirs \cup waits

Init ==
    /\ hold = {} /\ leaving = {} /\ promises = {} /\ waits = {}
    /\ open = TRUE

-----------------------------------------------------------------------------
(* A free place is taken.                                                  *)
Take(s) ==
    /\ open /\ Outside(s)
    /\ hold' = hold \cup {s}
    /\ Fits(hold', promises)
    /\ UNCHANGED <<leaving, promises, waits, open>>

Wait(s) ==
    /\ open /\ Outside(s)
    /\ waits' = waits \cup {s}
    /\ UNCHANGED <<hold, leaving, promises, open>>

Withdraw(s) ==
    /\ s \in waits
    /\ waits' = waits \ {s}
    /\ UNCHANGED <<hold, leaving, promises, open>>

(* The place of v, which stays until it has left, is promised to s, and to *)
(* nobody else.                                                            *)
Promise(v, s) ==
    /\ open
    /\ v \in hold \ leaving /\ Promised(v) = {}
    /\ Outside(s) \/ s \in waits
    /\ leaving' = leaving \cup {v}
    /\ promises' = promises \cup {<<v, s>>}
    /\ Fits(hold, promises')
    /\ waits' = waits \ {s}
    /\ UNCHANGED <<hold, open>>

Leave ==
    /\ leaving' \in SUBSET (hold \cup Heirs)
    /\ leaving \subseteq leaving'
    /\ UNCHANGED <<hold, promises, waits, open>>

(* The Sandbox of v is gone: its heir holds the place.  Whatever ends may  *)
(* let some of those who wait in.                                          *)
Release(v, A) ==
    /\ v \in leaving \cap hold
    /\ hold' = (hold \ {v}) \cup Promised(v) \cup A
    /\ leaving' = leaving \ {v}
    /\ promises' = {p \in promises : p[1] # v}

(* The Sandbox of v could not be removed: it keeps its place.              *)
Keep(v, A) ==
    /\ v \in leaving \cap hold
    /\ leaving' = leaving \ {v}
    /\ hold' = hold \cup A
    /\ UNCHANGED promises

(* The heir s gives up before the place is free.                           *)
Forgo(s, A) ==
    /\ s \in leaving \cap Heirs
    /\ promises' = {p \in promises : p[2] # s}
    /\ leaving' = leaving \ {s}
    /\ hold' = hold \cup A

Admit(A) ==
    /\ A # {}
    /\ hold' = hold \cup A
    /\ UNCHANGED <<leaving, promises>>

Ends(A) ==
    /\ waits' = waits \ A
    /\ A # {} => open
    /\ \/ \E s \in Session : Release(s, A) \/ Keep(s, A) \/ Forgo(s, A)
       \/ Admit(A)
    /\ A # {} => Fits(hold', promises')
    /\ UNCHANGED open

(* The Sandbox of v ends by itself.                                        *)
Fail(v) ==
    /\ v \in hold \ leaving /\ Promised(v) = {}
    /\ hold' = hold \ {v}
    /\ UNCHANGED <<leaving, promises, waits, open>>

Close ==
    /\ open
    /\ open' = FALSE
    /\ waits' = {}
    /\ leaving' = hold \cup Heirs
    /\ UNCHANGED <<hold, promises>>

Next ==
    \/ Leave
    \/ \E s \in Session :
         \/ Take(s) \/ Wait(s) \/ Withdraw(s) \/ Fail(s)
         \/ \E v \in Session : Promise(v, s)
    \/ \E A \in SUBSET waits : Ends(A)
    \/ Close

Spec == Init /\ [][Next]_vars

=============================================================================
