---------------------------- MODULE MCRuntimePool ----------------------------
(***************************************************************************)
(* Instances of RuntimePool for TLC: two Sessions of two Web Users, or     *)
(* four of three.                                                          *)
(***************************************************************************)
EXTENDS PoolRefinement, TLC

CONSTANTS a, b, c, d, u, v, w

TwoSessions == {a, b}
FourSessions == {a, b, c, d}

OwnerOfTwo == [s \in TwoSessions |-> IF s = a THEN u ELSE v]

(* a and b belong to one user, c and d to one user each.                   *)
OwnerOfFour ==
    [s \in FourSessions |-> IF s = c THEN v ELSE IF s = d THEN w ELSE u]

(* Sessions that may be exchanged: of one user, or the only ones of theirs.*)
(* Users are in no variable.                                               *)
SymmetryOfTwo == Permutations(TwoSessions)
SymmetryOfFour == Permutations({a, b}) \cup Permutations({c, d})
=============================================================================
