----------------------------- MODULE MCEventFold -----------------------------
(***************************************************************************)
(* Two families with three addresses, two persons.                         *)
(***************************************************************************)
EXTENDS EventFold, TLC

CONSTANTS f1, f2, p1, p2, m1, m2, m3, n1, n2, t1, t2

Symmetry == Permutations(Family) \cup Permutations(Person) \cup Permutations(Email)
            \cup Permutations(Name) \cup Permutations(Trait)
=============================================================================
