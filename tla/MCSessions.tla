------------------------------ MODULE MCSessions ------------------------------
(***************************************************************************)
(* One address with one link, two sessions and two requests at a time.     *)
(* An organiser's session is idle after two steps and ends after three, a  *)
(* family's after three and five.                                          *)
(***************************************************************************)
EXTENDS Sessions, TLC

CONSTANTS k1, s1, s2, r1, r2, e1

PolicyIdle(role) == IF role = "organiser" THEN 2 ELSE 3
PolicyAbsolute(role) == IF role = "organiser" THEN 3 ELSE 5

Symmetry == Permutations(Session) \cup Permutations(Request)
=============================================================================
