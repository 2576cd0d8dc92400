---------------------------- MODULE MCFamilyClient ----------------------------
(***************************************************************************)
(* Two changes at a time, one of them perhaps of a page that was reloaded. *)
(***************************************************************************)
EXTENDS FamilyClient

CONSTANTS s1, s2

TwoSlots == {s1, s2}
=============================================================================
