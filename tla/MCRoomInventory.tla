-------------------------- MODULE MCRoomInventory --------------------------
(***************************************************************************)
(* Two buildings, two rooms, two beds.  The ids are interchangeable.       *)
(***************************************************************************)
EXTENDS RoomInventory, TLC

CONSTANTS b1, b2, r1, r2, d1, d2, n1, n2, A

Symmetry == Permutations(Building) \cup Permutations(Room) \cup Permutations(Bed)
            \cup Permutations(Number)
=============================================================================
