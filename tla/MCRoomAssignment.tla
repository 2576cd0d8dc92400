--------------------------- MODULE MCRoomAssignment ---------------------------
(***************************************************************************)
(* Three families of two, one and two, one of them without need of a bed,  *)
(* and three rooms of which one is blocked.                                *)
(***************************************************************************)
EXTENDS RoomAssignment, TLC

CONSTANTS Sizes,      \* how many places rooms 1 and 2 may have
          Deciding    \* families that may have a room decision

Req(strength, kind, what, weight, penalty, urgent) ==
  [strength |-> strength, kind |-> kind, what |-> what, weight |-> weight,
   penalty |-> penalty, urgent |-> urgent]

Wishes ==
  {{}, {Req("required", "sole", None, 0, -12, FALSE)},
   {Req("preferred", "sole", None, 0, -12, FALSE)},
   {Req("required", "capability", 101, 8, 0, TRUE)},
   {Req("required", "apart", 1, 0, -20, FALSE),
    Req("preferred", "capability", 101, 8, 0, TRUE)}}

OrphanPenalty == -8

ScarcePenalty == [c \in Capability |-> -3]

PeopleOf == 1 :> {1, 2} @@ 2 :> {3} @@ 3 :> {4, 5}

\* Rooms 1 and 2 are open, or none is.
Of(m, n, wishes, decided, decision, excluded) ==
  [rooms |-> IF m = 0 THEN {} ELSE {1, 2},
   places |-> 1 :> 1..m @@ 2 :> 4..(3 + n) @@ 3 :> {},
   capabilities |-> 1 :> {} @@ 2 :> {101} @@ 3 :> {},
   key |-> 1 :> 1 @@ 2 :> 1 @@ 3 :> 0,
   people |-> PeopleOf, bedless |-> {5},
   requires |-> wishes,
   excludes |-> 1 :> {} @@ 2 :> {} @@ 3 :> excluded,
   decided |-> decided,
   decision |-> [f \in Family |-> IF f \in decided THEN decision ELSE {}]]

\* Family 1 is the one the others are kept apart from.
Wanting == {w \in [Family -> Wishes] : \A q \in w[1] : q.what # 1}

\* No decision, a room, two rooms, the blocked room, or a room that is gone.
Decisions == {<<{}, {}>>} \cup (SUBSET Deciding \ {{}}) \X {{1}, {1, 2}, {3}, {}}

SomeInputs ==
  {Of(m, n, w, d[1], d[2], x) :
     m \in Sizes, n \in Sizes, w \in Wanting, d \in Decisions, x \in {{}, {2}}}
=============================================================================
