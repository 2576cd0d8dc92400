--------------------------- MODULE MCWorkshopPlanner ---------------------------
(***************************************************************************)
(* Three workshops, two slots, two spaces, two persons and two rounds.     *)
(* The worlds are of two kinds: in one the programme is open and nobody    *)
(* attends, in the other the programme is fixed and the attendance open.   *)
(***************************************************************************)
EXTENDS WorkshopPlanner, FiniteSetsExt

Gone == <<0, 0>>  \* a slot and a space that were retired

Programmes ==
  [capacity : {<<1, 1, 1>>}, order : {<<1, 2, 3>>, <<1, 1, 0>>},
   leaders : [Workshop -> {{}, {1}, {1, 9}}], cancelled : {{}, {2}},
   fixed : [Workshop -> {None, Gone, <<1, 1>>, <<1, 2>>, <<2, 2>>}],
   unfit : SUBSET {<<1, 1>>, <<2, 1>>, <<3, 1>>}, blocked : {{}, {<<1, 2>>}},
   unsuited : {{}}, needs : {{}}, provides : {{}}, wishes : {{<<1, 2, 1>>, <<1, 2, 2>>}},
   workshops_per_person : {1}]

\* The first two workshops meet in a slot; the second may be without a place.
FewNeeds == kSubset(0, Attendance) \cup kSubset(1, Attendance) \cup kSubset(2, Attendance)
FewWishes == kSubset(2, Wish) \cup kSubset(3, Wish)

Attendings ==
  [capacity : {<<1, 2, 1>>, <<1, 1, 1>>}, order : {<<1, 2, 3>>},
   leaders : {<<{}, {}, {}>>, <<{}, {}, {1}>>, <<{1}, {}, {}>>}, cancelled : {{}},
   fixed : {<<<<1, 1>>, <<1, 2>>, <<2, 2>>>>, <<<<1, 1>>, Gone, <<2, 2>>>>},
   unfit : {{}}, blocked : {{}}, unsuited : {{<<2, 3>>}},
   needs : FewNeeds, provides : {Attendance \ {<<2, 1>>}},
   wishes : FewWishes, workshops_per_person : {1, 2}]

TwoKinds == Programmes \cup Attendings
=============================================================================
