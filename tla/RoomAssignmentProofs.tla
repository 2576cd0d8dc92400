------------------------- MODULE RoomAssignmentProofs -------------------------
(***************************************************************************)
(* For any families, rooms, persons, places and inputs: the candidates of  *)
(* a family are those an evaluation of every room would give, a family is  *)
(* left out for a reason, of which the preflight has warned if the house   *)
(* alone is the reason, and nobody who needs a bed is forgotten.           *)
(***************************************************************************)
EXTENDS RoomAssignment, FiniteSetTheorems, FunctionTheorems, TLAPS

\* What an input is, as far as the proofs need it.
LEMMA InputTyped ==
  ASSUME input \in Inputs
  PROVE  /\ input.rooms \subseteq Room
         /\ \A r \in Room : input.places[r] \subseteq Place
         /\ \A f \in Family : input.people[f] \subseteq Person
         /\ \A f \in Family : input.requires[f] \subseteq Requirement
         /\ None \notin input.rooms
<1>1. input \in Input
  BY InputAssumption
<1>2. /\ input.rooms \subseteq Room
      /\ input.places \in [Room -> SUBSET Place]
      /\ input.people \in [Family -> SUBSET Person]
      /\ input.requires \in [Family -> SUBSET Requirement]
  BY <1>1 DEF Input
<1>. QED
  BY <1>2, RoomAssumption

\* What is counted is finite.
LEMMA PlacesCounted ==
  ASSUME input \in Inputs, NEW S \in SUBSET input.rooms
  PROVE  /\ IsFiniteSet(UNION {input.places[r] : r \in S})
         /\ Capacity(S) \in Nat
         /\ \A r \in S : /\ Cardinality(input.places[r]) \in Nat
                         /\ Cardinality(input.places[r]) <= Capacity(S)
<1>. DEFINE P == UNION {input.places[r] : r \in S}
<1>1. P \subseteq Place
  BY InputTyped
<1>2. IsFiniteSet(Place)
  BY RoomAssumption
<1>3. IsFiniteSet(P)
  BY <1>1, <1>2, FS_Subset
<1>4. Cardinality(P) \in Nat
  BY <1>3, FS_CardinalityType
<1>5. ASSUME NEW r \in S
      PROVE  /\ Cardinality(input.places[r]) \in Nat
             /\ Cardinality(input.places[r]) <= Cardinality(P)
  <2>1. input.places[r] \in SUBSET P
    OBVIOUS
  <2>2. IsFiniteSet(input.places[r]) /\ Cardinality(input.places[r]) <= Cardinality(P)
    BY <2>1, <1>3, FS_Subset
  <2>. QED
    BY <2>2, FS_CardinalityType
<1>. QED
  BY <1>3, <1>4, <1>5 DEF Capacity

LEMMA PeopleCounted ==
  ASSUME input \in Inputs, NEW F \in SUBSET Family
  PROVE  Cardinality(InBed(F)) \in Nat
<1>1. InBed(F) \subseteq Person
  BY InputTyped DEF InBed, BedPeople
<1>2. IsFiniteSet(Person)
  BY RoomAssumption
<1>3. IsFiniteSet(InBed(F))
  BY <1>1, <1>2, FS_Subset
<1>. QED
  BY <1>3, FS_CardinalityType

LEMMA DemandCounted ==
  ASSUME input \in Inputs, NEW f \in Family
  PROVE  BedDemand(f) \in Nat
<1>1. BedPeople(f) = InBed({f})
  BY DEF InBed
<1>. QED
  BY <1>1, PeopleCounted DEF BedDemand

\* A room that takes a family in beside others takes it in alone: capacity,
\* sole occupancy and keep-apart only ever reject more when others are there.
LEMMA FitsAlone ==
  ASSUME input \in Inputs, NEW p, NEW f \in Family, NEW r \in input.rooms,
         Feasible(p, f, r)
  PROVE  Feasible(Nobody, f, r)
<1>. DEFINE others == RoomFamilies(p, r)
<1>1. r \in Room /\ r # None
  BY InputTyped
<1>2. RoomFamilies(Nobody, r) = {}
  BY <1>1 DEF RoomFamilies, Nobody
<1>3. Remaining(Nobody, r) >= BedDemand(f)
  <2>1. Cardinality(InBed(others)) \in Nat
    BY PeopleCounted DEF RoomFamilies
  <2>2. InBed({}) = {}
    BY DEF InBed
  <2>3. Cardinality(InBed({})) = 0
    BY <2>2, FS_EmptySet
  <2>4. Cardinality(input.places[r]) \in Nat
    BY PlacesCounted
  <2>5. BedDemand(f) \in Nat
    BY DemandCounted
  <2>6. Cardinality(input.places[r]) - Cardinality(InBed(others)) >= BedDemand(f)
    BY DEF Feasible, Remaining
  <2>. QED
    BY <1>2, <2>1, <2>3, <2>4, <2>5, <2>6 DEF Remaining
<1>4. ASSUME NEW q \in Required(f)
      PROVE  Satisfied(q, f, r, {})
  <2>1. Satisfied(q, f, r, others)
    BY DEF Feasible
  <2>. QED
    BY <2>1 DEF Satisfied
<1>. QED
  BY <1>2, <1>3, <1>4 DEF Feasible

\* A family the preflight warns of fits nowhere even in an empty house.
LEMMA PreflightIsRight ==
  ASSUME input \in Inputs, NEW f \in Preflight, NEW r \in input.rooms
  PROVE  ~Feasible(Nobody, f, r)
<1>. SUFFICES ASSUME Feasible(Nobody, f, r) PROVE FALSE
  OBVIOUS
<1>0. f \in Family /\ BedDemand(f) \in Nat
  BY DemandCounted DEF Preflight
<1>1. Cardinality(input.places[r]) >= BedDemand(f)
  <2>1. Cardinality(input.places[r]) \in Nat
    BY PlacesCounted
  <2>2. Cardinality(InBed(RoomFamilies(Nobody, r))) \in Nat
    BY PeopleCounted DEF RoomFamilies
  <2>3. Cardinality(input.places[r]) - Cardinality(InBed(RoomFamilies(Nobody, r)))
          >= BedDemand(f)
    BY DEF Feasible, Remaining
  <2>. QED
    BY <1>0, <2>1, <2>2, <2>3
<1>2. CASE Capacity(input.rooms) < BedDemand(f)
  <2>1. /\ Cardinality(input.places[r]) <= Capacity(input.rooms)
        /\ Capacity(input.rooms) \in Nat /\ Cardinality(input.places[r]) \in Nat
    BY PlacesCounted
  <2>. QED
    BY <1>0, <1>1, <1>2, <2>1
<1>3. ASSUME NEW q \in Required(f), q.kind = "capability",
             Capacity({s \in input.rooms : q.what \in input.capabilities[s]}) < BedDemand(f)
      PROVE  FALSE
  <2>. DEFINE S == {s \in input.rooms : q.what \in input.capabilities[s]}
  <2>1. Satisfied(q, f, r, RoomFamilies(Nobody, r))
    BY DEF Feasible
  <2>2. r \in S
    BY <1>3, <2>1 DEF Satisfied
  <2>3. /\ Cardinality(input.places[r]) <= Capacity(S)
        /\ Capacity(S) \in Nat /\ Cardinality(input.places[r]) \in Nat
    BY <2>2, PlacesCounted
  <2>. QED
    BY <1>0, <1>1, <1>3, <2>3
<1>4. CASE NoProvider(f)
  BY <1>4 DEF NoProvider, Feasible, Decided
<1>. QED
  BY <1>2, <1>3, <1>4 DEF Preflight, TooFewPlaces

(***************************************************************************)
(* The inductive invariant.  To know that a family without a candidate     *)
(* fits nowhere the candidates must be fresh; that a placed family would   *)
(* fit an empty house must be kept from the moment of its placement, as    *)
(* later families may join it in its room.                                 *)
(***************************************************************************)
PlacedFitAlone ==
  \A f \in Family \ Fixed : placements[f] # None => Feasible(Nobody, f, placements[f])

FinallyNone ==
  round = "done" => /\ unplaced = Unplaced(placements)
                    /\ \A f \in unplaced : evaluations[f] = {}

IInv ==
  /\ input \in Inputs
  /\ placements \in [Family -> input.rooms \cup {None}]
  /\ evaluations = [f \in Family |-> evaluations[f]]
  /\ round \in {"fixing", "placing", "done"}
  /\ EvaluationsFresh
  /\ PlacedFitAlone
  /\ FinallyNone

\* An evaluation of room s is the same before and after a placement elsewhere.
LEMMA ElsewhereUnchanged ==
  ASSUME NEW p, NEW q, NEW g, NEW s, RoomFamilies(p, s) = RoomFamilies(q, s)
  PROVE  EvaluateRoom(p, g, s) = EvaluateRoom(q, g, s)
<1>1. Remaining(p, s) = Remaining(q, s)
  BY DEF Remaining
<1>2. Feasible(p, g, s) = Feasible(q, g, s)
  BY <1>1 DEF Feasible
<1>3. Score(p, g, s) = Score(q, g, s)
  BY <1>1 DEF Score
<1>. QED
  BY <1>2, <1>3 DEF EvaluateRoom

\* A candidate of a family is a room it fits in as things are.
LEMMA CandidateFits ==
  ASSUME NEW p, NEW f, NEW c \in EvaluateRooms(p, f)
  PROVE  c[1] \in input.rooms /\ Feasible(p, f, c[1])
BY DEF EvaluateRooms, EvaluateRoom

\* Every candidate of an evaluated room names that room.
LEMMA NamesRoom ==
  ASSUME NEW p, NEW f, NEW r, NEW c \in EvaluateRoom(p, f, r)
  PROVE  c[1] = r
BY DEF EvaluateRoom

\* Placing f in room r, refreshing r alone gives what evaluating all rooms would.
LEMMA RefreshIsEnough ==
  ASSUME NEW p, NEW q, NEW g, NEW r \in input.rooms,
         \A s \in input.rooms \ {r} : RoomFamilies(p, s) = RoomFamilies(q, s)
  PROVE  \A c : c \in EvaluateRooms(q, g) <=>
                  \/ c \in EvaluateRooms(p, g) /\ c[1] # r
                  \/ c \in EvaluateRoom(q, g, r)
<1>1. \A s \in input.rooms \ {r} : EvaluateRoom(p, g, s) = EvaluateRoom(q, g, s)
  BY ElsewhereUnchanged
<1>2. \A s : \A c \in EvaluateRoom(p, g, s) : c[1] = s
  BY NamesRoom
<1>3. \A s : \A c \in EvaluateRoom(q, g, s) : c[1] = s
  BY NamesRoom
<1>. QED
  BY <1>1, <1>2, <1>3 DEF EvaluateRooms

LEMMA Initially == Init => IInv
<1>. SUFFICES ASSUME Init PROVE IInv
  OBVIOUS
<1>1. \A f \in Family : placements[f] = None
  BY DEF Init, Nobody
<1>. QED
  BY <1>1 DEF Init, IInv, Nobody, EvaluationsFresh, PlacedFitAlone, FinallyNone

\* What a family fits in, and what an evaluation says of it, hangs on the input and on
\* the placements alone.
LEMMA StillFits ==
  ASSUME input' = input
  PROVE  \A f \in Family : \A r : Feasible(Nobody, f, r)' <=> Feasible(Nobody, f, r)
<1>1. \A f : BedDemand(f)' = BedDemand(f) /\ Required(f)' = Required(f)
  BY DEF BedDemand, BedPeople, Required
<1>2. \A r : Remaining(Nobody, r)' = Remaining(Nobody, r)
  BY DEF Remaining, RoomFamilies, InBed, BedPeople, Nobody
<1>3. \A r : RoomFamilies(Nobody, r)' = RoomFamilies(Nobody, r)
  BY DEF RoomFamilies, Nobody
<1>. QED
  BY <1>1, <1>2, <1>3 DEF Feasible, Satisfied, Decided

LEMMA StillEvaluated ==
  ASSUME input' = input
  PROVE  \A f \in Family : EvaluateRooms(placements, f)' = EvaluateRooms(placements', f)
BY DEF EvaluateRooms, EvaluateRoom, Feasible, Score, Remaining, RoomFamilies, InBed,
       BedDemand, BedPeople, Required, Preferred, Satisfied, Decided

\* Of the round in which an organiser's decisions are placed: nobody else is placed,
\* and each of the others has been evaluated in every room.
LEMMA AfterPlaceFixed ==
  ASSUME IInv, PlaceFixed
  PROVE  IInv'
<1>1. /\ input' = input /\ round' = "placing"
      /\ placements' = [f \in Family |->
           IF f \in Fixed /\ FixedRoom(f) \in input.rooms THEN FixedRoom(f) ELSE None]
  BY DEF PlaceFixed
<1>2. evaluations' = [f \in Family |->
        IF f \in Unplaced(placements') THEN EvaluateRooms(placements', f) ELSE {}]
  BY DEF PlaceFixed
<1>3. Fixed' = Fixed
  BY <1>1 DEF Fixed
<1>4. placements' \in [Family -> input'.rooms \cup {None}]
  BY <1>1
<1>5. evaluations' = [f \in Family |-> evaluations'[f]]
  BY <1>2
<1>6. EvaluationsFresh'
  <2>. SUFFICES ASSUME NEW f \in Family, f \in Unplaced(placements)'
                PROVE  evaluations'[f] = EvaluateRooms(placements, f)'
    BY DEF EvaluationsFresh, Unplaced
  <2>1. Unplaced(placements)' = Unplaced(placements')
    BY <1>3 DEF Unplaced
  <2>2. EvaluateRooms(placements, f)' = EvaluateRooms(placements', f)
    BY <1>1, StillEvaluated
  <2>. QED
    BY <1>2, <2>1, <2>2
<1>7. PlacedFitAlone'
  BY <1>1, <1>3 DEF PlacedFitAlone
<1>8. FinallyNone'
  BY <1>1 DEF FinallyNone
<1>. QED
  BY <1>1, <1>4, <1>5, <1>6, <1>7, <1>8 DEF IInv

\* Of a round: the room of the family placed is one it fits in, and of the other
\* rooms nothing has changed for the families that are left.
LEMMA AfterPlaceNext ==
  ASSUME IInv, PlaceNext
  PROVE  IInv'
<1>0. PICK f \in Ranked : \E d \in evaluations[f] :
        /\ placements' = [placements EXCEPT ![f] = d[1]]
        /\ evaluations' = Refreshed(placements', d[1])
  BY DEF PlaceNext
<1>a. PICK c \in evaluations[f] :
        /\ placements' = [placements EXCEPT ![f] = c[1]]
        /\ evaluations' = Refreshed(placements', c[1])
  BY <1>0
<1>b. PICK r : r = c[1]
  OBVIOUS
<1>1. /\ placements' = [placements EXCEPT ![f] = r]
      /\ evaluations' = Refreshed(placements', r)
  BY <1>a, <1>b
<1>2. /\ input' = input /\ round = "placing" /\ round' = "placing"
      /\ placements \in [Family -> input.rooms \cup {None}]
  BY DEF PlaceNext, IInv
<1>3. Fixed' = Fixed
  BY <1>2 DEF Fixed
<1>4. f \in Family \ Fixed /\ placements[f] = None /\ f \in Unplaced(placements)
  BY DEF Ranked, Unplaced
<1>5. c \in EvaluateRooms(placements, f)
  BY <1>2, <1>4 DEF IInv, EvaluationsFresh
<1>6. r \in input.rooms /\ Feasible(placements, f, r)
  BY <1>b, <1>5, CandidateFits
<1>7. None \notin input.rooms
  BY InputTyped DEF IInv
<1>8. placements' \in [Family -> input'.rooms \cup {None}]
  BY <1>1, <1>2, <1>6
<1>9. \A s \in input.rooms \ {r} : RoomFamilies(placements, s) = RoomFamilies(placements', s)
  BY <1>1, <1>2, <1>4, <1>7 DEF RoomFamilies
<1>10. evaluations' = [g \in Family |-> evaluations'[g]]
  BY <1>1 DEF Refreshed
<1>11. EvaluationsFresh'
  <2>. SUFFICES ASSUME NEW g \in Family, g \in Unplaced(placements)'
                PROVE  evaluations'[g] = EvaluateRooms(placements, g)'
    BY DEF EvaluationsFresh, Unplaced
  <2>1. Unplaced(placements)' = Unplaced(placements')
    BY <1>3 DEF Unplaced
  <2>2. EvaluateRooms(placements, g)' = EvaluateRooms(placements', g)
    BY <1>2, StillEvaluated
  <2>3. placements'[f] # None
    BY <1>1, <1>2, <1>4, <1>6, <1>7
  <2>4. g # f
    BY <2>1, <2>3 DEF Unplaced
  <2>5. g \in Unplaced(placements)
    BY <1>1, <1>2, <2>1, <2>4 DEF Unplaced
  <2>6. evaluations[g] = EvaluateRooms(placements, g)
    BY <1>2, <2>5 DEF IInv, EvaluationsFresh
  <2>7. evaluations'[g] =
          {d \in evaluations[g] : d[1] # r} \cup EvaluateRoom(placements', g, r)
    BY <1>1, <2>1 DEF Refreshed
  <2>8. \A d : d \in EvaluateRooms(placements', g) <=>
                 \/ d \in EvaluateRooms(placements, g) /\ d[1] # r
                 \/ d \in EvaluateRoom(placements', g, r)
    BY <1>6, <1>9, RefreshIsEnough
  <2>. QED
    BY <2>2, <2>6, <2>7, <2>8 DEF EvaluateRooms
<1>12. PlacedFitAlone'
  <2>. SUFFICES ASSUME NEW g \in Family \ Fixed, placements'[g] # None
                PROVE  Feasible(Nobody, g, placements[g])'
    BY <1>3 DEF PlacedFitAlone
  <2>1. Feasible(Nobody, g, placements'[g])
    <3>1. CASE g = f
      BY <1>1, <1>2, <1>6, <3>1, FitsAlone DEF IInv
    <3>2. CASE g # f
      BY <1>1, <1>2, <3>2 DEF IInv, PlacedFitAlone
    <3>. QED
      BY <3>1, <3>2
  <2>. QED
    BY <1>2, <2>1, StillFits
<1>13. FinallyNone'
  BY <1>2 DEF FinallyNone
<1>. QED
  BY <1>2, <1>8, <1>10, <1>11, <1>12, <1>13 DEF IInv

\* The rounds end when no family that is left has a candidate.
LEMMA AfterFinish ==
  ASSUME IInv, Finish
  PROVE  IInv'
<1>1. /\ input' = input /\ placements' = placements /\ evaluations' = evaluations
      /\ round = "placing" /\ round' = "done" /\ Ranked = {}
      /\ unplaced' = Unplaced(placements)
  BY DEF Finish
<1>2. \A f \in Unplaced(placements) : evaluations[f] = {}
  BY <1>1 DEF Ranked
<1>3. Fixed' = Fixed /\ Unplaced(placements)' = Unplaced(placements)
  BY <1>1 DEF Fixed, Unplaced
<1>4. EvaluationsFresh'
  <2>. SUFFICES ASSUME NEW f \in Family, f \in Unplaced(placements)
                PROVE  evaluations[f] = EvaluateRooms(placements, f)'
    BY <1>1, <1>3 DEF EvaluationsFresh, Unplaced
  <2>1. EvaluateRooms(placements, f)' = EvaluateRooms(placements, f)
    BY <1>1, StillEvaluated
  <2>. QED
    BY <1>1, <2>1 DEF IInv, EvaluationsFresh
<1>5. PlacedFitAlone'
  BY <1>1, <1>3, StillFits DEF IInv, PlacedFitAlone
<1>6. FinallyNone'
  BY <1>1, <1>2, <1>3 DEF FinallyNone
<1>. QED
  BY <1>1, <1>4, <1>5, <1>6 DEF IInv

LEMMA Inductive == IInv /\ [Next]_vars => IInv'
<1>. SUFFICES ASSUME IInv, [Next]_vars PROVE IInv'
  OBVIOUS
<1>1. CASE PlaceFixed
  BY <1>1, AfterPlaceFixed
<1>2. CASE PlaceNext
  BY <1>2, AfterPlaceNext
<1>3. CASE Finish
  BY <1>3, AfterFinish
<1>4. CASE UNCHANGED vars
  <2>1. /\ input' = input /\ placements' = placements /\ evaluations' = evaluations
        /\ round' = round /\ unplaced' = unplaced
    BY <1>4 DEF vars, result
  <2>2. Fixed' = Fixed /\ Unplaced(placements)' = Unplaced(placements)
    BY <2>1 DEF Fixed, Unplaced
  <2>3. EvaluationsFresh'
    <3>. SUFFICES ASSUME round # "fixing", NEW f \in Family, f \in Unplaced(placements)
                  PROVE  evaluations[f] = EvaluateRooms(placements, f)'
      BY <2>1, <2>2 DEF EvaluationsFresh, Unplaced
    <3>1. EvaluateRooms(placements, f)' = EvaluateRooms(placements, f)
      BY <2>1, StillEvaluated
    <3>. QED
      BY <3>1 DEF IInv, EvaluationsFresh
  <2>4. PlacedFitAlone'
    BY <2>1, <2>2, StillFits DEF IInv, PlacedFitAlone
  <2>5. FinallyNone'
    BY <2>1, <2>2 DEF IInv, FinallyNone
  <2>. QED
    BY <2>1, <2>3, <2>4, <2>5 DEF IInv
<1>. QED
  BY <1>1, <1>2, <1>3, <1>4 DEF Next

\* In every reachable state the candidates of each family that is left are those an
\* evaluation of all rooms would give.
THEOREM Fresh == Spec => []EvaluationsFresh
<1>1. IInv => EvaluationsFresh
  BY DEF IInv
<1>. QED
  BY <1>1, Initially, Inductive, PTL DEF Spec

LEMMA ReasonGiven == IInv => UnplacedForAReason
<1>. SUFFICES ASSUME IInv, round = "done" PROVE UnplacedForAReason
  BY DEF UnplacedForAReason
<1>1. unplaced = Unplaced(placements) /\ \A f \in unplaced : evaluations[f] = {}
  BY DEF IInv, FinallyNone
<1>2. ASSUME NEW f \in unplaced, NEW r \in input.rooms
      PROVE  ~Feasible(placements, f, r)
  <2>1. EvaluateRooms(placements, f) = {}
    BY <1>1 DEF IInv, EvaluationsFresh
  <2>. QED
    BY <2>1 DEF EvaluateRooms, EvaluateRoom
<1>3. Preflight \ Fixed \subseteq unplaced
  <2>. SUFFICES ASSUME NEW f \in Preflight, f \notin Fixed, placements[f] # None
                PROVE  FALSE
    BY <1>1 DEF Unplaced, Preflight
  <2>1. f \in Family
    BY DEF Preflight
  <2>2. placements[f] \in input.rooms /\ Feasible(Nobody, f, placements[f])
    BY <2>1 DEF IInv, PlacedFitAlone
  <2>. QED
    BY <2>2, PreflightIsRight DEF IInv
<1>4. input.rooms # {} =>
        \A f \in unplaced \ Preflight : \E r \in input.rooms : Feasible(Nobody, f, r)
  BY <1>1 DEF Preflight, Unplaced
<1>. QED
  BY <1>1, <1>2, <1>3, <1>4 DEF UnplacedForAReason, Unplaced

\* A family is left out only if it fits nowhere as the others sleep, and the preflight
\* has warned of exactly those that would fit nowhere in an empty house.
THEOREM ForAReason == Spec => []UnplacedForAReason
BY Initially, Inductive, ReasonGiven, PTL DEF Spec

-----------------------------------------------------------------------------
(***************************************************************************)
(* The places of a room are handed out by number, and the numbers of those *)
(* who share a room are different (DifferentNumbers) and, for a family     *)
(* that was placed by a round, not beyond the places (FitTogether).        *)
(***************************************************************************)
LEMMA Smaller ==
  ASSUME NEW T, IsFiniteSet(T), NEW S \in SUBSET T, NEW x \in T, x \notin S
  PROVE  /\ Cardinality(S) \in Nat /\ Cardinality(T) \in Nat
         /\ Cardinality(S) < Cardinality(T)
<1>1. IsFiniteSet(S) /\ S \cup {x} \in SUBSET T
  BY FS_Subset
<1>2. /\ IsFiniteSet(S \cup {x})
      /\ Cardinality(S \cup {x}) = Cardinality(S) + 1
  BY <1>1, FS_AddElement
<1>3. Cardinality(S \cup {x}) <= Cardinality(T)
  BY <1>1, FS_Subset
<1>4. Cardinality(S) \in Nat /\ Cardinality(T) \in Nat
  BY <1>1, FS_CardinalityType
<1>. QED
  BY <1>2, <1>3, <1>4

LEMMA Together ==
  ASSUME NEW T, IsFiniteSet(T), NEW A \in SUBSET T, NEW B \in SUBSET T, A \cap B = {}
  PROVE  /\ Cardinality(A) \in Nat /\ Cardinality(B) \in Nat /\ Cardinality(T) \in Nat
         /\ Cardinality(A \cup B) = Cardinality(A) + Cardinality(B)
         /\ Cardinality(A) + Cardinality(B) <= Cardinality(T)
<1>1. IsFiniteSet(A) /\ IsFiniteSet(B) /\ A \cup B \in SUBSET T
  BY FS_Subset
<1>2. Cardinality(A \cup B) = Cardinality(A) + Cardinality(B) - Cardinality(A \cap B)
  BY <1>1, FS_Union
<1>3. Cardinality(A \cap B) = 0
  BY FS_EmptySet
<1>4. Cardinality(A \cup B) <= Cardinality(T)
  BY <1>1, FS_Subset
<1>5. Cardinality(A) \in Nat /\ Cardinality(B) \in Nat /\ Cardinality(T) \in Nat
  BY <1>1, FS_CardinalityType
<1>. QED
  BY <1>2, <1>3, <1>4, <1>5

\* A set of numbers has an n-th one: counting those below maps it one to one onto
\* the numbers below its cardinality.
LEMMA NthExists ==
  ASSUME NEW S \in SUBSET Nat, IsFiniteSet(S), NEW n \in 1..Cardinality(S)
  PROVE  /\ NthOf(S, n) \in S
         /\ Cardinality({y \in S : y < NthOf(S, n)}) = n - 1
<1>. DEFINE below(x) == {y \in S : y < x}
            count == [x \in S |-> Cardinality(below(x))]
            T == 0..(Cardinality(S) - 1)
<1>1. Cardinality(S) \in Nat
  BY FS_CardinalityType
<1>2. ASSUME NEW x \in S PROVE Cardinality(below(x)) \in T
  <2>1. below(x) \in SUBSET S /\ x \notin below(x)
    OBVIOUS
  <2>. HIDE DEF below
  <2>2. Cardinality(below(x)) \in Nat /\ Cardinality(below(x)) < Cardinality(S)
    BY <2>1, Smaller
  <2>. QED
    BY <1>1, <2>2
<1>3. ASSUME NEW x \in S, NEW y \in S, x < y
      PROVE  Cardinality(below(x)) < Cardinality(below(y))
  <2>1. \A z \in S : z \in Nat
    OBVIOUS
  <2>2. ~(x < x) /\ \A z \in S : z < x => z < y
    BY <1>3, <2>1
  <2>3. /\ below(x) \in SUBSET below(y) /\ x \in below(y) /\ x \notin below(x)
        /\ below(y) \in SUBSET S
    BY <1>3, <2>2
  <2>. HIDE DEF below
  <2>4. IsFiniteSet(below(y))
    BY <2>3, FS_Subset
  <2>. QED
    BY <2>3, <2>4, Smaller
<1>4. \A x \in S : x \in Nat
  OBVIOUS
<1>. HIDE DEF below, T
<1>5. count \in [S -> T]
  BY <1>2
<1>6. \A x, y \in S : count[x] = count[y] => x = y
  <2>. SUFFICES ASSUME NEW x \in S, NEW y \in S, count[x] = count[y], x # y PROVE FALSE
    OBVIOUS
  <2>1. Cardinality(below(x)) = Cardinality(below(y)) /\ Cardinality(below(x)) \in Nat
    BY <1>1, <1>2 DEF T
  <2>2. x < y \/ y < x
    BY <1>4
  <2>. QED
    BY <1>3, <2>1, <2>2
<1>7. count \in Injection(S, T)
  BY <1>5, <1>6 DEF Injection, IsInjective
<1>8. IsFiniteSet(T) /\ Cardinality(T) = Cardinality(S)
  <2>1. Cardinality(S) - 1 \in Int /\ ~(0 > Cardinality(S) - 1)
    BY <1>1
  <2>2. IsFiniteSet(T) /\ Cardinality(T) = Cardinality(S) - 1 - 0 + 1
    BY <2>1, FS_Interval DEF T
  <2>. QED
    BY <1>1, <2>2
<1>9. count \in Surjection(S, T)
  BY <1>7, <1>8, FS_Injection
<1>10. n - 1 \in T
  BY <1>1 DEF T
<1>11. PICK x \in S : Cardinality(below(x)) = n - 1
  BY <1>9, <1>10 DEF Surjection
<1>. QED
  BY <1>11 DEF NthOf, below

LEMMA BedsFinite ==
  ASSUME input \in Inputs
  PROVE  /\ \A F \in SUBSET Family : IsFiniteSet(InBed(F))
         /\ \A f \in Family : IsFiniteSet(BedPeople(f)) /\ BedPeople(f) \in SUBSET Nat
         /\ \A f, g \in Family : f # g => BedPeople(f) \cap BedPeople(g) = {}
<1>1. \A f \in Family : BedPeople(f) \subseteq Person
  BY InputTyped DEF BedPeople
<1>2. IsFiniteSet(Person) /\ Person \subseteq Nat
  BY RoomAssumption
<1>3. ASSUME NEW F \in SUBSET Family PROVE IsFiniteSet(InBed(F))
  <2>1. InBed(F) \in SUBSET Person
    BY <1>1 DEF InBed
  <2>. QED
    BY <1>2, <2>1, FS_Subset
<1>4. \A f, g \in Family : f # g => BedPeople(f) \cap BedPeople(g) = {}
  BY InputAssumption DEF BedPeople
<1>. QED
  BY <1>1, <1>2, <1>3, <1>4, FS_Subset

\* Families that were fixed have their turn first, and then the order of the ids.
LEMMA TurnOrder ==
  ASSUME NEW f \in Family, NEW g \in Family
  PROVE  Before(TurnOf(f), TurnOf(g)) <=>
           \/ f \in Fixed /\ g \notin Fixed
           \/ (f \in Fixed <=> g \in Fixed) /\ f < g
<1>. DEFINE a == IF f \in Fixed THEN 0 ELSE 1
            b == IF g \in Fixed THEN 0 ELSE 1
<1>1. TurnOf(f) = <<a, f>> /\ TurnOf(g) = <<b, g>>
  BY DEF TurnOf
<1>2. a \in Int /\ b \in Int /\ f \in Int /\ g \in Int
  BY RoomAssumption
<1>. HIDE DEF a, b
<1>3. Before(<<a, f>>, <<b, g>>) <=> a < b \/ (f < g /\ a = b)
  <2>1. /\ Len(<<a, f>>) = 2 /\ <<a, f>>[1] = a /\ <<a, f>>[2] = f
        /\ <<b, g>>[1] = b /\ <<b, g>>[2] = g
    OBVIOUS
  <2>2. 1..2 = {1, 2} /\ 1..(1 - 1) = {} /\ 1..(2 - 1) = {1}
    OBVIOUS
  <2>. QED
    BY <2>1, <2>2 DEF Before
<1>. QED
  BY <1>1, <1>2, <1>3 DEF a, b

\* The number by which a person is handed a place.
Number(p, f, x) == Taken(p, f) + Cardinality({b \in BedPeople(f) : b <= x})

Earlier(p, f) == {g \in RoomFamilies(p, p[f]) : Before(TurnOf(g), TurnOf(f))}

LEMMA Counted ==
  ASSUME input \in Inputs, NEW f \in Family, NEW x \in BedPeople(f)
  PROVE  /\ {b \in BedPeople(f) : b <= x} \in SUBSET BedPeople(f)
         /\ Cardinality({b \in BedPeople(f) : b <= x}) \in Nat
         /\ Cardinality({b \in BedPeople(f) : b <= x}) >= 1
         /\ \A y \in BedPeople(f) : x < y =>
              Cardinality({b \in BedPeople(f) : b <= x})
                < Cardinality({b \in BedPeople(f) : b <= y})
<1>. DEFINE upto(y) == {b \in BedPeople(f) : b <= y}
<1>1. IsFiniteSet(BedPeople(f)) /\ \A y \in BedPeople(f) : y \in Nat
  BY BedsFinite
<1>2. \A y : upto(y) \in SUBSET BedPeople(f)
  OBVIOUS
<1>3. {} \in SUBSET upto(x) /\ x \in upto(x) /\ x \notin {}
  BY <1>1
<1>4. ASSUME NEW y \in BedPeople(f), x < y
      PROVE  upto(x) \in SUBSET upto(y) /\ y \in upto(y) /\ y \notin upto(x)
  BY <1>1, <1>4
<1>. HIDE DEF upto
<1>5. \A y : IsFiniteSet(upto(y))
  BY <1>1, <1>2, FS_Subset
<1>6. Cardinality(upto(x)) \in Nat /\ Cardinality({}) < Cardinality(upto(x))
  BY <1>3, <1>5, Smaller
<1>7. ASSUME NEW y \in BedPeople(f), x < y
      PROVE  Cardinality(upto(x)) < Cardinality(upto(y))
  BY <1>4, <1>5, <1>7, Smaller
<1>8. Cardinality({}) = 0
  BY FS_EmptySet
<1>9. Cardinality(upto(x)) >= 1
  BY <1>6, <1>8
<1>. QED
  BY <1>2, <1>6, <1>7, <1>9 DEF upto

\* Who is numbered has a number between 1 and the people of the room.
LEMMA NumberBounds ==
  ASSUME input \in Inputs, NEW p, NEW f \in Family, NEW x \in BedPeople(f)
  PROVE  /\ Number(p, f, x) \in Nat /\ Number(p, f, x) >= 1
         /\ Number(p, f, x) <= Cardinality(InBed(RoomFamilies(p, p[f])))
         /\ Number(p, f, x) <= Cardinality(InBed(Earlier(p, f) \cup {f}))
         /\ Taken(p, f) \in Nat
<1>. DEFINE U == {b \in BedPeople(f) : b <= x}
            R == InBed(RoomFamilies(p, p[f]))
            E == InBed(Earlier(p, f))
            F == InBed(Earlier(p, f) \cup {f})
<1>1. Taken(p, f) = Cardinality(E)
  BY DEF Taken, Earlier
<1>2. U \in SUBSET BedPeople(f) /\ Cardinality(U) \in Nat /\ Cardinality(U) >= 1
  BY Counted
<1>3. /\ f \in RoomFamilies(p, p[f]) /\ RoomFamilies(p, p[f]) \in SUBSET Family
      /\ Earlier(p, f) \in SUBSET (RoomFamilies(p, p[f]) \ {f})
  <2>1. ~Before(TurnOf(f), TurnOf(f))
    <3>1. f \in Nat
      BY RoomAssumption
    <3>. QED
      BY <3>1, TurnOrder
  <2>. QED
    BY <2>1 DEF Earlier, RoomFamilies
<1>4. E \cap U = {}
  <2>1. \A g \in Earlier(p, f) : BedPeople(g) \cap BedPeople(f) = {}
    BY <1>3, BedsFinite
  <2>. QED
    BY <1>2, <2>1 DEF InBed
<1>5. E \in SUBSET F /\ U \in SUBSET F /\ F \in SUBSET R
  BY <1>2, <1>3 DEF InBed
<1>6. IsFiniteSet(R) /\ IsFiniteSet(F)
  BY <1>3, BedsFinite
<1>. HIDE DEF U, E, F, R
<1>7. /\ Cardinality(E) \in Nat /\ Cardinality(F) \in Nat
      /\ Cardinality(E) + Cardinality(U) <= Cardinality(F)
  BY <1>4, <1>5, <1>6, Together
<1>8. Cardinality(F) <= Cardinality(R) /\ Cardinality(R) \in Nat
  BY <1>5, <1>6, FS_Subset, FS_CardinalityType
<1>9. Number(p, f, x) = Cardinality(E) + Cardinality(U)
  BY <1>1 DEF Number, U
<1>. QED
  BY <1>1, <1>2, <1>7, <1>8, <1>9 DEF R, F

\* Of two families in a room the one whose turn is later begins behind the other.
LEMMA LaterBehind ==
  ASSUME input \in Inputs, NEW p, NEW f \in Family, NEW g \in Family, p[f] = p[g],
         Before(TurnOf(f), TurnOf(g)), NEW x \in BedPeople(f), NEW y \in BedPeople(g)
  PROVE  Number(p, f, x) < Number(p, g, y)
<1>1. Earlier(p, f) \cup {f} \in SUBSET Earlier(p, g)
  <2>1. Family \subseteq Nat
    BY RoomAssumption
  <2>2. ASSUME NEW h \in Earlier(p, f) PROVE h \in Earlier(p, g)
    <3>1. h \in Family /\ p[h] = p[f] /\ Before(TurnOf(h), TurnOf(f))
      BY DEF Earlier, RoomFamilies
    <3>2. Before(TurnOf(h), TurnOf(g))
      BY <2>1, <3>1, TurnOrder
    <3>. QED
      BY <3>1, <3>2 DEF Earlier, RoomFamilies
  <2>3. f \in Earlier(p, g)
    BY DEF Earlier, RoomFamilies
  <2>. QED
    BY <2>2, <2>3
<1>2. InBed(Earlier(p, f) \cup {f}) \in SUBSET InBed(Earlier(p, g))
  BY <1>1 DEF InBed
<1>3. IsFiniteSet(InBed(Earlier(p, g)))
  BY BedsFinite DEF Earlier, RoomFamilies
<1>4. Cardinality(InBed(Earlier(p, f) \cup {f})) <= Taken(p, g)
  BY <1>2, <1>3, FS_Subset DEF Taken, Earlier
<1>5. /\ Cardinality(InBed(Earlier(p, f) \cup {f})) \in Nat
      /\ Taken(p, g) \in Nat
  BY <1>2, <1>3, FS_Subset, FS_CardinalityType DEF Taken, Earlier
<1>6. Number(p, f, x) \in Nat /\ Number(p, f, x) <= Cardinality(InBed(Earlier(p, f) \cup {f}))
  BY NumberBounds
<1>7. /\ Cardinality({b \in BedPeople(g) : b <= y}) \in Nat
      /\ Cardinality({b \in BedPeople(g) : b <= y}) >= 1
  BY Counted
<1>. QED
  BY <1>4, <1>5, <1>6, <1>7 DEF Number

LEMMA DifferentNumbers ==
  ASSUME input \in Inputs, NEW p, NEW f \in Family, NEW g \in Family, p[f] = p[g],
         NEW x \in BedPeople(f), NEW y \in BedPeople(g), x # y
  PROVE  Number(p, f, x) # Number(p, g, y)
<1>1. Number(p, f, x) \in Nat /\ Number(p, g, y) \in Nat
  BY NumberBounds
<1>2. CASE f = g
  <2>1. x < y \/ y < x
    <3>1. x \in Nat /\ y \in Nat
      BY <1>2, BedsFinite
    <3>. QED
      BY <3>1
  <2>2. /\ Cardinality({b \in BedPeople(f) : b <= x}) \in Nat
        /\ Cardinality({b \in BedPeople(f) : b <= y}) \in Nat
        /\ Cardinality({b \in BedPeople(f) : b <= x}) #
             Cardinality({b \in BedPeople(f) : b <= y})
    BY <1>2, <2>1, Counted
  <2>3. Taken(p, f) \in Nat
    BY NumberBounds
  <2>. QED
    BY <1>2, <2>2, <2>3 DEF Number
<1>3. CASE f # g
  <2>1. f \in Nat /\ g \in Nat
    BY RoomAssumption
  <2>2. Before(TurnOf(f), TurnOf(g)) \/ Before(TurnOf(g), TurnOf(f))
    BY <1>3, <2>1, TurnOrder
  <2>3. Number(p, f, x) < Number(p, g, y) \/ Number(p, g, y) < Number(p, f, x)
    BY <2>2, LaterBehind
  <2>. QED
    BY <1>1, <2>3
<1>. QED
  BY <1>2, <1>3

(***************************************************************************)
(* Who was placed by a round found the room with beds enough for everybody *)
(* in it; only decisions overbook a room, and then nobody joins.           *)
(***************************************************************************)
FixedStay ==
  round # "fixing" =>
    \A f \in Fixed : placements[f] = IF FixedRoom(f) \in input.rooms THEN FixedRoom(f) ELSE None

FitTogether ==
  \A f \in Family \ Fixed : placements[f] # None =>
    Remaining(placements, placements[f]) >= 0

BInv ==
  /\ IInv
  /\ round = "fixing" => placements = Nobody
  /\ FixedStay
  /\ FitTogether
  /\ NobodyForgotten

\* A family that fits leaves nobody in the room without a bed.
LEMMA JoinsRoom ==
  ASSUME input \in Inputs, NEW p, NEW q, NEW f \in Family, NEW r \in input.rooms,
         Remaining(p, r) >= BedDemand(f),
         RoomFamilies(q, r) = RoomFamilies(p, r) \cup {f}, f \notin RoomFamilies(p, r)
  PROVE  Remaining(q, r) >= 0
<1>. DEFINE A == InBed(RoomFamilies(p, r))
            B == BedPeople(f)
            C == InBed(RoomFamilies(q, r))
<1>1. RoomFamilies(p, r) \in SUBSET Family /\ RoomFamilies(q, r) \in SUBSET Family
  BY DEF RoomFamilies
<1>2. C = A \cup B
  BY DEF InBed
<1>3. A \cap B = {}
  <2>1. \A g \in RoomFamilies(p, r) : BedPeople(g) \cap BedPeople(f) = {}
    BY <1>1, BedsFinite
  <2>. QED
    BY <2>1 DEF InBed
<1>4. IsFiniteSet(C)
  BY <1>1, BedsFinite
<1>. HIDE DEF A, B, C
<1>5. /\ Cardinality(A) \in Nat /\ Cardinality(B) \in Nat
      /\ Cardinality(A \cup B) = Cardinality(A) + Cardinality(B)
  <2>1. A \in SUBSET C /\ B \in SUBSET C
    BY <1>2
  <2>. QED
    BY <1>3, <1>4, <2>1, Together
<1>6. Cardinality(input.places[r]) \in Nat
  BY PlacesCounted
<1>7. Cardinality(input.places[r]) - Cardinality(A) >= Cardinality(B)
  BY DEF Remaining, BedDemand, A, B
<1>8. Cardinality(C) = Cardinality(A) + Cardinality(B)
  BY <1>2, <1>5
<1>. QED
  BY <1>5, <1>6, <1>7, <1>8 DEF Remaining, C

\* What the places handed out are, in an end that given describes.
Given(given) ==
  given = [x \in Person |->
     IF \E f \in Family : x \in input.people[f] /\ placements[f] # None
     THEN LET f == CHOOSE f \in Family : x \in input.people[f] IN PlaceOf(placements, f, x)
     ELSE None]

LEMMA OnePlaceEach ==
  ASSUME IInv, NEW given, Given(given), NEW f \in Family, NEW x \in Person,
         x \in input.people[f]
  PROVE  given[x] = IF placements[f] # None THEN PlaceOf(placements, f, x) ELSE None
<1>1. \A g \in Family : x \in input.people[g] => g = f
  BY InputAssumption DEF IInv
<1>2. (CHOOSE g \in Family : x \in input.people[g]) = f
  BY <1>1
<1>. QED
  BY <1>1, <1>2 DEF Given

\* A place that is handed out is one of the room, the one with the person's number.
LEMMA PlaceIsNth ==
  ASSUME IInv, NEW f \in Family, placements[f] # None, NEW x \in BedPeople(f),
         Number(placements, f, x) <= Cardinality(input.places[placements[f]])
  PROVE  LET P == input.places[placements[f]]
             y == PlaceOf(placements, f, x)
         IN  y \in P /\ Cardinality({z \in P : z < y}) = Number(placements, f, x) - 1
<1>. DEFINE P == input.places[placements[f]]
            n == Number(placements, f, x)
<1>1. placements[f] \in input.rooms /\ input \in Inputs
  BY DEF IInv
<1>2. P \in SUBSET Nat /\ IsFiniteSet(P)
  <2>1. P \subseteq Place /\ IsFiniteSet(Place) /\ Place \subseteq Nat
    BY <1>1, InputTyped, RoomAssumption
  <2>. QED
    BY <2>1, FS_Subset
<1>3. n \in Nat /\ n >= 1 /\ Cardinality(P) \in Nat
  BY <1>1, <1>2, NumberBounds, FS_CardinalityType
<1>. HIDE DEF P
<1>4. n \in 1..Cardinality(P)
  BY <1>3 DEF P
<1>5. PlaceOf(placements, f, x) = NthOf(P, n)
  BY DEF PlaceOf, Number, P
<1>. HIDE DEF n
<1>. QED
  BY <1>2, <1>4, <1>5, NthExists DEF P, n

LEMMA PlaceOrNone ==
  ASSUME NEW f \in Family, NEW x, PlaceOf(placements, f, x) # None
  PROVE  /\ x \in BedPeople(f)
         /\ Number(placements, f, x) <= Cardinality(input.places[placements[f]])
BY DEF PlaceOf, Number

\* No two persons are handed one place.
LEMMA NoPlaceTwice ==
  ASSUME IInv, NEW given, Given(given), NEW x \in Person, NEW y \in Person, x # y,
         given[x] # None
  PROVE  given[x] # given[y]
<1>. SUFFICES ASSUME given[x] = given[y] PROVE FALSE
  OBVIOUS
<1>1. PICK f \in Family : x \in input.people[f] /\ placements[f] # None
  BY DEF Given
<1>2. PICK g \in Family : y \in input.people[g] /\ placements[g] # None
  BY DEF Given
<1>3. given[x] = PlaceOf(placements, f, x) /\ given[y] = PlaceOf(placements, g, y)
  BY <1>1, <1>2, OnePlaceEach
<1>4. /\ x \in BedPeople(f) /\ Number(placements, f, x) <= Cardinality(input.places[placements[f]])
      /\ y \in BedPeople(g) /\ Number(placements, g, y) <= Cardinality(input.places[placements[g]])
  BY <1>3, PlaceOrNone
<1>5. /\ given[x] \in input.places[placements[f]]
      /\ Cardinality({z \in input.places[placements[f]] : z < given[x]})
           = Number(placements, f, x) - 1
      /\ given[y] \in input.places[placements[g]]
      /\ Cardinality({z \in input.places[placements[g]] : z < given[y]})
           = Number(placements, g, y) - 1
  BY <1>1, <1>2, <1>3, <1>4, PlaceIsNth
<1>6. placements[f] = placements[g]
  <2>1. placements[f] \in Room /\ placements[g] \in Room
    BY <1>1, <1>2, InputTyped DEF IInv
  <2>. QED
    BY <1>5, <2>1, InputAssumption DEF IInv
<1>7. Number(placements, f, x) - 1 = Number(placements, g, y) - 1
  BY <1>5, <1>6
<1>8. Number(placements, f, x) \in Nat /\ Number(placements, g, y) \in Nat
  BY <1>4, NumberBounds DEF IInv
<1>9. Number(placements, f, x) # Number(placements, g, y)
  BY <1>4, <1>6, DifferentNumbers DEF IInv
<1>. QED
  BY <1>7, <1>8, <1>9

\* A family that was placed by a round gets all its beds.
LEMMA AllInBed ==
  ASSUME IInv, FitTogether, NEW given, Given(given), NEW f \in Family \ Fixed,
         placements[f] # None, NEW x \in BedPeople(f)
  PROVE  given[x] \in input.places[placements[f]]
<1>. DEFINE r == placements[f]
<1>1. r \in input.rooms /\ input \in Inputs
  BY DEF IInv
<1>2. /\ Cardinality(InBed(RoomFamilies(placements, r))) \in Nat
      /\ Cardinality(input.places[r]) \in Nat
  BY <1>1, PeopleCounted, PlacesCounted DEF RoomFamilies
<1>3. Cardinality(input.places[r]) - Cardinality(InBed(RoomFamilies(placements, r))) >= 0
  BY DEF FitTogether, Remaining
<1>4. /\ Number(placements, f, x) \in Nat
      /\ Number(placements, f, x) <= Cardinality(InBed(RoomFamilies(placements, r)))
  BY <1>1, NumberBounds
<1>5. Number(placements, f, x) <= Cardinality(input.places[r])
  BY <1>2, <1>3, <1>4
<1>6. x \in Person /\ x \in input.people[f]
  BY <1>1, InputTyped DEF BedPeople
<1>7. given[x] = PlaceOf(placements, f, x)
  BY <1>6, OnePlaceEach
<1>. QED
  BY <1>5, <1>7, PlaceIsNth

\* Of a family that was fixed, who has no bed is listed.
LEMMA FixedListed ==
  ASSUME IInv, FixedStay, round # "fixing", NEW given, Given(given), NEW f \in Fixed,
         f \in Family, NEW x \in BedPeople(f)
  PROVE  \/ placements[f] # None /\ given[x] \in input.places[placements[f]]
         \/ x \in Violation(f, given).persons /\ Violated(f, given)
<1>1. x \in Person /\ x \in input.people[f]
  BY InputTyped DEF BedPeople, IInv
<1>2. CASE given[x] = None
  <2>1. x \in Violation(f, given).persons
    BY <1>2 DEF Violation
  <2>. QED
    BY <2>1 DEF Violated
<1>3. CASE given[x] # None
  <2>1. placements[f] # None /\ given[x] = PlaceOf(placements, f, x)
    BY <1>1, <1>3, OnePlaceEach
  <2>2. Number(placements, f, x) <= Cardinality(input.places[placements[f]])
    BY <1>3, <2>1, PlaceOrNone
  <2>. QED
    BY <2>1, <2>2, PlaceIsNth
<1>. QED
  BY <1>2, <1>3

LEMMA FinishForgetsNobody ==
  ASSUME BInv, Finish
  PROVE  NobodyForgotten'
<1>1. /\ input' = input /\ placements' = placements /\ round = "placing"
      /\ unplaced' = Unplaced(placements) /\ Given(assigned')
      /\ violations' = {Violation(f, assigned') : f \in {g \in Fixed : Violated(g, assigned')}}
  BY DEF Finish, Given
<1>2. IInv /\ FixedStay /\ FitTogether
  BY DEF BInv
<1>3. Fixed \subseteq Family
  BY <1>2, InputAssumption DEF Fixed, IInv, Input
<1>4. \A f \in Family : \A x \in BedPeople(f) :
        \/ placements[f] # None /\ assigned'[x] \in input.places[placements[f]]
        \/ f \in unplaced'
        \/ f \in Fixed /\ \E v \in violations' : v.family = f /\ x \in v.persons
  <2>. SUFFICES ASSUME NEW f \in Family, NEW x \in BedPeople(f)
                PROVE  \/ placements[f] # None /\ assigned'[x] \in input.places[placements[f]]
                       \/ f \in unplaced'
                       \/ f \in Fixed /\ \E v \in violations' : v.family = f /\ x \in v.persons
    OBVIOUS
  <2>1. CASE f \notin Fixed
    BY <1>1, <1>2, <2>1, AllInBed DEF Unplaced
  <2>2. CASE f \in Fixed
    <3>1. \/ placements[f] # None /\ assigned'[x] \in input.places[placements[f]]
          \/ x \in Violation(f, assigned').persons /\ Violated(f, assigned')
      BY <1>1, <1>2, <2>2, FixedListed
    <3>2. Violation(f, assigned').family = f
      BY DEF Violation
    <3>. QED
      BY <1>1, <2>2, <3>1, <3>2
  <2>. QED
    BY <2>1, <2>2
<1>5. \A f \in Fixed : placements[f] \in {FixedRoom(f), None}
  BY <1>1, <1>2 DEF FixedStay
<1>6. \A x, y \in Person : x # y /\ assigned'[x] # None => assigned'[x] # assigned'[y]
  BY <1>1, <1>2, NoPlaceTwice
<1>7. Fixed' = Fixed /\ (\A f : FixedRoom(f)' = FixedRoom(f)) /\ \A f : BedPeople(f)' = BedPeople(f)
  BY <1>1 DEF Fixed, FixedRoom, BedPeople
<1>. QED
  BY <1>1, <1>4, <1>5, <1>6, <1>7 DEF NobodyForgotten

LEMMA StillRemaining ==
  ASSUME input' = input
  PROVE  \A r : Remaining(placements, r)' = Remaining(placements', r)
BY DEF Remaining, RoomFamilies, InBed, BedPeople

LEMMA PlacedTogether ==
  ASSUME BInv, PlaceNext
  PROVE  FixedStay' /\ FitTogether'
<1>1. PICK f \in Ranked : \E d \in evaluations[f] : placements' = [placements EXCEPT ![f] = d[1]]
  BY DEF PlaceNext
<1>2. PICK d \in evaluations[f] : placements' = [placements EXCEPT ![f] = d[1]]
  BY <1>1
<1>3. PICK r : r = d[1]
  OBVIOUS
<1>4. /\ placements' = [placements EXCEPT ![f] = r]
      /\ input' = input /\ round = "placing"
      /\ input \in Inputs
      /\ placements \in [Family -> input.rooms \cup {None}]
  BY <1>2, <1>3 DEF PlaceNext, BInv, IInv
<1>5. f \in Family \ Fixed /\ placements[f] = None /\ f \in Unplaced(placements)
  BY DEF Ranked, Unplaced
<1>6. r \in input.rooms /\ Feasible(placements, f, r)
  <2>1. d \in EvaluateRooms(placements, f)
    BY <1>4, <1>5 DEF BInv, IInv, EvaluationsFresh
  <2>. QED
    BY <1>3, <2>1, CandidateFits
<1>7. Fixed' = Fixed /\ \A g : FixedRoom(g)' = FixedRoom(g)
  BY <1>4 DEF Fixed, FixedRoom
<1>8. None \notin input.rooms /\ Fixed \subseteq Family
  BY <1>4, InputTyped, InputAssumption DEF Fixed, Input
<1>9. FixedStay'
  BY <1>4, <1>5, <1>7, <1>8 DEF FixedStay, BInv
<1>10. FitTogether'
  <2>. SUFFICES ASSUME NEW g \in Family \ Fixed, placements'[g] # None
                PROVE  Remaining(placements', placements'[g]) >= 0
    BY <1>4, <1>7, StillRemaining DEF FitTogether
  <2>1. CASE placements'[g] = r
    <3>1. /\ RoomFamilies(placements', r) = RoomFamilies(placements, r) \cup {f}
          /\ f \notin RoomFamilies(placements, r)
      BY <1>4, <1>5, <1>6, <1>8 DEF RoomFamilies
    <3>2. Remaining(placements, r) >= BedDemand(f)
      BY <1>6 DEF Feasible
    <3>. QED
      BY <1>4, <1>5, <1>6, <2>1, <3>1, <3>2, JoinsRoom
  <2>2. CASE placements'[g] # r
    <3>1. g # f /\ placements'[g] = placements[g] /\ placements[g] # None
      BY <1>4, <2>2
    <3>2. RoomFamilies(placements', placements[g]) = RoomFamilies(placements, placements[g])
      BY <1>4, <1>5, <2>2, <3>1 DEF RoomFamilies
    <3>3. Remaining(placements, placements[g]) >= 0
      BY <3>1 DEF BInv, FitTogether
    <3>. QED
      BY <3>1, <3>2, <3>3 DEF Remaining
  <2>. QED
    BY <2>1, <2>2
<1>. QED
  BY <1>9, <1>10

\* Nobody who needs a bed is lost, and no bed is given twice, whatever the decisions.
THEOREM Beds == Spec => []NobodyForgotten
<1>1. Init => BInv
  <2>. SUFFICES ASSUME Init PROVE BInv
    OBVIOUS
  <2>1. IInv
    BY Initially
  <2>2. round = "fixing" /\ placements = Nobody
    BY DEF Init
  <2>. QED
    BY <2>1, <2>2 DEF BInv, FixedStay, FitTogether, NobodyForgotten, Nobody
<1>2. BInv /\ [Next]_vars => BInv'
  <2>. SUFFICES ASSUME BInv, [Next]_vars PROVE BInv'
    OBVIOUS
  <2>1. IInv'
    BY Inductive DEF BInv
  <2>2. CASE PlaceFixed
    <3>1. /\ round' = "placing" /\ input' = input
          /\ placements' = [f \in Family |->
               IF f \in Fixed /\ FixedRoom(f) \in input.rooms THEN FixedRoom(f) ELSE None]
      BY <2>2 DEF PlaceFixed
    <3>2. Fixed' = Fixed /\ Fixed \subseteq Family /\ \A f : FixedRoom(f)' = FixedRoom(f)
      BY <3>1, InputAssumption DEF Fixed, FixedRoom, BInv, IInv, Input
    <3>3. FixedStay'
      BY <3>1, <3>2 DEF FixedStay
    <3>4. FitTogether'
      BY <3>1, <3>2 DEF FitTogether
    <3>. QED
      BY <2>1, <3>1, <3>3, <3>4 DEF BInv, NobodyForgotten
  <2>3. CASE PlaceNext
    <3>1. round' = "placing"
      BY <2>3 DEF PlaceNext
    <3>. QED
      BY <2>1, <2>3, <3>1, PlacedTogether DEF BInv, NobodyForgotten
  <2>4. CASE Finish
    <3>1. /\ input' = input /\ placements' = placements /\ round' = "done"
          /\ round = "placing"
      BY <2>4 DEF Finish
    <3>2. Fixed' = Fixed /\ \A f : FixedRoom(f)' = FixedRoom(f)
      BY <3>1 DEF Fixed, FixedRoom
    <3>3. FixedStay' /\ FitTogether'
      BY <3>1, <3>2, StillRemaining DEF BInv, FixedStay, FitTogether
    <3>. QED
      BY <2>1, <2>4, <3>1, <3>3, FinishForgetsNobody DEF BInv
  <2>5. CASE UNCHANGED vars
    <3>1. UNCHANGED <<input, placements, round, assigned, unplaced, violations>>
      BY <2>5 DEF vars, result
    <3>2. /\ Fixed' = Fixed /\ \A f : FixedRoom(f)' = FixedRoom(f)
          /\ \A f : BedPeople(f)' = BedPeople(f)
      BY <3>1 DEF Fixed, FixedRoom, BedPeople
    <3>3. FixedStay' /\ FitTogether'
      BY <3>1, <3>2, StillRemaining DEF BInv, FixedStay, FitTogether
    <3>4. NobodyForgotten'
      BY <3>1, <3>2 DEF BInv, NobodyForgotten
    <3>. QED
      BY <2>1, <3>1, <3>3, <3>4 DEF BInv, Nobody
  <2>. QED
    BY <2>2, <2>3, <2>4, <2>5 DEF Next
<1>3. BInv => NobodyForgotten
  BY DEF BInv
<1>. QED
  BY <1>1, <1>2, <1>3, PTL DEF Spec
=============================================================================
