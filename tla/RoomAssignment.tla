---------------------------- MODULE RoomAssignment ----------------------------
(***************************************************************************)
(* The solver stage room-assignment.place: which family sleeps in which    *)
(* room, and who in which place.                                           *)
(*                                                                         *)
(* Families an organiser fixed in one room are put there, feasible or not. *)
(* Then, round by round, the family that comes first is put into its best  *)
(* feasible room.  What a family may and would like is evaluated once for  *)
(* every room, and after a placement again for the room placed into.  One  *)
(* step is one placement.                                                  *)
(*                                                                         *)
(* Families, persons and places are numbers in the order of their ids,     *)
(* rooms in the order of sort_key and id.  Traces, diagnostics and wording *)
(* are left out; both rules are about the target room, so that is the only *)
(* refresh modelled.                                                       *)
(***************************************************************************)
EXTENDS Integers, Sequences, FiniteSetsExt, Functions

CONSTANTS Family, Room, Person, Place, Capability,
          Inputs,     \* the inputs to assign for
          ExactFit, NearFit, OrphanBed,
          Scarce,     \* the penalty of each scarce capability
          None

Requirement ==
  [strength : {"required", "preferred"}, kind : {"capability", "sole", "apart"},
   what : Capability \cup Family \cup {None}, weight : Nat, penalty : Int, urgent : BOOLEAN]

Input ==
  [rooms        : SUBSET Room,                 \* those that are not blocked
   places       : [Room -> SUBSET Place],
   capabilities : [Room -> SUBSET Capability],
   key          : [Family -> Nat],             \* sort_key
   people       : [Family -> SUBSET Person],
   bedless      : SUBSET Person,
   requires     : [Family -> SUBSET Requirement],
   excludes     : [Family -> SUBSET Room],
   decided      : SUBSET Family,               \* with a room decision
   decision     : [Family -> SUBSET Room]]

ASSUME RoomAssumption ==
  /\ \A S \in {Family, Room, Person, Place} : S \subseteq Nat /\ IsFiniteSet(S)
  /\ None \notin Room \cup Place
  /\ {ExactFit, NearFit, OrphanBed} \subseteq Int
  /\ Scarce \in [Capability -> Int]
ASSUME InputAssumption ==
  /\ Inputs \subseteq Input
  /\ \A i \in Inputs :
       /\ \A r, s \in Room : r # s => i.places[r] \cap i.places[s] = {}
       /\ \A f, g \in Family : f # g => i.people[f] \cap i.people[g] = {}

VARIABLES
  input,
  placements,   \* the room of each family
  evaluations,  \* of each family, its candidates: feasible rooms with their scores
  round,        \* fixing, placing, done
  assigned,     \* of each person, the place
  unplaced,     \* the families listed as unplaced
  violations    \* fixed families whose decision breaks a rule, and who has no bed

vars == <<input, placements, evaluations, round, assigned, unplaced, violations>>

result == <<assigned, unplaced, violations>>

Before(s, t) ==
  \E i \in 1..Len(s) : s[i] < t[i] /\ \A j \in 1..(i - 1) : s[j] = t[j]

IsFirst(x, S, order(_)) == \A y \in S \ {x} : Before(order(x), order(y))

-----------------------------------------------------------------------------
BedPeople(f) == input.people[f] \ input.bedless

BedDemand(f) == Cardinality(BedPeople(f))

RoomFamilies(p, r) == {f \in Family : p[f] = r}

\* A person is of one family, so that the demands of families add up.
InBed(F) == UNION {BedPeople(f) : f \in F}

Remaining(p, r) ==
  Cardinality(input.places[r]) - Cardinality(InBed(RoomFamilies(p, r)))

Required(f) == {q \in input.requires[f] : q.strength = "required"}

Preferred(f) == input.requires[f] \ Required(f)

\* Whether room r, with families o in it, answers a requirement of family f.
Satisfied(q, f, r, o) ==
  /\ q.kind = "capability" => q.what \in input.capabilities[r]
  /\ q.kind = "sole" => o \subseteq {f}
  /\ q.kind = "apart" => q.what \notin o

Decided(f, r) == f \notin input.decided \/ r \in input.decision[f]

\* Mutant: a room fits when it has a place left.
FeasibleWithOnePlace(p, f, r) ==
  /\ Remaining(p, r) > 0
  /\ \A q \in Required(f) : Satisfied(q, f, r, RoomFamilies(p, r))
  /\ Decided(f, r) /\ r \notin input.excludes[f]

\* Only what the family itself requires is asked, not what those in the room do.
Feasible(p, f, r) ==
  /\ Remaining(p, r) >= BedDemand(f)
  /\ \A q \in Required(f) : Satisfied(q, f, r, RoomFamilies(p, r))
  /\ Decided(f, r) /\ r \notin input.excludes[f]

FitScore(slack, demand) ==
  IF slack = 0 THEN ExactFit
  ELSE IF slack > 0
       THEN OrphanBed * slack + (IF slack <= Max({1, demand}) THEN NearFit ELSE 0)
       ELSE 0

\* The sum of the values of a function.
SumOver(g) == FoldFunction(LAMBDA x, y : x + y, 0, g)

Score(p, f, r) ==
  LET unwanted == {c \in input.capabilities[r] : \A q \in input.requires[f] : q.what # c} IN
  FitScore(Remaining(p, r) - BedDemand(f), BedDemand(f))
    + SumOver([q \in Preferred(f) |->
                 IF Satisfied(q, f, r, RoomFamilies(p, r)) THEN q.weight ELSE q.penalty])
    + SumOver([c \in unwanted |-> Scarce[c]])

EvaluateRoom(p, f, r) == IF Feasible(p, f, r) THEN {<<r, Score(p, f, r)>>} ELSE {}

EvaluateRooms(p, f) == UNION {EvaluateRoom(p, f, r) : r \in input.rooms}

\* The stable order of candidates: the better score, then the room.
CompareScore(c) == <<-c[2], c[1]>>

\* Before anything is placed: what makes a family impossible to place.
Nobody == [f \in Family |-> None]

Capacity(S) == Cardinality(UNION {input.places[r] : r \in S})

TooFewPlaces(f) ==
  \/ Capacity(input.rooms) < BedDemand(f)
  \/ \E q \in Required(f) :
       /\ q.kind = "capability"
       /\ Capacity({r \in input.rooms : q.what \in input.capabilities[r]}) < BedDemand(f)

NoProvider(f) == f \in input.decided /\ input.decision[f] = {}

Preflight ==
  {f \in Family :
     \/ TooFewPlaces(f) \/ NoProvider(f)
     \/ input.rooms # {} /\ \A r \in input.rooms : ~Feasible(Nobody, f, r)}

-----------------------------------------------------------------------------
Fixed == {f \in input.decided : Cardinality(input.decision[f]) = 1}

FixedRoom(f) == CHOOSE r \in input.decision[f] : TRUE

Unplaced(p) == {f \in Family \ Fixed : p[f] = None}

Priority(f) ==
  Max({0} \cup {(IF q.strength = "required" THEN 2 ELSE 1) * q.weight
                : q \in {q \in input.requires[f] : q.urgent}})

FamilyOrder(f) ==
  <<-Priority(f), Cardinality(evaluations[f]), -BedDemand(f), input.key[f], f>>

\* Mutant: a candidate of score 0 or less does not count.
RankedLiking ==
  {f \in Unplaced(placements) : \E c \in evaluations[f] : c[2] > 0}

Ranked == {f \in Unplaced(placements) : evaluations[f] # {}}

\* The places of a room in order of their ids, handed to those with a bed.
NthOf(S, n) == CHOOSE x \in S : Cardinality({y \in S : y < x}) = n - 1

\* Families that were fixed choose first; who finds no place has none.
TurnOf(f) == <<IF f \in Fixed THEN 0 ELSE 1, f>>

Taken(p, f) ==
  LET earlier == {g \in RoomFamilies(p, p[f]) : Before(TurnOf(g), TurnOf(f))} IN
  Cardinality(InBed(earlier))

PlaceOf(p, f, person) ==
  LET n == Taken(p, f) + Cardinality({b \in BedPeople(f) : b <= person}) IN
  IF person \in BedPeople(f) /\ n <= Cardinality(input.places[p[f]])
  THEN NthOf(input.places[p[f]], n) ELSE None

\* The room a family was fixed in is asked as if the family were still outside.
Without(p, f) == [p EXCEPT ![f] = None]

Violation(f, given) ==
  [family |-> f, persons |-> {x \in BedPeople(f) : given[x] = None}]

Violated(f, given) ==
  \/ FixedRoom(f) \notin input.rooms
  \/ ~Feasible(Without(placements, f), f, FixedRoom(f))
  \/ Violation(f, given).persons # {}

-----------------------------------------------------------------------------
Init ==
  /\ input \in Inputs
  /\ placements = Nobody
  /\ evaluations = [f \in Family |-> {}]
  /\ round = "fixing"
  /\ assigned = [x \in Person |-> None]
  /\ unplaced = {} /\ violations = {}

\* The families an organiser fixed, where the room is available; nothing is asked.
PlaceFixed ==
  /\ round = "fixing"
  /\ placements' = [f \in Family |->
       IF f \in Fixed /\ FixedRoom(f) \in input.rooms THEN FixedRoom(f) ELSE None]
  /\ evaluations' = [f \in Family |->
       IF f \in Unplaced(placements') THEN EvaluateRooms(placements', f) ELSE {}]
  /\ round' = "placing"
  /\ UNCHANGED <<input, result>>

\* Mutant: what was evaluated before the first round stays.
Stale(p, room) == evaluations

Refreshed(p, room) ==
  [f \in Family |-> IF f \in Unplaced(p)
                    THEN {c \in evaluations[f] : c[1] # room} \cup EvaluateRoom(p, f, room)
                    ELSE evaluations[f]]

PlaceNext ==
  /\ round = "placing"
  /\ \E f \in Ranked : \E c \in evaluations[f] :
       /\ IsFirst(f, Ranked, FamilyOrder)
       /\ IsFirst(c, evaluations[f], CompareScore)
       /\ placements' = [placements EXCEPT ![f] = c[1]]
       /\ evaluations' = Refreshed(placements', c[1])
  /\ UNCHANGED <<input, round, result>>

Finish ==
  /\ round = "placing" /\ Ranked = {}
  /\ unplaced' = Unplaced(placements)
  /\ assigned' = [x \in Person |->
       IF \E f \in Family : x \in input.people[f] /\ placements[f] # None
       THEN LET f == CHOOSE f \in Family : x \in input.people[f] IN PlaceOf(placements, f, x)
       ELSE None]
  /\ violations' = {Violation(f, assigned') : f \in {g \in Fixed : Violated(g, assigned')}}
  /\ round' = "done"
  /\ UNCHANGED <<input, placements, evaluations>>

Next == PlaceFixed \/ PlaceNext \/ Finish

Spec == Init /\ [][Next]_vars

-----------------------------------------------------------------------------
(***************************************************************************)
(* Properties.                                                             *)
(***************************************************************************)
\* Refreshing one room after a placement is as good as evaluating every family in
\* every room again: no family is ever ranked or placed by a score that other
\* placements have changed meanwhile (458-482).
EvaluationsFresh ==
  round # "fixing" =>
    \A f \in Unplaced(placements) : evaluations[f] = EvaluateRooms(placements, f)

\* Nobody is forgotten: whoever needs a bed has one in the room of the family, or the
\* family is listed as unplaced, or the person is listed under a fixed decision, which
\* is for no other room; and no bed is given twice, although beds are handed out in
\* another order than the families were placed and decisions may have overbooked the
\* room (493-550, 1026-1061).
NobodyForgotten ==
  round = "done" =>
    /\ \A f \in Family : \A x \in BedPeople(f) :
         \/ placements[f] # None /\ assigned[x] \in input.places[placements[f]]
         \/ f \in unplaced
         \/ f \in Fixed /\ \E v \in violations : v.family = f /\ x \in v.persons
    /\ \A f \in Fixed : placements[f] \in {FixedRoom(f), None}
    /\ \A x, y \in Person : x # y /\ assigned[x] # None => assigned[x] # assigned[y]

\* Nobody is left out who still fits, and the preflight has told of a family what it
\* could tell: one it warned of gets no room, and one it did not warn of would have had
\* a room in an empty house (411-437, 493-497, 631-732).
UnplacedForAReason ==
  round = "done" =>
    /\ unplaced = {f \in Family \ Fixed : placements[f] = None}
    /\ \A f \in unplaced, r \in input.rooms : ~Feasible(placements, f, r)
    /\ Preflight \ Fixed \subseteq unplaced
    /\ input.rooms # {} =>
         \A f \in unplaced \ Preflight : \E r \in input.rooms : Feasible(Nobody, f, r)
=============================================================================
