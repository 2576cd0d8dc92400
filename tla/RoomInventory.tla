---------------------------- MODULE RoomInventory ----------------------------
(***************************************************************************)
(* The buildings, rooms, beds and places of the accommodation, as the      *)
(* fold of the inventory's events leaves them.                             *)
(*                                                                         *)
(* The module that declares these events keeps no state of its own: what   *)
(* is in what is a label of the kernel ("located-in"), and its validators  *)
(* ask the kernel which entities carry given labels.  The kernel answers   *)
(* from tuple indexes that it creates at the first question and keeps      *)
(* fresh with every label it writes or drops and every entity it retires.  *)
(* No check of the finished world looks at located-in, so that nothing     *)
(* dangles and no number is given twice rests on these indexes.            *)
(*                                                                         *)
(* An event that a validator refuses ends the derivation of its batch: it  *)
(* leaves no state behind, and there is no step for it here.  Names, sort  *)
(* keys, floors and bed types are left out.                                *)
(***************************************************************************)
EXTENDS Integers, FiniteSets

CONSTANTS Building, Room, Bed,  \* ids
          Number,               \* room numbers
          BedLabel, NoLabel,    \* labels of beds, and the empty one
          Apartment, Standard,  \* room types
          Absent                \* an absent label, kind or tuple

ASSUME AbsentAssumption ==
  /\ Absent \notin Building /\ Absent \notin Room /\ Absent \notin Bed
  /\ Absent \notin Number /\ Absent \notin BedLabel
  /\ Absent # NoLabel /\ Absent # Apartment /\ Absent # Standard
  /\ Absent \notin {"building", "room", "bed", "place"}
  /\ Absent \notin [{"located-in"} -> Bed]
ASSUME TypeAssumption == Apartment # Standard /\ NoLabel \notin BedLabel

Place == Bed \X {1, 2}
Id == Building \cup Room \cup Bed \cup Place

\* An id starts with what it is the id of.
ASSUME KindAssumption ==
  /\ Building \cap Room = {} /\ Building \cap Bed = {} /\ Room \cap Bed = {}
  /\ (Building \cup Room \cup Bed) \cap Place = {}

VARIABLES
  kind,    \* the kind of each live entity
  labels,  \* its labels, one value for each key
  index,   \* the tuple indexes: for each the tuple under which it files an entity
  indexed  \* the indexes created so far

inventory == <<kind, labels, index, indexed>>

RoomKey == {"located-in", "number", "room-type", "label", "sleeps", "sleeping-room"}
NoLabels == [k \in RoomKey |-> Absent]
NoTuples == [e \in Id |-> Absent]

IsLive(k, e) == kind[e] = k

(***************************************************************************)
(* Tuple indexes.                                                          *)
(***************************************************************************)
Signature == [kind : {"room", "bed", "place"},
              keys : {{"located-in"}, {"located-in", "number"}, {"located-in", "label"}}]

RoomsIn == [kind |-> "room", keys |-> {"located-in"}]
RoomsByNumber == [kind |-> "room", keys |-> {"located-in", "number"}]
BedsIn == [kind |-> "bed", keys |-> {"located-in"}]
BedsByLabel == [kind |-> "bed", keys |-> {"located-in", "label"}]
PlacesOf == [kind |-> "place", keys |-> {"located-in"}]

\* refreshTuple: where an index files e, given the kinds and labels there are.
Filed(sig, e, kinds, labelled) ==
  IF kinds[e] = sig.kind /\ \A k \in sig.keys : labelled[e][k] # Absent
  THEN [k \in sig.keys |-> labelled[e][k]] ELSE Absent

\* matchingEntities: a new index files every live entity.
Index(sig) ==
  IF sig \in indexed THEN index[sig] ELSE [e \in Id |-> Filed(sig, e, kind, labels)]

Matching(sig, criteria) == {e \in Id : Index(sig)[e] = criteria}

\* ~ hasEntityWithLabels(kind, labels, exceptId)
NoOther(sig, criteria, except) == Matching(sig, criteria) \subseteq {except}

\* putLabel refreshes the indexes of an entity, unregisterEntity does, too.
Refreshed(written, retired) == written \cup retired

\* One event's fold: the validators' questions create the indexes `used`, then
\* entities are written and retired.
FoldEvent(used, kinds, labelled, written, retired) ==
  /\ kind' = kinds
  /\ labels' = labelled
  /\ indexed' = indexed \cup used
  /\ index' = [sig \in Signature |->
       IF sig \notin indexed' THEN NoTuples
       ELSE [e \in Id |-> IF e \in Refreshed(written, retired)
                          THEN Filed(sig, e, kinds, labelled) ELSE Index(sig)[e]]]

RetireKinds(es) == [e \in Id |-> IF e \in es THEN Absent ELSE kind[e]]
\* Mutant: retireEntity without removeLabelsForEntity.
RetireLabelsNever(es) == labels

RetireLabels(es) == [e \in Id |-> IF e \in es THEN NoLabels ELSE labels[e]]

-----------------------------------------------------------------------------
RoomsInit ==
  /\ kind = [e \in Id |-> Absent]
  /\ labels = [e \in Id |-> NoLabels]
  /\ index = [sig \in Signature |-> NoTuples]
  /\ indexed = {}

BuildingAdded(b) ==
  /\ kind[b] = Absent
  /\ FoldEvent({}, [kind EXCEPT ![b] = "building"], labels, {b}, {})

\* Writes the name, which no question is about.
BuildingUpdated(b) ==
  /\ IsLive("building", b)
  /\ FoldEvent({}, kind, labels, {b}, {})

\* Mutant: a building is removed with its rooms still in it.
BuildingIsEmptyAlways(b) == TRUE

BuildingIsEmpty(b) == Matching(RoomsIn, [k \in {"located-in"} |-> b]) = {}

BuildingRemoved(b) ==
  /\ IsLive("building", b)
  /\ BuildingIsEmpty(b)
  /\ FoldEvent({RoomsIn}, RetireKinds({b}), RetireLabels({b}), {}, {b})

RoomLabels(b, n, t) ==
  [NoLabels EXCEPT !["located-in"] = b, !["number"] = n, !["room-type"] = t]

\* Mutant: only a new room is compared with the others.
NumberIsFreeOnce(r, b, n) ==
  kind[r] = Absent =>
    NoOther(RoomsByNumber,
            [k \in {"located-in", "number"} |-> IF k = "number" THEN n ELSE b], r)

NumberIsFree(r, b, n) ==
  NoOther(RoomsByNumber,
          [k \in {"located-in", "number"} |-> IF k = "number" THEN n ELSE b], r)

WriteRoom(r) ==
  \E b \in Building, n \in Number, t \in {Apartment, Standard} :
    /\ IsLive("building", b)
    /\ NumberIsFree(r, b, n)
    /\ FoldEvent({RoomsByNumber}, [kind EXCEPT ![r] = "room"],
                 [labels EXCEPT ![r] = RoomLabels(b, n, t)], {r}, {})

RoomAdded(r) == kind[r] = Absent /\ WriteRoom(r)

RoomUpdated(r) == IsLive("room", r) /\ WriteRoom(r)

RoomRemoved(r) ==
  /\ IsLive("room", r)
  /\ Matching(BedsIn, [k \in {"located-in"} |-> r]) = {}
  /\ FoldEvent({BedsIn}, RetireKinds({r}), RetireLabels({r}), {}, {r})

BedLabels(r, l, n, s) ==
  [NoLabels EXCEPT !["located-in"] = r, !["label"] = l, !["sleeps"] = n,
                   !["sleeping-room"] = s]

LabelIsFree(d, r, l) ==
  l # NoLabel =>
    NoOther(BedsByLabel,
            [k \in {"located-in", "label"} |-> IF k = "label" THEN l ELSE r], d)

PlacesOfBed(d) == Matching(PlacesOf, [k \in {"located-in"} |-> d])

\* syncPlaces retires the places of a bed that sleeps fewer, and adds missing ones.
Surplus(d, n) == PlacesOfBed(d) \ ({d} \X (1..n))
Missing(d, n) == {p \in {d} \X (1..n) : ~IsLive("place", p)}

SyncKinds(kinds, d, n) ==
  [e \in Id |-> CASE e \in Surplus(d, n) -> Absent
                  [] e \in Missing(d, n) -> "place"
                  [] OTHER -> kinds[e]]

SyncLabels(labelled, d, n) ==
  [e \in Id |-> CASE e \in Surplus(d, n) -> NoLabels
                  [] e \in Missing(d, n) -> [NoLabels EXCEPT !["located-in"] = d]
                  [] OTHER -> labelled[e]]

WriteBed(d) ==
  \E r \in Room, l \in BedLabel \cup {NoLabel}, n \in {1, 2}, s \in {Absent, 1} :
    /\ IsLive("room", r)
    /\ s # Absent => labels[r]["room-type"] = Apartment
    /\ LabelIsFree(d, r, l)
    /\ FoldEvent({PlacesOf} \cup (IF l = NoLabel THEN {} ELSE {BedsByLabel}),
                 SyncKinds([kind EXCEPT ![d] = "bed"], d, n),
                 SyncLabels([labels EXCEPT ![d] = BedLabels(r, l, n, s)], d, n),
                 {d} \cup Missing(d, n), Surplus(d, n))

BedAdded(d) == kind[d] = Absent /\ WriteBed(d)

BedUpdated(d) == IsLive("bed", d) /\ WriteBed(d)

BedRemoved(d) ==
  /\ IsLive("bed", d)
  /\ LET gone == {d} \cup Surplus(d, 0) IN
     FoldEvent({PlacesOf}, RetireKinds(gone), RetireLabels(gone), {}, gone)

RoomsNext ==
  \/ \E b \in Building : BuildingAdded(b) \/ BuildingUpdated(b) \/ BuildingRemoved(b)
  \/ \E r \in Room : RoomAdded(r) \/ RoomUpdated(r) \/ RoomRemoved(r)
  \/ \E d \in Bed : BedAdded(d) \/ BedUpdated(d) \/ BedRemoved(d)

RoomsSpec == RoomsInit /\ [][RoomsNext]_inventory

-----------------------------------------------------------------------------
(***************************************************************************)
(* Properties                                                              *)
(***************************************************************************)
KindOf(e) == CASE e \in Building -> "building" [] e \in Room -> "room"
               [] e \in Bed -> "bed" [] OTHER -> "place"

\* Type invariant: an id is only ever of the kind its prefix says, and an entity
\* that is retired leaves no label behind for a later one of the same id.
TypeOK ==
  /\ \A e \in Id : kind[e] \in {Absent, KindOf(e)}
  /\ \A e \in Id : kind[e] = Absent => labels[e] = NoLabels
  /\ DOMAIN labels = Id /\ \A e \in Id : DOMAIN labels[e] = RoomKey
  /\ DOMAIN index = Signature /\ indexed \subseteq Signature

Host(e) == labels[e]["located-in"]

\* Every room is in a building that is there, every bed in a room, and the places, the
\* capacity of the house, are what the beds sleep: no removal overtakes what is
\* located in the thing removed, and no change of a bed leaves places behind.
NothingDangles ==
  /\ \A r \in Room : IsLive("room", r) =>
       \E b \in Building : Host(r) = b /\ IsLive("building", b)
  /\ \A d \in Bed : IsLive("bed", d) => \E r \in Room : Host(d) = r /\ IsLive("room", r)
  /\ \A p \in Place : IsLive("place", p) <=>
       IsLive("bed", p[1]) /\ p[2] <= labels[p[1]]["sleeps"]
  /\ \A p \in Place : IsLive("place", p) => Host(p) = p[1]

\* No building has two rooms of one number, no room two beds of one label, however
\* they were added, renumbered and moved; and an index the check has asked long ago
\* answers as one created now.
NumbersUnique ==
  /\ \A r, s \in Room : IsLive("room", r) /\ IsLive("room", s) /\ Host(r) = Host(s)
       /\ labels[r]["number"] = labels[s]["number"] => r = s
  /\ \A d, e \in Bed : IsLive("bed", d) /\ IsLive("bed", e) /\ Host(d) = Host(e)
       /\ labels[d]["label"] = labels[e]["label"] /\ labels[d]["label"] # NoLabel => d = e
  /\ \A sig \in indexed, e \in Id : index[sig][e] = Filed(sig, e, kind, labels)
=============================================================================
