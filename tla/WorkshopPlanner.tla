---------------------------- MODULE WorkshopPlanner ----------------------------
(***************************************************************************)
(* The plan of the workshops: where and when each takes place, and who     *)
(* attends.  The solver runs four loops over a world that does not change: *)
(* the placements an organiser fixed, the other workshops, the attendances *)
(* an organiser fixed, and the ranked wishes round by round.  One step is  *)
(* one turn of a loop.                                                     *)
(*                                                                         *)
(* Workshops, persons, slots and spaces are numbers in the order of their  *)
(* ids.  A space's equipment and its size are one relation, as are the     *)
(* mode, the ages and the audience of a workshop.  Traces, diagnostics,    *)
(* and the comparison run without fixed decisions, which is this one in    *)
(* another world, are left out.                                            *)
(***************************************************************************)
EXTENDS Integers, FiniteSets

CONSTANTS Workshop, Person, Slot, Space,
          MaxRank,  \* max_rank of workshop-rankings
          Worlds,   \* the worlds to plan for
          None

Target == Slot \X Space
Attendance == Person \X Workshop
Wish == (1..MaxRank) \X Person \X Workshop

ASSUME PlannerAssumption ==
  /\ \A S \in {Workshop, Person, Slot, Space} : S \subseteq Nat /\ IsFiniteSet(S)
  /\ MaxRank \in Nat
  /\ None \notin Nat \X Nat
ASSUME WorldsAssumption ==
  \A w \in Worlds :
    /\ w.order \in [Workshop -> Nat] /\ w.capacity \in [Workshop -> Nat]
    /\ w.needs \subseteq Attendance /\ w.wishes \subseteq Wish
    /\ w.workshops_per_person \in Nat

VARIABLES
  world,
  stage,
  todo,         \* what the loop has before it, as tuples in lexicographic order
  placed,       \* placements
  unscheduled,
  attending,    \* assignments: <<person, workshop, rank>>, rank 0 when fixed
  reported      \* fixed_violations of the attendance stage

vars == <<world, stage, todo, placed, unscheduled, attending, reported>>

Active == Workshop \ world.cancelled

\* The next turn: the loops sort by rank, sort key and id.
First(S) ==
  CHOOSE t \in S : \A u \in S \ {t} :
    \E i \in DOMAIN t : t[i] < u[i] /\ \A j \in 1..(i - 1) : t[j] = u[j]

Turn(name) == stage = name /\ todo # {}

-----------------------------------------------------------------------------
(***************************************************************************)
(* Placement.                                                              *)
(***************************************************************************)
Init ==
  /\ world \in Worlds
  /\ stage = "fixed placements"
  /\ todo = {<<w>> : w \in {v \in Workshop : world.fixed[v] # None}}
  /\ placed = [w \in Workshop |-> None]
  /\ unscheduled = {}
  /\ attending = {}
  /\ reported = {}

At(slot) == {w \in Workshop : placed[w] # None /\ placed[w][1] = slot}

\* Mutant: two workshops meet in a space.
PlacementSharesSpace(w, target) ==
  \/ target \notin Target
  \/ <<w, target[2]>> \in world.unfit
  \/ target \in world.blocked
  \/ \E v \in At(target[1]) : world.leaders[v] \cap world.leaders[w] # {}

\* Mutant: a fixed placement may name what was retired.
PlacementIgnoresRetired(w, target) ==
  \/ \E v \in Workshop : placed[v] = target
  \/ <<w, target[2]>> \in world.unfit
  \/ target \in world.blocked
  \/ \E v \in At(target[1]) : world.leaders[v] \cap world.leaders[w] # {}

PlacementRejections(w, target) ==
  \/ target \notin Target  \* the slot or the space was retired
  \/ \E v \in Workshop : placed[v] = target
  \/ <<w, target[2]>> \in world.unfit
  \/ target \in world.blocked
  \/ \E v \in At(target[1]) : world.leaders[v] \cap world.leaders[w] # {}

Place(w, target) ==
  /\ placed' = [placed EXCEPT ![w] = target]
  /\ UNCHANGED unscheduled

Unschedule(w) ==
  /\ unscheduled' = unscheduled \cup {w}
  /\ UNCHANGED placed

PlaceFixed ==
  /\ Turn("fixed placements")
  /\ LET w == First(todo)[1]
         valid == w \in Active /\ ~PlacementRejections(w, world.fixed[w])
     IN  \/ valid /\ Place(w, world.fixed[w])
         \/ ~valid /\ Unschedule(w)
  /\ todo' = todo \ {First(todo)}
  /\ UNCHANGED <<world, stage, attending, reported>>

Candidates(w) == {target \in Target : ~PlacementRejections(w, target)}

PlaceAutomatically ==
  /\ Turn("placements")
  /\ LET w == First(todo)[2] IN
       \/ Candidates(w) # {} /\ Place(w, First(Candidates(w)))
       \/ Candidates(w) = {} /\ Unschedule(w)
  /\ todo' = todo \ {First(todo)}
  /\ UNCHANGED <<world, stage, attending, reported>>

-----------------------------------------------------------------------------
(***************************************************************************)
(* Attendance.                                                             *)
(***************************************************************************)
Attendances(p) == {a \in attending : a[1] = p}
Participants(w) == {a \in attending : a[2] = w}

Full(w) == Cardinality(Participants(w)) >= world.capacity[w]
Leads(p, slot) == \E w \in Active \cap At(slot) : p \in world.leaders[w]
Busy(p, slot) == \E a \in Attendances(p) : placed[a[2]][1] = slot
TargetReached(p) == Cardinality(Attendances(p)) >= world.workshops_per_person

RuleBroken(p, w) ==
  \/ <<p, w>> \in world.unsuited
  \/ Leads(p, placed[w][1])
  \/ Full(w)
  \/ Busy(p, placed[w][1])

Recordable(p, w) == w \in Active /\ <<p, w>> \in world.provides /\ placed[w] # None

\* Mutant: reports only what it does not record.
ReportsUnrecorded(p, w) == ~Recordable(p, w)

Reports(p, w) == ~Recordable(p, w) \/ RuleBroken(p, w) \/ TargetReached(p)

\* A fixed attendance is recorded whatever rules it breaks, and then reported.
FixAttendance ==
  /\ Turn("fixed attendances")
  /\ LET p == First(todo)[1]
         w == First(todo)[2]
     IN  /\ attending' = IF Recordable(p, w) THEN attending \cup {<<p, w, 0>>} ELSE attending
         /\ reported' = IF Reports(p, w) THEN reported \cup {<<p, w>>} ELSE reported
  /\ todo' = todo \ {First(todo)}
  /\ UNCHANGED <<world, stage, placed, unscheduled>>

NeedsMore(p) == ~TargetReached(p)

Granted(p, w) ==
  /\ <<p, w, 0>> \notin attending
  /\ NeedsMore(p)
  /\ w \in Active /\ placed[w] # None /\ ~RuleBroken(p, w)

\* Mutant: the turns go by person, not by round.
NextWishByPerson ==
  LET v == First({<<u[2], u[1], u[3]>> : u \in todo}) IN <<v[2], v[1], v[3]>>

\* <<rank, person, workshop>>
NextWish == First(todo)

GrantWish ==
  /\ Turn("rounds")
  /\ LET p == NextWish[2]
         w == NextWish[3]
     IN  attending' = IF Granted(p, w) THEN attending \cup {<<p, w, NextWish[1]>>} ELSE attending
  /\ todo' = todo \ {NextWish}
  /\ UNCHANGED <<world, stage, placed, unscheduled, reported>>

-----------------------------------------------------------------------------
\* A stage reads what the one before it left.
Advance(from, to, work) ==
  /\ stage = from /\ todo = {}
  /\ stage' = to
  /\ todo' = work
  /\ UNCHANGED <<world, placed, unscheduled, attending, reported>>

NextStage ==
  \/ Advance("fixed placements", "placements",
             {<<world.order[w], w>> : w \in {v \in Active : world.fixed[v] = None}})
  \/ Advance("placements", "fixed attendances", world.needs)
  \/ Advance("fixed attendances", "rounds", world.wishes)
  \/ Advance("rounds", "done", {})

Next == PlaceFixed \/ PlaceAutomatically \/ FixAttendance \/ GrantWish \/ NextStage

Spec == Init /\ [][Next]_vars

-----------------------------------------------------------------------------
(***************************************************************************)
(* Properties                                                              *)
(***************************************************************************)
Attending == stage \in {"fixed attendances", "rounds", "done"}

\* Type invariant; what is before a loop is of its kind, and nothing is placed and
\* unscheduled at once.
TypeOK ==
  /\ stage \in {"fixed placements", "placements", "fixed attendances", "rounds", "done"}
  /\ stage = "fixed attendances" => todo \subseteq Attendance
  /\ stage = "rounds" => todo \subseteq Wish
  /\ placed \in [Workshop -> Target \cup {None}]
  /\ unscheduled \subseteq {w \in Workshop : placed[w] = None}
  /\ attending \subseteq Person \X {w \in Workshop : placed[w] # None} \X (0..MaxRank)
  /\ reported \subseteq Attendance

\* No space holds two workshops at a time and nobody leads two at a time, whether they
\* were fixed or not; none is where it does not fit or where the space is blocked.
PlacementsFit ==
  \A w \in Workshop : placed[w] # None =>
    /\ w \in Active
    /\ placed[w] \notin world.blocked
    /\ <<w, placed[w][2]>> \notin world.unfit
    /\ \A v \in At(placed[w][1]) : v # w =>
         placed[v] # placed[w] /\ world.leaders[v] \cap world.leaders[w] = {}

\* A workshop without a fixed place that is left out could not be added anywhere to the
\* finished programme.
UnscheduledFitNowhere ==
  Attending => \A w \in Active : placed[w] = None =>
    /\ w \in unscheduled
    /\ world.fixed[w] = None => \A target \in Target : PlacementRejections(w, target)

\* The programme is complete: it could not be added to, and everything in it fits.
ProgrammeSound == PlacementsFit /\ UnscheduledFitNowhere

ReportedOf(w) == {r \in reported : r[2] = w}

\* A workshop is over its capacity by its reported fixed attendances only, and nobody
\* else gets into one that is.
SeatsKept ==
  \A w \in Workshop :
    LET present == Cardinality(Participants(w)) IN
    /\ present <= world.capacity[w] + Cardinality(ReportedOf(w))
    /\ (\E a \in Participants(w) : a[3] # 0) => present <= world.capacity[w]

\* Nobody is to be in two places at a time, attending or leading, unless an organiser
\* fixed it so and is told.
OnePlaceAtATime ==
  \A a \in attending :
    LET slot == placed[a[2]][1] IN
    /\ Leads(a[1], slot) => <<a[1], a[2]>> \in reported
    /\ \A b \in Attendances(a[1]) : b # a /\ placed[b[2]][1] = slot =>
         {<<a[1], a[2]>>, <<b[1], b[2]>>} \cap reported # {}

\* Wishes fill up what an organiser fixed for a person to the configured number.
TargetKept ==
  \A p \in Person : (\E a \in Attendances(p) : a[3] # 0) =>
    Cardinality(Attendances(p)) <= world.workshops_per_person

\* The rules of attendance, fixed ones that break them apart: each of those is reported
\* and counts for what is granted behind it.
RulesKept == SeatsKept /\ OnePlaceAtATime /\ TargetKept

\* What a person has by the end of a round, and who is in a workshop before a wish.
Own(p, rank) == {a \in Attendances(p) : a[3] <= rank}
Ahead(rank, p, w) ==
  {a \in Participants(w) : a[3] < rank \/ (a[3] = rank /\ a[1] < p)}

Explained(rank, p, w) ==
  \/ \E a \in Own(p, rank) : a[2] = w
  \/ w \notin Active \/ placed[w] = None
  \/ <<p, w>> \in world.unsuited \/ Leads(p, placed[w][1])
  \/ Cardinality(Own(p, rank)) >= world.workshops_per_person
  \/ \E a \in Own(p, rank) : placed[a[2]][1] = placed[w][1]
  \/ Cardinality(Ahead(rank, p, w)) >= world.capacity[w]

\* Nobody is passed over: a wish whose turn is over was granted, or is impossible, or
\* stands behind fixed attendances and earlier rounds, the person's own or those of the
\* people who are in the workshop instead.
NobodyPassedOver ==
  stage \in {"rounds", "done"} =>
    \A v \in world.wishes \ todo : Explained(v[1], v[2], v[3])
=============================================================================
