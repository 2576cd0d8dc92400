------------------------- MODULE WorkshopPlannerProofs -------------------------
(***************************************************************************)
(* Proofs about WorkshopPlanner, for any workshops, persons, slots, spaces *)
(* and worlds: all that its run checks.                                    *)
(*                                                                         *)
(* The programme only grows, so that a place once refused stays refused    *)
(* (StaysRejected) and what fits goes on fitting (PlacedWell).  Attendance *)
(* only grows, too, and in the order of the wishes: a wish that is refused *)
(* finds nobody ahead of it who came later (GrantedBefore), and what       *)
(* explains the refusal explains it to the end (StaysExplained).           *)
(***************************************************************************)
EXTENDS WorkshopPlanner, FiniteSetTheorems, WellFoundedInduction, TLAPS

(***************************************************************************)
(* The next turn is one of those to come, and before the others.           *)
(***************************************************************************)
Earlier(t, u) ==
  \E i \in DOMAIN t : t[i] < u[i] /\ \A j \in 1..(i - 1) : t[j] = u[j]

IsFirst(t, S) == t \in S /\ \A u \in S \ {t} : Earlier(t, u)

Below == {p \in Nat \X Nat : p[1] < p[2]}

LEMMA Least ==
  ASSUME NEW S, S \subseteq Nat, S # {}
  PROVE  \E n \in S : \A m \in S : n <= m
<1>1. IsWellFoundedOn(Below, Nat)
  BY NatLessThanWellFounded DEF OpToRel, Below
<1>2. PICK n \in S : \A m \in S : ~ (<<m, n>> \in Below)
  BY <1>1, WFMin
<1>3. ASSUME NEW m \in S PROVE n <= m
  <2>1. m \in Nat /\ n \in Nat
    OBVIOUS
  <2>2. ~(m < n)
    BY <1>2, <2>1 DEF Below
  <2>. QED
    BY <2>1, <2>2
<1>. QED
  BY <1>3

LEMMA Chosen ==
  ASSUME NEW S, NEW t, IsFirst(t, S)
  PROVE  IsFirst(First(S), S)
<1>1. First(S) = CHOOSE x \in S : \A u \in S \ {x} : Earlier(x, u)
  BY DEF First, Earlier
<1>. QED
  BY <1>1 DEF IsFirst

LEMMA FirstOfOnes ==
  ASSUME NEW S, S \subseteq {<<n>> : n \in Nat}, S # {}
  PROVE  First(S) \in S
<1>1. PICK n \in {t[1] : t \in S} : \A m \in {t[1] : t \in S} : n <= m
  <2>1. {t[1] : t \in S} \subseteq Nat /\ {t[1] : t \in S} # {}
    OBVIOUS
  <2>. QED
    BY <2>1, Least
<1>2. <<n>> \in S /\ n \in Nat
  OBVIOUS
<1>3. ASSUME NEW u \in S \ {<<n>>} PROVE Earlier(<<n>>, u)
  <2>1. PICK m \in Nat : u = <<m>>
    OBVIOUS
  <2>2. n <= m /\ n # m
    BY <2>1, <1>1
  <2>3. 1 \in DOMAIN <<n>> /\ <<n>>[1] < u[1] /\ \A j \in 1..(1 - 1) : <<n>>[j] = u[j]
    BY <2>1, <2>2, <1>2
  <2>. QED
    BY <2>3 DEF Earlier
<1>. QED
  BY <1>2, <1>3, Chosen DEF IsFirst

LEMMA FirstOfPairs ==
  ASSUME NEW S, S \subseteq Nat \X Nat, S # {}
  PROVE  First(S) \in S
<1>1. PICK a \in {t[1] : t \in S} : \A m \in {t[1] : t \in S} : a <= m
  <2>1. {t[1] : t \in S} \subseteq Nat /\ {t[1] : t \in S} # {}
    OBVIOUS
  <2>. QED
    BY <2>1, Least
<1>. DEFINE R == {t \in S : t[1] = a}
<1>2. PICK b \in {t[2] : t \in R} : \A m \in {t[2] : t \in R} : b <= m
  <2>1. {t[2] : t \in R} \subseteq Nat /\ {t[2] : t \in R} # {}
    OBVIOUS
  <2>. QED
    BY <2>1, Least
<1>3. <<a, b>> \in S /\ a \in Nat /\ b \in Nat
  OBVIOUS
<1>4. ASSUME NEW u \in S \ {<<a, b>>} PROVE Earlier(<<a, b>>, u)
  <2>1. PICK c \in Nat, d \in Nat : u = <<c, d>>
    OBVIOUS
  <2>2. a < c \/ (a = c /\ b < d)
    <3>1. a <= c
      BY <2>1, <1>1
    <3>2. a = c => b <= d
      BY <2>1, <1>2
    <3>3. ~(a = c /\ b = d)
      BY <2>1
    <3>. QED
      BY <3>1, <3>2, <3>3, <1>3, <2>1
  <2>3. CASE a < c
    <3>1. 1 \in DOMAIN <<a, b>> /\ <<a, b>>[1] < u[1] /\ \A j \in 1..(1 - 1) : <<a, b>>[j] = u[j]
      BY <2>1, <2>3
    <3>. QED
      BY <3>1 DEF Earlier
  <2>4. CASE a = c /\ b < d
    <3>1. 2 \in DOMAIN <<a, b>> /\ <<a, b>>[2] < u[2] /\ \A j \in 1..(2 - 1) : <<a, b>>[j] = u[j]
      BY <2>1, <2>4
    <3>. QED
      BY <3>1 DEF Earlier
  <2>. QED
    BY <2>2, <2>3, <2>4
<1>. QED
  BY <1>3, <1>4, Chosen DEF IsFirst

LEMMA FirstOfTriples ==
  ASSUME NEW S, S \subseteq Nat \X Nat \X Nat, S # {}
  PROVE  /\ First(S) \in S
         /\ \A u \in S \ {First(S)} : Earlier(First(S), u)
<1>1. PICK a \in {t[1] : t \in S} : \A m \in {t[1] : t \in S} : a <= m
  <2>1. {t[1] : t \in S} \subseteq Nat /\ {t[1] : t \in S} # {}
    OBVIOUS
  <2>. QED
    BY <2>1, Least
<1>. DEFINE R == {t \in S : t[1] = a}
<1>2. PICK b \in {t[2] : t \in R} : \A m \in {t[2] : t \in R} : b <= m
  <2>1. {t[2] : t \in R} \subseteq Nat /\ {t[2] : t \in R} # {}
    OBVIOUS
  <2>. QED
    BY <2>1, Least
<1>. DEFINE Q == {t \in R : t[2] = b}
<1>3. PICK c \in {t[3] : t \in Q} : \A m \in {t[3] : t \in Q} : c <= m
  <2>1. {t[3] : t \in Q} \subseteq Nat /\ {t[3] : t \in Q} # {}
    OBVIOUS
  <2>. QED
    BY <2>1, Least
<1>4. <<a, b, c>> \in S /\ a \in Nat /\ b \in Nat /\ c \in Nat
  OBVIOUS
<1>5. ASSUME NEW u \in S \ {<<a, b, c>>} PROVE Earlier(<<a, b, c>>, u)
  <2>1. PICK x \in Nat, y \in Nat, z \in Nat : u = <<x, y, z>>
    OBVIOUS
  <2>2. a <= x /\ (a = x => b <= y) /\ (a = x /\ b = y => c <= z)
    <3>1. a <= x
      BY <2>1, <1>1
    <3>2. a = x => b <= y
      BY <2>1, <1>2
    <3>3. a = x /\ b = y => c <= z
      BY <2>1, <1>3
    <3>. QED
      BY <3>1, <3>2, <3>3
  <2>3. ~(a = x /\ b = y /\ c = z)
    BY <2>1
  <2>. HIDE DEF R, Q
  <2>. USE <1>4, <2>1
  <2>4. CASE a < x
    <3>1. 1 \in DOMAIN <<a, b, c>> /\ <<a, b, c>>[1] < u[1]
            /\ \A j \in 1..(1 - 1) : <<a, b, c>>[j] = u[j]
      BY <2>4
    <3>. QED
      BY <3>1 DEF Earlier
  <2>5. CASE a = x /\ b < y
    <3>1. 2 \in DOMAIN <<a, b, c>> /\ <<a, b, c>>[2] < u[2]
            /\ \A j \in 1..(2 - 1) : <<a, b, c>>[j] = u[j]
      BY <2>5
    <3>. QED
      BY <3>1 DEF Earlier
  <2>6. CASE a = x /\ b = y /\ c < z
    <3>1. 3 \in DOMAIN <<a, b, c>> /\ <<a, b, c>>[3] < u[3]
            /\ \A j \in 1..(3 - 1) : <<a, b, c>>[j] = u[j]
      BY <2>6
    <3>. QED
      BY <3>1 DEF Earlier
  <2>. QED
    BY <2>2, <2>3, <2>4, <2>5, <2>6
<1>. QED
  BY <1>4, <1>5, Chosen DEF IsFirst

\* What is earlier among triples: an earlier round, or an earlier person in it, or
\* the same person's earlier workshop.
LEMMA EarlierTriple ==
  ASSUME NEW t \in Nat \X Nat \X Nat, NEW u \in Nat \X Nat \X Nat, Earlier(t, u)
  PROVE  \/ t[1] < u[1]
         \/ t[1] = u[1] /\ t[2] < u[2]
         \/ t[1] = u[1] /\ t[2] = u[2] /\ t[3] < u[3]
<1>1. PICK i \in DOMAIN t : t[i] < u[i] /\ \A j \in 1..(i - 1) : t[j] = u[j]
  BY DEF Earlier
<1>2. i = 1 \/ i = 2 \/ i = 3
  OBVIOUS
<1>3. i = 2 => 1 \in 1..(i - 1)
  OBVIOUS
<1>4. i = 3 => 1 \in 1..(i - 1) /\ 2 \in 1..(i - 1)
  OBVIOUS
<1>. QED
  BY <1>1, <1>2, <1>3, <1>4
-----------------------------------------------------------------------------
(***************************************************************************)
(* The invariant.                                                          *)
(***************************************************************************)
Stage == {"fixed placements", "placements", "fixed attendances", "rounds", "done"}

\* What a loop has before it comes from the world.
Work ==
  /\ world \in Worlds
  /\ stage = "fixed placements" =>
       todo \subseteq {<<w>> : w \in {v \in Workshop : world.fixed[v] # None}}
  /\ stage = "placements" =>
       todo \subseteq {<<world.order[w], w>> : w \in {v \in Active : world.fixed[v] = None}}
  /\ stage = "fixed attendances" => todo \subseteq world.needs
  /\ stage = "rounds" => todo \subseteq world.wishes
  /\ stage = "done" => todo = {}

\* A workshop whose turn is to come.
Open(w) ==
  \/ stage = "fixed placements" /\ (world.fixed[w] = None \/ <<w>> \in todo)
  \/ stage = "placements" /\ <<world.order[w], w>> \in todo

\* Each workshop has one turn.
Turns ==
  \A w \in Workshop :
    /\ Open(w) => placed[w] = None /\ w \notin unscheduled
    /\ ~Open(w) /\ w \in Active => placed[w] # None \/ w \in unscheduled

\* What was left out fits nowhere, and will not.
Unplaceable ==
  \A w \in unscheduled \cap Active : world.fixed[w] = None =>
    \A target \in Target : PlacementRejections(w, target)

\* Who attends got it by a fixed attendance or a wish that had its turn, and the wishes
\* have theirs in order.
Recorded ==
  /\ stage \in {"fixed placements", "placements"} => attending = {} /\ reported = {}
  /\ stage = "fixed attendances" => reported \cap todo = {} /\ \A a \in attending : a[3] = 0
  /\ stage \in {"rounds", "done"} =>
       \A a \in attending : a[3] # 0 => <<a[3], a[1], a[2]>> \in world.wishes \ todo
  /\ stage = "rounds" => \A u \in world.wishes \ todo, v \in todo : Earlier(u, v)

IInv ==
  /\ TypeOK /\ Work /\ Turns /\ Unplaceable /\ PlacementsFit
  /\ Recorded /\ RulesKept /\ NobodyPassedOver

-----------------------------------------------------------------------------
(***************************************************************************)
(* The programme.                                                          *)
(***************************************************************************)
LEMMA Constants ==
  /\ Workshop \subseteq Nat /\ IsFiniteSet(Workshop)
  /\ Person \subseteq Nat /\ IsFiniteSet(Person)
  /\ Target \subseteq Nat \X Nat
  /\ MaxRank \in Nat
  /\ \A target \in Target : target # None
BY PlannerAssumption DEF Target

\* What fits keeps the programme fitting.
LEMMA PlacedWell ==
  ASSUME PlacementsFit, placed \in [Workshop -> Target \cup {None}], UNCHANGED world,
         NEW w \in Active, placed[w] = None,
         NEW target, ~PlacementRejections(w, target),
         placed' = [placed EXCEPT ![w] = target]
  PROVE  PlacementsFit' /\ placed' \in [Workshop -> Target \cup {None}] /\ target \in Target
<1>1. /\ target \in Target
      /\ \A v \in Workshop : placed[v] # target
      /\ <<w, target[2]>> \notin world.unfit
      /\ target \notin world.blocked
      /\ \A v \in At(target[1]) : world.leaders[v] \cap world.leaders[w] = {}
  BY DEF PlacementRejections
<1>2. w \in Workshop /\ Active' = Active
  BY DEF Active
<1>3. placed' \in [Workshop -> Target \cup {None}] /\ placed'[w] = target
        /\ \A v \in Workshop \ {w} : placed'[v] = placed[v]
  BY <1>1, <1>2
<1>4. target # None
  BY <1>1, Constants
<1>. DEFINE After(s) == {u \in Workshop : placed'[u] # None /\ placed'[u][1] = s}
<1>5. After(target[1]) = At(target[1]) \cup {w}
  BY <1>3, <1>4, <1>2 DEF At
<1>6. \A v \in Workshop \ {w} : After(placed[v][1]) \subseteq At(placed[v][1]) \cup {w}
  BY <1>3 DEF At
<1>7. ASSUME NEW v \in Workshop, placed'[v] # None
      PROVE  /\ v \in Active
             /\ placed'[v] \notin world.blocked
             /\ <<v, placed'[v][2]>> \notin world.unfit
             /\ \A u \in After(placed'[v][1]) : u # v =>
                  placed'[u] # placed'[v] /\ world.leaders[u] \cap world.leaders[v] = {}
  <2>1. CASE v = w
    <3>1. \A u \in At(target[1]) : u \in Workshop /\ u # w
      BY <1>2 DEF At
    <3>. QED
      BY <2>1, <3>1, <1>1, <1>3, <1>5
  <2>2. CASE v # w
    <3>1. placed'[v] = placed[v]
      BY <2>2, <1>3
    <3>2. /\ v \in Active
          /\ placed[v] \notin world.blocked
          /\ <<v, placed[v][2]>> \notin world.unfit
          /\ \A u \in At(placed[v][1]) : u # v =>
               placed[u] # placed[v] /\ world.leaders[u] \cap world.leaders[v] = {}
      BY <3>1, <1>7 DEF PlacementsFit
    <3>3. ASSUME NEW u \in After(placed[v][1]), u # v
          PROVE  placed'[u] # placed[v] /\ world.leaders[u] \cap world.leaders[v] = {}
      <4>1. CASE u = w
        <5>1. placed[v][1] = target[1] /\ placed[v] # None
          BY <3>3, <4>1, <3>1, <1>7, <1>3 DEF At
        <5>2. v \in At(target[1])
          BY <5>1 DEF At
        <5>. QED
          BY <4>1, <5>2, <1>1, <1>3
      <4>2. CASE u # w
        BY <4>2, <3>2, <3>3, <2>2, <1>3, <1>6 DEF At
      <4>. QED
        BY <4>1, <4>2
    <3>. QED
      BY <3>1, <3>2, <3>3
  <2>. QED
    BY <2>1, <2>2
<1>8. PlacementsFit'
  BY <1>7, <1>2 DEF PlacementsFit, At
<1>. QED
  BY <1>1, <1>3, <1>8

\* A place that was refused stays refused as the programme grows.
LEMMA StaysRejected ==
  ASSUME \A v \in Workshop : placed[v] # None => placed'[v] = placed[v],
         UNCHANGED world, NEW w, NEW target \in Target, PlacementRejections(w, target)
  PROVE  PlacementRejections(w, target)'
<1>1. \A v \in Workshop : placed[v] = target => placed'[v] = target
  BY Constants
<1>2. At(target[1]) \subseteq At(target[1])'
  BY DEF At
<1>. QED
  BY <1>1, <1>2 DEF PlacementRejections
\* As long as nobody attends there is nothing to say of attendance.
LEMMA NobodyAttends ==
  Work /\ attending = {} /\ reported = {} /\ stage \notin {"rounds", "done"}
    => RulesKept /\ NobodyPassedOver
<1>. SUFFICES ASSUME Work, attending = {}, reported = {}, stage \notin {"rounds", "done"}
              PROVE  RulesKept /\ NobodyPassedOver
  OBVIOUS
<1>1. SeatsKept
  <2>1. ASSUME NEW w \in Workshop
        PROVE  /\ Cardinality(Participants(w)) <= world.capacity[w] + Cardinality(ReportedOf(w))
               /\ ~ \E a \in Participants(w) : a[3] # 0
    <3>1. Participants(w) = {} /\ ReportedOf(w) = {}
      BY DEF Participants, ReportedOf
    <3>2. world.capacity[w] \in Nat
      BY WorldsAssumption DEF Work
    <3>. QED
      BY <3>1, <3>2, FS_EmptySet
  <2>. QED
    BY <2>1, Zenon DEF SeatsKept
<1>2. OnePlaceAtATime /\ TargetKept
  BY DEF OnePlaceAtATime, TargetKept, Attendances
<1>3. NobodyPassedOver
  BY DEF NobodyPassedOver
<1>. QED
  BY <1>1, <1>2, <1>3 DEF RulesKept

\* A turn of a workshop, fixed or not.
LEMMA PlacementTurn ==
  ASSUME IInv, stage \in {"fixed placements", "placements"},
         UNCHANGED <<world, stage, attending, reported>>,
         NEW w \in Workshop, Open(w), todo' \subseteq todo, ~Open(w)',
         \A v \in Workshop \ {w} : Open(v)' <=> Open(v),
         \/ \E target : w \in Active /\ ~PlacementRejections(w, target) /\ Place(w, target)
         \/ /\ Unschedule(w)
            /\ w \in Active /\ world.fixed[w] = None =>
                 \A target \in Target : PlacementRejections(w, target)
  PROVE  IInv'
<1>1. /\ placed \in [Workshop -> Target \cup {None}]
      /\ unscheduled \subseteq {v \in Workshop : placed[v] = None}
      /\ placed[w] = None /\ w \notin unscheduled
      /\ attending = {} /\ reported = {}
  BY DEF IInv, TypeOK, Turns, Recorded
<1>2. Active' = Active
  BY DEF Active
<1>3. /\ PlacementsFit' /\ placed' \in [Workshop -> Target \cup {None}]
      /\ \A v \in Workshop \ {w} : placed'[v] = placed[v]
      /\ unscheduled \subseteq unscheduled' /\ unscheduled' \subseteq unscheduled \cup {w}
      /\ w \in unscheduled' => placed'[w] = None
      /\ w \in unscheduled' /\ w \in Active /\ world.fixed[w] = None =>
           \A target \in Target : PlacementRejections(w, target)
      /\ w \in Active => placed'[w] # None \/ w \in unscheduled'
  <2>1. CASE \E target : w \in Active /\ ~PlacementRejections(w, target) /\ Place(w, target)
    <3>1. PICK target : w \in Active /\ ~PlacementRejections(w, target) /\ Place(w, target)
      BY <2>1
    <3>2. placed' = [placed EXCEPT ![w] = target] /\ unscheduled' = unscheduled
      BY <3>1 DEF Place
    <3>3. PlacementsFit' /\ placed' \in [Workshop -> Target \cup {None}] /\ target \in Target
      BY <3>1, <3>2, <1>1, PlacedWell DEF IInv
    <3>4. placed'[w] # None
      BY <3>2, <3>3, <1>1, Constants
    <3>. QED
      BY <3>2, <3>3, <3>4, <1>1
  <2>2. CASE /\ Unschedule(w)
             /\ w \in Active /\ world.fixed[w] = None =>
                  \A target \in Target : PlacementRejections(w, target)
    <3>1. placed' = placed /\ unscheduled' = unscheduled \cup {w}
      BY <2>2 DEF Unschedule
    <3>2. PlacementsFit'
      BY <3>1, <1>2 DEF IInv, PlacementsFit, At
    <3>. QED
      BY <3>1, <3>2, <2>2, <1>1
  <2>. QED
    BY <2>1, <2>2
<1>4. \A v \in Workshop : placed[v] # None => placed'[v] = placed[v]
  BY <1>1, <1>3
<1>5. TypeOK'
  <2>1. unscheduled' \subseteq {v \in Workshop : placed'[v] = None}
    <3>1. ASSUME NEW v \in unscheduled' PROVE v \in Workshop /\ placed'[v] = None
      <4>1. CASE v = w
        BY <3>1, <4>1, <1>3
      <4>2. CASE v # w
        BY <3>1, <4>2, <1>1, <1>3
      <4>. QED
        BY <4>1, <4>2
    <3>. QED
      BY <3>1
  <2>2. attending' = {} /\ reported' = {} /\ stage' = stage
    BY <1>1
  <2>. QED
    BY <1>3, <2>1, <2>2 DEF TypeOK
<1>6. Work'
  BY <1>2 DEF IInv, Work
<1>7. Turns'
  <2>1. ASSUME NEW v \in Workshop \ {w}
        PROVE  /\ Open(v)' => placed'[v] = None /\ v \notin unscheduled'
               /\ ~Open(v)' /\ v \in Active' => placed'[v] # None \/ v \in unscheduled'
    <3>1. placed'[v] = placed[v] /\ (v \in unscheduled' <=> v \in unscheduled)
      BY <1>3
    <3>2. Open(v)' <=> Open(v)
      OBVIOUS
    <3>. QED
      BY <3>1, <3>2, <1>2 DEF IInv, Turns
  <2>2. ~Open(w)' /\ (w \in Active' => placed'[w] # None \/ w \in unscheduled')
    BY <1>2, <1>3
  <2>3. \A v \in Workshop :
          /\ Open(v)' => placed'[v] = None /\ v \notin unscheduled'
          /\ ~Open(v)' /\ v \in Active' => placed'[v] # None \/ v \in unscheduled'
    BY <2>1, <2>2, Zenon
  <2>. QED
    BY <2>3 DEF Turns
<1>8. Unplaceable'
  <2>1. ASSUME NEW v \in unscheduled' \cap Active, world.fixed[v] = None,
               NEW target \in Target
        PROVE  PlacementRejections(v, target)'
    <3>1. PlacementRejections(v, target)
      BY <2>1, <1>3 DEF IInv, Unplaceable
    <3>. QED
      BY <3>1, <1>4, StaysRejected
  <2>. QED
    BY <2>1, <1>2 DEF Unplaceable
<1>9. Recorded'
  BY <1>1 DEF Recorded
<1>10. RulesKept' /\ NobodyPassedOver'
  <2>1. attending' = {} /\ reported' = {} /\ stage' \notin {"rounds", "done"}
    BY <1>1
  <2>2. (Work /\ attending = {} /\ reported = {} /\ stage \notin {"rounds", "done"}
           => RulesKept /\ NobodyPassedOver)'
    BY NobodyAttends, PTL
  <2>. QED
    BY <1>6, <2>1, <2>2
<1>. QED
  BY <1>3, <1>5, <1>6, <1>7, <1>8, <1>9, <1>10 DEF IInv

LEMMA FixedPlaced == IInv /\ PlaceFixed => IInv'
<1>. SUFFICES ASSUME IInv, PlaceFixed PROVE IInv'
  OBVIOUS
<1>1. /\ stage = "fixed placements" /\ todo # {}
      /\ todo \subseteq {<<v>> : v \in {u \in Workshop : world.fixed[u] # None}}
  BY DEF PlaceFixed, Turn, IInv, Work
<1>2. First(todo) \in todo
  <2>1. todo \subseteq {<<n>> : n \in Nat}
    BY <1>1, Constants
  <2>. QED
    BY <1>1, <2>1, FirstOfOnes
<1>3. PICK w \in Workshop : First(todo) = <<w>> /\ world.fixed[w] # None
  BY <1>1, <1>2
<1>4. /\ todo' = todo \ {<<w>>}
      /\ UNCHANGED <<world, stage, attending, reported>>
  BY <1>3 DEF PlaceFixed
<1>5. Open(w) /\ ~Open(w)'
  BY <1>1, <1>2, <1>3, <1>4 DEF Open
<1>6. \A v \in Workshop \ {w} : Open(v)' <=> Open(v)
  BY <1>1, <1>4 DEF Open
<1>7. \/ \E target : w \in Active /\ ~PlacementRejections(w, target) /\ Place(w, target)
      \/ Unschedule(w)
  <2>1. First(todo)[1] = w
    BY <1>3
  <2>. QED
    BY <2>1, Zenon DEF PlaceFixed
<1>. QED
  BY <1>1, <1>3, <1>4, <1>5, <1>6, <1>7, PlacementTurn

LEMMA Placed == IInv /\ PlaceAutomatically => IInv'
<1>. SUFFICES ASSUME IInv, PlaceAutomatically PROVE IInv'
  OBVIOUS
<1>1. /\ stage = "placements" /\ todo # {}
      /\ todo \subseteq {<<world.order[v], v>> : v \in {u \in Active : world.fixed[u] = None}}
  BY DEF PlaceAutomatically, Turn, IInv, Work
<1>2. First(todo) \in todo
  <2>1. todo \subseteq Nat \X Nat
    BY <1>1, Constants, WorldsAssumption DEF IInv, Work, Active
  <2>. QED
    BY <1>1, <2>1, FirstOfPairs
<1>3. PICK w \in Workshop : First(todo) = <<world.order[w], w>> /\ w \in Active
  BY <1>1, <1>2 DEF Active
<1>4. /\ todo' = todo \ {<<world.order[w], w>>}
      /\ UNCHANGED <<world, stage, attending, reported>>
  BY <1>3 DEF PlaceAutomatically
<1>5. Open(w) /\ ~Open(w)'
  BY <1>1, <1>2, <1>3, <1>4 DEF Open
<1>6. \A v \in Workshop \ {w} : Open(v)' <=> Open(v)
  BY <1>1, <1>4 DEF Open
<1>7. CASE Candidates(w) # {}
  <2>1. Candidates(w) \subseteq Nat \X Nat
    BY Constants DEF Candidates
  <2>2. First(Candidates(w)) \in Candidates(w)
    BY <1>7, <2>1, FirstOfPairs
  <2>3. PICK target : target = First(Candidates(w))
    OBVIOUS
  <2>4. ~PlacementRejections(w, target)
    BY <2>2, <2>3 DEF Candidates
  <2>5. Place(w, target)
    BY <1>3, <1>7, <2>3 DEF PlaceAutomatically
  <2>. QED
    BY <1>1, <1>3, <1>4, <1>5, <1>6, <2>4, <2>5, PlacementTurn
<1>8. CASE Candidates(w) = {}
  <2>1. Unschedule(w)
    BY <1>3, <1>8 DEF PlaceAutomatically
  <2>2. \A target \in Target : PlacementRejections(w, target)
    BY <1>8 DEF Candidates
  <2>. QED
    BY <1>1, <1>3, <1>4, <1>5, <1>6, <2>1, <2>2, PlacementTurn
<1>. QED
  BY <1>7, <1>8
-----------------------------------------------------------------------------
(***************************************************************************)
(* Attendance.                                                             *)
(***************************************************************************)
\* There are finitely many seats and reports to count.
LEMMA Finite ==
  TypeOK => /\ IsFiniteSet(attending) /\ IsFiniteSet(reported)
            /\ \A w : /\ IsFiniteSet(Participants(w)) /\ Cardinality(Participants(w)) \in Nat
                      /\ IsFiniteSet(ReportedOf(w)) /\ Cardinality(ReportedOf(w)) \in Nat
            /\ \A p : IsFiniteSet(Attendances(p)) /\ Cardinality(Attendances(p)) \in Nat
<1>. SUFFICES ASSUME TypeOK
              PROVE  /\ IsFiniteSet(attending) /\ IsFiniteSet(reported)
                     /\ \A w : /\ IsFiniteSet(Participants(w))
                               /\ Cardinality(Participants(w)) \in Nat
                               /\ IsFiniteSet(ReportedOf(w))
                               /\ Cardinality(ReportedOf(w)) \in Nat
                     /\ \A p : /\ IsFiniteSet(Attendances(p))
                               /\ Cardinality(Attendances(p)) \in Nat
  OBVIOUS
<1>. DEFINE Ranks == 0..MaxRank
            Pairs == Person \X Workshop
<1>1. IsFiniteSet(Pairs)
  BY Constants, FS_Product
<1>2. IsFiniteSet(attending)
  <2>1. IsFiniteSet(Ranks)
    BY Constants, FS_Interval
  <2>2. IsFiniteSet(Workshop \X Ranks)
    BY <2>1, Constants, FS_Product
  <2>3. IsFiniteSet(Person \X (Workshop \X Ranks))
    BY <2>2, Constants, FS_Product
  <2>. DEFINE Flat == [s \in Person \X Workshop \X Ranks |-> <<s[1], <<s[2], s[3]>>>>]
  <2>4. Flat \in Injection(Person \X Workshop \X Ranks, Person \X (Workshop \X Ranks))
    BY DEF Injection, IsInjective
  <2>5. IsFiniteSet(Person \X Workshop \X Ranks)
    BY <2>3, <2>4, FS_Injection
  <2>6. attending \in SUBSET (Person \X Workshop \X Ranks)
    BY DEF TypeOK
  <2>. QED
    BY <2>5, <2>6, FS_Subset
<1>3. IsFiniteSet(reported)
  <2>1. reported \in SUBSET Pairs
    BY DEF TypeOK, Attendance
  <2>. QED
    BY <2>1, <1>1, FS_Subset
<1>4. ASSUME NEW w
      PROVE  /\ IsFiniteSet(Participants(w)) /\ Cardinality(Participants(w)) \in Nat
             /\ IsFiniteSet(ReportedOf(w)) /\ Cardinality(ReportedOf(w)) \in Nat
  <2>1. Participants(w) \in SUBSET attending /\ ReportedOf(w) \in SUBSET reported
    BY DEF Participants, ReportedOf
  <2>2. IsFiniteSet(Participants(w)) /\ IsFiniteSet(ReportedOf(w))
    BY <2>1, <1>2, <1>3, FS_Subset
  <2>. QED
    BY <2>2, FS_CardinalityType
<1>5. ASSUME NEW p
      PROVE  IsFiniteSet(Attendances(p)) /\ Cardinality(Attendances(p)) \in Nat
  <2>1. Attendances(p) \in SUBSET attending
    BY DEF Attendances
  <2>2. IsFiniteSet(Attendances(p))
    BY <2>1, <1>2, FS_Subset
  <2>. QED
    BY <2>2, FS_CardinalityType
<1>. QED
  BY <1>2, <1>3, <1>4, <1>5

LEMMA Counted ==
  ASSUME NEW S, IsFiniteSet(S), NEW x
  PROVE  /\ Cardinality(S) \in Nat /\ Cardinality(S \cup {x}) \in Nat
         /\ Cardinality(S \cup {x}) >= Cardinality(S)
         /\ Cardinality(S \cup {x}) <= Cardinality(S) + 1
<1>1. Cardinality(S) \in Nat
  BY FS_CardinalityType
<1>2. Cardinality(S \cup {x}) = Cardinality(S) \/ Cardinality(S \cup {x}) = Cardinality(S) + 1
  BY FS_AddElement
<1>. QED
  BY <1>1, <1>2

\* Attendance changes nothing of the programme.
LEMMA ProgrammeKept ==
  ASSUME IInv, stage \in {"fixed attendances", "rounds"},
         UNCHANGED <<world, stage, placed, unscheduled>>, todo' \subseteq todo
  PROVE  /\ Work' /\ Turns' /\ Unplaceable' /\ PlacementsFit'
         /\ \A p, slot : Leads(p, slot)' <=> Leads(p, slot)
         /\ Active' = Active
<1>1. Active' = Active /\ \A slot : At(slot)' = At(slot)
  BY DEF Active, At
<1>2. Work'
  BY <1>1 DEF IInv, Work
<1>3. Turns'
  BY <1>1 DEF IInv, Turns, Open
<1>4. Unplaceable'
  BY ZenonT(30), <1>1 DEF IInv, Unplaceable, PlacementRejections, Target
<1>5. PlacementsFit'
  BY <1>1 DEF IInv, PlacementsFit
<1>6. \A p, slot : Leads(p, slot)' <=> Leads(p, slot)
  BY <1>1 DEF Leads
<1>. QED
  BY <1>1, <1>2, <1>3, <1>4, <1>5, <1>6
LEMMA Fixed == IInv /\ FixAttendance => IInv'
<1>. SUFFICES ASSUME IInv, FixAttendance PROVE IInv'
  OBVIOUS
<1>1. /\ stage = "fixed attendances" /\ todo # {} /\ todo \subseteq world.needs
      /\ UNCHANGED <<world, stage, placed, unscheduled>>
  BY DEF FixAttendance, Turn, IInv, Work
<1>2. world \in Worlds /\ world.needs \subseteq Person \X Workshop
  BY WorldsAssumption DEF IInv, Work, Attendance
<1>3. First(todo) \in todo
  <2>1. todo \subseteq Nat \X Nat
    BY <1>1, <1>2, Constants
  <2>. QED
    BY <1>1, <2>1, FirstOfPairs
<1>4. PICK p \in Person, w \in Workshop : First(todo) = <<p, w>>
  <2>1. First(todo) \in Person \X Workshop
    BY <1>1, <1>2, <1>3
  <2>. QED
    BY <2>1
<1>5. First(todo)[1] = p /\ First(todo)[2] = w
  BY <1>4
<1>. DEFINE seat == <<p, w, 0>>
<1>6. /\ todo' = todo \ {<<p, w>>}
      /\ attending' = IF Recordable(p, w) THEN attending \cup {seat} ELSE attending
      /\ reported' = IF Reports(p, w) THEN reported \cup {<<p, w>>} ELSE reported
  BY <1>4, <1>5 DEF FixAttendance
<1>7. <<p, w>> \in todo /\ <<p, w>> \notin reported /\ \A a \in attending : a[3] = 0
  BY <1>1, <1>3, <1>4 DEF IInv, Recorded
<1>8. /\ Work' /\ Turns' /\ Unplaceable' /\ PlacementsFit'
      /\ \A q, slot : Leads(q, slot)' <=> Leads(q, slot)
  BY <1>1, <1>6, ProgrammeKept
<1>9. TypeOK'
  <2>1. Recordable(p, w) => seat \in Person \X {v \in Workshop : placed[v] # None} \X (0..MaxRank)
    BY Constants DEF Recordable
  <2>2. attending' \subseteq Person \X {v \in Workshop : placed[v] # None} \X (0..MaxRank)
    BY <1>6, <2>1 DEF IInv, TypeOK
  <2>3. reported' \subseteq Attendance
    <3>1. reported \subseteq Attendance /\ <<p, w>> \in Attendance
      BY DEF IInv, TypeOK, Attendance
    <3>. QED
      BY <3>1, <1>6
  <2>4. todo' \subseteq Attendance
    BY <1>1, <1>2, <1>6 DEF Attendance
  <2>. QED
    BY <1>1, <2>2, <2>3, <2>4 DEF IInv, TypeOK
<1>10. Recorded'
  <2>1. reported \cap todo = {}
    BY <1>1 DEF IInv, Recorded
  <2>2. reported' \cap todo' = {}
    BY <2>1, <1>6
  <2>3. \A a \in attending' : a[3] = 0
    BY <1>6, <1>7
  <2>. QED
    BY <1>1, <2>2, <2>3 DEF Recorded
<1>11. \A a \in attending' : a[3] = 0
  BY <1>6, <1>7
<1>12. SeatsKept'
  <2>1. ASSUME NEW v \in Workshop
        PROVE  Cardinality(Participants(v)') <= world.capacity[v] + Cardinality(ReportedOf(v)')
    <3>1. /\ Cardinality(Participants(v)) <= world.capacity[v] + Cardinality(ReportedOf(v))
          /\ IsFiniteSet(Participants(v)) /\ Cardinality(Participants(v)) \in Nat
          /\ IsFiniteSet(ReportedOf(v)) /\ Cardinality(ReportedOf(v)) \in Nat
          /\ world.capacity[v] \in Nat
      BY <1>2, Finite, WorldsAssumption DEF IInv, RulesKept, SeatsKept
    <3>2. CASE v # w
      <4>1. Participants(v)' = Participants(v) /\ ReportedOf(v)' = ReportedOf(v)
        BY <3>2, <1>6 DEF Participants, ReportedOf
      <4>. QED
        BY <4>1, <3>1
    <3>3. CASE v = w /\ ~Recordable(p, w)
      <4>1. Participants(v)' = Participants(v)
        BY <3>3, <1>6 DEF Participants
      <4>2. ReportedOf(v)' = ReportedOf(v) \cup {<<p, w>>}
        BY <3>3, <1>6 DEF ReportedOf, Reports
      <4>3. Cardinality(ReportedOf(v)') \in Nat /\ Cardinality(ReportedOf(v)') >= Cardinality(ReportedOf(v))
        BY <4>2, <3>1, Counted
      <4>. QED
        BY <4>1, <4>3, <3>1
    <3>4. CASE v = w /\ Recordable(p, w)
      <4>1. Participants(v)' = Participants(v) \cup {seat}
        BY <3>4, <1>6 DEF Participants
      <4>2. /\ Cardinality(Participants(v)') \in Nat
            /\ Cardinality(Participants(v)') <= Cardinality(Participants(v)) + 1
        BY <4>1, <3>1, Counted
      <4>3. CASE Reports(p, w)
        <5>1. ReportedOf(v)' = ReportedOf(v) \cup {<<p, w>>} /\ <<p, w>> \notin ReportedOf(v)
          BY <3>4, <4>3, <1>6, <1>7 DEF ReportedOf
        <5>2. Cardinality(ReportedOf(v)') = Cardinality(ReportedOf(v)) + 1
          BY <5>1, <3>1, FS_AddElement
        <5>. QED
          BY <5>2, <4>2, <3>1
      <4>4. CASE ~Reports(p, w)
        <5>1. ReportedOf(v)' = ReportedOf(v)
          BY <4>4, <1>6 DEF ReportedOf
        <5>2. ~(Cardinality(Participants(v)) >= world.capacity[v])
          BY <3>4, <4>4 DEF Reports, RuleBroken, Full
        <5>. QED
          BY <5>1, <5>2, <4>2, <3>1
      <4>. QED
        BY <4>3, <4>4
    <3>. QED
      BY <3>2, <3>3, <3>4
  <2>2. \A v \in Workshop : ~ \E a \in Participants(v)' : a[3] # 0
    BY <1>11 DEF Participants
  <2>. QED
    BY <2>1, <2>2, <1>1, Zenon DEF SeatsKept
<1>13. OnePlaceAtATime'
  <2>. DEFINE S(a) == placed[a[2]][1]
              Pair(a) == <<a[1], a[2]>>
  <2>1. \A a \in attending : Leads(a[1], S(a)) => Pair(a) \in reported
    BY DEF IInv, RulesKept, OnePlaceAtATime
  <2>2. \A a, b \in attending : a[1] = b[1] /\ a # b /\ S(a) = S(b) =>
          Pair(a) \in reported \/ Pair(b) \in reported
    BY DEF IInv, RulesKept, OnePlaceAtATime, Attendances
  <2>3. attending' \subseteq attending \cup {seat} /\ reported \subseteq reported'
    BY <1>6
  <2>4. Leads(p, S(seat)) => Pair(seat) \in reported'
    BY <1>6 DEF Reports, RuleBroken
  <2>5. \A b \in attending : b[1] = p /\ S(b) = S(seat) => Pair(seat) \in reported'
    BY <1>6 DEF Reports, RuleBroken, Busy, Attendances
  <2>6. \A a \in attending' : Leads(a[1], S(a)) => Pair(a) \in reported'
    BY <2>1, <2>3, <2>4
  <2>7. \A a, b \in attending' : a[1] = b[1] /\ a # b /\ S(a) = S(b) =>
          Pair(a) \in reported' \/ Pair(b) \in reported'
    BY <2>2, <2>3, <2>5
  <2>. QED
    BY <2>6, <2>7, <1>1, <1>8 DEF OnePlaceAtATime, Attendances
<1>14. TargetKept' /\ NobodyPassedOver'
  BY <1>1, <1>11 DEF TargetKept, NobodyPassedOver, Attendances
<1>. QED
  BY <1>8, <1>9, <1>10, <1>12, <1>13, <1>14 DEF IInv, RulesKept
\* When a wish has its turn, everybody attends by a fixed attendance or an earlier wish.
LEMMA GrantedBefore ==
  ASSUME IInv, stage = "rounds", NEW r \in 1..MaxRank, NEW p \in Person, NEW w \in Workshop,
         <<r, p, w>> \in todo, NEW a \in attending
  PROVE  \/ a[3] < r
         \/ a[3] = r /\ a[1] < p
         \/ a[3] = r /\ a[1] = p /\ a[2] < w
<1>1. a \in Person \X Workshop \X (0..MaxRank)
  BY DEF IInv, TypeOK
<1>2. PICK q \in Person, v \in Workshop, n \in 0..MaxRank : a = <<q, v, n>>
  BY <1>1
<1>3. q \in Nat /\ v \in Nat /\ n \in Nat /\ r \in Nat /\ p \in Nat /\ w \in Nat
  BY <1>2, Constants
<1>4. CASE n = 0
  BY <1>2, <1>4
<1>5. CASE n # 0
  <2>1. <<n, q, v>> \in world.wishes \ todo
    BY <1>2, <1>5 DEF IInv, Recorded
  <2>2. Earlier(<<n, q, v>>, <<r, p, w>>)
    BY <2>1 DEF IInv, Recorded
  <2>3. \/ n < r
        \/ n = r /\ q < p
        \/ n = r /\ q = p /\ v < w
    BY <2>2, <1>3, EarlierTriple
  <2>. QED
    BY <2>3, <1>2
<1>. QED
  BY <1>4, <1>5

\* What explains a wish goes on explaining it.
LEMMA StaysExplained ==
  ASSUME IInv, UNCHANGED <<world, placed>>, attending \subseteq attending', TypeOK',
         \A q, slot : Leads(q, slot)' <=> Leads(q, slot),
         NEW r, NEW p, NEW w \in Workshop, Explained(r, p, w)
  PROVE  Explained(r, p, w)'
<1>1. Own(p, r) \subseteq Own(p, r)' /\ Ahead(r, p, w) \subseteq Ahead(r, p, w)'
  BY DEF Own, Ahead, Attendances, Participants
<1>2. IsFiniteSet(attending')
  <2>1. (TypeOK => IsFiniteSet(attending))'
    BY Finite, PTL
  <2>. QED
    BY <2>1
<1>3. IsFiniteSet(Own(p, r)') /\ IsFiniteSet(Ahead(r, p, w)')
  <2>1. Own(p, r)' \in SUBSET attending' /\ Ahead(r, p, w)' \in SUBSET attending'
    BY DEF Own, Ahead, Attendances, Participants
  <2>. QED
    BY <2>1, <1>2, FS_Subset
<1>4. Own(p, r) \in SUBSET Own(p, r)' /\ Ahead(r, p, w) \in SUBSET Ahead(r, p, w)'
  BY <1>1
<1>5. /\ Cardinality(Own(p, r)) <= Cardinality(Own(p, r)')
      /\ Cardinality(Ahead(r, p, w)) <= Cardinality(Ahead(r, p, w)')
  BY <1>3, <1>4, FS_Subset
<1>6. /\ Cardinality(Own(p, r)) \in Nat /\ Cardinality(Own(p, r)') \in Nat
      /\ Cardinality(Ahead(r, p, w)) \in Nat /\ Cardinality(Ahead(r, p, w)') \in Nat
  <2>1. IsFiniteSet(Own(p, r)) /\ IsFiniteSet(Ahead(r, p, w))
    BY <1>3, <1>4, FS_Subset
  <2>. QED
    BY <2>1, <1>3, FS_CardinalityType
<1>7. world.workshops_per_person \in Nat /\ world.capacity[w] \in Nat
  BY WorldsAssumption DEF IInv, Work
<1>8. /\ Cardinality(Own(p, r)) >= world.workshops_per_person =>
           Cardinality(Own(p, r)') >= world.workshops_per_person
      /\ Cardinality(Ahead(r, p, w)) >= world.capacity[w] =>
           Cardinality(Ahead(r, p, w)') >= world.capacity[w]
  BY <1>5, <1>6, <1>7
<1>9. Active' = Active
  BY DEF Active
<1>. QED
  BY <1>1, <1>8, <1>9 DEF Explained

\* A wish that is refused is explained.
LEMMA RefusedExplained ==
  ASSUME IInv, stage = "rounds", NEW r \in 1..MaxRank, NEW p \in Person, NEW w \in Workshop,
         <<r, p, w>> \in todo, ~Granted(p, w)
  PROVE  Explained(r, p, w)
<1>1. \A a \in attending : \/ a[3] < r
                           \/ a[3] = r /\ a[1] < p
                           \/ a[3] = r /\ a[1] = p /\ a[2] < w
  BY GrantedBefore
<1>2. \A a \in attending : a[3] \in Nat /\ a[1] \in Nat /\ a[2] \in Nat
  <2>1. attending \subseteq Person \X Workshop \X (0..MaxRank)
    BY DEF IInv, TypeOK
  <2>2. Person \subseteq Nat /\ Workshop \subseteq Nat /\ 0..MaxRank \subseteq Nat
    BY Constants
  <2>. QED
    BY <2>1, <2>2
<1>3. r \in Nat /\ p \in Nat /\ w \in Nat
  BY Constants
<1>4. Own(p, r) = Attendances(p)
  <2>1. \A a \in attending : a[3] <= r
    BY <1>1, <1>2, <1>3
  <2>. QED
    BY <2>1 DEF Own, Attendances
<1>5. CASE <<p, w, 0>> \in attending
  BY <1>4, <1>5 DEF Explained, Attendances
<1>6. CASE TargetReached(p)
  BY <1>4, <1>6 DEF Explained, TargetReached
<1>7. CASE w \notin Active \/ placed[w] = None \/ <<p, w>> \in world.unsuited \/ Leads(p, placed[w][1])
  BY <1>7 DEF Explained
<1>8. CASE Full(w)
  <2>1. CASE \E a \in Participants(w) : a[3] = r /\ a[1] = p
    BY <2>1, <1>1, <1>2, <1>3 DEF Participants
  <2>2. CASE \A a \in Participants(w) : ~(a[3] = r /\ a[1] = p)
    <3>1. Ahead(r, p, w) = Participants(w)
      BY <2>2, <1>1 DEF Ahead, Participants
    <3>. QED
      BY <3>1, <1>8 DEF Explained, Full
  <2>. QED
    BY <2>1, <2>2
<1>9. CASE Busy(p, placed[w][1])
  BY <1>4, <1>9 DEF Explained, Busy
<1>. QED
  BY <1>5, <1>6, <1>7, <1>8, <1>9 DEF Granted, NeedsMore, RuleBroken
LEMMA Wished == IInv /\ GrantWish => IInv'
<1>. SUFFICES ASSUME IInv, GrantWish PROVE IInv'
  OBVIOUS
<1>1. /\ stage = "rounds" /\ todo # {} /\ todo \subseteq world.wishes
      /\ UNCHANGED <<world, stage, placed, unscheduled, reported>>
  BY DEF GrantWish, Turn, IInv, Work
<1>2. world \in Worlds /\ world.wishes \subseteq (1..MaxRank) \X Person \X Workshop
  BY WorldsAssumption DEF IInv, Work, Wish
<1>3. world.wishes \subseteq Nat \X Nat \X Nat
  <2>1. Person \subseteq Nat /\ Workshop \subseteq Nat /\ 1..MaxRank \subseteq Nat
    BY Constants
  <2>. QED
    BY <1>2, <2>1
<1>4. First(todo) \in todo /\ \A u \in todo \ {First(todo)} : Earlier(First(todo), u)
  <2>1. todo \subseteq Nat \X Nat \X Nat
    BY <1>1, <1>3
  <2>. QED
    BY <1>1, <2>1, FirstOfTriples
<1>5. PICK r \in 1..MaxRank, p \in Person, w \in Workshop : First(todo) = <<r, p, w>>
  <2>1. First(todo) \in (1..MaxRank) \X Person \X Workshop
    BY <1>1, <1>2, <1>4
  <2>. QED
    BY <2>1
<1>. DEFINE wish == <<r, p, w>>
            seat == <<p, w, r>>
<1>6. NextWish = wish /\ NextWish[1] = r /\ NextWish[2] = p /\ NextWish[3] = w
  BY <1>5 DEF NextWish
<1>7. /\ todo' = todo \ {wish}
      /\ attending' = IF Granted(p, w) THEN attending \cup {seat} ELSE attending
  BY <1>6 DEF GrantWish
<1>8. wish \in todo /\ \A u \in todo \ {wish} : Earlier(wish, u)
  BY <1>4, <1>5
<1>9. /\ Work' /\ Turns' /\ Unplaceable' /\ PlacementsFit'
      /\ \A q, slot : Leads(q, slot)' <=> Leads(q, slot)
  BY <1>1, <1>7, ProgrammeKept
<1>10. TypeOK'
  <2>1. Granted(p, w) => seat \in Person \X {v \in Workshop : placed[v] # None} \X (0..MaxRank)
    BY DEF Granted
  <2>2. attending' \subseteq Person \X {v \in Workshop : placed[v] # None} \X (0..MaxRank)
    BY <1>7, <2>1 DEF IInv, TypeOK
  <2>3. todo' \subseteq Wish
    BY <1>1, <1>2, <1>7 DEF Wish
  <2>. QED
    BY <1>1, <2>2, <2>3 DEF IInv, TypeOK
<1>11. Recorded'
  <2>1. ASSUME NEW a \in attending', a[3] # 0
        PROVE  <<a[3], a[1], a[2]>> \in world.wishes \ todo'
    <3>1. CASE a \in attending
      BY <2>1, <3>1, <1>1, <1>7 DEF IInv, Recorded
    <3>2. CASE a \notin attending
      <4>1. a = seat
        BY <2>1, <3>2, <1>7
      <4>2. <<a[3], a[1], a[2]>> = wish
        BY <4>1
      <4>. QED
        BY <4>2, <1>1, <1>7, <1>8
    <3>. QED
      BY <3>1, <3>2
  <2>2. ASSUME NEW u \in world.wishes \ todo', NEW v \in todo' PROVE Earlier(u, v)
    <3>1. CASE u = wish
      BY <3>1, <1>7, <1>8
    <3>2. CASE u # wish
      BY <3>2, <1>1, <1>7 DEF IInv, Recorded
    <3>. QED
      BY <3>1, <3>2
  <2>. QED
    BY <1>1, <2>1, <2>2 DEF Recorded
<1>12. SeatsKept'
  <2>1. ASSUME NEW v \in Workshop
        PROVE  /\ Cardinality(Participants(v)') <= world.capacity[v] + Cardinality(ReportedOf(v)')
               /\ (\E a \in Participants(v)' : a[3] # 0) =>
                    Cardinality(Participants(v)') <= world.capacity[v]
    <3>1. /\ Cardinality(Participants(v)) <= world.capacity[v] + Cardinality(ReportedOf(v))
          /\ (\E a \in Participants(v) : a[3] # 0) =>
               Cardinality(Participants(v)) <= world.capacity[v]
      BY DEF IInv, RulesKept, SeatsKept
    <3>2. /\ IsFiniteSet(Participants(v)) /\ Cardinality(Participants(v)) \in Nat
          /\ Cardinality(ReportedOf(v)) \in Nat /\ world.capacity[v] \in Nat
          /\ ReportedOf(v)' = ReportedOf(v)
      BY <1>1, <1>2, Finite, WorldsAssumption DEF IInv, ReportedOf
    <3>3. CASE v # w \/ ~Granted(p, w)
      <4>1. Participants(v)' = Participants(v)
        BY <3>3, <1>7 DEF Participants
      <4>. QED
        BY <4>1, <3>1, <3>2
    <3>4. CASE v = w /\ Granted(p, w)
      <4>1. Participants(v)' = Participants(v) \cup {seat}
        BY <3>4, <1>7 DEF Participants
      <4>2. /\ Cardinality(Participants(v)') \in Nat
            /\ Cardinality(Participants(v)') <= Cardinality(Participants(v)) + 1
        BY <4>1, <3>2, Counted
      <4>3. ~(Cardinality(Participants(v)) >= world.capacity[v])
        BY <3>4 DEF Granted, RuleBroken, Full
      <4>. QED
        BY <4>2, <4>3, <3>2
    <3>. QED
      BY <3>3, <3>4
  <2>. QED
    BY <2>1, <1>1, Zenon DEF SeatsKept
<1>13. OnePlaceAtATime'
  <2>. DEFINE S(a) == placed[a[2]][1]
              Pair(a) == <<a[1], a[2]>>
  <2>1. \A a \in attending : Leads(a[1], S(a)) => Pair(a) \in reported
    BY DEF IInv, RulesKept, OnePlaceAtATime
  <2>2. \A a, b \in attending : a[1] = b[1] /\ a # b /\ S(a) = S(b) =>
          Pair(a) \in reported \/ Pair(b) \in reported
    BY DEF IInv, RulesKept, OnePlaceAtATime, Attendances
  <2>3. attending' \subseteq attending \cup {seat}
    BY <1>7
  <2>4. seat \in attending' \ attending =>
          ~Leads(p, S(seat)) /\ \A b \in attending : b[1] = p => S(b) # S(seat)
    BY <1>7 DEF Granted, RuleBroken, Busy, Attendances
  <2>5. \A a \in attending' : Leads(a[1], S(a)) => Pair(a) \in reported
    BY <2>1, <2>3, <2>4
  <2>6. \A a, b \in attending' : a[1] = b[1] /\ a # b /\ S(a) = S(b) =>
          Pair(a) \in reported \/ Pair(b) \in reported
    BY <2>2, <2>3, <2>4
  <2>. QED
    BY <2>5, <2>6, <1>1, <1>9 DEF OnePlaceAtATime, Attendances
<1>14. TargetKept'
  <2>1. ASSUME NEW q \in Person, NEW a \in Attendances(q)', a[3] # 0
        PROVE  Cardinality(Attendances(q)') <= world.workshops_per_person
    <3>1. IsFiniteSet(Attendances(q)) /\ Cardinality(Attendances(q)) \in Nat
      BY Finite DEF IInv
    <3>2. CASE q # p \/ ~Granted(p, w)
      <4>1. Attendances(q)' = Attendances(q)
        BY <3>2, <1>7 DEF Attendances
      <4>. QED
        BY <4>1, <2>1 DEF IInv, RulesKept, TargetKept
    <3>3. CASE q = p /\ Granted(p, w)
      <4>1. Attendances(q)' = Attendances(q) \cup {seat}
        BY <3>3, <1>7 DEF Attendances
      <4>2. /\ Cardinality(Attendances(q)') \in Nat
            /\ Cardinality(Attendances(q)') <= Cardinality(Attendances(q)) + 1
        BY <4>1, <3>1, Counted
      <4>3. ~(Cardinality(Attendances(q)) >= world.workshops_per_person)
        BY <3>3 DEF Granted, NeedsMore, TargetReached
      <4>4. world.workshops_per_person \in Nat
        BY <1>2, WorldsAssumption
      <4>. QED
        BY <4>2, <4>3, <4>4, <3>1
    <3>. QED
      BY <3>2, <3>3
  <2>. QED
    BY <2>1, <1>1 DEF TargetKept
<1>15. NobodyPassedOver'
  <2>1. ASSUME NEW v \in world.wishes \ todo' PROVE Explained(v[1], v[2], v[3])'
    <3>1. v[3] \in Workshop
      BY <1>2
    <3>2. attending \subseteq attending'
      BY <1>7
    <3>3. CASE v # wish
      <4>1. Explained(v[1], v[2], v[3])
        BY <3>3, <1>1, <1>7 DEF IInv, NobodyPassedOver
      <4>. QED
        BY <4>1, <3>1, <3>2, <1>1, <1>9, <1>10, StaysExplained
    <3>4. CASE v = wish /\ Granted(p, w)
      <4>1. seat \in Own(p, r)'
        BY <3>4, <1>7 DEF Own, Attendances
      <4>2. v[1] = r /\ v[2] = p /\ v[3] = w
        BY <3>4
      <4>. QED
        BY <4>1, <4>2 DEF Explained
    <3>5. CASE v = wish /\ ~Granted(p, w)
      <4>1. v[1] = r /\ v[2] = p /\ v[3] = w
        BY <3>5
      <4>2. Explained(r, p, w)
        BY <3>5, <1>1, <1>8, RefusedExplained
      <4>. QED
        BY <4>1, <4>2, <3>2, <1>1, <1>9, <1>10, StaysExplained
    <3>. QED
      BY <3>3, <3>4, <3>5
  <2>. QED
    BY <2>1, <1>1 DEF NobodyPassedOver
<1>. QED
  BY <1>9, <1>10, <1>11, <1>12, <1>13, <1>14, <1>15 DEF IInv, RulesKept
-----------------------------------------------------------------------------
(***************************************************************************)
(* From stage to stage, and the theorems.                                  *)
(***************************************************************************)
LEMMA Advanced == IInv /\ NextStage => IInv'
<1>. SUFFICES ASSUME IInv, NextStage PROVE IInv'
  OBVIOUS
<1>1. todo = {} /\ UNCHANGED <<world, placed, unscheduled, attending, reported>>
  BY DEF NextStage, Advance
<1>2. Active' = Active /\ (\A slot : At(slot)' = At(slot))
  BY <1>1 DEF Active, At
<1>3. Unplaceable' /\ PlacementsFit'
  BY <1>1, <1>2 DEF IInv, Unplaceable, PlacementsFit, PlacementRejections, Target
<1>4. world \in Worlds /\ world.needs \subseteq Attendance /\ world.wishes \subseteq Wish
  BY WorldsAssumption DEF IInv, Work
<1>5. SeatsKept' /\ OnePlaceAtATime' /\ TargetKept'
  BY <1>1, <1>2 DEF IInv, RulesKept, SeatsKept, OnePlaceAtATime, TargetKept, Attendances,
    Participants, ReportedOf, Leads
<1>6. TypeOK' /\ Work'
  BY <1>1, <1>2, <1>4 DEF IInv, TypeOK, Work, NextStage, Advance
<1>7. CASE stage = "fixed placements"
  <2>1. /\ stage' = "placements"
        /\ todo' = {<<world.order[w], w>> : w \in {v \in Active : world.fixed[v] = None}}
    BY <1>7 DEF NextStage, Advance
  <2>2. ASSUME NEW w \in Workshop
        PROVE  /\ Open(w)' => placed'[w] = None /\ w \notin unscheduled'
               /\ ~Open(w)' /\ w \in Active => placed'[w] # None \/ w \in unscheduled'
    <3>1. Open(w)' => world.fixed[w] = None
      BY <1>1, <2>1 DEF Open
    <3>2. ~Open(w)' /\ w \in Active => world.fixed[w] # None
      BY <1>1, <2>1 DEF Open
    <3>3. Open(w) <=> world.fixed[w] = None
      BY <1>1, <1>7 DEF Open
    <3>. QED
      BY <3>1, <3>2, <3>3, <1>1 DEF IInv, Turns
  <2>3. Turns'
    BY <2>2, <1>2 DEF Turns
  <2>4. Recorded' /\ NobodyPassedOver'
    BY <1>1, <1>7, <2>1 DEF IInv, Recorded, NobodyPassedOver
  <2>. QED
    BY <1>3, <1>5, <1>6, <2>3, <2>4 DEF IInv, RulesKept
<1>8. CASE stage # "fixed placements"
  <2>1. stage' \notin {"fixed placements", "placements"}
    BY <1>8 DEF NextStage, Advance
  <2>2. \A w \in Workshop : ~Open(w) /\ ~Open(w)'
    BY <1>1, <1>8, <2>1 DEF Open
  <2>3. Turns'
    BY <1>1, <1>2, <2>2 DEF IInv, Turns
  <2>4. Recorded'
    <3>1. CASE stage = "placements"
      <4>1. stage' = "fixed attendances" /\ attending' = {} /\ reported' = {}
        BY <3>1, <1>1 DEF NextStage, Advance, IInv, Recorded
      <4>. QED
        BY <4>1 DEF Recorded
    <3>2. CASE stage = "fixed attendances"
      <4>1. /\ stage' = "rounds" /\ todo' = world'.wishes
            /\ \A a \in attending' : a[3] = 0
        BY <3>2, <1>1 DEF NextStage, Advance, IInv, Recorded
      <4>. QED
        BY <4>1 DEF Recorded
    <3>3. CASE stage = "rounds"
      <4>1. stage' = "done" /\ todo' = {}
        BY <3>3 DEF NextStage, Advance
      <4>. QED
        BY <3>3, <4>1, <1>1 DEF IInv, Recorded
    <3>. QED
      BY <3>1, <3>2, <3>3, <1>8 DEF NextStage, Advance
  <2>5. NobodyPassedOver'
    <3>1. CASE stage = "rounds"
      <4>1. stage' = "done" /\ todo' = {}
        BY <3>1 DEF NextStage, Advance
      <4>2. \A v \in world.wishes : Explained(v[1], v[2], v[3])
        BY <3>1, <1>1 DEF IInv, NobodyPassedOver
      <4>3. \A v \in world.wishes : Explained(v[1], v[2], v[3])'
        BY <4>2, <1>1, <1>2 DEF Explained, Own, Ahead, Attendances, Participants, Leads
      <4>. QED
        BY <4>1, <4>3, <1>1 DEF NobodyPassedOver
    <3>2. CASE stage # "rounds"
      <4>1. stage' = "rounds" => todo' = world'.wishes
        BY <3>2, <1>1 DEF NextStage, Advance
      <4>2. stage' # "done"
        BY <3>2 DEF NextStage, Advance
      <4>. QED
        BY <4>1, <4>2 DEF NobodyPassedOver
    <3>. QED
      BY <3>1, <3>2
  <2>. QED
    BY <1>3, <1>5, <1>6, <2>3, <2>4, <2>5 DEF IInv, RulesKept
<1>. QED
  BY <1>7, <1>8

LEMMA Initially == Init => IInv
<1>. SUFFICES ASSUME Init PROVE IInv
  OBVIOUS
<1>1. /\ stage = "fixed placements" /\ world \in Worlds
      /\ todo = {<<w>> : w \in {v \in Workshop : world.fixed[v] # None}}
      /\ placed = [w \in Workshop |-> None]
      /\ unscheduled = {} /\ attending = {} /\ reported = {}
  BY DEF Init
<1>2. TypeOK /\ Work
  BY <1>1 DEF TypeOK, Work
<1>3. Turns /\ Unplaceable /\ PlacementsFit
  BY <1>1 DEF Turns, Open, Unplaceable, PlacementsFit
<1>4. Recorded
  BY <1>1 DEF Recorded
<1>5. RulesKept /\ NobodyPassedOver
  BY <1>1, <1>2, NobodyAttends
<1>. QED
  BY <1>2, <1>3, <1>4, <1>5 DEF IInv

LEMMA Inductive == IInv /\ [Next]_vars => IInv'
<1>. SUFFICES ASSUME IInv, UNCHANGED vars PROVE IInv'
  BY FixedPlaced, Placed, Fixed, Wished, Advanced DEF Next
<1>1. UNCHANGED <<world, stage, todo, placed, unscheduled, attending, reported>>
  BY DEF vars
<1>2. /\ TypeOK' /\ Work' /\ Turns' /\ Unplaceable' /\ PlacementsFit' /\ Recorded'
  <2>1. TypeOK' /\ Work' /\ Recorded'
    BY <1>1 DEF IInv, TypeOK, Work, Recorded, Active
  <2>2. Turns'
    BY <1>1 DEF IInv, Turns, Open, Active
  <2>3. Unplaceable' /\ PlacementsFit'
    BY <1>1 DEF IInv, Unplaceable, PlacementsFit, PlacementRejections, At, Active, Target
  <2>. QED
    BY <2>1, <2>2, <2>3
<1>3. SeatsKept' /\ OnePlaceAtATime' /\ TargetKept'
  BY <1>1 DEF IInv, RulesKept, SeatsKept, OnePlaceAtATime, TargetKept, Attendances,
    Participants, ReportedOf, Leads, At, Active
<1>4. NobodyPassedOver'
  BY <1>1 DEF IInv, NobodyPassedOver, Explained, Own, Ahead, Attendances, Participants,
    Leads, At, Active
<1>. QED
  BY <1>2, <1>3, <1>4 DEF IInv, RulesKept

\* What is before a loop is of its kind; nothing is placed and unscheduled at once.
THEOREM TypeCorrect == Spec => []TypeOK
<1>1. IInv => TypeOK
  BY DEF IInv
<1>. QED
  BY <1>1, Initially, Inductive, PTL DEF Spec

\* The programme fits and could not be added to.
THEOREM Sound == Spec => []ProgrammeSound
<1>1. IInv => ProgrammeSound
  <2>1. ASSUME IInv, Attending, NEW w \in Active, placed[w] = None
        PROVE  /\ w \in unscheduled
               /\ world.fixed[w] = None =>
                    \A target \in Target : PlacementRejections(w, target)
    <3>1. w \in Workshop /\ ~Open(w)
      BY <2>1 DEF Active, Attending, Open
    <3>. QED
      BY <2>1, <3>1 DEF IInv, Turns, Unplaceable
  <2>. QED
    BY <2>1 DEF IInv, ProgrammeSound, UnscheduledFitNowhere
<1>. QED
  BY <1>1, Initially, Inductive, PTL DEF Spec

\* Capacities, slots and the number of workshops are exceeded by reported fixed
\* attendances only.
THEOREM Rules == Spec => []RulesKept
<1>1. IInv => RulesKept
  BY DEF IInv
<1>. QED
  BY <1>1, Initially, Inductive, PTL DEF Spec

\* Every wish whose turn is over was granted or is refused for a reason that still holds.
THEOREM NobodyForgotten == Spec => []NobodyPassedOver
<1>1. IInv => NobodyPassedOver
  BY DEF IInv
<1>. QED
  BY <1>1, Initially, Inductive, PTL DEF Spec
=============================================================================
