-------------------------- MODULE AreaClosingProofs --------------------------
(***************************************************************************)
(* Proofs about AreaClosing, for any requests, areas, batches and logs.    *)
(*                                                                         *)
(* What a log derives to, and what an area is shown as, are recursive      *)
(* functions of the log.  What they are is shown by the least prefix of    *)
(* which it would be false (Least): first that the functions exist and go  *)
(* on one event at a time, then what the phase facts are after any log     *)
(* (FactsOfEveryLog), which is FactsFollowLog without a state.  The        *)
(* invariant ties a request to the log: a batch that is about to be        *)
(* written was filled and accepted in the world of the head its page gave  *)
(* (FilledFromBase), and only filled closings are in the log.              *)
(***************************************************************************)
EXTENDS AreaClosing, FiniteSetTheorems, SequenceTheorems, WellFoundedInduction, TLAPS

-----------------------------------------------------------------------------
(***************************************************************************)
(* Induction by the least counterexample.                                  *)
(***************************************************************************)
Below == {p \in Nat \X Nat : p[1] < p[2]}

LEMMA Least ==
  ASSUME NEW S, S \subseteq Nat, S # {}
  PROVE  \E n \in S : \A m \in S : n <= m
<1>1. IsWellFoundedOn(Below, Nat)
  BY NatLessThanWellFounded DEF OpToRel, Below
<1>2. PICK n \in S : \A m \in S : ~ (<<m, n>> \in Below)
  BY <1>1, WFMin
<1>3. ASSUME NEW m \in S PROVE n <= m
  <2>1. m \in Nat /\ n \in Nat
    OBVIOUS
  <2>2. ~(m < n)
    BY <1>2, <2>1 DEF Below
  <2>. QED
    BY <2>1, <2>2
<1>. QED
  BY <1>3

(***************************************************************************)
(* The two folds exist, and go on one event at a time.                     *)
(***************************************************************************)
Derivation(f, es, N) ==
  f = [n \in 0..N |-> IF n = 0 THEN NoFacts ELSE FoldEvent(f[n - 1], es[n])]

Filling(f, w, ds, N) ==
  f = [n \in 0..N |-> IF n = 0 THEN w ELSE FoldEvent(f[n - 1], Fill(f[n - 1], ds[n]))]

LEMMA DerivationExists ==
  ASSUME NEW es, NEW N \in Nat
  PROVE  \E f : Derivation(f, es, N)
<1>. DEFINE Bad == {m \in Nat : ~ \E f : Derivation(f, es, m)}
<1>. SUFFICES ASSUME Bad # {} PROVE FALSE
  OBVIOUS
<1>1. PICK m \in Bad : \A k \in Bad : m <= k
  <2>. HIDE DEF Bad
  <2>1. Bad \subseteq Nat
    BY DEF Bad
  <2>. QED
    BY <2>1, Least
<1>2. m # 0
  <2>. DEFINE f == [n \in 0..0 |-> NoFacts]
  <2>1. f = [n \in 0..0 |-> IF n = 0 THEN NoFacts ELSE FoldEvent(f[n - 1], es[n])]
    OBVIOUS
  <2>. HIDE DEF f
  <2>2. Derivation(f, es, 0)
    BY <2>1 DEF Derivation
  <2>. QED
    BY <2>2
<1>3. m - 1 \in Nat /\ m - 1 \notin Bad
  <2>. HIDE DEF Bad
  <2>1. m \in Nat
    BY DEF Bad
  <2>. QED
    BY <1>1, <1>2, <2>1
<1>4. PICK f : Derivation(f, es, m - 1)
  BY <1>3
<1>. DEFINE g == [n \in 0..m |-> IF n = m THEN FoldEvent(f[m - 1], es[m]) ELSE f[n]]
<1>. HIDE DEF Bad
<1>5. m \in Nat
  BY DEF Bad
<1>6. ASSUME NEW n \in 0..m
      PROVE  g[n] = IF n = 0 THEN NoFacts ELSE FoldEvent(g[n - 1], es[n])
  <2>1. CASE n = m
    <3>1. g[n] = FoldEvent(f[m - 1], es[m]) /\ g[m - 1] = f[m - 1]
      BY <2>1, <1>2, <1>5
    <3>. HIDE DEF g
    <3>. QED
      BY <3>1, <2>1, <1>2
  <2>2. CASE n # m
    <3>1. g[n] = f[n] /\ n \in 0..(m - 1) /\ (n # 0 => g[n - 1] = f[n - 1])
      BY <2>2, <1>5, <1>2
    <3>2. f[n] = IF n = 0 THEN NoFacts ELSE FoldEvent(f[n - 1], es[n])
      BY <1>4, <3>1 DEF Derivation
    <3>. HIDE DEF g
    <3>. QED
      BY <3>1, <3>2
  <2>. QED
    BY <2>1, <2>2
<1>7. g = [n \in 0..m |-> IF n = 0 THEN NoFacts ELSE FoldEvent(g[n - 1], es[n])]
  <2>1. g = [n \in 0..m |-> g[n]]
    OBVIOUS
  <2>. HIDE DEF g
  <2>. QED
    BY <2>1, <1>6
<1>8. Derivation(g, es, m)
  <2>. HIDE DEF g
  <2>. QED
    BY <1>7 DEF Derivation
<1>. QED
  BY <1>8 DEF Bad

\* A derivation depends on the events it has folded only.
LEMMA DerivationPrefix ==
  ASSUME NEW es, NEW ds, NEW N \in Nat, NEW M \in Nat, NEW f, NEW g,
         Derivation(f, es, N), Derivation(g, ds, M), N <= M,
         \A i \in 1..N : es[i] = ds[i]
  PROVE  f[N] = g[N]
<1>. DEFINE Bad == {k \in 0..N : f[k] # g[k]}
<1>. SUFFICES ASSUME Bad # {} PROVE FALSE
  OBVIOUS
<1>0. Bad \subseteq Nat
  OBVIOUS
<1>1. PICK m \in Bad : \A k \in Bad : m <= k
  <2>. HIDE DEF Bad
  <2>. QED
    BY <1>0, Least
<1>2. m \in 0..N /\ f[m] # g[m] /\ m \in 0..M
  OBVIOUS
<1>3. f[m] = IF m = 0 THEN NoFacts ELSE FoldEvent(f[m - 1], es[m])
  BY <1>2 DEF Derivation
<1>4. g[m] = IF m = 0 THEN NoFacts ELSE FoldEvent(g[m - 1], ds[m])
  BY <1>2 DEF Derivation
<1>5. m # 0
  BY <1>2, <1>3, <1>4
<1>6. m - 1 \in 0..N /\ m - 1 \notin Bad /\ m \in 1..N
  <2>1. m - 1 \in 0..N /\ m \in 1..N /\ ~(m <= m - 1)
    BY <1>2, <1>5
  <2>. HIDE DEF Bad
  <2>. QED
    BY <2>1, <1>1
<1>7. f[m - 1] = g[m - 1] /\ es[m] = ds[m]
  BY <1>6
<1>. QED
  BY <1>2, <1>3, <1>4, <1>5, <1>7

LEMMA FillingExists ==
  ASSUME NEW w, NEW ds, NEW N \in Nat
  PROVE  \E f : Filling(f, w, ds, N)
<1>. DEFINE Bad == {m \in Nat : ~ \E f : Filling(f, w, ds, m)}
<1>. SUFFICES ASSUME Bad # {} PROVE FALSE
  OBVIOUS
<1>1. PICK m \in Bad : \A k \in Bad : m <= k
  <2>. HIDE DEF Bad
  <2>1. Bad \subseteq Nat
    BY DEF Bad
  <2>. QED
    BY <2>1, Least
<1>2. m # 0
  <2>. DEFINE f == [n \in 0..0 |-> w]
  <2>1. f = [n \in 0..0 |-> IF n = 0 THEN w ELSE FoldEvent(f[n - 1], Fill(f[n - 1], ds[n]))]
    OBVIOUS
  <2>. HIDE DEF f
  <2>2. Filling(f, w, ds, 0)
    BY <2>1 DEF Filling
  <2>. QED
    BY <2>2
<1>3. m - 1 \in Nat /\ m - 1 \notin Bad
  <2>. HIDE DEF Bad
  <2>1. m \in Nat
    BY DEF Bad
  <2>. QED
    BY <1>1, <1>2, <2>1
<1>4. PICK f : Filling(f, w, ds, m - 1)
  BY <1>3
<1>. DEFINE g == [n \in 0..m |-> IF n = m THEN FoldEvent(f[m - 1], Fill(f[m - 1], ds[m])) ELSE f[n]]
<1>. HIDE DEF Bad
<1>5. m \in Nat
  BY DEF Bad
<1>6. ASSUME NEW n \in 0..m
      PROVE  g[n] = IF n = 0 THEN w ELSE FoldEvent(g[n - 1], Fill(g[n - 1], ds[n]))
  <2>1. CASE n = m
    <3>1. g[n] = FoldEvent(f[m - 1], Fill(f[m - 1], ds[m])) /\ g[m - 1] = f[m - 1]
      BY <2>1, <1>2, <1>5
    <3>. HIDE DEF g
    <3>. QED
      BY <3>1, <2>1, <1>2
  <2>2. CASE n # m
    <3>1. g[n] = f[n] /\ n \in 0..(m - 1) /\ (n # 0 => g[n - 1] = f[n - 1])
      BY <2>2, <1>5, <1>2
    <3>2. f[n] = IF n = 0 THEN w ELSE FoldEvent(f[n - 1], Fill(f[n - 1], ds[n]))
      BY <1>4, <3>1 DEF Filling
    <3>. HIDE DEF g
    <3>. QED
      BY <3>1, <3>2
  <2>. QED
    BY <2>1, <2>2
<1>7. g = [n \in 0..m |-> IF n = 0 THEN w ELSE FoldEvent(g[n - 1], Fill(g[n - 1], ds[n]))]
  <2>1. g = [n \in 0..m |-> g[n]]
    OBVIOUS
  <2>. HIDE DEF g
  <2>. QED
    BY <2>1, <1>6
<1>8. Filling(g, w, ds, m)
  <2>. HIDE DEF g
  <2>. QED
    BY <1>7 DEF Filling
<1>. QED
  BY <1>8 DEF Bad

\* So does a filling.
LEMMA FillingPrefix ==
  ASSUME NEW w, NEW ds, NEW N \in Nat, NEW M \in Nat, NEW f, NEW g,
         Filling(f, w, ds, N), Filling(g, w, ds, M), N <= M
  PROVE  f[N] = g[N]
<1>. DEFINE Bad == {k \in 0..N : f[k] # g[k]}
<1>. SUFFICES ASSUME Bad # {} PROVE FALSE
  OBVIOUS
<1>0. Bad \subseteq Nat
  OBVIOUS
<1>1. PICK m \in Bad : \A k \in Bad : m <= k
  <2>. HIDE DEF Bad
  <2>. QED
    BY <1>0, Least
<1>2. m \in 0..N /\ f[m] # g[m] /\ m \in 0..M
  OBVIOUS
<1>3. f[m] = IF m = 0 THEN w ELSE FoldEvent(f[m - 1], Fill(f[m - 1], ds[m]))
  BY <1>2 DEF Filling
<1>4. g[m] = IF m = 0 THEN w ELSE FoldEvent(g[m - 1], Fill(g[m - 1], ds[m]))
  BY <1>2 DEF Filling
<1>5. m # 0
  BY <1>2, <1>3, <1>4
<1>6. m - 1 \in 0..N /\ m - 1 \notin Bad /\ m \in 1..N
  <2>1. m - 1 \in 0..N /\ m \in 1..N /\ ~(m <= m - 1)
    BY <1>2, <1>5
  <2>. HIDE DEF Bad
  <2>. QED
    BY <2>1, <1>1
<1>7. f[m - 1] = g[m - 1]
  BY <1>6
<1>. QED
  BY <1>2, <1>3, <1>4, <1>5, <1>7

LEMMA DeriveIs ==
  ASSUME NEW es, NEW N \in Nat, N = Len(es)
  PROVE  \E f : Derivation(f, es, N) /\ Derive(es) = f[N]
<1>. DEFINE f == CHOOSE g : Derivation(g, es, N)
<1>1. Derivation(f, es, N)
  BY DerivationExists
<1>2. Derive(es) = f[N]
  BY DEF Derive, Derivation
<1>. HIDE DEF f
<1>. QED
  BY <1>1, <1>2

LEMMA DeriveEmpty == Derive(<<>>) = NoFacts
<1>1. PICK f : Derivation(f, <<>>, 0) /\ Derive(<<>>) = f[0]
  BY DeriveIs
<1>2. f[0] = NoFacts
  BY <1>1 DEF Derivation
<1>. QED
  BY <1>1, <1>2

LEMMA DeriveAppend ==
  ASSUME NEW es \in Seq(Event), NEW e \in Event
  PROVE  Derive(Append(es, e)) = FoldEvent(Derive(es), e)
<1>. DEFINE N == Len(es)
            ds == Append(es, e)
<1>1. N \in Nat /\ N + 1 \in Nat /\ Len(ds) = N + 1 /\ ds[N + 1] = e
      /\ (\A i \in 1..N : es[i] = ds[i])
  OBVIOUS
<1>. HIDE DEF N, ds
<1>2. PICK f : Derivation(f, es, N) /\ Derive(es) = f[N]
  BY <1>1, DeriveIs DEF N
<1>3. PICK g : Derivation(g, ds, N + 1) /\ Derive(ds) = g[N + 1]
  BY <1>1, DeriveIs
<1>4. f[N] = g[N]
  <2>1. N <= N + 1
    BY <1>1
  <2>. QED
    BY <1>1, <1>2, <1>3, <2>1, DerivationPrefix
<1>5. g[N + 1] = FoldEvent(g[N], ds[N + 1])
  <2>1. N + 1 \in 0..(N + 1) /\ N + 1 # 0 /\ (N + 1) - 1 = N
    BY <1>1
  <2>2. g[N + 1] = IF N + 1 = 0 THEN NoFacts ELSE FoldEvent(g[(N + 1) - 1], ds[N + 1])
    BY <1>3, <2>1 DEF Derivation
  <2>. QED
    BY <2>1, <2>2
<1>. QED
  BY <1>1, <1>2, <1>3, <1>4, <1>5 DEF ds

LEMMA WorldAfterIs ==
  ASSUME NEW w, NEW ds, NEW N \in Nat
  PROVE  \E f : Filling(f, w, ds, N) /\ WorldAfter(w, ds, N) = f[N]
<1>. DEFINE f == CHOOSE g : Filling(g, w, ds, N)
<1>1. Filling(f, w, ds, N)
  BY FillingExists
<1>2. WorldAfter(w, ds, N) = f[N]
  BY DEF WorldAfter, Filling
<1>. HIDE DEF f
<1>. QED
  BY <1>1, <1>2

LEMMA WorldStart ==
  ASSUME NEW w, NEW ds
  PROVE  WorldAfter(w, ds, 0) = w
<1>1. PICK f : Filling(f, w, ds, 0) /\ WorldAfter(w, ds, 0) = f[0]
  BY WorldAfterIs
<1>2. f[0] = w
  BY <1>1 DEF Filling
<1>. QED
  BY <1>1, <1>2

LEMMA WorldStep ==
  ASSUME NEW w, NEW ds, NEW N \in Nat
  PROVE  WorldAfter(w, ds, N + 1) =
           FoldEvent(WorldAfter(w, ds, N), Fill(WorldAfter(w, ds, N), ds[N + 1]))
<1>1. N + 1 \in Nat /\ N <= N + 1
  OBVIOUS
<1>2. PICK f : Filling(f, w, ds, N) /\ WorldAfter(w, ds, N) = f[N]
  BY WorldAfterIs
<1>3. PICK g : Filling(g, w, ds, N + 1) /\ WorldAfter(w, ds, N + 1) = g[N + 1]
  BY <1>1, WorldAfterIs
<1>4. f[N] = g[N]
  <2>. DEFINE M == N + 1
  <2>1. M \in Nat /\ N <= M /\ Filling(g, w, ds, M)
    BY <1>3
  <2>. HIDE DEF M
  <2>. QED
    BY <1>2, <2>1, FillingPrefix
<1>5. g[N + 1] = FoldEvent(g[N], Fill(g[N], ds[N + 1]))
  <2>1. N + 1 \in 0..(N + 1) /\ N + 1 # 0 /\ (N + 1) - 1 = N
    OBVIOUS
  <2>2. g[N + 1] = IF N + 1 = 0 THEN w
                   ELSE FoldEvent(g[(N + 1) - 1], Fill(g[(N + 1) - 1], ds[N + 1]))
    BY <1>3, <2>1 DEF Filling
  <2>. QED
    BY <2>1, <2>2
<1>. QED
  BY <1>2, <1>3, <1>4, <1>5

(***************************************************************************)
(* Types.                                                                  *)
(***************************************************************************)
Payload == Plan \cup {Empty}

World ==
  [domain : Domain, opened : BOOLEAN, closings : [Area -> Seq(Payload)],
   latest : [Area -> {"none", "closed", "reopened"}]]

LEMMA EventKinds ==
  ASSUME NEW e \in Event
  PROVE  \/ e.type = "edit" /\ e \in Edit
         \/ e.type = "WorkshopChoiceOpened" /\ e \in Open
         \/ e.type = "WorkshopWarningsAcknowledged" /\ e \in Acknowledge
         \/ e.type = "close" /\ e \in Close
         \/ e.type = "reopen" /\ e \in Reopen
BY DEF Event, Edit, Open, Acknowledge, Close, Reopen

LEMMA NoFactsType == NoFacts \in World
BY DomainAssumption DEF NoFacts, World, Payload

LEMMA FoldEventType ==
  ASSUME NEW w \in World, NEW e \in Event
  PROVE  FoldEvent(w, e) \in World
<1>1. CASE e.type = "edit" /\ e \in Edit
  <2>1. FoldEvent(w, e) = [w EXCEPT !.domain = e.to] /\ e.to \in Domain
    BY <1>1 DEF FoldEvent, Edit, IsClosing
  <2>. QED
    BY <2>1 DEF World
<1>2. CASE e.type = "WorkshopChoiceOpened" /\ e \in Open
  <2>1. FoldEvent(w, e) = [w EXCEPT !.opened = TRUE]
    BY <1>2 DEF FoldEvent, IsClosing
  <2>. QED
    BY <2>1 DEF World
<1>3. CASE e.type = "WorkshopWarningsAcknowledged" /\ e \in Acknowledge
  BY <1>3 DEF FoldEvent, World, IsClosing
<1>4. CASE e.type = "close" /\ e \in Close
  <2>1. FoldEvent(w, e) = [w EXCEPT !.closings[e.area] = Append(@, e.payload),
                                    !.latest[e.area] = "closed"]
    BY <1>4 DEF FoldEvent, IsClosing
  <2>2. e.area \in Area /\ e.payload \in Payload /\ w.closings \in [Area -> Seq(Payload)]
    BY <1>4 DEF Close, World, Payload
  <2>3. [w.closings EXCEPT ![e.area] = Append(@, e.payload)] \in [Area -> Seq(Payload)]
    BY <2>2
  <2>4. [w.latest EXCEPT ![e.area] = "closed"] \in [Area -> {"none", "closed", "reopened"}]
    BY <2>2 DEF World
  <2>. QED
    BY <2>1, <2>3, <2>4 DEF World
<1>5. CASE e.type = "reopen" /\ e \in Reopen
  <2>1. FoldEvent(w, e) = [w EXCEPT !.latest[e.area] = "reopened"] /\ e.area \in Area
    BY <1>5 DEF FoldEvent, Reopen, IsClosing
  <2>2. [w.latest EXCEPT ![e.area] = "reopened"] \in [Area -> {"none", "closed", "reopened"}]
    BY <2>1 DEF World
  <2>. QED
    BY <2>1, <2>2 DEF World
<1>. QED
  BY <1>1, <1>2, <1>3, <1>4, <1>5, EventKinds

LEMMA FillType ==
  ASSUME NEW w \in World, NEW d \in Event
  PROVE  /\ Fill(w, d) \in Event
         /\ Fill(w, d).type = d.type
         /\ IsClosing(d) => Fill(w, d) \in Close /\ Fill(w, d).area = d.area
                            /\ Fill(w, d).payload = w.domain.plan[d.area]
                            /\ w.domain.plan[d.area] \in Plan /\ d.area \in Area
         /\ ~IsClosing(d) => Fill(w, d) = d
<1>1. CASE IsClosing(d)
  <2>1. d \in Close /\ d.area \in Area
    BY <1>1, EventKinds DEF IsClosing, Close
  <2>2. w.domain.plan[d.area] \in Plan
    BY <2>1, DomainAssumption DEF World
  <2>3. Fill(w, d) = [d EXCEPT !.payload = w.domain.plan[d.area]]
    BY <1>1 DEF Fill, Result
  <2>4. /\ Fill(w, d) \in Close /\ Fill(w, d).type = d.type /\ Fill(w, d).area = d.area
        /\ Fill(w, d).payload = w.domain.plan[d.area]
    BY <2>1, <2>2, <2>3 DEF Close
  <2>. QED
    BY <1>1, <2>1, <2>2, <2>4 DEF Event
<1>2. CASE ~IsClosing(d)
  BY <1>2 DEF Fill
<1>. QED
  BY <1>1, <1>2

LEMMA WorldAfterType ==
  ASSUME NEW w \in World, NEW ds \in Seq(Event), NEW n \in 0..Len(ds)
  PROVE  WorldAfter(w, ds, n) \in World
<1>. DEFINE Bad == {k \in 0..Len(ds) : WorldAfter(w, ds, k) \notin World}
<1>. SUFFICES ASSUME Bad # {} PROVE FALSE
  OBVIOUS
<1>0. Bad \subseteq Nat
  OBVIOUS
<1>1. PICK m \in Bad : \A k \in Bad : m <= k
  <2>. HIDE DEF Bad
  <2>. QED
    BY <1>0, Least
<1>2. m \in 0..Len(ds) /\ WorldAfter(w, ds, m) \notin World
  OBVIOUS
<1>3. m # 0
  BY <1>2, WorldStart
<1>4. m - 1 \in 0..Len(ds) /\ m - 1 \in Nat /\ (m - 1) + 1 = m /\ ~(m <= m - 1) /\ m \in 1..Len(ds)
  BY <1>2, <1>3
<1>5. WorldAfter(w, ds, m - 1) \in World
  BY <1>1, <1>4
<1>6. WorldAfter(w, ds, m) =
        FoldEvent(WorldAfter(w, ds, m - 1), Fill(WorldAfter(w, ds, m - 1), ds[m]))
  <2>. DEFINE k == m - 1
  <2>1. k \in Nat /\ k + 1 = m
    BY <1>4
  <2>. HIDE DEF k
  <2>2. WorldAfter(w, ds, m) = FoldEvent(WorldAfter(w, ds, k), Fill(WorldAfter(w, ds, k), ds[m]))
    BY <2>1, WorldStep
  <2>. QED
    BY <2>2 DEF k
<1>7. ds[m] \in Event
  BY <1>4
<1>. QED
  BY <1>2, <1>5, <1>6, <1>7, FillType, FoldEventType

LEMMA Greatest ==
  ASSUME NEW n \in Nat, NEW S, S \subseteq 1..n, S # {}
  PROVE  \E i \in S : \A j \in S : j <= i
<1>. DEFINE T == {n - i : i \in S}
<1>0. \A i \in S : i \in 1..n /\ n - i \in Nat
  OBVIOUS
<1>1. T \subseteq Nat /\ T # {}
  BY <1>0
<1>2. PICK t \in T : \A u \in T : t <= u
  <2>. HIDE DEF T
  <2>. QED
    BY <1>1, Least
<1>3. PICK i \in S : t = n - i
  OBVIOUS
<1>4. ASSUME NEW j \in S PROVE j <= i
  <2>1. n - j \in T
    OBVIOUS
  <2>2. n - i <= n - j
    BY <1>2, <1>3, <2>1
  <2>. QED
    BY <2>2
<1>. QED
  BY <1>4

(***************************************************************************)
(* What the page shows of an area, one closing after the other.            *)
(***************************************************************************)
LEMMA LatestAppend ==
  ASSUME NEW w \in World, NEW v \in World, NEW a \in Area, NEW p \in Payload,
         v.closings[a] = Append(w.closings[a], p)
  PROVE  Latest(v, a) = IF IsRecorded(p) THEN p ELSE Latest(w, a)
<1>. DEFINE c == w.closings[a]
            d == v.closings[a]
            n == Len(c)
            R == {i \in 1..n : IsRecorded(c[i])}
            S == {i \in 1..(n + 1) : IsRecorded(d[i])}
<1>1. c \in Seq(Payload) /\ d = Append(c, p)
  BY DEF World
<1>2. n \in Nat /\ Len(d) = n + 1 /\ d[n + 1] = p /\ \A i \in 1..n : d[i] = c[i]
  <2>. HIDE DEF c, d
  <2>. QED
    BY <1>1
<1>3. Recorded(w, a) = R /\ Recorded(v, a) = S
  BY <1>2 DEF Recorded
<1>4. /\ Latest(w, a) = IF R = {} THEN Empty ELSE c[CHOOSE i \in R : \A j \in R : j <= i]
      /\ Latest(v, a) = IF S = {} THEN Empty ELSE d[CHOOSE i \in S : \A j \in S : j <= i]
  BY <1>3 DEF Latest
<1>. HIDE DEF c, d, n
<1>5. CASE IsRecorded(p)
  <2>1. n + 1 \in S /\ \A j \in S : j <= n + 1
    BY <1>2, <1>5
  <2>2. \A i \in S : (\A j \in S : j <= i) => i = n + 1
    BY <1>2, <2>1
  <2>. HIDE DEF S
  <2>3. (CHOOSE i \in S : \A j \in S : j <= i) = n + 1
    BY <2>1, <2>2
  <2>. QED
    BY <1>2, <1>4, <1>5, <2>1, <2>3
<1>6. CASE ~IsRecorded(p)
  <2>1. R = S
    BY <1>2, <1>6
  <2>2. CASE R = {}
    BY <2>1, <2>2, <1>4, <1>6
  <2>3. CASE R # {}
    <3>1. \E i \in R : \A j \in R : j <= i
      BY <1>2, <2>3, Greatest
    <3>. DEFINE m == CHOOSE i \in R : \A j \in R : j <= i
    <3>2. m \in R
      BY <3>1
    <3>3. d[m] = c[m]
      BY <3>2, <1>2
    <3>. HIDE DEF R, S, m
    <3>4. Latest(w, a) = c[m] /\ Latest(v, a) = d[m]
      BY <1>4, <2>1, <2>3 DEF m
    <3>. QED
      BY <3>3, <3>4, <1>6
  <2>. QED
    BY <2>2, <2>3
<1>. QED
  BY <1>5, <1>6

(***************************************************************************)
(* What the phase facts of a log are, whatever the log.                    *)
(***************************************************************************)
Closings(L, a) == {i \in 1..Len(L) : IsClosing(L[i]) /\ L[i].area = a}
Phases(L, a) ==
  {i \in 1..Len(L) : (IsClosing(L[i]) \/ L[i].type = "reopen") /\ L[i].area = a}
RecordedIn(L, a) == {i \in Closings(L, a) : IsRecorded(L[i].payload)}

ClosedByLast(L, a) ==
  (Derive(L).latest[a] = "closed") <=>
    \E i \in Phases(L, a) : IsClosing(L[i]) /\ \A j \in Phases(L, a) : j <= i

NoClosingLost(L, a) ==
  /\ IsFiniteSet(Closings(L, a))
  /\ Len(Derive(L).closings[a]) = Cardinality(Closings(L, a))

LatestFollows(L, a) ==
  IF RecordedIn(L, a) = {} THEN Latest(Derive(L), a) = Empty
  ELSE \E i \in RecordedIn(L, a) : /\ \A j \in RecordedIn(L, a) : j <= i
                                  /\ Latest(Derive(L), a) = L[i].payload

LastFollows(L, a) ==
  IF Closings(L, a) = {} THEN Derive(L).closings[a] = <<>>
  ELSE /\ Derive(L).closings[a] # <<>>
       /\ \E i \in Closings(L, a) : /\ \A j \in Closings(L, a) : j <= i
                                    /\ Last(Derive(L).closings[a]) = L[i].payload

LogFacts(L) ==
  /\ Derive(L) \in World
  /\ \A a \in Area :
       ClosedByLast(L, a) /\ NoClosingLost(L, a) /\ LatestFollows(L, a) /\ LastFollows(L, a)

LEMMA LogFactsEmpty == LogFacts(<<>>)
<1>1. Derive(<<>>) \in World
  BY DeriveEmpty, NoFactsType
<1>2. ASSUME NEW a \in Area
      PROVE  /\ ClosedByLast(<<>>, a) /\ NoClosingLost(<<>>, a)
             /\ LatestFollows(<<>>, a) /\ LastFollows(<<>>, a)
  <2>1. Derive(<<>>).closings[a] = <<>> /\ Derive(<<>>).latest[a] = "none"
    BY DeriveEmpty DEF NoFacts
  <2>2. Closings(<<>>, a) = {} /\ Phases(<<>>, a) = {} /\ RecordedIn(<<>>, a) = {}
    BY DEF Closings, Phases, RecordedIn
  <2>3. Latest(Derive(<<>>), a) = Empty
    BY <2>1 DEF Latest, Recorded
  <2>4. IsFiniteSet({}) /\ Cardinality({}) = 0
    BY FS_EmptySet
  <2>. QED
    BY <2>1, <2>2, <2>3, <2>4 DEF ClosedByLast, NoClosingLost, LatestFollows, LastFollows
<1>. QED
  BY <1>1, <1>2 DEF LogFacts

LEMMA PhasesAppend ==
  ASSUME NEW L \in Seq(Event), NEW e \in Event, NEW a \in Area
  PROVE  LET n == Len(L) M == Append(L, e) IN
         /\ n \in Nat /\ Len(M) = n + 1 /\ M[n + 1] = e /\ (\A i \in 1..n : M[i] = L[i])
         /\ Closings(M, a) = Closings(L, a) \cup {i \in {n + 1} : IsClosing(e) /\ e.area = a}
         /\ Phases(M, a) = Phases(L, a) \cup
              {i \in {n + 1} : (IsClosing(e) \/ e.type = "reopen") /\ e.area = a}
         /\ RecordedIn(M, a) = RecordedIn(L, a) \cup
              {i \in {n + 1} : IsClosing(e) /\ e.area = a /\ IsRecorded(e.payload)}
         /\ Closings(L, a) \subseteq 1..n /\ Phases(L, a) \subseteq 1..n
         /\ RecordedIn(L, a) \subseteq 1..n
<1>. DEFINE n == Len(L)
            M == Append(L, e)
<1>1. n \in Nat /\ Len(M) = n + 1 /\ M[n + 1] = e /\ \A i \in 1..n : M[i] = L[i]
  OBVIOUS
<1>2. Len(L) = n
  OBVIOUS
<1>3. 1..(n + 1) = 1..n \cup {n + 1}
  BY <1>1
<1>. HIDE DEF n, M
<1>4. Closings(M, a) = Closings(L, a) \cup {i \in {n + 1} : IsClosing(e) /\ e.area = a}
  BY <1>1, <1>2, <1>3 DEF Closings
<1>5. Phases(M, a) = Phases(L, a) \cup
        {i \in {n + 1} : (IsClosing(e) \/ e.type = "reopen") /\ e.area = a}
  BY <1>1, <1>2, <1>3 DEF Phases
<1>6. Closings(L, a) \subseteq 1..n /\ Phases(L, a) \subseteq 1..n /\ RecordedIn(L, a) \subseteq 1..n
  BY <1>2 DEF Closings, Phases, RecordedIn
<1>7. RecordedIn(M, a) = RecordedIn(L, a) \cup
        {i \in {n + 1} : IsClosing(e) /\ e.area = a /\ IsRecorded(e.payload)}
  BY <1>1, <1>4, <1>6 DEF RecordedIn
<1>. QED
  BY <1>1, <1>4, <1>5, <1>6, <1>7 DEF n, M

LEMMA FoldedPhases ==
  ASSUME NEW w \in World, NEW e \in Event, NEW a \in Area
  PROVE  /\ IsClosing(e) /\ e.area = a =>
              /\ e.payload \in Payload
              /\ FoldEvent(w, e).closings[a] = Append(w.closings[a], e.payload)
              /\ FoldEvent(w, e).latest[a] = "closed"
         /\ ~(IsClosing(e) /\ e.area = a) => FoldEvent(w, e).closings[a] = w.closings[a]
         /\ e.type = "reopen" /\ e.area = a => FoldEvent(w, e).latest[a] = "reopened"
         /\ ~((IsClosing(e) \/ e.type = "reopen") /\ e.area = a) =>
              FoldEvent(w, e).latest[a] = w.latest[a]
<1>0. w.closings \in [Area -> Seq(Payload)] /\ w.latest \in [Area -> {"none", "closed", "reopened"}]
  BY DEF World
<1>1. CASE e.type = "edit" /\ e \in Edit
  <2>1. FoldEvent(w, e) = [w EXCEPT !.domain = e.to]
    BY <1>1 DEF FoldEvent, IsClosing
  <2>. QED
    BY <1>1, <2>1 DEF World, IsClosing
<1>2. CASE e.type = "WorkshopChoiceOpened" /\ e \in Open
  <2>1. FoldEvent(w, e) = [w EXCEPT !.opened = TRUE]
    BY <1>2 DEF FoldEvent, IsClosing
  <2>. QED
    BY <1>2, <2>1 DEF World, IsClosing
<1>3. CASE e.type = "WorkshopWarningsAcknowledged" /\ e \in Acknowledge
  <2>1. FoldEvent(w, e) = w
    BY <1>3 DEF FoldEvent, IsClosing
  <2>. QED
    BY <1>3, <2>1 DEF IsClosing
<1>4. CASE e.type = "close" /\ e \in Close
  <2>1. FoldEvent(w, e) = [w EXCEPT !.closings[e.area] = Append(@, e.payload),
                                    !.latest[e.area] = "closed"]
    BY <1>4 DEF FoldEvent, IsClosing
  <2>2. e.area \in Area /\ e.payload \in Payload
    BY <1>4 DEF Close, Payload
  <2>3. /\ FoldEvent(w, e).closings = [w.closings EXCEPT ![e.area] = Append(@, e.payload)]
        /\ FoldEvent(w, e).latest = [w.latest EXCEPT ![e.area] = "closed"]
    BY <2>1 DEF World
  <2>. QED
    BY <1>0, <1>4, <2>2, <2>3 DEF IsClosing
<1>5. CASE e.type = "reopen" /\ e \in Reopen
  <2>1. FoldEvent(w, e) = [w EXCEPT !.latest[e.area] = "reopened"] /\ e.area \in Area
    BY <1>5 DEF FoldEvent, Reopen, IsClosing
  <2>2. /\ FoldEvent(w, e).closings = w.closings
        /\ FoldEvent(w, e).latest = [w.latest EXCEPT ![e.area] = "reopened"]
    BY <2>1 DEF World
  <2>. QED
    BY <1>0, <1>5, <2>1, <2>2 DEF IsClosing
<1>. QED
  BY <1>1, <1>2, <1>3, <1>4, <1>5, EventKinds

LEMMA LogFactsAppend ==
  ASSUME NEW L \in Seq(Event), NEW e \in Event, LogFacts(L)
  PROVE  LogFacts(Append(L, e))
<1>. DEFINE n == Len(L)
            M == Append(L, e)
            w == Derive(L)
            v == Derive(M)
<1>1. v = FoldEvent(w, e) /\ w \in World /\ v \in World
  BY DeriveAppend, FoldEventType DEF LogFacts
<1>2. ASSUME NEW a \in Area
      PROVE  ClosedByLast(M, a) /\ NoClosingLost(M, a) /\ LatestFollows(M, a) /\ LastFollows(M, a)
  <2>. DEFINE C == Closings(L, a)
              P == Phases(L, a)
              R == RecordedIn(L, a)
  <2>1. /\ n \in Nat /\ Len(M) = n + 1 /\ M[n + 1] = e /\ (\A i \in 1..n : M[i] = L[i])
        /\ Closings(M, a) = C \cup {i \in {n + 1} : IsClosing(e) /\ e.area = a}
        /\ Phases(M, a) = P \cup
             {i \in {n + 1} : (IsClosing(e) \/ e.type = "reopen") /\ e.area = a}
        /\ RecordedIn(M, a) = R \cup
             {i \in {n + 1} : IsClosing(e) /\ e.area = a /\ IsRecorded(e.payload)}
        /\ C \subseteq 1..n /\ P \subseteq 1..n /\ R \subseteq 1..n
    BY PhasesAppend
  <2>2. ClosedByLast(L, a) /\ NoClosingLost(L, a) /\ LatestFollows(L, a) /\ LastFollows(L, a)
    BY DEF LogFacts
  <2>3. /\ (w.latest[a] = "closed") <=> \E i \in P : IsClosing(L[i]) /\ \A j \in P : j <= i
        /\ IsFiniteSet(C) /\ Len(w.closings[a]) = Cardinality(C)
        /\ IF R = {} THEN Latest(w, a) = Empty
           ELSE \E i \in R : (\A j \in R : j <= i) /\ Latest(w, a) = L[i].payload
        /\ IF C = {} THEN w.closings[a] = <<>>
           ELSE /\ w.closings[a] # <<>>
                /\ \E i \in C : (\A j \in C : j <= i) /\ Last(w.closings[a]) = L[i].payload
    BY <2>2 DEF ClosedByLast, NoClosingLost, LatestFollows, LastFollows
  <2>4. w.closings[a] \in Seq(Payload)
    BY <1>1 DEF World
  <2>5. /\ IsClosing(e) /\ e.area = a =>
             /\ e.payload \in Payload
             /\ v.closings[a] = Append(w.closings[a], e.payload)
             /\ v.latest[a] = "closed"
        /\ ~(IsClosing(e) /\ e.area = a) => v.closings[a] = w.closings[a]
        /\ e.type = "reopen" /\ e.area = a => v.latest[a] = "reopened"
        /\ ~((IsClosing(e) \/ e.type = "reopen") /\ e.area = a) => v.latest[a] = w.latest[a]
    BY <1>1, FoldedPhases
  <2>6. /\ \A i \in C : i \in Nat /\ i <= n /\ M[i] = L[i]
        /\ \A i \in P : i \in Nat /\ i <= n /\ M[i] = L[i]
        /\ \A i \in R : i \in Nat /\ i <= n /\ M[i] = L[i]
        /\ n + 1 \notin C /\ n + 1 <= n + 1
    BY <2>1
  <2>9. /\ \A i \in C : i <= n + 1
        /\ \A i \in P : i <= n + 1
        /\ \A i \in R : i <= n + 1
    <3>1. \A i \in Nat : i <= n => i <= n + 1
      BY <2>1
    <3>. QED
      BY <3>1, <2>6
  <2>. HIDE DEF n, M, w, v, C, P, R
  <2>7. CASE IsClosing(e) /\ e.area = a
    <3>1. Closings(M, a) = C \cup {n + 1} /\ Phases(M, a) = P \cup {n + 1}
      BY <2>1, <2>7
    <3>2. v.closings[a] = Append(w.closings[a], e.payload) /\ v.latest[a] = "closed"
          /\ e.payload \in Payload
      BY <2>5, <2>7
    <3>3. (v.latest[a] = "closed") <=>
            \E i \in Phases(M, a) : IsClosing(M[i]) /\ \A j \in Phases(M, a) : j <= i
      <4>1. n + 1 \in Phases(M, a) /\ IsClosing(M[n + 1]) /\ \A j \in Phases(M, a) : j <= n + 1
        BY <3>1, <2>1, <2>6, <2>7, <2>9
      <4>. QED
        BY <4>1, <3>2
    <3>4. IsFiniteSet(Closings(M, a)) /\ Len(v.closings[a]) = Cardinality(Closings(M, a))
      <4>1. IsFiniteSet(C \cup {n + 1}) /\ Cardinality(C \cup {n + 1}) = Cardinality(C) + 1
        BY <2>3, <2>6, FS_AddElement
      <4>2. Len(v.closings[a]) = Len(w.closings[a]) + 1
        BY <3>2, <2>4
      <4>. QED
        BY <4>1, <4>2, <3>1, <2>3
    <3>5. /\ v.closings[a] # <<>> /\ Closings(M, a) # {}
          /\ \E i \in Closings(M, a) : (\A j \in Closings(M, a) : j <= i)
                                      /\ Last(v.closings[a]) = M[i].payload
      <4>1. n + 1 \in Closings(M, a) /\ \A j \in Closings(M, a) : j <= n + 1
        BY <3>1, <2>6, <2>9
      <4>2. Last(v.closings[a]) = e.payload /\ v.closings[a] # <<>>
        BY <3>2, <2>4 DEF Last
      <4>. QED
        BY <4>1, <4>2, <2>1
    <3>6. Latest(v, a) = IF IsRecorded(e.payload) THEN e.payload ELSE Latest(w, a)
      BY <1>1, <3>2, LatestAppend DEF v, w
    <3>7. IF RecordedIn(M, a) = {} THEN Latest(v, a) = Empty
          ELSE \E i \in RecordedIn(M, a) : /\ \A j \in RecordedIn(M, a) : j <= i
                                          /\ Latest(v, a) = M[i].payload
      <4>1. CASE IsRecorded(e.payload)
        <5>1. RecordedIn(M, a) = R \cup {n + 1}
          BY <2>1, <2>7, <4>1
        <5>2. n + 1 \in RecordedIn(M, a) /\ \A j \in RecordedIn(M, a) : j <= n + 1
          BY <5>1, <2>6, <2>9
        <5>3. Latest(v, a) = M[n + 1].payload
          BY <3>6, <4>1, <2>1
        <5>. QED
          BY <5>2, <5>3
      <4>2. CASE ~IsRecorded(e.payload)
        <5>1. RecordedIn(M, a) = R /\ Latest(v, a) = Latest(w, a)
          BY <2>1, <3>6, <4>2
        <5>. QED
          BY <5>1, <2>3, <2>6
      <4>. QED
        BY <4>1, <4>2
    <3>. QED
      BY <3>3, <3>4, <3>5, <3>7 DEF ClosedByLast, NoClosingLost, LatestFollows, LastFollows, v
  <2>8. CASE ~(IsClosing(e) /\ e.area = a)
    <3>1. Closings(M, a) = C /\ RecordedIn(M, a) = R /\ v.closings[a] = w.closings[a]
      BY <2>1, <2>5, <2>8
    <3>2. Latest(v, a) = Latest(w, a)
      BY <3>1 DEF Latest, Recorded
    <3>3. NoClosingLost(M, a)
      BY <3>1, <2>3 DEF NoClosingLost, v
    <3>4. LatestFollows(M, a)
      BY <3>1, <3>2, <2>3, <2>6 DEF LatestFollows, v
    <3>5. LastFollows(M, a)
      BY <3>1, <2>3, <2>6 DEF LastFollows, v
    <3>6. ClosedByLast(M, a)
      <4>1. CASE e.type = "reopen" /\ e.area = a
        <5>1. n + 1 \in Phases(M, a) /\ M[n + 1] = e /\ ~IsClosing(e)
          BY <2>1, <2>8, <4>1
        <5>2. v.latest[a] # "closed"
          BY <2>5, <4>1
        <5>3. ASSUME NEW i \in Phases(M, a), IsClosing(M[i]), \A j \in Phases(M, a) : j <= i
              PROVE  FALSE
          <6>1. i \in P
            BY <5>1, <5>3, <2>1
          <6>2. i \in Nat /\ i <= n /\ n + 1 <= i
            BY <6>1, <2>6, <5>1, <5>3
          <6>. QED
            BY <6>2, <2>1
        <5>. QED
          BY <5>2, <5>3 DEF ClosedByLast, v
      <4>2. CASE ~(e.type = "reopen" /\ e.area = a)
        <5>1. Phases(M, a) = P /\ v.latest[a] = w.latest[a]
          BY <2>1, <2>5, <2>8, <4>2
        <5>2. \A i \in P : M[i] = L[i]
          BY <2>6
        <5>. QED
          BY <5>1, <5>2, <2>3 DEF ClosedByLast, v
      <4>. QED
        BY <4>1, <4>2
    <3>. QED
      BY <3>3, <3>4, <3>5, <3>6
  <2>. QED
    BY <2>7, <2>8
<1>. QED
  BY <1>1, <1>2 DEF LogFacts

\* Of every log there can be, torn batches included: an area is closed iff its last
\* phase event closed it, no closing is lost, and what is shown is the last closing with
\* a result (fold.ts:622-634; closed-areas.ts:49-59).  The least prefix of which this
\* is false would have to be the next of one of which it is true.
THEOREM FactsOfEveryLog ==
  ASSUME NEW L \in Seq(Event)
  PROVE  LogFacts(L)
<1>. DEFINE Bad == {n \in 0..Len(L) : ~LogFacts(SubSeq(L, 1, n))}
<1>0. Len(L) \in Nat /\ SubSeq(L, 1, 0) = <<>> /\ SubSeq(L, 1, Len(L)) = L
  OBVIOUS
<1>1. ASSUME Bad # {} PROVE FALSE
  <2>1. Bad \subseteq Nat
    OBVIOUS
  <2>2. PICK m \in Bad : \A k \in Bad : m <= k
    <3>. HIDE DEF Bad
    <3>. QED
      BY <1>1, <2>1, Least
  <2>3. m \in 0..Len(L) /\ ~LogFacts(SubSeq(L, 1, m))
    OBVIOUS
  <2>4. m # 0
    BY <2>3, <1>0, LogFactsEmpty
  <2>5. m - 1 \in 0..Len(L) /\ ~(m <= m - 1) /\ m \in 1..Len(L)
    BY <2>3, <2>4
  <2>6. LogFacts(SubSeq(L, 1, m - 1))
    BY <2>2, <2>5
  <2>7. SubSeq(L, 1, m) = Append(SubSeq(L, 1, m - 1), L[m]) /\ L[m] \in Event
        /\ SubSeq(L, 1, m - 1) \in Seq(Event)
    BY <2>5
  <2>. QED
    BY <2>3, <2>6, <2>7, LogFactsAppend
<1>. HIDE DEF Bad
<1>2. Len(L) \notin Bad /\ Len(L) \in 0..Len(L)
  BY <1>0, <1>1
<1>. QED
  BY <1>0, <1>2 DEF Bad

(***************************************************************************)
(* A batch that is filled derives to the worlds it was filled from.        *)
(***************************************************************************)
LEMMA FilledType ==
  ASSUME NEW w \in World, NEW ds \in Seq(Event)
  PROVE  /\ Filled(w, ds) \in Seq(Event)
         /\ Len(Filled(w, ds)) = Len(ds)
         /\ \A i \in 1..Len(ds) :
              Filled(w, ds)[i] = Fill(WorldAfter(w, ds, i - 1), ds[i])
<1>. DEFINE n == Len(ds)
<1>1. n \in Nat /\ \A i \in 1..n : ds[i] \in Event /\ i - 1 \in 0..n
  OBVIOUS
<1>2. ASSUME NEW i \in 1..n PROVE Fill(WorldAfter(w, ds, i - 1), ds[i]) \in Event
  BY <1>1, WorldAfterType, FillType
<1>3. Filled(w, ds) = [i \in 1..n |-> Fill(WorldAfter(w, ds, i - 1), ds[i])]
  BY DEF Filled
<1>. HIDE DEF n
<1>4. Filled(w, ds) \in [1..n -> Event]
  BY <1>2, <1>3
<1>. QED
  BY <1>1, <1>3, <1>4 DEF n

LEMMA AppendRight ==
  ASSUME NEW L \in Seq(Event), NEW s \in Seq(Event), NEW e \in Event
  PROVE  L \o Append(s, e) = Append(L \o s, e)
OBVIOUS

LEMMA DeriveFilled ==
  ASSUME NEW L \in Seq(Event), NEW ds \in Seq(Event), NEW n \in 0..Len(ds)
  PROVE  Derive(L \o SubSeq(Filled(Derive(L), ds), 1, n)) = WorldAfter(Derive(L), ds, n)
<1>. DEFINE w == Derive(L)
            es == Filled(w, ds)
            Bad == {k \in 0..Len(ds) : Derive(L \o SubSeq(es, 1, k)) # WorldAfter(w, ds, k)}
<1>0. w \in World
  BY FactsOfEveryLog DEF LogFacts
<1>. HIDE DEF w
<1>1. es \in Seq(Event) /\ Len(es) = Len(ds) /\ Len(ds) \in Nat
      /\ \A i \in 1..Len(ds) : es[i] = Fill(WorldAfter(w, ds, i - 1), ds[i])
  BY <1>0, FilledType
<1>. HIDE DEF es
<1>2. ASSUME Bad # {} PROVE FALSE
  <2>1. Bad \subseteq Nat
    OBVIOUS
  <2>2. PICK m \in Bad : \A k \in Bad : m <= k
    <3>. HIDE DEF Bad
    <3>. QED
      BY <1>2, <2>1, Least
  <2>3. m \in 0..Len(ds) /\ Derive(L \o SubSeq(es, 1, m)) # WorldAfter(w, ds, m)
    OBVIOUS
  <2>4. m # 0
    <3>1. L \o SubSeq(es, 1, 0) = L
      BY <1>1
    <3>. QED
      BY <2>3, <3>1, WorldStart DEF w
  <2>. DEFINE k == m - 1
  <2>5. k \in 0..Len(ds) /\ k \in Nat /\ k + 1 = m /\ ~(m <= k) /\ m \in 1..Len(ds) /\ k = m - 1
    BY <2>3, <2>4
  <2>6. Derive(L \o SubSeq(es, 1, k)) = WorldAfter(w, ds, k)
    BY <2>2, <2>5
  <2>. HIDE DEF Bad, k
  <2>7. L \o SubSeq(es, 1, m) = Append(L \o SubSeq(es, 1, k), es[m])
    <3>1. SubSeq(es, 1, m) = Append(SubSeq(es, 1, k), es[m])
      BY <1>1, <2>5
    <3>2. SubSeq(es, 1, k) \in Seq(Event) /\ es[m] \in Event
      BY <1>1, <2>5
    <3>3. L \o Append(SubSeq(es, 1, k), es[m]) = Append(L \o SubSeq(es, 1, k), es[m])
      BY <1>1, <3>2, AppendRight, Zenon
    <3>. QED
      BY <3>1, <3>3, Zenon
  <2>8. L \o SubSeq(es, 1, k) \in Seq(Event) /\ es[m] \in Event
    BY <1>1, <2>5
  <2>9. Derive(L \o SubSeq(es, 1, m)) = FoldEvent(WorldAfter(w, ds, k), es[m])
    BY <2>6, <2>7, <2>8, DeriveAppend
  <2>10. WorldAfter(w, ds, m) = FoldEvent(WorldAfter(w, ds, k), Fill(WorldAfter(w, ds, k), ds[m]))
    BY <2>5, WorldStep
  <2>11. es[m] = Fill(WorldAfter(w, ds, k), ds[m])
    BY <1>1, <2>5
  <2>. QED
    BY <2>3, <2>9, <2>10, <2>11
<1>. QED
  BY <1>2 DEF w, es

(***************************************************************************)
(* The invariant.                                                          *)
(***************************************************************************)
Types ==
  /\ log \in Seq(Event)
  /\ pc \in [Request -> {"idle", "staged", "checking", "appending"}]
  /\ base \in [Request -> Nat]
  /\ drafts \in [Request -> Batch \cup {<<>>}]
  /\ events \in [Request -> Seq(Event)]
  /\ answer \in [Request -> {"none", "ok", "stale_head", "refused"}]

\* What is in the log has the result the Worker filled in.
LogIsFilled == \A i \in 1..Len(log) : IsClosing(log[i]) => log[i].payload # Empty

PagesLag == \A r \in Request : base[r] <= Len(log)

Running ==
  \A r \in Request : pc[r] # "idle" => drafts[r] \in Batch /\ answer[r] = "none"

\* What is about to be written is what was filled and accepted in the world of
\* the head the page gave, whatever has been appended since.
FilledFromBase ==
  \A r \in Request : pc[r] \in {"checking", "appending"} =>
    LET w == Derive(SubSeq(log, 1, base[r])) IN
    events[r] = Filled(w, drafts[r]) /\ Accepted(w, drafts[r])

IInv == Types /\ LogIsFilled /\ PagesLag /\ Running /\ FilledFromBase

LEMMA BatchIsEvents == \A b \in Batch \cup {<<>>} : b \in Seq(Event)
<1>1. <<>> \in Seq(Event)
  OBVIOUS
<1>. QED
  BY <1>1, BatchAssumption

LEMMA InitInv == Init => IInv
BY DEF Init, IInv, Types, LogIsFilled, PagesLag, Running, FilledFromBase

LEMMA LogPrefixes ==
  ASSUME NEW L \in Seq(Event), NEW s \in Seq(Event), NEW n \in Nat, n <= Len(L)
  PROVE  /\ L \o s \in Seq(Event) /\ n <= Len(L \o s)
         /\ SubSeq(L \o s, 1, n) = SubSeq(L, 1, n)
         /\ \A i \in 1..Len(L \o s) :
              \/ i \in 1..Len(L) /\ (L \o s)[i] = L[i]
              \/ i - Len(L) \in 1..Len(s) /\ (L \o s)[i] = s[i - Len(L)]
<1>1. /\ L \o s \in Seq(Event) /\ Len(L \o s) = Len(L) + Len(s)
      /\ Len(L) \in Nat /\ Len(s) \in Nat
  OBVIOUS
<1>2. \A i \in 1..Len(L) + Len(s) : i \notin 1..Len(L) => i - Len(L) \in 1..Len(s)
  BY <1>1
<1>3. \A i \in 1..Len(L) + Len(s) :
        (L \o s)[i] = IF i <= Len(L) THEN L[i] ELSE s[i - Len(L)]
  OBVIOUS
<1>4. SubSeq(L \o s, 1, n) = SubSeq(L, 1, n)
  <2>1. SubSeq(L \o s, 1, n) \in Seq(Event) /\ SubSeq(L, 1, n) \in Seq(Event)
        /\ Len(SubSeq(L \o s, 1, n)) = n /\ Len(SubSeq(L, 1, n)) = n
    BY <1>1
  <2>2. \A i \in 1..n : SubSeq(L \o s, 1, n)[i] = SubSeq(L, 1, n)[i]
    BY <1>1
  <2>. QED
    BY <2>1, <2>2, SeqEqual
<1>5. n <= Len(L \o s)
  BY <1>1
<1>6. \A i \in 1..Len(L \o s) :
        \/ i \in 1..Len(L) /\ (L \o s)[i] = L[i]
        \/ i - Len(L) \in 1..Len(s) /\ (L \o s)[i] = s[i - Len(L)]
  BY <1>1, <1>2, <1>3
<1>. QED
  BY <1>1, <1>4, <1>5, <1>6

\* Only a filled batch brings closings, whatever part of it is written.
LEMMA FilledRecorded ==
  ASSUME NEW w \in World, NEW ds \in Seq(Event), NEW i \in 1..Len(ds),
         IsClosing(Filled(w, ds)[i])
  PROVE  Filled(w, ds)[i].payload # Empty
<1>1. Filled(w, ds)[i] = Fill(WorldAfter(w, ds, i - 1), ds[i])
  BY FilledType
<1>2. i - 1 \in 0..Len(ds) /\ ds[i] \in Event
  OBVIOUS
<1>3. WorldAfter(w, ds, i - 1) \in World
  BY <1>2, WorldAfterType
<1>4. IsClosing(ds[i])
  BY <1>1, <1>2, <1>3, FillType DEF IsClosing
<1>. QED
  BY <1>1, <1>2, <1>3, <1>4, FillType, BoundAssumption

Fields ==
  /\ pc' \in [Request -> {"idle", "staged", "checking", "appending"}]
  /\ drafts' \in [Request -> Batch \cup {<<>>}]
  /\ events' \in [Request -> Seq(Event)]
  /\ answer' \in [Request -> {"none", "ok", "stale_head", "refused"}]

\* A request that does not end keeps what it has: the log may grow, as long as what
\* it grows by is filled.
LEMMA GrowInv ==
  ASSUME IInv, NEW s \in Seq(Event), log' = log \o s, UNCHANGED base, Fields,
         \A i \in 1..Len(s) : IsClosing(s[i]) => s[i].payload # Empty,
         \A r \in Request : pc'[r] # "idle" =>
           pc[r] # "idle" /\ drafts'[r] = drafts[r] /\ answer'[r] = answer[r],
         \A r \in Request : pc'[r] \in {"checking", "appending"} =>
           pc[r] \in {"checking", "appending"} /\ events'[r] = events[r]
  PROVE  IInv'
<1>1. log \in Seq(Event) /\ log' \in Seq(Event)
  BY DEF IInv, Types
<1>2. Types'
  BY <1>1 DEF IInv, Types, Fields
<1>3. LogIsFilled'
  <2>1. \A i \in 1..Len(log') :
          \/ i \in 1..Len(log) /\ log'[i] = log[i]
          \/ i - Len(log) \in 1..Len(s) /\ log'[i] = s[i - Len(log)]
    <3>1. 0 \in Nat /\ 0 <= Len(log)
      BY <1>1
    <3>. QED
      BY <1>1, <3>1, LogPrefixes
  <2>2. \A i \in 1..Len(log) : IsClosing(log[i]) => log[i].payload # Empty
    BY DEF IInv, LogIsFilled
  <2>3. ASSUME NEW i \in 1..Len(log'), IsClosing(log'[i]) PROVE log'[i].payload # Empty
    BY <2>1, <2>2, <2>3
  <2>. QED
    BY <2>3 DEF LogIsFilled, IsClosing
<1>4. ASSUME NEW r \in Request
      PROVE  base[r] <= Len(log') /\ SubSeq(log', 1, base[r]) = SubSeq(log, 1, base[r])
  <2>1. base[r] \in Nat /\ base[r] <= Len(log)
    BY DEF IInv, Types, PagesLag
  <2>. QED
    BY <1>1, <2>1, LogPrefixes
<1>5. PagesLag'
  BY <1>4 DEF PagesLag
<1>6. Running'
  BY DEF IInv, Running
<1>7. FilledFromBase'
  <2>1. ASSUME NEW r \in Request, pc'[r] \in {"checking", "appending"}
        PROVE  LET w == Derive(SubSeq(log', 1, base'[r])) IN
               events'[r] = Filled(w, drafts'[r]) /\ Accepted(w, drafts'[r])
    <3>1. pc[r] \in {"checking", "appending"} /\ events'[r] = events[r]
          /\ drafts'[r] = drafts[r]
      BY <2>1
    <3>2. SubSeq(log', 1, base'[r]) = SubSeq(log, 1, base[r])
      BY <1>4
    <3>3. LET w == Derive(SubSeq(log, 1, base[r])) IN
          events[r] = Filled(w, drafts[r]) /\ Accepted(w, drafts[r])
      BY <3>1 DEF IInv, FilledFromBase
    <3>. QED
      BY <3>1, <3>2, <3>3
  <2>. QED
    BY <2>1 DEF FilledFromBase
<1>. QED
  BY <1>2, <1>3, <1>5, <1>6, <1>7 DEF IInv

LEMMA AnswerGrows ==
  ASSUME IInv, NEW r \in Request, NEW a \in {"ok", "stale_head", "refused"}, Answer(r, a),
         NEW s \in Seq(Event), log' = log \o s, UNCHANGED base,
         \A i \in 1..Len(s) : IsClosing(s[i]) => s[i].payload # Empty
  PROVE  IInv'
<1>1. /\ pc' = [pc EXCEPT ![r] = "idle"] /\ answer' = [answer EXCEPT ![r] = a]
      /\ drafts' = [drafts EXCEPT ![r] = <<>>] /\ events' = [events EXCEPT ![r] = <<>>]
  BY DEF Answer, Goto
<1>2. Types
  BY DEF IInv
<1>3. Fields
  <2>1. pc' \in [Request -> {"idle", "staged", "checking", "appending"}]
    BY <1>1, <1>2 DEF Types
  <2>2. drafts' \in [Request -> Batch \cup {<<>>}]
    BY <1>1, <1>2 DEF Types
  <2>3. events' \in [Request -> Seq(Event)]
    BY <1>1, <1>2 DEF Types
  <2>4. answer' \in [Request -> {"none", "ok", "stale_head", "refused"}]
    BY <1>1, <1>2 DEF Types
  <2>. QED
    BY <2>1, <2>2, <2>3, <2>4 DEF Fields
<1>4. pc'[r] = "idle"
      /\ \A q \in Request \ {r} : /\ pc'[q] = pc[q] /\ drafts'[q] = drafts[q]
                                 /\ events'[q] = events[q] /\ answer'[q] = answer[q]
  BY <1>1, <1>2 DEF Types
<1>5. \A q \in Request : pc'[q] # "idle" =>
         pc[q] # "idle" /\ drafts'[q] = drafts[q] /\ answer'[q] = answer[q]
  BY <1>4
<1>6. \A q \in Request : pc'[q] \in {"checking", "appending"} =>
         pc[q] \in {"checking", "appending"} /\ events'[q] = events[q]
  BY <1>4
<1>. QED
  BY <1>3, <1>5, <1>6, GrowInv

LEMMA AnswerInv ==
  ASSUME IInv, NEW r \in Request, NEW a \in {"ok", "stale_head", "refused"}, Answer(r, a),
         UNCHANGED <<log, base>>
  PROVE  IInv'
<1>1. <<>> \in Seq(Event) /\ log \o <<>> = log /\ Len(<<>>) = 0
  BY DEF IInv, Types
<1>2. \A i \in 1..Len(<<>>) : IsClosing(<<>>[i]) => <<>>[i].payload # Empty
  BY <1>1
<1>. QED
  BY <1>1, <1>2, AnswerGrows

LEMMA StageInv ==
  ASSUME IInv, NEW r \in Request, Stage(r)
  PROVE  IInv'
<1>1. PICK b \in Batch : drafts' = [drafts EXCEPT ![r] = b]
  BY DEF Stage
<1>2. /\ pc' = [pc EXCEPT ![r] = "staged"] /\ answer' = [answer EXCEPT ![r] = "none"]
      /\ base' = [base EXCEPT ![r] = Len(log)] /\ UNCHANGED <<log, events>>
  BY DEF Stage, Goto
<1>3. Types /\ Len(log) \in Nat
  BY DEF IInv, Types
<1>4. Types'
  <2>1. pc' \in [Request -> {"idle", "staged", "checking", "appending"}]
    BY <1>2, <1>3 DEF Types
  <2>2. drafts' \in [Request -> Batch \cup {<<>>}]
    BY <1>1, <1>3 DEF Types
  <2>3. base' \in [Request -> Nat]
    BY <1>2, <1>3 DEF Types
  <2>4. answer' \in [Request -> {"none", "ok", "stale_head", "refused"}]
    BY <1>2, <1>3 DEF Types
  <2>. QED
    BY <1>2, <1>3, <2>1, <2>2, <2>3, <2>4 DEF Types
<1>5. /\ pc'[r] = "staged" /\ drafts'[r] = b /\ base'[r] = Len(log) /\ answer'[r] = "none"
      /\ \A q \in Request \ {r} : /\ pc'[q] = pc[q] /\ drafts'[q] = drafts[q]
                                 /\ base'[q] = base[q] /\ answer'[q] = answer[q]
  BY <1>1, <1>2, <1>3 DEF Types
<1>6. LogIsFilled'
  BY <1>2 DEF IInv, LogIsFilled
<1>7. PagesLag'
  BY <1>2, <1>3, <1>5 DEF IInv, PagesLag
<1>8. Running'
  BY <1>5 DEF IInv, Running
<1>9. FilledFromBase'
  BY <1>2, <1>5 DEF IInv, FilledFromBase
<1>. QED
  BY <1>4, <1>6, <1>7, <1>8, <1>9 DEF IInv

LEMMA ApplyInv ==
  ASSUME IInv, NEW r \in Request, Apply(r)
  PROVE  IInv'
<1>1. UNCHANGED <<log, base>> /\ pc[r] = "staged"
  BY DEF Apply
<1>2. CASE Answer(r, "stale_head") \/ Answer(r, "refused")
  BY <1>1, <1>2, AnswerInv
<1>3. CASE ~(Answer(r, "stale_head") \/ Answer(r, "refused"))
  <2>. DEFINE w == Derive(log)
  <2>1. /\ base[r] = Len(log) /\ Accepted(w, drafts[r])
        /\ events' = [events EXCEPT ![r] = Filled(w, drafts[r])]
        /\ pc' = [pc EXCEPT ![r] = "checking"] /\ UNCHANGED <<drafts, answer>>
    BY <1>3 DEF Apply, HeadKnown, Goto
  <2>2. Types /\ w \in World
    BY FactsOfEveryLog DEF IInv, Types, LogFacts
  <2>3. drafts[r] \in Seq(Event)
    BY <2>2, BatchIsEvents DEF Types
  <2>. HIDE DEF w
  <2>4. Filled(w, drafts[r]) \in Seq(Event)
    BY <2>2, <2>3, FilledType
  <2>5. Types'
    <3>1. pc' \in [Request -> {"idle", "staged", "checking", "appending"}]
      BY <2>1, <2>2 DEF Types
    <3>2. events' \in [Request -> Seq(Event)]
      BY <2>1, <2>2, <2>4 DEF Types
    <3>. QED
      BY <1>1, <2>1, <2>2, <3>1, <3>2 DEF Types
  <2>6. /\ pc'[r] = "checking" /\ events'[r] = Filled(w, drafts[r])
        /\ \A q \in Request \ {r} : pc'[q] = pc[q] /\ events'[q] = events[q]
    BY <2>1, <2>2 DEF Types
  <2>7. SubSeq(log, 1, base[r]) = log
    BY <2>1, <2>2 DEF Types
  <2>8. LogIsFilled' /\ PagesLag'
    BY <1>1 DEF IInv, LogIsFilled, PagesLag
  <2>9. Running'
    BY <1>1, <2>1, <2>6 DEF IInv, Running
  <2>10. FilledFromBase'
    <3>1. ASSUME NEW q \in Request, pc'[q] \in {"checking", "appending"}
          PROVE  LET v == Derive(SubSeq(log', 1, base'[q])) IN
                 events'[q] = Filled(v, drafts'[q]) /\ Accepted(v, drafts'[q])
      <4>1. CASE q = r
        BY <1>1, <2>1, <2>6, <2>7, <4>1 DEF w
      <4>2. CASE q # r
        BY <1>1, <2>1, <2>6, <3>1, <4>2 DEF IInv, FilledFromBase
      <4>. QED
        BY <4>1, <4>2
    <3>. QED
      BY <3>1 DEF FilledFromBase
  <2>. QED
    BY <2>5, <2>8, <2>9, <2>10 DEF IInv
<1>. QED
  BY <1>2, <1>3

LEMMA CheckHeadInv ==
  ASSUME IInv, NEW r \in Request, CheckHead(r)
  PROVE  IInv'
<1>1. UNCHANGED <<log, base>> /\ pc[r] = "checking"
  BY DEF CheckHead
<1>2. CASE Answer(r, "stale_head")
  BY <1>1, <1>2, AnswerInv
<1>3. CASE ~Answer(r, "stale_head")
  <2>1. pc' = [pc EXCEPT ![r] = "appending"] /\ UNCHANGED <<drafts, events, answer>>
    BY <1>3 DEF CheckHead, Goto
  <2>2. Types
    BY DEF IInv
  <2>3. /\ pc' \in [Request -> {"idle", "staged", "checking", "appending"}]
        /\ pc'[r] = "appending" /\ \A q \in Request \ {r} : pc'[q] = pc[q]
    BY <2>1, <2>2 DEF Types
  <2>4. Fields
    BY <2>1, <2>2, <2>3 DEF Types, Fields
  <2>5. <<>> \in Seq(Event) /\ log \o <<>> = log' /\ Len(<<>>) = 0
    BY <1>1, <2>2 DEF Types
  <2>6. \A i \in 1..Len(<<>>) : IsClosing(<<>>[i]) => <<>>[i].payload # Empty
    BY <2>5
  <2>7. \A q \in Request : pc'[q] # "idle" =>
           pc[q] # "idle" /\ drafts'[q] = drafts[q] /\ answer'[q] = answer[q]
    BY <1>1, <2>1, <2>3
  <2>8. \A q \in Request : pc'[q] \in {"checking", "appending"} =>
           pc[q] \in {"checking", "appending"} /\ events'[q] = events[q]
    BY <1>1, <2>1, <2>3
  <2>. QED
    BY <1>1, <2>4, <2>5, <2>6, <2>7, <2>8, GrowInv
<1>. QED
  BY <1>2, <1>3

LEMMA WriteBatchInv ==
  ASSUME IInv, NEW r \in Request, WriteBatch(r)
  PROVE  IInv'
<1>. DEFINE late == Len(log) - base[r]
            es == events[r]
            s == SubSeq(es, late + 1, Len(es))
            w == Derive(SubSeq(log, 1, base[r]))
<1>1. /\ pc[r] = "appending" /\ log' = log \o s /\ UNCHANGED base
      /\ Answer(r, IF late = 0 THEN "ok" ELSE "stale_head")
  BY DEF WriteBatch
<1>2. /\ base[r] \in Nat /\ base[r] <= Len(log) /\ Len(log) \in Nat /\ es \in Seq(Event)
      /\ log \in Seq(Event) /\ SubSeq(log, 1, base[r]) \in Seq(Event)
      /\ drafts[r] \in Batch \cup {<<>>}
  BY DEF IInv, Types, PagesLag
<1>3. late \in Nat
  BY <1>2
<1>4. w \in World /\ drafts[r] \in Seq(Event)
  BY <1>2, FactsOfEveryLog, BatchIsEvents DEF LogFacts
<1>5. es = Filled(w, drafts[r])
  BY <1>1 DEF IInv, FilledFromBase
<1>6. Len(es) = Len(drafts[r])
  BY <1>4, <1>5, FilledType
<1>. HIDE DEF late, es, w
<1>7. s \in Seq(Event) /\ \A i \in 1..Len(s) : i + late \in 1..Len(es) /\ s[i] = es[i + late]
  BY <1>2, <1>3
<1>. HIDE DEF s
<1>8. \A i \in 1..Len(s) : IsClosing(s[i]) => s[i].payload # Empty
  BY <1>4, <1>5, <1>6, <1>7, FilledRecorded
<1>. QED
  BY <1>1, <1>7, <1>8, AnswerGrows

LEMMA AppendEventInv ==
  ASSUME IInv, NEW e \in Edit \cup Open \cup Reopen, AppendEvent(e)
  PROVE  IInv'
<1>1. log' = Append(log, e) /\ UNCHANGED <<pc, base, drafts, events, answer>>
  BY DEF AppendEvent
<1>2. e \in Event /\ ~IsClosing(e)
  BY DEF Event, Edit, Open, Reopen, IsClosing
<1>3. Types
  BY DEF IInv
<1>4. log' = log \o <<e>> /\ <<e>> \in Seq(Event)
  BY <1>1, <1>2, <1>3 DEF Types
<1>5. \A i \in 1..Len(<<e>>) : IsClosing(<<e>>[i]) => <<e>>[i].payload # Empty
  BY <1>2
<1>6. Fields
  BY <1>1, <1>3 DEF Types, Fields
<1>. QED
  BY <1>1, <1>4, <1>5, <1>6, GrowInv

LEMMA NextInv ==
  ASSUME IInv, [Next]_vars
  PROVE  IInv'
<1>1. ASSUME NEW r \in Request, Stage(r) \/ Apply(r) \/ CheckHead(r) \/ WriteBatch(r)
      PROVE  IInv'
  BY <1>1, StageInv, ApplyInv, CheckHeadInv, WriteBatchInv
<1>2. ASSUME NEW e \in Edit \cup Open \cup Reopen, AppendEvent(e)
      PROVE  IInv'
  BY <1>2, AppendEventInv
<1>3. CASE UNCHANGED vars
  BY <1>3 DEF vars, IInv, Types, LogIsFilled, PagesLag, Running, FilledFromBase
<1>. QED
  BY <1>1, <1>2, <1>3 DEF Next

\* What a request is about to write was filled in the world of its page's head, and the
\* log holds no closing without a result (closing.ts:56-133, worker/index.ts:293-363).
THEOREM Invariant == Spec => []IInv
<1>. QED
  BY InitInv, NextInv, PTL DEF Spec

\* Whatever was written in which order, the phase facts are those of the log.
THEOREM FactsFollow == Spec => []FactsFollowLog
<1>1. ASSUME IInv PROVE FactsFollowLog
  <2>1. LogFacts(log)
    BY <1>1, FactsOfEveryLog DEF IInv, Types
  <2>2. ASSUME NEW a \in Area
        PROVE  /\ (Derive(log).latest[a] = "closed") <=>
                    \E i \in OfArea(a) : IsClosing(log[i]) /\ \A j \in OfArea(a) : j <= i
               /\ Len(Derive(log).closings[a]) =
                    Cardinality({i \in OfArea(a) : IsClosing(log[i])})
    <3>1. OfArea(a) = Phases(log, a)
      BY DEF OfArea, Phases
    <3>2. {i \in OfArea(a) : IsClosing(log[i])} = Closings(log, a)
      BY DEF OfArea, Closings
    <3>3. ClosedByLast(log, a) /\ NoClosingLost(log, a)
      BY <2>1 DEF LogFacts
    <3>. QED
      BY <3>1, <3>2, <3>3 DEF ClosedByLast, NoClosingLost
  <2>. QED
    BY <2>2 DEF FactsFollowLog
<1>. QED
  BY <1>1, Invariant, PTL

\* Of a log and drafts that have no result yet, the recorded closings are the log's.
LEMMA StagedClosings ==
  ASSUME NEW L \in Seq(Event), NEW s \in Seq(Event), NEW a \in Area,
         \A i \in 1..Len(L) : IsClosing(L[i]) => L[i].payload # Empty,
         \A i \in 1..Len(s) : IsClosing(s[i]) => s[i].payload = Empty
  PROVE  /\ Closings(L, a) = {} => Latest(Derive(L \o s), a) = Empty
         /\ Closings(L, a) # {} =>
              \E i \in Closings(L, a) : /\ \A j \in Closings(L, a) : j <= i
                                        /\ Latest(Derive(L \o s), a) = L[i].payload
         /\ Pending(Derive(L \o s), a) <=> \E i \in 1..Len(s) : IsClosing(s[i]) /\ s[i].area = a
<1>. DEFINE n == Len(L)
            M == L \o s
            C == Closings(L, a)
            D == Closings(M, a)
<1>1. /\ M \in Seq(Event) /\ n \in Nat /\ Len(s) \in Nat /\ Len(M) = n + Len(s)
      /\ (\A i \in 1..n : i \in 1..Len(M) /\ M[i] = L[i])
      /\ \A i \in 1..Len(M) :
           \/ i \in 1..n /\ M[i] = L[i]
           \/ i - n \in 1..Len(s) /\ M[i] = s[i - n]
  <2>1. 0 \in Nat /\ 0 <= Len(L)
    OBVIOUS
  <2>. QED
    BY <2>1, LogPrefixes
<1>2. \A k \in 1..Len(s) : n + k \in 1..Len(M) /\ M[n + k] = s[k]
  OBVIOUS
<1>3. C = {i \in 1..n : IsClosing(L[i]) /\ L[i].area = a}
      /\ D = {i \in 1..Len(M) : IsClosing(M[i]) /\ M[i].area = a}
  BY DEF Closings
<1>4. LatestFollows(M, a) /\ LastFollows(M, a)
  BY <1>1, FactsOfEveryLog DEF LogFacts
<1>. HIDE DEF n, M, C, D
<1>5. RecordedIn(M, a) = C
  <2>1. RecordedIn(M, a) = {i \in D : M[i].payload # Empty}
    BY DEF RecordedIn, IsRecorded, D
  <2>2. ASSUME NEW i \in C PROVE i \in D /\ M[i].payload # Empty
    BY <1>1, <1>3 DEF n
  <2>3. ASSUME NEW i \in D, M[i].payload # Empty PROVE i \in C
    BY ZenonT(30), <1>1, <1>3, <2>3
  <2>. QED
    BY <2>1, <2>2, <2>3
<1>6. /\ C = {} => Latest(Derive(M), a) = Empty
      /\ C # {} => \E i \in C : (\A j \in C : j <= i) /\ Latest(Derive(M), a) = L[i].payload
  <2>1. \A i \in C : M[i] = L[i]
    BY <1>1, <1>3
  <2>. QED
    BY <1>4, <1>5, <2>1 DEF LatestFollows
<1>7. Pending(Derive(M), a) <=> \E i \in 1..Len(s) : IsClosing(s[i]) /\ s[i].area = a
  <2>. DEFINE c == Derive(M).closings[a]
  <2>1. Pending(Derive(M), a) <=> c # <<>> /\ Last(c) = Empty
    BY DEF Pending, IsRecorded
  <2>2. CASE D = {}
    <3>1. c = <<>>
      BY <1>4, <2>2 DEF LastFollows, D
    <3>2. \A k \in 1..Len(s) : ~(IsClosing(s[k]) /\ s[k].area = a)
      BY <1>2, <1>3, <2>2
    <3>. QED
      BY <2>1, <3>1, <3>2
  <2>3. CASE D # {}
    <3>1. PICK i \in D : (\A j \in D : j <= i) /\ Last(c) = M[i].payload
      BY <1>4, <2>3 DEF LastFollows, D
    <3>2. c # <<>>
      BY <1>4, <2>3 DEF LastFollows, D
    <3>. HIDE DEF c
    <3>3. i \in 1..Len(M) /\ IsClosing(M[i]) /\ M[i].area = a
      BY <1>3
    <3>4. CASE i \in 1..n /\ M[i] = L[i]
      <4>1. Last(c) # Empty
        BY <3>1, <3>3, <3>4 DEF n
      <4>2. ASSUME NEW k \in 1..Len(s), IsClosing(s[k]), s[k].area = a PROVE FALSE
        <5>1. n + k \in D
          BY <1>2, <1>3, <4>2
        <5>2. n + k <= i /\ i <= n /\ k >= 1 /\ k \in Nat
          BY <3>1, <3>4, <5>1, <1>1
        <5>. QED
          BY <5>2, <1>1, <3>4
      <4>. QED
        BY <2>1, <4>1, <4>2
    <3>5. CASE i - n \in 1..Len(s) /\ M[i] = s[i - n]
      <4>1. Last(c) = Empty /\ IsClosing(s[i - n]) /\ s[i - n].area = a
        BY <3>1, <3>3, <3>5
      <4>. QED
        BY <2>1, <3>2, <3>5, <4>1
    <3>. QED
      BY <1>1, <3>3, <3>4, <3>5
  <2>. QED
    BY <2>2, <2>3
<1>. QED
  BY <1>6, <1>7 DEF M, C

\* A page shows the latest recorded result of an area beside its own staged closing,
\* which it only calls pending (closed-areas.ts:49-59).
THEOREM ShownRecorded == Spec => []ShownIsRecorded
<1>1. ASSUME IInv PROVE ShownIsRecorded
  <2>1. ASSUME NEW r \in Request, NEW a \in Area, pc[r] = "staged",
               \A i \in 1..Len(drafts[r]) :
                 IsClosing(drafts[r][i]) => drafts[r][i].payload = Empty
        PROVE  LET recorded == {i \in OfArea(a) : IsClosing(log[i]) /\ i <= base[r]} IN
               /\ Latest(Projected(r), a) =
                    IF recorded = {} THEN Empty
                    ELSE log[CHOOSE i \in recorded : \A j \in recorded : j <= i].payload
               /\ Pending(Projected(r), a) <=>
                    \E i \in 1..Len(drafts[r]) :
                      IsClosing(drafts[r][i]) /\ drafts[r][i].area = a
    <3>. DEFINE L == SubSeq(log, 1, base[r])
                s == drafts[r]
                recorded == {i \in OfArea(a) : IsClosing(log[i]) /\ i <= base[r]}
    <3>1. /\ log \in Seq(Event) /\ base[r] \in Nat /\ base[r] <= Len(log)
          /\ drafts[r] \in Batch \cup {<<>>}
          /\ \A i \in 1..Len(log) : IsClosing(log[i]) => log[i].payload # Empty
      BY <1>1 DEF IInv, Types, PagesLag, LogIsFilled
    <3>2. s \in Seq(Event)
      BY <3>1, BatchIsEvents
    <3>3. /\ L \in Seq(Event) /\ Len(L) = base[r]
          /\ \A i \in 1..base[r] : i \in 1..Len(log) /\ L[i] = log[i]
      BY <3>1
    <3>4. \A i \in 1..Len(log) : i \in Nat /\ (i \in 1..base[r] <=> i <= base[r])
      BY <3>1
    <3>. HIDE DEF L
    <3>5. Closings(L, a) = recorded
      BY <3>1, <3>3, <3>4 DEF Closings, OfArea
    <3>6. \A i \in 1..Len(L) : IsClosing(L[i]) => L[i].payload # Empty
      BY <3>1, <3>3
    <3>7. Projected(r) = Derive(L \o s)
      BY DEF Projected, L
    <3>8. \A i \in 1..Len(s) : IsClosing(s[i]) => s[i].payload = Empty
      BY <2>1
    <3>. HIDE DEF s, recorded
    <3>9. /\ recorded = {} => Latest(Derive(L \o s), a) = Empty
          /\ recorded # {} =>
               \E i \in recorded : /\ \A j \in recorded : j <= i
                                   /\ Latest(Derive(L \o s), a) = L[i].payload
          /\ Pending(Derive(L \o s), a) <=> \E i \in 1..Len(s) : IsClosing(s[i]) /\ s[i].area = a
      BY <3>2, <3>3, <3>5, <3>6, <3>8, StagedClosings
    <3>10. recorded # {} => Latest(Derive(L \o s), a) =
             log[CHOOSE i \in recorded : \A j \in recorded : j <= i].payload
      <4>1. ASSUME recorded # {}
            PROVE  Latest(Derive(L \o s), a) =
                     log[CHOOSE i \in recorded : \A j \in recorded : j <= i].payload
        <5>1. PICK i \in recorded : /\ \A j \in recorded : j <= i
                                    /\ Latest(Derive(L \o s), a) = L[i].payload
          BY <3>9, <4>1
        <5>2. recorded \subseteq 1..base[r]
          BY <3>5, <3>3 DEF Closings
        <5>3. \A k \in recorded : (\A j \in recorded : j <= k) => k = i
          BY <3>1, <5>1, <5>2
        <5>4. (CHOOSE k \in recorded : \A j \in recorded : j <= k) = i
          BY <5>1, <5>3
        <5>5. L[i] = log[i]
          BY <3>3, <5>2
        <5>. QED
          BY <5>1, <5>4, <5>5
      <4>. QED
        BY <4>1
    <3>. QED
      BY <3>7, <3>9, <3>10 DEF s, recorded
  <2>. QED
    BY <2>1 DEF ShownIsRecorded
<1>. QED
  BY <1>1, Invariant, PTL

LEMMA PrefixOfConcat ==
  ASSUME NEW L \in Seq(Event), NEW s \in Seq(Event), NEW m \in 0..Len(s)
  PROVE  SubSeq(L \o s, 1, Len(L) + m) = L \o SubSeq(s, 1, m)
<1>. DEFINE n == Len(L) + m
            t == SubSeq(s, 1, m)
            A == SubSeq(L \o s, 1, n)
            B == L \o t
<1>1. L \o s \in Seq(Event) /\ Len(L \o s) = Len(L) + Len(s) /\ Len(L) \in Nat /\ Len(s) \in Nat
  OBVIOUS
<1>2. n \in 0..Len(L \o s)
  BY <1>1
<1>3. A \in Seq(Event) /\ Len(A) = n /\ \A j \in 1..n : A[j] = (L \o s)[j]
  <2>. HIDE DEF n
  <2>. QED
    BY <1>1, <1>2
<1>4. t \in Seq(Event) /\ Len(t) = m /\ \A j \in 1..m : t[j] = s[j]
  OBVIOUS
<1>5. B \in Seq(Event) /\ Len(B) = n
      /\ \A j \in 1..n : B[j] = IF j <= Len(L) THEN L[j] ELSE t[j - Len(L)]
  <2>. HIDE DEF t
  <2>1. /\ B \in Seq(Event) /\ Len(B) = Len(L) + Len(t)
        /\ \A j \in 1..Len(L) + Len(t) : B[j] = IF j <= Len(L) THEN L[j] ELSE t[j - Len(L)]
    BY <1>4
  <2>. QED
    BY <1>4, <2>1
<1>6. \A j \in 1..n : (L \o s)[j] = IF j <= Len(L) THEN L[j] ELSE s[j - Len(L)]
  BY <1>1, <1>2
<1>7. \A j \in 1..n : j <= Len(L) \/ j - Len(L) \in 1..m
  BY <1>1
<1>. HIDE DEF n, t, A, B
<1>8. \A j \in 1..n : A[j] = B[j]
  BY <1>3, <1>4, <1>5, <1>6, <1>7
<1>9. A = B
  BY <1>3, <1>5, <1>8, SeqEqual
<1>. QED
  BY <1>9 DEF A, B, n, t

\* The part of the batch that is written when it is not late is all of it.
LEMMA WrittenAsReviewed ==
  ASSUME IInv, NEW r \in Request, pc[r] = "appending", WriteBatch(r), Len(log) = base[r],
         NEW i \in (Len(log) + 1)..Len(log'), IsClosing(log'[i])
  PROVE  LET before == Derive(SubSeq(log', 1, i - 1))
             page   == WorldAfter(Derive(SubSeq(log, 1, base[r])), drafts[r], i - 1 - Len(log))
             area   == log'[i].area
         IN  /\ log'[i].payload = Result(before, area)
             /\ log'[i].payload = Result(page, area)
             /\ area \notin before.domain.blocked
             /\ area = "workshops" /\ before.domain.advisories # {} =>
                  i > 1 /\ log'[i - 1] = [type |-> "WorkshopWarningsAcknowledged",
                                          fingerprint |-> before.domain.advisories]
<1>. DEFINE n == Len(log)
            w == Derive(log)
            ds == drafts[r]
            es == events[r]
            k == i - n
            v == WorldAfter(w, ds, k - 1)
<1>1. /\ log \in Seq(Event) /\ n \in Nat /\ ds \in Seq(Event) /\ es \in Seq(Event)
      /\ SubSeq(log, 1, base[r]) = log
  <2>1. log \in Seq(Event) /\ ds \in Batch \cup {<<>>} /\ es \in Seq(Event)
    BY DEF IInv, Types
  <2>. QED
    BY <2>1, BatchIsEvents
<1>2. es = Filled(w, ds) /\ Accepted(w, ds)
  BY <1>1 DEF IInv, FilledFromBase
<1>3. log' = log \o es
  <2>1. log' = log \o SubSeq(es, (n - n) + 1, Len(es))
    BY DEF WriteBatch
  <2>2. SubSeq(es, (n - n) + 1, Len(es)) = es
    BY <1>1
  <2>. QED
    BY <2>1, <2>2
<1>4. w \in World
  BY <1>1, FactsOfEveryLog DEF LogFacts
<1>. HIDE DEF w, es, n, ds
<1>5. Len(es) = Len(ds) /\ Len(ds) \in Nat
  BY <1>1, <1>2, <1>4, FilledType
<1>6. /\ k \in 1..Len(ds) /\ k - 1 \in 0..Len(ds) /\ log'[i] = es[k] /\ i = n + k
      /\ (k > 1 => i - 1 > 0 /\ i > 1 /\ log'[i - 1] = es[k - 1] /\ k - 1 \in 1..Len(ds))
  <2>1. i \in (n + 1)..(n + Len(es)) /\ Len(log) = n
    BY <1>1, <1>3 DEF n
  <2>2. k \in 1..Len(ds) /\ k - 1 \in 0..Len(ds) /\ i = n + k
    BY <1>1, <1>5, <2>1
  <2>3. k > 1 => i - 1 > 0 /\ i > 1 /\ k - 1 \in 1..Len(ds) /\ i - 1 = n + (k - 1)
    BY <1>1, <1>5, <2>2
  <2>4. \A j \in 1..Len(es) : log'[n + j] = es[j]
    BY SMTT(30), <1>1, <1>3, <2>1
  <2>. HIDE DEF k
  <2>. QED
    BY <1>5, <2>2, <2>3, <2>4
<1>7. SubSeq(log', 1, i - 1) = log \o SubSeq(es, 1, k - 1)
  <2>1. i - 1 = n + (k - 1) /\ k - 1 \in 0..Len(es) /\ Len(log) = n
    BY SMTT(30), <1>1, <1>5, <1>6 DEF n
  <2>. DEFINE m == k - 1
  <2>2. i - 1 = Len(log) + m /\ m \in 0..Len(es)
    BY <2>1
  <2>. HIDE DEF m
  <2>3. SubSeq(log \o es, 1, Len(log) + m) = log \o SubSeq(es, 1, m)
    BY <1>1, <2>2, PrefixOfConcat
  <2>. QED
    BY <1>3, <2>2, <2>3 DEF m
<1>8. Derive(SubSeq(log', 1, i - 1)) = v
  <2>. DEFINE m == k - 1
  <2>1. m \in 0..Len(ds)
    BY <1>6
  <2>. HIDE DEF m
  <2>2. Derive(log \o SubSeq(Filled(Derive(log), ds), 1, m)) = WorldAfter(Derive(log), ds, m)
    BY <1>1, <2>1, DeriveFilled
  <2>. QED
    BY <1>2, <1>7, <2>2 DEF w, m
<1>9. WorldAfter(Derive(SubSeq(log, 1, base[r])), ds, i - 1 - n) = v
  <2>1. i - 1 - n = k - 1
    BY <1>1, <1>6
  <2>. QED
    BY <1>1, <2>1 DEF w
<1>10. v \in World
  BY <1>1, <1>4, <1>6, WorldAfterType
<1>11. es[k] = Fill(v, ds[k]) /\ ds[k] \in Event
  BY <1>1, <1>2, <1>4, <1>6, FilledType
<1>. HIDE DEF k, v
<1>12. IsClosing(ds[k])
  BY <1>6, <1>10, <1>11, FillType DEF IsClosing
<1>13. log'[i].payload = Result(v, log'[i].area) /\ log'[i].area = ds[k].area
  BY <1>6, <1>10, <1>11, <1>12, FillType DEF Result
<1>14. MayClose(v, ds, k)
  BY <1>2, <1>6, <1>12 DEF Accepted, v
<1>15. ASSUME ds[k].area = "workshops", v.domain.advisories # {}
       PROVE  i > 1 /\ log'[i - 1] = [type |-> "WorkshopWarningsAcknowledged",
                                       fingerprint |-> v.domain.advisories]
  <2>. DEFINE d == ds[k - 1]
  <2>1. /\ k > 1 /\ d.type = "WorkshopWarningsAcknowledged"
        /\ d.fingerprint = v.domain.advisories
    BY <1>14, <1>15 DEF MayClose, Acknowledged
  <2>2. i > 1 /\ log'[i - 1] = es[k - 1] /\ k - 1 \in 1..Len(ds)
    BY <1>6, <2>1
  <2>3. d \in Event
    BY <1>1, <2>2
  <2>4. d = [type |-> "WorkshopWarningsAcknowledged", fingerprint |-> v.domain.advisories]
    BY <2>1, <2>3, EventKinds DEF Acknowledge
  <2>5. es[k - 1] = Fill(WorldAfter(w, ds, k - 1 - 1), d) 
    BY <1>1, <1>2, <1>4, <2>2, FilledType
  <2>6. es[k - 1] = d
    BY <2>1, <2>5 DEF Fill, IsClosing
  <2>. QED
    BY <2>2, <2>4, <2>6
<1>. QED
  BY <1>8, <1>9, <1>13, <1>14, <1>15 DEF MayClose, n, ds

\* A closing that is answered with success records what was reviewed, in an area nothing
\* blocks, behind the acknowledgement of its advisories (closing.ts:67-130).
THEOREM Reviewed == Spec => ClosedAsReviewed
<1>. DEFINE Good == \A r \in Request :
       pc[r] = "appending" /\ answer'[r] = "ok" =>
         \A i \in (Len(log) + 1)..Len(log') : IsClosing(log'[i]) =>
           LET before == Derive(SubSeq(log', 1, i - 1))
               page   == WorldAfter(Derive(SubSeq(log, 1, base[r])), drafts[r], i - 1 - Len(log))
               area   == log'[i].area
           IN  /\ log'[i].payload = Result(before, area)
               /\ log'[i].payload = Result(page, area)
               /\ area \notin before.domain.blocked
               /\ area = "workshops" /\ before.domain.advisories # {} =>
                    i > 1 /\ log'[i - 1] = [type |-> "WorkshopWarningsAcknowledged",
                                            fingerprint |-> before.domain.advisories]
<1>1. ASSUME IInv, [Next]_vars PROVE [Good]_vars
  <2>1. ASSUME NEW r \in Request, pc[r] = "appending", answer'[r] = "ok"
        PROVE  WriteBatch(r) /\ Len(log) = base[r]
    <3>1. answer[r] = "none" /\ answer'[r] # answer[r]
      BY <1>1, <2>1 DEF IInv, Running
    <3>2. Types
      BY <1>1 DEF IInv
    <3>3. ASSUME NEW q \in Request, q # r, Stage(q) \/ Apply(q) \/ CheckHead(q) \/ WriteBatch(q)
          PROVE  answer'[r] = answer[r]
      BY <3>2, <3>3 DEF Types, Stage, Apply, CheckHead, WriteBatch, Answer
    <3>4. \A e : AppendEvent(e) => answer' = answer
      BY DEF AppendEvent
    <3>5. Stage(r) \/ Apply(r) \/ CheckHead(r) \/ WriteBatch(r)
      BY <1>1, <3>1, <3>3, <3>4 DEF Next, vars
    <3>6. WriteBatch(r)
      BY <2>1, <3>5 DEF Stage, Apply, CheckHead
    <3>7. answer' = [answer EXCEPT ![r] = IF Len(log) - base[r] = 0 THEN "ok" ELSE "stale_head"]
      BY <3>6 DEF WriteBatch, Answer
    <3>8. Len(log) - base[r] = 0
      BY <2>1, <3>2, <3>7 DEF Types
    <3>9. Len(log) \in Nat /\ base[r] \in Nat
      BY <3>2 DEF Types
    <3>. QED
      BY <3>6, <3>8, <3>9
  <2>2. Good
    BY <1>1, <2>1, WrittenAsReviewed
  <2>. QED
    BY <2>2
<1>. QED
  BY <1>1, Invariant, PTL DEF Spec, ClosedAsReviewed
=============================================================================
