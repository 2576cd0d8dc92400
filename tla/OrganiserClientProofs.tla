------------------------ MODULE OrganiserClientProofs ------------------------
(***************************************************************************)
(* Proofs about OrganiserClient, for any number of slots, any bounds and   *)
(* any fold.                                                               *)
(*                                                                         *)
(* The buffer is taken for the sequence of its events (Flat), of which     *)
(* removeDraftEvents leaves the rest (RemovedIsRest); both are recursive   *)
(* functions, and what they are is shown by the least counterexample       *)
(* (Least).  The page awaits one request at most, which carries the first  *)
(* groups of the buffer, and these nobody edits while it is away           *)
(* (SubmittedFirst): so what an acknowledgement takes out of the buffer is *)
(* what the request put into the table.  Where an event is in two places   *)
(* at once, the acknowledgement that ends this is on its way (OnceEach).   *)
(* An answer that was lost leaves a change in the table and in the buffer. *)
(* A request finds it in the table it was made on only when the organiser  *)
(* saved it again, as in immediate mode the page drafts nothing that it    *)
(* holds as committed, and a request made on less is refused (Told).       *)
(***************************************************************************)
EXTENDS OrganiserClient, FiniteSetTheorems, SequenceTheorems, WellFoundedInduction, TLAPS

-----------------------------------------------------------------------------
(***************************************************************************)
(* Induction by the least counterexample.                                  *)
(***************************************************************************)
Below == {p \in Nat \X Nat : p[1] < p[2]}

LEMMA Least ==
  ASSUME NEW S, S \subseteq Nat, S # {}
  PROVE  \E n \in S : \A m \in S : n <= m
<1>1. IsWellFoundedOn(Below, Nat)
  BY NatLessThanWellFounded DEF OpToRel, Below
<1>2. PICK n \in S : \A m \in S : ~ (<<m, n>> \in Below)
  BY <1>1, WFMin
<1>3. ASSUME NEW m \in S PROVE n <= m
  <2>1. m \in Nat /\ n \in Nat
    OBVIOUS
  <2>2. ~(m < n)
    BY <1>2, <2>1 DEF Below
  <2>. QED
    BY <2>1, <2>2
<1>. QED
  BY <1>3

(***************************************************************************)
(* The two folds over the groups exist, and go on one group at a time.     *)
(***************************************************************************)

Flattening(f, gs, N) ==
  f = [n \in 0..N |-> IF n = 0 THEN <<>> ELSE f[n - 1] \o gs[n].events]

LEMMA FlatteningExists ==
  ASSUME NEW gs, NEW N \in Nat
  PROVE  \E f : Flattening(f, gs, N)
<1>. DEFINE Bad == {m \in Nat : ~ \E f : Flattening(f, gs, m)}
<1>. SUFFICES ASSUME Bad # {} PROVE FALSE
  OBVIOUS
<1>1. PICK m \in Bad : \A k \in Bad : m <= k
  <2>. HIDE DEF Bad
  <2>1. Bad \subseteq Nat
    BY DEF Bad
  <2>. QED
    BY <2>1, Least
<1>2. m # 0
  <2>. DEFINE f == [n \in 0..0 |-> <<>>]
  <2>1. f = [n \in 0..0 |-> IF n = 0 THEN <<>> ELSE f[n - 1] \o gs[n].events]
    OBVIOUS
  <2>. HIDE DEF f
  <2>2. Flattening(f, gs, 0)
    BY <2>1 DEF Flattening
  <2>. QED
    BY <2>2
<1>3. m - 1 \in Nat /\ m - 1 \notin Bad
  <2>. HIDE DEF Bad
  <2>1. m \in Nat
    BY DEF Bad
  <2>. QED
    BY <1>1, <1>2, <2>1
<1>4. PICK f : Flattening(f, gs, m - 1)
  BY <1>3
<1>. DEFINE g == [n \in 0..m |-> IF n = m THEN f[m - 1] \o gs[m].events ELSE f[n]]
<1>. HIDE DEF Bad
<1>5. m \in Nat
  BY DEF Bad
<1>6. ASSUME NEW n \in 0..m
      PROVE  g[n] = IF n = 0 THEN <<>> ELSE g[n - 1] \o gs[n].events
  <2>1. CASE n = m
    <3>1. g[n] = f[m - 1] \o gs[m].events /\ g[m - 1] = f[m - 1]
      BY <2>1, <1>2, <1>5
    <3>. HIDE DEF g
    <3>. QED
      BY <3>1, <2>1, <1>2
  <2>2. CASE n # m
    <3>1. g[n] = f[n] /\ n \in 0..(m - 1) /\ (n # 0 => g[n - 1] = f[n - 1])
      BY <2>2, <1>5, <1>2
    <3>2. f[n] = IF n = 0 THEN <<>> ELSE f[n - 1] \o gs[n].events
      BY <1>4, <3>1 DEF Flattening
    <3>. HIDE DEF g
    <3>. QED
      BY <3>1, <3>2
  <2>. QED
    BY <2>1, <2>2
<1>7. g = [n \in 0..m |-> IF n = 0 THEN <<>> ELSE g[n - 1] \o gs[n].events]
  <2>1. g = [n \in 0..m |-> g[n]]
    OBVIOUS
  <2>. HIDE DEF g
  <2>. QED
    BY <2>1, <1>6
<1>8. Flattening(g, gs, m)
  <2>. HIDE DEF g
  <2>. QED
    BY <1>7 DEF Flattening
<1>. QED
  BY <1>8 DEF Bad

LEMMA FlatteningPrefix ==
  ASSUME NEW gs, NEW hs, NEW N \in Nat, NEW M \in Nat, NEW f, NEW g,
         Flattening(f, gs, N), Flattening(g, hs, M), N <= M,
         \A i \in 1..N : gs[i] = hs[i]
  PROVE  f[N] = g[N]
<1>. DEFINE Bad == {k \in 0..N : f[k] # g[k]}
<1>. SUFFICES ASSUME Bad # {} PROVE FALSE
  OBVIOUS
<1>0. Bad \subseteq Nat
  OBVIOUS
<1>1. PICK m \in Bad : \A k \in Bad : m <= k
  <2>. HIDE DEF Bad
  <2>. QED
    BY <1>0, Least
<1>2. m \in 0..N /\ f[m] # g[m] /\ m \in 0..M
  OBVIOUS
<1>3. f[m] = IF m = 0 THEN <<>> ELSE f[m - 1] \o gs[m].events
  BY <1>2 DEF Flattening
<1>4. g[m] = IF m = 0 THEN <<>> ELSE g[m - 1] \o hs[m].events
  BY <1>2 DEF Flattening
<1>5. m # 0
  BY <1>2, <1>3, <1>4
<1>6. m - 1 \in 0..N /\ m - 1 \notin Bad /\ m \in 1..N
  <2>1. m - 1 \in 0..N /\ m \in 1..N /\ ~(m <= m - 1)
    BY <1>2, <1>5
  <2>. HIDE DEF Bad
  <2>. QED
    BY <2>1, <1>1
<1>7. f[m - 1] = g[m - 1] /\ gs[m] = hs[m]
  BY <1>6
<1>. QED
  BY <1>2, <1>3, <1>4, <1>5, <1>7

Taking(f, count, gs, N) ==
  f = [n \in 0..N |-> IF n = 0 THEN [remaining |-> count, result |-> <<>>] ELSE TakeEvents(f[n - 1], gs[n])]

LEMMA TakingExists ==
  ASSUME NEW count, NEW gs, NEW N \in Nat
  PROVE  \E f : Taking(f, count, gs, N)
<1>. DEFINE Bad == {m \in Nat : ~ \E f : Taking(f, count, gs, m)}
<1>. SUFFICES ASSUME Bad # {} PROVE FALSE
  OBVIOUS
<1>1. PICK m \in Bad : \A k \in Bad : m <= k
  <2>. HIDE DEF Bad
  <2>1. Bad \subseteq Nat
    BY DEF Bad
  <2>. QED
    BY <2>1, Least
<1>2. m # 0
  <2>. DEFINE f == [n \in 0..0 |-> [remaining |-> count, result |-> <<>>]]
  <2>1. f = [n \in 0..0 |-> IF n = 0 THEN [remaining |-> count, result |-> <<>>] ELSE TakeEvents(f[n - 1], gs[n])]
    OBVIOUS
  <2>. HIDE DEF f
  <2>2. Taking(f, count, gs, 0)
    BY <2>1 DEF Taking
  <2>. QED
    BY <2>2
<1>3. m - 1 \in Nat /\ m - 1 \notin Bad
  <2>. HIDE DEF Bad
  <2>1. m \in Nat
    BY DEF Bad
  <2>. QED
    BY <1>1, <1>2, <2>1
<1>4. PICK f : Taking(f, count, gs, m - 1)
  BY <1>3
<1>. DEFINE g == [n \in 0..m |-> IF n = m THEN TakeEvents(f[m - 1], gs[m]) ELSE f[n]]
<1>. HIDE DEF Bad
<1>5. m \in Nat
  BY DEF Bad
<1>6. ASSUME NEW n \in 0..m
      PROVE  g[n] = IF n = 0 THEN [remaining |-> count, result |-> <<>>] ELSE TakeEvents(g[n - 1], gs[n])
  <2>1. CASE n = m
    <3>1. g[n] = TakeEvents(f[m - 1], gs[m]) /\ g[m - 1] = f[m - 1]
      BY <2>1, <1>2, <1>5
    <3>. HIDE DEF g
    <3>. QED
      BY <3>1, <2>1, <1>2
  <2>2. CASE n # m
    <3>1. g[n] = f[n] /\ n \in 0..(m - 1) /\ (n # 0 => g[n - 1] = f[n - 1])
      BY <2>2, <1>5, <1>2
    <3>2. f[n] = IF n = 0 THEN [remaining |-> count, result |-> <<>>] ELSE TakeEvents(f[n - 1], gs[n])
      BY <1>4, <3>1 DEF Taking
    <3>. HIDE DEF g
    <3>. QED
      BY <3>1, <3>2
  <2>. QED
    BY <2>1, <2>2
<1>7. g = [n \in 0..m |-> IF n = 0 THEN [remaining |-> count, result |-> <<>>] ELSE TakeEvents(g[n - 1], gs[n])]
  <2>1. g = [n \in 0..m |-> g[n]]
    OBVIOUS
  <2>. HIDE DEF g
  <2>. QED
    BY <2>1, <1>6
<1>8. Taking(g, count, gs, m)
  <2>. HIDE DEF g
  <2>. QED
    BY <1>7 DEF Taking
<1>. QED
  BY <1>8 DEF Bad

LEMMA TakingPrefix ==
  ASSUME NEW count, NEW gs, NEW hs, NEW N \in Nat, NEW M \in Nat, NEW f, NEW g,
         Taking(f, count, gs, N), Taking(g, count, hs, M), N <= M,
         \A i \in 1..N : gs[i] = hs[i]
  PROVE  f[N] = g[N]
<1>. DEFINE Bad == {k \in 0..N : f[k] # g[k]}
<1>. SUFFICES ASSUME Bad # {} PROVE FALSE
  OBVIOUS
<1>0. Bad \subseteq Nat
  OBVIOUS
<1>1. PICK m \in Bad : \A k \in Bad : m <= k
  <2>. HIDE DEF Bad
  <2>. QED
    BY <1>0, Least
<1>2. m \in 0..N /\ f[m] # g[m] /\ m \in 0..M
  OBVIOUS
<1>3. f[m] = IF m = 0 THEN [remaining |-> count, result |-> <<>>] ELSE TakeEvents(f[m - 1], gs[m])
  BY <1>2 DEF Taking
<1>4. g[m] = IF m = 0 THEN [remaining |-> count, result |-> <<>>] ELSE TakeEvents(g[m - 1], hs[m])
  BY <1>2 DEF Taking
<1>5. m # 0
  BY <1>2, <1>3, <1>4
<1>6. m - 1 \in 0..N /\ m - 1 \notin Bad /\ m \in 1..N
  <2>1. m - 1 \in 0..N /\ m \in 1..N /\ ~(m <= m - 1)
    BY <1>2, <1>5
  <2>. HIDE DEF Bad
  <2>. QED
    BY <2>1, <1>1
<1>7. f[m - 1] = g[m - 1] /\ gs[m] = hs[m]
  BY <1>6
<1>. QED
  BY <1>2, <1>3, <1>4, <1>5, <1>7

Group == [id : Nat, events : Seq(Nat)]

LEMMA Cat ==
  ASSUME NEW S, NEW s \in Seq(S), NEW t \in Seq(S)
  PROVE  /\ s \o t \in Seq(S) /\ Len(s \o t) = Len(s) + Len(t)
         /\ Len(s) \in Nat /\ Len(t) \in Nat
         /\ \A j \in 1..Len(s) : (s \o t)[j] = s[j] /\ j \in 1..Len(s \o t)
         /\ \A j \in 1..Len(t) : (s \o t)[Len(s) + j] = t[j] /\ Len(s) + j \in 1..Len(s \o t)
         /\ \A j \in 1..Len(s \o t) : j \in 1..Len(s) \/ j - Len(s) \in 1..Len(t)
OBVIOUS

LEMMA Cut ==
  ASSUME NEW S, NEW s \in Seq(S), NEW m \in Nat, NEW n \in 0..Len(s)
  PROVE  /\ SubSeq(s, m + 1, n) \in Seq(S)
         /\ Len(SubSeq(s, m + 1, n)) = IF m <= n THEN n - m ELSE 0
         /\ \A j \in 1..Len(SubSeq(s, m + 1, n)) :
              SubSeq(s, m + 1, n)[j] = s[m + j] /\ m + j \in 1..Len(s)
<1>. DEFINE t == SubSeq(s, m + 1, n)
            k == IF m <= n THEN n - m ELSE 0
<1>1. Len(s) \in Nat /\ n \in Nat /\ n <= Len(s) /\ k \in Nat
  OBVIOUS
<1>2. t \in Seq(S) /\ Len(t) = k
  OBVIOUS
<1>3. \A j \in 1..k : m + j \in 1..Len(s) /\ m + j = (m + 1) + j - 1 /\ j \in Nat
  BY <1>1
<1>4. \A j \in 1..k : t[j] = s[m + j]
  BY <1>1, <1>3
<1>. QED
  BY <1>2, <1>3, <1>4


LEMMA FlatIs ==
  ASSUME NEW gs, NEW N \in Nat, N = Len(gs)
  PROVE  \E f : Flattening(f, gs, N) /\ Flat(gs) = f[N]
<1>. DEFINE f == CHOOSE g : Flattening(g, gs, N)
<1>1. Flattening(f, gs, N)
  BY FlatteningExists
<1>2. Flat(gs) = f[N]
  BY DEF Flat, Flattening
<1>. HIDE DEF f
<1>. QED
  BY <1>1, <1>2

LEMMA FlatEmpty == Flat(<<>>) = <<>>
<1>1. PICK f : Flattening(f, <<>>, 0) /\ Flat(<<>>) = f[0]
  BY FlatIs
<1>2. f[0] = <<>>
  BY <1>1 DEF Flattening
<1>. QED
  BY <1>1, <1>2

LEMMA FlatAppend ==
  ASSUME NEW gs \in Seq(Group), NEW g \in Group
  PROVE  Flat(Append(gs, g)) = Flat(gs) \o g.events
<1>. DEFINE N == Len(gs)
            M == N + 1
            hs == Append(gs, g)
<1>1. N \in Nat /\ M \in Nat /\ Len(hs) = M /\ hs[M] = g /\ N <= M
      /\ (\A i \in 1..N : gs[i] = hs[i])
  OBVIOUS
<1>2. M \in 0..M /\ M # 0 /\ M - 1 = N
  OBVIOUS
<1>. HIDE DEF N, M, hs
<1>3. PICK f : Flattening(f, gs, N) /\ Flat(gs) = f[N]
  BY <1>1, FlatIs DEF N
<1>4. PICK h : Flattening(h, hs, M) /\ Flat(hs) = h[M]
  BY <1>1, FlatIs
<1>5. f[N] = h[N]
  BY <1>1, <1>3, <1>4, FlatteningPrefix
<1>6. h[M] = IF M = 0 THEN <<>> ELSE h[M - 1] \o hs[M].events
  BY <1>2, <1>4 DEF Flattening
<1>. QED
  BY <1>1, <1>2, <1>3, <1>4, <1>5, <1>6 DEF hs

\* Whatever of the groups: a fact of the empty buffer that one group more keeps.
LEMMA FlatType ==
  ASSUME NEW gs \in Seq(Group)
  PROVE  Flat(gs) \in Seq(Nat)
<1>. DEFINE Bad == {n \in 0..Len(gs) : Flat(SubSeq(gs, 1, n)) \notin Seq(Nat)}
<1>0. Len(gs) \in Nat /\ SubSeq(gs, 1, 0) = <<>> /\ SubSeq(gs, 1, Len(gs)) = gs
      /\ Len(gs) \in 0..Len(gs)
  OBVIOUS
<1>1. ASSUME Bad # {} PROVE FALSE
  <2>1. Bad \subseteq Nat
    OBVIOUS
  <2>2. PICK m \in Bad : \A k \in Bad : m <= k
    <3>. HIDE DEF Bad
    <3>. QED
      BY <1>1, <2>1, Least
  <2>3. m \in 0..Len(gs) /\ Flat(SubSeq(gs, 1, m)) \notin Seq(Nat)
    OBVIOUS
  <2>4. m # 0
    <3>1. <<>> \in Seq(Nat)
      OBVIOUS
    <3>. QED
      BY <2>3, <1>0, <3>1, FlatEmpty
  <2>5. m - 1 \in 0..Len(gs) /\ ~(m <= m - 1) /\ m \in 1..Len(gs)
    BY <2>3, <2>4
  <2>6. Flat(SubSeq(gs, 1, m - 1)) \in Seq(Nat)
    BY <2>2, <2>5
  <2>7. SubSeq(gs, 1, m) = Append(SubSeq(gs, 1, m - 1), gs[m]) /\ gs[m] \in Group
        /\ SubSeq(gs, 1, m - 1) \in Seq(Group)
    BY <2>5
  <2>8. Flat(SubSeq(gs, 1, m)) = Flat(SubSeq(gs, 1, m - 1)) \o gs[m].events
    BY <2>7, FlatAppend
  <2>9. gs[m].events \in Seq(Nat)
    BY <2>7 DEF Group
  <2>. HIDE DEF Bad
  <2>10. Flat(SubSeq(gs, 1, m)) \in Seq(Nat)
    <3>. DEFINE x == Flat(SubSeq(gs, 1, m - 1))
                y == gs[m].events
    <3>1. x \in Seq(Nat) /\ y \in Seq(Nat)
      BY <2>6, <2>9
    <3>. HIDE DEF x, y
    <3>2. x \o y \in Seq(Nat)
      BY <3>1
    <3>. QED
      BY <2>8, <3>2 DEF x, y
  <2>. QED
    BY <2>3, <2>10
<1>. HIDE DEF Bad
<1>. QED
  BY <1>0, <1>1 DEF Bad

LEMMA OneMore ==
  ASSUME NEW ps \in Seq(Group), NEW bs \in Seq(Group), NEW g \in Group
  PROVE  ps \o Append(bs, g) = Append(ps \o bs, g) /\ ps \o bs \in Seq(Group)
<1>1. ps \o bs \in Seq(Group)
  OBVIOUS
<1>2. ps \o Append(bs, g) = Append(ps \o bs, g)
  OBVIOUS
<1>. QED
  BY <1>1, <1>2

LEMMA FlatConcat ==
  ASSUME NEW ps \in Seq(Group), NEW gs \in Seq(Group)
  PROVE  Flat(ps \o gs) = Flat(ps) \o Flat(gs)
<1>. DEFINE Bad == {n \in 0..Len(gs) :
                      Flat(ps \o SubSeq(gs, 1, n)) # Flat(ps) \o Flat(SubSeq(gs, 1, n))}
<1>0. Len(gs) \in Nat /\ SubSeq(gs, 1, 0) = <<>> /\ SubSeq(gs, 1, Len(gs)) = gs
      /\ Len(gs) \in 0..Len(gs) /\ ps \o <<>> = ps /\ Flat(ps) \o <<>> = Flat(ps)
  BY FlatType
<1>1. ASSUME Bad # {} PROVE FALSE
  <2>1. Bad \subseteq Nat
    <3>1. Bad \subseteq 0..Len(gs)
      BY Zenon
    <3>. HIDE DEF Bad
    <3>. QED
      BY <3>1
  <2>2. PICK m \in Bad : \A k \in Bad : m <= k
    <3>. HIDE DEF Bad
    <3>. QED
      BY <1>1, <2>1, Least
  <2>3. m \in 0..Len(gs) /\ Flat(ps \o SubSeq(gs, 1, m)) # Flat(ps) \o Flat(SubSeq(gs, 1, m))
    OBVIOUS
  <2>4. m # 0
    BY <2>3, <1>0, FlatEmpty
  <2>. DEFINE bs == SubSeq(gs, 1, m - 1)
              g == gs[m]
  <2>5. m - 1 \in 0..Len(gs) /\ ~(m <= m - 1) /\ m \in 1..Len(gs)
    BY <2>3, <2>4
  <2>6. Flat(ps \o bs) = Flat(ps) \o Flat(bs)
    BY <2>2, <2>5
  <2>7. SubSeq(gs, 1, m) = Append(bs, g) /\ g \in Group /\ bs \in Seq(Group)
    BY <2>5
  <2>. HIDE DEF bs, g, Bad
  <2>8. ps \o Append(bs, g) = Append(ps \o bs, g) /\ ps \o bs \in Seq(Group)
    <3>1. g \in Group /\ bs \in Seq(Group)
      BY <2>7
    <3>. QED
      BY <3>1, OneMore
  <2>9. Flat(Append(bs, g)) = Flat(bs) \o g.events
        /\ Flat(Append(ps \o bs, g)) = Flat(ps \o bs) \o g.events
    BY <2>7, <2>8, FlatAppend
  <2>10. g.events \in Seq(Nat) /\ Flat(ps) \in Seq(Nat) /\ Flat(bs) \in Seq(Nat)
    BY <2>7, FlatType DEF Group
  <2>11. (Flat(ps) \o Flat(bs)) \o g.events = Flat(ps) \o (Flat(bs) \o g.events)
    <3>. DEFINE x == Flat(ps)
                y == Flat(bs)
                z == g.events
    <3>1. x \in Seq(Nat) /\ y \in Seq(Nat) /\ z \in Seq(Nat)
      BY <2>10
    <3>. HIDE DEF x, y, z
    <3>2. (x \o y) \o z = x \o (y \o z)
      BY SMTT(30), <3>1
    <3>. QED
      BY <3>2 DEF x, y, z
  <2>. QED
    BY <2>3, <2>6, <2>7, <2>8, <2>9, <2>11
<1>. HIDE DEF Bad
<1>. QED
  BY <1>0, <1>1 DEF Bad

LEMMA FlatOne ==
  ASSUME NEW g \in Group
  PROVE  Flat(<<g>>) = g.events
<1>1. <<g>> = Append(<<>>, g) /\ <<>> \in Seq(Group)
  OBVIOUS
<1>2. g.events \in Seq(Nat)
  BY DEF Group
<1>3. <<>> \o g.events = g.events
  BY <1>2
<1>. QED
  BY <1>1, <1>3, FlatAppend, FlatEmpty

(***************************************************************************)
(* removeDraftEvents takes the first events out of the buffer.             *)
(***************************************************************************)
LEMMA TakenIs ==
  ASSUME NEW count, NEW gs, NEW N \in Nat, N = Len(gs)
  PROVE  \E f : Taking(f, count, gs, N) /\ RemoveDraftEvents(gs, count) = f[N].result
<1>. DEFINE f == CHOOSE g : Taking(g, count, gs, N)
<1>1. Taking(f, count, gs, N)
  BY TakingExists
<1>2. RemoveDraftEvents(gs, count) = f[N].result
  BY DEF RemoveDraftEvents, Taking
<1>. HIDE DEF f
<1>. QED
  BY <1>1, <1>2

\* What is left of s when its first n are taken.
Rest(s, n) == SubSeq(s, n + 1, Len(s))

LEMMA RestOf ==
  ASSUME NEW s \in Seq(Nat), NEW n \in Nat
  PROVE  /\ Rest(s, n) \in Seq(Nat)
         /\ Len(Rest(s, n)) = IF n <= Len(s) THEN Len(s) - n ELSE 0
         /\ \A j \in 1..Len(Rest(s, n)) : Rest(s, n)[j] = s[n + j] /\ n + j \in 1..Len(s)
<1>1. Len(s) \in 0..Len(s)
  OBVIOUS
<1>. QED
  BY <1>1, Cut DEF Rest

LEMMA RestOfConcat ==
  ASSUME NEW s \in Seq(Nat), NEW t \in Seq(Nat), NEW n \in Nat
  PROVE  /\ n <= Len(s) => Rest(s \o t, n) = Rest(s, n) \o t
         /\ n > Len(s) => Rest(s \o t, n) = Rest(t, n - Len(s))
         /\ n >= Len(s) => Rest(s, n) = <<>>
         /\ Rest(t, 0) = t
<1>. DEFINE st == s \o t
            A == Rest(st, n)
<1>1. /\ st \in Seq(Nat) /\ Len(st) = Len(s) + Len(t) /\ Len(s) \in Nat /\ Len(t) \in Nat
      /\ \A j \in 1..Len(s) : st[j] = s[j]
      /\ \A j \in 1..Len(t) : st[Len(s) + j] = t[j]
  BY Cat
<1>2. Rest(t, 0) = t /\ (n >= Len(s) => Rest(s, n) = <<>>)
  BY DEF Rest
<1>. HIDE DEF st
<1>3. /\ A \in Seq(Nat) /\ Len(A) = IF n <= Len(st) THEN Len(st) - n ELSE 0
      /\ \A j \in 1..Len(A) : A[j] = st[n + j]
  BY <1>1, RestOf
<1>. HIDE DEF A
<1>4. ASSUME n <= Len(s) PROVE A = Rest(s, n) \o t
  <2>. DEFINE r == Rest(s, n)
              B == r \o t
  <2>1. r \in Seq(Nat) /\ Len(r) = Len(s) - n /\ \A j \in 1..Len(r) : r[j] = s[n + j]
    BY <1>4, RestOf
  <2>. HIDE DEF r
  <2>2. /\ B \in Seq(Nat) /\ Len(B) = Len(r) + Len(t)
        /\ \A j \in 1..Len(r) : B[j] = r[j]
        /\ \A j \in 1..Len(t) : B[Len(r) + j] = t[j]
    <3>1. r \in Seq(Nat)
      BY <2>1
    <3>. QED
      BY SMTT(30), <3>1, Cat
  <2>. HIDE DEF B
  <2>3. Len(A) = Len(B)
    BY <1>1, <1>3, <1>4, <2>1, <2>2
  <2>4. ASSUME NEW j \in 1..Len(A) PROVE A[j] = B[j]
    <3>1. A[j] = st[n + j] /\ j \in Nat /\ Len(r) \in Nat
      BY <1>3, <2>1
    <3>2. CASE j <= Len(r)
      <4>1. n + j \in 1..Len(s) /\ j \in 1..Len(r)
        BY <1>1, <1>4, <2>1, <3>1, <3>2
      <4>. QED
        BY <1>1, <2>1, <2>2, <3>1, <4>1
    <3>3. CASE ~(j <= Len(r))
      <4>. DEFINE i == j - Len(r)
      <4>0. /\ j \in 1..Len(r) + Len(t) /\ Len(r) \in Nat /\ Len(s) \in Nat /\ Len(t) \in Nat
            /\ Len(r) = Len(s) - n
        BY <1>1, <2>1, <2>2, <2>3
      <4>1. i \in 1..Len(t) /\ n + j = Len(s) + i /\ j = Len(r) + i
        BY <3>3, <4>0
      <4>. HIDE DEF i
      <4>2. st[n + j] = t[i] /\ B[j] = t[i]
        BY <1>1, <2>2, <4>1
      <4>. QED
        BY <3>1, <4>2
    <3>. QED
      BY <3>2, <3>3
  <2>5. A = B
    BY <1>3, <2>2, <2>3, <2>4, SeqEqual
  <2>. QED
    BY <2>5 DEF B, r
<1>5. ASSUME n > Len(s) PROVE A = Rest(t, n - Len(s))
  <2>. DEFINE k == n - Len(s)
              B == Rest(t, k)
  <2>1. k \in Nat /\ n = Len(s) + k
    BY <1>1, <1>5
  <2>. HIDE DEF k
  <2>2. B \in Seq(Nat) /\ Len(B) = (IF k <= Len(t) THEN Len(t) - k ELSE 0)
        /\ \A j \in 1..Len(B) : B[j] = t[k + j] /\ k + j \in 1..Len(t)
    BY <2>1, RestOf
  <2>. HIDE DEF B
  <2>3. Len(A) = Len(B)
    BY <1>1, <1>3, <2>1, <2>2
  <2>4. ASSUME NEW j \in 1..Len(A) PROVE A[j] = B[j]
    <3>. DEFINE i == k + j
    <3>1. A[j] = st[n + j] /\ j \in Nat /\ B[j] = t[i] /\ i \in 1..Len(t)
      BY <1>3, <2>2, <2>3
    <3>2. n + j = Len(s) + i
      BY <1>1, <2>1, <3>1
    <3>. HIDE DEF i
    <3>3. st[Len(s) + i] = t[i]
      BY <1>1, <3>1
    <3>. QED
      BY <3>1, <3>2, <3>3
  <2>5. A = B
    BY <1>3, <2>2, <2>3, <2>4, SeqEqual
  <2>. QED
    BY <2>5 DEF B, k
<1>. QED
  BY <1>2, <1>4, <1>5 DEF st, A

Accumulator == [remaining : Nat, result : Seq(Group)]

\* The groups before hold the events F: what is left of them, and still to take.
TookFrom(acc, F, count) ==
  /\ acc \in Accumulator
  /\ acc.remaining = IF count >= Len(F) THEN count - Len(F) ELSE 0
  /\ Flat(acc.result) = Rest(F, count)

LEMMA TakeStep ==
  ASSUME NEW F \in Seq(Nat), NEW count \in Nat, NEW acc, TookFrom(acc, F, count),
         NEW g \in Group
  PROVE  TookFrom(TakeEvents(acc, g), F \o g.events, count)
<1>. DEFINE es == g.events
            c == Len(es)
            rem == acc.remaining
            res == acc.result
            n == IF c <= rem THEN c ELSE rem
            new == TakeEvents(acc, g)
            G == F \o es
            h == [g EXCEPT !.events = SubSeq(es, n + 1, c)]
<1>1. /\ es \in Seq(Nat) /\ c \in Nat /\ rem \in Nat /\ res \in Seq(Group) /\ n \in Nat
      /\ n <= c
  BY DEF TookFrom, Accumulator, Group
<1>2. /\ rem = IF count >= Len(F) THEN count - Len(F) ELSE 0
      /\ Flat(res) = Rest(F, count)
  BY DEF TookFrom
<1>3. new = [remaining |-> rem - n,
             result |-> IF rem > 0 /\ n = c THEN res ELSE Append(res, h)]
  BY DEF TakeEvents
<1>4. SubSeq(es, n + 1, c) = Rest(es, n)
  BY DEF Rest
<1>5. h \in Group /\ h.events = Rest(es, n)
  <2>1. Rest(es, n) \in Seq(Nat)
    BY <1>1, RestOf
  <2>. QED
    BY <1>4, <2>1 DEF Group
<1>6. Len(G) = Len(F) + c /\ Len(F) \in Nat
  BY <1>1, Cat
<1>7. /\ count <= Len(F) => Rest(G, count) = Rest(F, count) \o es
      /\ count > Len(F) => Rest(G, count) = Rest(es, count - Len(F))
      /\ count >= Len(F) => Rest(F, count) = <<>>
      /\ Rest(es, 0) = es
  BY ZenonT(30), <1>1, RestOfConcat
<1>. HIDE DEF es, c, rem, res, n, new, G, h
<1>8. CASE rem = 0
  <2>1. n = 0 /\ count <= Len(F)
    BY <1>1, <1>2, <1>6, <1>8 DEF n
  <2>2. new.result = Append(res, h) /\ new.remaining = 0 /\ new \in Accumulator
    <3>1. Append(res, h) \in Seq(Group)
      BY <1>1, <1>5
    <3>. QED
      BY <1>3, <1>8, <2>1, <3>1 DEF Accumulator
  <2>3. Flat(new.result) = Rest(F, count) \o es
    BY <1>1, <1>2, <1>5, <1>7, <2>1, <2>2, FlatAppend
  <2>4. count >= Len(G) => count - Len(G) = 0
    <3>1. ASSUME NEW L \in Nat, count <= L, NEW k \in Nat, k = L + c, count >= k
          PROVE  count - k = 0
      BY <1>1, <3>1
    <3>. DEFINE L == Len(F)
                k == Len(G)
    <3>2. L \in Nat /\ k = L + c /\ count <= L /\ c \in Nat
      BY <1>1, <1>6, <2>1
    <3>. HIDE DEF L, k
    <3>3. k \in Nat
      BY <3>2
    <3>4. count >= k => count - k = 0
      BY <3>1, <3>2, <3>3
    <3>. QED
      BY <3>4 DEF k
  <2>. QED
    BY <1>7, <2>1, <2>2, <2>3, <2>4 DEF TookFrom, new, G, es
<1>9. CASE rem > 0 /\ c <= rem
  <2>1. n = c /\ count > Len(F) /\ rem = count - Len(F) /\ count >= Len(G)
        /\ rem - n = count - Len(G)
    BY <1>1, <1>2, <1>6, <1>9 DEF n
  <2>2. new.result = res /\ new.remaining = count - Len(G) /\ new \in Accumulator
    <3>1. rem - n \in Nat
      BY <1>1, <1>9, <2>1
    <3>. QED
      BY <1>1, <1>3, <1>9, <2>1, <3>1 DEF Accumulator
  <2>3. Rest(G, count) = <<>> /\ Rest(F, count) = <<>>
    <3>1. Rest(es, count - Len(F)) = <<>>
      <4>1. rem >= Len(es)
        BY <1>9 DEF c
      <4>2. Rest(es, rem) = <<>>
        BY <1>1, <4>1, RestOfConcat
      <4>. QED
        BY <2>1, <4>2
    <3>. QED
      BY <1>6, <1>7, <2>1, <3>1
  <2>. QED
    BY <1>2, <2>1, <2>2, <2>3 DEF TookFrom, new, G, es
<1>10. CASE rem > 0 /\ ~(c <= rem)
  <2>1. n = rem /\ n # c /\ count > Len(F) /\ rem = count - Len(F) /\ ~(count >= Len(G))
        /\ rem - n = 0
    BY <1>1, <1>2, <1>6, <1>10 DEF n
  <2>2. new.result = Append(res, h) /\ new.remaining = 0 /\ new \in Accumulator
    <3>1. Append(res, h) \in Seq(Group)
      BY <1>1, <1>5
    <3>. QED
      BY <1>3, <2>1, <3>1 DEF Accumulator
  <2>3. Flat(new.result) = Rest(F, count) \o Rest(es, rem)
    BY <1>1, <1>2, <1>5, <2>1, <2>2, FlatAppend
  <2>4. Rest(F, count) = <<>> /\ Rest(es, rem) \in Seq(Nat)
    BY <1>1, <1>6, <1>7, <2>1, RestOf
  <2>5. Flat(new.result) = Rest(es, rem)
    BY <2>3, <2>4
  <2>. QED
    BY <1>7, <2>1, <2>2, <2>5 DEF TookFrom, new, G, es
<1>. QED
  BY <1>1, <1>8, <1>9, <1>10

LEMMA RemovedIsRest ==
  ASSUME NEW gs \in Seq(Group), NEW count \in Nat
  PROVE  /\ RemoveDraftEvents(gs, count) \in Seq(Group)
         /\ Flat(RemoveDraftEvents(gs, count)) = Rest(Flat(gs), count)
<1>. DEFINE N == Len(gs)
            F(n) == Flat(SubSeq(gs, 1, n))
<1>0. N \in Nat /\ SubSeq(gs, 1, 0) = <<>> /\ SubSeq(gs, 1, N) = gs /\ N \in 0..N
  OBVIOUS
<1>1. PICK f : Taking(f, count, gs, N) /\ RemoveDraftEvents(gs, count) = f[N].result
  BY <1>0, TakenIs
<1>. DEFINE Bad == {n \in 0..N : ~TookFrom(f[n], F(n), count)}
<1>2. ASSUME Bad # {} PROVE FALSE
  <2>1. Bad \subseteq Nat
    BY <1>0
  <2>2. PICK m \in Bad : \A k \in Bad : m <= k
    <3>. HIDE DEF Bad
    <3>. QED
      BY <1>2, <2>1, Least
  <2>3. m \in 0..N /\ ~TookFrom(f[m], F(m), count)
    OBVIOUS
  <2>4. f[m] = IF m = 0 THEN [remaining |-> count, result |-> <<>>]
               ELSE TakeEvents(f[m - 1], gs[m])
    BY <1>1, <2>3 DEF Taking
  <2>5. m # 0
    <3>1. ASSUME m = 0 PROVE FALSE
      <4>1. F(m) = <<>>
        BY <1>0, <3>1, FlatEmpty
      <4>2. Rest(<<>>, count) = <<>> /\ Len(<<>>) = 0 /\ <<>> \in Seq(Group)
        BY DEF Rest
      <4>3. f[m].remaining = count /\ f[m].result = <<>> /\ f[m] \in Accumulator
        BY <2>4, <3>1, <4>2 DEF Accumulator
      <4>4. count >= 0 /\ count - 0 = count
        OBVIOUS
      <4>5. TookFrom(f[m], <<>>, count)
        BY <4>2, <4>3, <4>4, FlatEmpty DEF TookFrom
      <4>. QED
        BY <2>3, <4>1, <4>5
    <3>. QED
      BY <3>1
  <2>6. m - 1 \in 0..N /\ ~(m <= m - 1) /\ m \in 1..N
    BY <1>0, <2>3, <2>5
  <2>7. TookFrom(f[m - 1], F(m - 1), count)
    BY <2>2, <2>6
  <2>8. SubSeq(gs, 1, m) = Append(SubSeq(gs, 1, m - 1), gs[m]) /\ gs[m] \in Group
        /\ SubSeq(gs, 1, m - 1) \in Seq(Group)
    BY <2>6
  <2>9. F(m) = F(m - 1) \o gs[m].events /\ F(m - 1) \in Seq(Nat)
    BY <2>8, FlatAppend, FlatType
  <2>10. f[m] = TakeEvents(f[m - 1], gs[m])
    BY <2>4, <2>5
  <2>. HIDE DEF Bad, F
  <2>. QED
    BY <2>3, <2>7, <2>8, <2>9, <2>10, TakeStep
<1>. HIDE DEF Bad
<1>3. TookFrom(f[N], F(N), count)
  BY <1>0, <1>2 DEF Bad
<1>. QED
  BY <1>0, <1>1, <1>3 DEF TookFrom, Accumulator

(***************************************************************************)
(* Events of sequences, and events that occur once.                        *)
(***************************************************************************)
LEMMA SetOf ==
  ASSUME NEW s \in Seq(Nat)
  PROVE  /\ \A x : x \in ToSet(s) <=> \E i \in 1..Len(s) : s[i] = x
         /\ ToSet(s) \subseteq Nat
<1>1. DOMAIN s = 1..Len(s) /\ \A i \in 1..Len(s) : s[i] \in Nat
  OBVIOUS
<1>. QED
  BY <1>1 DEF ToSet

LEMMA SetOfEmpty == ToSet(<<>>) = {}
BY DEF ToSet

LEMMA SetOfConcat ==
  ASSUME NEW s \in Seq(Nat), NEW t \in Seq(Nat)
  PROVE  ToSet(s \o t) = ToSet(s) \cup ToSet(t)
<1>. DEFINE st == s \o t
<1>1. /\ st \in Seq(Nat) /\ Len(s) \in Nat
      /\ \A j \in 1..Len(s) : st[j] = s[j] /\ j \in 1..Len(st)
      /\ \A j \in 1..Len(t) : st[Len(s) + j] = t[j] /\ Len(s) + j \in 1..Len(st)
      /\ \A j \in 1..Len(st) : j \in 1..Len(s) \/ j - Len(s) \in 1..Len(t)
  BY Cat
<1>. HIDE DEF st
<1>2. ASSUME NEW x \in ToSet(st) PROVE x \in ToSet(s) \cup ToSet(t)
  <2>1. PICK j \in 1..Len(st) : st[j] = x
    BY <1>1, SetOf
  <2>2. CASE j \in 1..Len(s)
    BY <1>1, <2>1, <2>2, SetOf
  <2>3. CASE j - Len(s) \in 1..Len(t)
    <3>1. st[Len(s) + (j - Len(s))] = t[j - Len(s)] /\ Len(s) + (j - Len(s)) = j
      BY <1>1, <2>3
    <3>. QED
      BY <2>1, <2>3, <3>1, SetOf
  <2>. QED
    BY <1>1, <2>2, <2>3
<1>3. ASSUME NEW x \in ToSet(s) PROVE x \in ToSet(st)
  <2>1. PICK i \in 1..Len(s) : s[i] = x
    BY SetOf
  <2>2. st[i] = x /\ i \in 1..Len(st)
    BY <1>1, <2>1
  <2>. QED
    BY <1>1, <2>2, SetOf
<1>4. ASSUME NEW x \in ToSet(t) PROVE x \in ToSet(st)
  <2>1. PICK i \in 1..Len(t) : t[i] = x
    BY SetOf
  <2>2. st[Len(s) + i] = x /\ Len(s) + i \in 1..Len(st)
    BY <1>1, <2>1
  <2>. QED
    BY <1>1, <2>2, SetOf
<1>5. ToSet(st) = ToSet(s) \cup ToSet(t)
  BY <1>2, <1>3, <1>4
<1>. QED
  BY <1>5 DEF st

LEMMA SetOfThree ==
  ASSUME NEW s \in Seq(Nat), NEW t \in Seq(Nat), NEW u \in Seq(Nat)
  PROVE  ToSet(s \o (t \o u)) = ToSet(s) \cup ToSet(t) \cup ToSet(u)
<1>1. t \o u \in Seq(Nat) /\ ToSet(t \o u) = ToSet(t) \cup ToSet(u)
  BY SetOfConcat, Cat
<1>2. ToSet(s \o (t \o u)) = ToSet(s) \cup ToSet(t \o u)
  BY <1>1, SetOfConcat
<1>. QED
  BY <1>1, <1>2

LEMMA OnceOfConcat ==
  ASSUME NEW s \in Seq(Nat), NEW t \in Seq(Nat)
  PROVE  NoDuplicate(s \o t) <=>
           /\ NoDuplicate(s) /\ NoDuplicate(t)
           /\ \A x \in ToSet(s) \cap ToSet(t) : x = 0
<1>. DEFINE st == s \o t
<1>1. /\ st \in Seq(Nat) /\ Len(s) \in Nat
      /\ \A j \in 1..Len(s) : st[j] = s[j] /\ j \in 1..Len(st)
      /\ \A j \in 1..Len(t) : st[Len(s) + j] = t[j] /\ Len(s) + j \in 1..Len(st)
      /\ \A j \in 1..Len(st) : j \in 1..Len(s) \/ j - Len(s) \in 1..Len(t)
  BY Cat
<1>. HIDE DEF st
<1>2. ASSUME NoDuplicate(st)
      PROVE  NoDuplicate(s) /\ NoDuplicate(t) /\ \A x \in ToSet(s) \cap ToSet(t) : x = 0
  <2>1. NoDuplicate(s)
    BY <1>1, <1>2 DEF NoDuplicate
  <2>2. ASSUME NEW i \in 1..Len(t), NEW j \in 1..Len(t), t[i] = t[j], t[i] # 0
        PROVE  i = j
    <3>1. st[Len(s) + i] = t[i] /\ st[Len(s) + j] = t[j]
          /\ Len(s) + i \in 1..Len(st) /\ Len(s) + j \in 1..Len(st)
      BY <1>1
    <3>2. Len(s) + i = Len(s) + j
      BY <1>2, <2>2, <3>1 DEF NoDuplicate
    <3>. QED
      BY <1>1, <3>2
  <2>3. ASSUME NEW x \in ToSet(s) \cap ToSet(t), x # 0 PROVE FALSE
    <3>1. PICK i \in 1..Len(s) : s[i] = x
      BY SetOf
    <3>2. PICK j \in 1..Len(t) : t[j] = x
      BY SetOf
    <3>3. st[i] = x /\ st[Len(s) + j] = x /\ i \in 1..Len(st) /\ Len(s) + j \in 1..Len(st)
      BY <1>1, <3>1, <3>2
    <3>4. i = Len(s) + j
      BY <1>2, <2>3, <3>3 DEF NoDuplicate
    <3>. QED
      BY <1>1, <3>4
  <2>. QED
    BY <2>1, <2>2, <2>3 DEF NoDuplicate
<1>3. ASSUME NoDuplicate(s), NoDuplicate(t), \A x \in ToSet(s) \cap ToSet(t) : x = 0
      PROVE  NoDuplicate(st)
  <2>1. ASSUME NEW i \in 1..Len(st), NEW j \in 1..Len(st), st[i] = st[j], st[i] # 0
        PROVE  i = j
    <3>1. ASSUME NEW k \in 1..Len(st), k \notin 1..Len(s)
          PROVE  k - Len(s) \in 1..Len(t) /\ st[k] = t[k - Len(s)] /\ k = Len(s) + (k - Len(s))
      <4>1. k - Len(s) \in 1..Len(t) /\ Len(s) + (k - Len(s)) = k
        BY <1>1, <3>1
      <4>2. st[Len(s) + (k - Len(s))] = t[k - Len(s)]
        BY <1>1, <4>1
      <4>. QED
        BY <4>1, <4>2
    <3>2. CASE i \in 1..Len(s) /\ j \in 1..Len(s)
      BY <1>1, <1>3, <2>1, <3>2 DEF NoDuplicate
    <3>3. CASE i \notin 1..Len(s) /\ j \notin 1..Len(s)
      <4>. DEFINE a == i - Len(s)
                  b == j - Len(s)
      <4>1. a \in 1..Len(t) /\ b \in 1..Len(t) /\ t[a] = t[b] /\ t[a] # 0
            /\ i = Len(s) + a /\ j = Len(s) + b
        BY <2>1, <3>1, <3>3
      <4>. HIDE DEF a, b
      <4>2. a = b
        BY <1>3, <4>1 DEF NoDuplicate
      <4>. QED
        BY <4>1, <4>2
    <3>4. CASE i \in 1..Len(s) /\ j \notin 1..Len(s)
      <4>1. st[i] \in ToSet(s)
        BY <1>1, <3>4, SetOf
      <4>2. st[j] \in ToSet(t)
        BY <3>1, <3>4, SetOf
      <4>. QED
        BY <1>3, <2>1, <4>1, <4>2
    <3>5. CASE i \notin 1..Len(s) /\ j \in 1..Len(s)
      <4>1. st[j] \in ToSet(s)
        BY <1>1, <3>5, SetOf
      <4>2. st[i] \in ToSet(t)
        BY <3>1, <3>5, SetOf
      <4>. QED
        BY <1>3, <2>1, <4>1, <4>2
    <3>. QED
      BY <3>2, <3>3, <3>4, <3>5
  <2>. QED
    BY <2>1 DEF NoDuplicate
<1>. QED
  BY <1>2, <1>3 DEF st

(***************************************************************************)
(* Prefixes, and the buffer around one of its groups.                      *)
(***************************************************************************)
LEMMA Assoc ==
  ASSUME NEW S, NEW s \in Seq(S), NEW t \in Seq(S), NEW u \in Seq(S)
  PROVE  (s \o t) \o u = s \o (t \o u)
OBVIOUS

LEMMA PrefixSplit ==
  ASSUME NEW s \in Seq(Nat), NEW t \in Seq(Nat)
  PROVE  IsPrefix(s, t) <=> \E u \in Seq(Nat) : t = s \o u
<1>1. Len(s) \in Nat /\ Len(t) \in Nat
  OBVIOUS
<1>2. ASSUME IsPrefix(s, t) PROVE \E u \in Seq(Nat) : t = s \o u
  <2>. DEFINE u == Rest(t, Len(s))
  <2>1. Len(s) <= Len(t) /\ SubSeq(s, 1, Len(s)) = SubSeq(t, 1, Len(s))
    BY <1>2 DEF IsPrefix
  <2>2. /\ u \in Seq(Nat) /\ Len(u) = Len(t) - Len(s)
        /\ \A j \in 1..Len(u) : u[j] = t[Len(s) + j]
    BY <1>1, <2>1, RestOf
  <2>3. \A j \in 1..Len(s) : s[j] = t[j]
    <3>1. \A j \in 1..Len(s) : SubSeq(s, 1, Len(s))[j] = s[j] /\ SubSeq(t, 1, Len(s))[j] = t[j]
      BY <1>1, <2>1
    <3>. QED
      BY <2>1, <3>1
  <2>. HIDE DEF u
  <2>4. /\ s \o u \in Seq(Nat) /\ Len(s \o u) = Len(t)
        /\ \A j \in 1..Len(s) : (s \o u)[j] = s[j]
        /\ \A j \in 1..Len(u) : (s \o u)[Len(s) + j] = u[j]
        /\ \A j \in 1..Len(s \o u) : j \in 1..Len(s) \/ j - Len(s) \in 1..Len(u)
    <3>1. Len(s \o u) = Len(s) + Len(u)
      BY <2>2, Cat
    <3>2. Len(s) + Len(u) = Len(t)
      BY <1>1, <2>1, <2>2
    <3>3. /\ s \o u \in Seq(Nat) /\ Len(s \o u) = Len(s) + Len(u)
          /\ Len(s) \in Nat /\ Len(u) \in Nat
          /\ \A j \in 1..Len(s) : (s \o u)[j] = s[j] /\ j \in 1..Len(s \o u)
          /\ \A j \in 1..Len(u) : (s \o u)[Len(s) + j] = u[j] /\ Len(s) + j \in 1..Len(s \o u)
          /\ \A j \in 1..Len(s \o u) : j \in 1..Len(s) \/ j - Len(s) \in 1..Len(u)
      BY <2>2, Cat
    <3>. QED
      BY <3>1, <3>2, <3>3
  <2>5. ASSUME NEW j \in 1..Len(t) PROVE (s \o u)[j] = t[j]
    <3>1. CASE j \in 1..Len(s)
      BY <2>3, <2>4, <3>1
    <3>2. CASE j - Len(s) \in 1..Len(u)
      <4>1. (s \o u)[Len(s) + (j - Len(s))] = t[Len(s) + (j - Len(s))]
        BY <2>2, <2>4, <3>2
      <4>2. Len(s) + (j - Len(s)) = j
        BY <1>1
      <4>. QED
        BY <4>1, <4>2
    <3>. QED
      BY <2>4, <3>1, <3>2
  <2>6. t = s \o u
    <3>. DEFINE st == s \o u
    <3>1. st \in Seq(Nat) /\ Len(st) = Len(t) /\ \A j \in 1..Len(t) : st[j] = t[j]
      BY <2>4, <2>5
    <3>. HIDE DEF st
    <3>2. t = st
      BY <3>1, SeqEqual
    <3>. QED
      BY <3>2 DEF st
  <2>. QED
    BY <2>2, <2>6
<1>3. ASSUME NEW u \in Seq(Nat), t = s \o u PROVE IsPrefix(s, t)
  <2>1. Len(t) = Len(s) + Len(u) /\ Len(u) \in Nat /\ \A j \in 1..Len(s) : t[j] = s[j]
    BY <1>3, Cat
  <2>2. Len(s) <= Len(t)
    BY <1>1, <2>1
  <2>3. SubSeq(s, 1, Len(s)) = SubSeq(t, 1, Len(s))
    BY <1>1, <2>1, <2>2
  <2>. QED
    BY <2>2, <2>3 DEF IsPrefix
<1>. QED
  BY <1>2, <1>3

LEMMA PrefixExtends ==
  ASSUME NEW s \in Seq(Nat), NEW t \in Seq(Nat), NEW u \in Seq(Nat), IsPrefix(s, t)
  PROVE  IsPrefix(s, t \o u)
<1>1. PICK v \in Seq(Nat) : t = s \o v
  BY PrefixSplit
<1>2. v \o u \in Seq(Nat) /\ t \o u = s \o (v \o u) /\ t \o u \in Seq(Nat)
  BY SMTT(30), <1>1, Assoc, Cat
<1>. QED
  BY <1>2, PrefixSplit

LEMMA PrefixSelf ==
  ASSUME NEW s \in Seq(Nat)
  PROVE  IsPrefix(s, s) /\ IsPrefix(<<>>, s)
<1>1. s = s \o <<>> /\ s = <<>> \o s /\ <<>> \in Seq(Nat)
  OBVIOUS
<1>. QED
  BY <1>1, PrefixSplit

\* What is newer than a prefix completes it.
LEMMA PrefixSince ==
  ASSUME NEW s \in Seq(Nat), NEW t \in Seq(Nat), IsPrefix(s, t)
  PROVE  SubSeq(t, Len(s) + 1, Len(t)) \in Seq(Nat)
         /\ s \o SubSeq(t, Len(s) + 1, Len(t)) = t
<1>1. PICK u \in Seq(Nat) : t = s \o u
  BY PrefixSplit
<1>2. Rest(s, Len(s)) = <<>> /\ Len(s) \in Nat
  BY <1>1, RestOfConcat
<1>3. Rest(t, Len(s)) = Rest(s, Len(s)) \o u
  <2>. DEFINE n == Len(s)
  <2>1. n \in Nat /\ n <= Len(s)
    BY <1>2
  <2>. HIDE DEF n
  <2>2. Rest(s \o u, n) = Rest(s, n) \o u
    BY <1>1, <2>1, RestOfConcat
  <2>. QED
    BY <1>1, <2>2 DEF n
<1>4. <<>> \o u = u
  OBVIOUS
<1>. QED
  BY <1>1, <1>2, <1>3, <1>4 DEF Rest

\* The buffer, taken apart at one of its groups.
LEMMA Apartment ==
  ASSUME NEW gs \in Seq(Group), NEW i \in 1..Len(gs)
  PROVE  /\ SubSeq(gs, 1, i - 1) \in Seq(Group)
         /\ SubSeq(gs, i + 1, Len(gs)) \in Seq(Group)
         /\ gs = SubSeq(gs, 1, i - 1) \o (<<gs[i]>> \o SubSeq(gs, i + 1, Len(gs)))
         /\ gs[i] \in Group
<1>. DEFINE A == SubSeq(gs, 1, i - 1)
            B == SubSeq(gs, i + 1, Len(gs))
            C == <<gs[i]>> \o B
            D == A \o C
<1>0. gs[i] \in Group /\ <<gs[i]>> \in Seq(Group) /\ i \in Nat /\ Len(gs) \in Nat /\ i >= 1
      /\ i <= Len(gs)
  OBVIOUS
<1>1. /\ A \in Seq(Group) /\ Len(A) = i - 1 /\ \A j \in 1..Len(A) : A[j] = gs[j]
  BY <1>0
<1>2. /\ B \in Seq(Group) /\ Len(B) = Len(gs) - i /\ \A j \in 1..Len(B) : B[j] = gs[i + j]
  BY <1>0
<1>. HIDE DEF A, B
<1>3. /\ C \in Seq(Group) /\ Len(C) = 1 + (Len(gs) - i) /\ C[1] = gs[i]
      /\ \A j \in 2..Len(C) : C[j] = gs[i + (j - 1)]
  <2>1. /\ C \in Seq(Group) /\ Len(C) = 1 + Len(B) /\ C[1] = gs[i]
        /\ \A j \in 2..Len(C) : C[j] = B[j - 1] /\ j - 1 \in 1..Len(B)
    BY <1>0, <1>2
  <2>. QED
    BY <1>2, <2>1
<1>. HIDE DEF C
<1>4. /\ D \in Seq(Group) /\ Len(D) = Len(gs)
      /\ \A j \in 1..Len(A) : D[j] = A[j]
      /\ \A j \in 1..Len(C) : D[Len(A) + j] = C[j]
  <2>1. /\ D \in Seq(Group) /\ Len(D) = Len(A) + Len(C)
        /\ Len(A) \in Nat /\ Len(C) \in Nat
        /\ \A j \in 1..Len(A) : D[j] = A[j] /\ j \in 1..Len(D)
        /\ \A j \in 1..Len(C) : D[Len(A) + j] = C[j] /\ Len(A) + j \in 1..Len(D)
        /\ \A j \in 1..Len(D) : j \in 1..Len(A) \/ j - Len(A) \in 1..Len(C)
    BY <1>1, <1>3, Cat
  <2>. HIDE DEF D
  <2>2. Len(D) = Len(gs)
    BY <1>0, <1>1, <1>3, <2>1
  <2>. QED
    BY <2>1, <2>2
<1>. HIDE DEF D
<1>5. ASSUME NEW j \in 1..Len(gs) PROVE D[j] = gs[j]
  <2>1. CASE j <= i - 1
    BY <1>0, <1>1, <1>4, <2>1
  <2>2. CASE j = i
    <3>1. Len(A) + 1 = i /\ 1 \in 1..Len(C)
      BY <1>0, <1>1, <1>3
    <3>. QED
      BY <1>3, <1>4, <2>2, <3>1
  <2>3. CASE j > i
    <3>. DEFINE m == j - i + 1
    <3>1. m \in 2..Len(C) /\ m \in 1..Len(C) /\ Len(A) + m = j /\ i + (m - 1) = j
      BY <1>0, <1>1, <1>3, <2>3
    <3>. HIDE DEF m
    <3>. QED
      BY <1>3, <1>4, <3>1
  <2>. QED
    BY <1>0, <2>1, <2>2, <2>3
<1>6. gs = D
  BY <1>4, <1>5
<1>. QED
  BY <1>0, <1>1, <1>2, <1>6 DEF A, B, C, D

LEMMA SplitAt ==
  ASSUME NEW gs \in Seq(Group), NEW k \in 0..Len(gs)
  PROVE  /\ SubSeq(gs, 1, k) \in Seq(Group) /\ SubSeq(gs, k + 1, Len(gs)) \in Seq(Group)
         /\ gs = SubSeq(gs, 1, k) \o SubSeq(gs, k + 1, Len(gs))
<1>. DEFINE A == SubSeq(gs, 1, k)
            B == SubSeq(gs, k + 1, Len(gs))
            D == A \o B
<1>0. k \in Nat /\ Len(gs) \in Nat /\ k <= Len(gs)
  OBVIOUS
<1>1. /\ A \in Seq(Group) /\ Len(A) = k /\ \A j \in 1..k : A[j] = gs[j]
  BY <1>0
<1>2. /\ B \in Seq(Group) /\ Len(B) = Len(gs) - k
      /\ \A j \in 1..Len(B) : B[j] = gs[k + j]
  BY <1>0
<1>. HIDE DEF A, B
<1>3. /\ D \in Seq(Group) /\ Len(D) = Len(gs)
      /\ \A j \in 1..k : D[j] = gs[j]
      /\ \A j \in 1..Len(B) : D[k + j] = gs[k + j]
  <2>1. /\ D \in Seq(Group) /\ Len(D) = Len(A) + Len(B)
        /\ Len(A) \in Nat /\ Len(B) \in Nat
        /\ \A j \in 1..Len(A) : D[j] = A[j] /\ j \in 1..Len(D)
        /\ \A j \in 1..Len(B) : D[Len(A) + j] = B[j] /\ Len(A) + j \in 1..Len(D)
        /\ \A j \in 1..Len(D) : j \in 1..Len(A) \/ j - Len(A) \in 1..Len(B)
    BY <1>1, <1>2, Cat
  <2>. HIDE DEF D
  <2>. QED
    BY <1>0, <1>1, <1>2, <2>1
<1>. HIDE DEF D
<1>4. ASSUME NEW j \in 1..Len(gs) PROVE D[j] = gs[j]
  <2>1. CASE j <= k
    BY <1>0, <1>3, <2>1
  <2>2. CASE j > k
    <3>1. j - k \in 1..Len(B) /\ k + (j - k) = j
      BY <1>0, <1>2, <2>2
    <3>. QED
      BY <1>3, <3>1
  <2>. QED
    BY <1>0, <2>1, <2>2
<1>5. gs = D
  BY <1>3, <1>4
<1>. QED
  BY <1>1, <1>2, <1>5 DEF A, B, D

LEMMA FlatApart ==
  ASSUME NEW gs \in Seq(Group), NEW i \in 1..Len(gs)
  PROVE  Flat(gs) = Flat(SubSeq(gs, 1, i - 1))
                      \o (gs[i].events \o Flat(SubSeq(gs, i + 1, Len(gs))))
<1>. DEFINE A == SubSeq(gs, 1, i - 1)
            B == SubSeq(gs, i + 1, Len(gs))
<1>0. <<gs[i]>> \in Seq(Group)
  OBVIOUS
<1>1. A \in Seq(Group) /\ B \in Seq(Group) /\ gs[i] \in Group
      /\ gs = A \o (<<gs[i]>> \o B) /\ <<gs[i]>> \in Seq(Group)
  BY <1>0, Apartment
<1>. HIDE DEF A, B
<1>2. <<gs[i]>> \o B \in Seq(Group)
  BY <1>1, Cat
<1>3. Flat(<<gs[i]>> \o B) = gs[i].events \o Flat(B)
  BY <1>1, FlatConcat, FlatOne
<1>4. Flat(A \o (<<gs[i]>> \o B)) = Flat(A) \o (gs[i].events \o Flat(B))
  BY <1>1, <1>2, <1>3, FlatConcat
<1>. QED
  BY <1>1, <1>4 DEF A, B

LEMMA FlatReplaced ==
  ASSUME NEW gs \in Seq(Group), NEW i \in 1..Len(gs), NEW es \in Seq(Nat)
  PROVE  /\ [gs EXCEPT ![i].events = es] \in Seq(Group)
         /\ Len([gs EXCEPT ![i].events = es]) = Len(gs)
         /\ \A j \in 1..Len(gs) : j # i => [gs EXCEPT ![i].events = es][j] = gs[j]
         /\ Flat([gs EXCEPT ![i].events = es])
              = Flat(SubSeq(gs, 1, i - 1)) \o (es \o Flat(SubSeq(gs, i + 1, Len(gs))))
<1>. DEFINE h == [gs[i] EXCEPT !.events = es]
            hs == [gs EXCEPT ![i].events = es]
<1>1. gs[i] \in Group /\ i \in Nat /\ Len(gs) \in Nat /\ i >= 1 /\ i <= Len(gs)
  OBVIOUS
<1>2. h \in Group /\ h.events = es
  BY <1>1 DEF Group
<1>3. hs = [gs EXCEPT ![i] = h]
  OBVIOUS
<1>. HIDE DEF h
<1>4. /\ hs \in Seq(Group) /\ Len(hs) = Len(gs) /\ hs[i] = h
      /\ \A j \in 1..Len(gs) : j # i => hs[j] = gs[j]
  BY SMTT(30), <1>1, <1>2, <1>3
<1>. HIDE DEF hs
<1>5. SubSeq(hs, 1, i - 1) = SubSeq(gs, 1, i - 1)
  BY <1>1, <1>4
<1>6. SubSeq(hs, i + 1, Len(gs)) = SubSeq(gs, i + 1, Len(gs))
  BY <1>1, <1>4
<1>7. Flat(hs) = Flat(SubSeq(hs, 1, i - 1)) \o (hs[i].events \o Flat(SubSeq(hs, i + 1, Len(hs))))
  BY <1>1, <1>4, FlatApart
<1>. QED
  BY <1>2, <1>4, <1>5, <1>6, <1>7 DEF hs

\* The first groups stay the same under what leaves them alone.
LEMMA SameFirst ==
  ASSUME NEW gs \in Seq(Group), NEW hs \in Seq(Group), NEW k \in Nat,
         k <= Len(gs), k <= Len(hs), \A i \in 1..k : hs[i] = gs[i]
  PROVE  SubSeq(hs, 1, k) = SubSeq(gs, 1, k)
OBVIOUS

-----------------------------------------------------------------------------
(***************************************************************************)
(* The inductive invariant.                                                *)
(***************************************************************************)
Answers == {"none", "ok", "stale_head", "stale_build", "failed"}
Request == [phase : {"free", "sent", "answered"}, input : Nat, events : Seq(Nat),
            answer : Answers, news : Seq(Nat)]

Types ==
  /\ made \in Nat /\ doubts \in Nat /\ next_group_id \in Nat
  /\ log \in Seq(Nat) /\ committed \in Seq(Nat) /\ drafts \in Seq(Group)
  /\ requests \in [Slots -> Request] /\ waiting \subseteq Slots

\* Events are those that were staged, or other people's in the table.
Known ==
  /\ ToSet(log) \subseteq 0..made /\ EventsOf(drafts) \subseteq 1..made
  /\ \A q \in Slots : ToSet(requests[q].events) \subseteq 1..made

Awaited(q) == waiting = {q} /\ requests[q].phase \in {"sent", "answered"}

\* The page applies exactly while it awaits one request.
OneApply ==
  /\ status = "applying" => \E q \in Slots : Awaited(q)
  /\ status # "applying" => waiting = {} /\ submitted_groups = {}
  /\ \A q \in Slots : requests[q].phase = "answered" => q \in waiting
  /\ ~Working => drafts = <<>> \/ status = "stale_build"
  /\ status = "loading" => committed = <<>> /\ drafts = <<>>

\* What the page holds, with the news it awaits, is a prefix of the table.
Prefix ==
  /\ IsPrefix(committed, log) /\ head_seq = Len(committed)
  /\ \A q \in waiting :
       /\ requests[q].phase = "sent" => requests[q].input = head_seq
       /\ requests[q].phase = "answered" /\ requests[q].answer \in {"ok", "stale_head"} =>
            IsPrefix(committed \o requests[q].news, log)
       /\ requests[q].phase = "answered" /\ requests[q].answer = "ok" =>
            requests[q].news = requests[q].events

\* The request the page awaits carries the first groups of the buffer, which the
\* organiser cannot edit.
Submitted(q, k) ==
  /\ \A i \in 1..k : drafts[i].id \in submitted_groups
  /\ Flat(SubSeq(drafts, 1, k)) = requests[q].events
SubmittedFirst == \A q \in waiting : \E k \in 0..Len(drafts) : Submitted(q, k)

NothingLost == 1..made \subseteq gone \cup EventsOf(drafts) \cup ToSet(log)

Acknowledging(q) ==
  q \in waiting /\ requests[q].phase = "answered" /\ requests[q].answer = "ok"
Sent(q) == requests[q].phase = "sent"
Apart(a, b) == a \cap b = {}

\* Where an event may be twice at once: in the buffer and in the request the page
\* awaits, and in the buffer and in the table until the acknowledgement is taken.
SentOnce(q) ==
  /\ NoDuplicate(requests[q].events) /\ Apart(ToSet(requests[q].events), ToSet(log))
  /\ \A p \in Slots : p # q /\ Sent(p) =>
       Apart(ToSet(requests[q].events), ToSet(requests[p].events))
  /\ q \notin waiting => Apart(ToSet(requests[q].events), EventsOf(drafts))

Unsaved ==
  \/ Apart(EventsOf(drafts), ToSet(log))
  \/ \E q \in Slots : /\ Acknowledging(q)
                      /\ Apart(EventsOf(drafts) \ ToSet(requests[q].events), ToSet(log))

Once ==
  /\ NoDuplicate(log) /\ NoDuplicate(Flat(drafts))
  /\ Apart(EventsOf(drafts), ToSet(committed))
  /\ \A q \in Slots : Sent(q) => SentOnce(q)
  /\ status # "stale_build" => Unsaved
OnceEach == doubts = 0 => Once

IInv == Types /\ Known /\ OneApply /\ Prefix /\ SubmittedFirst /\ NothingLost /\ OnceEach

LEMMA FreeIs ==
  /\ Free \in Request /\ Free.phase = "free" /\ Free.events = <<>>
  /\ ToSet(Free.events) = {}
BY SetOfEmpty DEF Free, Request, Answers

LEMMA Initially == Init => IInv
<1>. SUFFICES ASSUME Init PROVE IInv
  OBVIOUS
<1>1. log = <<>> /\ committed = <<>> /\ drafts = <<>> /\ waiting = {} /\ made = 0
      /\ status = "loading" /\ head_seq = 0 /\ doubts = 0 /\ next_group_id = 1
      /\ submitted_groups = {}
  BY DEF Init
<1>2. \A q \in Slots : requests[q] = Free
  BY DEF Init
<1>3. /\ ToSet(<<>>) = {} /\ EventsOf(<<>>) = {} /\ Flat(<<>>) = <<>> /\ Len(<<>>) = 0
      /\ NoDuplicate(<<>>) /\ IsPrefix(<<>>, <<>>)
  <2>1. NoDuplicate(<<>>)
    BY DEF NoDuplicate
  <2>2. <<>> \in Seq(Nat)
    OBVIOUS
  <2>. QED
    BY <2>1, <2>2, SetOfEmpty, FlatEmpty, PrefixSelf DEF EventsOf
<1>4. Types
  <2>1. requests \in [Slots -> Request]
    BY FreeIs DEF Init
  <2>. QED
    BY <1>1, <2>1 DEF Types
<1>5. Known
  BY <1>1, <1>2, <1>3, FreeIs DEF Known
<1>6. OneApply
  BY <1>1, <1>2, FreeIs DEF OneApply, Working
<1>7. Prefix /\ SubmittedFirst
  BY <1>1, <1>3 DEF Prefix, SubmittedFirst
<1>8. NothingLost
  BY <1>1 DEF NothingLost
<1>9. OnceEach
  BY <1>1, <1>2, <1>3, FreeIs DEF OnceEach, Once, Sent, Unsaved, Apart
<1>. QED
  BY <1>4, <1>5, <1>6, <1>7, <1>8, <1>9 DEF IInv

(***************************************************************************)
(* What the organiser does to the buffer.                                  *)
(***************************************************************************)
\* The first groups that are submitted stay, what leaves the buffer is recorded as
\* gone, and what comes is new.
Edited ==
  /\ Working
  /\ drafts' \in Seq(Group) /\ made' \in Nat /\ made <= made' /\ next_group_id' \in Nat
  /\ \A k \in 0..Len(drafts) :
       (\A i \in 1..k : drafts[i].id \in submitted_groups) =>
         k <= Len(drafts') /\ \A i \in 1..k : drafts'[i] = drafts[i]
  /\ EventsOf(drafts)' \subseteq EventsOf(drafts) \cup ((made + 1)..made')
  /\ gone \cup EventsOf(drafts) \cup ((made + 1)..made') \subseteq gone' \cup EventsOf(drafts)'
  /\ NoDuplicate(Flat(drafts)) => NoDuplicate(Flat(drafts))'
  /\ UNCHANGED <<log, committed, head_seq, status, submitted_groups, waiting, requests, doubts>>

LEMMA EditedKeeps ==
  ASSUME IInv, Edited
  PROVE  IInv'
<1>. USE DEF IInv
<1>1. /\ drafts' \in Seq(Group) /\ made' \in Nat /\ made \in Nat /\ made <= made'
      /\ next_group_id' \in Nat /\ Working
      /\ log' = log /\ committed' = committed /\ head_seq' = head_seq /\ status' = status
      /\ submitted_groups' = submitted_groups /\ waiting' = waiting
      /\ requests' = requests /\ doubts' = doubts
  BY DEF Edited, Types
<1>. DEFINE New == (made + 1)..made'
            E == EventsOf(drafts)
<1>2. E' \subseteq E \cup New /\ gone \cup E \cup New \subseteq gone' \cup E'
  BY DEF Edited
<1>3. /\ ToSet(log) \subseteq 0..made /\ E \subseteq 1..made
      /\ \A q \in Slots : ToSet(requests[q].events) \subseteq 1..made
  BY DEF Known
<1>4. 0..made \subseteq 0..made' /\ 1..made \subseteq 1..made' /\ New \subseteq 1..made'
      /\ 1..made' \subseteq 1..made \cup New /\ 0..made \cap New = {}
      /\ 1..made \subseteq 0..made
  BY <1>1
<1>. HIDE DEF New, E
<1>5. Types'
  BY <1>1 DEF Types
<1>6. Known'
  BY <1>1, <1>2, <1>3, <1>4 DEF Known, E
<1>7. OneApply'
  BY <1>1 DEF OneApply, Working, Awaited
<1>8. Prefix'
  BY <1>1 DEF Prefix
<1>9. SubmittedFirst'
  <2>. SUFFICES ASSUME NEW q \in waiting PROVE \E k \in 0..Len(drafts') : Submitted(q, k)'
    BY <1>1 DEF SubmittedFirst
  <2>1. PICK k \in 0..Len(drafts) : Submitted(q, k)
    BY DEF SubmittedFirst
  <2>2. k <= Len(drafts') /\ \A i \in 1..k : drafts'[i] = drafts[i]
    BY <2>1 DEF Submitted, Edited
  <2>3. drafts \in Seq(Group) /\ k \in Nat /\ k <= Len(drafts) /\ Len(drafts') \in Nat
    BY <1>1 DEF Types
  <2>4. SubSeq(drafts', 1, k) = SubSeq(drafts, 1, k)
    BY <1>1, <2>2, <2>3, SameFirst
  <2>5. k \in 0..Len(drafts')
    BY <2>2, <2>3
  <2>6. Submitted(q, k)'
    BY <1>1, <2>1, <2>2, <2>4 DEF Submitted
  <2>. QED
    BY <2>5, <2>6
<1>10. NothingLost'
  BY <1>1, <1>2, <1>4 DEF NothingLost, E
<1>11. OnceEach'
  <2>. SUFFICES ASSUME doubts = 0 PROVE Once'
    BY <1>1 DEF OnceEach
  <2>1. Once
    BY DEF OnceEach
  <2>2. NoDuplicate(log)' /\ NoDuplicate(Flat(drafts))'
    BY <1>1, <2>1 DEF Once, Edited
  <2>3. ToSet(committed) \subseteq 0..made
    <3>1. PICK u \in Seq(Nat) : log = committed \o u
      BY PrefixSplit DEF Types, Prefix
    <3>. QED
      BY <1>3, <3>1, SetOfConcat DEF Types
  <2>4. ASSUME NEW S, S \subseteq 0..made, NEW T, Apart(E \ T, S)
        PROVE  Apart(E' \ T, S)
    BY <1>2, <1>4, <2>4 DEF Apart
  <2>5. ASSUME NEW S, S \subseteq 0..made, Apart(E, S)
        PROVE  Apart(E', S)
    BY <1>2, <1>4, <2>5 DEF Apart
  <2>6. Apart(EventsOf(drafts), ToSet(committed))'
    BY <1>1, <2>1, <2>3, <2>5 DEF Once, E
  <2>7. ASSUME NEW q \in Slots, Sent(q)' PROVE SentOnce(q)'
    <3>1. SentOnce(q) /\ ToSet(requests[q].events) \subseteq 0..made
      BY <1>1, <1>3, <1>4, <2>1, <2>7 DEF Once, Sent
    <3>2. q \notin waiting => Apart(ToSet(requests[q].events), E')
      BY <2>5, <3>1 DEF SentOnce, E, Apart
    <3>. QED
      BY <1>1, <3>1, <3>2 DEF SentOnce, Sent, E
  <2>8. (status # "stale_build" => Unsaved)'
    <3>. SUFFICES ASSUME status # "stale_build" PROVE Unsaved'
      BY <1>1
    <3>1. Unsaved
      BY <2>1 DEF Once
    <3>2. CASE Apart(E, ToSet(log))
      BY <1>1, <1>3, <2>5, <3>2 DEF Unsaved, E
    <3>3. CASE \E q \in Slots : Acknowledging(q) /\ Apart(E \ ToSet(requests[q].events), ToSet(log))
      <4>1. PICK q \in Slots : Acknowledging(q) /\ Apart(E \ ToSet(requests[q].events), ToSet(log))
        BY <3>3
      <4>2. Apart(E' \ ToSet(requests[q].events), ToSet(log))
        BY <1>3, <2>4, <4>1
      <4>3. Acknowledging(q)'
        BY <1>1, <4>1 DEF Acknowledging
      <4>. QED
        BY <1>1, <4>2, <4>3 DEF Unsaved, E
    <3>. QED
      BY <3>1, <3>2, <3>3 DEF Unsaved, E
  <2>. QED
    BY <2>2, <2>6, <2>7, <2>8 DEF Once
<1>. QED
  BY <1>5, <1>6, <1>7, <1>8, <1>9, <1>10, <1>11

LEMMA FreshIs ==
  ASSUME made \in Nat, NEW n \in Nat
  PROVE  /\ Fresh(n) \in Seq(Nat) /\ ToSet(Fresh(n)) = (made + 1)..(made + n)
         /\ NoDuplicate(Fresh(n))
<1>. DEFINE f == Fresh(n)
<1>1. /\ f \in Seq(Nat) /\ Len(f) = n
      /\ \A i \in 1..n : f[i] = made + i
  BY DEF Fresh
<1>. HIDE DEF f
<1>2. ASSUME NEW x \in ToSet(f) PROVE x \in (made + 1)..(made + n)
  <2>1. PICK i \in 1..n : f[i] = x
    BY <1>1, SetOf
  <2>. QED
    BY <1>1, <2>1
<1>3. ASSUME NEW x \in (made + 1)..(made + n) PROVE x \in ToSet(f)
  <2>1. x - made \in 1..n /\ made + (x - made) = x
    OBVIOUS
  <2>. QED
    BY <1>1, <2>1, SetOf
<1>4. NoDuplicate(f)
  BY <1>1 DEF NoDuplicate
<1>. QED
  BY <1>1, <1>2, <1>3, <1>4 DEF f

LEMMA StageEdits ==
  ASSUME IInv, Stage
  PROVE  Edited
<1>1. PICK n \in 1..2 : /\ drafts' = Append(drafts, [id |-> next_group_id, events |-> Fresh(n)])
                        /\ made' = made + n
  BY DEF Stage
<1>. DEFINE g == [id |-> next_group_id, events |-> Fresh(n)]
<1>2. made \in Nat /\ next_group_id \in Nat /\ drafts \in Seq(Group) /\ made' \in Nat
      /\ made' = made + n /\ n \in Nat
  BY <1>1 DEF IInv, Types
<1>3. /\ Fresh(n) \in Seq(Nat) /\ ToSet(Fresh(n)) = (made + 1)..made' /\ NoDuplicate(Fresh(n))
  BY <1>1, <1>2, FreshIs
<1>4. g \in Group /\ g.events = Fresh(n)
  BY <1>2, <1>3 DEF Group
<1>. HIDE DEF g
<1>5. drafts' = Append(drafts, g) /\ drafts' \in Seq(Group)
  BY <1>1, <1>2, <1>4 DEF g
<1>6. Flat(drafts)' = Flat(drafts) \o Fresh(n) /\ Flat(drafts) \in Seq(Nat)
  BY <1>2, <1>4, <1>5, FlatAppend, FlatType
<1>7. EventsOf(drafts)' = EventsOf(drafts) \cup (made + 1)..made'
  BY <1>3, <1>6, SetOfConcat DEF EventsOf
<1>8. NoDuplicate(Flat(drafts)) => NoDuplicate(Flat(drafts))'
  <2>1. ToSet(Flat(drafts)) \subseteq 1..made
    BY DEF IInv, Known, EventsOf
  <2>2. 1..made \cap ((made + 1)..made') = {}
    BY <1>2
  <2>3. NoDuplicate(Flat(drafts)) => NoDuplicate(Flat(drafts) \o Fresh(n))
    BY <1>3, <1>6, <2>1, <2>2, OnceOfConcat
  <2>. QED
    BY <1>6, <2>3
<1>9. \A k \in 0..Len(drafts) : k <= Len(drafts') /\ \A i \in 1..k : drafts'[i] = drafts[i]
  BY <1>2, <1>4, <1>5
<1>10. made <= made' /\ next_group_id' \in Nat
  BY <1>2 DEF Stage
<1>11. Edited
  BY <1>2, <1>5, <1>7, <1>8, <1>9, <1>10 DEF Edited, Stage
<1>. QED
  BY <1>11

LEMMA DiscardGroupEdits ==
  ASSUME IInv, DiscardGroup
  PROVE  Edited
<1>1. PICK i \in 1..Len(drafts) :
        /\ drafts[i].id \notin submitted_groups
        /\ drafts' = RemoveAt(drafts, i)
        /\ gone' = gone \cup (EventsOf(drafts) \ EventsOf(drafts'))
  BY DEF DiscardGroup, Editable
<1>. DEFINE A == SubSeq(drafts, 1, i - 1)
            B == SubSeq(drafts, i + 1, Len(drafts))
            es == drafts[i].events
<1>2. drafts \in Seq(Group) /\ made \in Nat /\ next_group_id \in Nat
  BY DEF IInv, Types
<1>3. A \in Seq(Group) /\ B \in Seq(Group) /\ drafts[i] \in Group
  BY <1>2, Apartment
<1>4. Flat(drafts) = Flat(A) \o (es \o Flat(B)) /\ drafts' = A \o B
  BY <1>1, <1>2, FlatApart DEF RemoveAt
<1>5. /\ Len(A) = i - 1 /\ \A j \in 1..Len(A) : A[j] = drafts[j]
      /\ i \in Nat /\ i >= 1 /\ i <= Len(drafts) /\ Len(drafts) \in Nat
  BY <1>2
<1>6. es \in Seq(Nat)
  BY <1>3 DEF Group
<1>. HIDE DEF A, B, es
<1>7. /\ drafts' \in Seq(Group) /\ Len(drafts') = Len(A) + Len(B) /\ Len(B) \in Nat
      /\ \A j \in 1..Len(A) : drafts'[j] = A[j]
  BY <1>3, <1>4
<1>8. Flat(drafts)' = Flat(A) \o Flat(B) /\ Flat(A) \in Seq(Nat) /\ Flat(B) \in Seq(Nat)
  BY <1>3, <1>4, FlatConcat, FlatType
<1>9. es \o Flat(B) \in Seq(Nat) /\ Flat(A) \o (es \o Flat(B)) \in Seq(Nat)
  BY <1>6, <1>8, Cat
<1>10. /\ ToSet(Flat(drafts)) = ToSet(Flat(A)) \cup ToSet(es) \cup ToSet(Flat(B))
       /\ ToSet(Flat(drafts)') = ToSet(Flat(A)) \cup ToSet(Flat(B))
  <2>1. ToSet(Flat(A) \o (es \o Flat(B))) = ToSet(Flat(A)) \cup ToSet(es) \cup ToSet(Flat(B))
    BY <1>6, <1>8, SetOfThree
  <2>2. ToSet(Flat(A) \o Flat(B)) = ToSet(Flat(A)) \cup ToSet(Flat(B))
    BY <1>8, SetOfConcat
  <2>. QED
    BY <1>4, <1>8, <2>1, <2>2
<1>11. EventsOf(drafts)' \subseteq EventsOf(drafts)
  BY <1>10 DEF EventsOf
<1>12. NoDuplicate(Flat(drafts)) => NoDuplicate(Flat(drafts))'
  <2>1. ToSet(es \o Flat(B)) = ToSet(es) \cup ToSet(Flat(B))
    BY <1>6, <1>8, SetOfConcat
  <2>2. NoDuplicate(Flat(A) \o (es \o Flat(B))) => NoDuplicate(Flat(A) \o Flat(B))
    BY <1>6, <1>8, <1>9, <2>1, OnceOfConcat
  <2>. QED
    BY <1>4, <1>8, <2>2
<1>13. ASSUME NEW k \in 0..Len(drafts), \A j \in 1..k : drafts[j].id \in submitted_groups
       PROVE  k <= Len(drafts') /\ \A j \in 1..k : drafts'[j] = drafts[j]
  <2>1. k < i
    BY <1>1, <1>5, <1>13
  <2>. QED
    BY <1>5, <1>7, <2>1
<1>14. UNCHANGED <<log, committed, head_seq, status, submitted_groups, waiting, requests,
                   doubts, made, next_group_id>> /\ Working
  BY DEF DiscardGroup
<1>15. (made + 1)..made' = {} /\ made <= made'
  BY <1>2, <1>14
<1>16. gone \cup EventsOf(drafts) \subseteq gone' \cup EventsOf(drafts)'
  BY <1>1
<1>17. Edited
  BY <1>2, <1>7, <1>11, <1>12, <1>13, <1>14, <1>15, <1>16 DEF Edited
<1>. QED
  BY <1>17

LEMMA ReplaceGroupEdits ==
  ASSUME IInv, ReplaceGroup
  PROVE  Edited
<1>1. PICK i \in 1..Len(drafts) :
        /\ drafts[i].id \notin submitted_groups
        /\ drafts' = [drafts EXCEPT ![i].events = Fresh(Len(drafts[i].events))]
        /\ made' = made + Len(drafts[i].events)
        /\ gone' = gone \cup ToSet(drafts[i].events)
  BY DEF ReplaceGroup, Editable
<1>. DEFINE A == SubSeq(drafts, 1, i - 1)
            B == SubSeq(drafts, i + 1, Len(drafts))
            es == drafts[i].events
            n == Len(es)
<1>2. drafts \in Seq(Group) /\ made \in Nat /\ next_group_id \in Nat
  BY DEF IInv, Types
<1>3. A \in Seq(Group) /\ B \in Seq(Group) /\ drafts[i] \in Group
  BY <1>2, Apartment
<1>4. es \in Seq(Nat) /\ n \in Nat /\ made' = made + n /\ made' \in Nat
  BY SMTT(30), <1>1, <1>2, <1>3 DEF Group
<1>5. Fresh(n) \in Seq(Nat) /\ ToSet(Fresh(n)) = (made + 1)..made' /\ NoDuplicate(Fresh(n))
  BY <1>2, <1>4, FreshIs
<1>6. Flat(drafts) = Flat(A) \o (es \o Flat(B))
  BY <1>2, FlatApart
<1>7. /\ drafts' \in Seq(Group) /\ Len(drafts') = Len(drafts)
      /\ \A j \in 1..Len(drafts) : j # i => drafts'[j] = drafts[j]
      /\ Flat(drafts') = Flat(A) \o (Fresh(n) \o Flat(B))
  <2>. DEFINE f == Fresh(n)
  <2>1. f \in Seq(Nat) /\ drafts' = [drafts EXCEPT ![i].events = f]
    BY <1>1, <1>5
  <2>. HIDE DEF f
  <2>2. /\ drafts' \in Seq(Group) /\ Len(drafts') = Len(drafts)
        /\ \A j \in 1..Len(drafts) : j # i => drafts'[j] = drafts[j]
        /\ Flat(drafts') = Flat(A) \o (f \o Flat(B))
    <3>. DEFINE hs == [drafts EXCEPT ![i].events = f]
    <3>1. /\ hs \in Seq(Group)
          /\ Len(hs) = Len(drafts)
          /\ \A j \in 1..Len(drafts) : j # i => hs[j] = drafts[j]
          /\ Flat(hs) = Flat(A) \o (f \o Flat(B))
      BY <1>2, <2>1, FlatReplaced
    <3>2. drafts' = hs
      BY <2>1
    <3>. HIDE DEF hs
    <3>. QED
      BY <3>1, <3>2
  <2>. QED
    BY <2>2 DEF f
<1>. DEFINE f == Fresh(n)
            New == (made + 1)..made'
<1>. HIDE DEF A, B, es, n, f, New
<1>8. Flat(A) \in Seq(Nat) /\ Flat(B) \in Seq(Nat) /\ f \in Seq(Nat) /\ ToSet(f) = New
      /\ Flat(drafts') = Flat(A) \o (f \o Flat(B)) /\ NoDuplicate(f)
  BY <1>3, <1>5, <1>7, FlatType DEF f, New
<1>9. es \o Flat(B) \in Seq(Nat) /\ f \o Flat(B) \in Seq(Nat)
      /\ ToSet(es \o Flat(B)) = ToSet(es) \cup ToSet(Flat(B))
      /\ ToSet(f \o Flat(B)) = New \cup ToSet(Flat(B))
  BY <1>4, <1>8, SetOfConcat, Cat
<1>10. /\ EventsOf(drafts) = ToSet(Flat(A)) \cup ToSet(es) \cup ToSet(Flat(B))
       /\ EventsOf(drafts)' = ToSet(Flat(A)) \cup New \cup ToSet(Flat(B))
  <2>1. EventsOf(drafts) = ToSet(Flat(A)) \cup ToSet(es) \cup ToSet(Flat(B))
    <3>1. ToSet(Flat(A) \o (es \o Flat(B))) = ToSet(Flat(A)) \cup ToSet(es) \cup ToSet(Flat(B))
      BY <1>4, <1>8, SetOfThree
    <3>. QED
      BY <1>6, <3>1 DEF EventsOf
  <2>2. ToSet(Flat(drafts')) = ToSet(Flat(A)) \cup New \cup ToSet(Flat(B))
    <3>1. ToSet(Flat(A) \o (f \o Flat(B))) = ToSet(Flat(A)) \cup ToSet(f) \cup ToSet(Flat(B))
      BY <1>8, SetOfThree
    <3>. QED
      BY <1>8, <3>1
  <2>. QED
    BY <2>1, <2>2 DEF EventsOf
<1>11. NoDuplicate(Flat(drafts)) => NoDuplicate(Flat(drafts))'
  <2>1. EventsOf(drafts) \subseteq 1..made /\ 1..made \cap New = {}
    BY <1>2 DEF IInv, Known, New
  <2>2. ToSet(Flat(A)) \cap New = {} /\ ToSet(Flat(B)) \cap New = {}
    BY <1>10, <2>1
  <2>3. NoDuplicate(Flat(A) \o (es \o Flat(B))) =>
          /\ NoDuplicate(Flat(A)) /\ NoDuplicate(Flat(B))
          /\ \A x \in ToSet(Flat(A)) \cap ToSet(Flat(B)) : x = 0
    BY <1>4, <1>8, <1>9, OnceOfConcat
  <2>4. NoDuplicate(Flat(B)) => NoDuplicate(f \o Flat(B))
    BY <1>8, <2>2, OnceOfConcat
  <2>5. NoDuplicate(Flat(A) \o (es \o Flat(B))) => NoDuplicate(Flat(A) \o (f \o Flat(B)))
    BY <1>8, <1>9, <2>2, <2>3, <2>4, OnceOfConcat
  <2>. QED
    BY <1>6, <1>8, <2>5
<1>12. ASSUME NEW k \in 0..Len(drafts), \A j \in 1..k : drafts[j].id \in submitted_groups
       PROVE  k <= Len(drafts') /\ \A j \in 1..k : drafts'[j] = drafts[j]
  <2>1. k < i /\ Len(drafts) \in Nat
    BY <1>1, <1>2, <1>12
  <2>. QED
    BY <1>2, <1>7, <2>1
<1>13. UNCHANGED <<log, committed, head_seq, status, submitted_groups, waiting, requests,
                   doubts, next_group_id>> /\ Working
  BY DEF ReplaceGroup
<1>14. made <= made' /\ gone' = gone \cup ToSet(es)
  BY <1>1, <1>2, <1>4 DEF es
<1>15. Edited
  <2>1. EventsOf(drafts)' \subseteq EventsOf(drafts) \cup New
    BY <1>10
  <2>2. gone \cup EventsOf(drafts) \cup New \subseteq gone' \cup EventsOf(drafts)'
    BY <1>10, <1>14
  <2>. QED
    BY <1>2, <1>4, <1>7, <1>11, <1>12, <1>13, <1>14, <2>1, <2>2 DEF Edited, New
<1>. QED
  BY <1>15

LEMMA ToggleOrDiscardEdits ==
  ASSUME IInv, ToggleDrafting \/ Discard
  PROVE  Edited
<1>1. made \in Nat /\ drafts \in Seq(Group) /\ next_group_id \in Nat
  BY DEF IInv, Types
<1>2. UNCHANGED <<log, committed, head_seq, status, submitted_groups, waiting, requests,
                  doubts, made, next_group_id>> /\ Working
  BY DEF ToggleDrafting, Discard, history
<1>3. (made + 1)..made' = {} /\ made <= made'
  BY <1>1, <1>2
<1>4. CASE ToggleDrafting
  <2>1. UNCHANGED <<drafts, gone>>
    BY <1>4 DEF ToggleDrafting, history
  <2>2. \A k \in 0..Len(drafts) : k <= Len(drafts')
    BY <1>1, <2>1
  <2>3. Edited
    BY <1>1, <1>2, <1>3, <2>1, <2>2 DEF Edited
  <2>. QED
    BY <2>3
<1>5. CASE Discard
  <2>1. drafts' = <<>> /\ gone' = gone \cup EventsOf(drafts) /\ status # "applying"
    BY <1>5 DEF Discard
  <2>2. submitted_groups = {}
    BY <2>1 DEF IInv, OneApply
  <2>3. drafts' \in Seq(Group) /\ EventsOf(drafts)' = {} /\ NoDuplicate(Flat(drafts))'
    BY <2>1, FlatEmpty, SetOfEmpty DEF EventsOf, NoDuplicate
  <2>4. ASSUME NEW k \in 0..Len(drafts), \A i \in 1..k : drafts[i].id \in submitted_groups
        PROVE  k = 0
    BY <1>1, <2>2, <2>4
  <2>5. Len(drafts') = 0
    BY <2>1
  <2>6. Edited
    BY <1>1, <1>2, <1>3, <2>1, <2>3, <2>4, <2>5 DEF Edited
  <2>. QED
    BY <2>6
<1>. QED
  BY <1>4, <1>5

LEMMA Editing ==
  ASSUME IInv, Stage \/ DiscardGroup \/ ReplaceGroup \/ ToggleDrafting \/ Discard
  PROVE  Edited
BY StageEdits, DiscardGroupEdits, ReplaceGroupEdits, ToggleOrDiscardEdits

(***************************************************************************)
(* What the Worker answers, and what others append.                        *)
(***************************************************************************)
\* The table grows by t; the request of q, if any, is answered.
Grown(t) ==
  /\ t \in Seq(Nat) /\ ToSet(t) \subseteq 0..made /\ log' = log \o t
  /\ doubts' \in Nat /\ (doubts' = 0 => doubts = 0)
  /\ UNCHANGED <<committed, head_seq, drafts, status, next_group_id, submitted_groups, waiting,
                 made, gone>>

AnsweredWith(t, q, answer, news) ==
  /\ Sent(q) /\ answer \in Answers /\ news \in Seq(Nat)
  /\ requests' \in [Slots -> Request]
  /\ \A p \in Slots : p # q => requests'[p] = requests[p]
  /\ q \notin waiting => requests'[q] = Free
  /\ q \in waiting =>
       /\ requests'[q].phase = "answered" /\ requests'[q].answer = answer
       /\ requests'[q].news = news /\ requests'[q].events = requests[q].events
  /\ q \in waiting /\ answer \in {"ok", "stale_head"} => IsPrefix(committed \o news, log \o t)
  /\ answer = "ok" => news = requests[q].events
  /\ doubts' = 0 => IF answer = "ok" THEN t = requests[q].events ELSE t = <<>>

LEMMA RespondIs ==
  ASSUME IInv, NEW q \in Slots, Sent(q), NEW answer \in Answers, NEW news \in Seq(Nat),
         Respond(q, answer, news)
  PROVE  /\ requests' \in [Slots -> Request]
         /\ \A p \in Slots : p # q => requests'[p] = requests[p]
         /\ q \notin waiting => requests'[q] = Free
         /\ q \in waiting =>
              /\ requests'[q].phase = "answered" /\ requests'[q].answer = answer
              /\ requests'[q].news = news /\ requests'[q].events = requests[q].events
<1>. DEFINE new == IF q \in waiting
                   THEN [requests[q] EXCEPT !.phase = "answered", !.answer = answer, !.news = news]
                   ELSE Free
<1>1. requests \in [Slots -> Request] /\ requests[q] \in Request
  BY DEF IInv, Types
<1>2. requests' = [requests EXCEPT ![q] = new]
  BY DEF Respond
<1>3. /\ q \notin waiting => new = Free
      /\ q \in waiting => /\ new.phase = "answered" /\ new.answer = answer
                          /\ new.news = news /\ new.events = requests[q].events
  BY <1>1 DEF Request
<1>4. new \in Request
  <2>1. CASE q \in waiting
    BY <1>1, <2>1 DEF Request
  <2>2. CASE q \notin waiting
    BY <2>2, FreeIs
  <2>. QED
    BY <2>1, <2>2
<1>. HIDE DEF new
<1>. QED
  BY <1>1, <1>2, <1>3, <1>4

LEMMA GrownKeeps ==
  ASSUME IInv, NEW t, Grown(t),
         \/ requests' = requests /\ (doubts' = 0 => ToSet(t) \subseteq {0})
         \/ \E q \in Slots, answer \in Answers, news \in Seq(Nat) :
              AnsweredWith(t, q, answer, news)
  PROVE  IInv'
<1>. USE DEF IInv
<1>1. /\ t \in Seq(Nat) /\ ToSet(t) \subseteq 0..made /\ log' = log \o t
      /\ doubts' \in Nat /\ (doubts' = 0 => doubts = 0)
      /\ committed' = committed /\ head_seq' = head_seq /\ drafts' = drafts
      /\ status' = status /\ next_group_id' = next_group_id
      /\ submitted_groups' = submitted_groups /\ waiting' = waiting
      /\ made' = made /\ gone' = gone
  BY DEF Grown
<1>. DEFINE E == EventsOf(drafts)
            L == ToSet(log)
            Ev(p) == ToSet(requests[p].events)
<1>2. /\ log \in Seq(Nat) /\ log' \in Seq(Nat) /\ ToSet(log') = L \cup ToSet(t)
      /\ committed \in Seq(Nat) /\ requests \in [Slots -> Request] /\ waiting \subseteq Slots
  BY <1>1, SetOfConcat, Cat DEF Types
<1>3. /\ L \subseteq 0..made /\ E \subseteq 1..made /\ E' = E
      /\ \A p \in Slots : Ev(p) \subseteq 1..made
  BY <1>1 DEF Known, EventsOf
\* Whatever a slot holds after the step, it held before.
<1>4. /\ requests' \in [Slots -> Request]
      /\ \A p \in Slots : \/ requests'[p] = requests[p]
                          \/ /\ Sent(p) /\ p \notin waiting /\ requests'[p] = Free
                          \/ /\ Sent(p) /\ p \in waiting /\ requests'[p].phase = "answered"
                             /\ requests'[p].events = requests[p].events
                             /\ requests'[p].answer \in {"ok", "stale_head"} =>
                                  IsPrefix(committed \o requests'[p].news, log \o t)
                             /\ requests'[p].answer = "ok" => requests'[p].news = requests'[p].events
  <2>1. CASE requests' = requests
    BY <1>2, <2>1
  <2>2. CASE \E q \in Slots, answer \in Answers, news \in Seq(Nat) :
               AnsweredWith(t, q, answer, news)
    <3>1. PICK q \in Slots, answer \in Answers, news \in Seq(Nat) :
                 AnsweredWith(t, q, answer, news)
      BY <2>2
    <3>2. ASSUME NEW p \in Slots, p # q PROVE requests'[p] = requests[p]
      BY <3>1, <3>2 DEF AnsweredWith
    <3>3. CASE q \in waiting
      <4>1. /\ Sent(q) /\ requests'[q].phase = "answered"
            /\ requests'[q].events = requests[q].events
            /\ requests'[q].answer = answer /\ requests'[q].news = news
            /\ answer \in {"ok", "stale_head"} => IsPrefix(committed \o news, log \o t)
            /\ answer = "ok" => news = requests[q].events
        BY <3>1, <3>3 DEF AnsweredWith
      <4>2. requests'[q].answer = "ok" => requests'[q].news = requests'[q].events
        BY <4>1
      <4>3. requests'[q].answer \in {"ok", "stale_head"} =>
              IsPrefix(committed \o requests'[q].news, log \o t)
        BY <4>1
      <4>. QED
        BY <3>1, <3>2, <3>3, <4>1, <4>2, <4>3 DEF AnsweredWith
    <3>4. CASE q \notin waiting
      BY <3>1, <3>2, <3>4 DEF AnsweredWith
    <3>. QED
      BY <3>3, <3>4
  <2>. QED
    BY <2>1, <2>2
<1>. HIDE DEF E, L, Ev
<1>5. \A p \in Slots : /\ requests'[p].phase = "sent" => requests'[p] = requests[p] /\ Sent(p)
                       /\ requests'[p].events = requests[p].events \/ requests'[p].events = <<>>
                       /\ p \in waiting => requests'[p].events = requests[p].events
  BY <1>4, FreeIs DEF Sent
<1>6. Types'
  BY <1>1, <1>2, <1>4 DEF Types
<1>7. Known'
  <2>1. \A p \in Slots : ToSet(requests'[p].events) \subseteq 1..made
    BY <1>3, <1>5, SetOfEmpty DEF Ev
  <2>. QED
    BY <1>1, <1>2, <1>3, <2>1 DEF Known, E
<1>8. OneApply'
  <2>1. ASSUME NEW p \in Slots, requests'[p].phase = "answered" PROVE p \in waiting
    BY <1>4, <2>1, FreeIs DEF OneApply
  <2>2. ASSUME status = "applying" PROVE \E q \in Slots : Awaited(q)'
    <3>1. PICK q \in Slots : Awaited(q)
      BY <2>2 DEF OneApply
    <3>2. q \in waiting /\ requests'[q].phase \in {"sent", "answered"}
      BY <1>4, <3>1 DEF Awaited
    <3>. QED
      BY <1>1, <3>1, <3>2 DEF Awaited
  <2>. QED
    BY <1>1, <2>1, <2>2 DEF OneApply, Working
<1>9. Prefix'
  <2>1. IsPrefix(committed, log)'
    BY <1>1, <1>2, PrefixExtends DEF Prefix
  <2>2. ASSUME NEW q \in waiting
        PROVE  (/\ requests[q].phase = "sent" => requests[q].input = head_seq
                /\ requests[q].phase = "answered" /\ requests[q].answer \in {"ok", "stale_head"} =>
                     IsPrefix(committed \o requests[q].news, log)
                /\ requests[q].phase = "answered" /\ requests[q].answer = "ok" =>
                     requests[q].news = requests[q].events)'
    <3>1. CASE requests'[q] = requests[q]
      <4>1. committed \o requests[q].news \in Seq(Nat)
        BY <1>2, Cat DEF Request
      <4>2. IsPrefix(committed \o requests[q].news, log) => IsPrefix(committed \o requests[q].news, log')
        BY <1>1, <1>2, <4>1, PrefixExtends
      <4>. QED
        BY <1>1, <1>2, <3>1, <4>2 DEF Prefix
    <3>2. CASE requests'[q] # requests[q]
      BY <1>1, <1>2, <1>4, <3>2
    <3>. QED
      BY <3>1, <3>2
  <2>. QED
    BY <1>1, <2>1, <2>2 DEF Prefix
<1>10. SubmittedFirst'
  BY <1>1, <1>2, <1>5 DEF SubmittedFirst, Submitted
<1>11. NothingLost'
  BY <1>1, <1>2, <1>3 DEF NothingLost, E, L
<1>12. OnceEach'
  <2>. SUFFICES ASSUME doubts' = 0 PROVE Once'
    BY DEF OnceEach
  <2>1. Once /\ doubts = 0
    BY <1>1 DEF OnceEach
  \* The new events are other people's, or those of the request that is answered "ok".
  <2>2. \/ ToSet(t) \subseteq {0} /\ (requests' = requests \/ \A p \in Slots : Acknowledging(p) => Acknowledging(p)')
        \/ \E q \in Slots : /\ Sent(q) /\ t = requests[q].events /\ requests'[q].phase # "sent"
                            /\ q \in waiting => Acknowledging(q)'
    <3>1. CASE requests' = requests /\ ToSet(t) \subseteq {0}
      BY <3>1
    <3>2. CASE \E q \in Slots, answer \in Answers, news \in Seq(Nat) :
                 AnsweredWith(t, q, answer, news)
      <4>1. PICK q \in Slots, answer \in Answers, news \in Seq(Nat) :
                   AnsweredWith(t, q, answer, news)
        BY <3>2
      <4>2. Sent(q) /\ requests'[q].phase # "sent"
        BY <4>1, FreeIs DEF AnsweredWith
      <4>3. CASE answer = "ok"
        <5>1. t = requests[q].events
          BY <4>1, <4>3 DEF AnsweredWith
        <5>2. q \in waiting => Acknowledging(q)'
          BY <1>1, <4>1, <4>3 DEF AnsweredWith, Acknowledging
        <5>. QED
          BY <4>2, <5>1, <5>2
      <4>4. CASE answer # "ok"
        <5>1. t = <<>>
          BY <4>1, <4>4 DEF AnsweredWith
        <5>2. ASSUME NEW p \in Slots, Acknowledging(p) PROVE Acknowledging(p)'
          <6>1. p # q
            BY <4>2, <5>2 DEF Acknowledging, Sent
          <6>2. requests'[p] = requests[p]
            BY <4>1, <6>1 DEF AnsweredWith
          <6>. QED
            BY <1>1, <5>2, <6>2 DEF Acknowledging
        <5>. QED
          BY <5>1, <5>2, SetOfEmpty
      <4>. QED
        BY <4>3, <4>4
    <3>. QED
      BY <3>1, <3>2
  <2>3. \A p, q \in Slots : p # q /\ Sent(p) /\ Sent(q) => Apart(Ev(p), Ev(q))
    BY <2>1 DEF Once, SentOnce, Ev
  <2>4. \A p \in Slots : Sent(p) => /\ NoDuplicate(requests[p].events) /\ Apart(Ev(p), L)
                                    /\ p \notin waiting => Apart(Ev(p), E)
    BY <2>1 DEF Once, SentOnce, Ev, L, E
  <2>5. \A p \in Slots : 0 \notin Ev(p)
    BY <1>3
  <2>6. 0 \notin E
    BY <1>3
  <2>7. NoDuplicate(log) /\ NoDuplicate(Flat(drafts)) /\ Apart(E, ToSet(committed))
        /\ (status # "stale_build" => Unsaved)
    BY <2>1 DEF Once, E
  <2>8. CASE /\ ToSet(t) \subseteq {0}
             /\ requests' = requests \/ \A p \in Slots : Acknowledging(p) => Acknowledging(p)'
    <3>1. NoDuplicate(log')
      <4>1. NoDuplicate(t)
        <5>1. \A i \in 1..Len(t) : t[i] = 0
          <6>. TAKE i \in 1..Len(t)
          <6>1. t[i] \in ToSet(t)
            BY <1>1, SetOf
          <6>. QED
            BY <2>8, <6>1
        <5>. QED
          BY <5>1 DEF NoDuplicate
      <4>. QED
        BY <1>1, <1>2, <2>7, <2>8, <4>1, OnceOfConcat
    <3>2. ASSUME NEW p \in Slots, Sent(p)' PROVE SentOnce(p)'
      <4>1. Sent(p) /\ requests'[p] = requests[p]
        BY <1>5, <3>2 DEF Sent
      <4>2. Apart(Ev(p), L \cup ToSet(t))
        BY <2>4, <2>5, <2>8, <4>1 DEF Apart
      <4>3. ASSUME NEW s \in Slots, s # p, Sent(s)'
            PROVE  Apart(Ev(p), ToSet(requests'[s].events))
        <5>1. Sent(s) /\ requests'[s] = requests[s]
          BY <1>5, <4>3 DEF Sent
        <5>. QED
          BY <2>3, <4>1, <4>3, <5>1 DEF Ev
      <4>. QED
        BY <1>1, <1>2, <1>3, <2>4, <4>1, <4>2, <4>3 DEF SentOnce, Ev, E
    <3>3. ASSUME status # "stale_build" PROVE Unsaved'
      <4>1. CASE Apart(E, L)
        <5>1. Apart(E, L \cup ToSet(t))
          BY <2>6, <2>8, <4>1 DEF Apart
        <5>. QED
          BY <1>2, <1>3, <5>1 DEF Unsaved, E
      <4>2. CASE \E q \in Slots : Acknowledging(q) /\ Apart(E \ Ev(q), L)
        <5>1. PICK q \in Slots : Acknowledging(q) /\ Apart(E \ Ev(q), L)
          BY <4>2
        <5>2. Acknowledging(q)' /\ requests'[q].events = requests[q].events
          <6>1. Acknowledging(q)'
            BY <1>1, <2>8, <5>1 DEF Acknowledging
          <6>. QED
            BY <1>5, <5>1, <6>1 DEF Acknowledging
        <5>3. Apart(E \ Ev(q), L \cup ToSet(t))
          BY <2>6, <2>8, <5>1 DEF Apart
        <5>. QED
          BY <1>2, <1>3, <5>2, <5>3 DEF Unsaved, E, Ev
      <4>. QED
        BY <2>7, <3>3, <4>1, <4>2 DEF Unsaved, E, L, Ev
    <3>. QED
      BY <1>1, <1>3, <2>7, <3>1, <3>2, <3>3 DEF Once, E
  <2>9. CASE \E q \in Slots : /\ Sent(q) /\ t = requests[q].events /\ requests'[q].phase # "sent"
                              /\ q \in waiting => Acknowledging(q)'
    <3>1. PICK q \in Slots : /\ Sent(q) /\ t = requests[q].events /\ requests'[q].phase # "sent"
                             /\ q \in waiting => Acknowledging(q)'
      BY <2>9
    <3>2. ToSet(t) = Ev(q) /\ NoDuplicate(t) /\ Apart(Ev(q), L)
      BY <2>4, <3>1 DEF Ev
    <3>3. NoDuplicate(log')
      BY <1>1, <1>2, <2>7, <3>2, OnceOfConcat DEF Apart, L
    <3>4. ASSUME NEW p \in Slots, Sent(p)' PROVE SentOnce(p)'
      <4>1. Sent(p) /\ requests'[p] = requests[p] /\ p # q
        BY <1>5, <3>1, <3>4 DEF Sent
      <4>2. Apart(Ev(p), L \cup ToSet(t))
        <5>1. Apart(Ev(p), L) /\ Apart(Ev(p), Ev(q))
          BY <2>3, <2>4, <3>1, <4>1
        <5>. QED
          BY <3>2, <5>1 DEF Apart
      <4>3. ASSUME NEW s \in Slots, s # p, Sent(s)'
            PROVE  Apart(Ev(p), ToSet(requests'[s].events))
        <5>1. Sent(s) /\ requests'[s] = requests[s]
          BY <1>5, <4>3 DEF Sent
        <5>. QED
          BY <2>3, <4>1, <4>3, <5>1 DEF Ev
      <4>. QED
        BY <1>1, <1>2, <1>3, <2>4, <4>1, <4>2, <4>3 DEF SentOnce, Ev, E
    <3>5. ASSUME status # "stale_build" PROVE Unsaved'
      <4>1. CASE q \in waiting
        <5>1. Apart(E, L)
          <6>1. ASSUME NEW p \in Slots, Acknowledging(p) PROVE FALSE
            <7>1. status = "applying"
              BY <4>1 DEF OneApply
            <7>2. p = q
              BY <4>1, <6>1, <7>1 DEF OneApply, Awaited, Acknowledging
            <7>. QED
              BY <3>1, <6>1, <7>2 DEF Acknowledging, Sent
          <6>. QED
            BY <2>7, <3>5, <6>1 DEF Unsaved, E, L
        <5>2. Apart(E \ Ev(q), L \cup ToSet(t))
          BY <3>2, <5>1 DEF Apart
        <5>3. requests'[q].events = requests[q].events
          BY <1>5, <4>1
        <5>. QED
          BY <1>2, <1>3, <3>1, <4>1, <5>2, <5>3 DEF Unsaved, E, Ev
      <4>2. CASE q \notin waiting
        <5>1. Apart(Ev(q), E)
          BY <2>4, <3>1, <4>2
        <5>2. CASE Apart(E, L)
          <6>1. Apart(E, L \cup ToSet(t))
            BY <3>2, <5>1, <5>2 DEF Apart
          <6>. QED
            BY <1>2, <1>3, <6>1 DEF Unsaved, E
        <5>3. CASE \E p \in Slots : Acknowledging(p) /\ Apart(E \ Ev(p), L)
          <6>1. PICK p \in Slots : Acknowledging(p) /\ Apart(E \ Ev(p), L)
            BY <5>3
          <6>2. p \in waiting /\ requests[p].phase = "answered"
            BY <6>1 DEF Acknowledging
          <6>3. requests'[p] = requests[p]
            BY <1>4, <6>2 DEF Sent
          <6>4. Acknowledging(p)'
            BY <1>1, <6>1, <6>3 DEF Acknowledging
          <6>5. Apart(E \ Ev(p), L \cup ToSet(t))
            BY <3>2, <5>1, <6>1 DEF Apart
          <6>. QED
            BY <1>2, <1>3, <6>3, <6>4, <6>5 DEF Unsaved, E, Ev
        <5>. QED
          BY <2>7, <3>5, <5>2, <5>3 DEF Unsaved, E, L, Ev
      <4>. QED
        BY <4>1, <4>2
    <3>. QED
      BY <1>1, <1>3, <2>7, <3>3, <3>4, <3>5 DEF Once, E
  <2>. QED
    BY <2>2, <2>8, <2>9
<1>. QED
  BY <1>6, <1>7, <1>8, <1>9, <1>10, <1>11, <1>12

\* The page that awaits a sent request names the length of what it holds as the head.
LEMMA AnswerKeeps ==
  ASSUME IInv, NEW q \in Slots, Answer(q) \/ LoseAnswer(q) \/ TearBatch(q)
  PROVE  IInv'
<1>. DEFINE r == requests[q]
            es == r.events
<1>1. /\ log \in Seq(Nat) /\ committed \in Seq(Nat) /\ doubts \in Nat /\ made \in Nat
      /\ r \in Request /\ es \in Seq(Nat) /\ ToSet(es) \subseteq 1..made
      /\ IsPrefix(committed, log) /\ head_seq = Len(committed)
      /\ requests \in [Slots -> Request]
  BY DEF IInv, Types, Known, Request, Prefix
<1>2. Sent(q) /\ q \in waiting => r.input = Len(committed)
  BY <1>1 DEF IInv, Prefix, Sent
<1>3. 1..made \subseteq 0..made /\ 0 \in 0..made
  BY <1>1
<1>4. log \o <<>> = log /\ <<>> \in Seq(Nat) /\ ToSet(<<>>) \subseteq 0..made
  BY <1>1, SetOfEmpty
<1>5. UNCHANGED <<page, made, gone>>
  BY DEF Answer, AnswerOk, AnswerStale, AnswerFailed, LoseAnswer, TearBatch, history
<1>. HIDE DEF r, es
\* A page whose head is the end of the table holds the whole table.
<1>6. ASSUME Sent(q), q \in waiting, r.input = Len(log) PROVE committed = log
  <2>1. Len(committed) = Len(log)
    BY <1>2, <1>6
  <2>2. PICK u \in Seq(Nat) : log = committed \o u
    BY <1>1, PrefixSplit
  <2>3. Len(log) = Len(committed) + Len(u) /\ Len(u) \in Nat /\ Len(committed) \in Nat
    BY <1>1, <2>2, Cat
  <2>4. u = <<>>
    BY <2>1, <2>2, <2>3
  <2>. QED
    BY <1>1, <2>2, <2>4
<1>7. ASSUME NEW t \in Seq(Nat), Sent(q), q \in waiting, r.input = Len(log)
      PROVE  IsPrefix(committed \o t, log \o t)
  <2>1. log \o t \in Seq(Nat)
    BY <1>1, Cat
  <2>. QED
    BY <1>6, <1>7, <2>1, PrefixSelf
<1>8. CASE AnswerOk(q)
  <2>1. /\ Sent(q) /\ r.input = Len(log) /\ log' = log \o es /\ Respond(q, "ok", es)
        /\ doubts' = doubts
    BY <1>8 DEF AnswerOk, history, Sent, r, es
  <2>2. Grown(es)
    BY <1>1, <1>3, <1>5, <2>1 DEF Grown, page
  <2>3. AnsweredWith(es, q, "ok", es)
    BY <1>1, <1>7, <2>1, RespondIs DEF AnsweredWith, Answers, es, r
  <2>. QED
    BY <1>1, <2>2, <2>3, GrownKeeps DEF Answers
<1>9. CASE AnswerStale(q)
  <2>. DEFINE news == Since(r.input)
  <2>1. Sent(q) /\ Respond(q, "stale_head", news) /\ log' = log /\ doubts' = doubts
    BY <1>9 DEF AnswerStale, history, Sent, r
  <2>2. news \in Seq(Nat)
    <3>1. r.input \in Nat
      BY <1>1 DEF Request
    <3>. QED
      BY <1>1, <3>1 DEF Since
  <2>3. q \in waiting => IsPrefix(committed \o news, log)
    <3>. SUFFICES ASSUME q \in waiting PROVE IsPrefix(committed \o news, log)
      OBVIOUS
    <3>1. news = SubSeq(log, Len(committed) + 1, Len(log))
      BY <1>2, <2>1 DEF Since
    <3>2. committed \o news = log
      BY <1>1, <3>1, PrefixSince
    <3>. QED
      BY <1>1, <3>2, PrefixSelf
  <2>. HIDE DEF news
  <2>4. Grown(<<>>)
    BY <1>1, <1>4, <1>5, <2>1 DEF Grown, page
  <2>5. AnsweredWith(<<>>, q, "stale_head", news)
    BY <1>4, <2>1, <2>2, <2>3, RespondIs DEF AnsweredWith, Answers
  <2>. QED
    BY <2>2, <2>4, <2>5, GrownKeeps DEF Answers
<1>10. CASE AnswerFailed(q)
  <2>1. PICK a \in {"stale_build", "failed"} : Respond(q, a, <<>>)
    BY <1>10 DEF AnswerFailed
  <2>2. Sent(q) /\ log' = log /\ doubts' = doubts
    BY <1>10 DEF AnswerFailed, history, Sent
  <2>3. Grown(<<>>)
    BY <1>1, <1>4, <1>5, <2>2 DEF Grown, page
  <2>4. a \in Answers /\ a # "ok" /\ a \notin {"ok", "stale_head"}
    BY DEF Answers
  <2>5. AnsweredWith(<<>>, q, a, <<>>)
    BY <1>4, <2>1, <2>2, <2>4, RespondIs DEF AnsweredWith
  <2>. QED
    BY <1>4, <2>3, <2>4, <2>5, GrownKeeps
<1>11. CASE LoseAnswer(q)
  <2>1. /\ Sent(q) /\ log' = log \o es /\ Respond(q, "failed", <<>>) /\ doubts' = doubts + 1
    BY <1>11 DEF LoseAnswer, Sent, r, es
  <2>2. doubts' \in Nat /\ doubts' # 0
    BY <1>1, <2>1
  <2>3. Grown(es)
    BY <1>1, <1>3, <1>5, <2>1, <2>2 DEF Grown, page
  <2>4. AnsweredWith(es, q, "failed", <<>>)
    BY <1>4, <2>1, <2>2, RespondIs DEF AnsweredWith, Answers
  <2>. QED
    BY <1>4, <2>3, <2>4, GrownKeeps DEF Answers
<1>12. CASE TearBatch(q)
  <2>. DEFINE torn == <<0>> \o Tail(es)
  <2>1. /\ Sent(q) /\ r.input = Len(log) /\ log' = log \o torn /\ Respond(q, "stale_head", torn)
        /\ doubts' = doubts + 1 /\ Len(es) > 1
    BY <1>12 DEF TearBatch, Sent, r, es
  <2>2. doubts' \in Nat /\ doubts' # 0
    BY <1>1, <2>1
  <2>3. torn \in Seq(Nat) /\ ToSet(torn) \subseteq 0..made
    <3>1. /\ Tail(es) \in Seq(Nat) /\ Len(Tail(es)) = Len(es) - 1 /\ Len(es) \in Nat
          /\ \A i \in 1..Len(Tail(es)) : Tail(es)[i] = es[i + 1] /\ i + 1 \in 1..Len(es)
      BY <1>1, <2>1
    <3>2. ASSUME NEW x \in ToSet(Tail(es)) PROVE x \in ToSet(es)
      <4>1. PICK i \in 1..Len(Tail(es)) : Tail(es)[i] = x
        BY <3>1, <3>2, SetOf
      <4>2. es[i + 1] = x /\ i + 1 \in 1..Len(es)
        BY <3>1, <4>1
      <4>. QED
        BY <1>1, <4>2, SetOf
    <3>3. <<0>> \in Seq(Nat) /\ ToSet(<<0>>) = {0}
      BY DEF ToSet
    <3>. QED
      <4>1. torn \in Seq(Nat) /\ ToSet(torn) = {0} \cup ToSet(Tail(es))
        BY <3>1, <3>3, SetOfConcat, Cat
      <4>2. ToSet(Tail(es)) \subseteq 0..made
        BY <1>1, <1>3, <3>2
      <4>. QED
        BY <1>3, <4>1, <4>2
  <2>. HIDE DEF torn
  <2>4. Grown(torn)
    BY <1>1, <1>5, <2>1, <2>2, <2>3 DEF Grown, page
  <2>5. AnsweredWith(torn, q, "stale_head", torn)
    BY <1>7, <2>1, <2>2, <2>3, RespondIs DEF AnsweredWith, Answers
  <2>. QED
    BY <2>3, <2>4, <2>5, GrownKeeps DEF Answers
<1>. QED
  BY <1>8, <1>9, <1>10, <1>11, <1>12 DEF Answer

LEMMA ElsewhereKeeps ==
  ASSUME IInv, Elsewhere
  PROVE  IInv'
<1>1. log' = log \o <<0>> /\ UNCHANGED <<page, requests, history>>
  BY DEF Elsewhere, IInv, Types
<1>2. <<0>> \in Seq(Nat) /\ ToSet(<<0>>) = {0}
  BY DEF ToSet
<1>3. made \in Nat /\ doubts \in Nat
  BY DEF IInv, Types
<1>4. Grown(<<0>>)
  BY <1>1, <1>2, <1>3 DEF Grown, page, history
<1>. QED
  BY <1>1, <1>2, <1>4, GrownKeeps

(***************************************************************************)
(* The page loads, reloads and asks.                                       *)
(***************************************************************************)
LEMMA LoadKeeps ==
  ASSUME IInv, Load \/ LoadFails
  PROVE  IInv'
<1>. USE DEF IInv
<1>1. status = "loading" /\ waiting = {} /\ submitted_groups = {} /\ drafts = <<>>
      /\ committed = <<>>
  BY DEF Load, LoadFails, OneApply
<1>2. /\ UNCHANGED <<log, next_group_id, submitted_groups, waiting, requests, made, gone, doubts>>
      /\ drafts' = <<>> /\ status' \in {"ready", "load_error", "stale_build"}
      /\ status' = "ready" \/ drafts' = <<>>
      /\ committed' \in {committed, log} /\ head_seq' = Len(committed')
  BY <1>1 DEF Load, LoadFails, Failed, history, Prefix
<1>3. log \in Seq(Nat) /\ committed \in Seq(Nat) /\ committed' \in Seq(Nat) /\ <<>> \in Seq(Group)
  BY <1>2 DEF Types
<1>4. EventsOf(drafts)' = {} /\ EventsOf(drafts) = {} /\ Flat(drafts') = <<>>
      /\ NoDuplicate(<<>>)
  BY <1>1, <1>2, FlatEmpty, SetOfEmpty DEF EventsOf, NoDuplicate
<1>5. Types'
  BY <1>2, <1>3 DEF Types
<1>6. Known'
  BY <1>2, <1>4 DEF Known
<1>7. OneApply'
  BY <1>1, <1>2 DEF OneApply, Working
<1>8. Prefix' /\ SubmittedFirst'
  <2>1. IsPrefix(committed', log)
    BY <1>2, <1>3, PrefixSelf DEF Prefix
  <2>. QED
    BY <1>1, <1>2, <2>1 DEF Prefix, SubmittedFirst
<1>9. NothingLost'
  BY <1>2, <1>4 DEF NothingLost
<1>10. OnceEach'
  <2>. SUFFICES ASSUME doubts = 0 PROVE Once'
    BY <1>2 DEF OnceEach
  <2>1. Once
    BY DEF OnceEach
  <2>2. ASSUME NEW q \in Slots, Sent(q)' PROVE SentOnce(q)'
    <3>1. SentOnce(q)
      BY <1>2, <2>1, <2>2 DEF Once, Sent
    <3>. QED
      BY <1>2, <1>4, <3>1 DEF SentOnce, Apart, Sent
  <2>. QED
    BY <1>2, <1>4, <2>1, <2>2 DEF Once, Unsaved, Apart
<1>. QED
  BY <1>5, <1>6, <1>7, <1>8, <1>9, <1>10

LEMMA ReloadKeeps ==
  ASSUME IInv, Reload
  PROVE  IInv'
<1>. USE DEF IInv
<1>1. /\ committed' = <<>> /\ head_seq' = 0 /\ drafts' = <<>> /\ status' = "loading"
      /\ next_group_id' = 1 /\ submitted_groups' = {} /\ waiting' = {}
      /\ gone' = gone \cup EventsOf(drafts)
      /\ log' = log /\ made' = made /\ doubts' = doubts
  BY DEF Reload
<1>2. \A q \in Slots : requests'[q] = IF requests[q].phase = "answered" THEN Free ELSE requests[q]
  BY DEF Reload
<1>3. requests \in [Slots -> Request] /\ log \in Seq(Nat) /\ made \in Nat /\ doubts \in Nat
  BY DEF Types
<1>4. requests' \in [Slots -> Request]
  BY <1>3, FreeIs DEF Reload
<1>5. \A q \in Slots : /\ Sent(q)' => Sent(q) /\ requests'[q] = requests[q]
                       /\ requests'[q].phase # "answered"
                       /\ requests'[q].events = requests[q].events \/ requests'[q].events = <<>>
  BY <1>2, FreeIs DEF Sent
<1>6. /\ EventsOf(drafts)' = {} /\ Flat(drafts') = <<>> /\ NoDuplicate(<<>>) /\ ToSet(<<>>) = {}
      /\ Len(<<>>) = 0
  BY <1>1, FlatEmpty, SetOfEmpty DEF EventsOf, NoDuplicate
<1>7. Types'
  BY <1>1, <1>3, <1>4 DEF Types
<1>8. Known'
  BY <1>1, <1>5, <1>6 DEF Known
<1>9. OneApply'
  BY <1>1, <1>5 DEF OneApply, Working
<1>10. Prefix' /\ SubmittedFirst'
  BY <1>1, <1>3, <1>6, PrefixSelf DEF Prefix, SubmittedFirst
<1>11. NothingLost'
  BY <1>1 DEF NothingLost
<1>12. OnceEach'
  <2>. SUFFICES ASSUME doubts = 0 PROVE Once'
    BY <1>1 DEF OnceEach
  <2>1. Once
    BY DEF OnceEach
  <2>2. ASSUME NEW q \in Slots, Sent(q)' PROVE SentOnce(q)'
    <3>1. SentOnce(q) /\ requests'[q] = requests[q]
      BY <1>5, <2>1, <2>2 DEF Once
    <3>2. ASSUME NEW p \in Slots, p # q, Sent(p)'
          PROVE  Apart(ToSet(requests[q].events), ToSet(requests'[p].events))
      BY <1>5, <3>1, <3>2 DEF SentOnce
    <3>. QED
      BY <1>1, <1>6, <3>1, <3>2 DEF SentOnce, Apart
  <2>. QED
    BY <1>1, <1>6, <2>1, <2>2 DEF Once, Unsaved, Apart
<1>. QED
  BY <1>7, <1>8, <1>9, <1>10, <1>11, <1>12

LEMMA StartApplyKeeps ==
  ASSUME IInv, StartApply
  PROVE  IInv'
<1>. USE DEF IInv
<1>. DEFINE es == Flat(drafts)
            new == [Free EXCEPT !.phase = "sent", !.input = head_seq, !.events = es]
<1>1. PICK q \in Slots : /\ requests[q].phase = "free"
                         /\ requests' = [requests EXCEPT ![q] = new]
                         /\ waiting' = {q}
  BY DEF StartApply
<1>2. /\ status' = "applying" /\ submitted_groups' = GroupIds(drafts)
      /\ UNCHANGED <<log, committed, head_seq, drafts, next_group_id, made, gone, doubts>>
      /\ Working /\ status # "applying"
  BY DEF StartApply, history
<1>3. waiting = {} /\ status # "stale_build" /\ status # "loading" /\ status # "load_error"
  BY <1>2 DEF OneApply, Working
<1>4. /\ requests \in [Slots -> Request] /\ log \in Seq(Nat) /\ drafts \in Seq(Group)
      /\ committed \in Seq(Nat) /\ head_seq = Len(committed) /\ es \in Seq(Nat)
  BY FlatType DEF Types, Prefix
<1>5. new \in Request /\ new.phase = "sent" /\ new.input = head_seq /\ new.events = es
  <2>1. Free \in Request /\ head_seq \in Nat
    BY <1>4, FreeIs
  <2>. HIDE DEF es
  <2>. QED
    BY <1>4, <2>1 DEF Request
<1>. HIDE DEF new, es
<1>6. /\ requests' \in [Slots -> Request] /\ requests'[q] = new
      /\ \A p \in Slots : p # q => requests'[p] = requests[p]
  BY <1>1, <1>4, <1>5
<1>7. Types'
  BY <1>1, <1>2, <1>6 DEF Types
<1>8. Known'
  BY <1>2, <1>5, <1>6 DEF Known, EventsOf, es
<1>9. OneApply'
  BY <1>1, <1>2, <1>3, <1>5, <1>6 DEF OneApply, Working, Awaited
<1>10. Prefix'
  BY <1>1, <1>2, <1>5, <1>6 DEF Prefix
<1>11. SubmittedFirst'
  <2>1. Len(drafts) \in 0..Len(drafts) /\ SubSeq(drafts, 1, Len(drafts)) = drafts
    BY <1>4
  <2>2. \A i \in 1..Len(drafts) : drafts[i].id \in GroupIds(drafts)
    BY DEF GroupIds
  <2>3. Submitted(q, Len(drafts))'
    BY <1>2, <1>5, <1>6, <2>1, <2>2 DEF Submitted, es
  <2>. QED
    BY <1>1, <1>2, <2>1, <2>3 DEF SubmittedFirst
<1>12. NothingLost'
  BY <1>2 DEF NothingLost, EventsOf
<1>13. OnceEach'
  <2>. SUFFICES ASSUME doubts = 0 PROVE Once'
    BY <1>2 DEF OnceEach
  <2>1. Once
    BY DEF OnceEach
  <2>2. Apart(EventsOf(drafts), ToSet(log))
    BY <1>3, <2>1 DEF Once, Unsaved, Acknowledging
  <2>3. ASSUME NEW p \in Slots, p # q, Sent(p)'
        PROVE  SentOnce(p) /\ Apart(ToSet(requests[p].events), EventsOf(drafts))
               /\ requests'[p] = requests[p] /\ Sent(p)
    <3>1. SentOnce(p) /\ requests'[p] = requests[p] /\ Sent(p)
      BY <1>6, <2>1, <2>3 DEF Once, Sent
    <3>. QED
      BY <1>3, <3>1 DEF SentOnce
  <2>4. SentOnce(q)'
    <3>1. NoDuplicate(es) /\ ToSet(es) = EventsOf(drafts)
      BY <2>1 DEF Once, es, EventsOf
    <3>2. \A p \in Slots : p # q /\ Sent(p)' => Apart(ToSet(es), ToSet(requests'[p].events))
      BY <2>3, <3>1 DEF Apart
    <3>. QED
      BY <1>1, <1>2, <1>5, <1>6, <2>2, <3>1, <3>2 DEF SentOnce
  <2>5. ASSUME NEW p \in Slots, p # q, Sent(p)' PROVE SentOnce(p)'
    <3>1. SentOnce(p) /\ Apart(ToSet(requests[p].events), EventsOf(drafts))
          /\ requests'[p] = requests[p]
      BY <2>3, <2>5
    <3>2. ASSUME NEW s \in Slots, s # p, Sent(s)'
          PROVE  Apart(ToSet(requests[p].events), ToSet(requests'[s].events))
      <4>1. CASE s = q
        BY <1>5, <1>6, <3>1, <4>1 DEF EventsOf, es
      <4>2. CASE s # q
        BY <2>3, <3>1, <3>2, <4>2 DEF SentOnce
      <4>. QED
        BY <4>1, <4>2
    <3>. QED
      BY <1>1, <1>2, <3>1, <3>2 DEF SentOnce, EventsOf
  <2>6. Unsaved'
    BY <1>2, <2>2 DEF Unsaved, EventsOf
  <2>. QED
    BY <1>2, <2>1, <2>4, <2>5, <2>6 DEF Once, EventsOf
<1>. QED
  BY <1>7, <1>8, <1>9, <1>10, <1>11, <1>12, <1>13

(***************************************************************************)
(* The page takes an answer.                                               *)
(***************************************************************************)
\* The request is forgotten; the page keeps a prefix of the table, and in the buffer
\* what is not in it.
Taken(q) ==
  /\ status = "applying" /\ waiting = {q}
  /\ waiting' = {} /\ submitted_groups' = {} /\ UNCHANGED <<log, next_group_id, made, gone, doubts>>
  /\ requests' = [requests EXCEPT ![q] = Free]
  /\ status' \in {"ready", "stale_head", "stale_build", "error"}
  /\ committed' \in Seq(Nat) /\ IsPrefix(committed', log) /\ head_seq' = Len(committed')
  /\ drafts' \in Seq(Group)
  /\ EventsOf(drafts)' \subseteq EventsOf(drafts)
  /\ EventsOf(drafts) \subseteq EventsOf(drafts)' \cup ToSet(log)
  /\ doubts = 0 => /\ NoDuplicate(Flat(drafts))'
                   /\ Apart(EventsOf(drafts)', ToSet(committed'))
                   /\ status' # "stale_build" => Apart(EventsOf(drafts)', ToSet(log))

LEMMA TakenKeeps ==
  ASSUME IInv, NEW q \in Slots, Taken(q)
  PROVE  IInv'
<1>. USE DEF IInv
<1>1. /\ status = "applying" /\ waiting = {q} /\ waiting' = {} /\ submitted_groups' = {}
      /\ UNCHANGED <<log, next_group_id, made, gone, doubts>>
      /\ status' \in {"ready", "stale_head", "stale_build", "error"}
      /\ committed' \in Seq(Nat) /\ IsPrefix(committed', log) /\ head_seq' = Len(committed')
      /\ drafts' \in Seq(Group)
      /\ EventsOf(drafts)' \subseteq EventsOf(drafts)
      /\ EventsOf(drafts) \subseteq EventsOf(drafts)' \cup ToSet(log)
  BY DEF Taken
<1>2. /\ requests \in [Slots -> Request] /\ requests' \in [Slots -> Request]
      /\ requests'[q] = Free /\ \A p \in Slots : p # q => requests'[p] = requests[p]
  BY FreeIs DEF Types, Taken
<1>3. \A p \in Slots : /\ Sent(p)' => Sent(p) /\ requests'[p] = requests[p] /\ p # q
                       /\ requests'[p].phase = "answered" => requests[p].phase = "answered" /\ p # q
                       /\ requests'[p].events = requests[p].events \/ requests'[p].events = <<>>
  BY <1>2, FreeIs DEF Sent
<1>4. Types'
  BY <1>1, <1>2 DEF Types
<1>5. Known'
  BY <1>1, <1>3, SetOfEmpty DEF Known
<1>6. OneApply'
  BY <1>1, <1>3 DEF OneApply, Working
<1>7. Prefix' /\ SubmittedFirst'
  BY <1>1 DEF Prefix, SubmittedFirst
<1>8. NothingLost'
  BY <1>1 DEF NothingLost
<1>9. OnceEach'
  <2>. SUFFICES ASSUME doubts = 0 PROVE Once'
    BY <1>1 DEF OnceEach
  <2>1. Once
    BY DEF OnceEach
  <2>2. /\ NoDuplicate(Flat(drafts))' /\ Apart(EventsOf(drafts)', ToSet(committed'))
        /\ status' # "stale_build" => Apart(EventsOf(drafts)', ToSet(log))
    BY DEF Taken
  <2>3. ASSUME NEW p \in Slots, Sent(p)' PROVE SentOnce(p)'
    <3>1. SentOnce(p) /\ requests'[p] = requests[p] /\ p # q
      BY <1>3, <2>1, <2>3 DEF Once
    <3>2. ASSUME NEW s \in Slots, s # p, Sent(s)'
          PROVE  Apart(ToSet(requests[p].events), ToSet(requests'[s].events))
      BY <1>3, <3>1, <3>2 DEF SentOnce
    <3>3. Apart(ToSet(requests[p].events), EventsOf(drafts)')
      BY <1>1, <3>1 DEF SentOnce, Apart
    <3>. QED
      BY <1>1, <3>1, <3>2, <3>3 DEF SentOnce
  <2>. QED
    BY <1>1, <2>1, <2>2, <2>3 DEF Once, Unsaved
<1>. QED
  BY <1>4, <1>5, <1>6, <1>7, <1>8, <1>9

LEMMA ReceiveKeeps ==
  ASSUME IInv, NEW q \in Slots, Receive(q)
  PROVE  IInv'
<1>. USE DEF IInv
<1>. DEFINE r == requests[q]
            news == r.news
            E == EventsOf(drafts)
<1>1. q \in waiting /\ r.phase = "answered"
  BY DEF Receive, Applied, AppliedWithOtherFeatures, Rebased, ApplyFails, Answered
<1>2. waiting = {q} /\ status = "applying"
  BY <1>1 DEF OneApply, Awaited
<1>3. /\ requests' = [requests EXCEPT ![q] = Free] /\ waiting' = {} /\ submitted_groups' = {}
      /\ UNCHANGED <<log, made, gone, doubts>>
      /\ next_group_id' = next_group_id
      /\ status' \in {"ready", "stale_head", "stale_build", "error"}
  BY DEF Receive, Applied, AppliedWithOtherFeatures, Rebased, ApplyFails, Take, Fail, Failed,
         history
<1>4. /\ log \in Seq(Nat) /\ committed \in Seq(Nat) /\ drafts \in Seq(Group) /\ made \in Nat
      /\ r.events \in Seq(Nat) /\ news \in Seq(Nat) /\ IsPrefix(committed, log)
      /\ head_seq = Len(committed) /\ E \subseteq 1..made
  BY DEF Types, Request, Prefix, Known
<1>. HIDE DEF r, news, E
<1>5. doubts = 0 => Once
  BY DEF OnceEach
\* Only an answer "ok" finds the drafts in the table.
<1>6. r.answer # "ok" /\ doubts = 0 => Apart(E, ToSet(log))
  BY <1>2, <1>5 DEF Once, Unsaved, Acknowledging, E, r
\* The news carry the page on along the table.
<1>7. ASSUME r.answer \in {"ok", "stale_head"}
      PROVE  /\ committed \o news \in Seq(Nat) /\ Len(committed \o news) = head_seq + Len(news)
             /\ IsPrefix(committed \o news, log)
             /\ ToSet(committed \o news) = ToSet(committed) \cup ToSet(news)
             /\ ToSet(committed \o news) \subseteq ToSet(log)
  <2>1. /\ committed \o news \in Seq(Nat) /\ Len(committed \o news) = head_seq + Len(news)
        /\ ToSet(committed \o news) = ToSet(committed) \cup ToSet(news)
    BY <1>4, SetOfConcat, Cat
  <2>2. IsPrefix(committed \o news, log)
    BY <1>1, <1>7 DEF Prefix, r, news
  <2>3. PICK u \in Seq(Nat) : log = (committed \o news) \o u
    BY <1>4, <2>1, <2>2, PrefixSplit
  <2>4. ToSet(committed \o news) \subseteq ToSet(log)
    BY <2>1, <2>3, SetOfConcat
  <2>. QED
    BY <2>1, <2>2, <2>4
<1>8. CASE Applied(q)
  <2>1. /\ r.answer = "ok" /\ committed' = committed \o news /\ head_seq' = head_seq + Len(news)
        /\ drafts' = RemoveDraftEvents(drafts, Len(r.events)) /\ status' = "ready"
    BY <1>8 DEF Applied, Answered, Acknowledge, r, news
  <2>2. news = r.events
    BY <1>1, <2>1 DEF Prefix, r, news
  <2>3. PICK k \in 0..Len(drafts) : Flat(SubSeq(drafts, 1, k)) = r.events
    BY <1>1 DEF SubmittedFirst, Submitted, r
  <2>. DEFINE R == Flat(SubSeq(drafts, k + 1, Len(drafts)))
  <2>4. R \in Seq(Nat) /\ Flat(drafts) = news \o R
    <3>1. /\ SubSeq(drafts, 1, k) \in Seq(Group) /\ SubSeq(drafts, k + 1, Len(drafts)) \in Seq(Group)
          /\ drafts = SubSeq(drafts, 1, k) \o SubSeq(drafts, k + 1, Len(drafts))
      BY <1>4, SplitAt
    <3>. DEFINE A == SubSeq(drafts, 1, k)
                B == SubSeq(drafts, k + 1, Len(drafts))
    <3>. HIDE DEF A, B
    <3>2. Flat(A \o B) = Flat(A) \o Flat(B) /\ Flat(B) \in Seq(Nat)
      BY <3>1, FlatConcat, FlatType DEF A, B
    <3>. QED
      BY <2>2, <2>3, <3>1, <3>2 DEF A, B
  <2>. HIDE DEF R
  <2>5. drafts' \in Seq(Group) /\ Flat(drafts)' = R
    <3>. DEFINE n == Len(news)
    <3>1. n \in Nat /\ n <= Len(news) /\ n >= Len(news)
      BY <1>4
    <3>. HIDE DEF n
    <3>2. drafts' \in Seq(Group) /\ Flat(drafts') = Rest(Flat(drafts), n)
      BY <1>4, <2>1, <2>2, <3>1, RemovedIsRest DEF n
    <3>3. Rest(news \o R, n) = Rest(news, n) \o R /\ Rest(news, n) = <<>>
      BY ZenonT(30), <1>4, <2>4, <3>1, RestOfConcat
    <3>4. <<>> \o R = R
      BY <2>4
    <3>. QED
      BY <2>4, <3>2, <3>3, <3>4
  <2>6. E = ToSet(news) \cup ToSet(R) /\ E' = ToSet(R)
    BY <1>4, <2>4, <2>5, SetOfConcat DEF E, EventsOf
  <2>7. ASSUME doubts = 0
        PROVE  NoDuplicate(R) /\ Apart(ToSet(R), ToSet(committed) \cup ToSet(news))
               /\ Apart(ToSet(R), ToSet(log))
    <3>1. NoDuplicate(news \o R) /\ Apart(E, ToSet(committed))
      BY <1>5, <2>4, <2>7 DEF Once, E
    <3>2. NoDuplicate(R) /\ \A x \in ToSet(news) \cap ToSet(R) : x = 0
      BY <1>4, <2>4, <3>1, OnceOfConcat
    <3>3. 0 \notin E
      BY <1>4
    <3>4. ToSet(news) \cap ToSet(R) = {}
      BY <2>6, <3>2, <3>3
    <3>5. Apart(E \ ToSet(news), ToSet(log))
      <4>1. Unsaved
        BY <1>2, <1>5, <2>7 DEF Once
      <4>2. CASE Apart(E, ToSet(log))
        BY <4>2 DEF Apart
      <4>3. CASE \E p \in Slots : Acknowledging(p) /\ Apart(E \ ToSet(requests[p].events), ToSet(log))
        BY <1>2, <2>2, <4>3 DEF Acknowledging, r
      <4>. QED
        BY <4>1, <4>2, <4>3 DEF Unsaved, E
    <3>. QED
      BY <2>6, <3>1, <3>2, <3>4, <3>5 DEF Apart
  <2>8. Taken(q)
    <3>1. /\ committed' \in Seq(Nat) /\ IsPrefix(committed', log) /\ head_seq' = Len(committed')
          /\ ToSet(committed') = ToSet(committed) \cup ToSet(news) /\ ToSet(news) \subseteq ToSet(log)
      BY <1>7, <2>1
    <3>2. E' \subseteq E /\ E \subseteq E' \cup ToSet(log)
      BY <2>6, <3>1
    <3>3. doubts = 0 => /\ NoDuplicate(Flat(drafts))' /\ Apart(E', ToSet(committed'))
                        /\ Apart(E', ToSet(log))
      BY <2>5, <2>6, <2>7, <3>1
    <3>. QED
      BY <1>2, <1>3, <2>1, <2>5, <3>1, <3>2, <3>3 DEF Taken, E
  <2>. QED
    BY <2>8, TakenKeeps
<1>9. CASE AppliedWithOtherFeatures(q)
  <2>1. UNCHANGED <<committed, head_seq, drafts>> /\ status' = "stale_build"
    BY <1>9 DEF AppliedWithOtherFeatures, Failed
  <2>2. Taken(q)
    BY <1>2, <1>3, <1>4, <1>5, <2>1 DEF Taken, Once
  <2>. QED
    BY <2>2, TakenKeeps
<1>10. CASE Rebased(q)
  <2>1. /\ r.answer = "stale_head" /\ committed' = committed \o news
        /\ head_seq' = head_seq + Len(news) /\ drafts' = drafts /\ status' = "stale_head"
    BY <1>10 DEF Rebased, Answered, r, news
  <2>2. /\ committed' \in Seq(Nat) /\ IsPrefix(committed', log) /\ head_seq' = Len(committed')
        /\ ToSet(committed') \subseteq ToSet(log)
    BY <1>7, <2>1
  <2>3. doubts = 0 => NoDuplicate(Flat(drafts)) /\ Apart(E, ToSet(log)) /\ Apart(E, ToSet(committed'))
    BY <1>5, <1>6, <2>1, <2>2 DEF Once, Apart
  <2>4. Taken(q)
    BY <1>2, <1>3, <1>4, <2>1, <2>2, <2>3 DEF Taken, E, EventsOf
  <2>. QED
    BY <2>4, TakenKeeps
<1>11. CASE ApplyFails(q)
  <2>1. UNCHANGED <<committed, head_seq, drafts>> /\ r.answer # "ok"
    BY <1>11 DEF ApplyFails, Answered, Fail, Failed, r
  <2>2. doubts = 0 => NoDuplicate(Flat(drafts)) /\ Apart(E, ToSet(log)) /\ Apart(E, ToSet(committed))
    BY <1>5, <1>6, <2>1 DEF Once, E
  <2>3. Taken(q)
    BY <1>2, <1>3, <1>4, <2>1, <2>2 DEF Taken, E, EventsOf
  <2>. QED
    BY <2>3, TakenKeeps
<1>. QED
  BY <1>8, <1>9, <1>10, <1>11 DEF Receive

\* A page that lost the connection awaits nothing, and its request goes on.
LEMMA ConnectionLostKeeps ==
  ASSUME IInv, NEW q \in Slots, ConnectionLost(q)
  PROVE  IInv'
<1>. USE DEF IInv
<1>1. /\ q \in waiting /\ requests[q].phase = "sent" /\ waiting' = {} /\ submitted_groups' = {}
      /\ UNCHANGED <<log, requests, made, gone, committed, head_seq, drafts, next_group_id>>
      /\ status' = "error" /\ doubts' = doubts + 1
  BY DEF ConnectionLost, Failed
<1>2. waiting = {q}
  BY <1>1 DEF OneApply, Awaited
<1>3. doubts' \in Nat /\ doubts' # 0
  BY <1>1 DEF Types
<1>4. Types' /\ Known'
  BY <1>1, <1>3 DEF Types, Known, EventsOf
<1>5. OneApply'
  BY <1>1, <1>2 DEF OneApply, Working
<1>6. Prefix' /\ SubmittedFirst' /\ NothingLost'
  BY <1>1 DEF Prefix, SubmittedFirst, NothingLost, EventsOf
<1>7. OnceEach'
  BY <1>3 DEF OnceEach
<1>. QED
  BY <1>4, <1>5, <1>6, <1>7

-----------------------------------------------------------------------------
\* Every step of the page, of the Worker or of somebody else keeps the invariant.
THEOREM StepKeeps ==
  ASSUME IInv, [Next]_vars
  PROVE  IInv'
<1>1. CASE Next
  <2>1. CASE Load \/ LoadFails
    BY <2>1, LoadKeeps
  <2>2. CASE Reload
    BY <2>2, ReloadKeeps
  <2>3. CASE Stage \/ DiscardGroup \/ ReplaceGroup \/ ToggleDrafting \/ Discard
    BY <2>3, Editing, EditedKeeps
  <2>7. CASE Save \/ AutoApply
    BY <2>7, StartApplyKeeps DEF Save, AutoApply
  <2>8. CASE Elsewhere
    BY <2>8, ElsewhereKeeps
  <2>9. CASE \E q \in Slots : Answer(q) \/ LoseAnswer(q) \/ TearBatch(q) \/ Receive(q)
    BY <2>9, AnswerKeeps, ReceiveKeeps
  <2>10. CASE \E q \in Slots : ConnectionLost(q)
    BY <2>10, ConnectionLostKeeps
  <2>. QED
    BY <1>1, <2>1, <2>2, <2>3, <2>7, <2>8, <2>9, <2>10 DEF Next, Organiser
<1>2. CASE UNCHANGED vars
  BY <1>2 DEF vars, page, history, IInv, Types, Known, EventsOf, OneApply, Working, Awaited,
     Prefix, SubmittedFirst, Submitted, NothingLost, OnceEach, Once, SentOnce, Unsaved,
     Acknowledging, Sent, Apart
<1>. QED
  BY <1>1, <1>2

\* One apply at a time, of the first groups of the buffer; nothing is lost, and nothing
\* doubled that was answered (state.ts:135-166, removeDraftEvents).
THEOREM Invariant == Spec => []IInv
<1>. QED
  BY Initially, StepKeeps, PTL DEF Spec

-----------------------------------------------------------------------------
(***************************************************************************)
(* Whatever the doubts: what is in the table twice, the organiser saved    *)
(* again.  A request says which rows it was made on; those of its events   *)
(* that are among them were on the page when it was sent.                  *)
(***************************************************************************)
BufferOnce == NoDuplicate(Flat(drafts))

SentTold ==
  \A q \in Slots : Sent(q) =>
    /\ NoDuplicate(requests[q].events) /\ requests[q].input <= Len(log)
    /\ \A i \in 1..requests[q].input :
         log[i] \in ToSet(requests[q].events) => log[i] \in again

TwiceTold ==
  \A i, j \in 1..Len(log) : i # j /\ log[i] = log[j] /\ log[i] # 0 => log[i] \in again

ImmediateUnsaved == change_mode = "immediate" => Apart(EventsOf(drafts), ToSet(committed))

Told == BufferOnce /\ SentTold /\ TwiceTold /\ ImmediateUnsaved

LEMMA ToldInit == Init => Told
<1>. SUFFICES ASSUME Init PROVE Told
  OBVIOUS
<1>1. log = <<>> /\ drafts = <<>> /\ Flat(<<>>) = <<>> /\ EventsOf(<<>>) = {} /\ Len(<<>>) = 0
  BY FlatEmpty, SetOfEmpty DEF Init, EventsOf
<1>2. \A q \in Slots : ~Sent(q)
  BY DEF Init, Sent, Free
<1>. QED
  BY <1>1, <1>2 DEF Told, BufferOnce, SentTold, TwiceTold, ImmediateUnsaved, NoDuplicate, Apart

\* A batch appended to the table tells of what is twice then.
LEMMA AppendTold ==
  ASSUME IInv, Told, NEW t \in Seq(Nat), log' = log \o t, again' = again,
         NoDuplicate(t), \A x \in ToSet(t) \cap ToSet(log) : x # 0 => x \in again,
         \A q \in Slots : Sent(q)' => Sent(q) /\ requests'[q] = requests[q]
  PROVE  SentTold' /\ TwiceTold'
<1>1. /\ log \in Seq(Nat) /\ Len(log) \in Nat /\ Len(t) \in Nat /\ Len(log') = Len(log) + Len(t)
      /\ \A j \in 1..Len(log) : log'[j] = log[j]
      /\ \A j \in 1..Len(t) : log'[Len(log) + j] = t[j]
      /\ \A j \in 1..Len(log') : j \in 1..Len(log) \/ j - Len(log) \in 1..Len(t)
  BY Cat DEF IInv, Types
<1>2. ASSUME NEW q \in Slots, Sent(q)'
      PROVE  /\ NoDuplicate(requests'[q].events) /\ requests'[q].input <= Len(log')
             /\ \A i \in 1..requests'[q].input :
                  log'[i] \in ToSet(requests'[q].events) => log'[i] \in again'
  <2>1. Sent(q) /\ requests'[q] = requests[q]
    BY <1>2
  <2>2. requests[q].input \in Nat /\ requests[q].input <= Len(log)
    BY <2>1 DEF IInv, Types, Request, Told, SentTold
  <2>3. \A i \in 1..requests[q].input : i \in 1..Len(log)
    BY <1>1, <2>2
  <2>4. requests[q].input <= Len(log')
    BY <1>1, <2>2
  <2>. QED
    BY <1>1, <2>1, <2>3, <2>4 DEF Told, SentTold
<1>3. ASSUME NEW i \in 1..Len(log'), NEW j \in 1..Len(log'), i # j, log'[i] = log'[j], log'[i] # 0
      PROVE  log'[i] \in again
  <2>1. CASE i \in 1..Len(log) /\ j \in 1..Len(log)
    BY <1>1, <1>3, <2>1 DEF Told, TwiceTold
  <2>2. CASE i \in 1..Len(log) /\ j - Len(log) \in 1..Len(t)
    <3>1. log'[i] = log[i] /\ log'[j] = t[j - Len(log)]
      BY <1>1, <2>2
    <3>2. log[i] \in ToSet(log) /\ t[j - Len(log)] \in ToSet(t)
      BY <1>1, <2>2, SetOf
    <3>. QED  BY <1>3, <3>1, <3>2
  <2>3. CASE j \in 1..Len(log) /\ i - Len(log) \in 1..Len(t)
    <3>1. log'[j] = log[j] /\ log'[i] = t[i - Len(log)]
      BY <1>1, <2>3
    <3>2. log[j] \in ToSet(log) /\ t[i - Len(log)] \in ToSet(t)
      BY <1>1, <2>3, SetOf
    <3>. QED  BY <1>3, <3>1, <3>2
  <2>4. CASE i - Len(log) \in 1..Len(t) /\ j - Len(log) \in 1..Len(t)
    <3>1. log'[i] = t[i - Len(log)] /\ log'[j] = t[j - Len(log)]
      BY <1>1, <2>4
    <3>2. i - Len(log) = j - Len(log)
      BY <1>3, <2>4, <3>1 DEF NoDuplicate
    <3>3. i = j
      BY <1>1, <3>2
    <3>. QED  BY <1>3, <3>3
  <2>. QED
    BY <1>1, <1>3, <2>1, <2>2, <2>3, <2>4
<1>. QED
  BY <1>2, <1>3 DEF SentTold, TwiceTold

\* Nothing is appended and nothing sent.
LEMMA SameTold ==
  ASSUME IInv, Told, log' = log, again' = again,
         \A q \in Slots : Sent(q)' => Sent(q) /\ requests'[q] = requests[q]
  PROVE  SentTold' /\ TwiceTold'
BY DEF Told, SentTold, TwiceTold

\* What an answer leaves of the requests on their way.
LEMMA OthersSent ==
  ASSUME IInv, NEW q \in Slots, NEW v, v.phase # "sent", requests' = [requests EXCEPT ![q] = v]
  PROVE  \A p \in Slots : Sent(p)' => Sent(p) /\ requests'[p] = requests[p]
<1>1. requests'[q] = v /\ \A p \in Slots : p # q => requests'[p] = requests[p]
  BY DEF IInv, Types
<1>. QED
  BY <1>1 DEF Sent

LEMMA RespondSent ==
  ASSUME IInv, NEW q \in Slots, NEW answer, NEW news, Respond(q, answer, news)
  PROVE  \A p \in Slots : Sent(p)' => Sent(p) /\ requests'[p] = requests[p]
<1>. DEFINE v == IF q \in waiting
                 THEN [requests[q] EXCEPT !.phase = "answered", !.answer = answer, !.news = news]
                 ELSE Free
<1>1. requests[q] \in Request
  BY DEF IInv, Types
<1>2. v.phase # "sent" /\ requests' = [requests EXCEPT ![q] = v]
  BY <1>1, FreeIs DEF Respond, Request
<1>. HIDE DEF v
<1>. QED
  BY <1>2, OthersSent

\* The Worker answers, or somebody else appends.
LEMMA WorkerTold ==
  ASSUME IInv, Told,
         Elsewhere \/ \E q \in Slots : Answer(q) \/ LoseAnswer(q) \/ TearBatch(q)
  PROVE  Told'
<1>1. UNCHANGED <<page, again>>
  BY DEF Elsewhere, Answer, AnswerOk, AnswerStale, AnswerFailed, LoseAnswer, TearBatch, history
<1>2. BufferOnce' /\ ImmediateUnsaved'
  BY <1>1 DEF Told, BufferOnce, ImmediateUnsaved, page, EventsOf
<1>3. CASE Elsewhere
  <2>1. log' = log \o <<0>> /\ requests' = requests
    BY <1>3 DEF Elsewhere, IInv, Types
  <2>2. <<0>> \in Seq(Nat) /\ ToSet(<<0>>) = {0} /\ NoDuplicate(<<0>>)
    BY DEF ToSet, NoDuplicate
  <2>3. SentTold' /\ TwiceTold'
    BY <1>1, <2>1, <2>2, AppendTold DEF Sent
  <2>. QED
    BY <1>2, <2>3 DEF Told
<1>4. ASSUME NEW q \in Slots, Sent(q), requests[q].input = Len(log)
      PROVE  /\ NoDuplicate(requests[q].events) /\ requests[q].events \in Seq(Nat)
             /\ \A x \in ToSet(requests[q].events) \cap ToSet(log) : x \in again
  <2>1. requests[q].events \in Seq(Nat) /\ log \in Seq(Nat)
    BY DEF IInv, Types, Request
  <2>2. ASSUME NEW x \in ToSet(requests[q].events) \cap ToSet(log) PROVE x \in again
    <3>1. PICK i \in 1..Len(log) : log[i] = x
      BY <2>1, SetOf
    <3>. QED  BY <1>4, <3>1 DEF Told, SentTold
  <2>. QED
    BY <1>4, <2>1, <2>2 DEF Told, SentTold
<1>5. ASSUME NEW q \in Slots, AnswerOk(q) \/ LoseAnswer(q) PROVE Told'
  <2>1. /\ Sent(q) /\ requests[q].input = Len(log) /\ log' = log \o requests[q].events
        /\ \E answer, news : Respond(q, answer, news)
    BY <1>5 DEF AnswerOk, LoseAnswer, Sent
  <2>2. SentTold' /\ TwiceTold'
    BY <1>1, <1>4, <2>1, AppendTold, RespondSent
  <2>. QED
    BY <1>2, <2>2 DEF Told
<1>6. ASSUME NEW q \in Slots, TearBatch(q) PROVE Told'
  <2>. DEFINE es == requests[q].events
              rest == Tail(es)
              first == <<Head(es)>>
  <2>1. /\ Sent(q) /\ requests[q].input = Len(log) /\ log' = log \o (<<0>> \o rest)
        /\ Len(es) > 1 /\ Respond(q, "stale_head", <<0>> \o rest)
    BY <1>6 DEF TearBatch, Sent
  <2>2. /\ NoDuplicate(es) /\ es \in Seq(Nat) /\ \A x \in ToSet(es) \cap ToSet(log) : x \in again
    BY <1>4, <2>1
  <2>. HIDE DEF es
  <2>3. es = first \o rest /\ first \in Seq(Nat) /\ rest \in Seq(Nat)
    BY <2>1, <2>2
  <2>. HIDE DEF rest, first
  <2>4. NoDuplicate(rest) /\ ToSet(rest) \subseteq ToSet(es)
    <3>1. NoDuplicate(first \o rest) /\ ToSet(first \o rest) = ToSet(first) \cup ToSet(rest)
      BY <2>2, <2>3, SetOfConcat
    <3>. QED  BY <2>3, <3>1, OnceOfConcat
  <2>5. <<0>> \in Seq(Nat) /\ ToSet(<<0>>) = {0} /\ NoDuplicate(<<0>>)
    BY DEF ToSet, NoDuplicate
  <2>6. /\ <<0>> \o rest \in Seq(Nat) /\ NoDuplicate(<<0>> \o rest)
        /\ ToSet(<<0>> \o rest) = {0} \cup ToSet(rest)
    BY <2>3, <2>4, <2>5, OnceOfConcat, SetOfConcat, Cat
  <2>7. SentTold' /\ TwiceTold'
    BY <1>1, <2>1, <2>2, <2>4, <2>6, AppendTold, RespondSent
  <2>. QED
    BY <1>2, <2>7 DEF Told
<1>7. ASSUME NEW q \in Slots, AnswerStale(q) \/ AnswerFailed(q) PROVE Told'
  <2>1. log' = log /\ \E answer, news : Respond(q, answer, news)
    BY <1>7 DEF AnswerStale, AnswerFailed
  <2>2. SentTold' /\ TwiceTold'
    BY <1>1, <2>1, SameTold, RespondSent
  <2>. QED
    BY <1>2, <2>2 DEF Told
<1>. QED
  BY <1>3, <1>5, <1>6, <1>7 DEF Answer

\* What the organiser does to the buffer, and the mode it leaves.
LEMMA EditTold ==
  ASSUME IInv, Told, Stage \/ DiscardGroup \/ ReplaceGroup \/ ToggleDrafting \/ Discard
  PROVE  Told'
<1>1. /\ Edited /\ again' = again
  BY Editing DEF Stage, DiscardGroup, ReplaceGroup, ToggleDrafting, Discard, history
<1>2. BufferOnce'
  BY <1>1 DEF Edited, Told, BufferOnce
<1>3. SentTold' /\ TwiceTold'
  BY <1>1, SameTold DEF Edited, Sent
<1>4. EventsOf(<<>>) = {}
  BY FlatEmpty, SetOfEmpty DEF EventsOf
<1>5. ImmediateUnsaved'
  <2>1. CASE Stage
    <3>1. /\ EventsOf(drafts)' \subseteq EventsOf(drafts) \cup ((made + 1)..made')
          /\ committed' = committed /\ change_mode' = change_mode
      BY <1>1, <2>1 DEF Edited, Stage
    <3>2. ToSet(committed) \subseteq 0..made
      <4>1. PICK u \in Seq(Nat) : log = committed \o u
        BY PrefixSplit DEF IInv, Types, Prefix
      <4>. QED  BY <4>1, SetOfConcat DEF IInv, Types, Known
    <3>3. 0..made \cap ((made + 1)..made') = {}
      BY DEF IInv, Types
    <3>. QED  BY <3>1, <3>2, <3>3 DEF Told, ImmediateUnsaved, Apart
  <2>2. CASE DiscardGroup \/ Discard
    <3>1. change_mode' = "immediate" => drafts' = <<>>
      BY <2>2 DEF DiscardGroup, Discard, ModeFor
    <3>. QED  BY <1>4, <3>1 DEF ImmediateUnsaved, Apart
  <2>3. CASE ReplaceGroup
    BY <2>3 DEF ReplaceGroup, ImmediateUnsaved
  <2>4. CASE ToggleDrafting
    <3>1. change_mode' = "immediate" => Flat(drafts) = <<>> /\ drafts' = drafts
      BY <2>4 DEF ToggleDrafting
    <3>. QED  BY <3>1, SetOfEmpty DEF ImmediateUnsaved, Apart, EventsOf
  <2>. QED
    BY <2>1, <2>2, <2>3, <2>4
<1>. QED
  BY <1>2, <1>3, <1>5 DEF Told

\* A request that is sent is made on what the page holds.
LEMMA ApplyTold ==
  ASSUME IInv, Told, Save \/ AutoApply
  PROVE  Told'
<1>. DEFINE es == Flat(drafts)
            new == [Free EXCEPT !.phase = "sent", !.input = head_seq, !.events = es]
<1>1. StartApply
  BY DEF Save, AutoApply
<1>2. PICK q \in Slots : requests' = [requests EXCEPT ![q] = new]
  BY <1>1 DEF StartApply
<1>3. UNCHANGED <<log, committed, drafts, change_mode>>
  BY <1>1 DEF StartApply
<1>4. new.events = es /\ new.input = head_seq
  BY DEF Free
<1>5. NoDuplicate(es) /\ ToSet(es) = EventsOf(drafts)
  BY DEF Told, BufferOnce, EventsOf
<1>. HIDE DEF new, es
<1>6. requests'[q] = new /\ \A p \in Slots : p # q => requests'[p] = requests[p]
  BY <1>2 DEF IInv, Types
<1>7. /\ head_seq = Len(committed) /\ Len(committed) \in Nat /\ Len(committed) <= Len(log)
      /\ \A i \in 1..Len(committed) : log[i] \in ToSet(committed)
  <2>1. committed \in Seq(Nat) /\ head_seq = Len(committed)
    BY DEF IInv, Types, Prefix
  <2>2. PICK u \in Seq(Nat) : log = committed \o u
    BY <2>1, PrefixSplit DEF IInv, Types, Prefix
  <2>3. Len(log) = Len(committed) + Len(u) /\ Len(u) \in Nat /\ Len(committed) \in Nat
        /\ \A i \in 1..Len(committed) : log[i] = committed[i]
    BY <2>1, <2>2, Cat
  <2>. QED
    BY <2>1, <2>3, SetOf
<1>8. again \subseteq again' /\ ToSet(es) \cap ToSet(committed) \subseteq again'
  <2>1. CASE Save
    BY <1>5, <2>1 DEF Save
  <2>2. CASE AutoApply
    <3>1. Apart(EventsOf(drafts), ToSet(committed)) /\ again' = again
      BY <2>2 DEF AutoApply, Told, ImmediateUnsaved
    <3>. QED  BY <1>5, <3>1 DEF Apart
  <2>. QED
    BY <2>1, <2>2
<1>9. SentTold'
  <2>1. ASSUME NEW p \in Slots, Sent(p)', p # q
        PROVE  /\ NoDuplicate(requests'[p].events) /\ requests'[p].input <= Len(log')
               /\ \A i \in 1..requests'[p].input :
                    log'[i] \in ToSet(requests'[p].events) => log'[i] \in again'
    BY <1>3, <1>6, <1>8, <2>1 DEF Told, SentTold, Sent
  <2>2. /\ NoDuplicate(requests'[q].events) /\ requests'[q].input <= Len(log')
        /\ \A i \in 1..requests'[q].input :
             log'[i] \in ToSet(requests'[q].events) => log'[i] \in again'
    BY <1>3, <1>4, <1>5, <1>6, <1>7, <1>8
  <2>. QED
    BY <2>1, <2>2 DEF SentTold
<1>10. TwiceTold' /\ BufferOnce' /\ ImmediateUnsaved'
  BY <1>3, <1>8 DEF Told, TwiceTold, BufferOnce, ImmediateUnsaved, EventsOf
<1>. QED
  BY <1>9, <1>10 DEF Told

\* The page takes an answer, or the failure of its connection.
LEMMA ReceiveTold ==
  ASSUME IInv, Told, NEW q \in Slots, Receive(q) \/ ConnectionLost(q)
  PROVE  Told'
<1>1. log' = log /\ again' = again
  BY DEF Receive, Applied, AppliedWithOtherFeatures, Rebased, ApplyFails, Take, Fail,
         ConnectionLost, history
<1>2. requests' = [requests EXCEPT ![q] = Free] \/ requests' = requests
  BY DEF Receive, Applied, AppliedWithOtherFeatures, Rebased, ApplyFails, Take, Fail,
         ConnectionLost
<1>3. \A p \in Slots : Sent(p)' => Sent(p) /\ requests'[p] = requests[p]
  BY <1>2, FreeIs, OthersSent DEF Sent
<1>4. SentTold' /\ TwiceTold'
  BY <1>1, <1>3, SameTold
<1>5. CASE ~Applied(q)
  <2>1. drafts' = drafts /\ change_mode' = "drafting"
    BY <1>5 DEF Receive, AppliedWithOtherFeatures, Rebased, ApplyFails, Fail, Failed, ConnectionLost
  <2>2. BufferOnce' /\ ImmediateUnsaved'
    BY <2>1 DEF Told, BufferOnce, ImmediateUnsaved
  <2>. QED
    BY <1>4, <2>2 DEF Told
<1>6. CASE Applied(q)
  <2>. DEFINE es == requests[q].events
              n == Len(es)
  <2>1. drafts' = RemoveDraftEvents(drafts, n) /\ change_mode' = ModeFor(drafts')
    BY <1>6 DEF Applied, Acknowledge
  <2>2. q \in waiting
    BY <1>6 DEF Applied, Answered
  <2>3. PICK k \in 0..Len(drafts) : Flat(SubSeq(drafts, 1, k)) = es
    BY <2>2 DEF IInv, SubmittedFirst, Submitted
  <2>. DEFINE A == SubSeq(drafts, 1, k)
              B == SubSeq(drafts, k + 1, Len(drafts))
  <2>4. drafts \in Seq(Group) /\ es \in Seq(Nat)
    BY DEF IInv, Types, Request
  <2>5. A \in Seq(Group) /\ B \in Seq(Group) /\ drafts = A \o B
    BY <2>4, SplitAt
  <2>. HIDE DEF A, B
  <2>6. Flat(drafts) = es \o Flat(B) /\ Flat(B) \in Seq(Nat)
    BY <2>3, <2>5, FlatConcat, FlatType DEF A
  <2>7. n \in Nat /\ n <= Len(es) /\ n >= Len(es)
    BY <2>4
  <2>. HIDE DEF es
  <2>8. Flat(drafts') = Rest(Flat(drafts), n)
    BY <2>1, <2>4, <2>7, RemovedIsRest
  <2>9. Rest(es \o Flat(B), n) = Rest(es, n) \o Flat(B) /\ Rest(es, n) = <<>>
    BY SMTT(30), <2>4, <2>6, <2>7, RestOfConcat
  <2>. HIDE DEF n
  <2>10. Flat(drafts') = Flat(B)
    <3>1. <<>> \o Flat(B) = Flat(B)
      BY <2>6
    <3>. QED  BY <2>6, <2>8, <2>9, <3>1
  <2>11. NoDuplicate(es \o Flat(B))
    BY <2>6 DEF Told, BufferOnce
  <2>12. BufferOnce'
    BY <2>4, <2>6, <2>10, <2>11, OnceOfConcat DEF BufferOnce
  <2>13. ImmediateUnsaved'
    <3>1. change_mode' = "immediate" => drafts' = <<>>
      BY <2>1 DEF ModeFor
    <3>. QED  BY <3>1, FlatEmpty, SetOfEmpty DEF ImmediateUnsaved, Apart, EventsOf
  <2>. QED
    BY <1>4, <2>12, <2>13 DEF Told
<1>. QED
  BY <1>5, <1>6

\* The page is loaded, or loaded anew.
LEMMA LoadTold ==
  ASSUME IInv, Told, Load \/ LoadFails \/ Reload
  PROVE  Told'
<1>1. log' = log /\ again' = again /\ drafts' = <<>>
  BY DEF Load, LoadFails, Reload, Failed, history, IInv, OneApply
<1>2. \A p \in Slots : requests'[p] = requests[p] \/ requests'[p] = Free
  BY DEF Load, LoadFails, Reload
<1>3. SentTold' /\ TwiceTold'
  <2>1. \A p \in Slots : Sent(p)' => Sent(p) /\ requests'[p] = requests[p]
    BY <1>2, FreeIs DEF Sent
  <2>. QED
    BY <1>1, <2>1, SameTold
<1>4. BufferOnce' /\ ImmediateUnsaved'
  BY <1>1, FlatEmpty, SetOfEmpty DEF BufferOnce, ImmediateUnsaved, NoDuplicate, EventsOf, Apart
<1>. QED
  BY <1>3, <1>4 DEF Told

LEMMA ToldStep ==
  ASSUME IInv, Told, [Next]_vars
  PROVE  Told'
<1>1. CASE UNCHANGED vars
  BY <1>1 DEF vars, page, history, Told, BufferOnce, SentTold, TwiceTold, ImmediateUnsaved,
     Sent, EventsOf
<1>. QED
  BY <1>1, WorkerTold, EditTold, ApplyTold, ReceiveTold, LoadTold DEF Next, Organiser

\* Whatever was answered, lost or torn, the page holds a prefix of the table and names
\* its length as the head it sends (state.ts:142-166).
THEOREM PrefixHeld == Spec => []CommittedIsPrefix
<1>1. IInv => CommittedIsPrefix
  BY DEF IInv, Prefix, CommittedIsPrefix
<1>. QED
  BY <1>1, Invariant, PTL

LEMMA ToldAlways == Spec => [](IInv /\ Told)
<1>1. Init => IInv /\ Told
  BY Initially, ToldInit
<1>2. IInv /\ Told /\ [Next]_vars => IInv' /\ Told'
  BY StepKeeps, ToldStep
<1>. QED
  BY <1>1, <1>2, PTL DEF Spec

\* A staged change is in the buffer or in the table until it is taken back, and only
\* once, as long as every answer told what was appended; beyond that it is in the table
\* twice only if the organiser saved it when the page showed it as committed
\* (state.ts: removeDraftEvents; organiser-app.tsx: apply and its effect).
THEOREM ExactlyOnce == Spec => []ExactlyOnceUnlessInDoubt
<1>1. ASSUME IInv, Told PROVE ExactlyOnceUnlessInDoubt
  <2>1. /\ log \in Seq(Nat) /\ committed \in Seq(Nat) /\ Flat(drafts) \in Seq(Nat)
        /\ IsPrefix(committed, log)
    BY <1>1, FlatType DEF IInv, Types, Prefix
  <2>2. 1..made \subseteq gone \cup EventsOf(drafts) \cup ToSet(log)
    BY <1>1 DEF IInv, NothingLost
  <2>3. ASSUME doubts = 0 PROVE NoDuplicate(log) /\ NoDuplicate(committed \o Flat(drafts))
    <3>1. NoDuplicate(log) /\ NoDuplicate(Flat(drafts)) /\ Apart(EventsOf(drafts), ToSet(committed))
      BY <1>1, <2>3 DEF IInv, OnceEach, Once
    <3>2. PICK u \in Seq(Nat) : log = committed \o u
      BY <2>1, PrefixSplit
    <3>3. NoDuplicate(committed)
      BY <2>1, <3>1, <3>2, OnceOfConcat
    <3>. QED
      BY <2>1, <3>1, <3>3, OnceOfConcat DEF Apart, EventsOf
  <2>. QED
    BY <1>1, <2>2, <2>3 DEF ExactlyOnceUnlessInDoubt, Told, TwiceTold
<1>. QED
  BY <1>1, ToldAlways, PTL
=============================================================================
