---------------------------- MODULE EventFoldProofs ----------------------------
(***************************************************************************)
(* Proofs about the two folds that keep indexes beside their labels: the   *)
(* kernel's (EventFold) and the rooms' (RoomInventory).                    *)
(*                                                                         *)
(* A Map of the kernel is a sequence, and what belongs to an entity or to  *)
(* a key is a part of it in the same order.  A set or a delete of the one  *)
(* write path does to a part what it does to the whole (MapSetOnly,        *)
(* OnlyOnly), by induction over the Map (SeqInduction): so an index stays  *)
(* the part of all labels it stands for.  What remains is said of sets of  *)
(* labels (Of): each event keeps the world sound (Good), and leaves who    *)
(* stays in the family it came to (Follows).                               *)
(***************************************************************************)
EXTENDS EventFold, RoomInventory, FiniteSetTheorems, WellFoundedInduction, TLAPS

-----------------------------------------------------------------------------
(***************************************************************************)
(* Induction by the least counterexample.                                  *)
(***************************************************************************)
Below == {p \in Nat \X Nat : p[1] < p[2]}

LEMMA Least ==
  ASSUME NEW S, S \subseteq Nat, S # {}
  PROVE  \E n \in S : \A m \in S : n <= m
<1>1. IsWellFoundedOn(Below, Nat)
  BY NatLessThanWellFounded DEF OpToRel, Below
<1>2. PICK n \in S : \A m \in S : ~ (<<m, n>> \in Below)
  BY <1>1, WFMin
<1>3. ASSUME NEW m \in S PROVE n <= m
  <2>1. m \in Nat /\ n \in Nat
    OBVIOUS
  <2>2. ~(m < n)
    BY <1>2, <2>1 DEF Below
  <2>. QED
    BY <2>1, <2>2
<1>. QED
  BY <1>3


Keeping(f, kept, s, N) ==
  f = [n \in 0..N |-> IF n = 0 THEN <<>> ELSE (IF s[n] \in kept THEN Append(f[n - 1], s[n]) ELSE f[n - 1])]

LEMMA KeepingExists ==
  ASSUME NEW kept, NEW s, NEW N \in Nat
  PROVE  \E f : Keeping(f, kept, s, N)
<1>. DEFINE Bad == {m \in Nat : ~ \E f : Keeping(f, kept, s, m)}
<1>. SUFFICES ASSUME Bad # {} PROVE FALSE
  OBVIOUS
<1>1. PICK m \in Bad : \A k \in Bad : m <= k
  <2>. HIDE DEF Bad
  <2>1. Bad \subseteq Nat
    BY DEF Bad
  <2>. QED
    BY <2>1, Least
<1>2. m # 0
  <2>. DEFINE f == [n \in 0..0 |-> <<>>]
  <2>1. f = [n \in 0..0 |-> IF n = 0 THEN <<>> ELSE (IF s[n] \in kept THEN Append(f[n - 1], s[n]) ELSE f[n - 1])]
    OBVIOUS
  <2>. HIDE DEF f
  <2>2. Keeping(f, kept, s, 0)
    BY <2>1 DEF Keeping
  <2>. QED
    BY <2>2
<1>3. m - 1 \in Nat /\ m - 1 \notin Bad
  <2>. HIDE DEF Bad
  <2>1. m \in Nat
    BY DEF Bad
  <2>. QED
    BY <1>1, <1>2, <2>1
<1>4. PICK f : Keeping(f, kept, s, m - 1)
  BY <1>3
<1>. DEFINE g == [n \in 0..m |-> IF n = m THEN (IF s[m] \in kept THEN Append(f[m - 1], s[m]) ELSE f[m - 1]) ELSE f[n]]
<1>. HIDE DEF Bad
<1>5. m \in Nat
  BY DEF Bad
<1>6. ASSUME NEW n \in 0..m
      PROVE  g[n] = IF n = 0 THEN <<>> ELSE (IF s[n] \in kept THEN Append(g[n - 1], s[n]) ELSE g[n - 1])
  <2>1. CASE n = m
    <3>1. g[n] = (IF s[m] \in kept THEN Append(f[m - 1], s[m]) ELSE f[m - 1]) /\ g[m - 1] = f[m - 1]
      BY <2>1, <1>2, <1>5
    <3>. HIDE DEF g
    <3>. QED
      BY <3>1, <2>1, <1>2
  <2>2. CASE n # m
    <3>1. g[n] = f[n] /\ n \in 0..(m - 1) /\ (n # 0 => g[n - 1] = f[n - 1])
      BY <2>2, <1>5, <1>2
    <3>2. f[n] = IF n = 0 THEN <<>> ELSE (IF s[n] \in kept THEN Append(f[n - 1], s[n]) ELSE f[n - 1])
      BY <1>4, <3>1 DEF Keeping
    <3>. HIDE DEF g
    <3>. QED
      BY <3>1, <3>2
  <2>. QED
    BY <2>1, <2>2
<1>7. g = [n \in 0..m |-> IF n = 0 THEN <<>> ELSE (IF s[n] \in kept THEN Append(g[n - 1], s[n]) ELSE g[n - 1])]
  <2>1. g = [n \in 0..m |-> g[n]]
    OBVIOUS
  <2>. HIDE DEF g
  <2>. QED
    BY <2>1, <1>6
<1>8. Keeping(g, kept, s, m)
  <2>. HIDE DEF g
  <2>. QED
    BY <1>7 DEF Keeping
<1>. QED
  BY <1>8 DEF Bad

LEMMA KeepingPrefix ==
  ASSUME NEW kept, NEW s, NEW t, NEW N \in Nat, NEW M \in Nat, NEW f, NEW g,
         Keeping(f, kept, s, N), Keeping(g, kept, t, M), N <= M,
         \A i \in 1..N : s[i] = t[i]
  PROVE  f[N] = g[N]
<1>. DEFINE Bad == {k \in 0..N : f[k] # g[k]}
<1>. SUFFICES ASSUME Bad # {} PROVE FALSE
  OBVIOUS
<1>0. Bad \subseteq Nat
  OBVIOUS
<1>1. PICK m \in Bad : \A k \in Bad : m <= k
  <2>. HIDE DEF Bad
  <2>. QED
    BY <1>0, Least
<1>2. m \in 0..N /\ f[m] # g[m] /\ m \in 0..M
  OBVIOUS
<1>3. f[m] = IF m = 0 THEN <<>> ELSE (IF s[m] \in kept THEN Append(f[m - 1], s[m]) ELSE f[m - 1])
  BY <1>2 DEF Keeping
<1>4. g[m] = IF m = 0 THEN <<>> ELSE (IF t[m] \in kept THEN Append(g[m - 1], t[m]) ELSE g[m - 1])
  BY <1>2 DEF Keeping
<1>5. m # 0
  BY <1>2, <1>3, <1>4
<1>6. m - 1 \in 0..N /\ m - 1 \notin Bad /\ m \in 1..N
  <2>1. m - 1 \in 0..N /\ m \in 1..N /\ ~(m <= m - 1)
    BY <1>2, <1>5
  <2>. HIDE DEF Bad
  <2>. QED
    BY <2>1, <1>1
<1>7. f[m - 1] = g[m - 1] /\ s[m] = t[m]
  BY <1>6
<1>. QED
  BY <1>2, <1>3, <1>4, <1>5, <1>7

\* A set that holds the empty sequence, and with a sequence each that is one longer,
\* holds them all.
LEMMA SeqInduction ==
  ASSUME NEW S, NEW G, <<>> \in G,
         \A s \in Seq(S), x \in S : s \in G => Append(s, x) \in G
  PROVE  Seq(S) \subseteq G
<1>. SUFFICES ASSUME NEW s \in Seq(S) PROVE s \in G
  OBVIOUS
<1>. DEFINE Bad == {n \in 0..Len(s) : SubSeq(s, 1, n) \notin G}
<1>0. Len(s) \in Nat /\ SubSeq(s, 1, 0) = <<>> /\ SubSeq(s, 1, Len(s)) = s
      /\ Len(s) \in 0..Len(s)
  OBVIOUS
<1>1. ASSUME Bad # {} PROVE FALSE
  <2>1. Bad \subseteq Nat
    OBVIOUS
  <2>2. PICK m \in Bad : \A k \in Bad : m <= k
    <3>. HIDE DEF Bad
    <3>. QED
      BY <1>1, <2>1, Least
  <2>3. m \in 0..Len(s) /\ SubSeq(s, 1, m) \notin G
    OBVIOUS
  <2>4. m # 0
    BY <1>0, <2>3
  <2>5. m - 1 \in 0..Len(s) /\ ~(m <= m - 1) /\ m \in 1..Len(s)
    BY <2>3, <2>4
  <2>6. SubSeq(s, 1, m - 1) \in G
    BY <2>2, <2>5
  <2>7. SubSeq(s, 1, m) = Append(SubSeq(s, 1, m - 1), s[m]) /\ s[m] \in S
        /\ SubSeq(s, 1, m - 1) \in Seq(S)
    BY <2>5
  <2>. QED
    BY <2>3, <2>6, <2>7
<1>. HIDE DEF Bad
<1>. QED
  BY <1>0, <1>1 DEF Bad

(***************************************************************************)
(* Parts of a Map.                                                         *)
(***************************************************************************)
LEMMA OnlyIs ==
  ASSUME NEW kept, NEW s, NEW N \in Nat, N = Len(s)
  PROVE  \E f : Keeping(f, kept, s, N) /\ Only(s, kept) = f[N]
<1>. DEFINE f == CHOOSE g : Keeping(g, kept, s, N)
<1>1. Keeping(f, kept, s, N)
  BY KeepingExists
<1>2. Only(s, kept) = f[N]
  BY DEF Only, Keeping
<1>. HIDE DEF f
<1>. QED
  BY <1>1, <1>2

LEMMA OnlyEmpty ==
  ASSUME NEW kept
  PROVE  Only(<<>>, kept) = <<>>
<1>1. PICK f : Keeping(f, kept, <<>>, 0) /\ Only(<<>>, kept) = f[0]
  BY OnlyIs
<1>2. f[0] = <<>>
  BY <1>1 DEF Keeping
<1>. QED
  BY <1>1, <1>2

LEMMA OnlyAppend ==
  ASSUME NEW S, NEW s \in Seq(S), NEW x \in S, NEW kept
  PROVE  Only(Append(s, x), kept) =
           IF x \in kept THEN Append(Only(s, kept), x) ELSE Only(s, kept)
<1>. DEFINE N == Len(s)
            M == N + 1
            t == Append(s, x)
<1>1. N \in Nat /\ M \in Nat /\ Len(t) = M /\ t[M] = x /\ N <= M
      /\ (\A i \in 1..N : s[i] = t[i])
  OBVIOUS
<1>2. M \in 0..M /\ M # 0 /\ M - 1 = N
  OBVIOUS
<1>. HIDE DEF N, M, t
<1>3. PICK f : Keeping(f, kept, s, N) /\ Only(s, kept) = f[N]
  BY <1>1, OnlyIs DEF N
<1>4. PICK h : Keeping(h, kept, t, M) /\ Only(t, kept) = h[M]
  BY <1>1, OnlyIs
<1>5. f[N] = h[N]
  BY <1>1, <1>3, <1>4, KeepingPrefix
<1>6. h[M] = IF M = 0 THEN <<>>
             ELSE IF t[M] \in kept THEN Append(h[M - 1], t[M]) ELSE h[M - 1]
  BY <1>2, <1>4 DEF Keeping
<1>. QED
  BY <1>1, <1>2, <1>3, <1>4, <1>5, <1>6 DEF t

LEMMA SetOf ==
  ASSUME NEW S, NEW s \in Seq(S)
  PROVE  /\ \A x : x \in ToSet(s) <=> \E i \in 1..Len(s) : s[i] = x
         /\ ToSet(s) \subseteq S
<1>1. DOMAIN s = 1..Len(s) /\ \A i \in 1..Len(s) : s[i] \in S
  OBVIOUS
<1>. QED
  BY <1>1 DEF ToSet

LEMMA SetOfEmpty == ToSet(<<>>) = {}
BY DEF ToSet

LEMMA SetOfAppend ==
  ASSUME NEW S, NEW s \in Seq(S), NEW x \in S
  PROVE  ToSet(Append(s, x)) = ToSet(s) \cup {x}
<1>. DEFINE t == Append(s, x)
<1>1. /\ t \in Seq(S) /\ Len(t) = Len(s) + 1 /\ Len(s) \in Nat /\ t[Len(s) + 1] = x
      /\ \A i \in 1..Len(s) : t[i] = s[i]
  OBVIOUS
<1>. HIDE DEF t
<1>2. ASSUME NEW y \in ToSet(t) PROVE y \in ToSet(s) \cup {x}
  <2>1. PICK i \in 1..Len(t) : t[i] = y
    BY <1>1, SetOf
  <2>2. i \in 1..Len(s) \/ i = Len(s) + 1
    BY <1>1
  <2>. QED
    BY <1>1, <2>1, <2>2, SetOf
<1>3. ASSUME NEW y \in ToSet(s) PROVE y \in ToSet(t)
  <2>1. PICK i \in 1..Len(s) : s[i] = y
    BY SetOf
  <2>2. i \in 1..Len(t) /\ t[i] = y
    BY <1>1, <2>1
  <2>. QED
    BY <1>1, <2>2, SetOf
<1>4. x \in ToSet(t)
  <2>1. Len(s) + 1 \in 1..Len(t)
    BY <1>1
  <2>. QED
    BY <1>1, <2>1, SetOf
<1>5. ToSet(t) = ToSet(s) \cup {x}
  BY <1>2, <1>3, <1>4
<1>. QED
  BY <1>5 DEF t

LEMMA OnlyType ==
  ASSUME NEW S, NEW s \in Seq(S), NEW kept
  PROVE  Only(s, kept) \in Seq(S) /\ ToSet(Only(s, kept)) = ToSet(s) \cap kept
<1>. DEFINE G == {t \in Seq(S) : /\ Only(t, kept) \in Seq(S)
                                 /\ ToSet(Only(t, kept)) = ToSet(t) \cap kept}
<1>1. <<>> \in G
  <2>1. <<>> \in Seq(S)
    OBVIOUS
  <2>. QED
    BY <2>1, OnlyEmpty, SetOfEmpty
<1>2. ASSUME NEW t \in Seq(S), NEW x \in S, t \in G PROVE Append(t, x) \in G
  <2>1. Only(t, kept) \in Seq(S) /\ ToSet(Only(t, kept)) = ToSet(t) \cap kept
    BY <1>2
  <2>2. Append(t, x) \in Seq(S) /\ ToSet(Append(t, x)) = ToSet(t) \cup {x}
    BY SetOfAppend
  <2>3. Append(Only(t, kept), x) \in Seq(S)
        /\ ToSet(Append(Only(t, kept), x)) = ToSet(Only(t, kept)) \cup {x}
    BY <2>1, SetOfAppend
  <2>4. Only(Append(t, x), kept) = IF x \in kept THEN Append(Only(t, kept), x) ELSE Only(t, kept)
    BY OnlyAppend
  <2>. QED
    BY <2>1, <2>2, <2>3, <2>4
<1>. HIDE DEF G
<1>3. Seq(S) \subseteq G
  BY <1>1, <1>2, SeqInduction
<1>. QED
  BY <1>3 DEF G

Agree(map, kept, also) == \A l \in ToSet(map) : l \in kept <=> l \in also

LEMMA OnlyAgree ==
  ASSUME NEW S, NEW s \in Seq(S), NEW kept, NEW also, ToSet(s) \cap kept = ToSet(s) \cap also
  PROVE  Only(s, kept) = Only(s, also)
<1>. DEFINE G == {t \in Seq(S) : Agree(t, kept, also) => Only(t, kept) = Only(t, also)}
<1>1. <<>> \in G
  <2>1. <<>> \in Seq(S)
    OBVIOUS
  <2>. QED
    BY <2>1, OnlyEmpty
<1>2. ASSUME NEW t \in Seq(S), NEW x \in S, t \in G PROVE Append(t, x) \in G
  <2>1. Append(t, x) \in Seq(S) /\ ToSet(Append(t, x)) = ToSet(t) \cup {x}
    BY SetOfAppend
  <2>2. /\ Only(Append(t, x), kept) = IF x \in kept THEN Append(Only(t, kept), x) ELSE Only(t, kept)
        /\ Only(Append(t, x), also) = IF x \in also THEN Append(Only(t, also), x) ELSE Only(t, also)
    BY OnlyAppend
  <2>3. ASSUME Agree(Append(t, x), kept, also) PROVE Only(Append(t, x), kept) = Only(Append(t, x), also)
    <3>1. Agree(t, kept, also) /\ (x \in kept <=> x \in also)
      BY <2>1, <2>3 DEF Agree
    <3>2. Only(t, kept) = Only(t, also)
      BY <1>2, <3>1
    <3>. QED
      BY <2>2, <3>1, <3>2
  <2>. QED
    BY <2>1, <2>3
<1>3. Agree(s, kept, also)
  BY DEF Agree
<1>. HIDE DEF G
<1>4. Seq(S) \subseteq G
  BY <1>1, <1>2, SeqInduction
<1>. QED
  BY <1>3, <1>4 DEF G

LEMMA OnlyOnly ==
  ASSUME NEW S, NEW s \in Seq(S), NEW kept, NEW also
  PROVE  Only(Only(s, kept), also) = Only(s, kept \cap also)
<1>. DEFINE G == {t \in Seq(S) : Only(Only(t, kept), also) = Only(t, kept \cap also)}
<1>1. <<>> \in G
  <2>1. <<>> \in Seq(S)
    OBVIOUS
  <2>. QED
    BY <2>1, OnlyEmpty
<1>2. ASSUME NEW t \in Seq(S), NEW x \in S, t \in G PROVE Append(t, x) \in G
  <2>1. Only(t, kept) \in Seq(S) /\ Append(t, x) \in Seq(S)
    BY OnlyType
  <2>2. /\ Only(Append(t, x), kept) = IF x \in kept THEN Append(Only(t, kept), x) ELSE Only(t, kept)
        /\ Only(Append(t, x), kept \cap also) =
             IF x \in kept \cap also THEN Append(Only(t, kept \cap also), x)
             ELSE Only(t, kept \cap also)
        /\ Only(Append(Only(t, kept), x), also) =
             IF x \in also THEN Append(Only(Only(t, kept), also), x) ELSE Only(Only(t, kept), also)
    BY <2>1, OnlyAppend
  <2>3. Only(Only(t, kept), also) = Only(t, kept \cap also)
    BY <1>2
  <2>4. CASE x \in kept /\ x \in also
    BY <2>1, <2>2, <2>3, <2>4
  <2>5. CASE x \in kept /\ x \notin also
    BY <2>1, <2>2, <2>3, <2>5
  <2>6. CASE x \notin kept
    BY <2>1, <2>2, <2>3, <2>6
  <2>. QED
    BY <2>4, <2>5, <2>6
<1>. HIDE DEF G
<1>3. Seq(S) \subseteq G
  BY <1>1, <1>2, SeqInduction
<1>. QED
  BY <1>3 DEF G

\* What MapSet does to a Map that has the key.
Replaced(map, label) == [i \in 1..Len(map) |-> IF Same(map[i], label) THEN label ELSE map[i]]

LEMMA ReplacedType ==
  ASSUME NEW S, NEW s \in Seq(S), NEW l \in S
  PROVE  /\ Replaced(s, l) \in Seq(S) /\ Len(Replaced(s, l)) = Len(s)
         /\ \A i \in 1..Len(s) : Replaced(s, l)[i] = IF Same(s[i], l) THEN l ELSE s[i]
<1>1. Len(s) \in Nat /\ \A i \in 1..Len(s) : s[i] \in S
  OBVIOUS
<1>2. \A i \in 1..Len(s) : (IF Same(s[i], l) THEN l ELSE s[i]) \in S
  BY <1>1
<1>. QED
  BY <1>1, <1>2 DEF Replaced

LEMMA ReplacedAppend ==
  ASSUME NEW S, NEW s \in Seq(S), NEW x \in S, NEW l \in S
  PROVE  Replaced(Append(s, x), l) = Append(Replaced(s, l), IF Same(x, l) THEN l ELSE x)
<1>. DEFINE t == Append(s, x)
            y == IF Same(x, l) THEN l ELSE x
            u == Append(Replaced(s, l), y)
            v == Replaced(t, l)
<1>1. /\ t \in Seq(S) /\ Len(t) = Len(s) + 1 /\ Len(s) \in Nat /\ t[Len(s) + 1] = x
      /\ \A i \in 1..Len(s) : t[i] = s[i]
  OBVIOUS
<1>2. /\ Replaced(s, l) \in Seq(S) /\ Len(Replaced(s, l)) = Len(s) /\ y \in S
      /\ \A i \in 1..Len(s) : Replaced(s, l)[i] = IF Same(s[i], l) THEN l ELSE s[i]
  BY ReplacedType
<1>. HIDE DEF t
<1>3. /\ v \in Seq(S) /\ Len(v) = Len(t)
      /\ \A i \in 1..Len(t) : v[i] = IF Same(t[i], l) THEN l ELSE t[i]
  BY <1>1, ReplacedType
<1>. HIDE DEF v
<1>4. /\ u \in Seq(S) /\ Len(u) = Len(s) + 1 /\ u[Len(s) + 1] = y
      /\ \A i \in 1..Len(s) : u[i] = Replaced(s, l)[i]
  <2>. DEFINE r == Replaced(s, l)
  <2>. HIDE DEF r, y
  <2>1. r \in Seq(S) /\ y \in S /\ Len(r) = Len(s)
    BY <1>2 DEF r
  <2>2. /\ Append(r, y) \in Seq(S) /\ Len(Append(r, y)) = Len(r) + 1
        /\ Append(r, y)[Len(r) + 1] = y
        /\ \A i \in 1..Len(r) : Append(r, y)[i] = r[i]
    BY <2>1
  <2>. QED
    BY <2>1, <2>2 DEF r
<1>. HIDE DEF u
<1>5. ASSUME NEW i \in 1..(Len(s) + 1) PROVE u[i] = v[i]
  <2>1. CASE i \in 1..Len(s)
    BY <1>1, <1>2, <1>3, <1>4, <2>1
  <2>2. CASE i = Len(s) + 1
    BY <1>1, <1>3, <1>4, <2>2
  <2>. QED
    BY <1>1, <2>1, <2>2
<1>6. u = v
  BY <1>1, <1>3, <1>4, <1>5
<1>. QED
  BY <1>6 DEF u, v, t

LEMMA ReplacedOnly ==
  ASSUME NEW S, NEW s \in Seq(S), NEW l \in S, NEW kept,
         \A x \in S : Same(x, l) => (x \in kept <=> l \in kept)
  PROVE  Only(Replaced(s, l), kept) = Replaced(Only(s, kept), l)
<1>. DEFINE G == {t \in Seq(S) : Only(Replaced(t, l), kept) = Replaced(Only(t, kept), l)}
<1>1. <<>> \in G
  <2>1. <<>> \in Seq(S) /\ Replaced(<<>>, l) = <<>>
    BY DEF Replaced
  <2>. QED
    BY <2>1, OnlyEmpty
<1>2. ASSUME NEW t \in Seq(S), NEW x \in S, t \in G PROVE Append(t, x) \in G
  <2>. DEFINE y == IF Same(x, l) THEN l ELSE x
  <2>1. Only(Replaced(t, l), kept) = Replaced(Only(t, kept), l)
    BY <1>2
  <2>2. Only(t, kept) \in Seq(S) /\ Append(t, x) \in Seq(S) /\ Replaced(t, l) \in Seq(S) /\ y \in S
        /\ (y \in kept <=> x \in kept)
    BY OnlyType, ReplacedType
  <2>3. Replaced(Append(t, x), l) = Append(Replaced(t, l), y)
    BY ReplacedAppend
  <2>4. Replaced(Append(Only(t, kept), x), l) = Append(Replaced(Only(t, kept), l), y)
    BY <2>2, ReplacedAppend
  <2>. HIDE DEF y
  <2>5. /\ Only(Append(t, x), kept) = IF x \in kept THEN Append(Only(t, kept), x) ELSE Only(t, kept)
        /\ Only(Append(Replaced(t, l), y), kept) =
             IF y \in kept THEN Append(Only(Replaced(t, l), kept), y) ELSE Only(Replaced(t, l), kept)
    BY <2>2, OnlyAppend
  <2>6. Only(Replaced(Append(t, x), l), kept) = Replaced(Only(Append(t, x), kept), l)
    BY <2>1, <2>2, <2>3, <2>4, <2>5
  <2>. QED
    BY <2>2, <2>6
<1>. HIDE DEF G
<1>3. Seq(S) \subseteq G
  BY <1>1, <1>2, SeqInduction
<1>. QED
  BY <1>3 DEF G

LEMMA MapSetIs ==
  ASSUME NEW S, NEW s \in Seq(S), NEW l \in S
  PROVE  /\ MapSet(s, l) = IF \E x \in ToSet(s) : Same(x, l) THEN Replaced(s, l) ELSE Append(s, l)
         /\ MapSet(s, l) \in Seq(S)
         /\ ToSet(MapSet(s, l)) = {x \in ToSet(s) : ~Same(x, l)} \cup {l}
<1>1. (\E i \in 1..Len(s) : Same(s[i], l)) <=> \E x \in ToSet(s) : Same(x, l)
  BY SetOf
<1>2. MapSet(s, l) = IF \E x \in ToSet(s) : Same(x, l) THEN Replaced(s, l) ELSE Append(s, l)
  BY <1>1 DEF MapSet, Replaced
<1>3. CASE \E x \in ToSet(s) : Same(x, l)
  <2>. DEFINE r == Replaced(s, l)
  <2>1. /\ r \in Seq(S) /\ Len(r) = Len(s)
        /\ \A i \in 1..Len(s) : r[i] = IF Same(s[i], l) THEN l ELSE s[i]
    BY ReplacedType
  <2>. HIDE DEF r
  <2>2. ASSUME NEW y \in ToSet(r) PROVE y \in {x \in ToSet(s) : ~Same(x, l)} \cup {l}
    <3>1. PICK i \in 1..Len(r) : r[i] = y
      BY <2>1, SetOf
    <3>2. s[i] \in ToSet(s)
      BY <2>1, SetOf
    <3>. QED
      BY <2>1, <3>1, <3>2
  <2>3. ASSUME NEW y \in ToSet(s), ~Same(y, l) PROVE y \in ToSet(r)
    <3>1. PICK i \in 1..Len(s) : s[i] = y
      BY SetOf
    <3>2. r[i] = y /\ i \in 1..Len(r)
      BY <2>1, <2>3, <3>1
    <3>. QED
      BY <2>1, <3>2, SetOf
  <2>4. l \in ToSet(r)
    <3>1. PICK i \in 1..Len(s) : Same(s[i], l)
      BY <1>1, <1>3
    <3>2. r[i] = l /\ i \in 1..Len(r)
      BY <2>1, <3>1
    <3>. QED
      BY <2>1, <3>2, SetOf
  <2>5. ToSet(r) = {x \in ToSet(s) : ~Same(x, l)} \cup {l}
    BY <2>2, <2>3, <2>4
  <2>. QED
    BY <1>2, <1>3, <2>1, <2>5 DEF r
<1>4. CASE ~ \E x \in ToSet(s) : Same(x, l)
  <2>1. Append(s, l) \in Seq(S) /\ ToSet(Append(s, l)) = ToSet(s) \cup {l}
    BY SetOfAppend
  <2>. QED
    BY <1>2, <1>4, <2>1
<1>. QED
  BY <1>2, <1>3, <1>4

LEMMA MapSetOnly ==
  ASSUME NEW S, NEW s \in Seq(S), NEW l \in S, NEW kept,
         \A x \in S : Same(x, l) => (x \in kept <=> l \in kept)
  PROVE  Only(MapSet(s, l), kept) =
           IF l \in kept THEN MapSet(Only(s, kept), l) ELSE Only(s, kept)
<1>. DEFINE o == Only(s, kept)
<1>1. o \in Seq(S) /\ ToSet(o) = ToSet(s) \cap kept /\ ToSet(s) \subseteq S
  BY OnlyType, SetOf
<1>2. Only(Replaced(s, l), kept) = Replaced(o, l)
  BY ReplacedOnly
<1>3. Only(Append(s, l), kept) = IF l \in kept THEN Append(o, l) ELSE o
  BY OnlyAppend
<1>. HIDE DEF o
<1>4. MapSet(s, l) = IF \E x \in ToSet(s) : Same(x, l) THEN Replaced(s, l) ELSE Append(s, l)
  BY MapSetIs
<1>5. MapSet(o, l) = IF \E x \in ToSet(o) : Same(x, l) THEN Replaced(o, l) ELSE Append(o, l)
  BY <1>1, MapSetIs
<1>6. CASE l \in kept
  <2>1. (\E x \in ToSet(o) : Same(x, l)) <=> \E x \in ToSet(s) : Same(x, l)
    BY <1>1, <1>6
  <2>. QED
    BY <1>2, <1>3, <1>4, <1>5, <1>6, <2>1 DEF o
<1>7. CASE l \notin kept
  <2>1. \A x \in ToSet(o) : ~Same(x, l)
    BY <1>1, <1>7
  <2>2. Replaced(o, l) = o
    <3>1. \A i \in 1..Len(o) : ~Same(o[i], l)
      BY <1>1, <2>1, SetOf
    <3>2. /\ Replaced(o, l) \in Seq(S) /\ Len(Replaced(o, l)) = Len(o)
          /\ \A i \in 1..Len(o) : Replaced(o, l)[i] = o[i]
      BY <1>1, <3>1, ReplacedType
    <3>. DEFINE r == Replaced(o, l)
    <3>. HIDE DEF r
    <3>3. r \in Seq(S) /\ Len(r) = Len(o) /\ \A i \in 1..Len(o) : r[i] = o[i]
      BY <3>2 DEF r
    <3>4. r = o
      BY <1>1, <3>3
    <3>. QED
      BY <3>4 DEF r
  <2>. QED
    BY <1>2, <1>3, <1>4, <1>7, <2>2 DEF o
<1>. QED
  BY <1>6, <1>7

-----------------------------------------------------------------------------
(***************************************************************************)
(* Worlds.                                                                 *)
(***************************************************************************)
Value == Email \cup Name \cup Entity \cup Trait
Label == [entity : Entity, key : Key, value : Value, set_seq : Nat]

World ==
  [head_seq : Nat, created : [Entity -> Nat], emails : [Email -> Family \cup {None}],
   labels : Seq(Label), by_entity : [Entity -> Seq(Label)], by_key : [Key -> Seq(Label)]]

LabelsOn(e) == {l \in Label : l.entity = e}
LabelsUnder(k) == {l \in Label : l.key = k}

\* An index holds the labels it is about, in the order of all labels.
Indexed(w) ==
  /\ \A e \in Entity : w.by_entity[e] = Only(w.labels, LabelsOn(e))
  /\ \A k \in Key : w.by_key[k] = Only(w.labels, LabelsUnder(k))

\* The labels an entity has under a key.
Of(w, e, k) == {l \in ToSet(w.labels) : l.entity = e /\ l.key = k}

\* The rest of the world.
SameBeside(v, w) == v.head_seq = w.head_seq /\ v.created = w.created /\ v.emails = w.emails

LEMMA Parts ==
  ASSUME NEW s \in Seq(Label)
  PROVE  /\ \A e : OfEntity(s, e) = Only(s, LabelsOn(e))
         /\ \A k : OfKey(s, k) = Only(s, LabelsUnder(k))
<1>1. ToSet(s) \subseteq Label
  BY SetOf
<1>2. ASSUME NEW e PROVE OfEntity(s, e) = Only(s, LabelsOn(e))
  <2>1. ToSet(s) \cap {l \in ToSet(s) : l.entity = e} = ToSet(s) \cap LabelsOn(e)
    BY <1>1 DEF LabelsOn
  <2>. QED
    BY <2>1, OnlyAgree DEF OfEntity
<1>3. ASSUME NEW k PROVE OfKey(s, k) = Only(s, LabelsUnder(k))
  <2>1. ToSet(s) \cap {l \in ToSet(s) : l.key = k} = ToSet(s) \cap LabelsUnder(k)
    BY <1>1 DEF LabelsUnder
  <2>. QED
    BY <2>1, OnlyAgree DEF OfKey
<1>. QED
  BY <1>2, <1>3

LEMMA IndexesRight ==
  ASSUME NEW w \in World, Indexed(w)
  PROVE  /\ \A e \in Entity : w.by_entity[e] = OfEntity(w.labels, e)
         /\ \A k \in Key : w.by_key[k] = OfKey(w.labels, k)
         /\ \A e \in Entity : ToSet(w.by_entity[e]) = {l \in ToSet(w.labels) : l.entity = e}
         /\ \A e \in Entity, k \in Key : LabelsOf(w, e, k) = Of(w, e, k)
         /\ ToSet(w.labels) \subseteq Label
<1>1. w.labels \in Seq(Label)
  BY DEF World
<1>2. ToSet(w.labels) \subseteq Label
  BY <1>1, SetOf
<1>3. ASSUME NEW e \in Entity
      PROVE  ToSet(w.by_entity[e]) = {l \in ToSet(w.labels) : l.entity = e}
  <2>1. ToSet(w.by_entity[e]) = ToSet(w.labels) \cap LabelsOn(e)
    BY <1>1, OnlyType DEF Indexed
  <2>. QED
    BY <1>2, <2>1 DEF LabelsOn
<1>4. ASSUME NEW e \in Entity, NEW k \in Key PROVE LabelsOf(w, e, k) = Of(w, e, k)
  BY <1>3 DEF LabelsOf, Of
<1>. QED
  BY <1>1, <1>2, <1>3, <1>4, Parts DEF Indexed

\* A label is written to all Maps alike.
LEMMA PutLabelKeeps ==
  ASSUME NEW w \in World, Indexed(w), NEW l \in Label
  PROVE  /\ PutLabel(w, l) \in World /\ Indexed(PutLabel(w, l)) /\ SameBeside(PutLabel(w, l), w)
         /\ ToSet(PutLabel(w, l).labels) = {x \in ToSet(w.labels) : ~Same(x, l)} \cup {l}
<1>. DEFINE v == PutLabel(w, l)
<1>1. l.entity \in Entity /\ l.key \in Key
  BY DEF Label
<1>2. /\ w.labels \in Seq(Label) /\ w.by_entity \in [Entity -> Seq(Label)]
      /\ w.by_key \in [Key -> Seq(Label)]
  BY DEF World
<1>. DEFINE all == MapSet(w.labels, l)
            ents == [w.by_entity EXCEPT ![l.entity] = MapSet(w.by_entity[l.entity], l)]
            keys == [w.by_key EXCEPT ![l.key] = MapSet(w.by_key[l.key], l)]
<1>0. v = [w EXCEPT !.labels = all, !.by_entity = ents, !.by_key = keys]
  BY DEF PutLabel
<1>4. /\ MapSet(w.labels, l) \in Seq(Label)
      /\ ToSet(MapSet(w.labels, l)) = {x \in ToSet(w.labels) : ~Same(x, l)} \cup {l}
      /\ MapSet(w.by_entity[l.entity], l) \in Seq(Label) /\ MapSet(w.by_key[l.key], l) \in Seq(Label)
  BY <1>1, <1>2, MapSetIs
<1>5. ents \in [Entity -> Seq(Label)] /\ keys \in [Key -> Seq(Label)] /\ all \in Seq(Label)
  BY <1>1, <1>2, <1>4
<1>. HIDE DEF v, all, ents, keys
<1>6. /\ v \in World /\ SameBeside(v, w)
      /\ v.labels = all /\ v.by_entity = ents /\ v.by_key = keys
  BY <1>0, <1>5 DEF World, SameBeside
<1>3. /\ v.labels = MapSet(w.labels, l)
      /\ v.by_entity = [w.by_entity EXCEPT ![l.entity] = MapSet(w.by_entity[l.entity], l)]
      /\ v.by_key = [w.by_key EXCEPT ![l.key] = MapSet(w.by_key[l.key], l)]
  BY <1>6 DEF all, ents, keys
<1>7. ASSUME NEW e \in Entity PROVE v.by_entity[e] = Only(v.labels, LabelsOn(e))
  <2>1. /\ \A x \in Label : Same(x, l) => (x \in LabelsOn(e) <=> l \in LabelsOn(e))
        /\ l \in LabelsOn(e) <=> l.entity = e
    BY DEF Same, LabelsOn
  <2>2. Only(v.labels, LabelsOn(e)) = IF l \in LabelsOn(e) THEN MapSet(Only(w.labels, LabelsOn(e)), l)
                                      ELSE Only(w.labels, LabelsOn(e))
    BY <1>2, <1>3, <2>1, MapSetOnly
  <2>3. Only(w.labels, LabelsOn(e)) = w.by_entity[e]
    BY DEF Indexed
  <2>. QED
    BY <1>2, <1>3, <2>1, <2>2, <2>3
<1>8. ASSUME NEW k \in Key PROVE v.by_key[k] = Only(v.labels, LabelsUnder(k))
  <2>1. /\ \A x \in Label : Same(x, l) => (x \in LabelsUnder(k) <=> l \in LabelsUnder(k))
        /\ l \in LabelsUnder(k) <=> l.key = k
    BY DEF Same, LabelsUnder
  <2>2. Only(v.labels, LabelsUnder(k)) = IF l \in LabelsUnder(k) THEN MapSet(Only(w.labels, LabelsUnder(k)), l)
                                         ELSE Only(w.labels, LabelsUnder(k))
    BY <1>2, <1>3, <2>1, MapSetOnly
  <2>3. Only(w.labels, LabelsUnder(k)) = w.by_key[k]
    BY DEF Indexed
  <2>. QED
    BY <1>2, <1>3, <2>1, <2>2, <2>3
<1>. QED
  BY <1>3, <1>4, <1>6, <1>7, <1>8 DEF v, Indexed

\* Labels are dropped from all Maps alike.
LEMMA DropLabelsKeeps ==
  ASSUME NEW w \in World, Indexed(w), NEW gone, gone \subseteq Label
  PROVE  /\ DropLabels(w, gone) \in World /\ Indexed(DropLabels(w, gone))
         /\ SameBeside(DropLabels(w, gone), w)
         /\ ToSet(DropLabels(w, gone).labels) = {x \in ToSet(w.labels) : \A g \in gone : ~Same(x, g)}
<1>. DEFINE v == DropLabels(w, gone)
            Stay == {x \in Label : \A g \in gone : ~Same(x, g)}
<1>1. /\ w.labels \in Seq(Label) /\ w.by_entity \in [Entity -> Seq(Label)]
      /\ w.by_key \in [Key -> Seq(Label)] /\ ToSet(w.labels) \subseteq Label
  BY SetOf DEF World
<1>. DEFINE all == MapDelete(w.labels, gone)
            ents == [e \in Entity |-> MapDelete(w.by_entity[e], {l \in gone : l.entity = e})]
            keys == [k \in Key |-> MapDelete(w.by_key[k], {l \in gone : l.key = k})]
<1>2. v = [w EXCEPT !.labels = all, !.by_entity = ents, !.by_key = keys]
  BY DEF DropLabels
<1>3. MapDelete(w.labels, gone) = Only(w.labels, Stay)
  <2>1. ToSet(w.labels) \cap {l \in ToSet(w.labels) : \A g \in gone : ~Same(l, g)}
          = ToSet(w.labels) \cap Stay
    BY <1>1
  <2>. QED
    BY <1>1, <2>1, OnlyAgree DEF MapDelete
<1>4. ASSUME NEW e \in Entity
      PROVE  /\ MapDelete(w.by_entity[e], {l \in gone : l.entity = e}) = Only(all, LabelsOn(e))
             /\ MapDelete(w.by_entity[e], {l \in gone : l.entity = e}) \in Seq(Label)
  <2>. DEFINE s == w.by_entity[e]
              less == {l \in ToSet(s) : \A g \in {h \in gone : h.entity = e} : ~Same(l, g)}
  <2>1. s \in Seq(Label) /\ s = Only(w.labels, LabelsOn(e))
    BY <1>1 DEF Indexed
  <2>2. ToSet(s) = ToSet(w.labels) \cap LabelsOn(e)
    BY <1>1, <2>1, OnlyType
  <2>3. ToSet(s) \cap less = ToSet(s) \cap Stay
    <3>1. ASSUME NEW x \in ToSet(s)
          PROVE  (\A g \in {h \in gone : h.entity = e} : ~Same(x, g)) <=> \A g \in gone : ~Same(x, g)
      BY <2>2 DEF LabelsOn, Same
    <3>. QED
      BY <1>1, <2>2, <3>1
  <2>4. MapDelete(s, {l \in gone : l.entity = e}) = Only(s, less)
    BY DEF MapDelete
  <2>. HIDE DEF s, less, Stay
  <2>5. Only(s, less) = Only(s, Stay) /\ Only(s, less) \in Seq(Label)
    BY <2>1, <2>3, OnlyAgree, OnlyType
  <2>6. /\ Only(s, Stay) = Only(w.labels, LabelsOn(e) \cap Stay)
        /\ Only(Only(w.labels, Stay), LabelsOn(e)) = Only(w.labels, Stay \cap LabelsOn(e))
    BY <1>1, <2>1, OnlyOnly
  <2>7. Stay \cap LabelsOn(e) = LabelsOn(e) \cap Stay
    OBVIOUS
  <2>8. MapDelete(s, {l \in gone : l.entity = e}) = Only(all, LabelsOn(e))
    BY <1>3, <2>4, <2>5, <2>6, <2>7
  <2>. QED
    BY <2>4, <2>5, <2>8 DEF s
<1>5. ASSUME NEW k \in Key
      PROVE  /\ MapDelete(w.by_key[k], {l \in gone : l.key = k}) = Only(all, LabelsUnder(k))
             /\ MapDelete(w.by_key[k], {l \in gone : l.key = k}) \in Seq(Label)
  <2>. DEFINE s == w.by_key[k]
              less == {l \in ToSet(s) : \A g \in {h \in gone : h.key = k} : ~Same(l, g)}
  <2>1. s \in Seq(Label) /\ s = Only(w.labels, LabelsUnder(k))
    BY <1>1 DEF Indexed
  <2>2. ToSet(s) = ToSet(w.labels) \cap LabelsUnder(k)
    BY <1>1, <2>1, OnlyType
  <2>3. ToSet(s) \cap less = ToSet(s) \cap Stay
    <3>1. ASSUME NEW x \in ToSet(s)
          PROVE  (\A g \in {h \in gone : h.key = k} : ~Same(x, g)) <=> \A g \in gone : ~Same(x, g)
      BY <2>2 DEF LabelsUnder, Same
    <3>. QED
      BY <1>1, <2>2, <3>1
  <2>4. MapDelete(s, {l \in gone : l.key = k}) = Only(s, less)
    BY DEF MapDelete
  <2>. HIDE DEF s, less, Stay
  <2>5. Only(s, less) = Only(s, Stay) /\ Only(s, less) \in Seq(Label)
    BY <2>1, <2>3, OnlyAgree, OnlyType
  <2>6. /\ Only(s, Stay) = Only(w.labels, LabelsUnder(k) \cap Stay)
        /\ Only(Only(w.labels, Stay), LabelsUnder(k)) = Only(w.labels, Stay \cap LabelsUnder(k))
    BY <1>1, <2>1, OnlyOnly
  <2>7. Stay \cap LabelsUnder(k) = LabelsUnder(k) \cap Stay
    OBVIOUS
  <2>8. MapDelete(s, {l \in gone : l.key = k}) = Only(all, LabelsUnder(k))
    BY <1>3, <2>4, <2>5, <2>6, <2>7
  <2>. QED
    BY <2>4, <2>5, <2>8 DEF s
<1>6. Only(w.labels, Stay) \in Seq(Label)
      /\ ToSet(Only(w.labels, Stay)) = {x \in ToSet(w.labels) : \A g \in gone : ~Same(x, g)}
  <2>1. ToSet(Only(w.labels, Stay)) = ToSet(w.labels) \cap Stay /\ Only(w.labels, Stay) \in Seq(Label)
    BY <1>1, OnlyType
  <2>. QED
    BY <1>1, <2>1
<1>. HIDE DEF Stay
<1>7. ents \in [Entity -> Seq(Label)] /\ keys \in [Key -> Seq(Label)]
  BY <1>4, <1>5
<1>8. all \in Seq(Label)
  BY <1>3, <1>6
<1>9. /\ \A e \in Entity : ents[e] = Only(all, LabelsOn(e))
      /\ \A k \in Key : keys[k] = Only(all, LabelsUnder(k))
  BY <1>4, <1>5
<1>. HIDE DEF v, all, ents, keys
<1>10. /\ v \in World /\ SameBeside(v, w)
       /\ v.labels = all /\ v.by_entity = ents /\ v.by_key = keys
  BY <1>2, <1>7, <1>8 DEF World, SameBeside
<1>11. Indexed(v)
  BY <1>9, <1>10 DEF Indexed
<1>. QED
  BY <1>3, <1>6, <1>10, <1>11 DEF v, all

-----------------------------------------------------------------------------
(***************************************************************************)
(* What the writes do to the labels of an entity under a key.              *)
(***************************************************************************)
Fresh(w, e, k, v) == [entity |-> e, key |-> k, value |-> v, set_seq |-> w.head_seq + 1]

\* The worlds v and w differ in no label but those of e under k.
SameBut(v, w, e, k) ==
  \A f \in Entity, c \in Key : f # e \/ c # k => Of(v, f, c) = Of(w, f, c)

Kin(v, w) == v \in World /\ Indexed(v) /\ SameBeside(v, w)

LEMMA KeysAre == Key = {"email", "display-name", "member-of", "relation", "trait"}
BY DEF Key, SetupOwned, Configured

LEMMA SetLabelKeeps ==
  ASSUME NEW w \in World, Indexed(w), NEW e \in Entity, NEW k \in Key, NEW x \in Value
  PROVE  /\ Kin(SetLabel(w, e, k, x), w)
         /\ SameBut(SetLabel(w, e, k, x), w, e, k)
         /\ Of(SetLabel(w, e, k, x), e, k) = {l \in Of(w, e, k) : l.value # x} \cup {Fresh(w, e, k, x)}
<1>. DEFINE n == Fresh(w, e, k, x)
            v == SetLabel(w, e, k, x)
<1>1. n \in Label /\ n.entity = e /\ n.key = k /\ n.value = x
  BY DEF Fresh, Label, World
<1>2. v = PutLabel(w, n)
  BY DEF SetLabel, Fresh
<1>. HIDE DEF n, v
<1>3. v \in World /\ Indexed(v) /\ SameBeside(v, w)
      /\ ToSet(v.labels) = {y \in ToSet(w.labels) : ~Same(y, n)} \cup {n}
  BY <1>1, <1>2, PutLabelKeeps
<1>4. Of(v, e, k) = {l \in Of(w, e, k) : l.value # x} \cup {n}
  BY <1>1, <1>3 DEF Of, Same
<1>5. SameBut(v, w, e, k)
  BY <1>1, <1>3 DEF SameBut, Of, Same
<1>. QED
  BY <1>3, <1>4, <1>5 DEF Kin, v, n

LEMMA ReplaceLabelsKeeps ==
  ASSUME NEW w \in World, Indexed(w), NEW e \in Entity, NEW k \in Key
  PROVE  /\ Kin(ReplaceLabels(w, e, k), w)
         /\ SameBut(ReplaceLabels(w, e, k), w, e, k)
         /\ Of(ReplaceLabels(w, e, k), e, k) = {}
<1>. DEFINE v == ReplaceLabels(w, e, k)
            gone == LabelsOf(w, e, k)
<1>1. gone = Of(w, e, k) /\ ToSet(w.labels) \subseteq Label
  BY IndexesRight
<1>2. gone \subseteq Label
  BY <1>1 DEF Of
<1>3. v = DropLabels(w, gone)
  BY DEF ReplaceLabels
<1>. HIDE DEF gone, v
<1>4. v \in World /\ Indexed(v) /\ SameBeside(v, w)
      /\ ToSet(v.labels) = {x \in ToSet(w.labels) : \A g \in gone : ~Same(x, g)}
  BY <1>2, <1>3, DropLabelsKeeps
<1>5. Of(v, e, k) = {}
  BY <1>1, <1>4 DEF Of, Same
<1>6. SameBut(v, w, e, k)
  BY <1>1, <1>4 DEF SameBut, Of, Same
<1>. QED
  BY <1>4, <1>5, <1>6 DEF Kin, v

LEMMA RestateKeeps ==
  ASSUME NEW w \in World, Indexed(w), NEW e \in Entity, NEW k \in Key, NEW x \in Value
  PROVE  /\ Kin(Restate(w, e, k, x), w)
         /\ SameBut(Restate(w, e, k, x), w, e, k)
         /\ Of(Restate(w, e, k, x), e, k) = {Fresh(w, e, k, x)}
<1>. DEFINE u == ReplaceLabels(w, e, k)
            v == SetLabel(u, e, k, x)
<1>1. Restate(w, e, k, x) = v
  BY DEF Restate
<1>2. Kin(u, w) /\ SameBut(u, w, e, k) /\ Of(u, e, k) = {}
  BY ReplaceLabelsKeeps
<1>. HIDE DEF u
<1>3. /\ Kin(v, u) /\ SameBut(v, u, e, k)
      /\ Of(v, e, k) = {l \in Of(u, e, k) : l.value # x} \cup {Fresh(u, e, k, x)}
  BY <1>2, SetLabelKeeps DEF Kin
<1>. HIDE DEF v
<1>4. Kin(v, w) /\ Fresh(u, e, k, x) = Fresh(w, e, k, x)
  BY <1>2, <1>3 DEF Kin, SameBeside, Fresh
<1>5. SameBut(v, w, e, k)
  BY <1>2, <1>3 DEF SameBut
<1>6. Of(v, e, k) = {Fresh(w, e, k, x)}
  BY <1>2, <1>3, <1>4
<1>. QED
  BY <1>1, <1>4, <1>5, <1>6

LEMMA DropOneKeeps ==
  ASSUME NEW w \in World, Indexed(w), NEW e \in Entity, NEW k \in Key, NEW l \in Of(w, e, k)
  PROVE  /\ Kin(DropLabels(w, {l}), w)
         /\ SameBut(DropLabels(w, {l}), w, e, k)
         /\ Of(DropLabels(w, {l}), e, k) \subseteq Of(w, e, k)
<1>. DEFINE v == DropLabels(w, {l})
<1>1. {l} \subseteq Label /\ l.entity = e /\ l.key = k
  BY IndexesRight DEF Of
<1>4. v \in World /\ Indexed(v) /\ SameBeside(v, w)
      /\ ToSet(v.labels) = {x \in ToSet(w.labels) : \A g \in {l} : ~Same(x, g)}
  BY <1>1, DropLabelsKeeps
<1>. HIDE DEF v
<1>5. Of(v, e, k) \subseteq Of(w, e, k)
  BY <1>4 DEF Of
<1>6. SameBut(v, w, e, k)
  BY <1>1, <1>4 DEF SameBut, Of, Same
<1>. QED
  BY <1>4, <1>5, <1>6 DEF Kin, v

LEMMA RemoveLabelsKeeps ==
  ASSUME NEW w \in World, Indexed(w), NEW e \in Entity
  PROVE  /\ Kin(RemoveLabelsForEntity(w, e), w)
         /\ \A k \in Key : Of(RemoveLabelsForEntity(w, e), e, k) = {}
         /\ \A f \in Entity, k \in Key : f # e => Of(RemoveLabelsForEntity(w, e), f, k) = Of(w, f, k)
<1>. DEFINE v == RemoveLabelsForEntity(w, e)
            gone == ToSet(w.by_entity[e])
<1>1. gone = {l \in ToSet(w.labels) : l.entity = e} /\ ToSet(w.labels) \subseteq Label
  BY IndexesRight
<1>2. gone \subseteq Label
  BY <1>1
<1>3. v = DropLabels(w, gone)
  BY DEF RemoveLabelsForEntity
<1>. HIDE DEF gone, v
<1>4. v \in World /\ Indexed(v) /\ SameBeside(v, w)
      /\ ToSet(v.labels) = {x \in ToSet(w.labels) : \A g \in gone : ~Same(x, g)}
  BY <1>2, <1>3, DropLabelsKeeps
<1>5. \A k \in Key : Of(v, e, k) = {}
  BY <1>1, <1>4 DEF Of, Same
<1>6. \A f \in Entity, k \in Key : f # e => Of(v, f, k) = Of(w, f, k)
  BY <1>1, <1>4 DEF Of, Same
<1>. QED
  BY <1>4, <1>5, <1>6 DEF Kin, v

\* The one value of a key that has one.
LEMMA ValueOfOne ==
  ASSUME NEW w \in World, Indexed(w), NEW e \in Entity, NEW k \in Key, NEW l, Of(w, e, k) = {l}
  PROVE  ValueOf(w, e, k) = l.value
<1>. DEFINE s == w.by_entity[e]
            o == OfKey(s, k)
<1>1. s \in Seq(Label) /\ o = Only(s, LabelsUnder(k))
  BY Parts DEF World
<1>2. o \in Seq(Label) /\ ToSet(o) = ToSet(s) \cap LabelsUnder(k)
  BY <1>1, OnlyType
<1>3. ToSet(o) = {l}
  BY <1>2, IndexesRight DEF Of, LabelsUnder
<1>. HIDE DEF o
<1>4. PICK i \in 1..Len(o) : o[i] = l
  BY <1>2, <1>3, SetOf
<1>5. 1 \in 1..Len(o)
  BY <1>2, <1>4
<1>6. o[1] \in ToSet(o)
  BY <1>2, <1>5, SetOf
<1>. QED
  BY <1>3, <1>6 DEF ValueOf, o

-----------------------------------------------------------------------------
(***************************************************************************)
(* A sound world.                                                          *)
(***************************************************************************)
Families(w, p) == {l.value : l \in Of(w, p, "member-of")}
Addresses(w, f) == {m \in Email : w.emails[m] = f}

PersonSound(w, p) ==
  /\ Live(w, p) => \E l \in Of(w, p, "member-of") :
                     /\ Of(w, p, "member-of") = {l}
                     /\ l.value \in Family /\ Live(w, l.value)
  /\ ~Live(w, p) => \A k \in Key : Of(w, p, k) = {}
  /\ \E l : Of(w, p, "trait") \subseteq {l}

FamilySound(w, f) ==
  /\ Of(w, f, "member-of") = {}
  /\ Live(w, f) =>
       /\ \E l : Of(w, f, "display-name") = {l}
       /\ \E m \in Email, l \in Of(w, f, "email") :
            Of(w, f, "email") = {l} /\ l.value = m /\ Addresses(w, f) = {m}
  /\ ~Live(w, f) => Addresses(w, f) = {} /\ \A k \in Key : Of(w, f, k) = {}

Good(w) ==
  /\ w \in World /\ Indexed(w)
  /\ \A p \in Person : PersonSound(w, p)
  /\ \A f \in Family : FamilySound(w, f)

\* What an event may make of the world w: who is there is there since it came, and of
\* the family it came to.
Follows(v, w) ==
  /\ v.head_seq = w.head_seq
  /\ \A e \in Entity : v.created[e] \in {w.created[e], 0, w.head_seq + 1}
  /\ \A p \in Person :
       Live(w, p) /\ Live(v, p) => v.created[p] = w.created[p] /\ Families(v, p) = Families(w, p)

LEMMA PersonStays ==
  ASSUME NEW w, NEW v, NEW p \in Person, PersonSound(w, p),
         Live(v, p) <=> Live(w, p),
         \A f \in Family : Live(w, f) => Live(v, f),
         \A k \in Key : Of(v, p, k) = Of(w, p, k)
  PROVE  PersonSound(v, p) /\ Families(v, p) = Families(w, p)
<1>1. Of(v, p, "member-of") = Of(w, p, "member-of") /\ Of(v, p, "trait") = Of(w, p, "trait")
  BY KeysAre
<1>2. Families(v, p) = Families(w, p)
  BY <1>1 DEF Families
<1>3. ASSUME Live(v, p)
      PROVE  \E l \in Of(v, p, "member-of") : /\ Of(v, p, "member-of") = {l}
                                              /\ l.value \in Family /\ Live(v, l.value)
  BY <1>1, <1>3 DEF PersonSound
<1>4. ASSUME ~Live(v, p) PROVE \A k \in Key : Of(v, p, k) = {}
  BY <1>4 DEF PersonSound
<1>5. \E l : Of(v, p, "trait") \subseteq {l}
  BY <1>1 DEF PersonSound
<1>. QED
  BY <1>2, <1>3, <1>4, <1>5 DEF PersonSound

LEMMA FamilyStays ==
  ASSUME NEW w, NEW v, NEW f \in Family, FamilySound(w, f),
         Live(v, f) <=> Live(w, f), Addresses(v, f) = Addresses(w, f),
         \A k \in Key : Of(v, f, k) = Of(w, f, k)
  PROVE  FamilySound(v, f)
<1>1. /\ Of(v, f, "member-of") = Of(w, f, "member-of")
      /\ Of(v, f, "display-name") = Of(w, f, "display-name")
      /\ Of(v, f, "email") = Of(w, f, "email")
  BY KeysAre
<1>2. ASSUME Live(v, f)
      PROVE  /\ \E l : Of(v, f, "display-name") = {l}
             /\ \E m \in Email, l \in Of(v, f, "email") :
                  Of(v, f, "email") = {l} /\ l.value = m /\ Addresses(v, f) = {m}
  BY <1>1, <1>2 DEF FamilySound
<1>3. ASSUME ~Live(v, f) PROVE Addresses(v, f) = {} /\ \A k \in Key : Of(v, f, k) = {}
  BY <1>3 DEF FamilySound
<1>. QED
  BY <1>1, <1>2, <1>3 DEF FamilySound

\* A write beside the labels.
Beside(v, w) ==
  v.labels = w.labels /\ v.by_entity = w.by_entity /\ v.by_key = w.by_key /\ v.head_seq = w.head_seq

LEMMA BesideKeeps ==
  ASSUME NEW w \in World, Indexed(w), NEW v \in World, Beside(v, w)
  PROVE  Indexed(v) /\ \A e, k : Of(v, e, k) = Of(w, e, k)
BY DEF Beside, Indexed, Of

LEMMA InvitedKeeps ==
  ASSUME NEW w, Good(w), NEW f \in Family, ~Live(w, f), NEW m \in Email, NEW n \in Name,
         w.emails[m] = None
  PROVE  LET v == SetLabel(SetLabel([Register(w, f) EXCEPT !.emails[m] = f],
                                    f, "display-name", n), f, "email", m)
         IN  Good(v) /\ Follows(v, w)
<1>. DEFINE at == [w.created EXCEPT ![f] = w.head_seq + 1]
            book == [w.emails EXCEPT ![m] = f]
            u == [Register(w, f) EXCEPT !.emails[m] = f]
            s == SetLabel(u, f, "display-name", n)
            v == SetLabel(s, f, "email", m)
<1>1. w \in World /\ Indexed(w) /\ f \in Entity /\ w.head_seq \in Nat
      /\ w.created \in [Entity -> Nat] /\ w.emails \in [Email -> Family \cup {None}]
  BY DEF Good, Entity, World
<1>2. u = [w EXCEPT !.created = at, !.emails = book]
  BY DEF Register
<1>3. at \in [Entity -> Nat] /\ book \in [Email -> Family \cup {None}]
  BY <1>1
<1>4. /\ at[f] = w.head_seq + 1
      /\ \A e \in Entity : e # f => at[e] = w.created[e]
      /\ book[m] = f
      /\ \A x \in Email : x # m => book[x] = w.emails[x]
  BY <1>1
<1>. HIDE DEF at, book, u
<1>5. u \in World /\ Beside(u, w) /\ u.created = at /\ u.emails = book
  BY <1>1, <1>2, <1>3 DEF World, Beside
<1>6. Indexed(u) /\ \A e, k : Of(u, e, k) = Of(w, e, k)
  BY <1>1, <1>5, BesideKeeps
<1>7. n \in Value /\ m \in Value /\ "display-name" \in Key /\ "email" \in Key
      /\ "member-of" \in Key /\ "trait" \in Key
  BY KeysAre DEF Value
<1>. HIDE DEF s, v
<1>8. /\ Kin(s, u) /\ SameBut(s, u, f, "display-name")
      /\ Of(s, f, "display-name") =
           {l \in Of(u, f, "display-name") : l.value # n} \cup {Fresh(u, f, "display-name", n)}
  BY <1>1, <1>5, <1>6, <1>7, SetLabelKeeps DEF s
<1>9. /\ Kin(v, s) /\ SameBut(v, s, f, "email")
      /\ Of(v, f, "email") = {l \in Of(s, f, "email") : l.value # m} \cup {Fresh(s, f, "email", m)}
  BY <1>1, <1>7, <1>8, SetLabelKeeps DEF v, Kin
<1>10. v \in World /\ Indexed(v) /\ v.created = at /\ v.emails = book /\ v.head_seq = w.head_seq
  BY <1>5, <1>8, <1>9 DEF Kin, SameBeside, Beside
<1>11. \A e \in Entity, k \in Key : e # f => Of(v, e, k) = Of(w, e, k)
  BY <1>6, <1>8, <1>9 DEF SameBut
<1>12. \A k \in Key : Of(w, f, k) = {}
  BY DEF Good, FamilySound
<1>13. /\ Of(v, f, "display-name") = {Fresh(u, f, "display-name", n)}
       /\ Of(v, f, "email") = {Fresh(s, f, "email", m)}
       /\ Of(v, f, "member-of") = {}
  BY <1>1, <1>6, <1>7, <1>8, <1>9, <1>12 DEF SameBut
<1>14. /\ Live(v, f) /\ v.created[f] = w.head_seq + 1
       /\ \A e \in Entity : e # f => v.created[e] = w.created[e] /\ (Live(v, e) <=> Live(w, e))
  BY <1>1, <1>4, <1>10 DEF Live
<1>15. Addresses(w, f) = {}
  BY DEF Good, FamilySound
<1>16. Addresses(v, f) = {m}
  BY <1>4, <1>10, <1>15 DEF Addresses
<1>17. ASSUME NEW p \in Person PROVE PersonSound(v, p) /\ Families(v, p) = Families(w, p)
  <2>1. p \in Entity /\ p # f
    BY IdAssumption DEF Entity
  <2>2. \A g \in Family : Live(w, g) => Live(v, g)
    BY <1>14 DEF Entity
  <2>3. PersonSound(w, p) /\ (Live(v, p) <=> Live(w, p)) /\ \A k \in Key : Of(v, p, k) = Of(w, p, k)
    BY <1>11, <1>14, <2>1 DEF Good
  <2>. QED
    BY <2>2, <2>3, PersonStays
<1>18. ASSUME NEW g \in Family PROVE FamilySound(v, g)
  <2>1. CASE g = f
    <3>1. Fresh(s, f, "email", m).value = m
      BY DEF Fresh
    <3>. QED
      BY <1>13, <1>14, <1>16, <2>1, <3>1 DEF FamilySound
  <2>2. CASE g # f
    <3>1. g \in Entity /\ FamilySound(w, g) /\ g # None
      BY NoneAssumption DEF Entity, Good
    <3>2. Addresses(v, g) = Addresses(w, g)
      BY <1>4, <1>10, <2>2, <3>1 DEF Addresses
    <3>. QED
      BY <1>11, <1>14, <2>2, <3>1, <3>2, FamilyStays
  <2>. QED
    BY <2>1, <2>2
<1>19. Follows(v, w)
  <2>1. \A e \in Entity : v.created[e] \in {w.created[e], 0, w.head_seq + 1}
    BY <1>14
  <2>2. \A p \in Person : p \in Entity /\ p # f
    BY IdAssumption DEF Entity
  <2>. QED
    BY <1>10, <1>14, <1>17, <2>1, <2>2 DEF Follows
<1>. QED
  BY <1>10, <1>17, <1>18, <1>19 DEF Good, v, s, u

LEMMA EmailChangedKeeps ==
  ASSUME NEW w, Good(w), NEW f \in Family, Live(w, f), NEW old \in Email, NEW new \in Email,
         w.emails[old] = f, w.emails[new] = None
  PROVE  LET v == Restate([w EXCEPT !.emails[old] = None, !.emails[new] = f], f, "email", new)
         IN  Good(v) /\ Follows(v, w)
<1>. DEFINE book == [[w.emails EXCEPT ![old] = None] EXCEPT ![new] = f]
            u == [w EXCEPT !.emails[old] = None, !.emails[new] = f]
            v == Restate(u, f, "email", new)
<1>1. w \in World /\ Indexed(w) /\ f \in Entity /\ f # None
      /\ w.emails \in [Email -> Family \cup {None}]
  BY NoneAssumption DEF Good, Entity, World
<1>2. u = [w EXCEPT !.emails = book]
  OBVIOUS
<1>3. book \in [Email -> Family \cup {None}]
  BY <1>1
<1>4. /\ new # old /\ book[new] = f /\ book[old] = None
      /\ \A x \in Email : x # new /\ x # old => book[x] = w.emails[x]
  BY <1>1
<1>. HIDE DEF book, u
<1>5. u \in World /\ Beside(u, w) /\ u.created = w.created /\ u.emails = book
  BY <1>1, <1>2, <1>3 DEF World, Beside
<1>6. Indexed(u) /\ \A e, k : Of(u, e, k) = Of(w, e, k)
  BY <1>1, <1>5, BesideKeeps
<1>7. new \in Value /\ "email" \in Key /\ "display-name" \in Key /\ "member-of" \in Key
  BY KeysAre DEF Value
<1>. HIDE DEF v
<1>8. Kin(v, u) /\ SameBut(v, u, f, "email") /\ Of(v, f, "email") = {Fresh(u, f, "email", new)}
  BY <1>1, <1>5, <1>6, <1>7, RestateKeeps DEF v
<1>9. /\ v \in World /\ Indexed(v) /\ v.created = w.created /\ v.emails = book
      /\ v.head_seq = w.head_seq
  BY <1>5, <1>8 DEF Kin, SameBeside, Beside
<1>10. \A e \in Entity, k \in Key : e # f \/ k # "email" => Of(v, e, k) = Of(w, e, k)
  BY <1>6, <1>8 DEF SameBut
<1>11. \A e : Live(v, e) <=> Live(w, e)
  BY <1>9 DEF Live
<1>12. \E m \in Email : Addresses(w, f) = {m}
  BY DEF Good, FamilySound
<1>13. Addresses(w, f) = {old}
  BY <1>12 DEF Addresses
<1>14. Addresses(v, f) = {new}
  BY <1>1, <1>4, <1>9, <1>13 DEF Addresses
<1>15. ASSUME NEW p \in Person PROVE PersonSound(v, p) /\ Families(v, p) = Families(w, p)
  <2>1. p \in Entity /\ p # f /\ PersonSound(w, p)
    BY IdAssumption DEF Entity, Good
  <2>. QED
    BY <1>10, <1>11, <2>1, PersonStays
<1>16. ASSUME NEW g \in Family PROVE FamilySound(v, g)
  <2>1. g \in Entity /\ FamilySound(w, g) /\ g # None
    BY NoneAssumption DEF Entity, Good
  <2>2. CASE g = f
    <3>1. /\ Fresh(u, f, "email", new).value = new
          /\ Of(v, f, "display-name") = Of(w, f, "display-name")
          /\ Of(v, f, "member-of") = Of(w, f, "member-of")
      BY <1>1, <1>7, <1>10 DEF Fresh
    <3>. QED
      BY <1>8, <1>11, <1>14, <2>1, <2>2, <3>1 DEF FamilySound
  <2>3. CASE g # f
    <3>1. Addresses(v, g) = Addresses(w, g)
      BY <1>4, <1>9, <2>1, <2>3 DEF Addresses
    <3>. QED
      BY <1>10, <1>11, <2>1, <2>3, <3>1, FamilyStays
  <2>. QED
    BY <2>2, <2>3
<1>17. Follows(v, w)
  BY <1>9, <1>15 DEF Follows
<1>. QED
  BY <1>9, <1>15, <1>16, <1>17 DEF Good, v, u

LEMMA NameChangedKeeps ==
  ASSUME NEW w, Good(w), NEW f \in Family, Live(w, f), NEW n \in Name
  PROVE  LET v == Restate(w, f, "display-name", n) IN Good(v) /\ Follows(v, w)
<1>. DEFINE v == Restate(w, f, "display-name", n)
<1>1. w \in World /\ Indexed(w) /\ f \in Entity /\ n \in Value
      /\ "email" \in Key /\ "display-name" \in Key /\ "member-of" \in Key
  BY KeysAre DEF Good, Entity, Value
<1>2. /\ Kin(v, w) /\ SameBut(v, w, f, "display-name")
      /\ Of(v, f, "display-name") = {Fresh(w, f, "display-name", n)}
  BY <1>1, RestateKeeps
<1>. HIDE DEF v
<1>3. /\ v \in World /\ Indexed(v) /\ v.created = w.created /\ v.emails = w.emails
      /\ v.head_seq = w.head_seq
      /\ \A e \in Entity, k \in Key : e # f \/ k # "display-name" => Of(v, e, k) = Of(w, e, k)
  BY <1>2 DEF Kin, SameBeside, SameBut
<1>4. (\A e : Live(v, e) <=> Live(w, e)) /\ \A g : Addresses(v, g) = Addresses(w, g)
  BY <1>3 DEF Live, Addresses
<1>5. ASSUME NEW p \in Person PROVE PersonSound(v, p) /\ Families(v, p) = Families(w, p)
  <2>1. p \in Entity /\ p # f /\ PersonSound(w, p)
    BY IdAssumption DEF Entity, Good
  <2>. QED
    BY <1>3, <1>4, <2>1, PersonStays
<1>6. ASSUME NEW g \in Family PROVE FamilySound(v, g)
  <2>1. g \in Entity /\ FamilySound(w, g)
    BY DEF Entity, Good
  <2>2. CASE g = f
    <3>1. Of(v, f, "email") = Of(w, f, "email") /\ Of(v, f, "member-of") = Of(w, f, "member-of")
      BY <1>1, <1>3
    <3>. QED
      BY <1>2, <1>4, <2>1, <2>2, <3>1 DEF FamilySound
  <2>3. CASE g # f
    BY <1>3, <1>4, <2>1, <2>3, FamilyStays
  <2>. QED
    BY <2>2, <2>3
<1>7. Follows(v, w)
  BY <1>3, <1>5 DEF Follows
<1>. QED
  BY <1>3, <1>5, <1>6, <1>7 DEF Good, v

LEMMA AddedKeeps ==
  ASSUME NEW w, Good(w), NEW p \in Person, ~Live(w, p), NEW f \in Family, Live(w, f)
  PROVE  LET v == SetLabel(Register(w, p), p, "member-of", f) IN Good(v) /\ Follows(v, w)
<1>. DEFINE at == [w.created EXCEPT ![p] = w.head_seq + 1]
            u == Register(w, p)
            v == SetLabel(u, p, "member-of", f)
<1>1. /\ w \in World /\ Indexed(w) /\ p \in Entity /\ f \in Entity /\ p # f /\ f \in Value
      /\ w.head_seq \in Nat /\ w.created \in [Entity -> Nat]
      /\ "member-of" \in Key /\ "trait" \in Key
  BY IdAssumption, KeysAre DEF Good, Entity, Value, World
<1>2. u = [w EXCEPT !.created = at]
  BY DEF Register
<1>3. /\ at \in [Entity -> Nat] /\ at[p] = w.head_seq + 1
      /\ \A e \in Entity : e # p => at[e] = w.created[e]
  BY <1>1
<1>. HIDE DEF at, u
<1>4. u \in World /\ Beside(u, w) /\ u.created = at /\ u.emails = w.emails
  BY <1>1, <1>2, <1>3 DEF World, Beside
<1>5. Indexed(u) /\ \A e, k : Of(u, e, k) = Of(w, e, k)
  BY <1>1, <1>4, BesideKeeps
<1>. HIDE DEF v
<1>6. /\ Kin(v, u) /\ SameBut(v, u, p, "member-of")
      /\ Of(v, p, "member-of") =
           {l \in Of(u, p, "member-of") : l.value # f} \cup {Fresh(u, p, "member-of", f)}
  BY <1>1, <1>4, <1>5, SetLabelKeeps DEF v
<1>7. /\ v \in World /\ Indexed(v) /\ v.created = at /\ v.emails = w.emails
      /\ v.head_seq = w.head_seq
      /\ \A e \in Entity, k \in Key : e # p \/ k # "member-of" => Of(v, e, k) = Of(w, e, k)
  BY <1>4, <1>5, <1>6 DEF Kin, SameBeside, Beside, SameBut
<1>8. \A k \in Key : Of(w, p, k) = {}
  BY DEF Good, PersonSound
<1>9. Of(v, p, "member-of") = {Fresh(u, p, "member-of", f)} /\ Of(v, p, "trait") = {}
  BY <1>1, <1>5, <1>6, <1>7, <1>8
<1>10. /\ Live(v, p) /\ v.created[p] = w.head_seq + 1
       /\ \A e \in Entity : e # p => v.created[e] = w.created[e] /\ (Live(v, e) <=> Live(w, e))
       /\ \A g : Addresses(v, g) = Addresses(w, g)
  BY <1>1, <1>3, <1>7 DEF Live, Addresses
<1>11. PersonSound(v, p)
  <2>1. Fresh(u, p, "member-of", f).value = f /\ Live(v, f)
    BY <1>1, <1>10 DEF Fresh
  <2>. QED
    BY <1>9, <1>10, <2>1 DEF PersonSound
<1>12. \A g \in Family : g \in Entity /\ g # p
  BY IdAssumption DEF Entity
<1>13. ASSUME NEW q \in Person, q # p PROVE PersonSound(v, q) /\ Families(v, q) = Families(w, q)
  <2>1. q \in Entity /\ PersonSound(w, q) /\ (\A g \in Family : Live(w, g) => Live(v, g))
    BY <1>10, <1>12 DEF Entity, Good
  <2>2. (Live(v, q) <=> Live(w, q)) /\ \A k \in Key : Of(v, q, k) = Of(w, q, k)
    BY <1>7, <1>10, <1>13, <2>1
  <2>. QED
    BY <2>1, <2>2, PersonStays
<1>14. ASSUME NEW g \in Family PROVE FamilySound(v, g)
  <2>1. FamilySound(w, g)
    BY DEF Good
  <2>. QED
    BY <1>7, <1>10, <1>12, <2>1, FamilyStays
<1>15. Follows(v, w)
  <2>1. \A e \in Entity : v.created[e] \in {w.created[e], 0, w.head_seq + 1}
    BY <1>10
  <2>2. \A q \in Person : q \in Entity
    BY DEF Entity
  <2>. QED
    BY <1>7, <1>10, <1>13, <2>1, <2>2 DEF Follows
<1>. QED
  BY <1>7, <1>11, <1>13, <1>14, <1>15 DEF Good, v, u

LEMMA UpdatedKeeps ==
  ASSUME NEW w, Good(w), NEW p \in Person, Live(w, p), NEW f \in Family,
         ValueOf(w, p, "member-of") = f
  PROVE  LET v == Restate(w, p, "member-of", f) IN Good(v) /\ Follows(v, w)
<1>. DEFINE v == Restate(w, p, "member-of", f)
<1>1. w \in World /\ Indexed(w) /\ p \in Entity /\ f \in Value
      /\ "trait" \in Key /\ "member-of" \in Key /\ PersonSound(w, p)
  BY KeysAre DEF Good, Entity, Value
<1>2. PICK l : Of(w, p, "member-of") = {l} /\ l.value \in Family /\ Live(w, l.value)
  BY <1>1 DEF PersonSound
<1>3. l.value = f
  BY <1>1, <1>2, ValueOfOne
<1>4. /\ Kin(v, w) /\ SameBut(v, w, p, "member-of")
      /\ Of(v, p, "member-of") = {Fresh(w, p, "member-of", f)}
  BY <1>1, RestateKeeps
<1>. HIDE DEF v
<1>5. /\ v \in World /\ Indexed(v) /\ v.created = w.created /\ v.emails = w.emails
      /\ v.head_seq = w.head_seq
      /\ \A e \in Entity, k \in Key : e # p \/ k # "member-of" => Of(v, e, k) = Of(w, e, k)
  BY <1>4 DEF Kin, SameBeside, SameBut
<1>6. (\A e : Live(v, e) <=> Live(w, e)) /\ \A g : Addresses(v, g) = Addresses(w, g)
  BY <1>5 DEF Live, Addresses
<1>7. Fresh(w, p, "member-of", f).value = f
  BY DEF Fresh
<1>8. PersonSound(v, p) /\ Families(v, p) = Families(w, p)
  <2>1. Of(v, p, "trait") = Of(w, p, "trait")
    BY <1>1, <1>5
  <2>2. Families(v, p) = {f} /\ Families(w, p) = {f}
    BY <1>2, <1>3, <1>4, <1>7 DEF Families
  <2>. QED
    BY <1>1, <1>2, <1>3, <1>4, <1>6, <1>7, <2>1, <2>2 DEF PersonSound
<1>9. ASSUME NEW q \in Person, q # p PROVE PersonSound(v, q) /\ Families(v, q) = Families(w, q)
  <2>1. q \in Entity /\ PersonSound(w, q)
    BY DEF Entity, Good
  <2>. QED
    BY <1>5, <1>6, <1>9, <2>1, PersonStays
<1>10. ASSUME NEW g \in Family PROVE FamilySound(v, g)
  <2>1. g \in Entity /\ g # p /\ FamilySound(w, g)
    BY IdAssumption DEF Entity, Good
  <2>. QED
    BY <1>5, <1>6, <2>1, FamilyStays
<1>11. Follows(v, w)
  BY <1>5, <1>8, <1>9 DEF Follows
<1>. QED
  BY <1>5, <1>8, <1>9, <1>10, <1>11 DEF Good, v

LEMMA WithdrawnKeeps ==
  ASSUME NEW w, Good(w), NEW p \in Person
  PROVE  LET v == RemoveLabelsForEntity([w EXCEPT !.created[p] = 0], p) IN Good(v) /\ Follows(v, w)
<1>. DEFINE at == [w.created EXCEPT ![p] = 0]
            u == [w EXCEPT !.created[p] = 0]
            v == RemoveLabelsForEntity(u, p)
<1>1. w \in World /\ Indexed(w) /\ p \in Entity /\ w.created \in [Entity -> Nat]
      /\ "trait" \in Key
  BY KeysAre DEF Good, Entity, World
<1>2. u = [w EXCEPT !.created = at]
  OBVIOUS
<1>3. /\ at \in [Entity -> Nat] /\ at[p] = 0
      /\ \A e \in Entity : e # p => at[e] = w.created[e]
  BY <1>1
<1>. HIDE DEF at, u
<1>4. u \in World /\ Beside(u, w) /\ u.created = at /\ u.emails = w.emails
  BY <1>1, <1>2, <1>3 DEF World, Beside
<1>5. Indexed(u) /\ \A e, k : Of(u, e, k) = Of(w, e, k)
  BY <1>1, <1>4, BesideKeeps
<1>. HIDE DEF v
<1>6. /\ Kin(v, u) /\ \A k \in Key : Of(v, p, k) = {}
      /\ \A e \in Entity, k \in Key : e # p => Of(v, e, k) = Of(u, e, k)
  BY <1>1, <1>4, <1>5, RemoveLabelsKeeps DEF v
<1>7. /\ v \in World /\ Indexed(v) /\ v.created = at /\ v.emails = w.emails
      /\ v.head_seq = w.head_seq
      /\ \A e \in Entity, k \in Key : e # p => Of(v, e, k) = Of(w, e, k)
  BY <1>4, <1>5, <1>6 DEF Kin, SameBeside, Beside
<1>8. /\ ~Live(v, p)
      /\ \A e \in Entity : e # p => v.created[e] = w.created[e] /\ (Live(v, e) <=> Live(w, e))
      /\ \A g : Addresses(v, g) = Addresses(w, g)
  BY <1>1, <1>3, <1>7 DEF Live, Addresses
<1>9. PersonSound(v, p)
  BY <1>1, <1>6, <1>8 DEF PersonSound
<1>10. \A g \in Family : g \in Entity /\ g # p
  BY IdAssumption DEF Entity
<1>11. ASSUME NEW q \in Person, q # p PROVE PersonSound(v, q) /\ Families(v, q) = Families(w, q)
  <2>1. q \in Entity /\ PersonSound(w, q) /\ (\A g \in Family : Live(w, g) => Live(v, g))
    BY <1>8, <1>10 DEF Entity, Good
  <2>2. (Live(v, q) <=> Live(w, q)) /\ \A k \in Key : Of(v, q, k) = Of(w, q, k)
    BY <1>7, <1>8, <1>11, <2>1
  <2>. QED
    BY <2>1, <2>2, PersonStays
<1>12. ASSUME NEW g \in Family PROVE FamilySound(v, g)
  <2>1. FamilySound(w, g)
    BY DEF Good
  <2>. QED
    BY <1>7, <1>8, <1>10, <2>1, FamilyStays
<1>13. Follows(v, w)
  <2>1. \A e \in Entity : v.created[e] \in {w.created[e], 0, w.head_seq + 1}
    <3>1. v.created[p] = 0
      BY <1>3, <1>7
    <3>. QED
      BY <1>8, <3>1
  <2>2. \A q \in Person : q \in Entity
    BY DEF Entity
  <2>. QED
    BY <1>7, <1>8, <1>11, <2>1, <2>2 DEF Follows
<1>. QED
  BY <1>7, <1>9, <1>11, <1>12, <1>13 DEF Good, v, u

\* A change of a configured label.
LEMMA ConfiguredKeeps ==
  ASSUME NEW w, Good(w), NEW e \in Entity, NEW k \in Configured, Live(w, e), NEW v,
         Kin(v, w), SameBut(v, w, e, k),
         k = "trait" => \E l : Of(v, e, k) \subseteq {l}
  PROVE  Good(v) /\ Follows(v, w)
<1>1. /\ v \in World /\ Indexed(v) /\ v.created = w.created /\ v.emails = w.emails
      /\ v.head_seq = w.head_seq
      /\ \A f \in Entity, c \in Key : f # e \/ c # k => Of(v, f, c) = Of(w, f, c)
  BY DEF Kin, SameBeside, SameBut
<1>2. (\A f : Live(v, f) <=> Live(w, f)) /\ \A g : Addresses(v, g) = Addresses(w, g)
  BY <1>1 DEF Live, Addresses
<1>3. /\ k \in {"relation", "trait"} /\ "email" \in Key /\ "display-name" \in Key
      /\ "member-of" \in Key /\ "trait" \in Key
  BY KeysAre DEF Configured
<1>4. \A f \in Entity : /\ Of(v, f, "member-of") = Of(w, f, "member-of")
                        /\ Of(v, f, "display-name") = Of(w, f, "display-name")
                        /\ Of(v, f, "email") = Of(w, f, "email")
  BY <1>1, <1>3
<1>5. ASSUME NEW f \in Entity, ~Live(v, f) PROVE \A c \in Key : Of(v, f, c) = Of(w, f, c)
  BY <1>1, <1>2, <1>5
<1>6. ASSUME NEW p \in Person PROVE PersonSound(v, p) /\ Families(v, p) = Families(w, p)
  <2>1. p \in Entity /\ PersonSound(w, p)
    BY DEF Entity, Good
  <2>2. Families(v, p) = Families(w, p)
    BY <1>4, <2>1 DEF Families
  <2>3. \E l : Of(v, p, "trait") \subseteq {l}
    <3>1. CASE p = e /\ k = "trait"
      BY <3>1
    <3>2. CASE p # e \/ k # "trait"
      <4>1. Of(v, p, "trait") = Of(w, p, "trait")
        BY <1>1, <1>3, <2>1, <3>2
      <4>. QED
        BY <2>1, <4>1 DEF PersonSound
    <3>. QED
      BY <3>1, <3>2
  <2>4. ASSUME Live(v, p)
        PROVE  \E l \in Of(v, p, "member-of") : /\ Of(v, p, "member-of") = {l}
                                                /\ l.value \in Family /\ Live(v, l.value)
    BY <1>2, <1>4, <2>1, <2>4 DEF PersonSound
  <2>5. ASSUME ~Live(v, p) PROVE \A c \in Key : Of(v, p, c) = {}
    BY <1>2, <1>5, <2>1, <2>5 DEF PersonSound
  <2>. QED
    BY <2>2, <2>3, <2>4, <2>5 DEF PersonSound
<1>7. ASSUME NEW f \in Family PROVE FamilySound(v, f)
  <2>1. f \in Entity /\ FamilySound(w, f)
    BY DEF Entity, Good
  <2>2. ASSUME Live(v, f)
        PROVE  /\ \E l : Of(v, f, "display-name") = {l}
               /\ \E m \in Email, l \in Of(v, f, "email") :
                    Of(v, f, "email") = {l} /\ l.value = m /\ Addresses(v, f) = {m}
    BY <1>2, <1>4, <2>1, <2>2 DEF FamilySound
  <2>3. ASSUME ~Live(v, f) PROVE Addresses(v, f) = {} /\ \A c \in Key : Of(v, f, c) = {}
    BY <1>2, <1>5, <2>1, <2>3 DEF FamilySound
  <2>. QED
    BY <1>4, <2>1, <2>2, <2>3 DEF FamilySound
<1>8. Follows(v, w)
  BY <1>1, <1>6 DEF Follows
<1>. QED
  BY <1>1, <1>6, <1>7, <1>8 DEF Good

LEMMA LabelSetKeeps ==
  ASSUME NEW w, Good(w), NEW e \in Entity, NEW k \in Configured, Live(w, e), NEW x \in Values(k)
  PROVE  Good(SetConfigured(w, e, k, x)) /\ Follows(SetConfigured(w, e, k, x), w)
<1>1. w \in World /\ Indexed(w) /\ k \in Key /\ x \in Value
  BY DEF Good, Key, Values, Value
<1>2. CASE k = "relation"
  <2>1. SetConfigured(w, e, k, x) = SetLabel(w, e, k, x)
    BY <1>2 DEF SetConfigured
  <2>2. Kin(SetLabel(w, e, k, x), w) /\ SameBut(SetLabel(w, e, k, x), w, e, k)
    BY <1>1, SetLabelKeeps
  <2>3. k # "trait"
    BY <1>2
  <2>. QED
    BY <2>1, <2>2, <2>3, ConfiguredKeeps
<1>3. CASE k # "relation"
  <2>1. SetConfigured(w, e, k, x) = Restate(w, e, k, x)
    BY <1>3 DEF SetConfigured, Restate
  <2>2. /\ Kin(Restate(w, e, k, x), w) /\ SameBut(Restate(w, e, k, x), w, e, k)
        /\ Of(Restate(w, e, k, x), e, k) = {Fresh(w, e, k, x)}
    BY <1>1, RestateKeeps
  <2>3. \E l : Of(Restate(w, e, k, x), e, k) \subseteq {l}
    BY <2>2
  <2>. QED
    BY <2>1, <2>2, <2>3, ConfiguredKeeps
<1>. QED
  BY <1>2, <1>3

LEMMA LabelClearedKeeps ==
  ASSUME NEW w, Good(w), NEW e \in Entity, NEW k \in Configured, Live(w, e), k = "trait" => e \in Person,
         NEW v, v = ReplaceLabels(w, e, k) \/ \E l \in LabelsOf(w, e, k) : v = DropLabels(w, {l})
  PROVE  Good(v) /\ Follows(v, w)
<1>1. w \in World /\ Indexed(w) /\ k \in Key
  BY DEF Good, Key
<1>2. CASE v = ReplaceLabels(w, e, k)
  <2>1. Kin(v, w) /\ SameBut(v, w, e, k) /\ Of(v, e, k) = {}
    BY <1>1, <1>2, ReplaceLabelsKeeps
  <2>2. \E l : Of(v, e, k) \subseteq {l}
    BY <2>1
  <2>. QED
    BY <2>1, <2>2, ConfiguredKeeps
<1>3. ASSUME NEW l \in LabelsOf(w, e, k), v = DropLabels(w, {l}) PROVE Good(v) /\ Follows(v, w)
  <2>1. l \in Of(w, e, k)
    BY <1>1, IndexesRight
  <2>2. Kin(v, w) /\ SameBut(v, w, e, k) /\ Of(v, e, k) \subseteq Of(w, e, k)
    BY <1>1, <1>3, <2>1, DropOneKeeps
  <2>3. k = "trait" => \E m : Of(v, e, k) \subseteq {m}
    BY <2>2 DEF Good, PersonSound
  <2>. QED
    BY <2>2, <2>3, ConfiguredKeeps
<1>. QED
  BY <1>2, <1>3

-----------------------------------------------------------------------------
(***************************************************************************)
(* The inductive invariant.                                                *)
(***************************************************************************)
Aged(w) == \A e \in Entity : w.created[e] <= w.head_seq

\* The draft goes on from what is committed.
Continues ==
  /\ committed.head_seq <= draft.head_seq
  /\ \A p \in Person :
       Live(committed, p) /\ draft.created[p] = committed.created[p] =>
         Families(draft, p) = Families(committed, p)

IInv ==
  /\ Good(draft) /\ Aged(draft)
  /\ Good(committed) /\ Aged(committed) /\ Dangling(committed) = {}
  /\ Continues

LEMMA FoldedKeeps ==
  ASSUME IInv, NEW w, Good(w), Follows(w, draft), Folded(w)
  PROVE  IInv'
<1>. DEFINE h == w.head_seq + 1
            v == [w EXCEPT !.head_seq = h]
<1>1. /\ w \in World /\ Indexed(w) /\ draft' = v /\ committed' = committed
      /\ w.head_seq = draft.head_seq /\ draft.head_seq \in Nat /\ committed.head_seq \in Nat
      /\ draft.created \in [Entity -> Nat] /\ committed.created \in [Entity -> Nat]
      /\ w.created \in [Entity -> Nat]
  BY DEF IInv, Good, Folded, Follows, World
<1>20. v = [w EXCEPT !.head_seq = h] /\ h \in Nat
  BY <1>1
<1>. HIDE DEF v, h
<1>2. /\ v \in World /\ v.labels = w.labels /\ v.by_entity = w.by_entity /\ v.by_key = w.by_key
      /\ v.created = w.created /\ v.emails = w.emails /\ v.head_seq = w.head_seq + 1
  <2>1. /\ v \in World /\ v.labels = w.labels /\ v.by_entity = w.by_entity /\ v.by_key = w.by_key
        /\ v.created = w.created /\ v.emails = w.emails /\ v.head_seq = h
    BY <1>1, <1>20 DEF World
  <2>. QED
    BY <2>1 DEF h
<1>3. Indexed(v) /\ \A e, k : Of(v, e, k) = Of(w, e, k)
  BY <1>1, <1>2 DEF Indexed, Of
<1>4. (\A e : Live(v, e) <=> Live(w, e)) /\ \A f : Addresses(v, f) = Addresses(w, f)
  BY <1>2 DEF Live, Addresses
<1>5. ASSUME NEW p \in Person PROVE PersonSound(v, p) /\ Families(v, p) = Families(w, p)
  <2>1. PersonSound(w, p)
    BY DEF Good
  <2>. QED
    BY <1>3, <1>4, <2>1, PersonStays
<1>6. ASSUME NEW f \in Family PROVE FamilySound(v, f)
  <2>1. FamilySound(w, f)
    BY DEF Good
  <2>. QED
    BY <1>3, <1>4, <2>1, FamilyStays
<1>7. Good(v)
  BY <1>2, <1>3, <1>5, <1>6 DEF Good
<1>8. Aged(v)
  <2>. SUFFICES ASSUME NEW e \in Entity PROVE v.created[e] <= v.head_seq
    BY DEF Aged
  <2>1. /\ w.created[e] \in {draft.created[e], 0, draft.head_seq + 1}
        /\ draft.created[e] <= draft.head_seq
        /\ draft.created[e] \in Nat
    BY <1>1 DEF IInv, Aged, Follows
  <2>. QED
    BY <1>1, <1>2, <2>1
<1>9. committed.head_seq <= v.head_seq
  BY <1>1, <1>2 DEF IInv, Continues
<1>10. ASSUME NEW p \in Person, Live(committed, p), v.created[p] = committed.created[p]
       PROVE  Families(v, p) = Families(committed, p)
  <2>1. /\ p \in Entity
        /\ w.created[p] \in {draft.created[p], 0, draft.head_seq + 1}
        /\ committed.created[p] <= committed.head_seq
        /\ committed.head_seq <= draft.head_seq
        /\ committed.created[p] \in Nat /\ draft.created[p] \in Nat /\ committed.created[p] # 0
    BY <1>1, <1>10 DEF IInv, Aged, Continues, Follows, Entity, Live
  <2>2. w.created[p] = draft.created[p] /\ draft.created[p] = committed.created[p]
    BY <1>1, <1>2, <1>10, <2>1
  <2>3. Live(draft, p) /\ Live(w, p)
    BY <2>1, <2>2 DEF Live
  <2>4. Families(w, p) = Families(draft, p) /\ Families(draft, p) = Families(committed, p)
    BY <1>10, <2>2, <2>3 DEF Follows, IInv, Continues
  <2>. QED
    BY <1>5, <2>4
<1>11. /\ Good(draft') /\ Aged(draft') /\ Good(committed') /\ Aged(committed')
       /\ Dangling(committed') = {}
  BY <1>1, <1>7, <1>8 DEF IInv
<1>12. Continues'
  BY <1>1, <1>9, <1>10 DEF Continues
<1>. QED
  BY <1>11, <1>12 DEF IInv

LEMMA InitHolds == Init => IInv
<1>. SUFFICES ASSUME Init PROVE IInv
  OBVIOUS
<1>. DEFINE w == EmptyWorld
<1>1. draft = w /\ committed = w
  BY DEF Init
<1>2. /\ w.head_seq = 0 /\ w.created = [e \in Entity |-> 0] /\ w.emails = [m \in Email |-> None]
      /\ w.labels = <<>> /\ w.by_entity = [e \in Entity |-> <<>>]
      /\ w.by_key = [k \in Key |-> <<>>]
  BY DEF EmptyWorld
<1>3. w \in World
  <2>1. /\ <<>> \in Seq(Label) /\ [e \in Entity |-> 0] \in [Entity -> Nat]
        /\ [m \in Email |-> None] \in [Email -> Family \cup {None}]
    OBVIOUS
  <2>2. /\ [e \in Entity |-> <<>>] \in [Entity -> Seq(Label)]
        /\ [k \in Key |-> <<>>] \in [Key -> Seq(Label)]
    BY <2>1
  <2>. QED
    BY <2>1, <2>2 DEF EmptyWorld, World
<1>. HIDE DEF w
<1>4. Indexed(w)
  BY <1>2, OnlyEmpty DEF Indexed
<1>5. \A e, k : Of(w, e, k) = {}
  BY <1>2, SetOfEmpty DEF Of
<1>6. \A e \in Entity : ~Live(w, e)
  BY <1>2 DEF Live
<1>7. \A f \in Family : Addresses(w, f) = {}
  BY <1>2, NoneAssumption DEF Addresses
<1>8. ASSUME NEW p \in Person PROVE PersonSound(w, p)
  BY <1>5, <1>6 DEF PersonSound, Entity
<1>9. ASSUME NEW f \in Family PROVE FamilySound(w, f)
  BY <1>5, <1>6, <1>7 DEF FamilySound, Entity
<1>10. Good(w)
  BY <1>3, <1>4, <1>8, <1>9 DEF Good
<1>11. Aged(w)
  BY <1>2 DEF Aged
<1>12. Dangling(w) = {}
  <2>1. Len(w.labels) = 0
    BY <1>2
  <2>. QED
    BY <2>1 DEF Dangling
<1>13. Continues
  BY <1>1, <1>2 DEF Continues
<1>. QED
  BY <1>1, <1>10, <1>11, <1>12, <1>13 DEF IInv

LEMMA NextKeeps == IInv /\ [Next]_vars => IInv'
<1>. SUFFICES ASSUME IInv, [Next]_vars PROVE IInv'
  OBVIOUS
<1>1. Good(draft)
  BY DEF IInv
<1>2. ASSUME NEW f \in Family, FamilyInvited(f) PROVE IInv'
  <2>1. PICK m \in Email, n \in Name :
          /\ draft.emails[m] = None
          /\ Folded(SetLabel(SetLabel([Register(draft, f) EXCEPT !.emails[m] = f],
                                      f, "display-name", n), f, "email", m))
    BY <1>2 DEF FamilyInvited
  <2>2. ~Live(draft, f)
    BY <1>2 DEF FamilyInvited
  <2>. QED
    BY <1>1, <2>1, <2>2, InvitedKeeps, FoldedKeeps
<1>3. ASSUME NEW f \in Family, FamilyEmailChanged(f) PROVE IInv'
  <2>1. PICK old \in Email, new \in Email :
          /\ draft.emails[old] = f /\ draft.emails[new] = None
          /\ Folded(Restate([draft EXCEPT !.emails[old] = None, !.emails[new] = f], f, "email", new))
    BY <1>3 DEF FamilyEmailChanged, EmailFree
  <2>2. Live(draft, f)
    BY <1>3 DEF FamilyEmailChanged
  <2>. QED
    BY <1>1, <2>1, <2>2, EmailChangedKeeps, FoldedKeeps
<1>4. ASSUME NEW f \in Family, FamilyDisplayNameChanged(f) PROVE IInv'
  <2>1. PICK n \in Name : Folded(Restate(draft, f, "display-name", n))
    BY <1>4 DEF FamilyDisplayNameChanged
  <2>2. Live(draft, f)
    BY <1>4 DEF FamilyDisplayNameChanged
  <2>. QED
    BY <1>1, <2>1, <2>2, NameChangedKeeps, FoldedKeeps
<1>5. ASSUME NEW p \in Person, PersonAdded(p) PROVE IInv'
  <2>1. PICK f \in Family : Live(draft, f) /\ Folded(SetLabel(Register(draft, p), p, "member-of", f))
    BY <1>5 DEF PersonAdded
  <2>2. ~Live(draft, p)
    BY <1>5 DEF PersonAdded
  <2>. QED
    BY <1>1, <2>1, <2>2, AddedKeeps, FoldedKeeps
<1>6. ASSUME NEW p \in Person, PersonUpdated(p) PROVE IInv'
  <2>1. PICK f \in Family : ValueOf(draft, p, "member-of") = f /\ Folded(Restate(draft, p, "member-of", f))
    BY <1>6 DEF PersonUpdated, SameFamily
  <2>2. Live(draft, p)
    BY <1>6 DEF PersonUpdated
  <2>. QED
    BY <1>1, <2>1, <2>2, UpdatedKeeps, FoldedKeeps
<1>7. ASSUME NEW p \in Person, PersonWithdrawn(p) PROVE IInv'
  <2>1. Folded(RemoveLabelsForEntity([draft EXCEPT !.created[p] = 0], p))
    BY <1>7 DEF PersonWithdrawn
  <2>. QED
    BY <1>1, <2>1, WithdrawnKeeps, FoldedKeeps
<1>8. ASSUME NEW e \in Entity, LabelSet(e) PROVE IInv'
  <2>1. PICK k \in Configured : \E v \in Values(k) : Settable(e, k) /\ Folded(SetConfigured(draft, e, k, v))
    BY <1>8 DEF LabelSet
  <2>2. PICK v \in Values(k) : Settable(e, k) /\ Folded(SetConfigured(draft, e, k, v))
    BY <2>1
  <2>3. Live(draft, e)
    BY <2>2 DEF Settable
  <2>. QED
    BY <1>1, <2>2, <2>3, LabelSetKeeps, FoldedKeeps
<1>9. ASSUME NEW e \in Entity, LabelCleared(e) PROVE IInv'
  <2>1. PICK k \in Key :
          /\ Clearable(e, k)
          /\ \/ Folded(ReplaceLabels(draft, e, k))
             \/ \E l \in LabelsOf(draft, e, k) : Folded(DropLabels(draft, {l}))
    BY <1>9 DEF LabelCleared
  <2>2. Live(draft, e) /\ k \in Configured /\ (k = "trait" => e \in Person)
    BY <2>1 DEF Clearable, InScope
  <2>3. PICK v : /\ Folded(v)
                 /\ v = ReplaceLabels(draft, e, k) \/ \E l \in LabelsOf(draft, e, k) : v = DropLabels(draft, {l})
    BY <2>1
  <2>. QED
    BY <1>1, <2>2, <2>3, LabelClearedKeeps, FoldedKeeps
<1>10. ASSUME Commit PROVE IInv'
  <2>1. committed' = draft /\ draft' = draft /\ Dangling(draft) = {}
    BY <1>10 DEF Commit, Appendable
  <2>2. draft.head_seq \in Nat
    BY <1>1 DEF Good, World
  <2>. QED
    BY <2>1, <2>2 DEF IInv, Continues
<1>11. ASSUME Reject PROVE IInv'
  <2>1. committed' = committed /\ draft' = committed
    BY <1>11 DEF Reject
  <2>2. committed.head_seq \in Nat
    BY DEF IInv, Good, World
  <2>. QED
    BY <2>1, <2>2 DEF IInv, Continues
<1>12. ASSUME UNCHANGED vars PROVE IInv'
  <2>1. committed' = committed /\ draft' = draft
    BY <1>12 DEF vars
  <2>. QED
    BY <2>1 DEF IInv, Continues
<1>. QED
  BY <1>2, <1>3, <1>4, <1>5, <1>6, <1>7, <1>8, <1>9, <1>10, <1>11, <1>12 DEF Next

\* Draft and log fold to sound worlds, and the draft goes on from the log
\* (fold.ts, applyEvent and its handlers).
THEOREM Invariant == Spec => []IInv
BY InitHolds, NextKeeps, PTL DEF Spec

-----------------------------------------------------------------------------
(***************************************************************************)
(* What is said of an entity was said since it came.                       *)
(***************************************************************************)
SaidSince(w) == \A l \in ToSet(w.labels) : w.created[l.entity] <= l.set_seq

\* The labels of v are those of w, or written by its next event.
Later(v, w) ==
  \A l \in ToSet(v.labels) : l \in ToSet(w.labels) \/ l.set_seq = w.head_seq + 1

\* Who is new in v was not there in w.
Newcomers(v, w) ==
  \A e \in Entity : \/ v.created[e] \in {w.created[e], 0}
                    \/ v.created[e] = w.head_seq + 1 /\ ~Live(w, e)

LEMMA SetLabelLater ==
  ASSUME NEW w \in World, Indexed(w), NEW e \in Entity, NEW k \in Key, NEW x \in Value
  PROVE  Later(SetLabel(w, e, k, x), w)
<1>. DEFINE n == Fresh(w, e, k, x)
<1>1. n \in Label /\ n.set_seq = w.head_seq + 1
  BY DEF Fresh, Label, World
<1>2. SetLabel(w, e, k, x) = PutLabel(w, n)
  BY DEF SetLabel, Fresh
<1>. HIDE DEF n
<1>3. ToSet(PutLabel(w, n).labels) = {y \in ToSet(w.labels) : ~Same(y, n)} \cup {n}
  BY <1>1, PutLabelKeeps
<1>. QED
  BY <1>1, <1>2, <1>3 DEF Later

LEMMA DropLabelsLater ==
  ASSUME NEW w \in World, Indexed(w), NEW gone, gone \subseteq ToSet(w.labels)
  PROVE  Later(DropLabels(w, gone), w)
<1>1. gone \subseteq Label
  BY IndexesRight
<1>. QED
  BY <1>1, DropLabelsKeeps DEF Later

LEMMA ReplaceLabelsLater ==
  ASSUME NEW w \in World, Indexed(w), NEW e \in Entity, NEW k \in Key
  PROVE  Later(ReplaceLabels(w, e, k), w)
<1>1. LabelsOf(w, e, k) \subseteq ToSet(w.labels)
  BY IndexesRight DEF Of
<1>. QED
  BY <1>1, DropLabelsLater DEF ReplaceLabels

LEMMA LaterTrans ==
  ASSUME NEW u, NEW v, NEW w, Later(v, u), Later(u, w), u.head_seq = w.head_seq
  PROVE  Later(v, w)
BY DEF Later

LEMMA RestateLater ==
  ASSUME NEW w \in World, Indexed(w), NEW e \in Entity, NEW k \in Key, NEW x \in Value
  PROVE  Later(Restate(w, e, k, x), w)
<1>. DEFINE u == ReplaceLabels(w, e, k)
<1>1. Kin(u, w) /\ Later(u, w) /\ Restate(w, e, k, x) = SetLabel(u, e, k, x)
  BY ReplaceLabelsKeeps, ReplaceLabelsLater DEF Restate
<1>. HIDE DEF u
<1>2. Later(SetLabel(u, e, k, x), u) /\ u.head_seq = w.head_seq
  BY <1>1, SetLabelLater DEF Kin, SameBeside
<1>. QED
  BY <1>1, <1>2, LaterTrans

\* A write beside the labels comes before.
LEMMA BesideLater ==
  ASSUME NEW w, NEW u, NEW v, Beside(u, w), Later(v, u)
  PROVE  Later(v, w)
BY DEF Beside, Later

LEMMA NobodySaid ==
  ASSUME NEW w, Good(w), NEW l \in ToSet(w.labels)
  PROVE  l \in Label /\ Live(w, l.entity)
<1>1. l \in Label
  BY IndexesRight DEF Good
<1>2. l.entity \in Entity /\ l.key \in Key /\ l \in Of(w, l.entity, l.key)
  BY <1>1 DEF Label, Of
<1>3. ASSUME l.entity \in Person PROVE Live(w, l.entity)
  BY <1>2, <1>3 DEF Good, PersonSound
<1>4. ASSUME l.entity \in Family PROVE Live(w, l.entity)
  BY <1>2, <1>4 DEF Good, FamilySound
<1>. QED
  BY <1>1, <1>2, <1>3, <1>4 DEF Entity

LEMMA FoldedSaid ==
  ASSUME IInv, SaidSince(draft), NEW v, Good(v), Follows(v, draft), Later(v, draft),
         Newcomers(v, draft), Folded(v)
  PROVE  SaidSince(draft)' /\ committed' = committed
<1>1. /\ draft' = [v EXCEPT !.head_seq = @ + 1] /\ v \in World /\ committed' = committed
      /\ Good(draft) /\ draft \in World
  BY DEF Folded, Good, IInv
<1>2. draft'.labels = v.labels /\ draft'.created = v.created
  BY <1>1 DEF World
<1>3. ASSUME NEW l \in ToSet(v.labels) PROVE v.created[l.entity] <= l.set_seq
  <2>1. /\ l \in Label /\ l.entity \in Entity /\ l.set_seq \in Nat /\ draft.head_seq \in Nat
        /\ draft.created[l.entity] \in Nat /\ draft.created[l.entity] <= draft.head_seq
    BY SMTT(30), <1>1, <1>3, NobodySaid DEF Label, World, IInv, Aged
  <2>2. CASE l \in ToSet(draft.labels)
    <3>1. Live(draft, l.entity) /\ draft.created[l.entity] <= l.set_seq
      BY <1>1, <2>2, NobodySaid DEF SaidSince
    <3>. QED
      BY <2>1, <3>1 DEF Newcomers
  <2>3. CASE l.set_seq = draft.head_seq + 1
    BY <2>1, <2>3 DEF Newcomers
  <2>. QED
    BY <2>2, <2>3, <1>3 DEF Later
<1>. QED
  BY <1>1, <1>2, <1>3 DEF SaidSince

Said == SaidSince(draft) /\ SaidSince(committed)

LEMMA SaidInit == Init => Said
<1>1. ToSet(<<>>) = {}
  BY SetOfEmpty
<1>. QED
  BY <1>1 DEF Init, EmptyWorld, Said, SaidSince

LEMMA SaidStep ==
  ASSUME IInv, Said, [Next]_vars
  PROVE  Said'
<1>1. Good(draft) /\ draft \in World /\ Indexed(draft) /\ SaidSince(draft)
  BY DEF IInv, Good, Said
<1>2. "email" \in Key /\ "display-name" \in Key /\ "member-of" \in Key
  BY KeysAre
<1>3. /\ \A f \in Family : f \in Entity /\ f \in Value
      /\ \A p \in Person : p \in Entity
      /\ \A m \in Email : m \in Value
      /\ \A n \in Name : n \in Value
  BY DEF Entity, Value
<1>. DEFINE Does(v) == Good(v) /\ Follows(v, draft) /\ Later(v, draft) /\ Newcomers(v, draft)
<1>4. ASSUME NEW v, Does(v), Folded(v) PROVE Said'
  <2>1. SaidSince(draft)' /\ committed' = committed
    BY <1>1, <1>4, FoldedSaid
  <2>. QED
    BY <2>1 DEF Said, SaidSince
<1>5. ASSUME NEW v \in World, Kin(v, draft) PROVE Newcomers(v, draft)
  BY <1>5 DEF Kin, SameBeside, Newcomers
<1>6. ASSUME NEW f \in Family, FamilyInvited(f) PROVE Said'
  <2>1. PICK m \in Email, n \in Name :
          /\ draft.emails[m] = None
          /\ Folded(SetLabel(SetLabel([Register(draft, f) EXCEPT !.emails[m] = f],
                                      f, "display-name", n), f, "email", m))
    BY <1>6 DEF FamilyInvited
  <2>. DEFINE at == [draft.created EXCEPT ![f] = draft.head_seq + 1]
              book == [draft.emails EXCEPT ![m] = f]
              u == [Register(draft, f) EXCEPT !.emails[m] = f]
              s == SetLabel(u, f, "display-name", n)
              v == SetLabel(s, f, "email", m)
  <2>2. ~Live(draft, f) /\ f \in Entity /\ Good(v) /\ Follows(v, draft)
    BY <1>1, <1>3, <1>6, <2>1, InvitedKeeps DEF FamilyInvited
  <2>3. u = [draft EXCEPT !.created = at, !.emails = book]
    BY DEF Register
  <2>4. at \in [Entity -> Nat] /\ book \in [Email -> Family \cup {None}]
    BY <1>1, <2>2 DEF World
  <2>. HIDE DEF at, book, u
  <2>5. u \in World /\ Beside(u, draft) /\ u.created = at
    BY <1>1, <2>3, <2>4 DEF World, Beside
  <2>6. Indexed(u)
    BY <1>1, <2>5, BesideKeeps
  <2>7. Kin(s, u) /\ Later(s, u)
    BY <1>2, <1>3, <2>5, <2>6, SetLabelKeeps, SetLabelLater
  <2>. HIDE DEF s
  <2>8. Kin(v, s) /\ Later(v, s)
    BY <1>2, <1>3, <2>7, SetLabelKeeps, SetLabelLater DEF Kin
  <2>. HIDE DEF v
  <2>9. s.head_seq = u.head_seq /\ v.created = at
    BY <2>5, <2>7, <2>8 DEF Kin, SameBeside
  <2>10. Later(v, draft)
    BY <2>5, <2>7, <2>8, <2>9, LaterTrans, BesideLater
  <2>11. Newcomers(v, draft)
    BY <1>1, <2>2, <2>9 DEF Newcomers, at, World
  <2>. QED
    BY <1>4, <2>1, <2>2, <2>10, <2>11 DEF v, s, u
<1>7. ASSUME NEW f \in Family, FamilyEmailChanged(f) PROVE Said'
  <2>1. PICK old \in Email, new \in Email :
          /\ draft.emails[old] = f /\ draft.emails[new] = None
          /\ Folded(Restate([draft EXCEPT !.emails[old] = None, !.emails[new] = f], f, "email", new))
    BY <1>7 DEF FamilyEmailChanged, EmailFree
  <2>. DEFINE book == [[draft.emails EXCEPT ![old] = None] EXCEPT ![new] = f]
              u == [draft EXCEPT !.emails[old] = None, !.emails[new] = f]
              v == Restate(u, f, "email", new)
  <2>2. Good(v) /\ Follows(v, draft)
    BY <1>1, <1>7, <2>1, EmailChangedKeeps DEF FamilyEmailChanged
  <2>3. u = [draft EXCEPT !.emails = book] /\ book \in [Email -> Family \cup {None}]
    BY <1>1 DEF World
  <2>. HIDE DEF book, u
  <2>4. u \in World /\ Beside(u, draft) /\ u.created = draft.created
    BY <1>1, <2>3 DEF World, Beside
  <2>5. Indexed(u)
    BY <1>1, <2>4, BesideKeeps
  <2>6. Kin(v, u) /\ Later(v, u)
    BY <1>2, <1>3, <2>4, <2>5, RestateKeeps, RestateLater
  <2>. HIDE DEF v
  <2>7. Later(v, draft) /\ Newcomers(v, draft)
    BY <2>4, <2>6, BesideLater DEF Kin, SameBeside, Newcomers
  <2>. QED
    BY <1>4, <2>1, <2>2, <2>7 DEF v, u
<1>8. ASSUME NEW f \in Family, FamilyDisplayNameChanged(f) PROVE Said'
  <2>1. PICK n \in Name : Folded(Restate(draft, f, "display-name", n))
    BY <1>8 DEF FamilyDisplayNameChanged
  <2>. DEFINE v == Restate(draft, f, "display-name", n)
  <2>2. Good(v) /\ Follows(v, draft)
    BY <1>1, <1>8, <2>1, NameChangedKeeps DEF FamilyDisplayNameChanged
  <2>3. Kin(v, draft) /\ Later(v, draft)
    BY <1>1, <1>2, <1>3, RestateKeeps, RestateLater
  <2>. HIDE DEF v
  <2>. QED
    BY <1>4, <1>5, <2>1, <2>2, <2>3 DEF v, Kin
<1>9. ASSUME NEW p \in Person, PersonAdded(p) PROVE Said'
  <2>1. PICK f \in Family : Live(draft, f) /\ Folded(SetLabel(Register(draft, p), p, "member-of", f))
    BY <1>9 DEF PersonAdded
  <2>. DEFINE at == [draft.created EXCEPT ![p] = draft.head_seq + 1]
              u == Register(draft, p)
              v == SetLabel(u, p, "member-of", f)
  <2>2. ~Live(draft, p) /\ p \in Entity /\ Good(v) /\ Follows(v, draft)
    BY <1>1, <1>3, <1>9, <2>1, AddedKeeps DEF PersonAdded
  <2>3. u = [draft EXCEPT !.created = at] /\ at \in [Entity -> Nat]
    BY <1>1, <2>2 DEF Register, World
  <2>. HIDE DEF at, u
  <2>4. u \in World /\ Beside(u, draft) /\ u.created = at
    BY <1>1, <2>3 DEF World, Beside
  <2>5. Indexed(u)
    BY <1>1, <2>4, BesideKeeps
  <2>6. Kin(v, u) /\ Later(v, u)
    BY <1>2, <1>3, <2>2, <2>4, <2>5, SetLabelKeeps, SetLabelLater
  <2>. HIDE DEF v
  <2>7. v.created = at
    BY <2>4, <2>6 DEF Kin, SameBeside
  <2>8. Later(v, draft) /\ Newcomers(v, draft)
    BY <1>1, <2>2, <2>4, <2>6, <2>7, BesideLater DEF Newcomers, at, World
  <2>. QED
    BY <1>4, <2>1, <2>2, <2>8 DEF v, u
<1>10. ASSUME NEW p \in Person, PersonUpdated(p) PROVE Said'
  <2>1. PICK f \in Family : ValueOf(draft, p, "member-of") = f /\ Folded(Restate(draft, p, "member-of", f))
    BY <1>10 DEF PersonUpdated, SameFamily
  <2>. DEFINE v == Restate(draft, p, "member-of", f)
  <2>2. Good(v) /\ Follows(v, draft)
    BY <1>1, <1>10, <2>1, UpdatedKeeps DEF PersonUpdated
  <2>3. Kin(v, draft) /\ Later(v, draft)
    BY <1>1, <1>2, <1>3, RestateKeeps, RestateLater
  <2>. HIDE DEF v
  <2>. QED
    BY <1>4, <1>5, <2>1, <2>2, <2>3 DEF v, Kin
<1>11. ASSUME NEW p \in Person, PersonWithdrawn(p) PROVE Said'
  <2>1. Folded(RemoveLabelsForEntity([draft EXCEPT !.created[p] = 0], p))
    BY <1>11 DEF PersonWithdrawn
  <2>. DEFINE at == [draft.created EXCEPT ![p] = 0]
              u == [draft EXCEPT !.created[p] = 0]
              gone == ToSet(u.by_entity[p])
              v == RemoveLabelsForEntity(u, p)
  <2>2. Good(v) /\ Follows(v, draft)
    BY <1>1, <2>1, WithdrawnKeeps
  <2>3. u = [draft EXCEPT !.created = at] /\ at \in [Entity -> Nat]
    BY <1>1 DEF World
  <2>. HIDE DEF at, u
  <2>4. u \in World /\ Beside(u, draft) /\ u.created = at
    BY <1>1, <2>3 DEF World, Beside
  <2>5. Indexed(u)
    BY <1>1, <2>4, BesideKeeps
  <2>6. Kin(v, u)
    BY <1>3, <2>4, <2>5, RemoveLabelsKeeps
  <2>7. gone \subseteq ToSet(u.labels) /\ v = DropLabels(u, gone)
    BY <1>3, <2>4, <2>5, IndexesRight DEF RemoveLabelsForEntity
  <2>. HIDE DEF gone, v
  <2>8. Later(v, u)
    BY <2>4, <2>5, <2>7, DropLabelsLater
  <2>9. v.created = at
    BY <2>4, <2>6 DEF Kin, SameBeside
  <2>10. Later(v, draft) /\ Newcomers(v, draft)
    BY <1>1, <2>4, <2>8, <2>9, BesideLater DEF Newcomers, at, World
  <2>. QED
    BY <1>4, <2>1, <2>2, <2>10 DEF v, u
<1>12. ASSUME NEW e \in Entity, LabelSet(e) PROVE Said'
  <2>1. PICK k \in Configured : \E x \in Values(k) : Settable(e, k) /\ Folded(SetConfigured(draft, e, k, x))
    BY <1>12 DEF LabelSet
  <2>2. PICK x \in Values(k) : Settable(e, k) /\ Folded(SetConfigured(draft, e, k, x))
    BY <2>1
  <2>. DEFINE v == SetConfigured(draft, e, k, x)
  <2>3. k \in Key /\ x \in Value /\ Good(v) /\ Follows(v, draft)
    BY <1>1, <2>2, LabelSetKeeps DEF Settable, Key, Values, Value
  <2>4. v = SetLabel(draft, e, k, x) \/ v = Restate(draft, e, k, x)
    BY DEF SetConfigured, Restate
  <2>. HIDE DEF v
  <2>5. Kin(v, draft) /\ Later(v, draft)
    BY <1>1, <2>3, <2>4, SetLabelKeeps, SetLabelLater, RestateKeeps, RestateLater
  <2>. QED
    BY <1>4, <1>5, <2>2, <2>3, <2>5 DEF v, Kin
<1>13. ASSUME NEW e \in Entity, LabelCleared(e) PROVE Said'
  <2>1. PICK k \in Key :
          /\ Clearable(e, k)
          /\ \/ Folded(ReplaceLabels(draft, e, k))
             \/ \E l \in LabelsOf(draft, e, k) : Folded(DropLabels(draft, {l}))
    BY <1>13 DEF LabelCleared
  <2>2. Live(draft, e) /\ k \in Configured /\ (k = "trait" => e \in Person)
    BY <2>1 DEF Clearable, InScope
  <2>3. PICK v : /\ Folded(v)
                 /\ v = ReplaceLabels(draft, e, k) \/ \E l \in LabelsOf(draft, e, k) : v = DropLabels(draft, {l})
    BY <2>1
  <2>4. Good(v) /\ Follows(v, draft)
    BY <1>1, <2>2, <2>3, LabelClearedKeeps
  <2>5. CASE v = ReplaceLabels(draft, e, k)
    <3>1. Kin(v, draft) /\ Later(v, draft)
      BY <1>1, <2>5, ReplaceLabelsKeeps, ReplaceLabelsLater
    <3>. QED
      BY <1>4, <1>5, <2>3, <2>4, <3>1 DEF Kin
  <2>6. ASSUME NEW l \in LabelsOf(draft, e, k), v = DropLabels(draft, {l}) PROVE Said'
    <3>1. l \in Of(draft, e, k) /\ {l} \subseteq ToSet(draft.labels)
      BY <1>1, <2>6, IndexesRight DEF Of
    <3>2. Kin(v, draft) /\ Later(v, draft)
      BY <1>1, <2>6, <3>1, DropOneKeeps, DropLabelsLater
    <3>. QED
      BY <1>4, <1>5, <2>3, <2>4, <3>2 DEF Kin
  <2>. QED
    BY <2>3, <2>5, <2>6
<1>14. ASSUME Commit \/ Reject \/ UNCHANGED vars PROVE Said'
  BY <1>14 DEF Commit, Reject, vars, Said, SaidSince
<1>. QED
  BY <1>6, <1>7, <1>8, <1>9, <1>10, <1>11, <1>12, <1>13, <1>14 DEF Next

\* What is said of an entity was said since it came, in the log and in every draft
\* (fold.ts, removeLabelsForEntity).
THEOREM SaidAlways == Spec => []Said
BY Invariant, SaidInit, SaidStep, PTL DEF Spec

-----------------------------------------------------------------------------
(***************************************************************************)
(* The properties.                                                         *)
(***************************************************************************)
LEMMA MapsAgreeHolds == IInv => MapsAgree
<1>. SUFFICES ASSUME IInv PROVE MapsAgree
  OBVIOUS
<1>1. draft \in World /\ Indexed(draft)
  BY DEF IInv, Good
<1>2. /\ \A e \in Entity : draft.by_entity[e] = OfEntity(draft.labels, e)
      /\ \A k \in Key : draft.by_key[k] = OfKey(draft.labels, k)
  BY <1>1, IndexesRight
<1>3. ASSUME NEW f \in Family
      PROVE  LET held == {m \in Email : draft.emails[m] = f} IN
             /\ {l.value : l \in LabelsOf(draft, f, "email")} = held
             /\ Cardinality(held) = IF Live(draft, f) THEN 1 ELSE 0
  <2>. DEFINE held == {m \in Email : draft.emails[m] = f}
              values == {l.value : l \in LabelsOf(draft, f, "email")}
  <2>1. f \in Entity /\ "email" \in Key /\ FamilySound(draft, f)
    BY KeysAre DEF Entity, IInv, Good
  <2>2. LabelsOf(draft, f, "email") = Of(draft, f, "email") /\ held = Addresses(draft, f)
    BY <1>1, <2>1, IndexesRight DEF Addresses
  <2>3. CASE Live(draft, f)
    <3>1. PICK m \in Email, l \in Of(draft, f, "email") :
            Of(draft, f, "email") = {l} /\ l.value = m /\ Addresses(draft, f) = {m}
      BY <2>1, <2>3 DEF FamilySound
    <3>2. held = {m} /\ values = {m}
      BY <2>2, <3>1
    <3>. HIDE DEF held, values
    <3>3. Cardinality(held) = 1
      BY <3>2, FS_Singleton
    <3>. QED
      BY <2>3, <3>2, <3>3 DEF held, values
  <2>4. CASE ~Live(draft, f)
    <3>1. held = {} /\ values = {}
      BY <2>1, <2>2, <2>4 DEF FamilySound
    <3>. HIDE DEF held, values
    <3>2. Cardinality(held) = 0
      BY <3>1, FS_EmptySet
    <3>. QED
      BY <2>4, <3>1, <3>2 DEF held, values
  <2>. QED
    BY <2>3, <2>4
<1>. QED
  BY <1>2, <1>3 DEF MapsAgree

LEMMA CommittedSoundHolds == IInv /\ Said => CommittedSound
<1>. SUFFICES ASSUME IInv, Said PROVE CommittedSound
  OBVIOUS
<1>1. /\ draft \in World /\ Indexed(draft) /\ committed \in World /\ Indexed(committed)
      /\ "member-of" \in Key /\ "trait" \in Key /\ "display-name" \in Key
  BY KeysAre DEF IInv, Good
<1>2. NamesLive
  <2>. SUFFICES ASSUME NEW i \in 1..Len(committed.labels)
                PROVE  LET l == committed.labels[i] IN
                       /\ Live(committed, l.entity) /\ committed.created[l.entity] <= l.set_seq
                       /\ l.key \in {"member-of", "relation"} => Live(committed, l.value)
    BY DEF NamesLive
  <2>. DEFINE l == committed.labels[i]
  <2>1. committed.labels \in Seq(Label)
    BY <1>1 DEF World
  <2>2. l \in ToSet(committed.labels) /\ l \in Label
    BY <2>1, SetOf
  <2>. HIDE DEF l
  <2>3. l \in Of(committed, l.entity, l.key) /\ l.entity \in Entity /\ l.key \in Key
    BY <2>2 DEF Of, Label
  <2>4. Live(committed, l.entity)
    <3>1. CASE l.entity \in Person
      <4>1. PersonSound(committed, l.entity)
        BY <3>1 DEF IInv, Good
      <4>. QED
        BY <2>3, <4>1 DEF PersonSound
    <3>2. CASE l.entity \in Family
      <4>1. FamilySound(committed, l.entity)
        BY <3>2 DEF IInv, Good
      <4>. QED
        BY <2>3, <4>1 DEF FamilySound
    <3>. QED
      BY <2>3, <3>1, <3>2 DEF Entity
  <2>5. ASSUME l.key = "member-of" PROVE Live(committed, l.value)
    <3>1. l.entity \notin Family
      BY <2>3, <2>5 DEF IInv, Good, FamilySound
    <3>2. PersonSound(committed, l.entity)
      BY <2>3, <3>1 DEF Entity, IInv, Good
    <3>. QED
      BY <2>3, <2>4, <2>5, <3>2 DEF PersonSound
  <2>6. ASSUME l.key = "relation" PROVE Live(committed, l.value)
    BY <2>6 DEF l, IInv, Dangling
  <2>7. committed.created[l.entity] <= l.set_seq
    BY <2>2 DEF Said, SaidSince
  <2>. QED
    BY <2>4, <2>5, <2>6, <2>7 DEF l
<1>3. ASSUME NEW p \in Person
      PROVE  /\ Cardinality(LabelsOf(draft, p, "member-of")) = IF Live(draft, p) THEN 1 ELSE 0
             /\ Cardinality(LabelsOf(draft, p, "trait")) <= 1
  <2>1. p \in Entity /\ PersonSound(draft, p)
    BY DEF Entity, IInv, Good
  <2>2. /\ LabelsOf(draft, p, "member-of") = Of(draft, p, "member-of")
        /\ LabelsOf(draft, p, "trait") = Of(draft, p, "trait")
    BY <1>1, <2>1, IndexesRight
  <2>3. Cardinality(Of(draft, p, "member-of")) = IF Live(draft, p) THEN 1 ELSE 0
    <3>1. CASE Live(draft, p)
      BY <2>1, <3>1, FS_Singleton DEF PersonSound
    <3>2. CASE ~Live(draft, p)
      BY <1>1, <2>1, <3>2, FS_EmptySet DEF PersonSound
    <3>. QED
      BY <3>1, <3>2
  <2>4. Cardinality(Of(draft, p, "trait")) <= 1
    <3>1. PICK l : Of(draft, p, "trait") \subseteq {l}
      BY <2>1 DEF PersonSound
    <3>2. Of(draft, p, "trait") = {} \/ Of(draft, p, "trait") = {l}
      BY <3>1
    <3>3. Cardinality(Of(draft, p, "trait")) \in {0, 1}
      BY <3>2, FS_Singleton, FS_EmptySet
    <3>. QED
      BY <3>3
  <2>. QED
    BY <2>2, <2>3, <2>4
<1>4. ASSUME NEW f \in Family
      PROVE  Cardinality(LabelsOf(draft, f, "display-name")) = IF Live(draft, f) THEN 1 ELSE 0
  <2>1. f \in Entity /\ FamilySound(draft, f)
    BY DEF Entity, IInv, Good
  <2>2. LabelsOf(draft, f, "display-name") = Of(draft, f, "display-name")
    BY <1>1, <2>1, IndexesRight
  <2>3. CASE Live(draft, f)
    BY <2>1, <2>2, <2>3, FS_Singleton DEF FamilySound
  <2>4. CASE ~Live(draft, f)
    BY <1>1, <2>1, <2>2, <2>4, FS_EmptySet DEF FamilySound
  <2>. QED
    BY <2>3, <2>4
<1>. QED
  BY <1>2, <1>3, <1>4 DEF CommittedSound, Cardinalities

LEMMA FamilyForLifeStep ==
  ASSUME IInv, [Next]_vars, NEW p \in Person, Live(committed, p),
         committed'.created[p] = committed.created[p]
  PROVE  {l.value : l \in LabelsOf(committed', p, "member-of")} =
           {l.value : l \in LabelsOf(committed, p, "member-of")}
<1>1. committed' = committed \/ committed' = draft
  BY DEF Next, vars, Folded, FamilyInvited, FamilyEmailChanged, FamilyDisplayNameChanged,
         PersonAdded, PersonUpdated, PersonWithdrawn, LabelSet, LabelCleared, Commit, Reject
<1>2. p \in Entity /\ "member-of" \in Key
  BY KeysAre DEF Entity
<1>3. /\ LabelsOf(draft, p, "member-of") = Of(draft, p, "member-of")
      /\ LabelsOf(committed, p, "member-of") = Of(committed, p, "member-of")
  BY <1>2, IndexesRight DEF IInv, Good
<1>4. CASE committed' = draft
  <2>1. Families(draft, p) = Families(committed, p)
    BY <1>4 DEF IInv, Continues
  <2>. QED
    BY <1>3, <1>4, <2>1 DEF Families
<1>. QED
  BY <1>1, <1>4

\* The indexes answer what a scan of all labels would, and the addresses that login
\* looks up are the email labels of the families (fold.ts:482-521).
THEOREM Agreement == Spec => []MapsAgree
BY Invariant, MapsAgreeHolds, PTL

\* What is committed names only what is there, and at every event a person is of one
\* family, a family has one name (fold.ts, the identity handlers; resolver.ts).
THEOREM Soundness == Spec => []CommittedSound
BY Invariant, SaidAlways, CommittedSoundHolds, PTL

\* From batch to batch a person stays of the family it was added to (fold.ts,
\* PersonUpdated).
THEOREM ForLife == Spec => FamilyForLife
<1>1. IInv /\ [Next]_vars =>
        [\A p \in Person :
           Live(committed, p) /\ committed'.created[p] = committed.created[p] =>
             {l.value : l \in LabelsOf(committed', p, "member-of")} =
               {l.value : l \in LabelsOf(committed, p, "member-of")}]_vars
  BY FamilyForLifeStep
<1>. QED
  BY <1>1, Invariant, PTL DEF Spec, FamilyForLife

-----------------------------------------------------------------------------
(***************************************************************************)
(* The module RoomInventory, for any buildings, rooms, beds and   *)
(* numbers: nothing dangles and no number is given twice.                  *)
(*                                                                         *)
(* Both rest on the indexes.  An event creates those its validator asks    *)
(* and refreshes in all of them what it writes or retires; so an index     *)
(* always answers as one created now (IndexesFresh), a question finds all  *)
(* there is (Matching), and the guards say of the labels what they ask of  *)
(* the indexes.                                                            *)
(***************************************************************************)

\* The variables are the maps they are meant to be.
Maps ==
  /\ kind = [e \in Id |-> kind[e]]
  /\ labels = [e \in Id |-> labels[e]]
  /\ \A e \in Id : labels[e] = [k \in RoomKey |-> labels[e][k]]

\* What is there carries the labels its event wrote, what is not carries none.
Labelled ==
  /\ \A e \in Id : kind[e] \in {Absent, KindOf(e)}
  /\ \A e \in Id : kind[e] = Absent => labels[e] = NoLabels
  /\ \A r \in Room : kind[r] = "room" => Host(r) \in Building /\ labels[r]["number"] \in Number
  /\ \A d \in Bed : kind[d] = "bed" =>
       /\ Host(d) \in Room
       /\ labels[d]["label"] \in BedLabel \cup {NoLabel}
       /\ labels[d]["sleeps"] \in {1, 2}
  /\ \A p \in Place : kind[p] = "place" => Host(p) = p[1]

IndexesFresh ==
  \A sig \in indexed, e \in Id : index[sig][e] = Filed(sig, e, kind, labels)

\* What NumbersUnique says of the labels.
Unique ==
  /\ \A r, s \in Room :
       IsLive("room", r) /\ IsLive("room", s) /\ Host(r) = Host(s)
       /\ labels[r]["number"] = labels[s]["number"] => r = s
  /\ \A d, e \in Bed :
       IsLive("bed", d) /\ IsLive("bed", e) /\ Host(d) = Host(e)
       /\ labels[d]["label"] = labels[e]["label"] /\ labels[d]["label"] # NoLabel => d = e

IndexesKept ==
  /\ IndexesFresh /\ indexed \subseteq Signature
  /\ index = [sig \in Signature |-> index[sig]]

RoomsIInv == Maps /\ Labelled /\ IndexesKept /\ NothingDangles /\ Unique

-----------------------------------------------------------------------------
(***************************************************************************)
(* Questions.                                                              *)
(***************************************************************************)
\* The kind of an id is that of the set it is in.
LEMMA Kinds ==
  /\ \A b \in Building : b \in Id /\ KindOf(b) = "building"
  /\ \A r \in Room : r \in Id /\ KindOf(r) = "room"
  /\ \A d \in Bed : d \in Id /\ KindOf(d) = "bed"
  /\ \A p \in Place : p \in Id /\ KindOf(p) = "place"
                         /\ p[1] \in Bed /\ p[2] \in {1, 2}
BY KindAssumption DEF Id, KindOf, Place

LEMMA Signatures ==
  /\ RoomsIn \in Signature /\ RoomsByNumber \in Signature
  /\ BedsIn \in Signature /\ BedsByLabel \in Signature
  /\ PlacesOf \in Signature
BY DEF RoomsIn, RoomsByNumber, BedsIn, BedsByLabel, PlacesOf, Signature

\* A question is answered from the labels there are, whether its index exists or not.
LEMMA Answered ==
  ASSUME IndexesFresh, NEW sig \in Signature, NEW criteria
  PROVE  Matching(sig, criteria) =
           {e \in Id : Filed(sig, e, kind, labels) = criteria}
<1>1. \A e \in Id : Index(sig)[e] = Filed(sig, e, kind, labels)
  BY DEF IndexesFresh, Index
<1>. QED
  BY <1>1 DEF Matching

\* What an event does to the indexes.
Reindexed(used, written, retired) ==
  /\ indexed' = indexed \cup used
  /\ index' = [sig \in Signature |->
       IF sig \notin indexed' THEN NoTuples
       ELSE [e \in Id |-> IF e \in Refreshed(written, retired)
                          THEN Filed(sig, e, kind', labels') ELSE Index(sig)[e]]]

\* After an event that refreshes what it changes, the indexes are fresh again.
LEMMA StaysFresh ==
  ASSUME IndexesKept, NEW used, NEW written, NEW retired,
         used \subseteq Signature, Reindexed(used, written, retired),
         \A e \in Id : e \notin written /\ e \notin retired =>
           kind'[e] = kind[e] /\ labels'[e] = labels[e]
  PROVE  IndexesKept'
<1>1. indexed' \subseteq Signature /\ index' = [sig \in Signature |-> index'[sig]]
  BY DEF Reindexed, IndexesKept
<1>2. ASSUME NEW sig \in indexed', NEW e \in Id
      PROVE  index'[sig][e] = Filed(sig, e, kind', labels')
  <2>1. index'[sig][e] = IF e \in written \cup retired
                         THEN Filed(sig, e, kind', labels') ELSE Index(sig)[e]
    BY <1>1 DEF Reindexed, Refreshed
  <2>2. CASE e \in written \cup retired
    BY <2>1, <2>2
  <2>3. CASE e \notin written \cup retired
    <3>1. Index(sig)[e] = Filed(sig, e, kind, labels)
      BY DEF IndexesKept, IndexesFresh, Index
    <3>2. Filed(sig, e, kind, labels) = Filed(sig, e, kind', labels')
      BY <2>3 DEF Filed
    <3>. QED
      BY <2>1, <2>3, <3>1, <3>2
  <2>. QED
    BY <2>2, <2>3
<1>3. IndexesFresh'
  BY <1>2 DEF IndexesFresh, Filed
<1>. QED
  BY <1>1, <1>3 DEF IndexesKept

\* What the questions of the validators say of the labels.
LEMMA EmptyBuilding ==
  ASSUME RoomsIInv, NEW b \in Building, BuildingIsEmpty(b),
         NEW r \in Room, IsLive("room", r)
  PROVE  Host(r) # b
<1>. SUFFICES ASSUME Host(r) = b PROVE FALSE
  OBVIOUS
<1>1. b # Absent /\ r \in Id
  BY AbsentAssumption, Kinds
<1>2. Filed(RoomsIn, r, kind, labels) = [k \in {"located-in"} |-> b]
  BY <1>1 DEF Filed, RoomsIn, IsLive, Host
<1>. QED
  BY <1>1, <1>2, Answered, Signatures DEF RoomsIInv, IndexesKept, BuildingIsEmpty

LEMMA EmptyRoom ==
  ASSUME RoomsIInv, NEW r \in Room,
         Matching(BedsIn, [k \in {"located-in"} |-> r]) = {},
         NEW d \in Bed, IsLive("bed", d)
  PROVE  Host(d) # r
<1>. SUFFICES ASSUME Host(d) = r PROVE FALSE
  OBVIOUS
<1>1. r # Absent /\ d \in Id
  BY AbsentAssumption, Kinds
<1>2. Filed(BedsIn, d, kind, labels) = [k \in {"located-in"} |-> r]
  BY <1>1 DEF Filed, BedsIn, IsLive, Host
<1>. QED
  BY <1>1, <1>2, Answered, Signatures DEF RoomsIInv, IndexesKept

LEMMA FreeNumber ==
  ASSUME RoomsIInv, NEW r \in Room, NEW b \in Building, NEW n \in Number,
         NumberIsFree(r, b, n),
         NEW s \in Room, s # r, IsLive("room", s)
  PROVE  ~(Host(s) = b /\ labels[s]["number"] = n)
<1>. SUFFICES ASSUME Host(s) = b, labels[s]["number"] = n PROVE FALSE
  OBVIOUS
<1>. DEFINE tuple == [k \in {"located-in", "number"} |-> IF k = "number" THEN n ELSE b]
<1>1. b # Absent /\ n # Absent /\ s \in Id
  BY AbsentAssumption, Kinds
<1>2. Filed(RoomsByNumber, s, kind, labels) = tuple
  BY <1>1 DEF Filed, RoomsByNumber, IsLive, Host
<1>3. s \in Matching(RoomsByNumber, tuple)
  BY <1>1, <1>2, Answered, Signatures DEF RoomsIInv, IndexesKept
<1>. QED
  BY <1>3 DEF NumberIsFree, NoOther

LEMMA FreeLabel ==
  ASSUME RoomsIInv, NEW d \in Bed, NEW r \in Room, NEW l \in BedLabel,
         LabelIsFree(d, r, l),
         NEW e \in Bed, e # d, IsLive("bed", e)
  PROVE  ~(Host(e) = r /\ labels[e]["label"] = l)
<1>. SUFFICES ASSUME Host(e) = r, labels[e]["label"] = l PROVE FALSE
  OBVIOUS
<1>. DEFINE tuple == [k \in {"located-in", "label"} |-> IF k = "label" THEN l ELSE r]
<1>1. r # Absent /\ l # Absent /\ l # NoLabel /\ e \in Id
  BY AbsentAssumption, TypeAssumption, Kinds
<1>2. Filed(BedsByLabel, e, kind, labels) = tuple
  BY <1>1 DEF Filed, BedsByLabel, IsLive, Host
<1>3. e \in Matching(BedsByLabel, tuple)
  BY <1>1, <1>2, Answered, Signatures DEF RoomsIInv, IndexesKept
<1>. QED
  BY <1>1, <1>3 DEF LabelIsFree, NoOther

LEMMA FoundPlaces ==
  ASSUME RoomsIInv, NEW d \in Bed
  PROVE  PlacesOfBed(d) = {p \in Place : IsLive("place", p) /\ p[1] = d}
<1>. DEFINE tuple == [k \in {"located-in"} |-> d]
<1>1. d # Absent /\ tuple # Absent
  BY AbsentAssumption
<1>2. PlacesOfBed(d) =
        {e \in Id : Filed(PlacesOf, e, kind, labels) = tuple}
  BY Answered, Signatures DEF RoomsIInv, IndexesKept, PlacesOfBed
<1>3. \A p \in Place : Filed(PlacesOf, p, kind, labels) = tuple
                              <=> IsLive("place", p) /\ p[1] = d
  BY <1>1 DEF RoomsIInv, Labelled, Host, IsLive, Filed, PlacesOf
<1>4. \A e \in Id \ Place : kind[e] # "place"
  BY Kinds, AbsentAssumption DEF RoomsIInv, Labelled, Id
<1>5. \A e \in Id \ Place : Filed(PlacesOf, e, kind, labels) # tuple
  BY <1>1, <1>4 DEF Filed, PlacesOf
<1>. QED
  BY <1>2, <1>3, <1>5 DEF Id

-----------------------------------------------------------------------------
(***************************************************************************)
(* Events.                                                                 *)
(***************************************************************************)
LEMMA RoomsInitially == RoomsInit => RoomsIInv
<1>. SUFFICES ASSUME RoomsInit PROVE RoomsIInv
  OBVIOUS
<1>1. /\ \A e \in Id : kind[e] = Absent /\ labels[e] = NoLabels
      /\ kind = [e \in Id |-> Absent] /\ labels = [e \in Id |-> NoLabels]
      /\ index = [sig \in Signature |-> NoTuples] /\ indexed = {}
  BY DEF RoomsInit
<1>2. Maps
  BY <1>1 DEF Maps, NoLabels
<1>3. Labelled /\ NothingDangles /\ Unique
  BY <1>1, Kinds, AbsentAssumption DEF Labelled, NothingDangles, Unique, IsLive
<1>4. IndexesKept
  BY <1>1 DEF IndexesFresh, IndexesKept
<1>. QED
  BY <1>2, <1>3, <1>4 DEF RoomsIInv

LEMMA Untouched ==
  ASSUME RoomsIInv, kind' = kind, labels' = labels
  PROVE  Maps' /\ Labelled' /\ NothingDangles' /\ Unique'
<1>1. Maps'
  BY DEF RoomsIInv, Maps
<1>2. Labelled'
  BY DEF RoomsIInv, Labelled, Host
<1>3. NothingDangles'
  BY DEF RoomsIInv, NothingDangles, IsLive, Host
<1>4. Unique'
  BY DEF RoomsIInv, Unique, IsLive, Host
<1>. QED
  BY <1>1, <1>2, <1>3, <1>4

\* A building comes, changes its name, or goes when no room is in it.
LEMMA BuildingsKept ==
  ASSUME RoomsIInv, NEW b \in Building,
         BuildingAdded(b) \/ BuildingUpdated(b) \/ BuildingRemoved(b)
  PROVE  RoomsIInv'
<1>1. b \in Id /\ b \notin Room /\ b \notin Bed /\ b \notin Place
  BY Kinds, KindAssumption
<1>2. CASE BuildingAdded(b)
  <2>1. kind' = [kind EXCEPT ![b] = "building"] /\ labels' = labels
    BY <1>2 DEF BuildingAdded, FoldEvent
  <2>2. Reindexed({}, {b}, {})
    BY <1>2 DEF BuildingAdded, FoldEvent, Reindexed
  <2>4. IndexesKept'
    BY <1>1, <2>1, <2>2, StaysFresh DEF RoomsIInv, Maps
  <2>3. labels[b] = NoLabels
    BY <1>1, <1>2 DEF BuildingAdded, RoomsIInv, Labelled
  <2>. QED
    <3>1. /\ kind'[b] = "building"
          /\ \A e \in Id \ {b} : kind'[e] = kind[e]
      BY <1>1, <2>1 DEF RoomsIInv, Maps
    <3>2. Maps'
      BY <2>1 DEF RoomsIInv, Maps
    <3>3. Labelled'
      BY <1>1, <2>1, <3>1, Kinds, AbsentAssumption DEF RoomsIInv, Labelled, Host
    <3>4. NothingDangles'
      BY <1>1, <2>1, <3>1, Kinds DEF RoomsIInv, NothingDangles, IsLive, Host
    <3>5. Unique'
      BY <1>1, <2>1, <3>1, Kinds DEF RoomsIInv, Unique, IsLive, Host
    <3>. QED
      BY <2>4, <3>2, <3>3, <3>4, <3>5 DEF RoomsIInv
<1>3. CASE BuildingUpdated(b)
  <2>1. kind' = kind /\ labels' = labels
    BY <1>3 DEF BuildingUpdated, FoldEvent
  <2>2. Reindexed({}, {b}, {})
    BY <1>3 DEF BuildingUpdated, FoldEvent, Reindexed
  <2>3. IndexesKept'
    BY <1>1, <2>1, <2>2, StaysFresh DEF RoomsIInv
  <2>. QED
    BY <2>1, <2>3, Untouched DEF RoomsIInv
<1>4. CASE BuildingRemoved(b)
  <2>1. kind' = RetireKinds({b}) /\ labels' = RetireLabels({b})
    BY <1>4 DEF BuildingRemoved, FoldEvent
  <2>2. /\ kind'[b] = Absent /\ labels'[b] = NoLabels
        /\ \A e \in Id \ {b} : kind'[e] = kind[e] /\ labels'[e] = labels[e]
    BY <1>1, <2>1 DEF RetireKinds, RetireLabels
  <2>3. IndexesKept'
    <3>1. Reindexed({RoomsIn}, {}, {b})
      BY <1>4 DEF BuildingRemoved, FoldEvent, Reindexed
    <3>. QED
      BY <2>2, <3>1, Signatures, StaysFresh DEF RoomsIInv
  <2>4. Maps'
    BY <2>1, <2>3 DEF RoomsIInv, Maps, RetireKinds, RetireLabels, NoLabels
  <2>5. \A r \in Room : IsLive("room", r) => Host(r) # b
    BY <1>4, EmptyBuilding DEF BuildingRemoved
  <2>6. NothingDangles'
    BY <1>1, <2>2, <2>5, Kinds DEF RoomsIInv, NothingDangles, IsLive, Host
  <2>7. Labelled' /\ Unique'
    BY <1>1, <2>2, Kinds DEF RoomsIInv, Labelled, Unique, IsLive, Host
  <2>. QED
    BY <2>3, <2>4, <2>6, <2>7 DEF RoomsIInv
<1>. QED
  BY <1>2, <1>3, <1>4

LEMMA RoomsWritten ==
  ASSUME RoomsIInv, NEW r \in Room, WriteRoom(r)
  PROVE  RoomsIInv'
<1>1. PICK b \in Building, n \in Number, t \in {Apartment, Standard} :
        /\ IsLive("building", b)
        /\ NumberIsFree(r, b, n)
        /\ FoldEvent({RoomsByNumber}, [kind EXCEPT ![r] = "room"],
                     [labels EXCEPT ![r] = RoomLabels(b, n, t)], {r}, {})
  BY DEF WriteRoom
<1>2. r \in Id /\ r \notin Building /\ r \notin Bed /\ r \notin Place
  BY Kinds, KindAssumption
<1>3. /\ kind' = [kind EXCEPT ![r] = "room"]
      /\ labels' = [labels EXCEPT ![r] = RoomLabels(b, n, t)]
  BY <1>1 DEF FoldEvent
<1>4. /\ kind'[r] = "room" /\ labels'[r] = RoomLabels(b, n, t)
      /\ \A e \in Id \ {r} : kind'[e] = kind[e] /\ labels'[e] = labels[e]
  BY <1>2, <1>3 DEF RoomsIInv, Maps
<1>5. /\ labels'[r]["located-in"] = b /\ labels'[r]["number"] = n
      /\ labels'[r] = [k \in RoomKey |-> labels'[r][k]]
  BY <1>4 DEF RoomLabels, NoLabels, RoomKey
<1>6. IndexesKept'
  <2>1. Reindexed({RoomsByNumber}, {r}, {})
    BY <1>1 DEF FoldEvent, Reindexed
  <2>. QED
    BY <1>4, <2>1, Signatures, StaysFresh DEF RoomsIInv
<1>7. Maps'
  BY <1>2, <1>3, <1>4, <1>5, <1>6 DEF RoomsIInv, Maps
<1>8. Labelled'
  BY <1>2, <1>4, <1>5, Kinds, AbsentAssumption DEF RoomsIInv, Labelled, Host
<1>9. NothingDangles'
  BY <1>1, <1>2, <1>4, <1>5, Kinds DEF RoomsIInv, NothingDangles, IsLive, Host
<1>10. \A s \in Room \ {r} : IsLive("room", s) => ~(Host(s) = b /\ labels[s]["number"] = n)
  BY <1>1, FreeNumber
<1>11. Unique'
  BY <1>2, <1>4, <1>5, <1>10, Kinds DEF RoomsIInv, Unique, IsLive, Host
<1>. QED
  BY <1>6, <1>7, <1>8, <1>9, <1>11 DEF RoomsIInv

LEMMA RoomsRemoved ==
  ASSUME RoomsIInv, NEW r \in Room, RoomRemoved(r)
  PROVE  RoomsIInv'
<1>1. r \in Id /\ r \notin Building /\ r \notin Bed /\ r \notin Place
  BY Kinds, KindAssumption
<1>2. kind' = RetireKinds({r}) /\ labels' = RetireLabels({r})
  BY DEF RoomRemoved, FoldEvent
<1>3. /\ kind'[r] = Absent /\ labels'[r] = NoLabels
      /\ \A e \in Id \ {r} : kind'[e] = kind[e] /\ labels'[e] = labels[e]
  BY <1>1, <1>2 DEF RetireKinds, RetireLabels
<1>4. IndexesKept'
  <2>1. Reindexed({BedsIn}, {}, {r})
    BY DEF RoomRemoved, FoldEvent, Reindexed
  <2>. QED
    BY <1>3, <2>1, Signatures, StaysFresh DEF RoomsIInv
<1>5. Maps'
  BY <1>2, <1>4 DEF RoomsIInv, Maps, RetireKinds, RetireLabels, NoLabels
<1>6. \A d \in Bed : IsLive("bed", d) => Host(d) # r
  BY EmptyRoom DEF RoomRemoved
<1>7. NothingDangles'
  BY <1>1, <1>3, <1>6, Kinds, AbsentAssumption DEF RoomsIInv, NothingDangles, IsLive, Host
<1>8. Labelled' /\ Unique'
  BY <1>1, <1>3, Kinds, AbsentAssumption DEF RoomsIInv, Labelled, Unique, IsLive, Host
<1>. QED
  BY <1>4, <1>5, <1>7, <1>8 DEF RoomsIInv

\* The places of a bed follow its width: those it has beyond it are retired, those it
\* lacks are added, and nobody else's is touched.
LEMMA BedsWritten ==
  ASSUME RoomsIInv, NEW d \in Bed, WriteBed(d)
  PROVE  RoomsIInv'
<1>1. PICK r \in Room, l \in BedLabel \cup {NoLabel}, n \in {1, 2}, s \in {Absent, 1} :
        /\ IsLive("room", r)
        /\ LabelIsFree(d, r, l)
        /\ FoldEvent({PlacesOf} \cup (IF l = NoLabel THEN {} ELSE {BedsByLabel}),
                     SyncKinds([kind EXCEPT ![d] = "bed"], d, n),
                     SyncLabels([labels EXCEPT ![d] = BedLabels(r, l, n, s)], d, n),
                     {d} \cup Missing(d, n), Surplus(d, n))
  BY ZenonT(30) DEF WriteBed
<1>2. d \in Id /\ d \notin Building /\ d \notin Room /\ d \notin Place
  BY Kinds, KindAssumption
<1>. DEFINE more == Missing(d, n)
            fewer == Surplus(d, n)
<1>3. /\ more = {p \in Place : p[1] = d /\ p[2] <= n /\ kind[p] # "place"}
      /\ fewer = {p \in Place : p[1] = d /\ ~(p[2] <= n) /\ kind[p] = "place"}
  <2>1. {d} \X (1..n) = {p \in Place : p[1] = d /\ p[2] <= n}
    BY DEF Place
  <2>. QED
    BY <2>1, FoundPlaces DEF Missing, Surplus, IsLive
<1>4. d \notin more /\ d \notin fewer /\ more \cap fewer = {}
  BY <1>2, <1>3
<1>5. kind' = SyncKinds([kind EXCEPT ![d] = "bed"], d, n)
      /\ labels' = SyncLabels([labels EXCEPT ![d] = BedLabels(r, l, n, s)], d, n)
  BY <1>1 DEF FoldEvent
<1>6. /\ kind'[d] = "bed"
      /\ \A p \in more : kind'[p] = "place"
      /\ \A p \in fewer : kind'[p] = Absent
      /\ \A e \in Id : e # d /\ e \notin more /\ e \notin fewer => kind'[e] = kind[e]
  BY <1>2, <1>3, <1>4, <1>5, Kinds DEF SyncKinds, RoomsIInv, Maps
<1>7. /\ labels'[d] = BedLabels(r, l, n, s)
      /\ \A p \in more : labels'[p] = [NoLabels EXCEPT !["located-in"] = d]
      /\ \A p \in fewer : labels'[p] = NoLabels
      /\ \A e \in Id : e # d /\ e \notin more /\ e \notin fewer => labels'[e] = labels[e]
  BY <1>2, <1>3, <1>4, <1>5, Kinds DEF SyncLabels, RoomsIInv, Maps
<1>8. /\ labels'[d] = [k \in RoomKey |-> labels'[d][k]]
      /\ labels'[d]["located-in"] = r /\ labels'[d]["label"] = l /\ labels'[d]["sleeps"] = n
      /\ \A p \in more : /\ labels'[p] = [k \in RoomKey |-> labels'[p][k]]
                         /\ labels'[p]["located-in"] = d
  BY ZenonT(30), <1>7 DEF BedLabels, NoLabels, RoomKey
<1>9. \A p \in Place : p[1] = d => (kind'[p] = "place" <=> p[2] <= n)
  BY <1>2, <1>3, <1>6, Kinds, AbsentAssumption
<1>10. \A e \in Id : e # d /\ (e \notin Place \/ e[1] # d) =>
         kind'[e] = kind[e] /\ labels'[e] = labels[e]
  BY <1>3, <1>6, <1>7
<1>11. IndexesKept'
  <2>. DEFINE used == {PlacesOf} \cup (IF l = NoLabel THEN {} ELSE {BedsByLabel})
  <2>1. Reindexed(used, {d} \cup Missing(d, n), Surplus(d, n))
    BY <1>1 DEF FoldEvent, Reindexed
  <2>2. used \subseteq Signature
    BY Signatures
  <2>. QED
    BY <1>6, <1>7, <2>1, <2>2, StaysFresh DEF RoomsIInv
<1>12. Maps'
  <2>1. kind' = [e \in Id |-> kind'[e]] /\ labels' = [e \in Id |-> labels'[e]]
    BY <1>5 DEF SyncKinds, SyncLabels
  <2>2. \A e \in Id : labels'[e] = [k \in RoomKey |-> labels'[e][k]]
    BY <1>7, <1>8 DEF RoomsIInv, Maps, NoLabels
  <2>. QED
    BY <2>1, <2>2 DEF Maps
<1>13. Labelled'
  <2>1. \A e \in Id : kind'[e] \in {Absent, KindOf(e)}
    BY <1>3, <1>6, Kinds DEF RoomsIInv, Labelled
  <2>2. \A e \in Id : kind'[e] = Absent => labels'[e] = NoLabels
    BY <1>3, <1>6, <1>7, AbsentAssumption DEF RoomsIInv, Labelled
  <2>3. \A q \in Room : kind'[q] = "room" =>
          labels'[q]["located-in"] \in Building /\ labels'[q]["number"] \in Number
    BY <1>2, <1>10, Kinds, KindAssumption DEF RoomsIInv, Labelled, Host
  <2>4. \A e \in Bed : kind'[e] = "bed" =>
          /\ labels'[e]["located-in"] \in Room
          /\ labels'[e]["label"] \in BedLabel \cup {NoLabel}
          /\ labels'[e]["sleeps"] \in {1, 2}
    BY <1>8, <1>10, Kinds, KindAssumption DEF RoomsIInv, Labelled, Host
  <2>5. ASSUME NEW p \in Place, kind'[p] = "place" PROVE labels'[p]["located-in"] = p[1]
    <3>0. p \in Id
      BY DEF Id
    <3>1. CASE p \in more
      BY <3>1, <1>3, <1>8
    <3>2. CASE p \in fewer
      BY <3>2, <1>6, <2>5, AbsentAssumption
    <3>3. CASE p \notin more /\ p \notin fewer
      <4>1. p # d
        BY <1>2, KindAssumption
      <4>2. kind'[p] = kind[p] /\ labels'[p] = labels[p]
        BY <3>0, <3>3, <4>1, <1>6, <1>7
      <4>. QED
        BY <2>5, <4>2 DEF RoomsIInv, Labelled, Host
    <3>. QED
      BY <3>1, <3>2, <3>3
  <2>. QED
    BY <2>1, <2>2, <2>3, <2>4, <2>5 DEF Labelled, Host
<1>14. NothingDangles'
  <2>1. \A b \in Building \cup Room : kind'[b] = kind[b] /\ labels'[b] = labels[b]
    BY <1>2, <1>10, Kinds, KindAssumption
  <2>2. \A e \in Bed \ {d} : kind'[e] = kind[e] /\ labels'[e] = labels[e]
    BY <1>10, Kinds, KindAssumption
  <2>3. \A q \in Room : kind'[q] = "room" =>
          \E b \in Building : labels'[q]["located-in"] = b /\ kind'[b] = "building"
    BY <2>1 DEF RoomsIInv, NothingDangles, IsLive, Host
  <2>4. \A e \in Bed : kind'[e] = "bed" =>
          \E q \in Room : labels'[e]["located-in"] = q /\ kind'[q] = "room"
    BY <1>1, <1>8, <2>1, <2>2 DEF RoomsIInv, NothingDangles, IsLive, Host
  <2>5. \A p \in Place : kind'[p] = "place" <=>
          kind'[p[1]] = "bed" /\ p[2] <= labels'[p[1]]["sleeps"]
    BY <1>2, <1>6, <1>8, <1>9, <1>10, <2>2, Kinds DEF RoomsIInv, NothingDangles, IsLive
  <2>. QED
    BY <1>13, <2>3, <2>4, <2>5 DEF NothingDangles, Labelled, IsLive, Host
<1>15. Unique'
  <2>1. \A q \in Room : kind'[q] = kind[q] /\ labels'[q] = labels[q]
    BY <1>2, <1>10, Kinds, KindAssumption
  <2>2. \A e \in Bed \ {d} : kind'[e] = kind[e] /\ labels'[e] = labels[e]
    BY <1>10, Kinds, KindAssumption
  <2>3. l # NoLabel => \A e \in Bed \ {d} : IsLive("bed", e) =>
          ~(Host(e) = r /\ labels[e]["label"] = l)
    BY <1>1, FreeLabel
  <2>4. \A e \in Bed \ {d} : kind'[e] = "bed" /\ labels'[e]["located-in"] = r =>
          l = NoLabel \/ labels'[e]["label"] # l
    BY <2>2, <2>3 DEF IsLive, Host
  <2>. QED
    BY <1>8, <2>1, <2>2, <2>4 DEF RoomsIInv, Unique, IsLive, Host
<1>. QED
  BY <1>11, <1>12, <1>13, <1>14, <1>15 DEF RoomsIInv

LEMMA BedsRemoved ==
  ASSUME RoomsIInv, NEW d \in Bed, BedRemoved(d)
  PROVE  RoomsIInv'
<1>. DEFINE gone == {d} \cup Surplus(d, 0)
<1>1. d \in Id /\ d \notin Building /\ d \notin Room /\ d \notin Place
  BY Kinds, KindAssumption
<1>2. gone = {d} \cup {p \in Place : p[1] = d /\ kind[p] = "place"}
  BY FoundPlaces DEF Surplus, IsLive
<1>3. FoldEvent({PlacesOf}, RetireKinds(gone), RetireLabels(gone), {}, gone)
  BY DEF BedRemoved
<1>4. kind' = RetireKinds(gone) /\ labels' = RetireLabels(gone)
  BY <1>3 DEF FoldEvent
<1>5. /\ \A e \in Id : e \in gone => kind'[e] = Absent /\ labels'[e] = NoLabels
      /\ \A e \in Id : e \notin gone => kind'[e] = kind[e] /\ labels'[e] = labels[e]
  BY <1>4 DEF RetireKinds, RetireLabels
<1>6. IndexesKept'
  <2>1. Reindexed({PlacesOf}, {}, gone)
    BY <1>3 DEF FoldEvent, Reindexed
  <2>. QED
    BY <1>5, <2>1, Signatures, StaysFresh DEF RoomsIInv
<1>7. Maps'
  BY <1>4 DEF RoomsIInv, Maps, RetireKinds, RetireLabels, NoLabels
<1>8. Labelled'
  BY <1>1, <1>2, <1>5, Kinds, AbsentAssumption DEF RoomsIInv, Labelled, Host
<1>9. \A e \in Building \cup Room : kind'[e] = kind[e] /\ labels'[e] = labels[e]
  BY <1>1, <1>2, <1>5, Kinds, KindAssumption
<1>10. \A e \in Bed \ {d} : kind'[e] = kind[e] /\ labels'[e] = labels[e]
  BY <1>2, <1>5, Kinds, KindAssumption
<1>11. kind'[d] = Absent /\ \A p \in Place : p[1] = d => kind'[p] # "place"
  BY <1>1, <1>2, <1>5, Kinds, AbsentAssumption
<1>12. \A p \in Place : p[1] # d => kind'[p] = kind[p] /\ labels'[p] = labels[p]
  BY <1>1, <1>2, <1>5, Kinds
<1>13. NothingDangles'
  <2>1. \A p \in Place : kind'[p] = "place" <=>
          kind'[p[1]] = "bed" /\ p[2] <= labels'[p[1]]["sleeps"]
    BY <1>10, <1>11, <1>12, Kinds, AbsentAssumption DEF RoomsIInv, NothingDangles, IsLive
  <2>. QED
    BY <1>8, <1>9, <1>10, <1>11, <2>1, AbsentAssumption
    DEF RoomsIInv, NothingDangles, Labelled, IsLive, Host
<1>14. Unique'
  BY <1>9, <1>10, <1>11, AbsentAssumption DEF RoomsIInv, Unique, IsLive, Host
<1>. QED
  BY <1>6, <1>7, <1>8, <1>13, <1>14 DEF RoomsIInv

LEMMA RoomsInductive == RoomsIInv /\ [RoomsNext]_inventory => RoomsIInv'
<1>. SUFFICES ASSUME RoomsIInv, [RoomsNext]_inventory PROVE RoomsIInv'
  OBVIOUS
<1>1. ASSUME NEW b \in Building,
             BuildingAdded(b) \/ BuildingUpdated(b) \/ BuildingRemoved(b)
      PROVE  RoomsIInv'
  BY <1>1, BuildingsKept
<1>2. ASSUME NEW r \in Room, RoomAdded(r) \/ RoomUpdated(r) \/ RoomRemoved(r)
      PROVE  RoomsIInv'
  BY <1>2, RoomsWritten, RoomsRemoved DEF RoomAdded, RoomUpdated
<1>3. ASSUME NEW d \in Bed, BedAdded(d) \/ BedUpdated(d) \/ BedRemoved(d)
      PROVE  RoomsIInv'
  BY <1>3, BedsWritten, BedsRemoved DEF BedAdded, BedUpdated
<1>4. CASE UNCHANGED inventory
  <2>1. IndexesKept'
    BY <1>4 DEF inventory, RoomsIInv, IndexesKept, IndexesFresh, Filed
  <2>. QED
    BY <1>4, <2>1, Untouched DEF inventory, RoomsIInv
<1>. QED
  BY <1>1, <1>2, <1>3, <1>4 DEF RoomsNext

-----------------------------------------------------------------------------
\* An id is of one kind, and what is retired leaves no label behind.
THEOREM RoomsTyped == RoomsSpec => []TypeOK
<1>1. RoomsIInv => TypeOK
  BY DEF RoomsIInv, Maps, Labelled, IndexesKept, TypeOK
<1>. QED
  BY <1>1, RoomsInitially, RoomsInductive, PTL DEF RoomsSpec

\* Rooms, beds and places are always in something that is there, and places are what
\* the beds sleep.
THEOREM NeverDangling == RoomsSpec => []NothingDangles
<1>1. RoomsIInv => NothingDangles
  BY DEF RoomsIInv
<1>. QED
  BY <1>1, RoomsInitially, RoomsInductive, PTL DEF RoomsSpec

\* Numbers and labels are given once, and every index answers as a new one would.
THEOREM NumberedOnce == RoomsSpec => []NumbersUnique
<1>1. RoomsIInv => NumbersUnique
  BY DEF RoomsIInv, IndexesKept, IndexesFresh, Unique, NumbersUnique
<1>. QED
  BY <1>1, RoomsInitially, RoomsInductive, PTL DEF RoomsSpec
=============================================================================
