------------------------- MODULE FamilyResourceProofs -------------------------
(***************************************************************************)
(* Proofs about FamilyResource, for any families, people, workshops,       *)
(* requests and organisers.                                                *)
(*                                                                         *)
(* The head moves whenever the world changes (HeadMoves), so a request     *)
(* that finds the head where it read it writes into the world it read, and *)
(* what it was granted there holds when it writes.  A batch that comes     *)
(* late has lost its first rows: it then is a ranking or an answer that    *)
(* clears nothing, and is still about the one person it names, who may     *)
(* have left the family since but is in no other one (MembersLeave).       *)
(*                                                                         *)
(* The login that says whose family it is, Sessions, follows at the end.   *)
(***************************************************************************)
EXTENDS FamilyResource, Sessions, FiniteSetTheorems, FunctionTheorems, TLAPS

-----------------------------------------------------------------------------
(***************************************************************************)
(* What each change makes of a world.                                      *)
(***************************************************************************)
\* What the asks say.
LEMMA Asks ==
  ASSUME NEW a \in Ask
  PROVE  /\ a.kind \in {"sign-up", "interest", "ranking", "answer", "profile", "create"}
         /\ a.kind # "create" => a.person \in Person
         /\ a.kind \in {"sign-up", "interest"} => a.workshop \in Workshop /\ a.on \in BOOLEAN
         /\ a.kind = "ranking" => a.list \in Seq(Workshop)
         /\ a.kind = "answer" => a.values \in Seq(Choice)
         /\ a.kind \in {"profile", "create"} => a.profile \in Profile
BY AskAssumption DEF Membership, Ranking, Answering, Describing, Creating

\* The fields of a world that no family writes.
Kept(w, v) ==
  /\ v.email = w.email /\ v.workshop = w.workshop /\ v.section = w.section

\* Who joined what, but for one entry.
Joins(w, v, a) ==
  \A k \in {"sign-up", "interest"} :
    v.joined[k] = IF k # a.kind THEN w.joined[k]
                  ELSE IF a.on THEN w.joined[k] \cup {<<a.person, a.workshop>>}
                  ELSE w.joined[k] \ {<<a.person, a.workshop>>}

LEMMA JoinedWorld ==
  ASSUME NEW w \in World, NEW a \in Ask, a.kind \in {"sign-up", "interest"},
         NEW v, v = JoinedAs(w, a)
  PROVE  /\ v \in World /\ Kept(w, v) /\ v.folds = w.folds
         /\ v.member = w.member /\ v.profile = w.profile
         /\ v.wishes = w.wishes /\ v.answers = w.answers
         /\ Joins(w, v, a)
<1>1. a.person \in People /\ a.workshop \in Workshop
  BY Asks DEF People
<1>. DEFINE j == IF a.on THEN w.joined[a.kind] \cup {<<a.person, a.workshop>>}
                 ELSE w.joined[a.kind] \ {<<a.person, a.workshop>>}
<1>2. w.joined \in [{"sign-up", "interest"} -> SUBSET (People \X Workshop)]
  BY DEF World
<1>3. j \in SUBSET (People \X Workshop)
  BY <1>1, <1>2
<1>4. JoinedAs(w, a) = [w EXCEPT !.joined = [w.joined EXCEPT ![a.kind] = j]]
  BY DEF JoinedAs, World
<1>5. [w.joined EXCEPT ![a.kind] = j] \in [{"sign-up", "interest"} -> SUBSET (People \X Workshop)]
  BY <1>2, <1>3
<1>. HIDE DEF j
<1>6. /\ v \in World /\ Kept(w, v) /\ v.folds = w.folds
      /\ v.member = w.member /\ v.profile = w.profile
      /\ v.wishes = w.wishes /\ v.answers = w.answers
      /\ v.joined = [w.joined EXCEPT ![a.kind] = j]
  BY <1>4, <1>5 DEF World, Kept
<1>7. \A k \in {"sign-up", "interest"} :
        v.joined[k] = IF k # a.kind THEN w.joined[k] ELSE j
  BY <1>2, <1>6
<1>. QED
  BY <1>6, <1>7 DEF j, Joins

LEMMA RankedWorld ==
  ASSUME NEW w \in World, NEW a \in Ask, a.kind = "ranking", Len(a.list) <= MaxRank,
         NEW d \in Nat,
         NEW v, v = RankedAs(w, a, d)
  PROVE  /\ v \in World /\ Kept(w, v) /\ v.folds = w.folds
         /\ v.member = w.member /\ v.profile = w.profile
         /\ v.joined = w.joined /\ v.answers = w.answers
         /\ v.wishes = (IF d = 0 THEN {c \in w.wishes : c[1] # a.person} ELSE w.wishes)
                         \cup {<<a.person, a.list[i], i>> : i \in {j \in 1..Len(a.list) : j >= d}}
<1>1. a.person \in People /\ a.list \in Seq(Workshop)
  BY Asks DEF People
<1>. DEFINE s == (IF d = 0 THEN {c \in w.wishes : c[1] # a.person} ELSE w.wishes)
                   \cup {<<a.person, a.list[i], i>> : i \in {j \in 1..Len(a.list) : j >= d}}
<1>2. w.wishes \in SUBSET (People \X Workshop \X Rank)
  BY DEF World
<1>3. s \in SUBSET (People \X Workshop \X Rank)
  BY <1>1, <1>2, BoundAssumption DEF Rank
<1>4. RankedAs(w, a, d) = [w EXCEPT !.wishes = s]
  BY DEF RankedAs, Replaced
<1>. HIDE DEF s
<1>. QED
  BY <1>3, <1>4 DEF World, Kept, s

\* The answers of everybody, with a's from the d-th on; those of before go if it has all.
AnswersFrom(w, a, d) ==
  (IF d = 0 THEN {c \in w.answers : c[1] # a.person} ELSE w.answers)
    \cup {<<a.person, a.values[i]>> : i \in {j \in 1..Len(a.values) : j >= d}}

LEMMA AnsweredWorld ==
  ASSUME NEW w \in World, NEW a \in Ask, a.kind = "answer", NEW d \in Nat,
         NEW v, v = AnsweredAs(w, a, d)
  PROVE  /\ v \in World /\ Kept(w, v) /\ v.folds = w.folds
         /\ v.member = w.member /\ v.profile = w.profile
         /\ v.joined = w.joined /\ v.wishes = w.wishes
         /\ v.answers = AnswersFrom(w, a, d)
<1>1. a.person \in People /\ a.values \in Seq(Choice)
  BY Asks DEF People
<1>. DEFINE s == (IF d = 0 THEN {c \in w.answers : c[1] # a.person} ELSE w.answers)
                   \cup {<<a.person, a.values[i]>> : i \in {j \in 1..Len(a.values) : j >= d}}
<1>2. w.answers \in SUBSET (People \X Choice)
  BY DEF World
<1>3. s \in SUBSET (People \X Choice)
  BY <1>1, <1>2
<1>4. AnsweredAs(w, a, d) = [w EXCEPT !.answers = s]
  BY DEF AnsweredAs, Replaced
<1>. HIDE DEF s
<1>. QED
  BY <1>3, <1>4 DEF World, Kept, s, AnswersFrom

\* Who is somebody's is known, and labels are of people who are.
LEMMA ConsistentOf ==
  ASSUME NEW w \in World, Consistent(w), NEW v \in World, v.email = w.email,
         v.member = w.member, \A p \in People : v.profile[p] = None <=> w.profile[p] = None,
         \A p \in People : Labelled(v, p) => Labelled(w, p) \/ w.member[p] # None
  PROVE  Consistent(v)
BY DEF Consistent

\* v is w with something written about the person a names, or about the new one.
OfOnePerson(w, v, a) ==
  /\ v \in World /\ Consistent(v) /\ Kept(w, v)
  /\ \A p \in Person : v.member[p] = w.member[p]
  /\ \A p \in Person : a.kind = "create" \/ a.person # p => Inputs(v, p) = Inputs(w, p)
  /\ v.joined["sign-up"] \subseteq w.joined["sign-up"] \cup
       (IF a.kind = "sign-up" /\ a.on THEN {<<a.person, a.workshop>>} ELSE {})
  /\ a.kind # "create" /\ w.member[a.person] = None =>
       \A p \in Person : Inputs(v, p) = Inputs(w, p)

\* What a batch does, however late it comes.
LEMMA WrittenWorld ==
  ASSUME NEW w \in World, Consistent(w), NEW r \in Request, NEW d \in Nat,
         ask[r] \in Ask, family[r] \in Family,
         ask[r].kind = "ranking" => Len(ask[r].list) <= MaxRank
  PROVE  OfOnePerson(w, Written(w, r, d), ask[r])
<1>. SUFFICES ASSUME NEW a \in Ask, a = ask[r], NEW v, v = Written(w, r, d)
              PROVE  OfOnePerson(w, v, a)
  OBVIOUS
<1>1. CASE a.kind = "create"
  <2>1. v = [w EXCEPT !.member[r] = family[r], !.profile[r] = a.profile]
    BY <1>1 DEF Written
  <2>2. /\ v \in World /\ Kept(w, v)
        /\ v.joined = w.joined /\ v.wishes = w.wishes /\ v.answers = w.answers
        /\ v.member = [w.member EXCEPT ![r] = family[r]]
        /\ v.profile = [w.profile EXCEPT ![r] = a.profile]
    <3>1. /\ [w.member EXCEPT ![r] = family[r]] \in [People -> Family \cup {None}]
          /\ [w.profile EXCEPT ![r] = a.profile] \in [People -> Profile \cup {None}]
      BY <1>1, Asks DEF World, People
    <3>. QED
      BY <2>1, <3>1 DEF World, Kept
  <2>3. /\ \A p \in Person : v.member[p] = w.member[p] /\ v.profile[p] = w.profile[p]
        /\ \A p \in People \ {r} : v.member[p] = w.member[p] /\ v.profile[p] = w.profile[p]
        /\ v.member[r] # None /\ v.profile[r] # None
    BY <2>2, <1>1, Asks, NamesAssumption DEF World, People
  <2>4. Consistent(v)
    BY <2>2, <2>3 DEF Consistent, Kept, Labelled
  <2>5. \A p \in Person : Inputs(v, p) = Inputs(w, p)
    BY <2>2, <2>3 DEF Inputs, Answers
  <2>. QED
    BY <1>1, <2>2, <2>3, <2>4, <2>5 DEF OfOnePerson
<1>2. CASE a.kind # "create" /\ w.member[a.person] = None
  <2>1. v = [w EXCEPT !.folds = FALSE]
    BY <1>2 DEF Written
  <2>2. /\ v \in World /\ Kept(w, v) /\ v.member = w.member /\ v.profile = w.profile
        /\ v.joined = w.joined /\ v.wishes = w.wishes /\ v.answers = w.answers
    BY <2>1 DEF World, Kept
  <2>3. Consistent(v)
    BY <2>2, ConsistentOf DEF Kept, Labelled
  <2>4. \A p \in Person : Inputs(v, p) = Inputs(w, p)
    BY <2>2 DEF Inputs, Answers
  <2>. QED
    BY <2>2, <2>3, <2>4 DEF OfOnePerson
<1>3. CASE a.kind \in {"sign-up", "interest"} /\ w.member[a.person] # None
  <2>1. v = JoinedAs(w, a)
    BY <1>3 DEF Written
  <2>2. /\ v \in World /\ Kept(w, v) /\ v.member = w.member /\ v.profile = w.profile
        /\ v.wishes = w.wishes /\ v.answers = w.answers
        /\ Joins(w, v, a)
    BY <2>1, <1>3, JoinedWorld
  <2>3. DOMAIN v.joined = {"sign-up", "interest"} /\ DOMAIN w.joined = {"sign-up", "interest"}
    BY <2>2 DEF World
  <2>4. Consistent(v)
    BY <2>2, <2>3, <1>3, ConsistentOf DEF Kept, Labelled, Joins
  <2>5. \A p \in Person : a.person # p => Inputs(v, p) = Inputs(w, p)
    BY <2>2 DEF Inputs, Answers, Joins
  <2>6. v.joined["sign-up"] \subseteq w.joined["sign-up"] \cup
          (IF a.kind = "sign-up" /\ a.on THEN {<<a.person, a.workshop>>} ELSE {})
    BY <2>2 DEF Joins
  <2>. QED
    BY <1>3, <2>2, <2>4, <2>5, <2>6 DEF OfOnePerson
<1>4. CASE a.kind = "ranking" /\ w.member[a.person] # None
  <2>1. v = RankedAs(w, a, d)
    BY <1>4 DEF Written
  <2>2. /\ v \in World /\ Kept(w, v) /\ v.member = w.member /\ v.profile = w.profile
        /\ v.joined = w.joined /\ v.answers = w.answers
        /\ v.wishes = (IF d = 0 THEN {c \in w.wishes : c[1] # a.person} ELSE w.wishes)
                        \cup {<<a.person, a.list[i], i>> : i \in {j \in 1..Len(a.list) : j >= d}}
    BY <2>1, <1>4, RankedWorld
  <2>3. /\ \A c \in v.wishes : c \in w.wishes \/ c[1] = a.person
        /\ \A c \in w.wishes : c \in v.wishes \/ c[1] = a.person
    BY <2>2
  <2>4. Consistent(v)
    BY <2>2, <2>3, <1>4, ConsistentOf DEF Kept, Labelled
  <2>5. \A p \in Person : a.person # p => Inputs(v, p) = Inputs(w, p)
    BY <2>2, <2>3 DEF Inputs, Answers
  <2>. QED
    BY <1>4, <2>2, <2>4, <2>5 DEF OfOnePerson
<1>5. CASE a.kind = "answer" /\ w.member[a.person] # None
  <2>1. v = AnsweredAs(w, a, d)
    BY <1>5 DEF Written
  <2>2. /\ v \in World /\ Kept(w, v) /\ v.member = w.member /\ v.profile = w.profile
        /\ v.joined = w.joined /\ v.wishes = w.wishes
        /\ v.answers = AnswersFrom(w, a, d)
    BY <2>1, <1>5, AnsweredWorld
  <2>3. /\ \A c \in v.answers : c \in w.answers \/ c[1] = a.person
        /\ \A c \in w.answers : c \in v.answers \/ c[1] = a.person
    BY <2>2 DEF AnswersFrom
  <2>4. Consistent(v)
    BY <2>2, <2>3, <1>5, ConsistentOf DEF Kept, Labelled
  <2>5. \A p \in Person : a.person # p => Inputs(v, p) = Inputs(w, p)
    <3>1. \A p \in Person : \A x : a.person # p => (<<p, x>> \in v.answers <=> <<p, x>> \in w.answers)
      BY <2>3
    <3>. QED
      BY <3>1, <2>2 DEF Inputs, Answers
  <2>. QED
    BY <1>5, <2>2, <2>4, <2>5 DEF OfOnePerson
<1>6. CASE a.kind = "profile" /\ w.member[a.person] # None
  <2>1. v = [w EXCEPT !.profile[a.person] = a.profile]
    BY <1>6 DEF Written
  <2>2. a.person \in People /\ a.profile \in Profile /\ a.profile # None
    BY <1>6, Asks, NamesAssumption DEF People
  <2>3. /\ v \in World /\ Kept(w, v) /\ v.member = w.member
        /\ v.joined = w.joined /\ v.wishes = w.wishes /\ v.answers = w.answers
        /\ v.profile = [w.profile EXCEPT ![a.person] = a.profile]
    BY SMTT(30), <2>1, <2>2 DEF World, Kept
  <2>4. \A p \in People : v.profile[p] = IF p = a.person THEN a.profile ELSE w.profile[p]
    BY <2>2, <2>3 DEF World
  <2>5. Consistent(v)
    <3>1. \A p \in People : v.profile[p] = None <=> w.profile[p] = None
      BY <2>2, <2>4, <1>6 DEF Consistent
    <3>2. \A p \in People : Labelled(v, p) <=> Labelled(w, p)
      BY <2>3 DEF Labelled
    <3>3. v.email = w.email
      BY <2>3 DEF Kept
    <3>. QED
      BY <3>1, <3>2, <3>3, <2>3, ConsistentOf
  <2>6. \A p \in Person : a.person # p => Inputs(v, p) = Inputs(w, p)
    BY <2>3, <2>4 DEF Inputs, Answers, People
  <2>. QED
    BY <1>6, <2>3, <2>5, <2>6 DEF OfOnePerson
<1>. QED
  BY <1>1, <1>2, <1>3, <1>4, <1>5, <1>6, Asks
\* What an organiser does keeps a world consistent, and moves nobody to another family.
LEMMA OrganisedWorld ==
  ASSUME world \in World, Consistent(world), Organise
  PROVE  /\ world' \in World /\ Consistent(world')
         /\ \A p \in Person : world'.member[p] \in {world.member[p], None}
<1>1. ASSUME NEW f \in Family, NEW e \in Email, ChangeEmail(f, e)
      PROVE  /\ world' \in World /\ Consistent(world')
             /\ \A p \in Person : world'.member[p] \in {world.member[p], None}
  <2>1. /\ \A g \in Family : world.email[g] # e
        /\ world' = [world EXCEPT !.email[f] = e]
    BY <1>1 DEF ChangeEmail
  <2>2. /\ world' \in World /\ world'.member = world.member
        /\ world'.profile = world.profile /\ world'.joined = world.joined
        /\ world'.wishes = world.wishes /\ world'.answers = world.answers
    BY <2>1 DEF World
  <2>3. \A g \in Family : world'.email[g] = IF g = f THEN e ELSE world.email[g]
    BY <2>1 DEF World
  <2>4. Consistent(world')
    BY <2>1, <2>2, <2>3 DEF Consistent, Labelled
  <2>. QED
    BY <2>2, <2>4
<1>2. ASSUME NEW q \in People, Withdraw(q)
      PROVE  /\ world' \in World /\ Consistent(world')
             /\ \A p \in Person : world'.member[p] \in {world.member[p], None}
  <2>. DEFINE left == [kind \in DOMAIN world.joined |-> WithoutPerson(world.joined[kind], q)]
  <2>1. world' = [world EXCEPT !.member[q] = None, !.profile[q] = None, !.joined = left,
                    !.wishes = WithoutPerson(world.wishes, q),
                    !.answers = WithoutPerson(world.answers, q)]
    BY <1>2 DEF Withdraw
  <2>2. /\ left \in [{"sign-up", "interest"} -> SUBSET (People \X Workshop)]
        /\ \A kind \in {"sign-up", "interest"} : \A c \in left[kind] :
             c \in world.joined[kind] /\ c[1] # q
    BY DEF World, WithoutPerson
  <2>3. /\ WithoutPerson(world.wishes, q) \subseteq world.wishes
        /\ WithoutPerson(world.answers, q) \subseteq world.answers
        /\ \A c \in WithoutPerson(world.wishes, q) : c[1] # q
        /\ \A c \in WithoutPerson(world.answers, q) : c[1] # q
    BY DEF WithoutPerson
  <2>. HIDE DEF left
  <2>4. /\ [world.member EXCEPT ![q] = None] \in [People -> Family \cup {None}]
        /\ [world.profile EXCEPT ![q] = None] \in [People -> Profile \cup {None}]
        /\ WithoutPerson(world.wishes, q) \in SUBSET (People \X Workshop \X Rank)
        /\ WithoutPerson(world.answers, q) \in SUBSET (People \X Choice)
    BY <2>3 DEF World
  <2>5. /\ world'.email = world.email /\ world'.joined = left
        /\ world'.member = [world.member EXCEPT ![q] = None]
        /\ world'.profile = [world.profile EXCEPT ![q] = None]
        /\ world'.wishes = WithoutPerson(world.wishes, q)
        /\ world'.answers = WithoutPerson(world.answers, q)
        /\ world'.workshop = world.workshop /\ world'.section = world.section
        /\ world'.folds = world.folds
    BY <2>1 DEF World
  <2>6. world' \in World
    BY <2>1, <2>2, <2>4 DEF World
  <2>7. \A p \in People :
          /\ world'.member[p] = IF p = q THEN None ELSE world.member[p]
          /\ world'.profile[p] = IF p = q THEN None ELSE world.profile[p]
    BY <2>5 DEF World
  <2>8. DOMAIN left = {"sign-up", "interest"} /\ DOMAIN world.joined = {"sign-up", "interest"}
    BY <2>2 DEF World
  <2>9. \A p \in People : Labelled(world', p) => Labelled(world, p) /\ p # q
    BY <2>2, <2>3, <2>5, <2>8 DEF Labelled
  <2>10. Consistent(world')
    BY <2>5, <2>7, <2>9 DEF Consistent
  <2>. QED
    BY <2>6, <2>7, <2>10 DEF People
<1>3. ASSUME NEW k \in Workshop, NEW offer \in Offer \cup {None}, Reoffer(k, offer)
      PROVE  /\ world' \in World /\ Consistent(world')
             /\ \A p \in Person : world'.member[p] \in {world.member[p], None}
  <2>1. world' = [world EXCEPT !.workshop[k] = offer]
    BY <1>3 DEF Reoffer
  <2>2. /\ world' \in World /\ world'.member = world.member /\ world'.email = world.email
        /\ world'.profile = world.profile /\ world'.joined = world.joined
        /\ world'.wishes = world.wishes /\ world'.answers = world.answers
    BY <2>1 DEF World
  <2>3. Consistent(world')
    BY <2>2 DEF Consistent, Labelled
  <2>. QED
    BY <2>2, <2>3
<1>4. ASSUME NEW s \in Section, NEW state \in {"hidden", "open", "closed"}, SetSection(s, state)
      PROVE  /\ world' \in World /\ Consistent(world')
             /\ \A p \in Person : world'.member[p] \in {world.member[p], None}
  <2>1. world' = [world EXCEPT !.section[s] = state]
    BY <1>4 DEF SetSection
  <2>2. /\ world' \in World /\ world'.member = world.member /\ world'.email = world.email
        /\ world'.profile = world.profile /\ world'.joined = world.joined
        /\ world'.wishes = world.wishes /\ world'.answers = world.answers
    BY <2>1 DEF World
  <2>3. Consistent(world')
    BY <2>2 DEF Consistent, Labelled
  <2>. QED
    BY <2>2, <2>3
<1>5. ASSUME NEW kind \in {"sign-up", "interest"}, NEW q \in People, NEW k \in Workshop,
             EnterJoined(kind, q, k)
      PROVE  /\ world' \in World /\ Consistent(world')
             /\ \A p \in Person : world'.member[p] \in {world.member[p], None}
  <2>. DEFINE j == [world.joined EXCEPT ![kind] = world.joined[kind] \cup {<<q, k>>}]
  <2>1. world.member[q] # None /\ world' = [world EXCEPT !.joined = j]
    BY <1>5 DEF EnterJoined, World
  <2>2. /\ j \in [{"sign-up", "interest"} -> SUBSET (People \X Workshop)]
        /\ \A m \in {"sign-up", "interest"} : \A c \in j[m] :
             c \in world.joined[m] \/ c = <<q, k>>
    BY DEF World
  <2>. HIDE DEF j
  <2>3. /\ world' \in World /\ world'.member = world.member /\ world'.email = world.email
        /\ world'.profile = world.profile /\ world'.joined = j
        /\ world'.wishes = world.wishes /\ world'.answers = world.answers
    BY <2>1, <2>2 DEF World
  <2>4. DOMAIN j = {"sign-up", "interest"} /\ DOMAIN world.joined = {"sign-up", "interest"}
    BY <2>2 DEF World
  <2>5. \A p \in People : Labelled(world', p) => Labelled(world, p) \/ p = q
    BY <2>2, <2>3, <2>4 DEF Labelled
  <2>6. Consistent(world')
    BY <2>1, <2>3, <2>5 DEF Consistent
  <2>. QED
    BY <2>3, <2>6
<1>. QED
  BY <1>1, <1>2, <1>3, <1>4, <1>5 DEF Organise

-----------------------------------------------------------------------------
(***************************************************************************)
(* The invariant: what a request read is the world as long as the head     *)
(* has not moved, and what it will write was granted on what it read.      *)
(***************************************************************************)
Deciding == {"checking", "appending"}

\* Who read at the present head has read the present world.
ReadIsWorld ==
  \A r \in Request : seen[r] # None /\ seen[r].head = head => seen[r].world = world

\* People leave a family, and do not come back.
MembersLeave ==
  \A r \in Request, p \in Person : seen[r] # None =>
    world.member[p] \in {seen[r].world.member[p], None}

\* What is on its way to the log was granted in the world it was read in.
GrantedOnRead ==
  \A r \in Request : pc[r] \in Deciding =>
    /\ Granted(seen[r].world, family[r], ask[r], match[r])
    /\ Events(seen[r].world, ask[r]) # 0

Silent == \A r \in Request : pc[r] # "answered" => answer[r] = "none"

IInv == TypeOK /\ ReadIsWorld /\ MembersLeave /\ GrantedOnRead /\ Silent
          /\ match = [r \in Request |-> match[r]]

LEMMA EventCount ==
  ASSUME NEW a \in Ask, NEW w
  PROVE  /\ Events(w, a) \in Nat
         /\ a.kind = "sign-up" => Events(w, a) \in {0, 1}
<1>1. CASE a.kind \in {"sign-up", "interest"}
  BY <1>1 DEF Events
<1>2. CASE a.kind \in {"profile", "create"}
  BY <1>2 DEF Events
<1>3. CASE a.kind = "ranking"
  BY <1>3, Asks DEF Events
<1>4. CASE a.kind = "answer"
  BY <1>4, Asks DEF Events
<1>. QED
  BY <1>1, <1>2, <1>3, <1>4, Asks

\* What a request reads.
LEMMA Reading ==
  ASSUME TypeOK
  PROVE  /\ [head |-> head, world |-> world] \in [head : 0..head, world : World]
         /\ [head |-> head, world |-> world] # None
BY ReadAssumption DEF TypeOK

\* A request before its write, in what it reads, decides or answers.
LEMMA RequestStep ==
  ASSUME IInv, NEW r \in Request, UNCHANGED <<world, head>>, TypeOK',
         \A q \in Request \ {r} :
           /\ pc'[q] = pc[q] /\ ask'[q] = ask[q] /\ family'[q] = family[q]
           /\ match'[q] = match[q] /\ seen'[q] = seen[q] /\ answer'[q] = answer[q],
         seen'[r] \in {seen[r], None, [head |-> head, world |-> world]},
         pc'[r] # "answered" => answer'[r] = "none",
         pc'[r] \in Deciding =>
           /\ Granted(seen'[r].world, family'[r], ask'[r], match'[r])
           /\ Events(seen'[r].world, ask'[r]) # 0,
         match' = [q \in Request |-> match'[q]]
  PROVE  IInv'
<1>1. ReadIsWorld'
  <2>1. ASSUME NEW q \in Request, seen'[q] # None, seen'[q].head = head
        PROVE  seen'[q].world = world
    BY <2>1, Reading DEF IInv, ReadIsWorld
  <2>. QED
    BY <2>1 DEF ReadIsWorld
<1>2. MembersLeave'
  <2>1. ASSUME NEW q \in Request, NEW p \in Person, seen'[q] # None
        PROVE  world.member[p] \in {seen'[q].world.member[p], None}
    BY <2>1, Reading DEF IInv, MembersLeave
  <2>. QED
    BY <2>1 DEF MembersLeave
<1>3. GrantedOnRead'
  <2>1. ASSUME NEW q \in Request, pc'[q] \in Deciding
        PROVE  /\ Granted(seen'[q].world, family'[q], ask'[q], match'[q])
               /\ Events(seen'[q].world, ask'[q]) # 0
    BY <2>1 DEF IInv, GrantedOnRead
  <2>. QED
    BY <2>1 DEF GrantedOnRead
<1>4. Silent'
  BY DEF IInv, Silent
<1>. QED
  BY <1>1, <1>2, <1>3, <1>4 DEF IInv

LEMMA Loaded ==
  ASSUME IInv, NEW r \in Request, Load(r)
  PROVE  IInv'
<1>1. PICK a \in Ask : /\ ask' = [ask EXCEPT ![r] = a]
                       /\ match' = [match EXCEPT ![r] = ETag(world, a)]
  BY DEF Load
<1>2. /\ pc[r] = "idle" /\ pc' = [pc EXCEPT ![r] = "loaded"]
      /\ UNCHANGED <<world, head, family, seen, attempt, answer>>
  BY DEF Load, Goto
<1>3. TypeOK'
  BY <1>1, <1>2, NamesAssumption DEF IInv, TypeOK
<1>4. answer[r] = "none"
  BY <1>2 DEF IInv, Silent
<1>5. \A q \in Request \ {r} :
        /\ pc'[q] = pc[q] /\ ask'[q] = ask[q] /\ family'[q] = family[q]
        /\ match'[q] = match[q] /\ seen'[q] = seen[q] /\ answer'[q] = answer[q]
  BY <1>1, <1>2 DEF IInv, TypeOK
<1>6. pc'[r] = "loaded" /\ match' = [q \in Request |-> match'[q]]
  BY <1>1, <1>2 DEF IInv, TypeOK
<1>. QED
  BY <1>2, <1>3, <1>4, <1>5, <1>6, RequestStep DEF Deciding

LEMMA Received ==
  ASSUME IInv, NEW r \in Request, Receive(r)
  PROVE  IInv'
<1>1. pc[r] = "loaded" /\ ask[r] # None /\ answer[r] = "none"
  BY DEF Receive, IInv, TypeOK, Silent
<1>2. UNCHANGED <<world, head, ask, match>>
  BY DEF Receive
<1>3. CASE \E f \in Family : world.folds /\ Owns(world, f, ask[r].email)
  <2>. DEFINE f == CHOOSE g \in Family : Owns(world, g, ask[r].email)
  <2>1. f \in Family /\ f # None
    BY <1>3 DEF Owns
  <2>. HIDE DEF f
  <2>2. /\ family' = [family EXCEPT ![r] = f]
        /\ seen' = [seen EXCEPT ![r] = [head |-> head, world |-> world]]
        /\ attempt' = [attempt EXCEPT ![r] = 1]
        /\ pc' = [pc EXCEPT ![r] = "deciding"] /\ answer' = answer
    BY <1>3 DEF Receive, Goto, f
  <2>3. TypeOK'
    BY <1>1, <1>2, <2>1, <2>2, Reading, BoundAssumption DEF IInv, TypeOK
  <2>4. \A q \in Request \ {r} :
          /\ pc'[q] = pc[q] /\ ask'[q] = ask[q] /\ family'[q] = family[q]
          /\ match'[q] = match[q] /\ seen'[q] = seen[q] /\ answer'[q] = answer[q]
    BY <1>2, <2>2 DEF IInv, TypeOK
  <2>5. pc'[r] = "deciding" /\ seen'[r] = [head |-> head, world |-> world]
    BY <2>2 DEF IInv, TypeOK
  <2>6. match' = [q \in Request |-> match'[q]]
    BY <1>2 DEF IInv
  <2>. QED
    BY <1>1, <1>2, <2>2, <2>3, <2>4, <2>5, <2>6, RequestStep DEF Deciding
<1>4. CASE ~ \E f \in Family : world.folds /\ Owns(world, f, ask[r].email)
  <2>1. /\ pc' = [pc EXCEPT ![r] = "answered"] /\ answer' = [answer EXCEPT ![r] = "refused"]
        /\ seen' = [seen EXCEPT ![r] = None] /\ family' = family /\ attempt' = attempt
    BY <1>4 DEF Receive, Answer, Goto
  <2>2. TypeOK'
    BY <1>1, <1>2, <2>1 DEF IInv, TypeOK
  <2>3. \A q \in Request \ {r} :
          /\ pc'[q] = pc[q] /\ ask'[q] = ask[q] /\ family'[q] = family[q]
          /\ match'[q] = match[q] /\ seen'[q] = seen[q] /\ answer'[q] = answer[q]
    BY <1>2, <2>1 DEF IInv, TypeOK
  <2>4. pc'[r] = "answered" /\ seen'[r] = None /\ match' = [q \in Request |-> match'[q]]
    BY <1>2, <2>1 DEF IInv, TypeOK
  <2>. QED
    BY <1>2, <2>2, <2>3, <2>4, RequestStep DEF Deciding
<1>. QED
  BY <1>3, <1>4
\* The other requests, when one takes a step that changes its program counter, what it
\* read and its answer.
LEMMA Others ==
  ASSUME TypeOK, NEW r \in Request, NEW l, NEW s, NEW a,
         pc' = [pc EXCEPT ![r] = l],
         seen' = [seen EXCEPT ![r] = s] \/ (seen' = seen /\ s = seen[r]),
         answer' = [answer EXCEPT ![r] = a] \/ (answer' = answer /\ a = answer[r]),
         UNCHANGED <<ask, family, match>>
  PROVE  /\ \A q \in Request \ {r} :
              /\ pc'[q] = pc[q] /\ ask'[q] = ask[q] /\ family'[q] = family[q]
              /\ match'[q] = match[q] /\ seen'[q] = seen[q] /\ answer'[q] = answer[q]
         /\ pc'[r] = l /\ seen'[r] = s /\ answer'[r] = a
BY DEF TypeOK

LEMMA Decided ==
  ASSUME IInv, NEW r \in Request, Decide(r)
  PROVE  IInv'
<1>1. /\ pc[r] = "deciding" /\ answer[r] = "none" /\ ask[r] \in Ask
      /\ family[r] # None /\ seen[r] # None
      /\ UNCHANGED <<world, head, ask, family, match, attempt>>
  BY DEF Decide, IInv, TypeOK, Silent
<1>2. TypeOK /\ match' = [q \in Request |-> match'[q]]
  BY <1>1 DEF IInv
<1>3. CASE \E a \in {"ok", "refused"} : Answer(r, a)
  <2>1. PICK a \in {"ok", "refused"} :
           /\ pc' = [pc EXCEPT ![r] = "answered"] /\ answer' = [answer EXCEPT ![r] = a]
           /\ seen' = [seen EXCEPT ![r] = None]
    BY <1>3 DEF Answer, Goto
  <2>2. TypeOK'
    BY <1>1, <1>2, <2>1 DEF TypeOK
  <2>3. /\ \A q \in Request \ {r} :
             /\ pc'[q] = pc[q] /\ ask'[q] = ask[q] /\ family'[q] = family[q]
             /\ match'[q] = match[q] /\ seen'[q] = seen[q] /\ answer'[q] = answer[q]
        /\ pc'[r] = "answered" /\ seen'[r] = None
    BY <1>1, <1>2, <2>1 DEF TypeOK
  <2>. QED
    BY <1>1, <1>2, <2>2, <2>3, RequestStep DEF Deciding
<1>4. CASE /\ pc' = [pc EXCEPT ![r] = "checking"] /\ seen' = seen /\ answer' = answer
           /\ Granted(seen[r].world, family[r], ask[r], match[r])
           /\ Events(seen[r].world, ask[r]) # 0
  <2>1. TypeOK'
    BY <1>1, <1>2, <1>4 DEF TypeOK
  <2>2. /\ \A q \in Request \ {r} :
             /\ pc'[q] = pc[q] /\ ask'[q] = ask[q] /\ family'[q] = family[q]
             /\ match'[q] = match[q] /\ seen'[q] = seen[q] /\ answer'[q] = answer[q]
        /\ pc'[r] = "checking" /\ seen'[r] = seen[r] /\ answer'[r] = answer[r]
    <3>1. pc'[r] = "checking" /\ \A q \in Request \ {r} : pc'[q] = pc[q]
      BY <1>2, <1>4 DEF TypeOK
    <3>. QED
      BY <1>1, <1>4, <3>1
  <2>. QED
    BY <1>1, <1>2, <1>4, <2>1, <2>2, RequestStep
<1>. QED
  BY <1>3, <1>4 DEF Decide, Goto

LEMMA Checked ==
  ASSUME IInv, NEW r \in Request, CheckHead(r)
  PROVE  IInv'
<1>1. /\ pc[r] = "checking" /\ answer[r] = "none" /\ ask[r] \in Ask
      /\ family[r] # None /\ seen[r] # None
      /\ UNCHANGED <<world, head, ask, family, match, seen, attempt, answer>>
      /\ Granted(seen[r].world, family[r], ask[r], match[r])
      /\ Events(seen[r].world, ask[r]) # 0
  BY DEF CheckHead, IInv, TypeOK, Silent, GrantedOnRead, Deciding
<1>2. TypeOK /\ match' = [q \in Request |-> match'[q]]
  BY <1>1 DEF IInv
<1>3. PICK l \in {"appending", "stale"} : pc' = [pc EXCEPT ![r] = l]
  BY DEF CheckHead, Goto
<1>4. TypeOK'
  BY <1>1, <1>2, <1>3 DEF TypeOK
<1>5. /\ \A q \in Request \ {r} :
           /\ pc'[q] = pc[q] /\ ask'[q] = ask[q] /\ family'[q] = family[q]
           /\ match'[q] = match[q] /\ seen'[q] = seen[q] /\ answer'[q] = answer[q]
      /\ pc'[r] = l /\ seen'[r] = seen[r] /\ answer'[r] = answer[r]
  BY <1>1, <1>2, <1>3, Others
<1>. QED
  BY <1>1, <1>2, <1>3, <1>4, <1>5, RequestStep

LEMMA Retried ==
  ASSUME IInv, NEW r \in Request, Retry(r)
  PROVE  IInv'
<1>1. /\ pc[r] = "stale" /\ answer[r] = "none" /\ ask[r] \in Ask
      /\ family[r] # None /\ seen[r] # None
      /\ UNCHANGED <<world, head, ask, family, match>>
  BY DEF Retry, IInv, TypeOK, Silent
<1>2. TypeOK /\ match' = [q \in Request |-> match'[q]]
  BY <1>1 DEF IInv
<1>3. CASE attempt[r] < MaxAttempts
  <2>1. /\ pc' = [pc EXCEPT ![r] = "deciding"] /\ answer' = answer
        /\ seen' = [seen EXCEPT ![r] = [head |-> head, world |-> world]]
        /\ attempt' = [attempt EXCEPT ![r] = attempt[r] + 1]
    BY <1>3 DEF Retry, Goto
  <2>2. attempt[r] + 1 \in 0..MaxAttempts
    BY <1>2, <1>3, BoundAssumption DEF TypeOK
  <2>3. TypeOK'
    BY <1>1, <1>2, <2>1, <2>2, Reading DEF TypeOK
  <2>4. /\ \A q \in Request \ {r} :
             /\ pc'[q] = pc[q] /\ ask'[q] = ask[q] /\ family'[q] = family[q]
             /\ match'[q] = match[q] /\ seen'[q] = seen[q] /\ answer'[q] = answer[q]
        /\ pc'[r] = "deciding" /\ seen'[r] = [head |-> head, world |-> world]
        /\ answer'[r] = answer[r]
    BY ZenonT(30), <1>1, <1>2, <2>1, Others
  <2>. QED
    BY <1>1, <1>2, <2>3, <2>4, RequestStep DEF Deciding
<1>4. CASE ~(attempt[r] < MaxAttempts)
  <2>1. /\ pc' = [pc EXCEPT ![r] = "answered"] /\ answer' = [answer EXCEPT ![r] = "conflict"]
        /\ seen' = [seen EXCEPT ![r] = None] /\ attempt' = attempt
    BY <1>4 DEF Retry, Answer, Goto
  <2>2. TypeOK'
    BY <1>1, <1>2, <2>1 DEF TypeOK
  <2>3. /\ \A q \in Request \ {r} :
             /\ pc'[q] = pc[q] /\ ask'[q] = ask[q] /\ family'[q] = family[q]
             /\ match'[q] = match[q] /\ seen'[q] = seen[q] /\ answer'[q] = answer[q]
        /\ pc'[r] = "answered" /\ seen'[r] = None
    BY ZenonT(30), <1>1, <1>2, <2>1, Others
  <2>. QED
    BY <1>1, <1>2, <2>2, <2>3, RequestStep DEF Deciding
<1>. QED
  BY <1>3, <1>4

-----------------------------------------------------------------------------
(***************************************************************************)
(* The steps that write.                                                   *)
(***************************************************************************)
\* What the write of r finds.
LEMMA Writing ==
  ASSUME IInv, NEW r \in Request, pc[r] = "appending"
  PROVE  /\ seen[r] \in [head : 0..head, world : World] /\ seen[r] # None
         /\ ask[r] \in Ask /\ family[r] \in Family /\ answer[r] = "none"
         /\ Granted(seen[r].world, family[r], ask[r], match[r])
         /\ Events(seen[r].world, ask[r]) \in Nat \ {0}
         /\ RowsLate(r) \in Nat
         /\ ask[r].kind = "ranking" => Len(ask[r].list) <= MaxRank
         /\ RowsLate(r) = 0 => seen[r].world = world
<1>1. /\ seen[r] \in [head : 0..head, world : World] /\ seen[r] # None
      /\ ask[r] \in Ask /\ family[r] \in Family /\ answer[r] = "none"
      /\ Granted(seen[r].world, family[r], ask[r], match[r])
      /\ Events(seen[r].world, ask[r]) # 0
  BY DEF IInv, TypeOK, GrantedOnRead, Deciding, Silent
<1>2. Events(seen[r].world, ask[r]) \in Nat
  BY <1>1, EventCount
<1>3. /\ RowsLate(r) \in Nat
      /\ RowsLate(r) = 0 => seen[r].head = head
  <2>1. head \in Nat /\ seen[r].head \in 0..head
    BY <1>1 DEF IInv, TypeOK
  <2>. QED
    BY <2>1 DEF RowsLate
<1>4. ask[r].kind = "ranking" => Len(ask[r].list) <= MaxRank
  BY <1>1 DEF Granted, Allowed, Rankable
<1>. QED
  BY <1>1, <1>2, <1>3, <1>4 DEF IInv, ReadIsWorld

\* A step that moves the head and leaves people in their families.
LEMMA HeadMoves ==
  ASSUME IInv, TypeOK', head' > head,
         \A p \in Person : world'.member[p] \in {world.member[p], None},
         UNCHANGED <<ask, family, match>>,
         \A q \in Request :
           /\ seen'[q] = seen[q] \/ seen'[q] = None
           /\ \/ pc'[q] = pc[q] /\ answer'[q] = answer[q] /\ seen'[q] = seen[q]
              \/ /\ pc'[q] \notin Deciding /\ pc[q] # "answered"
                 /\ pc'[q] = "answered" \/ answer'[q] = answer[q]
  PROVE  IInv'
<1>1. ReadIsWorld'
  <2>1. ASSUME NEW q \in Request, seen'[q] # None PROVE seen'[q].head # head'
    <3>1. seen[q] \in [head : 0..head, world : World] /\ seen'[q] = seen[q]
      BY <2>1 DEF IInv, TypeOK
    <3>2. head \in Nat /\ head' \in Nat
      BY DEF IInv, TypeOK
    <3>. QED
      BY <3>1, <3>2
  <2>. QED
    BY <2>1 DEF ReadIsWorld
<1>2. MembersLeave'
  <2>1. ASSUME NEW q \in Request, NEW p \in Person, seen'[q] # None
        PROVE  world'.member[p] \in {seen'[q].world.member[p], None}
    BY <2>1 DEF IInv, MembersLeave
  <2>. QED
    BY <2>1 DEF MembersLeave
<1>3. GrantedOnRead'
  <2>1. ASSUME NEW q \in Request, pc'[q] \in Deciding
        PROVE  /\ Granted(seen'[q].world, family'[q], ask'[q], match'[q])
               /\ Events(seen'[q].world, ask'[q]) # 0
    BY <2>1 DEF IInv, GrantedOnRead
  <2>. QED
    BY <2>1 DEF GrantedOnRead
<1>4. Silent'
  BY DEF IInv, Silent
<1>. QED
  BY <1>1, <1>2, <1>3, <1>4 DEF IInv

LEMMA BatchWritten ==
  ASSUME IInv, NEW r \in Request, WriteBatch(r)
  PROVE  IInv'
<1>. DEFINE n == Events(seen[r].world, ask[r])
            d == RowsLate(r)
<1>1. /\ pc[r] = "appending"
      /\ UNCHANGED <<ask, family, match, attempt>>
      /\ IF d < n THEN world' = Written(world, r, d) /\ head' = head + n - d
         ELSE UNCHANGED <<world, head>>
      /\ IF d = 0 THEN Answer(r, "ok")
         ELSE pc' = [pc EXCEPT ![r] = "stale"] /\ UNCHANGED <<seen, answer>>
  BY DEF WriteBatch, Goto
<1>2. /\ seen[r] \in [head : 0..head, world : World] /\ seen[r] # None
      /\ ask[r] \in Ask /\ family[r] \in Family /\ answer[r] = "none"
      /\ n \in Nat \ {0} /\ d \in Nat
      /\ ask[r].kind = "ranking" => Len(ask[r].list) <= MaxRank
  BY <1>1, Writing
<1>3. /\ TypeOK /\ match' = [q \in Request |-> match'[q]]
      /\ head \in Nat /\ world \in World /\ Consistent(world)
  BY <1>1 DEF IInv, TypeOK
<1>. HIDE DEF n, d
<1>4. PICK l \in {"answered", "stale"}, s \in {seen[r], None}, a \in {"none", "ok"} :
        /\ pc' = [pc EXCEPT ![r] = l]
        /\ seen' = [seen EXCEPT ![r] = s] /\ answer' = [answer EXCEPT ![r] = a]
        /\ l # "answered" => a = "none" /\ s = seen[r]
  <2>1. CASE d = 0
    BY <2>1, <1>1 DEF Answer, Goto
  <2>2. CASE d # 0
    <3>1. seen = [seen EXCEPT ![r] = seen[r]] /\ answer = [answer EXCEPT ![r] = "none"]
      BY <1>2, <1>3 DEF TypeOK
    <3>. QED
      BY <2>2, <3>1, <1>1
  <2>. QED
    BY <2>1, <2>2
<1>5. /\ \A q \in Request \ {r} :
           /\ pc'[q] = pc[q] /\ ask'[q] = ask[q] /\ family'[q] = family[q]
           /\ match'[q] = match[q] /\ seen'[q] = seen[q] /\ answer'[q] = answer[q]
      /\ pc'[r] = l /\ seen'[r] = s /\ answer'[r] = a
  BY <1>1, <1>3, <1>4 DEF TypeOK
<1>6. CASE d < n
  <2>1. OfOnePerson(world, world', ask[r])
    BY <1>1, <1>2, <1>3, <1>6, WrittenWorld
  <2>2. head' \in Nat /\ head' > head
    BY <1>1, <1>2, <1>3, <1>6
  <2>3. TypeOK'
    <3>1. seen' \in [Request -> [head : 0..head, world : World] \cup {None}]
      BY <1>3, <1>4 DEF TypeOK
    <3>2. 0..head \subseteq 0..head'
      BY <2>2, <1>3
    <3>3. seen' \in [Request -> [head : 0..head', world : World] \cup {None}]
      BY <3>1, <3>2
    <3>4. world' \in World /\ Consistent(world')
      BY <2>1 DEF OfOnePerson
    <3>5. /\ pc' \in [Request -> {"idle", "loaded", "deciding", "checking", "appending",
                                  "stale", "answered"}]
          /\ answer' \in [Request -> {"none", "ok", "refused", "conflict"}]
      BY <1>3, <1>4 DEF TypeOK
    <3>6. \A q \in Request : pc'[q] \notin {"idle", "loaded", "answered"} =>
            family'[q] # None /\ seen'[q] # None
      BY <1>1, <1>2, <1>3, <1>4, <1>5, NamesAssumption DEF TypeOK
    <3>7. \A q \in Request : pc'[q] # "idle" => ask'[q] # None
      BY <1>1, <1>2, <1>3, <1>5, NamesAssumption DEF TypeOK
    <3>. QED
      BY <1>1, <1>3, <2>2, <3>3, <3>4, <3>5, <3>6, <3>7 DEF TypeOK
  <2>4. \A p \in Person : world'.member[p] \in {world.member[p], None}
    BY <2>1 DEF OfOnePerson
  <2>5. \A q \in Request :
           /\ seen'[q] = seen[q] \/ seen'[q] = None
           /\ \/ pc'[q] = pc[q] /\ answer'[q] = answer[q] /\ seen'[q] = seen[q]
              \/ /\ pc'[q] \notin Deciding /\ pc[q] # "answered"
                 /\ pc'[q] = "answered" \/ answer'[q] = answer[q]
    BY <1>1, <1>2, <1>4, <1>5 DEF Deciding
  <2>. QED
    BY <1>1, <2>2, <2>3, <2>4, <2>5, HeadMoves
<1>7. CASE ~(d < n)
  <2>1. UNCHANGED <<world, head>>
    BY <1>1, <1>7
  <2>2. TypeOK'
    BY <1>1, <1>2, <1>3, <1>4, <2>1, NamesAssumption DEF TypeOK
  <2>. QED
    BY <1>2, <1>3, <1>4, <1>5, <2>1, <2>2, RequestStep DEF Deciding
<1>. QED
  BY <1>6, <1>7

LEMMA Organised == IInv /\ Organise => IInv'
<1>. SUFFICES ASSUME IInv, Organise PROVE IInv'
  OBVIOUS
<1>1. head' = head + 1 /\ UNCHANGED <<pc, ask, family, match, seen, attempt, answer>>
  BY DEF Organise, requestVars
<1>2. /\ world' \in World /\ Consistent(world')
      /\ \A p \in Person : world'.member[p] \in {world.member[p], None}
  BY OrganisedWorld DEF IInv, TypeOK
<1>3. head \in Nat /\ head' \in Nat /\ head' > head
  BY <1>1 DEF IInv, TypeOK
<1>4. TypeOK'
  <2>1. 0..head \subseteq 0..head'
    BY <1>3
  <2>2. seen' \in [Request -> [head : 0..head', world : World] \cup {None}]
    BY <1>1, <2>1 DEF IInv, TypeOK
  <2>. QED
    BY <1>1, <1>2, <1>3, <2>2 DEF IInv, TypeOK
<1>. QED
  BY <1>1, <1>2, <1>3, <1>4, HeadMoves

LEMMA Initially == Init => IInv
<1>. SUFFICES ASSUME Init PROVE IInv
  OBVIOUS
<1>1. world \in World /\ Consistent(world)
  BY InitialAssumption DEF Init
<1>2. TypeOK
  BY <1>1, BoundAssumption DEF Init, TypeOK
<1>3. ReadIsWorld /\ MembersLeave /\ GrantedOnRead /\ Silent
  BY DEF Init, ReadIsWorld, MembersLeave, GrantedOnRead, Silent, Deciding
<1>. QED
  BY <1>2, <1>3 DEF IInv, Init

LEMMA Inductive == IInv /\ [Next]_vars => IInv'
<1>1. ASSUME IInv, UNCHANGED vars PROVE IInv'
  <2>1. UNCHANGED <<world, head, pc, ask, family, match, seen, attempt, answer>>
    BY <1>1 DEF vars, requestVars
  <2>2. TypeOK'
    BY <1>1, <2>1 DEF IInv, TypeOK
  <2>3. ReadIsWorld' /\ MembersLeave' /\ GrantedOnRead' /\ Silent'
    BY <1>1, <2>1 DEF IInv, ReadIsWorld, MembersLeave, GrantedOnRead, Silent
  <2>. QED
    BY <1>1, <2>1, <2>2, <2>3 DEF IInv
<1>. QED
  BY <1>1, Loaded, Received, Decided, Checked, BatchWritten, Retried, Organised DEF Next
-----------------------------------------------------------------------------
(***************************************************************************)
(* The theorems.                                                           *)
(***************************************************************************)
\* Only the request itself hands its batch over.
LEMMA CommitIsWrite ==
  ASSUME IInv, Next, NEW r \in Request, Commits(r)
  PROVE  WriteBatch(r)
<1>1. pc[r] = "appending" /\ pc'[r] # pc[r]
  BY DEF Commits
<1>2. pc \in [Request -> {"idle", "loaded", "deciding", "checking", "appending",
                          "stale", "answered"}]
  BY DEF IInv, TypeOK
<1>3. ~Organise
  BY <1>1 DEF Organise, requestVars
<1>4. ASSUME NEW q \in Request,
             Load(q) \/ Receive(q) \/ Decide(q) \/ CheckHead(q) \/ WriteBatch(q) \/ Retry(q)
      PROVE  q = r /\ WriteBatch(q)
  <2>1. \A p \in Request : p # q => pc'[p] = pc[p]
    BY <1>2, <1>4 DEF Load, Receive, Decide, CheckHead, WriteBatch, Retry, Goto, Answer
  <2>2. q = r
    BY <1>1, <2>1
  <2>. QED
    BY <1>1, <1>4, <2>2 DEF Load, Receive, Decide, CheckHead, Retry
<1>. QED
  BY <1>3, <1>4 DEF Next

\* What comes of a batch: nothing, or what it says, and with success only if it was
\* granted on the world it is written to.
LEMMA Committed ==
  ASSUME IInv, Next, NEW r \in Request, Commits(r)
  PROVE  /\ UNCHANGED world \/ OfOnePerson(world, world', ask[r])
         /\ ~UNCHANGED world => RowsLate(r) < Events(seen[r].world, ask[r])
         /\ answer'[r] = "ok" => RowsLate(r) = 0
         /\ RowsLate(r) = 0 => Granted(world, family[r], ask[r], match[r])
<1>1. WriteBatch(r) /\ pc[r] = "appending"
  BY CommitIsWrite DEF Commits
<1>2. /\ ask[r] \in Ask /\ family[r] \in Family /\ answer[r] = "none"
      /\ Granted(seen[r].world, family[r], ask[r], match[r])
      /\ RowsLate(r) \in Nat
      /\ ask[r].kind = "ranking" => Len(ask[r].list) <= MaxRank
      /\ RowsLate(r) = 0 => seen[r].world = world
  BY <1>1, Writing
<1>3. world \in World /\ Consistent(world)
  BY DEF IInv, TypeOK
<1>4. OfOnePerson(world, Written(world, r, RowsLate(r)), ask[r])
  BY <1>2, <1>3, WrittenWorld
<1>5. /\ IF RowsLate(r) < Events(seen[r].world, ask[r])
         THEN world' = Written(world, r, RowsLate(r)) ELSE world' = world
      /\ RowsLate(r) # 0 => answer' = answer
  BY <1>1 DEF WriteBatch
<1>. QED
  BY <1>2, <1>4, <1>5

\* Types, and consistency, of what is written however late.
THEOREM TypeCorrect == Spec => []TypeOK
<1>1. IInv => TypeOK
  BY DEF IInv
<1>. QED
  BY <1>1, Initially, Inductive, PTL DEF Spec

\* No sign-up of a family's goes beyond the capacity of its workshop, whoever signs up
\* between the count and the append.
THEOREM SeatsAreKept == Spec => SeatsKept
<1>1. ASSUME IInv, Next, NEW r \in Request, NEW k \in Workshop, Commits(r),
             ~(SignedUp(world', k) \subseteq SignedUp(world, k))
      PROVE  Cardinality(SignedUp(world', k)) <= world'.workshop[k].capacity
  <2>. DEFINE a == ask[r]
              p == a.person
  <2>1. /\ OfOnePerson(world, world', a)
        /\ RowsLate(r) < Events(seen[r].world, a)
        /\ RowsLate(r) = 0 => Granted(world, family[r], a, match[r])
    <3>1. world' # world
      BY <1>1 DEF SignedUp
    <3>. QED
      BY <1>1, <3>1, Committed
  <2>2. /\ a \in Ask /\ RowsLate(r) \in Nat
        /\ world \in World
    BY <1>1, Writing DEF Commits, IInv, TypeOK
  <2>3. world'.joined["sign-up"] \subseteq world.joined["sign-up"] \cup
          (IF a.kind = "sign-up" /\ a.on THEN {<<p, a.workshop>>} ELSE {})
    BY <2>1 DEF OfOnePerson
  <2>4. PICK q \in People : <<q, k>> \in world'.joined["sign-up"]
                            /\ <<q, k>> \notin world.joined["sign-up"]
    BY <1>1 DEF SignedUp
  <2>5. a.kind = "sign-up" /\ a.on /\ a.workshop = k /\ p = q
    BY <2>3, <2>4
  <2>6. RowsLate(r) = 0
    BY <2>1, <2>2, <2>5, EventCount
  <2>7. /\ Shown(world, k) /\ p \notin SignedUp(world, k)
        /\ HasSeat(world, k)
    <3>1. Joinable(world, a)
      BY <2>1, <2>5, <2>6 DEF Granted, Allowed
    <3>2. p \notin SignedUp(world, k)
      BY <2>4, <2>5 DEF SignedUp
    <3>. QED
      BY <3>1, <3>2, <2>5 DEF Joinable
  <2>8. SignedUp(world', k) \in SUBSET (SignedUp(world, k) \cup {p})
    BY <2>3, <2>5 DEF SignedUp
  <2>9. IsFiniteSet(SignedUp(world, k))
    <3>1. IsFiniteSet(People)
      BY NamesAssumption, FS_Union DEF People
    <3>2. SignedUp(world, k) \in SUBSET People
      BY DEF SignedUp
    <3>. QED
      BY <3>1, <3>2, FS_Subset
  <2>10. /\ IsFiniteSet(SignedUp(world, k) \cup {p})
         /\ Cardinality(SignedUp(world, k) \cup {p}) = Cardinality(SignedUp(world, k)) + 1
         /\ Cardinality(SignedUp(world, k)) \in Nat
    BY <2>7, <2>9, FS_AddElement, FS_CardinalityType
  <2>11. /\ Cardinality(SignedUp(world', k)) <= Cardinality(SignedUp(world, k) \cup {p})
         /\ Cardinality(SignedUp(world', k)) \in Nat
    BY <2>8, <2>10, FS_Subset, FS_CardinalityType
  <2>12. world.workshop[k].capacity \in Nat
    <3>1. world.workshop[k] \in Offer
      BY <2>2, <2>7 DEF Shown, World
    <3>. QED
      BY <3>1, OfferAssumption
  <2>13. Cardinality(SignedUp(world, k)) < world.workshop[k].capacity
    BY <2>7 DEF HasSeat
  <2>14. world'.workshop = world.workshop
    BY <2>1 DEF OfOnePerson, Kept
  <2>15. Cardinality(SignedUp(world', k)) <= world.workshop[k].capacity
    BY <2>10, <2>11, <2>12, <2>13
  <2>. QED
    BY <2>14, <2>15
<1>2. IInv /\ [Next]_vars =>
        [\A r \in Request, k \in Workshop :
           Commits(r) /\ ~(SignedUp(world', k) \subseteq SignedUp(world, k))
             => Cardinality(SignedUp(world', k)) <= world'.workshop[k].capacity]_vars
  BY <1>1
<1>. QED
  BY <1>2, Initially, Inductive, PTL DEF Spec, SeatsKept

\* A success was granted on the world it was written to.
THEOREM Granting == Spec => GrantedWhenWritten
<1>1. ASSUME IInv, Next, NEW r \in Request, Commits(r), answer'[r] = "ok"
      PROVE  /\ world.email[family[r]] = ask[r].email
             /\ ask[r].kind # "create" => /\ world.member[ask[r].person] = family[r]
                                          /\ ETag(world, ask[r]) = match[r]
             /\ ask[r].kind \in {"sign-up", "interest", "ranking"} =>
                  world.section["workshops"] = "open"
             /\ ask[r].kind = "answer" => world.section["wishes"] = "open"
  <2>1. Granted(world, family[r], ask[r], match[r])
    BY <1>1, Committed
  <2>. QED
    BY <2>1 DEF Granted, Owns, Found, OwnPerson, AsDisplayed, Allowed, Joinable, Rankable
<1>2. IInv /\ [Next]_vars =>
        [\A r \in Request : Commits(r) /\ answer'[r] = "ok" =>
           /\ world.email[family[r]] = ask[r].email
           /\ ask[r].kind # "create" => /\ world.member[ask[r].person] = family[r]
                                        /\ ETag(world, ask[r]) = match[r]
           /\ ask[r].kind \in {"sign-up", "interest", "ranking"} =>
                world.section["workshops"] = "open"
           /\ ask[r].kind = "answer" => world.section["wishes"] = "open"]_vars
  BY <1>1
<1>. QED
  BY <1>2, Initially, Inductive, PTL DEF Spec, GrantedWhenWritten

\* No batch, however late or cut short, touches a person of another family.
THEOREM OwnPeople == Spec => OwnPeopleOnly
<1>1. ASSUME IInv, Next, NEW r \in Request, NEW p \in Person, Commits(r),
             world.member[p] # family[r]
      PROVE  Inputs(world', p) = Inputs(world, p)
  <2>. DEFINE a == ask[r]
  <2>1. CASE UNCHANGED world
    BY <2>1
  <2>2. CASE OfOnePerson(world, world', a) /\ (a.kind = "create" \/ a.person # p)
    BY <2>2 DEF OfOnePerson
  <2>3. CASE OfOnePerson(world, world', a) /\ a.kind # "create" /\ a.person = p
    <3>1. seen[r] # None /\ Granted(seen[r].world, family[r], a, match[r])
      BY <1>1, Writing DEF Commits
    <3>2. seen[r].world.member[p] = family[r]
      BY <3>1, <2>3 DEF Granted, Found, OwnPerson
    <3>3. world.member[p] \in {family[r], None}
      BY <1>1, <3>1, <3>2 DEF IInv, MembersLeave
    <3>. QED
      BY <1>1, <2>3, <3>3 DEF OfOnePerson
  <2>. QED
    BY <1>1, <2>1, <2>2, <2>3, Committed
<1>2. IInv /\ [Next]_vars =>
        [\A r \in Request, p \in Person :
           Commits(r) /\ world.member[p] # family[r] => Inputs(world', p) = Inputs(world, p)]_vars
  BY <1>1
<1>. QED
  BY <1>2, Initially, Inductive, PTL DEF Spec, OwnPeopleOnly

\* A ranking is shown as it was written: each workshop on the place it has in the list.
LEMMA RankedAsListed ==
  ASSUME NEW v, NEW p, NEW s \in Seq(Workshop), Len(s) <= MaxRank,
         \A i \in 1..Len(s) : Shown(v, s[i]) /\ <<p, s[i], i>> \in v.wishes,
         \A k, n : <<p, k, n>> \in v.wishes => \E i \in 1..Len(s) : k = s[i] /\ n = i
  PROVE  Ranked(v, p) = {<<s[i], i>> : i \in 1..Len(s)}
<1>. DEFINE listed == {c \in Workshop \X Rank : Shown(v, c[1]) /\ <<p, c[1], c[2]>> \in v.wishes}
            upto(i) == {c \in listed : c[2] <= i}
<1>1. Len(s) \in Nat /\ \A i \in 1..Len(s) : s[i] \in Workshop /\ i \in Rank
  BY BoundAssumption DEF Rank
<1>2. \A c : c \in listed <=> \E i \in 1..Len(s) : c = <<s[i], i>>
  <2>1. ASSUME NEW c \in listed PROVE \E i \in 1..Len(s) : c = <<s[i], i>>
    <3>1. PICK i \in 1..Len(s) : c[1] = s[i] /\ c[2] = i
      OBVIOUS
    <3>2. c = <<c[1], c[2]>>
      OBVIOUS
    <3>. QED
      BY <3>1, <3>2
  <2>2. ASSUME NEW i \in 1..Len(s) PROVE <<s[i], i>> \in listed
    BY <1>1
  <2>. QED
    BY <2>1, <2>2
<1>3. ASSUME NEW i \in 1..Len(s) PROVE Cardinality(upto(i)) = i
  <2>. DEFINE at == [j \in 1..i |-> <<s[j], j>>]
  <2>1. \A c : c \in upto(i) <=> \E j \in 1..i : c = <<s[j], j>>
    <3>1. \A j \in 1..Len(s) : j <= i <=> j \in 1..i
      BY <1>1
    <3>2. \A j \in 1..i : j \in 1..Len(s)
      BY <1>1
    <3>. HIDE DEF listed
    <3>. QED
      BY <1>2, <3>1, <3>2
  <2>. HIDE DEF upto
  <2>2. at \in Bijection(1..i, upto(i))
    <3>1. at \in [1..i -> upto(i)]
      BY <2>1
    <3>2. \A j, k \in 1..i : at[j] = at[k] => j = k
      OBVIOUS
    <3>3. \A c \in upto(i) : \E j \in 1..i : at[j] = c
      BY <2>1
    <3>. HIDE DEF at
    <3>. QED
      BY <3>1, <3>2, <3>3, Fun_IsBij
  <2>3. ExistsBijection(1..i, upto(i))
    BY <2>2, Fun_ExistsBij
  <2>4. IsFiniteSet(1..i) /\ Cardinality(1..i) = i
    BY FS_Interval
  <2>. QED
    BY <2>3, <2>4, FS_Bijection
<1>4. Ranked(v, p) = {<<c[1], Cardinality(upto(c[2]))>> : c \in listed}
  BY DEF Ranked
<1>. HIDE DEF listed, upto
<1>5. \A i \in 1..Len(s) : <<s[i], Cardinality(upto(i))>> = <<s[i], i>>
  BY <1>3
<1>. QED
  BY <1>2, <1>4, <1>5

\* A batch that is written whole, on the world it was granted on.
LEMMA WholeBatch ==
  ASSUME IInv, Next, NEW r \in Request, Commits(r), answer'[r] = "ok"
  PROVE  /\ world' = Written(world, r, 0) /\ world \in World
         /\ ask[r] \in Ask /\ family[r] \in Family
         /\ Granted(world, family[r], ask[r], match[r])
         /\ ask[r].kind # "create" => world.member[ask[r].person] # None
<1>1. WriteBatch(r) /\ pc[r] = "appending"
  BY CommitIsWrite DEF Commits
<1>2. RowsLate(r) = 0 /\ Granted(world, family[r], ask[r], match[r])
  BY Committed
<1>3. /\ ask[r] \in Ask /\ family[r] \in Family
      /\ Events(seen[r].world, ask[r]) \in Nat \ {0}
  BY <1>1, Writing
<1>4. world' = Written(world, r, 0)
  <2>1. RowsLate(r) < Events(seen[r].world, ask[r])
    BY <1>2, <1>3
  <2>. QED
    BY <1>1, <1>2, <2>1 DEF WriteBatch
<1>5. ask[r].kind # "create" => world.member[ask[r].person] = family[r]
  BY <1>2 DEF Granted, Found, OwnPerson
<1>. QED
  BY <1>2, <1>3, <1>4, <1>5, NamesAssumption DEF IInv, TypeOK

\* After a success the resource is what was asked, and nothing else.
THEOREM ReplacedByIt == Spec => ReplacedWhole
<1>1. ASSUME IInv, Next, NEW r \in Request, Commits(r), answer'[r] = "ok"
      PROVE  Resource(world', ask[r]) = Wanted(ask[r])
  <2>0. PICK a \in Ask, w \in World, v \in {world'} :
          /\ a = ask[r] /\ w = world
          /\ v = Written(w, r, 0) /\ Granted(w, family[r], a, match[r])
          /\ a.kind # "create" => w.member[a.person] # None
    BY <1>1, WholeBatch
  <2>. SUFFICES Resource(v, a) = Wanted(a)
    BY <2>0
  <2>1. CASE a.kind \in {"sign-up", "interest"}
    <3>1. v = JoinedAs(w, a)
      BY <2>0, <2>1 DEF Written
    <3>2. Joins(w, v, a) /\ a.on \in BOOLEAN
      BY <2>1, <3>1, JoinedWorld, Asks
    <3>3. v.joined[a.kind] = IF a.on THEN w.joined[a.kind] \cup {<<a.person, a.workshop>>}
                             ELSE w.joined[a.kind] \ {<<a.person, a.workshop>>}
      BY <2>1, <3>2 DEF Joins
    <3>4. (<<a.person, a.workshop>> \in v.joined[a.kind]) = a.on
      <4>1. CASE a.on
        BY <3>2, <3>3, <4>1
      <4>2. CASE ~a.on
        BY <3>2, <3>3, <4>2
      <4>. QED
        BY <4>1, <4>2
    <3>. QED
      BY <2>1, <3>4 DEF Resource, Wanted
  <2>2. CASE a.kind = "ranking"
    <3>1. v = RankedAs(w, a, 0)
      BY <2>0, <2>2 DEF Written
    <3>2. a.list \in Seq(Workshop) /\ Rankable(w, a)
      BY <2>0, <2>2, Asks DEF Granted, Allowed
    <3>3. Len(a.list) <= MaxRank /\ \A i \in 1..Len(a.list) : Shown(w, a.list[i])
      BY <3>2 DEF Rankable
    <3>4. /\ Kept(w, v)
          /\ v.wishes = (IF 0 = 0 THEN {c \in w.wishes : c[1] # a.person} ELSE w.wishes)
                          \cup {<<a.person, a.list[i], i>> : i \in {j \in 1..Len(a.list) : j >= 0}}
      BY <2>2, <3>1, <3>3, RankedWorld
    <3>5. {j \in 1..Len(a.list) : j >= 0} = 1..Len(a.list)
      BY <3>2
    <3>6. v.wishes = {c \in w.wishes : c[1] # a.person}
                       \cup {<<a.person, a.list[i], i>> : i \in 1..Len(a.list)}
      BY <3>4, <3>5
    <3>7. \A i \in 1..Len(a.list) : Shown(v, a.list[i]) /\ <<a.person, a.list[i], i>> \in v.wishes
      BY <3>3, <3>4, <3>6 DEF Kept, Shown
    <3>8. \A k, n : <<a.person, k, n>> \in v.wishes =>
            \E i \in 1..Len(a.list) : k = a.list[i] /\ n = i
      BY <3>6
    <3>9. Ranked(v, a.person) = {<<a.list[i], i>> : i \in 1..Len(a.list)}
      BY <3>2, <3>3, <3>7, <3>8, RankedAsListed
    <3>. QED
      BY <2>2, <3>9 DEF Resource, Wanted
  <2>3. CASE a.kind = "answer"
    <3>1. v = AnsweredAs(w, a, 0)
      BY <2>0, <2>3 DEF Written
    <3>2. v.answers = AnswersFrom(w, a, 0)
      BY <2>3, <3>1, AnsweredWorld
    <3>3. a.values \in Seq(Choice)
      BY <2>3, Asks
    <3>4. {j \in 1..Len(a.values) : j >= 0} = 1..Len(a.values)
          /\ \A i \in 1..Len(a.values) : a.values[i] \in Choice
      BY <3>3
    <3>5. \A x : <<a.person, x>> \in v.answers <=> \E i \in 1..Len(a.values) : x = a.values[i]
      BY <3>2, <3>4 DEF AnswersFrom
    <3>6. Answers(v, a.person) = {a.values[i] : i \in 1..Len(a.values)}
      BY <3>4, <3>5 DEF Answers
    <3>. QED
      BY <2>3, <3>6 DEF Resource, Wanted
  <2>4. CASE a.kind = "profile"
    <3>1. v = [w EXCEPT !.profile[a.person] = a.profile] /\ a.person \in People
      BY <2>0, <2>4, Asks DEF Written, People
    <3>2. v.profile[a.person] = a.profile
      BY <3>1 DEF World
    <3>. QED
      BY <2>4, <3>2 DEF Resource, Wanted
  <2>5. CASE a.kind = "create"
    BY <2>5 DEF Resource, Wanted
  <2>. QED
    BY <2>1, <2>2, <2>3, <2>4, <2>5, Asks
<1>2. IInv /\ [Next]_vars =>
        [\A r \in Request : Commits(r) /\ answer'[r] = "ok" =>
           Resource(world', ask[r]) = Wanted(ask[r])]_vars
  BY <1>1
<1>. QED
  BY <1>2, Initially, Inductive, PTL DEF Spec, ReplacedWhole

-----------------------------------------------------------------------------
(***************************************************************************)
(* The login, for any addresses, links, sessions, policies and number of   *)
(* requests: the type invariant, that logout is final, that a session      *)
(* left idle ends, and that a link opens one session at most.              *)
(***************************************************************************)

LEMMA RoleMember == "family" \in Role /\ "organiser" \in Role
BY DEF Role

LEMMA FreeTyped == Free \in RequestType
BY PolicyAssumption DEF Free, RequestType, Role

\* A row a refresh writes is a row, and ends within the longest lifetime.
LEMMA RefreshedTyped ==
  ASSUME NEW q \in RequestType, q.email # None
  PROVE  /\ Refreshed(q) \in SessionRow
         /\ Refreshed(q).expires_at <= Refreshed(q).created_at + Absolute("family")
<1>1. q.policy \in Role /\ q.now \in Nat /\ q.created_at \in 0..MaxTime /\ q.email \in Email
  BY PolicyAssumption DEF RequestType
<1>2. Idle(q.policy) \in Nat /\ Absolute(q.policy) \in Nat
  BY <1>1, PolicyAssumption
<1>3. Absolute(q.policy) <= Absolute("family") /\ Absolute("family") \in Nat
  BY <1>1, PolicyAssumption DEF Role
<1>4. q.created_at \in Nat
  BY <1>1, PolicyAssumption
<1>5. /\ Lesser(q.now + Idle(q.policy), q.created_at + Absolute(q.policy)) \in Nat
      /\ Lesser(q.now + Idle(q.policy), q.created_at + Absolute(q.policy))
           <= q.created_at + Absolute("family")
  BY <1>1, <1>2, <1>3, <1>4 DEF Lesser
<1>. QED
  BY <1>1, <1>5 DEF Refreshed, SessionRow

(***************************************************************************)
(* What a request holds between its statements.                            *)
(***************************************************************************)
Holding ==
  \A r \in Request :
    /\ request[r].pc = "redeem" => request[r].link \in Link
    /\ request[r].pc # "redeem" => request[r].link = None
    /\ request[r].pc # "free" => request[r].email \in Email
    /\ request[r].pc \in {"world", "write"} => request[r].session \in Session

\* Only a session that was opened has a row, or somebody who logged out of it.
Opened ==
  \A s \in Session :
    /\ session[s] # None => opened[s] # None
    /\ s \in revoked => opened[s] # None

\* A link is with the table, with one request, or with one session.
LinkIsOnce ==
  /\ \A k \in Link : magic_link[k] # None =>
       /\ \A s \in Session : opened[s] # k
       /\ \A r \in Request : request[r].link # k
  /\ \A r \in Request, s \in Session :
       request[r].pc = "redeem" => opened[s] # request[r].link
  /\ \A r, q \in Request :
       request[r].pc = "redeem" /\ request[q].pc = "redeem"
         /\ request[r].link = request[q].link => r = q

(***************************************************************************)
(* A row that is there was written by a use of its session, and is good    *)
(* for no longer than that use allows; a request that has read the row     *)
(* follows a use of its session, however many uses came in between.        *)
(***************************************************************************)
Asker == {"world", "write"}

RowFollows(s) ==
  session[s] # None =>
    \E u \in used[s] :
      /\ u[1] <= clock - session[s].created_at
      /\ session[s].expires_at <= session[s].created_at + u[1] + Idle(u[2])

RequestFollows(r) ==
  request[r].pc \in Asker /\ request[r].now > request[r].created_at =>
    UsedShortlyBefore(request[r].session, request[r].now - request[r].created_at)

Follows == (\A s \in Session : RowFollows(s)) /\ (\A r \in Request : RequestFollows(r))

LoginIInv ==
  /\ SessionsTypeOK /\ Holding /\ Opened /\ LinkIsOnce
  /\ LogoutIsFinal /\ Follows /\ IdleEnds /\ LinkRedeemedOnce

LEMMA LoginInit == SessionsInit => LoginIInv
<1>. SUFFICES ASSUME SessionsInit PROVE LoginIInv
  OBVIOUS
<1>1. SessionsTypeOK
  BY FreeTyped, PolicyAssumption DEF SessionsInit, SessionsTypeOK, Free
<1>2. Holding
  BY DEF SessionsInit, Holding, Free
<1>3. Opened /\ LinkIsOnce /\ LogoutIsFinal /\ LinkRedeemedOnce
  BY DEF SessionsInit, Opened, LinkIsOnce, LogoutIsFinal, LinkRedeemedOnce, Free
<1>4. Follows /\ IdleEnds
  BY DEF SessionsInit, Follows, RowFollows, RequestFollows, Asker, IdleEnds, Free
<1>. QED
  BY <1>1, <1>2, <1>3, <1>4 DEF LoginIInv

(***************************************************************************)
(* The type invariant, action by action.  Most steps set one request.      *)
(***************************************************************************)
RequestsTyped ==
  /\ request \in [Request -> RequestType]
  /\ \A r \in Request : request[r].now <= clock /\ request[r].created_at <= request[r].now

RowsTyped ==
  /\ session \in [Session -> SessionRow \cup {None}]
  /\ \A s \in Session : session[s] # None =>
       /\ session[s].created_at <= clock
       /\ session[s].expires_at <= session[s].created_at + Absolute("family")

RestTyped ==
  /\ clock \in 0..MaxTime
  /\ organisers \subseteq Email /\ families \subseteq Email
  /\ magic_link \in [Link -> LinkRow \cup {None}]
  /\ opened \in [Session -> Link \cup {None}]
  /\ revoked \subseteq Session
  /\ used \in [Session -> SUBSET ((0..MaxTime) \X Role)]

LEMMA TypeParts == SessionsTypeOK <=> RequestsTyped /\ RowsTyped /\ RestTyped
BY DEF SessionsTypeOK, RequestsTyped, RowsTyped, RestTyped

LEMMA OneRequest ==
  ASSUME RequestsTyped, NEW r \in Request, NEW q \in RequestType,
         q.now <= clock, q.created_at <= q.now,
         request' = [request EXCEPT ![r] = q], clock' = clock
  PROVE  RequestsTyped'
BY DEF RequestsTyped

LEMMA FreeRequest ==
  ASSUME RequestsTyped, clock \in Nat, NEW r \in Request,
         request' = [request EXCEPT ![r] = Free], clock' = clock
  PROVE  RequestsTyped'
<1>1. Free.now <= clock /\ Free.created_at <= Free.now
  BY DEF Free
<1>. QED
  BY <1>1, FreeTyped, OneRequest

LEMMA TypeStep == LoginIInv /\ [SessionsNext]_sessionsVars => SessionsTypeOK'
<1>. SUFFICES ASSUME RequestsTyped, RowsTyped, RestTyped, Holding, [SessionsNext]_sessionsVars
              PROVE  RequestsTyped' /\ RowsTyped' /\ RestTyped'
  BY TypeParts DEF LoginIInv, SessionsTypeOK, RequestsTyped, RowsTyped, RestTyped
<1>a. MaxTime \in Nat /\ clock \in 0..MaxTime /\ clock \in Nat
  BY PolicyAssumption DEF RestTyped
<1>1. CASE Tick
  <2>1. clock' \in 0..MaxTime /\ clock <= clock'
    BY <1>1, <1>a DEF Tick
  <2>2. \A r \in Request : request[r].now \in Nat
    BY <1>a DEF RequestsTyped, RequestType
  <2>3. RequestsTyped'
    BY <1>1, <1>a, <2>1, <2>2 DEF Tick, RequestsTyped
  <2>4. RowsTyped'
    <3>1. \A s \in Session : session[s] # None => session[s].created_at \in Nat
      BY <1>a DEF RowsTyped, SessionRow
    <3>. QED
      BY <1>1, <1>a, <2>1, <3>1 DEF Tick, rows, RowsTyped
  <2>. QED
    BY <1>1, <2>1, <2>3, <2>4 DEF Tick, rows, history, RestTyped
<1>2. CASE ChangeMembership
  BY <1>2 DEF ChangeMembership, rows, history, RequestsTyped, RowsTyped,
      RestTyped
<1>3. CASE CleanupOperationalRows
  BY <1>3 DEF CleanupOperationalRows, history, RequestsTyped, RowsTyped, RestTyped
<1>4. ASSUME NEW k \in Link, IssueMagicLink(k) PROVE RequestsTyped' /\ RowsTyped' /\ RestTyped'
  <2>1. PICK e \in organisers \cup families :
          magic_link' = [magic_link EXCEPT ![k] = [email |-> e, expires_at |-> clock + LinkLife]]
    BY <1>4 DEF IssueMagicLink
  <2>2. [email |-> e, expires_at |-> clock + LinkLife] \in LinkRow
    BY <1>a, PolicyAssumption DEF LinkRow, RestTyped
  <2>3. magic_link' \in [Link -> LinkRow \cup {None}]
    BY <2>1, <2>2 DEF RestTyped
  <2>. QED
    BY <1>4, <2>3 DEF IssueMagicLink, history, RequestsTyped, RowsTyped, RestTyped
<1>5. ASSUME NEW s \in Session, Logout(s) PROVE RequestsTyped' /\ RowsTyped' /\ RestTyped'
  <2>1. RequestsTyped'
    BY <1>5 DEF Logout, RequestsTyped
  <2>2. RowsTyped'
    BY <1>5 DEF Logout, RowsTyped
  <2>3. RestTyped'
    BY <1>5 DEF Logout, RestTyped
  <2>. QED
    BY <2>1, <2>2, <2>3
<1>6. ASSUME NEW r \in Request, NEW k \in Link, RedeemMagicLink(r, k)
      PROVE  RequestsTyped' /\ RowsTyped' /\ RestTyped'
  <2>1. magic_link[k].email \in Email
    BY <1>6 DEF RedeemMagicLink, RestTyped, LinkRow
  <2>2. PolicyOf(magic_link[k].email) \in Role
    BY RoleMember DEF PolicyOf
  <2>3. Redeeming(k) \in RequestType
    BY <1>a, <2>1, <2>2 DEF Redeeming, RequestType
  <2>4. Redeeming(k).now <= clock /\ Redeeming(k).created_at <= Redeeming(k).now
    BY <1>a DEF Redeeming
  <2>5. request' = [request EXCEPT ![r] = Redeeming(k)] /\ clock' = clock
    BY <1>6 DEF RedeemMagicLink
  <2>6. RequestsTyped'
    BY <2>3, <2>4, <2>5, OneRequest
  <2>7. RowsTyped' /\ RestTyped'
    BY <1>6 DEF RedeemMagicLink, TakeLink, history, RowsTyped, RestTyped
  <2>. QED
    BY <2>6, <2>7
<1>7. ASSUME NEW r \in Request, OpenSession(r) PROVE RequestsTyped' /\ RowsTyped' /\ RestTyped'
  <2>. DEFINE q == request[r]
              row == [email |-> q.email, created_at |-> q.now, expires_at |-> q.now + Idle(q.policy)]
  <2>1. q \in RequestType /\ q.email \in Email
    BY <1>7 DEF OpenSession, RequestsTyped, Holding
  <2>2. q.now \in Nat /\ q.now \in 0..MaxTime /\ q.policy \in Role /\ q.link \in Link \cup {None}
    BY <1>a, <2>1 DEF RequestType
  <2>3. Idle(q.policy) \in Nat /\ Idle(q.policy) <= Absolute("family") /\ Absolute("family") \in Nat
    BY <2>2, PolicyAssumption DEF Role
  <2>4. row \in SessionRow /\ row.expires_at <= row.created_at + Absolute("family")
    BY <2>1, <2>2, <2>3 DEF SessionRow
  <2>5. PICK s \in Session :
          /\ session' = [session EXCEPT ![s] = row]
          /\ opened' = [opened EXCEPT ![s] = q.link]
          /\ used' = [used EXCEPT ![s] = used[s] \cup {<<0, q.policy>>}]
    BY <1>7 DEF OpenSession
  <2>6. RowsTyped'
    <3>1. row.created_at <= clock'
      BY <1>7 DEF OpenSession, RequestsTyped
    <3>2. clock' = clock
      BY <1>7 DEF OpenSession
    <3>. HIDE DEF row
    <3>. QED  BY <2>4, <2>5, <3>1, <3>2 DEF RowsTyped
  <2>7. clock + Idle(q.policy) \in Nat
    BY <1>a, <2>3
  <2>8. opened' \in [Session -> Link \cup {None}]
    BY <2>2, <2>5, <2>7 DEF RestTyped
  <2>11. used' \in [Session -> SUBSET ((0..MaxTime) \X Role)]
    <3>1. <<0, q.policy>> \in (0..MaxTime) \X Role
      BY <1>a, <2>2
    <3>2. used \in [Session -> SUBSET ((0..MaxTime) \X Role)]
      BY DEF RestTyped
    <3>. QED  BY <2>5, <3>1, <3>2
  <2>9. RestTyped'
    BY <1>7, <2>8, <2>11 DEF OpenSession, RestTyped
  <2>10. RequestsTyped'
    BY <1>7, <1>a, FreeRequest DEF OpenSession
  <2>. QED
    BY <2>6, <2>9, <2>10
<1>8. ASSUME NEW r \in Request, NEW s \in Session, NEW audience \in Audience,
             CurrentPrincipal(r, s, audience)
      PROVE  RequestsTyped' /\ RowsTyped' /\ RestTyped'
  <2>1. PICK at \in {"write", "world"} : request' = [request EXCEPT ![r] = Asking(s, at)]
    BY <1>8 DEF CurrentPrincipal
  <2>2. session[s].email \in Email /\ session[s].created_at \in 0..MaxTime
    BY <1>8 DEF CurrentPrincipal, RowsTyped, SessionRow
  <2>3. PolicyOf(session[s].email) \in Role
    BY RoleMember DEF PolicyOf
  <2>4. Asking(s, at) \in RequestType
    BY <1>a, <2>2, <2>3 DEF Asking, RequestType
  <2>5. Asking(s, at).now <= clock /\ Asking(s, at).created_at <= Asking(s, at).now
    BY <1>a, <1>8 DEF Asking, CurrentPrincipal, RowsTyped
  <2>6. RequestsTyped'
    BY <1>8, <2>1, <2>4, <2>5, OneRequest DEF CurrentPrincipal
  <2>7. RowsTyped' /\ RestTyped'
    BY <1>8 DEF CurrentPrincipal, rows, history, RowsTyped, RestTyped
  <2>. QED
    BY <2>6, <2>7
<1>9. ASSUME NEW r \in Request, ReadWorld(r) PROVE RequestsTyped' /\ RowsTyped' /\ RestTyped'
  <2>1. CASE request' = [request EXCEPT ![r] = Free]
    <3>1. RequestsTyped'
      BY <1>9, <1>a, <2>1, FreeRequest DEF ReadWorld
    <3>. QED
      BY <1>9, <3>1 DEF ReadWorld, rows, history, RowsTyped, RestTyped
  <2>2. CASE request' = [request EXCEPT ![r] = [request[r] EXCEPT !.pc = "write"]]
    <3>. DEFINE q == [request[r] EXCEPT !.pc = "write"]
    <3>1. request[r] \in RequestType /\ request[r].now <= clock
          /\ request[r].created_at <= request[r].now
      BY DEF RequestsTyped
    <3>2. q \in RequestType
      BY <3>1, Zenon DEF RequestType
    <3>3. q.now = request[r].now /\ q.created_at = request[r].created_at
      BY <3>1, Zenon DEF RequestType
    <3>4. request' = [request EXCEPT ![r] = q] /\ clock' = clock
      BY <1>9, <2>2, Zenon DEF ReadWorld
    <3>5. RequestsTyped'
      <4>. HIDE DEF q
      <4>. QED  BY <3>1, <3>2, <3>3, <3>4, OneRequest
    <3>. QED
      BY <1>9, <3>5 DEF ReadWorld, rows, history, RowsTyped, RestTyped
  <2>. QED
    BY <1>9, <2>1, <2>2 DEF ReadWorld
<1>10. ASSUME NEW r \in Request, RevokePast(r) PROVE RequestsTyped' /\ RowsTyped' /\ RestTyped'
  <2>1. RequestsTyped'
    BY <1>10, <1>a, FreeRequest DEF RevokePast
  <2>2. RowsTyped'
    BY <1>10 DEF RevokePast, RowsTyped
  <2>3. RestTyped'
    BY <1>10 DEF RevokePast, history, RestTyped
  <2>. QED
    BY <2>1, <2>2, <2>3
<1>11. ASSUME NEW r \in Request, RefreshSession(r)
       PROVE  RequestsTyped' /\ RowsTyped' /\ RestTyped'
  <2>. DEFINE q == request[r]
  <2>1. q \in RequestType /\ q.email \in Email /\ q.created_at <= q.now
    BY <1>11 DEF RefreshSession, RequestsTyped, Holding
  <2>2. q.email # None
    BY <2>1, NoneAssumption
  <2>3. /\ Refreshed(q) \in SessionRow
        /\ Refreshed(q).expires_at <= Refreshed(q).created_at + Absolute("family")
    BY <2>1, <2>2, RefreshedTyped
  <2>4. session' = [session EXCEPT ![q.session] =
                     IF session[q.session] = None THEN None ELSE Refreshed(q)]
    BY <1>11 DEF RefreshSession, Refresh
  <2>5. RowsTyped'
    <3>1. Refreshed(q).created_at <= clock
      BY <1>a, <2>1 DEF Refreshed, RequestsTyped, RequestType
    <3>2. clock' = clock
      BY <1>11 DEF RefreshSession
    <3>. QED  BY <2>3, <2>4, <3>1, <3>2 DEF RowsTyped
  <2>6. q.now - q.created_at \in 0..MaxTime /\ q.policy \in Role
    BY <1>a, <2>1 DEF RequestType
  <2>7. used' \in [Session -> SUBSET ((0..MaxTime) \X Role)]
    <3>1. <<q.now - q.created_at, q.policy>> \in (0..MaxTime) \X Role
      BY <2>6
    <3>2. used' = [used EXCEPT ![q.session] =
                        used[q.session] \cup {<<q.now - q.created_at, q.policy>>}]
      BY <1>11 DEF RefreshSession
    <3>3. q.session \in Session
      BY <1>11 DEF RefreshSession, Holding
    <3>4. used[q.session] \cup {<<q.now - q.created_at, q.policy>>}
            \in SUBSET ((0..MaxTime) \X Role)
      BY <3>1, <3>3 DEF RestTyped
    <3>5. used \in [Session -> SUBSET ((0..MaxTime) \X Role)]
      BY DEF RestTyped
    <3>. QED  BY <3>2, <3>4, <3>5, Zenon
  <2>8. RestTyped'
    BY <1>11, <2>7 DEF RefreshSession, RestTyped
  <2>9. RequestsTyped'
    BY <1>11, <1>a, FreeRequest DEF RefreshSession
  <2>. QED
    BY <2>5, <2>8, <2>9
<1>12. ASSUME NEW r \in Request, RequestFails(r) PROVE RequestsTyped' /\ RowsTyped' /\ RestTyped'
  <2>1. RequestsTyped'
    BY <1>12, <1>a, FreeRequest DEF RequestFails
  <2>. QED
    BY <1>12, <2>1 DEF RequestFails, rows, history, RowsTyped, RestTyped
<1>13. CASE UNCHANGED sessionsVars
  BY <1>13 DEF sessionsVars, rows, history, RequestsTyped, RowsTyped, RestTyped
<1>. QED
  BY <1>1, <1>2, <1>3, <1>4, <1>5, <1>6, <1>7, <1>8, <1>9, <1>10, <1>11, <1>12,
     <1>13 DEF SessionsNext

(***************************************************************************)
(* What a request holds, and that it holds a link only while it redeems it.*)
(***************************************************************************)
HoldsItsOwn(q) ==
  /\ q.pc = "redeem" => q.link \in Link
  /\ q.pc # "redeem" => q.link = None
  /\ q.pc # "free" => q.email \in Email
  /\ q.pc \in {"world", "write"} => q.session \in Session

LEMMA OneHolds ==
  ASSUME SessionsTypeOK, Holding, NEW r \in Request, NEW q, HoldsItsOwn(q),
         request' = [request EXCEPT ![r] = q]
  PROVE  Holding'
<1>1. request \in [Request -> RequestType]
  BY DEF SessionsTypeOK
<1>2. \A t \in Request : HoldsItsOwn(request'[t])
  BY <1>1 DEF Holding, HoldsItsOwn
<1>. QED
  BY <1>2 DEF Holding, HoldsItsOwn

LEMMA FreeHolds ==
  ASSUME SessionsTypeOK, Holding, NEW r \in Request, request' = [request EXCEPT ![r] = Free]
  PROVE  Holding'
<1>1. HoldsItsOwn(Free)
  BY DEF HoldsItsOwn, Free
<1>. QED
  BY <1>1, OneHolds

LEMMA HoldingStep == LoginIInv /\ [SessionsNext]_sessionsVars => Holding'
<1>. SUFFICES ASSUME SessionsTypeOK, Holding, [SessionsNext]_sessionsVars PROVE Holding'
  BY DEF LoginIInv
<1>1. CASE request' = request
  BY <1>1 DEF Holding
<1>2. ASSUME NEW r \in Request, request' = [request EXCEPT ![r] = Free] PROVE Holding'
  BY <1>2, FreeHolds
<1>3. ASSUME NEW r \in Request, NEW k \in Link, RedeemMagicLink(r, k) PROVE Holding'
  <2>1. magic_link[k].email \in Email
    BY <1>3 DEF RedeemMagicLink, SessionsTypeOK, LinkRow
  <2>2. HoldsItsOwn(Redeeming(k))
    BY <2>1 DEF HoldsItsOwn, Redeeming
  <2>. QED
    BY <1>3, <2>2, OneHolds DEF RedeemMagicLink
<1>4. ASSUME NEW r \in Request, NEW s \in Session, NEW audience \in Audience,
             CurrentPrincipal(r, s, audience)
      PROVE  Holding'
  <2>1. PICK at \in {"write", "world"} : request' = [request EXCEPT ![r] = Asking(s, at)]
    BY <1>4 DEF CurrentPrincipal
  <2>2. session[s].email \in Email
    BY <1>4 DEF CurrentPrincipal, SessionsTypeOK, SessionRow
  <2>3. HoldsItsOwn(Asking(s, at))
    BY <2>2 DEF HoldsItsOwn, Asking
  <2>. QED
    BY <2>1, <2>3, OneHolds
<1>5. ASSUME NEW r \in Request, ReadWorld(r),
             request' = [request EXCEPT ![r] = [request[r] EXCEPT !.pc = "write"]]
      PROVE  Holding'
  <2>. DEFINE q == [request[r] EXCEPT !.pc = "write"]
  <2>1. request[r] \in RequestType /\ request[r].pc = "world"
    BY <1>5 DEF SessionsTypeOK, ReadWorld
  <2>2. q.pc = "write" /\ q.link = request[r].link /\ q.email = request[r].email
        /\ q.session = request[r].session
    BY <2>1, Zenon DEF RequestType
  <2>3. request' = [request EXCEPT ![r] = q]
    BY <1>5, Zenon
  <2>. HIDE DEF q
  <2>4. HoldsItsOwn(q)
    BY <2>1, <2>2 DEF HoldsItsOwn, Holding
  <2>. QED
    BY <2>3, <2>4, OneHolds
<1>. QED
  BY <1>1, <1>2, <1>3, <1>4, <1>5
  DEF SessionsNext, sessionsVars, rows, Tick, ChangeMembership,
     CleanupOperationalRows, IssueMagicLink, Logout,
     OpenSession, ReadWorld, RevokePast,
     RefreshSession, RequestFails

(***************************************************************************)
(* Sessions are opened, logged out of, or go and never come back.          *)
(***************************************************************************)
\* No session is opened or logged out of, and no row comes into being.
Unopened ==
  /\ opened' = opened
  /\ revoked' = revoked
  /\ \A s \in Session : session'[s] # None => session[s] # None

LEMMA UnopenedStep ==
  ASSUME SessionsTypeOK, Holding, SessionsNext,
         \A r \in Request : ~OpenSession(r),
         \A s \in Session : ~Logout(s)
  PROVE  Unopened
<1>0. session \in [Session -> SessionRow \cup {None}]
  BY DEF SessionsTypeOK
<1>1. CASE Tick
  BY <1>1 DEF Tick, rows, history, Unopened
<1>2. CASE ChangeMembership
  BY <1>2 DEF ChangeMembership, rows, history, Unopened
<1>3. CASE CleanupOperationalRows
  BY <1>3 DEF CleanupOperationalRows, history, Unopened
<1>4. ASSUME NEW k \in Link, IssueMagicLink(k) PROVE Unopened
  BY <1>4 DEF IssueMagicLink, history, Unopened
<1>5. ASSUME NEW r \in Request, NEW k \in Link, RedeemMagicLink(r, k) PROVE Unopened
  BY <1>5 DEF RedeemMagicLink, history, Unopened
<1>6. ASSUME NEW r \in Request, NEW s \in Session, NEW audience \in Audience,
             CurrentPrincipal(r, s, audience)
      PROVE  Unopened
  BY <1>6 DEF CurrentPrincipal, rows, history, Unopened
<1>7. ASSUME NEW r \in Request, ReadWorld(r) PROVE Unopened
  BY <1>7 DEF ReadWorld, rows, history, Unopened
<1>8. ASSUME NEW r \in Request, RevokePast(r) PROVE Unopened
  BY <1>0, <1>8 DEF RevokePast, history, Unopened
<1>9. ASSUME NEW r \in Request, RefreshSession(r) PROVE Unopened
  BY <1>0, <1>9 DEF RefreshSession, Refresh, Unopened
<1>10. ASSUME NEW r \in Request, RequestFails(r) PROVE Unopened
  BY <1>10 DEF RequestFails, rows, history, Unopened
<1>. QED
  BY <1>1, <1>2, <1>3, <1>4, <1>5, <1>6, <1>7, <1>8, <1>9, <1>10 DEF SessionsNext

\* What the opening of a session does to the sessions.
LEMMA OpeningStep ==
  ASSUME SessionsTypeOK, Holding, NEW r \in Request, OpenSession(r)
  PROVE  \E s \in Session :
           /\ opened[s] = None
           /\ opened' = [opened EXCEPT ![s] = request[r].link]
           /\ request[r].link \in Link
           /\ \A t \in Session : t # s => session'[t] = session[t]
BY DEF OpenSession, Holding, SessionsTypeOK

LEMMA OpenedStep ==
  LoginIInv /\ [SessionsNext]_sessionsVars => Opened' /\ LogoutIsFinal'
<1>. SUFFICES ASSUME SessionsTypeOK, Holding, Opened, LogoutIsFinal, [SessionsNext]_sessionsVars
              PROVE  Opened' /\ LogoutIsFinal'
  BY DEF LoginIInv
<1>1. ASSUME NEW r \in Request, OpenSession(r) PROVE Opened' /\ LogoutIsFinal'
  <2>1. PICK s \in Session :
          /\ opened[s] = None
          /\ opened' = [opened EXCEPT ![s] = request[r].link]
          /\ request[r].link \in Link
          /\ \A t \in Session : t # s => session'[t] = session[t]
    BY <1>1, OpeningStep
  <2>2. revoked' = revoked /\ s \notin revoked
    BY <1>1, <2>1 DEF OpenSession, Opened
  <2>3. opened'[s] # None /\ \A t \in Session : t # s => opened'[t] = opened[t]
    BY <2>1, NoneAssumption DEF SessionsTypeOK
  <2>. QED
    BY <2>1, <2>2, <2>3 DEF Opened, LogoutIsFinal, SessionsTypeOK
<1>2. ASSUME NEW s \in Session, Logout(s) PROVE Opened' /\ LogoutIsFinal'
  BY <1>2 DEF Logout, Opened, LogoutIsFinal, SessionsTypeOK
<1>3. CASE Unopened
  BY <1>3 DEF Unopened, Opened, LogoutIsFinal, SessionsTypeOK
<1>4. CASE UNCHANGED sessionsVars
  BY <1>4 DEF sessionsVars, rows, history, Opened, LogoutIsFinal
<1>. QED
  BY <1>1, <1>2, <1>3, <1>4, UnopenedStep

(***************************************************************************)
(* Where a link is.                                                        *)
(***************************************************************************)
\* No link is issued, taken by a request, or gone into a session.
Linkless ==
  /\ opened' = opened
  /\ \A k \in Link : magic_link'[k] # None => magic_link[k] # None
  /\ \A r \in Request : \/ request'[r] = request[r]
                        \/ request'[r].pc # "redeem" /\ request'[r].link = None

LEMMA LinklessStep ==
  ASSUME SessionsTypeOK, Holding, SessionsNext,
         \A r \in Request : ~OpenSession(r) /\ \A k \in Link : ~RedeemMagicLink(r, k),
         \A k \in Link : ~IssueMagicLink(k)
  PROVE  Linkless
<1>0. request \in [Request -> RequestType] /\ magic_link \in [Link -> LinkRow \cup {None}]
  BY DEF SessionsTypeOK
<1>1. CASE Tick
  BY <1>1 DEF Tick, rows, history, Linkless
<1>2. CASE ChangeMembership
  BY <1>2 DEF ChangeMembership, rows, history, Linkless
<1>3. CASE CleanupOperationalRows
  BY <1>3 DEF CleanupOperationalRows, history, Linkless
<1>4. ASSUME NEW s \in Session, Logout(s) PROVE Linkless
  BY <1>4 DEF Logout, Linkless
<1>5. ASSUME NEW r \in Request, opened' = opened, magic_link' = magic_link,
             request' = [request EXCEPT ![r] = Free]
      PROVE  Linkless
  BY <1>0, <1>5 DEF Linkless, Free
<1>6. ASSUME NEW r \in Request, NEW s \in Session, NEW audience \in Audience,
             CurrentPrincipal(r, s, audience)
      PROVE  Linkless
  <2>1. PICK at \in {"write", "world"} : request' = [request EXCEPT ![r] = Asking(s, at)]
    BY <1>6 DEF CurrentPrincipal
  <2>2. Asking(s, at).pc # "redeem" /\ Asking(s, at).link = None
    BY DEF Asking
  <2>. QED
    BY <1>0, <1>6, <2>1, <2>2 DEF CurrentPrincipal, rows, history, Linkless
<1>7. ASSUME NEW r \in Request, ReadWorld(r),
             request' = [request EXCEPT ![r] = [request[r] EXCEPT !.pc = "write"]]
      PROVE  Linkless
  <2>. DEFINE q == [request[r] EXCEPT !.pc = "write"]
  <2>1. request[r].link = None
    BY <1>7 DEF ReadWorld, Holding
  <2>2. q.pc = "write" /\ q.link = None
    BY <1>0, <2>1, Zenon DEF RequestType
  <2>3. request' = [request EXCEPT ![r] = q]
    BY <1>7, Zenon
  <2>. HIDE DEF q
  <2>. QED
    BY <1>0, <1>7, <2>2, <2>3 DEF ReadWorld, rows, history, Linkless
<1>. QED
  BY <1>1, <1>2, <1>3, <1>4, <1>5, <1>6, <1>7 DEF SessionsNext, ReadWorld, RevokePast,
     RefreshSession, RequestFails, rows, history

LEMMA LinkStep ==
  LoginIInv /\ [SessionsNext]_sessionsVars => LinkIsOnce' /\ LinkRedeemedOnce'
<1>. SUFFICES ASSUME SessionsTypeOK, Holding, LinkIsOnce, LinkRedeemedOnce, [SessionsNext]_sessionsVars
              PROVE  LinkIsOnce' /\ LinkRedeemedOnce'
  BY DEF LoginIInv
<1>0. /\ request \in [Request -> RequestType] /\ magic_link \in [Link -> LinkRow \cup {None}]
      /\ opened \in [Session -> Link \cup {None}]
  BY DEF SessionsTypeOK
<1>1. ASSUME NEW r \in Request, OpenSession(r) PROVE LinkIsOnce' /\ LinkRedeemedOnce'
  <2>1. PICK s \in Session :
          /\ opened[s] = None
          /\ opened' = [opened EXCEPT ![s] = request[r].link]
          /\ request[r].link \in Link
    BY <1>1, OpeningStep
  <2>2. /\ request' = [request EXCEPT ![r] = Free] /\ magic_link' = magic_link
        /\ request[r].pc = "redeem"
    BY <1>1 DEF OpenSession
  <2>3. \A t \in Session : opened'[t] = IF t = s THEN request[r].link ELSE opened[t]
    BY <1>0, <2>1
  <2>4. /\ request'[r].pc = "free" /\ request'[r].link = None
        /\ \A t \in Request : t # r => request'[t] = request[t]
    BY <1>0, <2>2 DEF Free
  <2>5. magic_link[request[r].link] = None
    BY <2>1 DEF LinkIsOnce
  <2>. QED
    BY <2>1, <2>2, <2>3, <2>4, <2>5, NoneAssumption DEF LinkIsOnce, LinkRedeemedOnce
<1>2. ASSUME NEW r \in Request, NEW k \in Link, RedeemMagicLink(r, k)
      PROVE  LinkIsOnce' /\ LinkRedeemedOnce'
  <2>1. /\ request' = [request EXCEPT ![r] = Redeeming(k)] /\ opened' = opened
        /\ magic_link' = [magic_link EXCEPT ![k] = None] /\ magic_link[k] # None
    BY <1>2 DEF RedeemMagicLink, TakeLink, history
  <2>2. /\ request'[r].link = k
        /\ \A t \in Request : t # r => request'[t] = request[t]
    BY <1>0, <2>1 DEF Redeeming
  <2>3. \A l \in Link : magic_link'[l] # None => l # k /\ magic_link[l] # None
    BY <1>0, <2>1
  <2>. QED
    BY <2>1, <2>2, <2>3 DEF LinkIsOnce, LinkRedeemedOnce
<1>3. ASSUME NEW k \in Link, IssueMagicLink(k) PROVE LinkIsOnce' /\ LinkRedeemedOnce'
  <2>1. \A l \in Link : l # k => magic_link'[l] = magic_link[l]
    BY <1>0, <1>3 DEF IssueMagicLink
  <2>. QED
    BY <1>3, <2>1 DEF IssueMagicLink, history, LinkIsOnce, LinkRedeemedOnce
<1>4. CASE Linkless
  <2>1. \A r \in Request : request'[r].pc = "redeem" => request'[r] = request[r]
    BY <1>4 DEF Linkless
  <2>. QED
    BY <1>4, <2>1, NoneAssumption DEF Linkless, LinkIsOnce, LinkRedeemedOnce
<1>5. CASE UNCHANGED sessionsVars
  BY <1>5 DEF sessionsVars, rows, history, LinkIsOnce, LinkRedeemedOnce
<1>. QED
  BY <1>1, <1>2, <1>3, <1>4, <1>5, LinklessStep

(***************************************************************************)
(* What is used, and what follows what.                                    *)
(***************************************************************************)
\* What is known of a use.
LEMMA UseTyped ==
  ASSUME SessionsTypeOK, NEW s \in Session, NEW u \in used[s]
  PROVE  u[1] \in 0..MaxTime /\ u[1] \in Nat /\ u[2] \in Role /\ Idle(u[2]) \in Nat
<1>1. u \in (0..MaxTime) \X Role
  BY DEF SessionsTypeOK
<1>. QED
  BY <1>1, PolicyAssumption

\* Steps that use no session: rows go, requests end, and time passes.
LEMMA NoUse ==
  ASSUME SessionsTypeOK, SessionsTypeOK', Follows, IdleEnds,
         used' = used, clock' >= clock,
         \A s \in Session : session'[s] = None \/ session'[s] = session[s],
         \A r \in Request : request'[r].pc \in Asker =>
           /\ request[r].pc \in Asker
           /\ request'[r].session = request[r].session
           /\ request'[r].now = request[r].now
           /\ request'[r].created_at = request[r].created_at
  PROVE  Follows' /\ IdleEnds'
<1>1. IdleEnds'
  BY DEF IdleEnds, UsedShortlyBefore
<1>2. ASSUME NEW s \in Session PROVE RowFollows(s)'
  <2>1. SUFFICES ASSUME session'[s] # None
                 PROVE  \E u \in used[s] :
                          /\ u[1] <= clock' - session[s].created_at
                          /\ session[s].expires_at <= session[s].created_at + u[1] + Idle(u[2])
    BY DEF RowFollows
  <2>2. PICK u \in used[s] :
          /\ u[1] <= clock - session[s].created_at
          /\ session[s].expires_at <= session[s].created_at + u[1] + Idle(u[2])
    BY <2>1 DEF Follows, RowFollows
  <2>3. session[s].created_at \in Nat /\ clock \in Nat /\ clock' \in Nat
    BY <2>1, PolicyAssumption DEF SessionsTypeOK, SessionRow
  <2>. QED
    BY <2>2, <2>3, UseTyped
<1>3. ASSUME NEW r \in Request PROVE RequestFollows(r)'
  BY DEF Follows, RequestFollows, UsedShortlyBefore
<1>. QED
  BY <1>1, <1>2, <1>3 DEF Follows

\* The row a request reads is that of a session used shortly before.
LEMMA ReadFollows ==
  ASSUME SessionsTypeOK, Follows, IdleEnds, NEW s \in Session,
         session[s] # None, session[s].expires_at > clock, clock > session[s].created_at
  PROVE  UsedShortlyBefore(s, clock - session[s].created_at)
<1>1. PICK u \in used[s] :
        /\ u[1] <= clock - session[s].created_at
        /\ session[s].expires_at <= session[s].created_at + u[1] + Idle(u[2])
  BY DEF Follows, RowFollows
<1>2. /\ clock \in Nat /\ session[s].created_at \in Nat /\ session[s].expires_at \in Nat
      /\ u[1] \in Nat /\ Idle(u[2]) \in Nat
  BY UseTyped, PolicyAssumption DEF SessionsTypeOK, SessionRow
<1>3. clock - session[s].created_at < u[1] + Idle(u[2])
  BY <1>1, <1>2
<1>4. CASE u[1] < clock - session[s].created_at
  BY <1>3, <1>4 DEF UsedShortlyBefore
<1>5. CASE u[1] = clock - session[s].created_at
  BY <1>2, <1>5 DEF IdleEnds
<1>. QED
  BY <1>1, <1>2, <1>4, <1>5

\* One use more, by a request that ends with it and leaves the row it wrote, or none.
LEMMA OneUse ==
  ASSUME SessionsTypeOK, SessionsTypeOK', Follows, IdleEnds,
         NEW r \in Request, NEW s \in Session, NEW age \in Nat, NEW policy \in Role,
         used' = [used EXCEPT ![s] = used[s] \cup {<<age, policy>>}],
         age > 0 => UsedShortlyBefore(s, age),
         clock' = clock, request' = [request EXCEPT ![r] = Free],
         \A t \in Session : t # s => session'[t] = session[t],
         session'[s] # None =>
           /\ age <= clock - session'[s].created_at
           /\ session'[s].expires_at <= session'[s].created_at + age + Idle(policy)
  PROVE  Follows' /\ IdleEnds'
<1>1. /\ used'[s] = used[s] \cup {<<age, policy>>}
      /\ \A t \in Session : t # s => used'[t] = used[t]
      /\ \A t \in Session : used[t] \subseteq used'[t]
  BY DEF SessionsTypeOK
<1>2. \A t \in Session, a \in Nat : UsedShortlyBefore(t, a) => UsedShortlyBefore(t, a)'
  BY <1>1 DEF UsedShortlyBefore
<1>3. IdleEnds'
  <2>1. SUFFICES ASSUME NEW t \in Session, NEW u \in used'[t], u[1] > 0
                 PROVE  UsedShortlyBefore(t, u[1])'
    BY DEF IdleEnds
  <2>2. CASE u \in used[t]
    BY <1>2, <2>1, <2>2, UseTyped DEF IdleEnds
  <2>3. CASE t = s /\ u = <<age, policy>>
    BY <1>2, <2>1, <2>3
  <2>. QED
    BY <1>1, <2>2, <2>3
<1>4. ASSUME NEW t \in Session PROVE RowFollows(t)'
  <2>1. CASE t # s
    BY <1>1, <2>1 DEF Follows, RowFollows
  <2>2. CASE t = s
    <3>. DEFINE u == <<age, policy>>
    <3>1. u \in used'[s] /\ u[1] = age /\ u[2] = policy
      BY <1>1
    <3>. QED  BY <2>2, <3>1 DEF RowFollows
  <2>. QED
    BY <2>1, <2>2
<1>5. ASSUME NEW q \in Request PROVE RequestFollows(q)'
  <2>1. CASE q = r
    <3>1. request'[q].pc = "free"
      BY <2>1 DEF SessionsTypeOK, Free
    <3>. QED  BY <3>1 DEF RequestFollows, Asker
  <2>2. CASE q # r /\ request[q].pc \in Asker /\ request[q].now > request[q].created_at
    <3>1. request'[q] = request[q]
      BY <2>2 DEF SessionsTypeOK
    <3>2. request[q].now \in Nat /\ request[q].created_at \in Nat
      BY PolicyAssumption DEF SessionsTypeOK, RequestType
    <3>3. UsedShortlyBefore(request[q].session, request[q].now - request[q].created_at)
      BY <2>2 DEF Follows, RequestFollows
    <3>4. UsedShortlyBefore(request[q].session, request[q].now - request[q].created_at)'
      BY <3>1, <3>3, <1>1 DEF UsedShortlyBefore, SessionsTypeOK
    <3>. QED  BY <3>4 DEF RequestFollows
  <2>. QED
    BY <2>1, <2>2 DEF RequestFollows, SessionsTypeOK
<1>. QED
  BY <1>3, <1>4, <1>5 DEF Follows

LEMMA IdleStep == LoginIInv /\ [SessionsNext]_sessionsVars => Follows' /\ IdleEnds'
<1>. SUFFICES ASSUME SessionsTypeOK, SessionsTypeOK', Holding, Follows, IdleEnds,
                     [SessionsNext]_sessionsVars
              PROVE  Follows' /\ IdleEnds'
  BY TypeStep DEF LoginIInv
<1>t. /\ clock \in Nat /\ session \in [Session -> SessionRow \cup {None}]
      /\ request \in [Request -> RequestType] /\ used \in [Session -> SUBSET ((0..MaxTime) \X Role)]
  BY PolicyAssumption DEF SessionsTypeOK
<1>f. Free.pc \notin Asker
  BY DEF Free, Asker
<1>1. ASSUME NEW r \in Request, OpenSession(r) PROVE Follows' /\ IdleEnds'
  <2>. DEFINE q == request[r]
              row == [email |-> q.email, created_at |-> q.now, expires_at |-> q.now + Idle(q.policy)]
  <2>1. PICK s \in Session :
          /\ session' = [session EXCEPT ![s] = row]
          /\ used' = [used EXCEPT ![s] = used[s] \cup {<<0, q.policy>>}]
    BY <1>1 DEF OpenSession
  <2>2. q.now \in Nat /\ q.policy \in Role /\ q.now <= clock
    BY PolicyAssumption DEF SessionsTypeOK, RequestType
  <2>3. Idle(q.policy) \in Nat
    BY <2>2, PolicyAssumption
  <2>4. session'[s] = row /\ \A t \in Session : t # s => session'[t] = session[t]
    BY <1>t, <2>1
  <2>5. 0 <= clock - session'[s].created_at
        /\ session'[s].expires_at <= session'[s].created_at + 0 + Idle(q.policy)
    BY <1>t, <2>2, <2>3, <2>4
  <2>6. clock' = clock /\ request' = [request EXCEPT ![r] = Free]
    BY <1>1 DEF OpenSession
  <2>7. 0 \in Nat /\ (0 > 0 => UsedShortlyBefore(s, 0))
    OBVIOUS
  <2>. HIDE DEF q, row
  <2>. QED
    BY <2>1, <2>2, <2>4, <2>5, <2>6, <2>7, OneUse
<1>2. ASSUME NEW r \in Request, RefreshSession(r) PROVE Follows' /\ IdleEnds'
  <2>. DEFINE q == request[r]
              s == q.session
              age == q.now - q.created_at
  <2>1. /\ s \in Session /\ q.now \in Nat /\ q.created_at \in Nat /\ q.policy \in Role
        /\ q.created_at <= q.now /\ q.now <= clock /\ q.pc = "write"
    BY <1>2, PolicyAssumption DEF RefreshSession, Holding, SessionsTypeOK, RequestType
  <2>2. age \in Nat /\ Idle(q.policy) \in Nat /\ Absolute(q.policy) \in Nat
    BY <2>1, PolicyAssumption
  <2>3. age > 0 => UsedShortlyBefore(s, age)
    BY <2>1 DEF Follows, RequestFollows, Asker
  <2>4. /\ used' = [used EXCEPT ![s] = used[s] \cup {<<age, q.policy>>}]
        /\ session' = [session EXCEPT ![s] = IF session[s] = None THEN None ELSE Refreshed(q)]
        /\ clock' = clock /\ request' = [request EXCEPT ![r] = Free]
    BY <1>2 DEF RefreshSession, Refresh
  <2>5. \A t \in Session : t # s => session'[t] = session[t]
    BY <1>t, <2>4
  <2>6. session'[s] # None => session'[s] = Refreshed(q)
    BY <1>t, <2>1, <2>4
  <2>7. session'[s] # None =>
          /\ age <= clock - session'[s].created_at
          /\ session'[s].expires_at <= session'[s].created_at + age + Idle(q.policy)
    <3>1. Refreshed(q).created_at = q.created_at
          /\ Refreshed(q).expires_at <= q.now + Idle(q.policy)
      BY <2>1, <2>2 DEF Refreshed, Lesser
    <3>2. Refreshed(q).expires_at \in Nat
      BY <2>1, <2>2 DEF Refreshed, Lesser
    <3>. QED  BY <1>t, <2>1, <2>2, <2>6, <3>1, <3>2
  <2>. HIDE DEF q, s, age
  <2>8. r \in Request
    OBVIOUS
  <2>. QED
    BY <2>1, <2>2, <2>3, <2>4, <2>5, <2>7, OneUse
<1>3. ASSUME NEW r \in Request, NEW s \in Session, NEW audience \in Audience,
             CurrentPrincipal(r, s, audience)
      PROVE  Follows' /\ IdleEnds'
  <2>1. PICK at \in Asker : request' = [request EXCEPT ![r] = Asking(s, at)]
    BY <1>3 DEF CurrentPrincipal, Asker
  <2>2. /\ request'[r] = Asking(s, at) /\ \A p \in Request : p # r => request'[p] = request[p]
        /\ used' = used /\ session' = session /\ clock' = clock
    BY <1>3, <1>t, <2>1 DEF CurrentPrincipal, rows, history
  <2>3. clock > session[s].created_at => UsedShortlyBefore(s, clock - session[s].created_at)
    BY <1>3, ReadFollows DEF CurrentPrincipal
  <2>4. IdleEnds'
    BY <2>2 DEF IdleEnds, UsedShortlyBefore
  <2>5. \A t \in Session : RowFollows(t)'
    BY <2>2 DEF Follows, RowFollows
  <2>6. ASSUME NEW p \in Request PROVE RequestFollows(p)'
    <3>1. CASE p = r
      BY <2>2, <2>3, <3>1 DEF RequestFollows, Asking, UsedShortlyBefore
    <3>2. CASE p # r
      BY <2>2, <3>2 DEF Follows, RequestFollows, UsedShortlyBefore
    <3>. QED  BY <3>1, <3>2
  <2>. QED
    BY <2>4, <2>5, <2>6 DEF Follows
<1>4. CASE /\ used' = used /\ clock' = clock /\ request' = request
           /\ \A s \in Session : session'[s] = None \/ session'[s] = session[s]
  BY <1>4, <1>t, NoUse
<1>5. ASSUME NEW r \in Request, used' = used, clock' = clock,
             \A s \in Session : session'[s] = None \/ session'[s] = session[s],
             request' = [request EXCEPT ![r] = Free]
      PROVE  Follows' /\ IdleEnds'
  <2>1. \A p \in Request : request'[p] = request[p] \/ request'[p] = Free
    BY <1>5, <1>t
  <2>. QED
    BY <1>5, <1>f, <1>t, <2>1, NoUse
<1>6. CASE Tick
  BY <1>6, <1>t, NoUse DEF Tick, rows, history
<1>7. ASSUME NEW r \in Request, NEW k \in Link, RedeemMagicLink(r, k) PROVE Follows' /\ IdleEnds'
  <2>1. Redeeming(k).pc \notin Asker
    BY DEF Redeeming, Asker
  <2>2. \A p \in Request : request'[p] = request[p] \/ request'[p] = Redeeming(k)
    BY <1>7, <1>t DEF RedeemMagicLink
  <2>. QED
    BY <1>7, <1>t, <2>1, <2>2, NoUse DEF RedeemMagicLink, history
<1>8. ASSUME NEW r \in Request, ReadWorld(r),
             request' = [request EXCEPT ![r] = [request[r] EXCEPT !.pc = "write"]]
      PROVE  Follows' /\ IdleEnds'
  <2>1. request[r] \in RequestType /\ request[r].pc \in Asker
    BY <1>8, <1>t DEF ReadWorld, Asker
  <2>2. LET q == [request[r] EXCEPT !.pc = "write"]
        IN  /\ q.session = request[r].session /\ q.now = request[r].now
            /\ q.created_at = request[r].created_at
    BY <2>1, Zenon DEF RequestType
  <2>3. /\ request'[r] = [request[r] EXCEPT !.pc = "write"]
        /\ \A p \in Request : p # r => request'[p] = request[p]
    BY <1>8, <1>t
  <2>4. /\ request'[r].session = request[r].session /\ request'[r].now = request[r].now
        /\ request'[r].created_at = request[r].created_at
    BY <2>2, <2>3
  <2>. QED
    BY <1>8, <1>t, <2>1, <2>3, <2>4, NoUse DEF ReadWorld, rows, history
<1>9. CASE UNCHANGED sessionsVars
  BY <1>4, <1>9 DEF sessionsVars, rows, history
<1>10. CASE ChangeMembership \/ (\E k \in Link : IssueMagicLink(k))
  BY <1>4, <1>10 DEF ChangeMembership, IssueMagicLink, rows, history
<1>11. ASSUME NEW s \in Session, Logout(s) PROVE Follows' /\ IdleEnds'
  BY <1>4, <1>11, <1>t DEF Logout
<1>12. CASE CleanupOperationalRows
  BY <1>4, <1>12, <1>t DEF CleanupOperationalRows, history
<1>13. ASSUME NEW r \in Request, RevokePast(r) PROVE Follows' /\ IdleEnds'
  <2>1. \A t \in Session : session'[t] = None \/ session'[t] = session[t]
    BY <1>13, <1>t DEF RevokePast
  <2>. QED
    BY <1>5, <1>13, <2>1 DEF RevokePast, history
<1>14. ASSUME NEW r \in Request, RequestFails(r) PROVE Follows' /\ IdleEnds'
  BY <1>5, <1>14 DEF RequestFails, rows, history
<1>15. ASSUME NEW r \in Request, ReadWorld(r) PROVE Follows' /\ IdleEnds'
  BY <1>5, <1>8, <1>15 DEF ReadWorld, rows, history
<1>. QED
  BY <1>1, <1>2, <1>3, <1>6, <1>7, <1>9, <1>10, <1>11, <1>12, <1>13, <1>14, <1>15 DEF SessionsNext

-----------------------------------------------------------------------------
\* The parts together are inductive.
LEMMA Invariance == SessionsSpec => []LoginIInv
<1>1. LoginIInv /\ [SessionsNext]_sessionsVars => LoginIInv'
  BY TypeStep, HoldingStep, OpenedStep, LinkStep, IdleStep DEF LoginIInv
<1>. QED
  BY <1>1, LoginInit, PTL DEF SessionsSpec

\* Rows, requests and grants are what their types say, nothing is from the future, and
\* no row outlives the longest absolute lifetime (principal.ts, refreshSession).
THEOREM LoginTypeCorrect == SessionsSpec => []SessionsTypeOK
BY Invariance, PTL DEF LoginIInv

\* However many requests redeem a link and wherever they stop, one session comes of it
\* (service.ts, redeemMagicLink).
THEOREM LinkOnce == SessionsSpec => []LinkRedeemedOnce
BY Invariance, PTL DEF LoginIInv

\* No request brings back a session that was logged out of (principal.ts,
\* refreshSession; service.ts, revokeSession).
THEOREM LogoutFinal == SessionsSpec => []LogoutIsFinal
BY Invariance, PTL DEF LoginIInv

\* Nobody is served by a session that lay idle for longer than a use before allows
\* (principal.ts, currentPrincipal and refreshSession).
THEOREM IdleSessionsEnd == SessionsSpec => []IdleEnds
BY Invariance, PTL DEF LoginIInv
=============================================================================
