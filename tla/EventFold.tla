------------------------------ MODULE EventFold ------------------------------
(***************************************************************************)
(* The fold of the kernel's events: families, persons and labels, with the *)
(* indexes the fold keeps beside them, and the check a batch must pass     *)
(* before it is appended.                                                  *)
(*                                                                         *)
(* A Map of the code iterates in insertion order, and a set under a key it *)
(* has keeps the old place: a Map of labels is a sequence here.  draft is  *)
(* the fold of the log and of the batch that is being prepared, committed  *)
(* the fold of the log.  An event that is refused ends the derivation of   *)
(* its batch, which is Reject.                                             *)
(*                                                                         *)
(* Of the labels the identity events write, display-name and email stand   *)
(* for those of a family, member-of for those of a person.  Of configured  *)
(* ones, "relation" is a fixed resolver key (groups-with: zero-or-more, of *)
(* any entity, naming one) and "trait" one of a schema (zero-or-one, of    *)
(* persons).                                                               *)
(***************************************************************************)
EXTENDS Integers, SequencesExt, FiniteSets

CONSTANTS Family, Person, Email, Name, Trait,
          None,     \* no value
          MaxSeq    \* bound: events of a log

ASSUME BoundAssumption == MaxSeq \in Nat
ASSUME NoneAssumption == None \notin Email /\ None \notin Family /\ None \notin Person
\* An id starts with what it is the id of.
ASSUME IdAssumption == Family \cap Person = {}

VARIABLES committed, draft

vars == <<committed, draft>>

Entity == Family \cup Person
SetupOwned == {"email", "display-name", "member-of"}
Configured == {"relation", "trait"}
Key == SetupOwned \cup Configured

EmptyWorld ==
  [head_seq |-> 0,
   created |-> [e \in Entity |-> 0],       \* entities_by_id: created_seq, 0 if not live
   emails |-> [m \in Email |-> None],
   labels |-> <<>>,
   by_entity |-> [e \in Entity |-> <<>>],  \* labels_by_entity
   by_key |-> [k \in Key |-> <<>>]]        \* labels_by_key

Live(w, e) == w.created[e] # 0

-----------------------------------------------------------------------------
(***************************************************************************)
(* Labels                                                                  *)
(***************************************************************************)
Same(a, b) == a.entity = b.entity /\ a.key = b.key /\ a.value = b.value

\* The labels of a Map that are in a set, in their order.
Only(map, kept) ==
  LET only[n \in 0..Len(map)] ==
        IF n = 0 THEN <<>>
        ELSE IF map[n] \in kept THEN Append(only[n - 1], map[n]) ELSE only[n - 1]
  IN  only[Len(map)]

OfEntity(map, e) == Only(map, {l \in ToSet(map) : l.entity = e})
OfKey(map, k) == Only(map, {l \in ToSet(map) : l.key = k})

\* Map.set, and Map.delete of each label of a set
MapSet(map, label) ==
  IF \E i \in 1..Len(map) : Same(map[i], label)
  THEN [i \in 1..Len(map) |-> IF Same(map[i], label) THEN label ELSE map[i]]
  ELSE Append(map, label)
MapDelete(map, gone) == Only(map, {l \in ToSet(map) : \A g \in gone : ~Same(l, g)})

\* The only write path into labels.
PutLabel(w, label) ==
  [w EXCEPT !.labels = MapSet(@, label),
            !.by_entity[label.entity] = MapSet(@, label),
            !.by_key[label.key] = MapSet(@, label)]

\* Mutant: forgets the index by key.
DropLabelsByEntity(w, gone) ==
  [w EXCEPT !.labels = MapDelete(@, gone),
            !.by_entity = [e \in Entity |-> MapDelete(@[e], {l \in gone : l.entity = e})]]

\* dropLabel of each label of a set: the only delete path out of labels.
DropLabels(w, gone) ==
  [w EXCEPT !.labels = MapDelete(@, gone),
            !.by_entity = [e \in Entity |-> MapDelete(@[e], {l \in gone : l.entity = e})],
            !.by_key = [k \in Key |-> MapDelete(@[k], {l \in gone : l.key = k})]]

LabelsOf(w, e, k) == {l \in ToSet(w.by_entity[e]) : l.key = k}

ReplaceLabels(w, e, k) == DropLabels(w, LabelsOf(w, e, k))

\* Mutant: removes what the identity events wrote and forgets the configured labels.
RemoveOwnedLabels(w, e) == DropLabels(w, {l \in ToSet(w.by_entity[e]) : l.key \in SetupOwned})

RemoveLabelsForEntity(w, e) == DropLabels(w, ToSet(w.by_entity[e]))

SetLabel(w, e, k, v) ==
  PutLabel(w, [entity |-> e, key |-> k, value |-> v, set_seq |-> w.head_seq + 1])

Restate(w, e, k, v) == SetLabel(ReplaceLabels(w, e, k), e, k, v)

ValueOf(w, e, k) == OfKey(w.by_entity[e], k)[1].value

Register(w, e) == [w EXCEPT !.created[e] = w.head_seq + 1]

-----------------------------------------------------------------------------
(***************************************************************************)
(* Events                                                                  *)
(***************************************************************************)
Init == committed = EmptyWorld /\ draft = EmptyWorld

\* applyEvent: the draft's next event folds to the world w.
Folded(w) ==
  /\ draft.head_seq < MaxSeq
  /\ draft' = [w EXCEPT !.head_seq = @ + 1]
  /\ UNCHANGED committed

FamilyInvited(f) ==
  /\ ~Live(draft, f)
  /\ \E m \in Email, n \in Name :
       /\ draft.emails[m] = None
       /\ Folded(SetLabel(
                   SetLabel([Register(draft, f) EXCEPT !.emails[m] = f],
                            f, "display-name", n),
                   f, "email", m))

EmailFree(m) == draft.emails[m] = None

FamilyEmailChanged(f) ==
  /\ Live(draft, f)
  /\ \E old, new \in Email :
       /\ draft.emails[old] = f
       /\ EmailFree(new)
       /\ Folded(Restate([draft EXCEPT !.emails[old] = None, !.emails[new] = f],
                         f, "email", new))

FamilyDisplayNameChanged(f) ==
  /\ Live(draft, f)
  /\ \E n \in Name :
       /\ n # ValueOf(draft, f, "display-name")
       /\ Folded(Restate(draft, f, "display-name", n))

PersonAdded(p) ==
  /\ ~Live(draft, p)
  /\ \E f \in Family : Live(draft, f) /\ Folded(SetLabel(Register(draft, p), p, "member-of", f))

\* Mutant: an update may name another family.
AnyFamily(p, f) == Live(draft, f)

SameFamily(p, f) == Live(draft, f) /\ ValueOf(draft, p, "member-of") = f

PersonUpdated(p) ==
  /\ Live(draft, p)
  /\ \E f \in Family : SameFamily(p, f) /\ Folded(Restate(draft, p, "member-of", f))

PersonWithdrawn(p) ==
  /\ Live(draft, p)
  /\ Folded(RemoveLabelsForEntity([draft EXCEPT !.created[p] = 0], p))

InScope(e, k) == k = "trait" => e \in Person

\* assertConfiguredLabelMutation and configuredLabelKey.
Settable(e, k) == Live(draft, e) /\ k \in Configured /\ InScope(e, k)

Clearable(e, k) == Live(draft, e) /\ k \in Configured /\ InScope(e, k)

Values(k) == IF k = "relation" THEN Entity ELSE Trait

SetConfigured(w, e, k, v) ==
  SetLabel(IF k = "relation" THEN w ELSE ReplaceLabels(w, e, k), e, k, v)

LabelSet(e) ==
  \E k \in Configured : \E v \in Values(k) :
    Settable(e, k) /\ Folded(SetConfigured(draft, e, k, v))

LabelCleared(e) ==
  \E k \in Key :
    /\ Clearable(e, k)
    /\ \/ Folded(ReplaceLabels(draft, e, k))
       \/ \E l \in LabelsOf(draft, e, k) : Folded(DropLabels(draft, {l}))

-----------------------------------------------------------------------------
(***************************************************************************)
(* Batches                                                                 *)
(***************************************************************************)
\* The diagnostics of resolve that assertAppendableWorld does not let pass.
Dangling(w) ==
  {i \in 1..Len(w.labels) : w.labels[i].key = "relation" /\ ~Live(w, w.labels[i].value)}
TooMany(w) ==
  {p \in Person : Cardinality({i \in 1..Len(w.labels) :
                    w.labels[i].entity = p /\ w.labels[i].key = "trait"}) > 1}

\* Mutant: asks for cardinalities only.
AppendableCounts(w) == TooMany(w) = {}

Appendable(w) == Dangling(w) = {} /\ TooMany(w) = {}

Commit ==
  /\ draft # committed
  /\ Appendable(draft)
  /\ committed' = draft
  /\ UNCHANGED draft

Reject ==
  /\ draft # committed
  /\ draft' = committed
  /\ UNCHANGED committed

Next ==
  \/ \E f \in Family : FamilyInvited(f) \/ FamilyEmailChanged(f) \/ FamilyDisplayNameChanged(f)
  \/ \E p \in Person : PersonAdded(p) \/ PersonUpdated(p) \/ PersonWithdrawn(p)
  \/ \E e \in Entity : LabelSet(e) \/ LabelCleared(e)
  \/ Commit \/ Reject

Spec == Init /\ [][Next]_vars

-----------------------------------------------------------------------------
(***************************************************************************)
(* Properties                                                              *)
(***************************************************************************)
\* What one map holds, the others hold, in the same order: an index answers what a
\* scan of all labels would, and the addresses that login looks up are the email
\* labels of the families, one for each, whatever was changed in which order.
MapsAgree ==
  /\ \A e \in Entity : draft.by_entity[e] = OfEntity(draft.labels, e)
  /\ \A k \in Key : draft.by_key[k] = OfKey(draft.labels, k)
  /\ \A f \in Family :
       LET held == {m \in Email : draft.emails[m] = f} IN
       /\ {l.value : l \in LabelsOf(draft, f, "email")} = held
       /\ Cardinality(held) = IF Live(draft, f) THEN 1 ELSE 0

\* A label names only what is there once its batch is committed: its own entity, the
\* family of a person, the person of a relation.  And nothing is said of an entity that was
\* said before it came: what a person had said of it is gone when the id is withdrawn, also
\* when the same batch adds the id again.  (What labels of others say of the id stays.)
NamesLive ==
  \A i \in 1..Len(committed.labels) :
    LET l == committed.labels[i] IN
    /\ Live(committed, l.entity) /\ committed.created[l.entity] <= l.set_seq
    /\ l.key \in {"member-of", "relation"} => Live(committed, l.value)

\* At every event, not only when a batch is checked: a person is of exactly one family
\* and has at most one trait, a family has exactly one name.
Cardinalities ==
  /\ \A p \in Person :
       /\ Cardinality(LabelsOf(draft, p, "member-of")) = IF Live(draft, p) THEN 1 ELSE 0
       /\ Cardinality(LabelsOf(draft, p, "trait")) <= 1
  /\ \A f \in Family :
       Cardinality(LabelsOf(draft, f, "display-name")) = IF Live(draft, f) THEN 1 ELSE 0

\* Both together: what a batch commits is sound, and every validator on the way there
\* has read a world in which each key has the values it may have.
CommittedSound == NamesLive /\ Cardinalities

\* A person that was not withdrawn in between is of the family it was added to, from
\* one batch to the next: nothing in the kernel moves it into another one's reach.
FamilyForLife ==
  [][\A p \in Person :
       Live(committed, p) /\ committed'.created[p] = committed.created[p] =>
         {l.value : l \in LabelsOf(committed', p, "member-of")} =
           {l.value : l \in LabelsOf(committed, p, "member-of")}]_vars
=============================================================================
