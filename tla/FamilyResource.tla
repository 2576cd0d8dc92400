---------------------------- MODULE FamilyResource ----------------------------
(***************************************************************************)
(* The resources of /api/family: a family's page asks for one change of    *)
(* one resource, with the ETag of what it displays in If-Match.            *)
(*                                                                         *)
(* The Worker derives the world, decides on that snapshot, and appends the *)
(* events of the change at the head it read; if the head has moved it      *)
(* reads again, up to MaxAttempts times, and then answers 409.  Meanwhile  *)
(* other families do the same and organisers change addresses, people,     *)
(* workshops and the areas that are open.                                  *)
(*                                                                         *)
(* world is what derive makes of the log and head its length.  An ETag is  *)
(* the hash of the resource, so it is modelled by its value.  The append   *)
(* is that of EventStore: its rows are guarded one by one, so of a batch   *)
(* that comes d rows too late all but the first d are written.             *)
(***************************************************************************)
EXTENDS Worker, Integers, Sequences, FiniteSets

CONSTANTS Family, Person, Workshop,
          Profile,      \* what eligibility reads of a person: role and age
          Choice,       \* answers a preference control offers
          Ask,          \* the changes the requests may ask for
          Offer,        \* what a workshop can be: mode, capacity, who fits
          MaxRank,      \* max_rank
          MaxAttempts,  \* attempts of a request (3 in the code)
          MaxHead,      \* bound: organisers write up to this head
          Initial       \* the worlds the family's page may meet first

\* A person that a request creates is named after it.
People == Person \cup Request
Mode == {"assigned", "sign-up", "interest"}
Section == {"workshops", "wishes"}
Rank == 1..MaxRank

Membership == [kind : {"sign-up", "interest"}, email : Email, person : Person,
               workshop : Workshop, on : BOOLEAN]
Ranking == [kind : {"ranking"}, email : Email, person : Person, list : Seq(Workshop)]
Answering == [kind : {"answer"}, email : Email, person : Person, values : Seq(Choice)]
Describing == [kind : {"profile"}, email : Email, person : Person, profile : Profile]
Creating == [kind : {"create"}, email : Email, profile : Profile]

ASSUME AskAssumption ==
  Ask \subseteq Membership \cup Ranking \cup Answering \cup Describing \cup Creating
ASSUME OfferAssumption ==
  Offer \subseteq [mode : Mode, capacity : Nat, fits : SUBSET Profile]
ASSUME BoundAssumption == MaxRank \in Nat /\ MaxAttempts \in Nat \ {0} /\ MaxHead \in Nat
ASSUME NamesAssumption ==
  /\ None \notin Family /\ None \notin Email /\ None \notin Offer /\ None \notin Ask
  /\ None \notin Profile /\ Person \cap Request = {}
  /\ IsFiniteSet(Person) /\ IsFiniteSet(Request)

VARIABLES
  world,    \* the derived world
  head,     \* the length of the log
  pc,       \* where each request is between its awaits
  ask,      \* what it asks for
  family,   \* the family of its principal
  match,    \* its If-Match: the resource as the page displays it
  seen,     \* the head and the world it read
  attempt,
  answer

requestVars == <<pc, ask, family, match, seen, attempt, answer>>
vars == <<world, head, requestVars>>

World ==
  [email    : [Family -> Email \cup {None}],
   member   : [People -> Family \cup {None}],
   profile  : [People -> Profile \cup {None}],
   workshop : [Workshop -> Offer \cup {None}],  \* None: cancelled, retired, not yet added
   section  : [Section -> {"hidden", "open", "closed"}],
   joined   : [{"sign-up", "interest"} -> SUBSET (People \X Workshop)],
   wishes   : SUBSET (People \X Workshop \X Rank),
   answers  : SUBSET (People \X Choice),
   folds    : BOOLEAN]                          \* FALSE: derive rejects the log

Labelled(w, p) ==
  \/ \E kind \in DOMAIN w.joined : \E c \in w.joined[kind] : c[1] = p
  \/ \E c \in w.wishes : c[1] = p
  \/ \E c \in w.answers : c[1] = p

\* Addresses are different, people are described, labels are of people.
Consistent(w) ==
  /\ \A f, g \in Family : f # g /\ w.email[f] # None => w.email[f] # w.email[g]
  /\ \A p \in People : /\ (w.member[p] = None) <=> (w.profile[p] = None)
                       /\ Labelled(w, p) => w.member[p] # None

ASSUME ReadAssumption == None \notin [head : Nat, world : World]
ASSUME InitialAssumption ==
  /\ Initial \subseteq World
  /\ \A w \in Initial :
       w.folds /\ Consistent(w) /\ \A r \in Request : w.member[r] = None

-----------------------------------------------------------------------------
(***************************************************************************)
(* What buildFamilyDetailData shows of a world.                            *)
(***************************************************************************)
Owns(w, f, e) == f # None /\ w.email[f] = e

\* The catalogue is shown with its section, without cancelled workshops.
Shown(w, k) == w.section["workshops"] # "hidden" /\ w.workshop[k] # None

SignedUp(w, k) == {p \in People : <<p, k>> \in w.joined["sign-up"]}

Eligible(w, p, k) == w.profile[p] \in w.workshop[k].fits

\* Wishes are shown in the order of their ranks, so the list is each one's place.
Ranked(w, p) ==
  LET listed == {c \in Workshop \X Rank : Shown(w, c[1]) /\ <<p, c[1], c[2]>> \in w.wishes}
  IN  {<<c[1], Cardinality({d \in listed : d[2] <= c[2]})>> : c \in listed}

Answers(w, p) == {v \in Choice : <<p, v>> \in w.answers}

\* resource(data, parts): what the change replaces.
Resource(w, a) ==
  CASE a.kind \in {"sign-up", "interest"} -> <<a.person, a.workshop>> \in w.joined[a.kind]
    [] a.kind = "ranking" -> Ranked(w, a.person)
    [] a.kind = "answer"  -> Answers(w, a.person)
    [] a.kind = "profile" -> w.profile[a.person]
    [] OTHER              -> None

\* The hash of a resource, as good as the resource.
ETag(w, a) == <<a.kind, Resource(w, a)>>

\* Mutant: only that the person is somebody's is looked at.
SomebodysPerson(w, f, p) == w.member[p] # None

\* Asked twice: of the data of the family, and of the world by familyForEntity.
OwnPerson(w, f, p) == w.member[p] = f

\* It is there: the person is of the family, the workshop or the control is shown.
Found(w, f, a) ==
  /\ a.kind # "create" => OwnPerson(w, f, a.person)
  /\ a.kind \in {"sign-up", "interest"} => Shown(w, a.workshop)
  /\ a.kind = "answer" => w.section["wishes"] # "hidden"

-----------------------------------------------------------------------------
(***************************************************************************)
(* changeFor: what is answered 403, 409 or 422.                            *)
(***************************************************************************)
\* Mutant: the count may reach the capacity before, not after, the sign-up.
HasSeatOrOneMore(w, k) == Cardinality(SignedUp(w, k)) <= w.workshop[k].capacity

HasSeat(w, k) == Cardinality(SignedUp(w, k)) < w.workshop[k].capacity

Joinable(w, a) ==
  /\ w.section["workshops"] = "open"
  /\ Shown(w, a.workshop) /\ w.workshop[a.workshop].mode = a.kind
  /\ a.on => /\ Eligible(w, a.person, a.workshop)
             /\ \/ a.kind = "interest" \/ a.person \in SignedUp(w, a.workshop)
                \/ HasSeat(w, a.workshop)

Rankable(w, a) ==
  /\ w.section["workshops"] = "open"
  /\ Len(a.list) <= MaxRank
  /\ \A i, j \in 1..Len(a.list) : i # j => a.list[i] # a.list[j]
  /\ \A i \in 1..Len(a.list) :
       /\ Shown(w, a.list[i]) /\ w.workshop[a.list[i]].mode = "assigned"
       /\ Eligible(w, a.person, a.list[i])

Allowed(w, a) ==
  /\ a.kind \in {"sign-up", "interest"} => Joinable(w, a)
  /\ a.kind = "ranking" => Rankable(w, a)
  /\ a.kind = "answer" => w.section["wishes"] = "open"

\* Mutant: the ETag is not compared.
TakenUnseen(w, a, m) == TRUE

AsDisplayed(w, a, m) == ETag(w, a) = m

\* Every check of one attempt, in whichever order they answer.
Granted(w, f, a, m) ==
  /\ Owns(w, f, a.email)
  /\ Found(w, f, a)
  /\ a.kind # "create" => AsDisplayed(w, a, m)
  /\ Allowed(w, a)

-----------------------------------------------------------------------------
(***************************************************************************)
(* familyChangeEvents: how many events a change is, and what they do.      *)
(***************************************************************************)
Events(w, a) ==
  CASE a.kind \in {"sign-up", "interest"} -> IF Resource(w, a) = a.on THEN 0 ELSE 1
    [] a.kind = "ranking" -> 1 + Len(a.list)
    [] a.kind = "answer"  -> 1 + Len(a.values)
    [] OTHER              -> 1

\* The labels of a key with what a change sets from its event d + 1 on: its
\* first event clears what the person had, event i + 1 sets the i-th label.
Replaced(labels, cleared, set(_), n, d) ==
  (IF d = 0 THEN labels \ cleared ELSE labels) \cup {set(i) : i \in {j \in 1..n : j >= d}}

\* Mutant: forgets to clear the wishes a ranking replaces.
RankedOnTop(w, a, d) ==
  [w EXCEPT !.wishes = @ \cup {<<a.person, a.list[i], i>> : i \in 1..Len(a.list)}]

RankedAs(w, a, d) ==
  [w EXCEPT !.wishes =
     Replaced(@, {c \in @ : c[1] = a.person}, LAMBDA i : <<a.person, a.list[i], i>>,
              Len(a.list), d)]

AnsweredAs(w, a, d) ==
  [w EXCEPT !.answers =
     Replaced(@, {c \in @ : c[1] = a.person}, LAMBDA i : <<a.person, a.values[i]>>,
              Len(a.values), d)]

JoinedAs(w, a) ==
  [w EXCEPT !.joined[a.kind] =
     IF a.on THEN @ \cup {<<a.person, a.workshop>>} ELSE @ \ {<<a.person, a.workshop>>}]

\* The events of r's change from event d + 1 on, folded: one about a person who
\* is not there makes the log underivable.
Written(w, r, d) ==
  LET a == ask[r] IN
  IF a.kind = "create" THEN [w EXCEPT !.member[r] = family[r], !.profile[r] = a.profile]
  ELSE IF w.member[a.person] = None THEN [w EXCEPT !.folds = FALSE]
  ELSE CASE a.kind \in {"sign-up", "interest"} -> JoinedAs(w, a)
         [] a.kind = "ranking" -> RankedAs(w, a, d)
         [] a.kind = "answer"  -> AnsweredAs(w, a, d)
         [] a.kind = "profile" -> [w EXCEPT !.profile[a.person] = a.profile]

-----------------------------------------------------------------------------
Init ==
  /\ world \in Initial
  /\ head = 0
  /\ pc = [r \in Request |-> "idle"]
  /\ ask = [r \in Request |-> None]
  /\ family = [r \in Request |-> None]
  /\ match = [r \in Request |-> None]
  /\ seen = [r \in Request |-> None]
  /\ attempt = [r \in Request |-> 0]
  /\ answer = [r \in Request |-> "none"]

Goto(r, label) == pc' = [pc EXCEPT ![r] = label]

\* The request ends, and what it read is gone.
Answer(r, a) ==
  /\ Goto(r, "answered")
  /\ answer' = [answer EXCEPT ![r] = a]
  /\ seen' = [seen EXCEPT ![r] = None]

\* The page of a family shows a resource, with its ETag.
Load(r) ==
  /\ pc[r] = "idle" /\ world.folds
  /\ \E a \in Ask, f \in Family :
       /\ Owns(world, f, a.email) /\ Found(world, f, a)
       /\ ask' = [ask EXCEPT ![r] = a]
       /\ match' = [match EXCEPT ![r] = ETag(world, a)]
  /\ Goto(r, "loaded")
  /\ UNCHANGED <<world, head, family, seen, attempt, answer>>

\* The change arrives: the principal is resolved in the world of the first attempt.
Receive(r) ==
  /\ pc[r] = "loaded"
  /\ IF \E f \in Family : world.folds /\ Owns(world, f, ask[r].email)
     THEN /\ family' = [family EXCEPT ![r] =
               CHOOSE f \in Family : Owns(world, f, ask[r].email)]
          /\ seen' = [seen EXCEPT ![r] = [head |-> head, world |-> world]]
          /\ attempt' = [attempt EXCEPT ![r] = 1]
          /\ Goto(r, "deciding") /\ UNCHANGED answer
     ELSE Answer(r, "refused") /\ UNCHANGED <<family, attempt>>
  /\ UNCHANGED <<world, head, ask, match>>

Decide(r) ==
  LET w == seen[r].world IN
  /\ pc[r] = "deciding"
  /\ IF ~w.folds \/ ~Granted(w, family[r], ask[r], match[r]) THEN Answer(r, "refused")
     ELSE IF Events(w, ask[r]) = 0 THEN Answer(r, "ok")
     ELSE Goto(r, "checking") /\ UNCHANGED <<seen, answer>>
  /\ UNCHANGED <<world, head, ask, family, match, attempt>>

\* appendCanonicalEvents: the head is read, and the batch handed over, in two awaits.
CheckHead(r) ==
  /\ pc[r] = "checking"
  /\ Goto(r, IF head = seen[r].head THEN "appending" ELSE "stale")
  /\ UNCHANGED <<world, head, ask, family, match, seen, attempt, answer>>

\* Mutant: every batch is written, however late.
LateRows(r) == 0

\* By how many rows the batch comes too late.
RowsLate(r) == head - seen[r].head

WriteBatch(r) ==
  LET n == Events(seen[r].world, ask[r])
      d == RowsLate(r)
  IN
  /\ pc[r] = "appending"
  /\ IF d < n
     THEN world' = Written(world, r, d) /\ head' = head + n - d
     ELSE UNCHANGED <<world, head>>
  /\ IF d = 0 THEN Answer(r, "ok") ELSE Goto(r, "stale") /\ UNCHANGED <<seen, answer>>
  /\ UNCHANGED <<ask, family, match, attempt>>

\* invalidate, and once more around the loop: the domain is read again.
Retry(r) ==
  /\ pc[r] = "stale"
  /\ IF attempt[r] < MaxAttempts
     THEN /\ seen' = [seen EXCEPT ![r] = [head |-> head, world |-> world]]
          /\ attempt' = [attempt EXCEPT ![r] = @ + 1]
          /\ Goto(r, "deciding") /\ UNCHANGED answer
     ELSE Answer(r, "conflict") /\ UNCHANGED attempt
  /\ UNCHANGED <<world, head, ask, family, match>>

-----------------------------------------------------------------------------
(***************************************************************************)
(* One event an organiser appends.                                         *)
(***************************************************************************)
WithoutPerson(pairs, p) == {c \in pairs : c[1] # p}

\* FamilyEmailChanged: the address must not be another family's.
ChangeEmail(f, e) ==
  /\ \A g \in Family : world.email[g] # e
  /\ world' = [world EXCEPT !.email[f] = e]

\* Mutant: the labels of the person stay.
WithdrawOnly(p) ==
  /\ world.member[p] # None
  /\ world' = [world EXCEPT !.member[p] = None, !.profile[p] = None]

\* PersonWithdrawn: the person and all its labels are gone.
Withdraw(p) ==
  /\ world.member[p] # None
  /\ world' = [world EXCEPT !.member[p] = None, !.profile[p] = None,
                 !.joined = [kind \in DOMAIN @ |-> WithoutPerson(@[kind], p)],
                 !.wishes = WithoutPerson(@, p), !.answers = WithoutPerson(@, p)]

\* WorkshopUpdated, WorkshopCancelled, WorkshopRetired: who joined stays.
Reoffer(k, offer) ==
  /\ world.workshop[k] # None /\ offer # world.workshop[k]
  /\ world' = [world EXCEPT !.workshop[k] = offer]

\* An area opens, closes, reopens: its section is hidden, written or only read.
SetSection(s, state) ==
  /\ world.section[s] # state
  /\ world' = [world EXCEPT !.section[s] = state]

\* An organiser enters a sign-up or an interest, on the family's behalf.
EnterJoined(kind, p, k) ==
  /\ world.member[p] # None /\ world.workshop[k] # None
  /\ <<p, k>> \notin world.joined[kind]
  /\ world' = [world EXCEPT !.joined[kind] = @ \cup {<<p, k>>}]

Organise ==
  /\ head < MaxHead /\ world.folds
  /\ \/ \E f \in Family, e \in Email : ChangeEmail(f, e)
     \/ \E p \in People : Withdraw(p)
     \/ \E k \in Workshop, offer \in Offer \cup {None} : Reoffer(k, offer)
     \/ \E s \in Section, state \in {"hidden", "open", "closed"} : SetSection(s, state)
     \/ \E kind \in {"sign-up", "interest"}, p \in People, k \in Workshop :
          EnterJoined(kind, p, k)
  /\ head' = head + 1
  /\ UNCHANGED requestVars

Next ==
  \/ \E r \in Request : \/ Load(r) \/ Receive(r) \/ Decide(r) \/ CheckHead(r)
                        \/ WriteBatch(r) \/ Retry(r)
  \/ Organise

Spec == Init /\ [][Next]_vars

-----------------------------------------------------------------------------
(***************************************************************************)
(* Properties.                                                             *)
(***************************************************************************)
\* Types, and a world that stays consistent whatever is written how late.
TypeOK ==
  /\ world \in World
  /\ Consistent(world)
  /\ head \in Nat
  /\ pc \in [Request -> {"idle", "loaded", "deciding", "checking", "appending",
                        "stale", "answered"}]
  /\ ask \in [Request -> Ask \cup {None}]
  /\ family \in [Request -> Family \cup {None}]
  /\ seen \in [Request -> [head : 0..head, world : World] \cup {None}]
  /\ attempt \in [Request -> 0..MaxAttempts]
  /\ answer \in [Request -> {"none", "ok", "refused", "conflict"}]
  /\ \A r \in Request : pc[r] # "idle" => ask[r] # None
  /\ \A r \in Request : pc[r] \notin {"idle", "loaded", "answered"} =>
                           family[r] # None /\ seen[r] # None

\* The batch of r is handed to D1, and this is what came of it.
Commits(r) == pc[r] = "appending" /\ pc'[r] # "appending"

\* A family's sign-up never takes a workshop beyond its capacity, although the
\* count was read before the append and other families, and organisers who do
\* not look at the capacity, sign people up in between (resources.ts:258, 398).
SeatsKept ==
  [][\A r \in Request, k \in Workshop :
       Commits(r) /\ ~(SignedUp(world', k) \subseteq SignedUp(world, k))
         => Cardinality(SignedUp(world', k)) <= world'.workshop[k].capacity]_vars

\* A change that is answered with success met, when it was written, the resource
\* its page displayed, a person and an address that were still the family's, and
\* an open section: no update is lost, no right outlives its end (resources.ts:355-400).
GrantedWhenWritten ==
  [][\A r \in Request : Commits(r) /\ answer'[r] = "ok" =>
       /\ world.email[family[r]] = ask[r].email
       /\ ask[r].kind # "create" => /\ world.member[ask[r].person] = family[r]
                                    /\ ETag(world, ask[r]) = match[r]
       /\ ask[r].kind \in {"sign-up", "interest", "ranking"} =>
            world.section["workshops"] = "open"
       /\ ask[r].kind = "answer" => world.section["wishes"] = "open"]_vars

\* What a change asks its resource to be.
Wanted(a) ==
  CASE a.kind \in {"sign-up", "interest"} -> a.on
    [] a.kind = "ranking" -> {<<a.list[i], i>> : i \in 1..Len(a.list)}
    [] a.kind = "answer"  -> {a.values[i] : i \in 1..Len(a.values)}
    [] a.kind = "profile" -> a.profile
    [] OTHER              -> None

\* A success says what the next GET will say: the resource is replaced by what
\* was asked, nothing of the old value is left in it (changes.ts:81-117).
ReplacedWhole ==
  [][\A r \in Request : Commits(r) /\ answer'[r] = "ok" =>
       Resource(world', ask[r]) = Wanted(ask[r])]_vars

Inputs(w, p) ==
  <<w.profile[p], {c \in w.joined["sign-up"] : c[1] = p},
    {c \in w.joined["interest"] : c[1] = p}, {c \in w.wishes : c[1] = p}, Answers(w, p)>>

\* No change of a family, however late or cut short its batch is written, touches
\* a person of another family, also when the address has moved
\* (resources.ts:355-360, authorization.ts:82-110).
OwnPeopleOnly ==
  [][\A r \in Request, p \in Person :
       Commits(r) /\ world.member[p] # family[r] => Inputs(world', p) = Inputs(world, p)]_vars
=============================================================================
