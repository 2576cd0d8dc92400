# Familienfreizeit: the verification project

The repository is a web application for a family holiday: families look after
their own data over the network, organisers plan rooms and workshops. All that
is said by anybody is an event in one table (`event`, a D1/SQLite database).
A Cloudflare Worker appends batches of events; the Worker and the organiser's
page both derive the same world from the log by folding it. This directory
holds TLA+ modules of its core, configurations that model-check them with TLC,
and proofs that TLAPS checks.

Paths below are relative to the repository (`src/...` is a directory of its
source); lines are those of the commit this project was written against.
`PROJECT.json` lists for each definition the source lines it models.

## 1. Inventory

| Component | State | Operations | Module | Status |
| --- | --- | --- | --- | --- |
| Event store, append protocol (`src/events/store.ts`, `prepare.ts`, routes of `src/worker/index.ts`, loop of `src/worker/family/resources.ts`) | table `event` | read the log, check the head, D1 batch of guarded INSERTs, answer or retry | `EventStore`, `ReviewedLog` | modelled |
| Organiser page (`src/app/organiser/state.ts`, `organiser-app.tsx`, `save-controls.ts`) | committed rows, head, draft groups, mode, status | load, stage, replace, discard, save by itself or by click, take an answer | `OrganiserClient` | partly |
| Event fold kernel (`src/events/fold.ts`), resolver checks (`resolver.ts`) | the world: entities, labels with three indexes, addresses | fold one event, check a batch | `EventFold` | partly |
| Room inventory (`src/modules/room-inventory`) | labels in the world, tuple indexes | buildings, rooms, beds, places | `RoomInventory` | modelled |
| Login and sessions (`src/auth`) | `magic_link`, `session` | issue, redeem, use, refresh, log out, clean up | `Sessions` | partly |
| Family resource (`src/worker/family/resources.ts`, `src/family-detail`, authorization of batches) | none of its own | load, change with If-Match, three attempts, seats of a signup | `FamilyResource` | partly |
| Family client (`src/app/family`, `src/app/components/family-detail`) | what is held, what is rendered, the open form | load, open, send, take an answer, reload, log in | `FamilyClient` | partly |
| Phases and closing of an area (`src/worker/closing.ts`, `src/derive/phases.ts`, the phase events of the fold) | open areas, closings, the latest fact of an area | open, acknowledge, close, reopen | `AreaClosing` | partly |
| Workshop planning (`src/modules/workshop-scheduling`, `workshop-assignment`, `workshop-rankings`, `src/solver`) | decisions of one run of the solver | place workshops, fix attendances, grant wishes in rounds | `WorkshopPlanner` | partly |
| Room assignment (`src/modules/room-assignment`) | placements and evaluations of one run | preflight, fixed decisions, rounds, places | `RoomAssignment` | partly |
| Official workshops (`src/modules/official-workshops`) | labels in the world | offer, change, cancel, sign up, leaders | in `FamilyResource` and `WorkshopPlanner` | partly |
| Workshop spaces, family preferences | labels in the world | single events | | not modelled |
| Rate limits, feature bindings | table `rate_limit`, configuration | | | not modelled |
| Attention, profiles, telemetry, screens, login page, fixtures, scripts | none that the above depends on | | | not modelled |

**How they interact.** A request reads the whole log, folds the log together
with its batch (`EventFold`, with the validators of `RoomInventory` and the other
modules), and appends the batch if the head is still where it read it
(`EventStore`). The organiser's page (`OrganiserClient`) is a client of that
protocol that keeps its own copy of the log and a buffer of unsaved drafts; its
closing controls (`AreaClosing`) put acknowledgements and closings into that
buffer. The family's page (`FamilyClient`) is a client of the family resource
(`FamilyResource`), which turns one change into a batch and retries it. The
planners (`WorkshopPlanner`, `RoomAssignment`) are pure computations on a world.
`Sessions` says who may ask, from an allowlist and the addresses in the log.

**What is hard here.** There is no lock anywhere: a Worker request awaits D1
between reading the log, checking the head and writing, and D1 makes only the
batch itself a transaction. Each INSERT of a batch is guarded on its own, so a
batch that comes late can lose its first rows and keep the others. Answers get lost
after a commit. The organiser's page stages changes while it awaits an answer
that takes changes out of its buffer. The family's page sends the ETag of what it
holds with a form that was filled from what it had rendered. The fold keeps every
label in three maps and further indexes that are created by a validator's first
question. Sessions are refreshed by requests that read their row earlier. The
planners keep evaluations and counts up to date by hand instead of computing them
again. `hazards` in `PROJECT.json` lists these places with their lines and with
the properties that speak of them.

**What correctness means, component by component.**

* Event store: no gap and no duplicate in the sequence numbers; what is
  acknowledged is in the table, whole, behind exactly the rows it was reviewed
  against; batches of one event are appended atomically or not at all, and once.
* Organiser page: no change is lost, none is saved twice but by an organiser who saves
  it again while the page shows it as committed, the page's rows are a prefix of the table's, an answer takes out of the buffer what was saved and
  nothing else, immediate mode does not leave a change unsaved.
* Fold: the indexes agree, no label dangles in a committed world, a person has
  one family and keeps it, a family has one address.
* Inventory: nothing is left in a building or room that is gone, numbers and
  bed labels are unique, places follow the width of a bed.
* Sessions: a link is redeemed once, a logout is final, a session
  that lies idle ends, no row outlives the longest lifetime.
* Family resource: a signup never takes a workshop beyond its capacity, what is
  granted met its conditions when it was written and not only when it was
  read, a family touches its own people only, a replaced resource is replaced
  whole.
* Family page: what was reported as saved stays on the page, a person is added
  once, and once more at most for each lost answer, a change overwrites only what its author saw, the page recovers.
* Closing: what the page calls closed was reviewed as it now stands in the log, and a
  shown result is that of the closing it belongs to.
* Workshop planner: placements fit, seats and targets are kept, whoever breaks a
  rule is reported, nobody is passed over.
* Room assignment: the evaluations that are kept up to date agree with
  evaluating again, nobody is forgotten, whoever is left out is left out for a
  reason.

## 2. The modules

In all of them one action stands for what the code does between two `await`s
(or one turn of a loop, where the code is a pure computation). Operators marked
"Mutant" stand next to the definition they replace (section 3).

### EventStore, and ReviewedLog above it

State: `log`, the rows in the order of `seq`; for each request its program
counter `pc`, `input` (the head it reviewed against), `drafts`, `existing` (the
rows its `readEvents` returned, from which the batch is prepared), `batch`,
`attempt`, `answer`; and `tx`, `stmt`, `pending` for the one D1 batch that may be
running. Every `await` of the handlers ends an action: `ReceiveOrganiser` or
`ReceiveFamily`, `ReadLog`, `RefuseStaleInput`, `Refuse`, `Prepare`, `CheckHead`
(the `eventHead` query), `BeginBatch`, one `RunStatement` for each INSERT,
`CommitBatch`, then `AnswerStale`, or for a family `RetryStale` up to
`MaxAttempts` (3 in the code) and `GiveUp`. `ReadFails`, `AppendFails` and
`LoseCommit` are the failures: a query throws, a batch is rolled back, a batch
commits and its answer is lost. `AppendError` is what the catch-all of a route then says:
`invalid_event` to an organiser, an error to a family. A batch runs without other batches in between, as
D1 runs it; what runs between `CheckHead` and `BeginBatch` is everybody else.

Each INSERT is guarded by `MAX(seq) = seq - 1` on its own (`store.ts:97-111`), and
`SeqIsNext` is that guard. The fold is a parameter: `Folds(_)` says which
logs derive.

`ReviewedLog` is the promise: the log grows only by whole batches, each checked
against the very log it is appended to. `AppendIsAtomic` is the refinement
(`INSTANCE ReviewedLog`), and it holds for batches of one event only (section 4).

### OrganiserClient

State: what the page's reducer and its refs hold (`committed`, `head_seq`,
`drafts`, `change_mode`, `status`, `next_group_id`, `submitted_groups`), and the
requests on the network, those of a page that was reloaded included. The
Worker is reduced to the answers `EventStore` gives: committed, stale with the
rows since, failed, and the three in-doubt outcomes `LoseAnswer` (committed, but
the page sees a failure), `ConnectionLost` (the page sees a failure while the request is on
its way and may be served later) and `TearBatch` (refused as stale, but partly committed). `Reload` leaves requests that were not answered on their way, and forgets an
answer the page had not taken. An event is a number that no other staging uses, so that saving it
twice shows. The history variables `made`, `gone`, `doubts` and `again` (what was
saved while the page held it as committed) are read by properties and bounds only.

Left out: a second `apply` called from a stale React closure in the same tick.

### EventFold

`draft` is the world of the log and of the batch in preparation, `committed` that of the
log. A `Map` of the code iterates in insertion order and keeps the place of a
key that is set again; here it is a sequence with `MapSet` and `MapDelete`. Labels
that go together (`replaceLabels`, `removeLabelsForEntity`) are one set for
`DropLabels`, which stands for the loop over `dropLabel`. The three
label maps are kept apart, as in the code, so that a path that forgets one
shows. One action for each identity event, plus `LabelSet` and `LabelCleared`
for a relation (zero-or-more, naming an entity) and a trait (zero-or-one, of
persons). `Commit` requires what `assertAppendableWorld` requires; `Reject` is any
refused event or batch.

### RoomInventory

The validators and folds of the inventory events over the kernel's labels. A
tuple index is created by the first question with its signature and kept fresh
by `putLabel` and `unregisterEntity`; so each action says which indexes its
validator's questions create (`FoldEvent(used, ...)`), and its guards answer
from the index and not from the labels.

### Sessions

`Worker` declares what this module and `FamilyResource` have in common: requests,
addresses and the absent value. State: rows of `magic_link` and `session`, the
allowlist, the families' addresses, a clock, and for each request what it holds between its statements. A redemption is
three steps (DELETE ... RETURNING, INSERT, answer), a use is `CurrentPrincipal` (SELECT),
`ReadWorld`, then `RefreshSession` (UPDATE) or `RevokePast` (DELETE). Everything
may run in between: logout, cleanup, the clock, a change of role.

### FamilyResource

`world` is what the folded log says of the families: addresses, people, what
they wish, who is signed up, which sections are open; `head` counts appends. A
request goes through `Load` (the page's ETag), `Receive` (the change arrives with
`If-Match`, the world is read and the family of the address looked up), `Decide`
(`Granted`: the address is still the family's, the resource is there and as displayed,
section, seats and eligibility of `changeFor`; then how many events the change is),
`CheckHead`, `WriteBatch` and `Retry`, as often as `MaxAttempts`. A batch that is written *d*
rows late loses its first *d* rows, which is what `EventStore` shows of D1. An
ETag is modelled by the value it is a digest of. Organisers' events (a new
address, a person retired, a workshop offered with fewer seats or another mode, a
section closed) happen at any time.

### FamilyClient

The page of one family. `held` is what the last load brought and `screen` what
React has rendered of it: they differ between a fetch's answer and the render. A
form is filled from what is shown and keyed by it, so that a new load takes a
form of the old data away; what is sent carries the version *held*. Two changes
can be under way at once, because a dialog is not inside the disabled fieldset; nor is the
navigation between topics, which leaves a form while its change runs (`Cancel`). A
change that succeeds, or is refused as stale, loads again, in a second request;
both requests can fail after they took effect, and `ConnectionLost` tells a change as failed
that is still on its way. `Reload` (a login included),
`LeaveForLogin` (an answer 401) and `WriteElsewhere` (organisers, other families and
other devices) happen at any time.

### AreaClosing

A log of edits, openings, acknowledgements, closings and reopenings of both areas,
and the batches organisers have staged. `Stage` puts a batch into a page's buffer,
fitting acknowledgements and others; `Apply` is the Worker's review
(`closing.ts`: the head the page knew, no blocker, the acknowledgement directly
before, its fingerprint that of the advisories) and fills each closing with its
result; `CheckHead` and `WriteBatch` append, torn as in `EventStore`. `AppendEvent`
is anybody else's event. What a page shows is the fold of its rows and of its staged
drafts (`Projected`). `Domain` is one value for all that the solver and the
attention list read of the world; a fingerprint is the set it is a digest of.

### WorkshopPlanner

One run of the two workshop stages on one world, as a machine with the stages
"fixed placements", "placements", "fixed attendances", "rounds", "done", and one turn for
each iteration of the code's loops, in the order of its sorted lists. The world is
chosen at the start from `Worlds`; it may name retired slots and spaces,
cancelled workshops, fixed placements that collide and fixed attendances that
break every rule, as nothing checks those labels when the world around them
changes. Slots of one world do not overlap: `validateSlot` sees to it. The
comparison run without fixed decisions is the same machine in a world that has
none.

### RoomAssignment

One run of the room stage on one input: `PlaceFixed` puts the families an organiser
fixed where they were fixed, feasible or not; each `PlaceNext` puts the family that
comes first (urgency, fewest candidates, most beds) into its best candidate and
evaluates again only the room placed into (`Refreshed`); `Finish` lists who is left
over and hands out the places, in an order of their own (`PlaceOf`). `Feasible`
counts places and asks what the family requires (a capability, the room for itself, to
be apart from another family); `Score` adds fit, preferences and scarce capabilities.
`Preflight` is the warning computed before anything is placed.

## 3. The runs

| Run | Module, cfg | Distinct states | What it shows |
| --- | --- | --- | --- |
| `store_pairs` | `MCEventStore`, `EventStorePairs.cfg` | 74 614 | With multi-row batches: row order, acknowledged means whole and in place, no batch loses its end, a family is told "conflict" only if others wrote, every request is answered. |
| `store_singles` | `EventStoreSingles.cfg` | 120 870 | With batches of one event: nothing is applied twice, and the protocol refines `ReviewedLog`. |
| `store_torn` | `EventStoreTorn.cfg` | (violation) | A refused batch of two leaves its second event. |
| `organiser_client` | `MCOrganiserClient`, `OrganiserClient.cfg` | 502 391 | Rows are a prefix of the table; each change is in the buffer or in the table exactly once unless an answer was in doubt, and twice in the table only if it was saved again while shown as committed; immediate mode saves. |
| `fold` | `MCEventFold`, `EventFold.cfg` | 92 560 | The maps agree, a committed world is sound, families are for life. |
| `inventory` | `MCRoomInventory`, `RoomInventory.cfg` | 6 805 | Nothing dangles, numbers stay unique, places follow beds, indexes are fresh. |
| `sessions` | `MCSessions`, `Sessions.cfg` | 844 376 | Links, logout, the lifetime of rows, idle expiry. |
| `family` | `MCFamilyResource`, `FamilyResource.cfg` | 2 695 794 | Seats, what is granted, own people, whole replacement, with two families racing and organisers changing the ground under them. |
| `family_client` | `MCFamilyClient`, `FamilyClient.cfg` | 482 644 | What is reported as saved is shown, forms add once and once more at most for each lost answer, overwrite only what they showed, the page comes back. |
| `area` | `MCAreaClosing`, `AreaClosing.cfg` | 330 106 | Facts follow the log, what is shown is recorded, closed means reviewed. |
| `planner` | `MCWorkshopPlanner`, `WorkshopPlanner.cfg` | 4 011 744 | Placements, seats, targets, reported exceptions, order of wishes, in 367 008 worlds. |
| `rooms` | `MCRoomAssignment`, `RoomAssignment.cfg` | 172 852 | Evaluations, everybody accounted for, reasons, in 41 600 inputs. |

Each property of a passing run has a mutant (two of them have two) in `PROJECT.json`: a plausible bug
in one modelled definition that makes TLC find the property violated under
the same configuration.

A type invariant is checked where a theorem states it or where it says more than ranges
(`RoomInventory`, `WorkshopPlanner`, `FamilyResource`, `Sessions`); the other
modules carry their types in the properties or in the invariants of their proofs.

### Bounds, and why they are enough

* `EventStore`: two organisers and a family. A race needs a reader and a
  writer; the third is there so that a retry meets another commit. Two rows are
  what it takes to be torn, so the pairs are a person who is added and
  described at once, beside a single event that folds anywhere; the singles add,
  describe and withdraw that person, or fold anywhere. `MaxAttempts` is 2 in the
  pairs (retry and give up both happen) and the code's 3 in the others. No
  symmetry is used where liveness is checked.
* `OrganiserClient`: three groups per page, three events ever staged, one event from
  elsewhere, two in-doubt answers, two slots of the network (the request of
  the page and one of a page that was reloaded).
* `RoomInventory`: two of each id, two numbers, one bed label and the empty
  one: a duplicate needs two, a move needs two containers.
* `EventFold`: logs of five events, two families, two persons, three addresses (a
  change onto a free one while two are taken). `MaxSeq` is the one bound and
  the reason why deadlock is not checked: a full log accepts nothing more.
* `Sessions`: one link, two session ids (the second is there to be opened by a
  second redemption), two requests, one address, a clock up to 5 with idle 2 and
  absolute 3 for organisers, idle 3 and absolute 5 for families. The order of these
  numbers is that of the code's 7 and 30 days for organisers, 30 and 90 for
  families.
* `FamilyResource`: two families of one person, two requests, three addresses (so
  that an address moves onto a free one and onto one that was given up), one
  workshop with one seat and one that is assigned, `MaxAttempts` 2, organisers who
  write up to head 2 (`MaxHead`): enough for a batch of two events to come one row
  late and for a retry to meet a second change. Requests are symmetric.
* `FamilyClient`: two requests on the network, two texts typed, others that write up
  to version 1, two answers in doubt (one for each of two requests that send the same text).
* `AreaClosing`: two requests; three domains, one without advisories, one with, one
  that blocks; nine batches, among them [Ack, Close] with a fingerprint that fits or
  not; nobody stages or writes at three rows. Requests are symmetric.
* `WorkshopPlanner`: three workshops compete for two slots and two spaces;
  two persons with up to two ranks. The initial worlds are the union of two
  kinds: one varies the programme (fixed placements, blocks, retired and
  cancelled things), the other the attendance (capacities, leaders, wishes, fixed
  attendances). The run of the solver ends, so deadlock is not checked.
* `RoomAssignment`: two rooms of up to three places and a third that is blocked,
  families of two, one and two people, one of them with somebody who needs no
  bed; decisions for two of the families, which may overbook a room or name one that is
  blocked or gone; requirements and preferences of each kind. Choosing needs two
  rooms, and being crowded out after an evaluation a third family.

### Fairness

Three properties are temporal under fairness. `EveryRequestAnswered`
assumes weak fairness of `Work(r)`, each request's own next step: the runtime
runs an accepted request to its answer, and every step after the first is a
statement that D1 answers or fails. Nothing is assumed of failures, nor of other
requests: the property needs that the retry loop is bounded under
contention. `ImmediateIsSaved` assumes weak fairness of `AutoApply` (React runs
its effects after a render that changed their dependencies), of `Answer(q)` (a
fetch settles) and of `Receive(q)` (its promise is taken). The organiser is never
forced to act. `PageComesBack` assumes that a fetch settles, that the code behind
it runs, and that React renders what was set; it says that a page that
waits stops waiting. The family is never forced to act.

## 4. What the runs found in the code

**Torn batches** (`store_torn`, the one run that ends in a violation).
`docs/architecture/data-model.md:33-35` says that a batch which lost the race matches no
row and writes nothing, and `spec/architecture/events.md:135` that the guard makes
check and append atomic. Each INSERT is guarded on its own. If others commit *j*
rows between the head check and the batch, the first *j* statements insert nothing,
and the rest finds `MAX(seq)` exactly where it wants it: a suffix of the batch is
committed and the client is told 409. That suffix was validated behind rows that are
not there, so the log may no longer derive, which `prepare.ts:5-8` rules out.
With batches of one event this cannot happen, which `store_singles` checks and
`EventStoreProofs` proves. For larger batches `NoBatchCutShort` and
`AcknowledgedAsReviewed` say what is left of the contract: a success is always whole,
and a torn batch loses rows at its front only.

Met while modelling, each worth a look by those who know the intent; the properties
are worded so that they say what does hold.

* The cookie's `Max-Age` is set at redemption only (`worker/index.ts:164`), while
  `docs/application/authentication.md:41-43` describes an idle expiry that slides.
* Two changes at once on the family's page (a dialog is outside the disabled fieldset,
  `family-detail.tsx:1011`, `:1030`) start two loads, and the older may be taken last
  (`family-app.tsx:48-50`): the page then holds data older than what it reported
  as saved, until the next load. Hence `SavedUnlessOverlapped`.
* A person is sent without an ETag and without an identity. When the answer is lost the
  form stays open and says that nothing was saved (`family-detail.tsx:986-993`); sending it
  again adds the person twice. Hence the bound of `AddedOnce`: one more for each lost answer.
* The same on the organiser's page: after a lost answer the drafts stay in the buffer. Saving
  is then refused as stale, the page shows what was appended and keeps the drafts beside it
  (`state.ts:157-166`), and saving once more appends them twice. The page never does so by
  itself, as a rebase turns to drafting mode: the last part of `ExactlyOnceUnlessInDoubt`.
* An organiser whose batch was committed, but whose D1 answer was lost, is told
  400 `invalid_event` (`worker/index.ts:412`, `:512`) though the change is in the log.
* A withdrawal takes the labels a person carries, and not those of others that name it
  (`fold.ts:1017`); dangling relations are looked for at the end of a batch. A batch that
  withdraws a person and adds the same id again keeps what others said of the first one.
* Between a load's answer and its render a change carries an ETag of data nobody has seen
  (`docs/application/family-view.md:75-76` says "as displayed"). Hence the
  exception in `ReplacesWhatWasShown`.
* A torn [Ack, Close] may commit the closing without its acknowledgement, and an
  area that is closed may be closed again. `ClosedAsReviewed` says what holds.
* `RoomUpdated` does not look at the beds of an apartment that becomes a
  standard room (`room-inventory/index.ts:529`).
* The comment at `fold.ts:565` takes insertion order for `set_seq` order, which a
  relation that is set twice breaks.
* Sole occupancy and keeping apart are asked on behalf of the family that is placed;
  what those already in the room require is not asked again
  (`config/profiles/luebben-2027/index.ts:208`, against
  `docs/modules/room-assignment.md:16-17` and
  `spec/profiles/familienfreizeit-2027.md:85`). `Feasible` says it as the code does, and
  no property claims the other direction.
* A workshop block cannot be lifted once its slot or space is retired
  (`workshop-scheduling/index.ts:130`); leaders are not checked again when a person is
  retired (`official-workshops/index.ts:114`); a plain `LabelSet` on a slot's instants
  is not validated as a slot (`fold.ts:978`). `WorkshopPlanner` therefore accepts
  worlds with such leftovers, and its properties hold in them.

## 5. Proofs

Eight modules prove something of all ten specifications: `FamilyResourceProofs` is also
about `Sessions`, `EventFoldProofs` about `RoomInventory`, so the names of these
two begin with what they are of (`SessionsSpec`, `RoomsSpec`). They assume what the
named `ASSUME`s of the components say and nothing else: sets of requests, families,
rooms, addresses, worlds, the lengths of batches and what the fold accepts are
arbitrary. TLC evaluates the same assumptions in the runs. Only `Once` and `Atomic`
assume something more, that every batch has one event, as `store_singles` has it.

Every safety property and every action property that a run checks is stated by a
theorem, but for the one that is violated.

**EventStoreProofs.** The inductive invariant is `TypeOK`, `RowsInOrder`,
`Snapshots`, `Numbered`, `Transaction`, `Answers` and `AcknowledgedAsReviewed`.

* `Snapshots`: what a request read is a prefix of the log, as rows are only appended.
* `Numbered`: the rows of a prepared or acknowledged batch continue the
  snapshot's numbers.
* `Transaction`: the rows in `pending` are a stretch of the running batch that
  continues the log and ends with the last statement that ran: once one
  statement has matched, all the following ones do.
* `Answers`: a request has an answer exactly if it is at its end.

`RowsInOrder` alone is not inductive: that `RunStatement` appends `seq = MAX + 1`
needs `Numbered` and `Transaction`. `AcknowledgedAsReviewed` needs that all
statements inserted only if the head was still at the snapshot's length, which
is the case split of `CommitBatch`. Theorems: `TypeCorrect`, `InOrder`,
`Acknowledged`, and with the further invariant `Labelled` (each row of a
prepared batch knows its request and its place in the batch) `NotCutShort`.
`Contention` adds `Contended` (every attempt that is over was lost to a batch of
somebody else) and `EachInserted` (at the head its request read, every statement
that ran has inserted): an attempt that finds the log beyond what it read sees
as its last row the end of a batch, by `NoBatchCutShort`, and the numbers of the rows
(`Numerals`) say that it is not its own.

Its second half assumes that every batch has one event (`Single`). To the invariant above come `Ready` (a prepared batch folds behind the snapshot it
was prepared from), `LogFolds`, and `RowsAnswered` (the rows of a request are there
exactly while its commit is on its way or was answered). `WholeOrNothing` is where
one event matters: a batch inserts all or nothing. `Effects` sorts the steps by what
they do to the log, `RefinesStep` maps them. Theorems: `Once`, and `Atomic`, which is
`Spec => AppendIsAtomic`, the refinement of `ReviewedLog`.

**FamilyResourceProofs, on Sessions.** `LoginIInv` is `SessionsTypeOK`, `Holding` (what a request holds between two
statements is of the kind its next statement needs), `Opened` (only a session that
was opened has a row or was logged out of), `LinkIsOnce` (a link is with its
row, with one request that redeems it, or with the session it opened, and never
with two of them) and the three properties. `LinkRedeemedOnce` is
inductive only together with `LinkIsOnce`; `LogoutIsFinal` needs `Opened`, as a
session that was logged out of must never be opened again; `IdleEnds` needs `Follows`: a
row never ends later than the idle time of a use it follows, and a request was still
within it when it read the row, so that a late refresh of another request changes nothing for
it. Theorems: `LoginTypeCorrect`, `LinkOnce`, `LogoutFinal`,
`IdleSessionsEnd`.

**EventFoldProofs, on EventFold.** A `Map` is a sequence, and the part of it that
belongs to an entity or a key (`Only`) is a recursive function of it. `MapSetOnly` and
`OnlyOnly` say that setting or deleting labels and taking a part commute, so each
index stays the part of all labels it stands for, in their order (`Indexed`).
What remains is said of sets of labels (`Of`). The invariant: both worlds are `Good`
(indexed, every person of one family and with at most one trait, every family
with one name and with the address that login finds it by), no entity is younger
than its world (`Aged`), `committed` has no dangling relation, and the draft goes on from
it (`Continues`), and no label is older than the entity that carries it (`Said`). Each event makes a good world of a good world and leaves who stays in
the family it came to (`Follows`); that an id that was given up and added again
is not the same person shows in its `created_seq`, which is why `Aged` is needed.
Theorems: `Agreement`, `Soundness`, `ForLife`.

**EventFoldProofs, on RoomInventory.** The labels are functions of live entities
(`Maps`, `Labelled`), every index that exists answers as one created now would
(`IndexesFresh`, kept by `IndexesKept`), `NothingDangles`, `Unique`. The
validators answer from indexes, so `Answered` turns an answer into a fact about
the labels and `StaysFresh` carries freshness over `putLabel` and
`unregisterEntity`; each event then has one lemma. Theorems: `RoomsTyped`,
`NeverDangling`, `NumberedOnce`.

**OrganiserClientProofs.** `RemovedIsRest` is the core: taking the first *n* events out
of a buffer of groups leaves the buffer that flattens to the rest, whichever groups
are emptied on the way. The invariant is `Types`, `Known` (events are those
that were staged), `OneApply` (the page applies exactly while it awaits one
request), `Prefix` (what the page holds is a prefix of the table, and stays one
with the news it awaits), `SubmittedFirst` (the request the page awaits carries the first
groups of its buffer, which nobody can edit until its answer is taken),
`NothingLost`, and `OnceEach`: unless a request was left in doubt, an event
is twice at once only in the buffer and the request on its way, or in the buffer
and the table until the acknowledgement is taken. `Edited` sums up what the
organiser does to the buffer and `Grown` what any answer does to the table, so that
each is carried through the invariant once. The theorems are
about `Spec`, which `FairSpec` of the run implies: `PrefixHeld`, `ExactlyOnce`. `ExactlyOnce`
adds the invariant `Told`, which holds whatever was in doubt: the buffer has nothing twice,
what a request carries and its page held as committed was saved again (`SentTold`), so is
what the table has twice (`TwiceTold`), and in immediate mode the buffer has nothing that
the page holds as committed (`ImmediateUnsaved`), so that no effect saves twice.

**AreaClosingProofs.** `FactsOfEveryLog` speaks of logs and not of states: after any
sequence of events the facts of an area are those of its last closing or reopening,
every closing is counted, and what is shown is the last recorded result. `FactsFollow`
and `ShownRecorded` are it at the log and at a page's rows with its drafts. The
invariant is `Types`, `LogIsFilled` (no closing in the log without a result),
`PagesLag`, `Running`, and `FilledFromBase`: what is about to be written was filled
and accepted in the world of the head its page gave, whatever was appended since.
`CheckHead` lets it be written whole only if that head is still the log's,
which is `Reviewed`. Theorems: `FactsFollow`, `ShownRecorded`, `Reviewed`.

**FamilyResourceProofs.** What a request holds is what the world was at its head
(`ReadIsWorld`), as long as nothing was appended; members leave families but never
change them (`MembersLeave`); what `Decide` let pass was grantable in the world
read (`GrantedOnRead`); nobody is answered before the end (`Silent`). `WrittenWorld` says
what any suffix of a batch does: it touches one person and keeps the world consistent.
`SeatsKept` is where they meet: a signup is one event, so it is written only to the
very world its seat was counted in. A success is written whole to the world it was
granted on (`WholeBatch`), and a ranking is then shown on the places it was written
with, as nothing it names is hidden (`RankedAsListed`). Theorems: `TypeCorrect`,
`SeatsAreKept`, `Granting`, `OwnPeople`, `ReplacedByIt`.

**FamilyClientProofs.** `IInv` consists of `Typed`, `Paged`, `Fetched` (a version
names one state of the data, so equal ETags are equal data), `Composed` (the keys tie a
form to what is shown), `Sent` (the ETag ties a change to its basis), `Written` (what a
load after a success brings is as new as the change), and
`Alone`: without overlapping changes there is one load, and it is newer than what is
held. A second invariant, `NotAgain`, follows a text from its form to the list of
people: `Waiting` ties the form to the change that carries its text, and `Counted` bounds how
often a text is in the list or on its way by the answers lost, plus one if no form is ready to
send it. Theorems: `Saved`, `Replacing`, `Added`.

**WorkshopPlannerProofs.** For any world: `Work` (what is still before a loop),
`Turns` (each workshop has one turn), `Unplaceable` (what was
rejected fits nowhere beside what is placed; it stays so, as placements only grow),
`Recorded` (who attends got it by a turn that is over, and the
turns of wishes come in order), and the properties. That a loop has a next
item is the well-foundedness of the naturals (`Least`, cited from the library).
`GrantedBefore` and `StaysExplained` are the core of `NobodyPassedOver`: what kept
somebody from a wish was there before their turn and never goes away. Theorems: `TypeCorrect`, `Sound`, `Rules`, `NobodyForgotten`.

**RoomAssignmentProofs.** For any input: the rooms nobody was just placed into
evaluate as before (`ElsewhereUnchanged`), so refreshing one is enough
(`RefreshIsEnough`); who is placed by a round would also fit into an empty house
(`FitsAlone`, `PlacedFitAlone`), where the preflight looked (`PreflightIsRight`); at
the end nobody who is left over has a candidate (`FinallyNone`). Beds: a set of numbers
has an n-th one (`NthExists`, by counting and the library's facts about injections);
those who share a room have different numbers (`DifferentNumbers`), and in a room a
round placed somebody into there are no more of them than places (`FitTogether`).
Theorems: `Fresh`, `ForAReason`, `Beds`.

**Recursive definitions.** `Derive`, `WorldAfter`, `Flat`, `RemoveDraftEvents` and `Only`
are functions defined by recursion on the length of a sequence. What they yield is
shown without an induction theorem: a set of naturals has a least member (`Least`, from
the library's well-foundedness of `<`), and the least length at which a claim fails is
neither 0 nor the successor of one at which it holds. The same argument first
shows that a function with these equations exists, as nothing is known of a
`CHOOSE` before.

**Only model-checked.** The liveness properties `EveryRequestAnswered`,
`ImmediateIsSaved` and `PageComesBack`: fairness and ENABLED are out of the
prover's reach.

## 6. How it may grow

* The steps that the parts marked "partly" leave out, as listed in `PROJECT.json`:
  a second `apply` from a stale closure of the organiser's page, removal of a person on
  the family's page, two room decisions for one family.
* If the guard of a batch is changed so that a late batch writes nothing,
  `SeqIsNext` changes with it, `store_torn` passes, the theorems `Once` and `Atomic`
  lose their assumption, and the late batches of `FamilyResource` and `AreaClosing` (`WriteBatch`)
  lose their torn disjunct.
* `AreaClosing` and `OrganiserClient` model the same buffer for different
  questions; a composition would say that a staged closing is never kept beyond an edit.

## 7. Not modelled, and why

* **Workshop programme.** Workshops, leaders, external leaders, spaces, slots and
  blocks are created, changed and retired by single events, each validated against the
  world before it. No property of theirs takes more than the fold's own guarantee
  (`EventFold`) and what a leftover does to the planner (`WorkshopPlanner`).
  Family preferences are one label each.
* **Rate limits.** One upsert per bucket and request; the database makes it
  atomic, and the cleanup touches only expired rows.
* **Scores.** How much a preference weighs is a parameter of `RoomAssignment`; whether
  a greedy assignment is a good one is not a yes-or-no question.
* **Attention, wording, traces, explanations**: pure functions to text, without steps.
* **Parsing, body limits, methods and paths, origin check, static pages**: refusals
  before any state is read.
* **Profiles and feature bindings**: configuration, checked at build time or read
  once.
* **Screens, components, stories, design, fixtures, scripts, deployment, telemetry.**
  Most of the repository's lines are these: they render or prepare state and have no
  steps beyond those of the hooks that `OrganiserClient`, `FamilyClient` and `AreaClosing`
  model. The mapped definitions stand for about 4 000 lines, which is nearly all code
  that changes shared state and a small share of all code.
* **D1** is external: a batch is a transaction, statements run one after another and
  batches do not interleave, a call may fail before or after its commit.

## 8. Running

In this directory, `tlc -workers 2 -config EventStorePairs.cfg MCEventStore`
checks a configuration and `tlapm EventStoreProofs.tla` the proofs.
