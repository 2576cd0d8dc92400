----------------------------- MODULE AreaClosing -----------------------------
(***************************************************************************)
(* Opening workshop choice, closing an area, reopening it.                 *)
(*                                                                         *)
(* An organiser reviews on a page what the solver makes of the committed   *)
(* log and the drafts staged before the closing, and sends the batch with  *)
(* the head the page knows.  The Worker refuses another head, fills each   *)
(* staged closing with the result of the world before it, refuses one that *)
(* is blocked or whose advisories the draft before it did not acknowledge, *)
(* and appends.  Rows are guarded one by one, as in EventStore: of a batch *)
(* that comes d rows too late the first d are not written.                 *)
(*                                                                         *)
(* Everything solver and attention read is one value of Domain: the plan   *)
(* of each area, the advisories, the blocked areas, and whether there is   *)
(* an active workshop.  A fingerprint is the set it is the hash of.        *)
(***************************************************************************)
EXTENDS Integers, SequencesExt

CONSTANTS Plan, Advisory,
          Domain,    \* what edits may make of everything but the phase facts
          Initial,   \* the one the log starts with
          Batch,     \* the batches organisers may stage
          Request,   \* requests at /api/organiser/apply
          MaxLog,    \* bound: nobody writes at this length of the log
          Empty      \* the payload {}

Area == {"accommodation", "workshops"}

Edit == [type : {"edit"}, to : Domain]
Open == [type : {"WorkshopChoiceOpened"}]
Acknowledge == [type : {"WorkshopWarningsAcknowledged"}, fingerprint : SUBSET Advisory]
Close == [type : {"close"}, area : Area, payload : Plan \cup {Empty}]
Reopen == [type : {"reopen"}, area : Area]
Event == Edit \cup Open \cup Acknowledge \cup Close \cup Reopen

ASSUME DomainAssumption ==
  /\ Domain \subseteq [plan : [Area -> Plan], advisories : SUBSET Advisory,
                       blocked : SUBSET Area, active : BOOLEAN]
  /\ Initial \in Domain
ASSUME BatchAssumption == Batch \subseteq Seq(Event) \ {<<>>}
ASSUME BoundAssumption == MaxLog \in Nat /\ Empty \notin Plan

VARIABLES
  log,
  pc,       \* where each request is between its awaits
  base,     \* input_seq: the head its page knows
  drafts,   \* the batch staged on the page
  events,   \* the batch filled by the Worker
  answer

vars == <<log, pc, base, drafts, events, answer>>

IsClosing(e) == e.type = "close"

-----------------------------------------------------------------------------
(***************************************************************************)
(* The fold of the phase facts.                                            *)
(***************************************************************************)
NoFacts ==
  [domain |-> Initial, opened |-> FALSE, closings |-> [a \in Area |-> <<>>],
   latest |-> [a \in Area |-> "none"]]

\* Mutant: a reopening does not outlive the closing it follows.
FoldForgetting(w, e) ==
  CASE e.type = "edit"                 -> [w EXCEPT !.domain = e.to]
    [] e.type = "WorkshopChoiceOpened" -> [w EXCEPT !.opened = TRUE]
    [] IsClosing(e) -> [w EXCEPT !.closings[e.area] = Append(@, e.payload),
                                 !.latest[e.area] = IF @ = "none" THEN "closed" ELSE @]
    [] e.type = "reopen" -> [w EXCEPT !.latest[e.area] = "reopened"]
    [] OTHER             -> w

FoldEvent(w, e) ==
  CASE e.type = "edit"                 -> [w EXCEPT !.domain = e.to]
    [] e.type = "WorkshopChoiceOpened" -> [w EXCEPT !.opened = TRUE]
    [] IsClosing(e) -> [w EXCEPT !.closings[e.area] = Append(@, e.payload),
                                 !.latest[e.area] = "closed"]
    [] e.type = "reopen" -> [w EXCEPT !.latest[e.area] = "reopened"]
    [] OTHER             -> w   \* an acknowledgement folds no domain state

Derive(committed) ==
  LET after[n \in 0..Len(committed)] ==
        IF n = 0 THEN NoFacts ELSE FoldEvent(after[n - 1], committed[n])
  IN  after[Len(committed)]

MayOpen(w) == ~w.opened /\ w.domain.active

MayReopen(w, a) == w.latest[a] = "closed"

Valid(w, e) ==
  /\ e.type = "WorkshopChoiceOpened" => MayOpen(w)
  /\ e.type = "reopen" => MayReopen(w, e.area)

-----------------------------------------------------------------------------
(***************************************************************************)
(* fillClosingPayloads.                                                    *)
(***************************************************************************)
Result(w, a) == w.domain.plan[a]

Fill(w, d) == IF IsClosing(d) THEN [d EXCEPT !.payload = Result(w, d.area)] ELSE d

\* Mutant: every closing of the batch is computed from the committed log alone.
FromCommitted(w, ds, i) == w

\* The world after the first i drafts of a batch, filled.
WorldAfter(w, ds, i) ==
  LET after[n \in 0..i] ==
        IF n = 0 THEN w
        ELSE LET before == after[n - 1] IN FoldEvent(before, Fill(before, ds[n]))
  IN  after[i]

\* The draft before acknowledges the advisories of the world the closing closes.
Acknowledged(w, ds, i) ==
  w.domain.advisories # {} =>
    /\ i > 1 /\ ds[i - 1].type = "WorkshopWarningsAcknowledged"
    /\ ds[i - 1].fingerprint = w.domain.advisories

MayClose(w, ds, i) ==
  /\ ds[i].payload = Empty
  /\ ds[i].area \notin w.domain.blocked
  /\ ds[i].area = "workshops" => Acknowledged(w, ds, i)

\* An acknowledgement is for the closing directly after it.
NotLoose(ds, i) ==
  ds[i].type = "WorkshopWarningsAcknowledged" =>
    /\ i < Len(ds) /\ IsClosing(ds[i + 1]) /\ ds[i + 1].area = "workshops"

Accepted(w, ds) ==
  \A i \in 1..Len(ds) :
    LET before == WorldAfter(w, ds, i - 1) IN
    /\ NotLoose(ds, i)
    /\ IsClosing(ds[i]) => MayClose(before, ds, i)
    /\ Valid(before, ds[i])

Filled(w, ds) == [i \in 1..Len(ds) |-> Fill(WorldAfter(w, ds, i - 1), ds[i])]

-----------------------------------------------------------------------------
(***************************************************************************)
(* What a page shows of an area: closedAreaState over the projection of    *)
(* the staged drafts, whose closings have no result yet.                   *)
(***************************************************************************)
Projected(r) == Derive(SubSeq(log, 1, base[r]) \o drafts[r])

\* Mutant: a staged closing is taken for a recorded one.
EveryPayload(payload) == TRUE

IsRecorded(payload) == payload # Empty

Recorded(w, a) == {i \in 1..Len(w.closings[a]) : IsRecorded(w.closings[a][i])}

Latest(w, a) ==
  IF Recorded(w, a) = {} THEN Empty
  ELSE w.closings[a][CHOOSE i \in Recorded(w, a) : \A j \in Recorded(w, a) : j <= i]

Pending(w, a) == w.closings[a] # <<>> /\ ~IsRecorded(Last(w.closings[a]))

-----------------------------------------------------------------------------
Init ==
  /\ log = <<>>
  /\ pc = [r \in Request |-> "idle"]
  /\ base = [r \in Request |-> 0]
  /\ drafts = [r \in Request |-> <<>>]
  /\ events = [r \in Request |-> <<>>]
  /\ answer = [r \in Request |-> "none"]

Goto(r, label) == pc' = [pc EXCEPT ![r] = label]

Answer(r, a) ==
  /\ Goto(r, "idle")
  /\ answer' = [answer EXCEPT ![r] = a]
  /\ drafts' = [drafts EXCEPT ![r] = <<>>]
  /\ events' = [events EXCEPT ![r] = <<>>]

\* A page that shows the committed log has a batch staged.
Stage(r) ==
  /\ pc[r] = "idle" /\ Len(log) < MaxLog
  /\ \E b \in Batch : drafts' = [drafts EXCEPT ![r] = b]
  /\ base' = [base EXCEPT ![r] = Len(log)]
  /\ Goto(r, "staged")
  /\ answer' = [answer EXCEPT ![r] = "none"]
  /\ UNCHANGED <<log, events>>

HeadKnown(r) == base[r] = Len(log)

\* The log is read, the batch filled, validated and authorised, without an await.
Apply(r) ==
  LET w == Derive(log) IN
  /\ pc[r] = "staged"
  /\ IF ~HeadKnown(r) THEN Answer(r, "stale_head")
     ELSE IF ~Accepted(w, drafts[r]) THEN Answer(r, "refused")
     ELSE /\ events' = [events EXCEPT ![r] = Filled(w, drafts[r])]
          /\ Goto(r, "checking") /\ UNCHANGED <<drafts, answer>>
  /\ UNCHANGED <<log, base>>

CheckHead(r) ==
  /\ pc[r] = "checking"
  /\ IF HeadKnown(r)
     THEN Goto(r, "appending") /\ UNCHANGED <<drafts, events, answer>>
     ELSE Answer(r, "stale_head")
  /\ UNCHANGED <<log, base>>

WriteBatch(r) ==
  LET late == Len(log) - base[r] IN
  /\ pc[r] = "appending"
  /\ log' = log \o SubSeq(events[r], late + 1, Len(events[r]))
  /\ Answer(r, IF late = 0 THEN "ok" ELSE "stale_head")
  /\ UNCHANGED base

\* /api/events and the family's resources: one event, and no closing.
AppendEvent(e) ==
  /\ Len(log) < MaxLog
  /\ Valid(Derive(log), e)
  /\ log' = Append(log, e)
  /\ UNCHANGED <<pc, base, drafts, events, answer>>

Next ==
  \/ \E r \in Request : Stage(r) \/ Apply(r) \/ CheckHead(r) \/ WriteBatch(r)
  \/ \E e \in Edit \cup Open \cup Reopen : AppendEvent(e)

Spec == Init /\ [][Next]_vars

-----------------------------------------------------------------------------
(***************************************************************************)
(* Properties.                                                             *)
(***************************************************************************)
OfArea(a) ==
  {i \in 1..Len(log) : (IsClosing(log[i]) \/ log[i].type = "reopen") /\ log[i].area = a}

\* After closing, reopening and closing again, in whatever order and torn batches
\* included, an area counts as closed iff the last of those events closed it, and
\* no closing is lost: both facts are written by their own statement (fold.ts:626-631).
FactsFollowLog ==
  LET w == Derive(log) IN
  \A a \in Area :
    /\ (w.latest[a] = "closed") <=>
         \E i \in OfArea(a) : IsClosing(log[i]) /\ \A j \in OfArea(a) : j <= i
    /\ Len(w.closings[a]) = Cardinality({i \in OfArea(a) : IsClosing(log[i])})

\* A closing that is answered with success records what the organiser reviewed: the
\* result of exactly the log before it, which the page showed, in an area nothing
\* blocks, directly after an acknowledgement of the advisories of that very world,
\* although edits arrive between review and write (closing.ts:67-130, index.ts:308).
ClosedAsReviewed ==
  [][\A r \in Request :
       pc[r] = "appending" /\ answer'[r] = "ok" =>
         \A i \in (Len(log) + 1)..Len(log') : IsClosing(log'[i]) =>
           LET before == Derive(SubSeq(log', 1, i - 1))
               page   == WorldAfter(Derive(SubSeq(log, 1, base[r])), drafts[r], i - 1 - Len(log))
               area   == log'[i].area
           IN  /\ log'[i].payload = Result(before, area)
               /\ log'[i].payload = Result(page, area)
               /\ area \notin before.domain.blocked
               /\ area = "workshops" /\ before.domain.advisories # {} =>
                    i > 1 /\ log'[i - 1] = [type |-> "WorkshopWarningsAcknowledged",
                                            fingerprint |-> before.domain.advisories]]_vars

\* A page never takes its own staged closing for a result: until the Worker has
\* filled it, it shows the latest recorded result and says that another is pending
\* (closed-areas.ts:49-59).
ShownIsRecorded ==
  \A r \in Request, a \in Area :
    pc[r] = "staged" /\ (\A i \in 1..Len(drafts[r]) :
                           IsClosing(drafts[r][i]) => drafts[r][i].payload = Empty) =>
    LET recorded == {i \in OfArea(a) : IsClosing(log[i]) /\ i <= base[r]} IN
    /\ Latest(Projected(r), a) =
         IF recorded = {} THEN Empty
         ELSE log[CHOOSE i \in recorded : \A j \in recorded : j <= i].payload
    /\ Pending(Projected(r), a) <=>
         \E i \in 1..Len(drafts[r]) : IsClosing(drafts[r][i]) /\ drafts[r][i].area = a
=============================================================================
