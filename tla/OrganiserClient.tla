--------------------------- MODULE OrganiserClient ---------------------------
(***************************************************************************)
(* The organiser page: its draft buffer, its commit policy and the apply   *)
(* request, against the Worker's event table.                              *)
(*                                                                         *)
(* The page stages groups of drafts, derives committed ++ drafts at once,  *)
(* and hands the whole buffer to POST /api/organiser/apply: by itself in   *)
(* immediate mode, on a click in drafting mode.  The organiser may go on   *)
(* staging and correcting while the request runs, reload the page while a  *)
(* request of the old page is still on its way; the answer to a request    *)
(* that was committed may be lost, and the connection of one that is yet   *)
(* to reach the Worker.                                                    *)
(*                                                                         *)
(* An event is a number that no other staging uses; 0 is an event somebody *)
(* else appended.  made, gone, doubts and again are history: the           *)
(* properties read them, and the bounds.                                   *)
(***************************************************************************)
EXTENDS Integers, SequencesExt, FiniteSets

CONSTANTS Folds(_),      \* whether derive accepts a log
          Slots,         \* requests that can be on their way at once
          MaxGroups,     \* bound: groups staged by one page
          MaxMade,       \* bound: events ever staged
          MaxElsewhere,  \* bound: events of other people
          MaxDoubts      \* bound: answers that leave the outcome in doubt

ASSUME FoldAssumption == Folds(<<>>)

VARIABLES
  log,         \* the event table
  committed,   \* the rows the page holds
  head_seq,    \* the head the page gives as input_seq
  drafts,      \* the draft buffer: a sequence of groups
  change_mode, \* "immediate" or "drafting"
  status,      \* OrganiserStatus
  next_group_id,
  submitted_groups,
  requests,    \* what the slots of the network hold
  waiting,     \* the slots whose answer the page awaits: one or none
  made,        \* events staged so far
  gone,        \* events the organiser discarded, replaced or reloaded away
  doubts,      \* answers that did not tell what was appended
  again        \* events the organiser saved while the page showed them as committed

page == <<committed, head_seq, drafts, change_mode, status, next_group_id,
          submitted_groups, waiting>>
history == <<made, gone, doubts, again>>
vars == <<log, page, requests, history>>

Free == [phase |-> "free", input |-> 0, events |-> <<>>, answer |-> "none", news |-> <<>>]

Flat(groups) ==
  LET flat[n \in 0..Len(groups)] ==
        IF n = 0 THEN <<>> ELSE flat[n - 1] \o groups[n].events
  IN  flat[Len(groups)]
EventsOf(groups) == ToSet(Flat(groups))
GroupIds(groups) == {groups[i].id : i \in 1..Len(groups)}

\* Mutant: counts groups where the acknowledgement counts events.
RemoveDraftGroups(groups, count) == SubSeq(groups, count + 1, Len(groups))

\* removeDraftEvents: takes the first count events out of the buffer.
TakeEvents(acc, g) ==
  LET n == IF Len(g.events) <= acc.remaining THEN Len(g.events) ELSE acc.remaining
  IN  [remaining |-> acc.remaining - n,
       result |-> IF acc.remaining > 0 /\ n = Len(g.events) THEN acc.result
                  ELSE Append(acc.result, [g EXCEPT !.events = SubSeq(@, n + 1, Len(@))])]

RemoveDraftEvents(groups, count) ==
  LET taken[n \in 0..Len(groups)] ==
        IF n = 0 THEN [remaining |-> count, result |-> <<>>]
        ELSE TakeEvents(taken[n - 1], groups[n])
  IN  taken[Len(groups)].result

\* The world the page shows: the fold of what it holds and what it drafted.
WorldDerives == Folds(committed \o Flat(drafts))

\* The screens that show the workspace; the others offer to reload.
Working == status \in {"ready", "applying", "stale_head", "error"}

-----------------------------------------------------------------------------
Init ==
  /\ log = <<>> /\ committed = <<>> /\ head_seq = 0
  /\ drafts = <<>> /\ change_mode = "immediate" /\ status = "loading"
  /\ next_group_id = 1 /\ submitted_groups = {} /\ waiting = {}
  /\ requests = [q \in Slots |-> Free]
  /\ made = 0 /\ gone = {} /\ doubts = 0 /\ again = {}

\* 'loaded': the answer to GET /api/organiser/log.
Load ==
  /\ status = "loading"
  /\ committed' = log /\ head_seq' = Len(log)
  /\ drafts' = <<>> /\ change_mode' = "immediate" /\ status' = "ready"
  /\ UNCHANGED <<log, next_group_id, submitted_groups, waiting, requests, history>>

\* 'failed', with the status and the drafts that a failure leaves.
Failed(s) ==
  /\ status' = s /\ change_mode' = "drafting" /\ submitted_groups' = {}
  /\ UNCHANGED <<committed, head_seq, drafts, next_group_id>>

LoadFails ==
  /\ status = "loading"
  /\ \E s \in {"load_error", "stale_build"} : Failed(s)
  /\ UNCHANGED <<log, waiting, requests, history>>

\* A reload forgets the page, and an answer it has not taken; the requests it sent
\* go on without it.
Reload ==
  /\ status # "loading"
  /\ \E q \in Slots \ waiting : requests[q].phase = "free"
  /\ committed' = <<>> /\ head_seq' = 0 /\ drafts' = <<>>
  /\ change_mode' = "immediate" /\ status' = "loading"
  /\ next_group_id' = 1 /\ submitted_groups' = {} /\ waiting' = {}
  /\ requests' = [q \in Slots |-> IF requests[q].phase = "answered" THEN Free ELSE requests[q]]
  /\ gone' = gone \cup EventsOf(drafts)
  /\ UNCHANGED <<log, made, doubts, again>>

Fresh(n) == [i \in 1..n |-> made + i]

Stage ==
  /\ Working /\ WorldDerives /\ next_group_id <= MaxGroups
  /\ \E n \in 1..2 :
       /\ made + n <= MaxMade
       /\ drafts' = Append(drafts, [id |-> next_group_id, events |-> Fresh(n)])
       /\ made' = made + n
  /\ next_group_id' = next_group_id + 1
  /\ UNCHANGED <<log, committed, head_seq, change_mode, status, submitted_groups,
                 waiting, requests, gone, doubts, again>>

Editable(g) == g \notin submitted_groups

ModeFor(groups) == IF groups = <<>> THEN "immediate" ELSE "drafting"

DiscardGroup ==
  /\ Working
  /\ \E i \in 1..Len(drafts) :
       /\ Editable(drafts[i].id)
       /\ LET kept == RemoveAt(drafts, i) IN
          /\ drafts' = kept
          /\ change_mode' = ModeFor(kept)
          /\ gone' = gone \cup (EventsOf(drafts) \ EventsOf(kept))
  /\ UNCHANGED <<log, committed, head_seq, status, next_group_id, submitted_groups,
                 waiting, requests, made, doubts, again>>

\* The group editor hands back as many drafts as the group had.
ReplaceGroup ==
  /\ Working
  /\ \E i \in 1..Len(drafts) :
       LET n == Len(drafts[i].events) IN
       /\ Editable(drafts[i].id)
       /\ made + n <= MaxMade
       /\ drafts' = [drafts EXCEPT ![i].events = Fresh(n)]
       /\ made' = made + n
       /\ gone' = gone \cup ToSet(drafts[i].events)
  /\ change_mode' = "drafting"
  /\ UNCHANGED <<log, committed, head_seq, status, next_group_id, submitted_groups,
                 waiting, requests, doubts, again>>

ToggleDrafting ==
  /\ Working /\ WorldDerives
  /\ \/ change_mode = "immediate" /\ change_mode' = "drafting"
     \/ change_mode = "drafting" /\ Flat(drafts) = <<>> /\ change_mode' = "immediate"
  /\ UNCHANGED <<log, committed, head_seq, drafts, status, next_group_id,
                 submitted_groups, waiting, requests, history>>

Discard ==
  /\ Working /\ status # "applying"
  /\ drafts' = <<>> /\ change_mode' = "immediate"
  /\ gone' = gone \cup EventsOf(drafts)
  /\ UNCHANGED <<log, committed, head_seq, status, next_group_id, submitted_groups,
                 waiting, requests, made, doubts, again>>

-----------------------------------------------------------------------------
(***************************************************************************)
(* apply: the request carries every draft of the buffer as it is.          *)
(***************************************************************************)
StartApply ==
  /\ Working /\ status # "applying" /\ Flat(drafts) # <<>>
  /\ \E q \in Slots :
       /\ requests[q].phase = "free"
       /\ requests' = [requests EXCEPT ![q] =
                         [Free EXCEPT !.phase = "sent", !.input = head_seq,
                                      !.events = Flat(drafts)]]
       /\ waiting' = {q}
  /\ status' = "applying" /\ submitted_groups' = GroupIds(drafts)
  /\ UNCHANGED <<log, committed, head_seq, drafts, change_mode, next_group_id,
                 made, gone, doubts>>

\* The save control and the retry of a finding.
Save ==
  /\ WorldDerives /\ StartApply
  /\ again' = again \cup (EventsOf(drafts) \cap ToSet(committed))

\* The effect that applies by itself.
AutoApply == WorldDerives /\ change_mode = "immediate" /\ StartApply /\ UNCHANGED again

\* An answer comes back, or is dropped when the page that asked is gone.
Respond(q, answer, news) ==
  requests' = [requests EXCEPT ![q] =
    IF q \in waiting
    THEN [@ EXCEPT !.phase = "answered", !.answer = answer, !.news = news]
    ELSE Free]

\* Mutant: the answer carries the whole log.
SinceEver(input) == log

\* existing.filter((event) => event.seq > inputSeq)
Since(input) == SubSeq(log, input + 1, Len(log))

AnswerOk(q) ==
  LET r == requests[q] IN
  /\ r.phase = "sent" /\ r.input = Len(log) /\ Folds(log \o r.events)
  /\ log' = log \o r.events
  /\ Respond(q, "ok", r.events)
  /\ UNCHANGED <<page, history>>

AnswerStale(q) ==
  /\ requests[q].phase = "sent" /\ requests[q].input # Len(log)
  /\ Respond(q, "stale_head", Since(requests[q].input))
  /\ UNCHANGED <<log, page, history>>

\* Another build, a batch that does not fold, a Worker that fails.
AnswerFailed(q) ==
  /\ requests[q].phase = "sent"
  /\ \E a \in {"stale_build", "failed"} : Respond(q, a, <<>>)
  /\ UNCHANGED <<log, page, history>>

\* The batch is committed and its answer lost: the page sees a failed fetch.
LoseAnswer(q) ==
  LET r == requests[q] IN
  /\ r.phase = "sent" /\ r.input = Len(log) /\ Folds(log \o r.events)
  /\ doubts < MaxDoubts
  /\ log' = log \o r.events
  /\ doubts' = doubts + 1
  /\ Respond(q, "failed", <<>>)
  /\ UNCHANGED <<page, made, gone, again>>

\* The connection is gone before the Worker has answered: the page sees a failed fetch,
\* and the request is served all the same, whenever it arrives.
ConnectionLost(q) ==
  /\ q \in waiting /\ requests[q].phase = "sent"
  /\ doubts < MaxDoubts
  /\ doubts' = doubts + 1
  /\ Failed("error") /\ waiting' = {}
  /\ UNCHANGED <<log, requests, made, gone, again>>

\* Somebody else appends one event between the head check and the D1 batch: the
\* first statement matches no row, the others insert (see EventStore).
TearBatch(q) ==
  LET r == requests[q]
      torn == <<0>> \o Tail(r.events)
  IN
  /\ r.phase = "sent" /\ r.input = Len(log) /\ Folds(log \o r.events)
  /\ Len(r.events) > 1 /\ Folds(Append(log, 0))
  /\ doubts < MaxDoubts
  /\ log' = log \o torn
  /\ doubts' = doubts + 1
  /\ Respond(q, "stale_head", torn)
  /\ UNCHANGED <<page, made, gone, again>>

Elsewhere ==
  /\ Cardinality({i \in 1..Len(log) : log[i] = 0}) < MaxElsewhere
  /\ Folds(Append(log, 0))
  /\ log' = Append(log, 0)
  /\ UNCHANGED <<page, requests, history>>

-----------------------------------------------------------------------------
(***************************************************************************)
(* The page takes the answer it waits for.                                 *)
(***************************************************************************)
Answered(q, answer) == /\ q \in waiting
                       /\ requests[q].phase = "answered" /\ requests[q].answer = answer

Take(q) == /\ waiting' = {}
           /\ requests' = [requests EXCEPT ![q] = Free]
           /\ UNCHANGED <<log, history>>

Acknowledge(q) == drafts' = RemoveDraftEvents(drafts, Len(requests[q].events))

\* 'applied'
Applied(q) ==
  /\ Answered(q, "ok")
  /\ committed' = committed \o requests[q].news
  /\ head_seq' = head_seq + Len(requests[q].news)
  /\ Acknowledge(q)
  /\ change_mode' = ModeFor(drafts')
  /\ status' = "ready" /\ submitted_groups' = {}
  /\ UNCHANGED next_group_id
  /\ Take(q)

\* The answer comes with other feature bindings than the page derives with.
AppliedWithOtherFeatures(q) ==
  /\ Answered(q, "ok")
  /\ Failed("stale_build")
  /\ Take(q)

\* Mutant: a rebase leaves the commit policy as it was.
RebasedAndGoOn(q) ==
  /\ Answered(q, "stale_head")
  /\ committed' = committed \o requests[q].news
  /\ head_seq' = head_seq + Len(requests[q].news)
  /\ status' = "stale_head" /\ submitted_groups' = {}
  /\ UNCHANGED <<drafts, change_mode, next_group_id>>
  /\ Take(q)

\* 'rebased'
Rebased(q) ==
  /\ Answered(q, "stale_head")
  /\ committed' = committed \o requests[q].news
  /\ head_seq' = head_seq + Len(requests[q].news)
  /\ change_mode' = "drafting" /\ status' = "stale_head" /\ submitted_groups' = {}
  /\ UNCHANGED <<drafts, next_group_id>>
  /\ Take(q)

\* Mutant: a failed apply leaves the commit policy as it was.
FailQuietly(q, s) ==
  /\ status' = s /\ submitted_groups' = {}
  /\ UNCHANGED <<committed, head_seq, drafts, change_mode, next_group_id>>
  /\ Take(q)

Fail(q, s) == Failed(s) /\ Take(q)

ApplyFails(q) ==
  \/ Answered(q, "stale_build") /\ Fail(q, "stale_build")
  \/ Answered(q, "failed") /\ Fail(q, "error")

-----------------------------------------------------------------------------
Organiser == Reload \/ Stage \/ DiscardGroup \/ ReplaceGroup \/ ToggleDrafting
             \/ Discard \/ Save

Answer(q) == AnswerOk(q) \/ AnswerStale(q) \/ AnswerFailed(q)

Receive(q) == Applied(q) \/ AppliedWithOtherFeatures(q) \/ Rebased(q) \/ ApplyFails(q)

Next ==
  \/ Load \/ LoadFails \/ Organiser \/ AutoApply \/ Elsewhere
  \/ \E q \in Slots :
       \/ Answer(q) \/ LoseAnswer(q) \/ ConnectionLost(q) \/ TearBatch(q)
       \/ Receive(q)

Spec == Init /\ [][Next]_vars

\* React runs its effects; a fetch settles, and its promise is taken.
FairSpec ==
  /\ Spec
  /\ WF_vars(AutoApply)
  /\ \A q \in Slots : WF_vars(Answer(q)) /\ WF_vars(Receive(q))

-----------------------------------------------------------------------------
(***************************************************************************)
(* Properties                                                              *)
(***************************************************************************)
\* Whatever was answered, lost or torn, the page holds a true prefix of the table
\* and names its length as the head: two pages never diverge, they only lag.
CommittedIsPrefix ==
  IsPrefix(committed, log) /\ head_seq = Len(committed)

NoDuplicate(events) ==
  \A i, j \in 1..Len(events) : events[i] = events[j] /\ events[i] # 0 => i = j

\* An event that was staged and not taken back is in the buffer or in the table, and
\* only once as long as every answer told what was appended.  And when one did not: a retry
\* of what was appended is refused and shows it to the page, so that the table has a
\* change twice only if the organiser saved it again when the page showed it as committed.
\* Nothing is done twice by the page itself, or by a request that comes late.
ExactlyOnceUnlessInDoubt ==
  /\ 1..made \subseteq gone \cup EventsOf(drafts) \cup ToSet(log)
  /\ doubts = 0 => NoDuplicate(log) /\ NoDuplicate(committed \o Flat(drafts))
  /\ \A i, j \in 1..Len(log) :
       i # j /\ log[i] = log[j] /\ log[i] # 0 => log[i] \in again

Unattended == Working /\ WorldDerives /\ change_mode = "immediate" /\ Flat(drafts) # <<>>

\* In immediate mode a change does not stay unsaved: it is applied, or the page
\* turns to drafting mode, where the organiser sees it.
ImmediateIsSaved == Unattended ~> ~Unattended
=============================================================================
