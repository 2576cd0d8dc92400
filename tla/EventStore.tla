----------------------------- MODULE EventStore -----------------------------
(***************************************************************************)
(* The event table and the Worker requests that append to it.              *)
(*                                                                         *)
(* Every write of the application is one HTTP request that reads the whole *)
(* log, reviews a batch of drafts against it (fold, validation,            *)
(* authorization), reads the head again and hands D1 one batch of          *)
(* conditional INSERTs.  Each of these is an await, so the requests of     *)
(* several organisers and families interleave between them.  A family      *)
(* request answers a stale head by reading again, up to MaxAttempts times. *)
(*                                                                         *)
(* The rows are a sequence: seq is the primary key, the guard of each      *)
(* INSERT ties it to the current maximum, and RowsInOrder checks that the  *)
(* position of a row and its seq never part.  What an event says is a      *)
(* member of Draft; Folds tells the logs that derive accepts.              *)
(***************************************************************************)
EXTENDS Integers, Sequences, FiniteSets

CONSTANTS OrganiserRequests,  \* POST /api/organiser/apply and /api/events
          FamilyRequests,     \* PUT, POST, DELETE under /api/family
          Draft,              \* event contents
          Batches,            \* the non-empty batches a request may ask for
          Folds(_),           \* whether derive accepts a log with these contents
          MaxAttempts,        \* attempts of a family request (3 in the code)
          None                \* no transaction is running

Request == OrganiserRequests \cup FamilyRequests

ASSUME RequestAssumption == None \notin Request
ASSUME BatchAssumption == Batches \subseteq Seq(Draft) /\ <<>> \notin Batches
ASSUME FoldAssumption == Folds(<<>>)
ASSUME AttemptAssumption == MaxAttempts \in Nat \ {0}

VARIABLES
  log,       \* the committed rows of the event table, in seq order
  pc,        \* where each request is between its awaits
  input,     \* the head a request was built on (at arrival, for a family)
  drafts,    \* what an organiser request asks to append
  existing,  \* the rows a request read
  batch,     \* the rows it prepared, with the seqs it gave them
  attempt,   \* the attempt a family request is in
  answer,    \* the answer a request got
  tx,        \* the request whose D1 batch is running
  stmt,      \* the next statement of that batch
  pending    \* the rows that batch has inserted and not committed

requestVars == <<pc, input, drafts, existing, batch, attempt, answer>>
batchVars == <<tx, stmt, pending>>
vars == <<log, requestVars, batchVars>>

(***************************************************************************)
(* Rows.  req, at and of (whose batch, which of how many) are history: the *)
(* properties read them, no action does.                                   *)
(***************************************************************************)
Row == [seq : Nat \ {0}, draft : Draft, req : Request,
        at : Nat \ {0}, of : Nat \ {0}]

Contents(rows) == [i \in 1..Len(rows) |-> rows[i].draft]

\* Mutant: numbers the drafts from 0.
PreparedFromZero(r, head, ds) ==
  [i \in 1..Len(ds) |->
     [seq |-> head + i - 1, draft |-> ds[i], req |-> r, at |-> i, of |-> Len(ds)]]

\* prepareEventBatch numbers the drafts from the length of the log it read.
Prepared(r, head, ds) ==
  [i \in 1..Len(ds) |->
     [seq |-> head + i, draft |-> ds[i], req |-> r, at |-> i, of |-> Len(ds)]]

\* Mutant: folds the log it read without the batch.
ReviewedPrefixOnly(rows, ds) == Folds(Contents(rows))

\* prepareEventBatch folds the log it read together with the whole batch.
Reviewed(rows, ds) == Folds(Contents(rows) \o ds)

\* Mutant: an INSERT without its WHERE.
InsertedBlindly(row) == TRUE

\* WHERE (SELECT COALESCE(MAX(seq), 0) FROM event) = seq - 1
SeqIsNext(row) == Len(log) + Len(pending) = row.seq - 1

\* Mutant: one insert is enough.
SomeStatementInserted(r) == pending # <<>>

\* No statement of the batch reported changes !== 1.
EveryStatementInserted(r) == Len(pending) = Len(batch[r])

\* Mutant: the statements of a batch are not one transaction.
KeepInserted == log \o pending

\* A D1 batch that fails leaves no row of it behind.
Rollback == log

\* Mutant: every error of the append is taken for a stale head.
AppendErrorIsStale == "stale"

\* An error of the append that is not a StaleHeadError ends the request.
AfterAppendError == "answered"

HeadUnmoved(r) == Len(log) = Len(existing[r])

-----------------------------------------------------------------------------
Init ==
  /\ log = <<>>
  /\ pc = [r \in Request |-> "idle"]
  /\ input = [r \in Request |-> 0]
  /\ drafts = [r \in Request |-> <<>>]
  /\ existing = [r \in Request |-> <<>>]
  /\ batch = [r \in Request |-> <<>>]
  /\ attempt = [r \in Request |-> 0]
  /\ answer = [r \in Request |-> "none"]
  /\ tx = None
  /\ stmt = 0
  /\ pending = <<>>

Goto(r, label) == pc' = [pc EXCEPT ![r] = label]

Answer(r, a) ==
  /\ Goto(r, "answered")
  /\ answer' = [answer EXCEPT ![r] = a]

\* A browser holds a head it was given, so never one ahead of the table.
ReceiveOrganiser(r) ==
  /\ r \in OrganiserRequests /\ pc[r] = "idle"
  /\ \E head \in 0..Len(log), ds \in Batches \cup {<<>>} :
       /\ input' = [input EXCEPT ![r] = head]
       /\ drafts' = [drafts EXCEPT ![r] = ds]
  /\ attempt' = [attempt EXCEPT ![r] = 1]
  /\ Goto(r, "reading")
  /\ UNCHANGED <<log, existing, batch, answer, batchVars>>

ReceiveFamily(r) ==
  /\ r \in FamilyRequests /\ pc[r] = "idle"
  /\ input' = [input EXCEPT ![r] = Len(log)]
  /\ attempt' = [attempt EXCEPT ![r] = 1]
  /\ Goto(r, "reading")
  /\ UNCHANGED <<log, drafts, existing, batch, answer, batchVars>>

\* await readEvents(db), for a family through the domain memo of its request.
ReadLog(r) ==
  /\ pc[r] = "reading"
  /\ existing' = [existing EXCEPT ![r] = log]
  /\ Goto(r, "deciding")
  /\ UNCHANGED <<log, input, drafts, batch, attempt, answer, batchVars>>

RefuseStaleInput(r) ==
  /\ pc[r] = "deciding" /\ r \in OrganiserRequests
  /\ input[r] # Len(existing[r])
  /\ Answer(r, "stale_head")
  /\ UNCHANGED <<log, input, drafts, existing, batch, attempt, batchVars>>

InputIsRead(r) == r \in OrganiserRequests => input[r] = Len(existing[r])

\* Authorization, If-Match, capacity, a closing that is not ready, a batch that
\* does not fold: any of them may refuse, the last one must (see Prepare).
Refuse(r) ==
  /\ pc[r] = "deciding" /\ InputIsRead(r)
  /\ Answer(r, "refused")
  /\ UNCHANGED <<log, input, drafts, existing, batch, attempt, batchVars>>

\* A family's drafts are computed from the world each attempt derives.
Asked(r) == IF r \in OrganiserRequests THEN {drafts[r]} ELSE Batches \cup {<<>>}

\* appendCanonicalEvents returns before it looks at the head when nothing is asked.
Prepare(r) ==
  /\ pc[r] = "deciding" /\ InputIsRead(r)
  /\ \E ds \in Asked(r) :
       /\ Reviewed(existing[r], ds)
       /\ batch' = [batch EXCEPT ![r] = Prepared(r, Len(existing[r]), ds)]
       /\ IF ds = <<>> THEN Answer(r, "ok")
                       ELSE Goto(r, "checking") /\ UNCHANGED answer
  /\ UNCHANGED <<log, input, drafts, existing, attempt, batchVars>>

\* const actual = await eventHead(db)
CheckHead(r) ==
  /\ pc[r] = "checking"
  /\ Goto(r, IF HeadUnmoved(r) THEN "appending" ELSE "stale")
  /\ UNCHANGED <<log, input, drafts, existing, batch, attempt, answer, batchVars>>

\* await db.batch(statements): one transaction, one writer at a time.
BeginBatch(r) ==
  /\ pc[r] = "appending" /\ tx = None
  /\ tx' = r
  /\ stmt' = 1
  /\ UNCHANGED <<log, requestVars, pending>>

RunStatement(r) ==
  /\ tx = r /\ stmt <= Len(batch[r])
  /\ pending' = IF SeqIsNext(batch[r][stmt])
                THEN Append(pending, batch[r][stmt]) ELSE pending
  /\ stmt' = stmt + 1
  /\ UNCHANGED <<log, requestVars, tx>>

EndBatch == tx' = None /\ stmt' = 0 /\ pending' = <<>>

CommitBatch(r) ==
  /\ tx = r /\ stmt > Len(batch[r])
  /\ log' = log \o pending
  /\ IF EveryStatementInserted(r) THEN Answer(r, "ok")
                                  ELSE Goto(r, "stale") /\ UNCHANGED answer
  /\ EndBatch
  /\ UNCHANGED <<input, drafts, existing, batch, attempt>>

\* StaleHeadError reaches the organiser, who gets 409.
AnswerStale(r) ==
  /\ pc[r] = "stale" /\ r \in OrganiserRequests
  /\ Answer(r, "stale_head")
  /\ UNCHANGED <<log, input, drafts, existing, batch, attempt, batchVars>>

\* Mutants: the retry keeps the memo of the domain; it has no bound either.
RetryMemoised(r) ==
  /\ pc[r] = "stale" /\ r \in FamilyRequests
  /\ attempt[r] < MaxAttempts
  /\ attempt' = [attempt EXCEPT ![r] = @ + 1]
  /\ Goto(r, "deciding")
  /\ UNCHANGED <<log, input, drafts, existing, batch, answer, batchVars>>

RetryForever(r) ==
  /\ pc[r] = "stale" /\ r \in FamilyRequests
  /\ Goto(r, "deciding")
  /\ UNCHANGED <<log, input, drafts, existing, batch, attempt, answer, batchVars>>

\* A family request forgets the domain it read and tries again.
RetryStale(r) ==
  /\ pc[r] = "stale" /\ r \in FamilyRequests
  /\ attempt[r] < MaxAttempts
  /\ attempt' = [attempt EXCEPT ![r] = @ + 1]
  /\ Goto(r, "reading")
  /\ UNCHANGED <<log, input, drafts, existing, batch, answer, batchVars>>

GiveUp(r) ==
  /\ pc[r] = "stale" /\ r \in FamilyRequests
  /\ attempt[r] = MaxAttempts
  /\ Answer(r, "conflict")
  /\ UNCHANGED <<log, input, drafts, existing, batch, attempt, batchVars>>

(***************************************************************************)
(* D1 fails.  A read that rejects ends the request with a 5xx, unless the  *)
(* catch-all of the routes takes it, as it does the query for the new head *)
(* that StaleHeadError carries.  A batch that rejects is rolled back, but  *)
(* one whose answer is lost has committed: the Worker sees the same error, *)
(* and it is not a StaleHeadError.                                         *)
(***************************************************************************)
\* The catch-all: 400 invalid_event for an organiser, 500 unavailable for a family.
AppendError(r) == IF r \in OrganiserRequests THEN "invalid_event" ELSE "error"

ReadFails(r) ==
  /\ \/ pc[r] \in {"reading", "stale"} /\ Answer(r, "error")
     \/ pc[r] = "stale" /\ Answer(r, AppendError(r))
  /\ UNCHANGED <<log, input, drafts, existing, batch, attempt, batchVars>>

FailAppend(r) ==
  /\ Goto(r, AfterAppendError)
  /\ answer' = [answer EXCEPT ![r] =
                  IF AfterAppendError = "answered" THEN AppendError(r) ELSE @]

AppendFails(r) ==
  /\ pc[r] \in {"checking", "appending"}
  /\ FailAppend(r)
  /\ IF tx = r THEN log' = Rollback /\ EndBatch
               ELSE UNCHANGED <<log, batchVars>>
  /\ UNCHANGED <<input, drafts, existing, batch, attempt>>

LoseCommit(r) ==
  /\ tx = r /\ stmt > Len(batch[r])
  /\ log' = log \o pending
  /\ FailAppend(r)
  /\ EndBatch
  /\ UNCHANGED <<input, drafts, existing, batch, attempt>>

-----------------------------------------------------------------------------
Receive(r) == ReceiveOrganiser(r) \/ ReceiveFamily(r)

Decide(r) == RefuseStaleInput(r) \/ Refuse(r) \/ Prepare(r)

WriteBatch(r) == BeginBatch(r) \/ RunStatement(r) \/ CommitBatch(r)

HandleStale(r) == AnswerStale(r) \/ RetryStale(r) \/ GiveUp(r)

Work(r) == ReadLog(r) \/ Decide(r) \/ CheckHead(r) \/ WriteBatch(r) \/ HandleStale(r)

Fail(r) == ReadFails(r) \/ AppendFails(r) \/ LoseCommit(r)

\* Every request has its answer: nothing is left to do.
Quiet == (\A r \in Request : pc[r] = "answered") /\ UNCHANGED vars

Next == (\E r \in Request : Receive(r) \/ Work(r) \/ Fail(r)) \/ Quiet

Spec == Init /\ [][Next]_vars

\* The runtime runs a request it has accepted to its answer.
FairSpec == Spec /\ \A r \in Request : WF_vars(Work(r))

-----------------------------------------------------------------------------
(***************************************************************************)
(* Properties                                                              *)
(***************************************************************************)
Label == {"idle", "reading", "deciding", "checking", "appending", "stale", "answered"}
Outcome == {"none", "ok", "stale_head", "conflict", "refused", "invalid_event", "error"}

\* Type invariant.
TypeOK ==
  /\ log \in Seq(Row)
  /\ pc \in [Request -> Label]
  /\ input \in [Request -> Nat]
  /\ drafts \in [Request -> Batches \cup {<<>>}]
  /\ existing \in [Request -> Seq(Row)]
  /\ batch \in [Request -> Seq(Row)]
  /\ attempt \in [Request -> 0..MaxAttempts]
  /\ answer \in [Request -> Outcome]
  /\ tx \in Request \cup {None}
  /\ stmt \in Nat
  /\ pending \in Seq(Row)

\* The sequence numbers of the table have no gap and no duplicate, so the length
\* of the log a request reads is the MAX(seq) its batch is checked against.
RowsInOrder == \A i \in 1..Len(log) : log[i].seq = i

\* The batch of a request is in the log, whole and in order, directly behind
\* exactly the rows the request read.
AsReviewed(r) ==
  LET head == Len(existing[r]) IN
  /\ head + Len(batch[r]) <= Len(log)
  /\ \A i \in 1..head : log[i] = existing[r][i]
  /\ \A i \in 1..Len(batch[r]) : log[head + i] = batch[r][i]

\* A request answered 2xx was appended as it was reviewed, and stays so.
AcknowledgedAsReviewed ==
  \A r \in Request : answer[r] = "ok" /\ batch[r] # <<>> => AsReviewed(r)

\* Whatever a crash, a race or a retry leaves behind, the rest of a batch follows
\* each of its rows: a batch is never cut off at its end.
NoBatchCutShort ==
  \A i \in 1..Len(log) : log[i].at < log[i].of =>
    /\ i < Len(log)
    /\ log[i + 1].req = log[i].req /\ log[i + 1].at = log[i].at + 1

\* The batches of others committed behind a head: each ends with its last row.
ForeignCommits(r, head) ==
  {i \in head + 1..Len(log) : log[i].req # r /\ log[i].at = log[i].of}

\* A family is told of a conflict only after MaxAttempts batches of others were
\* committed while its request ran: each attempt starts from the log as it is then.
ConflictMeansContention ==
  \A r \in Request : answer[r] = "conflict" =>
    Cardinality(ForeignCommits(r, input[r])) >= MaxAttempts

\* A request the Worker answers 409 stale_head left nothing in the table.
StaleWritesNothing ==
  \A r \in Request : answer[r] = "stale_head" =>
    \A i \in 1..Len(log) : log[i].req # r

\* No request's change is in the log twice, whatever it was answered.
AppliedAtMostOnce ==
  \A i, j \in 1..Len(log) :
    log[i].req = log[j].req /\ log[i].at = log[j].at => i = j

\* Every accepted request is answered.
EveryRequestAnswered ==
  \A r \in Request : pc[r] = "reading" ~> pc[r] = "answered"

-----------------------------------------------------------------------------
(***************************************************************************)
(* While every batch is a single event, the interleaved requests implement *)
(* the atomic append of ReviewedLog.                                       *)
(***************************************************************************)
Settled(r) ==
  CASE answer[r] = "none" -> "open"
    [] answer[r] = "ok" -> "ok"
    [] answer[r] \in {"invalid_event", "error"} -> "unknown"
    [] OTHER -> "denied"

Reviewing == INSTANCE ReviewedLog WITH
               contents <- Contents(log),
               outcome <- [r \in Request |-> Settled(r)]

AppendIsAtomic == Reviewing!Spec
=============================================================================
