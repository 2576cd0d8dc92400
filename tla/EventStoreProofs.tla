-------------------------- MODULE EventStoreProofs --------------------------
(***************************************************************************)
(* Theorems about EventStore for every set of requests, every set of       *)
(* batches and every fold.                                                 *)
(***************************************************************************)
EXTENDS EventStore, SequenceTheorems, FiniteSetTheorems, TLAPS

(***************************************************************************)
(* The inductive invariant.                                                *)
(***************************************************************************)
\* What a request has read is still the beginning of the log.
Snapshots ==
  \A r \in Request :
    /\ Len(existing[r]) <= Len(log)
    /\ \A i \in 1..Len(existing[r]) : existing[r][i] = log[i]

\* A batch on its way to the table, or acknowledged, continues what was read.
Numbered ==
  \A r \in Request : pc[r] \in {"checking", "appending"} \/ answer[r] = "ok" =>
    \A i \in 1..Len(batch[r]) : batch[r][i].seq = Len(existing[r]) + i

\* A running batch has inserted a stretch of its rows that ends with the last
\* statement it ran, and nothing before the one whose seq came next.
Transaction ==
  /\ tx = None => pending = <<>>
  /\ tx # None =>
       /\ pc[tx] = "appending"
       /\ stmt \in 1..Len(batch[tx]) + 1
       /\ \A i \in 1..Len(pending) :
            /\ pending[i].seq = Len(log) + i
            /\ pending[i] = batch[tx][Len(log) - Len(existing[tx]) + i]
       /\ pending # <<>> => Len(log) + Len(pending) = Len(existing[tx]) + stmt - 1

Answers == \A r \in Request : answer[r] = "none" <=> pc[r] # "answered"

IInv ==
  /\ TypeOK
  /\ RowsInOrder
  /\ Snapshots
  /\ Numbered
  /\ Transaction
  /\ Answers
  /\ AcknowledgedAsReviewed

-----------------------------------------------------------------------------
\* The drafts a request prepares become rows numbered from the log it read.
LEMMA PreparedIsRows ==
  ASSUME NEW r \in Request, NEW head \in Nat, NEW ds \in Batches \cup {<<>>}
  PROVE  /\ Prepared(r, head, ds) \in Seq(Row)
         /\ Len(Prepared(r, head, ds)) = Len(ds)
         /\ \A i \in 1..Len(ds) : Prepared(r, head, ds)[i].seq = head + i
<1>1. ds \in Seq(Draft)
  BY BatchAssumption, EmptySeq
<1>2. Len(ds) \in Nat /\ \A i \in 1..Len(ds) : ds[i] \in Draft
  BY <1>1
<1>3. \A i \in 1..Len(ds) :
        [seq |-> head + i, draft |-> ds[i], req |-> r, at |-> i, of |-> Len(ds)] \in Row
  BY <1>2 DEF Row
<1>4. QED
  BY <1>2, <1>3 DEF Prepared

\* Types: every variable keeps its type.
THEOREM TypeCorrect == Spec => []TypeOK
<1> DEFINE Typed == TypeOK /\ (tx # None => stmt > 0)
<1>1. Init => Typed
  BY RequestAssumption, AttemptAssumption DEF Init, TypeOK, Label, Outcome
<1>2. Typed /\ [Next]_vars => Typed'
  <2> SUFFICES ASSUME Typed, [Next]_vars PROVE Typed'
    OBVIOUS
  <2> USE RequestAssumption DEF TypeOK, Label, Outcome, Goto, Answer, batchVars, requestVars
  <2>1. ASSUME NEW r \in Request, Receive(r) PROVE Typed'
    <3>1. CASE ReceiveOrganiser(r)
      BY <3>1, AttemptAssumption DEF ReceiveOrganiser
    <3>2. CASE ReceiveFamily(r)
      BY <3>2, AttemptAssumption DEF ReceiveFamily
    <3>3. QED BY <2>1, <3>1, <3>2 DEF Receive
  <2>2. ASSUME NEW r \in Request, ReadLog(r) PROVE Typed'
    BY <2>2 DEF ReadLog
  <2>3. ASSUME NEW r \in Request, Decide(r) PROVE Typed'
    <3>1. CASE RefuseStaleInput(r)
      BY <3>1 DEF RefuseStaleInput
    <3>2. CASE Refuse(r)
      BY <3>2 DEF Refuse
    <3>3. CASE Prepare(r)
      <4>1. PICK ds \in Asked(r) :
              /\ batch' = [batch EXCEPT ![r] = Prepared(r, Len(existing[r]), ds)]
              /\ IF ds = <<>> THEN Answer(r, "ok")
                              ELSE Goto(r, "checking") /\ UNCHANGED answer
        BY <3>3 DEF Prepare
      <4>2. ds \in Batches \cup {<<>>}
        BY <4>1 DEF Asked
      <4>3. Prepared(r, Len(existing[r]), ds) \in Seq(Row)
        <5>1. Len(existing[r]) \in Nat
          OBVIOUS
        <5>2. QED BY <4>2, <5>1, PreparedIsRows
      <4>4. UNCHANGED <<log, input, drafts, existing, attempt, batchVars>>
        BY <3>3 DEF Prepare
      <4>5. QED BY <4>1, <4>3, <4>4
    <3>4. QED BY <2>3, <3>1, <3>2, <3>3 DEF Decide
  <2>4. ASSUME NEW r \in Request, CheckHead(r) PROVE Typed'
    BY <2>4 DEF CheckHead
  <2>5. ASSUME NEW r \in Request, WriteBatch(r) PROVE Typed'
    <3>1. CASE BeginBatch(r)
      BY <3>1 DEF BeginBatch
    <3>2. CASE RunStatement(r)
      <4>1. stmt \in 1..Len(batch[r])
        BY <3>2 DEF RunStatement
      <4>2. batch[r][stmt] \in Row
        BY <4>1, ElementOfSeq
      <4>3. pending' \in Seq(Row)
        BY <3>2, <4>2 DEF RunStatement
      <4>4. QED BY <3>2, <4>3 DEF RunStatement
    <3>3. CASE CommitBatch(r)
      <4>1. log' \in Seq(Row) /\ pending' = <<>> /\ stmt' = 0 /\ tx' = None
        BY <3>3 DEF CommitBatch, EndBatch
      <4>2. pc' \in [Request -> Label] /\ answer' \in [Request -> Outcome]
        BY <3>3 DEF CommitBatch
      <4>3. UNCHANGED <<input, drafts, existing, batch, attempt>>
        BY <3>3 DEF CommitBatch
      <4>4. QED BY <4>1, <4>2, <4>3
    <3>4. QED BY <2>5, <3>1, <3>2, <3>3 DEF WriteBatch
  <2>6. ASSUME NEW r \in Request, HandleStale(r) PROVE Typed'
    <3>1. CASE AnswerStale(r)
      BY <3>1 DEF AnswerStale
    <3>2. CASE RetryStale(r)
      <4>1. attempt[r] + 1 \in 0..MaxAttempts
        BY <3>2, AttemptAssumption DEF RetryStale
      <4>2. QED BY <3>2, <4>1 DEF RetryStale
    <3>3. CASE GiveUp(r)
      BY <3>3 DEF GiveUp
    <3>4. QED BY <2>6, <3>1, <3>2, <3>3 DEF HandleStale
  <2>7. ASSUME NEW r \in Request, Fail(r) PROVE Typed'
    <3> USE DEF FailAppend, AfterAppendError, AppendError, EndBatch, Rollback
    <3>1. CASE ReadFails(r)
      BY <3>1 DEF ReadFails
    <3>2. CASE AppendFails(r)
      <4>1. /\ log' \in Seq(Row) /\ pending' \in Seq(Row) /\ stmt' \in Nat
            /\ tx' \in Request \cup {None} /\ (tx' # None => stmt' > 0)
        <5>1. CASE tx = r
          BY <3>2, <5>1 DEF AppendFails
        <5>2. CASE tx # r
          BY <3>2, <5>2 DEF AppendFails
        <5>3. QED BY <5>1, <5>2
      <4>2. pc' \in [Request -> Label] /\ answer' \in [Request -> Outcome]
        BY <3>2 DEF AppendFails
      <4>3. UNCHANGED <<input, drafts, existing, batch, attempt>>
        BY <3>2 DEF AppendFails
      <4>4. QED BY <4>1, <4>2, <4>3
    <3>3. CASE LoseCommit(r)
      BY <3>3 DEF LoseCommit
    <3>4. QED BY <2>7, <3>1, <3>2, <3>3 DEF Fail
  <2>8. CASE UNCHANGED vars
    BY <2>8 DEF vars
  <2>9. QED
    BY <2>1, <2>2, <2>3, <2>4, <2>5, <2>6, <2>7, <2>8 DEF Next, Work, Quiet
<1>3. QED
  BY <1>1, <1>2, PTL DEF Spec

-----------------------------------------------------------------------------
(***************************************************************************)
(* One step of one request keeps the invariant.  Only the request that     *)
(* holds the transaction changes the log, so the other requests' snapshots *)
(* and acknowledgements stay as they are.                                  *)
(***************************************************************************)
LEMMA InitInv == Init => IInv
  BY RequestAssumption, AttemptAssumption
     DEF Init, IInv, TypeOK, Label, Outcome, RowsInOrder, Snapshots, Numbered,
         Transaction, Answers, AcknowledgedAsReviewed

\* A step that leaves the table, the transaction and what was prepared alone.
LEMMA QuietStep ==
  ASSUME IInv, TypeOK', NEW r \in Request,
         UNCHANGED <<log, existing, batch, batchVars>>,
         NEW l \in Label, NEW a \in Outcome,
         pc' = [pc EXCEPT ![r] = l], answer' = [answer EXCEPT ![r] = a],
         tx # r, a = "none" <=> l # "answered", a # "ok",
         l \in {"checking", "appending"} => pc[r] \in {"checking", "appending"}
  PROVE  IInv'
<1> USE DEF IInv, TypeOK, batchVars
<1>1. RowsInOrder'
  BY DEF RowsInOrder
<1>2. Snapshots'
  BY DEF Snapshots
<1>3. Numbered'
  BY DEF Numbered
<1>4. Transaction'
  BY DEF Transaction
<1>5. Answers'
  BY DEF Answers
<1>6. AcknowledgedAsReviewed'
  BY SMTT(30) DEF AcknowledgedAsReviewed, AsReviewed
<1>7. QED
  BY <1>1, <1>2, <1>3, <1>4, <1>5, <1>6

\* The steps of a request that only move its own program counter.
LEMMA LocalSteps ==
  ASSUME IInv, TypeOK', NEW r \in Request,
         \/ Receive(r) \/ RefuseStaleInput(r) \/ Refuse(r) \/ CheckHead(r)
         \/ HandleStale(r) \/ ReadFails(r)
  PROVE  IInv'
<1> USE DEF IInv, TypeOK, Goto, Answer
<1>1. tx # r \/ pc[r] = "appending"
  BY RequestAssumption DEF Transaction
<1>2. answer[r] = "none" <=> pc[r] # "answered"
  BY DEF Answers
<1>3. answer = [answer EXCEPT ![r] = answer[r]] /\ answer[r] \in Outcome
  OBVIOUS
<1>4. CASE Receive(r)
  <2>1. /\ UNCHANGED <<log, existing, batch, answer, batchVars>>
        /\ pc' = [pc EXCEPT ![r] = "reading"] /\ pc[r] = "idle"
    BY <1>4 DEF Receive, ReceiveOrganiser, ReceiveFamily
  <2>2. QED
    BY <2>1, <1>1, <1>2, <1>3, QuietStep DEF Label, Outcome
<1>5. CASE RefuseStaleInput(r) \/ Refuse(r)
  <2>1. /\ UNCHANGED <<log, existing, batch, batchVars>>
        /\ pc' = [pc EXCEPT ![r] = "answered"] /\ pc[r] = "deciding"
        /\ \E a \in {"stale_head", "refused"} : answer' = [answer EXCEPT ![r] = a]
    BY <1>5 DEF RefuseStaleInput, Refuse
  <2>2. QED
    BY <2>1, <1>1, QuietStep DEF Label, Outcome
<1>6. CASE CheckHead(r)
  <2>1. /\ UNCHANGED <<log, existing, batch, answer, batchVars>>
        /\ \E l \in {"appending", "stale"} : pc' = [pc EXCEPT ![r] = l]
        /\ pc[r] = "checking"
    BY <1>6 DEF CheckHead
  <2>2. QED
    BY <2>1, <1>1, <1>2, <1>3, QuietStep DEF Label, Outcome
<1>7. CASE AnswerStale(r) \/ GiveUp(r) \/ ReadFails(r)
  <2>1. /\ UNCHANGED <<log, existing, batch, batchVars>>
        /\ pc' = [pc EXCEPT ![r] = "answered"] /\ pc[r] \in {"stale", "reading"}
        /\ \E a \in {"stale_head", "conflict", "invalid_event", "error"} :
             answer' = [answer EXCEPT ![r] = a]
    BY <1>7 DEF AnswerStale, GiveUp, ReadFails, AppendError
  <2>2. QED
    BY <2>1, <1>1, QuietStep DEF Label, Outcome
<1>8. CASE RetryStale(r)
  <2>1. /\ UNCHANGED <<log, existing, batch, answer, batchVars>>
        /\ pc' = [pc EXCEPT ![r] = "reading"] /\ pc[r] = "stale"
    BY <1>8 DEF RetryStale
  <2>2. QED
    BY <2>1, <1>1, <1>2, <1>3, QuietStep DEF Label, Outcome
<1>9. QED
  BY <1>4, <1>5, <1>6, <1>7, <1>8 DEF HandleStale

\* The log a request reads is its snapshot.
LEMMA ReadLogStep ==
  ASSUME IInv, TypeOK', NEW r \in Request, ReadLog(r)
  PROVE  IInv'
<1> USE DEF IInv, TypeOK, Goto, batchVars
<1>1. /\ UNCHANGED <<log, batch, answer, batchVars>>
      /\ existing' = [existing EXCEPT ![r] = log]
      /\ pc' = [pc EXCEPT ![r] = "deciding"] /\ pc[r] = "reading"
  BY DEF ReadLog
<1>2. tx # r /\ answer[r] = "none"
  BY <1>1, RequestAssumption DEF Transaction, Answers
<1>3. RowsInOrder'
  BY <1>1 DEF RowsInOrder
<1>4. Snapshots'
  BY <1>1 DEF Snapshots
<1>5. Numbered'
  BY <1>1, <1>2 DEF Numbered
<1>6. Transaction'
  BY <1>1, <1>2 DEF Transaction
<1>7. Answers'
  BY <1>1, <1>2 DEF Answers
<1>8. AcknowledgedAsReviewed'
  BY ZenonT(30), <1>1, <1>2 DEF AcknowledgedAsReviewed, AsReviewed
<1>9. QED
  BY <1>3, <1>4, <1>5, <1>6, <1>7, <1>8

\* The rows a request prepares continue its snapshot; an empty batch is done.
LEMMA PrepareStep ==
  ASSUME IInv, TypeOK', NEW r \in Request, Prepare(r)
  PROVE  IInv'
<1> USE DEF IInv, TypeOK, Goto, Answer, batchVars
<1>1. PICK ds \in Asked(r) :
        /\ batch' = [batch EXCEPT ![r] = Prepared(r, Len(existing[r]), ds)]
        /\ IF ds = <<>> THEN Answer(r, "ok")
                        ELSE Goto(r, "checking") /\ UNCHANGED answer
  BY DEF Prepare
<1>2. UNCHANGED <<log, existing, batchVars>> /\ pc[r] = "deciding"
  BY DEF Prepare
<1>3. tx # r /\ answer[r] = "none"
  BY <1>2, RequestAssumption DEF Transaction, Answers
<1>4. /\ Len(batch'[r]) = Len(ds)
      /\ \A i \in 1..Len(batch'[r]) : batch'[r][i].seq = Len(existing[r]) + i
  <2>1. Len(existing[r]) \in Nat /\ ds \in Batches \cup {<<>>}
    BY <1>1 DEF Asked
  <2>2. batch'[r] = Prepared(r, Len(existing[r]), ds)
    BY <1>1
  <2>3. /\ Len(Prepared(r, Len(existing[r]), ds)) = Len(ds)
        /\ \A i \in 1..Len(ds) :
             Prepared(r, Len(existing[r]), ds)[i].seq = Len(existing[r]) + i
    BY SMTT(30), <2>1, PreparedIsRows
  <2>4. QED
    BY <2>2, <2>3
<1>5. \A q \in Request : q # r => batch'[q] = batch[q] /\ pc'[q] = pc[q] /\ answer'[q] = answer[q]
  BY <1>1
<1>6. \/ ds = <<>> /\ pc'[r] = "answered" /\ answer'[r] = "ok"
      \/ ds # <<>> /\ pc'[r] = "checking" /\ answer'[r] = "none"
  BY <1>1, <1>3
<1>7. RowsInOrder'
  BY <1>2 DEF RowsInOrder
<1>8. Snapshots'
  BY <1>2 DEF Snapshots
<1>9. Numbered'
  BY ZenonT(30), <1>2, <1>4, <1>5 DEF Numbered
<1>10. Transaction'
  <2>1. tx # None => pc'[tx] = pc[tx] /\ batch'[tx] = batch[tx]
    BY <1>3, <1>5
  <2>2. QED
    BY <1>2, <2>1 DEF Transaction
<1>11. Answers'
  BY <1>5, <1>6 DEF Answers
<1>12. AcknowledgedAsReviewed'
  <2>1. answer'[r] = "ok" => batch'[r] = <<>>
    <3>1. answer'[r] = "ok" => Len(batch'[r]) = 0
      BY <1>4, <1>6
    <3>2. QED BY <3>1, EmptySeq
  <2>2. ASSUME NEW q \in Request, answer'[q] = "ok", batch'[q] # <<>>
        PROVE  q # r /\ answer[q] = "ok" /\ batch'[q] = batch[q]
    BY <2>1, <2>2, <1>5
  <2>3. \A q \in Request : q # r /\ AsReviewed(q) => AsReviewed(q)'
    BY <1>2, <1>5 DEF AsReviewed
  <2>4. QED
    BY <2>2, <2>3 DEF AcknowledgedAsReviewed
<1>13. QED
  BY <1>7, <1>8, <1>9, <1>10, <1>11, <1>12

LEMMA BeginBatchStep ==
  ASSUME IInv, TypeOK', NEW r \in Request, BeginBatch(r)
  PROVE  IInv'
<1> USE DEF IInv, TypeOK, requestVars
<1>1. /\ UNCHANGED <<log, existing, batch, pc, answer, pending>>
      /\ pc[r] = "appending" /\ tx = None /\ tx' = r /\ stmt' = 1
  BY DEF BeginBatch
<1>2. pending = <<>> /\ Len(pending) = 0 /\ Len(batch[r]) \in Nat
  BY <1>1 DEF Transaction
<1>3. RowsInOrder' /\ Snapshots' /\ Numbered' /\ Answers'
  BY <1>1 DEF RowsInOrder, Snapshots, Numbered, Answers
<1>4. Transaction'
  BY <1>1, <1>2, RequestAssumption DEF Transaction
<1>5. AcknowledgedAsReviewed'
  BY <1>1 DEF AcknowledgedAsReviewed, AsReviewed
<1>6. QED
  BY <1>3, <1>4, <1>5

\* Once a statement has inserted its row, every later one does.
LEMMA RunStatementStep ==
  ASSUME IInv, TypeOK', NEW r \in Request, RunStatement(r)
  PROVE  IInv'
<1> USE DEF IInv, TypeOK, requestVars
<1> DEFINE row == batch[r][stmt]
           base == Len(existing[r])
<1>1. /\ UNCHANGED <<log, existing, batch, pc, answer, tx>>
      /\ tx = r /\ stmt <= Len(batch[r]) /\ stmt' = stmt + 1
      /\ pending' = IF SeqIsNext(row) THEN Append(pending, row) ELSE pending
  BY DEF RunStatement
<1>2. /\ pc[r] = "appending" /\ stmt \in 1..Len(batch[r]) /\ r # None
      /\ Len(batch[r]) \in Nat /\ Len(log) \in Nat /\ base \in Nat /\ Len(pending) \in Nat
  BY SMTT(30), <1>1, RequestAssumption DEF Transaction
<1>3. row.seq = base + stmt
  BY <1>2 DEF Numbered
<1>4. \A i \in 1..Len(pending) :
        pending[i].seq = Len(log) + i /\ pending[i] = batch[r][Len(log) - base + i]
  BY <1>1, <1>2 DEF Transaction
<1>5. pending # <<>> => Len(log) + Len(pending) = base + stmt - 1
  BY <1>1, <1>2 DEF Transaction
<1>6. RowsInOrder' /\ Snapshots' /\ Numbered' /\ Answers'
  BY <1>1 DEF RowsInOrder, Snapshots, Numbered, Answers
<1>7. AcknowledgedAsReviewed'
  BY <1>1 DEF AcknowledgedAsReviewed, AsReviewed
<1>8. CASE SeqIsNext(row)
  <2>1. Len(log) + Len(pending) = base + stmt - 1
    BY <1>8, <1>2, <1>3 DEF SeqIsNext
  <2>2. row \in Row
    BY SMTT(30), <1>2
  <2>3. /\ Len(pending') = Len(pending) + 1
        /\ \A i \in 1..Len(pending) : pending'[i] = pending[i]
        /\ pending'[Len(pending) + 1] = row
    BY <1>1, <1>8, <2>2
  <2>4. Len(log) - base + (Len(pending) + 1) = stmt
    BY <2>1, <1>2
  <2>5. \A i \in 1..Len(pending') :
          pending'[i].seq = Len(log) + i /\ pending'[i] = batch[r][Len(log) - base + i]
    <3> TAKE i \in 1..Len(pending')
    <3>1. CASE i \in 1..Len(pending)
      BY <3>1, <2>3, <1>4
    <3>2. CASE i = Len(pending) + 1
      BY SMTT(30), <3>2, <2>1, <2>3, <2>4, <1>2, <1>3
    <3>3. QED BY SMTT(30), <3>1, <3>2, <2>3, <1>2
  <2>6. Len(log) + Len(pending') = base + stmt' - 1
    BY <2>1, <2>3, <1>1, <1>2
  <2>7. stmt' \in 1..Len(batch[r]) + 1
    BY SMTT(30), <1>1, <1>2
  <2>8. Transaction'
    BY <2>5, <2>6, <2>7, <1>1, <1>2 DEF Transaction
  <2>9. QED
    BY <2>8, <1>6, <1>7
<1>9. CASE ~SeqIsNext(row)
  <2>1. pending' = pending /\ Len(log) + Len(pending) # base + stmt - 1
    BY <1>1, <1>9, <1>2, <1>3 DEF SeqIsNext
  <2>2. pending = <<>> /\ Len(pending) = 0
    BY <2>1, <1>5
  <2>3. stmt' \in 1..Len(batch[r]) + 1
    BY SMTT(30), <1>1, <1>2
  <2>4. Transaction'
    BY <2>1, <2>2, <2>3, <1>1, <1>2 DEF Transaction
  <2>5. QED
    BY <2>4, <1>6, <1>7
<1>10. QED
  BY <1>8, <1>9

\* Appending rows keeps the rows that are there.
LEMMA Concatenated ==
  ASSUME NEW a \in Seq(Row), NEW b \in Seq(Row)
  PROVE  /\ Len(a \o b) = Len(a) + Len(b)
         /\ \A i \in 1..Len(a) : (a \o b)[i] = a[i]
         /\ \A i \in 1..Len(b) : (a \o b)[Len(a) + i] = b[i]
<1>1. Len(a) \in Nat /\ Len(b) \in Nat
  OBVIOUS
<1>2. /\ Len(a \o b) = Len(a) + Len(b)
      /\ \A i \in 1..Len(a) + Len(b) :
           (a \o b)[i] = IF i <= Len(a) THEN a[i] ELSE b[i - Len(a)]
  BY ConcatProperties
<1>3. QED
  BY <1>1, <1>2

\* Committing rows that continue the log keeps it in order and every snapshot
\* and acknowledgement true.
Grown ==
  /\ Len(log') = Len(log) + Len(pending)
  /\ \A i \in 1..Len(log) : log'[i] = log[i]
  /\ \A i \in 1..Len(pending) : log'[Len(log) + i] = pending[i]

LEMMA CommitKeeps ==
  ASSUME IInv, Grown, UNCHANGED <<existing, batch>>
  PROVE  /\ RowsInOrder' /\ Snapshots'
         /\ \A q \in Request : AsReviewed(q) => AsReviewed(q)'
<1>1. Len(log) \in Nat /\ Len(pending) \in Nat
  BY DEF IInv, TypeOK
<1>2. Len(log') = Len(log) + Len(pending)
  BY DEF Grown
<1>3. /\ \A i \in 1..Len(log) : log'[i] = log[i]
      /\ \A i \in 1..Len(pending) : log'[Len(log) + i] = pending[i]
  BY DEF Grown
<1>4. \A i \in 1..Len(pending) : pending[i].seq = Len(log) + i
  <2>1. CASE tx = None
    BY <2>1, EmptySeq DEF Transaction, IInv
  <2>2. CASE tx # None
    BY <2>2 DEF Transaction, IInv
  <2>3. QED BY <2>1, <2>2
<1>5. \A q \in Request : Len(existing[q]) \in Nat /\ Len(batch[q]) \in Nat
  BY DEF IInv, TypeOK
<1>6. RowsInOrder'
  <2> SUFFICES ASSUME NEW i \in 1..Len(log') PROVE log'[i].seq = i
    BY DEF RowsInOrder
  <2>1. CASE i <= Len(log)
    BY <2>1, <1>1, <1>2, <1>3 DEF RowsInOrder, IInv
  <2>2. CASE i > Len(log)
    <3>1. i - Len(log) \in 1..Len(pending)
      BY <2>2, <1>1, <1>2
    <3>2. log'[i] = pending[i - Len(log)]
      BY <2>2, <3>1, <1>1, <1>3
    <3>3. QED BY <3>1, <3>2, <1>1, <1>4
  <2>3. QED BY <2>1, <2>2, <1>1, <1>2
<1>7. Snapshots'
  BY <1>5, <1>1, <1>2, <1>3 DEF Snapshots, IInv
<1>8. ASSUME NEW q \in Request, AsReviewed(q) PROVE AsReviewed(q)'
  <2> DEFINE head == Len(existing[q])
             size == Len(batch[q])
  <2>1. head \in Nat /\ size \in Nat
    BY <1>5
  <2>2. /\ head + size <= Len(log)
        /\ \A i \in 1..head : log[i] = existing[q][i]
        /\ \A i \in 1..size : log[head + i] = batch[q][i]
    BY <1>8 DEF AsReviewed
  <2>3. existing'[q] = existing[q] /\ batch'[q] = batch[q]
    OBVIOUS
  <2> HIDE DEF head, size
  <2>4. head + size <= Len(log')
    BY <2>1, <2>2, <1>1, <1>2
  <2>5. ASSUME NEW i \in 1..head PROVE log'[i] = existing[q][i]
    BY <2>1, <2>2, <1>1, <1>3
  <2>6. ASSUME NEW i \in 1..size PROVE log'[head + i] = batch[q][i]
    <3>1. head + i \in 1..Len(log)
      BY <2>1, <2>2, <1>1
    <3>2. QED BY <3>1, <2>2, <1>3
  <2>7. QED
    BY <2>3, <2>4, <2>5, <2>6 DEF AsReviewed, head, size
<1>9. QED
  BY <1>6, <1>7, <1>8

LEMMA Appends ==
  ASSUME IInv, log' = log \o pending
  PROVE  Grown
<1>1. log \in Seq(Row) /\ pending \in Seq(Row)
  BY DEF IInv, TypeOK
<1>2. QED
  BY <1>1, Concatenated DEF Grown

\* A batch whose every statement inserted started at the head its request read.
LEMMA WholeBatch ==
  ASSUME IInv, NEW r \in Request, tx = r, stmt > Len(batch[r]),
         batch[r] # <<>>, EveryStatementInserted(r)
  PROVE  /\ Len(log) = Len(existing[r])
         /\ \A i \in 1..Len(batch[r]) : pending[i] = batch[r][i]
<1>1. /\ Len(log) \in Nat /\ Len(pending) \in Nat /\ Len(batch[r]) \in Nat
      /\ Len(existing[r]) \in Nat /\ stmt \in Nat
  BY DEF IInv, TypeOK
<1>2. Len(pending) = Len(batch[r]) /\ Len(pending) > 0
  <2>1. Len(batch[r]) # 0
    BY EmptySeq DEF IInv, TypeOK
  <2>2. QED BY <2>1, <1>1 DEF EveryStatementInserted
<1>3. /\ stmt \in 1..Len(batch[r]) + 1
      /\ pending # <<>> => Len(log) + Len(pending) = Len(existing[r]) + stmt - 1
      /\ \A i \in 1..Len(pending) :
           pending[i] = batch[r][Len(log) - Len(existing[r]) + i]
  BY RequestAssumption DEF IInv, Transaction
<1>4. pending # <<>>
  BY <1>2
<1>5. Len(log) = Len(existing[r])
  BY <1>1, <1>2, <1>3, <1>4
<1>6. ASSUME NEW i \in 1..Len(batch[r]) PROVE pending[i] = batch[r][i]
  <2>1. Len(log) - Len(existing[r]) + i = i
    BY <1>1, <1>5
  <2>2. QED BY <2>1, <1>2, <1>3
<1>7. QED
  BY <1>5, <1>6

\* The end of a transaction that commits, whatever its request is told.
LEMMA CommitStep ==
  ASSUME IInv, TypeOK', NEW r \in Request, tx = r, stmt > Len(batch[r]),
         Grown, EndBatch, UNCHANGED <<existing, batch>>,
         NEW l \in {"answered", "stale"}, NEW a \in Outcome,
         pc' = [pc EXCEPT ![r] = l], answer' = [answer EXCEPT ![r] = a],
         a = "none" <=> l # "answered",
         a = "ok" => EveryStatementInserted(r)
  PROVE  IInv'
<1>1. /\ RowsInOrder' /\ Snapshots'
      /\ \A q \in Request : AsReviewed(q) => AsReviewed(q)'
  BY CommitKeeps
<1>2. pc \in [Request -> Label] /\ answer \in [Request -> Outcome] /\ pc[r] = "appending"
  BY RequestAssumption DEF IInv, TypeOK, Transaction
<1>3. \A q \in Request : q # r => pc'[q] = pc[q] /\ answer'[q] = answer[q]
  BY <1>2
<1>4. pc'[r] = l /\ answer'[r] = a
  BY <1>2
<1>5. Numbered'
  BY <1>2, <1>3, <1>4 DEF Numbered, IInv
<1>6. Transaction'
  <2>1. tx' = None /\ pending' = <<>>
    BY DEF EndBatch
  <2>2. QED BY <2>1 DEF Transaction
<1>7. Answers'
  BY <1>3, <1>4 DEF Answers, IInv
<1>8. a = "ok" /\ batch[r] # <<>> => AsReviewed(r)'
  <2> SUFFICES ASSUME a = "ok", batch[r] # <<>> PROVE AsReviewed(r)'
    OBVIOUS
  <2>1. /\ Len(log) = Len(existing[r])
        /\ \A i \in 1..Len(batch[r]) : pending[i] = batch[r][i]
        /\ Len(pending) = Len(batch[r])
    BY WholeBatch DEF EveryStatementInserted
  <2>2. /\ Len(log') = Len(log) + Len(pending)
        /\ \A i \in 1..Len(log) : log'[i] = log[i]
        /\ \A i \in 1..Len(pending) : log'[Len(log) + i] = pending[i]
    BY DEF Grown
  <2>3. \A i \in 1..Len(existing[r]) : existing[r][i] = log[i]
    BY DEF IInv, Snapshots
  <2>4. Len(log) \in Nat /\ Len(batch[r]) \in Nat
    BY SMTT(30) DEF IInv, TypeOK
  <2>5. existing'[r] = existing[r] /\ batch'[r] = batch[r]
    OBVIOUS
  <2>6. /\ \A i \in 1..Len(existing[r]) : log'[i] = existing[r][i]
        /\ \A i \in 1..Len(batch[r]) : log'[Len(existing[r]) + i] = batch[r][i]
    BY <2>1, <2>2, <2>3
  <2>7. Len(existing[r]) + Len(batch[r]) <= Len(log')
    BY <2>1, <2>2, <2>4
  <2>8. QED BY <2>5, <2>6, <2>7 DEF AsReviewed
<1>9. AcknowledgedAsReviewed'
  <2> SUFFICES ASSUME NEW q \in Request, answer'[q] = "ok", batch'[q] # <<>>
               PROVE  AsReviewed(q)'
    BY DEF AcknowledgedAsReviewed
  <2>1. CASE q = r
    BY <2>1, <1>4, <1>8
  <2>2. CASE q # r
    BY <2>2, <1>1, <1>3 DEF AcknowledgedAsReviewed, IInv
  <2>3. QED BY <2>1, <2>2
<1>10. QED
  BY <1>1, <1>5, <1>6, <1>7, <1>9 DEF IInv

LEMMA CommitBatchStep ==
  ASSUME IInv, TypeOK', NEW r \in Request, CommitBatch(r)
  PROVE  IInv'
<1>1. /\ tx = r /\ stmt > Len(batch[r]) /\ EndBatch
      /\ UNCHANGED <<existing, batch>>
      /\ log' = log \o pending
  BY DEF CommitBatch
<1>2. Grown
  BY <1>1, Appends
<1>3. pc[r] = "appending" /\ answer[r] = "none" /\ answer \in [Request -> Outcome]
  BY <1>1, RequestAssumption DEF IInv, TypeOK, Transaction, Answers
<1>4. CASE EveryStatementInserted(r)
  <2>1. pc' = [pc EXCEPT ![r] = "answered"] /\ answer' = [answer EXCEPT ![r] = "ok"]
    BY <1>4 DEF CommitBatch, Answer, Goto
  <2>2. QED
    BY <1>1, <1>2, <1>4, <2>1, CommitStep DEF Outcome
<1>5. CASE ~EveryStatementInserted(r)
  <2>1. pc' = [pc EXCEPT ![r] = "stale"] /\ answer' = [answer EXCEPT ![r] = "none"]
    BY <1>3, <1>5 DEF CommitBatch, Goto
  <2>2. QED
    BY <1>1, <1>2, <2>1, CommitStep DEF Outcome
<1>6. QED
  BY <1>4, <1>5

LEMMA LoseCommitStep ==
  ASSUME IInv, TypeOK', NEW r \in Request, LoseCommit(r)
  PROVE  IInv'
<1>1. /\ tx = r /\ stmt > Len(batch[r]) /\ EndBatch
      /\ UNCHANGED <<existing, batch>>
      /\ log' = log \o pending
      /\ pc' = [pc EXCEPT ![r] = "answered"] /\ answer' = [answer EXCEPT ![r] = AppendError(r)]
      /\ AppendError(r) \in {"invalid_event", "error"}
  BY DEF LoseCommit, FailAppend, AfterAppendError, AppendError, Goto
<1>2. Grown
  BY <1>1, Appends
<1>3. QED
  BY <1>1, <1>2, CommitStep DEF Outcome

\* A batch that rejects leaves the table as it was.
LEMMA AppendFailsStep ==
  ASSUME IInv, TypeOK', NEW r \in Request, AppendFails(r)
  PROVE  IInv'
<1> USE DEF IInv, TypeOK
<1>1. /\ UNCHANGED <<log, existing, batch>>
      /\ pc' = [pc EXCEPT ![r] = "answered"] /\ answer' = [answer EXCEPT ![r] = AppendError(r)]
      /\ AppendError(r) \in {"invalid_event", "error"}
      /\ IF tx = r THEN tx' = None /\ pending' = <<>>
                   ELSE tx' = tx /\ stmt' = stmt /\ pending' = pending
  BY DEF AppendFails, FailAppend, AfterAppendError, AppendError, Goto, Rollback, EndBatch,
         batchVars
<1>2. /\ \A q \in Request : q # r => pc'[q] = pc[q] /\ answer'[q] = answer[q]
      /\ pc'[r] = "answered" /\ answer'[r] \in {"invalid_event", "error"}
  BY <1>1
<1>3. RowsInOrder' /\ Snapshots'
  BY <1>1 DEF RowsInOrder, Snapshots
<1>4. Numbered'
  <2>1. ASSUME NEW q \in Request, pc'[q] \in {"checking", "appending"} \/ answer'[q] = "ok"
        PROVE  pc[q] \in {"checking", "appending"} \/ answer[q] = "ok"
    BY SMTT(30), <1>2, <2>1
  <2>. QED
    BY <1>1, <2>1, Zenon DEF Numbered
<1>7. Answers'
  <2>1. answer'[r] # "none" /\ pc'[r] = "answered"
    BY <1>2
  <2>. QED
    BY <1>2, <2>1, Zenon DEF Answers
<1>5. Transaction'
  BY ZenonT(30), <1>1, <1>2 DEF Transaction
<1>6. AcknowledgedAsReviewed'
  <2>1. ASSUME NEW q \in Request, answer'[q] = "ok" PROVE answer[q] = "ok"
    BY <2>1, <1>2
  <2>2. ASSUME NEW q \in Request, AsReviewed(q) PROVE AsReviewed(q)'
    BY <2>2, <1>1 DEF AsReviewed
  <2>3. QED
    BY <2>1, <2>2, <1>1 DEF AcknowledgedAsReviewed
<1>. QED
  BY <1>3, <1>4, <1>5, <1>6, <1>7

LEMMA StepInv == IInv /\ TypeOK' /\ [Next]_vars => IInv'
<1> SUFFICES ASSUME IInv, TypeOK', [Next]_vars PROVE IInv'
  OBVIOUS
<1>1. ASSUME NEW r \in Request, Receive(r) \/ Work(r) \/ Fail(r) PROVE IInv'
  <2>1. CASE Receive(r) \/ RefuseStaleInput(r) \/ Refuse(r) \/ CheckHead(r)
               \/ HandleStale(r) \/ ReadFails(r)
    BY <2>1, LocalSteps
  <2>2. CASE ReadLog(r) \/ Prepare(r)
    BY <2>2, ReadLogStep, PrepareStep
  <2>3. CASE WriteBatch(r)
    BY <2>3, BeginBatchStep, RunStatementStep, CommitBatchStep DEF WriteBatch
  <2>4. CASE AppendFails(r) \/ LoseCommit(r)
    BY <2>4, AppendFailsStep, LoseCommitStep
  <2>5. QED
    BY <1>1, <2>1, <2>2, <2>3, <2>4 DEF Work, Decide, Fail
<1>2. CASE UNCHANGED vars
  BY <1>2 DEF vars, requestVars, batchVars, IInv, RowsInOrder, Snapshots, Numbered,
              Transaction, Answers, AcknowledgedAsReviewed, AsReviewed
<1>3. QED
  BY <1>1, <1>2 DEF Next, Quiet

\* The invariant holds in every reachable state.
THEOREM Invariant == Spec => []IInv
<1>1. IInv /\ TypeOK' /\ [Next]_vars => IInv'
  BY StepInv
<1>2. QED
  BY InitInv, <1>1, TypeCorrect, PTL DEF Spec

\* The sequence numbers have no gap and no duplicate.
THEOREM InOrder == Spec => []RowsInOrder
<1>1. IInv => RowsInOrder
  BY DEF IInv
<1>2. QED
  BY <1>1, Invariant, PTL

\* A 2xx answer means that the batch stands in the log, whole, behind exactly
\* the rows it was reviewed against, for good.
THEOREM Acknowledged == Spec => []AcknowledgedAsReviewed
<1>1. IInv => AcknowledgedAsReviewed
  BY DEF IInv
<1>2. QED
  BY <1>1, Invariant, PTL

-----------------------------------------------------------------------------
(***************************************************************************)
(* A batch is never cut off at its end: a transaction that is about to     *)
(* commit has inserted the last rows of its batch or none, because every   *)
(* statement after the first that inserts finds its seq next.              *)
(***************************************************************************)
Labelled ==
  \A r \in Request : \A i \in 1..Len(batch[r]) :
    batch[r][i].req = r /\ batch[r][i].at = i /\ batch[r][i].of = Len(batch[r])

LEMMA PreparedIsLabelled ==
  ASSUME NEW r \in Request, NEW head \in Nat, NEW ds \in Batches \cup {<<>>}
  PROVE  /\ Len(Prepared(r, head, ds)) = Len(ds)
         /\ \A i \in 1..Len(ds) : /\ Prepared(r, head, ds)[i].req = r
                                  /\ Prepared(r, head, ds)[i].at = i
                                  /\ Prepared(r, head, ds)[i].of = Len(ds)
<1>1. Len(ds) \in Nat
  BY BatchAssumption, EmptySeq
<1>2. QED
  BY <1>1 DEF Prepared

LEMMA LabelledStep ==
  ASSUME IInv, Labelled, [Next]_vars
  PROVE  Labelled'
<1>1. CASE UNCHANGED batch
  BY <1>1 DEF Labelled
<1>2. ASSUME NEW r \in Request, Prepare(r) PROVE Labelled'
  <2>1. PICK ds \in Asked(r) :
          batch' = [batch EXCEPT ![r] = Prepared(r, Len(existing[r]), ds)]
    BY <1>2 DEF Prepare
  <2>2. ds \in Batches \cup {<<>>} /\ Len(existing[r]) \in Nat
    BY <2>1 DEF Asked, IInv, TypeOK
  <2>3. \A q \in Request : q # r => batch'[q] = batch[q]
    BY <2>1 DEF IInv, TypeOK
  <2>4. batch'[r] = Prepared(r, Len(existing[r]), ds)
    BY <2>1 DEF IInv, TypeOK
  <2>5. QED
    BY <2>2, <2>3, <2>4, PreparedIsLabelled DEF Labelled
<1>3. QED
  BY <1>1, <1>2
     DEF Next, Receive, ReceiveOrganiser, ReceiveFamily, Work, ReadLog, Decide,
         RefuseStaleInput, Refuse, CheckHead, WriteBatch, BeginBatch, RunStatement,
         CommitBatch, HandleStale, AnswerStale, RetryStale, GiveUp, Fail, ReadFails,
         AppendFails, LoseCommit, Quiet, vars, requestVars

LEMMA CommitNotCutShort ==
  ASSUME IInv, Labelled, NoBatchCutShort, NEW r \in Request, tx = r,
         stmt > Len(batch[r]), Grown
  PROVE  NoBatchCutShort'
<1> DEFINE head == Len(log)
           size == Len(pending)
           read == Len(existing[r])
           whole == Len(batch[r])
<1>1. head \in Nat /\ size \in Nat /\ read \in Nat /\ whole \in Nat /\ stmt \in Nat
  BY DEF IInv, TypeOK
<1>2. /\ stmt \in 1..whole + 1
      /\ pending # <<>> => head + size = read + stmt - 1
      /\ \A i \in 1..size : pending[i] = batch[r][head - read + i]
  BY RequestAssumption DEF IInv, Transaction
<1>3. size > 0 => head + size = read + whole
  <2>1. size > 0 => pending # <<>>
    OBVIOUS
  <2>2. stmt = whole + 1
    BY <1>1, <1>2
  <2> HIDE DEF head, size, read, whole
  <2>3. QED BY <2>1, <2>2, <1>1, <1>2
<1>4. read <= head
  BY DEF IInv, Snapshots
<1>5. \A i \in 1..whole :
        batch[r][i].req = r /\ batch[r][i].at = i /\ batch[r][i].of = whole
  BY DEF Labelled
<1>6. /\ Len(log') = head + size
      /\ \A i \in 1..head : log'[i] = log[i]
      /\ \A i \in 1..size : log'[head + i] = pending[i]
  BY DEF Grown
<1>7. \A i \in 1..head : log[i].at < log[i].of =>
        i < head /\ log[i + 1].req = log[i].req /\ log[i + 1].at = log[i].at + 1
  BY DEF NoBatchCutShort
<1> HIDE DEF head, size, read, whole
<1>8. ASSUME NEW i \in 1..size
      PROVE  /\ log'[head + i].req = r
             /\ log'[head + i].at = head - read + i
             /\ log'[head + i].of = whole
  <2>1. head - read + i \in 1..whole
    BY <1>1, <1>3, <1>4
  <2>2. QED BY <2>1, <1>2, <1>5, <1>6
<1>9. ASSUME NEW i \in 1..head + size, log'[i].at < log'[i].of
      PROVE  i < head + size /\ log'[i + 1].req = log'[i].req
                             /\ log'[i + 1].at = log'[i].at + 1
  <2>1. CASE i <= head
    <3>1. i \in 1..head /\ log'[i] = log[i]
      BY <2>1, <1>1, <1>6
    <3>2. i < head /\ log[i + 1].req = log[i].req /\ log[i + 1].at = log[i].at + 1
      BY <3>1, <1>7, <1>9
    <3>3. i + 1 \in 1..head
      BY <3>1, <3>2, <1>1
    <3>4. QED BY <3>1, <3>2, <3>3, <1>1, <1>6
  <2>2. CASE i > head
    <3>1. PICK k \in 1..size : i = head + k
      <4>1. i - head \in 1..size /\ i = head + (i - head)
        BY <2>2, <1>1
      <4>2. QED BY <4>1
    <3>2. head - read + k < whole
      BY <3>1, <1>8, <1>9
    <3>3. k + 1 \in 1..size /\ i + 1 = head + (k + 1)
      BY <3>1, <3>2, <1>1, <1>3, <1>4
    <3>4. QED BY <3>1, <3>3, <1>1, <1>8
  <2>3. QED BY <2>1, <2>2, <1>1
<1>10. QED
  BY <1>6, <1>9 DEF NoBatchCutShort, head, size

\* Whatever races, fails or is retried, the rest of a batch follows each of its rows.
THEOREM NotCutShort == Spec => []NoBatchCutShort
<1>1. Init => Labelled /\ NoBatchCutShort
  BY DEF Init, Labelled, NoBatchCutShort
<1>2. IInv /\ Labelled /\ NoBatchCutShort /\ [Next]_vars => Labelled' /\ NoBatchCutShort'
  <2> SUFFICES ASSUME IInv, Labelled, NoBatchCutShort, [Next]_vars
               PROVE  NoBatchCutShort'
    BY LabelledStep
  <2>1. CASE log' = log
    BY <2>1 DEF NoBatchCutShort
  <2>2. ASSUME NEW r \in Request, CommitBatch(r) \/ LoseCommit(r) PROVE NoBatchCutShort'
    BY <2>2, Appends, CommitNotCutShort DEF CommitBatch, LoseCommit
  <2>3. QED
    BY <2>1, <2>2
       DEF Next, Receive, ReceiveOrganiser, ReceiveFamily, Work, ReadLog, Decide,
           RefuseStaleInput, Refuse, Prepare, CheckHead, WriteBatch, BeginBatch,
           RunStatement, HandleStale, AnswerStale, RetryStale, GiveUp, Fail,
           ReadFails, AppendFails, Rollback, Quiet, vars
<1>3. QED
  BY <1>1, <1>2, Invariant, PTL DEF Spec

-----------------------------------------------------------------------------
(***************************************************************************)
(* A family is told of a conflict only after as many batches of others as  *)
(* it had attempts.  An attempt is lost because the log has grown beyond   *)
(* what it read: the last row is then the end of a batch, and not of its   *)
(* own, of which this attempt has written nothing yet.                     *)
(***************************************************************************)
Foreign(rows, r, lo, hi) == {i \in lo + 1..hi : rows[i].req # r /\ rows[i].at = rows[i].of}

Numerals == \A i \in 1..Len(log) : log[i].at <= log[i].of

\* At the head its request read, every statement that ran has inserted.
EachInserted == tx # None /\ Len(log) = Len(existing[tx]) => Len(pending) = stmt - 1

Attempting == {"deciding", "checking", "appending"}

\* Every attempt that is over was lost to a batch of somebody else.
ContendedBy(r) ==
  /\ pc[r] # "idle" => input[r] <= Len(log)
  /\ pc[r] = "reading" =>
       Cardinality(Foreign(log, r, input[r], Len(log))) >= attempt[r] - 1
  /\ pc[r] \in Attempting =>
       /\ input[r] <= Len(existing[r])
       /\ \A i \in Len(existing[r]) + 1..Len(log) : log[i].req # r
       /\ Cardinality(Foreign(log, r, input[r], Len(existing[r]))) >= attempt[r] - 1
  /\ pc[r] = "stale" => Cardinality(Foreign(log, r, input[r], Len(log))) >= attempt[r]
  /\ answer[r] = "conflict" =>
       Cardinality(Foreign(log, r, input[r], Len(log))) >= MaxAttempts

Contended == \A r \in Request : ContendedBy(r)

CInv == IInv /\ Labelled /\ NoBatchCutShort /\ Numerals /\ EachInserted /\ Contended

LEMMA ForeignCount ==
  ASSUME NEW rows, NEW r, NEW lo \in Nat, NEW hi \in Nat
  PROVE  /\ IsFiniteSet(Foreign(rows, r, lo, hi))
         /\ Cardinality(Foreign(rows, r, lo, hi)) \in Nat
<1>1. IsFiniteSet(lo + 1..hi)
  BY FS_Interval
<1>2. Foreign(rows, r, lo, hi) \in SUBSET (lo + 1..hi)
  BY DEF Foreign
<1>3. IsFiniteSet(Foreign(rows, r, lo, hi))
  BY <1>1, <1>2, FS_Subset
<1>4. QED
  BY <1>3, FS_CardinalityType

\* Rows that are added take nothing away.
LEMMA ForeignKept ==
  ASSUME NEW rows, NEW more, NEW r, NEW lo \in Nat, NEW hi \in Nat, NEW top \in Nat,
         hi <= top, \A i \in 1..hi : more[i] = rows[i]
  PROVE  /\ Foreign(rows, r, lo, hi) \subseteq Foreign(more, r, lo, top)
         /\ Cardinality(Foreign(rows, r, lo, hi)) <= Cardinality(Foreign(more, r, lo, top))
<1>1. ASSUME NEW i \in Foreign(rows, r, lo, hi) PROVE i \in Foreign(more, r, lo, top)
  <2>1. i \in lo + 1..hi /\ rows[i].req # r /\ rows[i].at = rows[i].of
    BY <1>1 DEF Foreign
  <2>2. i \in 1..hi /\ i \in lo + 1..top
    BY <2>1
  <2>3. QED
    BY <2>1, <2>2 DEF Foreign
<1>2. IsFiniteSet(Foreign(more, r, lo, top))
  BY ForeignCount
<1>3. QED
  BY <1>1, <1>2, FS_Subset

LEMMA ForeignMore ==
  ASSUME NEW rows, NEW more, NEW r, NEW lo \in Nat, NEW hi \in Nat, NEW top \in Nat,
         lo <= hi, \A i \in 1..hi : more[i] = rows[i],
         NEW last \in hi + 1..top, more[last].req # r, more[last].at = more[last].of
  PROVE  Cardinality(Foreign(rows, r, lo, hi)) + 1 <= Cardinality(Foreign(more, r, lo, top))
<1> DEFINE F == Foreign(rows, r, lo, hi)
           G == Foreign(more, r, lo, top)
<1>1. F \subseteq G /\ last \in G
  <2>1. F \subseteq G
    <3>1. hi <= top
      OBVIOUS
    <3>2. QED
      BY <3>1, ForeignKept
  <2>2. last \in lo + 1..top
    OBVIOUS
  <2>3. QED
    BY <2>1, <2>2 DEF Foreign
<1>2. last \notin F
  BY DEF Foreign
<1>3. IsFiniteSet(F) /\ IsFiniteSet(G)
  BY ForeignCount
<1>4. Cardinality(F) \in Nat
  BY ForeignCount
<1> HIDE DEF F, G
<1>5. Cardinality(F \cup {last}) = Cardinality(F) + 1
  BY <1>2, <1>3, FS_AddElement
<1>6. F \cup {last} \in SUBSET G
  BY <1>1
<1>7. Cardinality(F \cup {last}) <= Cardinality(G)
  BY <1>3, <1>6, FS_Subset
<1>8. QED
  BY <1>4, <1>5, <1>7 DEF F, G

\* The table as it was, and what is behind it.
Extended ==
  /\ Len(log) <= Len(log')
  /\ \A i \in 1..Len(log) : log'[i] = log[i]

Same(r) ==
  /\ pc'[r] = pc[r] /\ input'[r] = input[r] /\ existing'[r] = existing[r]
  /\ attempt'[r] = attempt[r] /\ answer'[r] = answer[r]

LEMMA Lengths ==
  ASSUME TypeOK, NEW r \in Request
  PROVE  /\ Len(log) \in Nat /\ Len(existing[r]) \in Nat /\ input[r] \in Nat
         /\ attempt[r] \in Int /\ Len(batch[r]) \in Nat /\ Len(pending) \in Nat
  BY AttemptAssumption DEF TypeOK

\* What another request does to the table leaves a request as contended as it was.
LEMMA OthersContended ==
  ASSUME IInv, TypeOK', NEW q \in Request, ContendedBy(q), Extended, Same(q),
         \A i \in Len(log) + 1..Len(log') : log'[i].req # q
  PROVE  ContendedBy(q)'
<1>1. /\ Len(log) \in Nat /\ Len(log') \in Nat /\ Len(existing[q]) \in Nat
      /\ input[q] \in Nat /\ attempt[q] \in Int
  BY SMTT(30), Lengths DEF IInv, TypeOK
<1>2. Len(existing[q]) <= Len(log)
  BY DEF IInv, Snapshots
<1>3. /\ Cardinality(Foreign(log, q, input[q], Len(log)))
           <= Cardinality(Foreign(log', q, input[q], Len(log')))
      /\ Cardinality(Foreign(log, q, input[q], Len(existing[q])))
           <= Cardinality(Foreign(log', q, input[q], Len(existing[q])))
  <2>1. Len(log) <= Len(log') /\ \A i \in 1..Len(log) : log'[i] = log[i]
    BY DEF Extended
  <2>2. \A i \in 1..Len(existing[q]) : log'[i] = log[i]
    BY <2>1, <1>1, <1>2
  <2>3. Cardinality(Foreign(log, q, input[q], Len(log)))
          <= Cardinality(Foreign(log', q, input[q], Len(log')))
    BY <2>1, <1>1, ForeignKept
  <2>4. Cardinality(Foreign(log, q, input[q], Len(existing[q])))
          <= Cardinality(Foreign(log', q, input[q], Len(existing[q])))
    <3> DEFINE e == Len(existing[q])
    <3>1. e \in Nat /\ e <= e /\ \A i \in 1..e : log'[i] = log[i]
      BY <2>2, <1>1
    <3> HIDE DEF e
    <3>2. Cardinality(Foreign(log, q, input[q], e)) <= Cardinality(Foreign(log', q, input[q], e))
      BY <3>1, <1>1, ForeignKept
    <3>3. QED
      BY <3>2 DEF e
  <2>5. QED
    BY <2>3, <2>4
<1>4. /\ Cardinality(Foreign(log, q, input[q], Len(log))) \in Nat
      /\ Cardinality(Foreign(log, q, input[q], Len(existing[q]))) \in Nat
      /\ Cardinality(Foreign(log', q, input[q], Len(log'))) \in Nat
      /\ Cardinality(Foreign(log', q, input[q], Len(existing[q]))) \in Nat
  BY <1>1, ForeignCount
<1>5. ASSUME \A i \in Len(existing[q]) + 1..Len(log) : log[i].req # q
      PROVE  \A i \in Len(existing[q]) + 1..Len(log') : log'[i].req # q
  <2> TAKE i \in Len(existing[q]) + 1..Len(log')
  <2>1. CASE i <= Len(log)
    <3>1. i \in 1..Len(log) /\ i \in Len(existing[q]) + 1..Len(log)
      BY <2>1, <1>1
    <3>2. QED
      BY <3>1, <1>5 DEF Extended
  <2>2. CASE i > Len(log)
    <3>1. i \in Len(log) + 1..Len(log')
      BY <2>2, <1>1
    <3>2. QED
      BY <3>1
  <2>3. QED
    BY <2>1, <2>2, <1>1
<1>6. Len(log) <= Len(log')
  BY DEF Extended
<1>7. MaxAttempts \in Int
  BY AttemptAssumption
<1>8. QED
  BY SMTT(30), <1>1, <1>3, <1>4, <1>5, <1>6, <1>7 DEF ContendedBy, Same

\* A request that finds the log beyond what it read has lost to somebody's batch.
LEMMA MissedHead ==
  ASSUME CInv, TypeOK', NEW r \in Request, pc[r] \in Attempting, Extended,
         Len(existing[r]) < Len(log)
  PROVE  Cardinality(Foreign(log', r, input[r], Len(log'))) >= attempt[r]
<1> DEFINE last == Len(log)
<1>1. /\ Len(log) \in Nat /\ Len(log') \in Nat /\ Len(existing[r]) \in Nat
      /\ input[r] \in Nat /\ attempt[r] \in Int
  BY SMTT(30), Lengths DEF CInv, IInv, TypeOK
<1>2. /\ input[r] <= Len(existing[r])
      /\ \A i \in Len(existing[r]) + 1..Len(log) : log[i].req # r
      /\ Cardinality(Foreign(log, r, input[r], Len(existing[r]))) >= attempt[r] - 1
  BY DEF CInv, Contended, ContendedBy
<1>3. last \in 1..Len(log) /\ last \in Len(existing[r]) + 1..Len(log)
  BY <1>1
<1>4. log[last] \in Row
  BY <1>3 DEF CInv, IInv, TypeOK
<1>5. log[last].at = log[last].of
  <2>1. log[last].at <= log[last].of
    BY <1>3 DEF CInv, Numerals
  <2>2. ~(log[last].at < log[last].of)
    BY <1>1, <1>3 DEF CInv, NoBatchCutShort
  <2>3. QED
    BY <2>1, <2>2, <1>4 DEF Row
<1>6. log'[last] = log[last] /\ last \in Len(existing[r]) + 1..Len(log')
  BY <1>1, <1>3 DEF Extended
<1>7. \A i \in 1..Len(existing[r]) : log'[i] = log[i]
  BY <1>1 DEF Extended
<1>8. Cardinality(Foreign(log, r, input[r], Len(existing[r]))) + 1
        <= Cardinality(Foreign(log', r, input[r], Len(log')))
  <2>1. log'[last].req # r /\ log'[last].at = log'[last].of
    BY <1>2, <1>3, <1>5, <1>6
  <2> HIDE DEF last
  <2>2. QED
    BY <2>1, <1>1, <1>2, <1>6, <1>7, ForeignMore
<1>9. /\ Cardinality(Foreign(log, r, input[r], Len(existing[r]))) \in Nat
      /\ Cardinality(Foreign(log', r, input[r], Len(log'))) \in Nat
  BY <1>1, ForeignCount
<1>10. QED
  BY <1>1, <1>2, <1>8, <1>9

\* The rows a transaction commits are those of its request, as they were numbered.
LEMMA CommittedRows ==
  ASSUME IInv, Labelled, NEW r \in Request, tx = r, stmt > Len(batch[r]), Grown
  PROVE  \A i \in Len(log) + 1..Len(log') : log'[i].req = r /\ log'[i].at <= log'[i].of
<1> DEFINE head == Len(log)
           size == Len(pending)
           read == Len(existing[r])
           whole == Len(batch[r])
<1>1. head \in Nat /\ size \in Nat /\ read \in Nat /\ whole \in Nat /\ stmt \in Nat
  BY DEF IInv, TypeOK
<1>2. /\ stmt \in 1..whole + 1
      /\ pending # <<>> => head + size = read + stmt - 1
      /\ \A i \in 1..size : pending[i] = batch[r][head - read + i]
  BY RequestAssumption DEF IInv, Transaction
<1>3. size > 0 => pending # <<>>
  OBVIOUS
<1>4. read <= head
  BY DEF IInv, Snapshots
<1>5. \A i \in 1..whole :
        batch[r][i].req = r /\ batch[r][i].at = i /\ batch[r][i].of = whole
  BY DEF Labelled
<1>6. /\ Len(log') = head + size
      /\ \A i \in 1..size : log'[head + i] = pending[i]
  BY DEF Grown
<1> HIDE DEF head, size, read, whole
<1>7. ASSUME NEW i \in head + 1..head + size
      PROVE  log'[i].req = r /\ log'[i].at <= log'[i].of
  <2>1. i - head \in 1..size /\ i = head + (i - head)
    BY <1>1
  <2>2. head - read + (i - head) \in 1..whole
    BY <2>1, <1>1, <1>2, <1>3, <1>4
  <2>3. log'[i] = batch[r][head - read + (i - head)]
    BY <2>1, <1>2, <1>6
  <2>4. QED
    BY <2>2, <2>3, <1>5
<1>8. QED
  BY <1>6, <1>7 DEF head, size

\* The steps of a request that leave the table alone.
LEMMA QuietContended ==
  ASSUME CInv, IInv', NEW r \in Request,
         \/ Receive(r) \/ ReadLog(r) \/ Decide(r) \/ CheckHead(r) \/ BeginBatch(r)
         \/ RunStatement(r) \/ HandleStale(r) \/ ReadFails(r) \/ AppendFails(r)
  PROVE  Contended'
<1> USE DEF Goto, Answer, requestVars, batchVars
<1>1. log' = log /\ Extended /\ \A i \in Len(log) + 1..Len(log') : FALSE
  <2>1. log' = log
    BY DEF Receive, ReceiveOrganiser, ReceiveFamily, ReadLog, Decide, RefuseStaleInput,
           Refuse, Prepare, CheckHead, BeginBatch, RunStatement, HandleStale, AnswerStale,
           RetryStale, GiveUp, ReadFails, AppendFails, Rollback
  <2>2. Len(log) \in Nat
    BY DEF CInv, IInv, TypeOK
  <2>3. QED
    BY <2>1, <2>2 DEF Extended
<1>2. /\ pc \in [Request -> Label] /\ answer \in [Request -> Outcome]
      /\ input \in [Request -> Nat] /\ existing \in [Request -> Seq(Row)]
      /\ attempt \in [Request -> 0..MaxAttempts]
  BY DEF CInv, IInv, TypeOK
<1>3. ASSUME NEW q \in Request, Same(q) PROVE ContendedBy(q)'
  BY <1>1, <1>3, OthersContended DEF CInv, Contended, IInv
<1>4. ASSUME NEW q \in Request, q # r PROVE Same(q)
  <2>1. CASE Receive(r) \/ ReadLog(r) \/ Decide(r) \/ CheckHead(r)
    BY <2>1, <1>2, <1>4
       DEF Receive, ReceiveOrganiser, ReceiveFamily, ReadLog, Decide, RefuseStaleInput,
           Refuse, Prepare, CheckHead, Same
  <2>2. CASE BeginBatch(r) \/ RunStatement(r)
    BY <2>2 DEF BeginBatch, RunStatement, Same
  <2>3. CASE HandleStale(r) \/ ReadFails(r) \/ AppendFails(r)
    BY <2>3, <1>2, <1>4
       DEF HandleStale, AnswerStale, RetryStale, GiveUp, ReadFails, AppendFails, FailAppend,
           Same
  <2>4. QED
    BY <2>1, <2>2, <2>3
<1>5. /\ Len(log) \in Nat /\ Len(existing[r]) \in Nat /\ input[r] \in Nat
      /\ attempt[r] \in Int
  BY Lengths DEF CInv, IInv
<1>6. /\ ContendedBy(r) /\ Len(existing[r]) <= Len(log)
      /\ answer[r] = "none" <=> pc[r] # "answered"
  BY DEF CInv, Contended, IInv, Snapshots, Answers
<1>7. ContendedBy(r)'
  <2>1. CASE Receive(r)
    <3>1. /\ pc'[r] = "reading" /\ attempt'[r] = 1 /\ answer'[r] = answer[r]
          /\ input'[r] \in 0..Len(log) /\ pc[r] = "idle"
      BY <2>1, <1>2, <1>5 DEF Receive, ReceiveOrganiser, ReceiveFamily
    <3>2. Cardinality(Foreign(log, r, input'[r], Len(log))) \in Nat
      BY <3>1, <1>5, ForeignCount
    <3>3. QED
      BY <3>1, <3>2, <1>1, <1>6 DEF ContendedBy, Attempting
  <2>2. CASE ReadLog(r)
    <3>1. /\ pc'[r] = "deciding" /\ pc[r] = "reading" /\ existing'[r] = log
          /\ attempt'[r] = attempt[r] /\ answer'[r] = answer[r] /\ input'[r] = input[r]
      BY <2>2, <1>2 DEF ReadLog
    <3>2. QED
      BY <3>1, <1>1, <1>6 DEF ContendedBy, Attempting
  <2>3. CASE Prepare(r) \/ (CheckHead(r) /\ HeadUnmoved(r))
    <3>1. /\ pc[r] \in Attempting /\ pc'[r] \in {"checking", "appending", "answered"}
          /\ answer'[r] \in {answer[r], "ok"} /\ UNCHANGED <<input, existing, attempt>>
      BY <2>3, <1>2 DEF Prepare, CheckHead, Attempting
    <3>2. QED
      BY <3>1, <1>1, <1>6 DEF ContendedBy, Attempting
  <2>4. CASE CheckHead(r) /\ ~HeadUnmoved(r)
    <3>1. /\ pc[r] = "checking" /\ pc'[r] = "stale"
          /\ UNCHANGED <<input, existing, attempt, answer>>
      BY <2>4, <1>2 DEF CheckHead
    <3>2. Len(existing[r]) < Len(log)
      BY <2>4, <1>5, <1>6 DEF HeadUnmoved
    <3>3. Cardinality(Foreign(log', r, input[r], Len(log'))) >= attempt[r]
      BY <3>1, <3>2, <1>1, MissedHead DEF Attempting, IInv
    <3>4. QED
      BY <3>1, <3>3, <1>1, <1>6 DEF ContendedBy, Attempting
  <2>5. CASE RefuseStaleInput(r) \/ Refuse(r) \/ AnswerStale(r) \/ ReadFails(r) \/ AppendFails(r)
    <3>1. /\ pc[r] # "idle" /\ pc'[r] = "answered" /\ input'[r] = input[r]
          /\ answer'[r] \in {"stale_head", "refused", "invalid_event", "error"}
      BY <2>5, <1>2
         DEF RefuseStaleInput, Refuse, AnswerStale, ReadFails, AppendFails, FailAppend,
             AfterAppendError, AppendError
    <3>2. QED
      BY <3>1, <1>1, <1>6 DEF ContendedBy, Attempting
  <2>6. CASE BeginBatch(r) \/ RunStatement(r)
    BY <2>6, <1>3 DEF BeginBatch, RunStatement, Same
  <2>7. CASE RetryStale(r)
    <3>1. /\ pc[r] = "stale" /\ pc'[r] = "reading" /\ attempt'[r] = attempt[r] + 1
          /\ UNCHANGED <<input, existing, answer>>
      BY <2>7, <1>2 DEF RetryStale
    <3>2. attempt'[r] - 1 = attempt[r] /\ answer'[r] = "none"
      BY <3>1, <1>5, <1>6
    <3>3. /\ input[r] <= Len(log)
          /\ Cardinality(Foreign(log, r, input[r], Len(log))) >= attempt[r]
      BY <3>1, <1>6 DEF ContendedBy
    <3>4. QED
      BY <3>1, <3>2, <3>3, <1>1 DEF ContendedBy, Attempting
  <2>8. CASE GiveUp(r)
    <3>1. /\ pc[r] = "stale" /\ pc'[r] = "answered" /\ answer'[r] = "conflict"
          /\ attempt[r] = MaxAttempts /\ input' = input
      BY <2>8, <1>2 DEF GiveUp
    <3>2. /\ input[r] <= Len(log)
          /\ Cardinality(Foreign(log, r, input[r], Len(log))) >= MaxAttempts
      BY <3>1, <1>6 DEF ContendedBy
    <3>3. QED
      BY <3>1, <3>2, <1>1 DEF ContendedBy, Attempting
  <2>9. QED
    BY <2>1, <2>2, <2>3, <2>4, <2>5, <2>6, <2>7, <2>8 DEF Decide, HandleStale
<1>8. QED
  BY <1>3, <1>4, <1>7 DEF Contended

\* A batch that commits and is told stale came to a log that others had moved.
LEMMA CommitContended ==
  ASSUME CInv, IInv', NEW r \in Request, CommitBatch(r) \/ LoseCommit(r)
  PROVE  Contended' /\ Numerals'
<1> USE DEF Goto, Answer
<1>1. /\ tx = r /\ stmt > Len(batch[r]) /\ log' = log \o pending
      /\ UNCHANGED <<input, existing, attempt>>
  BY DEF CommitBatch, LoseCommit
<1>2. Grown /\ \A i \in Len(log) + 1..Len(log') : log'[i].req = r /\ log'[i].at <= log'[i].of
  BY <1>1, Appends, CommittedRows DEF CInv
<1>3. /\ Len(log) \in Nat /\ Len(log') \in Nat /\ Len(existing[r]) \in Nat
      /\ Len(batch[r]) \in Nat /\ Len(pending) \in Nat /\ stmt \in Nat
      /\ pc \in [Request -> Label] /\ answer \in [Request -> Outcome]
  <2>1. /\ Len(log) \in Nat /\ Len(existing[r]) \in Nat /\ Len(batch[r]) \in Nat
        /\ Len(pending) \in Nat
    BY Lengths DEF CInv, IInv
  <2>2. log' \in Seq(Row)
    BY DEF IInv, TypeOK
  <2>3. Len(log') \in Nat
    BY <2>2
  <2>4. QED
    BY <2>1, <2>3 DEF CInv, IInv, TypeOK
<1>4. Extended
  BY <1>2, <1>3 DEF Grown, Extended
<1>5. pc[r] = "appending" /\ stmt \in 1..Len(batch[r]) + 1 /\ answer[r] = "none"
  BY <1>1, RequestAssumption DEF CInv, IInv, Transaction, Answers
<1>6. Numerals'
  <2> SUFFICES ASSUME NEW i \in 1..Len(log') PROVE log'[i].at <= log'[i].of
    BY DEF Numerals
  <2>1. CASE i \in 1..Len(log)
    BY <2>1, <1>4 DEF Extended, CInv, Numerals
  <2>2. CASE i \notin 1..Len(log)
    <3>1. i \in Len(log) + 1..Len(log')
      BY <2>2, <1>3
    <3>2. QED
      BY <3>1, <1>2
  <2>3. QED
    BY <2>1, <2>2
<1>7. ASSUME NEW q \in Request, q # r PROVE ContendedBy(q)'
  <2>1. Same(q)
    BY <1>1, <1>3, <1>7 DEF CommitBatch, LoseCommit, FailAppend, Same
  <2>2. \A i \in Len(log) + 1..Len(log') : log'[i].req # q
    BY <1>2, <1>7
  <2>3. QED
    BY <2>1, <2>2, <1>4, OthersContended DEF CInv, Contended, IInv
<1>8. ContendedBy(r)'
  <2>1. input[r] <= Len(log')
    <3>1. input[r] <= Len(log) /\ input[r] \in Nat
      BY <1>5, Lengths DEF CInv, IInv, Contended, ContendedBy
    <3>2. QED
      BY <3>1, <1>3, <1>4 DEF Extended
  <2>2. CASE LoseCommit(r) \/ EveryStatementInserted(r)
    <3>1. pc'[r] = "answered" /\ answer'[r] \in {"ok", "invalid_event", "error"}
      BY <2>2, <1>3 DEF CommitBatch, LoseCommit, FailAppend, AfterAppendError, AppendError
    <3>2. QED
      BY <3>1, <2>1, <1>1 DEF ContendedBy, Attempting
  <2>3. CASE CommitBatch(r) /\ ~EveryStatementInserted(r)
    <3>1. pc'[r] = "stale" /\ answer'[r] = "none"
      BY <2>3, <1>3, <1>5 DEF CommitBatch
    <3>2. Len(existing[r]) < Len(log)
      <4>1. Len(pending) # stmt - 1
        BY <2>3, <1>1, <1>3, <1>5 DEF EveryStatementInserted
      <4>2. Len(log) # Len(existing[r])
        BY <4>1, <1>1, RequestAssumption DEF CInv, EachInserted
      <4>3. Len(existing[r]) <= Len(log)
        BY DEF CInv, IInv, Snapshots
      <4>4. QED
        BY <4>2, <4>3, <1>3
    <3>3. Cardinality(Foreign(log', r, input[r], Len(log'))) >= attempt[r]
      BY <3>2, <1>4, <1>5, MissedHead DEF Attempting, IInv
    <3>4. QED
      BY <3>1, <3>3, <2>1, <1>1 DEF ContendedBy, Attempting
  <2>4. QED
    BY <2>2, <2>3
<1>9. QED
  BY <1>6, <1>7, <1>8 DEF Contended

LEMMA EachInsertedStep ==
  ASSUME IInv, IInv', EachInserted, [Next]_vars
  PROVE  EachInserted'
<1> USE RequestAssumption DEF Goto, Answer, requestVars, batchVars
<1>1. ASSUME NEW r \in Request, RunStatement(r) PROVE EachInserted'
  <2>1. /\ tx = r /\ stmt <= Len(batch[r]) /\ stmt' = stmt + 1
        /\ UNCHANGED <<log, tx, existing, batch>>
        /\ pending' = IF SeqIsNext(batch[r][stmt])
                      THEN Append(pending, batch[r][stmt]) ELSE pending
    BY <1>1 DEF RunStatement
  <2>2. /\ Len(log) \in Nat /\ Len(existing[r]) \in Nat /\ Len(batch[r]) \in Nat
        /\ stmt \in Nat /\ pending \in Seq(Row)
    <3>1. TypeOK
      BY DEF IInv
    <3>2. QED
      BY <3>1, Lengths DEF TypeOK
  <2>3. stmt \in 1..Len(batch[r]) /\ batch[r][stmt].seq = Len(existing[r]) + stmt
    <3>1. stmt \in 1..Len(batch[r]) + 1 /\ pc[r] = "appending"
      BY <2>1 DEF IInv, Transaction
    <3>2. stmt \in 1..Len(batch[r])
      BY <3>1, <2>1, <2>2
    <3>3. QED
      BY <3>1, <3>2 DEF IInv, Numbered
  <2>4. ASSUME Len(log) = Len(existing[r]) PROVE Len(pending') = stmt' - 1
    <3>1. Len(pending) = stmt - 1
      BY <2>1, <2>4 DEF EachInserted
    <3>2. SeqIsNext(batch[r][stmt])
      BY <3>1, <2>2, <2>3, <2>4 DEF SeqIsNext
    <3>3. Len(Append(pending, batch[r][stmt])) = Len(pending) + 1
      BY <2>2
    <3>4. QED
      BY <3>1, <3>2, <3>3, <2>1, <2>2
  <2>5. QED
    BY <2>1, <2>4 DEF EachInserted
<1>2. ASSUME NEW r \in Request, BeginBatch(r) PROVE EachInserted'
  <2>1. tx = None /\ stmt' = 1 /\ pending' = pending
    BY <1>2 DEF BeginBatch
  <2>2. pending = <<>>
    BY <2>1 DEF IInv, Transaction
  <2>3. QED
    BY <2>1, <2>2 DEF EachInserted
<1>3. ASSUME NEW r \in Request, CommitBatch(r) \/ LoseCommit(r) PROVE EachInserted'
  BY <1>3 DEF CommitBatch, LoseCommit, EndBatch, EachInserted
<1>4. ASSUME NEW r \in Request, AppendFails(r) PROVE EachInserted'
  BY <1>4 DEF AppendFails, EndBatch, Rollback, EachInserted
<1>5. ASSUME NEW r \in Request, ReadLog(r) PROVE EachInserted'
  <2>1. tx # r
    BY <1>5 DEF ReadLog, IInv, Transaction
  <2>2. UNCHANGED <<log, batchVars>> /\ \A q \in Request : q # r => existing'[q] = existing[q]
    BY <1>5 DEF ReadLog, IInv, TypeOK
  <2>3. tx \in Request \cup {None}
    BY DEF IInv, TypeOK
  <2>4. QED
    BY <2>1, <2>2, <2>3 DEF EachInserted
<1>6. CASE UNCHANGED <<log, existing, tx, stmt, pending>>
  BY <1>6 DEF EachInserted
<1>7. QED
  BY <1>1, <1>2, <1>3, <1>4, <1>5, <1>6
     DEF Next, Receive, ReceiveOrganiser, ReceiveFamily, Work, Decide, RefuseStaleInput,
         Refuse, Prepare, CheckHead, WriteBatch, HandleStale, AnswerStale, RetryStale,
         GiveUp, Fail, ReadFails, Quiet, vars

LEMMA ContendedStep ==
  ASSUME CInv, IInv', [Next]_vars
  PROVE  Contended' /\ Numerals'
<1>1. CASE UNCHANGED vars
  <2>1. UNCHANGED <<log, pc, input, existing, attempt, answer>>
    BY <1>1 DEF vars, requestVars
  <2>2. QED
    BY <2>1 DEF CInv, Contended, ContendedBy, Numerals
<1>2. ASSUME NEW r \in Request, CommitBatch(r) \/ LoseCommit(r) PROVE Contended' /\ Numerals'
  BY <1>2, CommitContended
<1>3. ASSUME NEW r \in Request,
             \/ Receive(r) \/ ReadLog(r) \/ Decide(r) \/ CheckHead(r) \/ BeginBatch(r)
             \/ RunStatement(r) \/ HandleStale(r) \/ ReadFails(r) \/ AppendFails(r)
      PROVE  Contended' /\ Numerals'
  <2>1. log' = log
    BY <1>3
       DEF Receive, ReceiveOrganiser, ReceiveFamily, ReadLog, Decide, RefuseStaleInput,
           Refuse, Prepare, CheckHead, BeginBatch, RunStatement, HandleStale, AnswerStale,
           RetryStale, GiveUp, ReadFails, AppendFails, Rollback, requestVars
  <2>2. QED
    BY <2>1, <1>3, QuietContended DEF CInv, Numerals
<1>4. QED
  BY <1>1, <1>2, <1>3 DEF Next, Work, Fail, WriteBatch, Quiet

\* A family is told of a conflict only after MaxAttempts batches of others were
\* committed while its request ran (resources.ts:355-400).
THEOREM Contention == Spec => []ConflictMeansContention
<1> DEFINE More == Numerals /\ EachInserted /\ Contended
<1>1. Init => Labelled /\ NoBatchCutShort /\ More
  <2> SUFFICES ASSUME Init PROVE Labelled /\ NoBatchCutShort /\ More
    OBVIOUS
  <2>1. Labelled /\ NoBatchCutShort /\ Numerals /\ EachInserted
    BY DEF Init, Labelled, NoBatchCutShort, Numerals, EachInserted
  <2>2. \A r \in Request : pc[r] = "idle" /\ answer[r] = "none"
    BY DEF Init
  <2>3. QED
    BY <2>1, <2>2 DEF Contended, ContendedBy, Attempting
<1>2. /\ IInv /\ IInv' /\ Labelled /\ NoBatchCutShort /\ NoBatchCutShort' /\ More /\ [Next]_vars
        => Labelled' /\ More'
  BY LabelledStep, EachInsertedStep, ContendedStep DEF CInv
<1>3. IInv /\ More => ConflictMeansContention
  <2> SUFFICES ASSUME IInv, Contended, NEW r \in Request, answer[r] = "conflict"
               PROVE  Cardinality(ForeignCommits(r, input[r])) >= MaxAttempts
    BY DEF ConflictMeansContention
  <2>1. ForeignCommits(r, input[r]) = Foreign(log, r, input[r], Len(log))
    BY DEF ForeignCommits, Foreign
  <2>2. QED
    BY <2>1 DEF Contended, ContendedBy
<1>4. QED
  BY <1>1, <1>2, <1>3, Invariant, NotCutShort, PTL DEF Spec

-----------------------------------------------------------------------------
(***************************************************************************)
(* While every batch is a single event, the Worker's requests implement    *)
(* the atomic append of ReviewedLog, for every set of requests, every set  *)
(* of such batches and every fold: their interleaved awaits, retries and   *)
(* failures are steps of ReviewedLog or change nothing it sees.            *)
(*                                                                         *)
(* A transaction of one statement inserts its whole batch or nothing, and  *)
(* it inserts only behind the rows it was folded with.  So the log always  *)
(* folds, and whoever has a row in it has been answered.                   *)
(***************************************************************************)
Single == \A ds \in Batches : Len(ds) = 1

\* A batch on its way to the table is one row, and folds behind what was read.
Ready ==
  \A r \in Request : pc[r] \in {"checking", "appending"} =>
    /\ Len(batch[r]) = 1
    /\ Contents(batch[r]) \in Batches
    /\ Folds(Contents(existing[r]) \o Contents(batch[r]))

\* The log derives; each row is of another request, and that request is answered.
LogFolds == Folds(Contents(log))

RowsAnswered ==
  /\ \A i \in 1..Len(log) : answer[log[i].req] # "none"
  /\ \A i, j \in 1..Len(log) : log[i].req = log[j].req => i = j

SInv == IInv /\ Labelled /\ Ready /\ LogFolds /\ RowsAnswered

-----------------------------------------------------------------------------
LEMMA ContentsOf ==
  ASSUME NEW rows \in Seq(Row)
  PROVE  /\ Contents(rows) \in Seq(Draft)
         /\ Len(Contents(rows)) = Len(rows)
         /\ \A i \in 1..Len(rows) : Contents(rows)[i] = rows[i].draft
<1>1. Len(rows) \in Nat /\ \A i \in 1..Len(rows) : rows[i] \in Row
  OBVIOUS
<1>2. \A i \in 1..Len(rows) : rows[i].draft \in Draft
  BY <1>1 DEF Row
<1>. QED
  BY <1>1, <1>2 DEF Contents

LEMMA ContentsAppended ==
  ASSUME NEW a \in Seq(Row), NEW b \in Seq(Row)
  PROVE  Contents(a \o b) = Contents(a) \o Contents(b)
<1>1. /\ a \o b \in Seq(Row) /\ Len(a \o b) = Len(a) + Len(b)
      /\ \A i \in 1..Len(a) : (a \o b)[i] = a[i]
      /\ \A i \in 1..Len(b) : (a \o b)[Len(a) + i] = b[i]
  BY Concatenated, ConcatProperties
<1>2. /\ Contents(a) \in Seq(Draft) /\ Contents(b) \in Seq(Draft)
      /\ Contents(a \o b) \in Seq(Draft)
      /\ Len(Contents(a)) = Len(a) /\ Len(Contents(b)) = Len(b)
      /\ Len(Contents(a \o b)) = Len(a) + Len(b)
  BY <1>1, ContentsOf
<1>3. /\ Contents(a) \o Contents(b) \in Seq(Draft)
      /\ Len(Contents(a) \o Contents(b)) = Len(a) + Len(b)
      /\ \A i \in 1..Len(a) + Len(b) : (Contents(a) \o Contents(b))[i] =
           IF i <= Len(a) THEN Contents(a)[i] ELSE Contents(b)[i - Len(a)]
  BY <1>2, ConcatProperties
<1>4. ASSUME NEW i \in 1..Len(a) + Len(b)
      PROVE  Contents(a \o b)[i] = (Contents(a) \o Contents(b))[i]
  <2>0. Len(a) \in Nat /\ Len(b) \in Nat /\ i \in Int
    OBVIOUS
  <2>1. Contents(a \o b)[i] = (a \o b)[i].draft
    <3>1. \A k \in 1..Len(a \o b) : Contents(a \o b)[k] = (a \o b)[k].draft
      BY <1>1, ContentsOf
    <3>. QED
      BY <3>1, <1>1
  <2>2. CASE i <= Len(a)
    <3>1. i \in 1..Len(a)
      BY <2>0, <2>2
    <3>2. (a \o b)[i] = a[i] /\ Contents(a)[i] = a[i].draft
      BY <3>1, <1>1, ContentsOf
    <3>. QED
      BY <2>1, <2>2, <3>2, <1>3
  <2>3. CASE i > Len(a)
    <3>1. i - Len(a) \in 1..Len(b) /\ Len(a) + (i - Len(a)) = i
      BY <2>0, <2>3
    <3>2. (a \o b)[i] = b[i - Len(a)] /\ Contents(b)[i - Len(a)] = b[i - Len(a)].draft
      BY <3>1, <1>1, ContentsOf
    <3>. QED
      BY <2>1, <2>3, <3>2, <1>3
  <2>4. i <= Len(a) \/ i > Len(a)
    BY <2>0
  <2>. QED
    BY <2>2, <2>3, <2>4, Zenon
<1>. QED
  BY <1>2, <1>3, <1>4, SeqEqual

LEMMA ContentsPrepared ==
  ASSUME NEW r \in Request, NEW head \in Nat, NEW ds \in Batches
  PROVE  Contents(Prepared(r, head, ds)) = ds
<1>1. ds \in Seq(Draft) /\ Len(ds) \in Nat
  BY BatchAssumption
<1>2. /\ Prepared(r, head, ds) \in Seq(Row)
      /\ Len(Prepared(r, head, ds)) = Len(ds)
      /\ \A i \in 1..Len(ds) : Prepared(r, head, ds)[i].draft = ds[i]
  <2>1. Prepared(r, head, ds) \in Seq(Row) /\ Len(Prepared(r, head, ds)) = Len(ds)
    BY PreparedIsRows
  <2>. QED
    BY <2>1, Zenon DEF Prepared
<1>3. /\ Contents(Prepared(r, head, ds)) \in Seq(Draft)
      /\ Len(Contents(Prepared(r, head, ds))) = Len(ds)
      /\ \A i \in 1..Len(ds) : Contents(Prepared(r, head, ds))[i] = ds[i]
  BY <1>2, ContentsOf
<1>. QED
  BY <1>1, <1>3, SeqEqual

-----------------------------------------------------------------------------
(***************************************************************************)
(* What a step of a request does to the log and to the answers.            *)
(***************************************************************************)
\* A transaction that is about to end has inserted its batch behind what its
\* request read, or nothing.
LEMMA WholeOrNothing ==
  ASSUME SInv, NEW r \in Request, tx = r, stmt > Len(batch[r])
  PROVE  /\ pc[r] = "appending" /\ answer[r] = "none"
         /\ \/ pending = <<>> /\ ~EveryStatementInserted(r)
            \/ log = existing[r] /\ pending = batch[r] /\ EveryStatementInserted(r)
<1>1. /\ log \in Seq(Row) /\ existing[r] \in Seq(Row)
      /\ pending \in Seq(Row) /\ batch[r] \in Seq(Row) /\ stmt \in Nat
  BY DEF SInv, IInv, TypeOK
<1>2. /\ pc[r] = "appending" /\ stmt \in 1..Len(batch[r]) + 1
      /\ pending # <<>> => Len(log) + Len(pending) = Len(existing[r]) + stmt - 1
  BY RequestAssumption DEF SInv, IInv, Transaction
<1>3. answer[r] = "none" /\ Len(batch[r]) = 1
  BY <1>2 DEF SInv, IInv, Answers, Ready
<1>4. Len(existing[r]) <= Len(log) /\ \A i \in 1..Len(existing[r]) : existing[r][i] = log[i]
  BY DEF SInv, IInv, Snapshots
<1>5. CASE pending = <<>>
  <2>1. Len(pending) = 0
    BY <1>5
  <2>. QED
    BY <2>1, <1>2, <1>3, <1>5 DEF EveryStatementInserted
<1>6. CASE pending # <<>>
  <2>1. Len(pending) > 0 /\ Len(log) \in Nat /\ Len(existing[r]) \in Nat
    BY <1>1, <1>6, EmptySeq
  <2>2. Len(pending) = 1 /\ Len(log) = Len(existing[r])
    BY <2>1, <1>1, <1>2, <1>3, <1>4, <1>6
  <2>3. EveryStatementInserted(r)
    BY <2>2, <1>3 DEF EveryStatementInserted
  <2>4. log = existing[r]
    BY <2>2, <1>1, <1>4, SeqEqual
  <2>5. batch[r] # <<>>
    BY SMTT(30), <1>3
  <2>6. \A i \in 1..Len(batch[r]) : pending[i] = batch[r][i]
    BY <2>3, <2>5, WholeBatch DEF SInv
  <2>7. pending = batch[r]
    BY <2>2, <2>6, <1>1, <1>3, SeqEqual
  <2>. QED
    BY <2>3, <2>4, <2>7, <1>2, <1>3
<1>. QED
  BY <1>5, <1>6

Says(r, a) == answer[r] = "none" /\ answer' = [answer EXCEPT ![r] = a]

LEMMA Effects ==
  ASSUME SInv, NEW r \in Request, Receive(r) \/ Work(r) \/ Fail(r)
  PROVE  \/ UNCHANGED <<log, answer>>
         \/ UNCHANGED log /\ \E a \in Outcome \ {"none"} : Says(r, a)
         \/ /\ pc[r] = "appending" /\ log = existing[r] /\ log' = log \o batch[r]
            /\ \E a \in {"ok", "invalid_event", "error"} : Says(r, a)
<1>1. pc[r] # "answered" => answer[r] = "none"
  BY DEF SInv, IInv, Answers
<1>2. CASE Receive(r) \/ ReadLog(r) \/ CheckHead(r) \/ BeginBatch(r) \/ RunStatement(r)
           \/ RetryStale(r)
  BY <1>2 DEF Receive, ReceiveOrganiser, ReceiveFamily, ReadLog, CheckHead, BeginBatch,
              RunStatement, RetryStale, requestVars
<1>3. CASE RefuseStaleInput(r) \/ Refuse(r) \/ AnswerStale(r) \/ GiveUp(r) \/ ReadFails(r)
  <2>1. /\ UNCHANGED log /\ pc[r] # "answered"
        /\ \E a \in Outcome \ {"none"} : answer' = [answer EXCEPT ![r] = a]
    BY <1>3 DEF RefuseStaleInput, Refuse, AnswerStale, GiveUp, ReadFails, AppendError, Answer,
                Outcome
  <2>. QED
    BY <2>1, <1>1 DEF Says
<1>4. CASE Prepare(r)
  <2>1. /\ UNCHANGED log /\ pc[r] # "answered"
        /\ UNCHANGED answer \/ answer' = [answer EXCEPT ![r] = "ok"]
    BY <1>4 DEF Prepare, Answer
  <2>. QED
    BY <2>1, <1>1 DEF Says, Outcome
<1>5. CASE CommitBatch(r)
  <2>1. /\ tx = r /\ stmt > Len(batch[r]) /\ log' = log \o pending
        /\ IF EveryStatementInserted(r) THEN answer' = [answer EXCEPT ![r] = "ok"]
                                        ELSE UNCHANGED answer
    BY <1>5 DEF CommitBatch, Answer
  <2>2. pending = <<>> => log' = log
    BY <2>1 DEF SInv, IInv, TypeOK
  <2>. QED
    BY <2>1, <2>2, WholeOrNothing DEF Says
<1>6. CASE LoseCommit(r)
  <2>1. /\ tx = r /\ stmt > Len(batch[r]) /\ log' = log \o pending
        /\ \E a \in {"invalid_event", "error"} : answer' = [answer EXCEPT ![r] = a]
    BY <1>6 DEF LoseCommit, FailAppend, AfterAppendError, AppendError
  <2>2. pending = <<>> => log' = log
    BY <2>1 DEF SInv, IInv, TypeOK
  <2>. QED
    BY <2>1, <2>2, WholeOrNothing DEF Says, Outcome
<1>7. CASE AppendFails(r)
  <2>1. /\ UNCHANGED log /\ pc[r] # "answered"
        /\ \E a \in {"invalid_event", "error"} : answer' = [answer EXCEPT ![r] = a]
    BY <1>7 DEF AppendFails, FailAppend, AfterAppendError, AppendError, Rollback
  <2>. QED
    BY <2>1, <1>1 DEF Says, Outcome
<1>. QED
  BY <1>2, <1>3, <1>4, <1>5, <1>6, <1>7
     DEF Work, Decide, WriteBatch, HandleStale, Fail

\* What a committed batch makes of the contents.
LEMMA Committing ==
  ASSUME SInv, NEW r \in Request, pc[r] = "appending", log = existing[r]
  PROVE  /\ Contents(batch[r]) \in Batches
         /\ Contents(log \o batch[r]) = Contents(log) \o Contents(batch[r])
         /\ Folds(Contents(log) \o Contents(batch[r]))
<1>1. log \in Seq(Row) /\ batch[r] \in Seq(Row)
  BY DEF SInv, IInv, TypeOK
<1>. QED
  BY <1>1, ContentsAppended DEF SInv, Ready

-----------------------------------------------------------------------------
LEMMA ReadyStep ==
  ASSUME Single, SInv, NEW r \in Request, Receive(r) \/ Work(r) \/ Fail(r)
  PROVE  Ready'
<1>. DEFINE Sending == {"checking", "appending"}
<1>1. /\ pc \in [Request -> Label] /\ existing \in [Request -> Seq(Row)]
      /\ batch \in [Request -> Seq(Row)] /\ answer \in [Request -> Outcome]
  BY DEF SInv, IInv, TypeOK
<1>2. CASE /\ UNCHANGED batch
           /\ \E l : pc' = [pc EXCEPT ![r] = l] /\ (l \in Sending => pc[r] \in Sending)
           /\ \/ UNCHANGED existing
              \/ pc'[r] \notin Sending /\ \E rows : existing' = [existing EXCEPT ![r] = rows]
  <2>1. ASSUME NEW q \in Request, pc'[q] \in Sending
        PROVE  pc[q] \in Sending /\ existing'[q] = existing[q] /\ batch'[q] = batch[q]
    BY <2>1, <1>1, <1>2
  <2>. QED
    BY <2>1 DEF SInv, Ready
<1>3. CASE Prepare(r)
  <2>1. PICK ds \in Asked(r) :
          /\ Reviewed(existing[r], ds)
          /\ batch' = [batch EXCEPT ![r] = Prepared(r, Len(existing[r]), ds)]
          /\ IF ds = <<>> THEN Answer(r, "ok") ELSE Goto(r, "checking") /\ UNCHANGED answer
    BY <1>3 DEF Prepare
  <2>2. UNCHANGED existing /\ ds \in Batches \cup {<<>>} /\ Len(existing[r]) \in Nat
    BY <1>1, <1>3, <2>1 DEF Prepare, Asked, SInv, IInv, TypeOK
  <2>3. ASSUME NEW q \in Request, q # r, pc'[q] \in Sending
        PROVE  pc[q] \in Sending /\ batch'[q] = batch[q]
    BY <2>1, <2>3, <1>1 DEF Answer, Goto
  <2>4. ASSUME pc'[r] \in Sending
        PROVE  /\ Len(batch'[r]) = 1 /\ Contents(batch'[r]) \in Batches
               /\ Folds(Contents(existing[r]) \o Contents(batch'[r]))
    <3>1. ds \in Batches
      BY <2>1, <2>2, <2>4, <1>1 DEF Answer, Goto
    <3>2. batch'[r] = Prepared(r, Len(existing[r]), ds)
      BY <2>1, <1>1
    <3>3. Len(batch'[r]) = 1
      BY <2>2, <3>1, <3>2, PreparedIsRows DEF Single
    <3>4. Contents(batch'[r]) = ds
      BY <2>2, <3>1, <3>2, ContentsPrepared
    <3>. QED
      BY <2>1, <3>1, <3>3, <3>4 DEF Reviewed
  <2>. QED
    BY <2>2, <2>3, <2>4 DEF SInv, Ready
<1>4. CASE Receive(r) \/ ReadLog(r) \/ RefuseStaleInput(r) \/ Refuse(r) \/ CheckHead(r)
           \/ HandleStale(r) \/ ReadFails(r)
  BY <1>1, <1>2, <1>4
     DEF Receive, ReceiveOrganiser, ReceiveFamily, ReadLog, RefuseStaleInput, Refuse,
         CheckHead, HandleStale, AnswerStale, RetryStale, GiveUp, ReadFails, Answer, Goto
<1>5. CASE WriteBatch(r) \/ AppendFails(r) \/ LoseCommit(r)
  <2>1. UNCHANGED <<batch, existing>>
    BY <1>5 DEF WriteBatch, BeginBatch, RunStatement, CommitBatch, AppendFails, LoseCommit,
                requestVars
  <2>2. UNCHANGED pc \/ \E l : pc' = [pc EXCEPT ![r] = l] /\ l \notin Sending
    <3>1. CASE BeginBatch(r) \/ RunStatement(r)
      BY <3>1 DEF BeginBatch, RunStatement, requestVars
    <3>2. CASE CommitBatch(r)
      BY <3>2 DEF CommitBatch, Answer, Goto, Sending
    <3>3. CASE AppendFails(r) \/ LoseCommit(r)
      BY <3>3 DEF AppendFails, LoseCommit, FailAppend, AfterAppendError, Goto, Sending
    <3>. QED
      BY <1>5, <3>1, <3>2, <3>3 DEF WriteBatch
  <2>. QED
    BY <2>1, <2>2, <1>1, <1>2 DEF SInv, Ready
<1>. QED
  BY <1>3, <1>4, <1>5 DEF Work, Decide, Fail

LEMMA TableStep ==
  ASSUME SInv, TypeOK', Labelled', NEW r \in Request, Receive(r) \/ Work(r) \/ Fail(r)
  PROVE  LogFolds' /\ RowsAnswered'
<1>1. answer \in [Request -> Outcome] /\ log \in Seq(Row) /\ log' \in Seq(Row)
  BY DEF SInv, IInv, TypeOK
<1>2. \A i \in 1..Len(log) : log[i] \in Row /\ log[i].req \in Request
  <2>1. \A i \in 1..Len(log) : log[i] \in Row
    BY <1>1
  <2>. QED
    BY <2>1 DEF Row
<1>3. CASE UNCHANGED log /\ \/ UNCHANGED answer
                            \/ \E a \in Outcome \ {"none"} : Says(r, a)
  <2>1. \A q \in Request : answer[q] # "none" => answer'[q] # "none"
    BY <1>1, <1>3 DEF Says
  <2>. QED
    BY <2>1, <1>2, <1>3 DEF SInv, LogFolds, RowsAnswered, Contents
<1>4. CASE /\ pc[r] = "appending" /\ log = existing[r] /\ log' = log \o batch[r]
           /\ \E a \in {"ok", "invalid_event", "error"} : Says(r, a)
  <2>0. /\ batch[r] \in Seq(Row) /\ Len(batch[r]) = 1 /\ Len(log) \in Nat
    BY <1>1, <1>4 DEF SInv, IInv, TypeOK, Ready
  <2>1. Len(log) \in Nat /\ batch[r][1].req = r
    BY <2>0 DEF SInv, Labelled
  <2>2. /\ Len(log') = Len(log) + 1
        /\ \A i \in 1..Len(log) : log'[i] = log[i]
        /\ log'[Len(log) + 1] = batch[r][1]
    <3>1. /\ Len(log \o batch[r]) = Len(log) + Len(batch[r])
          /\ \A i \in 1..Len(log) : (log \o batch[r])[i] = log[i]
          /\ \A i \in 1..Len(batch[r]) : (log \o batch[r])[Len(log) + i] = batch[r][i]
      BY <1>1, <2>0, Concatenated
    <3>2. (log \o batch[r])[Len(log) + 1] = batch[r][1]
      BY <3>1, <2>0
    <3>3. log' = log \o batch[r]
      BY <1>4
    <3>. QED
      BY <3>1, <3>2, <3>3, <2>0, Zenon
  <2>3. LogFolds'
    BY <1>4, Committing DEF LogFolds, Contents
  <2>4. /\ \A i \in 1..Len(log) : log[i].req # r
        /\ answer'[r] # "none"
        /\ \A q \in Request : answer[q] # "none" => answer'[q] # "none"
    BY <1>1, <1>2, <1>4 DEF Says, SInv, RowsAnswered
  <2>5. \A i \in 1..Len(log') : i \in 1..Len(log) \/ i = Len(log) + 1
    BY <2>1, <2>2
  <2>6. \A i \in 1..Len(log') : answer'[log'[i].req] # "none"
    BY <2>1, <2>2, <2>4, <2>5, <1>2 DEF SInv, RowsAnswered
  <2>7. \A i, j \in 1..Len(log') : log'[i].req = log'[j].req => i = j
    BY <2>1, <2>2, <2>4, <2>5 DEF SInv, RowsAnswered
  <2>. QED
    BY <2>3, <2>6, <2>7 DEF RowsAnswered
<1>. QED
  BY <1>3, <1>4, Effects

LEMMA SingleInit == Init => Labelled /\ Ready /\ LogFolds /\ RowsAnswered
<1>. SUFFICES ASSUME Init PROVE Labelled /\ Ready /\ LogFolds /\ RowsAnswered
  OBVIOUS
<1>1. Contents(<<>>) = <<>>
  BY DEF Contents
<1>. QED
  BY <1>1, FoldAssumption DEF Init, Labelled, Ready, LogFolds, RowsAnswered

LEMMA SingleStep ==
  ASSUME Single, SInv, IInv', [Next]_vars
  PROVE  SInv'
<1>1. Labelled'
  BY LabelledStep DEF SInv
<1>2. TypeOK'
  BY DEF IInv
<1>3. ASSUME NEW r \in Request, Receive(r) \/ Work(r) \/ Fail(r) PROVE SInv'
  BY <1>1, <1>2, <1>3, ReadyStep, TableStep DEF SInv
<1>4. CASE UNCHANGED vars
  BY SMTT(30), <1>4
  DEF vars, requestVars, SInv, IInv, Labelled, Ready, LogFolds, RowsAnswered, Contents
<1>. QED
  BY <1>3, <1>4 DEF Next, Quiet

\* With batches of one event the strengthened invariant holds in every state.
THEOREM SingleInvariant ==
  ASSUME Single PROVE Spec => []SInv
<1>1. Init => SInv
  BY SingleInit, InitInv DEF SInv
<1>2. SInv /\ IInv' /\ [Next]_vars => SInv'
  BY SingleStep
<1>. QED
  BY <1>1, <1>2, Invariant, PTL DEF Spec

\* Batches of one event are applied at most once, whatever their request is answered and
\* however often it is tried again.
THEOREM Once ==
  ASSUME Single PROVE Spec => []AppliedAtMostOnce
<1>1. SInv => AppliedAtMostOnce
  BY DEF SInv, RowsAnswered, AppliedAtMostOnce
<1>. QED
  BY <1>1, SingleInvariant, PTL

-----------------------------------------------------------------------------
(***************************************************************************)
(* The refinement.                                                         *)
(***************************************************************************)
outcome == [q \in Request |-> Settled(q)]

LEMMA Settling ==
  ASSUME TypeOK, NEW r \in Request, NEW a \in Outcome \ {"none"}, Says(r, a)
  PROVE  /\ outcome[r] = "open"
         /\ outcome' = [outcome EXCEPT ![r] = IF a = "ok" THEN "ok"
                                              ELSE IF a \in {"invalid_event", "error"}
                                              THEN "unknown"
                                              ELSE "denied"]
<1>1. answer \in [Request -> Outcome] /\ answer[r] = "none"
      /\ answer' = [answer EXCEPT ![r] = a]
  BY DEF TypeOK, Says
<1>2. outcome[r] = "open"
  BY <1>1 DEF outcome, Settled
<1>3. outcome' = [q \in Request |-> Settled(q)']
  BY DEF outcome
<1>4. \A q \in Request : Settled(q)' =
        IF q # r THEN Settled(q)
        ELSE IF a = "ok" THEN "ok"
        ELSE IF a \in {"invalid_event", "error"} THEN "unknown" ELSE "denied"
  BY <1>1 DEF Settled
<1>. QED
  BY <1>2, <1>3, <1>4 DEF outcome

LEMMA RefinesStep ==
  ASSUME SInv, TypeOK', NEW r \in Request, Receive(r) \/ Work(r) \/ Fail(r)
  PROVE  [Reviewing!Next]_Reviewing!vars
<1>1. log \in Seq(Row) /\ Contents(log) \in Seq(Draft)
  BY ContentsOf DEF SInv, IInv, TypeOK
<1>2. CASE UNCHANGED <<log, answer>>
  BY <1>2 DEF Reviewing!vars, Contents, Settled
<1>3. ASSUME UNCHANGED log, NEW a \in Outcome \ {"none"}, Says(r, a)
      PROVE  Reviewing!Next
  <2>1. UNCHANGED Contents(log)
    BY <1>3 DEF Contents
  <2>2. CASE a = "ok"
    <3>1. Reviewing!Settle(r, "ok")
      BY <1>3, <2>2, Settling DEF SInv, IInv, Reviewing!Settle, outcome
    <3>2. Contents(log) \o <<>> = Contents(log)
      BY <1>1
    <3>. QED
      BY <2>1, <3>1, <3>2 DEF Reviewing!Next, Reviewing!Commit, SInv, LogFolds
  <2>3. CASE a # "ok"
    <3>1. Reviewing!Settle(r, "denied") \/ Reviewing!Settle(r, "unknown")
      BY <1>3, <2>3, Settling DEF SInv, IInv, Reviewing!Settle, outcome
    <3>. QED
      BY <2>1, <3>1 DEF Reviewing!Next, Reviewing!Deny
  <2>. QED
    BY <2>2, <2>3
<1>4. ASSUME pc[r] = "appending", log = existing[r], log' = log \o batch[r],
             NEW a \in {"ok", "invalid_event", "error"}, Says(r, a)
      PROVE  Reviewing!Next
  <2>1. a \in Outcome \ {"none"}
    BY DEF Outcome
  <2>2. Reviewing!Settle(r, "ok") \/ Reviewing!Settle(r, "unknown")
    BY <1>4, <2>1, Settling DEF SInv, IInv, Reviewing!Settle, outcome
  <2>3. /\ Contents(batch[r]) \in Batches
        /\ Contents(log)' = Contents(log) \o Contents(batch[r])
        /\ Folds(Contents(log) \o Contents(batch[r]))
    BY <1>4, Committing DEF Contents
  <2>. QED
    BY <2>2, <2>3 DEF Reviewing!Next, Reviewing!Commit
<1>. QED
  BY <1>2, <1>3, <1>4, Effects

\* Single events are appended atomically: whoever is told "ok" is in the log, whoever is
\* refused is not, and the log always derives.
THEOREM Atomic ==
  ASSUME Single PROVE Spec => AppendIsAtomic
<1>1. Init => Reviewing!Init
  <2>. SUFFICES ASSUME Init PROVE Reviewing!Init
    OBVIOUS
  <2>1. Contents(log) = <<>> /\ \A q \in Request : answer[q] = "none"
    BY DEF Init, Contents
  <2>. QED
    BY <2>1 DEF Reviewing!Init, Settled
<1>2. SInv /\ SInv' /\ [Next]_vars => [Reviewing!Next]_Reviewing!vars
  <2>. SUFFICES ASSUME SInv, SInv', [Next]_vars PROVE [Reviewing!Next]_Reviewing!vars
    OBVIOUS
  <2>1. ASSUME NEW r \in Request, Receive(r) \/ Work(r) \/ Fail(r)
        PROVE  [Reviewing!Next]_Reviewing!vars
    BY <2>1, RefinesStep DEF SInv, IInv
  <2>2. CASE UNCHANGED vars
    BY <2>2 DEF vars, requestVars, Reviewing!vars, Contents, Settled
  <2>. QED
    BY <2>1, <2>2 DEF Next, Quiet
<1>. QED
  BY <1>1, <1>2, SingleInvariant, PTL DEF Spec, AppendIsAtomic, Reviewing!Spec
=============================================================================
