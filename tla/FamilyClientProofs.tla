------------------------- MODULE FamilyClientProofs -------------------------
(***************************************************************************)
(* For any number of requests at once, and whatever is typed, lost,        *)
(* reloaded or written elsewhere: a change replaces what the screen showed *)
(* to its author, the page holds what it was told is saved unless changes  *)
(* overlapped, and a person is added once more at most for each answer     *)
(* that was lost.                                                          *)
(*                                                                         *)
(* A version is written once, so that what the page fetched is older than  *)
(* the data or is the data (Fetched).  The keys of the forms tie what is   *)
(* composed to what is shown (Composed), and the ETag ties what is sent to *)
(* what it may replace (Sent).  While changes do not overlap, one load is  *)
(* under way, and it is newer than what the page holds (Alone).            *)
(*                                                                         *)
(* The second half counts a text in the list of people and on its way      *)
(* there: all but one of them were told as failed, and when its form may   *)
(* be sent, all of them (NotAgain).                                        *)
(***************************************************************************)
EXTENDS FamilyClient, FiniteSetTheorems, TLAPS

(***************************************************************************)
(* The inductive invariant.                                                *)
(***************************************************************************)
Stage == {"free", "sent", "ok", "changed", "failed", "unauthorized", "loading", "loaded"}

Field == [open : BOOLEAN, text : Nat, basis : Int, awaits : Slot \cup {None, "settled"}]

Change == [stage : Stage, form : Form, text : Nat, basis : Int, etag : Int,
           unrendered : BOOLEAN, wrote : Nat, got : Data \cup {None}]

Typed ==
  /\ data \in Data
  /\ at \in {"loading", "open", "failed", "login"} /\ pending \in BOOLEAN
  /\ held \in Data \cup {None}
  /\ screen \in [shows : Data \cup {None}, off : BOOLEAN]
  /\ form \in [Form -> Field]
  /\ request \in [Slot -> Change]
  /\ awaited \in SUBSET Slot
  /\ made \in Nat /\ doubted \in Seq(Nat) /\ saved \in Nat /\ overlapped \in BOOLEAN

\* Only an open page has forms and awaits answers, and only what is awaited is kept.
Paged ==
  /\ \A s \in Slot : request[s].stage \notin {"free", "sent"} => s \in awaited
  /\ \A s \in Slot : request[s].stage = "loaded" => request[s].got \in Data
  /\ at = "open" => held \in Data /\ screen.shows \in Data
  /\ at # "open" => awaited = {} /\ \A f \in Form : ~form[f].open

\* A version names one state of the data.
Old(d) == d.version <= data.version /\ (d.version = data.version => d = data)

Fetched ==
  /\ held \in Data => Old(held)
  /\ screen.shows \in Data => Old(screen.shows)
  /\ \A s \in Slot : request[s].stage = "loaded" => Old(request[s].got)

\* A form that outlives a render is one whose resource did not change.
Composed == \A f \in Form : form[f].open => form[f].basis = Part(screen.shows, f)

\* If its ETag still matches, a change replaces what its form was composed on.
Sent ==
  \A s \in Slot : request[s].stage = "sent" /\ ~request[s].unrendered =>
    /\ request[s].form = "create" => request[s].basis = 0
    /\ request[s].form = "person" => request[s].basis = request[s].etag
    /\ request[s].form = "family" =>
         /\ request[s].etag <= data.version
         /\ request[s].etag = data.version => request[s].basis = data.family

\* The load behind a change finds what the change wrote.
Written ==
  \A s \in Slot : request[s].stage \in {"ok", "changed", "loading"} =>
    request[s].wrote <= data.version

\* As long as one change runs at a time, a load brings nothing that is out of date.
Alone ==
  /\ at = "loading" => saved = 0
  /\ ~overlapped =>
       /\ \A s, t \in awaited : s = t
       /\ saved = 0 \/ (held \in Data /\ saved <= held.version)
       /\ \A s \in Slot : request[s].stage = "loaded" =>
            /\ request[s].wrote <= request[s].got.version
            /\ held \in Data => held.version <= request[s].got.version

IInv == Typed /\ Paged /\ Fetched /\ Composed /\ Sent /\ Written /\ Alone

-----------------------------------------------------------------------------
\* What the records hold.
LEMMA Fields ==
  /\ \A d \in Data : d.version \in Nat /\ d.family \in Int /\ d.person \in Int
                     /\ d.people \in Seq(Nat)
  /\ \A r \in Change : r.stage \in Stage /\ r.form \in Form /\ r.text \in Nat /\ r.basis \in Int
                     /\ r.etag \in Int /\ r.unrendered \in BOOLEAN /\ r.wrote \in Nat
                     /\ r.got \in Data \cup {None}
  /\ \A c \in Field : c.open \in BOOLEAN /\ c.text \in Nat /\ c.basis \in Int
                     /\ c.awaits \in Slot \cup {None, "settled"}
  /\ \A v \in [shows : Data \cup {None}, off : BOOLEAN] :
       v.shows \in Data \cup {None} /\ v.off \in BOOLEAN
BY DEF Data, Change, Field

LEMMA FreeIsTyped ==
  /\ Free \in Change /\ Free.stage = "free"
  /\ Closed \in Field /\ Closed.open = FALSE /\ Closed.awaits = None /\ Closed.text = 0
BY DEF Free, Closed, Change, Field, Stage, Form

\* A form that is opened, and one whose button is used or released.
Opened(r, t, b) == [r EXCEPT !.open = TRUE, !.text = t, !.basis = b]
Awaiting(r, x) == [r EXCEPT !.awaits = x]

LEMMA OpenedIs ==
  ASSUME NEW r \in Field, NEW t \in Nat, NEW b \in Int
  PROVE  /\ Opened(r, t, b) \in Field /\ Opened(r, t, b).open /\ Opened(r, t, b).text = t
         /\ Opened(r, t, b).basis = b /\ Opened(r, t, b).awaits = r.awaits
BY DEF Field, Opened

LEMMA AwaitingIs ==
  ASSUME NEW r \in Field, NEW x \in Slot \cup {None, "settled"}
  PROVE  /\ Awaiting(r, x) \in Field /\ Awaiting(r, x).open = r.open
         /\ Awaiting(r, x).text = r.text /\ Awaiting(r, x).basis = r.basis
         /\ Awaiting(r, x).awaits = x
BY DEF Field, Awaiting

\* A change that is sent, answered, or on its way to be loaded.
Sending(f, t, b, e, u) ==
  [Free EXCEPT !.stage = "sent", !.form = f, !.text = t, !.basis = b, !.etag = e,
               !.unrendered = u]
Staged(r, x) == [r EXCEPT !.stage = x]
Answered(r, x, v) == [r EXCEPT !.stage = x, !.wrote = v]
Loaded(r, d) == [r EXCEPT !.stage = "loaded", !.got = d]

LEMMA SendingIs ==
  ASSUME NEW f \in Form, NEW t \in Nat, NEW b \in Int, NEW e \in Int, NEW u \in BOOLEAN
  PROVE  LET r == Sending(f, t, b, e, u)
         IN  /\ r \in Change /\ r.stage = "sent" /\ r.form = f /\ r.text = t /\ r.basis = b
             /\ r.etag = e /\ r.unrendered = u
BY FreeIsTyped DEF Change, Stage, Sending

LEMMA StagedIs ==
  ASSUME NEW r \in Change, NEW x \in Stage
  PROVE  /\ Staged(r, x) \in Change /\ Staged(r, x).stage = x /\ Staged(r, x).form = r.form
         /\ Staged(r, x).text = r.text /\ Staged(r, x).wrote = r.wrote
BY DEF Change, Staged

LEMMA AnsweredIs ==
  ASSUME NEW r \in Change, NEW x \in Stage, NEW v \in Nat
  PROVE  /\ Answered(r, x, v) \in Change /\ Answered(r, x, v).stage = x
         /\ Answered(r, x, v).form = r.form /\ Answered(r, x, v).text = r.text
         /\ Answered(r, x, v).wrote = v
BY DEF Change, Answered

LEMMA LoadedIs ==
  ASSUME NEW r \in Change, NEW d \in Data
  PROVE  /\ Loaded(r, d) \in Change /\ Loaded(r, d).stage = "loaded"
         /\ Loaded(r, d).form = r.form /\ Loaded(r, d).text = r.text
         /\ Loaded(r, d).wrote = r.wrote /\ Loaded(r, d).got = d
BY DEF Change, Stage, Loaded

\* What the Worker writes is data of the next version.
LEMMA AppliedIs ==
  ASSUME data \in Data, NEW f \in Form, NEW t \in Int, f = "create" => t \in Nat
  PROVE  /\ Applied(f, t) \in Data /\ Applied(f, t).version = data.version + 1
         /\ Applied(f, t).people =
              IF f = "create" THEN Append(data.people, t) ELSE data.people
<1>0. /\ data.version \in Nat /\ data.family \in Int /\ data.person \in Int
      /\ data.people \in Seq(Nat)
      /\ data = [version |-> data.version, family |-> data.family, person |-> data.person,
                 people |-> data.people]
  BY DEF Data
<1>1. CASE f = "create"
  <2>1. Applied(f, t) = [version |-> data.version + 1, family |-> data.family,
                         person |-> data.person, people |-> Append(data.people, t)]
    BY <1>1, <1>0 DEF Applied
  <2>2. Append(data.people, t) \in Seq(Nat)
    BY <1>0, <1>1
  <2>. QED
    BY SMTT(30), <1>0, <1>1, <2>1, <2>2 DEF Data
<1>2. CASE f = "family"
  <2>1. Applied(f, t) = [version |-> data.version + 1, family |-> t,
                         person |-> data.person, people |-> data.people]
    BY <1>2, <1>0 DEF Applied
  <2>. QED
    BY <1>0, <1>2, <2>1 DEF Data
<1>3. CASE f = "person"
  <2>1. Applied(f, t) = [version |-> data.version + 1, family |-> data.family,
                         person |-> t, people |-> data.people]
    BY <1>3, <1>0 DEF Applied
  <2>. QED
    BY <1>0, <1>3, <2>1 DEF Data
<1>. QED
  BY <1>1, <1>2, <1>3 DEF Form

-----------------------------------------------------------------------------
(***************************************************************************)
(* One lemma for every action.                                             *)
(***************************************************************************)
LEMMA Initially == Init => IInv
<1>. SUFFICES ASSUME Init PROVE IInv
  OBVIOUS
<1>1. /\ data \in Data /\ data.version = 0
      /\ at = "loading" /\ held = None
      /\ screen \in [shows : Data \cup {None}, off : BOOLEAN] /\ screen.shows = None
      /\ awaited = {} /\ saved = 0
  BY DEF Init, Data
<1>2. /\ form \in [Form -> Field] /\ request \in [Slot -> Change]
      /\ \A f \in Form : ~form[f].open
      /\ \A s \in Slot : request[s].stage = "free"
  BY FreeIsTyped DEF Init
<1>3. made \in Nat /\ doubted \in Seq(Nat) /\ saved \in Nat /\ overlapped \in BOOLEAN
  <2>1. made = 0 /\ doubted = <<>> /\ saved = 0 /\ overlapped = FALSE
    BY DEF Init
  <2>2. made \in Nat /\ saved \in Nat /\ overlapped \in BOOLEAN
    BY <2>1
  <2>3. doubted \in Seq(Nat)
    BY <2>1
  <2>. QED
    BY <2>2, <2>3
<1>5. Typed
  BY <1>1, <1>2, <1>3 DEF Init, Typed
<1>4. Paged /\ Fetched /\ Composed /\ Sent /\ Written /\ Alone
  BY <1>1, <1>2, NoneAssumption DEF Paged, Fetched, Composed, Sent, Written, Alone
<1>. QED
  BY <1>5, <1>4 DEF IInv

LEMMA LoadKeeps ==
  ASSUME IInv, Load
  PROVE  IInv'
<1>. USE DEF IInv
<1>1. UNCHANGED <<data, pending, form, awaited, request, made, doubted, saved, overlapped>>
      /\ at = "loading" /\ at' \in {"open", "failed", "login"}
  BY DEF Load, history
<1>2. \/ at' = "open" /\ held' = data /\ screen'.shows = data
      \/ at' \in {"failed", "login"} /\ held' = held /\ screen'.shows = screen.shows
  BY DEF Load
<1>3. screen' \in [shows : Data \cup {None}, off : BOOLEAN] /\ held' \in Data \cup {None}
  <2>1. CASE screen' = [shows |-> data, off |-> FALSE] /\ held' = data
    BY <2>1 DEF Typed
  <2>2. CASE screen' = screen /\ held' = held
    BY <2>2 DEF Typed
  <2>. QED
    BY <2>1, <2>2 DEF Load
<1>4. Typed'
  BY <1>1, <1>3 DEF Typed
<1>5. Paged'
  BY <1>1, <1>2 DEF Paged, Typed
<1>6. Fetched'
  <2>1. Old(data) /\ UNCHANGED data
    BY <1>1, Fields DEF Old, Typed
  <2>. QED
    BY <1>1, <1>2, <2>1 DEF Fetched, Old
<1>7. Composed'
  BY <1>1, <1>2 DEF Composed, Paged
<1>8. Sent' /\ Written'
  BY <1>1 DEF Sent, Written
<1>9. Alone'
  BY <1>1, <1>2 DEF Alone, Paged
<1>. QED
  BY <1>4, <1>5, <1>6, <1>7, <1>8, <1>9

LEMMA ReloadKeeps ==
  ASSUME IInv, Reload
  PROVE  IInv'
<1>. USE DEF IInv
<1>1. /\ UNCHANGED <<data, made, doubted>>
      /\ at' = "loading" /\ held' = None /\ pending' = FALSE
      /\ awaited' = {} /\ saved' = 0 /\ overlapped' = FALSE
  BY DEF Reload
<1>2. screen' \in [shows : Data \cup {None}, off : BOOLEAN] /\ screen'.shows = None
  BY DEF Reload
<1>3. \A s \in Slot : \/ request'[s] = Free
                      \/ request'[s] = request[s] /\ request[s].stage = "sent"
  BY DEF Reload
<1>4. request' \in [Slot -> Change]
  BY FreeIsTyped DEF Reload, Typed
<1>5. form' \in [Form -> Field] /\ \A f \in Form : ~form'[f].open
  BY FreeIsTyped DEF Reload
<1>6. Typed'
  BY <1>1, <1>2, <1>4, <1>5 DEF Typed
<1>7. \A s \in Slot : request'[s].stage \in {"free", "sent"}
  BY <1>3, FreeIsTyped
<1>8. Paged' /\ Fetched' /\ Composed' /\ Written' /\ Alone'
  BY <1>1, <1>2, <1>5, <1>7, NoneAssumption DEF Paged, Fetched, Composed, Written, Alone
<1>9. Sent'
  BY <1>1, <1>3, FreeIsTyped DEF Sent
<1>. QED
  BY <1>6, <1>8, <1>9

LEMMA RenderKeeps ==
  ASSUME IInv, Render
  PROVE  IInv'
<1>. USE DEF IInv
<1>1. /\ UNCHANGED <<data, at, held, pending, awaited, request, made, doubted, saved,
                      overlapped>>
      /\ at = "open" /\ held \in Data
  BY DEF Render, history, Paged
<1>2. screen'.shows = held
  BY DEF Render
<1>3. ASSUME NEW f \in Form
      PROVE  \/ form'[f] = Closed
             \/ /\ form'[f] = form[f] \/ form'[f] = Awaiting(form[f], None)
                /\ Part(held, f) = Part(screen.shows, f)
  BY DEF Render, Remounted, Awaiting
<1>4. form' \in [Form -> Field]
  <2>1. ASSUME NEW f \in Form
        PROVE  form'[f] \in Field
    <3>1. form[f] \in Field
      BY DEF Typed
    <3>. QED
      BY <1>3, <3>1, AwaitingIs, FreeIsTyped
  <2>2. form' = [f \in Form |-> form'[f]]
    BY DEF Render, Remounted
  <2>. QED
    BY <2>1, <2>2
<1>5. Typed'
  BY <1>1, <1>4 DEF Render, Typed
<1>6. Paged'
  BY <1>1, <1>2 DEF Paged
<1>7. Fetched'
  BY <1>1, <1>2 DEF Fetched, Old
<1>8. ASSUME NEW f \in Form, form'[f].open
      PROVE  form[f].open /\ form'[f].basis = form[f].basis /\ Part(held, f) = Part(screen.shows, f)
  <2>1. form[f] \in Field
    BY DEF Typed
  <2>. QED
    BY <1>3, <1>8, <2>1, AwaitingIs, FreeIsTyped
<1>9. Composed'
  BY <1>2, <1>8 DEF Composed, Part
<1>10. Sent' /\ Written' /\ Alone'
  BY <1>1 DEF Sent, Written, Alone
<1>. QED
  BY <1>5, <1>6, <1>7, <1>9, <1>10

LEMMA EditKeeps ==
  ASSUME IInv, NEW f \in Form, Edit(f)
  PROVE  IInv'
<1>. USE DEF IInv
<1>1. /\ UNCHANGED <<data, at, held, pending, screen, awaited, request, doubted, saved, overlapped>>
      /\ at = "open" /\ made' = made + 1
  BY DEF Edit
<1>2. Part(screen.shows, f) \in Int
  BY <1>1, Fields DEF Paged, Part, Form
<1>3. /\ form' \in [Form -> Field]
      /\ \A g \in Form : g # f => form'[g] = form[g]
      /\ form'[f].basis = Part(screen.shows, f)
  <2>1. form[f] \in Field /\ form \in [Form -> Field] /\ made + 1 \in Nat
    BY DEF Typed
  <2>2. form' = [form EXCEPT ![f] = Opened(form[f], made + 1, Part(screen.shows, f))]
    BY <2>1 DEF Edit, Opened
  <2>. QED
    BY ZenonT(30), <1>2, <2>1, <2>2, OpenedIs
<1>4. Typed'
  BY <1>1, <1>3 DEF Typed
<1>5. Paged' /\ Fetched' /\ Sent' /\ Written' /\ Alone'
  BY <1>1 DEF Paged, Fetched, Old, Sent, Written, Alone
<1>6. Composed'
  BY <1>1, <1>3 DEF Composed, Part
<1>. QED
  BY <1>4, <1>5, <1>6

LEMMA CancelKeeps ==
  ASSUME IInv, NEW f \in Form, Cancel(f)
  PROVE  IInv'
<1>. USE DEF IInv
<1>1. UNCHANGED <<data, at, held, pending, screen, awaited, request, made, doubted, saved,
                  overlapped>>
  BY DEF Cancel, history
<1>2. /\ form' \in [Form -> Field]
      /\ \A g \in Form : g # f => form'[g] = form[g]
      /\ ~form'[f].open
  <2>1. form \in [Form -> Field] /\ form[f].awaits \in Slot \cup {None, "settled"}
    BY Fields DEF Typed
  <2>2. \/ form' = [form EXCEPT ![f] = Closed]
        \/ form' = [form EXCEPT ![f] = Awaiting(Closed, form[f].awaits)]
    BY DEF Cancel, Awaiting
  <2>. QED
    BY <2>1, <2>2, AwaitingIs, FreeIsTyped
<1>3. Typed'
  BY <1>1, <1>2 DEF Typed
<1>4. Paged' /\ Fetched' /\ Sent' /\ Written' /\ Alone'
  BY <1>1, <1>2 DEF Paged, Fetched, Old, Sent, Written, Alone
<1>5. Composed'
  BY <1>1, <1>2 DEF Composed, Part
<1>. QED
  BY <1>3, <1>4, <1>5

LEMMA SubmitKeeps ==
  ASSUME IInv, NEW f \in Form, NEW s \in Slot, Submit(f, s)
  PROVE  IInv'
<1>. USE DEF IInv
<1>1. /\ UNCHANGED <<data, at, held, made, doubted, saved>>
      /\ at = "open" /\ form[f].open /\ request[s].stage = "free"
      /\ awaited' = awaited \cup {s} /\ pending' = TRUE
      /\ overlapped' = (overlapped \/ awaited # {})
  BY DEF Submit
<1>2. held \in Data /\ screen.shows \in Data
  BY <1>1 DEF Paged
<1>3. screen' \in [shows : Data \cup {None}, off : BOOLEAN] /\ screen'.shows = screen.shows
  BY DEF Submit, Typed
<1>4. /\ form' \in [Form -> Field]
      /\ \A g \in Form : form'[g].open = form[g].open /\ form'[g].basis = form[g].basis
  <2>1. form' = [form EXCEPT ![f] = Awaiting(form[f], s)]
    BY DEF Submit, Awaiting
  <2>2. form \in [Form -> Field] /\ form[f] \in Field
    BY DEF Typed
  <2>. QED
    BY <2>1, <2>2, AwaitingIs
<1>5. form[f].text \in Nat /\ form[f].basis \in Int /\ form[f].basis = Part(screen.shows, f)
  BY <1>1, Fields DEF Typed, Composed
<1>6. /\ ETag(held, f) \in Int /\ (held # screen.shows) \in BOOLEAN
      /\ f = "family" => ETag(held, f) = held.version
      /\ f = "person" => ETag(held, f) = held.person
      /\ f = "create" => Part(screen.shows, f) = 0
      /\ f = "person" => Part(screen.shows, f) = screen.shows.person
      /\ f = "family" => Part(screen.shows, f) = screen.shows.family
  BY <1>2, Fields DEF ETag, Part, Form
<1>7. PICK r \in Change :
         /\ request' = [request EXCEPT ![s] = r]
         /\ r.stage = "sent" /\ r.form = f /\ r.basis = form[f].basis
         /\ r.etag = ETag(held, f) /\ r.unrendered = (held # screen.shows)
  <2>1. PICK u \in BOOLEAN : u = (held # screen.shows)
    OBVIOUS
  <2>. DEFINE new == Sending(f, form[f].text, form[f].basis, ETag(held, f), u)
  <2>2. request' = [request EXCEPT ![s] = new]
    BY <2>1 DEF Submit, Sending
  <2>3. /\ new \in Change /\ new.stage = "sent" /\ new.form = f /\ new.basis = form[f].basis
        /\ new.etag = ETag(held, f) /\ new.unrendered = u
    BY <1>5, <1>6, SendingIs
  <2>. HIDE DEF new
  <2>. QED
    BY <2>1, <2>2, <2>3
<1>8. /\ request' \in [Slot -> Change] /\ request'[s] = r
      /\ \A t \in Slot : t # s => request'[t] = request[t]
  BY <1>7 DEF Typed
<1>9. Typed'
  BY <1>1, <1>3, <1>4, <1>8 DEF Typed
<1>10. Paged'
  BY <1>1, <1>2, <1>3, <1>7, <1>8 DEF Paged
<1>11. Fetched'
  BY <1>1, <1>3, <1>7, <1>8 DEF Fetched, Old
<1>12. Composed'
  BY <1>3, <1>4 DEF Composed, Part
<1>13. Sent'
  <2>1. ASSUME ~r.unrendered
        PROVE  /\ f = "create" => r.basis = 0
               /\ f = "person" => r.basis = r.etag
               /\ f = "family" => /\ r.etag <= data.version
                                  /\ r.etag = data.version => r.basis = data.family
    <3>1. held = screen.shows /\ Old(held)
      BY <1>2, <1>7, <2>1 DEF Fetched
    <3>. QED
      BY <1>5, <1>6, <1>7, <3>1 DEF Old
  <2>. QED
    BY <1>1, <1>7, <1>8, <2>1 DEF Sent
<1>14. Written'
  BY <1>1, <1>7, <1>8 DEF Written
<1>15. Alone'
  <2>1. at' # "loading"
    BY <1>1
  <2>2. ASSUME ~overlapped'
        PROVE  awaited' = {s} /\ ~overlapped /\ \A t \in Slot : request'[t].stage # "loaded"
    BY <1>1, <1>7, <1>8, <2>2 DEF Paged
  <2>. QED
    BY <1>1, <2>1, <2>2 DEF Alone
<1>. QED
  BY <1>9, <1>10, <1>11, <1>12, <1>13, <1>14, <1>15

\* What answers a change leaves the rest of the page alone.
LEMMA AnswerChangeIs ==
  ASSUME IInv, NEW s \in Slot, request[s].stage = "sent",
         NEW x \in {"ok", "changed", "failed", "unauthorized"}, NEW v \in Nat,
         AnswerChange(s, x, v)
  PROVE  /\ request' \in [Slot -> Change]
         /\ \A t \in Slot : t # s => request'[t] = request[t]
         /\ s \notin awaited => request'[s].stage = "free"
         /\ s \in awaited => /\ request'[s].stage = x /\ request'[s].wrote = v
                             /\ request'[s].form = request[s].form
                             /\ request'[s].text = request[s].text
<1>1. request \in [Slot -> Change] /\ request[s] \in Change /\ x \in Stage
  BY DEF IInv, Typed, Stage
<1>2. request' = [request EXCEPT ![s] = IF s \in awaited THEN Answered(request[s], x, v) ELSE Free]
  BY <1>1 DEF AnswerChange, Answered
<1>3. /\ Answered(request[s], x, v) \in Change /\ Answered(request[s], x, v).stage = x
      /\ Answered(request[s], x, v).wrote = v
      /\ Answered(request[s], x, v).form = request[s].form
      /\ Answered(request[s], x, v).text = request[s].text
  BY <1>1, AnsweredIs
<1>. QED
  BY <1>1, <1>2, <1>3, FreeIsTyped

LEMMA CommitKeeps ==
  ASSUME IInv, NEW s \in Slot, Commit(s)
  PROVE  IInv'
<1>. USE DEF IInv
<1>1. /\ UNCHANGED <<at, held, pending, screen, form, awaited, made, saved, overlapped>>
      /\ request[s].stage = "sent"
  BY DEF Commit, page
<1>2. data \in Data /\ data.version \in Nat /\ request[s].form \in Form /\ request[s].text \in Nat
  BY Fields DEF Typed
<1>3. data' \in Data /\ data'.version = data.version + 1
  BY <1>2, AppliedIs DEF Commit
<1>4. /\ request' \in [Slot -> Change]
      /\ \A t \in Slot : t # s => request'[t] = request[t]
      /\ \/ request'[s].stage \in {"free", "failed"}
         \/ request'[s].stage = "ok" /\ request'[s].wrote = data.version + 1
      /\ request'[s].stage # "free" => s \in awaited
  <2>1. \/ AnswerChange(s, "ok", data.version + 1)
        \/ AnswerChange(s, "failed", 0)
    BY DEF Commit
  <2>2. data.version + 1 \in Nat /\ 0 \in Nat
    BY <1>2
  <2>. QED
    BY <1>1, <2>1, <2>2, AnswerChangeIs
<1>5. doubted' \in Seq(Nat)
  <2>1. doubted \in Seq(Nat)
    BY DEF Typed
  <2>2. Append(doubted, request[s].text) \in Seq(Nat)
    BY <1>2, <2>1
  <2>. QED
    BY <2>1, <2>2 DEF Commit
<1>6. Typed'
  BY <1>1, <1>3, <1>4, <1>5 DEF Typed
<1>7. Paged'
  BY <1>1, <1>4 DEF Paged
<1>8. \A d \in Data : Old(d) => Old(d)'
  BY <1>2, <1>3, Fields DEF Old
<1>9. Fetched'
  BY <1>1, <1>4, <1>8 DEF Fetched, Paged, Old
<1>10. Composed'
  BY <1>1 DEF Composed, Part
<1>11. Sent'
  <2>1. \A t \in Slot : request'[t].stage = "sent" => request'[t] = request[t]
    BY <1>4
  <2>2. \A t \in Slot : request[t].etag \in Int
    BY Fields DEF Typed
  <2>. QED
    BY <1>2, <1>3, <2>1, <2>2 DEF Sent
<1>12. Written'
  <2>1. \A t \in Slot : request[t].wrote \in Nat
    BY Fields DEF Typed
  <2>. QED
    BY <1>2, <1>3, <1>4, <2>1 DEF Written
<1>13. Alone'
  BY <1>1, <1>4 DEF Alone
<1>. QED
  BY <1>6, <1>7, <1>9, <1>10, <1>11, <1>12, <1>13

LEMMA RefuseKeeps ==
  ASSUME IInv, NEW s \in Slot, Refuse(s)
  PROVE  IInv'
<1>. USE DEF IInv
<1>1. /\ UNCHANGED <<data, at, held, pending, screen, form, awaited, made, doubted, saved,
                      overlapped>>
      /\ request[s].stage = "sent"
  BY DEF Refuse, page, history
<1>2. /\ request' \in [Slot -> Change]
      /\ \A t \in Slot : t # s => request'[t] = request[t]
      /\ request'[s].stage \in {"free", "changed", "failed", "unauthorized"}
      /\ request'[s].stage # "free" => s \in awaited /\ request'[s].wrote = 0
  <2>1. PICK x \in {"changed", "failed", "unauthorized"} : AnswerChange(s, x, 0)
    BY DEF Refuse
  <2>. QED
    BY <1>1, <2>1, AnswerChangeIs
<1>3. Typed'
  BY <1>1, <1>2 DEF Typed
<1>4. Paged'
  BY <1>1, <1>2 DEF Paged
<1>5. Fetched' /\ Composed'
  BY <1>1, <1>2 DEF Fetched, Old, Composed, Part
<1>6. Sent'
  BY <1>1, <1>2 DEF Sent
<1>7. Written'
  <2>1. data.version \in Nat
    BY Fields DEF Typed
  <2>. QED
    BY <1>1, <1>2, <2>1 DEF Written
<1>8. Alone'
  BY <1>1, <1>2 DEF Alone
<1>. QED
  BY <1>3, <1>4, <1>5, <1>6, <1>7, <1>8

LEMMA ServeLoadKeeps ==
  ASSUME IInv, NEW s \in Slot, ServeLoad(s)
  PROVE  IInv'
<1>. USE DEF IInv
<1>1. /\ UNCHANGED <<data, at, held, pending, screen, form, awaited, made, doubted, saved,
                      overlapped>>
      /\ request[s].stage = "loading"
  BY DEF ServeLoad, page, history
<1>2. data \in Data /\ data.version \in Nat /\ Old(data)
  BY Fields DEF Typed, Old
<1>3. /\ request' \in [Slot -> Change]
      /\ \A t \in Slot : t # s => request'[t] = request[t]
      /\ request'[s].stage = "loaded" /\ request'[s].got = data
      /\ request'[s].wrote = request[s].wrote
  <2>1. request' = [request EXCEPT ![s] = Loaded(request[s], data)]
    BY DEF ServeLoad, Loaded
  <2>2. request \in [Slot -> Change] /\ request[s] \in Change
    BY DEF Typed
  <2>. QED
    BY <1>2, <2>1, <2>2, LoadedIs
<1>4. Typed'
  BY <1>1, <1>3 DEF Typed
<1>5. Paged'
  BY <1>1, <1>2, <1>3 DEF Paged
<1>6. Fetched' /\ Composed'
  BY <1>1, <1>2, <1>3 DEF Fetched, Old, Composed, Part
<1>7. Sent'
  BY <1>1, <1>3 DEF Sent
<1>8. Written'
  BY <1>1, <1>3 DEF Written
<1>9. Alone'
  <2>1. request[s].wrote <= data.version
    BY <1>1 DEF Written
  <2>2. held \in Data => held.version <= data.version
    BY DEF Fetched, Old
  <2>. QED
    BY <1>1, <1>3, <2>1, <2>2 DEF Alone
<1>. QED
  BY <1>4, <1>5, <1>6, <1>7, <1>8, <1>9

\* Others write a version too, and add nobody.
LEMMA ElsewhereIs ==
  ASSUME IInv, WriteElsewhere
  PROVE  data' \in Data /\ data'.version = data.version + 1 /\ data'.people = data.people
<1>1. data \in Data /\ data.version \in Nat
  BY Fields DEF IInv, Typed
<1>2. CASE \E f \in {"family", "person"} : data' = Applied(f, -data.version - 1)
  <2>1. -data.version - 1 \in Int
    BY <1>1
  <2>2. \A f \in {"family", "person"} :
          /\ Applied(f, -data.version - 1) \in Data
          /\ Applied(f, -data.version - 1).version = data.version + 1
          /\ Applied(f, -data.version - 1).people = data.people
    BY <1>1, <2>1, AppliedIs DEF Form
  <2>. QED
    BY <1>2, <2>2
<1>3. CASE data' = [data EXCEPT !.version = @ + 1]
  <2>1. /\ data.family \in Int /\ data.person \in Int /\ data.people \in Seq(Nat)
        /\ data = [version |-> data.version, family |-> data.family,
                   person |-> data.person, people |-> data.people]
    BY <1>1 DEF Data
  <2>2. data' = [version |-> data.version + 1, family |-> data.family,
                 person |-> data.person, people |-> data.people]
    BY <1>3, <2>1
  <2>. QED
    BY <1>1, <2>1, <2>2 DEF Data
<1>. QED
  BY <1>2, <1>3 DEF WriteElsewhere

LEMMA WriteElsewhereKeeps ==
  ASSUME IInv, WriteElsewhere
  PROVE  IInv'
<1>. USE DEF IInv
<1>1. UNCHANGED <<at, held, pending, screen, form, awaited, request, made, doubted, saved,
                  overlapped>>
  BY DEF WriteElsewhere, page, history
<1>2. data \in Data /\ data.version \in Nat
  BY Fields DEF Typed
<1>3. data' \in Data /\ data'.version = data.version + 1
  BY ElsewhereIs
<1>4. Typed'
  BY <1>1, <1>3 DEF Typed
<1>5. \A d \in Data : Old(d) => Old(d)'
  BY <1>2, <1>3, Fields DEF Old
<1>6. Paged' /\ Composed' /\ Alone'
  BY <1>1 DEF Paged, Composed, Part, Alone
<1>7. Fetched'
  BY <1>1, <1>5 DEF Fetched, Paged, Old
<1>8. Sent'
  <2>1. \A t \in Slot : request[t].etag \in Int
    BY Fields DEF Typed
  <2>. QED
    BY <1>1, <1>2, <1>3, <2>1 DEF Sent
<1>9. Written'
  <2>1. \A t \in Slot : request[t].wrote \in Nat
    BY Fields DEF Typed
  <2>. QED
    BY <1>1, <1>2, <1>3, <2>1 DEF Written
<1>. QED
  BY <1>4, <1>6, <1>7, <1>8, <1>9

\* A form that gets its button back keeps what is typed in it.
LEMMA ReopenedIs ==
  ASSUME IInv, NEW s \in Slot, Reopened(s)
  PROVE  /\ form' \in [Form -> Field]
         /\ \A f \in Form :
              /\ form'[f].open = form[f].open /\ form'[f].basis = form[f].basis
              /\ form'[f].text = form[f].text
              /\ form'[f].awaits = IF form[f].awaits = s THEN "settled" ELSE form[f].awaits
<1>1. \A f \in Form : form[f] \in Field
  BY DEF IInv, Typed
<1>2. form' = [f \in Form |-> IF form[f].awaits = s THEN Awaiting(form[f], "settled")
                              ELSE form[f]]
  BY DEF Reopened, Awaiting
<1>3. \A f \in Form : /\ Awaiting(form[f], "settled") \in Field
                       /\ Awaiting(form[f], "settled").open = form[f].open
                       /\ Awaiting(form[f], "settled").basis = form[f].basis
                       /\ Awaiting(form[f], "settled").text = form[f].text
                       /\ Awaiting(form[f], "settled").awaits = "settled"
  BY <1>1, AwaitingIs
<1>. QED
  BY <1>1, <1>2, <1>3

\* A request of this page that is settled: the page is open, and what is left in the
\* forms is what was there.
LEMMA SettleIs ==
  ASSUME IInv, NEW s \in Slot, request[s].stage \in {"loaded", "failed"}, Settle(s),
         Done(s) \/ Reopened(s)
  PROVE  /\ s \in awaited /\ at = "open"
         /\ request' \in [Slot -> Change] /\ request'[s].stage = "free"
         /\ \A t \in Slot : t # s => request'[t] = request[t]
         /\ form' \in [Form -> Field]
         /\ \A f \in Form : form'[f].open => form[f].open /\ form'[f].basis = form[f].basis
<1>1. s \in awaited /\ at = "open"
  BY DEF IInv, Paged
<1>2. request \in [Slot -> Change] /\ request[s].form \in Form /\ form \in [Form -> Field]
      /\ \A f \in Form : form[f] \in Field
  BY Fields DEF IInv, Typed
<1>3. /\ request' \in [Slot -> Change] /\ request'[s].stage = "free"
      /\ \A t \in Slot : t # s => request'[t] = request[t]
  BY <1>2, FreeIsTyped DEF Settle
<1>4. CASE Done(s)
  <2>1. \/ form' = form
        \/ \E x \in {None, "settled"} :
             form' = [form EXCEPT ![request[s].form] = Awaiting(Closed, x)]
    BY <1>4 DEF Done, Awaiting
  <2>2. ASSUME NEW x \in {None, "settled"}
        PROVE  Awaiting(Closed, x) \in Field /\ ~Awaiting(Closed, x).open
    BY AwaitingIs, FreeIsTyped
  <2>3. form' \in [Form -> Field]
    BY <1>2, <2>1, <2>2
  <2>4. \A f \in Form : form'[f].open => form'[f] = form[f]
    BY <1>2, <2>1, <2>2
  <2>. QED
    BY <1>1, <1>2, <1>3, <2>3, <2>4
<1>5. CASE Reopened(s)
  BY <1>1, <1>3, <1>5, ReopenedIs
<1>. QED
  BY <1>4, <1>5

LEMMA TakeLoadKeeps ==
  ASSUME IInv, NEW s \in Slot, TakeLoad(s)
  PROVE  IInv'
<1>. USE DEF IInv
<1>1. /\ UNCHANGED <<data, at, screen, made, doubted, overlapped>>
      /\ request[s].stage = "loaded" /\ held' = request[s].got /\ pending' = FALSE
      /\ awaited' = awaited \ {s}
  BY DEF TakeLoad, Settle
<1>2. /\ s \in awaited /\ at = "open"
      /\ request' \in [Slot -> Change] /\ request'[s].stage = "free"
      /\ \A t \in Slot : t # s => request'[t] = request[t]
      /\ form' \in [Form -> Field]
      /\ \A f \in Form : form'[f].open => form[f].open /\ form'[f].basis = form[f].basis
  BY SettleIs DEF TakeLoad
<1>3. held' \in Data /\ Old(held')
  BY <1>1 DEF Paged, Fetched
<1>4. saved' \in {saved, request[s].wrote} /\ saved' \in Nat
  BY Fields DEF TakeLoad, Typed
<1>5. Typed'
  BY <1>1, <1>2, <1>3, <1>4 DEF Typed
<1>6. Paged'
  BY <1>1, <1>2, <1>3 DEF Paged
<1>7. Fetched'
  BY <1>1, <1>2, <1>3 DEF Fetched, Old
<1>8. Composed'
  BY <1>1, <1>2 DEF Composed, Part
<1>9. Sent' /\ Written'
  BY <1>1, <1>2 DEF Sent, Written
<1>10. Alone'
  <2>1. at' # "loading"
    BY <1>1, <1>2
  <2>2. ASSUME ~overlapped'
        PROVE  awaited' = {} /\ \A t \in Slot : request'[t].stage # "loaded"
    BY <1>1, <1>2, <2>2 DEF Alone, Paged
  <2>3. ASSUME ~overlapped'
        PROVE  saved' = 0 \/ saved' <= held'.version
    <3>1. request[s].wrote <= held'.version
      BY <1>1, <2>3 DEF Alone
    <3>2. saved = 0 \/ (held \in Data /\ saved <= held.version /\ held.version <= held'.version)
      BY <1>1, <2>3 DEF Alone
    <3>3. saved \in Nat /\ held'.version \in Nat /\ (held \in Data => held.version \in Nat)
      BY <1>3, Fields DEF Typed
    <3>. QED
      BY <1>4, <3>1, <3>2, <3>3
  <2>. QED
    BY <1>3, <2>1, <2>2, <2>3 DEF Alone
<1>. QED
  BY <1>5, <1>6, <1>7, <1>8, <1>9, <1>10

LEMMA TakeFailureKeeps ==
  ASSUME IInv, NEW s \in Slot, TakeFailure(s)
  PROVE  IInv'
<1>. USE DEF IInv
<1>1. /\ UNCHANGED <<data, at, held, screen, made, doubted, saved, overlapped>>
      /\ request[s].stage = "failed" /\ pending' = FALSE /\ awaited' = awaited \ {s}
  BY DEF TakeFailure, Settle, history
<1>2. /\ s \in awaited /\ at = "open"
      /\ request' \in [Slot -> Change] /\ request'[s].stage = "free"
      /\ \A t \in Slot : t # s => request'[t] = request[t]
      /\ form' \in [Form -> Field]
      /\ \A f \in Form : form'[f].open => form[f].open /\ form'[f].basis = form[f].basis
  BY SettleIs DEF TakeFailure
<1>3. Typed'
  BY <1>1, <1>2 DEF Typed
<1>4. Paged'
  BY <1>1, <1>2 DEF Paged
<1>5. Fetched'
  BY <1>1, <1>2 DEF Fetched, Old
<1>6. Composed'
  BY <1>1, <1>2 DEF Composed, Part
<1>7. Sent' /\ Written'
  BY <1>1, <1>2 DEF Sent, Written
<1>8. Alone'
  BY <1>1, <1>2 DEF Alone
<1>. QED
  BY <1>3, <1>4, <1>5, <1>6, <1>7, <1>8

\* A request that goes on keeps what it carries.
LEMMA AdvanceIs ==
  ASSUME IInv, NEW s \in Slot, NEW x \in Stage, Advance(s, x)
  PROVE  /\ request' \in [Slot -> Change]
         /\ \A t \in Slot : t # s => request'[t] = request[t]
         /\ request'[s].stage = x /\ request'[s].wrote = request[s].wrote
         /\ request'[s].form = request[s].form /\ request'[s].text = request[s].text
<1>1. request \in [Slot -> Change] /\ request[s] \in Change
  BY DEF IInv, Typed
<1>2. request' = [request EXCEPT ![s] = Staged(request[s], x)]
  BY DEF Advance, Staged
<1>. QED
  BY <1>1, <1>2, StagedIs

LEMMA TakeAnswerKeeps ==
  ASSUME IInv, NEW s \in Slot, TakeAnswer(s)
  PROVE  IInv'
<1>. USE DEF IInv
<1>1. /\ UNCHANGED <<data, at, held, pending, screen, form, awaited, made, doubted, saved,
                      overlapped>>
      /\ request[s].stage \in {"ok", "changed"}
  BY DEF TakeAnswer, page, history
<1>2. /\ request' \in [Slot -> Change]
      /\ \A t \in Slot : t # s => request'[t] = request[t]
      /\ request'[s].stage = "loading" /\ request'[s].wrote = request[s].wrote
  <2>1. "loading" \in Stage /\ Advance(s, "loading")
    BY DEF TakeAnswer, Stage
  <2>. QED
    BY <2>1, AdvanceIs
<1>3. Typed' /\ Paged'
  BY <1>1, <1>2 DEF Typed, Paged
<1>4. Fetched' /\ Composed'
  BY <1>1, <1>2 DEF Fetched, Old, Composed, Part
<1>5. Sent'
  BY <1>1, <1>2 DEF Sent
<1>6. Written'
  BY <1>1, <1>2 DEF Written
<1>7. Alone'
  BY <1>1, <1>2 DEF Alone
<1>. QED
  BY <1>3, <1>4, <1>5, <1>6, <1>7

LEMMA LoseLoadKeeps ==
  ASSUME IInv, NEW s \in Slot, LoseLoad(s)
  PROVE  IInv'
<1>. USE DEF IInv
<1>1. /\ UNCHANGED <<data, at, held, pending, screen, form, awaited, made, saved, overlapped>>
      /\ request[s].stage = "loading"
  BY DEF LoseLoad, page
<1>2. /\ request' \in [Slot -> Change]
      /\ \A t \in Slot : t # s => request'[t] = request[t]
      /\ request'[s].stage = "failed"
  <2>1. "failed" \in Stage /\ Advance(s, "failed")
    BY DEF LoseLoad, Stage
  <2>. QED
    BY <2>1, AdvanceIs
<1>3. doubted' \in Seq(Nat)
  <2>1. doubted \in Seq(Nat) /\ request[s].text \in Nat
    BY Fields DEF Typed
  <2>2. Append(doubted, request[s].text) \in Seq(Nat)
    BY <2>1
  <2>. QED
    BY <2>1, <2>2 DEF LoseLoad
<1>4. Typed' /\ Paged'
  BY <1>1, <1>2, <1>3 DEF Typed, Paged
<1>5. Fetched' /\ Composed'
  BY <1>1, <1>2 DEF Fetched, Old, Composed, Part
<1>6. Sent'
  BY <1>1, <1>2 DEF Sent
<1>7. Written'
  BY <1>1, <1>2 DEF Written
<1>8. Alone'
  BY <1>1, <1>2 DEF Alone
<1>. QED
  BY <1>4, <1>5, <1>6, <1>7, <1>8

LEMMA ConnectionLostKeeps ==
  ASSUME IInv, NEW s \in Slot, ConnectionLost(s)
  PROVE  IInv'
<1>. USE DEF IInv
<1>1. /\ UNCHANGED <<data, at, held, screen, request, made, saved, overlapped>>
      /\ s \in awaited /\ request[s].stage = "sent" /\ pending' = FALSE
      /\ awaited' = awaited \ {s}
  BY DEF ConnectionLost
<1>2. /\ form' \in [Form -> Field]
      /\ \A f \in Form : form'[f].open = form[f].open /\ form'[f].basis = form[f].basis
  BY ReopenedIs DEF ConnectionLost
<1>3. doubted' \in Seq(Nat)
  <2>1. doubted \in Seq(Nat) /\ request[s].text \in Nat
    BY Fields DEF Typed
  <2>2. Append(doubted, request[s].text) \in Seq(Nat)
    BY <2>1
  <2>. QED
    BY <2>2 DEF ConnectionLost
<1>4. Typed'
  BY <1>1, <1>2, <1>3 DEF Typed
<1>5. Paged'
  BY <1>1, <1>2 DEF Paged
<1>6. Fetched' /\ Composed'
  BY <1>1, <1>2 DEF Fetched, Old, Composed, Part
<1>7. Sent' /\ Written'
  BY <1>1 DEF Sent, Written
<1>8. Alone'
  BY <1>1 DEF Alone
<1>. QED
  BY <1>4, <1>5, <1>6, <1>7, <1>8

LEMMA LeaveForLoginKeeps ==
  ASSUME IInv, NEW s \in Slot, LeaveForLogin(s)
  PROVE  IInv'
<1>. USE DEF IInv
<1>1. /\ UNCHANGED <<data, held, pending, screen, made, doubted, saved, overlapped>>
      /\ at' = "login" /\ awaited' = {}
  BY DEF LeaveForLogin, history
<1>2. \A q \in Slot : \/ request'[q] = Free
                      \/ request'[q] = request[q] /\ request[q].stage = "sent"
  BY DEF LeaveForLogin
<1>3. request' \in [Slot -> Change]
  BY FreeIsTyped DEF LeaveForLogin, Typed
<1>4. form' \in [Form -> Field] /\ \A f \in Form : ~form'[f].open
  BY FreeIsTyped DEF LeaveForLogin
<1>5. \A q \in Slot : request'[q].stage \in {"free", "sent"}
  BY <1>2, FreeIsTyped
<1>6. Typed'
  BY <1>1, <1>3, <1>4 DEF Typed
<1>7. Paged' /\ Composed' /\ Written'
  BY <1>1, <1>4, <1>5 DEF Paged, Composed, Written
<1>8. Fetched'
  BY <1>1, <1>5 DEF Fetched, Old
<1>9. Sent'
  BY <1>1, <1>2, FreeIsTyped DEF Sent
<1>10. Alone'
  BY <1>1, <1>5 DEF Alone
<1>. QED
  BY <1>6, <1>7, <1>8, <1>9, <1>10

LEMMA StepKeeps == IInv /\ [Next]_vars => IInv'
<1>1. ASSUME IInv, UNCHANGED vars
      PROVE  IInv'
  <2>1. UNCHANGED <<data, at, held, pending, screen, form, request, awaited, made, doubted,
                    saved, overlapped>>
    BY <1>1 DEF vars, page, history
  <2>. QED
    BY <1>1, <2>1 DEF IInv, Typed, Paged, Fetched, Old, Composed, Part, Sent, Written, Alone
<1>. QED
  BY <1>1, LoadKeeps, ReloadKeeps, RenderKeeps, WriteElsewhereKeeps, EditKeeps, CancelKeeps,
     SubmitKeeps, CommitKeeps, RefuseKeeps, ServeLoadKeeps, LoseLoadKeeps, TakeAnswerKeeps,
     TakeLoadKeeps, TakeFailureKeeps, ConnectionLostKeeps, LeaveForLoginKeeps
     DEF Next, Serve, Take

-----------------------------------------------------------------------------
\* Everything that happens to the page and to the data keeps the invariant.
THEOREM Invariant == Spec => []IInv
BY Initially, StepKeeps, PTL DEF Spec

\* What was reported as saved is on the page, unless two changes ran at once: the load
\* of a later change never brings less than that of an earlier one.
THEOREM Saved == Spec => []SavedUnlessOverlapped
<1>1. IInv => SavedUnlessOverlapped
  <2>. SUFFICES ASSUME IInv, held # None, ~overlapped
                PROVE  held.version >= saved
    BY DEF SavedUnlessOverlapped
  <2>1. held \in Data /\ held.version \in Nat /\ saved \in Nat
    BY Fields DEF IInv, Typed
  <2>2. saved = 0 \/ saved <= held.version
    BY DEF IInv, Alone
  <2>. QED
    BY <2>1, <2>2
<1>. QED
  BY <1>1, Invariant, PTL

\* Only the Worker writes the data and answers a change in the same step.
LEMMA OnlyCommitWrites ==
  ASSUME IInv, Next, NEW s \in Slot, Committed(s)
  PROVE  Commit(s)
<1>1. request[s].stage = "sent" /\ request'[s].stage # "sent" /\ data' # data
  BY DEF Committed
<1>2. ASSUME NEW t \in Slot, Commit(t)
      PROVE  t = s
  <2>1. request \in [Slot -> Change] /\ (t # s => request'[s] = request[s])
    BY <1>2 DEF IInv, Typed, Commit, AnswerChange
  <2>. QED
    BY <1>1, <2>1
<1>3. ~WriteElsewhere
  BY <1>1 DEF WriteElsewhere
<1>4. ~Load /\ ~Reload /\ ~Render
  BY <1>1 DEF Load, Reload, Render
<1>5. \A f \in Form : ~Edit(f) /\ ~Cancel(f) /\ \A t \in Slot : ~Submit(f, t)
  BY <1>1 DEF Edit, Cancel, Submit
<1>6. \A t \in Slot : /\ ~Refuse(t) /\ ~ServeLoad(t) /\ ~LoseLoad(t)
                       /\ ~Take(t) /\ ~ConnectionLost(t)
  BY <1>1 DEF Refuse, ServeLoad, LoseLoad, Take, TakeAnswer, TakeLoad, TakeFailure,
              LeaveForLogin, ConnectionLost
<1>. QED
  BY <1>2, <1>3, <1>4, <1>5, <1>6 DEF Next, Serve

\* A change replaces what the screen showed when its form was opened, and nothing that
\* was written since, unless it was sent between a load and its render.
THEOREM Replacing == Spec => ReplacesWhatWasShown
<1>1. ASSUME IInv, Next, NEW s \in Slot, Committed(s), ~request[s].unrendered
      PROVE  request[s].basis = Part(data, request[s].form)
  <2>1. Matches(s) /\ request[s].stage = "sent" /\ request[s].form \in Form
    BY <1>1, OnlyCommitWrites, Fields DEF Commit, IInv, Typed
  <2>2. CASE request[s].form = "create"
    BY <1>1, <2>1, <2>2 DEF IInv, Sent, Part
  <2>3. CASE request[s].form = "person"
    BY <1>1, <2>1, <2>3 DEF IInv, Sent, Part, Matches, ETag
  <2>4. CASE request[s].form = "family"
    BY <1>1, <2>1, <2>4 DEF IInv, Sent, Part, Matches, ETag
  <2>. QED
    BY <2>1, <2>2, <2>3, <2>4 DEF Form
<1>2. IInv /\ [Next]_vars =>
        [\A s \in Slot : Committed(s) =>
           \/ request[s].basis = Part(data, request[s].form)
           \/ request[s].unrendered]_vars
  BY <1>1
<1>. QED
  BY <1>2, Invariant, PTL DEF Spec, ReplacesWhatWasShown

-----------------------------------------------------------------------------
(***************************************************************************)
(* A person is added once.                                                 *)
(***************************************************************************)
Sends(s) == request[s].stage = "sent" /\ request[s].form = "create"

\* A change that was saved, and whose load is still to come.
Carries(s) == request[s].stage \in {"ok", "loading", "loaded"} /\ request[s].wrote > 0

Create == form["create"]

\* A text is in the list, or on its way there, and some of its answers were lost.
Flying(t) == {s \in Slot : Sends(s) /\ request[s].text = t}
Tally(t) == Times(data.people, t) + Cardinality(Flying(t))
Lost(t) == Times(doubted, t)

\* The form may be sent: nothing it waits for is on its way or saved.
Ready(t) ==
  Create.open /\ Create.text = t /\ \A s \in Slot : Create.awaits = s => ~Sends(s) /\ ~Carries(s)

\* All but one of what was sent was lost, and when it may be sent again all of it was.
Counted ==
  \A t \in Nat : /\ IsFiniteSet(Flying(t))
                 /\ Tally(t) <= Lost(t) + 1
                 /\ Ready(t) => Tally(t) <= Lost(t)
                 /\ t > made => Tally(t) = 0

\* The form waits for the change that carries its text.
Waiting ==
  /\ \A s \in awaited : request[s].stage # "free"
  /\ \A s \in Slot : Create.awaits = s =>
       Create.open /\ s \in awaited /\ request[s].form = "create" /\ request[s].text = Create.text
  /\ Create.open => Create.text <= made

NotAgain == Counted /\ Waiting

-----------------------------------------------------------------------------
\* Appending adds one to the count of what is appended.
LEMMA TimesOf ==
  ASSUME NEW q \in Seq(Nat), NEW t
  PROVE  /\ Times(q, t) \in Nat
         /\ (\A i \in DOMAIN q : q[i] # t) => Times(q, t) = 0
         /\ \A x \in Nat : Times(Append(q, x), t) = Times(q, t) + (IF x = t THEN 1 ELSE 0)
<1>. DEFINE At(p) == {i \in DOMAIN p : p[i] = t}
<1>1. DOMAIN q = 1..Len(q) /\ Len(q) \in Nat
  OBVIOUS
<1>2. IsFiniteSet(At(q))
  <2>1. IsFiniteSet(1..Len(q)) /\ At(q) \in SUBSET (1..Len(q))
    BY <1>1, FS_Interval
  <2>. QED
    BY <2>1, FS_Subset
<1>3. Cardinality(At(q)) \in Nat
  BY <1>2, FS_CardinalityType
<1>4. ASSUME \A i \in DOMAIN q : q[i] # t
      PROVE  Cardinality(At(q)) = 0
  <2>1. At(q) = {}
    BY <1>4
  <2>. QED
    BY <2>1, FS_EmptySet
<1>5. ASSUME NEW x \in Nat
      PROVE  Cardinality(At(Append(q, x))) = Cardinality(At(q)) + (IF x = t THEN 1 ELSE 0)
  <2>1. /\ DOMAIN Append(q, x) = 1..(Len(q) + 1) /\ Append(q, x)[Len(q) + 1] = x
        /\ \A i \in 1..Len(q) : Append(q, x)[i] = q[i]
    OBVIOUS
  <2>2. CASE x = t
    <3>1. At(Append(q, x)) = At(q) \cup {Len(q) + 1} /\ Len(q) + 1 \notin At(q)
      BY <1>1, <2>1, <2>2
    <3>. HIDE DEF At
    <3>2. Cardinality(At(q) \cup {Len(q) + 1}) = Cardinality(At(q)) + 1
      BY <1>2, <3>1, FS_AddElement
    <3>. QED
      BY <2>2, <3>1, <3>2
  <2>3. CASE x # t
    <3>1. At(Append(q, x)) = At(q)
      BY <1>1, <2>1, <2>3
    <3>. HIDE DEF At
    <3>. QED
      BY <1>3, <2>3, <3>1
  <2>. QED
    BY <2>2, <2>3
<1>. QED
  BY <1>3, <1>4, <1>5 DEF Times

LEMMA NotAgainFields ==
  ASSUME IInv
  PROVE  /\ data.people \in Seq(Nat) /\ doubted \in Seq(Nat) /\ made \in Nat
         /\ Create \in Field /\ Create.text \in Nat
         /\ \A s \in Slot : request[s] \in Change /\ request[s].text \in Nat
                            /\ request[s].wrote \in Nat /\ request[s].form \in Form
BY Fields DEF IInv, Typed, Create, Form

LEMMA Counts ==
  ASSUME IInv, NEW t \in Nat, IsFiniteSet(Flying(t))
  PROVE  /\ Times(data.people, t) \in Nat /\ Cardinality(Flying(t)) \in Nat
         /\ Tally(t) \in Nat /\ Lost(t) \in Nat
<1>1. Times(data.people, t) \in Nat /\ Times(doubted, t) \in Nat
  BY NotAgainFields, TimesOf
<1>2. Cardinality(Flying(t)) \in Nat
  BY FS_CardinalityType
<1>. QED
  BY <1>1, <1>2 DEF Tally, Lost

\* What is doubted is counted, and nothing else.
LEMMA Losing ==
  ASSUME IInv, NEW x \in Nat
  PROVE  /\ doubted' = doubted => \A t \in Nat : Lost(t)' = Lost(t)
         /\ doubted' = Append(doubted, x) =>
              \A t \in Nat : Lost(t)' = Lost(t) + (IF t = x THEN 1 ELSE 0)
<1>1. doubted \in Seq(Nat)
  BY NotAgainFields
<1>2. \A t \in Nat : Times(Append(doubted, x), t) = Times(doubted, t) + (IF x = t THEN 1 ELSE 0)
  BY <1>1, TimesOf
<1>. QED
  BY <1>2 DEF Lost

\* Without a new request there are no more of any text.
LEMMA Landing ==
  ASSUME IInv, IInv', Counted, data'.people = data.people,
         \A s \in Slot : Sends(s)' => Sends(s) /\ request'[s].text = request[s].text
  PROVE  \A t \in Nat : IsFiniteSet(Flying(t)') /\ Tally(t)' <= Tally(t)
<1>. SUFFICES ASSUME NEW t \in Nat
              PROVE  IsFiniteSet(Flying(t)') /\ Tally(t)' <= Tally(t)
  OBVIOUS
<1>1. IsFiniteSet(Flying(t)) /\ Flying(t)' \subseteq Flying(t)
  BY DEF Counted, Flying
<1>2. IsFiniteSet(Flying(t)') /\ Cardinality(Flying(t)') <= Cardinality(Flying(t))
  BY <1>1, FS_Subset
<1>3. Cardinality(Flying(t)) \in Nat /\ Cardinality(Flying(t)') \in Nat
      /\ Times(data.people, t) \in Nat
  BY <1>1, <1>2, FS_CardinalityType, NotAgainFields, TimesOf
<1>. QED
  BY <1>2, <1>3 DEF Tally

LEMMA NothingLost ==
  ASSUME IInv, IInv', NotAgain, data'.people = data.people, doubted' = doubted,
         \A s \in Slot : Sends(s)' => Sends(s) /\ request'[s].text = request[s].text
  PROVE  \A t \in Nat : /\ IsFiniteSet(Flying(t)') /\ Tally(t)' <= Tally(t)
                        /\ Lost(t)' >= Lost(t)
<1>1. \A t \in Nat : IsFiniteSet(Flying(t)') /\ Tally(t)' <= Tally(t)
  BY Landing DEF NotAgain
<1>2. \A t \in Nat : Lost(t)' = Lost(t) /\ Lost(t) \in Nat
  BY Losing, Counts DEF NotAgain, Counted
<1>. QED
  BY <1>1, <1>2

\* A text that is not on its way any more is one less.
LEMMA Landed ==
  ASSUME IInv, Counted, NEW s \in Slot, Sends(s), ~Sends(s)',
         \A t \in Slot : t # s => request'[t] = request[t]
  PROVE  \A t \in Nat :
           /\ IsFiniteSet(Flying(t)')
           /\ Cardinality(Flying(t)') =
                Cardinality(Flying(t)) - (IF t = request[s].text THEN 1 ELSE 0)
<1>. SUFFICES ASSUME NEW t \in Nat
              PROVE  /\ IsFiniteSet(Flying(t)')
                     /\ Cardinality(Flying(t)') =
                          Cardinality(Flying(t)) - (IF t = request[s].text THEN 1 ELSE 0)
  OBVIOUS
<1>1. IsFiniteSet(Flying(t)) /\ Flying(t)' = Flying(t) \ {s}
      /\ (s \in Flying(t) <=> t = request[s].text)
  BY DEF Counted, Flying, Sends
<1>2. Cardinality(Flying(t)) \in Nat
  BY <1>1, FS_CardinalityType
<1>. QED
  BY <1>1, <1>2, FS_RemoveElement

LEMMA CountsLater ==
  ASSUME IInv', NEW t \in Nat, IsFiniteSet(Flying(t)')
  PROVE  /\ Times(data'.people, t) \in Nat /\ Cardinality(Flying(t)') \in Nat
         /\ Tally(t)' \in Nat /\ Lost(t)' \in Nat
         /\ Tally(t)' = Times(data'.people, t) + Cardinality(Flying(t)')
<1>1. data'.people \in Seq(Nat) /\ doubted' \in Seq(Nat)
  BY Fields DEF IInv, Typed
<1>2. Times(data'.people, t) \in Nat /\ Times(doubted', t) \in Nat
  BY <1>1, TimesOf
<1>3. Cardinality(Flying(t)') \in Nat
  BY FS_CardinalityType
<1>. QED
  BY <1>2, <1>3 DEF Tally, Lost

\* A step that sends nothing new, adds nobody and types nothing.
LEMMA QuietKeeps ==
  ASSUME IInv, IInv', NotAgain, made' = made,
         \A t \in Nat : IsFiniteSet(Flying(t)') /\ Tally(t)' <= Tally(t) /\ Lost(t)' >= Lost(t),
         \A s \in awaited' :
           s \in awaited /\ (request[s].stage # "free" => request'[s].stage # "free"),
         Create'.open => Create.open /\ Create'.text = Create.text,
         \A s \in Slot : Create'.awaits = s =>
           /\ Create.awaits = s /\ Create'.open /\ s \in awaited'
           /\ request'[s].form = request[s].form /\ request'[s].text = request[s].text,
         \A t \in Nat : Ready(t)' => Ready(t) \/ Tally(t)' <= Lost(t)'
  PROVE  NotAgain'
<1>1. made \in Nat
  BY NotAgainFields
<1>2. ASSUME NEW t \in Nat
      PROVE  /\ Tally(t) \in Nat /\ Lost(t) \in Nat /\ Tally(t)' \in Nat /\ Lost(t)' \in Nat
             /\ Tally(t)' <= Tally(t) /\ Lost(t) <= Lost(t)'
  <2>1. IsFiniteSet(Flying(t)) /\ IsFiniteSet(Flying(t)')
    BY DEF NotAgain, Counted
  <2>2. Tally(t) \in Nat /\ Lost(t) \in Nat /\ Tally(t)' \in Nat /\ Lost(t)' \in Nat
    BY <2>1, Counts, CountsLater
  <2>. QED
    BY <2>2
<1>3. Counted'
  BY <1>1, <1>2 DEF NotAgain, Counted
<1>4. Waiting'
  BY DEF NotAgain, Waiting
<1>. QED
  BY <1>3, <1>4 DEF NotAgain

\* Nothing is on its way, or open, in the beginning.
LEMMA InitiallyNotAgain == Init => NotAgain
<1>. SUFFICES ASSUME Init PROVE NotAgain
  OBVIOUS
<1>1. /\ \A s \in Slot : ~Sends(s)
      /\ ~Create.open /\ Create.awaits = None /\ awaited = {} /\ made = 0
  BY FreeIsTyped DEF Init, Sends, Create, Form
<1>2. ASSUME NEW t \in Nat
      PROVE  IsFiniteSet(Flying(t)) /\ Tally(t) = 0 /\ Lost(t) = 0
  <2>1. Flying(t) = {}
    BY <1>1 DEF Flying
  <2>2. IsFiniteSet(Flying(t)) /\ Cardinality(Flying(t)) = 0
    BY <2>1, FS_EmptySet
  <2>3. data.people = <<>> /\ doubted = <<>>
    BY DEF Init
  <2>4. Times(<<>>, t) = 0
    <3>1. <<>> \in Seq(Nat) /\ \A i \in DOMAIN <<>> : FALSE
      OBVIOUS
    <3>. QED
      BY <3>1, TimesOf
  <2>. QED
    BY <2>2, <2>3, <2>4 DEF Tally, Lost
<1>3. Counted
  BY <1>1, <1>2 DEF Counted, Ready
<1>. QED
  BY <1>1, <1>3, SlotAssumption DEF NotAgain, Waiting

\* The forms are closed, and only what is still to be answered is left.
LEMMA ForgetKeepsNotAgain ==
  ASSUME IInv, IInv', NotAgain, UNCHANGED <<data, made, doubted>>, awaited' = {},
         form' = [f \in Form |-> Closed],
         request' = [s \in Slot |-> IF request[s].stage = "sent" THEN request[s] ELSE Free]
  PROVE  NotAgain'
<1>1. ~Create'.open /\ Create'.awaits = None /\ \A s \in Slot : Create'.awaits # s
  BY FreeIsTyped, SlotAssumption DEF Create, Form
<1>2. \A s \in Slot : Sends(s)' => Sends(s) /\ request'[s].text = request[s].text
  BY FreeIsTyped DEF Sends
<1>3. \A t \in Nat : /\ IsFiniteSet(Flying(t)') /\ Tally(t)' <= Tally(t)
                     /\ Lost(t)' >= Lost(t)
  BY <1>2, NothingLost
<1>4. \A t \in Nat : ~Ready(t)'
  BY <1>1 DEF Ready
<1>. QED
  BY <1>1, <1>3, <1>4, QuietKeeps

\* A step of the page that leaves the requests and the texts alone.
LEMMA StillKeepsNotAgain ==
  ASSUME IInv, IInv', NotAgain, UNCHANGED <<request, awaited, doubted, made>>,
         data'.people = data.people,
         \/ ~Create'.open /\ Create'.awaits \notin Slot
         \/ /\ Create'.open = Create.open /\ Create'.text = Create.text
            /\ \A s \in Slot : Create'.awaits = s <=> Create.awaits = s
  PROVE  NotAgain'
<1>1. \A s \in Slot : Sends(s)' = Sends(s) /\ request'[s] = request[s]
                       /\ Carries(s)' = Carries(s)
  BY DEF Sends, Carries
<1>2. \A s \in Slot : Create.awaits = s => Create.open /\ s \in awaited
  BY DEF NotAgain, Waiting
<1>3. \A t \in Nat : /\ IsFiniteSet(Flying(t)') /\ Tally(t)' <= Tally(t)
                     /\ Lost(t)' >= Lost(t)
  BY <1>1, NothingLost
<1>4. \A t \in Nat : Ready(t)' => Ready(t)
  BY <1>1 DEF Ready
<1>. QED
  BY <1>1, <1>2, <1>3, <1>4, QuietKeeps

LEMMA PageKeepsNotAgain ==
  ASSUME IInv, IInv', NotAgain, Load \/ Reload \/ Render \/ WriteElsewhere
  PROVE  NotAgain'
<1>1. CASE Load
  <2>1. UNCHANGED <<data, form, request, awaited, doubted, made>>
    BY <1>1 DEF Load, history
  <2>. QED
    BY <2>1, StillKeepsNotAgain DEF Create
<1>2. CASE Reload
  BY <1>2, ForgetKeepsNotAgain DEF Reload
<1>3. CASE Render
  <2>1. UNCHANGED <<data, request, awaited, doubted, made>>
    BY <1>3 DEF Render, history
  <2>2. \/ Create' = Closed \/ Create' = Create
        \/ Create' = Awaiting(Create, None) /\ Create.awaits = "settled"
    BY <1>3 DEF Render, Remounted, Create, Awaiting, Form
  <2>3. Create \in Field
    BY NotAgainFields
  <2>4. Awaiting(Create, None).open = Create.open /\ Awaiting(Create, None).text = Create.text
        /\ Awaiting(Create, None).awaits = None
    BY <2>3, AwaitingIs
  <2>5. \/ ~Create'.open /\ Create'.awaits \notin Slot
        \/ /\ Create'.open = Create.open /\ Create'.text = Create.text
           /\ \A s \in Slot : Create'.awaits = s <=> Create.awaits = s
    BY <2>2, <2>4, FreeIsTyped, SlotAssumption
  <2>. QED
    BY <2>1, <2>5, StillKeepsNotAgain
<1>4. CASE WriteElsewhere
  <2>1. UNCHANGED <<form, request, awaited, doubted, made>>
    BY <1>4 DEF WriteElsewhere, page, history
  <2>. QED
    BY <1>4, <2>1, ElsewhereIs, StillKeepsNotAgain DEF Create
<1>. QED
  BY <1>1, <1>2, <1>3, <1>4

LEMMA EditKeepsNotAgain ==
  ASSUME IInv, IInv', NotAgain, NEW f \in Form, Edit(f)
  PROVE  NotAgain'
<1>1. /\ UNCHANGED <<data, request, awaited, doubted>> /\ made' = made + 1 /\ ~form[f].open
      /\ screen.shows \in Data
  BY DEF Edit, IInv, Paged
<1>2. form[f] \in Field /\ form \in [Form -> Field] /\ made \in Nat
      /\ Part(screen.shows, f) \in Int
  BY <1>1, Fields DEF IInv, Typed, Part, Form
<1>3. form' = [form EXCEPT ![f] = Opened(form[f], made + 1, Part(screen.shows, f))]
  BY <1>2 DEF Edit, Opened
<1>4. \A s \in Slot : Sends(s)' = Sends(s) /\ Carries(s)' = Carries(s)
  BY <1>1 DEF Sends, Carries
<1>5. ASSUME NEW t \in Nat
      PROVE  /\ IsFiniteSet(Flying(t)') /\ Tally(t)' = Tally(t) /\ Lost(t)' = Lost(t)
             /\ Tally(t) \in Nat /\ Lost(t) \in Nat
  <2>1. Flying(t)' = Flying(t) /\ IsFiniteSet(Flying(t))
    BY <1>1, <1>4 DEF Flying, NotAgain, Counted
  <2>. QED
    BY <1>1, <2>1, Counts DEF Tally, Lost
<1>6. /\ Create'.open => Create'.text <= made'
      /\ \A s \in Slot : Create'.awaits = s =>
           /\ Create'.open /\ s \in awaited /\ request[s].form = "create"
           /\ request[s].text = Create'.text
      /\ \A t \in Nat : Ready(t)' => Ready(t) \/ t = made + 1
  <2>1. CASE f = "create"
    <3>1. Create'.open /\ Create'.text = made + 1 /\ Create'.awaits = Create.awaits
      BY <1>2, <1>3, <2>1, OpenedIs DEF Create
    <3>2. \A s \in Slot : Create'.awaits # s
      BY <1>1, <2>1, <3>1 DEF NotAgain, Waiting, Create
    <3>. QED
      BY <1>1, <1>2, <3>1, <3>2 DEF Ready
  <2>2. CASE f # "create"
    <3>1. Create' = Create
      BY <1>2, <1>3, <2>2 DEF Create, Form
    <3>2. Create.text \in Nat
      BY NotAgainFields
    <3>. QED
      BY <1>1, <1>2, <1>4, <3>1, <3>2 DEF NotAgain, Waiting, Ready
  <2>. QED
    BY <2>1, <2>2
<1>7. Counted'
  BY <1>1, <1>2, <1>5, <1>6 DEF NotAgain, Counted
<1>8. Waiting'
  BY <1>1, <1>6 DEF NotAgain, Waiting
<1>. QED
  BY <1>7, <1>8 DEF NotAgain

LEMMA CancelKeepsNotAgain ==
  ASSUME IInv, IInv', NotAgain, NEW f \in Form, Cancel(f)
  PROVE  NotAgain'
<1>1. UNCHANGED <<data, request, awaited, doubted, made>>
  BY DEF Cancel, history
<1>2. form \in [Form -> Field] /\ "create" \in Form
  BY DEF IInv, Typed, Form
<1>3. \/ Create' = Create
      \/ Create' = Closed
  BY <1>2 DEF Cancel, Create
<1>. QED
  BY <1>1, <1>3, StillKeepsNotAgain, FreeIsTyped, SlotAssumption

LEMMA SubmitKeepsNotAgain ==
  ASSUME IInv, IInv', NotAgain, NEW f \in Form, NEW s \in Slot, Submit(f, s)
  PROVE  NotAgain'
<1>1. /\ UNCHANGED <<data, doubted, made>>
      /\ form[f].open /\ form[f].awaits = None /\ request[s].stage = "free"
      /\ awaited' = awaited \cup {s}
  BY DEF Submit
<1>2. form[f] \in Field /\ form \in [Form -> Field] /\ request \in [Slot -> Change]
  BY DEF IInv, Typed
<1>3. form' = [form EXCEPT ![f] = Awaiting(form[f], s)]
  BY DEF Submit, Awaiting
<1>4. /\ request'[s].stage = "sent" /\ request'[s].form = f /\ request'[s].text = form[f].text
      /\ \A t \in Slot : t # s => request'[t] = request[t]
  <2>1. held \in Data
    BY DEF Submit, IInv, Paged
  <2>2. form[f].text \in Nat /\ form[f].basis \in Int /\ ETag(held, f) \in Int
    BY <1>2, <2>1, Fields DEF ETag, Part, Form
  <2>3. PICK u \in BOOLEAN : u = (held # screen.shows)
    OBVIOUS
  <2>. DEFINE new == Sending(f, form[f].text, form[f].basis, ETag(held, f), u)
  <2>4. request' = [request EXCEPT ![s] = new]
    BY <2>3 DEF Submit, Sending
  <2>5. new.stage = "sent" /\ new.form = f /\ new.text = form[f].text
    BY <2>2, SendingIs
  <2>. HIDE DEF new
  <2>. QED
    BY <1>2, <2>4, <2>5
<1>5. \A q \in awaited' : request'[q].stage # "free"
  BY <1>1, <1>4 DEF NotAgain, Waiting, IInv, Typed
<1>6. CASE f = "create"
  <2>1. /\ Create'.open /\ Create'.text = Create.text /\ Create'.awaits = s
        /\ Create.open /\ Create.awaits = None /\ Create.text \in Nat
    BY <1>1, <1>2, <1>3, <1>6, AwaitingIs, NotAgainFields DEF Create
  <2>2. Ready(Create.text)
    BY <2>1, SlotAssumption DEF Ready
  <2>3. ~Sends(s) /\ \A q \in Slot : Sends(q)' <=> q = s \/ Sends(q)
    BY <1>1, <1>4, <1>6 DEF Sends
  <2>4. request'[s].text = Create.text
    BY <1>4, <1>6 DEF Create
  <2>5. ASSUME NEW t \in Nat
        PROVE  /\ IsFiniteSet(Flying(t)')
               /\ Tally(t)' = Tally(t) + (IF t = Create.text THEN 1 ELSE 0)
               /\ Lost(t)' = Lost(t) /\ Tally(t) \in Nat /\ Lost(t) \in Nat
    <3>1. IsFiniteSet(Flying(t)) /\ s \notin Flying(t)
      BY <2>3 DEF Flying, NotAgain, Counted
    <3>2. Flying(t)' = IF t = Create.text THEN Flying(t) \cup {s} ELSE Flying(t)
      BY <1>4, <2>3, <2>4 DEF Flying
    <3>3. IsFiniteSet(Flying(t) \cup {s}) /\ Cardinality(Flying(t) \cup {s}) = Cardinality(Flying(t)) + 1
      BY <3>1, FS_AddElement
    <3>4. /\ Cardinality(Flying(t)) \in Nat /\ Times(data.people, t) \in Nat
          /\ Tally(t) \in Nat /\ Lost(t) \in Nat
      BY <3>1, Counts
    <3>5. IsFiniteSet(Flying(t)')
          /\ Cardinality(Flying(t)') = Cardinality(Flying(t)) + (IF t = Create.text THEN 1 ELSE 0)
      BY <3>1, <3>2, <3>3, <3>4
    <3>. QED
      BY <1>1, <3>4, <3>5 DEF Tally, Lost
  <2>6. \A t \in Nat : ~Ready(t)'
    BY <2>1, <2>3 DEF Ready
  <2>7. Create.text <= made /\ made \in Nat
    BY <2>1, NotAgainFields DEF NotAgain, Waiting
  <2>8. Counted'
    BY <1>1, <2>1, <2>2, <2>5, <2>6, <2>7 DEF NotAgain, Counted
  <2>9. Waiting'
    BY <1>1, <1>4, <1>5, <1>6, <2>1, <2>4, <2>7 DEF Waiting
  <2>. QED
    BY <2>8, <2>9 DEF NotAgain
<1>7. CASE f # "create"
  <2>1. Create' = Create
    BY <1>2, <1>3, <1>7 DEF Create, Form
  <2>2. \A q \in Slot : Sends(q)' => Sends(q) /\ request'[q].text = request[q].text
    BY <1>4, <1>7 DEF Sends
  <2>3. \A q \in Slot : Create.awaits = q =>
          /\ Create.open /\ q \in awaited /\ request[q].form = "create"
          /\ request[q].text = Create.text /\ q # s
    BY <1>1 DEF NotAgain, Waiting
  <2>4. \A t \in Nat : Ready(t)' => Ready(t)
    BY <1>4, <2>1, <2>3 DEF Ready, Sends, Carries
  <2>5. ASSUME NEW t \in Nat
        PROVE  /\ IsFiniteSet(Flying(t)') /\ Tally(t)' <= Tally(t) /\ Lost(t)' = Lost(t)
               /\ Tally(t) \in Nat /\ Tally(t)' \in Nat /\ Lost(t) \in Nat
    <3>1. IsFiniteSet(Flying(t)) /\ IsFiniteSet(Flying(t)') /\ Tally(t)' <= Tally(t)
      BY <1>1, <2>2, Landing DEF NotAgain, Counted
    <3>. QED
      BY <1>1, <3>1, Counts, CountsLater, Losing
  <2>6. made \in Nat
    BY NotAgainFields
  <2>7. Counted'
    BY <1>1, <2>4, <2>5, <2>6 DEF NotAgain, Counted
  <2>8. Waiting'
    BY <1>1, <1>4, <1>5, <2>1, <2>3 DEF NotAgain, Waiting
  <2>. QED
    BY <2>7, <2>8 DEF NotAgain
<1>. QED
  BY <1>6, <1>7

\* One request goes on; no form changes.  Where it carried the text of the form and does
\* not any more, or is told as failed, either nobody was added or the loss is counted.
LEMMA RequestKeepsNotAgain ==
  ASSUME IInv, IInv', NotAgain, NEW s \in Slot,
         UNCHANGED <<form, awaited, made>>,
         \A t \in Slot : t # s => request'[t] = request[t],
         request'[s].stage # "sent",
         s \in awaited => /\ request'[s].stage # "free"
                          /\ request'[s].form = request[s].form
                          /\ request'[s].text = request[s].text,
         \A t \in Nat : IsFiniteSet(Flying(t)') /\ Tally(t)' <= Tally(t) /\ Lost(t)' >= Lost(t),
         \A t \in Nat : t = request[s].text /\ (Sends(s) \/ Carries(s)) /\ ~Carries(s)' =>
           Tally(t)' < Tally(t) \/ Lost(t)' > Lost(t)
  PROVE  NotAgain'
<1>1. Create' = Create /\ made' = made
  BY DEF Create
<1>2. \A t \in awaited' : t \in awaited /\ (request[t].stage # "free" => request'[t].stage # "free")
  BY DEF IInv, Typed
<1>3. \A t \in Slot : Create.awaits = t =>
        Create.open /\ t \in awaited /\ request[t].text = Create.text
  BY DEF NotAgain, Waiting
<1>4. \A t \in Slot : Create.awaits = t =>
        /\ request'[t].form = request[t].form /\ request'[t].text = request[t].text
  BY <1>3
<1>5. ASSUME NEW t \in Nat, Ready(t)', ~Ready(t)
      PROVE  Tally(t)' <= Lost(t)'
  <2>1. PICK q \in Slot : Create.awaits = q /\ (Sends(q) \/ Carries(q))
    BY <1>1, <1>5 DEF Ready
  <2>2. ~Sends(q)' /\ ~Carries(q)' /\ Create.text = t
    BY <1>1, <1>5, <2>1 DEF Ready
  <2>3. q = s
    BY <2>1, <2>2 DEF Sends, Carries
  <2>4. request[s].text = t
    BY <1>3, <2>1, <2>2, <2>3
  <2>5. Tally(t)' < Tally(t) \/ Lost(t)' > Lost(t)
    BY <2>1, <2>2, <2>3, <2>4
  <2>6. Tally(t) <= Lost(t) + 1 /\ IsFiniteSet(Flying(t)) /\ IsFiniteSet(Flying(t)')
        /\ Tally(t)' <= Tally(t) /\ Lost(t)' >= Lost(t)
    BY DEF NotAgain, Counted
  <2>7. Tally(t) \in Nat /\ Lost(t) \in Nat /\ Tally(t)' \in Nat /\ Lost(t)' \in Nat
    BY <2>6, Counts, CountsLater
  <2>. QED
    BY <2>5, <2>6, <2>7
<1>. QED
  BY <1>1, <1>2, <1>3, <1>4, <1>5, QuietKeeps

LEMMA CommitKeepsNotAgain ==
  ASSUME IInv, IInv', NotAgain, NEW s \in Slot, Commit(s)
  PROVE  NotAgain'
<1>. PICK x \in Nat : x = request[s].text
  BY NotAgainFields
<1>1. /\ UNCHANGED <<form, awaited, made>> /\ request[s].stage = "sent" /\ ~Carries(s)
      /\ data' = Applied(request[s].form, x)
  BY DEF Commit, page, Carries
<1>2. /\ data \in Data /\ data.version \in Nat /\ data.people \in Seq(Nat)
      /\ request[s].form \in Form
  BY Fields DEF IInv, Typed
<1>3. /\ \A t \in Slot : t # s => request'[t] = request[t]
      /\ request'[s].stage # "sent"
      /\ s \in awaited =>
           /\ request'[s].stage # "free" /\ request'[s].form = request[s].form
           /\ request'[s].text = request[s].text
           /\ Carries(s)' \/ doubted' = Append(doubted, x)
      /\ doubted' = doubted \/ doubted' = Append(doubted, x)
  <2>1. CASE AnswerChange(s, "ok", data.version + 1) /\ doubted' = doubted
    <3>1. data.version + 1 \in Nat /\ data.version + 1 > 0
      BY <1>2
    <3>. QED
      BY <1>1, <2>1, <3>1, AnswerChangeIs DEF Carries
  <2>2. CASE AnswerChange(s, "failed", 0) /\ doubted' = Append(doubted, x)
    BY <1>1, <2>2, AnswerChangeIs
  <2>. QED
    BY <2>1, <2>2 DEF Commit
<1>4. ~Sends(s)' /\ \A t \in Slot : Sends(t)' => Sends(t) /\ request'[t].text = request[t].text
  BY <1>3 DEF Sends
<1>5. ASSUME NEW t \in Nat
      PROVE  /\ Tally(t) \in Nat /\ Lost(t) \in Nat /\ Lost(t)' >= Lost(t)
             /\ doubted' = Append(doubted, x) /\ t = x => Lost(t)' > Lost(t)
  <2>1. Tally(t) \in Nat /\ Lost(t) \in Nat
    BY Counts DEF NotAgain, Counted
  <2>. QED
    BY <1>2, <1>3, <2>1, Losing
<1>6. ASSUME NEW t \in Nat
      PROVE  IsFiniteSet(Flying(t)') /\ Tally(t)' <= Tally(t)
  <2>1. data'.people = IF request[s].form = "create" THEN Append(data.people, x) ELSE data.people
    BY <1>1, <1>2, AppliedIs
  <2>2. CASE request[s].form # "create"
    BY <1>4, <2>1, <2>2, Landing DEF NotAgain
  <2>3. CASE request[s].form = "create"
    <3>1. Sends(s)
      BY <1>1, <2>3 DEF Sends
    <3>2. /\ IsFiniteSet(Flying(t)')
          /\ Cardinality(Flying(t)') = Cardinality(Flying(t)) - (IF t = x THEN 1 ELSE 0)
      BY <1>3, <1>4, <3>1, Landed DEF NotAgain
    <3>3. Times(data'.people, t) = Times(data.people, t) + (IF x = t THEN 1 ELSE 0)
      BY <1>2, <2>1, <2>3, TimesOf
    <3>4. Cardinality(Flying(t)) \in Nat /\ Times(data.people, t) \in Nat
      BY Counts DEF NotAgain, Counted
    <3>5. Tally(t)' = Times(data'.people, t) + Cardinality(Flying(t)')
      BY <3>2, CountsLater
    <3>. QED
      BY <3>2, <3>3, <3>4, <3>5 DEF Tally
  <2>. QED
    BY <2>2, <2>3
<1>7. CASE s \in awaited
  <2>1. ~Carries(s)' => Lost(x)' > Lost(x)
    BY <1>3, <1>5, <1>7
  <2>. QED
    BY <1>1, <1>3, <1>5, <1>6, <1>7, <2>1, RequestKeepsNotAgain
<1>8. CASE s \notin awaited
  <2>1. Create' = Create /\ \A t \in Slot : Create.awaits = t => t \in awaited /\ Create.open
    BY <1>1 DEF NotAgain, Waiting, Create
  <2>2. \A t \in Nat : Ready(t)' => Ready(t)
    BY <1>3, <1>8, <2>1 DEF Ready, Sends, Carries
  <2>3. \A t \in awaited' : t \in awaited /\ (request[t].stage # "free" => request'[t].stage # "free")
    BY <1>1, <1>3, <1>8 DEF IInv, Typed
  <2>4. \A t \in Slot : Create'.awaits = t =>
          /\ Create.awaits = t /\ Create'.open /\ t \in awaited'
          /\ request'[t].form = request[t].form /\ request'[t].text = request[t].text
    BY <1>1, <1>3, <1>8, <2>1
  <2>. QED
    BY <1>1, <1>5, <1>6, <2>1, <2>2, <2>3, <2>4, QuietKeeps
<1>. QED
  BY <1>7, <1>8

LEMMA ServeKeepsNotAgain ==
  ASSUME IInv, IInv', NotAgain, NEW s \in Slot,
         Refuse(s) \/ ServeLoad(s) \/ LoseLoad(s) \/ TakeAnswer(s)
  PROVE  NotAgain'
<1>1. /\ request \in [Slot -> Change] /\ request[s] \in Change /\ request[s].text \in Nat
      /\ \A t \in Nat : Tally(t) \in Nat /\ Lost(t) \in Nat
  BY NotAgainFields, Counts DEF IInv, Typed, NotAgain, Counted
<1>2. CASE Refuse(s)
  <2>1. UNCHANGED <<data, form, awaited, made, doubted>> /\ request[s].stage = "sent"
    BY <1>2 DEF Refuse, page, history
  <2>2. PICK x \in {"changed", "failed", "unauthorized"} : AnswerChange(s, x, 0)
    BY <1>2 DEF Refuse
  <2>3. /\ \A t \in Slot : t # s => request'[t] = request[t]
        /\ request'[s].stage # "sent"
        /\ s \in awaited => /\ request'[s].stage # "free"
                            /\ request'[s].form = request[s].form
                            /\ request'[s].text = request[s].text
    BY <2>1, <2>2, AnswerChangeIs
  <2>4. ~Sends(s)' /\ ~Carries(s)
        /\ \A t \in Slot : Sends(t)' => Sends(t) /\ request'[t].text = request[t].text
    BY <2>1, <2>3 DEF Sends, Carries
  <2>5. \A t \in Nat : /\ IsFiniteSet(Flying(t)') /\ Tally(t)' <= Tally(t)
                       /\ Lost(t)' >= Lost(t)
    BY <2>1, <2>4, NothingLost
  <2>6. ASSUME NEW t \in Nat, t = request[s].text, Sends(s)
        PROVE  Tally(t)' < Tally(t)
    <3>1. /\ IsFiniteSet(Flying(t)')
          /\ Cardinality(Flying(t)') = Cardinality(Flying(t)) - 1
      BY <2>3, <2>4, <2>6, Landed DEF NotAgain
    <3>2. Cardinality(Flying(t)) \in Nat /\ Times(data.people, t) \in Nat
      BY Counts DEF NotAgain, Counted
    <3>3. Tally(t)' = Times(data.people, t) + Cardinality(Flying(t)')
      BY <2>1, <3>1, CountsLater
    <3>. QED
      BY <3>1, <3>2, <3>3 DEF Tally
  <2>. QED
    BY <2>1, <2>3, <2>4, <2>5, <2>6, RequestKeepsNotAgain
<1>3. CASE ServeLoad(s)
  <2>1. UNCHANGED <<data, form, awaited, made, doubted>> /\ request[s].stage = "loading"
    BY <1>3 DEF ServeLoad, page, history
  <2>2. request' = [request EXCEPT ![s] = Loaded(request[s], data)] /\ data \in Data
    BY <1>3 DEF ServeLoad, Loaded, IInv, Typed
  <2>3. /\ \A t \in Slot : t # s => request'[t] = request[t]
        /\ request'[s].stage = "loaded" /\ request'[s].wrote = request[s].wrote
        /\ request'[s].form = request[s].form /\ request'[s].text = request[s].text
    BY <1>1, <2>2, LoadedIs
  <2>4. ~Sends(s) /\ (Carries(s) => Carries(s)')
        /\ \A t \in Slot : Sends(t)' => Sends(t) /\ request'[t].text = request[t].text
    BY <2>1, <2>3 DEF Sends, Carries
  <2>5. \A t \in Nat : /\ IsFiniteSet(Flying(t)') /\ Tally(t)' <= Tally(t)
                       /\ Lost(t)' >= Lost(t)
    BY <2>1, <2>4, NothingLost
  <2>. QED
    BY <2>1, <2>3, <2>4, <2>5, RequestKeepsNotAgain
<1>4. CASE LoseLoad(s)
  <2>1. UNCHANGED <<data, form, awaited, made>> /\ request[s].stage = "loading"
    BY <1>4 DEF LoseLoad, page
  <2>2. /\ \A t \in Slot : t # s => request'[t] = request[t]
        /\ request'[s].stage = "failed"
        /\ request'[s].form = request[s].form /\ request'[s].text = request[s].text
    BY <1>4, AdvanceIs DEF LoseLoad, Stage
  <2>3. ~Sends(s)
        /\ \A t \in Slot : Sends(t)' => Sends(t) /\ request'[t].text = request[t].text
    BY <2>1, <2>2 DEF Sends
  <2>4. ASSUME NEW t \in Nat
        PROVE  Lost(t)' >= Lost(t) /\ (Carries(s) /\ t = request[s].text => Lost(t)' > Lost(t))
    <3>1. \/ doubted' = doubted /\ ~Carries(s)
          \/ doubted' = Append(doubted, request[s].text)
      BY <1>4 DEF LoseLoad, Carries
    <3>2. doubted' = doubted => Lost(t)' = Lost(t)
      BY <1>1, Losing
    <3>3. doubted' = Append(doubted, request[s].text) =>
            Lost(t)' = Lost(t) + (IF t = request[s].text THEN 1 ELSE 0)
      BY <1>1, Losing
    <3>4. Lost(t) \in Nat
      BY <1>1
    <3>. QED
      BY <3>1, <3>2, <3>3, <3>4
  <2>5. \A t \in Nat : IsFiniteSet(Flying(t)') /\ Tally(t)' <= Tally(t)
    BY <2>1, <2>3, Landing DEF NotAgain
  <2>. QED
    BY <2>1, <2>2, <2>3, <2>4, <2>5, RequestKeepsNotAgain
<1>5. CASE TakeAnswer(s)
  <2>1. UNCHANGED <<data, form, awaited, made, doubted>> /\ request[s].stage \in {"ok", "changed"}
    BY <1>5 DEF TakeAnswer, page, history
  <2>2. /\ \A t \in Slot : t # s => request'[t] = request[t]
        /\ request'[s].stage = "loading" /\ request'[s].wrote = request[s].wrote
        /\ request'[s].form = request[s].form /\ request'[s].text = request[s].text
    BY <1>5, AdvanceIs DEF TakeAnswer, Stage
  <2>3. ~Sends(s) /\ (Carries(s) => Carries(s)')
        /\ \A t \in Slot : Sends(t)' => Sends(t) /\ request'[t].text = request[t].text
    BY <2>1, <2>2 DEF Sends, Carries
  <2>4. \A t \in Nat : /\ IsFiniteSet(Flying(t)') /\ Tally(t)' <= Tally(t)
                       /\ Lost(t)' >= Lost(t)
    BY <2>1, <2>3, NothingLost
  <2>. QED
    BY <2>1, <2>2, <2>3, <2>4, RequestKeepsNotAgain
<1>. QED
  BY <1>2, <1>3, <1>4, <1>5

\* The lost one is counted before the form may send its text again.
LEMMA ConnectionLostKeepsNotAgain ==
  ASSUME IInv, IInv', NotAgain, NEW s \in Slot, ConnectionLost(s)
  PROVE  NotAgain'
<1>1. /\ UNCHANGED <<data, request, made>> /\ request[s].stage = "sent"
      /\ awaited' = awaited \ {s} /\ doubted' = Append(doubted, request[s].text)
      /\ request[s].text \in Nat
  BY NotAgainFields DEF ConnectionLost
<1>2. /\ Create'.open = Create.open /\ Create'.text = Create.text
      /\ Create'.awaits = IF Create.awaits = s THEN "settled" ELSE Create.awaits
  BY ReopenedIs DEF ConnectionLost, Create, Form
<1>3. /\ \A t \in Slot : Sends(t)' = Sends(t) /\ Carries(t)' = Carries(t)
      /\ ~Carries(s)
  BY <1>1 DEF Sends, Carries
<1>4. ASSUME NEW t \in Nat
      PROVE  /\ IsFiniteSet(Flying(t)') /\ Tally(t)' <= Tally(t) /\ Lost(t)' >= Lost(t)
             /\ t = request[s].text => Lost(t)' = Lost(t) + 1
             /\ Tally(t) \in Nat /\ Tally(t)' \in Nat /\ Lost(t) \in Nat
  <2>1. IsFiniteSet(Flying(t)') /\ Tally(t)' <= Tally(t)
    BY <1>1, <1>3, Landing DEF NotAgain
  <2>2. Tally(t) \in Nat /\ Tally(t)' \in Nat /\ Lost(t) \in Nat
    BY <2>1, Counts, CountsLater DEF NotAgain, Counted
  <2>3. Lost(t)' = Lost(t) + (IF t = request[s].text THEN 1 ELSE 0)
    BY <1>1, Losing
  <2>. QED
    BY <2>1, <2>2, <2>3
<1>5. \A t \in Slot : Create.awaits = t =>
        Create.open /\ t \in awaited /\ request[t].text = Create.text
  BY DEF NotAgain, Waiting
<1>6. ASSUME NEW t \in Nat, Ready(t)'
      PROVE  Ready(t) \/ Tally(t)' <= Lost(t)'
  <2>1. CASE Create.awaits = s
    <3>1. t = request[s].text
      BY <1>2, <1>5, <1>6, <2>1 DEF Ready
    <3>2. Tally(t) <= Lost(t) + 1
      BY DEF NotAgain, Counted
    <3>. QED
      BY <1>4, <3>1, <3>2
  <2>2. CASE Create.awaits # s
    BY <1>2, <1>3, <1>6, <2>2 DEF Ready
  <2>. QED
    BY <2>1, <2>2
<1>7. \A t \in Slot : Create'.awaits = t => t # s /\ Create.awaits = t
  BY <1>2, SlotAssumption
<1>. QED
  BY <1>1, <1>2, <1>4, <1>5, <1>6, <1>7, QuietKeeps

\* A change that carries what is in the form closes it; any other one leaves the text.
LEMMA SettleKeepsNotAgain ==
  ASSUME IInv, IInv', NotAgain, NEW s \in Slot, TakeLoad(s) \/ TakeFailure(s)
  PROVE  NotAgain'
<1>1. /\ UNCHANGED <<data, made, doubted>> /\ request[s].stage \in {"loaded", "failed"}
      /\ awaited' = awaited \ {s} /\ Settle(s)
      /\ (Carries(s) /\ Done(s)) \/ (~Carries(s) /\ Reopened(s))
  <2>1. request[s].wrote \in Nat
    BY NotAgainFields
  <2>. QED
    BY <2>1 DEF TakeLoad, TakeFailure, Settle, history, Carries
<1>2. request'[s].stage = "free" /\ \A t \in Slot : t # s => request'[t] = request[t]
  BY <1>1, SettleIs
<1>3. ~Sends(s) /\ \A t \in Slot : Sends(t)' => t # s /\ Sends(t) /\ request'[t].text = request[t].text
  BY <1>1, <1>2 DEF Sends
<1>4. \A t \in Nat : /\ IsFiniteSet(Flying(t)') /\ Tally(t)' <= Tally(t)
                     /\ Lost(t)' >= Lost(t)
  BY <1>1, <1>3, NothingLost
<1>5. form \in [Form -> Field] /\ "create" \in Form /\ Create \in Field /\ request[s].form \in Form
  BY NotAgainFields DEF IInv, Typed, Form
<1>6. \A t \in Slot : Create.awaits = t =>
        Create.open /\ t \in awaited /\ request[t].form = "create"
  BY DEF NotAgain, Waiting
<1>7. \/ Create' = Create /\ Create.awaits # s
      \/ ~Create'.open /\ \A t \in Slot : Create'.awaits # t
      \/ /\ Create.awaits = s /\ ~Carries(s)
         /\ Create'.open = Create.open /\ Create'.text = Create.text
         /\ \A t \in Slot : Create'.awaits # t
  <2>1. CASE Carries(s) /\ Done(s)
    <3>1. CASE request[s].form = "create"
      <4>1. \/ \E x \in {None, "settled"} : Create' = Awaiting(Closed, x)
            \/ Create' = Create /\ Create.awaits # s
        BY <1>5, <2>1, <3>1 DEF Done, Awaiting, Create
      <4>2. \A x \in {None, "settled"} :
              ~Awaiting(Closed, x).open /\ Awaiting(Closed, x).awaits = x
        BY AwaitingIs, FreeIsTyped
      <4>. QED
        BY <4>1, <4>2, SlotAssumption
    <3>2. CASE request[s].form # "create"
      <4>1. Create' = Create
        BY <1>5, <2>1, <3>2 DEF Done, Create
      <4>. QED
        BY <1>6, <3>2, <4>1
    <3>. QED
      BY <3>1, <3>2
  <2>2. CASE ~Carries(s) /\ Reopened(s)
    <3>1. Create' = IF Create.awaits = s THEN Awaiting(Create, "settled") ELSE Create
      BY <1>5, <2>2 DEF Reopened, Awaiting, Create
    <3>2. /\ Awaiting(Create, "settled").open = Create.open
          /\ Awaiting(Create, "settled").text = Create.text
          /\ Awaiting(Create, "settled").awaits = "settled"
      BY <1>5, AwaitingIs
    <3>. QED
      BY <2>2, <3>1, <3>2, SlotAssumption
  <2>. QED
    BY <1>1, <2>1, <2>2
<1>8. \A t \in awaited' : t \in awaited /\ (request[t].stage # "free" => request'[t].stage # "free")
  BY <1>1, <1>2 DEF IInv, Typed
<1>9. Create'.open => Create.open /\ Create'.text = Create.text
  BY <1>7
<1>10. \A t \in Slot : Create'.awaits = t =>
         /\ Create.awaits = t /\ Create'.open /\ t \in awaited'
         /\ request'[t].form = request[t].form /\ request'[t].text = request[t].text
  BY <1>1, <1>2, <1>6, <1>7
<1>11. \A t \in Nat : Ready(t)' => Ready(t)
  BY <1>2, <1>3, <1>7 DEF Ready, Sends, Carries
<1>. QED
  BY <1>1, <1>4, <1>8, <1>9, <1>10, <1>11, QuietKeeps

LEMMA StepKeepsNotAgain == IInv /\ IInv' /\ NotAgain /\ [Next]_vars => NotAgain'
<1>1. ASSUME IInv, IInv', NotAgain, UNCHANGED vars
      PROVE  NotAgain'
  <2>1. UNCHANGED <<data, form, request, awaited, made, doubted>>
    BY <1>1 DEF vars, page, history
  <2>. QED
    BY <1>1, <2>1, StillKeepsNotAgain DEF Create
<1>2. ASSUME IInv, IInv', NotAgain, NEW s \in Slot, LeaveForLogin(s)
      PROVE  NotAgain'
  BY <1>2, ForgetKeepsNotAgain DEF LeaveForLogin, history
<1>. QED
  BY <1>1, <1>2, PageKeepsNotAgain, EditKeepsNotAgain, CancelKeepsNotAgain, SubmitKeepsNotAgain,
     CommitKeepsNotAgain, ServeKeepsNotAgain, SettleKeepsNotAgain, ConnectionLostKeepsNotAgain
     DEF Next, Serve, Take

\* What was sent and is told as failed is lost: a person is added once, and once more at
\* most for each loss, though the lost ones may arrive late, and all at once.
THEOREM Added == Spec => []AddedOnce
<1>1. IInv /\ NotAgain => AddedOnce
  <2>. SUFFICES ASSUME IInv, NotAgain, NEW t \in ToSet(data.people)
                PROVE  Times(data.people, t) <= 1 + Times(doubted, t)
    BY DEF AddedOnce
  <2>1. t \in Nat
    BY NotAgainFields DEF ToSet
  <2>2. IsFiniteSet(Flying(t)) /\ Tally(t) <= Lost(t) + 1
    BY <2>1 DEF NotAgain, Counted
  <2>3. /\ Times(data.people, t) \in Nat /\ Cardinality(Flying(t)) \in Nat /\ Lost(t) \in Nat
    BY <2>1, <2>2, Counts
  <2>. QED
    BY <2>2, <2>3 DEF Tally, Lost
<1>. QED
  BY <1>1, Initially, StepKeeps, InitiallyNotAgain, StepKeepsNotAgain, PTL DEF Spec
=============================================================================
