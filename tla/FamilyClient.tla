----------------------------- MODULE FamilyClient -----------------------------
(***************************************************************************)
(* The page of a family: what it fetched, what React has rendered of it,   *)
(* the forms that are open, and the changes it has asked for.              *)
(*                                                                         *)
(* A change is two requests: the change itself, with the ETag of what the  *)
(* page holds, and then a load of everything, after a success and after a  *)
(* 412.  A fieldset is disabled while a change runs, but the dialog of the *)
(* family stands outside of it, so that two changes may run at once.  A    *)
(* render comes later than the state it renders.                           *)
(*                                                                         *)
(* The Worker answers a change in one step here: what it decides, and when *)
(* it writes, is FamilyResource.  "person" stands for any form or control  *)
(* that replaces one resource inside the fieldset.  What is typed is a     *)
(* number no other typing uses, and so is what others write.               *)
(***************************************************************************)
EXTENDS Integers, Sequences, SequencesExt, FiniteSets

CONSTANTS Slot,        \* requests that can be on their way at once
          MaxMade,     \* bound: texts ever typed
          MaxVersion,  \* bound: others write up to this version
          MaxDoubts,   \* bound: changes told as failed that were or may be saved
          None

ASSUME SlotAssumption == None \notin Slot /\ "settled" \notin Slot
ASSUME BoundAssumption == {MaxMade, MaxVersion, MaxDoubts} \subseteq Nat

Form == {"family", "person", "create"}
Modal == {"family", "create"}

VARIABLES
  data,      \* what buildFamilyDetailData makes of the log
  at,        \* which screen is up
  held,      \* representation and the ref beside it
  pending,   \* the pending state of FamilyDetail
  screen,    \* what is rendered: the representation and whether the fieldset is off
  form,      \* the mounted forms
  request,   \* the changes on their way
  awaited,   \* those of this page, not of one that was reloaded
  made,      \* history, as are the next three
  doubted,   \* what the page was told is not saved, and was or may be
  saved,     \* the newest version a change was reported saved in
  overlapped \* two changes of this page ran at once

page == <<at, held, pending, screen, form, awaited>>
history == <<made, doubted, saved, overlapped>>
vars == <<data, page, request, history>>

Data == [version : Nat, family : Int, person : Int, people : Seq(Nat)]
\* Nothing fetched is no data.
ASSUME NoneAssumption == None \notin Data

\* The value a form replaces.
Part(d, f) == IF f = "create" THEN 0 ELSE d[f]

\* resource_etags: PATCH /api/family is compared with all of the data.
ETag(d, f) == IF f = "family" THEN d.version ELSE Part(d, f)

Closed == [open |-> FALSE, text |-> 0, basis |-> 0, awaits |-> None]
Free == [stage |-> "free", form |-> "person", text |-> 0, basis |-> 0, etag |-> 0,
         unrendered |-> FALSE, wrote |-> 0, got |-> None]

-----------------------------------------------------------------------------
Init ==
  /\ data = [version |-> 0, family |-> 0, person |-> 0, people |-> <<>>]
  /\ at = "loading" /\ held = None /\ pending = FALSE
  /\ screen = [shows |-> None, off |-> FALSE]
  /\ form = [f \in Form |-> Closed]
  /\ request = [s \in Slot |-> Free]
  /\ awaited = {}
  /\ made = 0 /\ doubted = <<>> /\ saved = 0 /\ overlapped = FALSE

(***************************************************************************)
(* The page.                                                               *)
(***************************************************************************)
\* The first load, which may also lead to the login; a render may come right behind it,
\* as there is nothing to click.
Load ==
  /\ at = "loading"
  /\ \/ /\ at' = "open" /\ held' = data
        /\ screen' = [shows |-> data, off |-> FALSE]
     \/ /\ at' \in {"failed", "login"} /\ UNCHANGED <<held, screen>>
  /\ UNCHANGED <<data, pending, form, awaited, request, history>>

\* window.location.reload, or a new login: the page is forgotten, its requests go on.
Reload ==
  /\ at # "loading"
  /\ at' = "loading" /\ held' = None /\ pending' = FALSE
  /\ screen' = [shows |-> None, off |-> FALSE]
  /\ form' = [f \in Form |-> Closed]
  /\ request' = [s \in Slot |-> IF request[s].stage = "sent" THEN request[s] ELSE Free]
  /\ awaited' = {} /\ saved' = 0 /\ overlapped' = FALSE
  /\ UNCHANGED <<data, made, doubted>>

NoDialog == \A f \in Modal : ~form[f].open

\* A control inside the fieldset; a dialog is not, but its opener may be.
Enabled(f) == f = "family" \/ ~screen.off

\* What is in a form is composed on what the screen shows when it is opened.
Edit(f) ==
  /\ at = "open" /\ NoDialog /\ Enabled(f) /\ ~form[f].open
  /\ made < MaxMade
  /\ made' = made + 1
  /\ form' = [form EXCEPT ![f].open = TRUE, ![f].text = made + 1,
                          ![f].basis = Part(screen.shows, f)]
  /\ UNCHANGED <<data, at, held, pending, screen, awaited, request, doubted, saved,
                 overlapped>>

\* A form is given up, or left for another topic: the navigation is outside the fieldset
\* and works while a change runs.  The dialog of the family stays mounted when it is
\* closed, and keeps its pending.
Cancel(f) ==
  /\ form[f].open
  /\ f \in Modal \/ NoDialog
  /\ form' = [form EXCEPT ![f] =
       IF f = "family" THEN [Closed EXCEPT !.awaits = form[f].awaits] ELSE Closed]
  /\ UNCHANGED <<data, at, held, pending, screen, awaited, request, history>>

\* FamilyDetail.guarded and change: the ETag is that of what the page holds, which
\* need not be rendered yet.  pending is rendered before the next click.
Submit(f, s) ==
  /\ at = "open" /\ form[f].open /\ form[f].awaits = None
  /\ f \in Modal \/ (NoDialog /\ ~screen.off)
  /\ request[s].stage = "free"
  /\ request' = [request EXCEPT ![s] =
       [Free EXCEPT !.stage = "sent", !.form = f, !.text = form[f].text,
                    !.basis = form[f].basis, !.etag = ETag(held, f),
                    !.unrendered = (held # screen.shows)]]
  /\ form' = [form EXCEPT ![f].awaits = s]
  /\ awaited' = awaited \cup {s}
  /\ pending' = TRUE /\ screen' = [screen EXCEPT !.off = TRUE]
  /\ overlapped' = (overlapped \/ awaited # {})
  /\ UNCHANGED <<data, at, held, made, doubted, saved>>

\* Mutant: the forms have no key, and keep what is typed in them.
KeptForms ==
  [f \in Form |-> IF form[f].awaits = "settled" THEN [form[f] EXCEPT !.awaits = None]
                  ELSE form[f]]

\* The keys of the forms: one whose resource has changed is mounted anew.  In the
\* others the button works again if their change is settled.
Remounted ==
  [f \in Form |-> IF Part(held, f) # Part(screen.shows, f) THEN Closed
                  ELSE IF form[f].awaits = "settled" THEN [form[f] EXCEPT !.awaits = None]
                  ELSE form[f]]

Render ==
  /\ at = "open"
  /\ screen # [shows |-> held, off |-> pending]
  /\ screen' = [shows |-> held, off |-> pending]
  /\ form' = Remounted
  /\ UNCHANGED <<data, at, held, pending, awaited, request, history>>

-----------------------------------------------------------------------------
(***************************************************************************)
(* The Worker.                                                             *)
(***************************************************************************)
Advance(s, stage) == request' = [request EXCEPT ![s].stage = stage]

Applied(f, text) ==
  IF f = "create"
  THEN [data EXCEPT !.version = @ + 1, !.people = Append(@, text)]
  ELSE [data EXCEPT !.version = @ + 1, ![f] = text]

\* The answer to a page that is gone is of no use to anybody.
AnswerChange(s, stage, wrote) ==
  request' = [request EXCEPT ![s] =
    IF s \in awaited THEN [@ EXCEPT !.stage = stage, !.wrote = wrote] ELSE Free]

\* If-Match holds, or there is none.
Matches(s) == request[s].form = "create" \/ ETag(data, request[s].form) = request[s].etag

\* The change is committed; its answer may be lost on the way.
Commit(s) ==
  /\ request[s].stage = "sent" /\ Matches(s)
  /\ data' = Applied(request[s].form, request[s].text)
  /\ \/ AnswerChange(s, "ok", data.version + 1) /\ UNCHANGED doubted
     \/ /\ s \in awaited /\ Len(doubted) < MaxDoubts
        /\ AnswerChange(s, "failed", 0)
        /\ doubted' = Append(doubted, request[s].text)
  /\ UNCHANGED <<page, made, saved, overlapped>>

\* 412, or any other refusal, or no answer at all.
Refuse(s) ==
  /\ request[s].stage = "sent"
  /\ \/ ~Matches(s) /\ AnswerChange(s, "changed", 0)
     \/ \E stage \in {"failed", "unauthorized"} : AnswerChange(s, stage, 0)
  /\ UNCHANGED <<data, page, history>>

\* GET /api/family.
ServeLoad(s) ==
  /\ request[s].stage = "loading"
  /\ request' = [request EXCEPT ![s].stage = "loaded", ![s].got = data]
  /\ UNCHANGED <<data, page, history>>

\* Organisers, other families and other devices of this one.
WriteElsewhere ==
  /\ data.version < MaxVersion
  /\ \E text \in {-data.version - 1} :
       \/ data' = Applied("family", text)
       \/ data' = Applied("person", text)
       \/ data' = [data EXCEPT !.version = @ + 1]
  /\ UNCHANGED <<page, request, history>>

-----------------------------------------------------------------------------
(***************************************************************************)
(* The page takes its answers.                                             *)
(***************************************************************************)
\* Mutant: a failure leaves pending as it is.
SettleQuietly(s) ==
  /\ request' = [request EXCEPT ![s] = Free]
  /\ awaited' = awaited \ {s}
  /\ UNCHANGED pending

\* `finally`: pending goes, whatever else is still on its way.
Settle(s) ==
  /\ request' = [request EXCEPT ![s] = Free]
  /\ awaited' = awaited \ {s}
  /\ pending' = FALSE

\* The form that waits for s, with what is typed in it, may be sent again.
Reopened(s) ==
  form' = [f \in Form |-> IF form[f].awaits = s THEN [form[f] EXCEPT !.awaits = "settled"]
                          ELSE form[f]]

\* Mutant: the form is left as it is.
DoneLeavesForm(s) == Reopened(s)

\* setOpen(false) reaches the dialog if it is still mounted; onDone is the parent's and
\* closes or empties the form that is there now, unless the parent was left with its topic.
Done(s) ==
  LET f == request[s].form
      mounted == form[f].awaits = s
      closed == [Closed EXCEPT !.awaits = IF form[f].awaits = None THEN None ELSE "settled"]
  IN  \/ (f = "family" => mounted) /\ form' = [form EXCEPT ![f] = closed]
      \/ ~mounted /\ UNCHANGED form

\* Mutant: what was loaded is rendered and not kept.
TakeLoadUnkept(s) ==
  /\ request[s].stage = "loaded"
  /\ Settle(s) /\ UNCHANGED held
  /\ IF request[s].wrote > 0 THEN Done(s) ELSE Reopened(s)
  /\ saved' = IF request[s].wrote > saved THEN request[s].wrote ELSE saved
  /\ UNCHANGED <<data, at, screen, made, doubted, overlapped>>

\* The load has come: after a success the form is done, after a 412 it may try again.
TakeLoad(s) ==
  /\ request[s].stage = "loaded"
  /\ held' = request[s].got
  /\ Settle(s)
  /\ IF request[s].wrote > 0 THEN Done(s) ELSE Reopened(s)
  /\ saved' = IF request[s].wrote > saved THEN request[s].wrote ELSE saved
  /\ UNCHANGED <<data, at, screen, made, doubted, overlapped>>

\* A failure of the change, or of the load behind it.
TakeFailure(s) ==
  /\ request[s].stage = "failed"
  /\ Settle(s) /\ Reopened(s)
  /\ UNCHANGED <<data, at, held, screen, history>>

\* The connection is gone before the Worker has answered: the change is told as failed, and
\* is served all the same, whenever it arrives.
ConnectionLost(s) ==
  /\ s \in awaited /\ request[s].stage = "sent"
  /\ Len(doubted) < MaxDoubts
  /\ doubted' = Append(doubted, request[s].text)
  /\ awaited' = awaited \ {s}
  /\ pending' = FALSE
  /\ Reopened(s)
  /\ UNCHANGED <<data, at, held, screen, request, made, saved, overlapped>>

\* After a success and after a 412 all is loaded again.
TakeAnswer(s) ==
  /\ request[s].stage \in {"ok", "changed"}
  /\ Advance(s, "loading")
  /\ UNCHANGED <<data, page, history>>

\* The load fails: a change that was saved is told as failed.
LoseLoad(s) ==
  /\ request[s].stage = "loading"
  /\ Advance(s, "failed")
  /\ IF request[s].wrote > 0
     THEN /\ Len(doubted) < MaxDoubts
          /\ doubted' = Append(doubted, request[s].text)
     ELSE UNCHANGED doubted
  /\ UNCHANGED <<data, page, made, saved, overlapped>>

\* 401: to the login, and what else is on its way is not awaited any more.
LeaveForLogin(s) ==
  /\ request[s].stage = "unauthorized"
  /\ at' = "login"
  /\ request' = [q \in Slot |-> IF request[q].stage = "sent" THEN request[q] ELSE Free]
  /\ awaited' = {}
  /\ form' = [f \in Form |-> Closed]
  /\ UNCHANGED <<data, held, pending, screen, history>>

Take(s) == TakeAnswer(s) \/ TakeLoad(s) \/ TakeFailure(s) \/ LeaveForLogin(s)
Serve(s) == Commit(s) \/ Refuse(s) \/ ServeLoad(s) \/ LoseLoad(s)

Next ==
  \/ Load \/ Reload \/ Render \/ WriteElsewhere
  \/ \E f \in Form : Edit(f) \/ Cancel(f) \/ \E s \in Slot : Submit(f, s)
  \/ \E s \in Slot : Serve(s) \/ Take(s) \/ ConnectionLost(s)

\* A fetch settles, the code behind it runs, and React renders.
Fairness ==
  /\ WF_vars(Render)
  /\ \A s \in Slot : WF_vars(Serve(s)) /\ WF_vars(Take(s))

Spec == Init /\ [][Next]_vars
FairSpec == Spec /\ Fairness

-----------------------------------------------------------------------------
(***************************************************************************)
(* Properties                                                              *)
(***************************************************************************)
Committed(s) == request[s].stage = "sent" /\ request'[s].stage # "sent" /\ data' # data

\* Nothing is replaced that its author has not seen: what a change overwrites is what
\* the screen showed when the form was opened, however many loads, renders and other
\* changes came in between.  The one exception is a change sent after a load has come and
\* before React renders it, as the ETag is that of the load.
ReplacesWhatWasShown ==
  [][\A s \in Slot : Committed(s) =>
       \/ request[s].basis = Part(data, request[s].form)
       \/ request[s].unrendered]_vars

\* What was reported as saved is on the page: unless two changes ran at once, whose
\* loads may overtake each other.
SavedUnlessOverlapped == held # None /\ ~overlapped => held.version >= saved

Times(list, text) == Cardinality({i \in DOMAIN list : list[i] = text})

\* A person is added once, however often the form is sent, and once more at most for each
\* time that the answer, or the load behind it, was lost: what is told as saved ends the
\* form, and nothing sends it again but the form's author, whenever the lost one arrives.
AddedOnce ==
  \A text \in ToSet(data.people) : Times(data.people, text) <= 1 + Times(doubted, text)

\* A page whose fieldset is disabled by a change is enabled again, whatever becomes of it.
PageComesBack ==
  at = "open" /\ screen.off ~> at # "open" \/ ~screen.off
=============================================================================
