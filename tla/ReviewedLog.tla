---------------------------- MODULE ReviewedLog -----------------------------
(***************************************************************************)
(* What the event table promises its callers: appending a reviewed batch   *)
(* is one atomic step.  A request is settled once; if it is settled "ok",  *)
(* its whole batch entered the log in that step, behind a log it folds     *)
(* with; if it is settled "denied", it left nothing.  A request that lost  *)
(* its answer cannot know which of the two happened.                       *)
(***************************************************************************)
EXTENDS Sequences

CONSTANTS Request, Batches, Folds(_)

VARIABLES contents,  \* the contents of the log
          outcome    \* how each request was settled

vars == <<contents, outcome>>

Init ==
  /\ contents = <<>>
  /\ outcome = [r \in Request |-> "open"]

Settle(r, o) ==
  /\ outcome[r] = "open"
  /\ outcome' = [outcome EXCEPT ![r] = o]

Commit(r) ==
  \E ds \in Batches \cup {<<>>}, o \in {"ok", "unknown"} :
    /\ Folds(contents \o ds)
    /\ contents' = contents \o ds
    /\ Settle(r, o)

Deny(r) ==
  /\ Settle(r, "denied") \/ Settle(r, "unknown")
  /\ UNCHANGED contents

Next == \E r \in Request : Commit(r) \/ Deny(r)

Spec == Init /\ [][Next]_vars
=============================================================================
