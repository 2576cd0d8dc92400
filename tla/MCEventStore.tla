---------------------------- MODULE MCEventStore ----------------------------
(***************************************************************************)
(* Small instances of EventStore.  The drafts are one person who is added, *)
(* described and withdrawn, and one that folds anywhere; a log folds when  *)
(* each draft finds the person in the state applyEvent requires.           *)
(***************************************************************************)
EXTENDS EventStore

CONSTANTS o1, o2, o3, f1, f2

MCDraft == {"add", "describe", "withdraw", "other"}

\* Whether the person is live after the first n drafts of a log.
Live(ds, n) ==
  \E i \in 1..n : ds[i] = "add" /\ \A j \in i + 1..n : ds[j] # "withdraw"

PersonFolds(ds) ==
  \A n \in 1..Len(ds) : ds[n] # "other" => (ds[n] = "add") = ~Live(ds, n - 1)

Singles == {<<"add">>, <<"describe">>, <<"withdraw">>, <<"other">>}
Pairs == {<<"other">>, <<"add", "describe">>}
=============================================================================
