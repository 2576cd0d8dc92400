------------------------- MODULE MCOrganiserClient -------------------------
(***************************************************************************)
(* One page, another page's changes as Elsewhere.  The first event that    *)
(* is staged needs a log without changes of others: a rebase can leave the *)
(* buffer without a world.                                                 *)
(***************************************************************************)
EXTENDS OrganiserClient

ConflictFolds(events) ==
  \A i, j \in 1..Len(events) : i < j /\ events[i] = 0 => events[j] # 1
=============================================================================
