--------------------------- MODULE MCFamilyResource ---------------------------
(***************************************************************************)
(* Two families of one person each, two requests, three addresses: signing  *)
(* up races for the one seat of k1; p1 has wished for both workshops.       *)
(* Requests are interchangeable: every ask may be anyone's.                *)
(***************************************************************************)
EXTENDS FamilyResource, TLC

CONSTANTS f1, f2, e1, e2, e3, p1, p2, r1, r2, k1, k2

OneSeat == [mode |-> "sign-up", capacity |-> 1, fits |-> {"child"}]
Assigned == [mode |-> "assigned", capacity |-> 1, fits |-> {"child", "adult"}]

Offers == {OneSeat, Assigned}

Asks ==
  {[kind |-> "sign-up", email |-> e1, person |-> p1, workshop |-> k1, on |-> TRUE],
   [kind |-> "sign-up", email |-> e2, person |-> p2, workshop |-> k1, on |-> TRUE],
   [kind |-> "interest", email |-> e2, person |-> p2, workshop |-> k2, on |-> FALSE],
   [kind |-> "ranking", email |-> e1, person |-> p1, list |-> <<k2>>],
   [kind |-> "answer", email |-> e1, person |-> p1, values |-> <<"yes">>],
   [kind |-> "profile", email |-> e2, person |-> p2, profile |-> "adult"],
   [kind |-> "create", email |-> e1, profile |-> "child"]}

Worlds ==
  {[email |-> f1 :> e1 @@ f2 :> e2,
    member |-> p1 :> f1 @@ p2 :> f2 @@ r1 :> None @@ r2 :> None,
    profile |-> p1 :> "child" @@ p2 :> "child" @@ r1 :> None @@ r2 :> None,
    workshop |-> k1 :> OneSeat @@ k2 :> Assigned,
    section |-> [s \in Section |-> "open"],
    joined |-> [kind \in {"sign-up", "interest"} |-> {}],
    wishes |-> {<<p1, k2, 1>>, <<p1, k1, 2>>},
    answers |-> {<<p1, "no">>}, folds |-> TRUE]}

Symmetry == Permutations(Request)
=============================================================================
