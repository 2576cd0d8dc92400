---------------------------- MODULE MCAreaClosing ----------------------------
(***************************************************************************)
(* Two requests and edits between three domains: one that closes at once,  *)
(* one with an advisory and another plan, and one that blocks workshops.   *)
(***************************************************************************)
EXTENDS AreaClosing

CONSTANTS x, y, warn, r1, r2

Of(plan, advisories, blocked) ==
  [plan |-> [a \in Area |-> plan], advisories |-> advisories, blocked |-> blocked,
   active |-> blocked = {}]

Calm == Of(x, {}, {})
Warned == Of(y, {warn}, {})
Blocked == Of(x, {}, {"workshops"})
Domains == {Calm, Warned, Blocked}

CloseRooms == [type |-> "close", area |-> "accommodation", payload |-> Empty]
CloseWorkshops == [type |-> "close", area |-> "workshops", payload |-> Empty]
Ack(fingerprint) == [type |-> "WorkshopWarningsAcknowledged", fingerprint |-> fingerprint]
EditTo(d) == [type |-> "edit", to |-> d]
ReopenWorkshops == [type |-> "reopen", area |-> "workshops"]

Batches ==
  {<<CloseWorkshops>>, <<Ack({}), CloseWorkshops>>, <<Ack({warn}), CloseWorkshops>>, <<Ack({warn}), CloseRooms>>,
   <<EditTo(Warned), CloseRooms>>, <<Ack({warn}), EditTo(Warned), CloseWorkshops>>,
   <<EditTo(Warned), Ack({warn}), CloseWorkshops>>, <<CloseWorkshops, ReopenWorkshops>>,
   <<[CloseRooms EXCEPT !.payload = x]>>}

Symmetry == Permutations(Request)
=============================================================================
