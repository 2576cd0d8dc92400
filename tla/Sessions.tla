------------------------------- MODULE Sessions -------------------------------
(***************************************************************************)
(* Magic links and sessions: redemption, the sliding and absolute expiry   *)
(* of a session, logout, cleanup, and the requests that use a session      *)
(* while all of this goes on.                                              *)
(*                                                                         *)
(* A request reads the clock when it begins and runs its statements later, *)
(* with other requests' statements in between.  Who an address is, is      *)
(* resolved by each request: organisers is the allowlist of the running    *)
(* deployment, families the addresses that are a family's in the log.      *)
(*                                                                         *)
(* Tokens are ids that are never given twice; each link is opened in a     *)
(* browser of its own, whose cookie goes with the session.  Time runs in   *)
(* steps up to MaxTime.  opened, revoked and used are history.              *)
(***************************************************************************)
EXTENDS Worker, Integers, FiniteSets

CONSTANTS Link, Session,
          LinkLife,              \* fifteenMinutes
          Idle(_), Absolute(_),  \* sessionPolicy, for "family" and "organiser"
          MaxTime                \* bound: the clock

Role == {"family", "organiser"}
Audience == {"family", "organiser", "any"}

ASSUME PolicyAssumption ==
  /\ MaxTime \in Nat /\ LinkLife \in Nat \ {0}
  /\ \A role \in Role : Idle(role) \in Nat \ {0} /\ Absolute(role) \in Nat \ {0}
  /\ \A role \in Role : Idle(role) <= Absolute(role)
  /\ Absolute("organiser") <= Absolute("family")
ASSUME NoneAssumption == None \notin Email /\ None \notin Session /\ None \notin Link

VARIABLES
  clock,
  organisers, families,
  magic_link,  \* the rows: None, or the address and the expiry
  session,     \* the rows: None, or address, created_at, expires_at
  request,     \* what each request holds between its statements
  opened,      \* the link a session was opened with
  revoked,     \* the sessions somebody logged out of
  used         \* at what ages, and under which policy, a session was opened or served

rows == <<magic_link, session>>
history == <<opened, revoked, used>>
sessionsVars == <<clock, organisers, families, rows, request, history>>

Free == [pc |-> "free", now |-> 0, email |-> None, link |-> None, session |-> None,
         created_at |-> 0, policy |-> "family"]

\* isOrganiser: the policy that is applied to an address.
PolicyOf(e) == IF e \in organisers THEN "organiser" ELSE "family"

Lesser(a, b) == IF a <= b THEN a ELSE b

-----------------------------------------------------------------------------
SessionsInit ==
  /\ clock = 0
  /\ organisers \in SUBSET Email /\ families \in SUBSET Email
  /\ magic_link = [k \in Link |-> None]
  /\ session = [s \in Session |-> None]
  /\ request = [r \in Request |-> Free]
  /\ opened = [s \in Session |-> None]
  /\ revoked = {}
  /\ used = [s \in Session |-> {}]

Tick ==
  /\ clock < MaxTime
  /\ clock' = clock + 1
  /\ UNCHANGED <<organisers, families, rows, request, history>>

\* Another deployment has another allowlist, another log other addresses.
ChangeMembership ==
  /\ \/ organisers' \in SUBSET Email /\ UNCHANGED families
     \/ families' \in SUBSET Email /\ UNCHANGED organisers
  /\ UNCHANGED <<clock, rows, request, history>>

\* A link is issued to an address that is somebody's; its token was never used.
IssueMagicLink(k) ==
  /\ magic_link[k] = None /\ \A s \in Session : opened[s] # k
  /\ \A r \in Request : request[r].link # k
  /\ \E e \in organisers \cup families :
       magic_link' = [magic_link EXCEPT ![k] = [email |-> e, expires_at |-> clock + LinkLife]]
  /\ UNCHANGED <<clock, organisers, families, session, request, history>>

-----------------------------------------------------------------------------
(***************************************************************************)
(* Redemption: DELETE ... RETURNING, then INSERT.                           *)
(***************************************************************************)
\* Mutant: reads the link and deletes it no more.
TakeAndKeep(k) == UNCHANGED magic_link

TakeLink(k) == magic_link' = [magic_link EXCEPT ![k] = None]

Redeeming(k) ==
  [pc |-> "redeem", now |-> clock, email |-> magic_link[k].email, link |-> k,
   session |-> None, created_at |-> 0, policy |-> PolicyOf(magic_link[k].email)]

RedeemMagicLink(r, k) ==
  /\ request[r].pc = "free"
  /\ magic_link[k] # None /\ magic_link[k].expires_at > clock
  /\ TakeLink(k)
  /\ request' = [request EXCEPT ![r] = Redeeming(k)]
  /\ UNCHANGED <<clock, organisers, families, session, history>>

OpenSession(r) ==
  LET q == request[r] IN
  /\ q.pc = "redeem"
  /\ \E s \in Session :
       /\ opened[s] = None
       /\ session' = [session EXCEPT ![s] =
            [email |-> q.email, created_at |-> q.now, expires_at |-> q.now + Idle(q.policy)]]
       /\ opened' = [opened EXCEPT ![s] = q.link]
       /\ used' = [used EXCEPT ![s] = @ \cup {<<0, q.policy>>}]
  /\ request' = [request EXCEPT ![r] = Free]
  /\ UNCHANGED <<clock, organisers, families, magic_link, revoked>>

-----------------------------------------------------------------------------
(***************************************************************************)
(* currentPrincipal, for a request of an audience.  Whoever sends the raw  *)
(* token may ask; how long a browser keeps its cookie is left out.         *)
(***************************************************************************)
Asking(s, pc) ==
  [pc |-> pc, now |-> clock, email |-> session[s].email, link |-> None,
   session |-> s, created_at |-> session[s].created_at, policy |-> PolicyOf(session[s].email)]

CurrentPrincipal(r, s, audience) ==
  LET organiser == PolicyOf(session[s].email) = "organiser" IN
  /\ request[r].pc = "free"
  /\ session[s] # None /\ session[s].expires_at > clock
  /\ audience = "organiser" => organiser
  /\ request' = [request EXCEPT ![r] =
       Asking(s, IF organiser /\ audience # "family" THEN "write" ELSE "world")]
  /\ UNCHANGED <<clock, organisers, families, rows, history>>

\* readWorld and familyForEmail.
ReadWorld(r) ==
  /\ request[r].pc = "world"
  /\ request' = [request EXCEPT ![r] =
       IF request[r].email \in families THEN [@ EXCEPT !.pc = "write"] ELSE Free]
  /\ UNCHANGED <<clock, organisers, families, rows, history>>

IsPastAbsoluteExpiry(q) == q.created_at + Absolute(q.policy) <= q.now

RevokePast(r) ==
  /\ request[r].pc = "write"
  /\ IsPastAbsoluteExpiry(request[r])
  /\ session' = [session EXCEPT ![request[r].session] = None]
  /\ request' = [request EXCEPT ![r] = Free]
  /\ UNCHANGED <<clock, organisers, families, magic_link, history>>

\* Mutant: a used session is good for the whole absolute lifetime.
RefreshedAbsolute(q) ==
  [email |-> q.email, created_at |-> q.created_at, expires_at |-> q.created_at + Absolute(q.policy)]

\* Mutant: expires_at slides without end.
RefreshedIdle(q) ==
  [email |-> q.email, created_at |-> q.created_at, expires_at |-> q.now + Idle(q.policy)]

Refreshed(q) ==
  [email |-> q.email, created_at |-> q.created_at,
   expires_at |-> Lesser(q.now + Idle(q.policy), q.created_at + Absolute(q.policy))]

\* Mutant: an upsert.
RefreshUpsert(q) == session' = [session EXCEPT ![q.session] = Refreshed(q)]

\* UPDATE ... WHERE token_hash and email: a row that is gone stays gone.
Refresh(q) ==
  session' = [session EXCEPT ![q.session] = IF @ = None THEN None ELSE Refreshed(q)]

RefreshSession(r) ==
  LET q == request[r] IN
  /\ q.pc = "write"
  /\ ~IsPastAbsoluteExpiry(q)
  /\ Refresh(q)
  /\ used' = [used EXCEPT ![q.session] = @ \cup {<<q.now - q.created_at, q.policy>>}]
  /\ request' = [request EXCEPT ![r] = Free]
  /\ UNCHANGED <<clock, organisers, families, magic_link, opened, revoked>>

\* A statement of the request fails, or the Worker is gone.
RequestFails(r) ==
  /\ request[r].pc # "free"
  /\ request' = [request EXCEPT ![r] = Free]
  /\ UNCHANGED <<clock, organisers, families, rows, history>>

\* revokeSession: needs no live row, and no principal.
Logout(s) ==
  /\ opened[s] # None
  /\ session' = [session EXCEPT ![s] = None]
  /\ revoked' = revoked \cup {s}
  /\ UNCHANGED <<clock, organisers, families, magic_link, request, opened, used>>

CleanupOperationalRows ==
  /\ magic_link' = [k \in Link |->
       IF magic_link[k] # None /\ magic_link[k].expires_at < clock THEN None ELSE magic_link[k]]
  /\ session' = [s \in Session |->
       IF session[s] # None /\ session[s].expires_at < clock THEN None ELSE session[s]]
  /\ UNCHANGED <<clock, organisers, families, request, history>>

SessionsNext ==
  \/ Tick \/ ChangeMembership \/ CleanupOperationalRows
  \/ \E k \in Link : IssueMagicLink(k)
  \/ \E s \in Session : Logout(s)
  \/ \E r \in Request :
       \/ \E k \in Link : RedeemMagicLink(r, k)
       \/ \E s \in Session, audience \in Audience : CurrentPrincipal(r, s, audience)
       \/ OpenSession(r) \/ ReadWorld(r) \/ RevokePast(r) \/ RefreshSession(r)
       \/ RequestFails(r)

SessionsSpec == SessionsInit /\ [][SessionsNext]_sessionsVars

-----------------------------------------------------------------------------
(***************************************************************************)
(* Properties                                                              *)
(***************************************************************************)
LinkRow == [email : Email, expires_at : Nat]
SessionRow == [email : Email, created_at : 0..MaxTime, expires_at : Nat]
RequestType ==
  [pc : {"free", "redeem", "world", "write"}, now : 0..MaxTime, email : Email \cup {None},
   link : Link \cup {None}, session : Session \cup {None}, created_at : 0..MaxTime,
   policy : Role]

\* Type invariant; no request or row is from the future, and no row
\* outlives the longest absolute lifetime, whatever policies it was refreshed under.
SessionsTypeOK ==
  /\ clock \in 0..MaxTime
  /\ organisers \subseteq Email /\ families \subseteq Email
  /\ magic_link \in [Link -> LinkRow \cup {None}]
  /\ session \in [Session -> SessionRow \cup {None}]
  /\ request \in [Request -> RequestType]
  /\ \A r \in Request : request[r].now <= clock /\ request[r].created_at <= request[r].now
  /\ \A s \in Session : session[s] # None =>
       /\ session[s].created_at <= clock
       /\ session[s].expires_at <= session[s].created_at + Absolute("family")
  /\ opened \in [Session -> Link \cup {None}]
  /\ revoked \subseteq Session
  /\ used \in [Session -> SUBSET ((0..MaxTime) \X Role)]

\* A link opens one session at most, however many requests redeem it at once and
\* wherever they stop.
LinkRedeemedOnce ==
  \A s, t \in Session : opened[s] # None /\ opened[s] = opened[t] => s = t

\* Nobody gets back into a session that was logged out of: a request that read its row
\* before does not bring the row back with its refresh.
LogoutIsFinal == \A s \in revoked : session[s] = None

\* A session was used shortly before it had the age: within the idle time its user had.
UsedShortlyBefore(s, age) ==
  \E u \in used[s] : u[1] < age /\ age < u[1] + Idle(u[2])

\* Nobody is served by a session that lay idle: less than the idle time before, measured by
\* the policy of then, it was opened or served.  A refresh that comes late, after
\* others' refreshes, or under another policy than the row was written with, does not carry
\* the row over a longer pause.
IdleEnds ==
  \A s \in Session : \A u \in used[s] : u[1] > 0 => UsedShortlyBefore(s, u[1])
=============================================================================
