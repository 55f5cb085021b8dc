---------------------------- MODULE ServiceWriter ----------------------------
(***************************************************************************)
(* The writer of the service account (internal/servicerepo/servicerepo.go):*)
(* calls that create records share one PDS session, which one of them      *)
(* renews under the mutex when its access token has expired. The PDS and   *)
(* the network are external.                                               *)
(***************************************************************************)
EXTENDS Integers, FiniteSets

CONSTANTS
  Calls,        \* the write calls of a behaviour
  Null,
  MaxExpiries,  \* BOUND: how often the PDS lets tokens expire
  MaxFaults     \* BOUND: requests or answers that get lost

VARIABLES
  call,      \* what each call is doing, and the access token it sent
  session,   \* the client's access token, a number
  live,      \* PDS: the access tokens it takes
  renewable, \* PDS: whether it takes the client's refresh token
  issued,    \* PDS: access tokens issued
  mutex,     \* Writer.mu: the call that holds it
  repo,      \* the service repo: records each call has created
  expiries, faults

vars == <<call, session, live, renewable, issued, mutex, repo, expiries, faults>>
pds == <<live, renewable, issued>>

Quiet == [pc |-> "idle", token |-> 0, tries |-> 0]

At(c, pc) == call[c].pc = pc

Goes(c, pc) == call' = [call EXCEPT ![c].pc = pc]

-----------------------------------------------------------------------------

\* doCreate, first and second request, with the token of the client's session.
Send(c) ==
  /\ call[c].pc \in {"idle", "retry"}
  /\ call' = [call EXCEPT ![c] = [pc |-> "sent", token |-> session, tries |-> @.tries + 1]]
  /\ UNCHANGED <<session, pds, mutex, repo, expiries, faults>>

\* Mutant: whatever went wrong is tried again.
AfterErrorRetry(c) == IF call[c].tries = 1 THEN "lock" ELSE "failed"

\* isAuthExpired is false for every error but a 401.
AfterError(c) == "failed"

AfterExpired(c) == IF call[c].tries = 1 THEN "lock" ELSE "denied"

Served(c) ==
  /\ At(c, "sent")
  /\ IF call[c].token \in live
     THEN repo' = [repo EXCEPT ![c] = @ + 1] /\ Goes(c, "done")
     ELSE UNCHANGED repo /\ Goes(c, AfterExpired(c))
  /\ UNCHANGED <<session, pds, mutex, expiries, faults>>

\* The connection breaks, before or after the PDS has done its part.
Broken(c) ==
  /\ At(c, "sent") /\ faults < MaxFaults /\ faults' = faults + 1
  /\ \/ UNCHANGED repo
     \/ call[c].token \in live /\ repo' = [repo EXCEPT ![c] = @ + 1]
  /\ Goes(c, AfterError(c))
  /\ UNCHANGED <<session, pds, mutex, expiries>>

Lock(c) ==
  /\ At(c, "lock") /\ mutex = Null
  /\ mutex' = c /\ Goes(c, "refresh")
  /\ UNCHANGED <<session, pds, repo, expiries, faults>>

\* A new session, and the mutex is given back.
Renew(c) ==
  /\ issued' = issued + 1 /\ live' = live \cup {issued + 1} /\ session' = issued + 1
  /\ renewable' = TRUE
  /\ mutex' = Null /\ Goes(c, "retry")
  /\ UNCHANGED <<repo, expiries, faults>>

RefreshSession(c) ==
  /\ At(c, "refresh")
  /\ IF renewable THEN Renew(c)
     ELSE /\ Goes(c, "create")
          /\ UNCHANGED <<session, pds, mutex, repo, expiries, faults>>

RefreshBroken(c) ==
  /\ At(c, "refresh") /\ faults < MaxFaults /\ faults' = faults + 1
  /\ Goes(c, "create")
  /\ UNCHANGED <<session, pds, mutex, repo, expiries>>

CreateSession(c) == At(c, "create") /\ Renew(c)

CreateSessionFails(c) ==
  /\ At(c, "create") /\ faults < MaxFaults /\ faults' = faults + 1
  /\ mutex' = Null /\ Goes(c, "failed")
  /\ UNCHANGED <<session, pds, repo, expiries>>

\* The PDS lets access tokens expire, and the refresh token with them or not.
Expire ==
  /\ expiries < MaxExpiries /\ expiries' = expiries + 1
  /\ live' = {} /\ renewable' \in {FALSE, renewable}
  /\ UNCHANGED <<call, session, issued, mutex, repo, faults>>

Init ==
  /\ call = [c \in Calls |-> Quiet]
  /\ session = 1 /\ live = {1} /\ renewable = TRUE /\ issued = 1
  /\ mutex = Null /\ repo = [c \in Calls |-> 0]
  /\ expiries = 0 /\ faults = 0

Step(c) ==
  \/ Send(c) \/ Served(c) \/ Broken(c) \/ Lock(c)
  \/ RefreshSession(c) \/ RefreshBroken(c) \/ CreateSession(c) \/ CreateSessionFails(c)

Next == Expire \/ \E c \in Calls : Step(c)

Spec == Init /\ [][Next]_vars

-----------------------------------------------------------------------------

Over == {"done", "failed", "denied"}

TypeOK ==
  /\ call \in [Calls -> [pc: {"idle", "sent", "lock", "refresh", "create", "retry"} \cup Over,
                         token: Nat, tries: 0..2]]
  /\ session \in 1..issued /\ live \subseteq 1..issued /\ renewable \in BOOLEAN
  /\ mutex \in Calls \cup {Null} /\ repo \in [Calls -> Nat]
  /\ \A c \in Calls : call[c].pc \in {"refresh", "create"} <=> mutex = c

\* A retried write never creates its record twice, also when an answer is lost:
\* the second request follows only a refusal (servicerepo.go:127 doCreate).
CreatedOnce ==
  \A c \in Calls : repo[c] <= 1 /\ (At(c, "done") => repo[c] = 1)

\* servicerepo.go:176 "concurrent expired writes refresh exactly once": nobody
\* renews a session whose token is good.
RefreshedOnce ==
  [][\A c \in Calls : (RefreshSession(c) \/ CreateSession(c)) => session \notin live]_vars
=============================================================================
