----------------------------- MODULE Challenges -----------------------------
(***************************************************************************)
(* Challenges of one game type (internal/match/challenges.go) over the     *)
(* challenges and games tables, the reaper that rides the pairing loop     *)
(* (PairOnce, step 1) and the indexer, which files challenges that agents  *)
(* wrote to their own repos (internal/indexer/ingest.go).                  *)
(*                                                                         *)
(* As in GameManager every call is a goroutine and an action is one of its *)
(* database statements.                                                    *)
(***************************************************************************)
EXTENDS Integers, Sequences, FiniteSets

CONSTANTS
  Dids,        \* the agents
  Ids,         \* challenge ids; an id is issued once
  Null,        \* SQL NULL; the opponent of an open challenge
  MaxGames,    \* Tunables.MaxConcurrentGames
  TTL,         \* BOUND: the longest life of a challenge, in ticks
  Requests,    \* the XRPC calls of a behaviour; each is made once
  Ops,         \* the operations agents use
  Indexing,    \* whether agents write challenge records, too
  Concurrency, \* BOUND: calls in progress at the same time
  MaxNow,      \* BOUND: the last tick of the clock
  MaxFailures  \* BOUND: faults, each of another kind

AllOps == {"create", "accept", "decline", "cancel"}

ASSUME ChallengesAssumption ==
  /\ Null \notin Dids \cup Ids /\ Ops \subseteq AllOps /\ Indexing \in BOOLEAN
  /\ MaxGames \in Nat \ {0} /\ TTL \in Nat
  /\ Concurrency \in Nat /\ MaxNow \in Nat /\ MaxFailures \in Nat

VARIABLES
  table,     \* the challenges table, Null where an id has no row
  games,     \* the games created from challenges
  req,       \* what each call is doing
  now,       \* the clock of the process
  faults     \* what has failed so far, and for which challenge

vars == <<table, games, req, now, faults>>

Live == {"open", "pending"}

Quiet == [pc |-> "idle", op |-> "none", by |-> Null, id |-> Null,
          row |-> Null, at |-> 0]

Done == [Quiet EXCEPT !.pc = "done"]

Busy == {q \in Requests : req[q].pc \notin {"idle", "done"}}

At(q, pc) == req[q].pc = pc

Fails(q) == /\ req' = [req EXCEPT ![q] = Done]
            /\ UNCHANGED <<table, games, now, faults>>

GoesTo(q, pc) == /\ req' = [req EXCEPT ![q].pc = pc]
                 /\ UNCHANGED <<table, games, now, faults>>

Exists(id) == table[id] # Null

\* The UPDATE that decides a challenge takes effect, but its answer gets lost; a game is
\* not created, or is created although the call fails (the answer of its INSERT gets
\* lost); the challenge cannot be given back (the caller hung up, and the statement runs
\* under its context); the process restarts under calls about challenges.
Faults == {"transition", "createGame", "answer", "revert", "restart"}

Fault(f, ids) ==
  LET kinds == {fault[1] : fault \in faults} IN
  /\ f \notin kinds /\ Cardinality(kinds) < MaxFailures
  /\ faults' = faults \cup ({f} \X ids)

\* Whether one of these has happened to a challenge.
Suffered(id, kinds) == \E f \in kinds : <<f, id>> \in faults

\* A challenge as it is first stored.
NewChallenge(challenger, opponent, expires) ==
  [challenger |-> challenger, opponent |-> opponent, expires |-> expires,
   status |-> IF opponent = Null THEN "open" ELSE "pending"]

-----------------------------------------------------------------------------
(* Calls start.                                                            *)

\* The row of a createChallenge call is put together before anything is read.
ReceiveCreate(q, id, by, opponent) ==
  /\ "create" \in Ops /\ ~Exists(id)
  /\ \A r \in Requests : req[r].id # id
  /\ opponent # by
  /\ \E life \in 0..TTL :
       /\ now + life <= MaxNow   \* BOUND: it expires while the clock runs
       /\ req' = [req EXCEPT ![q] =
            [pc |-> IF opponent = Null THEN "count" ELSE "insert", op |-> "create",
             by |-> by, id |-> id, at |-> now,
             row |-> NewChallenge(by, opponent, now + life)]]

ReceiveOther(q, id, by) ==
  /\ Exists(id)
  /\ \E op \in Ops \ {"create"} :
       req' = [req EXCEPT ![q] = [Quiet EXCEPT
                 !.pc = "read", !.op = op, !.by = by, !.id = id, !.at = now]]

Receive(q) ==
  /\ At(q, "idle") /\ Cardinality(Busy) < Concurrency
  /\ \E id \in Ids, by \in Dids :
       \/ ReceiveOther(q, id, by)
       \/ \E opponent \in Dids \cup {Null} : ReceiveCreate(q, id, by, opponent)
  /\ UNCHANGED <<table, games, now, faults>>

-----------------------------------------------------------------------------
(* createChallenge.                                                        *)

\* CountOpenBy: live open challenges of one agent.
OpenBy(did, at) ==
  {id \in Ids : /\ Exists(id)
                /\ table[id].challenger = did /\ table[id].opponent = Null
                /\ table[id].status = "open" /\ table[id].expires > at}

MayOpen(q) == OpenBy(req[q].by, req[q].at) = {}

CountOpen(q) ==
  /\ At(q, "count")
  /\ IF MayOpen(q) THEN GoesTo(q, "insert") ELSE Fails(q)

InsertChallenge(q) ==
  /\ At(q, "insert")
  /\ table' = [table EXCEPT ![req[q].id] = req[q].row]
  /\ req' = [req EXCEPT ![q] = Done]
  /\ UNCHANGED <<games, now, faults>>

-----------------------------------------------------------------------------
(* acceptChallenge, declineChallenge, cancelChallenge.                     *)

\* Who may accept or decline: the named opponent, or anyone but the challenger.
MayAnswer(q, c) == IF c.opponent # Null THEN c.opponent = req[q].by
                                        ELSE c.challenger # req[q].by

\* Whether the caller may do this to the challenge it has read.
Allowed(q, c) ==
  CASE req[q].op = "accept"  -> req[q].at <= c.expires /\ MayAnswer(q, c)
    [] req[q].op = "decline" -> MayAnswer(q, c)
    [] req[q].op = "cancel"  -> c.challenger = req[q].by

ReadChallenge(q) ==
  LET c == table[req[q].id] IN
  /\ At(q, "read")
  /\ IF c.status \notin Live \/ ~Allowed(q, c) THEN Fails(q)
     ELSE /\ req' = [req EXCEPT ![q].row = c,
                       ![q].pc = IF req[q].op = "accept" THEN "cap" ELSE "transition"]
          /\ UNCHANGED <<table, games, now, faults>>

ActiveGames(did) ==
  {i \in DOMAIN games : games[i].active /\ did \in {games[i].challenger, games[i].acceptor}}

\* The cap on concurrent games: of the acceptor, not of the challenger.
CheckCap(q) ==
  /\ At(q, "cap")
  /\ IF Cardinality(ActiveGames(req[q].by)) >= MaxGames THEN Fails(q)
     ELSE GoesTo(q, "transition")

\* The WHERE of TransitionStatus.
IsLive(id) == table[id].status \in Live

Target(op) == CASE op = "accept"  -> "accepted"
                [] op = "decline" -> "declined"
                [] op = "cancel"  -> "cancelled"

\* Mutant: accepting what is accepted already is not an error.
WinsAgain(q) ==
  IsLive(req[q].id) \/ (req[q].op = "accept" /\ table[req[q].id].status = "accepted")

\* TransitionStatus decides who wins: it changes one row or none. An acceptor whom its
\* answer does not reach neither makes a game nor gives the challenge back.
Wins(q) == IsLive(req[q].id)

Transition(q) ==
  /\ At(q, "transition")
  /\ IF ~Wins(q) THEN Fails(q)
     ELSE /\ table' = [table EXCEPT ![req[q].id].status = Target(req[q].op)]
          /\ \/ /\ req' = [req EXCEPT ![q] = IF req[q].op = "accept"
                                             THEN [@ EXCEPT !.pc = "createGame"] ELSE Done]
                /\ UNCHANGED faults
             \/ Fault("transition", {req[q].id}) /\ req' = [req EXCEPT ![q] = Done]
          /\ UNCHANGED <<games, now>>

CreateGame(q) ==
  /\ At(q, "createGame")
  /\ LET created == Append(games, [challenge  |-> req[q].id,
                                   challenger |-> req[q].row.challenger,
                                   acceptor   |-> req[q].by, active |-> TRUE])
     IN \/ games' = created /\ req' = [req EXCEPT ![q] = Done] /\ UNCHANGED faults
        \/ /\ \/ Fault("createGame", {req[q].id}) /\ UNCHANGED games
              \/ Fault("answer", {req[q].id}) /\ games' = created
           /\ req' = [req EXCEPT ![q].pc = "revert"]
  /\ UNCHANGED <<table, now>>

\* Mutant: the challenge is not given back.
RevertedKept(q) == table[req[q].id].status

\* The status the challenge had when the acceptor read it.
Reverted(q) == req[q].row.status

\* "Give the challenge back so it can still be accepted."
Revert(q) ==
  /\ At(q, "revert")
  /\ \/ /\ table' = [table EXCEPT ![req[q].id].status =
                         IF @ = "accepted" THEN Reverted(q) ELSE @]
        /\ UNCHANGED faults
     \/ Fault("revert", {req[q].id}) /\ UNCHANGED table
  /\ req' = [req EXCEPT ![q] = Done]
  /\ UNCHANGED <<games, now>>

-----------------------------------------------------------------------------
(* The reaper, the indexer, and the world.                                 *)

\* Mutant: direct challenges never expire.
DueOpen(id) == Exists(id) /\ table[id].status = "open" /\ table[id].expires <= now

Due(id) == Exists(id) /\ table[id].status \in Live /\ table[id].expires <= now

ExpireDue ==
  /\ \E id \in Ids : Due(id)
  /\ table' = [id \in Ids |-> IF Due(id) THEN [table[id] EXCEPT !.status = "expired"]
                                         ELSE table[id]]
  /\ UNCHANGED <<games, req, now, faults>>

\* ON CONFLICT (id) DO UPDATE: the expiry, and the strongRef.
Refreshed(id, c) == [table[id] EXCEPT !.expires = c.expires]

\* An expiry the clock does not reach; a record may have any (the 24 hours of
\* createChallenge are not asked of it).
Never == MaxNow + 1

\* ingestChallenge: the id is the key of a record in anybody's repo, and nobody
\* checks what it says. An id that is still being issued is not known to others.
UpsertIndexed ==
  /\ Indexing
  /\ \E id \in Ids, did \in Dids, opponent \in Dids \cup {Null}, expires \in 0..Never :
       /\ \A q \in Requests : req[q].op = "create" => req[q].id # id
       /\ LET c == NewChallenge(did, opponent, expires) IN
          table' = [table EXCEPT ![id] = IF Exists(id) THEN Refreshed(id, c) ELSE c]
  /\ UNCHANGED <<games, req, now, faults>>

\* The record is deleted: a live challenge is cancelled.
DeleteIndexed ==
  /\ Indexing
  /\ \E id \in Ids : /\ Exists(id) /\ IsLive(id)
                     /\ table' = [table EXCEPT ![id].status = "cancelled"]
  /\ UNCHANGED <<games, req, now, faults>>

GameEnds ==
  /\ \E i \in DOMAIN games : games[i].active /\ games' = [games EXCEPT ![i].active = FALSE]
  /\ UNCHANGED <<table, req, now, faults>>

Tick == now < MaxNow /\ now' = now + 1 /\ UNCHANGED <<table, games, req, faults>>

Restart ==
  /\ Busy # {} /\ Fault("restart", {req[q].id : q \in Busy})
  /\ req' = [q \in Requests |-> IF q \in Busy THEN Done ELSE req[q]]
  /\ UNCHANGED <<table, games, now>>

Init ==
  /\ table = [id \in Ids |-> Null]
  /\ games = <<>>
  /\ req = [q \in Requests |-> Quiet]
  /\ now = 0 /\ faults = {}

Step(q) ==
  \/ CountOpen(q) \/ InsertChallenge(q) \/ ReadChallenge(q) \/ CheckCap(q)
  \/ Transition(q) \/ CreateGame(q) \/ Revert(q)

Next ==
  \/ \E q \in Requests : Receive(q) \/ Step(q)
  \/ ExpireDue \/ UpsertIndexed \/ DeleteIndexed \/ GameEnds \/ Tick \/ Restart

Spec == Init /\ [][Next]_vars

\* Calls that started run on, the pairing loop keeps ticking, time passes.
FairSpec ==
  Spec /\ (\A q \in Requests : WF_vars(Step(q))) /\ WF_vars(ExpireDue) /\ WF_vars(Tick)

-----------------------------------------------------------------------------

Statuses == {"open", "pending", "accepted", "declined", "cancelled", "expired"}

Challenge == [challenger: Dids, opponent: Dids \cup {Null}, expires: Nat,
              status: Statuses]

ASSUME NullAssumption == Null \notin Challenge

TypeOK ==
  /\ table \in [Ids -> Challenge \cup {Null}]
  /\ games \in Seq([challenge: Ids, challenger: Dids, acceptor: Dids, active: BOOLEAN])
  /\ req \in [Requests ->
       [pc: {"idle", "count", "insert", "read", "cap", "transition", "createGame",
             "revert", "done"},
        op: AllOps \cup {"none"}, by: Dids \cup {Null}, id: Ids \cup {Null},
        row: Challenge \cup {Null}, at: Nat]]
  /\ now \in Nat /\ faults \subseteq Faults \X Ids

\* However many agents accept a challenge at once, whatever is restarted, and although
\* it is given back when its game cannot be created, one game comes of it - unless a
\* game of it was created and its creation reported as failed (TransitionStatus "exactly
\* one concurrent acceptor wins").
OneGamePerChallenge ==
  \A i, j \in DOMAIN games :
    games[i].challenge = games[j].challenge =>
      i = j \/ Suffered(games[i].challenge, {"answer"})

\* A challenge is accepted if and only if it became a game: nobody declines, cancels,
\* expires or re-opens it under the players, and none is taken off the lists for a game
\* that was never made - unless somebody is still busy with it, or its acceptor never
\* learned that he had won it, or could not give it back, or was cut off by a restart.
AcceptedIffGame ==
  \A id \in Ids :
    LET isGame == \E i \in DOMAIN games : games[i].challenge = id
    IN  /\ isGame => table[id].status = "accepted" \/ Suffered(id, {"answer"})
        /\ Exists(id) /\ table[id].status = "accepted" =>
             \/ isGame \/ Suffered(id, {"transition", "revert", "restart"})
             \/ \E q \in Requests : req[q].id = id /\ req[q].pc \in {"createGame", "revert"}

\* challenges.go:230: "Give the challenge back so it can still be accepted."
GivenBack ==
  \A id \in Ids :
    Exists(id) /\ table[id].status = "accepted" =>
      \/ \E i \in DOMAIN games : games[i].challenge = id
      \/ \E q \in Requests : req[q].id = id /\ req[q].pc \in {"createGame", "revert"}

\* No challenge stays on the lists for ever, unless a record puts its expiry out of reach.
EventuallySettled ==
  \A id \in Ids :
    (Exists(id) /\ IsLive(id)) ~> (Exists(id) /\ (IsLive(id) => table[id].expires = Never))

\* Spec 9a.1 of the life of a challenge: "max 24h".
LifeIsCapped ==
  \A id \in Ids : Exists(id) /\ IsLive(id) => table[id].expires <= now + TTL

\* Spec 10: "1 open challenge per DID per game type".
OneOpenPerDid == \A did \in Dids : Cardinality(OpenBy(did, now)) <= 1

\* Spec 10: "max 20 concurrent games per DID".
CapRespected == \A did \in Dids : Cardinality(ActiveGames(did)) <= MaxGames

\* Nobody plays against himself (challenges.go:73 "cannot challenge yourself").
PlayersAreDistinct == \A i \in DOMAIN games : games[i].challenger # games[i].acceptor

=============================================================================
