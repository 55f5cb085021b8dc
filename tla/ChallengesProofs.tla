--------------------------- MODULE ChallengesProofs ---------------------------
(***************************************************************************)
(* One game comes of a challenge, and an accepted challenge is a game, for *)
(* every number of agents, challenges, calls and faults.                   *)
(***************************************************************************)
EXTENDS Challenges, SequenceTheorems, TLAPS

USE ChallengesAssumption, NullAssumption
USE DEF At, Exists

\* A call that has won a challenge and owes it a game, or its return.
InHand(q) == req[q].pc \in {"createGame", "revert"}

IsGame(id) == \E i \in DOMAIN games : games[i].challenge = id

Request ==
  [pc: {"idle", "count", "insert", "read", "cap", "transition", "createGame",
        "revert", "done"},
   op: AllOps \cup {"none"}, by: Dids \cup {Null}, id: Ids \cup {Null},
   row: Challenge \cup {Null}, at: Nat]

Game == [challenge: Ids, challenger: Dids, acceptor: Dids, active: BOOLEAN]

\* What a call has established by the statements it has executed.
Established(r) ==
  /\ r.pc \in {"count", "insert"} =>
       r.op = "create" /\ r.id \in Ids /\ r.row \in Challenge /\ r.row.status \in Live
  /\ r.pc \in {"read", "cap", "transition", "createGame", "revert"} =>
       r.op \in {"accept", "decline", "cancel"} /\ r.id \in Ids /\ r.by \in Dids
  /\ r.pc \in {"cap", "transition", "createGame", "revert"} =>
       r.row \in Challenge /\ r.row.status \in Live
  /\ r.pc \in {"cap", "createGame", "revert"} => r.op = "accept"

\* An id is its caller's alone until the row is there, and a row never goes.
Reserved ==
  \A q \in Requests :
    /\ req[q].pc \in {"count", "insert"} =>
         /\ ~Exists(req[q].id)
         /\ \A r \in Requests \ {q} : req[r].id # req[q].id
    /\ req[q].pc \in {"read", "cap", "transition", "createGame", "revert"} =>
         Exists(req[q].id)

\* The call that has won holds the challenge alone: nobody else takes it off
\* "accepted", and nobody can win it a second time.
Held ==
  /\ \A q \in Requests : InHand(q) => table[req[q].id].status = "accepted"
  /\ \A q, r \in Requests : InHand(q) /\ InHand(r) /\ req[q].id = req[r].id => q = r

\* The creation of a game of this challenge was reported as failed, and was not.
Lost(id) == Suffered(id, {"answer"})

\* The call that won this challenge did not learn it, could not give it back, or is gone.
CutOff(id) == Suffered(id, {"transition", "revert", "restart"})

\* One game each, none before the call that has won has made it, and only of challenges
\* that stay accepted - but where a creation was reported as failed that was not.
Played ==
  /\ \A i, j \in DOMAIN games : games[i].challenge = games[j].challenge =>
                                   i = j \/ Lost(games[i].challenge)
  /\ \A q \in Requests : InHand(q) => ~IsGame(req[q].id) \/ Lost(req[q].id)
  /\ \A id \in Ids : IsGame(id) => Exists(id) /\ (table[id].status = "accepted" \/ Lost(id))

\* Whatever is accepted has its game, or somebody is busy with it, or was.
Explained ==
  \A id \in Ids : Exists(id) /\ table[id].status = "accepted" =>
    \/ IsGame(id) \/ CutOff(id)
    \/ \E q \in Requests : req[q].id = id /\ InHand(q)

IInv ==
  /\ TypeOK
  /\ \A q \in Requests : Established(req[q])
  /\ Reserved /\ Held /\ Played /\ Explained

-----------------------------------------------------------------------------
(* Lemmas.                                                                 *)

\* What TypeOK says of each variable.
LEMMA Types ==
  ASSUME TypeOK
  PROVE  /\ req \in [Requests -> Request]
         /\ table \in [Ids -> Challenge \cup {Null}]
         /\ games \in Seq(Game) /\ now \in Nat
         /\ faults \subseteq Faults \X Ids
BY DEF TypeOK, Request, Game

\* What has happened to a challenge has happened for good.
LEMMA ForGood ==
  ASSUME faults \subseteq faults', NEW id
  PROVE  (Lost(id) => Lost(id)') /\ (CutOff(id) => CutOff(id)')
BY DEF Lost, CutOff, Suffered

\* A fault of some kind under calls about some challenges.
LEMMA FaultStep ==
  ASSUME NEW f \in Faults, NEW ids \in SUBSET Ids, faults \subseteq Faults \X Ids, Fault(f, ids)
  PROVE  /\ faults \subseteq faults' /\ faults' \subseteq Faults \X Ids
         /\ \A id \in ids : <<f, id>> \in faults'
BY DEF Fault

\* A call that is over.
LEMMA DoneOK == Done \in Request /\ Done.pc = "done" /\ Done.id = Null /\ Established(Done)
<1>1. Quiet \in Request
  BY DEF Quiet, Request
<1>2. Done \in Request /\ Done.pc = "done" /\ Done.id = Null
  BY <1>1 DEF Done, Request, Quiet
<1> QED
  BY <1>2 DEF Established

\* A statement that only reads keeps the invariant: the call goes to a station
\* before it can have won anything, with an id that is its own or has a row.
LEMMA ReadStep ==
  ASSUME IInv, NEW q \in Requests, NEW r \in Request, Established(r),
         req' = [req EXCEPT ![q] = r], UNCHANGED <<table, games, now, faults>>,
         ~InHand(q), r.pc \notin {"createGame", "revert"},
         r.pc \in {"count", "insert"} =>
           ~Exists(r.id) /\ \A p \in Requests \ {q} : req[p].id # r.id,
         r.pc \in {"read", "cap", "transition"} => Exists(r.id),
         r.id \in {req[q].id, Null} \/ Exists(r.id) \/ r.pc \in {"count", "insert"}
  PROVE  IInv'
<1>0. req \in [Requests -> Request] /\ Null \notin Ids
  BY Types DEF IInv
<1>a. \A p \in Requests : req'[p] = IF p = q THEN r ELSE req[p]
  BY <1>0
<1>1. TypeOK'
  BY <1>0 DEF IInv, TypeOK, Request
<1>2. (\A p \in Requests : Established(req[p]))'
  BY <1>a DEF IInv, Established
<1>3. Reserved'
  <2> SUFFICES ASSUME NEW p \in Requests
               PROVE  /\ req'[p].pc \in {"count", "insert"} =>
                           /\ table[req'[p].id] = Null
                           /\ \A s \in Requests \ {p} : req'[s].id # req'[p].id
                      /\ req'[p].pc \in {"read", "cap", "transition", "createGame", "revert"} =>
                           table[req'[p].id] # Null
    BY DEF Reserved
  <2>1. CASE p = q
    BY <1>a, <2>1
  <2>2. CASE p # q
    <3>1. req'[p] = req[p]
      BY <1>a, <2>2
    <3>2. ASSUME req[p].pc \in {"count", "insert"}
          PROVE  /\ ~Exists(req[p].id) /\ req[p].id \in Ids
                 /\ \A s \in Requests \ {p} : req[s].id # req[p].id
      BY <3>2 DEF IInv, Reserved, Established
    <3>3. req[p].pc \in {"count", "insert"} => r.id # req[p].id
      BY <1>0, <2>2, <3>2
    <3>4. req[p].pc \in {"read", "cap", "transition", "createGame", "revert"} =>
            Exists(req[p].id)
      BY DEF IInv, Reserved
    <3> QED
      BY <1>a, <3>1, <3>2, <3>3, <3>4
  <2> QED
    BY <2>1, <2>2
<1>4. \A p \in Requests : InHand(p)' <=> InHand(p)
  BY <1>a DEF InHand
<1>5. Held' /\ Played' /\ Explained'
  <2>1. \A p \in Requests : InHand(p) => req'[p] = req[p]
    BY <1>a
  <2>2. Held'
    BY <1>4, <2>1 DEF IInv, Held
  <2>3. Played'
    BY <1>4, <2>1 DEF IInv, Played, IsGame, Lost, Suffered
  <2>4. Explained'
    BY <1>4, <2>1 DEF IInv, Explained, IsGame, CutOff, Suffered
  <2> QED
    BY <2>2, <2>3, <2>4
<1> QED
  BY <1>1, <1>2, <1>3, <1>5 DEF IInv

\* A refusal ends the call, and so does an error before it has won.
LEMMA FailStep == ASSUME IInv, NEW q \in Requests, Fails(q), ~InHand(q) PROVE IInv'
  BY DoneOK, ReadStep DEF Fails

-----------------------------------------------------------------------------
(* The statements that only read.                                          *)

\* A call that starts has established nothing, and a new challenge has an id of its own.
LEMMA ReceiveOK == ASSUME IInv, NEW q \in Requests, Receive(q) PROVE IInv'
<1>1. PICK id \in Ids, by \in Dids :
        ReceiveOther(q, id, by)
          \/ \E opponent \in Dids \cup {Null} : ReceiveCreate(q, id, by, opponent)
  BY DEF Receive
<1>0. UNCHANGED <<table, games, now, faults>> /\ ~InHand(q) /\ now \in Nat
  BY Types DEF Receive, InHand, IInv
<1>2. CASE ReceiveOther(q, id, by)
  <2>1. PICK op \in Ops \ {"create"} :
          req' = [req EXCEPT ![q] = [Quiet EXCEPT
                   !.pc = "read", !.op = op, !.by = by, !.id = id, !.at = now]]
    BY <1>2 DEF ReceiveOther
  <2> DEFINE r == [Quiet EXCEPT !.pc = "read", !.op = op, !.by = by, !.id = id, !.at = now]
  <2>2. Quiet \in Request
    BY DEF Quiet, Request
  <2>3. r \in Request /\ r.pc = "read" /\ r.id = id /\ r.op = op /\ r.by = by
    BY <1>0, <2>2 DEF Request, AllOps
  <2>4. Established(r)
    BY <2>3 DEF Established, AllOps
  <2>5. req' = [req EXCEPT ![q] = r]
    BY <2>1
  <2> HIDE DEF r
  <2>6. Exists(id)
    BY <1>2 DEF ReceiveOther
  <2> QED
    BY <1>0, <2>3, <2>4, <2>5, <2>6, ReadStep
<1>3. CASE \E opponent \in Dids \cup {Null} : ReceiveCreate(q, id, by, opponent)
  <2>1. PICK opponent \in Dids \cup {Null} : ReceiveCreate(q, id, by, opponent)
    BY <1>3
  <2>2. PICK life \in 0..TTL :
          req' = [req EXCEPT ![q] =
            [pc |-> IF opponent = Null THEN "count" ELSE "insert", op |-> "create",
             by |-> by, id |-> id, at |-> now,
             row |-> NewChallenge(by, opponent, now + life)]]
    BY <2>1 DEF ReceiveCreate
  <2> DEFINE c == NewChallenge(by, opponent, now + life)
             r == [pc |-> IF opponent = Null THEN "count" ELSE "insert", op |-> "create",
                   by |-> by, id |-> id, at |-> now, row |-> c]
  <2>3. c \in Challenge /\ c.status \in Live
    BY <1>0 DEF NewChallenge, Challenge, Statuses, Live
  <2> HIDE DEF c
  <2>4. r \in Request /\ r.pc \in {"count", "insert"} /\ r.id = id
    BY <1>0, <2>3 DEF Request, AllOps
  <2>5. Established(r)
    BY <2>3 DEF Established
  <2>6. req' = [req EXCEPT ![q] = r]
    BY <2>2 DEF c
  <2>7. ~Exists(id) /\ \A p \in Requests : req[p].id # id
    BY <2>1 DEF ReceiveCreate
  <2> HIDE DEF r
  <2> QED
    BY <1>0, <2>4, <2>5, <2>6, <2>7, ReadStep
<1> QED
  BY <1>1, <1>2, <1>3

\* Going on to the next statement, with the row it has or one it has read.
LEMMA GoStep ==
  ASSUME IInv, NEW q \in Requests, NEW pc \in {"insert", "cap", "transition"},
         NEW c \in Challenge \cup {Null},
         req' = [req EXCEPT ![q] = [req[q] EXCEPT !.pc = pc, !.row = c]],
         UNCHANGED <<table, games, now, faults>>,
         pc = "insert" => req[q].pc = "count" /\ c = req[q].row,
         pc \in {"cap", "transition"} =>
           req[q].pc \in {"read", "cap"} /\ c \in Challenge /\ c.status \in Live,
         pc = "cap" => req[q].op = "accept"
  PROVE  IInv'
<1> DEFINE r == [req[q] EXCEPT !.pc = pc, !.row = c]
<1>1. req[q] \in Request /\ Established(req[q])
  BY Types DEF IInv
<1>2. /\ r \in Request /\ r.pc = pc /\ r.op = req[q].op /\ r.id = req[q].id
      /\ r.by = req[q].by /\ r.row = c
  BY <1>1 DEF Request
<1> HIDE DEF r
<1>3. Established(r)
  BY <1>1, <1>2 DEF Established
<1>4. ~InHand(q)
  BY DEF InHand
<1>5. /\ pc = "insert" => ~Exists(req[q].id) /\ \A p \in Requests \ {q} : req[p].id # req[q].id
      /\ pc # "insert" => Exists(req[q].id)
  BY DEF IInv, Reserved
<1>6. req' = [req EXCEPT ![q] = r]
  BY DEF r
<1> QED
  BY <1>2, <1>3, <1>4, <1>5, <1>6, ReadStep

\* createChallenge: the count of open challenges only reads.
LEMMA CountOpenOK == ASSUME IInv, NEW q \in Requests, CountOpen(q) PROVE IInv'
<1>1. CASE Fails(q)
  BY <1>1, FailStep DEF CountOpen, InHand
<1>2. CASE GoesTo(q, "insert")
  <2>1. req[q] \in Request /\ req[q].row \in Challenge \cup {Null}
    BY Types DEF IInv, Request
  <2>2. [req[q] EXCEPT !.pc = "insert"]
          = [req[q] EXCEPT !.pc = "insert", !.row = req[q].row]
    BY <2>1 DEF Request
  <2>3. req' = [req EXCEPT ![q] = [req[q] EXCEPT !.pc = "insert", !.row = req[q].row]]
    BY <1>2, <2>2 DEF GoesTo
  <2> QED
    BY <1>2, <2>1, <2>3, GoStep DEF GoesTo, CountOpen
<1> QED
  BY <1>1, <1>2 DEF CountOpen

\* acceptChallenge, declineChallenge, cancelChallenge: the row that is read is live.
LEMMA ReadChallengeOK == ASSUME IInv, NEW q \in Requests, ReadChallenge(q) PROVE IInv'
<1> DEFINE c  == table[req[q].id]
           pc == IF req[q].op = "accept" THEN "cap" ELSE "transition"
<1>1. CASE Fails(q)
  BY <1>1, FailStep DEF ReadChallenge, InHand
<1>2. CASE c.status \in Live /\ ~Fails(q)
  <2>1. req[q].id \in Ids /\ c \in Challenge /\ req[q] \in Request
    BY Types DEF ReadChallenge, IInv, Established, Reserved
  <2>2. /\ req' = [req EXCEPT ![q].row = c, ![q].pc = pc]
        /\ UNCHANGED <<table, games, now, faults>> /\ req[q].pc = "read"
    BY <1>2 DEF ReadChallenge
  <2>3. req' = [req EXCEPT ![q] = [req[q] EXCEPT !.pc = pc, !.row = c]]
    BY <2>1, <2>2, Types DEF IInv, Request
  <2> HIDE DEF c
  <2> QED
    BY <1>2, <2>1, <2>2, <2>3, GoStep
<1> QED
  BY <1>1, <1>2 DEF ReadChallenge

\* acceptChallenge: the cap on games only reads.
LEMMA CheckCapOK == ASSUME IInv, NEW q \in Requests, CheckCap(q) PROVE IInv'
<1>1. CASE Fails(q)
  BY <1>1, FailStep DEF CheckCap, InHand
<1>2. CASE GoesTo(q, "transition")
  <2>1. /\ req[q] \in Request /\ req[q].row \in Challenge /\ req[q].row.status \in Live
        /\ req[q].pc = "cap"
    BY Types DEF CheckCap, IInv, Established
  <2>2. [req[q] EXCEPT !.pc = "transition"]
          = [req[q] EXCEPT !.pc = "transition", !.row = req[q].row]
    BY <2>1 DEF Request
  <2>3. req' = [req EXCEPT ![q] = [req[q] EXCEPT !.pc = "transition", !.row = req[q].row]]
    BY <1>2, <2>2 DEF GoesTo
  <2> QED
    BY <1>2, <2>1, <2>3, GoStep DEF GoesTo
<1> QED
  BY <1>1, <1>2 DEF CheckCap

-----------------------------------------------------------------------------
(* The statements that write.                                              *)

\* A row put under an id that nobody else knows.
LEMMA InsertOK == ASSUME IInv, NEW q \in Requests, InsertChallenge(q) PROVE IInv'
<1> DEFINE id == req[q].id
<1>0. /\ req \in [Requests -> Request] /\ Null \notin Ids
      /\ table \in [Ids -> Challenge \cup {Null}]
  BY Types DEF IInv
<1>1. /\ id \in Ids /\ table[id] = Null
      /\ req[q].row \in Challenge /\ req[q].row.status \in Live
      /\ \A p \in Requests \ {q} : req[p].id # id
  BY DEF InsertChallenge, IInv, Established, Reserved
<1>2. /\ \A p \in Requests : req'[p] = IF p = q THEN Done ELSE req[p]
      /\ \A i \in Ids : table'[i] = IF i = id THEN req[q].row ELSE table[i]
      /\ UNCHANGED <<games, now, faults>> /\ req[q].pc = "insert"
  BY <1>0, <1>1 DEF InsertChallenge
<1>3. TypeOK'
  <2>1. req' \in [Requests -> Request] /\ table' \in [Ids -> Challenge \cup {Null}]
    BY <1>0, <1>1, DoneOK DEF InsertChallenge
  <2> QED
    BY <1>2, <2>1 DEF IInv, TypeOK, Request
<1>4. (\A p \in Requests : Established(req[p]))'
  BY <1>2, DoneOK DEF IInv, Established
<1>5. \A p \in Requests : /\ req'[p].pc # "done" => p # q /\ req'[p] = req[p]
                          /\ InHand(p)' <=> InHand(p)
  BY <1>2, DoneOK DEF InHand
<1> HIDE DEF id
<1>6. Reserved'
  <2> SUFFICES ASSUME NEW p \in Requests, req'[p].pc # "done"
               PROVE  /\ req'[p].pc \in {"count", "insert"} =>
                           /\ table'[req'[p].id] = Null
                           /\ \A s \in Requests \ {p} : req'[s].id # req'[p].id
                      /\ req'[p].pc \in {"read", "cap", "transition", "createGame", "revert"} =>
                           table'[req'[p].id] # Null
    BY DEF Reserved
  <2>1. req'[p] = req[p] /\ p # q /\ req[p].id # id
    BY <1>1, <1>5
  <2>2. CASE req[p].pc \in {"count", "insert"}
    BY <1>0, <1>2, <2>1, <2>2, DoneOK DEF IInv, Reserved, Established
  <2>3. CASE req[p].pc \in {"read", "cap", "transition", "createGame", "revert"}
    BY <1>0, <1>2, <2>1, <2>3 DEF IInv, Reserved, Established
  <2> QED
    BY <2>1, <2>2, <2>3
<1>7. \A p \in Requests : InHand(p) => req[p].id \in Ids \ {id} /\ req'[p] = req[p]
  BY <1>1, <1>2, <1>5 DEF InHand, IInv, Established
<1>8. Held'
  BY <1>2, <1>5, <1>7 DEF IInv, Held
<1>9. Played'
  <2>1. ~IsGame(id)
    BY <1>1 DEF IInv, Played
  <2> QED
    BY <1>2, <1>5, <1>7, <2>1 DEF IInv, Played, IsGame, Lost, Suffered
<1>10. Explained'
  <2>1. "accepted" \notin Live
    BY DEF Live
  <2> QED
    BY <1>1, <1>2, <1>5, <1>7, <2>1 DEF IInv, Explained, IsGame, CutOff, Suffered
<1> QED
  BY <1>3, <1>4, <1>6, <1>8, <1>9, <1>10 DEF IInv

Accepted(id) == Exists(id) /\ table[id].status = "accepted"

\* A step of the reaper, the indexer or the world: rows come only under ids that no
\* call is about to use, none goes, and "accepted" stays as it is.
LEMMA WorldStep ==
  ASSUME IInv, TypeOK', UNCHANGED <<req, faults>>,
         DOMAIN games' = DOMAIN games,
         \A i \in DOMAIN games : games'[i].challenge = games[i].challenge,
         \A id \in Ids : /\ Exists(id) => Exists(id)'
                         /\ Accepted(id)' <=> Accepted(id),
         \A q \in Requests : req[q].pc \in {"count", "insert"} =>
           table'[req[q].id] = table[req[q].id]
  PROVE  IInv'
<1>1. (\A q \in Requests : Established(req[q]))'
  BY DEF IInv, Established
<1>2. \A q \in Requests : InHand(q)' <=> InHand(q)
  BY DEF InHand
<1>3. \A q \in Requests : InHand(q) => req[q].id \in Ids /\ Accepted(req[q].id)
  BY DEF InHand, IInv, Established, Held, Reserved, Accepted
<1>4. Reserved'
  BY DEF IInv, Reserved, Established
<1>5. Held'
  BY <1>2, <1>3 DEF IInv, Held, Accepted
<1>6. \A id \in Ids : IsGame(id)' <=> IsGame(id)
  BY DEF IsGame
<1>7. Played'
  BY <1>2, <1>3, <1>6 DEF IInv, Played, Accepted, Lost, Suffered
<1>8. Explained'
  BY <1>2, <1>6 DEF IInv, Explained, Accepted, CutOff, Suffered
<1> QED
  BY <1>1, <1>4, <1>5, <1>7, <1>8 DEF IInv

\* The reaper expires live rows only, so an accepted challenge stays accepted.
LEMMA ExpireDueOK == ASSUME IInv, ExpireDue PROVE IInv'
<1>0. table \in [Ids -> Challenge \cup {Null}]
  BY Types DEF IInv
<1>1. table' = [id \in Ids |-> IF Due(id) THEN [table[id] EXCEPT !.status = "expired"]
                                          ELSE table[id]]
      /\ UNCHANGED <<games, req, now, faults>>
  BY DEF ExpireDue
<1>2. ASSUME NEW id \in Ids, Due(id)
      PROVE  /\ table[id] \in Challenge /\ table[id].status \in Live
             /\ table'[id] \in Challenge /\ table'[id].status = "expired"
  <2>1. table[id] \in Challenge /\ table[id].status \in Live
    BY <1>0, <1>2 DEF Due
  <2>2. table'[id] = [table[id] EXCEPT !.status = "expired"]
    BY <1>1, <1>2
  <2> QED
    BY <2>1, <2>2 DEF Challenge, Statuses
<1>3. ASSUME NEW id \in Ids, ~Due(id) PROVE table'[id] = table[id]
  BY <1>1, <1>3
<1>4. table' \in [Ids -> Challenge \cup {Null}]
  <2>1. \A id \in Ids : table'[id] \in Challenge \cup {Null}
    BY <1>0, <1>2, <1>3
  <2> QED
    BY <1>1, <2>1
<1>5. TypeOK'
  BY <1>1, <1>4 DEF IInv, TypeOK
<1>6. \A id \in Ids : /\ Exists(id) => Exists(id)'
                      /\ Accepted(id)' <=> Accepted(id)
  BY <1>0, <1>2, <1>3 DEF Accepted, Live
<1>7. \A q \in Requests : req[q].pc \in {"count", "insert"} =>
           table'[req[q].id] = table[req[q].id]
  BY <1>3 DEF IInv, Reserved, Established, Due
<1> QED
  BY <1>1, <1>5, <1>6, <1>7, WorldStep

\* The indexer adds a row or refreshes one, and never touches a status.
LEMMA UpsertIndexedOK == ASSUME IInv, UpsertIndexed PROVE IInv'
<1>0. table \in [Ids -> Challenge \cup {Null}]
  BY Types DEF IInv
<1>1. PICK id \in Ids, did \in Dids, opponent \in Dids \cup {Null}, expires \in 0..Never :
        /\ \A q \in Requests : req[q].op = "create" => req[q].id # id
        /\ table' = [table EXCEPT ![id] =
             IF Exists(id) THEN Refreshed(id, NewChallenge(did, opponent, expires))
                           ELSE NewChallenge(did, opponent, expires)]
  BY DEF UpsertIndexed, Never
<1> DEFINE c == NewChallenge(did, opponent, expires)
<1>2. c \in Challenge /\ c.status \in Live /\ c.expires \in Nat
  BY DEF NewChallenge, Challenge, Statuses, Live, Never
<1> HIDE DEF c
<1>3. table[id] \in Challenge =>
        Refreshed(id, c) \in Challenge /\ Refreshed(id, c).status = table[id].status
  BY <1>2 DEF Refreshed, Challenge
<1>4. \A i \in Ids \ {id} : table'[i] = table[i]
  BY <1>0, <1>1
<1>5. table'[id] = IF Exists(id) THEN Refreshed(id, c) ELSE c
  BY <1>0, <1>1 DEF c
<1>6. table'[id] \in Challenge
  BY <1>0, <1>2, <1>3, <1>5
<1>7. TypeOK'
  <2>1. table' \in [Ids -> Challenge \cup {Null}]
    BY <1>0, <1>1, <1>5, <1>6
  <2> QED
    BY <2>1 DEF UpsertIndexed, IInv, TypeOK
<1>8. Exists(id)' /\ (Accepted(id)' <=> Accepted(id))
  BY <1>0, <1>2, <1>3, <1>5, <1>6 DEF Accepted, Live
<1>9. \A i \in Ids : /\ Exists(i) => Exists(i)'
                     /\ Accepted(i)' <=> Accepted(i)
  BY <1>4, <1>8 DEF Accepted
<1>10. \A q \in Requests : req[q].pc \in {"count", "insert"} =>
           table'[req[q].id] = table[req[q].id]
  BY <1>1, <1>4 DEF IInv, Established
<1> QED
  BY <1>7, <1>9, <1>10, WorldStep DEF UpsertIndexed

\* A deleted record cancels a live row only.
LEMMA DeleteIndexedOK == ASSUME IInv, DeleteIndexed PROVE IInv'
<1>0. table \in [Ids -> Challenge \cup {Null}]
  BY Types DEF IInv
<1>1. PICK id \in Ids : /\ Exists(id) /\ IsLive(id)
                        /\ table' = [table EXCEPT ![id].status = "cancelled"]
  BY DEF DeleteIndexed
<1>2. table[id] \in Challenge /\ table'[id] = [table[id] EXCEPT !.status = "cancelled"]
      /\ \A i \in Ids \ {id} : table'[i] = table[i]
  BY <1>0, <1>1
<1>3. table'[id] \in Challenge /\ table'[id].status = "cancelled"
  BY <1>2 DEF Challenge, Statuses
<1>4. TypeOK'
  <2>1. table' \in [Ids -> Challenge \cup {Null}]
    BY <1>0, <1>1, <1>2, <1>3
  <2> QED
    BY <2>1 DEF DeleteIndexed, IInv, TypeOK
<1>5. \A i \in Ids : /\ Exists(i) => Exists(i)'
                     /\ Accepted(i)' <=> Accepted(i)
  BY <1>1, <1>2, <1>3 DEF Accepted, IsLive, Live
<1>6. \A q \in Requests : req[q].pc \in {"count", "insert"} =>
           table'[req[q].id] = table[req[q].id]
  BY <1>1, <1>2 DEF IInv, Reserved, Established
<1> QED
  BY <1>4, <1>5, <1>6, WorldStep DEF DeleteIndexed

\* A game that ends is still the game of its challenge.
LEMMA GameEndsOK == ASSUME IInv, GameEnds PROVE IInv'
<1>0. games \in Seq(Game)
  BY Types DEF IInv
<1>1. PICK i \in DOMAIN games : games' = [games EXCEPT ![i].active = FALSE]
  BY DEF GameEnds
<1>2. games[i] \in Game
  BY <1>0
<1> DEFINE g == [games[i] EXCEPT !.active = FALSE]
<1>3. g \in Game /\ g.challenge = games[i].challenge
  BY <1>2 DEF Game
<1>4. games' = [games EXCEPT ![i] = g]
  BY <1>1
<1> HIDE DEF g
<1>5. games' \in Seq(Game) /\ DOMAIN games' = DOMAIN games
      /\ \A j \in DOMAIN games : games'[j] = IF j = i THEN g ELSE games[j]
  BY <1>0, <1>3, <1>4
<1>6. TypeOK'
  BY <1>5 DEF GameEnds, IInv, TypeOK, Game
<1> QED
  BY <1>3, <1>5, <1>6, WorldStep DEF GameEnds, Accepted

CallBecomes(q, r) == req' = [req EXCEPT ![q] = r]
RowBecomes(id, c) == table' = [table EXCEPT ![id] = c]

\* A step of a call on its own challenge, past the check that it may: the row stays,
\* and so does everybody else's call.
LEMMA ChallengeStep ==
  ASSUME IInv, NEW q \in Requests, NEW r \in Request, Established(r), NEW c \in Challenge,
         NEW id \in Ids, id = req[q].id,
         req[q].pc \in {"transition", "createGame", "revert"},
         CallBecomes(q, r), RowBecomes(id, c),
         games' \in Seq(Game), faults' \subseteq Faults \X Ids, now' = now,
         r = Done \/ (r.pc \in {"createGame", "revert"} /\ r.id = id)
  PROVE  /\ Exists(id) /\ table'[id] # Null
         /\ \A p \in Requests : req'[p] = IF p = q THEN r ELSE req[p]
         /\ \A i \in Ids : table'[i] = IF i = id THEN c ELSE table[i]
         /\ TypeOK'
         /\ (\A p \in Requests : Established(req[p]))'
         /\ Reserved'
<1>0. /\ req \in [Requests -> Request] /\ Null \notin Ids
      /\ table \in [Ids -> Challenge \cup {Null}] /\ now \in Nat
  BY Types DEF IInv
<1>1. Exists(id)
  BY DEF IInv, Established, Reserved
<1>2. /\ \A p \in Requests : req'[p] = IF p = q THEN r ELSE req[p]
      /\ \A i \in Ids : table'[i] = IF i = id THEN c ELSE table[i]
  BY <1>0, <1>1 DEF CallBecomes, RowBecomes
<1>3. TypeOK'
  <2>1. req' \in [Requests -> Request] /\ table' \in [Ids -> Challenge \cup {Null}]
    BY <1>0, <1>1 DEF CallBecomes, RowBecomes
  <2> QED
    BY <1>0, <2>1 DEF TypeOK, Request, Game
<1>4. (\A p \in Requests : Established(req[p]))'
  BY <1>2 DEF IInv, Established
<1>5. table'[id] # Null
  BY <1>1, <1>2
<1>6. \A p \in Requests : req[p].pc \in {"count", "insert"} => req[p].id \in Ids \ {id}
  BY <1>1 DEF IInv, Reserved, Established
<1>7. Reserved'
  <2> SUFFICES ASSUME NEW p \in Requests
               PROVE  /\ req'[p].pc \in {"count", "insert"} =>
                           /\ table'[req'[p].id] = Null
                           /\ \A s \in Requests \ {p} : req'[s].id # req'[p].id
                      /\ req'[p].pc \in {"read", "cap", "transition", "createGame", "revert"} =>
                           table'[req'[p].id] # Null
    BY DEF Reserved
  <2>1. CASE p = q
    BY <1>2, <1>5, <2>1, DoneOK
  <2>2. CASE p # q /\ req[p].pc \in {"count", "insert"}
    <3>1. /\ req'[p] = req[p] /\ req[p].id \in Ids \ {id} /\ table[req[p].id] = Null
          /\ \A s \in Requests \ {p} : req[s].id # req[p].id
      BY <1>2, <1>6, <2>2 DEF IInv, Reserved
    <3>2. r.id \in {id, Null}
      BY DoneOK
    <3> QED
      BY <1>0, <1>2, <2>2, <3>1, <3>2
  <2>3. CASE p # q /\ req[p].pc \notin {"count", "insert"}
    <3>1. req'[p] = req[p]
      BY <1>2, <2>3
    <3>2. req[p].pc \in {"read", "cap", "transition", "createGame", "revert"} =>
            req[p].id \in Ids /\ table[req[p].id] # Null
      BY DEF IInv, Reserved, Established
    <3> QED
      BY <1>2, <1>5, <2>3, <3>1, <3>2
  <2> QED
    BY <2>1, <2>2, <2>3
<1> QED
  BY <1>1, <1>2, <1>3, <1>4, <1>5, <1>7

\* One call wins a live challenge; nobody has it in hand then, and no game is of it.
LEMMA TransitionOK == ASSUME IInv, NEW q \in Requests, Transition(q) PROVE IInv'
<1>1. CASE Fails(q)
  BY <1>1, FailStep DEF Transition, InHand
<1>2. CASE ~Fails(q)
  <2>0. PICK id \in Ids : id = req[q].id
    BY DEF Transition, IInv, Established
  <2> DEFINE c == [table[id] EXCEPT !.status = Target(req[q].op)]
             won == IF req[q].op = "accept" THEN [req[q] EXCEPT !.pc = "createGame"] ELSE Done
  <2>1. /\ req[q] \in Request /\ Established(req[q]) /\ req[q].pc = "transition"
        /\ table[id] \in Challenge /\ games \in Seq(Game)
        /\ faults \subseteq Faults \X Ids /\ req \in [Requests -> Request]
    BY <2>0, Types DEF Transition, IInv, Established, Reserved
  <2>2. /\ table[id].status \in Live
        /\ table' = [table EXCEPT ![id] = c] /\ UNCHANGED <<games, now>>
        /\ \/ req' = [req EXCEPT ![q] = won] /\ faults' = faults
           \/ req' = [req EXCEPT ![q] = Done] /\ Fault("transition", {id})
    BY <1>2, <2>0, <2>1 DEF Transition, Wins, IsLive
  <2>a. PICK r \in {won, Done} :
          /\ req' = [req EXCEPT ![q] = r]
          /\ faults \subseteq faults' /\ faults' \subseteq Faults \X Ids
          /\ r = won \/ <<"transition", id>> \in faults'
    <3>1. CASE req' = [req EXCEPT ![q] = won] /\ faults' = faults
      <4> HIDE DEF won
      <4> QED BY <2>1, <3>1
    <3>2. CASE req' = [req EXCEPT ![q] = Done] /\ Fault("transition", {id})
      <4>1. "transition" \in Faults /\ {id} \in SUBSET Ids
        BY DEF Faults
      <4> HIDE DEF won
      <4> QED BY <2>1, <3>2, <4>1, FaultStep
    <3> QED BY <2>2, <3>1, <3>2
  <2>3. /\ c \in Challenge
        /\ c.status = "accepted" <=> req[q].op = "accept"
    BY <2>1 DEF Challenge, Statuses, Target, Established
  <2>4. /\ r \in Request /\ Established(r)
        /\ r = Done \/ (r.pc = "createGame" /\ r.id = id)
        /\ r.pc = "createGame" => req[q].op = "accept"
        /\ req[q].op = "accept" => r.pc = "createGame" \/ <<"transition", id>> \in faults'
    <3>0. CASE r = Done
      <4>1. req[q].op = "accept" => won.pc = "createGame"
        BY <2>1 DEF Request
      <4> HIDE DEF won
      <4> QED BY <2>a, <3>0, <4>1, DoneOK
    <3>1. CASE r = won /\ req[q].op = "accept"
      <4>1. /\ r \in Request /\ r.pc = "createGame" /\ r.id = id /\ r.op = "accept"
            /\ r.by = req[q].by /\ r.row = req[q].row
        BY <2>0, <2>1, <3>1 DEF Request
      <4>2. Established(r)
        BY <2>1, <4>1 DEF Established
      <4> QED
        BY <3>1, <4>1, <4>2
    <3>2. CASE r = won /\ req[q].op # "accept"
      BY <3>2, DoneOK
    <3> QED
      BY <3>0, <3>1, <3>2
  <2> HIDE DEF c, won
  <2>5. /\ Exists(id) /\ table'[id] # Null
        /\ \A p \in Requests : req'[p] = IF p = q THEN r ELSE req[p]
        /\ \A i \in Ids : table'[i] = IF i = id THEN c ELSE table[i]
        /\ TypeOK' /\ (\A p \in Requests : Established(req[p]))' /\ Reserved'
    <3>1. /\ games' \in Seq(Game) /\ faults' \subseteq Faults \X Ids /\ now' = now
          /\ r = Done \/ (r.pc \in {"createGame", "revert"} /\ r.id = id)
      BY <2>1, <2>2, <2>4, <2>a
    <3>2. c \in Challenge /\ r \in Request /\ Established(r) /\ req[q].pc = "transition"
      BY <2>1, <2>3, <2>4
    <3>3. CallBecomes(q, r) /\ RowBecomes(id, c)
      BY <2>2, <2>a DEF CallBecomes, RowBecomes
    <3> QED
      BY <2>0, <3>1, <3>2, <3>3, ChallengeStep
  <2>6. /\ \A p \in Requests : InHand(p) => req[p].id \in Ids \ {id}
        /\ IsGame(id) => Lost(id)
    BY <2>1, <2>2 DEF IInv, Held, Played, Live, InHand, Established
  <2>7. /\ \A p \in Requests \ {q} : InHand(p)' <=> InHand(p)
        /\ InHand(q)' => req[q].op = "accept" /\ req'[q].id = id
        /\ req[q].op = "accept" => InHand(q)' \/ CutOff(id)'
    BY <2>4, <2>5, DoneOK DEF InHand, CutOff, Suffered
  <2>8. Held'
    BY <2>1, <2>3, <2>5, <2>6, <2>7 DEF IInv, Held
  <2>9. Played'
    <3>1. \A i \in Ids : (IsGame(i)' <=> IsGame(i)) /\ (Lost(i) => Lost(i)')
      BY <2>2, <2>a, ForGood DEF IsGame
    <3>2. \A i \in DOMAIN games : games[i].challenge \in Ids
      <4>1. \A i \in DOMAIN games : games[i] \in Game
        BY <2>1
      <4> QED BY <4>1 DEF Game
    <3>3. \A p \in Requests : InHand(p)' => req'[p].id \in Ids
      BY <2>0, <2>5, <2>6, <2>7
    <3>4. \A p \in Requests \ {q} : InHand(p)' => InHand(p) /\ req'[p].id = req[p].id
      BY <2>5, <2>7
    <3>5. \A p \in Requests : InHand(p)' => ~IsGame(req'[p].id) \/ Lost(req'[p].id)
      BY <2>6, <2>7, <3>4 DEF IInv, Played
    <3>6. \A p \in Requests : InHand(p)' => (~IsGame(req[p].id))' \/ Lost(req[p].id)'
      BY <3>1, <3>3, <3>5 DEF IsGame, Lost, Suffered
    <3>7. \A i, j \in DOMAIN games' : games'[i].challenge = games'[j].challenge =>
                                      i = j \/ Lost(games[i].challenge)'
      BY <2>2, <2>a DEF IInv, Played, Lost, Suffered
    <3>8. \A i \in Ids : IsGame(i)' => Exists(i)' /\ (table'[i].status = "accepted" \/ Lost(i)')
      BY <2>5, <2>6, <3>1 DEF IInv, Played
    <3> QED BY <3>6, <3>7, <3>8 DEF Played
  <2>10. Explained'
    <3>1. \A i \in Ids : (IsGame(i) => IsGame(i)') /\ (CutOff(i) => CutOff(i)')
      BY <2>2, <2>a, ForGood DEF IsGame
    <3>2. CutOff(id)' \/ InHand(q)' \/ ~(table'[id].status = "accepted")
      BY <2>0, <2>3, <2>5, <2>7
    <3>3. ~InHand(q)
      BY <2>1 DEF InHand
    <3>4. \A p \in Requests \ {q} : InHand(p) => InHand(p)' /\ req'[p].id = req[p].id
      BY <2>5, <2>7
    <3> QED BY <2>5, <2>7, <3>1, <3>2, <3>3, <3>4 DEF IInv, Explained
  <2> QED
    BY <2>5, <2>8, <2>9, <2>10 DEF IInv
<1> QED
  BY <1>1, <1>2

\* The winner makes the game of the challenge, or has to give the challenge back.
LEMMA CreateGameOK == ASSUME IInv, NEW q \in Requests, CreateGame(q) PROVE IInv'
<1>0. PICK id \in Ids : id = req[q].id
  BY DEF CreateGame, IInv, Established
<1> DEFINE g  == [challenge |-> id, challenger |-> req[q].row.challenger,
                  acceptor |-> req[q].by, active |-> TRUE]
           v  == [req[q] EXCEPT !.pc = "revert"]
           n  == Len(games) + 1
<1>1. /\ req[q] \in Request /\ Established(req[q]) /\ req[q].pc = "createGame"
      /\ games \in Seq(Game) /\ Len(games) \in Nat
      /\ faults \subseteq Faults \X Ids /\ req \in [Requests -> Request]
      /\ table \in [Ids -> Challenge \cup {Null}]
      /\ table[id] \in Challenge /\ table[id].status = "accepted"
  BY <1>0, Types DEF CreateGame, IInv, Established, Reserved, Held, InHand
<1>2. g \in Game
  BY <1>1 DEF Game, Established, Challenge
<1>3. /\ Append(games, g) \in Seq(Game) /\ DOMAIN Append(games, g) = 1..n
      /\ \A i \in 1..Len(games) : Append(games, g)[i] = games[i]
      /\ Append(games, g)[n] = g /\ g.challenge = id /\ DOMAIN games = 1..Len(games)
  BY <1>1, <1>2
<1>4. v \in Request /\ Established(v) /\ v.pc = "revert" /\ v.id = id
  <2>1. /\ v \in Request /\ v.pc = "revert" /\ v.id = id /\ v.op = req[q].op
        /\ v.by = req[q].by /\ v.row = req[q].row
    BY <1>0, <1>1 DEF Request
  <2> QED
    BY <1>1, <2>1 DEF Established
<1>5. /\ \/ games' = Append(games, g) /\ req' = [req EXCEPT ![q] = Done]
            /\ faults' = faults
         \/ games' = games /\ req' = [req EXCEPT ![q] = v]
            /\ Fault("createGame", {id})
         \/ games' = Append(games, g) /\ req' = [req EXCEPT ![q] = v]
            /\ Fault("answer", {id})
      /\ table' = table /\ now' = now
  BY <1>0, <1>1 DEF CreateGame
<1>f. /\ faults \subseteq faults' /\ faults' \subseteq Faults \X Ids
      /\ games' = games \/ req' = [req EXCEPT ![q] = Done] \/ <<"answer", id>> \in faults'
  <2>1. "createGame" \in Faults /\ "answer" \in Faults /\ {id} \in SUBSET Ids
    BY DEF Faults
  <2> HIDE DEF g, v, n
  <2>2. ASSUME Fault("createGame", {id}) PROVE faults \subseteq faults' /\ faults' \subseteq Faults \X Ids
    BY <1>1, <2>1, <2>2, FaultStep
  <2>3. ASSUME Fault("answer", {id})
        PROVE  faults \subseteq faults' /\ faults' \subseteq Faults \X Ids /\ <<"answer", id>> \in faults'
    BY <1>1, <2>1, <2>3, FaultStep
  <2> QED BY <1>1, <1>5, <2>2, <2>3
<1> HIDE DEF g, v, n
<1>6. PICK r \in {Done, v} : req' = [req EXCEPT ![q] = r]
  BY <1>5
<1>7. games' \in Seq(Game) /\ faults' \subseteq Faults \X Ids /\ r \in Request /\ Established(r)
  BY <1>1, <1>3, <1>4, <1>5, <1>f, DoneOK
<1>8. table' = [table EXCEPT ![id] = table[id]]
  BY <1>1, <1>5
<1>a. CallBecomes(q, r) /\ RowBecomes(id, table[id]) /\ now' = now
  BY <1>5, <1>6, <1>8 DEF CallBecomes, RowBecomes
<1>b. r = Done \/ (r.pc \in {"createGame", "revert"} /\ r.id = id)
  BY <1>4, <1>6
<1>9. /\ Exists(id)
      /\ \A p \in Requests : req'[p] = IF p = q THEN r ELSE req[p]
      /\ TypeOK' /\ (\A p \in Requests : Established(req[p]))' /\ Reserved'
  BY <1>0, <1>1, <1>7, <1>a, <1>b, ChallengeStep
<1>10. /\ \A p \in Requests \ {q} : (InHand(p)' <=> InHand(p)) /\ req'[p] = req[p]
       /\ InHand(q) /\ (InHand(q)' => req'[q].id = id /\ r = v)
       /\ r = v => InHand(q)'
       /\ \A p \in Requests \ {q} : InHand(p) => req[p].id # id
  BY <1>0, <1>1, <1>4, <1>9, DoneOK DEF InHand, IInv, Held
<1>11. Held'
  BY <1>0, <1>1, <1>5, <1>9, <1>10 DEF IInv, Held
<1>12. \A i \in Ids : /\ IsGame(i)' => IsGame(i) \/ i = id
                      /\ IsGame(i) => IsGame(i)'
  <2>0. 1..n = 1..Len(games) \cup {n}
    BY <1>1 DEF n
  <2>1. \/ DOMAIN games' = DOMAIN games /\ games' = games
        \/ DOMAIN games' = DOMAIN games \cup {n} /\ games'[n].challenge = id
    BY <2>0, <1>3, <1>5
  <2>2. \A k \in DOMAIN games : games'[k] = games[k]
    BY <1>3, <1>5
  <2> QED
    BY <2>1, <2>2 DEF IsGame
<1>13. Played'
  <2>1. \A i \in Ids : Lost(i) => Lost(i)'
    BY <1>f, ForGood
  <2>2. ~IsGame(id) \/ Lost(id)
    BY <1>0, <1>10 DEF IInv, Played
  <2>3. \A i \in DOMAIN games' :
          \/ i \in DOMAIN games /\ games'[i] = games[i]
          \/ i = n /\ games'[i].challenge = id
    BY <1>1, <1>3, <1>5 DEF n
  <2>4. \A i \in DOMAIN games : games[i].challenge \in Ids
    <3>1. \A i \in DOMAIN games : games[i] \in Game
      BY <1>1
    <3> QED BY <3>1 DEF Game
  <2>5. \A i, j \in DOMAIN games' : games'[i].challenge = games'[j].challenge =>
                                    i = j \/ Lost(games'[i].challenge)
    <3> TAKE i \in DOMAIN games', j \in DOMAIN games'
    <3> HAVE games'[i].challenge = games'[j].challenge
    <3>1. CASE games'[i].challenge = id /\ (i \in DOMAIN games \/ j \in DOMAIN games)
      BY <2>2, <2>3, <3>1 DEF IInv, Played, IsGame
    <3>2. CASE games'[i].challenge # id
      BY <2>3, <3>2 DEF IInv, Played
    <3> QED BY <2>3, <3>1, <3>2
  <2>6. \A i, j \in DOMAIN games' : games'[i].challenge = games'[j].challenge =>
                                    i = j \/ Lost(games[i].challenge)'
    <3>1. \A i \in DOMAIN games' : Lost(games'[i].challenge) => Lost(games[i].challenge)'
      BY <1>f DEF Lost, Suffered
    <3> QED BY <2>5, <3>1
  <2>7. ASSUME NEW p \in Requests, InHand(p)' PROVE  (~IsGame(req[p].id))' \/ Lost(req[p].id)'
    <3>1. CASE p = q
      <4>1. req'[q].id = id /\ (games' = games \/ <<"answer", id>> \in faults')
        BY <1>1, <1>f, <1>10, <2>7, <3>1, DoneOK DEF InHand
      <4> QED
        BY <2>1, <2>2, <3>1, <4>1 DEF IsGame, Lost, Suffered
    <3>2. CASE p # q
      <4>1. InHand(p) /\ req'[p] = req[p] /\ req[p].id \in Ids \ {id}
        BY <1>10, <2>7, <3>2 DEF IInv, InHand, Established
      <4>2. ~IsGame(req[p].id) \/ Lost(req[p].id)
        BY <4>1 DEF IInv, Played
      <4>3. IsGame(req[p].id)' => IsGame(req[p].id)
        BY <1>12, <4>1 DEF IsGame
      <4>4. Lost(req[p].id) => Lost(req[p].id)'
        BY <1>f, <4>1 DEF Lost, Suffered
      <4> QED
        BY <4>2, <4>3, <4>4
    <3> QED BY <3>1, <3>2
  <2>8. \A i \in Ids : IsGame(i)' => Exists(i)' /\ (table'[i].status = "accepted" \/ Lost(i)')
    BY <1>1, <1>5, <1>9, <1>12, <2>1 DEF IInv, Played
  <2> QED
    BY <2>6, <2>7, <2>8 DEF Played
<1>14. Explained'
  <2>1. IsGame(id)' \/ InHand(q)'
    <3>1. CASE games' = Append(games, g)
      BY <1>1, <1>3, <3>1 DEF IsGame, n
    <3>2. CASE req' = [req EXCEPT ![q] = v]
      BY <1>1, <1>4, <3>2 DEF InHand
    <3> QED
      BY <1>5, <3>1, <3>2
  <2>2. \A i \in Ids \ {id} : Exists(i)' /\ table'[i].status = "accepted" =>
           \/ IsGame(i)' \/ CutOff(i)'
           \/ \E p \in Requests : req'[p].id = i /\ InHand(p)'
    <3> TAKE i \in Ids \ {id}
    <3> HAVE Exists(i)' /\ table'[i].status = "accepted"
    <3>1. \/ IsGame(i) \/ CutOff(i)
          \/ \E p \in Requests : req[p].id = i /\ InHand(p)
      BY <1>5 DEF IInv, Explained
    <3>2. CutOff(i) => CutOff(i)'
      BY <1>f, ForGood
    <3>3. ASSUME NEW p \in Requests, req[p].id = i, InHand(p)
          PROVE  req'[p].id = i /\ InHand(p)'
      BY <1>0, <1>10, <3>3
    <3> QED
      BY <1>12, <3>1, <3>2, <3>3
  <2>3. InHand(q)' => req'[q].id = id
    BY <1>10
  <2> QED
    BY <2>1, <2>2, <2>3 DEF Explained
<1> QED
  BY <1>9, <1>11, <1>13, <1>14 DEF IInv

\* The challenge is given back: live again, with no game of it and nobody busy with it.
LEMMA RevertOK == ASSUME IInv, NEW q \in Requests, Revert(q) PROVE IInv'
<1>0. PICK id \in Ids : id = req[q].id
  BY DEF Revert, IInv, Established
<1>1. /\ req[q].pc = "revert" /\ req[q].row.status \in Live /\ games \in Seq(Game)
      /\ faults \subseteq Faults \X Ids /\ req \in [Requests -> Request]
      /\ table \in [Ids -> Challenge \cup {Null}]
      /\ table[id] \in Challenge /\ table[id].status = "accepted"
  BY <1>0, Types DEF Revert, IInv, Established, Reserved, Held, InHand
<1> DEFINE c == [table[id] EXCEPT !.status = req[q].row.status]
<1>2. c \in Challenge /\ c.status \in Live
  BY <1>1 DEF Challenge, Statuses, Live
<1>3. PICK d \in {c, table[id]} :
        /\ table' = [table EXCEPT ![id] = d]
        /\ faults \subseteq faults' /\ faults' \subseteq Faults \X Ids
        /\ d = c \/ <<"revert", id>> \in faults'
  <2>1. \/ table' = [table EXCEPT ![id] = c] /\ faults' = faults
        \/ table' = [table EXCEPT ![id] = table[id]] /\ Fault("revert", {id})
    BY <1>0, <1>1 DEF Revert, Reverted
  <2>2. "revert" \in Faults /\ {id} \in SUBSET Ids
    BY DEF Faults
  <2> HIDE DEF c
  <2>3. ASSUME Fault("revert", {id})
        PROVE  /\ faults \subseteq faults' /\ faults' \subseteq Faults \X Ids
               /\ <<"revert", id>> \in faults'
    BY <1>1, <2>2, <2>3, FaultStep
  <2> QED
    BY <1>1, <2>1, <2>3
<1>4. games' = games /\ now' = now /\ req' = [req EXCEPT ![q] = Done]
  BY DEF Revert
<1> HIDE DEF c
<1>5. d \in Challenge /\ (d.status = "accepted" => CutOff(id)')
  BY <1>1, <1>2, <1>3 DEF Live, CutOff, Suffered
<1>6. /\ Exists(id) /\ table'[id] # Null
      /\ \A p \in Requests : req'[p] = IF p = q THEN Done ELSE req[p]
      /\ \A i \in Ids : table'[i] = IF i = id THEN d ELSE table[i]
      /\ TypeOK' /\ (\A p \in Requests : Established(req[p]))' /\ Reserved'
  <2>1. games' \in Seq(Game) /\ faults' \subseteq Faults \X Ids /\ now' = now
    BY <1>1, <1>3, <1>4
  <2>2. CallBecomes(q, Done) /\ RowBecomes(id, d)
    BY <1>3, <1>4 DEF CallBecomes, RowBecomes
  <2> QED
    BY <1>0, <1>1, <1>5, <2>1, <2>2, DoneOK, ChallengeStep
<1>7. /\ \A p \in Requests \ {q} : (InHand(p)' <=> InHand(p)) /\ req'[p] = req[p]
      /\ InHand(q) /\ ~InHand(q)'
      /\ \A p \in Requests \ {q} : InHand(p) => req[p].id \in Ids \ {id}
  BY <1>0, <1>1, <1>6, DoneOK DEF InHand, IInv, Held, Established
<1>8. Held'
  BY <1>6, <1>7 DEF IInv, Held
<1>9. Played'
  <2>1. IsGame(id) => Lost(id)
    BY <1>0, <1>7 DEF IInv, Played
  <2>2. \A i \in Ids : (IsGame(i)' <=> IsGame(i)) /\ (Lost(i) => Lost(i)')
    BY <1>3, <1>4, ForGood DEF IsGame
  <2>3. \A i, j \in DOMAIN games' : games'[i].challenge = games'[j].challenge =>
                                    i = j \/ Lost(games[i].challenge)'
    BY <1>3, <1>4 DEF IInv, Played, Lost, Suffered
  <2>4. ASSUME NEW p \in Requests, InHand(p)' PROVE  (~IsGame(req[p].id))' \/ Lost(req[p].id)'
    <3>1. InHand(p) /\ req'[p] = req[p]
      BY <1>7, <2>4
    <3> QED BY <1>3, <1>4, <3>1 DEF IInv, Played, IsGame, Lost, Suffered
  <2>5. \A i \in Ids : IsGame(i)' => Exists(i)' /\ (table'[i].status = "accepted" \/ Lost(i)')
    BY <1>6, <2>1, <2>2 DEF IInv, Played
  <2> QED
    BY <2>3, <2>4, <2>5 DEF Played
<1>10. Explained'
  <2> SUFFICES ASSUME NEW i \in Ids, i # id, Exists(i)', table'[i].status = "accepted"
               PROVE  \/ IsGame(i)' \/ CutOff(i)'
                      \/ \E p \in Requests : req'[p].id = i /\ InHand(p)'
    BY <1>5, <1>6 DEF Explained
  <2>1. \/ IsGame(i) \/ CutOff(i)
        \/ \E p \in Requests : req[p].id = i /\ InHand(p)
    BY <1>6 DEF IInv, Explained
  <2> QED
    BY <1>0, <1>3, <1>4, <1>7, <2>1, ForGood DEF IsGame
<1> QED
  BY <1>6, <1>8, <1>9, <1>10 DEF IInv

\* A restart forgets the calls, not the challenges.
LEMMA RestartOK == ASSUME IInv, Restart PROVE IInv'
<1>0. req \in [Requests -> Request] /\ faults \subseteq Faults \X Ids
  BY Types DEF IInv
<1> DEFINE ids == {req[q].id : q \in Busy}
<1>1. /\ \A q \in Requests : req'[q] = IF q \in Busy THEN Done ELSE req[q]
      /\ \A q \in Requests : req'[q].pc \in {"idle", "done"}
      /\ Fault("restart", ids) /\ UNCHANGED <<table, games, now>>
  BY DoneOK DEF Restart, Busy
<1>f. /\ faults \subseteq faults' /\ faults' \subseteq Faults \X Ids
      /\ \A id \in Ids : (\E q \in Requests : InHand(q) /\ req[q].id = id) => CutOff(id)'
  <2>1. "restart" \in Faults
    BY DEF Faults
  <2>2. ids \in SUBSET Ids
    BY <1>0 DEF Busy, IInv, Established, Request
  <2>3. \A q \in Requests : InHand(q) => req[q].id \in ids
    BY DEF Busy, InHand
  <2> HIDE DEF ids
  <2>4. /\ faults \subseteq faults' /\ faults' \subseteq Faults \X Ids
        /\ \A id \in ids : <<"restart", id>> \in faults'
    BY <1>0, <1>1, <2>1, <2>2, FaultStep
  <2> QED BY <2>3, <2>4 DEF CutOff, Suffered
<1>2. req' \in [Requests -> Request]
  <2>1. \A q \in Requests : (IF q \in Busy THEN Done ELSE req[q]) \in Request
    BY <1>0, DoneOK
  <2> QED
    BY <2>1 DEF Restart
<1>3. TypeOK'
  BY <1>0, <1>1, <1>2, <1>f DEF IInv, TypeOK, Request
<1>4. (\A q \in Requests : Established(req[q]))' /\ Reserved'
  BY <1>1 DEF Established, Reserved
<1>5. \A q \in Requests : ~InHand(q)'
  BY <1>1 DEF InHand
<1>6. Held' /\ Played' /\ Explained'
  <2>1. Held'
    BY <1>5 DEF Held
  <2>2. Played'
    BY <1>1, <1>5, <1>f DEF IInv, Played, IsGame, Lost, Suffered
  <2>3. Explained'
    <3>1. \A id \in Ids : (CutOff(id) => CutOff(id)') /\ (IsGame(id) => IsGame(id)')
      BY <1>1, <1>f, ForGood DEF IsGame
    <3> QED BY <1>1, <1>f, <3>1 DEF IInv, Explained
  <2> QED BY <2>1, <2>2, <2>3
<1> QED
  BY <1>3, <1>4, <1>6 DEF IInv

-----------------------------------------------------------------------------
(* The theorems.                                                           *)

\* Nothing has happened yet.
LEMMA InitOK == Init => IInv
<1> SUFFICES ASSUME Init PROVE IInv
  OBVIOUS
<1>1. Quiet \in Request
  BY DEF Quiet, Request
<1>2. TypeOK
  BY <1>1 DEF Init, TypeOK, Request, Faults
<1> QED
  BY <1>2 DEF Init, IInv, Quiet, Established, Reserved, Held, Played, Explained,
     InHand, IsGame

\* Every step keeps the invariant.
THEOREM NextOK == IInv /\ [Next]_vars => IInv'
<1> SUFFICES ASSUME IInv, [Next]_vars PROVE IInv'
  OBVIOUS
<1>1. ASSUME NEW q \in Requests, Receive(q) \/ Step(q) PROVE IInv'
  BY <1>1, ReceiveOK, CountOpenOK, InsertOK, ReadChallengeOK, CheckCapOK, TransitionOK,
     CreateGameOK, RevertOK DEF Step
<1>2. CASE Tick
  <2>1. now' \in Nat /\ UNCHANGED <<table, games, req, faults>>
    BY <1>2, Types DEF Tick, IInv
  <2>2. TypeOK'
    BY <2>1 DEF IInv, TypeOK
  <2> QED
    BY <2>1, <2>2, WorldStep DEF Accepted
<1>3. CASE UNCHANGED vars
  <2>1. TypeOK'
    BY <1>3 DEF vars, IInv, TypeOK
  <2> QED
    BY <1>3, <2>1, WorldStep DEF vars, Accepted
<1> QED
  BY <1>1, <1>2, <1>3, ExpireDueOK, UpsertIndexedOK, DeleteIndexedOK, GameEndsOK,
     RestartOK DEF Next

\* Every variable keeps its type.
THEOREM TypeCorrect == Spec => []TypeOK
<1>1. IInv => TypeOK
  BY DEF IInv
<1> QED
  BY <1>1, InitOK, NextOK, PTL DEF Spec

\* One game comes of a challenge, however many agents accept it at once and whatever
\* fails, unless a creation of it was reported as failed that was not.
THEOREM OneGameEach == Spec => []OneGamePerChallenge
<1>1. IInv => OneGamePerChallenge
  BY DEF IInv, Played, OneGamePerChallenge, Lost
<1> QED
  BY <1>1, InitOK, NextOK, PTL DEF Spec

\* A challenge is accepted if and only if it became a game, unless somebody is still busy
\* with it, or the call that won it did not learn so, could not give it back or is gone.
THEOREM AcceptedIsPlayed == Spec => []AcceptedIffGame
<1>1. IInv => AcceptedIffGame
  BY DEF IInv, Played, Explained, AcceptedIffGame, IsGame, InHand, Lost, CutOff
<1> QED
  BY <1>1, InitOK, NextOK, PTL DEF Spec

=============================================================================
