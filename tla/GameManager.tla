----------------------------- MODULE GameManager -----------------------------
(***************************************************************************)
(* The referee of one game (internal/games/manager.go, sweeper.go) over    *)
(* the games and moves tables (internal/repo/repo.go).                     *)
(*                                                                         *)
(* Every XRPC call runs in a goroutine of its own and touches the database *)
(* in separate statements: it reads the games row, reads the moves, and    *)
(* only then writes.  Nothing is locked in between, so a request is a      *)
(* small program and an action is one of its statements.  The sweeper is   *)
(* one more such program, started by its ticker.                           *)
(*                                                                         *)
(* SubmitMove, OfferDraw and DeclineDraw write the WHOLE row back as they  *)
(* read it (GamesRepo.update).  Resign, AcceptDraw, the sweeper and a      *)
(* SubmitMove that finds the clock expired write only where the row is     *)
(* still active (finishTimeout).                                           *)
(***************************************************************************)
EXTENDS Integers, Sequences, FiniteSets

CONSTANTS
  White, Black,   \* the two players, in seat order
  Dids,           \* everyone who may call; a superset of the players
  Null,           \* SQL NULL
  Payloads,       \* move payloads
  Mating,         \* the payloads that end the game in the mover's favour
  Illegal,        \* the payloads the engine rejects
  Budget,         \* TimeControl.PerMoveSeconds, in ticks
  StartedAt,      \* games.started_at: when the first clock starts
  Requests,       \* the XRPC calls of a behaviour; each is made once
  Sweeper,        \* the background sweeper
  Ops,            \* the operations clients use
  Concurrency,    \* BOUND: calls and sweeps in progress at the same time
  Overlapping,    \* BOUND: the operations that run beside others, "sweep" among them
  MaxPly,         \* BOUND: the largest ply a client submits
  MaxNow,         \* BOUND: the last tick of the clock
  MaxFaults       \* BOUND: restarts of the process and lost answers to a write

AllOps == {"submitMove", "resign", "offerDraw", "acceptDraw", "declineDraw"}

ASSUME PlayersAssumption ==
  /\ White # Black
  /\ {White, Black} \subseteq Dids
  /\ Null \notin Dids
ASSUME PayloadsAssumption ==
  Null \notin Payloads /\ Mating \subseteq Payloads /\ Illegal \subseteq Payloads
ASSUME ClockAssumption == Budget \in Nat \ {0} /\ StartedAt \in Nat
ASSUME RequestsAssumption ==
  IsFiniteSet(Requests) /\ Sweeper \notin Requests /\ Ops \subseteq AllOps
ASSUME BoundsAssumption ==
  /\ Concurrency \in Nat /\ MaxPly \in Nat
  /\ MaxNow \in Nat /\ MaxFaults \in Nat

VARIABLES
  row,      \* the row of the games table
  moves,    \* the game's rows of the moves table, by ply
  now,      \* the clock of the process (m.now)
  req,      \* what each request and the sweeper are doing
  bus,      \* the events published so far, in publication order
  record,   \* the result the game record in the service repo shows
  past      \* history: what properties tell of earlier states (and the bound)

vars == <<row, moves, now, req, bus, record, past>>

-----------------------------------------------------------------------------
(* Data.                                                                   *)

Players == {White, Black}
Actors  == Requests \cup {Sweeper}

Opponent(p) == IF p = White THEN Black ELSE White

Result == [reason: {"timeout", "resignation", "checkmate", "agreement"},
           winner: Players \cup {Null}]

WinFor(p, reason) == [reason |-> reason, winner |-> p]

Row == [status: {"active", "finished"}, ply: Nat, turn: Players, anchor: Nat,
        offer: Players \cup {Null}, result: Result \cup {Null}, cid: BOOLEAN]

Move == [player: Players, payload: Payloads, at: 0..MaxNow]

ASSUME NullAssumption == Null \notin Row \cup Result \cup Move

\* The row of a game just created: the indexer has not seen its record yet.
NewRow == [status |-> "active", ply |-> 0, turn |-> White, anchor |-> StartedAt,
           offer |-> Null, result |-> Null, cid |-> FALSE]

\* The moment the on-move player's clock expires.
DeadlineFor(r) == r.anchor + Budget

Expired(r, at) == at >= DeadlineFor(r)

\* Mutant: the player on move wins.
TimeoutResultSwapped(r) == WinFor(r.turn, "timeout")

\* The on-move player loses.
TimeoutResult(r) == WinFor(Opponent(r.turn), "timeout")

\* The engine refuses every move in a position that is already decided.
Legal(payload) ==
  /\ payload \notin Illegal
  /\ \A i \in DOMAIN moves : moves[i].payload \notin Mating

\* "read" .. "publish" are the statements a call still has to execute.
InFlight == {"read", "load", "commit", "finish", "update",
             "publish", "record", "announce"}

NoAnswer == [code |-> "none", ply |-> 0, move |-> Null]

Quiet == [pc |-> "idle", op |-> "none", by |-> Null, ply |-> 0, payload |-> Null,
          at |-> 0, row |-> Null, seen |-> 0, res |-> Null, out |-> NoAnswer]

Busy == {a \in Actors : req[a].pc \in InFlight}

\* A call that has ended the game and has still to say so.
Telling(q) ==
  \/ q.pc \in {"record", "announce"}
  \/ q.pc = "publish" /\ q.op = "submitMove" /\ q.payload \in Mating

\* What is remembered of the past: faults so far, how often a statement ended
\* the game, how many of these ends a fault kept from being announced, and the
\* plies at which the row stood when the clock it showed had expired.
Past == [faults: Nat, ends: Nat, cut: Nat, overdue: SUBSET Nat]

\* The ply of a row whose clock has run out, if it has.
OverduePly(r, at) == IF r.status = "active" /\ Expired(r, at) THEN {r.ply} ELSE {}

\* BOUND: which operations overlap, and how many.
MayStart(op) ==
  \/ Busy = {}
  \/ /\ Cardinality(Busy) < Concurrency
     /\ {op} \cup {req[a].op : a \in Busy} \subseteq Overlapping

-----------------------------------------------------------------------------
(* How a request ends, and how it goes on.                                 *)

\* The answer of a request; the sweeper has nobody to answer and goes idle.
Ended(a, code, ply, move) ==
  IF a = Sweeper THEN Quiet
  ELSE [Quiet EXCEPT !.pc  = "done",
                     !.out = [code |-> code, ply |-> ply, move |-> move]]

Fails(a, code) ==
  /\ req' = [req EXCEPT ![a] = Ended(a, code, 0, Null)]
  /\ UNCHANGED <<row, moves, now, bus, record, past>>

GoesTo(a, pc) ==
  /\ req' = [req EXCEPT ![a].pc = pc]
  /\ UNCHANGED <<row, moves, now, bus, record, past>>

GoesToFinish(a, result) ==
  /\ req' = [req EXCEPT ![a].pc = "finish", ![a].res = result,
                        ![a].seen = Len(moves)]
  /\ UNCHANGED <<row, moves, now, bus, record, past>>

\* A write of the games row that ends the game `ends' times (0 or 1) has taken
\* effect: its call goes on as q, or its answer gets lost and the call fails.
Writes(a, r, q, ends) ==
  LET seen == past.overdue \cup OverduePly(r, now) IN
  /\ row' = r
  /\ \/ /\ req'  = [req EXCEPT ![a] = q]
        /\ past' = [past EXCEPT !.ends = @ + ends, !.overdue = seen]
     \/ /\ past.faults < MaxFaults
        /\ req'  = [req EXCEPT ![a] = Ended(a, "InternalError", 0, Null)]
        /\ past' = [past EXCEPT !.faults = @ + 1, !.ends = @ + ends,
                                !.cut = @ + ends, !.overdue = seen]

At(a, pc) == req[a].pc = pc

-----------------------------------------------------------------------------
(* The statements.                                                         *)

\* A handler starts: receivedAt is stamped when the input has been parsed.
Receive(a) ==
  /\ At(a, "idle") /\ a \in Requests
  /\ \E op \in Ops, by \in Dids :
       /\ MayStart(op)
       /\ \E ply \in IF op = "submitMove" THEN 0..MaxPly ELSE {0},
             payload \in IF op = "submitMove" THEN Payloads ELSE {Null} :
            req' = [req EXCEPT ![a] = [Quiet EXCEPT
                      !.pc = "read", !.op = op, !.by = by, !.ply = ply,
                      !.payload = payload, !.at = now]]
  /\ UNCHANGED <<row, moves, now, bus, record, past>>

\* Mutant: the clock runs only once a move has been made.
SweepDueAfterFirstMove ==
  row.status = "active" /\ row.ply > 0 /\ Expired(row, now)

\* The WHERE of GamesRepo.ListExpired: active and past the deadline.
SweepDue == row.status = "active" /\ Expired(row, now)

\* SweepOnce lists the game.
ListExpired ==
  /\ At(Sweeper, "idle")
  /\ MayStart("sweep")
  /\ SweepDue
  /\ req' = [req EXCEPT ![Sweeper] = [Quiet EXCEPT
               !.pc = "load", !.op = "sweep", !.at = now, !.row = row]]
  /\ UNCHANGED <<row, moves, now, bus, record, past>>

\* Mutant: a finished game is served like an active one.
ServedAlways == TRUE

\* The status check of SubmitMove and loadActivePlayer.
Served == row.status = "active"

\* Games.Get, and the refusals that need nothing but the row.
ReadRow(a) ==
  /\ At(a, "read")
  /\ \/ ~Served /\ Fails(a, "GameNotActive")
     \/ /\ Served /\ req[a].op = "submitMove" /\ req[a].ply < 1
        /\ Fails(a, "PlyMismatch")
     \/ /\ Served /\ req[a].op # "submitMove" /\ req[a].by \notin Players
        /\ Fails(a, "Forbidden")
     \/ /\ Served
        /\ IF req[a].op = "submitMove" THEN req[a].ply >= 1
                                       ELSE req[a].by \in Players
        /\ req' = [req EXCEPT ![a].pc = "load", ![a].row = row]
        /\ UNCHANGED <<row, moves, now, bus, record, past>>

\* Mutant: a retry falls through to the post-commit half of SubmitMove.
ReplayAndPublish(a) == req[a].ply <= Len(moves) /\ GoesTo(a, "publish")

\* A retried ply replays the stored acceptance; another payload mismatches.
Replay(a) ==
  /\ req[a].ply <= Len(moves)
  /\ LET mv == moves[req[a].ply] IN
     IF mv.payload = req[a].payload
     THEN /\ req' = [req EXCEPT ![a] = Ended(a, "accepted", req[a].ply, mv)]
          /\ UNCHANGED <<row, moves, now, bus, record, past>>
     ELSE Fails(a, "PlyMismatch")

\* Mutant: any later ply will do.
NextPlyOrLater(a) == req[a].ply >= req[a].row.ply + 1

\* The ply check, against the row as it was read.
IsNextPly(a) == req[a].ply = req[a].row.ply + 1

\* The checks of a ply that is not in the log, in the order of the code:
\* turn, ply, clock, engine.
Decide(a) ==
  LET r == req[a].row IN
  /\ req[a].ply > Len(moves)
  /\ \/ r.turn # req[a].by /\ Fails(a, "NotYourTurn")
     \/ r.turn = req[a].by /\ ~IsNextPly(a) /\ Fails(a, "PlyMismatch")
     \/ /\ r.turn = req[a].by /\ IsNextPly(a)
        /\ \/ Expired(r, req[a].at) /\ GoesToFinish(a, TimeoutResult(r))
           \/ /\ ~Expired(r, req[a].at) /\ ~Legal(req[a].payload)
              /\ Fails(a, "IllegalMove")
           \/ /\ ~Expired(r, req[a].at) /\ Legal(req[a].payload)
              /\ GoesTo(a, "commit")

\* loadGame: the moves as they are now, beside the row as it was read.
LoadSubmit(a) ==
  /\ At(a, "load") /\ req[a].op = "submitMove"
  /\ \/ req[a].by \notin Players /\ Fails(a, "NotYourTurn")
     \/ req[a].by \in Players /\ (Replay(a) \/ Decide(a))

LoadOther(a) ==
  LET r == req[a].row
      p == req[a].by IN
  /\ At(a, "load")
  /\ \/ req[a].op = "sweep"  /\ GoesToFinish(a, TimeoutResult(r))
     \/ req[a].op = "resign" /\ GoesToFinish(a, WinFor(Opponent(p), "resignation"))
     \/ /\ req[a].op = "acceptDraw"
        /\ IF r.offer \in {Null, p} THEN Fails(a, "InvalidRequest")
           ELSE GoesToFinish(a, [reason |-> "agreement", winner |-> Null])
     \/ req[a].op = "offerDraw" /\ GoesTo(a, "update")
     \/ /\ req[a].op = "declineDraw"
        /\ IF r.offer = Null THEN Fails(a, "InvalidRequest") ELSE GoesTo(a, "update")

\* Mutant: the next clock starts when the move is stored, not when it was received.
AfterMoveAnchorNow(a) ==
  LET mate == req[a].payload \in Mating IN
  [req[a].row EXCEPT !.ply = req[a].ply, !.turn = Opponent(req[a].by), !.anchor = now,
                     !.status = IF mate THEN "finished" ELSE @,
                     !.result = IF mate THEN WinFor(req[a].by, "checkmate") ELSE @]

\* The games row SubmitMove writes: the row it READ, with the move applied.
AfterMove(a) ==
  LET r    == req[a].row
      mate == req[a].payload \in Mating IN
  [r EXCEPT !.ply    = req[a].ply,
            !.turn   = Opponent(req[a].by),
            !.anchor = req[a].at,
            !.offer  = IF @ = req[a].by THEN Null ELSE @,
            !.status = IF mate THEN "finished" ELSE @,
            !.result = IF mate THEN WinFor(req[a].by, "checkmate") ELSE @]

\* Mutant: INSERT ... ON CONFLICT DO UPDATE.
PlyTakenNever(ply) == FALSE

\* The primary key (game_uri, ply) of the moves table.
PlyTaken(ply) == ply \in DOMAIN moves

\* INSERT of the move and UPDATE of the row in one transaction.  When the
\* ply is taken the call starts over with the receivedAt it has.
CommitMove(a) ==
  /\ At(a, "commit")
  /\ IF PlyTaken(req[a].ply)
     THEN /\ req' = [req EXCEPT ![a].pc = "read", ![a].row = Null]
          /\ UNCHANGED <<row, moves, past>>
     ELSE /\ moves' = [i \in DOMAIN moves \cup {req[a].ply} |->
                         IF i = req[a].ply
                         THEN [player |-> req[a].by, payload |-> req[a].payload,
                               at |-> req[a].at]
                         ELSE moves[i]]
          /\ Writes(a, AfterMove(a),
                    [req[a] EXCEPT !.pc = "publish", !.res = AfterMove(a).result,
                                   !.seen = req[a].ply],
                    IF req[a].payload \in Mating THEN 1 ELSE 0)
  /\ UNCHANGED <<now, bus, record>>

\* The row OfferDraw and DeclineDraw write: the row READ, with the offer.
AfterOffer(a) ==
  [req[a].row EXCEPT !.offer = IF req[a].op = "offerDraw" THEN req[a].by ELSE Null]

\* An offer goes on to its event, a refusal is done.
AfterUpdate(a) ==
  IF req[a].op = "offerDraw" THEN [req[a] EXCEPT !.pc = "publish"]
                             ELSE Ended(a, "ok", 0, Null)

\* Games.Update of OfferDraw and DeclineDraw.
UpdateOffer(a) ==
  /\ At(a, "update")
  /\ Writes(a, AfterOffer(a), AfterUpdate(a), 0)
  /\ UNCHANGED <<moves, now, bus, record>>

\* Mutant: the UPDATE of finishTimeout without its WHERE.
MayFinishAlways == TRUE

\* ... WHERE uri = $1 AND status = 'active'.
MayFinish == row.status = "active"

FinishedRow(a) == [row EXCEPT !.status = "finished", !.result = req[a].res]

\* finishTimeout: the conditional UPDATE decides who ends the game.  With its
\* answer lost afterFinish does not run, and nobody takes its place.
FinishTimeout(a) ==
  /\ At(a, "finish")
  /\ IF MayFinish
     THEN /\ Writes(a, FinishedRow(a), [req[a] EXCEPT !.pc = "record"], 1)
          /\ UNCHANGED <<moves, now, bus, record>>
     ELSE Fails(a, "GameNotActive")

\* What the client is told once every statement of its call is done.
Accepted(a) == Ended(a, "accepted", req[a].ply, moves[req[a].ply])

\* Mutant: a move that ends the game returns like any other.
AfterMoveEventNoFinish(a) == Accepted(a)

\* afterFinish follows the event of a move that ends the game.
AfterMoveEvent(a) ==
  IF req[a].payload \in Mating THEN [req[a] EXCEPT !.pc = "record"] ELSE Accepted(a)

\* The event of a committed move or of a draw offer.
Publish(a) ==
  /\ At(a, "publish")
  /\ \/ /\ req[a].op = "submitMove"
        /\ bus' = Append(bus, [kind |-> "move", ply |-> req[a].ply])
        /\ req' = [req EXCEPT ![a] = AfterMoveEvent(a)]
     \/ /\ req[a].op = "offerDraw"
        /\ bus' = Append(bus, [kind |-> "drawOffered", ply |-> req[a].row.ply])
        /\ req' = [req EXCEPT ![a] = Ended(a, "ok", 0, Null)]
  /\ UNCHANGED <<row, moves, now, record, past>>

\* afterFinish, first half: the game record on the PDS.  A failed write is
\* logged and nothing else.
UpdateGameRecord(a) ==
  /\ At(a, "record")
  /\ record' \in {record, [result |-> req[a].res, plies |-> req[a].seen]}
  /\ req' = [req EXCEPT ![a].pc = "announce"]
  /\ UNCHANGED <<row, moves, now, bus, past>>

\* afterFinish, second half: finish hook and #gameFinished, then the answer.
Announce(a) ==
  /\ At(a, "announce")
  /\ bus' = Append(bus, [kind |-> "gameFinished", ply |-> req[a].seen])
  /\ req' = [req EXCEPT ![a] =
               IF req[a].op # "submitMove" THEN Ended(a, "ok", 0, Null)
               ELSE IF req[a].res.reason = "checkmate" THEN Accepted(a)
               ELSE Ended(a, "ClockExpired", 0, Null)]
  /\ UNCHANGED <<row, moves, now, record, past>>

\* A database statement fails or the caller goes away before its write.
Abandon(a) ==
  /\ req[a].pc \in {"read", "load", "commit", "finish", "update"}
  /\ Fails(a, "InternalError")

\* The indexer sees the game record on the firehose: SetCIDIfUnset.
SetCIDIfUnset ==
  /\ ~row.cid
  /\ row' = [row EXCEPT !.cid = TRUE]
  /\ UNCHANGED <<moves, now, req, bus, record, past>>

\* The process dies; the database stays, calls in progress are lost, and with
\* them the announcements they owe.
Crash ==
  /\ past.faults < MaxFaults
  /\ Busy # {}
  /\ past' = [past EXCEPT !.faults = @ + 1,
                !.cut = @ + Cardinality({a \in Actors : Telling(req[a])})]
  /\ req' = [a \in Actors |-> IF a \in Busy THEN Ended(a, "lost", 0, Null)
                                           ELSE req[a]]
  /\ UNCHANGED <<row, moves, now, bus, record>>

Tick ==
  /\ now < MaxNow
  /\ now' = now + 1
  /\ past' = [past EXCEPT !.overdue = @ \cup OverduePly(row, now + 1)]
  /\ UNCHANGED <<row, moves, req, bus, record>>

-----------------------------------------------------------------------------

Init ==
  /\ row = NewRow
  /\ moves = <<>>
  /\ now = 0
  /\ req = [a \in Actors |-> Quiet]
  /\ bus = <<>>
  /\ record = Null
  /\ past = [faults |-> 0, ends |-> 0, cut |-> 0, overdue |-> {}]

\* The statements a started call still has to execute.
Step(a) ==
  \/ ReadRow(a)    \/ LoadSubmit(a)  \/ LoadOther(a)  \/ CommitMove(a)
  \/ UpdateOffer(a) \/ FinishTimeout(a) \/ Publish(a)
  \/ UpdateGameRecord(a) \/ Announce(a)

Next ==
  \/ \E a \in Actors : Receive(a) \/ Step(a) \/ Abandon(a)
  \/ ListExpired
  \/ SetCIDIfUnset
  \/ Crash
  \/ Tick

Spec == Init /\ [][Next]_vars

\* Goroutines that started run on, the sweeper's ticker keeps firing and
\* the clock advances.  A statement of the sweeper may fail, but not every
\* time: the next tick tries again.  Clients, the indexer and crashes owe
\* nothing.
Fairness ==
  /\ \A a \in Actors : WF_vars(Step(a))
  /\ WF_vars(ListExpired)
  /\ SF_vars(LoadOther(Sweeper))
  /\ SF_vars(FinishTimeout(Sweeper))
  /\ WF_vars(Tick)

FairSpec == Spec /\ Fairness

-----------------------------------------------------------------------------
(* What holds whatever the requests do to each other.                      *)

Codes == {"none", "accepted", "ok", "GameNotActive", "PlyMismatch", "NotYourTurn",
          "Forbidden", "InvalidRequest", "IllegalMove", "ClockExpired",
          "InternalError", "lost"}

Request == [pc: InFlight \cup {"idle", "done"}, op: AllOps \cup {"sweep", "none"},
            by: Dids \cup {Null}, ply: 0..MaxPly, payload: Payloads \cup {Null},
            at: 0..MaxNow, row: Row \cup {Null}, seen: Nat, res: Result \cup {Null},
            out: [code: Codes, ply: Nat, move: Move \cup {Null}]]

Event == [kind: {"move", "drawOffered", "gameFinished"}, ply: Nat]

\* Every variable has its type.  The moves table in particular is a sequence:
\* its plies are 1, 2, ... without a gap, which only the primary key and the
\* ply check of SubmitMove together bring about.  (TLC cannot ask whether a
\* function with a gap is a sequence, hence the conjunct before.)
TypeOK ==
  /\ row \in Row
  /\ \A ply \in DOMAIN moves : 1..ply \subseteq DOMAIN moves
  /\ moves \in Seq(Move)
  /\ now \in 0..MaxNow
  /\ req \in [Actors -> Request]
  /\ bus \in Seq(Event)
  /\ record \in {Null} \cup [result: Result, plies: Nat]
  /\ past \in Past

PlayerAt(ply) == IF ply % 2 = 1 THEN White ELSE Black

\* Ply, player on move and clock anchor of a row, written or only read.
RowFitsLog(r) ==
  /\ r.ply <= Len(moves)
  /\ r.turn = PlayerAt(r.ply + 1)
  /\ r.anchor = IF r.ply = 0 THEN StartedAt ELSE moves[r.ply].at

\* SubmitMove and OfferDraw write rows they read long ago.  Ply, turn and
\* clock anchor of such a row may lie behind the moves table, but they always
\* belong together: they are what some accepted move (or the start) left.
RowsFitLog ==
  /\ RowFitsLog(row)
  /\ \A a \in Actors : req[a].row # Null => RowFitsLog(req[a].row)

\* No move is ever accepted after one that decided the game, nor put under one
\* already accepted, though the row may say the game goes on: legality is judged
\* on the replayed moves and the primary key closes the plies behind them.
NothingAfterMate ==
  \A i \in 1..Len(moves) - 1 : moves[i].payload \notin Mating

\* A ply is announced to the spectators at most once, and only a ply whose
\* acceptance is committed: a retry replays the answer, not the event.
MovesAnnouncedOnce ==
  /\ \A i \in DOMAIN bus : bus[i].kind = "move" => bus[i].ply \in 1..Len(moves)
  /\ \A i, j \in DOMAIN bus :
       bus[i].kind = "move" /\ bus[j].kind = "move" /\ bus[i].ply = bus[j].ply
         => i = j

\* The acceptances the clients hold.
Acks == {<<req[a].out.ply, req[a].out.move>> :
           a \in {b \in Requests : req[b].out.code = "accepted"}}

\* The log the players are promised (module GameLog): alternating, in time,
\* append-only, and every acceptance told is an entry of it for good.
Log == INSTANCE GameLog WITH log <- moves, acks <- Acks, Times <- 0..MaxNow
ImplementsGameLog == Log!Spec

\* Whoever loses on time had the games row against him at the time: it stood
\* at a ply with him on move when the clock it showed had run out.  The sweeper
\* decides from a row it listed before, SubmitMove by the moment it was called,
\* and a move of his may be in the log by then (TimeoutBlamesOnMove); what
\* never happens is that a player loses whose clock was not seen to expire.
TimeoutWasDue ==
  row.result # Null /\ row.result.reason = "timeout" =>
    \E ply \in past.overdue : row.result.winner = Opponent(PlayerAt(ply + 1))

\* No game stays on the board for ever: with nobody moving the sweeper ends
\* it, even when a stale write has brought it back to life or left it in a
\* state in which no move is accepted any more.
EventuallyFinished == <>[](row.status = "finished")

\* Every statement that ends the game leads to one announcement: it is out, or
\* its call has still to make it, or a restart or a lost answer cut it off.
\* Nothing else loses an end, and no end is announced twice, not even where a
\* stale write revives a game and it ends again.
EveryEndIsTold ==
  past.ends = Cardinality({i \in DOMAIN bus : bus[i].kind = "gameFinished"})
            + Cardinality({a \in Actors : Telling(req[a])}) + past.cut

\* A statement of a is the step that is taken.
Acts(a) == req'[a] # req[a]

\* What is committed is undone by whole-row writes alone.  Only a draw offer
\* or refusal that read the row before a move sets it back behind the log, a
\* move never does; and only a call that read the row while it was active
\* takes the end of a game back.  Finishers lose cleanly to each other.
UndoneByStaleWrite ==
  /\ row.ply = Len(moves) /\ row'.ply # Len(moves') =>
       \E a \in Actors : /\ Acts(a) /\ At(a, "update")
                         /\ req[a].row.ply < row.ply
  /\ row.status = "finished" /\ <<row'.status, row'.result>> # <<row.status, row.result>> =>
       \E a \in Actors : /\ Acts(a) /\ req[a].pc \in {"commit", "update"}
                         /\ req[a].row.status = "active"
OnlyStaleWritesUndo == [][UndoneByStaleWrite]_vars

-----------------------------------------------------------------------------
(* What holds while requests do not overlap; the violation runs show which *)
(* overlap breaks it.                                                      *)

\* A finished game is final: no later statement revives it or changes its
\* result (manager.go:786 "so concurrent finishers lose cleanly").
FinishedIsFinal ==
  [][row.status = "finished" =>
       row'.status = "finished" /\ row'.result = row.result]_row

\* The row is at the head of the log (manager.go:660 "the move row and the
\* new game state commit together").
RowIsAtHead == row.ply = Len(moves)

\* A timeout is lost by the player the log says is on move (manager.go:774
\* "the on-move player loses").
TimeoutBlamesOnMove ==
  row.result # Null /\ row.result.reason = "timeout" =>
    row.result.winner = Opponent(PlayerAt(Len(moves) + 1))

\* The #move events of a game are published in the order of its plies
\* (events.go:14 "ordering is guaranteed only within a (game, kind) pair").
MoveEventsInOrder ==
  \A i, j \in DOMAIN bus :
    bus[i].kind = "move" /\ bus[j].kind = "move" /\ i < j => bus[i].ply < bus[j].ply

\* The spectators are told the end once, and nothing of the game after it.
EndIsAnnouncedLast ==
  \A i \in DOMAIN bus : bus[i].kind = "gameFinished" => i = Len(bus)

\* The CID the indexer learned is never forgotten (repo.go:338 "backfills").
CIDIsKept == [][row.cid => row'.cid]_row

\* A game that ended is announced.
EndIsAnnouncedAtAll ==
  row.status = "finished" ~>
    \E i \in DOMAIN bus : bus[i].kind = "gameFinished"

\* A game that ended is announced, unless a restart or the lost answer of the
\* statement that ended it comes in between: nobody takes the end up again.
EndIsAnnounced ==
  row.status = "finished" ~>
    \/ \E i \in DOMAIN bus : bus[i].kind = "gameFinished"
    \/ past.cut > 0

=============================================================================
