------------------------------ MODULE GameRecord ------------------------------
(***************************************************************************)
(* The public record of a game from its creation to its end, in the        *)
(* service account's repo: CreateGame writes it before it inserts the      *)
(* row, afterFinish writes it again and publishes the keys of the sealed   *)
(* notes under its CID, and the row learns that CID only from the indexer, *)
(* when the record comes back over the stream (internal/games/manager.go,  *)
(* internal/indexer/ingest.go). Moves and draw offers write whole rows and *)
(* with them the CID as they read it; writes that revive a finished game   *)
(* are GameManager's subject. The PDS is external.                         *)
(***************************************************************************)
EXTENDS Integers, Sequences, FiniteSets

CONSTANTS
  Games,     \* the games, each with a record key of its own
  None,
  MaxFaults  \* BOUND: what may fail, restarts included

VARIABLES
  configured,  \* whether the service account is
  row,         \* the games table: status and cid of each game
  record,      \* external: the records in the service repo; a CID is named for its content
  reveal,      \* external: the games with a reveal record
  making,      \* the CreateGame call of each game
  writer,      \* a call that has read the row and will write it back: its copy of the cid
  ending,      \* the afterFinish of each game
  stream,      \* external: the commits of the service repo, in order
  read, cursor, \* how far the indexer has come, and the stored cursor
  faulty       \* what has failed, in order

vars == <<configured, row, record, reveal, making, writer, ending, stream, read, cursor,
          faulty>>

Absent == [status |-> None, cid |-> None]

At(pcs, g, pc) == pcs[g] = pc

Goes(pcs, g, pc) == [pcs EXCEPT ![g] = pc]

Fault(f) == Len(faulty) < MaxFaults /\ faulty' = Append(faulty, f)

\* putRecord: a record with other content is a commit, the same content is none.
Put(g, content) ==
  /\ record' = [record EXCEPT ![g] = content]
  /\ stream' = IF record[g] = content THEN stream
               ELSE Append(stream, [game |-> g, cid |-> content])

NoPut == UNCHANGED <<record, stream>>

-----------------------------------------------------------------------------
(* CreateGame.                                                             *)

CreateGame(g) ==
  /\ At(making, g, "idle") /\ making' = Goes(making, g, "record")
  /\ UNCHANGED <<configured, row, record, reveal, writer, ending, stream, read, cursor, faulty>>

\* A PDS error aborts the creation; an account that is not configured does not.
AfterPDSError == "failed"

\* WriteGameRecordAtRkey. The record may be there although the call failed.
WriteGameRecord(g) ==
  /\ At(making, g, "record")
  /\ \/ /\ making' = Goes(making, g, "row") /\ UNCHANGED faulty
        /\ IF configured THEN Put(g, "active") ELSE NoPut
     \/ /\ configured /\ Fault("record") /\ making' = Goes(making, g, AfterPDSError)
        /\ Put(g, "active") \/ NoPut
  /\ UNCHANGED <<configured, row, reveal, writer, ending, read, cursor>>

Insert(g) ==
  /\ At(making, g, "row")
  /\ \/ /\ row' = [row EXCEPT ![g] = [status |-> "active", cid |-> None]]
        /\ making' = Goes(making, g, "made") /\ UNCHANGED faulty
     \/ /\ Fault("row") /\ making' = Goes(making, g, "failed") /\ UNCHANGED row
  /\ UNCHANGED <<configured, record, reveal, writer, ending, stream, read, cursor>>

-----------------------------------------------------------------------------
(* The life of the row.                                                    *)

\* SubmitMove, OfferDraw, DeclineDraw: the row is read, and written as a whole.
Load(g) ==
  /\ row[g].status = "active" /\ writer[g] = "idle"
  /\ writer' = [writer EXCEPT ![g] = row[g].cid]
  /\ UNCHANGED <<configured, row, record, reveal, making, ending, stream, read, cursor, faulty>>

\* BOUND: no write that revives a finished game.
Update(g) ==
  /\ writer[g] # "idle" /\ row[g].status = "active"
  /\ row' = [row EXCEPT ![g].cid = writer[g]]
  /\ writer' = [writer EXCEPT ![g] = "idle"]
  /\ UNCHANGED <<configured, record, reveal, making, ending, stream, read, cursor, faulty>>

\* The conditional finish; a call that still holds the row loses.
Finish(g) ==
  /\ row[g].status = "active"
  /\ row' = [row EXCEPT ![g].status = "finished"]
  /\ ending' = Goes(ending, g, "record") /\ writer' = [writer EXCEPT ![g] = "idle"]
  /\ UNCHANGED <<configured, record, reveal, making, stream, read, cursor, faulty>>

-----------------------------------------------------------------------------
(* afterFinish.                                                            *)

\* UpdateGameRecord: an error is logged.
UpdateGameRecord(g) ==
  /\ At(ending, g, "record") /\ ending' = Goes(ending, g, "reveal")
  /\ \/ UNCHANGED faulty /\ IF configured THEN Put(g, "finished") ELSE NoPut
     \/ configured /\ Fault("update") /\ (Put(g, "finished") \/ NoPut)
  /\ UNCHANGED <<configured, row, reveal, making, writer, read, cursor>>

\* revealAll reads the row first. (Which notes and keys there are: Commentary.)
RevealAll(g) ==
  /\ At(ending, g, "reveal")
  /\ ending' = Goes(ending, g, IF row[g].cid = None THEN "done" ELSE "keys")
  /\ UNCHANGED <<configured, row, record, reveal, making, writer, stream, read, cursor, faulty>>

\* WriteRevealRecord: an error is logged.
WriteRevealRecord(g) ==
  /\ At(ending, g, "keys") /\ ending' = Goes(ending, g, "done")
  /\ \/ reveal' = reveal \cup {g} /\ UNCHANGED faulty
     \/ Fault("reveal") /\ UNCHANGED reveal
  /\ UNCHANGED <<configured, row, record, making, writer, stream, read, cursor>>

-----------------------------------------------------------------------------
(* The indexer.                                                            *)

\* Mutant: only the first commit of a record is looked at.
BackfillsCreate(ev) == row[ev.game] # Absent /\ row[ev.game].cid = None /\ ev.cid = "active"

\* SetCIDIfUnset: no row, or a row with a CID, is left alone. The kind of the event
\* (create, update) does not matter.
Backfills(ev) == row[ev.game] # Absent /\ row[ev.game].cid = None

\* HandleCtx: a statement that fails is logged, and the event is past.
Ingest ==
  /\ read < Len(stream) /\ read' = read + 1
  /\ LET ev == stream[read + 1]
     IN \/ /\ row' = IF Backfills(ev) THEN [row EXCEPT ![ev.game].cid = ev.cid] ELSE row
           /\ UNCHANGED faulty
        \/ Fault("ingest") /\ UNCHANGED row
  /\ UNCHANGED <<configured, record, reveal, making, writer, ending, stream, cursor>>

SaveCursor ==
  /\ cursor < read /\ cursor' = read
  /\ UNCHANGED <<configured, row, record, reveal, making, writer, ending, stream, read, faulty>>

\* Calls, and the afterFinish of a game, end with the process.
Restart ==
  /\ Fault("restart") /\ read' = cursor
  /\ making' = [g \in Games |-> IF At(making, g, "made") \/ At(making, g, "idle")
                                THEN making[g] ELSE "failed"]
  /\ writer' = [g \in Games |-> "idle"]
  /\ ending' = [g \in Games |-> IF At(ending, g, "idle") THEN "idle" ELSE "done"]
  /\ UNCHANGED <<configured, row, record, reveal, stream, cursor>>

-----------------------------------------------------------------------------

Init ==
  /\ configured \in BOOLEAN
  /\ row = [g \in Games |-> Absent] /\ record = [g \in Games |-> None] /\ reveal = {}
  /\ making = [g \in Games |-> "idle"] /\ writer = [g \in Games |-> "idle"]
  /\ ending = [g \in Games |-> "idle"]
  /\ stream = <<>> /\ read = 0 /\ cursor = 0 /\ faulty = <<>>

Step(g) ==
  \/ CreateGame(g) \/ WriteGameRecord(g) \/ Insert(g)
  \/ Load(g) \/ Update(g) \/ Finish(g)
  \/ UpdateGameRecord(g) \/ RevealAll(g) \/ WriteRevealRecord(g)

Next == Ingest \/ SaveCursor \/ Restart \/ \E g \in Games : Step(g)

Spec == Init /\ [][Next]_vars

\* The indexer reads on while the process lives.
FairSpec == Spec /\ WF_vars(Ingest)

-----------------------------------------------------------------------------

Pcs == {"idle", "record", "row", "made", "failed", "reveal", "keys", "done"}
Contents == {None, "active", "finished"}

TypeOK ==
  /\ configured \in BOOLEAN /\ reveal \subseteq Games
  /\ row \in [Games -> [status: Contents, cid: Contents]]
  /\ record \in [Games -> Contents]
  /\ making \in [Games -> Pcs] /\ ending \in [Games -> Pcs]
  /\ writer \in [Games -> Contents \cup {"idle"}]
  /\ read \in 0..Len(stream) /\ cursor \in 0..read

\* A game whose record says how it ended has the CID of its record in the end, although
\* the first commit may come before the row, a whole-row write may erase what it left and
\* restarts read the stream again - unless the statement failed (manager.go:470 the record
\* before the row, repo.go:342 SetCIDIfUnset).
CidArrives ==
  \A g \in Games :
    row[g].status = "finished" /\ record[g] = "finished"
    ~> row[g].cid # None \/ \E i \in DOMAIN faulty : faulty[i] = "ingest"

\* The keys of the notes are published when nothing failed (spec-v0.1.md:741 "All
\* escrowed keys are published at game end").
KeysArePublished ==
  \A g \in Games :
    configured /\ At(ending, g, "done") /\ faulty = <<>> => g \in reveal
=============================================================================
