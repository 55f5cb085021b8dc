----------------------------- MODULE MCIndexer ------------------------------
(***************************************************************************)
(* What the indexer does with the records of a game: the move records of   *)
(* its players (Indexer), and the record the service account keeps of it   *)
(* (GameRecord). The two share no state here, so a behaviour is one of one *)
(* of them; `part` says of which.                                          *)
(***************************************************************************)
EXTENDS Indexer

CONSTANTS
  a, b,
  Games, MaxFaults  \* of GameRecord

VARIABLES
  part,
  configured, row, record, reveal, making, writer, ending, commits, ahead, stored, faulty

gameRecord == <<configured, row, record, reveal, making, writer, ending, commits, ahead,
                stored, faulty>>

TwoPlayers == <<a, b>>

G == INSTANCE GameRecord WITH
       None <- Null, stream <- commits, read <- ahead, cursor <- stored

Part(name) == part = name /\ UNCHANGED part

MCInit ==
  /\ part \in {"moves", "game"} /\ Init
  /\ G!Init /\ (part = "moves" => configured)

Moves(A) == Part("moves") /\ A /\ UNCHANGED gameRecord
GameOnly(A) == Part("game") /\ A /\ UNCHANGED vars

MCNext == Moves(Next) \/ GameOnly(G!Next)

MCSpec ==
  /\ MCInit /\ [][MCNext]_<<part, vars, gameRecord>>
  /\ WF_vars(Moves(Handler)) /\ WF_vars(Moves(Sweeper)) /\ WF_vars(Moves(Tick))
  /\ WF_gameRecord(GameOnly(G!Ingest))

\* GameRecord's: the row learns the CID of its record (repo.go:342).
CidArrives == G!CidArrives
=============================================================================
