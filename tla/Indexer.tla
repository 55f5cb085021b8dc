------------------------------- MODULE Indexer -------------------------------
(***************************************************************************)
(* The indexer on the move records of one game: the stream handler         *)
(* (internal/indexer/ingest.go), the missing-record sweep (missing.go) and *)
(* the flag emitter they share (flags.go). The stream delivers in order    *)
(* and, from the cursor it last stored, again after a restart              *)
(* (cursors.go). Moves of the game alternate between two players.          *)
(***************************************************************************)
EXTENDS Integers, Sequences, FiniteSets, SequencesExt

CONSTANTS
  Players,      \* the players in turn order, a sequence of two DIDs
  Strangers,    \* other DIDs that publish move records
  Null,
  MaxPly,       \* BOUND: plies of the game
  Window,       \* Tunables.MissingRecordWindow, in ticks
  Limit,        \* rows of a sweep, 200 in the code
  MaxNow,       \* BOUND: the last tick
  MaxRecords,   \* BOUND: records published
  MaxRestarts,  \* BOUND: restarts of the process
  MaxFailures   \* BOUND: statements and writes that fail or lose their answer

Dids == {Players[1], Players[2]} \cup Strangers

ASSUME IndexerAssumption ==
  /\ Len(Players) = 2 /\ Null \notin Dids
  /\ Window \in Nat /\ Limit \in Nat \ {0}
  /\ {MaxPly, MaxNow, MaxRecords, MaxRestarts, MaxFailures} \subseteq Nat

VARIABLES
  moves,    \* the moves table in ply order: [received, link]
  flags,    \* the flags table: the assertions that have a row
  records,  \* the flag records in the service repo, oldest first
  stream,   \* what agents published, in stream order
  cursor,   \* the position stored in the cursors table
  read,     \* how far the process has read the stream
  failed,   \* history: the positions the database failed on
  emit,     \* the EmitFlag call of each goroutine: the handler's, the sweep's
  sweep,    \* what the sweep has listed and not flagged yet
  now, restarts, failures

vars == <<moves, flags, records, stream, cursor, read, failed, emit, sweep, now,
          restarts, failures>>

Kinds == {"missingMoveRecord", "unverifiedMoveRecord"}
Flag == Dids \X Kinds
Goroutines == {"handler", "sweeper"}

NoLink == [by |-> Null, verified |-> FALSE]
Quiet == [pc |-> "idle", flag |-> <<>>]

PlayerAt(ply) == IF ply % 2 = 1 THEN Players[1] ELSE Players[2]
Plies == DOMAIN moves

-----------------------------------------------------------------------------
(* The world.                                                              *)

\* A move is accepted (GameManager): its token goes back to the player.
AcceptMove ==
  /\ Len(moves) < MaxPly
  /\ moves' = Append(moves, [received |-> now, link |-> NoLink])
  /\ UNCHANGED <<flags, records, stream, cursor, read, failed, emit, sweep, now, restarts, failures>>

\* Somebody publishes a move record for a ply, with the token of its acceptance or
\* another, in time or when the window of the ply has closed.
Publish ==
  /\ Len(stream) < MaxRecords
  /\ \E did \in Dids, ply \in Plies, own \in BOOLEAN :
       stream' = Append(stream, [by |-> did, ply |-> ply, own |-> own,
                                 late |-> now > moves[ply].received + Window])
  /\ UNCHANGED <<moves, flags, records, cursor, read, failed, emit, sweep, now, restarts, failures>>

-----------------------------------------------------------------------------
(* The stream handler.                                                     *)

\* verifyMove: the token of this very acceptance, in its player's repo.
Verified(r) == r.own /\ r.by = PlayerAt(r.ply)

\* LinkRepoRecord.
WithLink(r) == [moves EXCEPT ![r.ply].link = [by |-> r.by, verified |-> Verified(r)]]

Fail == failures < MaxFailures /\ failures' = failures + 1

\* ingestMove: the accepted move is looked up and linked whether or not the record is
\* good. Nothing it reads of the row changes after the INSERT. When the lookup or the
\* link fails, the link maybe after it took effect, the event is passed over.
IngestMove ==
  /\ emit["handler"].pc = "idle" /\ read < Len(stream)
  /\ LET r == stream[read + 1] IN
       \/ /\ moves' = WithLink(r)
          /\ emit' = IF Verified(r) THEN emit
                     ELSE [emit EXCEPT !["handler"] =
                             [pc |-> "insert", flag |-> <<r.by, "unverifiedMoveRecord">>]]
          /\ UNCHANGED <<failed, failures>>
       \/ /\ Fail /\ failed' = failed \cup {read + 1}
          /\ moves' \in {moves, WithLink(r)} /\ UNCHANGED emit
  /\ read' = read + 1
  /\ UNCHANGED <<flags, records, stream, cursor, sweep, now, restarts>>

\* The client library stores how far it has come, no farther than was handled.
SaveCursor ==
  /\ emit["handler"].pc = "idle" /\ cursor < read
  /\ cursor' = read
  /\ UNCHANGED <<moves, flags, records, stream, read, failed, emit, sweep, now, restarts, failures>>

-----------------------------------------------------------------------------
(* EmitFlag.                                                               *)

\* Mutant: every row is a new one.
AlwaysNew(f) == TRUE

\* ON CONFLICT DO NOTHING: whether this call creates the row.
IsNew(f) == f \notin flags

\* An error of EmitFlag: the handler goes on to the next event, a sweep ends.
GiveUp(g) ==
  /\ Fail /\ emit' = [emit EXCEPT ![g] = Quiet]
  /\ sweep' = IF g = "sweeper" THEN <<>> ELSE sweep
  /\ failed' = IF g = "handler" THEN failed \cup {read} ELSE failed

InsertOnce(g) ==
  /\ emit[g].pc = "insert"
  /\ \/ /\ flags' = flags \cup {emit[g].flag}
        /\ emit' = [emit EXCEPT ![g] =
                      IF IsNew(@.flag) THEN [@ EXCEPT !.pc = "write"] ELSE Quiet]
        /\ UNCHANGED <<sweep, failed, failures>>
     \/ GiveUp(g) /\ flags' \in {flags, flags \cup {emit[g].flag}}
  /\ UNCHANGED <<moves, records, stream, cursor, read, now, restarts>>

\* WriteFlagRecord. When it fails the row stays alone.
WriteRecord(g) ==
  /\ emit[g].pc = "write"
  /\ \/ /\ records' = Append(records, emit[g].flag) /\ emit' = [emit EXCEPT ![g] = Quiet]
        /\ UNCHANGED <<sweep, failed, failures>>
     \/ GiveUp(g) /\ records' \in {records, Append(records, emit[g].flag)}
  /\ UNCHANGED <<moves, flags, stream, cursor, read, now, restarts>>

-----------------------------------------------------------------------------
(* The sweep.                                                              *)

\* Mutant: only the moves of the window that has just closed.
MissingJustNow == {ply \in Plies : moves[ply].link = NoLink /\ moves[ply].received = now - Window}

\* ListMissingRecords: no record linked, received before the window.
Missing == {ply \in Plies : moves[ply].link = NoLink /\ moves[ply].received < now - Window}

\* Oldest first, bounded.
ListMissing ==
  /\ emit["sweeper"].pc = "idle" /\ sweep = <<>> /\ Missing # {}
  /\ LET oldest == SetToSortSeq(Missing, <) IN
     sweep' = SubSeq(oldest, 1, IF Len(oldest) <= Limit THEN Len(oldest) ELSE Limit)
  /\ UNCHANGED <<moves, flags, records, stream, cursor, read, failed, emit, now, restarts, failures>>

FlagMissing ==
  /\ emit["sweeper"].pc = "idle" /\ sweep # <<>>
  /\ emit' = [emit EXCEPT !["sweeper"] =
       [pc |-> "insert", flag |-> <<PlayerAt(Head(sweep)), "missingMoveRecord">>]]
  /\ sweep' = Tail(sweep)
  /\ UNCHANGED <<moves, flags, records, stream, cursor, read, failed, now, restarts, failures>>

Tick == /\ now < MaxNow /\ now' = now + 1
        /\ UNCHANGED <<moves, flags, records, stream, cursor, read, failed, emit, sweep,
                       restarts, failures>>

\* Mutant: a restart resumes where the stream is now.
ResumeAtHead == Len(stream)

\* Where the stream is resumed.
Resume == cursor

Restart ==
  /\ restarts < MaxRestarts /\ restarts' = restarts + 1
  /\ read' = Resume
  /\ emit' = [g \in Goroutines |-> Quiet] /\ sweep' = <<>>
  /\ UNCHANGED <<moves, flags, records, stream, cursor, failed, now, failures>>

Init ==
  /\ moves = <<>> /\ flags = {} /\ records = <<>> /\ stream = <<>>
  /\ cursor = 0 /\ read = 0 /\ failed = {}
  /\ emit = [g \in Goroutines |-> Quiet] /\ sweep = <<>>
  /\ now = 0 /\ restarts = 0 /\ failures = 0

Emit(g) == InsertOnce(g) \/ WriteRecord(g)

Handler == IngestMove \/ Emit("handler")
Sweeper == ListMissing \/ FlagMissing \/ Emit("sweeper")

Next == AcceptMove \/ Publish \/ Handler \/ SaveCursor \/ Sweeper \/ Tick \/ Restart

Spec == Init /\ [][Next]_vars

\* The handler and the sweep run on while the process lives; time passes.
FairSpec == Spec /\ WF_vars(Handler) /\ WF_vars(Sweeper) /\ WF_vars(Tick)

-----------------------------------------------------------------------------

TypeOK ==
  /\ Len(moves) <= MaxPly
  /\ \A ply \in Plies :
       /\ moves[ply].received \in 0..now
       /\ moves[ply].link \in [by: Dids \cup {Null}, verified: BOOLEAN]
  /\ flags \subseteq Flag /\ \A i \in DOMAIN records : records[i] \in Flag
  /\ cursor \in Nat /\ read \in 0..Len(stream) /\ failed \subseteq 1..Len(stream)
  /\ \A g \in Goroutines : emit[g].pc \in {"idle", "insert", "write"}
  /\ \A g \in Goroutines : emit[g].pc # "idle" => emit[g].flag \in Flag

\* An assertion is published once, however often its event is replayed and although
\* two goroutines raise flags (flags.go "exactly-once per (subject, kind, game)").
RecordedOnce == \A i, j \in DOMAIN records : records[i] = records[j] => i = j

Passed(i) == moves[stream[i].ply].link # NoLink

\* A published record is skipped only where the database failed on it: all others the
\* process has come past are linked, and the stored cursor never runs ahead of it, also
\* over restarts (ingest.go:257, 267; cursors.go "restarts neither skip events").
NoneIsSkipped ==
  /\ cursor <= read
  /\ \A i \in (1..read) \ failed : Passed(i)

\* No published record is skipped (cursors.go "restarts neither skip events").
EveryRecordIsRead == \A i \in 1..cursor : Passed(i)

\* The player of the move is accused, or his own record is there.
OwnRecordOrFlag(ply) ==
  \/ moves[ply].link.verified
  \/ <<PlayerAt(ply), "missingMoveRecord">> \in flags

\* A bad record took the ply off the list, and its author is accused of that, or the
\* database failed on it.
BadRecordAnswered(ply) ==
  /\ moves[ply].link # NoLink
  /\ \E i \in DOMAIN stream :
       /\ stream[i].ply = ply /\ ~Verified(stream[i])
       /\ <<stream[i].by, "unverifiedMoveRecord">> \in flags \/ i \in failed

\* A sweep gets as far as this ply: fewer older ones than it lists have no record.
InReach(ply) == Cardinality({p \in Plies : p < ply /\ moves[p].link = NoLink}) < Limit

Overdue(ply) == ply \in Plies /\ moves[ply].received + Window < MaxNow

\* A gap does not stay unanswered: when the record of a move in reach of the sweep has
\* not come, its player is flagged in the end, unless it comes, or a bad one comes in
\* its place, whose author is flagged then (ingest.go:265, missing.go:22-41).
GapIsAnswered ==
  \A ply \in 1..MaxPly :
    (Overdue(ply) /\ InReach(ply))
      ~> (ply \in Plies /\ (OwnRecordOrFlag(ply) \/ BadRecordAnswered(ply)))

\* A player whose record has not come is flagged in the end, unless it comes
\* (missing.go "for every accepted move whose repo record never arrived").
MissingIsFlagged ==
  \A ply \in 1..MaxPly : Overdue(ply) ~> (ply \in Plies /\ OwnRecordOrFlag(ply))

\* Every assertion is published in the end (flags.go:57 "the next sweep/ingest
\* backfills the record").
FlagIsPublished ==
  \A f \in Flag : f \in flags ~> \E i \in DOMAIN records : records[i] = f

\* Who publishes his record in time is not flagged (spec 10 "never appeared in the
\* agent's repo within 10 minutes").
PublishedInTimeIsNotFlagged ==
  \A did \in Dids : <<did, "missingMoveRecord">> \in flags =>
    \E ply \in Plies :
      /\ PlayerAt(ply) = did
      /\ ~\E i \in DOMAIN stream :
            stream[i].ply = ply /\ Verified(stream[i]) /\ ~stream[i].late

=============================================================================
