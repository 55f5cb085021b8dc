----------------------------- MODULE Commentary -----------------------------
(***************************************************************************)
(* The notes of one game: how the indexer files them                       *)
(* (internal/indexer/commentary.go) and how they are revealed              *)
(* (internal/games/manager.go, "Reveal scheduler").                        *)
(*                                                                         *)
(* Three kinds of passes reveal notes, all at the same time: one for each  *)
(* accepted move, one started by a ticker, one at the end of the game.  A  *)
(* pass lists rows and then works through its list, while the indexer adds *)
(* rows and other passes reveal the same ones.                             *)
(***************************************************************************)
EXTENDS Integers, FiniteSets

CONSTANTS
  Notes,       \* the commentary records agents write, by URI
  Forms,       \* the forms of note clients write, a subset of AllForms
  Null,        \* SQL NULL
  Plies, Seconds,   \* commentaryDelay of the game
  Limit,       \* LIMIT of the two queries of the scheduler, 200 in the code
  MaxPly,      \* BOUND: moves of the game
  MaxNow,      \* BOUND: the last tick of the clock
  MaxFaults    \* BOUND: statements that fail and restarts of the process

AllForms == [visibility: {"public", "delayed", "sealed"},
             key: {"good", "garbled", "unwrapFails", "absent"}]

ASSUME FormsAssumption == Forms \subseteq AllForms
ASSUME DelayAssumption == Plies \in Nat /\ Seconds \in Nat /\ Limit \in Nat \ {0}
ASSUME CommentaryBoundsAssumption ==
  /\ MaxPly \in Nat /\ MaxNow \in Nat /\ MaxFaults \in Nat

VARIABLES
  table,       \* the commentary table, Null where a note has no row
  ingest,      \* what the indexer is doing, and with which note
  game,        \* ply and status of the game
  now,         \* the clock of the process
  pass,        \* what each reveal pass is doing
  events,      \* how often each note has been announced, by kind
  published,   \* the notes whose keys the reveal record carries
  present,     \* HISTORY: the notes that had a row when the game ended
  faults       \* statements that failed and restarts so far

vars == <<table, ingest, game, now, pass, events, published, present,
          faults>>

\* Passes: the ticker's, one for each ply, and the one of the game's end.
Timer  == 0
End    == MaxPly + 1
Passes == Timer..End

\* A statement fails, or the process dies.
FaultHappens == faults < MaxFaults /\ faults' = faults + 1

-----------------------------------------------------------------------------
(* Rows.                                                                   *)

\* ValidateCommentaryFields, as far as it depends on the form.
Valid(form) ==
  /\ form.visibility = "public"  => form.key = "absent"
  /\ form.visibility = "delayed" => form.key # "absent"

\* escrow_status as ingestCommentary sets it.
StatusOf(form) ==
  IF ~Valid(form) THEN "invalid"
  ELSE IF form.key = "unwrapFails" THEN "escrowFailed"
  ELSE IF form.key = "absent" /\ form.visibility = "sealed" THEN "none"
  ELSE "ok"

\* Mutant: every escrowed row is scheduled.
ScheduledEscrowed(form) == form.visibility # "public" /\ StatusOf(form) = "ok"

\* revealBounds: only valid delayed rows are scheduled.
Scheduled(form) == form.visibility = "delayed" /\ StatusOf(form) = "ok"

\* content_key: what the escrow key unwrapped to.
StoredKey(form) ==
  IF StatusOf(form) = "ok" /\ form.key # "absent" THEN form.key ELSE Null

\* The row of a note that was received at a certain moment.
RowOf(form, ply, at) ==
  [visibility |-> form.visibility,
   contentKey |-> StoredKey(form),
   status     |-> StatusOf(form),
   atPly      |-> IF Scheduled(form) THEN ply + Plies ELSE Null,
   atTime     |-> IF Scheduled(form) THEN at + Seconds ELSE Null,
   revealed   |-> Valid(form) /\ form.visibility = "public"]

Stored  == {n \in Notes : table[n] # Null}
HasKey(n) == table[n].contentKey # Null

\* The notes a pass can still bring to light.
Readable(n) == n \in Stored /\ table[n].contentKey = "good"

Revealed(n) == n \in Stored /\ table[n].revealed

-----------------------------------------------------------------------------
(* The queries.                                                            *)

\* ListDue: the ticker's query.
DueByTime ==
  {n \in Stored : /\ ~table[n].revealed /\ HasKey(n) /\ table[n].status = "ok"
                  /\ table[n].atTime # Null /\ table[n].atTime <= now}

\* ListRevealableByGame: the query of the pass of ply p.
DueByPly(p) ==
  {n \in Stored : /\ ~table[n].revealed /\ HasKey(n) /\ table[n].status = "ok"
                  /\ table[n].visibility = "delayed"
                  /\ table[n].atPly <= p \/ table[n].atTime <= now}

\* Mutant: the end of the game only speeds up what is scheduled.
HiddenAtEndScheduled ==
  {n \in Stored : ~table[n].revealed /\ HasKey(n) /\ table[n].atTime # Null}

\* ListEscrowedByGame: the query of the game's end, without a LIMIT.
HiddenAtEnd == {n \in Stored : ~table[n].revealed /\ HasKey(n)}

\* ORDER BY ... LIMIT: the earliest rows, at most Limit of them; `at' gives the
\* column each row is ordered by.
Earliest(at) ==
  LET rows == DOMAIN at
  IN {S \in SUBSET rows :
        /\ Cardinality(S) = (IF Cardinality(rows) > Limit THEN Limit
                                                          ELSE Cardinality(rows))
        /\ \A m \in S, n \in rows \ S : at[m] <= at[n]}

Lists(p) ==
  CASE p = Timer -> Earliest([n \in DueByTime |-> table[n].atTime])
    [] p = End   -> {HiddenAtEnd}
    [] OTHER     -> Earliest([n \in DueByPly(p) |-> table[n].atPly])

-----------------------------------------------------------------------------
(* The indexer.                                                            *)

IngestIdle == [pc |-> "idle", note |-> Null, row |-> Null]

\* A record event arrives: receivedAt is stamped, the row is put together.
Receive(n, form, ply) ==
  /\ ingest.pc = "idle" /\ table[n] = Null
  /\ now + Seconds <= MaxNow   \* BOUND: early enough to become due
  /\ ingest' = [pc |-> "insert", note |-> n, row |-> RowOf(form, ply, now)]
  /\ UNCHANGED <<table, game, now, pass, events, published, present, faults>>

\* INSERT.  If it fails the note is gone: the stream goes on to the next.
Insert ==
  /\ ingest.pc = "insert"
  /\ \/ /\ table' = [table EXCEPT ![ingest.note] = ingest.row]
        /\ ingest' = IF ingest.row.status = "invalid" THEN IngestIdle
                     ELSE [ingest EXCEPT !.pc = "post"]
        /\ UNCHANGED faults
     \/ /\ FaultHappens
        /\ ingest' = IngestIdle
        /\ UNCHANGED table
  /\ UNCHANGED <<game, now, pass, events, published, present>>

\* #commentaryPosted.
Post ==
  /\ ingest.pc = "post"
  /\ events' = [events EXCEPT ![ingest.note].posted = @ + 1]
  /\ ingest' = IngestIdle
  /\ UNCHANGED <<table, game, now, pass, published, present, faults>>

-----------------------------------------------------------------------------
(* The game, as far as the passes see it.                                  *)

NoPass == [pc |-> "idle", due |-> {}, note |-> Null]

Started(p) == [pass EXCEPT ![p].pc = "list"]

\* An accepted move that does not end the game: RevealPlyPass.
MoveAccepted ==
  /\ ~game.finished /\ game.ply < MaxPly
  /\ game' = [game EXCEPT !.ply = @ + 1]
  /\ pass' = Started(game.ply + 1)
  /\ UNCHANGED <<table, ingest, now, events, published, present, faults>>

\* The game ends, by a move or otherwise: afterFinish calls revealAll.
GameEnds ==
  /\ ~game.finished
  /\ \E last \in {game.ply, game.ply + 1} \cap 0..MaxPly :
       game' = [ply |-> last, finished |-> TRUE]
  /\ present' = Stored
  /\ pass' = Started(End)
  /\ UNCHANGED <<table, ingest, now, events, published, faults>>

-----------------------------------------------------------------------------
(* The passes.                                                             *)

\* The ticker fires.  It waits for its pass, so there is one at a time.
TimerFires ==
  /\ pass[Timer].pc = "idle"
  /\ DueByTime # {}
  /\ pass' = Started(Timer)
  /\ UNCHANGED <<table, ingest, game, now, events, published, present, faults>>

\* Where a pass goes when it has worked through its list.
Finished(p) ==
  CASE p = Timer -> NoPass
    [] p = End   -> [NoPass EXCEPT !.pc = "keys"]
    [] OTHER     -> [NoPass EXCEPT !.pc = "done"]

Left(p, due) == IF due = {} THEN Finished(p)
                ELSE [pc |-> "reveal", due |-> due, note |-> Null]

\* revealAll gives up when it cannot read the game, but not for its list.
Broken(p) == IF p = End THEN [NoPass EXCEPT !.pc = "done"] ELSE Finished(p)

\* A pass lists its rows.
List(p) ==
  /\ pass[p].pc = "list"
  /\ \/ /\ \E due \in Lists(p) : pass' = [pass EXCEPT ![p] = Left(p, due)]
        /\ UNCHANGED faults
     \/ /\ FaultHappens
        /\ pass' \in {[pass EXCEPT ![p] = Finished(p)], [pass EXCEPT ![p] = Broken(p)]}
  /\ UNCHANGED <<table, ingest, game, now, events, published, present>>

\* Mutant: a note that does not decrypt is only logged.
FailRevealLogs(n) == table

\* failReveal: the row is not listed by the scheduler again.
FailReveal(n) == [table EXCEPT ![n].status = "decryptFailed"]

\* Mutant: UPDATE without its WHERE.
MayRevealAlways(n) == TRUE

\* RevealWithText: ... WHERE uri = $1 AND revealed_at IS NULL.
MayReveal(n) == ~table[n].revealed

\* revealOne: decrypt, persist the text, and only then announce it.  A
\* statement that fails is logged, and the pass goes on with the next row.
Reveal(p, n) ==
  LET rest == Left(p, pass[p].due \ {n}) IN
  /\ pass[p].pc = "reveal" /\ n \in pass[p].due
  /\ \/ /\ table[n].contentKey = "garbled"
        /\ table' = FailReveal(n)
        /\ pass' = [pass EXCEPT ![p] = rest]
        /\ UNCHANGED faults
     \/ /\ table[n].contentKey = "good" /\ MayReveal(n)
        /\ table' = [table EXCEPT ![n].revealed = TRUE]
        /\ pass' = [pass EXCEPT ![p].pc = "publish", ![p].note = n]
        /\ UNCHANGED faults
     \/ /\ table[n].contentKey = "good" /\ ~MayReveal(n)
        /\ pass' = [pass EXCEPT ![p] = rest]
        /\ UNCHANGED <<table, faults>>
     \/ /\ FaultHappens
        /\ pass' = [pass EXCEPT ![p] = rest]
        /\ UNCHANGED table
  /\ UNCHANGED <<ingest, game, now, events, published, present>>

\* #commentaryRevealed.
Publish(p) ==
  /\ pass[p].pc = "publish"
  /\ events' = [events EXCEPT ![pass[p].note].revealed = @ + 1]
  /\ pass' = [pass EXCEPT ![p] = Left(p, pass[p].due \ {pass[p].note})]
  /\ UNCHANGED <<table, ingest, game, now, published, present, faults>>

\* The content keys the server holds, by the notes they belong to.
KeysHeld == {n \in Stored : HasKey(n)}

\* The reveal record, written unless there is no key or the CID of the game
\* is unknown; the PDS may refuse it.
WriteRevealRecord ==
  /\ pass[End].pc = "keys"
  /\ published' \in {published, KeysHeld}
  /\ pass' = [pass EXCEPT ![End].pc = "done"]
  /\ UNCHANGED <<table, ingest, game, now, events, present, faults>>

-----------------------------------------------------------------------------

\* The process dies.  What was under way is lost; a record event that comes
\* again finds its row and is dropped (primary key).
Crash ==
  /\ FaultHappens
  /\ ingest' = IngestIdle
  /\ pass' = [p \in Passes |-> IF p = Timer \/ pass[p].pc = "idle" THEN NoPass
                               ELSE [NoPass EXCEPT !.pc = "done"]]
  /\ UNCHANGED <<table, game, now, events, published, present>>

Tick ==
  /\ now < MaxNow
  /\ now' = now + 1
  /\ UNCHANGED <<table, ingest, game, pass, events, published, present, faults>>

Init ==
  /\ table = [n \in Notes |-> Null]
  /\ ingest = IngestIdle
  /\ game = [ply |-> 0, finished |-> FALSE]
  /\ now = 0
  /\ pass = [p \in Passes |-> NoPass]
  /\ events = [n \in Notes |-> [posted |-> 0, revealed |-> 0]]
  /\ published = {}
  /\ present = {}
  /\ faults = 0

PassStep(p) ==
  \/ List(p)
  \/ \E n \in Notes : Reveal(p, n)
  \/ Publish(p)
  \/ p = End /\ WriteRevealRecord

IngestStep == Insert \/ Post

Next ==
  \/ \E n \in Notes, form \in Forms, ply \in 0..MaxPly : Receive(n, form, ply)
  \/ IngestStep
  \/ MoveAccepted \/ GameEnds
  \/ TimerFires
  \/ \E p \in Passes : PassStep(p)
  \/ Crash \/ Tick

Spec == Init /\ [][Next]_vars

\* Goroutines run on, the ticker keeps firing, the clock advances.  Agents
\* and players owe nothing.
Fairness ==
  /\ WF_vars(IngestStep) /\ WF_vars(TimerFires) /\ WF_vars(Tick)
  /\ \A p \in Passes : WF_vars(PassStep(p))

FairSpec == Spec /\ Fairness

-----------------------------------------------------------------------------

NoteRow == [visibility: {"public", "delayed", "sealed"},
            contentKey: {"good", "garbled", Null},
            status: {"ok", "none", "escrowFailed", "invalid", "decryptFailed"},
            atPly: Nat \cup {Null}, atTime: Nat \cup {Null}, revealed: BOOLEAN]

ASSUME NullAssumption ==
  /\ Null \notin NoteRow
  /\ Null \notin Notes \cup Nat \cup {"good", "garbled"}

TypeOK ==
  /\ table \in [Notes -> NoteRow \cup {Null}]
  /\ ingest \in [pc: {"idle", "insert", "post"}, note: Notes \cup {Null},
                 row: NoteRow \cup {Null}]
  /\ game \in [ply: 0..MaxPly, finished: BOOLEAN]
  /\ now \in 0..MaxNow
  /\ pass \in [Passes -> [pc: {"idle", "list", "reveal", "publish", "keys", "done"},
                          due: SUBSET Notes, note: Notes \cup {Null}]]
  /\ \A p \in Passes : /\ pass[p].pc = "reveal" => pass[p].due # {}
                       /\ pass[p].pc = "publish" <=> pass[p].note # Null
  /\ events \in [Notes -> [posted: Nat, revealed: Nat]]
  /\ published \subseteq Notes /\ present \subseteq Notes
  /\ faults \in Nat

\* A note is announced as revealed at most once, though up to three passes
\* hold it on their lists at the same time (revealOne).
RevealedOnce == \A n \in Notes : events[n].revealed <= 1

\* No note comes to light before its time: a delayed one has waited for its
\* ply or its seconds, a sealed one for the end of the game.
NothingEarly ==
  \A n \in Stored :
    table[n].revealed =>
      \/ table[n].visibility = "public"
      \/ game.finished
      \/ /\ table[n].visibility = "delayed"
         /\ table[n].atPly <= game.ply \/ table[n].atTime <= now

\* A delayed note is revealed in the end, whatever fails or restarts on the
\* way, and also when notes that cannot be decrypted are due before it.
DelayedIsRevealed ==
  \A n \in Notes :
    Readable(n) /\ table[n].visibility = "delayed"
      ~> Revealed(n)

\* When the pass of the game's end is through, all that was filed by then and
\* can be decrypted is revealed, by it or by a pass that got there first (spec
\* 8.2 "Reveal everything at game end"). A statement that fails is not retried.
EndReveals ==
  pass[End].pc \in {"keys", "done"} /\ faults = 0 =>
    \A n \in present : Readable(n) => Revealed(n)

\* Nothing stays private once the game is over (manager.go:846 "nothing stays
\* private").
NothingStaysPrivate ==
  \A n \in Notes :
    game.finished /\ Readable(n) ~> Revealed(n)

=============================================================================
