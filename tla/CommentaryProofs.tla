--------------------------- MODULE CommentaryProofs ---------------------------
(***************************************************************************)
(* A note is revealed once, never early, and at the end of the game at the *)
(* latest, for every number of notes, moves, overlapping passes and        *)
(* faults.                                                                 *)
(***************************************************************************)
EXTENDS Commentary, TLAPS

USE FormsAssumption, DelayAssumption, CommentaryBoundsAssumption, NullAssumption
USE DEF Passes, Timer, End

Pass == [pc: {"idle", "list", "reveal", "publish", "keys", "done"},
         due: SUBSET Notes, note: Notes \cup {Null}]

\* A pass that announces a note knows which, and one that reveals has work left.
WellFormed(v) ==
  /\ v.pc = "reveal" => v.due # {}
  /\ v.pc = "publish" <=> v.note # Null

Publishes(p) == pass[p].pc = "publish"

\* A valid delayed note has its two moments, and nothing else is scheduled.
Shape(r) ==
  /\ r.visibility = "delayed" /\ r.status = "ok" => r.atTime # Null
  /\ r.atTime # Null => r.visibility = "delayed" /\ r.atPly # Null

\* Rows have that shape, the one at hand as well: it goes where there is none yet.
Filed ==
  /\ \A n \in Stored : Shape(table[n])
  /\ ingest.pc # "idle" => ingest.note \in Notes
  /\ ingest.pc = "insert" =>
       /\ ingest.row \in NoteRow /\ Shape(ingest.row) /\ table[ingest.note] = Null
       /\ ingest.row.revealed => ingest.row.visibility = "public"

\* A pass has a reason to run: the last one the end of the game, others their ply.
Running ==
  /\ pass[End].pc # "idle" => game.finished
  /\ \A p \in 1..MaxPly : pass[p].pc # "idle" => p <= game.ply

\* The note may come to light: the game is over, or its ply or its moment has come.
Ripe(n) ==
  \/ game.finished
  \/ /\ table[n].visibility = "delayed" /\ table[n].atTime # Null
     /\ table[n].atPly <= game.ply \/ table[n].atTime <= now

\* What is on a list may come to light, however old the list is; nothing else has.
Due ==
  /\ \A p \in Passes : \A n \in pass[p].due : n \in Stored /\ Ripe(n)
  /\ \A n \in Stored : table[n].revealed => table[n].visibility = "public" \/ Ripe(n)

\* Who announces a note has revealed it, alone, and it was not announced before.
Once ==
  /\ \A p \in Passes : Publishes(p) =>
       /\ pass[p].note \in Stored /\ table[pass[p].note].revealed
       /\ events[pass[p].note].revealed = 0
  /\ \A p, q \in Passes : Publishes(p) /\ Publishes(q) /\ pass[p].note = pass[q].note => p = q
  /\ \A n \in Notes : events[n].revealed = 0 \/ (events[n].revealed = 1 /\ Revealed(n))

\* The last pass has revealed what was there when the game ended, up to its list.
Swept ==
  /\ present \subseteq Stored
  /\ faults = 0 =>
       /\ pass[End].pc \in {"reveal", "publish", "keys", "done"} =>
            \A n \in present : Readable(n) => Revealed(n) \/ n \in pass[End].due
       /\ pass[End].pc \in {"keys", "done"} => pass[End].due = {}

IInv == TypeOK /\ Filed /\ Running /\ Due /\ Once /\ Swept

-----------------------------------------------------------------------------
(* Lemmas.                                                                 *)

PassGoes(p, v) == pass' = [pass EXCEPT ![p] = v]
RowGoes(n, r) == table' = [table EXCEPT ![n] = r]

\* What TypeOK says of each variable.
LEMMA Types ==
  ASSUME TypeOK
  PROVE  /\ table \in [Notes -> NoteRow \cup {Null}]
         /\ game \in [ply: 0..MaxPly, finished: BOOLEAN] /\ game.ply \in Nat
         /\ now \in Nat /\ faults \in Nat
         /\ pass \in [Passes -> Pass] /\ \A p \in Passes : WellFormed(pass[p])
         /\ events \in [Notes -> [posted: Nat, revealed: Nat]]
<1>1. game \in [ply: 0..MaxPly, finished: BOOLEAN] /\ now \in Nat
  BY DEF TypeOK
<1> QED
  BY <1>1 DEF TypeOK, Pass, WellFormed

\* A note that has a row has one of a note.
LEMMA StoredRow == ASSUME TypeOK, NEW n \in Stored PROVE n \in Notes /\ table[n] \in NoteRow
  BY Types DEF Stored

\* A note that may come to light may do so for ever.
LEMMA StaysRipe ==
  ASSUME IInv, NEW n \in Stored, n \in Stored', Ripe(n),
         game' \in [ply: 0..MaxPly, finished: BOOLEAN], now' \in Nat,
         game'.ply >= game.ply, game.finished => game'.finished, now' >= now,
         table'[n].visibility = table[n].visibility,
         table'[n].atPly = table[n].atPly, table'[n].atTime = table[n].atTime
  PROVE  Ripe(n)'
<1>1. table[n] \in NoteRow /\ Shape(table[n]) /\ game.ply \in Nat /\ now \in Nat
  BY StoredRow, Types DEF IInv, Filed
<1>2. game'.ply \in Nat
  OBVIOUS
<1>3. table[n].atTime # Null => table[n].atTime \in Nat /\ table[n].atPly \in Nat
  BY <1>1 DEF NoteRow, Shape
<1> QED
  BY <1>1, <1>2, <1>3 DEF Ripe

\* A pass that goes on with less work.
LEMMA LeftOK ==
  ASSUME NEW p \in Passes, NEW due \in SUBSET Notes
  PROVE  /\ Left(p, due) \in Pass /\ WellFormed(Left(p, due))
         /\ Left(p, due).note = Null /\ Left(p, due).due = due
         /\ Left(p, due).pc \in {"keys", "done"} => due = {}
  BY DEF Left, Finished, NoPass, Pass, WellFormed

\* A pass that has come to its end.
LEMMA EndedOK ==
  ASSUME NEW p \in Passes, NEW v \in {Finished(p), Broken(p)}
  PROVE  v \in Pass /\ WellFormed(v) /\ v.note = Null /\ v.due = {}
  BY DEF Finished, Broken, NoPass, Pass, WellFormed

\* Pass p goes to v and nothing else of the passes changes.
LEMMA PassGoesOK ==
  ASSUME IInv, NEW p \in Passes, NEW v \in Pass, WellFormed(v), PassGoes(p, v)
  PROVE  /\ pass' \in [Passes -> Pass] /\ \A q \in Passes : WellFormed(pass[q])'
         /\ \A q \in Passes : pass'[q] = IF q = p THEN v ELSE pass[q]
<1>1. pass \in [Passes -> Pass] /\ \A q \in Passes : WellFormed(pass[q])
  BY Types DEF IInv
<1>2. \A q \in Passes : pass'[q] = IF q = p THEN v ELSE pass[q]
  BY <1>1 DEF PassGoes
<1> QED
  BY <1>1, <1>2 DEF PassGoes, WellFormed

\* A pass goes on and announces nothing; the game and the clock may go on as well.
LEMMA PassMoves ==
  ASSUME IInv, NEW p \in Passes, NEW v \in Pass, WellFormed(v), PassGoes(p, v),
         v.note = Null, UNCHANGED <<table, ingest, events>>,
         now' = now, published' \subseteq Notes, present' \subseteq Notes, faults' \in Nat,
         game' \in [ply: 0..MaxPly, finished: BOOLEAN],
         game'.ply >= game.ply, game.finished => game'.finished,
         \A n \in v.due : n \in Stored /\ Ripe(n)',
         p = End => game'.finished,
         p \in 1..MaxPly => p <= game'.ply,
         Swept'
  PROVE  IInv'
<1>1. /\ pass' \in [Passes -> Pass] /\ \A q \in Passes : WellFormed(pass[q])'
      /\ \A q \in Passes : pass'[q] = IF q = p THEN v ELSE pass[q]
  BY PassGoesOK
<1>2. TypeOK'
  BY <1>1 DEF IInv, TypeOK, Pass, WellFormed
<1>3. Filed'
  BY DEF IInv, Filed, Stored
<1>4. Running'
  <2>1. game.ply \in Nat /\ game'.ply \in Nat
    BY Types DEF IInv
  <2>2. End \in Passes /\ 1..MaxPly \subseteq Passes
    OBVIOUS
  <2>3. End \notin 1..MaxPly
    OBVIOUS
  <2>4. pass'[End].pc # "idle" => game'.finished
    BY <1>1, <2>2 DEF IInv, Running
  <2>5. \A q \in 1..MaxPly : pass'[q].pc # "idle" => q <= game'.ply
    BY <1>1, <2>1, <2>2 DEF IInv, Running
  <2> QED
    BY <2>4, <2>5 DEF Running
<1>5. Due'
  <2>1. now' \in Nat /\ now' >= now
    BY Types DEF IInv
  <2>2. \A n \in Stored : n \in Stored' /\ (Ripe(n) => Ripe(n)')
    BY <2>1, StaysRipe DEF Stored
  <2>3. Stored' = Stored
    BY DEF Stored
  <2> QED
    BY <1>1, <2>2, <2>3 DEF IInv, Due
<1>6. Once'
  <2>1. \A q \in Passes : Publishes(q)' => Publishes(q) /\ pass'[q] = pass[q]
    BY <1>1 DEF Publishes, WellFormed
  <2> QED
    BY <2>1 DEF IInv, Once, Stored, Revealed
<1> QED
  BY <1>2, <1>3, <1>4, <1>5, <1>6 DEF IInv

\* A row keeps its key, and what is revealed stays so.
Keeps(n) ==
  /\ n \in Stored' /\ table'[n].contentKey = table[n].contentKey
  /\ table[n].revealed => table'[n].revealed

\* What the last pass has done, other passes and the indexer do not undo.
LEMMA StaysSwept ==
  ASSUME IInv, pass'[End] = pass[End], UNCHANGED present, faults' = 0 => faults = 0,
         \A n \in Stored : Keeps(n)
  PROVE  Swept'
<1>1. present' \subseteq Stored'
  BY DEF IInv, Swept, Keeps
<1>2. \A n \in present : (Readable(n)' => Readable(n)) /\ (Revealed(n) => Revealed(n)')
  BY DEF Keeps, IInv, Swept, Readable, Revealed
<1> QED
  BY <1>1, <1>2 DEF IInv, Swept

\* A table nobody writes keeps its rows.
LEMMA TableKeeps == ASSUME UNCHANGED table PROVE \A n \in Stored : Keeps(n)
  BY DEF Keeps, Stored

-----------------------------------------------------------------------------
(* The indexer.                                                            *)

\* The row of a note has the shape of one, and is revealed only if public.
LEMMA RowOK ==
  ASSUME NEW form \in Forms, NEW ply \in Nat, NEW at \in Nat
  PROVE  /\ RowOf(form, ply, at) \in NoteRow /\ Shape(RowOf(form, ply, at))
         /\ RowOf(form, ply, at).revealed => RowOf(form, ply, at).visibility = "public"
<1> DEFINE r == RowOf(form, ply, at)
<1>1. form \in AllForms
  OBVIOUS
<1>2. StoredKey(form) \in {"good", "garbled", Null}
  BY <1>1 DEF AllForms, StoredKey, StatusOf, Valid
<1>3. StatusOf(form) \in {"ok", "none", "escrowFailed", "invalid"}
  BY DEF StatusOf
<1>4. /\ r.visibility = form.visibility /\ r.contentKey = StoredKey(form)
      /\ r.status = StatusOf(form) /\ r.revealed = (Valid(form) /\ form.visibility = "public")
      /\ r.atPly = IF Scheduled(form) THEN ply + Plies ELSE Null
      /\ r.atTime = IF Scheduled(form) THEN at + Seconds ELSE Null
  BY DEF RowOf
<1>5. Shape(r)
  BY <1>4 DEF Shape, Scheduled
<1>6. r \in NoteRow
  <2>1. (Valid(form) /\ form.visibility = "public") \in BOOLEAN
    OBVIOUS
  <2>2. (IF Scheduled(form) THEN ply + Plies ELSE Null) \in Nat \cup {Null}
        /\ (IF Scheduled(form) THEN at + Seconds ELSE Null) \in Nat \cup {Null}
    OBVIOUS
  <2>3. form.visibility \in {"public", "delayed", "sealed"}
    BY <1>1 DEF AllForms
  <2> QED
    BY <1>2, <1>3, <2>1, <2>2, <2>3 DEF RowOf, NoteRow
<1> QED
  BY <1>4, <1>5, <1>6

\* A step of the indexer that leaves the table alone.
LEMMA IngestStill ==
  ASSUME IInv, UNCHANGED <<table, game, now, pass, published, present>>,
         events' \in [Notes -> [posted: Nat, revealed: Nat]],
         \A n \in Notes : events'[n].revealed = events[n].revealed,
         faults' \in Nat, faults' >= faults,
         ingest' \in [pc: {"idle", "insert", "post"}, note: Notes \cup {Null},
                      row: NoteRow \cup {Null}],
         Filed'
  PROVE  IInv'
<1>1. TypeOK'
  BY DEF IInv, TypeOK
<1>2. Running'
  BY DEF IInv, Running
<1>3. Due'
  BY DEF IInv, Due, Stored, Ripe
<1>4. Once'
  <2>1. \A p \in Passes : Publishes(p) => pass[p].note \in Notes
    BY StoredRow DEF IInv, Once
  <2>2. \A p \in Passes : Publishes(p)' <=> Publishes(p)
    BY DEF Publishes
  <2>3. Stored' = Stored /\ \A n \in Notes : Revealed(n)' <=> Revealed(n)
    BY DEF Stored, Revealed
  <2> QED
    BY <2>1, <2>2, <2>3 DEF IInv, Once
<1>5. Swept'
  <2>1. faults \in Nat
    BY Types DEF IInv
  <2>2. faults' = 0 => faults = 0
    BY <2>1
  <2> QED
    BY <2>2, TableKeeps, StaysSwept
<1> QED
  BY <1>1, <1>2, <1>3, <1>4, <1>5 DEF IInv

\* The indexer between two records.
LEMMA IdleOK ==
  /\ IngestIdle \in [pc: {"idle", "insert", "post"}, note: Notes \cup {Null},
                     row: NoteRow \cup {Null}]
  /\ IngestIdle.pc = "idle"
  BY DEF IngestIdle

\* A record is put together for a note that has no row.
LEMMA ReceiveOK ==
  ASSUME IInv, NEW n \in Notes, NEW form \in Forms, NEW ply \in 0..MaxPly,
         Receive(n, form, ply)
  PROVE  IInv'
<1> DEFINE r == RowOf(form, ply, now)
           i == [pc |-> "insert", note |-> n, row |-> r]
<1>1. r \in NoteRow /\ Shape(r) /\ (r.revealed => r.visibility = "public")
  BY RowOK, Types DEF IInv
<1> HIDE DEF r
<1>2. /\ ingest' = i /\ table[n] = Null
      /\ UNCHANGED <<table, game, now, pass, events, published, present, faults>>
  BY DEF Receive, r
<1>3. i \in [pc: {"idle", "insert", "post"}, note: Notes \cup {Null}, row: NoteRow \cup {Null}]
  BY <1>1
<1>4. Filed'
  BY <1>1, <1>2 DEF IInv, Filed, Stored
<1>5. faults' \in Nat /\ faults' >= faults /\ events' \in [Notes -> [posted: Nat, revealed: Nat]]
  BY <1>2, Types DEF IInv
<1> QED
  BY <1>2, <1>3, <1>4, <1>5, IngestStill

\* The row of a note is put where there is none, and brings nothing to light too early.
LEMMA InsertOK == ASSUME IInv, Insert PROVE IInv'
<1> DEFINE n == ingest.note
           r == ingest.row
           i == [ingest EXCEPT !.pc = "post"]
<1>1. /\ ingest.pc = "insert" /\ n \in Notes /\ r \in NoteRow /\ Shape(r) /\ table[n] = Null
      /\ r.revealed => r.visibility = "public"
      /\ ingest \in [pc: {"idle", "insert", "post"}, note: Notes \cup {Null},
                     row: NoteRow \cup {Null}]
  BY DEF Insert, IInv, Filed, TypeOK
<1>2. UNCHANGED <<game, now, pass, events, published, present>>
  BY DEF Insert
<1>t. /\ table \in [Notes -> NoteRow \cup {Null}] /\ faults \in Nat
      /\ events \in [Notes -> [posted: Nat, revealed: Nat]]
  BY Types DEF IInv
<1>3. CASE FaultHappens /\ ingest' = IngestIdle /\ UNCHANGED table
  <2>1. faults' \in Nat /\ faults' >= faults /\ events' \in [Notes -> [posted: Nat, revealed: Nat]]
    BY <1>2, <1>3, <1>t DEF FaultHappens
  <2>2. Filed'
    BY <1>3, IdleOK DEF IInv, Filed, Stored
  <2> QED
    BY <1>2, <1>3, <2>1, <2>2, IdleOK, IngestStill
<1>4. CASE /\ table' = [table EXCEPT ![n] = r] /\ ingest' \in {IngestIdle, i}
           /\ UNCHANGED faults
  <2>1. i \in [pc: {"idle", "insert", "post"}, note: Notes \cup {Null}, row: NoteRow \cup {Null}]
        /\ i.pc = "post" /\ i.note = n
    BY <1>1
  <2> HIDE DEF i
  <2>2. ingest' \in [pc: {"idle", "insert", "post"}, note: Notes \cup {Null},
                     row: NoteRow \cup {Null}]
        /\ (ingest'.pc # "idle" => ingest'.pc = "post" /\ ingest'.note \in Notes)
    BY <1>1, <1>4, <2>1, IdleOK
  <2> HIDE DEF n, r
  <2>3. /\ table' \in [Notes -> NoteRow \cup {Null}]
        /\ \A m \in Notes : table'[m] = IF m = n THEN r ELSE table[m]
    BY <1>1, <1>4, <1>t
  <2>4. n \notin Stored /\ Stored' = Stored \cup {n} /\ n \in Notes
    BY <1>1, <2>3 DEF Stored
  <2>5. \A m \in Stored : m \in Notes /\ table'[m] = table[m] /\ m \in Stored'
    BY <2>3, <2>4 DEF Stored
  <2>6. TypeOK'
    BY <1>2, <1>4, <2>2, <2>3 DEF IInv, TypeOK
  <2>7. Filed'
    BY <1>1, <2>2, <2>3, <2>4, <2>5 DEF IInv, Filed
  <2>8. Running'
    BY <1>2 DEF IInv, Running
  <2>9. Due'
    BY <1>1, <1>2, <2>3, <2>4, <2>5 DEF IInv, Due, Ripe
  <2>10. Once'
    <3>1. \A m \in Notes : Revealed(m) => Revealed(m)'
      BY <2>5 DEF Revealed
    <3> QED
      BY <1>2, <2>5, <3>1 DEF IInv, Once, Publishes
  <2>11. Swept'
    <3>1. \A m \in Stored : Keeps(m)
      BY <2>5 DEF Keeps
    <3> QED
      BY <1>2, <1>4, <3>1, StaysSwept
  <2> QED
    BY <2>6, <2>7, <2>8, <2>9, <2>10, <2>11 DEF IInv
<1> QED
  BY <1>3, <1>4 DEF Insert

\* A note is announced as posted, not as revealed.
LEMMA PostOK == ASSUME IInv, Post PROVE IInv'
<1> DEFINE n == ingest.note
           e == [events[n] EXCEPT !.posted = @ + 1]
<1>1. n \in Notes /\ events \in [Notes -> [posted: Nat, revealed: Nat]] /\ faults \in Nat
  BY Types DEF Post, IInv, Filed
<1>2. e \in [posted: Nat, revealed: Nat] /\ e.revealed = events[n].revealed
  BY <1>1
<1>3. /\ events' = [events EXCEPT ![n] = e] /\ ingest' = IngestIdle
      /\ UNCHANGED <<table, game, now, pass, published, present, faults>>
  BY <1>1 DEF Post
<1> HIDE DEF e, n
<1>4. /\ events' \in [Notes -> [posted: Nat, revealed: Nat]]
      /\ \A m \in Notes : events'[m].revealed = events[m].revealed
  BY <1>1, <1>2, <1>3
<1>5. Filed'
  BY <1>3, IdleOK DEF IInv, Filed, Stored
<1>6. faults' \in Nat /\ faults' >= faults
  BY <1>1, <1>3
<1> QED
  BY <1>3, <1>4, <1>5, <1>6, IdleOK, IngestStill

-----------------------------------------------------------------------------
(* The game.                                                               *)

\* Starting a pass keeps what it is.
LEMMA StartedOK ==
  ASSUME IInv, NEW p \in Passes, pass[p].pc # "publish", pass' = Started(p)
  PROVE  \E v \in Pass : /\ WellFormed(v) /\ PassGoes(p, v) /\ v.note = Null
                         /\ v.pc = "list" /\ v.due = pass[p].due
<1> DEFINE v == [pass[p] EXCEPT !.pc = "list"]
<1>1. pass[p] \in Pass /\ WellFormed(pass[p]) /\ pass \in [Passes -> Pass]
  BY Types DEF IInv
<1>2. v \in Pass /\ v.pc = "list" /\ v.due = pass[p].due /\ v.note = Null
  BY <1>1 DEF Pass, WellFormed
<1>3. PassGoes(p, v)
  BY <1>1 DEF Started, PassGoes
<1>4. WellFormed(v)
  BY <1>2 DEF WellFormed
<1> HIDE DEF v
<1> QED
  BY <1>2, <1>3, <1>4

\* An accepted move brings the ply its pass waits for.
LEMMA MoveAcceptedOK == ASSUME IInv, MoveAccepted PROVE IInv'
<1> DEFINE g == [game EXCEPT !.ply = @ + 1]
<1>1. /\ game \in [ply: 0..MaxPly, finished: BOOLEAN] /\ game.ply \in Nat /\ game.ply < MaxPly
      /\ faults \in Nat /\ ~game.finished
  BY Types DEF IInv, MoveAccepted
<1>2. PICK p \in 1..MaxPly : p = game.ply + 1
  BY <1>1
<1>3. g \in [ply: 0..MaxPly, finished: BOOLEAN] /\ g.ply = p /\ g.finished = game.finished
  BY <1>1, <1>2
<1> HIDE DEF g
<1>4. /\ game' = g /\ pass' = Started(p)
      /\ UNCHANGED <<table, ingest, now, events, published, present, faults>>
  BY <1>2 DEF MoveAccepted, g
<1>5. p \in Passes /\ p # End /\ pass[p].pc = "idle"
  <2>1. ~(p <= game.ply)
    BY <1>1, <1>2
  <2> QED
    BY <1>1, <1>2, <2>1 DEF IInv, Running
<1>6. PICK v \in Pass : /\ WellFormed(v) /\ PassGoes(p, v) /\ v.note = Null
                        /\ v.due = pass[p].due
  BY <1>4, <1>5, StartedOK
<1>7. \A n \in v.due : n \in Stored /\ Ripe(n)'
  <2> SUFFICES ASSUME NEW n \in v.due PROVE n \in Stored /\ Ripe(n)'
    OBVIOUS
  <2>1. n \in Stored /\ Ripe(n) /\ n \in Stored'
    BY <1>4, <1>5, <1>6 DEF IInv, Due, Stored
  <2> QED
    BY <1>1, <1>2, <1>3, <1>4, <2>1, StaysRipe, Types DEF IInv
<1>8. Swept'
  <2>1. pass'[End] = pass[End]
    BY <1>5, <1>6, PassGoesOK
  <2> QED
    BY <1>4, <2>1, TableKeeps, StaysSwept
<1>9. published' \subseteq Notes /\ present' \subseteq Notes /\ faults' \in Nat
  BY <1>1, <1>4 DEF IInv, TypeOK
<1>10. game' \in [ply: 0..MaxPly, finished: BOOLEAN] /\ game'.ply >= game.ply
       /\ (game.finished => game'.finished) /\ p <= game'.ply
  BY <1>1, <1>2, <1>3, <1>4
<1> QED
  BY <1>4, <1>5, <1>6, <1>7, <1>8, <1>9, <1>10, PassMoves

\* The end of the game starts the pass that has all there is to reveal before it.
LEMMA GameEndsOK == ASSUME IInv, GameEnds PROVE IInv'
<1>1. /\ game \in [ply: 0..MaxPly, finished: BOOLEAN] /\ game.ply \in Nat
      /\ faults \in Nat /\ ~game.finished /\ pass[End].pc = "idle"
  BY Types DEF IInv, GameEnds, Running
<1>2. /\ game' \in [ply: 0..MaxPly, finished: BOOLEAN] /\ game'.finished
      /\ game'.ply >= game.ply
  BY <1>1 DEF GameEnds
<1>3. /\ pass' = Started(End) /\ present' = Stored
      /\ UNCHANGED <<table, ingest, now, events, published, faults>>
  BY DEF GameEnds
<1>4. PICK v \in Pass : /\ WellFormed(v) /\ PassGoes(End, v) /\ v.note = Null
                        /\ v.pc = "list" /\ v.due = pass[End].due
  BY <1>1, <1>3, StartedOK
<1>5. \A n \in v.due : n \in Stored /\ Ripe(n)'
  BY <1>2, <1>4 DEF IInv, Due, Ripe
<1>6. Swept'
  <2>1. pass'[End] = v
    BY <1>4, PassGoesOK
  <2> QED
    BY <1>3, <1>4, <2>1 DEF Swept, Stored
<1>7. published' \subseteq Notes /\ present' \subseteq Notes /\ faults' \in Nat
  BY <1>1, <1>3 DEF IInv, TypeOK, Stored
<1>8. End \in Passes /\ End \notin 1..MaxPly
  OBVIOUS
<1> QED
  BY <1>2, <1>3, <1>4, <1>5, <1>6, <1>7, <1>8, PassMoves

-----------------------------------------------------------------------------
(* The passes.                                                             *)

\* Pass p has a reason to run, so it may go on.
LEMMA GoesOn ==
  ASSUME IInv, NEW p \in Passes, NEW v \in Pass, WellFormed(v), PassGoes(p, v), v.note = Null,
         pass[p].pc # "idle" \/ p = Timer,
         UNCHANGED <<table, ingest, game, now, events, present>>,
         published' \subseteq Notes, faults' \in Nat,
         \A n \in v.due : n \in Stored /\ Ripe(n), Swept'
  PROVE  IInv'
<1>1. game \in [ply: 0..MaxPly, finished: BOOLEAN] /\ game.ply \in Nat
  BY Types DEF IInv
<1>2. p = End => game.finished
  BY DEF IInv, Running
<1>3. p \in 1..MaxPly => p <= game.ply
  BY DEF IInv, Running
<1>4. \A n \in v.due : n \in Stored /\ Ripe(n)'
  BY DEF Ripe
<1>5. present' \subseteq Notes /\ game'.ply >= game.ply
  BY <1>1 DEF IInv, TypeOK
<1> QED
  BY <1>1, <1>2, <1>3, <1>4, <1>5, PassMoves

\* A pass goes on, and it is the last one only if it still has what it has to reveal.
LEMMA StaysSweptBy ==
  ASSUME IInv, NEW p \in Passes, NEW v \in Pass, WellFormed(v), PassGoes(p, v),
         UNCHANGED present, faults' = 0 => faults = 0,
         \A n \in Stored : Keeps(n),
         p = End /\ faults' = 0 =>
           /\ v.pc \in {"reveal", "publish", "keys", "done"} =>
                \A n \in present : Readable(n) => Revealed(n)' \/ n \in v.due
           /\ v.pc \in {"keys", "done"} => v.due = {}
  PROVE  Swept'
<1>1. \A q \in Passes : pass'[q] = IF q = p THEN v ELSE pass[q]
  BY PassGoesOK
<1>2. CASE p # End
  BY <1>1, <1>2, StaysSwept
<1>3. CASE p = End
  <2>1. present' \subseteq Stored'
    BY DEF IInv, Swept, Keeps
  <2>2. \A n \in present : (Readable(n)' => Readable(n))
    BY DEF Keeps, IInv, Swept, Readable
  <2> QED
    BY <1>1, <1>3, <2>1, <2>2 DEF Swept
<1> QED
  BY <1>2, <1>3

\* The ticker starts its pass.
LEMMA TimerFiresOK == ASSUME IInv, TimerFires PROVE IInv'
<1>1. /\ pass[Timer].pc = "idle" /\ pass' = Started(Timer) /\ Timer \in Passes /\ Timer # End
      /\ UNCHANGED <<table, ingest, game, now, events, published, present, faults>>
  BY DEF TimerFires
<1>2. PICK v \in Pass : /\ WellFormed(v) /\ PassGoes(Timer, v) /\ v.note = Null
                        /\ v.pc = "list" /\ v.due = pass[Timer].due
  BY <1>1, StartedOK
<1>3. \A n \in v.due : n \in Stored /\ Ripe(n)
  BY <1>1, <1>2 DEF IInv, Due
<1>4. Swept'
  BY <1>1, <1>2, TableKeeps, StaysSweptBy
<1>5. published' \subseteq Notes /\ faults' \in Nat
  BY <1>1, Types DEF IInv, TypeOK
<1> QED
  BY <1>1, <1>2, <1>3, <1>4, <1>5, GoesOn

\* Whatever the LIMIT cuts off, a list holds notes that may come to light.
LEMMA ListsOK ==
  ASSUME IInv, NEW p \in Passes, pass[p].pc = "list", NEW due \in Lists(p)
  PROVE  /\ due \subseteq Notes /\ \A n \in due : n \in Stored /\ Ripe(n)
         /\ p = End => \A n \in Stored : Readable(n) => Revealed(n) \/ n \in due
<1>1. game.ply \in Nat /\ Stored \subseteq Notes
  BY Types DEF IInv, Stored
<1>2. CASE p = Timer
  <2>1. due \subseteq DueByTime
    BY <1>2 DEF Lists, Earliest
  <2>2. \A n \in DueByTime : n \in Stored /\ Ripe(n)
    BY DEF DueByTime, IInv, Filed, Shape, Ripe
  <2> QED
    BY <1>1, <1>2, <2>1, <2>2
<1>3. CASE p = End
  <2>1. due = HiddenAtEnd /\ game.finished
    BY <1>3 DEF Lists, IInv, Running
  <2>2. \A n \in due : n \in Stored /\ Ripe(n)
    BY <2>1 DEF HiddenAtEnd, Ripe
  <2>3. \A n \in Stored : Readable(n) => Revealed(n) \/ n \in due
    BY <2>1 DEF HiddenAtEnd, Readable, Revealed, HasKey
  <2> QED
    BY <1>1, <2>2, <2>3
<1>4. CASE p \in 1..MaxPly
  <2>1. due \subseteq DueByPly(p) /\ p <= game.ply
    BY <1>4 DEF Lists, Earliest, IInv, Running
  <2>2. ASSUME NEW n \in DueByPly(p) PROVE n \in Stored /\ Ripe(n)
    <3>1. /\ n \in Stored /\ table[n].visibility = "delayed" /\ table[n].status = "ok"
          /\ table[n].atPly <= p \/ table[n].atTime <= now
      BY <2>2 DEF DueByPly
    <3>2. table[n] \in NoteRow /\ Shape(table[n])
      BY <3>1, StoredRow DEF IInv, Filed
    <3>3. table[n].atTime # Null /\ table[n].atPly \in Nat
      BY <3>1, <3>2 DEF Shape, NoteRow
    <3> QED
      BY <1>1, <1>4, <2>1, <3>1, <3>3 DEF Ripe
  <2> QED
    BY <1>1, <1>4, <2>1, <2>2
<1> QED
  BY <1>2, <1>3, <1>4

\* A pass lists its rows, or cannot.
LEMMA ListOK == ASSUME IInv, NEW p \in Passes, List(p) PROVE IInv'
<1>1. /\ pass[p].pc = "list" /\ UNCHANGED <<table, ingest, game, now, events, published, present>>
      /\ faults \in Nat /\ published' \subseteq Notes
  BY Types DEF List, IInv, TypeOK
<1>2. CASE \E due \in Lists(p) : pass' = [pass EXCEPT ![p] = Left(p, due)] /\ UNCHANGED faults
  <2>1. PICK due \in Lists(p) : pass' = [pass EXCEPT ![p] = Left(p, due)] /\ UNCHANGED faults
    BY <1>2
  <2>2. /\ due \in SUBSET Notes /\ \A n \in due : n \in Stored /\ Ripe(n)
        /\ p = End => \A n \in Stored : Readable(n) => Revealed(n) \/ n \in due
    BY <1>1, ListsOK
  <2> DEFINE v == Left(p, due)
  <2>3. /\ v \in Pass /\ WellFormed(v) /\ v.note = Null /\ v.due = due
        /\ v.pc \in {"keys", "done"} => due = {}
    BY <2>2, LeftOK
  <2>4. PassGoes(p, v)
    BY <2>1 DEF PassGoes
  <2> HIDE DEF v
  <2>5. p = End => \A n \in present : Readable(n) => Revealed(n)' \/ n \in v.due
    BY <1>1, <2>2, <2>3 DEF IInv, Swept, Revealed, Stored
  <2>6. Swept'
    BY <1>1, <2>1, <2>3, <2>4, <2>5, TableKeeps, StaysSweptBy
  <2>7. faults' \in Nat /\ \A n \in v.due : n \in Stored /\ Ripe(n)
    BY <1>1, <2>1, <2>2, <2>3
  <2> QED
    BY <1>1, <2>3, <2>4, <2>6, <2>7, GoesOn
<1>3. CASE /\ FaultHappens
           /\ pass' \in {[pass EXCEPT ![p] = Finished(p)], [pass EXCEPT ![p] = Broken(p)]}
  <2>1. PICK v \in {Finished(p), Broken(p)} : PassGoes(p, v)
    BY <1>3 DEF PassGoes
  <2>2. v \in Pass /\ WellFormed(v) /\ v.note = Null /\ v.due = {}
    BY <2>1, EndedOK
  <2>3. faults' \in Nat /\ faults' # 0
    BY <1>1, <1>3 DEF FaultHappens
  <2>4. Swept'
    BY <1>1, <2>1, <2>2, <2>3, TableKeeps, StaysSweptBy
  <2> QED
    BY <1>1, <2>1, <2>2, <2>3, <2>4, GoesOn
<1> QED
  BY <1>2, <1>3 DEF List

\* A pass changes a row of its list, and announces nothing yet.
LEMMA RowChanges ==
  ASSUME IInv, NEW p \in Passes, pass[p].pc = "reveal", NEW n \in pass[p].due,
         NEW v \in Pass, WellFormed(v), PassGoes(p, v), v.due \subseteq pass[p].due,
         NEW r \in NoteRow, Shape(r), RowGoes(n, r),
         r.visibility = table[n].visibility, r.contentKey = table[n].contentKey,
         r.atPly = table[n].atPly, r.atTime = table[n].atTime,
         table[n].revealed => r.revealed,
         UNCHANGED <<ingest, game, now, events, published, present, faults>>
  PROVE  /\ TypeOK' /\ Filed' /\ Running' /\ Due'
         /\ n \in Stored /\ Stored' = Stored /\ \A m \in Stored : Keeps(m)
         /\ \A m \in Notes : table'[m] = IF m = n THEN r ELSE table[m]
<1>1. /\ table \in [Notes -> NoteRow \cup {Null}] /\ n \in Stored /\ n \in Notes /\ Ripe(n)
      /\ game \in [ply: 0..MaxPly, finished: BOOLEAN] /\ game.ply \in Nat /\ now \in Nat
  BY Types DEF IInv, Due, Pass
<1>2. /\ table' \in [Notes -> NoteRow \cup {Null}]
      /\ \A m \in Notes : table'[m] = IF m = n THEN r ELSE table[m]
  BY <1>1 DEF RowGoes
<1>3. Stored' = Stored /\ \A m \in Stored : m \in Notes
  BY <1>1, <1>2 DEF Stored
<1>4. \A m \in Stored : Keeps(m)
  BY <1>1, <1>2, <1>3 DEF Keeps
<1>5. /\ pass' \in [Passes -> Pass] /\ \A q \in Passes : WellFormed(pass[q])'
      /\ \A q \in Passes : pass'[q] = IF q = p THEN v ELSE pass[q]
  BY PassGoesOK
<1>6. TypeOK'
  BY <1>2, <1>5 DEF IInv, TypeOK, Pass, WellFormed
<1>7. Filed'
  <2>1. \A m \in Stored' : Shape(table'[m])
    BY <1>2, <1>3 DEF IInv, Filed
  <2>2. ingest.pc = "insert" => table'[ingest.note] = Null
    <3>1. ingest.pc = "insert" => ingest.note \in Notes /\ ingest.note # n
      BY <1>1 DEF IInv, Filed, Stored
    <3> QED
      BY <1>2, <3>1 DEF IInv, Filed
  <2> QED
    BY <2>1, <2>2 DEF IInv, Filed
<1>8. Running'
  <2>1. \A q \in Passes : pass'[q].pc # "idle" => pass[q].pc # "idle"
    BY <1>5
  <2> QED
    BY <2>1 DEF IInv, Running
<1>9. Due'
  <2>1. \A m \in Stored : Ripe(m)' <=> Ripe(m)
    BY <1>2, <1>3 DEF Ripe
  <2>2. \A q \in Passes : pass'[q].due \subseteq pass[q].due
    BY <1>5
  <2>3. \A q \in Passes : \A m \in pass'[q].due : m \in Stored' /\ Ripe(m)'
    BY <1>3, <2>1, <2>2 DEF IInv, Due
  <2>4. \A m \in Stored : table'[m].revealed => table'[m].visibility = "public" \/ Ripe(m)'
    <3> SUFFICES ASSUME NEW m \in Stored, table'[m].revealed
                 PROVE  table'[m].visibility = "public" \/ Ripe(m)'
      OBVIOUS
    <3>1. CASE m = n
      BY <1>1, <2>1, <3>1
    <3>2. CASE m # n
      BY <1>2, <1>3, <2>1, <3>2 DEF IInv, Due
    <3> QED
      BY <3>1, <3>2
  <2> QED
    BY <1>3, <2>3, <2>4 DEF Due
<1> QED
  BY <1>1, <1>2, <1>3, <1>4, <1>6, <1>7, <1>8, <1>9

\* A note is revealed by one pass, which alone announces it.
LEMMA RevealOK == ASSUME IInv, NEW p \in Passes, NEW n \in Notes, Reveal(p, n) PROVE IInv'
<1> DEFINE due == pass[p].due \ {n}
           rest == Left(p, due)
           v == [pass[p] EXCEPT !.pc = "publish", !.note = n]
<1>1. /\ pass[p].pc = "reveal" /\ n \in pass[p].due /\ pass[p] \in Pass
      /\ UNCHANGED <<ingest, game, now, events, published, present>>
      /\ faults \in Nat /\ published' \subseteq Notes /\ pass \in [Passes -> Pass]
  BY Types DEF Reveal, IInv, TypeOK
<1>2. /\ rest \in Pass /\ WellFormed(rest) /\ rest.note = Null /\ rest.due = due
      /\ rest.pc \in {"keys", "done"} => due = {}
  <2>1. due \in SUBSET Notes
    BY <1>1 DEF Pass
  <2> HIDE DEF due
  <2> QED
    BY <2>1, LeftOK
<1>3. /\ n \in Stored /\ table[n] \in NoteRow /\ Shape(table[n])
      /\ table \in [Notes -> NoteRow \cup {Null}]
      /\ \A m \in due : m \in Stored /\ Ripe(m)
  BY <1>1, StoredRow, Types DEF IInv, Due, Filed
<1>4. p = End /\ faults = 0 =>
        \A m \in present : Readable(m) => Revealed(m) \/ m \in due \/ m = n
  BY <1>1 DEF IInv, Swept
<1>c. \/ /\ table[n].contentKey = "garbled" /\ table' = FailReveal(n)
         /\ pass' = [pass EXCEPT ![p] = rest] /\ UNCHANGED faults
      \/ /\ table[n].contentKey = "good" /\ MayReveal(n)
         /\ table' = [table EXCEPT ![n].revealed = TRUE]
         /\ pass' = [pass EXCEPT ![p].pc = "publish", ![p].note = n]
         /\ UNCHANGED faults
      \/ /\ table[n].contentKey = "good" /\ ~MayReveal(n)
         /\ pass' = [pass EXCEPT ![p] = rest] /\ UNCHANGED <<table, faults>>
      \/ /\ FaultHappens /\ pass' = [pass EXCEPT ![p] = rest] /\ UNCHANGED table
  BY DEF Reveal
<1> HIDE DEF rest
<1>5. CASE /\ table[n].contentKey = "garbled" /\ table' = FailReveal(n)
           /\ pass' = [pass EXCEPT ![p] = rest] /\ UNCHANGED faults
  <2> DEFINE r == [table[n] EXCEPT !.status = "decryptFailed"]
  <2>1. /\ r \in NoteRow /\ r.status = "decryptFailed"
        /\ r.visibility = table[n].visibility /\ r.contentKey = table[n].contentKey
        /\ r.atPly = table[n].atPly /\ r.atTime = table[n].atTime
        /\ r.revealed = table[n].revealed
    BY <1>3 DEF NoteRow
  <2>2. Shape(r)
    BY <1>3, <2>1 DEF Shape
  <2>3. RowGoes(n, r) /\ PassGoes(p, rest)
    BY <1>3, <1>5 DEF RowGoes, FailReveal, PassGoes
  <2> HIDE DEF r
  <2>4. /\ TypeOK' /\ Filed' /\ Running' /\ Due'
        /\ Stored' = Stored /\ \A m \in Stored : Keeps(m)
        /\ \A m \in Notes : table'[m] = IF m = n THEN r ELSE table[m]
    BY <1>1, <1>2, <1>5, <2>1, <2>2, <2>3, RowChanges
  <2>5. Once'
    <3>1. \A q \in Passes : Publishes(q)' => Publishes(q) /\ pass'[q] = pass[q]
      BY <1>1, <1>2, <2>3, PassGoesOK DEF Publishes, WellFormed
    <3>2. \A m \in Stored : m \in Notes /\ table'[m].revealed = table[m].revealed
      BY <2>1, <2>4 DEF Stored
    <3> QED
      BY <1>1, <2>4, <3>1, <3>2 DEF IInv, Once, Revealed
  <2>6. Swept'
    <3>1. p = End /\ faults = 0 => \A m \in present : Readable(m) => Revealed(m)' \/ m \in rest.due
      BY <1>2, <1>4, <1>5, <2>4 DEF Readable, Revealed, Keeps
    <3> QED
      BY <1>1, <1>2, <1>5, <2>3, <2>4, <3>1, StaysSweptBy
  <2> QED
    BY <2>4, <2>5, <2>6 DEF IInv
<1>6. CASE /\ table[n].contentKey = "good" /\ MayReveal(n)
           /\ table' = [table EXCEPT ![n].revealed = TRUE]
           /\ pass' = [pass EXCEPT ![p].pc = "publish", ![p].note = n]
           /\ UNCHANGED faults
  <2> DEFINE r == [table[n] EXCEPT !.revealed = TRUE]
  <2>1. /\ r \in NoteRow /\ r.status = table[n].status
        /\ r.visibility = table[n].visibility /\ r.contentKey = table[n].contentKey
        /\ r.atPly = table[n].atPly /\ r.atTime = table[n].atTime /\ r.revealed = TRUE
    BY <1>3 DEF NoteRow
  <2>2. Shape(r)
    BY <1>3, <2>1 DEF Shape
  <2>3. /\ v \in Pass /\ WellFormed(v) /\ v.pc = "publish" /\ v.note = n
        /\ v.due = pass[p].due
    BY <1>1 DEF Pass, WellFormed
  <2>4. RowGoes(n, r) /\ PassGoes(p, v)
    BY <1>1, <1>3, <1>6 DEF RowGoes, PassGoes
  <2> HIDE DEF r, v
  <2>5. /\ TypeOK' /\ Filed' /\ Running' /\ Due'
        /\ Stored' = Stored /\ \A m \in Stored : Keeps(m)
        /\ \A m \in Notes : table'[m] = IF m = n THEN r ELSE table[m]
    BY <1>1, <1>6, <2>1, <2>2, <2>3, <2>4, RowChanges
  <2>6. Once'
    <3>1. \A q \in Passes : pass'[q] = IF q = p THEN v ELSE pass[q]
      BY <2>3, <2>4, PassGoesOK
    <3>2. ~table[n].revealed /\ events[n].revealed = 0
      BY <1>6 DEF MayReveal, IInv, Once, Revealed
    <3>3. \A q \in Passes : Publishes(q) => pass[q].note \in Stored /\ pass[q].note # n
      BY <3>2 DEF IInv, Once
    <3>4. \A q \in Passes : Publishes(q)' =>
            \/ q = p /\ pass'[q].note = n
            \/ q # p /\ Publishes(q) /\ pass'[q] = pass[q]
      BY <2>3, <3>1 DEF Publishes
    <3>5. \A m \in Stored : m \in Notes /\ (table[m].revealed => table'[m].revealed)
      BY <2>5 DEF Stored, Keeps
    <3>6. \A q \in Passes : Publishes(q)' =>
            /\ pass'[q].note \in Stored' /\ table'[pass'[q].note].revealed
            /\ events'[pass'[q].note].revealed = 0
      BY <1>1, <1>3, <2>1, <2>5, <3>2, <3>3, <3>4, <3>5 DEF IInv, Once
    <3>7. \A q, s \in Passes :
            Publishes(q)' /\ Publishes(s)' /\ pass'[q].note = pass'[s].note => q = s
      BY <3>3, <3>4 DEF IInv, Once
    <3>8. \A m \in Notes : Revealed(m) => Revealed(m)'
      BY <2>5, <3>5 DEF Revealed
    <3> QED
      BY <1>1, <3>6, <3>7, <3>8 DEF IInv, Once
  <2>7. Swept'
    <3>1. p = End /\ faults = 0 => \A m \in present : Readable(m) => Revealed(m)' \/ m \in v.due
      BY <1>1, <1>4, <2>3, <2>5 DEF Revealed, Keeps
    <3> QED
      BY <1>1, <1>6, <2>3, <2>4, <2>5, <3>1, StaysSweptBy
  <2> QED
    BY <2>5, <2>6, <2>7 DEF IInv
<1>7. CASE /\ \/ table[n].contentKey = "good" /\ ~MayReveal(n) /\ UNCHANGED faults
              \/ FaultHappens
           /\ pass' = [pass EXCEPT ![p] = rest] /\ UNCHANGED table
  <2>1. PassGoes(p, rest) /\ faults' \in Nat
        /\ (faults' = 0 => faults = 0 /\ Revealed(n))
    BY <1>1, <1>3, <1>7 DEF PassGoes, FaultHappens, MayReveal, Revealed
  <2>2. p = End /\ faults' = 0 =>
          \A m \in present : Readable(m) => Revealed(m)' \/ m \in rest.due
    BY <1>2, <1>4, <1>7, <2>1 DEF Revealed, Stored
  <2>3. Swept'
    BY <1>1, <1>2, <1>7, <2>1, <2>2, TableKeeps, StaysSweptBy
  <2>4. \A m \in rest.due : m \in Stored /\ Ripe(m)
    BY <1>2, <1>3
  <2> QED
    BY <1>1, <1>2, <1>7, <2>1, <2>3, <2>4, GoesOn
<1> QED
  BY <1>c, <1>5, <1>6, <1>7

\* The announcement is the only one of the note.
LEMMA PublishOK == ASSUME IInv, NEW p \in Passes, Publish(p) PROVE IInv'
<1> DEFINE n == pass[p].note
           v == Left(p, pass[p].due \ {n})
           e == [events[n] EXCEPT !.revealed = @ + 1]
<1>1. /\ Publishes(p) /\ pass[p] \in Pass /\ n \in Stored /\ n \in Notes /\ Revealed(n)
      /\ events \in [Notes -> [posted: Nat, revealed: Nat]] /\ events[n].revealed = 0
      /\ UNCHANGED <<table, ingest, game, now, published, present, faults>>
  BY Types DEF Publish, IInv, Once, Publishes, Revealed, Stored
<1>2. /\ v \in Pass /\ WellFormed(v) /\ v.note = Null /\ v.due = pass[p].due \ {n}
      /\ v.pc \in {"keys", "done"} => v.due = {}
  <2>1. pass[p].due \ {n} \in SUBSET Notes
    BY <1>1 DEF Pass
  <2> QED
    BY <2>1, LeftOK
<1>3. e \in [posted: Nat, revealed: Nat] /\ e.revealed = 1
  BY <1>1
<1>4. events' = [events EXCEPT ![n] = e] /\ PassGoes(p, v)
  BY <1>1 DEF Publish, PassGoes
<1> HIDE DEF e, v
<1>5. /\ events' \in [Notes -> [posted: Nat, revealed: Nat]]
      /\ \A m \in Notes : events'[m] = IF m = n THEN e ELSE events[m]
  BY <1>1, <1>3, <1>4
<1>6. /\ pass' \in [Passes -> Pass] /\ \A q \in Passes : WellFormed(pass[q])'
      /\ \A q \in Passes : pass'[q] = IF q = p THEN v ELSE pass[q]
  BY <1>2, <1>4, PassGoesOK
<1>7. TypeOK'
  BY <1>1, <1>5, <1>6 DEF IInv, TypeOK, Pass, WellFormed
<1>8. Filed'
  BY <1>1 DEF IInv, Filed, Stored
<1>9. Running'
  <2>1. \A q \in Passes : pass'[q].pc # "idle" => pass[q].pc # "idle"
    BY <1>1, <1>6 DEF Publishes
  <2> QED
    BY <1>1, <2>1 DEF IInv, Running
<1>10. Due'
  <2>1. \A q \in Passes : pass'[q].due \subseteq pass[q].due
    BY <1>2, <1>6
  <2> QED
    BY <1>1, <2>1 DEF IInv, Due, Ripe, Stored
<1>11. Once'
  <2>1. \A q \in Passes : Publishes(q)' =>
          /\ q # p /\ Publishes(q) /\ pass'[q] = pass[q]
          /\ pass[q].note # n /\ pass[q].note \in Notes
    <3>1. \A q \in Passes : Publishes(q)' => q # p /\ Publishes(q) /\ pass'[q] = pass[q]
      BY <1>2, <1>6 DEF Publishes, WellFormed
    <3>2. \A q \in Passes : Publishes(q) => pass[q].note \in Notes
      BY StoredRow DEF IInv, Once
    <3>3. \A q \in Passes : q # p /\ Publishes(q) => pass[q].note # n
      BY <1>1 DEF IInv, Once
    <3> QED
      BY <3>1, <3>2, <3>3
  <2>2. Stored' = Stored /\ \A m \in Notes : Revealed(m)' <=> Revealed(m)
    BY <1>1 DEF Stored, Revealed
  <2>3. \A m \in Notes : events'[m].revealed = 0 \/ (events'[m].revealed = 1 /\ Revealed(m)')
    BY <1>1, <1>3, <1>5, <2>2 DEF IInv, Once
  <2>4. \A q \in Passes : Publishes(q)' =>
          /\ pass'[q].note \in Stored' /\ table'[pass'[q].note].revealed
          /\ events'[pass'[q].note].revealed = 0
    BY <1>1, <1>5, <2>1, <2>2 DEF IInv, Once
  <2>5. \A q, s \in Passes :
          Publishes(q)' /\ Publishes(s)' /\ pass'[q].note = pass'[s].note => q = s
    BY <2>1 DEF IInv, Once
  <2> QED
    BY <2>3, <2>4, <2>5 DEF Once
<1>12. Swept'
  <2>1. p = End /\ faults = 0 => \A m \in present : Readable(m) => Revealed(m)' \/ m \in v.due
    BY <1>1, <1>2 DEF IInv, Swept, Revealed, Publishes, Stored
  <2> QED
    BY <1>1, <1>2, <1>4, <2>1, TableKeeps, StaysSweptBy
<1> QED
  BY <1>7, <1>8, <1>9, <1>10, <1>11, <1>12 DEF IInv

\* The reveal record is written when there is nothing left to reveal.
LEMMA WriteRevealRecordOK == ASSUME IInv, WriteRevealRecord PROVE IInv'
<1> DEFINE v == [pass[End] EXCEPT !.pc = "done"]
<1>1. /\ pass[End].pc = "keys" /\ pass \in [Passes -> Pass] /\ End \in Passes
      /\ WellFormed(pass[End]) /\ faults \in Nat
      /\ UNCHANGED <<table, ingest, game, now, events, present, faults>>
  BY Types DEF WriteRevealRecord, IInv
<1>2. /\ v \in Pass /\ v.pc = "done" /\ v.due = pass[End].due /\ v.note = Null
  BY <1>1 DEF Pass, WellFormed
<1>3. WellFormed(v)
  BY <1>2 DEF WellFormed
<1>4. PassGoes(End, v)
  BY <1>1 DEF WriteRevealRecord, PassGoes
<1> HIDE DEF v
<1>5. published' \subseteq Notes
  BY DEF WriteRevealRecord, IInv, TypeOK, KeysHeld, Stored
<1>6. \A n \in v.due : n \in Stored /\ Ripe(n)
  BY <1>1, <1>2 DEF IInv, Due
<1>7. Swept'
  <2>1. faults = 0 => /\ \A m \in present : Readable(m) => Revealed(m)' \/ m \in v.due
                      /\ v.due = {}
    BY <1>1, <1>2 DEF IInv, Swept, Revealed, Stored
  <2> QED
    BY <1>1, <1>2, <1>3, <1>4, <2>1, TableKeeps, StaysSweptBy
<1> QED
  BY <1>1, <1>2, <1>3, <1>4, <1>5, <1>6, <1>7, GoesOn

-----------------------------------------------------------------------------
(* The world.                                                              *)

\* A crash drops what is under way and loses no row; it is a fault.
LEMMA CrashOK == ASSUME IInv, Crash PROVE IInv'
<1> DEFINE w(p) == IF p = Timer \/ pass[p].pc = "idle" THEN NoPass
                   ELSE [NoPass EXCEPT !.pc = "done"]
<1>1. \A p \in Passes :
        /\ w(p) \in Pass /\ WellFormed(w(p)) /\ w(p).due = {} /\ w(p).pc \in {"idle", "done"}
        /\ w(p).pc # "idle" => pass[p].pc # "idle"
  BY DEF NoPass, Pass, WellFormed
<1>2. /\ pass' = [p \in Passes |-> w(p)] /\ ingest' = IngestIdle
      /\ faults' \in Nat /\ faults' # 0
      /\ UNCHANGED <<table, game, now, events, published, present>>
  BY Types DEF Crash, FaultHappens, IInv
<1> HIDE DEF w
<1>3. TypeOK'
  BY <1>1, <1>2, IdleOK DEF IInv, TypeOK, Pass, WellFormed
<1>4. Filed'
  BY <1>2, IdleOK DEF IInv, Filed, Stored
<1>5. Running'
  <2>1. End \in Passes /\ 1..MaxPly \subseteq Passes
    OBVIOUS
  <2> QED
    BY <1>1, <1>2, <2>1 DEF IInv, Running
<1>6. Due'
  BY <1>1, <1>2 DEF IInv, Due, Ripe, Stored
<1>7. Once'
  BY <1>1, <1>2 DEF IInv, Once, Publishes, Revealed, Stored
<1>8. Swept'
  BY <1>2 DEF IInv, Swept, Stored
<1> QED
  BY <1>3, <1>4, <1>5, <1>6, <1>7, <1>8 DEF IInv

\* Time only makes more notes ripe.
LEMMA TickOK == ASSUME IInv, Tick PROVE IInv'
<1>1. now' \in Nat /\ now' >= now /\ now' \in 0..MaxNow /\ now \in Nat
      /\ UNCHANGED <<table, ingest, game, pass, events, published, present, faults>>
  BY DEF Tick, IInv, TypeOK
<1>2. TypeOK'
  BY <1>1 DEF IInv, TypeOK
<1>3. Filed' /\ Running'
  BY <1>1 DEF IInv, Filed, Running, Stored
<1>4. Due'
  <2>1. Stored' = Stored /\ game \in [ply: 0..MaxPly, finished: BOOLEAN] /\ game.ply \in Nat
    BY <1>1, Types DEF Stored, IInv
  <2>2. \A n \in Stored : Ripe(n) => Ripe(n)'
    BY <1>1, <2>1, StaysRipe
  <2> QED
    BY <1>1, <2>1, <2>2 DEF IInv, Due
<1>5. Once'
  BY <1>1 DEF IInv, Once, Publishes, Revealed, Stored
<1>6. Swept'
  BY <1>1, TableKeeps, StaysSwept
<1> QED
  BY <1>2, <1>3, <1>4, <1>5, <1>6 DEF IInv

-----------------------------------------------------------------------------
(* The theorems.                                                           *)

\* No note, no pass, no fault.
LEMMA InitOK == Init => IInv
<1> SUFFICES ASSUME Init PROVE IInv
  OBVIOUS
<1>1. TypeOK
  BY IdleOK DEF Init, TypeOK, NoPass
<1> QED
  BY <1>1, IdleOK DEF Init, IInv, Filed, Running, Due, Once, Swept, Publishes, NoPass, Stored

\* Every step keeps the invariant.
THEOREM NextOK == IInv /\ [Next]_vars => IInv'
<1> SUFFICES ASSUME IInv, [Next]_vars PROVE IInv'
  OBVIOUS
<1>1. CASE UNCHANGED vars
  BY <1>1 DEF vars, IInv, TypeOK, Filed, Running, Due, Once, Swept, Publishes, Stored, Ripe,
     Revealed, Readable
<1>2. ASSUME NEW p \in Passes, PassStep(p) PROVE IInv'
  BY <1>2, ListOK, RevealOK, PublishOK, WriteRevealRecordOK DEF PassStep
<1>3. CASE IngestStep
  BY <1>3, InsertOK, PostOK DEF IngestStep
<1>4. ASSUME NEW n \in Notes, NEW form \in Forms, NEW ply \in 0..MaxPly, Receive(n, form, ply)
      PROVE  IInv'
  BY <1>4, ReceiveOK
<1> QED
  BY <1>1, <1>2, <1>3, <1>4, MoveAcceptedOK, GameEndsOK, TimerFiresOK, CrashOK, TickOK DEF Next

\* Every variable keeps its type.
THEOREM TypeCorrect == Spec => []TypeOK
<1>1. IInv => TypeOK
  BY DEF IInv
<1> QED
  BY <1>1, InitOK, NextOK, PTL DEF Spec

\* A note is announced as revealed at most once, however many passes list it at once,
\* and although any of them may be cut off between the row and the announcement.
THEOREM AnnouncedOnce == Spec => []RevealedOnce
<1>1. IInv => RevealedOnce
  BY DEF IInv, Once, RevealedOnce
<1> QED
  BY <1>1, InitOK, NextOK, PTL DEF Spec

\* No note comes to light before its time, however old the list of its pass is.
THEOREM KeptUntilDue == Spec => []NothingEarly
<1>1. IInv => NothingEarly
  BY DEF IInv, Due, Ripe, NothingEarly
<1> QED
  BY <1>1, InitOK, NextOK, PTL DEF Spec

\* Without faults the last pass leaves nothing hidden of what was there when the game
\* ended.
THEOREM EndRevealsAll == Spec => []EndReveals
<1>1. IInv => EndReveals
  BY DEF IInv, Swept, EndReveals
<1> QED
  BY <1>1, InitOK, NextOK, PTL DEF Spec

=============================================================================
