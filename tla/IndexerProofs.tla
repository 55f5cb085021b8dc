---------------------------- MODULE IndexerProofs ----------------------------
(***************************************************************************)
(* No flag is published twice, and a published move record is skipped only *)
(* where the database failed on it, for every number of plies, records,    *)
(* restarts and failures.                                                  *)
(***************************************************************************)
EXTENDS Indexer, SequenceTheorems, TLAPS

USE IndexerAssumption
USE DEF Plies, Goroutines

Link == [by: Dids \cup {Null}, verified: BOOLEAN]
Move == [received: Nat, link: Link]
MoveRecord == [by: Dids, ply: Nat, own: BOOLEAN, late: BOOLEAN]

\* The types, with what the tables are sequences of.
Typed ==
  /\ moves \in Seq(Move) /\ Len(moves) <= MaxPly
  /\ stream \in Seq(MoveRecord)
  /\ flags \subseteq Flag /\ records \in Seq(Flag)
  /\ cursor \in Nat /\ read \in 0..Len(stream) /\ now \in Nat
  /\ failed \subseteq 1..Len(stream)
  /\ emit \in [Goroutines -> [pc: {"idle", "insert", "write"}, flag: Flag \cup {<<>>}]]
  /\ \A g \in Goroutines : emit[g].pc # "idle" => emit[g].flag \in Flag

\* What the rows say of the past: a move was received before now, a record is about
\* a move there is, and where the handler raises a flag it has read something.
Timely ==
  /\ \A ply \in Plies : moves[ply].received <= now
  /\ \A i \in DOMAIN stream : stream[i].ply \in Plies
  /\ emit["handler"].pc # "idle" => read > 0

Writing(g) == emit[g].pc = "write"

Recorded(f) == \E i \in DOMAIN records : records[i] = f

\* Who writes the record of a flag has inserted its row, alone; a record has a row.
\* So while a row is there it is written once at most.
Guarded ==
  /\ \A i \in DOMAIN records : records[i] \in flags
  /\ \A g \in Goroutines :
       Writing(g) => emit[g].flag \in flags /\ ~Recorded(emit[g].flag)
  /\ \A g, h \in Goroutines :
       Writing(g) /\ Writing(h) /\ emit[g].flag = emit[h].flag => g = h
  /\ \A i, j \in DOMAIN records : records[i] = records[j] => i = j

\* What the process has come past is linked, whether it read it once or again, or the
\* database failed on it.
Linked ==
  /\ cursor <= read
  /\ \A i \in (1..read) \ failed : moves[stream[i].ply].link.by \in Dids

IInv == Typed /\ Timely /\ Guarded /\ Linked

-----------------------------------------------------------------------------

\* A goroutine that raises no flag.
LEMMA QuietOK == Quiet \in [pc: {"idle", "insert", "write"}, flag: Flag \cup {<<>>}]
                 /\ Quiet.pc = "idle"
  BY DEF Quiet

\* A move nobody has published a record of.
LEMMA NoLinkOK == NoLink \in Link /\ NoLink.by \notin Dids
  BY DEF NoLink, Link

\* Both players are agents.
LEMMA PlayerIsDid == ASSUME NEW ply PROVE PlayerAt(ply) \in Dids
  BY DEF PlayerAt, Dids

\* A step that touches neither the flags, nor their records, nor a goroutine that
\* writes one.
LEMMA QuietStep ==
  ASSUME IInv, UNCHANGED <<flags, records>>,
         \A g \in Goroutines : Writing(g)' => Writing(g) /\ emit'[g] = emit[g]
  PROVE  Guarded'
  BY DEF IInv, Guarded, Recorded, Writing

\* A step that touches neither the moves nor the stream, and goes no further.
LEMMA StillStep ==
  ASSUME IInv, UNCHANGED <<moves, stream, read>>, now' \in Nat, now' >= now,
         cursor' \in 0..read, failed \subseteq failed',
         emit'["handler"].pc # "idle" => read > 0
  PROVE  Timely' /\ Linked'
<1>1. Timely'
  <2>1. \A ply \in Plies : moves[ply].received \in Nat
    <3>1. \A ply \in Plies : moves[ply] \in Move
      BY DEF IInv, Typed
    <3> QED
      BY <3>1 DEF Move
  <2>2. \A ply \in Plies : moves[ply].received <= now'
    BY <2>1 DEF IInv, Timely, Typed
  <2> QED
    BY <2>2 DEF IInv, Timely
<1>2. Linked'
  BY DEF IInv, Linked, Typed
<1> QED
  BY <1>1, <1>2

\* A move is accepted: it has no record yet, and all others keep theirs.
LEMMA AcceptMoveOK == ASSUME IInv, AcceptMove PROVE IInv'
<1> DEFINE m == [received |-> now, link |-> NoLink]
           n == Len(moves) + 1
<1>1. m \in Move /\ m.link = NoLink /\ m.received = now /\ moves \in Seq(Move) /\ now \in Nat
  BY NoLinkOK DEF Move, IInv, Typed
<1>2. moves' = Append(moves, m) /\ UNCHANGED <<flags, records, stream, cursor, read, failed, emit, now>>
  BY DEF AcceptMove
<1> HIDE DEF m
<1>3. /\ moves' \in Seq(Move) /\ Len(moves') = n /\ n \in Nat /\ DOMAIN moves' = 1..n
      /\ \A i \in 1..Len(moves) : moves'[i] = moves[i]
      /\ moves'[n] = m /\ DOMAIN moves = 1..Len(moves) /\ Len(moves) \in Nat
  BY <1>1, <1>2, AppendProperties
<1>4. Typed'
  BY <1>1, <1>2, <1>3 DEF IInv, Typed, AcceptMove
<1>5. Timely'
  <2>1. \A ply \in 1..n : moves'[ply].received <= now
    <3> SUFFICES ASSUME NEW ply \in 1..n PROVE moves'[ply].received <= now
      OBVIOUS
    <3>1. CASE ply = n
      BY <1>1, <1>3, <3>1
    <3>2. CASE ply # n
      BY <1>1, <1>3, <3>2 DEF IInv, Timely
    <3> QED
      BY <3>1, <3>2
  <2>2. \A i \in DOMAIN stream : stream[i].ply \in 1..n
    <3>1. \A i \in DOMAIN stream : stream[i] \in MoveRecord
      BY DEF IInv, Typed
    <3> QED
      BY <1>3, <3>1 DEF IInv, Timely, MoveRecord
  <2> QED
    BY <1>2, <1>3, <2>1, <2>2 DEF IInv, Timely
<1>6. Linked'
  <2>1. \A i \in 1..read : i \in DOMAIN stream
    BY DEF IInv, Typed
  <2> QED
    BY <1>2, <1>3, <2>1 DEF IInv, Linked, Timely
<1>7. Guarded'
  BY <1>2, QuietStep DEF Writing
<1> QED
  BY <1>4, <1>5, <1>6, <1>7 DEF IInv

\* A record is published behind all that has been read.
LEMMA PublishOK == ASSUME IInv, Publish PROVE IInv'
<1> DEFINE late(ply) == now > moves[ply].received + Window
<1>1. PICK did \in Dids, ply \in Plies, own \in BOOLEAN :
        stream' = Append(stream, [by |-> did, ply |-> ply, own |-> own, late |-> late(ply)])
  BY DEF Publish
<1>0. late(ply) \in BOOLEAN
  OBVIOUS
<1> HIDE DEF late
<1> DEFINE r == [by |-> did, ply |-> ply, own |-> own, late |-> late(ply)]
           n == Len(stream) + 1
<1>2. moves \in Seq(Move) /\ stream \in Seq(MoveRecord) /\ now \in Nat
      /\ Len(moves) \in Nat /\ DOMAIN moves = 1..Len(moves)
      /\ DOMAIN stream = 1..Len(stream)
  BY DEF IInv, Typed
<1>3. r \in MoveRecord /\ r.ply \in Plies
  BY <1>0, <1>2 DEF MoveRecord
<1>4. stream' = Append(stream, r) /\ UNCHANGED <<moves, flags, records, cursor, read, failed, emit, now>>
  BY <1>1 DEF Publish
<1> HIDE DEF r
<1>5. /\ stream' \in Seq(MoveRecord) /\ Len(stream') = n /\ DOMAIN stream' = 1..n
      /\ \A i \in 1..Len(stream) : stream'[i] = stream[i]
      /\ stream'[n] = r /\ Len(stream) \in Nat
  BY <1>2, <1>3, <1>4, AppendProperties
<1>6. Typed'
  BY <1>4, <1>5 DEF IInv, Typed
<1>7. Timely'
  <2>1. \A i \in 1..Len(stream) : stream[i].ply \in Plies
    BY <1>2 DEF IInv, Timely
  <2>2. \A i \in 1..n : i \in 1..Len(stream) \/ i = n
    BY <1>5
  <2>3. \A i \in 1..n : stream'[i].ply \in Plies
    BY <1>3, <1>5, <2>1, <2>2
  <2> QED
    BY <1>4, <1>5, <2>3 DEF IInv, Timely
<1>8. Linked'
  BY <1>4, <1>5 DEF IInv, Linked, Typed
<1>9. Guarded'
  BY <1>4, QuietStep DEF Writing
<1> QED
  BY <1>6, <1>7, <1>8, <1>9 DEF IInv

\* The handler links a record, good or not, before it goes on to the next, or notes that
\* the database failed on it.
LEMMA IngestMoveOK == ASSUME IInv, IngestMove PROVE IInv'
<1> DEFINE r == stream[read + 1]
           link == [by |-> r.by, verified |-> Verified(r)]
           m == [moves[r.ply] EXCEPT !.link = link]
           e == [pc |-> "insert", flag |-> <<r.by, "unverifiedMoveRecord">>]
<1>1. /\ moves \in Seq(Move) /\ stream \in Seq(MoveRecord) /\ read \in Nat /\ now \in Nat
      /\ DOMAIN moves = 1..Len(moves) /\ Len(moves) \in Nat /\ Len(stream) \in Nat
      /\ DOMAIN stream = 1..Len(stream) /\ read + 1 \in DOMAIN stream
      /\ emit["handler"].pc = "idle" /\ failed \subseteq 1..Len(stream)
      /\ emit \in [Goroutines -> [pc: {"idle", "insert", "write"}, flag: Flag \cup {<<>>}]]
  BY DEF IInv, Typed, IngestMove
<1>2. r \in MoveRecord /\ r.ply \in Plies /\ r.by \in Dids
  <2>1. r \in MoveRecord
    BY <1>1
  <2>2. r.ply \in Plies
    BY <1>1 DEF IInv, Timely
  <2> QED
    BY <2>1, <2>2 DEF MoveRecord
<1>3. /\ emit' \in {emit, [emit EXCEPT !["handler"] = e]}
      /\ read' = read + 1 /\ UNCHANGED <<flags, records, stream, cursor, now>>
      /\ \/ moves' = [moves EXCEPT ![r.ply].link = link] /\ failed' = failed
         \/ /\ moves' \in {moves, [moves EXCEPT ![r.ply].link = link]}
            /\ failed' = failed \cup {read + 1}
  BY DEF IngestMove, WithLink
<1>4. link \in Link /\ link.by = r.by
  <2>1. Verified(r) \in BOOLEAN
    BY <1>2 DEF Verified, MoveRecord
  <2> QED
    BY <1>2, <2>1 DEF Link
<1>5. e \in [pc: {"idle", "insert", "write"}, flag: Flag \cup {<<>>}]
      /\ e.pc = "insert" /\ e.flag \in Flag
  BY <1>2 DEF Flag, Kinds
<1> HIDE DEF link, e
<1>6. /\ m \in Move /\ m.received = moves[r.ply].received /\ m.link = link
      /\ moves' \in {moves, [moves EXCEPT ![r.ply] = m]}
      /\ read + 1 \notin failed' => moves' = [moves EXCEPT ![r.ply] = m]
      /\ failed \subseteq failed' /\ failed' \subseteq failed \cup {read + 1}
  <2>1. moves[r.ply] \in Move
    BY <1>1, <1>2
  <2>2. m \in Move /\ m.received = moves[r.ply].received /\ m.link = link
    BY <1>4, <2>1 DEF Move
  <2> QED
    BY <1>3, <2>2
<1> HIDE DEF m
<1>7. /\ moves' \in Seq(Move) /\ Len(moves') = Len(moves) /\ DOMAIN moves' = DOMAIN moves
      /\ \A i \in Plies : moves'[i] = moves[i] \/ (i = r.ply /\ moves'[i] = m)
      /\ read + 1 \notin failed' => moves'[r.ply] = m
  <2> DEFINE ms == [moves EXCEPT ![r.ply] = m]
  <2>1. /\ ms \in Seq(Move) /\ Len(ms) = Len(moves) /\ DOMAIN ms = DOMAIN moves
        /\ \A i \in Plies : ms[i] = IF i = r.ply THEN m ELSE moves[i]
    BY <1>1, <1>2, <1>6
  <2> HIDE DEF ms
  <2>2. moves' = moves \/ moves' = ms
    BY <1>6 DEF ms
  <2>3. read + 1 \notin failed' => moves' = ms
    BY <1>6 DEF ms
  <2> QED
    BY <1>1, <1>2, <2>1, <2>2, <2>3
<1> HIDE DEF r
<1>8. \A g \in Goroutines : emit'[g] \in {emit[g], e} /\ (emit'[g] # emit[g] => emit'[g] = e)
  BY <1>1, <1>3
<1>9. Typed'
  <2>1. emit' \in [Goroutines -> [pc: {"idle", "insert", "write"}, flag: Flag \cup {<<>>}]]
    BY <1>1, <1>3, <1>5
  <2>2. \A g \in Goroutines : emit'[g].pc # "idle" => emit'[g].flag \in Flag
    BY <1>5, <1>8 DEF IInv, Typed
  <2>3. failed' \subseteq 1..Len(stream)
    BY <1>1, <1>6
  <2> QED
    BY <1>1, <1>3, <1>7, <2>1, <2>2, <2>3 DEF IInv, Typed
<1>10. Timely'
  <2>1. \A ply \in Plies : moves'[ply].received <= now
    BY <1>6, <1>7 DEF IInv, Timely
  <2> QED
    BY <1>1, <1>3, <1>7, <2>1 DEF IInv, Timely
<1>11. Linked'
  <2>1. \A i \in 1..read + 1 : stream[i].ply \in Plies
    BY <1>1 DEF IInv, Timely
  <2>2. \A i \in (1..read + 1) \ failed' : moves'[stream[i].ply].link.by \in Dids
    <3> SUFFICES ASSUME NEW i \in (1..read + 1) \ failed'
                 PROVE  moves'[stream[i].ply].link.by \in Dids
      OBVIOUS
    <3>1. CASE i = read + 1
      BY <1>2, <1>4, <1>6, <1>7, <2>1, <3>1 DEF r
    <3>2. CASE i # read + 1
      <4>1. i \in (1..read) \ failed
        BY <1>1, <1>6, <3>2
      <4>2. moves[stream[i].ply].link.by \in Dids
        BY <4>1 DEF IInv, Linked
      <4> QED
        BY <1>2, <1>4, <1>6, <1>7, <2>1, <4>2
    <3> QED
      BY <3>1, <3>2
  <2> QED
    BY <1>1, <1>3, <2>2 DEF IInv, Linked, Typed
<1>12. Guarded'
  <2>1. \A g \in Goroutines : Writing(g)' => Writing(g) /\ emit'[g] = emit[g]
    BY <1>5, <1>8 DEF Writing
  <2> QED
    BY <1>3, <2>1, QuietStep
<1> QED
  BY <1>9, <1>10, <1>11, <1>12 DEF IInv

-----------------------------------------------------------------------------
(* The flags.                                                              *)

\* A step of a goroutine on a flag that leaves moves, stream and clock alone.
LEMMA EmitStep ==
  ASSUME IInv, NEW g \in Goroutines,
         NEW e \in [pc: {"idle", "insert", "write"}, flag: Flag \cup {<<>>}],
         e.pc # "idle" => e.flag \in Flag, emit' = [emit EXCEPT ![g] = e],
         flags' \subseteq Flag, records' \in Seq(Flag),
         g = "handler" /\ e.pc # "idle" => emit[g].pc # "idle",
         \/ failed' = failed
         \/ g = "handler" /\ emit[g].pc # "idle" /\ failed' = failed \cup {read},
         UNCHANGED <<moves, stream, cursor, read, now>>
  PROVE  /\ Typed' /\ Timely' /\ Linked'
         /\ \A h \in Goroutines : emit'[h] = IF h = g THEN e ELSE emit[h]
<1>1. /\ emit' \in [Goroutines -> [pc: {"idle", "insert", "write"}, flag: Flag \cup {<<>>}]]
      /\ \A h \in Goroutines : emit'[h] = IF h = g THEN e ELSE emit[h]
  BY DEF IInv, Typed
<1>2. Typed'
  <2>1. \A h \in Goroutines : emit'[h].pc # "idle" => emit'[h].flag \in Flag
    BY <1>1 DEF IInv, Typed
  <2>2. failed' \subseteq 1..Len(stream)
    <3>1. failed \subseteq 1..Len(stream) /\ read \in 0..Len(stream) /\ Len(stream) \in Nat
      BY DEF IInv, Typed
    <3>2. failed' = failed \/ (read > 0 /\ failed' = failed \cup {read})
      BY DEF IInv, Timely
    <3> DEFINE n == Len(stream)
    <3> HIDE DEF n
    <3>3. failed \subseteq 1..n /\ read \in 0..n /\ n \in Nat
      BY <3>1 DEF n
    <3>4. CASE failed' = failed
      BY <3>1, <3>4
    <3>5. CASE read > 0 /\ failed' = failed \cup {read}
      <4>1. read \in 1..n
        BY <3>3, <3>5
      <4>2. failed' \subseteq 1..n
        BY <3>3, <3>5, <4>1
      <4> QED
        BY <4>2 DEF n
    <3> QED
      BY <3>2, <3>4, <3>5
  <2> QED
    BY <1>1, <2>1, <2>2 DEF IInv, Typed
<1>3. emit'["handler"].pc # "idle" => read > 0
  BY <1>1 DEF IInv, Timely
<1>4. Timely' /\ Linked'
  BY <1>3, StillStep DEF IInv, Typed, Linked
<1> QED
  BY <1>1, <1>2, <1>4

\* The row decides who writes the record; who met an error writes none.
LEMMA InsertOnceOK == ASSUME IInv, NEW g \in Goroutines, InsertOnce(g) PROVE IInv'
<1> DEFINE f == emit[g].flag
           e == emit'[g]
<1>1. /\ emit[g] \in [pc: {"idle", "insert", "write"}, flag: Flag \cup {<<>>}]
      /\ f \in Flag /\ flags \subseteq Flag /\ records \in Seq(Flag) /\ emit[g].pc = "insert"
      /\ emit \in [Goroutines -> [pc: {"idle", "insert", "write"}, flag: Flag \cup {<<>>}]]
  BY DEF IInv, Typed, InsertOnce
<1>2. /\ emit' = [emit EXCEPT ![g] = e] /\ flags \subseteq flags' /\ flags' \subseteq flags \cup {f}
      /\ e \in {[emit[g] EXCEPT !.pc = "write"], Quiet}
      /\ e # Quiet => IsNew(f) /\ f \in flags'
      /\ records' = records /\ UNCHANGED <<moves, stream, cursor, read, now>>
      /\ \/ failed' = failed
         \/ g = "handler" /\ failed' = failed \cup {read}
  <2>1. CASE GiveUp(g)
    BY <1>1, <2>1 DEF InsertOnce, GiveUp
  <2>2. CASE ~GiveUp(g)
    <3>1. /\ emit' = [emit EXCEPT ![g] =
                        IF IsNew(f) THEN [emit[g] EXCEPT !.pc = "write"] ELSE Quiet]
          /\ flags' = flags \cup {f} /\ failed' = failed
          /\ UNCHANGED <<moves, records, stream, cursor, read, now>>
      BY <1>1, <2>2 DEF InsertOnce
    <3>2. e = IF IsNew(f) THEN [emit[g] EXCEPT !.pc = "write"] ELSE Quiet
      BY <1>1, <3>1
    <3> QED
      BY <1>1, <3>1, <3>2
  <2> QED
    BY <2>1, <2>2
<1>3. /\ e \in [pc: {"idle", "insert", "write"}, flag: Flag \cup {<<>>}]
      /\ e.pc = "write" => IsNew(f) /\ e.flag = f /\ f \in flags'
      /\ e.pc \in {"idle", "write"}
  BY <1>1, <1>2, QuietOK
<1> HIDE DEF e, f
<1>4. /\ Typed' /\ Timely' /\ Linked'
      /\ \A h \in Goroutines : emit'[h] = IF h = g THEN e ELSE emit[h]
  <2>1. flags' \subseteq Flag /\ records' \in Seq(Flag) /\ (e.pc # "idle" => e.flag \in Flag)
    BY <1>1, <1>2, <1>3
  <2> QED
    BY <1>1, <1>2, <1>3, <2>1, EmitStep
<1>5. Guarded'
  <2>1. IsNew(f) => ~Recorded(f) /\ \A h \in Goroutines : Writing(h) => emit[h].flag # f
    BY DEF IsNew, IInv, Guarded, Recorded
  <2>2. \A h \in Goroutines : Writing(h)' =>
          \/ h = g /\ emit'[h].flag = f /\ IsNew(f) /\ f \in flags'
          \/ h # g /\ Writing(h) /\ emit'[h] = emit[h]
    BY <1>3, <1>4 DEF Writing
  <2>4. \A h, k \in Goroutines :
          Writing(h)' /\ Writing(k)' /\ emit'[h].flag = emit'[k].flag => h = k
    BY <2>1, <2>2 DEF IInv, Guarded
  <2>5. \A i \in DOMAIN records' : records'[i] \in flags'
    BY <1>2 DEF IInv, Guarded
  <2>6. \A h \in Goroutines :
          Writing(h)' => emit'[h].flag \in flags' /\ ~Recorded(emit[h].flag)'
    BY <1>2, <2>1, <2>2 DEF IInv, Guarded, Recorded
  <2> QED
    BY <1>2, <2>4, <2>5, <2>6 DEF IInv, Guarded
<1> QED
  BY <1>4, <1>5 DEF IInv

\* A record is written by the call that inserted the row, or not at all.
LEMMA WriteRecordOK == ASSUME IInv, NEW g \in Goroutines, WriteRecord(g) PROVE IInv'
<1> DEFINE f == emit[g].flag
           n == Len(records) + 1
<1>1. /\ Writing(g) /\ f \in Flag /\ flags \subseteq Flag /\ records \in Seq(Flag)
      /\ Len(records) \in Nat /\ DOMAIN records = 1..Len(records)
  BY DEF IInv, Typed, WriteRecord, Writing
<1>2. /\ emit' = [emit EXCEPT ![g] = Quiet] /\ flags' = flags
      /\ records' = Append(records, f) \/ records' = records
      /\ UNCHANGED <<moves, stream, cursor, read, now>> /\ emit[g].pc = "write"
      /\ \/ failed' = failed
         \/ g = "handler" /\ failed' = failed \cup {read}
  BY DEF WriteRecord, GiveUp
<1> HIDE DEF f
<1>3. /\ Append(records, f) \in Seq(Flag) /\ DOMAIN Append(records, f) = 1..n
      /\ \A i \in 1..Len(records) : Append(records, f)[i] = records[i]
      /\ Append(records, f)[n] = f
  BY <1>1, AppendProperties
<1>4. /\ Typed' /\ Timely' /\ Linked'
      /\ \A h \in Goroutines : emit'[h] = IF h = g THEN Quiet ELSE emit[h]
  <2>1. flags' \subseteq Flag /\ records' \in Seq(Flag)
    BY <1>1, <1>2, <1>3
  <2> QED
    BY <1>2, <2>1, QuietOK, EmitStep
<1>5. \A h \in Goroutines : Writing(h)' => h # g /\ Writing(h) /\ emit'[h] = emit[h]
  BY <1>4, QuietOK DEF Writing
<1>6. CASE records' = records
  <2>1. Guarded'
    BY <1>2, <1>5, <1>6, QuietStep
  <2> QED
    BY <1>4, <2>1 DEF IInv
<1>7. CASE records' = Append(records, f)
  <2>1. /\ f \in flags /\ ~Recorded(f)
        /\ \A h \in Goroutines \ {g} : Writing(h) => emit[h].flag # f
    BY <1>1 DEF IInv, Guarded, f
  <2>2. \A i \in 1..n : i \in 1..Len(records) \/ i = n
    BY <1>1
  <2>3. \A i \in 1..n : /\ (i \in 1..Len(records) => records'[i] = records[i] /\ records[i] # f)
                         /\ (i = n => records'[i] = f)
    BY <1>1, <1>3, <1>7, <2>1 DEF Recorded
  <2>4. DOMAIN records' = 1..n
    BY <1>3, <1>7
  <2>5. \A i, j \in DOMAIN records' : records'[i] = records'[j] => i = j
    BY <1>1, <2>2, <2>3, <2>4 DEF IInv, Guarded
  <2>6. \A i \in DOMAIN records' : records'[i] \in flags
    BY <1>1, <2>1, <2>2, <2>3, <2>4 DEF IInv, Guarded
  <2>7. \A h \in Goroutines :
          Writing(h)' => emit'[h].flag \in flags /\ ~Recorded(emit[h].flag)'
    BY <1>1, <1>5, <2>1, <2>2, <2>3, <2>4 DEF IInv, Guarded, Recorded
  <2>8. \A h, k \in Goroutines :
          Writing(h)' /\ Writing(k)' /\ emit'[h].flag = emit'[k].flag => h = k
    BY <1>5 DEF IInv, Guarded
  <2> QED
    BY <1>2, <1>4, <2>5, <2>6, <2>7, <2>8 DEF IInv, Guarded
<1> QED
  BY <1>2, <1>6, <1>7

\* The sweep blames the player of a move, an agent in any case.
LEMMA FlagMissingOK == ASSUME IInv, FlagMissing PROVE IInv'
<1> DEFINE e == [pc |-> "insert", flag |-> <<PlayerAt(Head(sweep)), "missingMoveRecord">>]
<1>1. /\ e \in [pc: {"idle", "insert", "write"}, flag: Flag \cup {<<>>}]
      /\ e.pc = "insert" /\ e.flag \in Flag
  BY PlayerIsDid DEF Flag, Kinds
<1>2. /\ emit' = [emit EXCEPT !["sweeper"] = e]
      /\ UNCHANGED <<flags, records, moves, stream, cursor, read, failed, now>>
  BY DEF FlagMissing
<1> HIDE DEF e
<1>3. /\ Typed' /\ Timely' /\ Linked'
      /\ \A h \in Goroutines : emit'[h] = IF h = "sweeper" THEN e ELSE emit[h]
  <2>1. flags' \subseteq Flag /\ records' \in Seq(Flag)
    BY <1>2 DEF IInv, Typed
  <2> QED
    BY <1>1, <1>2, <2>1, EmitStep
<1>4. Guarded'
  <2>1. \A g \in Goroutines : Writing(g)' => Writing(g) /\ emit'[g] = emit[g]
    BY <1>1, <1>3 DEF Writing
  <2> QED
    BY <1>2, <2>1, QuietStep
<1> QED
  BY <1>3, <1>4 DEF IInv

\* A restart resumes at the stored cursor, behind which all is linked.
LEMMA RestartOK == ASSUME IInv, Restart PROVE IInv'
<1>1. /\ read' = cursor /\ emit' = [g \in Goroutines |-> Quiet]
      /\ UNCHANGED <<moves, flags, records, stream, cursor, failed, now>>
      /\ cursor \in Nat /\ cursor <= read /\ read \in 0..Len(stream) /\ Len(stream) \in Nat
  BY DEF Restart, Resume, IInv, Typed, Linked
<1>2. Typed'
  BY <1>1, QuietOK DEF IInv, Typed
<1>3. Timely' /\ Linked'
  BY <1>1, QuietOK DEF IInv, Timely, Linked
<1>4. Guarded'
  BY <1>1, QuietOK, QuietStep DEF Writing
<1> QED
  BY <1>2, <1>3, <1>4 DEF IInv

-----------------------------------------------------------------------------
(* The theorems.                                                           *)

\* Nothing has been published.
LEMMA InitOK == Init => IInv
  BY QuietOK DEF Init, IInv, Typed, Timely, Guarded, Linked, Writing

\* Every step keeps the invariant.
THEOREM NextOK == IInv /\ [Next]_vars => IInv'
<1> SUFFICES ASSUME IInv, [Next]_vars PROVE IInv'
  OBVIOUS
<1>1. CASE SaveCursor \/ ListMissing \/ Tick \/ UNCHANGED vars
  <2>1. /\ UNCHANGED <<moves, flags, records, stream, read, failed, emit>>
        /\ cursor' \in {cursor, read} /\ now' \in {now, now + 1}
    BY <1>1 DEF SaveCursor, ListMissing, Tick, vars
  <2>2. /\ now \in Nat /\ now' \in Nat /\ now' >= now
        /\ read \in Nat /\ cursor' \in Nat /\ cursor' <= read
    BY <2>1 DEF IInv, Typed, Linked
  <2>3. Typed'
    BY <2>1, <2>2 DEF IInv, Typed
  <2>4. Timely' /\ Linked'
    BY <2>1, <2>2, StillStep DEF IInv, Timely
  <2>5. Guarded'
    BY <2>1, QuietStep DEF Writing
  <2> QED
    BY <2>3, <2>4, <2>5 DEF IInv
<1> QED
  BY <1>1, AcceptMoveOK, PublishOK, IngestMoveOK, InsertOnceOK, WriteRecordOK,
     FlagMissingOK, RestartOK DEF Next, Handler, Sweeper, Emit

\* Every variable keeps its type.
THEOREM TypeCorrect == Spec => []TypeOK
<1>1. IInv => TypeOK
  <2> SUFFICES ASSUME IInv PROVE TypeOK
    OBVIOUS
  <2>1. \A ply \in Plies :
          /\ moves[ply].received \in 0..now
          /\ moves[ply].link \in
               [by: Dids \cup {Null}, verified: BOOLEAN]
    <3> SUFFICES ASSUME NEW ply \in Plies
                 PROVE  /\ moves[ply].received \in 0..now
                        /\ moves[ply].link \in
                             [by: Dids \cup {Null}, verified: BOOLEAN]
      OBVIOUS
    <3>1. moves[ply] \in Move
      BY DEF IInv, Typed
    <3> QED
      BY <3>1 DEF IInv, Typed, Timely, Move, Link
  <2>2. \A i \in DOMAIN records : records[i] \in Flag
    BY DEF IInv, Typed
  <2> QED
    BY <2>1, <2>2 DEF IInv, Typed, TypeOK
<1> QED
  BY <1>1, InitOK, NextOK, PTL DEF Spec

\* Every flag is published once, however often the stream is read again and although
\* the handler and the sweep raise the same flags.
THEOREM PublishedOnce == Spec => []RecordedOnce
<1>1. IInv => RecordedOnce
  BY DEF IInv, Guarded, RecordedOnce
<1> QED
  BY <1>1, InitOK, NextOK, PTL DEF Spec

\* A published move record is skipped only where the database failed on it, over
\* restarts as well.
THEOREM ReadInOrder == Spec => []NoneIsSkipped
<1>1. IInv => NoneIsSkipped
  BY NoLinkOK DEF IInv, Linked, NoneIsSkipped, Passed
<1> QED
  BY <1>1, InitOK, NextOK, PTL DEF Spec

=============================================================================
