---------------------------- MODULE RecordsProofs ----------------------------
(***************************************************************************)
(* Proofs about the way of a record of the service account: its keys sort  *)
(* (TidGenerator), for every number of clock IDs and every behaviour of the*)
(* wall clock; it is created once (ServiceWriter), for every number of     *)
(* calls, expiries and broken connections; and its bytes are canonical and *)
(* read alike from both transports (RecordCodec), for every number of      *)
(* messages read before.                                                   *)
(***************************************************************************)
EXTENDS MCRecords, SequenceTheorems, FiniteSetTheorems, NaturalsInduction,
        WellFoundedInduction, TLAPS

\* The last key is the generator's state, encoded.
KeyIsState == tid # -1 => tid = NewTID(lastMicros, lastClockSeq)

KeyInv == TypeOK /\ DriftIsBounded /\ KeyIsState

\* Keys sort by their microsecond, whatever their clock IDs are.
LEMMA LaterMicrosecondSortsAfter ==
  ASSUME NEW m \in Nat, NEW n \in Nat, m < n,
         NEW c \in 0..(Slots - 1), NEW d \in 0..(Slots - 1)
  PROVE  NewTID(m, c) < NewTID(n, d)
<1>1. PICK k \in Nat : n = m + 1 + k
  <2>1. n - m - 1 \in Nat /\ n = m + 1 + (n - m - 1)
    OBVIOUS
  <2> QED BY <2>1
<1>2. n * Slots = m * Slots + Slots + k * Slots
  BY <1>1, SlotsAssumption
<1>3. k * Slots >= 0 /\ k * Slots \in Nat /\ m * Slots \in Nat
  BY <1>1, SlotsAssumption
<1> QED
  BY <1>2, <1>3, SlotsAssumption DEF NewTID

\* A key is a pair of a microsecond and a clock ID.
LEMMA NewTIDType ==
  ASSUME NEW m \in Nat, NEW c \in 0..(Slots - 1)
  PROVE  NewTID(m, c) \in Nat
<1>1. m * Slots \in Nat
  BY SlotsAssumption
<1> QED BY <1>1, SlotsAssumption DEF NewTID

\* The clock ID handed to NewTID is the collision counter: it never wraps.
LEMMA ClockIdIsCounter ==
  ASSUME NEW s \in 0..(Slots - 1)
  PROVE  (clockID + s) % Slots = s
BY SlotsAssumption DEF clockID

\* What Choose does to the generator: it stays well-formed, the encoded state
\* grows, and it runs ahead of the clock by one slot at most.
LEMMA ChooseAdvances ==
  ASSUME TypeOK, NEW m, NEW s, Choose(m, s)
  PROVE  /\ m \in Nat /\ s \in 0..(Slots - 1)
         /\ NewTID(lastMicros, lastClockSeq) < NewTID(m, s)
         /\ \/ m = wall /\ s = 0
            \/ m = lastMicros /\ s = lastClockSeq + 1
            \/ m = lastMicros + 1 /\ s = 0 /\ lastClockSeq = Slots - 1
<1> USE SlotsAssumption
<1>1. CASE wall > lastMicros /\ Fresh(m, s)
  <2>1. m \in Nat /\ s \in 0..(Slots - 1) /\ lastMicros < m
    BY <1>1 DEF Fresh, TypeOK
  <2>2. NewTID(lastMicros, lastClockSeq) < NewTID(m, s)
    BY <2>1, LaterMicrosecondSortsAfter DEF TypeOK
  <2> QED BY <1>1, <2>1, <2>2 DEF Fresh
<1>2. CASE wall <= lastMicros /\ lastClockSeq < Slots - 1 /\ Bump(m, s)
  <2>1. m * Slots = lastMicros * Slots /\ lastMicros * Slots \in Int
    BY <1>2 DEF Bump, TypeOK
  <2> QED BY <1>2, <2>1 DEF Bump, TypeOK, NewTID
<1>3. CASE wall <= lastMicros /\ lastClockSeq >= Slots - 1 /\ Exhausted(m, s)
  <2>1. m \in Nat /\ s \in 0..(Slots - 1) /\ lastMicros < m
    BY <1>3 DEF Exhausted, TypeOK
  <2>2. NewTID(lastMicros, lastClockSeq) < NewTID(m, s)
    BY <2>1, LaterMicrosecondSortsAfter DEF TypeOK
  <2> QED BY <1>3, <2>1, <2>2 DEF Exhausted, TypeOK
<1> QED BY <1>1, <1>2, <1>3 DEF Choose

\* The generator starts in the inductive invariant.
LEMMA KeyInitOK == Init => KeyInv
<1> SUFFICES ASSUME Init PROVE KeyInv
  OBVIOUS
<1>1. TypeOK
  BY SlotsAssumption, TidBoundsAssumption DEF Init, TypeOK
<1>2. (lastMicros - latest) * Slots = 0
  BY SlotsAssumption DEF Init
<1> QED BY <1>1, <1>2 DEF Init, KeyInv, DriftIsBounded, KeyIsState

\* A key is what Choose made of the generator's state.
LEMMA KeyOfStep ==
  ASSUME TypeOK, NextTID
  PROVE  tid' = NewTID(lastMicros', lastClockSeq')
<1>1. lastClockSeq' \in 0..(Slots - 1)
  BY ChooseAdvances DEF NextTID
<1> QED BY <1>1, ClockIdIsCounter DEF NextTID

\* A later microsecond is at least a full set of clock IDs later.
LEMMA TimesSlotsGrows ==
  ASSUME NEW x \in Int, NEW y \in Int, x <= y
  PROVE  x * Slots <= y * Slots
<1> USE SlotsAssumption
<1>1. PICK z \in Nat : y = x + z
  <2>1. y - x \in Nat /\ y = x + (y - x)
    OBVIOUS
  <2> QED BY <2>1
<1>2. y * Slots = x * Slots + z * Slots
  BY <1>1
<1>3. z * Slots >= 0 /\ z * Slots \in Int /\ x * Slots \in Int
  BY <1>1
<1> QED BY <1>2, <1>3

\* A key costs one slot of the distance to the clock at most.
LEMMA LaterClockIsCloser ==
  ASSUME NEW m \in Int, NEW a \in Int, NEW b \in Int, a <= b
  PROVE  m - b \in Int /\ m - a \in Int /\ m - b <= m - a /\ a - b <= 0
OBVIOUS

\* The distance to the clock grows by one slot a key at most.
LEMMA DriftStep ==
  ASSUME TypeOK, DriftIsBounded, NextTID
  PROVE  DriftIsBounded'
<1> USE SlotsAssumption
<1>0. /\ wall \in Nat /\ latest \in Nat /\ issued \in Nat /\ lastMicros \in Nat
      /\ lastClockSeq \in 0..(Slots - 1)
  BY DEF TypeOK
<1>1. latest' \in Nat /\ latest <= latest' /\ wall <= latest' /\ issued' = issued + 1
  BY <1>0 DEF NextTID
<1>2. lastMicros' \in Nat /\ lastClockSeq' \in 0..(Slots - 1)
  BY ChooseAdvances DEF NextTID
<1>3. lastMicros' - latest' \in Int /\ lastMicros' - latest \in Int
      /\ lastMicros - latest \in Int
      /\ lastMicros' - latest' <= lastMicros' - latest
  <2>1. latest \in Int /\ latest' \in Int /\ lastMicros \in Int /\ latest <= latest'
    BY <1>0, <1>1
  <2>2. lastMicros' \in Int
    BY <1>2
  <2>3. lastMicros' - latest' \in Int
    BY <2>1, <2>2
  <2>4. lastMicros' - latest \in Int /\ lastMicros - latest \in Int
    BY <2>1, <2>2
  <2>5. lastMicros' - latest' <= lastMicros' - latest
    BY <2>1, <2>2, LaterClockIsCloser
  <2> QED BY <2>3, <2>4, <2>5
<1> DEFINE old  == (lastMicros - latest) * Slots
           mid  == (lastMicros' - latest) * Slots
           new  == (lastMicros' - latest') * Slots
<1>4. new <= mid
  BY <1>3, TimesSlotsGrows
<1>5. old \in Int /\ mid \in Int /\ new \in Int
  BY <1>3
<1>6. old + lastClockSeq <= issued
  BY DEF DriftIsBounded
<1> SUFFICES new + lastClockSeq' <= issued'
  BY DEF DriftIsBounded
<1>7. CASE lastMicros' = wall /\ lastClockSeq' = 0
  <2>1. lastMicros' - latest' <= 0
    <3>1. wall \in Int /\ latest' \in Int /\ wall <= latest'
      BY <1>0, <1>1
    <3>2. wall - latest' <= 0
      BY <3>1, LaterClockIsCloser
    <3> QED BY <3>2, <1>7
  <2>2. new <= 0 * Slots /\ 0 * Slots = 0
    BY <2>1, <1>3, TimesSlotsGrows
  <2> HIDE DEF new
  <2> QED BY <2>2, <1>0, <1>1, <1>5, <1>7
<1>8. CASE lastMicros' = lastMicros /\ lastClockSeq' = lastClockSeq + 1
  <2>1. mid = old
    BY <1>8
  <2> HIDE DEF old, mid, new
  <2> QED BY <2>1, <1>0, <1>1, <1>4, <1>5, <1>6, <1>8
<1>9. CASE lastMicros' = lastMicros + 1 /\ lastClockSeq' = 0 /\ lastClockSeq = Slots - 1
  <2>1. lastMicros' - latest = (lastMicros - latest) + 1
    BY <1>0, <1>9
  <2>2. mid = old + Slots
    BY <2>1, <1>3
  <2> HIDE DEF old, mid, new
  <2> QED BY <2>2, <1>0, <1>1, <1>4, <1>5, <1>6, <1>9
<1> QED BY <1>7, <1>8, <1>9, ChooseAdvances DEF NextTID

\* Every key drawn, every step of the clock and every stutter keep the
\* invariant.
LEMMA KeyNextOK == KeyInv /\ [Next]_vars => KeyInv'
<1> SUFFICES ASSUME KeyInv, [Next]_vars PROVE KeyInv'
  OBVIOUS
<1> USE SlotsAssumption, TidBoundsAssumption
<1>1. CASE NextTID
  <2>1. /\ lastMicros' \in Nat /\ lastClockSeq' \in 0..(Slots - 1)
        /\ tid' = NewTID(lastMicros', lastClockSeq')
    BY <1>1, ChooseAdvances, KeyOfStep DEF NextTID, KeyInv
  <2>2. tid' \in Nat
    BY <2>1, NewTIDType
  <2>3. TypeOK'
    BY <1>1, <2>1, <2>2 DEF KeyInv, TypeOK, NextTID
  <2>4. DriftIsBounded'
    BY <1>1, DriftStep DEF KeyInv
  <2> QED BY <2>1, <2>3, <2>4 DEF KeyInv, KeyIsState
<1>2. CASE SetClock
  BY <1>2 DEF SetClock, KeyInv, TypeOK, DriftIsBounded, KeyIsState
<1>3. CASE Restart
  <2>1. (lastMicros' - latest') * Slots = 0
    BY <1>3 DEF Restart
  <2> QED BY <1>3, <2>1 DEF Restart, KeyInv, TypeOK, DriftIsBounded, KeyIsState
<1>4. CASE UNCHANGED vars
  BY <1>4 DEF vars, KeyInv, TypeOK, DriftIsBounded, KeyIsState
<1> QED BY <1>1, <1>2, <1>3, <1>4 DEF Next

\* The generator runs ahead of the wall clock by a microsecond for every Slots
\* keys at most (generator.Next, its default case).
THEOREM DriftAlwaysBounded == Spec => []DriftIsBounded
<1>1. KeyInv => DriftIsBounded
  BY DEF KeyInv
<1> QED BY KeyInitOK, KeyNextOK, <1>1, PTL DEF Spec

\* Every key of a process sorts after all its earlier ones, whatever the wall
\* clock does and however many keys fall into a microsecond (generator.Next).
THEOREM KeysStrictlyIncrease == Spec => StrictlyIncreasing
<1>1. KeyInv /\ [Next]_vars => [issued' > issued => tid' > tid]_vars
  <2> SUFFICES ASSUME KeyInv, Next, issued' > issued PROVE tid' > tid
    BY DEF vars
  <2>1. NextTID
    BY SlotsAssumption DEF Next, SetClock, Restart, KeyInv, TypeOK
  <2>2. /\ lastMicros' \in Nat /\ lastClockSeq' \in 0..(Slots - 1)
        /\ NewTID(lastMicros, lastClockSeq) < NewTID(lastMicros', lastClockSeq')
        /\ tid' = NewTID(lastMicros', lastClockSeq')
    BY <2>1, ChooseAdvances, KeyOfStep DEF NextTID, KeyInv
  <2>3. tid' \in Nat
    BY <2>2, NewTIDType
  <2> QED BY <2>2, <2>3 DEF KeyInv, KeyIsState
<1> QED BY KeyInitOK, KeyNextOK, <1>1, PTL DEF Spec, StrictlyIncreasing

-----------------------------------------------------------------------------
(* The writer.                                                             *)

\* The stations before the answer of the PDS to the last request of a call.
Pending == {"idle", "sent", "lock", "refresh", "create", "retry"}

CallState == [pc: Pending \cup W!Over, token: Nat, tries: 0..2]

\* Why a retry is safe: a call is on its way to another request only as long
\* as the repo holds no record of it.
Unwritten ==
  \A c \in Calls : /\ repo[c] \in {0, 1}
                   /\ call[c].pc \in Pending => repo[c] = 0
                   /\ call[c].pc = "done" => repo[c] = 1

\* How many requests a call has sent at each station: two at most.
Tries ==
  \A c \in Calls :
    /\ call[c].pc = "idle" => call[c].tries = 0
    /\ call[c].pc = "sent" => call[c].tries \in {1, 2}
    /\ call[c].pc \in {"lock", "refresh", "create", "retry"} => call[c].tries = 1

WriteInv ==
  /\ call \in [Calls -> CallState]
  /\ session \in Nat /\ pdsIssued \in Nat
  /\ repo \in [Calls -> Nat]
  /\ Unwritten
  /\ Tries

USE DEF W!At, W!Goes, CallState, Pending, W!Over

\* Before the first call nothing is written.
LEMMA WriterInitOK == W!Init => WriteInv
  BY DEF W!Init, WriteInv, Unwritten, Tries, W!Quiet

\* A step that takes one call on, with or without a record of it written.
LEMMA CallStep ==
  ASSUME WriteInv, NEW c \in Calls, NEW q \in CallState, NEW n \in {0, 1},
         call' = [call EXCEPT ![c] = q], repo' = [repo EXCEPT ![c] = n],
         session' \in Nat, pdsIssued' \in Nat,
         q.pc \in Pending => n = 0, q.pc = "done" => n = 1,
         q.pc = "idle" => q.tries = 0,
         q.pc = "sent" => q.tries \in {1, 2},
         q.pc \in {"lock", "refresh", "create", "retry"} => q.tries = 1
  PROVE  WriteInv'
BY DEF WriteInv, Unwritten, Tries

\* A step that only takes one call from one station to the next.
LEMMA GoStep ==
  ASSUME WriteInv, NEW c \in Calls, NEW pc, W!Goes(c, pc), session' \in Nat, pdsIssued' \in Nat, repo' = repo,
         \/ pc \in {"failed", "denied"}
         \/ /\ pc \in {"lock", "refresh", "create", "retry"}
            /\ call[c].pc \in Pending /\ call[c].tries = 1
  PROVE  WriteInv'
<1> DEFINE q == [call[c] EXCEPT !.pc = pc]
<1>1. call[c] \in CallState /\ repo[c] \in {0, 1}
  BY DEF WriteInv, Unwritten
<1>2. q \in CallState /\ q.pc = pc /\ q.tries = call[c].tries
  BY <1>1
<1>3. call' = [call EXCEPT ![c] = q] /\ repo' = [repo EXCEPT ![c] = repo[c]]
  BY DEF WriteInv
<1>4. pc \in {"lock", "refresh", "create", "retry"} => repo[c] = 0
  BY DEF WriteInv, Unwritten
<1> HIDE DEF q
<1> QED
  BY <1>1, <1>2, <1>3, <1>4, CallStep

\* A call sends its request, the first or the second.
LEMMA SendOK == ASSUME WriteInv, NEW c \in Calls, W!Send(c) PROVE WriteInv'
<1> DEFINE q == [pc |-> "sent", token |-> session, tries |-> call[c].tries + 1]
<1>1. call[c] \in CallState /\ repo[c] = 0 /\ call[c].tries \in {0, 1}
  BY DEF W!Send, WriteInv, Unwritten, Tries
<1>2. q \in CallState
  BY <1>1 DEF WriteInv
<1>3. call' = [call EXCEPT ![c] = q] /\ repo' = [repo EXCEPT ![c] = 0]
  BY <1>1 DEF W!Send, W!pds, WriteInv
<1>4. session' \in Nat /\ pdsIssued' \in Nat
  BY DEF W!Send, W!pds, WriteInv
<1>5. q.pc = "sent" /\ q.tries \in {1, 2}
  BY <1>1
<1> HIDE DEF q
<1> QED
  BY <1>2, <1>3, <1>4, <1>5, CallStep

\* A step that writes the record and takes its call out of the way of a retry.
LEMMA WriteStep ==
  ASSUME WriteInv, NEW c \in Calls, call[c].pc = "sent", NEW pc \in {"done", "failed"},
         W!Goes(c, pc), repo' = [repo EXCEPT ![c] = @ + 1], session' = session, pdsIssued' = pdsIssued
  PROVE  WriteInv'
<1> DEFINE q == [call[c] EXCEPT !.pc = pc]
<1>1. call[c] \in CallState /\ repo[c] = 0
  BY DEF WriteInv, Unwritten
<1>2. q \in CallState /\ q.pc = pc
  BY <1>1
<1>3. call' = [call EXCEPT ![c] = q] /\ repo' = [repo EXCEPT ![c] = 1]
  BY <1>1 DEF WriteInv
<1> HIDE DEF q
<1> QED
  BY <1>2, <1>3, CallStep DEF WriteInv

\* The PDS answers a request, by a record or by a refusal.
LEMMA ServedOK == ASSUME WriteInv, NEW c \in Calls, W!Served(c) PROVE WriteInv'
<1>1. CASE call[c].token \in live
  BY <1>1, WriteStep DEF W!Served, W!pds
<1>2. CASE call[c].token \notin live
  BY <1>2, GoStep DEF W!Served, W!pds, W!AfterExpired, WriteInv, Tries
<1> QED
  BY <1>1, <1>2

\* An error other than a refusal ends the call, written or not.
LEMMA BrokenOK == ASSUME WriteInv, NEW c \in Calls, W!Broken(c) PROVE WriteInv'
<1>1. call[c].pc = "sent" /\ W!Goes(c, "failed") /\ session' = session /\ pdsIssued' = pdsIssued
  BY DEF W!Broken, W!pds, W!AfterError
<1>2. CASE repo' = repo
  BY <1>1, <1>2, GoStep DEF WriteInv
<1>3. CASE repo' = [repo EXCEPT ![c] = @ + 1]
  BY <1>1, <1>3, WriteStep
<1> QED
  BY <1>2, <1>3 DEF W!Broken

\* Every step, and every stutter, keeps the invariant.
THEOREM WriterNextOK == WriteInv /\ [W!Next]_(W!vars) => WriteInv'
<1> SUFFICES ASSUME WriteInv, [W!Next]_(W!vars) PROVE WriteInv'
  OBVIOUS
<1>1. ASSUME NEW c \in Calls, W!Step(c) PROVE WriteInv'
  <2>0. /\ session \in Nat /\ pdsIssued \in Nat
        /\ call[c].pc \in {"lock", "refresh", "create"} =>
             call[c].pc \in Pending /\ call[c].tries = 1
    BY DEF WriteInv, Tries
  <2>1. CASE W!Lock(c)
    BY <2>0, <2>1, GoStep DEF W!Lock, W!pds
  <2>2. CASE W!RefreshSession(c) /\ ~renewable
    BY <2>0, <2>2, GoStep DEF W!RefreshSession, W!pds
  <2>3. CASE W!Renew(c) /\ call[c].pc \in {"refresh", "create"}
    <3>1. session' \in Nat /\ pdsIssued' \in Nat /\ repo' = repo /\ W!Goes(c, "retry")
      BY <2>0, <2>3 DEF W!Renew
    <3> QED
      BY <2>0, <2>3, <3>1, GoStep
  <2>4. CASE W!RefreshBroken(c)
    BY <2>0, <2>4, GoStep DEF W!RefreshBroken, W!pds
  <2>5. CASE W!CreateSessionFails(c)
    BY <2>0, <2>5, GoStep DEF W!CreateSessionFails, W!pds
  <2>6. W!RefreshSession(c) \/ W!CreateSession(c) => WriteInv'
    BY <2>2, <2>3 DEF W!RefreshSession, W!CreateSession
  <2>7. W!Send(c) \/ W!Served(c) \/ W!Broken(c) => WriteInv'
    BY SendOK, ServedOK, BrokenOK
  <2> QED
    BY <1>1, <2>1, <2>4, <2>5, <2>6, <2>7 DEF W!Step
<1>2. CASE W!Expire
  BY <1>2 DEF W!Expire, WriteInv, Unwritten, Tries
<1>3. CASE UNCHANGED W!vars
  BY <1>3 DEF W!vars, W!pds, WriteInv, Unwritten, Tries
<1> QED
  BY <1>1, <1>2, <1>3 DEF W!Next

\* What the run checks, where the parts take turns, is a behaviour of the keys and
\* one of the writer.
LEMMA PartsBehave == MCSpec => Spec /\ W!Spec
<1>1. MCInit => Init /\ W!Init
  BY DEF MCInit
<1>2. [MCNext]_<<part, vars, codec, writer>> => [Next]_vars /\ [W!Next]_(W!vars)
  BY DEF MCNext, Part, vars, writer, W!vars
<1> QED
  BY <1>1, <1>2, PTL DEF MCSpec, Spec, W!Spec

\* A retried write never creates its record twice, also when an answer is lost.
THEOREM WrittenOnce == MCSpec => []CreatedOnce
<1>1. WriteInv => CreatedOnce
  BY DEF WriteInv, Unwritten, CreatedOnce, W!CreatedOnce
<1> QED
  BY <1>1, PartsBehave, WriterInitOK, WriterNextOK, PTL DEF W!Spec

-----------------------------------------------------------------------------
(* Types, and who may renew the session.                                   *)

\* What TypeOK says of the PDS and of the mutex; WriteInv has the rest.
Tokens == pdsIssued \in Nat /\ session \in 1..pdsIssued /\ live \subseteq 1..pdsIssued
Renewing(c) == call[c].pc \in {"refresh", "create"}
Exclusive == mutex \in Calls \cup {Null} /\ \A c \in Calls : Renewing(c) <=> mutex = c

SInv == WriteInv /\ Tokens /\ renewable \in BOOLEAN /\ Exclusive

\* A call that moves on without the mutex changing hands.
LEMMA KeepMutex ==
  ASSUME SInv, NEW c \in Calls, UNCHANGED <<session, pdsIssued, live, renewable, mutex>>,
         \A d \in Calls \ {c} : call'[d] = call[d], Renewing(c)' <=> Renewing(c)
  PROVE  (Tokens /\ renewable \in BOOLEAN /\ Exclusive)'
BY DEF SInv, Tokens, Exclusive, Renewing

\* Every step keeps the tokens in range and the mutex with the one call that renews.
LEMMA SharedOK ==
  ASSUME Null \notin Calls, SInv, NEW c \in Calls, W!Step(c)
  PROVE  (Tokens /\ renewable \in BOOLEAN /\ Exclusive)'
<1>0. call \in [Calls -> CallState] /\ call[c] \in CallState
  BY DEF SInv, WriteInv
<1>1. CASE W!Send(c)
  BY <1>0, <1>1, KeepMutex DEF W!Send, W!pds, Renewing
<1>2. CASE W!Served(c)
  BY <1>0, <1>2, KeepMutex DEF W!Served, W!AfterExpired, W!pds, Renewing
<1>3. CASE W!Broken(c)
  BY <1>0, <1>3, KeepMutex DEF W!Broken, W!AfterError, W!pds, Renewing
<1>4. CASE W!Lock(c)
  <2>1. \A d \in Calls \ {c} : call'[d] = call[d]
    BY <1>0, <1>4 DEF W!Lock
  <2>2. Renewing(c)' /\ \A d \in Calls : ~Renewing(d)
    BY <1>0, <1>4 DEF W!Lock, SInv, Exclusive, Renewing
  <2>3. Exclusive'
    BY <1>4, <2>1, <2>2 DEF W!Lock, Exclusive, Renewing
  <2> QED
    BY <1>4, <2>3 DEF W!Lock, W!pds, SInv, Tokens
<1>5. CASE W!Renew(c) /\ Renewing(c)
  <2>1. \A d \in Calls \ {c} : call'[d] = call[d] /\ ~Renewing(d)
    BY <1>0, <1>5 DEF W!Renew, SInv, Exclusive
  <2>2. ~Renewing(c)'
    BY <1>0, <1>5 DEF W!Renew, Renewing
  <2>3. Exclusive'
    BY <1>5, <2>1, <2>2 DEF W!Renew, Exclusive, Renewing
  <2>4. Tokens' /\ renewable' \in BOOLEAN
    BY <1>5 DEF W!Renew, SInv, Tokens
  <2> QED
    BY <2>3, <2>4
<1>6. CASE W!RefreshSession(c) /\ ~renewable
  BY <1>0, <1>6, KeepMutex DEF W!RefreshSession, W!pds, Renewing
<1>7. CASE W!RefreshBroken(c)
  BY <1>0, <1>7, KeepMutex DEF W!RefreshBroken, W!pds, Renewing
<1>8. CASE W!CreateSessionFails(c)
  <2>1. \A d \in Calls \ {c} : call'[d] = call[d] /\ ~Renewing(d)
    BY <1>0, <1>8 DEF W!CreateSessionFails, SInv, Exclusive, Renewing
  <2>2. ~Renewing(c)'
    BY <1>0, <1>8 DEF W!CreateSessionFails, Renewing
  <2>3. Exclusive'
    BY <1>8, <2>1, <2>2 DEF W!CreateSessionFails, Exclusive, Renewing
  <2> QED
    BY <1>8, <2>3 DEF W!CreateSessionFails, W!pds, SInv, Tokens
<1>9. W!RefreshSession(c) \/ W!CreateSession(c) =>
        (W!RefreshSession(c) /\ ~renewable) \/ (W!Renew(c) /\ Renewing(c))
  BY DEF W!RefreshSession, W!CreateSession, Renewing
<1> QED
  BY <1>1, <1>2, <1>3, <1>4, <1>5, <1>6, <1>7, <1>8, <1>9 DEF W!Step

\* The types hold, and with them what the mutex is for: one call at a time renews
\* the session (servicerepo.go:176), however the others overlap with it.
THEOREM WriterTypeCorrect == ASSUME Null \notin Calls PROVE MCSpec => []W!TypeOK
<1>1. W!Init => SInv
  BY WriterInitOK DEF W!Init, SInv, Tokens, Exclusive, Renewing, W!Quiet
<1>2. SInv /\ [W!Next]_(W!vars) => SInv'
  <2>1. SUFFICES ASSUME SInv, [W!Next]_(W!vars), WriteInv' PROVE SInv'
    BY WriterNextOK DEF SInv
  <2>2. CASE \E c \in Calls : W!Step(c)
    BY <2>1, <2>2, SharedOK DEF SInv
  <2>3. CASE W!Expire
    BY <2>1, <2>3 DEF W!Expire, SInv, Tokens, Exclusive, Renewing
  <2>4. CASE UNCHANGED W!vars
    BY <2>1, <2>4 DEF W!vars, W!pds, SInv, Tokens, Exclusive, Renewing
  <2> QED
    BY <2>1, <2>2, <2>3, <2>4 DEF W!Next
<1>3. SInv => W!TypeOK
  BY DEF SInv, WriteInv, Tokens, Exclusive, Renewing, W!TypeOK
<1> QED
  BY <1>1, <1>2, <1>3, PartsBehave, PTL DEF W!Spec

-----------------------------------------------------------------------------
(* The bytes. Loops over slices are functions of the number of rounds made;*)
(* what holds after every round is proved with the least number that is    *)
(* not among those it holds for.                                           *)

\* A set of numbers that is not empty has a least one.
LEMMA LeastNumber ==
  ASSUME NEW T, T \subseteq Nat, T # {}
  PROVE  \E n \in T : \A m \in T : ~(m < n)
<1>1. \E n \in T : \A m \in T : ~(<<m, n>> \in OpToRel(<, Nat))
  BY NatLessThanWellFounded, WFMin
<1>2. \A m, n \in Nat : m < n => <<m, n>> \in OpToRel(<, Nat)
  BY DEF OpToRel
<1> QED
  BY <1>1, <1>2

\* A set with 0 and the successor of each of its numbers up to N has them all.
LEMMA NumbersUpTo ==
  ASSUME NEW N \in Nat, NEW T, 0 \in T, \A n \in 0..(N - 1) : n \in T => n + 1 \in T
  PROVE  0..N \subseteq T
<1> SUFFICES ASSUME ~(0..N \subseteq T) PROVE FALSE
  OBVIOUS
<1> DEFINE S == (0..N) \ T
<1>1. S # {} /\ S \subseteq Nat
  OBVIOUS
<1>2. PICK n \in S : \A m \in S : ~(m < n)
  BY <1>1, LeastNumber
<1>3. n # 0 /\ n - 1 \in 0..(N - 1) /\ n - 1 \in T
  BY <1>2
<1> QED
  BY <1>2, <1>3

\* The extras of a struct.
Extra == [key: C!Unknown, format: C!Formats, blob: BOOLEAN]
Extras == Seq(Extra)

KeepRound(s, F, kept, i) ==
  IF i = 0 THEN <<>>
  ELSE IF s[i].format \in F THEN Append(kept[i - 1], s[i]) ELSE kept[i - 1]

\* The loop over the extras is well-defined.
LEMMA RoundsAreMade ==
  ASSUME NEW s \in Extras, NEW F
  PROVE  \E kept : kept = [i \in 0..Len(s) |-> KeepRound(s, F, kept, i)] /\ C!Keep(s, F) = kept[Len(s)]
<1> DEFINE N == Len(s)
           Made(f, k) == f = [i \in 0..k |-> KeepRound(s, F, f, i)]
           T == {k \in 0..N : \E f : Made(f, k)}
<1>0. N \in Nat
  BY DEF Extras
<1>1. 0 \in T
  <2>1. Made([i \in 0..0 |-> <<>>], 0)
    BY DEF KeepRound
  <2> HIDE DEF Made
  <2>2. \E f : Made(f, 0)
    BY <2>1
  <2> QED BY <1>0, <2>2
<1>2. ASSUME NEW k \in 0..(N - 1), k \in T PROVE k + 1 \in T
  <2>1. PICK f : Made(f, k)
    BY <1>2
  <2> DEFINE g == [i \in 0..(k + 1) |-> IF i = k + 1 THEN KeepRound(s, F, f, k + 1) ELSE f[i]]
  <2>2. \A i \in 0..k : f[i] = KeepRound(s, F, f, i)
    BY <2>1
  <2>3. \A i \in 0..k : KeepRound(s, F, g, i) = KeepRound(s, F, f, i)
    BY DEF KeepRound
  <2>4. KeepRound(s, F, g, k + 1) = KeepRound(s, F, f, k + 1)
    BY DEF KeepRound
  <2>5. \A i \in 0..(k + 1) : g[i] = KeepRound(s, F, g, i)
    BY <2>2, <2>3, <2>4
  <2>6. Made(g, k + 1)
    BY <2>5
  <2> HIDE DEF Made, g
  <2>7. \E h : Made(h, k + 1)
    BY <2>6
  <2> QED
    BY <2>7, <1>0
<1>3. N \in T
  <2> HIDE DEF T, N
  <2>1. 0..N \subseteq T
    BY <1>0, <1>1, <1>2, NumbersUpTo
  <2> QED BY <1>0, <2>1
<1>4. \E f : Made(f, N)
  BY <1>3
<1> DEFINE kept == CHOOSE f : Made(f, N)
<1>5. Made(kept, N)
  BY <1>4
<1>6. C!Keep(s, F) = kept[N]
  BY DEF C!Keep, KeepRound
<1> QED
  BY <1>5, <1>6

Picked(s, F, n, r, g) ==
  /\ g \in [1..Len(r) -> 1..n]
  /\ \A i, j \in 1..Len(r) : i < j => g[i] < g[j]
  /\ \A i \in 1..Len(r) : r[i] = s[g[i]] /\ s[g[i]].format \in F
  /\ \A j \in 1..n : s[j].format \in F => \E i \in 1..Len(r) : g[i] = j

\* It keeps the extras of these formats, all of them, in their order: g says where
\* each one was.
LEMMA KeepPicks ==
  ASSUME NEW s \in Extras, NEW F
  PROVE  C!Keep(s, F) \in Extras /\ \E g : Picked(s, F, Len(s), C!Keep(s, F), g)
<1> DEFINE N == Len(s)
<1>0. N \in Nat /\ \A i \in 1..N : s[i] \in Extra
  BY DEF Extras
<1>1. PICK kept : kept = [i \in 0..N |-> KeepRound(s, F, kept, i)] /\ C!Keep(s, F) = kept[N]
  BY RoundsAreMade
<1> DEFINE T == {n \in 0..N : kept[n] \in Extras /\ \E g : Picked(s, F, n, kept[n], g)}
<1>2. \A i \in 0..N : kept[i] = KeepRound(s, F, kept, i)
  BY <1>1
<1>3. 0 \in T
  <2>1. kept[0] = <<>>
    BY <1>0, <1>2 DEF KeepRound
  <2>2. Picked(s, F, 0, <<>>, <<>>)
    BY DEF Picked
  <2>3. <<>> \in Extras /\ 0 \in 0..N
    BY <1>0 DEF Extras
  <2> HIDE DEF N
  <2> QED
    BY <2>1, <2>2, <2>3
<1>4. ASSUME NEW n \in 0..(N - 1), n \in T PROVE n + 1 \in T
  <2>1. PICK g : Picked(s, F, n, kept[n], g)
    BY <1>4
  <2>2. kept[n] \in Seq(Extra) /\ s[n + 1] \in Extra /\ n + 1 \in 0..N /\ n \in Nat
    BY <1>0, <1>4 DEF Extras
  <2> DEFINE L == Len(kept[n])
  <2>3. CASE s[n + 1].format \in F
    <3>1. kept[n + 1] = Append(kept[n], s[n + 1])
      <4>1. kept[n + 1] = KeepRound(s, F, kept, n + 1)
        BY <1>2, <2>2
      <4>2. (n + 1) - 1 = n /\ n + 1 # 0
        BY <2>2
      <4> QED
        BY <4>1, <4>2, <2>3 DEF KeepRound
    <3> DEFINE r == kept[n + 1]
               h == [i \in 1..(L + 1) |-> IF i = L + 1 THEN n + 1 ELSE g[i]]
    <3>2. /\ r \in Seq(Extra) /\ Len(r) = L + 1 /\ r[L + 1] = s[n + 1] /\ L \in Nat
          /\ \A i \in 1..L : r[i] = kept[n][i]
      BY <2>2, <3>1
    <3>3. Picked(s, F, n + 1, r, h)
      <4> HIDE DEF r, L
      <4>1. h \in [1..Len(r) -> 1..(n + 1)]
        BY <2>1, <2>2, <3>2 DEF Picked, L
      <4>2. \A i, j \in 1..Len(r) : i < j => h[i] < h[j]
        <5>1. \A i \in 1..L : g[i] \in 1..n /\ h[i] = g[i]
          <6>1. g \in [1..L -> 1..n]
            BY <2>1 DEF Picked, L
          <6>2. \A i \in 1..L : i \in 1..(L + 1) /\ i # L + 1
            BY <3>2
          <6> QED
            BY <6>1, <6>2
        <5>2. \A i, j \in 1..L : i < j => g[i] < g[j]
          BY <2>1 DEF Picked, L
        <5>3. h[L + 1] = n + 1
          BY <3>2
        <5> HIDE DEF h
        <5> SUFFICES ASSUME NEW i \in 1..(L + 1), NEW j \in 1..(L + 1), i < j PROVE h[i] < h[j]
          BY <3>2
        <5>4. i \in 1..L /\ (j \in 1..L \/ j = L + 1)
          BY <3>2
        <5>5. h[i] = g[i] /\ g[i] \in 1..n /\ n \in Nat
          BY <2>2, <5>1, <5>4
        <5>6. CASE j = L + 1
          BY <5>3, <5>5, <5>6
        <5>7. CASE j \in 1..L
          BY <5>1, <5>2, <5>4, <5>7
        <5> QED BY <5>4, <5>6, <5>7
      <4>3. \A i \in 1..Len(r) : r[i] = s[h[i]] /\ s[h[i]].format \in F
        BY <2>1, <2>2, <2>3, <3>2 DEF Picked, L
      <4>4. ASSUME NEW j \in 1..(n + 1), s[j].format \in F PROVE \E i \in 1..Len(r) : h[i] = j
        <5>1. CASE j = n + 1
          BY <3>2, <5>1
        <5>2. CASE j # n + 1
          <6>1. \E i \in 1..L : g[i] = j
            BY <2>1, <2>2, <4>4, <5>2 DEF Picked, L
          <6>2. \A i \in 1..L : h[i] = g[i]
            BY <3>2
          <6> QED BY <3>2, <6>1, <6>2
        <5> QED BY <5>1, <5>2
      <4> QED
        BY <4>1, <4>2, <4>3, <4>4 DEF Picked
    <3> HIDE DEF r, h
    <3>4. r \in Extras
      BY <3>2 DEF Extras
    <3> QED
      BY <3>3, <3>4, <2>2 DEF r
  <2>4. CASE s[n + 1].format \notin F
    <3>1. kept[n + 1] = kept[n]
      BY <1>0, <1>2, <2>2, <2>4 DEF KeepRound
    <3>2. Picked(s, F, n + 1, kept[n], g)
      BY <2>1, <2>2, <2>4 DEF Picked, Extras
    <3> QED
      BY <3>1, <3>2, <1>4, <2>2
  <2> QED BY <2>3, <2>4
<1>5. N \in T
  <2> HIDE DEF T, N
  <2>1. 0..N \subseteq T
    BY <1>0, <1>3, <1>4, NumbersUpTo
  <2> QED BY <1>0, <2>1
<1> QED
  BY <1>1, <1>5

\* The places of the CBOR extras between two places.
CBORIn(e, a, b) == {j \in a..b : e[j].format = "CBOR"}

\* They are in canonical order, whatever lies between them.
ExtrasInOrder(e) ==
  \A i, j \in 1..Len(e) :
    i < j /\ e[i].format = "CBOR" /\ e[j].format = "CBOR" => C!Precedes(e[i].key, e[j].key)

\* The numbers of a list that goes through a set once are as many as its elements.
LEMMA CountOnce ==
  ASSUME NEW L \in Nat, NEW S, S \subseteq Int, NEW h \in [1..L -> S],
         \A i, j \in 1..L : i < j => h[i] < h[j],
         \A x \in S : \E i \in 1..L : h[i] = x
  PROVE  IsFiniteSet(S) /\ Cardinality(S) = L
<1>1. \A i, j \in 1..L : h[i] = h[j] => i = j
  <2> SUFFICES ASSUME NEW i \in 1..L, NEW j \in 1..L, h[i] = h[j], i # j PROVE FALSE
    OBVIOUS
  <2>1. h[i] \in S /\ h[j] \in S
    OBVIOUS
  <2>2. i < j \/ j < i
    OBVIOUS
  <2>3. h[i] < h[j] \/ h[j] < h[i]
    BY <2>2
  <2>4. h[i] \in Int
    BY <2>1
  <2> QED
    BY <2>3, <2>4
<1>2. h \in Bijection(1..L, S)
  BY <1>1 DEF Bijection, Injection, Surjection, IsInjective
<1>3. IsFiniteSet(1..L) /\ Cardinality(1..L) = L
  BY FS_Interval
<1> QED
  BY <1>2, <1>3, FS_Bijection DEF ExistsBijection

\* Where the cursor stops, and that it passes only what sorts before.
LEMMA StopsInTime ==
  ASSUME NEW e \in Extras, NEW from \in 1..(Len(e) + 1), NEW next
  PROVE  LET stop == C!StopBefore(e, from, next) IN
         /\ stop \in from..(Len(e) + 1)
         /\ \A i \in CBORIn(e, from, stop - 1) : next = C!End \/ C!Precedes(e[i].key, next)
         /\ stop <= Len(e) =>
              e[stop].format = "CBOR" /\ next # C!End /\ ~C!Precedes(e[stop].key, next)
<1> DEFINE stops == {i \in from..Len(e) :
                       e[i].format = "CBOR" /\ next # C!End /\ ~C!Precedes(e[i].key, next)}
           stop == C!StopBefore(e, from, next)
<1>0. Len(e) \in Nat /\ from \in Nat
  BY DEF Extras
<1>00. from..Len(e) \subseteq Nat /\ stops \subseteq from..Len(e)
  BY <1>0
<1>1. CASE stops = {}
  <2>1. stop = Len(e) + 1
    BY <1>1 DEF C!StopBefore
  <2> QED
    BY <1>0, <1>1, <2>1 DEF CBORIn
<1>2. CASE stops # {}
  <2>1. stops \subseteq Nat
    BY <1>00
  <2>2. \E i \in stops : \A j \in stops : ~(j < i)
    <3> HIDE DEF stops
    <3> QED BY <1>2, <2>1, LeastNumber
  <2>3. \E i \in stops : \A j \in stops : i <= j
    BY <2>1, <2>2
  <2>4. stop = CHOOSE i \in stops : \A j \in stops : i <= j
    BY <1>2 DEF C!StopBefore
  <2>5. stop \in stops /\ \A j \in stops : stop <= j
    <3> HIDE DEF stops, stop
    <3> QED BY <2>3, <2>4
  <2> HIDE DEF stop
  <2>6. \A i \in from..(stop - 1) : i \in from..Len(e) /\ i \notin stops
    BY <1>0, <2>1, <2>5
  <2> QED
    BY <1>0, <2>5, <2>6 DEF CBORIn, stop
<1> QED
  BY <1>1, <1>2

\* The keys of the CBOR extras of a slice, in their order.
LEMMA KeysAreTaken ==
  ASSUME NEW e \in Extras, NEW from \in 1..(Len(e) + 1), NEW next
  PROVE  LET to == C!StopBefore(e, from, next) - 1
             x == C!ExtrasBefore(e, from, next)
         IN  /\ x \in Seq(C!Unknown) /\ Len(x) = Cardinality(CBORIn(e, from, to))
             /\ \E h : /\ h \in [1..Len(x) -> CBORIn(e, from, to)]
                       /\ \A i, j \in 1..Len(x) : i < j => h[i] < h[j]
                       /\ \A i \in 1..Len(x) : x[i] = e[h[i]].key
<1> DEFINE to == C!StopBefore(e, from, next) - 1
           x == C!ExtrasBefore(e, from, next)
           s == SubSeq(e, from, to)
           r == C!Keep(s, {"CBOR"})
           S == CBORIn(e, from, to)
<1>0. /\ Len(e) \in Nat /\ from \in Nat /\ to \in Int /\ to + 1 \in from..(Len(e) + 1)
      /\ \A i \in 1..Len(e) : e[i] \in Extra
  BY StopsInTime DEF Extras
<1>1. s \in Extras /\ Len(s) = to - from + 1 /\ \A i \in 1..Len(s) : s[i] = e[from + i - 1]
  <2> HIDE DEF to
  <2>1. \A i \in from..to : e[i] \in Extra
    BY <1>0
  <2>2. /\ s \in Seq(Extra) /\ Len(s) = IF from <= to THEN to - from + 1 ELSE 0
        /\ \A i \in 1..(to - from + 1) : s[i] = e[from + i - 1]
    BY <1>0, <2>1, SubSeqProperties
  <2> HIDE DEF s
  <2> QED
    BY <1>0, <2>2 DEF Extras
<1>2. r \in Extras /\ \E g : Picked(s, {"CBOR"}, Len(s), r, g)
  <2> HIDE DEF s
  <2> QED BY <1>1, KeepPicks
<1>3. PICK g : Picked(s, {"CBOR"}, Len(s), r, g)
  BY <1>2
<1>4. x = [i \in DOMAIN r |-> r[i].key]
  BY DEF C!ExtrasBefore
<1>5. r \in Seq(Extra) /\ Len(r) \in Nat /\ DOMAIN r = 1..Len(r) /\ \A i \in 1..Len(r) : r[i] \in Extra
  <2> HIDE DEF r
  <2> QED BY <1>2 DEF Extras
<1> HIDE DEF to, x, s, r
<1>6. x \in Seq(C!Unknown) /\ Len(x) = Len(r) /\ \A i \in 1..Len(r) : x[i] = r[i].key
  <2>1. \A i \in 1..Len(r) : r[i].key \in C!Unknown
    BY <1>5 DEF Extra
  <2> QED
    BY <1>4, <1>5, <2>1
<1> DEFINE h == [i \in 1..Len(x) |-> from + g[i] - 1]
<1>7. \A i \in 1..Len(x) : g[i] \in 1..Len(s) /\ r[i] = s[g[i]] /\ s[g[i]].format = "CBOR"
  BY <1>3, <1>6 DEF Picked
<1>8. \A i \in 1..Len(x) : h[i] = from + g[i] - 1 /\ h[i] \in from..to /\ r[i] = e[h[i]]
  <2> SUFFICES ASSUME NEW i \in 1..Len(x)
               PROVE  h[i] = from + g[i] - 1 /\ h[i] \in from..to /\ r[i] = e[h[i]]
    OBVIOUS
  <2>1. h[i] = from + g[i] - 1
    OBVIOUS
  <2>2. g[i] \in 1..(to - from + 1) /\ s[g[i]] = e[from + g[i] - 1]
    BY <1>1, <1>7
  <2> HIDE DEF h
  <2>3. h[i] \in from..to
    BY <1>0, <2>1, <2>2
  <2> QED
    BY <1>7, <2>1, <2>2, <2>3
<1>9. h \in [1..Len(x) -> S]
  <2>1. \A i \in 1..Len(x) : h[i] \in S
    <3> HIDE DEF h
    <3> QED BY <1>7, <1>8 DEF CBORIn
  <2> HIDE DEF S
  <2> QED BY <2>1
<1>10. \A i, j \in 1..Len(x) : i < j => h[i] < h[j]
  <2> SUFFICES ASSUME NEW i \in 1..Len(x), NEW j \in 1..Len(x), i < j PROVE h[i] < h[j]
    OBVIOUS
  <2>1. g[i] < g[j]
    BY <1>3, <1>6 DEF Picked
  <2>2. h[i] = from + g[i] - 1 /\ h[j] = from + g[j] - 1
    BY <1>8
  <2>3. g[i] \in Int /\ g[j] \in Int
    BY <1>1, <1>0, <1>7
  <2> HIDE DEF h
  <2> QED
    BY <1>0, <2>1, <2>2, <2>3
<1>11. \A k \in S : \E i \in 1..Len(x) : h[i] = k
  <2> SUFFICES ASSUME NEW k \in from..to, e[k].format = "CBOR" PROVE \E i \in 1..Len(x) : h[i] = k
    BY DEF CBORIn
  <2>1. k - from + 1 \in 1..Len(s) /\ from + (k - from + 1) - 1 = k
    BY <1>0, <1>1
  <2>2. s[k - from + 1] = e[k]
    BY <1>1, <2>1
  <2>3. PICK i \in 1..Len(r) : g[i] = k - from + 1
    BY <1>3, <2>1, <2>2 DEF Picked
  <2>4. h[i] = from + (k - from + 1) - 1
    BY <1>6, <1>8, <2>3
  <2> QED
    BY <1>6, <2>1, <2>3, <2>4
<1>12. \A i \in 1..Len(x) : x[i] = e[h[i]].key
  <2> HIDE DEF h
  <2> QED BY <1>6, <1>8
<1>13. S \subseteq Int /\ Len(x) \in Nat
  BY <1>0, <1>5, <1>6 DEF CBORIn
<1>14. Cardinality(S) = Len(x)
  <2> HIDE DEF h, S
  <2> QED BY <1>9, <1>10, <1>11, <1>13, CountOnce
<1> HIDE DEF h
<1> QED
  BY <1>6, <1>9, <1>10, <1>12, <1>14 DEF to, x

\* Sequences of keys in canonical order.
Canonical(keys) ==
  keys \in Seq(DOMAIN C!Rank) /\ \A i, j \in 1..Len(keys) : i < j => C!Precedes(keys[i], keys[j])

\* The canonical order is a linear order of the keys.
LEMMA KeysAreOrdered ==
  /\ \A k, l \in DOMAIN C!Rank : k = l \/ C!Precedes(k, l) \/ C!Precedes(l, k)
  /\ \A k, l, m \in DOMAIN C!Rank : C!Precedes(k, l) /\ C!Precedes(l, m) => C!Precedes(k, m)
<1>1. \A k, l \in DOMAIN C!Rank : C!Rank[k] \in Nat /\ (C!Rank[k] = C!Rank[l] => k = l)
  BY LexiconAssumption
<1> QED
  BY <1>1 DEF C!Precedes

\* Two of them in a row, where everything in the first sorts before the second.
LEMMA JoinedInOrder ==
  ASSUME NEW s, Canonical(s), NEW t, Canonical(t),
         \A i \in 1..Len(s), j \in 1..Len(t) : C!Precedes(s[i], t[j])
  PROVE  /\ Canonical(s \o t) /\ Len(s \o t) = Len(s) + Len(t)
         /\ \A i \in 1..Len(s \o t) :
              \/ \E j \in 1..Len(s) : (s \o t)[i] = s[j]
              \/ \E j \in 1..Len(t) : (s \o t)[i] = t[j]
<1> DEFINE u == s \o t
           L == Len(s)
<1>1. s \in Seq(DOMAIN C!Rank) /\ t \in Seq(DOMAIN C!Rank) /\ L \in Nat /\ Len(t) \in Nat
  BY DEF Canonical
<1>2. /\ u \in Seq(DOMAIN C!Rank) /\ Len(u) = L + Len(t)
      /\ \A i \in 1..Len(u) : u[i] = IF i <= L THEN s[i] ELSE t[i - L]
  BY <1>1, ConcatProperties
<1>3. \A i \in 1..L : u[i] = s[i]
  BY <1>1, <1>2
<1>4. \A i \in (L + 1)..Len(u) : u[i] = t[i - L] /\ i - L \in 1..Len(t)
  BY <1>1, <1>2
<1> HIDE DEF u, L
<1>5. ASSUME NEW i \in 1..Len(u), NEW j \in 1..Len(u), i < j PROVE C!Precedes(u[i], u[j])
  <2>1. CASE j <= L
    BY <1>1, <1>3, <1>5, <2>1 DEF Canonical, L
  <2>2. CASE i <= L /\ j > L
    BY <1>1, <1>2, <1>3, <1>4, <1>5, <2>2 DEF L
  <2>3. CASE i > L
    <3>1. /\ u[i] = t[i - L] /\ u[j] = t[j - L] /\ i - L \in 1..Len(t) /\ j - L \in 1..Len(t)
          /\ i - L < j - L
      BY <1>1, <1>2, <1>4, <1>5, <2>3
    <3> QED
      BY <3>1 DEF Canonical
  <2> QED
    BY <1>1, <2>1, <2>2, <2>3
<1>6. ASSUME NEW i \in 1..Len(u)
      PROVE  (\E j \in 1..L : u[i] = s[j]) \/ (\E j \in 1..Len(t) : u[i] = t[j])
  <2>1. i \in 1..L \/ i \in (L + 1)..Len(u)
    BY <1>1, <1>2
  <2> QED
    BY <1>3, <1>4, <2>1
<1>7. Canonical(u)
  BY <1>2, <1>5 DEF Canonical
<1> QED
  BY <1>2, <1>6, <1>7 DEF u, L

-----------------------------------------------------------------------------
(* The loop over the known fields.                                         *)

\* It is well-defined.
LEMMA FieldsAreWritten ==
  ASSUME NEW schema, NEW v, Len(schema.order) \in Nat
  PROVE  /\ C!AfterFields(schema, v)[0] = C!NothingWritten
         /\ \A i \in 1..Len(schema.order) :
              C!AfterFields(schema, v)[i] =
                C!WriteField(schema, v, C!AfterFields(schema, v)[i - 1], schema.order[i])
<1> DEFINE N == Len(schema.order)
           Round(f, i) == IF i = 0 THEN C!NothingWritten
                          ELSE C!WriteField(schema, v, f[i - 1], schema.order[i])
           Made(f, k) == f = [i \in 0..k |-> Round(f, i)]
           T == {k \in 0..N : \E f : Made(f, k)}
<1>0. N \in Nat
  OBVIOUS
<1>1. 0 \in T
  <2>1. Made([i \in 0..0 |-> C!NothingWritten], 0)
    OBVIOUS
  <2> HIDE DEF Made
  <2>2. \E f : Made(f, 0)
    BY <2>1
  <2> QED BY <1>0, <2>2
<1>2. ASSUME NEW k \in 0..(N - 1), k \in T PROVE k + 1 \in T
  <2>1. PICK f : Made(f, k)
    BY <1>2
  <2> DEFINE g == [i \in 0..(k + 1) |-> IF i = k + 1 THEN Round(f, k + 1) ELSE f[i]]
  <2>2. \A i \in 0..k : f[i] = Round(f, i)
    BY <2>1
  <2>3. \A i \in 0..(k + 1) : g[i] = Round(g, i)
    BY <2>2
  <2>4. Made(g, k + 1)
    BY <2>3
  <2> HIDE DEF Made, g
  <2>5. \E h : Made(h, k + 1)
    BY <2>4
  <2> QED
    BY <2>5, <1>0
<1>3. N \in T
  <2> HIDE DEF T, N
  <2>1. 0..N \subseteq T
    BY <1>0, <1>1, <1>2, NumbersUpTo
  <2> QED BY <1>0, <2>1
<1>4. \E f : Made(f, N)
  BY <1>3
<1>5. Made(C!AfterFields(schema, v), N)
  BY <1>4 DEF C!AfterFields
<1> QED
  BY <1>0, <1>5

\* The places of the known fields that are written, among the first i.
WrittenIn(schema, has, i) == {j \in 1..i : C!Writes(schema, has, schema.order[j])}

\* After i fields: the keys written are in order, sort before everything that is to
\* come, and are as many as the fields and extras passed.
Merged(schema, v, i, done) ==
  /\ done.at \in 1..(Len(v.extra) + 1)
  /\ Canonical(done.keys)
  /\ \A x \in 1..Len(done.keys) :
       /\ \A j \in CBORIn(v.extra, done.at, Len(v.extra)) : C!Precedes(done.keys[x], v.extra[j].key)
       /\ \A j \in (i + 1)..Len(schema.order) : C!Precedes(done.keys[x], schema.order[j])
  /\ Len(done.keys) = Cardinality(WrittenIn(schema, v.has, i))
                      + Cardinality(CBORIn(v.extra, 1, done.at - 1))

\* What the tables have in common, of one of them.
InTable(schema) ==
  /\ schema.order \in Seq(DOMAIN C!Rank \ C!Unknown)
  /\ \A i, j \in 1..Len(schema.order) : i < j => C!Precedes(schema.order[i], schema.order[j])
  /\ schema.optional \subseteq C!Fields(schema)

\* The extras before a place, and those from there to a later one.
LEMMA Places ==
  ASSUME NEW e \in Extras, NEW a \in 1..(Len(e) + 1), NEW b \in a..(Len(e) + 1)
  PROVE  /\ IsFiniteSet(CBORIn(e, 1, a - 1)) /\ Cardinality(CBORIn(e, 1, a - 1)) \in Nat
         /\ Cardinality(CBORIn(e, 1, b - 1))
              = Cardinality(CBORIn(e, 1, a - 1)) + Cardinality(CBORIn(e, a, b - 1))
<1>0. Len(e) \in Nat /\ a \in Nat /\ b \in Nat /\ a <= b
  BY DEF Extras
<1> DEFINE A == CBORIn(e, 1, a - 1)
           B == CBORIn(e, a, b - 1)
<1>1. IsFiniteSet(1..(a - 1)) /\ IsFiniteSet(a..(b - 1))
  <2>1. a - 1 \in Int /\ b - 1 \in Int /\ a \in Int
    BY <1>0
  <2> QED
    BY <2>1, FS_Interval
<1>2. A \in SUBSET (1..(a - 1)) /\ B \in SUBSET (a..(b - 1))
  BY DEF CBORIn
<1>3. IsFiniteSet(A) /\ IsFiniteSet(B)
  BY <1>1, <1>2, FS_Subset
<1>4. A \cup B = CBORIn(e, 1, b - 1) /\ A \cap B = {}
  BY <1>0 DEF CBORIn
<1> HIDE DEF A, B
<1>5. Cardinality(A) \in Nat /\ Cardinality(B) \in Nat
  BY <1>3, FS_CardinalityType
<1>6. Cardinality(A \cup B) = Cardinality(A) + Cardinality(B) - Cardinality(A \cap B)
  BY <1>3, FS_Union
<1>7. Cardinality(A \cap B) = 0
  BY <1>4, FS_EmptySet
<1>8. Cardinality(A \cup B) = Cardinality(A) + Cardinality(B)
  BY <1>5, <1>6, <1>7
<1> QED
  BY <1>3, <1>4, <1>5, <1>8 DEF A, B

\* One field: the extras that sort before it, then itself.
LEMMA FieldIsMerged ==
  ASSUME NEW schema, InTable(schema), NEW v, v.extra \in Extras, ExtrasInOrder(v.extra),
         NEW i \in 0..(Len(schema.order) - 1), NEW done, Merged(schema, v, i, done)
  PROVE  Merged(schema, v, i + 1, C!WriteField(schema, v, done, schema.order[i + 1]))
<1> DEFINE e == v.extra
           at == done.at
           k == schema.order[i + 1]
           stop == C!StopBefore(e, at, k)
           x == C!ExtrasBefore(e, at, k)
           old == done.keys
           w == IF C!Writes(schema, v.has, k) THEN <<k>> ELSE <<>>
           new == C!WriteField(schema, v, done, k)
           N == Len(e)
           M == Len(schema.order)
           R == DOMAIN C!Rank
<1>0. /\ N \in Nat /\ M \in Nat /\ i \in Nat /\ i + 1 \in 1..M /\ at \in 1..(N + 1)
      /\ e \in Extras /\ \A j \in 1..N : e[j] \in Extra
      /\ \A j \in 1..M : schema.order[j] \in R /\ schema.order[j] \notin C!Unknown
  BY DEF Merged, InTable, Extras
<1>1. k \in R /\ k \notin C!Unknown /\ k # C!End /\ C!Unknown \subseteq R
  BY <1>0, LexiconAssumption
<1>2. new.at = stop /\ new.keys = old \o x \o w
  BY DEF C!WriteField
<1>3. /\ stop \in at..(N + 1)
      /\ \A j \in CBORIn(e, at, stop - 1) : C!Precedes(e[j].key, k)
      /\ stop <= N => e[stop].format = "CBOR" /\ ~C!Precedes(e[stop].key, k)
  <2> HIDE DEF e, at, k
  <2> QED BY <1>0, <1>1, StopsInTime DEF N
<1>4. /\ x \in Seq(C!Unknown) /\ Len(x) = Cardinality(CBORIn(e, at, stop - 1))
      /\ \E h : /\ h \in [1..Len(x) -> CBORIn(e, at, stop - 1)]
                /\ \A a, b \in 1..Len(x) : a < b => h[a] < h[b]
                /\ \A a \in 1..Len(x) : x[a] = e[h[a]].key
  <2> HIDE DEF e, at, k
  <2> QED BY <1>0, KeysAreTaken DEF N
<1>5. PICK h : /\ h \in [1..Len(x) -> CBORIn(e, at, stop - 1)]
               /\ \A a, b \in 1..Len(x) : a < b => h[a] < h[b]
               /\ \A a \in 1..Len(x) : x[a] = e[h[a]].key
  BY <1>4
<1>6. /\ Canonical(old)
      /\ \A a \in 1..Len(old) :
           /\ \A j \in CBORIn(e, at, N) : C!Precedes(old[a], e[j].key)
           /\ \A j \in (i + 1)..M : C!Precedes(old[a], schema.order[j])
      /\ Len(old) = Cardinality(WrittenIn(schema, v.has, i)) + Cardinality(CBORIn(e, 1, at - 1))
  BY DEF Merged
<1>7. ExtrasInOrder(e)
  OBVIOUS
<1>8. \A j \in 1..N : e[j].key \in C!Unknown /\ e[j].key \in R
  BY <1>0, <1>1 DEF Extra
<1>9. \A j \in (i + 2)..M : C!Precedes(k, schema.order[j]) /\ schema.order[j] \in R
  BY <1>0 DEF InTable
<1> HIDE DEF e, at, k, stop, x, old, w, new, N, M
<1>10. /\ \A a \in 1..Len(x) : h[a] \in CBORIn(e, at, N) /\ h[a] \in CBORIn(e, at, stop - 1)
       /\ \A a \in 1..Len(x) : h[a] \in 1..N /\ h[a] < stop /\ e[h[a]].format = "CBOR"
       /\ Len(x) \in Nat /\ Len(old) \in Nat
  <2>1. \A j \in CBORIn(e, at, stop - 1) :
          j \in CBORIn(e, at, N) /\ j \in 1..N /\ j < stop /\ e[j].format = "CBOR"
    BY <1>0, <1>3 DEF CBORIn
  <2>2. Len(x) \in Nat /\ Len(old) \in Nat
    BY <1>4, <1>6 DEF Canonical
  <2> QED
    BY <1>5, <2>1, <2>2
<1>11. Canonical(x)
  <2>1. x \in Seq(R)
    BY <1>1, <1>4
  <2>2. \A a, b \in 1..Len(x) : a < b => C!Precedes(x[a], x[b])
    BY <1>5, <1>7, <1>10 DEF ExtrasInOrder, N
  <2> QED BY <2>1, <2>2 DEF Canonical
<1>12. \A a \in 1..Len(old), b \in 1..Len(x) : C!Precedes(old[a], x[b])
  BY <1>5, <1>6, <1>10
<1> DEFINE u == old \o x
<1>13. /\ Canonical(u) /\ Len(u) = Len(old) + Len(x)
       /\ \A a \in 1..Len(u) :
            \/ \E b \in 1..Len(old) : u[a] = old[b]
            \/ \E b \in 1..Len(x) : u[a] = x[b]
  <2>1. Canonical(old)
    BY <1>6
  <2> QED BY <2>1, <1>11, <1>12, JoinedInOrder
<1> HIDE DEF u
\* What it has now sorts before the field, and before all that comes after.
<1>14. \A a \in 1..Len(u) : C!Precedes(u[a], k) /\ u[a] \in R
  <2>1. \A a \in 1..Len(old) : C!Precedes(old[a], k)
    BY <1>0, <1>6 DEF k
  <2>2. \A a \in 1..Len(x) : C!Precedes(x[a], k)
    BY <1>3, <1>5, <1>10
  <2>3. \A a \in 1..Len(u) : u[a] \in R
    BY <1>13 DEF Canonical
  <2> QED BY <1>13, <2>1, <2>2, <2>3
<1>15. \A j \in CBORIn(e, stop, N) : C!Precedes(k, e[j].key)
  <2> SUFFICES ASSUME NEW j \in stop..N, e[j].format = "CBOR" PROVE C!Precedes(k, e[j].key)
    BY DEF CBORIn
  <2>1. stop \in 1..N /\ j \in 1..N
    BY <1>0, <1>3
  <2>2. C!Precedes(k, e[stop].key)
    BY <1>1, <1>3, <1>8, <2>1, KeysAreOrdered
  <2>3. CASE j = stop
    BY <2>2, <2>3
  <2>4. CASE j > stop
    <3>1. C!Precedes(e[stop].key, e[j].key)
      BY <1>3, <1>7, <2>1, <2>4 DEF ExtrasInOrder, N
    <3> QED
      BY <1>1, <1>8, <2>1, <2>2, <3>1, KeysAreOrdered
  <2> QED
    BY <1>0, <1>3, <2>1, <2>3, <2>4
<1>16. \A a \in 1..Len(u) :
         /\ \A j \in CBORIn(e, stop, N) : C!Precedes(u[a], e[j].key)
         /\ \A j \in (i + 2)..M : C!Precedes(u[a], schema.order[j])
  <2>1. \A j \in CBORIn(e, stop, N) : e[j].key \in R
    BY <1>0, <1>3, <1>8 DEF CBORIn
  <2> QED
    BY <1>1, <1>9, <1>14, <1>15, <2>1, KeysAreOrdered
<1>17. Canonical(w) /\ \A a \in 1..Len(u), b \in 1..Len(w) : C!Precedes(u[a], w[b])
  <2>1. CASE w = <<k>>
    <3>1. w \in Seq(R) /\ Len(w) = 1 /\ w[1] = k
      BY <1>1, <2>1
    <3> QED BY <1>14, <3>1 DEF Canonical
  <2>2. CASE w = <<>>
    BY <2>2 DEF Canonical
  <2> QED BY <2>1, <2>2 DEF w
<1>18. /\ Canonical(u \o w) /\ Len(u \o w) = Len(u) + Len(w)
       /\ \A a \in 1..Len(u \o w) :
            \/ \E b \in 1..Len(u) : (u \o w)[a] = u[b]
            \/ \E b \in 1..Len(w) : (u \o w)[a] = w[b]
  <2>1. Canonical(u) /\ Canonical(w)
    BY <1>13, <1>17
  <2>2. \A a \in 1..Len(u), b \in 1..Len(w) : C!Precedes(u[a], w[b])
    BY <1>17
  <2> QED BY <2>1, <2>2, JoinedInOrder
<1>19. \A b \in 1..Len(w) : w[b] = k
  BY DEF w
<1> DEFINE z == u \o w
<1>20. new.keys = z
  BY <1>2 DEF u
<1>21. \A a \in 1..Len(z) :
         /\ \A j \in CBORIn(e, stop, N) : C!Precedes(z[a], e[j].key)
         /\ \A j \in (i + 2)..M : C!Precedes(z[a], schema.order[j])
  BY <1>9, <1>15, <1>16, <1>18, <1>19
\* Counting.
<1>22. Len(z) = Cardinality(WrittenIn(schema, v.has, i)) + Len(w) + Cardinality(CBORIn(e, 1, stop - 1))
  <2>1. /\ Cardinality(CBORIn(e, 1, at - 1)) \in Nat
        /\ Cardinality(CBORIn(e, 1, stop - 1))
             = Cardinality(CBORIn(e, 1, at - 1)) + Cardinality(CBORIn(e, at, stop - 1))
    BY <1>0, <1>3, Places DEF N
  <2>2. Len(z) = Len(old) + Len(x) + Len(w)
    BY <1>13, <1>18
  <2>3. Len(w) \in Nat /\ Len(old) \in Nat /\ Len(x) \in Nat
    BY <1>10, <1>17 DEF Canonical
  <2>4. IsFiniteSet(WrittenIn(schema, v.has, i))
    <3>1. IsFiniteSet(1..i)
      BY <1>0, FS_Interval
    <3> QED BY <3>1, FS_Subset DEF WrittenIn
  <2>5. Cardinality(WrittenIn(schema, v.has, i)) \in Nat
    BY <2>4, FS_CardinalityType
  <2> HIDE DEF z
  <2> QED
    BY <1>4, <1>6, <2>1, <2>2, <2>3, <2>5
<1>23. Cardinality(WrittenIn(schema, v.has, i + 1)) = Cardinality(WrittenIn(schema, v.has, i)) + Len(w)
  <2> DEFINE S == WrittenIn(schema, v.has, i)
  <2>1. IsFiniteSet(S) /\ i + 1 \notin S
    <3>1. IsFiniteSet(1..i)
      BY <1>0, FS_Interval
    <3>2. S \in SUBSET (1..i) /\ i + 1 \notin 1..i
      BY <1>0 DEF WrittenIn
    <3> QED BY <3>1, <3>2, FS_Subset
  <2>2. Cardinality(S) \in Nat
    BY <2>1, FS_CardinalityType
  <2>3. 1..(i + 1) = (1..i) \cup {i + 1}
    BY <1>0
  <2>4. CASE C!Writes(schema, v.has, k)
    <3>1. WrittenIn(schema, v.has, i + 1) = S \cup {i + 1}
      BY <2>3, <2>4 DEF WrittenIn, k
    <3>2. Len(w) = 1
      BY <2>4 DEF w
    <3> HIDE DEF S
    <3> QED
      <4>1. Cardinality(S \cup {i + 1}) = Cardinality(S) + 1
        BY <2>1, FS_AddElement
      <4> QED BY <3>1, <3>2, <4>1 DEF S
  <2>5. CASE ~C!Writes(schema, v.has, k)
    <3>1. WrittenIn(schema, v.has, i + 1) = S
      BY <2>3, <2>5 DEF WrittenIn, k
    <3>2. Len(w) = 0
      BY <2>5 DEF w
    <3> HIDE DEF S
    <3>3. Cardinality(S) = Cardinality(S) + 0
      BY <2>2
    <3> QED
      BY <3>1, <3>2, <3>3 DEF S
  <2> QED BY <2>4, <2>5
<1>24. stop \in 1..(N + 1)
  BY <1>0, <1>3
<1>25. i + 1 + 1 = i + 2
  BY <1>0
<1> HIDE DEF z
<1>26. Canonical(z)
  BY <1>18 DEF z
<1>27. Merged(schema, v, i + 1, new)
  BY <1>2, <1>20, <1>21, <1>22, <1>23, <1>24, <1>25, <1>26 DEF Merged, e, N, M
<1> QED
  BY <1>27 DEF new, k

\* The tables of Lexicon are such.
LEMMA TablesAre ==
  ASSUME NEW t \in Types
  PROVE  InTable(C!CBORSchema[t])
<1> DEFINE schema == C!CBORSchema[t]
<1>1. /\ schema.order \in Seq(DOMAIN C!Rank \ C!Unknown)
      /\ \A i, j \in DOMAIN schema.order : i < j => C!Precedes(schema.order[i], schema.order[j])
      /\ schema.optional \subseteq C!Fields(schema)
  BY LexiconAssumption
<1> HIDE DEF schema
<1>2. DOMAIN schema.order = 1..Len(schema.order)
  BY <1>1
<1>3. InTable(schema)
  BY <1>1, <1>2 DEF InTable
<1> QED
  BY <1>3 DEF schema

\* As many known fields are written as the header counts: the required ones, and the
\* optional ones with a value.
LEMMA FieldsCounted ==
  ASSUME NEW schema, InTable(schema), NEW has, has \subseteq C!Fields(schema)
  PROVE  Cardinality(WrittenIn(schema, has, Len(schema.order)))
           = Cardinality(C!Required(schema)) + Cardinality(has \cap schema.optional)
<1> DEFINE M == Len(schema.order)
           S == WrittenIn(schema, has, M)
           A == C!Required(schema)
           B == has \cap schema.optional
           f == [j \in S |-> schema.order[j]]
<1>0. /\ M \in Nat /\ C!Fields(schema) = {schema.order[j] : j \in 1..M}
      /\ \A j \in 1..M : schema.order[j] \in DOMAIN C!Rank
  BY DEF InTable, C!Fields, C!ToSet
<1>1. A \cap B = {} /\ \A k : k \in A \cup B <=> k \in C!Fields(schema) /\ C!Writes(schema, has, k)
  BY DEF C!Required, C!Writes, InTable
<1>2. \A i, j \in 1..M : schema.order[i] = schema.order[j] => i = j
  <2> SUFFICES ASSUME NEW i \in 1..M, NEW j \in 1..M, schema.order[i] = schema.order[j], i < j
               PROVE  FALSE
    BY <1>0
  <2>1. C!Precedes(schema.order[i], schema.order[i])
    BY DEF InTable
  <2>2. C!Rank[schema.order[i]] \in Nat
    BY <1>0, LexiconAssumption
  <2> QED
    BY <2>1, <2>2 DEF C!Precedes
<1>3. f \in Bijection(S, A \cup B)
  <2>1. S \subseteq 1..M /\ \A j \in 1..M : j \in S <=> C!Writes(schema, has, schema.order[j])
    BY DEF WrittenIn
  <2>2. \A j \in S : f[j] = schema.order[j] /\ f[j] \in A \cup B
    BY <1>0, <1>1, <2>1
  <2>3. \A i, j \in S : f[i] = f[j] => i = j
    BY <1>2, <2>1
  <2>4. ASSUME NEW k \in A \cup B PROVE \E j \in S : f[j] = k
    BY <1>0, <1>1, <2>1
  <2>5. f \in [S -> A \cup B]
    BY <2>2
  <2> HIDE DEF f, A, B, S
  <2> QED
    BY <2>3, <2>4, <2>5 DEF Bijection, Injection, Surjection, IsInjective
<1>4. IsFiniteSet(S)
  <2>1. IsFiniteSet(1..M)
    BY <1>0, FS_Interval
  <2> QED BY <2>1, FS_Subset DEF WrittenIn
<1> HIDE DEF f, A, B, S
<1>5. IsFiniteSet(A \cup B) /\ Cardinality(A \cup B) = Cardinality(S)
  BY <1>3, <1>4, FS_Bijection DEF ExistsBijection
<1>6. IsFiniteSet(A) /\ IsFiniteSet(B)
  BY <1>5, FS_Subset
<1>7. Cardinality(A \cup B) = Cardinality(A) + Cardinality(B) - Cardinality(A \cap B)
  BY <1>6, FS_Union
<1>8. Cardinality(A \cap B) = 0
  BY <1>1, FS_EmptySet
<1>9. Cardinality(A) \in Nat /\ Cardinality(B) \in Nat
  BY <1>6, FS_CardinalityType
<1>10. Cardinality(S) = Cardinality(A) + Cardinality(B)
  BY <1>5, <1>7, <1>8, <1>9
<1> QED
  BY <1>10 DEF S, A, B

\* So are the extras.
LEMMA ExtrasCounted ==
  ASSUME NEW e \in Extras
  PROVE  C!CountExtra(e, "CBOR") = Cardinality(CBORIn(e, 1, Len(e)))
<1> DEFINE r == C!Keep(e, {"CBOR"})
           S == CBORIn(e, 1, Len(e))
<1>1. r \in Extras /\ \E g : Picked(e, {"CBOR"}, Len(e), r, g)
  BY KeepPicks
<1>2. PICK g : Picked(e, {"CBOR"}, Len(e), r, g)
  BY <1>1
<1>3. C!CountExtra(e, "CBOR") = Len(r)
  BY DEF C!CountExtra
<1> HIDE DEF r
<1>4. Len(r) \in Nat
  BY <1>1 DEF Extras
<1>5. /\ g \in [1..Len(r) -> S]
      /\ \A i, j \in 1..Len(r) : i < j => g[i] < g[j]
      /\ \A x \in S : \E i \in 1..Len(r) : g[i] = x
  BY <1>2 DEF Picked, CBORIn
<1>6. S \subseteq Int
  BY DEF CBORIn
<1> HIDE DEF S
<1>7. Cardinality(S) = Len(r)
  BY <1>4, <1>5, <1>6, CountOnce
<1> QED
  BY <1>3, <1>7 DEF S

\* RecordCodec counts as FiniteSets does.
LEMMA SameCardinality == \A S : C!Cardinality(S) = Cardinality(S)
BY DEF C!Cardinality, Cardinality

\* The record a struct is written as has its keys in canonical order and counts them,
\* if the extras read from DAG-CBOR are in that order.
LEMMA WholeIsMerged ==
  ASSUME NEW t \in Types, NEW v, v.extra \in Extras, ExtrasInOrder(v.extra),
         v.has \subseteq C!Fields(C!CBORSchema[t])
  PROVE  LET w == C!AppendCBOR(t, v) IN
         w.format = "CBOR" => Canonical(w.keys) /\ w.count = Len(w.keys)
<1> DEFINE schema == C!CBORSchema[t]
           M == Len(schema.order)
           after == C!AfterFields(schema, v)
           e == v.extra
           N == Len(e)
           T == {i \in 0..M : Merged(schema, v, i, after[i])}
<1>0. InTable(schema) /\ M \in Nat /\ N \in Nat /\ e \in Extras
  BY TablesAre DEF InTable, Extras
<1>00. ExtrasInOrder(e) /\ v.has \subseteq C!Fields(schema) /\ \A j \in 1..N : e[j] \in Extra
  BY <1>0 DEF Extras
<1> HIDE DEF schema
<1>1. /\ after[0] = C!NothingWritten
      /\ \A i \in 1..M : after[i] = C!WriteField(schema, v, after[i - 1], schema.order[i])
  BY <1>0, FieldsAreWritten
<1>2. 0 \in T
  <2>1. WrittenIn(schema, v.has, 0) = {} /\ CBORIn(v.extra, 1, 0) = {}
    BY DEF WrittenIn, CBORIn
  <2>2. Cardinality({}) = 0
    BY FS_EmptySet
  <2>3. Canonical(<<>>) /\ Len(<<>>) = 0
    BY DEF Canonical
  <2>4. C!NothingWritten.at = 1 /\ C!NothingWritten.keys = <<>>
    BY DEF C!NothingWritten
  <2>5. Merged(schema, v, 0, C!NothingWritten)
    <3> DEFINE nw == C!NothingWritten
    <3>1. nw.at \in 1..(Len(v.extra) + 1) /\ nw.at - 1 = 0
      BY <1>0, <2>4
    <3>2. Canonical(nw.keys) /\ Len(nw.keys) = 0
      BY <2>3, <2>4
    <3>3. Len(nw.keys) = Cardinality(WrittenIn(schema, v.has, 0)) + Cardinality(CBORIn(v.extra, 1, nw.at - 1))
      <4>1. CBORIn(v.extra, 1, nw.at - 1) = {}
        BY <2>1, <3>1
      <4> DEFINE a == Cardinality(WrittenIn(schema, v.has, 0))
                 b == Cardinality(CBORIn(v.extra, 1, nw.at - 1))
      <4>2. a = 0 /\ b = 0
        BY <2>1, <2>2, <4>1
      <4> HIDE DEF nw, a, b
      <4>3. Len(nw.keys) = a + b
        BY <3>2, <4>2
      <4> QED BY <4>3 DEF a, b
    <3> HIDE DEF nw
    <3>4. Merged(schema, v, 0, nw)
      BY <3>1, <3>2, <3>3 DEF Merged
    <3> QED BY <3>4 DEF nw
  <2> QED
    BY <1>0, <1>1, <2>5
<1>3. ASSUME NEW i \in 0..(M - 1), i \in T PROVE i + 1 \in T
  <2>1. after[i + 1] = C!WriteField(schema, v, after[i], schema.order[i + 1])
    <3>1. i + 1 \in 1..M /\ (i + 1) - 1 = i
      BY <1>0
    <3> HIDE DEF after, M
    <3> QED BY <1>1, <3>1
  <2>2. Merged(schema, v, i, after[i])
    BY <1>3
  <2>3. Merged(schema, v, i + 1, C!WriteField(schema, v, after[i], schema.order[i + 1]))
    <3> HIDE DEF after
    <3> QED BY <1>0, <1>00, <2>2, FieldIsMerged
  <2> QED
    BY <1>0, <2>1, <2>3
<1>4. Merged(schema, v, M, after[M])
  <2>1. 0..M \subseteq T
    <3> HIDE DEF T, M
    <3> QED BY <1>0, <1>2, <1>3, NumbersUpTo
  <2> QED BY <1>0, <2>1
<1> DEFINE done == after[M]
           at == done.at
           old == done.keys
           stop == C!StopBefore(e, at, C!End)
           x == C!ExtrasBefore(e, at, C!End)
<1>5. /\ at \in 1..(N + 1) /\ Canonical(old)
      /\ \A a \in 1..Len(old) : \A j \in CBORIn(e, at, N) : C!Precedes(old[a], e[j].key)
      /\ Len(old) = Cardinality(WrittenIn(schema, v.has, M)) + Cardinality(CBORIn(e, 1, at - 1))
  BY <1>4 DEF Merged
<1> HIDE DEF done, at, old
<1>6. stop = N + 1
  <2>1. stop \in at..(N + 1) /\ (stop <= N => C!End # C!End)
    <3> HIDE DEF e
    <3> QED BY <1>0, <1>5, StopsInTime
  <2> QED
    BY <1>0, <1>5, <2>1
<1>7. /\ x \in Seq(C!Unknown) /\ Len(x) = Cardinality(CBORIn(e, at, N))
      /\ \E h : /\ h \in [1..Len(x) -> CBORIn(e, at, N)]
                /\ \A a, b \in 1..Len(x) : a < b => h[a] < h[b]
                /\ \A a \in 1..Len(x) : x[a] = e[h[a]].key
  <2>1. stop - 1 = N
    BY <1>0, <1>6
  <2> HIDE DEF e, N
  <2> QED BY <1>0, <1>5, <2>1, KeysAreTaken DEF N
<1>8. PICK h : /\ h \in [1..Len(x) -> CBORIn(e, at, N)]
               /\ \A a, b \in 1..Len(x) : a < b => h[a] < h[b]
               /\ \A a \in 1..Len(x) : x[a] = e[h[a]].key
  BY <1>7
<1> HIDE DEF x, stop
<1>9. Canonical(x)
  <2>1. C!Unknown \subseteq DOMAIN C!Rank
    BY LexiconAssumption
  <2>2. \A j \in CBORIn(e, at, N) : j \in 1..N /\ e[j].format = "CBOR"
    BY <1>0, <1>5 DEF CBORIn
  <2>3. \A a, b \in 1..Len(x) : a < b => C!Precedes(x[a], x[b])
    BY <1>00, <1>8, <2>2 DEF ExtrasInOrder
  <2>4. x \in Seq(DOMAIN C!Rank)
    BY <1>7, <2>1
  <2> QED BY <2>3, <2>4 DEF Canonical
<1>10. \A a \in 1..Len(old), b \in 1..Len(x) : C!Precedes(old[a], x[b])
  BY <1>5, <1>8
<1>11. Canonical(old \o x) /\ Len(old \o x) = Len(old) + Len(x)
  <2>1. Canonical(old)
    BY <1>5
  <2> QED BY <2>1, <1>9, <1>10, JoinedInOrder
<1> DEFINE w == C!AppendCBOR(t, v)
<1>12. CASE C!Unset(schema, v) # {}
  <2>1. w = C!Error
    BY <1>12 DEF C!AppendCBOR, schema
  <2> QED
    BY <2>1 DEF C!Error
<1>13. CASE C!Unset(schema, v) = {}
  <2>1. /\ w.keys = old \o x
        /\ w.count = Cardinality(C!Required(schema)) + Cardinality(v.has \cap schema.optional)
                     + C!CountExtra(e, "CBOR")
    <3>1. w.keys = C!MergedKeys(schema, v) /\ w.count = C!CountFields(schema, v)
      BY <1>13 DEF C!AppendCBOR, schema
    <3>2. C!MergedKeys(schema, v) = old \o x
      BY DEF C!MergedKeys, old, x, at, done
    <3>3. C!CountFields(schema, v)
            = Cardinality(C!Required(schema)) + Cardinality(v.has \cap schema.optional) + C!CountExtra(e, "CBOR")
      BY SameCardinality DEF C!CountFields
    <3> HIDE DEF w, e
    <3> QED BY <3>1, <3>2, <3>3
  <2>2. C!CountExtra(e, "CBOR") = Cardinality(CBORIn(e, 1, N))
    BY <1>0, ExtrasCounted
  <2>3. Cardinality(WrittenIn(schema, v.has, M))
          = Cardinality(C!Required(schema)) + Cardinality(v.has \cap schema.optional)
    BY <1>0, <1>00, FieldsCounted
  <2>4. /\ Cardinality(CBORIn(e, 1, at - 1)) \in Nat
        /\ Cardinality(CBORIn(e, 1, (N + 1) - 1))
             = Cardinality(CBORIn(e, 1, at - 1)) + Cardinality(CBORIn(e, at, (N + 1) - 1))
    <3>1. N + 1 \in at..(N + 1)
      BY <1>0, <1>5
    <3> HIDE DEF e
    <3> QED BY <1>0, <1>5, <3>1, Places
  <2>5. (N + 1) - 1 = N
    BY <1>0
  <2>6. Len(old) \in Nat /\ Len(x) \in Nat
    BY <1>5, <1>9 DEF Canonical
  <2> DEFINE c1 == Cardinality(WrittenIn(schema, v.has, M))
             c2 == Cardinality(CBORIn(e, 1, at - 1))
             c3 == Cardinality(CBORIn(e, at, N))
             c4 == Cardinality(CBORIn(e, 1, N))
  <2>7. Len(old) = c1 + c2 /\ Len(x) = c3 /\ c4 = c2 + c3 /\ w.count = c1 + c4
    BY <1>5, <1>7, <2>1, <2>2, <2>3, <2>4, <2>5
  <2>8. c1 \in Nat /\ c2 \in Nat
    <3>1. IsFiniteSet(1..M)
      BY <1>0, FS_Interval
    <3>2. IsFiniteSet(WrittenIn(schema, v.has, M))
      BY <3>1, FS_Subset DEF WrittenIn
    <3> QED BY <2>4, <3>2, FS_CardinalityType
  <2> HIDE DEF c1, c2, c3, c4, w, N
  <2>9. w.count = Len(old) + Len(x)
    BY <2>6, <2>7, <2>8
  <2> QED
    BY <1>11, <2>1, <2>9 DEF w
<1> QED
  BY <1>12, <1>13

\* Reading a message replaces the extras of its format and leaves the others where they
\* are, so those of DAG-CBOR stay in order.
LEMMA ReadInOrder ==
  ASSUME NEW e \in Extras, ExtrasInOrder(e), NEW f \in C!Formats, NEW keys \in C!ForeignSeqs, NEW B
  PROVE  LET x == C!ClearExtra(e, f) \o [i \in DOMAIN keys |-> [key |-> keys[i], format |-> f, blob |-> keys[i] \in B]]
         IN  x \in Extras /\ ExtrasInOrder(x)
<1> DEFINE F == C!Formats \ {f}
           r == C!Keep(e, F)
           y == [i \in DOMAIN keys |-> [key |-> keys[i], format |-> f, blob |-> keys[i] \in B]]
           x == r \o y
<1>1. /\ keys \in Seq(C!Unknown) /\ Len(keys) \in Nat /\ DOMAIN keys = 1..Len(keys)
      /\ \A i, j \in 1..Len(keys) : i < j => C!Precedes(keys[i], keys[j])
  <2>1. keys \in Seq(C!Unknown) /\ \A i, j \in DOMAIN keys : i < j => C!Precedes(keys[i], keys[j])
    BY LexiconAssumption
  <2>2. Len(keys) \in Nat /\ DOMAIN keys = 1..Len(keys)
    BY <2>1
  <2> QED
    BY <2>1, <2>2
<1>2. r \in Extras /\ \E g : Picked(e, F, Len(e), r, g)
  <2> HIDE DEF F
  <2> QED BY KeepPicks
<1>3. PICK g : Picked(e, F, Len(e), r, g)
  BY <1>2
<1>4. C!ClearExtra(e, f) = r
  BY DEF C!ClearExtra
<1>5. /\ y \in Seq(Extra) /\ Len(y) = Len(keys)
      /\ \A i \in 1..Len(keys) : y[i].key = keys[i] /\ y[i].format = f
  <2>1. \A i \in 1..Len(keys) : y[i] = [key |-> keys[i], format |-> f, blob |-> keys[i] \in B] /\ keys[i] \in C!Unknown
    BY <1>1
  <2>2. \A i \in 1..Len(keys) : y[i] \in Extra /\ y[i].key = keys[i] /\ y[i].format = f
    BY <2>1 DEF Extra
  <2>3. y \in Seq(Extra) /\ Len(y) = Len(keys)
    <3>1. DOMAIN y = 1..Len(keys) /\ y = [i \in 1..Len(keys) |-> y[i]]
      BY <1>1
    <3> HIDE DEF y
    <3> QED BY <1>1, <2>2, <3>1
  <2> QED BY <2>2, <2>3
<1> HIDE DEF r, y
<1> DEFINE n == Len(r)
<1>6. n \in Nat /\ r \in Seq(Extra)
  BY <1>2 DEF Extras
<1>7. /\ \A i \in 1..n : r[i].format # f
      /\ \A i, j \in 1..n : i < j /\ r[i].format = "CBOR" /\ r[j].format = "CBOR"
                              => C!Precedes(r[i].key, r[j].key)
  <2>1. \A i \in 1..n : g[i] \in 1..Len(e) /\ r[i] = e[g[i]] /\ e[g[i]].format # f
    BY <1>3 DEF Picked
  <2>2. \A i, j \in 1..n : i < j => g[i] < g[j]
    BY <1>3 DEF Picked
  <2> QED
    BY <2>1, <2>2 DEF ExtrasInOrder
<1>8. /\ x \in Seq(Extra) /\ Len(x) = n + Len(keys)
      /\ \A i \in 1..Len(x) : x[i] = IF i <= n THEN r[i] ELSE y[i - n]
  <2>1. y \in Seq(Extra) /\ Len(y) = Len(keys) /\ r \in Seq(Extra)
    BY <1>5, <1>6
  <2>2. /\ x \in Seq(Extra) /\ Len(x) = Len(r) + Len(y)
        /\ \A i \in 1..(Len(r) + Len(y)) : x[i] = IF i <= Len(r) THEN r[i] ELSE y[i - Len(r)]
    BY <2>1, ConcatProperties
  <2> HIDE DEF x
  <2> QED BY <2>1, <2>2
<1> HIDE DEF x, n
<1>9. \A i \in 1..Len(x) :
        \/ i \in 1..n /\ x[i] = r[i]
        \/ i > n /\ i - n \in 1..Len(keys) /\ x[i] = y[i - n]
  BY <1>1, <1>6, <1>8 DEF n
<1>10. ExtrasInOrder(x)
  <2> SUFFICES ASSUME NEW i \in 1..Len(x), NEW j \in 1..Len(x), i < j,
                      x[i].format = "CBOR", x[j].format = "CBOR"
               PROVE  C!Precedes(x[i].key, x[j].key)
    BY DEF ExtrasInOrder
  <2>0. n \in Nat
    BY <1>6 DEF n
  <2>1. CASE j \in 1..n
    BY <1>7, <1>9, <2>0, <2>1
  <2>2. CASE i \in 1..n /\ j > n
    BY <1>5, <1>7, <1>9, <2>0, <2>2
  <2>3. CASE i > n
    <3>1. /\ i - n \in 1..Len(keys) /\ j - n \in 1..Len(keys) /\ i - n < j - n
          /\ x[i] = y[i - n] /\ x[j] = y[j - n]
      BY <1>9, <2>0, <2>3
    <3> QED
      BY <1>1, <1>5, <3>1
  <2> QED
    BY <1>9, <2>0, <2>1, <2>2, <2>3
<1>11. x \in Extras
  BY <1>8 DEF Extras
<1> QED
  BY <1>4, <1>10, <1>11 DEF x, y

-----------------------------------------------------------------------------
(* The struct in use.                                                      *)

\* The messages that are read into a struct.
Sent(t) == [format: C!Formats, canonical: {TRUE}, plain: {FALSE}, foreign: C!ForeignSeqs,
            blobs: SUBSET C!Unknown, empty: BOOLEAN,
            known: SUBSET C!Fields(C!CBORSchema[t]), member: C!Members(C!CBORSchema[t])]

BytesInv ==
  /\ type \in Types
  /\ held.extra \in Extras /\ ExtrasInOrder(held.extra)
  /\ held.has \subseteq C!Fields(C!CBORSchema[type])
  /\ wire.format = "CBOR" => Canonical(wire.keys) /\ wire.count = Len(wire.keys)
  /\ decoded \in Seq(Sent(type))
  /\ decoded = <<>> => held = C!Zero
  /\ Len(decoded) = 1 => held = C!UnmarshalAt(type, C!Zero, decoded[1])

\* Both formats know the same of a type.
LEMMA FormatsAgree ==
  ASSUME NEW t \in Types, NEW f
  PROVE  /\ C!Fields(C!Schema(t, f)) = C!Fields(C!CBORSchema[t])
         /\ C!Required(C!Schema(t, f)) = C!Required(C!CBORSchema[t])
         /\ C!Schema(t, f).unions = C!CBORSchema[t].unions
         /\ C!Schema(t, f).optional = C!CBORSchema[t].optional
         /\ C!Members(C!Schema(t, f)) = C!Members(C!CBORSchema[t])
<1>1. /\ C!Fields(C!JSONSchema[t]) = C!Fields(C!CBORSchema[t])
      /\ C!JSONSchema[t].optional = C!CBORSchema[t].optional
      /\ C!JSONSchema[t].unions = C!CBORSchema[t].unions
  BY LexiconAssumption
<1>2. C!Required(C!JSONSchema[t]) = C!Required(C!CBORSchema[t])
  BY <1>1 DEF C!Required
<1>3. C!Members(C!JSONSchema[t]) = C!Members(C!CBORSchema[t])
  BY <1>1 DEF C!Members
<1> QED
  BY <1>1, <1>2, <1>3 DEF C!Schema

\* What is sent has this shape.
LEMMA SentIs ==
  ASSUME NEW t \in Types, NEW f \in C!Formats
  PROVE  \A m \in C!Messages(t, f) : m \in Sent(t) /\ m.format = f
<1> DEFINE schema == C!Schema(t, f)
<1>1. /\ C!Fields(schema) = C!Fields(C!CBORSchema[t]) /\ C!Members(schema) = C!Members(C!CBORSchema[t])
      /\ schema.optional \subseteq C!Fields(schema)
  <2>1. InTable(C!CBORSchema[t])
    BY TablesAre
  <2> QED
    BY <2>1, FormatsAgree DEF InTable
<1> HIDE DEF schema
<1>2. C!Required(schema) \subseteq C!Fields(schema)
  BY DEF C!Required
<1>3. \A o \in C!KnownSets(schema) : o \subseteq C!Fields(schema)
  BY <1>1, <1>2 DEF C!KnownSets
<1>4. \A m \in C!Messages(t, f) :
        /\ m \in [format: {f}, canonical: {TRUE}, plain: {FALSE}, foreign: C!ForeignSeqs,
                  blobs: SUBSET C!Unknown, empty: BOOLEAN,
                  known: IF decoded # <<>> THEN {C!Required(schema)} ELSE C!KnownSets(schema),
                  member: C!Members(schema)]
  BY DEF C!Messages, schema
<1>5. (IF decoded # <<>> THEN {C!Required(schema)} ELSE C!KnownSets(schema)) \subseteq SUBSET C!Fields(schema)
  BY <1>2, <1>3
<1> QED
  BY <1>1, <1>4, <1>5 DEF Sent

\* Reading one keeps the invariant.
LEMMA ReadKeeps ==
  ASSUME BytesInv, NEW m \in Sent(type), C!Decode(m)
  PROVE  BytesInv'
<1> DEFINE e == held.extra
           x == C!ClearExtra(e, m.format) \o [i \in DOMAIN m.foreign |-> [key |-> m.foreign[i], format |-> m.format, blob |-> m.foreign[i] \in m.blobs]]
           v == C!UnmarshalAt(type, held, m)
<1>1. /\ held' = v /\ decoded' = Append(decoded, m) /\ wire' = C!None /\ type' = type
  BY DEF C!Decode
<1>2. m.format \in C!Formats /\ m.foreign \in C!ForeignSeqs
  BY DEF Sent
<1>3. v.extra = x /\ v.has = held.has \cup (m.known \cap C!Fields(C!Schema(type, m.format)))
  BY DEF C!UnmarshalAt
<1>4. x \in Extras /\ ExtrasInOrder(x)
  <2>1. e \in Extras /\ ExtrasInOrder(e)
    BY DEF BytesInv
  <2> HIDE DEF e
  <2> QED BY <1>2, <2>1, ReadInOrder
<1>5. v.has \subseteq C!Fields(C!CBORSchema[type])
  BY <1>3, FormatsAgree DEF BytesInv
<1>6. C!None.format # "CBOR"
  BY DEF C!None
<1>7. /\ decoded' \in Seq(Sent(type)) /\ decoded' # <<>>
      /\ Len(decoded') = 1 => decoded = <<>> /\ decoded'[1] = m
  BY <1>1 DEF BytesInv
<1>8. Len(decoded') = 1 => v = C!UnmarshalAt(type, C!Zero, decoded'[1])
  BY <1>7 DEF BytesInv
<1> HIDE DEF v, x
<1>9. held'.extra \in Extras /\ ExtrasInOrder(held'.extra) /\ held'.has \subseteq C!Fields(C!CBORSchema[type'])
  BY <1>1, <1>3, <1>4, <1>5
<1>10. type' \in Types /\ wire'.format # "CBOR"
  BY <1>1, <1>6 DEF BytesInv
<1>11. ExtrasInOrder(held.extra)' /\ Sent(type)' = Sent(type')
  BY <1>9 DEF ExtrasInOrder, Sent
<1> QED
  BY <1>1, <1>7, <1>8, <1>9, <1>10, <1>11 DEF BytesInv

\* So does writing, which is in order because the extras are.
LEMMA WriteKeeps ==
  ASSUME BytesInv, C!MarshalCBOR \/ C!MarshalJSON
  PROVE  BytesInv'
<1>1. UNCHANGED <<type, held, decoded>>
  BY DEF C!MarshalCBOR, C!MarshalJSON
<1>2. CASE C!MarshalCBOR
  <2>1. wire' = C!AppendCBOR(type, held)
    BY <1>2 DEF C!MarshalCBOR
  <2>2. wire'.format = "CBOR" => Canonical(wire'.keys) /\ wire'.count = Len(wire'.keys)
    BY <2>1, WholeIsMerged DEF BytesInv
  <2> QED
    BY <1>1, <2>2 DEF BytesInv, Canonical, ExtrasInOrder, Sent
<1>3. CASE C!MarshalJSON
  <2>1. wire' = C!AppendJSON(type, held)
    BY <1>3 DEF C!MarshalJSON
  <2>2. wire'.format # "CBOR"
    BY <2>1 DEF C!AppendJSON, C!Error
  <2> QED
    BY <1>1, <2>2 DEF BytesInv, ExtrasInOrder, Sent
<1> QED
  BY <1>2, <1>3

\* It holds at first.
LEMMA BytesInitOK == C!Init => BytesInv
<1> SUFFICES ASSUME C!Init PROVE BytesInv
  OBVIOUS
<1>1. type \in Types /\ held = C!Zero /\ decoded = <<>> /\ wire = C!None
  BY DEF C!Init
<1>2. C!Zero.extra = <<>> /\ C!Zero.has = {} /\ C!None.format = "none"
  BY DEF C!Zero, C!None
<1>3. <<>> \in Extras /\ ExtrasInOrder(<<>>)
  BY DEF Extras, ExtrasInOrder
<1> QED
  BY <1>1, <1>2, <1>3 DEF BytesInv

\* Every step, and every stutter, keeps it.
LEMMA BytesNextOK == BytesInv /\ [C!Next]_(C!vars) => BytesInv'
<1> SUFFICES ASSUME BytesInv, [C!Next]_(C!vars) PROVE BytesInv'
  OBVIOUS
<1>1. ASSUME NEW m \in C!Messages(type, "CBOR"), C!UnmarshalCBOR(m) PROVE BytesInv'
  BY <1>1, SentIs, ReadKeeps DEF C!UnmarshalCBOR, BytesInv, C!Formats
<1>2. ASSUME NEW m \in C!Messages(type, "JSON"), C!UnmarshalJSON(m) PROVE BytesInv'
  BY <1>2, SentIs, ReadKeeps DEF C!UnmarshalJSON, BytesInv, C!Formats
<1>3. CASE UNCHANGED C!vars
  BY <1>3 DEF C!vars, BytesInv, Canonical, ExtrasInOrder, Sent
<1> QED
  BY <1>1, <1>2, <1>3, WriteKeeps DEF C!Next

\* What the run checks is a behaviour of the struct.
LEMMA BytesBehave == MCSpec => C!Spec
<1>1. MCInit => C!Init
  BY DEF MCInit
<1>2. [MCNext]_<<part, vars, codec, writer>> => [C!Next]_(C!vars)
  BY DEF MCNext, Part, codec, C!vars
<1> QED
  BY <1>1, <1>2, PTL DEF MCSpec, C!Spec

\* Every CBOR map written is in the canonical order and counts its pairs, however many
\* messages were read into the struct before, in either format (extra.go:52).
THEOREM MapsAreCanonical == MCSpec => []CBORIsCanonical
<1>1. BytesInv => CBORIsCanonical
  BY DEF BytesInv, Canonical, CBORIsCanonical, C!CBORIsCanonical
<1> QED
  BY <1>1, BytesBehave, BytesInitOK, BytesNextOK, PTL DEF C!Spec

-----------------------------------------------------------------------------
(* The two transports.                                                     *)

\* No extras stay no extras.
LEMMA NothingKept == ASSUME NEW F PROVE C!Keep(<<>>, F) = <<>>
<1> DEFINE r == C!Keep(<<>>, F)
<1>1. <<>> \in Extras
  BY DEF Extras
<1>2. r \in Extras /\ \E g : Picked(<<>>, F, Len(<<>>), r, g)
  BY <1>1, KeepPicks
<1> HIDE DEF r
<1>3. Len(r) \in Nat /\ r \in Seq(Extra)
  BY <1>2 DEF Extras
<1>4. Len(r) = 0
  <2>1. PICK g : g \in [1..Len(r) -> 1..Len(<<>>)]
    BY <1>2 DEF Picked
  <2> SUFFICES ASSUME Len(r) # 0 PROVE FALSE
    OBVIOUS
  <2>2. 1 \in 1..Len(r)
    BY <1>3
  <2>3. g[1] \in 1..0
    BY <2>1, <2>2
  <2> QED BY <2>3
<1>5. r = <<>>
  BY <1>3, <1>4
<1> QED
  BY <1>5 DEF r

\* A key alone is in alphabetical order.
LEMMA OneIsAlphabetical ==
  ASSUME NEW keys \in Seq(C!Unknown), Len(keys) <= 1
  PROVE  C!Alphabetical(keys) = keys
<1> DEFINE S == {keys[i] : i \in DOMAIN keys}
           Right(s) == \A i, j \in DOMAIN s : i < j => C!AlphaRank[s[i]] < C!AlphaRank[s[j]]
           n == Cardinality(S)
<1>1. C!Alphabetical(keys) = CHOOSE s \in [1..n -> S] : Right(s)
  BY SameCardinality DEF C!Alphabetical, C!InOrder, C!ToSet
<1>2. n = Len(keys) /\ (Len(keys) = 0 \/ Len(keys) = 1)
  <2>1. CASE Len(keys) = 0
    <3>1. S = {}
      BY <2>1
    <3> HIDE DEF S
    <3> QED BY <2>1, <3>1, FS_EmptySet
  <2>2. CASE Len(keys) = 1
    <3>1. S = {keys[1]}
      BY <2>2
    <3> HIDE DEF S
    <3> QED BY <2>2, <3>1, FS_Singleton
  <2>3. Len(keys) = 0 \/ Len(keys) = 1
    <3> DEFINE l == Len(keys)
    <3>1. l \in Nat /\ l <= 1
      OBVIOUS
    <3> HIDE DEF S, n, l
    <3>2. l = 0 \/ l = 1
      BY <3>1
    <3> QED BY <3>2 DEF l
  <2> HIDE DEF S, n
  <2> QED BY <2>1, <2>2, <2>3
<1>3. keys \in [1..n -> S]
  <2>1. DOMAIN keys = 1..Len(keys) /\ keys = [i \in 1..Len(keys) |-> keys[i]]
    OBVIOUS
  <2>2. \A i \in 1..Len(keys) : keys[i] \in S
    BY <2>1
  <2> HIDE DEF S, n
  <2> QED BY <1>2, <2>1, <2>2
<1>4. Right(keys)
  BY <1>2
<1>5. \A s \in [1..n -> S] : s = keys
  <2> SUFFICES ASSUME NEW s \in [1..n -> S] PROVE s = keys
    OBVIOUS
  <2>1. \A i \in 1..n : s[i] \in S /\ i = 1 /\ Len(keys) = 1
    BY <1>2
  <2>2. Len(keys) = 1 => S = {keys[1]}
    OBVIOUS
  <2>3. \A i \in 1..n : s[i] = keys[i]
    <3> HIDE DEF S, n
    <3> QED BY <2>1, <2>2
  <2>4. s = [i \in 1..n |-> s[i]] /\ keys = [i \in 1..n |-> keys[i]]
    <3> HIDE DEF S, n
    <3> QED BY <1>3
  <2> HIDE DEF S, n
  <2>5. [i \in 1..n |-> s[i]] = [i \in 1..n |-> keys[i]]
    BY <2>3
  <2> QED BY <2>4, <2>5
<1> HIDE DEF S, n, Right
<1> QED
  BY <1>1, <1>3, <1>4, <1>5

\* A message alone, in an empty struct.
Alone(t, f, known, member, foreign, blobs) ==
  [has    |-> known \cap C!Fields(C!CBORSchema[t]),
   member |-> [k \in DOMAIN C!CBORSchema[t].unions \cap known |-> [id |-> member[k], raw |-> f]],
   extra  |-> [i \in DOMAIN foreign |-> [key |-> foreign[i], format |-> f, blob |-> foreign[i] \in blobs]]]

\* That is what an empty struct holds after it was read.
LEMMA ReadAlone ==
  ASSUME NEW t \in Types, NEW m, m.foreign \in Seq(C!Unknown)
  PROVE  C!UnmarshalAt(t, C!Zero, m) = Alone(t, m.format, m.known, m.member, m.foreign, m.blobs)
<1> DEFINE f == m.format
           schema == C!Schema(t, f)
           unions == DOMAIN schema.unions
           raw == [i \in DOMAIN m.foreign |-> [key |-> m.foreign[i], format |-> f, blob |-> m.foreign[i] \in m.blobs]]
           member == [k \in unions \cap (C!Zero.has \cup m.known) |->
                        IF k \in m.known THEN C!Member(schema, C!Zero, m, k) ELSE C!Zero.member[k]]
<1>1. C!UnmarshalAt(t, C!Zero, m) =
        [has    |-> C!Zero.has \cup (m.known \cap C!Fields(schema)),
         member |-> member,
         extra  |-> C!ClearExtra(C!Zero.extra, f) \o raw]
  BY DEF C!UnmarshalAt
<1>2. C!Zero.has = {} /\ C!Zero.member = <<>> /\ C!Zero.extra = <<>>
  BY DEF C!Zero
<1>3. C!Fields(schema) = C!Fields(C!CBORSchema[t]) /\ schema.unions = C!CBORSchema[t].unions
  BY FormatsAgree
<1>4. C!Zero.has \cup (m.known \cap C!Fields(schema)) = m.known \cap C!Fields(C!CBORSchema[t])
  BY <1>2, <1>3
<1>5. \A k : C!Member(schema, C!Zero, m, k) = [id |-> m.member[k], raw |-> f]
  <2>1. DOMAIN C!Zero.member = {}
    BY <1>2
  <2> QED
    BY <2>1 DEF C!Member
<1>6. member = [k \in DOMAIN C!CBORSchema[t].unions \cap m.known |-> [id |-> m.member[k], raw |-> f]]
  <2>1. unions \cap (C!Zero.has \cup m.known) = DOMAIN C!CBORSchema[t].unions \cap m.known
    BY <1>2, <1>3
  <2> HIDE DEF unions, schema, f
  <2> QED
    BY <1>5, <2>1
<1>7. C!ClearExtra(C!Zero.extra, f) \o raw = raw
  <2>1. C!ClearExtra(C!Zero.extra, f) = <<>>
    BY <1>2, NothingKept DEF C!ClearExtra
  <2>2. raw \in Seq([key: C!Unknown, format: {f}, blob: BOOLEAN])
    <3> DEFINE keys == m.foreign
               B == m.blobs
    <3>1. DOMAIN keys = 1..Len(keys) /\ Len(keys) \in Nat /\ \A i \in 1..Len(keys) : keys[i] \in C!Unknown
      OBVIOUS
    <3> HIDE DEF keys, f, B
    <3>2. [i \in DOMAIN keys |-> [key |-> keys[i], format |-> f, blob |-> keys[i] \in B]]
            \in [1..Len(keys) -> [key: C!Unknown, format: {f}, blob: BOOLEAN]]
      BY <3>1
    <3>3. [i \in DOMAIN keys |-> [key |-> keys[i], format |-> f, blob |-> keys[i] \in B]] \in Seq([key: C!Unknown, format: {f}, blob: BOOLEAN])
      BY <3>1, <3>2
    <3> QED BY <3>3 DEF keys, B
  <2> HIDE DEF raw
  <2> QED
    BY <2>1, <2>2
<1> HIDE DEF member, raw, schema
<1> QED
  BY <1>1, <1>4, <1>6, <1>7 DEF Alone, raw

\* At most one extra is kept where it is, if it is in one of the formats.
LEMMA OneIsKept ==
  ASSUME NEW e \in Extras, NEW F, Len(e) <= 1, \A i \in 1..Len(e) : e[i].format \in F
  PROVE  C!Keep(e, F) = e
<1> DEFINE r == C!Keep(e, F)
           n == Len(r)
           m == Len(e)
<1>1. r \in Extras
  BY KeepPicks
<1>2. PICK g : Picked(e, F, m, r, g)
  BY KeepPicks
<1> HIDE DEF r
<1>3. /\ r \in Seq(Extra) /\ e \in Seq(Extra) /\ n \in Nat /\ m \in Nat /\ m <= 1
      /\ DOMAIN r = 1..n /\ DOMAIN e = 1..m
  BY <1>1 DEF Extras
<1>4. /\ g \in [1..n -> 1..m] /\ \A i, j \in 1..n : i < j => g[i] < g[j]
      /\ \A i \in 1..n : r[i] = e[g[i]]
      /\ \A j \in 1..m : \E i \in 1..n : g[i] = j
  BY <1>2 DEF Picked
<1> HIDE DEF n, m
<1>5. \A i \in 1..n : g[i] = 1 /\ m = 1
  BY <1>3, <1>4
<1>6. n <= 1
  <2> SUFFICES ASSUME ~(n <= 1) PROVE FALSE
    OBVIOUS
  <2>1. 1 \in 1..n /\ 2 \in 1..n
    BY <1>3
  <2>2. g[1] < g[2] /\ g[1] = 1 /\ g[2] = 1
    BY <1>4, <1>5, <2>1
  <2> QED BY <2>2
<1>7. n = m
  <2>1. m = 1 => \E i \in 1..n : TRUE
    BY <1>4
  <2>2. m = 1 => n = 1
    BY <1>3, <1>6, <2>1
  <2>3. m = 0 => n = 0
    <3> SUFFICES ASSUME m = 0, n # 0 PROVE FALSE
      OBVIOUS
    <3>1. 1 \in 1..n
      BY <1>3
    <3> QED BY <1>5, <3>1
  <2> QED BY <1>3, <2>2, <2>3
<1>8. \A i \in 1..n : r[i] = e[i]
  BY <1>3, <1>4, <1>5, <1>6
<1> QED
  BY <1>3, <1>7, <1>8, SeqEqual DEF r, n, m

\* JSON with its bytes under foreign keys as strings.
AsStrings(w) == IF w = C!Error THEN C!Error ELSE [w EXCEPT !.blobs = {}]

\* What is written as JSON has its parts, and has no bytes once they are strings.
LEMMA Written ==
  ASSUME NEW n, NEW keys, NEW b
  PROVE  LET w == [format |-> "JSON", count |-> n, keys |-> keys, holes |-> {}, blobs |-> b] IN
         /\ w.format = "JSON" /\ w.holes = {}
         /\ [w EXCEPT !.blobs = {}]
              = [format |-> "JSON", count |-> n, keys |-> keys, holes |-> {}, blobs |-> {}]
OBVIOUS

\* Structs that hold the same fields, and in their unions only members that these list,
\* come out of JSON the same, whatever format they were read from, if the one has
\* strings where the other has bytes.
LEMMA SameJSON ==
  ASSUME NEW t, NEW v, NEW w, v.has = w.has, NEW keys,
         [i \in DOMAIN C!JSONExtras(v.extra) |-> C!JSONExtras(v.extra)[i].key] = keys,
         [i \in DOMAIN C!JSONExtras(w.extra) |-> C!JSONExtras(w.extra)[i].key] = keys,
         C!BlobKeys(C!JSONExtras(v.extra)) = {},
         \A k \in DOMAIN C!JSONSchema[t].unions \cap v.has :
           /\ v.member[k].id \in C!JSONSchema[t].unions[k]
           /\ w.member[k].id \in C!JSONSchema[t].unions[k]
  PROVE  /\ C!MarshalChecked(t, v) = AsStrings(C!MarshalChecked(t, w))
         /\ C!Unset(C!JSONSchema[t], w) = {} => C!MarshalChecked(t, w) # C!Error
<1> DEFINE schema == C!JSONSchema[t]
           all == C!KnownKeys(schema, v.has) \o keys
           blobs == C!BlobKeys(C!JSONExtras(w.extra))
           Out(b) == [format |-> "JSON", count |-> Len(all), keys |-> all, holes |-> {}, blobs |-> b]
<1>1. C!Holes(schema, v, "JSON") = {} /\ C!Holes(schema, w, "JSON") = {}
  BY DEF C!Holes
<1>2. C!Unset(schema, v) = C!Unset(schema, w)
  BY DEF C!Unset
<1>3. C!Error.format = "error"
  BY DEF C!Error
<1>4. CASE C!Unset(schema, w) = {}
  <2>1. C!AppendJSON(t, v) = Out({}) /\ C!AppendJSON(t, w) = Out(blobs)
    BY <1>1, <1>2, <1>4 DEF C!AppendJSON
  <2>2. \A b : Out(b).format = "JSON" /\ Out(b).holes = {} /\ [Out(b) EXCEPT !.blobs = {}] = Out({})
    <3> HIDE DEF all
    <3> QED BY Written
  <2> HIDE DEF Out, schema, blobs
  <2>3. \A b : Out(b) # C!Error
    BY <1>3, <2>2
  <2>4. C!MarshalChecked(t, v) = Out({}) /\ C!MarshalChecked(t, w) = Out(blobs)
    BY <2>1, <2>2, <2>3 DEF C!MarshalChecked
  <2> QED
    BY <2>2, <2>3, <2>4 DEF AsStrings
<1>5. CASE C!Unset(schema, w) # {}
  <2>1. C!AppendJSON(t, v) = C!Error /\ C!AppendJSON(t, w) = C!Error
    BY <1>2, <1>5 DEF C!AppendJSON
  <2> HIDE DEF schema
  <2>2. C!MarshalChecked(t, v) = C!Error /\ C!MarshalChecked(t, w) = C!Error
    BY <2>1 DEF C!MarshalChecked
  <2> QED
    BY <1>5, <2>2 DEF AsStrings, schema
<1> QED
  BY <1>4, <1>5

\* Messages, in either dialect of bytes.
Message(t) == [format: C!Formats, canonical: {TRUE}, plain: BOOLEAN, foreign: Seq(C!Unknown),
               blobs: SUBSET C!Unknown, empty: BOOLEAN,
               known: SUBSET C!Fields(C!CBORSchema[t]), member: C!Members(C!CBORSchema[t])]

SameContent(x, y) ==
  x.known = y.known /\ x.member = y.member /\ x.foreign = y.foreign /\ x.empty = y.empty

\* Foreign keys as a struct keeps them.
Raw(keys, f, B) == [i \in DOMAIN keys |-> [key |-> keys[i], format |-> f, blob |-> keys[i] \in B]]

\* At most one foreign key comes out of JSON again as it went in, if it did by JSON.
LEMMA ForeignKept ==
  ASSUME NEW f \in C!Formats, NEW keys \in Seq(C!Unknown), NEW B,
         NEW e, e = Raw(keys, f, B),
         Len(keys) = 0 \/ (Len(keys) = 1 /\ f = "JSON")
  PROVE  LET x == C!JSONExtras(e)
         IN  [i \in DOMAIN x |-> x[i].key] = keys /\ (B = {} => C!BlobKeys(x) = {})
<1>1. /\ DOMAIN keys = 1..Len(keys) /\ Len(keys) \in Nat
      /\ \A i \in 1..Len(keys) : keys[i] \in C!Unknown
      /\ keys = [i \in 1..Len(keys) |-> keys[i]]
  OBVIOUS
<1>2. \A i \in 1..Len(keys) : /\ e[i] = [key |-> keys[i], format |-> f, blob |-> keys[i] \in B]
                              /\ e[i] \in Extra
  <2>1. \A i \in 1..Len(keys) : e[i] = [key |-> keys[i], format |-> f, blob |-> keys[i] \in B]
    BY <1>1 DEF Raw
  <2>2. ASSUME NEW i \in 1..Len(keys) PROVE e[i] \in Extra
    <3> DEFINE b == keys[i] \in B
    <3>1. b \in BOOLEAN
      OBVIOUS
    <3>2. keys[i] \in C!Unknown /\ e[i] = [key |-> keys[i], format |-> f, blob |-> b]
      BY <1>1, <2>1
    <3> HIDE DEF b
    <3> QED BY <3>1, <3>2 DEF Extra
  <2> QED BY <2>1, <2>2
<1>3. e \in Seq(Extra) /\ Len(e) = Len(keys) /\ DOMAIN e = 1..Len(keys)
  <2>1. DOMAIN e = 1..Len(keys) /\ e = [i \in 1..Len(keys) |-> e[i]]
    BY <1>1 DEF Raw
  <2>2. \A i \in 1..Len(keys) : e[i] \in Extra
    BY <1>2, Zenon
  <2> QED BY <1>1, <2>1, <2>2
<1>4. C!JSONExtras(e) = e
  BY <1>2, <1>3, OneIsKept DEF C!JSONExtras, Extras
<1>5. [i \in DOMAIN e |-> e[i].key] = keys
  <2>1. ASSUME NEW i \in 1..Len(keys) PROVE e[i].key = keys[i]
    <3> DEFINE b == keys[i] \in B
    <3>1. e[i] = [key |-> keys[i], format |-> f, blob |-> b]
      BY <1>2
    <3> HIDE DEF b
    <3> QED BY <3>1
  <2> QED BY <1>1, <1>3, <2>1
<1>6. B = {} => C!BlobKeys(e) = {}
  <2>1. ASSUME B = {}, NEW i \in 1..Len(keys) PROVE ~e[i].blob
    <3> DEFINE b == keys[i] \in B
    <3>1. e[i] = [key |-> keys[i], format |-> f, blob |-> b] /\ ~b
      BY <1>2, <2>1
    <3> HIDE DEF b
    <3>2. e[i].blob = b
      BY <3>1
    <3> QED BY <3>1, <3>2
  <2> QED BY <1>3, <2>1 DEF C!BlobKeys
<1> QED
  BY <1>4, <1>5, <1>6

\* Messages of the same content decode alike, if their unions hold listed members and
\* they have no foreign key, or one and come as JSON, strings in the one.
LEMMA TypedAlike ==
  ASSUME NEW t \in Types, NEW x \in Message(t), NEW y \in Message(t), SameContent(x, y),
         C!Readable(x), C!Readable(y),
         \/ Len(x.foreign) = 0
         \/ Len(x.foreign) = 1 /\ x.format = "JSON" /\ y.format = "JSON",
         x.blobs = {},
         \A k \in DOMAIN x.member \cap x.known : x.member[k] # C!Stranger
  PROVE  /\ C!TypedJSON(t, x) = AsStrings(C!TypedJSON(t, y))
         /\ \A v : v.has = x.known \cap C!Fields(C!CBORSchema[t]) /\ C!Unset(C!JSONSchema[t], v) = {}
                   => C!TypedJSON(t, y) # C!Error
<1> DEFINE unions == C!CBORSchema[t].unions
           a == Alone(t, x.format, x.known, x.member, x.foreign, x.blobs)
           b == Alone(t, y.format, y.known, y.member, y.foreign, y.blobs)
<1>0. /\ x.foreign \in Seq(C!Unknown) /\ y.foreign \in Seq(C!Unknown) /\ x.foreign = y.foreign
      /\ x.format \in C!Formats /\ y.format \in C!Formats
      /\ Len(x.foreign) = 0 \/ (Len(x.foreign) = 1 /\ x.format = "JSON")
      /\ Len(x.foreign) = 0 \/ (Len(x.foreign) = 1 /\ y.format = "JSON")
  BY DEF Message, SameContent
<1>1. /\ C!TypedJSON(t, x) = C!MarshalChecked(t, a)
      /\ C!TypedJSON(t, y) = C!MarshalChecked(t, b)
  BY <1>0, ReadAlone DEF C!TypedJSON
<1>2. a.has = b.has /\ a.has = x.known \cap C!Fields(C!CBORSchema[t])
  BY DEF Alone, SameContent
<1>3. /\ [i \in DOMAIN C!JSONExtras(a.extra) |-> C!JSONExtras(a.extra)[i].key] = x.foreign
      /\ [i \in DOMAIN C!JSONExtras(b.extra) |-> C!JSONExtras(b.extra)[i].key] = x.foreign
      /\ C!BlobKeys(C!JSONExtras(a.extra)) = {}
  <2>1. a.extra = Raw(x.foreign, x.format, x.blobs)
    BY DEF Alone, Raw
  <2>2. b.extra = Raw(y.foreign, y.format, y.blobs)
    BY DEF Alone, Raw
  <2> HIDE DEF a, b
  <2>3. /\ [i \in DOMAIN C!JSONExtras(a.extra) |-> C!JSONExtras(a.extra)[i].key] = x.foreign
        /\ C!BlobKeys(C!JSONExtras(a.extra)) = {}
    <3>1. x.format \in C!Formats /\ x.foreign \in Seq(C!Unknown)
          /\ (Len(x.foreign) = 0 \/ (Len(x.foreign) = 1 /\ x.format = "JSON"))
      BY <1>0
    <3> QED BY <2>1, <3>1, ForeignKept
  <2>4. [i \in DOMAIN C!JSONExtras(b.extra) |-> C!JSONExtras(b.extra)[i].key] = y.foreign
    <3>1. y.format \in C!Formats /\ y.foreign \in Seq(C!Unknown) /\ x.foreign = y.foreign
          /\ (Len(y.foreign) = 0 \/ (Len(y.foreign) = 1 /\ y.format = "JSON"))
      BY <1>0
    <3>2. [i \in DOMAIN C!JSONExtras(b.extra) |-> C!JSONExtras(b.extra)[i].key] = y.foreign
      BY <2>2, <3>1, ForeignKept
    <3> QED BY <3>1, <3>2
  <2> QED
    BY <1>0, <2>3, <2>4
<1>4. \A k \in DOMAIN unions \cap x.known : x.member[k] \in unions[k]
  <2>1. /\ DOMAIN x.member = DOMAIN unions
        /\ \A k \in DOMAIN unions : x.member[k] \in unions[k] \cup {C!Stranger}
    BY DEF Message, C!Members
  <2> QED
    BY <2>1
<1>5. /\ \A k \in DOMAIN unions \cap x.known : a.member[k].id = x.member[k] /\ b.member[k].id = x.member[k]
      /\ a.has \subseteq x.known
  BY DEF Alone, SameContent
<1>6. C!JSONSchema[t].unions = unions
  BY LexiconAssumption
<1> HIDE DEF a, b, unions
<1>7. \A k \in DOMAIN C!JSONSchema[t].unions \cap a.has :
        /\ a.member[k].id \in C!JSONSchema[t].unions[k]
        /\ b.member[k].id \in C!JSONSchema[t].unions[k]
  BY <1>4, <1>5, <1>6
<1>8. /\ C!MarshalChecked(t, a) = AsStrings(C!MarshalChecked(t, b))
      /\ C!Unset(C!JSONSchema[t], b) = {} => C!MarshalChecked(t, b) # C!Error
  <2> DEFINE keys == x.foreign
  <2>1. a.has = b.has
    BY <1>2
  <2>2. /\ [i \in DOMAIN C!JSONExtras(a.extra) |-> C!JSONExtras(a.extra)[i].key] = keys
        /\ [i \in DOMAIN C!JSONExtras(b.extra) |-> C!JSONExtras(b.extra)[i].key] = keys
        /\ C!BlobKeys(C!JSONExtras(a.extra)) = {}
    BY <1>3
  <2> HIDE DEF keys
  <2> QED BY <1>7, <2>1, <2>2, SameJSON
<1>9. ASSUME NEW v, v.has = x.known \cap C!Fields(C!CBORSchema[t]), C!Unset(C!JSONSchema[t], v) = {}
      PROVE  C!Unset(C!JSONSchema[t], b) = {}
  BY <1>2, <1>9 DEF C!Unset
<1> QED
  BY <1>1, <1>8, <1>9

HasBytes(x) == x.known \cap C!BytesFields # {}

\* A commentary record with at most one foreign key is normalised to the same content,
\* and to what can be read, unless bytes of it are an empty string.
LEMMA Normalized ==
  ASSUME NEW t, NEW x \in Message(t), x.format = "JSON", Len(x.foreign) <= 1
  PROVE  LET y == C!NormalizeCommentary(x) IN
         /\ y \in Message(t) /\ y.format = "JSON" /\ SameContent(x, y) /\ y.blobs = x.blobs
         /\ ~(x.empty /\ HasBytes(x)) => C!Readable(y)
         /\ x.plain /\ x.empty /\ HasBytes(x) => ~C!Readable(y)
<1>1. C!Alphabetical(x.foreign) = x.foreign
  <2>1. x.foreign \in Seq(C!Unknown)
    BY DEF Message
  <2> QED BY <2>1, OneIsAlphabetical
<1>2. CASE x.plain /\ HasBytes(x)
  <2> DEFINE y == [x EXCEPT !.plain = x.empty, !.foreign = C!Alphabetical(x.foreign)]
  <2>1. C!NormalizeCommentary(x) = y
    BY <1>2 DEF C!NormalizeCommentary, HasBytes
  <2>2. /\ y \in Message(t) /\ y.format = "JSON" /\ y.plain = x.empty /\ y.empty = x.empty
        /\ y.known = x.known /\ y.member = x.member /\ y.foreign = x.foreign /\ y.blobs = x.blobs
    BY <1>1 DEF Message
  <2> HIDE DEF y
  <2> QED
    BY <1>2, <2>1, <2>2 DEF SameContent, C!Readable, HasBytes
<1>3. CASE ~(x.plain /\ HasBytes(x))
  <2>1. C!NormalizeCommentary(x) = x
    BY <1>3 DEF C!NormalizeCommentary, HasBytes
  <2> QED
    BY <1>3, <2>1 DEF SameContent, C!Readable, HasBytes
<1> QED
  BY <1>2, <1>3

\* The invariant says enough of the one message read for the transports to meet.
LEMMA TransportsMeet == ASSUME BytesInv PROVE C!TransportsAgree
<1> DEFINE m == decoded[1]
           t == type
           commentary == t = "GameCommentary"
<1> SUFFICES ASSUME Len(decoded) = 1, C!IsNative(t, m), NEW plain \in BOOLEAN, commentary \/ ~plain
             PROVE  LET cbor == C!DecodeRecordCBOR(t, [m EXCEPT !.format = "CBOR", !.plain = FALSE])
                        json == C!DecodeRecordJSON(t, [m EXCEPT !.format = "JSON", !.plain = plain])
                    IN  IF C!HasEmptyBytes(t, m) THEN cbor = C!Error
                        ELSE /\ C!Unset(C!JSONSchema[t], held) = {} => json # C!Error
                             /\ cbor = IF json = C!Error THEN C!Error ELSE [json EXCEPT !.blobs = {}]
  BY DEF C!TransportsAgree
<1> DEFINE x == [m EXCEPT !.format = "CBOR", !.plain = FALSE]
           y == [m EXCEPT !.format = "JSON", !.plain = plain]
<1>1. m \in Sent(t) /\ t \in Types /\ held = C!UnmarshalAt(t, C!Zero, m)
  <2>1. decoded \in Seq(Sent(t)) /\ t \in Types /\ held = C!UnmarshalAt(t, C!Zero, m)
    BY DEF BytesInv
  <2>2. m \in Sent(t)
    <3> DEFINE S == Sent(t)
    <3>1. decoded \in Seq(S)
      BY <2>1
    <3> HIDE DEF S
    <3>2. 1 \in 1..Len(decoded)
      OBVIOUS
    <3>3. decoded[1] \in S
      BY <3>1, <3>2, ElementOfSeq
    <3> QED BY <3>3 DEF S
  <2> QED BY <2>1, <2>2
<1>2. m \in Message(t)
  <2>1. \A keys \in C!ForeignSeqs : keys \in Seq(C!Unknown)
    BY LexiconAssumption
  <2> HIDE DEF m, t
  <2> QED BY <1>1, <2>1 DEF Sent, Message
<1> HIDE DEF m
<1>3. /\ x \in Message(t) /\ x.format = "CBOR" /\ x.plain = FALSE /\ x.canonical = TRUE
      /\ SameContent(m, x) /\ x.blobs = m.blobs
      /\ y \in Message(t) /\ y.format = "JSON" /\ y.plain = plain /\ SameContent(m, y)
  <2>1. "CBOR" \in C!Formats /\ "JSON" \in C!Formats
    BY DEF C!Formats
  <2> HIDE DEF t
  <2> QED BY <1>2, <2>1 DEF Message, SameContent
<1>4. held.has = m.known \cap C!Fields(C!CBORSchema[t])
  <2>1. m.foreign \in Seq(C!Unknown)
    BY <1>2 DEF Message
  <2>2. held = Alone(t, m.format, m.known, m.member, m.foreign, m.blobs)
    BY <1>1, <2>1, ReadAlone
  <2> QED BY <2>2 DEF Alone
<1>5. /\ Len(m.foreign) \in Nat /\ Len(m.foreign) <= 1 /\ (~commentary => Len(m.foreign) = 0)
      /\ \A k \in DOMAIN m.member \cap m.known : m.member[k] # C!Stranger
  <2>1. m.foreign \in Seq(C!Unknown)
    BY <1>2 DEF Message
  <2>2. Len(m.foreign) \in Nat
    BY <2>1
  <2>3. Len(m.foreign) <= IF commentary THEN 1 ELSE 0
    BY DEF C!IsNative
  <2>4. \A k \in DOMAIN m.member \cap m.known : m.member[k] # C!Stranger
    BY DEF C!IsNative
  <2> HIDE DEF commentary
  <2> QED BY <2>2, <2>3, <2>4
<1>6. CASE ~commentary
  <2> DEFINE z == [x EXCEPT !.blobs = {}]
  <2>1. C!DecodeRecordCBOR(t, x) = C!TypedJSON(t, x) /\ C!DecodeRecordJSON(t, y) = C!TypedJSON(t, y)
    BY <1>6 DEF C!DecodeRecordCBOR, C!DecodeRecordJSON
  <2>2. ~C!HasEmptyBytes(t, m)
    BY <1>6 DEF C!HasEmptyBytes
  <2>3. z \in Message(t) /\ z.format = "CBOR" /\ SameContent(x, z) /\ z.blobs = {} /\ z.canonical /\ ~z.plain
    <3> HIDE DEF x, t
    <3> QED BY <1>3 DEF Message, SameContent
  <2>4. C!TypedJSON(t, x) = C!TypedJSON(t, z)
    <3> HIDE DEF x, z
    <3>1. /\ x.foreign = z.foreign /\ x.known = z.known /\ x.member = z.member
          /\ x.foreign \in Seq(C!Unknown) /\ Len(x.foreign) = 0
      BY <1>3, <1>5, <1>6, <2>3 DEF Message, SameContent
    <3>2. C!Readable(x) <=> C!Readable(z)
      BY <1>3, <2>3, <3>1 DEF C!Readable
    <3>3. Alone(t, "CBOR", x.known, x.member, x.foreign, x.blobs)
            = Alone(t, "CBOR", z.known, z.member, z.foreign, z.blobs)
      <4>1. DOMAIN x.foreign = {}
        BY <3>1
      <4> QED BY <3>1, <4>1 DEF Alone
    <3>4. C!UnmarshalAt(t, C!Zero, x) = C!UnmarshalAt(t, C!Zero, z)
      BY <1>1, <1>3, <2>3, <3>1, <3>3, ReadAlone
    <3> QED BY <3>2, <3>4 DEF C!TypedJSON
  <2> HIDE DEF x, y, z, t
  <2>5. /\ C!Readable(z) /\ C!Readable(y) /\ SameContent(z, y) /\ Len(z.foreign) = 0 /\ z.known = m.known
        /\ \A k \in DOMAIN z.member \cap z.known : z.member[k] # C!Stranger
    BY <1>3, <1>5, <1>6, <2>3 DEF SameContent, C!Readable
  <2>6. C!TypedJSON(t, z) = AsStrings(C!TypedJSON(t, y))
    BY <1>1, <1>3, <2>3, <2>5, TypedAlike
  <2>7. C!Unset(C!JSONSchema[t], held) = {} => C!TypedJSON(t, y) # C!Error
    BY <1>1, <1>3, <1>4, <2>3, <2>5, TypedAlike
  <2> QED BY <2>1, <2>2, <2>4, <2>6, <2>7 DEF x, y, AsStrings
<1>7. CASE commentary
  <2> DEFINE g == [x EXCEPT !.format = "JSON", !.plain = TRUE, !.blobs = {},
                            !.foreign = C!Alphabetical(x.foreign)]
             p == C!NormalizeCommentary(g)
             q == C!NormalizeCommentary(y)
  <2>1. C!DecodeRecordCBOR(t, x) = C!TypedJSON(t, p) /\ C!DecodeRecordJSON(t, y) = C!TypedJSON(t, q)
    <3>1. C!DecodeRecordCBOR(t, x) = C!DecodeRecordJSON(t, g)
      BY <1>3, <1>7 DEF C!DecodeRecordCBOR
    <3> HIDE DEF x, y, g
    <3> QED BY <1>7, <3>1 DEF C!DecodeRecordJSON
  <2>2. C!Alphabetical(x.foreign) = x.foreign
    <3> HIDE DEF x
    <3>1. x.foreign \in Seq(C!Unknown) /\ x.foreign = m.foreign
      BY <1>3 DEF Message, SameContent
    <3> QED BY <1>5, <3>1, OneIsAlphabetical
  <2>3. g \in Message(t) /\ g.format = "JSON" /\ SameContent(x, g) /\ g.plain /\ g.blobs = {}
    <3>1. "JSON" \in C!Formats
      BY DEF C!Formats
    <3> HIDE DEF x, t
    <3> QED BY <1>3, <2>2, <3>1 DEF Message, SameContent
  <2> HIDE DEF x, y, g
  <2>4. Len(g.foreign) <= 1 /\ Len(y.foreign) <= 1
    BY <1>3, <1>5, <2>3 DEF SameContent
  <2>5. /\ p \in Message(t) /\ p.format = "JSON" /\ SameContent(g, p) /\ p.blobs = {}
        /\ q \in Message(t) /\ q.format = "JSON" /\ SameContent(y, q)
        /\ ~(g.empty /\ HasBytes(g)) => C!Readable(p)
        /\ ~(y.empty /\ HasBytes(y)) => C!Readable(q)
        /\ g.empty /\ HasBytes(g) => ~C!Readable(p)
    BY <1>3, <2>3, <2>4, Normalized
  <2>6. /\ C!HasEmptyBytes(t, m) <=> g.empty /\ HasBytes(g)
        /\ C!HasEmptyBytes(t, m) <=> y.empty /\ HasBytes(y)
    BY <1>3, <1>7, <2>3 DEF C!HasEmptyBytes, SameContent, HasBytes
  <2> HIDE DEF p, q, t
  <2>7. CASE C!HasEmptyBytes(t, m)
    <3>1. C!TypedJSON(t, p) = C!Error
      BY <2>5, <2>6, <2>7 DEF C!TypedJSON
    <3> QED
      BY <2>1, <2>7, <3>1 DEF x
  <2>8. CASE ~C!HasEmptyBytes(t, m)
    <3>1. /\ C!Readable(p) /\ C!Readable(q) /\ SameContent(p, q) /\ p.known = m.known
          /\ Len(p.foreign) = 0 \/ Len(p.foreign) = 1
          /\ \A k \in DOMAIN p.member \cap p.known : p.member[k] # C!Stranger
      <4>1. C!Readable(p) /\ C!Readable(q)
        BY <2>5, <2>6, <2>8
      <4>2. SameContent(p, q) /\ p.known = m.known /\ p.member = m.member /\ p.foreign = g.foreign
        BY <1>3, <2>3, <2>5 DEF SameContent
      <4>3. Len(p.foreign) = 0 \/ Len(p.foreign) = 1
        <5>1. Len(g.foreign) \in Nat
          <6>1. g.foreign \in Seq(C!Unknown)
            BY <2>3 DEF Message
          <6> QED BY <6>1
        <5>2. Len(g.foreign) = 0 \/ Len(g.foreign) = 1
          <6> DEFINE n == Len(g.foreign)
          <6>1. n \in Nat /\ n <= 1
            BY <2>4, <5>1
          <6> HIDE DEF n
          <6>2. n = 0 \/ n = 1
            BY <6>1
          <6> QED BY <6>2 DEF n
        <5> QED BY <4>2, <5>2
      <4> QED BY <1>5, <4>1, <4>2, <4>3
    <3>2. C!TypedJSON(t, p) = AsStrings(C!TypedJSON(t, q))
      BY <1>1, <2>5, <3>1, TypedAlike
    <3>3. C!Unset(C!JSONSchema[t], held) = {} => C!TypedJSON(t, q) # C!Error
      BY <1>1, <1>4, <2>5, <3>1, TypedAlike
    <3> QED
      BY <2>1, <2>8, <3>2, <3>3 DEF x, y, AsStrings
  <2> QED BY <2>7, <2>8
<1> QED
  BY <1>6, <1>7

\* The ingest rules get the same JSON of a record from both transports, if its unions
\* hold members of the lexicon and it has no foreign key, commentary at most one, and
\* none is lost that has its required unions; but of commentary the firehose gives bytes
\* under a foreign key as a string and loses it when it has empty bytes (event.go:52).
THEOREM RecordsReadAlike == MCSpec => []TransportsAgree
<1>1. BytesInv => TransportsAgree
  BY TransportsMeet DEF TransportsAgree
<1> QED
  BY <1>1, BytesBehave, BytesInitOK, BytesNextOK, PTL DEF C!Spec

=============================================================================
