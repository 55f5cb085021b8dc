--------------------------- MODULE AgentLoopProofs ---------------------------
(***************************************************************************)
(* What the sessions of an agent leave behind - its records, its keys, its *)
(* game - for every number of sessions and plies, both dialects, and       *)
(* whatever calls get lost.                                                *)
(***************************************************************************)
EXTENDS AgentLoop, TLAPS

USE AgentLoopAssumption
USE DEF At, Sids

Session ==
  [pc: Pcs, running: BOOLEAN, published: BOOLEAN, moves: 0..MaxPlies, iter: 0..MaxIter,
   ply: 0..MaxPly + 1, over: BOOLEAN, crashed: BOOLEAN, woken: BOOLEAN]

Game == [over: BOOLEAN, ply: 0..MaxPly, mine: BOOLEAN, accepted: SUBSET (1..MaxPly)]

Repo == [records: SUBSET ((1..MaxPly) \X Sids), notes: SUBSET Sids, keys: SUBSET Sids]

\* The stations of one iteration, of a session that plays on, and of one that has not
\* come to its key yet.
InTurn  == {"pull", "sleep", "choose", "submit", "record", "explain"}
Playing == InTurn \cup {"ref", "loop", "cap", "resign"}
Unkeyed == Playing \cup {"confirm", "finish", "publish"}

\* What is true of a session because of where it is.
Fit(x) ==
  /\ x.pc \in InTurn => x.moves < MaxPlies /\ x.iter < MaxIter
  /\ x.pc \in {"record", "explain"} => x.ply \in game.accepted
  /\ x.over => game.over
  /\ x.pc \in {"confirm", "finish", "publish"} =>
       game.over \/ "resign" \in lost \/ Cancelled
  /\ x.pc = "cap" => Stopped \/ ~x.running \/ x.moves >= MaxPlies \/ x.iter >= MaxIter
  /\ stop = "no" /\ x.pc \in Playing => x.running
  /\ x.pc \in Unkeyed \ {"publish"} => ~x.published
  /\ x.pc = "unborn" => x.iter < MaxIter

\* Sessions are started in the order of the hints, each once.
Born == \A s \in Sids : s > hints => At(s, "unborn")

\* The game goes on until MaxPly, and takes every ply once.
Refereed ==
  /\ game.accepted \subseteq 1..game.ply
  /\ ~game.over => game.ply < MaxPly

\* Two sessions that live have been seen together; and who has chosen a move, or writes
\* the record of one, finds a record of that ply only by one he has lived together with.
Written ==
  /\ RecordsAreMoves
  /\ \A s, t \in Sids : Alive(s) /\ Alive(t) => s = t \/ {s, t} \in together
  /\ \A s \in Sids : session[s].pc \in {"choose", "submit", "record"} =>
       \A r \in repo.records : r[1] = session[s].ply => {r[2], s} \in together

\* No call got lost, and no session came to its iteration guard.
Calm == lost = {} /\ \A s \in Sids : ~Guarded(s)

\* As long as all is calm: a game that goes on has its one session, registered and
\* playing, until Stop resigns it; and who has written a note has a key to publish.
Kept ==
  Calm =>
    /\ ~game.over /\ stop = "no" =>
         \A s \in Sids : ~At(s, "unborn") => listed = s /\ session[s].pc \in Playing
    /\ ~game.over /\ stop = "done" => \A s \in Sids : At(s, "unborn")
    /\ stop = "no" => \A n \in repo.notes : n \in repo.keys \/ session[n].pc \in Unkeyed

IInv ==
  /\ TypeOK
  /\ \A s \in Sids : Fit(session[s])
  /\ Born /\ Refereed /\ Written /\ KeyWaitsForEnd /\ Kept

-----------------------------------------------------------------------------
(* Lemmas.                                                                 *)

\* What TypeOK says of each variable.
LEMMA Types ==
  ASSUME TypeOK
  PROVE  /\ session \in [Sids -> Session] /\ game \in Game /\ repo \in Repo
         /\ game.ply \in Nat /\ hints \in 0..Hints /\ listed \in {0} \cup Sids
         /\ lost \subseteq Calls /\ MaxIter \in Nat /\ together \subseteq SUBSET Sids
<1>1. game \in Game
  BY DEF TypeOK, Game
<1>2. game.ply \in Nat
  BY <1>1 DEF Game
<1> QED
  BY <1>1, <1>2 DEF TypeOK, Session, Repo, MaxIter

\* The two bounds of the loop are positive, and so is the iteration guard.
LEMMA GuardIsPositive == MaxIter \in Nat /\ 0 < MaxIter
<1>1. \A m, n \in Nat \ {0} : m * n \in Nat \ {0}
  OBVIOUS
<1>2. MaxPlies \in Nat \ {0} /\ GuardFactor \in Nat \ {0}
  OBVIOUS
<1>3. MaxPlies * GuardFactor \in Nat \ {0}
  BY <1>1, <1>2
<1> QED
  BY <1>3 DEF MaxIter

\* One session changes, and no other.
LEMMA SetOK ==
  ASSUME IInv, NEW s \in Sids, NEW v \in Session, Set(s, v)
  PROVE  /\ session' \in [Sids -> Session]
         /\ \A t \in Sids : session'[t] = IF t = s THEN v ELSE session[t]
<1>1. session \in [Sids -> Session]
  BY Types DEF IInv
<1> QED
  BY <1>1 DEF Set

\* The session of a step and the one it becomes, but for the fields a step writes.
Like(v, x) ==
  /\ v.running = x.running /\ v.published = x.published /\ v.moves = x.moves
  /\ v.over = x.over

Same(v, x) == Like(v, x) /\ v.ply = x.ply

\* The session goes to another station.
LEMMA GoesTo ==
  ASSUME IInv, NEW s \in Sids, NEW pc \in Pcs, Goes(s, pc)
  PROVE  \E v \in Session : Set(s, v) /\ v.pc = pc /\ Same(v, session[s]) /\ v.iter = session[s].iter
<1> DEFINE v == [session[s] EXCEPT !.pc = pc]
<1>1. session[s] \in Session
  BY Types DEF IInv
<1>2. v \in Session /\ v.pc = pc /\ Same(v, session[s]) /\ v.iter = session[s].iter
  BY <1>1 DEF Session, Same, Like
<1>3. Set(s, v)
  BY DEF Goes
<1> HIDE DEF v
<1> QED
  BY <1>2, <1>3

\* The session begins another iteration.
LEMMA AgainGoes ==
  ASSUME IInv, NEW s \in Sids, session[s].iter < MaxIter, Again(s)
  PROVE  \E v \in Session : Set(s, v) /\ v.pc = "loop" /\ Like(v, session[s])
                            /\ v.iter = session[s].iter + 1
<1> DEFINE v == Anew(session[s])
<1>1. session[s] \in Session /\ MaxIter \in Nat
  BY Types DEF IInv
<1>2. v \in Session /\ v.pc = "loop" /\ Like(v, session[s]) /\ v.iter = session[s].iter + 1
  <2>1. session[s].iter + 1 \in 0..MaxIter /\ 0 \in 0..MaxPly + 1
    BY <1>1 DEF Session
  <2> QED
    BY <1>1, <2>1 DEF Session, Like, Pcs, Anew
<1>3. Set(s, v)
  BY DEF Again
<1> HIDE DEF v
<1> QED
  BY <1>2, <1>3

\* The session crashes.
LEMMA CrashGoes ==
  ASSUME IInv, NEW s \in Sids, Crash(s)
  PROVE  \E v \in Session : Set(s, v) /\ v.pc = "leave" /\ Same(v, session[s])
                            /\ v.iter = session[s].iter
<1> DEFINE v == [session[s] EXCEPT !.pc = "leave", !.crashed = TRUE]
<1>1. session[s] \in Session
  BY Types DEF IInv
<1>2. v \in Session /\ v.pc = "leave" /\ Same(v, session[s]) /\ v.iter = session[s].iter
  BY <1>1 DEF Session, Same, Like, Pcs
<1>3. Set(s, v)
  BY DEF Crash
<1> HIDE DEF v
<1> QED
  BY <1>2, <1>3

\* A call that fails is one of a loop that was stopped, or one that got lost.
LEMMA FailsOK ==
  ASSUME IInv, NEW name \in Calls, Fails(name)
  PROVE  lost \subseteq lost' /\ lost' \subseteq Calls /\ (Cancelled \/ name \in lost')
  BY Types DEF Fails, IInv

\* A call that is answered is one of a loop that was not stopped.
LEMMA AnsweredOK == ASSUME IInv, Answered PROVE ~Cancelled /\ lost' = lost /\ lost' \subseteq Calls
  BY Types DEF Answered, IInv

\* What is true of a session for where it is stays true while the others go on.
LEMMA StaysFit ==
  ASSUME UNCHANGED <<dialect, stop, together>>, lost \subseteq lost',
         game.over => game'.over, game.accepted \subseteq game'.accepted,
         NEW x, Fit(x)
  PROVE  Fit(x)'
  BY DEF Fit, Cancelled, Go, Stopped

\* A session goes on; what it does to the records is Written's, what to its game Kept's.
LEMMA StepOK ==
  ASSUME IInv, NEW s \in Sids, NEW v \in Session, Set(s, v), ~At(s, "unborn"),
         UNCHANGED <<dialect, hints, stop, together>>,
         game' \in Game, game.over => game'.over, game.accepted \subseteq game'.accepted,
         lost \subseteq lost', lost' \subseteq Calls,
         listed' \in {0} \cup Sids, repo' \in Repo,
         Fit(v)', Refereed', Written', KeyWaitsForEnd', Kept'
  PROVE  IInv'
<1>1. /\ session' \in [Sids -> Session]
      /\ \A t \in Sids : session'[t] = IF t = s THEN v ELSE session[t]
  BY SetOK
<1>2. TypeOK'
  BY <1>1 DEF IInv, TypeOK, Session, Game, Repo
<1>3. \A t \in Sids : Fit(session[t])'
  <2> SUFFICES ASSUME NEW t \in Sids PROVE Fit(session[t])'
    OBVIOUS
  <2>1. CASE t = s
    BY <1>1, <2>1 DEF Fit
  <2>2. CASE t # s
    <3>1. Fit(session[t]) /\ session'[t] = session[t]
      BY <1>1, <2>2 DEF IInv
    <3>2. PICK x : x = session[t]
      OBVIOUS
    <3>3. Fit(x)'
      BY <3>1, <3>2, StaysFit
    <3> QED
      BY <3>1, <3>2, <3>3 DEF Fit
  <2> QED
    BY <2>1, <2>2
<1>4. Born'
  BY <1>1 DEF IInv, Born
<1> QED
  BY <1>2, <1>3, <1>4 DEF IInv

\* A session that neither comes to a record nor from one. When it chooses, it chooses
\* for a ply the referee has not taken.
LEMMA StaysWritten ==
  ASSUME IInv, NEW s \in Sids, NEW v \in Session, Set(s, v),
         ~At(s, "record"), v.pc # "record", UNCHANGED <<dialect, stop, together>>,
         v.pc \in {"leave", "report", "gone"} \/ Alive(s),
         v.pc \in {"choose", "submit"} =>
           \/ session[s].pc \in {"choose", "submit"} /\ v.ply = session[s].ply
           \/ v.ply \notin game.accepted,
         game'.accepted = game.accepted, repo'.records = repo.records, lost \subseteq lost'
  PROVE  Written'
<1>1. \A t \in Sids : session'[t] = IF t = s THEN v ELSE session[t]
  BY SetOK
<1>2. \A t \in Sids : At(t, "record") => At(t, "record")' /\ session'[t] = session[t]
  BY <1>1
<1>3. RecordsAreMoves'
  BY <1>2 DEF IInv, Written, RecordsAreMoves, Cancelled, Go
<1>4. \A t \in Sids : Alive(t)' => Alive(t)
  BY <1>1 DEF Alive
<1>5. \A t, u \in Sids : Alive(t)' /\ Alive(u)' => t = u \/ {t, u} \in together'
  BY <1>4 DEF IInv, Written
<1>6. ASSUME NEW t \in Sids, session'[t].pc \in {"choose", "submit", "record"},
             NEW r \in repo'.records, r[1] = session'[t].ply
      PROVE  {r[2], t} \in together'
  <2>1. CASE t # s
    BY <1>1, <1>6, <2>1 DEF IInv, Written
  <2>2. CASE t = s /\ session[s].pc \in {"choose", "submit"} /\ v.ply = session[s].ply
    BY <1>1, <1>6, <2>2 DEF IInv, Written
  <2>3. CASE t = s /\ v.ply \notin game.accepted
    BY <1>1, <1>6, <2>3 DEF IInv, Written, RecordsAreMoves
  <2> QED
    BY <1>1, <1>6, <2>1, <2>2, <2>3
<1> QED
  BY <1>3, <1>5, <1>6 DEF Written

\* A session that plays on, or leaves a game that is over, with a key if it has notes.
LEMMA StaysKept ==
  ASSUME IInv, NEW s \in Sids, NEW v \in Session, Set(s, v), ~At(s, "unborn"),
         UNCHANGED stop, game.over => game'.over, lost \subseteq lost',
         v.iter >= session[s].iter,
         ~game'.over /\ session[s].pc \in Playing => listed' = listed,
         repo.keys \subseteq repo'.keys, repo' \in Repo,
         \A n \in repo'.notes : n \in repo.notes \/ (n = s /\ session[s].pc \in Unkeyed),
         Calm /\ lost' = {} /\ v.iter < MaxIter /\ stop = "no" =>
           /\ session[s].pc \in Playing => v.pc \in Playing \/ game'.over
           /\ session[s].pc \in Unkeyed => v.pc \in Unkeyed \/ s \in repo'.keys
  PROVE  Kept'
<1> SUFFICES ASSUME Calm' PROVE Kept'
  BY DEF Kept
<1>0. /\ session \in [Sids -> Session] /\ repo \in Repo /\ MaxIter \in Nat
      /\ \A t \in Sids : session'[t] = IF t = s THEN v ELSE session[t]
  BY Types, SetOK DEF IInv
<1>1. /\ Calm /\ lost' = {} /\ v.iter < MaxIter
  <2>1. lost = {} /\ lost' = {}
    BY DEF Calm
  <2>2. v.iter < MaxIter /\ v.iter \in Nat /\ session[s].iter \in Nat
    BY <1>0 DEF Calm, Guarded, Session
  <2>3. \A t \in Sids : ~Guarded(t)
    <3> SUFFICES ASSUME NEW t \in Sids PROVE ~(session[t].iter >= MaxIter)
      BY DEF Guarded
    <3>1. CASE t = s
      BY <1>0, <2>2, <3>1
    <3>2. CASE t # s
      BY <1>0, <3>2 DEF Calm, Guarded
    <3> QED
      BY <3>1, <3>2
  <2> QED
    BY <2>1, <2>2, <2>3 DEF Calm
<1>2. ~game'.over /\ stop = "no" =>
        \A t \in Sids : session'[t].pc # "unborn" => listed' = t /\ session'[t].pc \in Playing
  <2> SUFFICES ASSUME ~game'.over, stop = "no", NEW t \in Sids, session'[t].pc # "unborn"
               PROVE  listed' = t /\ session'[t].pc \in Playing
    OBVIOUS
  <2>1. ~game.over /\ listed = s /\ session[s].pc \in Playing
    BY <1>1 DEF IInv, Kept
  <2>2. \A u \in Sids : ~At(u, "unborn") => u = s
    BY <1>1, <2>1 DEF IInv, Kept
  <2>3. t = s
    BY <1>0, <2>2
  <2> QED
    BY <1>0, <1>1, <2>1, <2>3
<1>3. ~game'.over => stop # "done"
  BY <1>1 DEF IInv, Kept
<1>4. stop = "no" =>
        \A n \in repo'.notes : n \in repo'.keys \/ session'[n].pc \in Unkeyed
  <2> SUFFICES ASSUME stop = "no", NEW n \in repo'.notes
               PROVE  n \in repo'.keys \/ session'[n].pc \in Unkeyed
    OBVIOUS
  <2>1. n \in Sids
    BY DEF Repo
  <2>2. CASE n = s
    <3>1. s \in repo'.keys \/ session[s].pc \in Unkeyed
      BY <1>1, <2>2 DEF IInv, Kept
    <3> QED
      BY <1>0, <1>1, <2>2, <3>1
  <2>3. CASE n # s
    BY <1>0, <1>1, <2>1, <2>3 DEF IInv, Kept
  <2> QED
    BY <2>2, <2>3
<1> QED
  BY <1>2, <1>3, <1>4 DEF Kept

\* A session goes on and touches neither the game, nor the repo, nor the list.
LEMMA LocalStep ==
  ASSUME IInv, NEW s \in Sids, NEW v \in Session, Set(s, v), ~At(s, "unborn"),
         UNCHANGED <<dialect, game, listed, hints, stop, repo, together>>,
         lost \subseteq lost', lost' \subseteq Calls,
         ~At(s, "record"), v.pc # "record", v.iter >= session[s].iter, Fit(v)',
         v.pc \in {"leave", "report", "gone"} \/ Alive(s),
         v.pc \in {"choose", "submit"} =>
           \/ session[s].pc \in {"choose", "submit"} /\ v.ply = session[s].ply
           \/ v.ply \notin game.accepted,
         Calm /\ lost' = {} /\ v.iter < MaxIter /\ stop = "no" =>
           /\ session[s].pc \in Playing => v.pc \in Playing \/ game.over
           /\ session[s].pc \in Unkeyed => v.pc \in Unkeyed \/ s \in repo.keys
  PROVE  IInv'
<1>1. game \in Game /\ repo \in Repo /\ listed \in {0} \cup Sids
  BY Types DEF IInv
<1>2. Refereed' /\ KeyWaitsForEnd'
  BY DEF IInv, Refereed, KeyWaitsForEnd
<1>3. Written'
  BY StaysWritten
<1>4. Kept'
  BY <1>1, StaysKept
<1> QED
  BY <1>1, <1>2, <1>3, <1>4, StepOK

\* Another iteration, from wherever in its turn the session is.
LEMMA AgainOK ==
  ASSUME IInv, NEW s \in Sids, session[s].pc \in InTurn \ {"record"}, Again(s),
         UNCHANGED <<dialect, game, listed, hints, stop, repo, together>>,
         lost \subseteq lost', lost' \subseteq Calls
  PROVE  IInv'
<1>1. /\ Fit(session[s]) /\ session[s] \in Session /\ session[s].iter < MaxIter
      /\ MaxIter \in Nat /\ session[s].iter \in Nat
  <2>1. Fit(session[s]) /\ session[s] \in Session /\ MaxIter \in Nat
    BY Types DEF IInv
  <2>2. session[s].iter < MaxIter
    BY <2>1 DEF Fit
  <2> QED
    BY <2>1, <2>2 DEF Session
<1>2. PICK v \in Session : Set(s, v) /\ v.pc = "loop" /\ Like(v, session[s])
                           /\ v.iter = session[s].iter + 1
  BY <1>1, AgainGoes
<1>3. Fit(v)'
  BY <1>1, <1>2 DEF Fit, Same, Like, InTurn, Playing, Unkeyed
<1> QED
  BY <1>1, <1>2, <1>3, LocalStep DEF Alive, Playing, Unkeyed, InTurn

-----------------------------------------------------------------------------
(* The steps of the play loop that only the session sees.                  *)

\* Without the reference of the game the session crashes, and a call got lost.
LEMMA GameRefOK == ASSUME IInv, NEW s \in Sids, GameRef(s) PROVE IInv'
<1>1. /\ session[s].pc = "ref" /\ Fit(session[s]) /\ session[s] \in Session
      /\ UNCHANGED <<dialect, game, listed, hints, stop, repo, together>>
  BY Types DEF GameRef, IInv
<1>2. CASE Answered /\ Goes(s, "loop")
  <2>1. PICK v \in Session : Set(s, v) /\ v.pc = "loop" /\ Same(v, session[s]) /\ v.iter = session[s].iter
    BY <1>2, GoesTo DEF Pcs
  <2>2. Fit(v)'
    BY <1>1, <2>1 DEF Fit, Same, Like, InTurn, Playing, Unkeyed
  <2> QED
    BY <1>1, <1>2, <2>1, <2>2, AnsweredOK, LocalStep DEF Alive, Same, Playing, Unkeyed, Session
<1>3. CASE Fails("ref") /\ Crash(s)
  <2>1. PICK v \in Session : Set(s, v) /\ v.pc = "leave" /\ Same(v, session[s]) /\ v.iter = session[s].iter
    BY <1>3, CrashGoes
  <2>2. Fit(v)'
    BY <1>1, <2>1 DEF Fit, Same, Like, InTurn, Playing, Unkeyed
  <2>3. lost \subseteq lost' /\ lost' \subseteq Calls /\ (Cancelled \/ lost' # {})
    BY <1>3, FailsOK DEF Calls
  <2> QED
    BY <1>1, <2>1, <2>2, <2>3, LocalStep DEF Alive, Cancelled, Session
<1> QED
  BY <1>2, <1>3 DEF GameRef

\* The head of the loop goes to the cap for a reason.
LEMMA HeadOK == ASSUME IInv, NEW s \in Sids, Head(s) PROVE IInv'
<1>1. /\ session[s].pc = "loop" /\ Fit(session[s]) /\ session[s] \in Session /\ MaxIter \in Nat
      /\ UNCHANGED <<dialect, game, listed, hints, stop, repo, lost, together>> /\ lost \subseteq Calls
  BY Types DEF Head, IInv
<1>2. PICK pc \in {"pull", "cap"} : Goes(s, pc) /\ (pc = "pull" <=> PlaysOn(s))
  BY DEF Head
<1>3. PICK v \in Session : Set(s, v) /\ v.pc = pc /\ Same(v, session[s]) /\ v.iter = session[s].iter
  BY <1>2, GoesTo DEF Pcs
<1>4. Fit(v)'
  BY <1>1, <1>2, <1>3 DEF Fit, Same, Like, InTurn, Playing, Unkeyed, PlaysOn, Session, Cancelled, Go, Stopped
<1> QED
  BY <1>1, <1>2, <1>3, <1>4, LocalStep DEF Alive, Same, Playing, Unkeyed, InTurn, Session

\* A session comes to its end from here only when the game is over, or a call got lost.
LEMMA GetStateOK == ASSUME IInv, NEW s \in Sids, GetState(s) PROVE IInv'
<1>1. /\ session[s].pc = "pull" /\ Fit(session[s]) /\ session[s] \in Session
      /\ UNCHANGED <<dialect, game, listed, hints, stop, repo, together>>
      /\ game \in Game /\ game.ply \in Nat
      /\ session[s].iter < MaxIter /\ MaxIter \in Nat
  BY Types DEF GetState, IInv, Fit, InTurn
<1>2. CASE Answered /\ IsOver(game) /\ Goes(s, "finish")
  <2>1. PICK v \in Session : Set(s, v) /\ v.pc = "finish" /\ Same(v, session[s]) /\ v.iter = session[s].iter
    BY <1>2, GoesTo DEF Pcs
  <2>2. Fit(v)'
    BY <1>1, <1>2, <2>1 DEF Fit, Same, Like, InTurn, Playing, Unkeyed, IsOver
  <2> QED
    BY <1>1, <1>2, <2>1, <2>2, AnsweredOK, LocalStep DEF Alive, Same, Unkeyed, Session, IsOver
<1>3. CASE Answered /\ Set(s, [session[s] EXCEPT !.pc = "choose", !.ply = game.ply + 1])
  <2> DEFINE w == [session[s] EXCEPT !.pc = "choose", !.ply = game.ply + 1]
  <2>1. /\ w \in Session /\ w.pc = "choose" /\ w.iter = session[s].iter /\ w.moves = session[s].moves
        /\ w.running = session[s].running /\ w.published = session[s].published
        /\ w.over = session[s].over /\ w.ply \notin game.accepted
    <3>1. game.ply + 1 \in 0..MaxPly + 1
      BY <1>1 DEF Game
    <3>2. game.ply + 1 \notin game.accepted
      BY <1>1 DEF IInv, Refereed
    <3> QED
      BY <1>1, <3>1, <3>2 DEF Session, Pcs
  <2>2. PICK v \in Session : v = w
    BY <2>1
  <2>3. Set(s, v)
    BY <1>3, <2>2
  <2> HIDE DEF w
  <2>4. Fit(v)'
    BY <1>1, <2>1, <2>2 DEF Fit, InTurn, Playing, Unkeyed, Cancelled, Go, Stopped
  <2> QED
    BY <1>1, <1>3, <2>1, <2>2, <2>3, <2>4, AnsweredOK, LocalStep DEF Alive, Same, Playing, Unkeyed, InTurn, Session
<1>4. CASE Answered /\ Set(s, [session[s] EXCEPT !.pc = "sleep", !.woken = FALSE])
  <2> DEFINE w == [session[s] EXCEPT !.pc = "sleep", !.woken = FALSE]
  <2>1. /\ w \in Session /\ w.pc = "sleep" /\ w.iter = session[s].iter /\ w.moves = session[s].moves
        /\ w.running = session[s].running /\ w.published = session[s].published
        /\ w.over = session[s].over
    BY <1>1 DEF Session, Pcs
  <2>2. PICK v \in Session : v = w
    BY <2>1
  <2>3. Set(s, v)
    BY <1>4, <2>2
  <2> HIDE DEF w
  <2>4. Fit(v)'
    BY <1>1, <2>1, <2>2 DEF Fit, InTurn, Playing, Unkeyed, Cancelled, Go, Stopped
  <2> QED
    BY <1>1, <1>4, <2>1, <2>2, <2>3, <2>4, AnsweredOK, LocalStep DEF Alive, Same, Playing, Unkeyed, InTurn, Session
<1>5. CASE Fails("pull") /\ Cancelled /\ Goes(s, "leave")
  <2>1. PICK v \in Session : Set(s, v) /\ v.pc = "leave" /\ Same(v, session[s]) /\ v.iter = session[s].iter
    BY <1>5, GoesTo DEF Pcs
  <2>2. Fit(v)'
    BY <1>1, <2>1 DEF Fit, Same, Like, InTurn, Playing, Unkeyed
  <2>3. lost \subseteq lost' /\ lost' \subseteq Calls /\ stop # "no"
    BY <1>5, FailsOK DEF Calls, Cancelled
  <2> QED
    BY <1>1, <2>1, <2>2, <2>3, LocalStep DEF Alive, Session
<1>6. CASE Fails("pull") /\ Again(s)
  <2>1. lost \subseteq lost' /\ lost' \subseteq Calls
    BY <1>6, FailsOK DEF Calls
  <2> QED
    BY <1>1, <1>6, <2>1, AgainOK DEF InTurn
<1> QED
  BY <1>2, <1>3, <1>4, <1>5, <1>6 DEF GetState, AfterPull

\* The safety poll.
LEMMA WakeOK == ASSUME IInv, NEW s \in Sids, Wake(s) PROVE IInv'
  BY Types, AgainOK DEF Wake, IInv, Fit, InTurn

\* An author that fails is asked again, or crashes the session: a call got lost.
LEMMA ChooseMoveOK == ASSUME IInv, NEW s \in Sids, ChooseMove(s) PROVE IInv'
<1>1. /\ session[s].pc = "choose" /\ Fit(session[s]) /\ session[s] \in Session
      /\ UNCHANGED <<dialect, game, listed, hints, stop, repo, together>> /\ lost \subseteq Calls
      /\ session[s].iter < MaxIter /\ MaxIter \in Nat
  BY Types DEF ChooseMove, IInv, Fit, InTurn
<1>2. CASE UNCHANGED lost /\ Goes(s, "submit")
  <2>1. PICK v \in Session : Set(s, v) /\ v.pc = "submit" /\ Same(v, session[s]) /\ v.iter = session[s].iter
    BY <1>2, GoesTo DEF Pcs
  <2>2. Fit(v)'
    BY <1>1, <2>1 DEF Fit, Same, Like, InTurn, Playing, Unkeyed
  <2> QED
    BY <1>1, <1>2, <2>1, <2>2, LocalStep DEF Alive, Same, Playing, Unkeyed, InTurn, Session
<1>3. ASSUME ~Cancelled, Fails("choose")
      PROVE  lost \subseteq lost' /\ lost' \subseteq Calls /\ lost' # {}
  BY <1>3, FailsOK DEF Calls
<1>4. CASE ~Cancelled /\ Fails("choose") /\ Again(s)
  BY <1>1, <1>3, <1>4, AgainOK DEF InTurn
<1>5. CASE ~Cancelled /\ Fails("choose") /\ Crash(s)
  <2>1. PICK v \in Session : Set(s, v) /\ v.pc = "leave" /\ Same(v, session[s]) /\ v.iter = session[s].iter
    BY <1>5, CrashGoes
  <2>2. Fit(v)'
    BY <1>1, <2>1 DEF Fit, Same, Like, InTurn, Playing, Unkeyed
  <2> QED
    BY <1>1, <1>3, <1>5, <2>1, <2>2, LocalStep DEF Alive, Session
<1> QED
  BY <1>2, <1>4, <1>5 DEF ChooseMove

\* A calm session resigns at the cap, unless Stop has told it to end.
LEMMA CapOK == ASSUME IInv, NEW s \in Sids, Cap(s) PROVE IInv'
<1>1. /\ session[s].pc = "cap" /\ Fit(session[s]) /\ session[s] \in Session /\ MaxIter \in Nat
      /\ UNCHANGED <<dialect, game, listed, hints, stop, repo, lost, together>> /\ lost \subseteq Calls
      /\ dialect \in {"go", "ts"}
  BY Types DEF Cap, IInv, TypeOK
<1>2. PICK pc \in {"resign", "leave"} : Goes(s, pc) /\ (pc = "resign" <=> MustResign(s))
  BY DEF Cap
<1>3. PICK v \in Session : Set(s, v) /\ v.pc = pc /\ Same(v, session[s]) /\ v.iter = session[s].iter
  BY <1>2, GoesTo DEF Pcs
<1>4. Fit(v)'
  BY <1>1, <1>2, <1>3 DEF Fit, Same, Like, InTurn, Playing, Unkeyed
<1>5. Calm /\ stop = "no" => pc = "resign"
  <2>1. Calm => ~(session[s].iter >= MaxIter)
    BY DEF Calm, Guarded
  <2>2. stop = "no" => session[s].running /\ ~Stopped
    BY <1>1 DEF Fit, Playing, Stopped
  <2> QED
    BY <1>1, <1>2, <2>1, <2>2 DEF Fit, MustResign, CappedInGo, CappedInTS
<1> QED
  BY <1>1, <1>2, <1>3, <1>4, <1>5, LocalStep DEF Alive, Same, Playing, Unkeyed, Session

\* The TypeScript loop asks once more before it publishes.
LEMMA ConfirmOK == ASSUME IInv, NEW s \in Sids, Confirm(s) PROVE IInv'
<1>1. /\ session[s].pc = "confirm" /\ Fit(session[s]) /\ session[s] \in Session
      /\ UNCHANGED <<dialect, game, listed, hints, stop, repo, together>>
  BY Types DEF Confirm, IInv
<1>2. CASE Answered /\ Goes(s, "finish")
  <2>1. PICK v \in Session : Set(s, v) /\ v.pc = "finish" /\ Same(v, session[s]) /\ v.iter = session[s].iter
    BY <1>2, GoesTo DEF Pcs
  <2>2. lost' = lost /\ lost' \subseteq Calls
    BY <1>2, AnsweredOK
  <2>3. Fit(v)'
    BY <1>1, <2>1, <2>2 DEF Fit, Same, Like, InTurn, Playing, Unkeyed, Cancelled, Go
  <2> QED
    BY <1>1, <2>1, <2>2, <2>3, LocalStep DEF Alive, Same, Playing, InTurn, Unkeyed, Session
<1>3. CASE Fails("confirm") /\ Goes(s, "leave")
  <2>1. PICK v \in Session : Set(s, v) /\ v.pc = "leave" /\ Same(v, session[s]) /\ v.iter = session[s].iter
    BY <1>3, GoesTo DEF Pcs
  <2>2. Fit(v)'
    BY <1>1, <2>1 DEF Fit, Same, Like, InTurn, Playing, Unkeyed
  <2>3. lost \subseteq lost' /\ lost' \subseteq Calls /\ (stop = "no" => lost' # {})
    BY <1>3, FailsOK DEF Calls, Cancelled
  <2> QED
    BY <1>1, <2>1, <2>2, <2>3, LocalStep DEF Alive, Session
<1> QED
  BY <1>2, <1>3 DEF Confirm

\* A session publishes its key once, and stops running before it does.
LEMMA FinishSessionOK == ASSUME IInv, NEW s \in Sids, FinishSession(s) PROVE IInv'
<1> DEFINE w == [session[s] EXCEPT !.pc = "publish", !.published = TRUE, !.running = FALSE]
<1>1. /\ session[s].pc = "finish" /\ Fit(session[s]) /\ session[s] \in Session
      /\ UNCHANGED <<dialect, game, listed, hints, stop, repo, lost, together>> /\ lost \subseteq Calls
  BY Types DEF FinishSession, IInv
<1>2. Set(s, w)
  BY <1>1 DEF FinishSession, Fit, Unkeyed
<1>3. /\ w \in Session /\ w.pc = "publish" /\ w.iter = session[s].iter /\ w.over = session[s].over
  BY <1>1 DEF Session, Pcs
<1>4. PICK v \in Session : v = w
  BY <1>3
<1>5. Set(s, v)
  BY <1>2, <1>4
<1> HIDE DEF w
<1>6. Fit(v)'
  BY <1>1, <1>3, <1>4 DEF Fit, InTurn, Playing, Unkeyed, Cancelled, Go
<1> QED
  BY <1>1, <1>3, <1>4, <1>5, <1>6, LocalStep DEF Alive, Same, Playing, InTurn, Unkeyed, Session

-----------------------------------------------------------------------------
(* The steps the referee sees.                                             *)

\* The referee takes a ply once.
LEMMA MovedOK ==
  ASSUME IInv, NEW ply, Accepts(ply), NEW ends \in MayEnd(ply), game' = Moved(ends)
  PROVE  /\ game' \in Game /\ Refereed' /\ ~game.over /\ game'.over = ends
         /\ game'.accepted = game.accepted \cup {ply}
         /\ ply \in 1..MaxPly /\ ply \notin game.accepted
<1>1. /\ game \in Game /\ game.ply \in Nat /\ game.accepted \subseteq 1..game.ply
      /\ ~game.over /\ game.ply < MaxPly /\ ply = game.ply + 1
      /\ ends \in BOOLEAN /\ (ply = MaxPly => ends)
  BY Types DEF IInv, Refereed, Accepts, MayEnd
<1>2. /\ game'.ply = ply /\ game'.over = ends /\ game'.mine = FALSE
      /\ game'.accepted = game.accepted \cup {ply}
  BY <1>1 DEF Moved, Game
<1>3. ply \in 1..MaxPly /\ ply \notin game.accepted
  BY <1>1
<1>4. game' \in Game
  <2>1. game.ply + 1 \in 0..MaxPly /\ game.accepted \cup {game.ply + 1} \in SUBSET (1..MaxPly)
    BY <1>1, <1>3 DEF Game
  <2> QED
    BY <1>1, <2>1 DEF Moved, Game
<1>5. Refereed'
  BY <1>1, <1>2 DEF Refereed
<1> QED
  BY <1>1, <1>2, <1>3, <1>4, <1>5

\* A resignation ends the game and takes no ply.
LEMMA ResignedOK ==
  ASSUME IInv, game' \in {game, Resigned}
  PROVE  /\ game' \in Game /\ Refereed' /\ (game.over => game'.over)
         /\ game'.accepted = game.accepted /\ (game' = Resigned => game'.over)
<1>1. game \in Game
  BY Types DEF IInv
<1>2. /\ game'.ply = game.ply /\ (game.over => game'.over) /\ game'.accepted = game.accepted
      /\ game' \in Game /\ (game' = Resigned => game'.over)
  BY <1>1 DEF Resigned, Game
<1> QED
  BY <1>2 DEF IInv, Refereed

\* A session whose move the referee has taken, now or before, comes to its record.
LEMMA ComesToRecord ==
  ASSUME IInv, NEW s \in Sids, At(s, "submit"), NEW v \in Session, Set(s, v),
         v.pc = "record", v.ply = session[s].ply,
         UNCHANGED <<dialect, stop, repo, lost, together>>,
         game'.accepted = game.accepted \cup {v.ply}
  PROVE  Written'
<1>1. \A t \in Sids : session'[t] = IF t = s THEN v ELSE session[t]
  BY SetOK
<1>2. \A t \in Sids : Alive(t)' => Alive(t)
  BY <1>1 DEF Alive
<1>3. \A t, u \in Sids : Alive(t)' /\ Alive(u)' => t = u \/ {t, u} \in together'
  BY <1>2 DEF IInv, Written
<1>4. \A t \in Sids : session'[t].pc \in {"choose", "submit", "record"} =>
        \A r \in repo'.records : r[1] = session'[t].ply => {r[2], t} \in together'
  BY <1>1 DEF IInv, Written
<1>5. \A p \in game'.accepted :
        \/ \E t \in Sids : <<p, t>> \in repo.records
        \/ \E t \in Sids : session'[t].pc = "record" /\ session'[t].ply = p
        \/ Cancelled \/ lost \cap {"submit", "record"} # {}
  <2> SUFFICES ASSUME NEW p \in game'.accepted
               PROVE  \/ \E t \in Sids : <<p, t>> \in repo.records
                      \/ \E t \in Sids : session'[t].pc = "record" /\ session'[t].ply = p
                      \/ Cancelled \/ lost \cap {"submit", "record"} # {}
    OBVIOUS
  <2>1. CASE p = v.ply
    BY <1>1, <2>1
  <2>2. CASE p \in game.accepted
    BY <1>1, <2>2 DEF IInv, Written, RecordsAreMoves
  <2> QED
    BY <2>1, <2>2
<1>6. RecordsAreMoves'
  BY <1>5 DEF IInv, Written, RecordsAreMoves, Cancelled, Go
<1> QED
  BY <1>3, <1>4, <1>6 DEF Written

\* The referee takes the move, and nobody has a record of its ply; or it has taken it
\* before from another session, which lives or has lived beside this one.
LEMMA SubmitMoveOK == ASSUME IInv, NEW s \in Sids, SubmitMove(s) PROVE IInv'
<1> DEFINE ply == session[s].ply
<1>1. /\ session[s].pc = "submit" /\ Fit(session[s]) /\ session[s] \in Session
      /\ UNCHANGED <<dialect, listed, hints, stop, repo, together>>
      /\ repo \in Repo /\ listed \in {0} \cup Sids
      /\ session[s].iter < MaxIter /\ MaxIter \in Nat /\ session[s].moves < MaxPlies
  BY Types DEF SubmitMove, IInv, Fit, InTurn
<1>2. CASE /\ Answered /\ Accepts(ply)
           /\ \E ends \in MayEnd(ply) :
                /\ game' = Moved(ends)
                /\ Set(s, [session[s] EXCEPT !.pc = "record", !.over = ends])
  <2>1. PICK ends \in MayEnd(ply) :
          /\ game' = Moved(ends)
          /\ Set(s, [session[s] EXCEPT !.pc = "record", !.over = ends])
    BY <1>2
  <2>2. /\ game' \in Game /\ Refereed' /\ ~game.over /\ game'.over = ends
        /\ game'.accepted = game.accepted \cup {ply}
        /\ ply \in 1..MaxPly /\ ply \notin game.accepted
    BY <1>2, <2>1, MovedOK
  <2> DEFINE w == [session[s] EXCEPT !.pc = "record", !.over = ends]
  <2>3. /\ w \in Session /\ w.pc = "record" /\ w.iter = session[s].iter
        /\ w.moves = session[s].moves /\ w.running = session[s].running
        /\ w.published = session[s].published /\ w.over = ends /\ w.ply = ply
    BY <1>1 DEF Session, Pcs, MayEnd
  <2>4. PICK v \in Session : v = w
    BY <2>3
  <2>5. Set(s, v)
    BY <2>1, <2>4
  <2> HIDE DEF w
  <2>6. Fit(v)'
    BY <1>1, <2>2, <2>3, <2>4 DEF Fit, InTurn, Playing, Unkeyed
  <2>7. lost' = lost /\ lost' \subseteq Calls
    BY <1>2, AnsweredOK
  <2>8. Written'
    BY <1>1, <2>2, <2>3, <2>4, <2>5, <2>7, ComesToRecord
  <2>9. KeyWaitsForEnd'
    BY <1>1, <2>2, <2>7 DEF IInv, KeyWaitsForEnd
  <2>10. Kept'
    BY <1>1, <2>2, <2>3, <2>4, <2>5, <2>7, StaysKept DEF Playing, Unkeyed, InTurn, Session
  <2> QED
    BY <1>1, <2>2, <2>5, <2>3, <2>4, <2>6, <2>7, <2>8, <2>9, <2>10, StepOK
<1>3. CASE /\ lost \subseteq lost' /\ lost' \subseteq Calls /\ Again(s) /\ UNCHANGED game
  BY <1>1, <1>3, AgainOK DEF InTurn
<1>4. CASE Fails("submit") /\ Cancelled /\ UNCHANGED game /\ Goes(s, "leave")
  <2>1. PICK v \in Session : Set(s, v) /\ v.pc = "leave" /\ Same(v, session[s]) /\ v.iter = session[s].iter
    BY <1>4, GoesTo DEF Pcs
  <2>2. Fit(v)'
    BY <1>1, <1>4, <2>1 DEF Fit, Same, Like, InTurn, Playing, Unkeyed
  <2>3. lost \subseteq lost' /\ lost' \subseteq Calls /\ stop # "no"
    BY <1>4, FailsOK DEF Calls, Cancelled
  <2> QED
    BY <1>1, <1>4, <2>1, <2>2, <2>3, LocalStep DEF Alive, Session
<1>5. CASE /\ Fails("submit") /\ ~Cancelled /\ Again(s) /\ Accepts(ply)
           /\ \E ends \in MayEnd(ply) : game' = Moved(ends)
  <2>1. PICK ends \in MayEnd(ply) : game' = Moved(ends)
    BY <1>5
  <2>2. /\ game' \in Game /\ Refereed' /\ ~game.over
        /\ game'.accepted = game.accepted \cup {ply}
    BY <1>5, <2>1, MovedOK
  <2>3. lost \subseteq lost' /\ lost' \subseteq Calls /\ "submit" \in lost'
    BY <1>5, FailsOK DEF Calls
  <2>4. PICK v \in Session : Set(s, v) /\ v.pc = "loop" /\ Like(v, session[s])
                             /\ v.iter = session[s].iter + 1
    BY <1>1, <1>5, AgainGoes
  <2>5. Fit(v)'
    BY <1>1, <2>2, <2>4 DEF Fit, Same, Like, InTurn, Playing, Unkeyed
  <2>6. Written'
    <3>1. \A t \in Sids : session'[t] = IF t = s THEN v ELSE session[t]
      BY <2>4, SetOK
    <3>2. /\ \A t \in Sids : Alive(t)' => Alive(t)
          /\ \A t \in Sids : session'[t].pc \in {"choose", "submit", "record"} =>
                session[t].pc \in {"choose", "submit", "record"} /\ session'[t] = session[t]
      BY <1>1, <2>4, <3>1 DEF Alive
    <3>3. RecordsAreMoves'
      BY <1>1, <2>2, <2>3 DEF IInv, Written, RecordsAreMoves
    <3>4. \A t, u \in Sids : Alive(t)' /\ Alive(u)' => t = u \/ {t, u} \in together'
      BY <1>1, <3>2 DEF IInv, Written
    <3> QED
      BY <1>1, <3>2, <3>3, <3>4 DEF IInv, Written
  <2>7. KeyWaitsForEnd'
    BY <1>1, <2>2, <2>3 DEF IInv, KeyWaitsForEnd
  <2>8. v.iter >= session[s].iter
    BY <1>1, <2>4 DEF Session
  <2>9. Kept'
    BY <1>1, <2>2, <2>3, <2>4, <2>8, StaysKept
  <2> QED
    BY <1>1, <2>2, <2>3, <2>4, <2>5, <2>6, <2>7, <2>9, StepOK
<1>6. CASE Answered /\ Replays(ply) /\ Goes(s, "record") /\ UNCHANGED game
  <2>1. PICK v \in Session : Set(s, v) /\ v.pc = "record" /\ Same(v, session[s])
                             /\ v.iter = session[s].iter
    BY <1>6, GoesTo DEF Pcs
  <2>2. game \in Game /\ ply \in game.accepted /\ v.ply = ply /\ v.iter \in Nat
    BY <1>6, <2>1, Types DEF Replays, Same, IInv, Session
  <2>3. Fit(v)'
    BY <1>1, <1>6, <2>1, <2>2 DEF Fit, Same, Like, InTurn, Playing, Unkeyed
  <2>4. lost' = lost /\ lost' \subseteq Calls
    BY <1>6, AnsweredOK
  <2>5. Written'
    BY <1>1, <1>6, <2>1, <2>2, <2>4, ComesToRecord
  <2>6. KeyWaitsForEnd' /\ Refereed'
    BY <1>1, <1>6, <2>4 DEF IInv, KeyWaitsForEnd, Refereed
  <2>7. Kept'
    BY <1>1, <1>6, <2>1, <2>2, <2>4, StaysKept DEF Playing, Unkeyed, InTurn, Session
  <2> QED
    BY <1>1, <1>6, <2>1, <2>2, <2>3, <2>4, <2>5, <2>6, <2>7, StepOK
<1> QED
  <2>1. Answered => lost \subseteq lost' /\ lost' \subseteq Calls
    BY AnsweredOK
  <2>2. Fails("submit") => lost \subseteq lost' /\ lost' \subseteq Calls
    BY FailsOK DEF Calls
  <2> QED
    BY <1>2, <1>3, <1>4, <1>5, <1>6, <2>1, <2>2 DEF SubmitMove, AfterLostMove

\* A session that resigns may publish, and if the resignation got lost that is known.
LEMMA ResignOK == ASSUME IInv, NEW s \in Sids, Resign(s) PROVE IInv'
<1>1. /\ session[s].pc = "resign" /\ Fit(session[s]) /\ session[s] \in Session
      /\ UNCHANGED <<dialect, listed, hints, stop, repo, together>>
      /\ repo \in Repo /\ listed \in {0} \cup Sids
  BY Types DEF Resign, IInv
<1>2. PICK pc \in {"finish", "confirm"} : Goes(s, pc)
  BY DEF Resign
<1>3. PICK v \in Session : Set(s, v) /\ v.pc = pc /\ Same(v, session[s]) /\ v.iter = session[s].iter
  BY <1>2, GoesTo DEF Pcs
<1>4. /\ game' \in {game, Resigned} /\ lost \subseteq lost' /\ lost' \subseteq Calls
      /\ game' = Resigned \/ Cancelled \/ "resign" \in lost'
  BY FailsOK, AnsweredOK DEF Resign, Calls
<1>5. /\ game' \in Game /\ Refereed' /\ (game.over => game'.over)
      /\ game'.accepted = game.accepted /\ (game' = Resigned => game'.over)
  BY <1>4, ResignedOK
<1>6. Fit(v)'
  BY <1>1, <1>3, <1>4, <1>5 DEF Fit, Same, Like, InTurn, Playing, Unkeyed, Cancelled, Go
<1>7. Written'
  BY <1>1, <1>3, <1>4, <1>5, StaysWritten DEF Alive
<1>8. KeyWaitsForEnd'
  BY <1>1, <1>4, <1>5 DEF IInv, KeyWaitsForEnd
<1>9. stop = "no" /\ lost' = {} => game'.over
  BY <1>4, <1>5 DEF Cancelled
<1>10. Kept'
  BY <1>1, <1>3, <1>4, <1>5, <1>9, StaysKept DEF Unkeyed, Session
<1> QED
  BY <1>1, <1>3, <1>4, <1>5, <1>6, <1>7, <1>8, <1>10, StepOK

-----------------------------------------------------------------------------
(* The steps the repo sees.                                                *)

\* The record of a move the referee took, and nobody has written but a session that has
\* lived beside this one.
LEMMA WriteMoveRecordOK == ASSUME IInv, NEW s \in Sids, WriteMoveRecord(s) PROVE IInv'
<1> DEFINE ply == session[s].ply
           written == [repo EXCEPT !.records = @ \cup {<<ply, s>>}]
<1>1. /\ session[s].pc = "record" /\ Fit(session[s]) /\ session[s] \in Session
      /\ UNCHANGED <<dialect, game, listed, hints, stop, together>> /\ Goes(s, "explain")
      /\ repo \in Repo /\ game \in Game /\ listed \in {0} \cup Sids
      /\ ply \in game.accepted /\ ply \in 1..MaxPly
  BY Types DEF WriteMoveRecord, IInv, Fit, Game
<1>2. /\ repo' \in {repo, written} /\ lost \subseteq lost' /\ lost' \subseteq Calls
      /\ repo' = written \/ Cancelled \/ "record" \in lost'
  BY FailsOK, AnsweredOK DEF WriteMoveRecord, Calls
<1>3. /\ written \in Repo /\ written.records = repo.records \cup {<<ply, s>>}
      /\ written.notes = repo.notes /\ written.keys = repo.keys
  BY <1>1 DEF Repo
<1> HIDE DEF written
<1>4. PICK v \in Session : Set(s, v) /\ v.pc = "explain" /\ Same(v, session[s]) /\ v.iter = session[s].iter
  BY <1>1, GoesTo DEF Pcs
<1>5. Fit(v)'
  BY <1>1, <1>4 DEF Fit, Same, Like, InTurn, Playing, Unkeyed
<1>6. Written'
  <2>1. \A t \in Sids : session'[t] = IF t = s THEN v ELSE session[t]
    BY <1>4, SetOK
  <2>2. /\ repo.records \subseteq repo'.records
        /\ \A r \in repo'.records : r \in repo.records \/ r = <<ply, s>>
    BY <1>2, <1>3
  <2>3. \A r \in repo.records : r[1] \in game.accepted /\ (r[1] = ply => {r[2], s} \in together)
    BY <1>1 DEF IInv, Written, RecordsAreMoves
  <2>4. \A t \in Sids : session'[t].pc \in {"choose", "submit", "record"} =>
          t # s /\ session[t].pc \in {"choose", "submit", "record"} /\ session'[t] = session[t]
    BY <1>1, <1>4, <2>1
  <2>5. \A r \in repo'.records : r[1] \in game.accepted
    <3> SUFFICES ASSUME NEW r \in repo'.records PROVE r[1] \in game.accepted
      OBVIOUS
    <3>1. CASE r \in repo.records
      BY <2>3, <3>1
    <3>2. CASE r = <<ply, s>>
      <4>1. r[1] = ply
        BY <3>2
      <4> QED
        BY <1>1, <4>1
    <3> QED
      BY <2>2, <3>1, <3>2
  <2>6. \A q, r \in repo'.records : q[1] = r[1] => q = r \/ {q[2], r[2]} \in together
    <3> SUFFICES ASSUME NEW q \in repo'.records, NEW r \in repo'.records, q[1] = r[1], q # r
                 PROVE  {q[2], r[2]} \in together
      OBVIOUS
    <3>1. \A x, y : {x, y} = {y, x}
      OBVIOUS
    <3>2. CASE q \in repo.records /\ r \in repo.records
      BY <3>2 DEF IInv, Written, RecordsAreMoves
    <3>3. CASE q \in repo.records /\ r = <<ply, s>>
      BY <2>3, <3>3
    <3>4. CASE q = <<ply, s>> /\ r \in repo.records
      <4>1. {r[2], s} \in together /\ q[2] = s
        BY <2>3, <3>4
      <4> QED
        BY <3>1, <4>1
    <3> QED
      BY <2>2, <3>2, <3>3, <3>4
  <2>7. \A p \in game.accepted :
          \/ \E t \in Sids : <<p, t>> \in repo'.records
          \/ \E t \in Sids : session'[t].pc = "record" /\ session'[t].ply = p
          \/ Cancelled \/ lost' \cap {"submit", "record"} # {}
    <3> SUFFICES ASSUME NEW p \in game.accepted
                 PROVE  \/ \E t \in Sids : <<p, t>> \in repo'.records
                        \/ \E t \in Sids : session'[t].pc = "record" /\ session'[t].ply = p
                        \/ Cancelled \/ lost' \cap {"submit", "record"} # {}
      OBVIOUS
    <3>1. CASE p = ply
      BY <1>2, <1>3, <3>1
    <3>2. CASE p # ply
      BY <1>1, <1>2, <2>1, <2>2, <3>2 DEF IInv, Written, RecordsAreMoves
    <3> QED
      BY <3>1, <3>2
  <2>8. RecordsAreMoves'
    BY <1>1, <2>5, <2>6, <2>7 DEF RecordsAreMoves, Cancelled, Go
  <2>9. \A t, u \in Sids : Alive(t)' /\ Alive(u)' => t = u \/ {t, u} \in together
    <3>1. \A t \in Sids : Alive(t)' => Alive(t)
      BY <1>1, <2>1 DEF Alive
    <3> QED
      BY <3>1 DEF IInv, Written
  <2>10. \A t \in Sids : session'[t].pc \in {"choose", "submit", "record"} =>
           \A r \in repo'.records : r[1] = session'[t].ply => {r[2], t} \in together
    <3> SUFFICES ASSUME NEW t \in Sids, session'[t].pc \in {"choose", "submit", "record"},
                        NEW r \in repo'.records, r[1] = session'[t].ply
                 PROVE  {r[2], t} \in together
      OBVIOUS
    <3>1. t # s /\ session[t].pc \in {"choose", "submit", "record"} /\ session'[t] = session[t]
      BY <2>4
    <3>2. CASE r \in repo.records
      BY <3>1, <3>2 DEF IInv, Written
    <3>3. CASE r = <<ply, s>>
      <4>1. Alive(s) /\ Alive(t)
        BY <1>1, <3>1 DEF Alive
      <4> QED
        BY <3>1, <3>3, <4>1 DEF IInv, Written
    <3> QED
      BY <2>2, <3>2, <3>3
  <2> QED
    BY <1>1, <2>8, <2>9, <2>10 DEF Written
<1>7. repo' \in Repo /\ repo'.keys = repo.keys /\ repo'.notes = repo.notes
  BY <1>1, <1>2, <1>3
<1>8. KeyWaitsForEnd' /\ Refereed'
  BY <1>1, <1>2, <1>7 DEF IInv, KeyWaitsForEnd, Refereed
<1>9. Kept'
  BY <1>1, <1>2, <1>4, <1>7, StaysKept DEF Playing, Unkeyed, InTurn, Session
<1> QED
  BY <1>1, <1>2, <1>4, <1>5, <1>6, <1>7, <1>8, <1>9, StepOK

\* The move is counted; if it has ended the game the session goes to its end.
LEMMA AfterMoveGoes ==
  ASSUME IInv, NEW s \in Sids, At(s, "explain"), AfterMove(s),
         UNCHANGED <<dialect, game, stop, together>>, lost \subseteq lost'
  PROVE  \E v \in Session :
           /\ Set(s, v) /\ Fit(v)' /\ v.iter >= session[s].iter
           /\ v.pc \in {"loop", "finish", "confirm"} /\ (v.pc # "loop" => game.over)
<1> DEFINE c == [session[s] EXCEPT !.moves = @ + 1]
           w == IF ~c.over THEN Anew(c)
                ELSE IF Go THEN [c EXCEPT !.pc = "finish"]
                ELSE [c EXCEPT !.pc = "confirm", !.running = FALSE]
<1>1. /\ session[s] \in Session /\ Fit(session[s]) /\ MaxIter \in Nat
  BY Types DEF IInv
<1>2. session[s].moves < MaxPlies /\ session[s].iter < MaxIter
  BY <1>1 DEF Fit, InTurn
<1>3. session[s].moves + 1 \in 0..MaxPlies /\ session[s].iter + 1 \in 0..MaxIter
      /\ session[s].iter \in Nat
  BY <1>1, <1>2 DEF Session
<1>4. /\ c \in Session /\ c.iter = session[s].iter /\ c.over = session[s].over
      /\ c.running = session[s].running /\ c.published = session[s].published
  BY <1>1, <1>3 DEF Session
<1>5. Set(s, w)
  BY DEF AfterMove, OverInGo, OverInTS
<1> HIDE DEF c
<1>6. /\ w \in Session /\ w.pc \in {"loop", "finish", "confirm"} /\ w.over = session[s].over
      /\ w.iter >= session[s].iter /\ w.published = session[s].published
      /\ w.pc # "loop" => w.over
      /\ w.pc = "loop" => w.running = session[s].running
  <2>1. CASE ~c.over
    <3>1. w = [c EXCEPT !.pc = "loop", !.iter = @ + 1, !.ply = 0, !.woken = FALSE]
      BY <2>1 DEF Anew
    <3> HIDE DEF w
    <3>2. c.iter + 1 \in 0..MaxIter /\ 0 \in 0..MaxPly + 1
      BY <1>3, <1>4
    <3>3. /\ w \in Session /\ w.pc = "loop" /\ w.over = c.over /\ w.iter = c.iter + 1
          /\ w.published = c.published /\ w.running = c.running
      BY <1>4, <3>1, <3>2 DEF Session, Pcs
    <3> QED
      BY <1>3, <1>4, <3>3
  <2>2. CASE c.over /\ Go
    <3>1. w = [c EXCEPT !.pc = "finish"]
      BY <2>2
    <3> HIDE DEF w
    <3>2. /\ w \in Session /\ w.pc = "finish" /\ w.over = c.over /\ w.iter = c.iter
          /\ w.published = c.published
      BY <1>4, <3>1 DEF Session, Pcs
    <3> QED
      BY <1>3, <1>4, <2>2, <3>2
  <2>3. CASE c.over /\ ~Go
    <3>1. w = [c EXCEPT !.pc = "confirm", !.running = FALSE]
      BY <2>3
    <3> HIDE DEF w
    <3>2. /\ w \in Session /\ w.pc = "confirm" /\ w.over = c.over /\ w.iter = c.iter
          /\ w.published = c.published
      BY <1>4, <3>1 DEF Session, Pcs
    <3> QED
      BY <1>3, <1>4, <2>3, <3>2
  <2> QED
    BY <2>1, <2>2, <2>3
<1>7. PICK v \in Session : v = w
  BY <1>6
<1>8. Set(s, v)
  BY <1>5, <1>7
<1> HIDE DEF w
<1>9. session[s].over => game.over
  BY <1>1 DEF Fit
<1>10. Fit(v)'
  BY <1>1, <1>6, <1>7, <1>9 DEF Fit, InTurn, Playing, Unkeyed
<1> QED
  BY <1>6, <1>7, <1>8, <1>9, <1>10

\* A note is written by a session that has yet to publish its key.
LEMMA MaybeExplainOK == ASSUME IInv, NEW s \in Sids, MaybeExplain(s) PROVE IInv'
<1> DEFINE noted == [repo EXCEPT !.notes = @ \cup {s}]
<1>1. /\ session[s].pc = "explain" /\ Fit(session[s]) /\ session[s] \in Session
      /\ UNCHANGED <<dialect, game, listed, hints, stop, together>> /\ AfterMove(s)
      /\ repo \in Repo /\ game \in Game /\ listed \in {0} \cup Sids
  BY Types DEF MaybeExplain, IInv, Fit, Game
<1>2. repo' \in {repo, noted} /\ lost \subseteq lost' /\ lost' \subseteq Calls
  BY FailsOK, AnsweredOK, Types DEF MaybeExplain, Calls, IInv
<1>3. /\ noted \in Repo /\ noted.notes = repo.notes \cup {s}
      /\ noted.records = repo.records /\ noted.keys = repo.keys
  BY <1>1 DEF Repo
<1> HIDE DEF noted
<1>4. PICK v \in Session :
        /\ Set(s, v) /\ Fit(v)' /\ v.iter >= session[s].iter
        /\ v.pc \in {"loop", "finish", "confirm"} /\ (v.pc # "loop" => game.over)
  BY <1>1, <1>2, AfterMoveGoes
<1>5. /\ repo' \in Repo /\ repo'.keys = repo.keys /\ repo'.records = repo.records
      /\ \A n \in repo'.notes : n \in repo.notes \/ n = s
  BY <1>1, <1>2, <1>3
<1>6. Written'
  BY <1>1, <1>2, <1>4, <1>5, StaysWritten DEF Alive
<1>7. KeyWaitsForEnd' /\ Refereed'
  BY <1>1, <1>2, <1>5 DEF IInv, KeyWaitsForEnd, Refereed
<1>8. Kept'
  BY <1>1, <1>2, <1>4, <1>5, StaysKept DEF Playing, Unkeyed, InTurn
<1> QED
  BY <1>1, <1>2, <1>4, <1>5, <1>6, <1>7, <1>8, StepOK

\* A key goes out when the game is over, or a resignation got lost.
LEMMA PublishKeyOK == ASSUME IInv, NEW s \in Sids, PublishKey(s) PROVE IInv'
<1> DEFINE out == [repo EXCEPT !.keys = @ \cup {s}]
<1>1. /\ session[s].pc = "publish" /\ Fit(session[s]) /\ session[s] \in Session
      /\ UNCHANGED <<dialect, game, listed, hints, stop, together>>
      /\ repo \in Repo /\ game \in Game /\ listed \in {0} \cup Sids
  BY Types DEF PublishKey, IInv
<1>2. /\ repo' \in {repo, out} /\ lost \subseteq lost' /\ lost' \subseteq Calls
      /\ repo' = out \/ Cancelled \/ "publish" \in lost'
      /\ repo' = out => ~Cancelled \/ repo' = repo
  BY FailsOK, AnsweredOK DEF PublishKey, Calls
<1>3. PICK pc \in {"delist", "leave"} : Goes(s, pc)
  BY DEF PublishKey
<1>4. /\ out \in Repo /\ out.notes = repo.notes
      /\ out.records = repo.records /\ out.keys = repo.keys \cup {s}
  BY <1>1 DEF Repo
<1> HIDE DEF out
<1>5. PICK v \in Session : Set(s, v) /\ v.pc = pc /\ Same(v, session[s]) /\ v.iter = session[s].iter
  BY <1>3, GoesTo DEF Pcs
<1>6. Fit(v)'
  BY <1>1, <1>5 DEF Fit, Same, Like, InTurn, Playing, Unkeyed
<1>7. /\ repo' \in Repo /\ repo.keys \subseteq repo'.keys /\ repo'.records = repo.records
      /\ repo'.notes = repo.notes
  BY <1>1, <1>2, <1>4
<1>8. Written'
  BY <1>1, <1>2, <1>5, <1>7, StaysWritten DEF Alive
<1>9. Refereed'
  BY <1>1 DEF IInv, Refereed
<1>10. KeyWaitsForEnd'
  <2>1. CASE repo' = repo
    BY <1>1, <1>2, <2>1 DEF IInv, KeyWaitsForEnd
  <2>2. CASE ~Cancelled
    BY <1>1, <1>2, <2>2 DEF Fit, KeyWaitsForEnd
  <2> QED
    BY <1>2, <2>1, <2>2
<1>11. stop = "no" /\ lost' = {} => s \in repo'.keys
  BY <1>2, <1>4 DEF Cancelled
<1>12. Kept'
  BY <1>1, <1>2, <1>5, <1>7, <1>11, StaysKept DEF Playing, InTurn, Session
<1> QED
  BY <1>1, <1>2, <1>5, <1>6, <1>7, <1>8, <1>9, <1>10, <1>12, StepOK

\* The session goes to its end, or is at it.
LEMMA LeavesTo ==
  ASSUME IInv, NEW s \in Sids,
         Ends(s) \/ Goes(s, "report") \/ Goes(s, "leave")
  PROVE  \E v \in Session : /\ Set(s, v) /\ v.pc \in {"leave", "report", "gone"}
                            /\ v.iter = session[s].iter /\ (v.over => session[s].over)
<1>1. CASE Ends(s)
  <2> DEFINE v == [Unborn EXCEPT !.pc = "gone", !.iter = session[s].iter]
  <2>1. session[s] \in Session
    BY Types DEF IInv
  <2>2. PICK u : u = Unborn
    OBVIOUS
  <2>3. u \in Session /\ ~u.over
    BY <2>2, GuardIsPositive DEF Unborn, Session, Pcs
  <2>4. v \in Session /\ v.pc = "gone" /\ v.iter = session[s].iter /\ ~v.over
    BY <2>1, <2>2, <2>3 DEF Session, Pcs
  <2>5. Set(s, v)
    BY <1>1 DEF Ends
  <2> HIDE DEF v
  <2> QED
    BY <2>4, <2>5
<1>2. ASSUME NEW pc \in {"report", "leave"}, Goes(s, pc)
      PROVE  \E v \in Session : /\ Set(s, v) /\ v.pc \in {"leave", "report", "gone"}
                                /\ v.iter = session[s].iter /\ (v.over => session[s].over)
  BY <1>2, GoesTo DEF Pcs, Same, Like
<1> QED
  BY <1>1, <1>2

\* A session takes itself off the list when it has nothing to play any more.
LEMMA LeavesList ==
  ASSUME IInv, NEW s \in Sids, session[s].pc \in {"delist", "leave", "report"},
         Ends(s) \/ Goes(s, "report") \/ Goes(s, "leave"),
         listed' \in {0, listed}, UNCHANGED <<dialect, game, hints, stop, repo, lost, together>>
  PROVE  IInv'
<1>1. /\ Fit(session[s]) /\ session[s] \in Session /\ lost \subseteq Calls
      /\ repo \in Repo /\ game \in Game /\ listed' \in {0} \cup Sids
  BY Types DEF IInv
<1>2. PICK v \in Session : /\ Set(s, v) /\ v.pc \in {"leave", "report", "gone"}
                           /\ v.iter = session[s].iter /\ (v.over => session[s].over)
  BY LeavesTo
<1>3. Fit(v)'
  BY <1>1, <1>2 DEF Fit, InTurn, Playing, Unkeyed
<1>4. Written'
  BY <1>2, StaysWritten DEF Alive
<1>5. KeyWaitsForEnd' /\ Refereed'
  BY DEF IInv, KeyWaitsForEnd, Refereed
<1>6. Kept'
  BY <1>1, <1>2, StaysKept DEF Playing, Unkeyed, InTurn, Session
<1> QED
  BY <1>1, <1>2, <1>3, <1>4, <1>5, <1>6, StepOK

-----------------------------------------------------------------------------
(* The loop around the sessions, and the game.                             *)

\* A session before and after a step that is not its own.
Alike(x, y) ==
  /\ x.pc = y.pc /\ x.published = y.published /\ x.moves = y.moves /\ x.iter = y.iter
  /\ x.ply = y.ply /\ x.over = y.over /\ (x.running => y.running)

\* No session goes on; the game may, and Stop may tell a session to end.
LEMMA AroundOK ==
  ASSUME IInv, session' \in [Sids -> Session],
         \A t \in Sids : Alike(session'[t], session[t]),
         stop' = "no" => \A t \in Sids : session'[t].running = session[t].running,
         UNCHANGED <<dialect, listed, hints, repo, together>>,
         game' \in Game, Refereed', game.over => game'.over, game'.accepted = game.accepted,
         lost \subseteq lost', lost' \subseteq Calls,
         stop' \in {"no", "resign", "done"}, stop' = "no" => stop = "no",
         stop = "done" => stop' = "done", Kept'
  PROVE  IInv'
<1>1. TypeOK'
  BY DEF IInv, TypeOK, Session, Game
<1>2. Cancelled => Cancelled'
  BY DEF Cancelled, Go
<1>3. \A t \in Sids : Fit(session[t])'
  <2> SUFFICES ASSUME NEW t \in Sids PROVE Fit(session[t])'
    OBVIOUS
  <2>1. Fit(session[t]) /\ Alike(session'[t], session[t])
    BY DEF IInv
  <2> QED
    BY <1>2, <2>1 DEF Fit, Alike, Stopped
<1>4. Born'
  BY DEF IInv, Born, Alike
<1>5. Written'
  <2>1. \A t \in Sids : session'[t].pc = session[t].pc /\ session'[t].ply = session[t].ply
    BY DEF Alike
  <2>2. \A p \in game.accepted :
          \/ \E t \in Sids : <<p, t>> \in repo.records
          \/ \E t \in Sids : session'[t].pc = "record" /\ session'[t].ply = p
          \/ Cancelled' \/ lost' \cap {"submit", "record"} # {}
    <3> SUFFICES ASSUME NEW p \in game.accepted,
                        ~\E t \in Sids : session'[t].pc = "record" /\ session'[t].ply = p
                 PROVE  \/ \E t \in Sids : <<p, t>> \in repo.records
                        \/ Cancelled' \/ lost' \cap {"submit", "record"} # {}
      OBVIOUS
    <3>1. ~\E t \in Sids : session[t].pc = "record" /\ session[t].ply = p
      BY <2>1
    <3>2. \/ \E t \in Sids : <<p, t>> \in repo.records
          \/ Cancelled \/ lost \cap {"submit", "record"} # {}
      BY <3>1 DEF IInv, Written, RecordsAreMoves
    <3> QED
      BY <1>2, <3>2
  <2>3. RecordsAreMoves'
    BY <2>2 DEF IInv, Written, RecordsAreMoves
  <2>4. \A t, u \in Sids : Alive(t)' /\ Alive(u)' => t = u \/ {t, u} \in together'
    BY <2>1 DEF IInv, Written, Alive
  <2> QED
    BY <2>1, <2>3, <2>4 DEF IInv, Written
<1>6. KeyWaitsForEnd'
  BY DEF IInv, KeyWaitsForEnd
<1> QED
  BY <1>1, <1>3, <1>4, <1>5, <1>6 DEF IInv

\* Calm does not come back.
LEMMA WasCalm ==
  ASSUME IInv, \A t \in Sids : session'[t].iter = session[t].iter, lost \subseteq lost', Calm'
  PROVE  Calm
  BY DEF Calm, Guarded

\* A session is started when none is registered: then none plays, if all is calm.
LEMMA StartSessionOK == ASSUME IInv, StartSession PROVE IInv'
<1> DEFINE s == hints + 1
<1>1. /\ s \in Sids /\ hints' = s /\ hints \in Nat
      /\ UNCHANGED <<dialect, game, stop, repo, lost>>
      /\ session \in [Sids -> Session] /\ repo \in Repo
      /\ listed \in {0} \cup Sids /\ together \subseteq SUBSET Sids
      /\ together' = together \cup {{t, s} : t \in {u \in Sids : Alive(u)}}
  BY Types DEF StartSession, IInv
<1>2. Refereed' /\ KeyWaitsForEnd'
  BY <1>1 DEF IInv, Refereed, KeyWaitsForEnd
<1>4. ~Stopped /\ listed = 0 /\ Set(s, NewSession) /\ listed' = s
  BY DEF StartSession
<1>5. PICK v : v = NewSession
  OBVIOUS
<1>6. /\ v \in Session /\ v.pc = "ref" /\ v.iter = 0 /\ v.running /\ ~v.published
      /\ ~v.over
  <2>1. v = [pc |-> "ref", running |-> TRUE, published |-> FALSE, moves |-> 0, iter |-> 0,
             ply |-> 0, over |-> FALSE, crashed |-> FALSE, woken |-> FALSE]
    BY <1>5 DEF NewSession, Unborn
  <2>2. 0 \in 0..MaxIter /\ 0 \in 0..MaxPlies /\ 0 \in 0..MaxPly + 1
    BY GuardIsPositive
  <2> QED
    BY <2>1, <2>2 DEF Session, Pcs
<1>7. /\ session' \in [Sids -> Session]
      /\ \A t \in Sids : session'[t] = IF t = s THEN v ELSE session[t]
  BY <1>1, <1>4, <1>5, <1>6, SetOK
<1>8. At(s, "unborn")
  BY <1>1 DEF IInv, Born
<1>9. TypeOK'
  <2>1. hints' \in 0..Hints /\ listed' \in {0} \cup Sids
    BY <1>1, <1>4
  <2>2. together' \subseteq SUBSET Sids
    <3> SUFFICES ASSUME NEW z \in together' PROVE z \subseteq Sids
      OBVIOUS
    <3>1. z \in together \/ \E t \in Sids : z = {t, s}
      BY <1>1
    <3>2. ASSUME NEW t \in Sids, z = {t, s} PROVE z \subseteq Sids
      BY <1>1, <3>2
    <3> QED
      BY <1>1, <3>1, <3>2
  <2> QED
    BY <1>1, <1>7, <2>1, <2>2 DEF IInv, TypeOK, Session
<1>10. \A t \in Sids : Fit(session[t])'
  BY <1>1, <1>6, <1>7 DEF IInv, Fit, InTurn, Playing, Unkeyed, Cancelled, Go, Stopped
<1>11. Born'
  BY <1>1, <1>7 DEF IInv, Born
<1>12. Written'
  <2>1. \A t \in Sids : /\ (Alive(t)' => t = s \/ Alive(t))
                       /\ (session'[t].pc \in {"choose", "submit", "record"} =>
                              /\ session[t].pc \in {"choose", "submit", "record"}
                              /\ session'[t] = session[t])
                       /\ (At(t, "record") => session'[t] = session[t])
    BY <1>6, <1>7, <1>8 DEF Alive
  <2>2. \A t \in Sids : Alive(t) => {t, s} \in together' /\ {s, t} \in together'
    <3>1. \A x, y : {x, y} = {y, x}
      OBVIOUS
    <3> QED
      BY <1>1, <3>1
  <2>3. \A t, u \in Sids : Alive(t)' /\ Alive(u)' => t = u \/ {t, u} \in together'
    BY <1>1, <2>1, <2>2 DEF IInv, Written
  <2>4. \A t \in Sids : session'[t].pc \in {"choose", "submit", "record"} =>
          \A r \in repo'.records : r[1] = session'[t].ply => {r[2], t} \in together'
    BY <1>1, <2>1 DEF IInv, Written
  <2>5. RecordsAreMoves'
    BY <1>1, <2>1 DEF IInv, Written, RecordsAreMoves, Cancelled, Go
  <2> QED
    BY <2>3, <2>4, <2>5 DEF Written
<1>13. Kept'
  <2> SUFFICES ASSUME Calm' PROVE Kept'
    BY DEF Kept
  <2>1. Calm
    <3>1. \A t \in Sids : ~Guarded(t)
      <4> SUFFICES ASSUME NEW t \in Sids PROVE ~(session[t].iter >= MaxIter)
        BY DEF Guarded
      <4>1. CASE t = s
        <5>1. session[s].iter < MaxIter /\ session[s].iter \in Nat
          BY <1>1, <1>8 DEF IInv, Fit, Session
        <5> QED
          BY <4>1, <5>1, GuardIsPositive
      <4>2. CASE t # s
        BY <1>7, <4>2 DEF Calm, Guarded
      <4> QED
        BY <4>1, <4>2
    <3> QED
      BY <1>1, <3>1 DEF Calm
  <2>2. stop = "no"
    BY <1>4 DEF Stopped
  <2>3. ~game.over => \A t \in Sids : At(t, "unborn")
    BY <1>4, <2>1, <2>2 DEF IInv, Kept
  <2>4. ~game.over =>
          \A t \in Sids : session'[t].pc # "unborn" => listed' = t /\ session'[t].pc \in Playing
    BY <1>4, <1>6, <1>7, <2>3 DEF Playing
  <2>5. \A n \in repo.notes : n \in repo.keys \/ session'[n].pc \in Unkeyed
    <3> SUFFICES ASSUME NEW n \in repo.notes
                 PROVE  n \in repo.keys \/ session'[n].pc \in Unkeyed
      OBVIOUS
    <3>1. n \in Sids
      BY <1>1 DEF Repo
    <3> QED
      BY <1>6, <1>7, <2>1, <2>2, <3>1 DEF IInv, Kept, Unkeyed, Playing
  <2> QED
    BY <1>1, <2>2, <2>4, <2>5 DEF Kept
<1> QED
  BY <1>2, <1>9, <1>10, <1>11, <1>12, <1>13 DEF IInv

\* Stop has a game to resign whenever one goes on and all is calm.
LEMMA StopOK == ASSUME IInv, Stop PROVE IInv'
<1>1. /\ session \in [Sids -> Session] /\ repo \in Repo /\ game \in Game
      /\ lost \subseteq Calls /\ listed \in {0} \cup Sids
      /\ UNCHANGED <<dialect, game, listed, hints, repo, lost, together>>
      /\ stop = "no" /\ stop' \in {"resign", "done"}
      /\ stop' = "done" => ~ToResign(listed)
  BY Types DEF Stop, IInv
<1>2. /\ session' \in [Sids -> Session]
      /\ \A t \in Sids : Alike(session'[t], session[t])
  <2>1. CASE listed = 0
    BY <1>1, <2>1 DEF Stop, Alike
  <2>2. CASE listed \in Sids
    <3>1. PICK v : v = [session[listed] EXCEPT !.running = FALSE]
      OBVIOUS
    <3>2. v \in Session /\ Alike(v, session[listed])
      BY <1>1, <2>2, <3>1 DEF Session, Alike
    <3>3. Set(listed, v)
      BY <2>2, <3>1 DEF Stop
    <3> QED
      BY <2>2, <3>2, <3>3, SetOK DEF Alike
  <2> QED
    BY <1>1, <2>1, <2>2
<1>3. Refereed'
  BY <1>1 DEF IInv, Refereed
<1>4. Kept'
  <2> SUFFICES ASSUME Calm', ~game.over, stop' = "done", NEW t \in Sids
               PROVE  session'[t].pc = "unborn"
    BY <1>1 DEF Kept
  <2>1. Calm
    BY <1>1, <1>2, WasCalm DEF Alike
  <2>2. ~At(t, "unborn") => listed = t /\ session[t].running
    BY <1>1, <2>1 DEF IInv, Kept, Fit
  <2>3. At(t, "unborn")
    BY <1>1, <2>2 DEF ToResign
  <2> QED
    BY <1>2, <2>3 DEF Alike
<1> QED
  BY <1>1, <1>2, <1>3, <1>4, AroundOK

\* The game is resigned, or the resignation got lost.
LEMMA StopResignsOK == ASSUME IInv, StopResigns PROVE IInv'
<1>1. /\ session \in [Sids -> Session] /\ stop = "resign" /\ stop' = "done"
      /\ UNCHANGED <<dialect, session, listed, hints, repo, together>>
  BY Types DEF StopResigns, IInv
<1>2. /\ game' \in {game, Resigned} /\ lost \subseteq lost' /\ lost' \subseteq Calls
      /\ game' = Resigned \/ lost' # {}
  BY <1>1, FailsOK, Types DEF StopResigns, IInv, Calls, Cancelled
<1>3. /\ game' \in Game /\ Refereed' /\ (game.over => game'.over)
      /\ game'.accepted = game.accepted /\ (game' = Resigned => game'.over)
  BY <1>2, ResignedOK
<1>4. Kept'
  BY <1>1, <1>2, <1>3 DEF Kept, Calm
<1> QED
  BY <1>1, <1>2, <1>3, <1>4, AroundOK DEF Alike

\* The other side moves, or ends the game.
LEMMA OpponentOK == ASSUME IInv, Opponent PROVE IInv'
<1>1. /\ session \in [Sids -> Session] /\ game \in Game /\ game.ply \in Nat /\ repo \in Repo
      /\ ~game.over /\ lost \subseteq Calls
      /\ UNCHANGED <<dialect, listed, hints, stop, repo, lost, together>>
      /\ stop \in {"no", "resign", "done"}
  BY Types DEF Opponent, IInv, TypeOK
<1>2. /\ session' \in [Sids -> Session]
      /\ \A t \in Sids : Alike(session'[t], session[t]) /\ session'[t].running = session[t].running
  <2>1. PICK told \in SUBSET {s \in Sids : At(s, "sleep")} :
          session' = [s \in Sids |-> [session[s] EXCEPT !.woken = @ \/ s \in told]]
    BY DEF Opponent
  <2>2. \A t \in Sids :
          /\ session'[t] \in Session
          /\ Alike(session'[t], session[t]) /\ session'[t].running = session[t].running
    <3> SUFFICES ASSUME NEW t \in Sids
                 PROVE  /\ session'[t] \in Session
                        /\ Alike(session'[t], session[t])
                        /\ session'[t].running = session[t].running
      OBVIOUS
    <3>1. session[t] \in Session /\ (session[t].woken \/ t \in told) \in BOOLEAN
      BY <1>1
    <3>2. PICK b \in BOOLEAN : b = (session[t].woken \/ t \in told)
      BY <3>1
    <3>3. session'[t] = [session[t] EXCEPT !.woken = b]
      BY <2>1, <3>2
    <3> QED
      BY <3>1, <3>3 DEF Session, Alike
  <2> QED
    BY <2>1, <2>2
<1>3. game' \in Game /\ Refereed' /\ game'.accepted = game.accepted
  <2>1. CASE game' = Resigned
    BY <2>1, ResignedOK
  <2>2. ASSUME NEW ends \in MayEnd(game.ply + 1),
               game' = [game EXCEPT !.ply = @ + 1, !.mine = TRUE, !.over = ends]
        PROVE  game' \in Game /\ Refereed' /\ game'.accepted = game.accepted
    <3>1. /\ game.ply < MaxPly /\ game.accepted \subseteq 1..game.ply
          /\ ends \in BOOLEAN /\ (game.ply + 1 = MaxPly => ends)
      BY <1>1 DEF IInv, Refereed, MayEnd
    <3>2. game.ply + 1 \in 0..MaxPly
      BY <1>1, <3>1
    <3>3. game' \in Game
      BY <1>1, <2>2, <3>1, <3>2 DEF Game
    <3>4. game'.ply = game.ply + 1 /\ game'.over = ends /\ game'.accepted = game.accepted
      BY <1>1, <2>2 DEF Game
    <3>5. Refereed'
      BY <1>1, <3>1, <3>2, <3>4 DEF Refereed
    <3> QED
      BY <3>3, <3>4, <3>5
  <2> QED
    BY <2>1, <2>2 DEF Opponent
<1>4. Kept'
  <2> SUFFICES ASSUME Calm' PROVE Kept'
    BY DEF Kept
  <2>1. Calm
    BY <1>1, <1>2, WasCalm DEF Alike
  <2>2. \A n \in repo.notes : n \in Sids
    BY <1>1 DEF Repo
  <2> QED
    BY <1>1, <1>2, <2>1, <2>2 DEF IInv, Kept, Alike
<1> QED
  BY <1>1, <1>2, <1>3, <1>4, AroundOK

-----------------------------------------------------------------------------
(* The theorems.                                                           *)

\* A loop that has not been matched has nothing to answer for.
LEMMA InitOK == ASSUME Init PROVE IInv
<1>1. /\ game \in Game /\ ~game.over /\ game.ply = 0 /\ game.accepted = {}
  <2>1. game \in [over: {FALSE}, ply: {0}, mine: BOOLEAN, accepted: {{}}]
    BY DEF Init
  <2>2. ~game.over /\ game.ply = 0 /\ game.accepted = {}
    BY <2>1
  <2>3. 0 \in 0..MaxPly /\ {} \in SUBSET (1..MaxPly)
    OBVIOUS
  <2>4. PICK b \in BOOLEAN : game = [over |-> FALSE, ply |-> 0, mine |-> b, accepted |-> {}]
    BY <2>1
  <2> QED
    BY <2>2, <2>3, <2>4 DEF Game
<1>2. /\ repo \in Repo /\ repo.records = {} /\ repo.notes = {} /\ repo.keys = {}
  BY DEF Init, Repo
<1>3. PICK u : u = Unborn
  OBVIOUS
<1>4. u \in Session /\ u.pc = "unborn" /\ u.iter = 0 /\ ~u.over
  BY <1>3, GuardIsPositive DEF Unborn, Session, Pcs
<1>5. session = [s \in Sids |-> u]
  BY <1>3 DEF Init
<1>6. TypeOK
  BY <1>1, <1>2, <1>4, <1>5 DEF Init, TypeOK, Game, Repo, Session
<1>7. \A s \in Sids : Fit(session[s])
  BY <1>4, <1>5, GuardIsPositive DEF Fit, InTurn, Playing, Unkeyed
<1>8. Born /\ Refereed /\ KeyWaitsForEnd
  BY <1>1, <1>2, <1>4, <1>5 DEF Born, Refereed, KeyWaitsForEnd
<1>9. Written
  <2>1. \A s \in Sids : session[s].pc = "unborn"
    BY <1>4, <1>5
  <2> QED
    BY <1>1, <1>2, <2>1 DEF Written, RecordsAreMoves, Alive
<1>10. Kept
  BY <1>2, <1>4, <1>5 DEF Init, Kept
<1> QED
  BY <1>6, <1>7, <1>8, <1>9, <1>10 DEF IInv

\* Every step of the loop, of a session and of the other side keeps the invariant.
THEOREM NextOK == IInv /\ [Next]_vars => IInv'
<1> SUFFICES ASSUME IInv, [Next]_vars PROVE IInv'
  OBVIOUS
<1>1. CASE UNCHANGED vars
  <2>1. TypeOK' /\ Born' /\ Refereed' /\ KeyWaitsForEnd'
    BY <1>1 DEF vars, IInv, TypeOK, Born, Refereed, KeyWaitsForEnd
  <2>2. \A s \in Sids : Fit(session[s])'
    BY <1>1 DEF vars, IInv, Fit, Cancelled, Go, Stopped
  <2>3. Written' /\ Kept'
    BY <1>1 DEF vars, IInv, Written, RecordsAreMoves, Cancelled, Go, Kept, Calm, Guarded,
                    Alive
  <2> QED
    BY <2>1, <2>2, <2>3 DEF IInv
<1>2. CASE StartSession
  BY <1>2, StartSessionOK
<1>3. CASE Stop
  BY <1>3, StopOK
<1>4. CASE StopResigns
  BY <1>4, StopResignsOK
<1>5. CASE Opponent
  BY <1>5, OpponentOK
<1>6. ASSUME NEW s \in Sids, Step(s) PROVE IInv'
  <2>1. CASE GameRef(s) \/ Head(s) \/ GetState(s) \/ Wake(s)
    BY <2>1, GameRefOK, HeadOK, GetStateOK, WakeOK
  <2>2. CASE ChooseMove(s) \/ SubmitMove(s) \/ WriteMoveRecord(s) \/ MaybeExplain(s)
    BY <2>2, ChooseMoveOK, SubmitMoveOK, WriteMoveRecordOK, MaybeExplainOK
  <2>3. CASE Cap(s) \/ Resign(s) \/ Confirm(s)
    BY <2>3, CapOK, ResignOK, ConfirmOK
  <2>4. CASE FinishSession(s) \/ PublishKey(s)
    BY <2>4, FinishSessionOK, PublishKeyOK
  <2>5. CASE Delist(s)
    BY <2>5, LeavesList DEF Delist
  <2>6. CASE LeaveGo(s)
    <3>1. Ends(s) \/ Goes(s, "report")
      BY <2>6 DEF LeaveGo
    <3> QED
      BY <2>6, <3>1, LeavesList DEF LeaveGo
  <2>7. CASE LeaveTS(s)
    BY <2>7, LeavesList DEF LeaveTS
  <2>8. CASE Report(s)
    BY <2>8, LeavesList DEF Report
  <2> QED
    BY <1>6, <2>1, <2>2, <2>3, <2>4, <2>5, <2>6, <2>7, <2>8 DEF Step
<1> QED
  BY <1>1, <1>2, <1>3, <1>4, <1>5, <1>6 DEF Next

\* The inductive invariant holds of every behaviour.
LEMMA Invariant == Spec => []IInv
<1>1. Init => IInv
  BY InitOK
<1> QED
  BY <1>1, NextOK, PTL DEF Spec

\* Sessions, game, repo and the counters of the loop stay within their types, the cap
\* of moves and the iteration guard included.
THEOREM TypeCorrect == Spec => []TypeOK
<1>1. IInv => TypeOK
  BY DEF IInv
<1> QED
  BY <1>1, Invariant, PTL

\* The agent's repo tells the referee's moves, whatever calls got lost, and each once
\* unless two sessions lived at the same time: a session writes after the referee has taken
\* the move, and the referee takes a ply once and answers again who sends it again
\* (loop.go:472 writeMoveRecord, manager.go:555 the replay).
THEOREM RecordsTellMoves == Spec => []RecordsAreMoves
<1>1. IInv => RecordsAreMoves
  BY DEF IInv, Written
<1> QED
  BY <1>1, Invariant, PTL

\* A key is published after the game has ended, unless the resignation got lost: every
\* way to the key leads through the referee's word or the agent's own resignation
\* (loop.go:494 Resign, :497 finishSession).
THEOREM KeyAfterEnd == Spec => []KeyWaitsForEnd
<1>1. IInv => KeyWaitsForEnd
  BY DEF IInv
<1> QED
  BY <1>1, Invariant, PTL

\* Without a lost call the loop leaves no game to the clock and no note without its key:
\* a game that goes on has its session on the list, where Stop finds it (loop.go:248).
THEOREM LeavesNoGame == Spec => []NoGameIsLeft
<1>1. IInv => NoGameIsLeft
  <2> SUFFICES ASSUME IInv, \E s \in Sids : At(s, "gone"),
                      \A s \in Sids : session[s].pc \in {"unborn", "gone"} /\ ~Guarded(s),
                      stop # "resign", lost = {}
               PROVE  /\ game.over
                      /\ stop = "no" => repo.notes \subseteq repo.keys
    BY DEF NoGameIsLeft
  <2>1. Calm /\ stop \in {"no", "done"} /\ repo \in Repo
    BY Types DEF Calm, IInv, TypeOK
  <2>2. game.over
    BY <2>1 DEF IInv, Kept, Playing, InTurn
  <2>3. \A n \in repo.notes : n \in Sids
    BY <2>1 DEF Repo
  <2> QED
    BY <2>1, <2>2, <2>3 DEF IInv, Kept, Unkeyed, Playing, InTurn
<1> QED
  BY <1>1, Invariant, PTL
=============================================================================
