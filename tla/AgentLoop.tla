------------------------------ MODULE AgentLoop ------------------------------
(***************************************************************************)
(* The agent loop, in its two implementations: the Go BotLoop              *)
(* (internal/botclient/loop.go) and the TypeScript AgentLoop               *)
(* (packages/client/src/agent-loop.ts).  They are one design, so they are  *)
(* one module: a behaviour is run by one `dialect` and the places where    *)
(* the two differ ask which one it is.                                     *)
(*                                                                         *)
(* A session plays one game: it pulls the state, chooses, submits, writes  *)
(* the move record and perhaps a sealed note to the agent's own repo, and  *)
(* publishes the key of its notes when the game is over.  Every call it    *)
(* makes may get lost on the way there (nothing happens) or on the way     *)
(* back (it happened, the loop sees an error).  The referee and the repo   *)
(* are external: of them there is what an agent sees.                      *)
(***************************************************************************)
EXTENDS Integers, FiniteSets

CONSTANTS
  MaxPlies,     \* LoopOptions.MaxPlies: accepted moves before the loop resigns
  GuardFactor,  \* BOUND: iterations per accepted move, 40 in the code
  Hints,        \* BOUND: the hints that start a session of the game
  MaxPly,       \* BOUND: the game ends at this ply at the latest
  MaxFaults     \* BOUND: calls that get lost

ASSUME AgentLoopAssumption ==
  {MaxPlies, GuardFactor, Hints, MaxPly, MaxFaults} \subseteq Nat \ {0}

VARIABLES
  dialect,   \* "go" or "ts"
  game,      \* external: the referee's game, and the plies it took from the agent
  session,   \* the sessions started so far, by number
  listed,    \* loop.sessions: the session registered for the game, 0 if none
  hints,     \* #matched events and matched seeks so far that started a session
  stop,      \* where Stop has got to
  repo,      \* external: the agent's repo: move records, whose sealed notes, whose keys
  lost,      \* the calls that got lost
  together   \* history: the pairs of sessions that lived at the same time

vars == <<dialect, game, session, listed, hints, stop, repo, lost, together>>

Go == dialect = "go"

Sids == 1..Hints

MaxIter == MaxPlies * GuardFactor

\* A session that has not been started.
Unborn == [pc |-> "unborn", running |-> FALSE, published |-> FALSE, moves |-> 0,
           iter |-> 0, ply |-> 0, over |-> FALSE, crashed |-> FALSE, woken |-> FALSE]

NewSession == [Unborn EXCEPT !.pc = "ref", !.running = TRUE]

At(s, pc) == session[s].pc = pc

Alive(s) == session[s].pc \notin {"unborn", "leave", "report", "gone"}

Set(s, upd) == session' = [session EXCEPT ![s] = upd]

Goes(s, pc) == Set(s, [session[s] EXCEPT !.pc = pc])

\* `continue`: the next iteration, which keeps nothing of this one.
Anew(x) == [x EXCEPT !.pc = "loop", !.iter = @ + 1, !.ply = 0, !.woken = FALSE]

Again(s) == Set(s, Anew(session[s]))

\* The session ends; what stays is how many iterations it took.
Ends(s) == Set(s, [Unborn EXCEPT !.pc = "gone", !.iter = session[s].iter])

Crash(s) == Set(s, [session[s] EXCEPT !.pc = "leave", !.crashed = TRUE])

Stopped == stop # "no"

\* Stop cancels the context of a Go loop: every call fails from then on. (One under
\* way at that moment is one whose answer gets lost.)
Cancelled == Go /\ stop = "done"

-----------------------------------------------------------------------------
(* The calls: what the referee and the repo do with them, and whether the  *)
(* loop hears of it.                                                       *)

\* Call `name` is refused, or its request or its answer gets lost.
Fails(name) ==
  \/ Cancelled /\ UNCHANGED lost
  \/ /\ Cardinality(lost) < MaxFaults /\ name \notin lost
     /\ lost' = lost \cup {name}

Answered == ~Cancelled /\ UNCHANGED lost

\* The referee takes a move when it is the agent's turn and the next ply.
Accepts(ply) == ~game.over /\ game.mine /\ ply = game.ply + 1

\* A ply it took already is answered with the stored acceptance, to the same payload.
Replays(ply) == ~game.over /\ ply \in game.accepted

Moved(ends) == [game EXCEPT !.ply = @ + 1, !.mine = FALSE, !.over = ends,
                            !.accepted = @ \cup {game.ply + 1}]

Resigned == [game EXCEPT !.over = TRUE]

\* A move may end the game; the one at MaxPly does.
MayEnd(ply) == IF ply = MaxPly THEN {TRUE} ELSE BOOLEAN

-----------------------------------------------------------------------------
(* The play loop.                                                          *)

\* GameRef, its retries included: without the ref the session crashes.
GameRef(s) ==
  /\ At(s, "ref")
  /\ \/ Answered /\ Goes(s, "loop")
     \/ Fails("ref") /\ Crash(s)
  /\ UNCHANGED <<dialect, game, listed, hints, stop, repo, together>>

\* The head of the loop.
PlaysOn(s) ==
  /\ ~Stopped /\ session[s].running
  /\ session[s].moves < MaxPlies /\ session[s].iter < MaxIter

Head(s) ==
  /\ At(s, "loop")
  /\ Goes(s, IF PlaysOn(s) THEN "pull" ELSE "cap")
  /\ UNCHANGED <<dialect, game, listed, hints, stop, repo, lost, together>>

\* Mutant: a game is over when there is nothing to do.
IsOverOrWaiting(g) == g.over \/ ~g.mine

IsOver(g) == g.over

\* getState decides what the session does next.
AfterPull(s) ==
  IF IsOver(game) THEN Goes(s, "finish")
  ELSE IF game.mine THEN Set(s, [session[s] EXCEPT !.pc = "choose", !.ply = game.ply + 1])
  ELSE Set(s, [session[s] EXCEPT !.pc = "sleep", !.woken = FALSE])

GetState(s) ==
  /\ At(s, "pull")
  /\ \/ Answered /\ AfterPull(s)
     \/ Fails("pull") /\ (IF Cancelled THEN Goes(s, "leave") ELSE Again(s))
  /\ UNCHANGED <<dialect, game, listed, hints, stop, repo, together>>

\* Mutant: the session trusts that an event will wake it.
SafetyPollNever(s) == FALSE

\* The timer of a sleep runs out, whatever events there are.
SafetyPoll(s) == TRUE

Wake(s) ==
  /\ At(s, "sleep") /\ (session[s].woken \/ SafetyPoll(s))
  /\ Again(s)
  /\ UNCHANGED <<dialect, game, listed, hints, stop, repo, lost, together>>

\* An author that fails is asked again by the Go loop and ends the TypeScript one.
ChooseMove(s) ==
  /\ At(s, "choose")
  /\ \/ UNCHANGED lost /\ Goes(s, "submit")
     \/ ~Cancelled /\ Fails("choose") /\ (IF Go THEN Again(s) ELSE Crash(s))
  /\ UNCHANGED <<dialect, game, listed, hints, stop, repo, together>>

\* Mutant: a move that may have been taken is written down.
AfterLostMoveRecorded(s) == Goes(s, "record")

\* The state is pulled again and tells whether the move was taken.
AfterLostMove(s) == Again(s)

SubmitMove(s) ==
  /\ At(s, "submit")
  /\ \/ /\ Answered /\ Accepts(session[s].ply)
        /\ \E ends \in MayEnd(session[s].ply) :
             /\ game' = Moved(ends)
             /\ Set(s, [session[s] EXCEPT !.pc = "record", !.over = ends])
     \/ /\ Answered /\ Replays(session[s].ply)
        /\ Goes(s, "record") /\ UNCHANGED game
     \/ /\ Answered /\ ~Accepts(session[s].ply)
        /\ Again(s) /\ UNCHANGED game
     \/ /\ Fails("submit")
        /\ IF Cancelled THEN UNCHANGED game /\ Goes(s, "leave")
           ELSE /\ \/ UNCHANGED game
                   \/ /\ Accepts(session[s].ply)
                      /\ \E ends \in MayEnd(session[s].ply) : game' = Moved(ends)
                /\ AfterLostMove(s)
  /\ UNCHANGED <<dialect, listed, hints, stop, repo, together>>

\* A record that cannot be written does not stop the game.
WriteMoveRecord(s) ==
  /\ At(s, "record") /\ Goes(s, "explain")
  /\ LET written == [repo EXCEPT !.records = @ \cup {<<session[s].ply, s>>}]
     IN \/ Answered /\ repo' = written
        \/ Fails("record") /\ repo' \in {repo} \cup (IF Cancelled THEN {} ELSE {written})
  /\ UNCHANGED <<dialect, game, listed, hints, stop, together>>

\* What a session becomes when its own move has ended the game.
OverInGo(play) == [play EXCEPT !.pc = "finish"]

OverInTS(play) == [play EXCEPT !.pc = "confirm", !.running = FALSE]

\* What follows the commentary: the move counts, and the game may be over.
AfterMove(s) ==
  LET counted == [session[s] EXCEPT !.moves = @ + 1]
  IN Set(s, IF ~counted.over THEN Anew(counted)
            ELSE IF Go THEN OverInGo(counted) ELSE OverInTS(counted))

\* The author writes no secret note, or one under the session's key.
MaybeExplain(s) ==
  /\ At(s, "explain") /\ AfterMove(s)
  /\ LET noted == [repo EXCEPT !.notes = @ \cup {s}]
     IN \/ UNCHANGED <<repo, lost>>
        \/ Answered /\ repo' = noted
        \/ ~Cancelled /\ Fails("explain") /\ repo' \in {repo, noted}
  /\ UNCHANGED <<dialect, game, listed, hints, stop, together>>

\* The loop ended: by the cap, which resigns, or because somebody else stopped it.
\* The iteration guard makes the TypeScript loop resign as well, the Go loop not.
CappedInGo(s) == session[s].running /\ session[s].moves >= MaxPlies

CappedInTS(s) == session[s].running /\ ~Stopped

MustResign(s) == IF Go THEN CappedInGo(s) ELSE CappedInTS(s)

Cap(s) ==
  /\ At(s, "cap")
  /\ Goes(s, IF MustResign(s) THEN "resign" ELSE "leave")
  /\ UNCHANGED <<dialect, game, listed, hints, stop, repo, lost, together>>

\* A resignation that fails is logged, and the session goes on to the keys.
Resign(s) ==
  /\ At(s, "resign") /\ Goes(s, IF Go THEN "finish" ELSE "confirm")
  /\ \/ Answered /\ game' = Resigned
     \/ Fails("resign") /\ game' \in {game} \cup (IF Cancelled THEN {} ELSE {Resigned})
  /\ UNCHANGED <<dialect, listed, hints, stop, repo, together>>

\* The TypeScript loop pulls the state once more, and only asks whether it came.
Confirm(s) ==
  /\ At(s, "confirm")
  /\ \/ Answered /\ Goes(s, "finish")
     \/ Fails("confirm") /\ Goes(s, "leave")
  /\ UNCHANGED <<dialect, game, listed, hints, stop, repo, together>>

-----------------------------------------------------------------------------
(* The end of a session.                                                   *)

FinishSession(s) ==
  /\ At(s, "finish")
  /\ IF session[s].published THEN Goes(s, "leave")
     ELSE Set(s, [session[s] EXCEPT !.pc = "publish", !.published = TRUE, !.running = FALSE])
  /\ UNCHANGED <<dialect, game, listed, hints, stop, repo, lost, together>>

\* The key goes out in a public commentary record; the Go loop then takes the
\* session off its list, before the deferred call does it again.
PublishKey(s) ==
  /\ At(s, "publish")
  /\ LET out == [repo EXCEPT !.keys = @ \cup {s}]
     IN \/ Answered /\ repo' = out /\ Goes(s, IF Go THEN "delist" ELSE "leave")
        \/ /\ Fails("publish") /\ Goes(s, "leave")
           /\ repo' \in {repo} \cup (IF Cancelled THEN {} ELSE {out})
  /\ UNCHANGED <<dialect, game, listed, hints, stop, together>>

Delist(s) ==
  /\ At(s, "delist") /\ listed' = 0 /\ Goes(s, "leave")
  /\ UNCHANGED <<dialect, game, hints, stop, repo, lost, together>>

\* The Go loop forgets every session that ends, and one that crashed twice over.
LeaveGo(s) ==
  /\ Go /\ At(s, "leave") /\ listed' = 0
  /\ IF session[s].crashed THEN Goes(s, "report") ELSE Ends(s)
  /\ UNCHANGED <<dialect, game, hints, stop, repo, lost, together>>

\* The TypeScript loop forgets the sessions that crashed.
LeaveTS(s) ==
  /\ ~Go /\ At(s, "leave") /\ Ends(s)
  /\ listed' = IF session[s].crashed THEN 0 ELSE listed
  /\ UNCHANGED <<dialect, game, hints, stop, repo, lost, together>>

Report(s) ==
  /\ At(s, "report") /\ listed' = 0 /\ Ends(s)
  /\ UNCHANGED <<dialect, game, hints, stop, repo, lost, together>>

-----------------------------------------------------------------------------
(* The loop around the sessions, and the game.                             *)

\* #matched, or a seek answered with a game: one session for a game at a time. A hint
\* about a game with a session on the list, or after Stop, does nothing.
StartSession ==
  /\ ~Stopped /\ listed = 0
  /\ hints < Hints /\ hints' = hints + 1
  /\ Set(hints + 1, NewSession) /\ listed' = hints + 1
  /\ together' = together \cup {{t, hints + 1} : t \in {u \in Sids : Alive(u)}}
  /\ UNCHANGED <<dialect, game, stop, repo, lost>>

\* Mutant: the sessions are told to end and their games are not resigned.
ToResignNone(s) == FALSE

\* A session that plays has a game to resign.
ToResign(s) == s # 0 /\ session[s].running

\* Stop: no session plays on, and the game of one that did is resigned.
Stop ==
  /\ stop = "no"
  /\ stop' = IF ToResign(listed) THEN "resign" ELSE "done"
  /\ IF listed = 0 THEN UNCHANGED session
     ELSE Set(listed, [session[listed] EXCEPT !.running = FALSE])
  /\ UNCHANGED <<dialect, game, listed, hints, repo, lost, together>>

StopResigns ==
  /\ stop = "resign" /\ stop' = "done"
  /\ \/ UNCHANGED lost /\ game' = Resigned
     \/ Fails("resign") /\ game' \in {game, Resigned}
  /\ UNCHANGED <<dialect, session, listed, hints, repo, together>>

\* The other side moves, or the game ends: by its move, its resignation, the clock.
\* The event about it reaches the session that sleeps, or does not.
Opponent ==
  /\ ~game.over
  /\ \/ /\ ~game.mine
        /\ \E ends \in MayEnd(game.ply + 1) :
             game' = [game EXCEPT !.ply = @ + 1, !.mine = TRUE, !.over = ends]
     \/ game' = Resigned
  /\ \E told \in SUBSET {s \in Sids : At(s, "sleep")} :
       session' = [s \in Sids |-> [session[s] EXCEPT !.woken = @ \/ s \in told]]
  /\ UNCHANGED <<dialect, listed, hints, stop, repo, lost, together>>

Init ==
  /\ dialect \in {"go", "ts"}
  /\ game \in [over: {FALSE}, ply: {0}, mine: BOOLEAN, accepted: {{}}]
  /\ session = [s \in Sids |-> Unborn]
  /\ listed = 0 /\ hints = 0 /\ stop = "no"
  /\ repo = [records |-> {}, notes |-> {}, keys |-> {}]
  /\ lost = {} /\ together = {}

Step(s) ==
  \/ GameRef(s) \/ Head(s) \/ GetState(s) \/ Wake(s) \/ ChooseMove(s)
  \/ SubmitMove(s) \/ WriteMoveRecord(s) \/ MaybeExplain(s)
  \/ Cap(s) \/ Resign(s) \/ Confirm(s)
  \/ FinishSession(s) \/ PublishKey(s) \/ Delist(s) \/ LeaveGo(s) \/ LeaveTS(s) \/ Report(s)

Next == StartSession \/ Stop \/ StopResigns \/ Opponent \/ \E s \in Sids : Step(s)

Spec == Init /\ [][Next]_vars

\* Goroutines and promises run on; nobody has to be matched, to stop the loop
\* or to move against it.
FairSpec == Spec /\ WF_vars(StopResigns) /\ \A s \in Sids : WF_vars(Step(s))
-----------------------------------------------------------------------------

Pcs == {"unborn", "ref", "loop", "pull", "sleep", "choose", "submit", "record",
        "explain", "cap", "resign", "confirm", "finish", "publish", "delist",
        "leave", "report", "gone"}

Calls == {"ref", "pull", "choose", "submit", "record", "explain", "resign", "confirm",
          "publish"}

TypeOK ==
  /\ dialect \in {"go", "ts"} /\ listed \in {0} \cup Sids /\ hints \in 0..Hints
  /\ game \in [over: BOOLEAN, ply: 0..MaxPly, mine: BOOLEAN, accepted: SUBSET (1..MaxPly)]
  /\ session \in [Sids -> [pc: Pcs, running: BOOLEAN, published: BOOLEAN,
                           moves: 0..MaxPlies, iter: 0..MaxIter, ply: 0..MaxPly + 1,
                           over: BOOLEAN, crashed: BOOLEAN, woken: BOOLEAN]]
  /\ stop \in {"no", "resign", "done"} /\ lost \subseteq Calls
  /\ together \subseteq SUBSET Sids
  /\ repo \in [records: SUBSET ((1..MaxPly) \X Sids), notes: SUBSET Sids, keys: SUBSET Sids]

Guarded(s) == session[s].iter >= MaxIter

\* The key that opens the sealed notes is out only when the game is over, unless the
\* resignation at the ply cap got lost (loop.go:494 Resign, :497 finishSession).
KeyWaitsForEnd == repo.keys # {} /\ "resign" \notin lost => game.over

\* The agent's repo tells the same moves as the referee: the records are of moves it took
\* from the agent, each once unless two sessions of the game lived at the same time, and
\* it took none without a record unless a call got lost (loop.go:472 writeMoveRecord).
RecordsAreMoves ==
  /\ \A r \in repo.records : r[1] \in game.accepted
  /\ \A q, r \in repo.records : q[1] = r[1] => q = r \/ {q[2], r[2]} \in together
  /\ \A p \in game.accepted :
       \/ \E s \in Sids : <<p, s>> \in repo.records
       \/ \E s \in Sids : At(s, "record") /\ session[s].ply = p
       \/ Cancelled \/ lost \cap {"submit", "record"} # {}

\* When no call gets lost and the iteration guard is not reached, the loop leaves no
\* game to the clock, stopped or not, and a loop nobody stopped leaves no note that
\* cannot be opened (loop.go:248 Stop, :486 the ply cap).
NoGameIsLeft ==
  /\ \E s \in Sids : At(s, "gone")
  /\ \A s \in Sids : session[s].pc \in {"unborn", "gone"} /\ ~Guarded(s)
  /\ stop # "resign" /\ lost = {}
  => /\ game.over
     /\ stop = "no" => repo.notes \subseteq repo.keys

\* On its turn a session moves in the end, also when it hears of nothing and its calls
\* get lost: the safety poll is enough (loop.go:16, agent-loop.ts:13).
TurnIsServed ==
  \A s \in Sids :
    game.mine /\ ~game.over /\ Alive(s)
    ~> \/ ~game.mine \/ game.over \/ Stopped
       \/ session[s].crashed \/ Guarded(s) \/ "resign" \in lost

\* A game that is over makes its session publish the key of its notes, whoever ended it
\* and whether or not #gameFinished arrived (loop.go:14, agent-loop.ts:19).
KeyFollowsEnd ==
  \A s \in Sids :
    game.over /\ Alive(s)
    ~> \/ s \in repo.keys \/ Stopped \/ session[s].crashed
       \/ Guarded(s) \/ lost \cap {"confirm", "publish"} # {}

\* loop.go:685 "finishSession publishes content keys at game end".
KeyOnlyAtEnd == repo.keys # {} => game.over

\* An accepted move has one record (loop.go:459 "never replay").
RecordedOnce == \A q, r \in repo.records : q[1] = r[1] => q = r

\* loop.go:325 "startSession is idempotent".
OneSession == Cardinality({s \in Sids : Alive(s)}) <= 1
=============================================================================
