------------------------------ MODULE SeekPool ------------------------------
(***************************************************************************)
(* The seek pool of one pool key: match.seek and match.cancelSeek          *)
(* (internal/match/matcher.go), the pairing loop over it (loop.go), the    *)
(* registry of who is connected (presence.go) and the finish hook that     *)
(* keeps count of no-shows (loop.go OnFinish).                             *)
(*                                                                         *)
(* The loop is one goroutine; its pass is cut where it talks to the        *)
(* database and where everybody else can get in between. Ratings are those *)
(* of ProvisionalRatingSource, the only source there is.                   *)
(***************************************************************************)
EXTENDS Pairing

CONSTANTS
  Dids,            \* numbers
  Seeks,           \* seek ids, numbers in the order they are issued
  Null,
  Modes,           \* of "once" and "standing", those that agents use
  Caps,            \* values of maxConcurrent that agents use
  SeeksPerDid,     \* BOUND: seeks an agent may have
  StandingExpire,  \* Tunables.StandingExpire, in ticks
  NoShowThreshold, NoShowSuspend,
  MaxNow,          \* BOUND: the last tick
  MaxGames,        \* BOUND: games made
  MaxDials,        \* BOUND: connections opened
  MaxRestarts,     \* BOUND: restarts of the process
  MaxFailures      \* BOUND: statements of passes that fail or whose answer is lost

\* The rows of the seeks table.
Row == [did: Dids, mode: Modes, max: Caps, created: 0..MaxNow, active: BOOLEAN]

ASSUME SeekPoolAssumption ==
  /\ Dids \subseteq Nat \ {0} /\ Seeks \subseteq Nat /\ Modes \subseteq {"once", "standing"}
  /\ Caps \subseteq Nat \ {0}   \* Seek puts the default where the request has 0
  /\ SeeksPerDid \in Nat /\ StandingExpire \in Nat \ {0}
  /\ NoShowThreshold \in Nat \ {0} /\ NoShowSuspend \in Nat \ {0}
  /\ {MaxNow, MaxGames, MaxDials, MaxRestarts, MaxFailures} \subseteq Nat
  /\ IsFiniteSet(Seeks) /\ Null \notin Nat \cup Row

VARIABLES
  seeks,      \* the seeks table, Null where an id has no row
  games,      \* the games made from pairs
  lastSeat,   \* the seat_history table
  suspended,  \* the seek_suspensions table: until when, 0 for never
  noShow,     \* Matcher.noShow: streaks, in memory
  conns,      \* Presence.conns, in memory
  lastSeen,   \* Presence.lastSeen, in memory
  open,       \* the connections each agent really has
  since,      \* since when an agent has had a connection, or none; Null where it has
              \* had none since the process started
  loop,       \* the pass of the pairing loop
  missed,     \* history: <<i, s>> where seek s was to leave with game i and was not told to
  now,
  dials, restarts, failures

memory == <<noShow, conns, lastSeen>>
world == <<open, since>>
tables == <<seeks, games, lastSeat, suspended>>
bounds == <<dials, restarts, failures>>
vars == <<tables, memory, world, loop, missed, now, bounds>>

Idle == [pc |-> "idle", at |-> 0, todo |-> {}, seek |-> Null, pairs |-> <<>>]

Active == {s \in Seeks : seeks[s] # Null /\ seeks[s].active}

\* BOUND: nobody comes so late that the clock stops before he is dealt with.
EarlyEnough == now + StandingExpire + 1 < MaxNow

-----------------------------------------------------------------------------
(* The agents.                                                             *)

\* match.seek, with or without a subscription: clients dial while they post. A
\* suspension between the check and the INSERT admits the seek as if it had come earlier.
Seek(s, did) ==
  /\ seeks[s] = Null /\ \A t \in Seeks : t < s => seeks[t] # Null
  /\ Cardinality({t \in Seeks : seeks[t] # Null /\ seeks[t].did = did}) < SeeksPerDid
  /\ ~(suspended[did] > now)
  /\ \E mode \in Modes, max \in Caps :
       seeks' = [seeks EXCEPT ![s] =
         [did |-> did, mode |-> mode, max |-> max, created |-> now, active |-> TRUE]]
  /\ UNCHANGED <<games, lastSeat, suspended, memory, world, loop, missed, now, bounds>>

\* match.cancelSeek: the row is found, and is set inactive whatever it is.
CancelSeek(s) ==
  /\ seeks[s] # Null /\ seeks[s].active
  /\ seeks' = [seeks EXCEPT ![s].active = FALSE]
  /\ UNCHANGED <<games, lastSeat, suspended, memory, world, loop, missed, now, bounds>>

\* Hub.Connect and Presence.Connect.
Connect(did) ==
  /\ open[did] < 2   \* BOUND: an agent redials before its old connection is gone
  /\ dials < MaxDials /\ dials' = dials + 1 /\ EarlyEnough
  /\ open' = [open EXCEPT ![did] = @ + 1]
  /\ since' = [since EXCEPT ![did] = IF open[did] = 0 THEN now ELSE @]
  /\ conns' = [conns EXCEPT ![did] = @ + 1]
  /\ lastSeen' = [lastSeen EXCEPT ![did] = now]
  /\ UNCHANGED <<tables, noShow, loop, missed, now, restarts, failures>>

\* Mutant: one connection less is none.
ConnsAfterClosingAll(did) == 0

ConnsAfterClosing(did) == IF conns[did] > 0 THEN conns[did] - 1 ELSE 0

\* Hub.Disconnect and Presence.Disconnect.
Disconnect(did) ==
  /\ open[did] > 0 /\ MaxDials > 0 /\ EarlyEnough
  /\ open' = [open EXCEPT ![did] = @ - 1]
  /\ since' = [since EXCEPT ![did] = IF open[did] = 1 THEN now ELSE @]
  /\ conns' = [conns EXCEPT ![did] = ConnsAfterClosing(did)]
  /\ lastSeen' = [lastSeen EXCEPT ![did] = now]
  /\ UNCHANGED <<tables, noShow, loop, missed, now, bounds>>

-----------------------------------------------------------------------------
(* A pass of the loop (PairOnce).                                          *)

\* The standing seeks are listed for expireStaleStanding.
StartPass ==
  /\ loop.pc = "idle"
  /\ loop' = [Idle EXCEPT !.pc = "expire", !.at = now,
                          !.todo = {s \in Active : seeks[s].mode = "standing"}]
  /\ UNCHANGED <<tables, memory, world, missed, now, bounds>>

\* Mutant: only who was never seen is gone.
NeverSeen(did, cutoff) == conns[did] = 0 /\ lastSeen[did] = Null

GoneSince(did, cutoff) ==
  conns[did] = 0 /\ (lastSeen[did] = Null \/ lastSeen[did] < cutoff)

CheckPresence ==
  /\ loop.pc = "expire"
  /\ \E s \in loop.todo :
       loop' = IF GoneSince(seeks[s].did, loop.at - StandingExpire)
               THEN [loop EXCEPT !.pc = "deactivate", !.seek = s, !.todo = @ \ {s}]
               ELSE [loop EXCEPT !.todo = @ \ {s}]
  /\ UNCHANGED <<tables, memory, world, missed, now, bounds>>

\* A failing UPDATE leaves the seek to the next pass.
ExpireStanding ==
  /\ loop.pc = "deactivate"
  /\ \/ seeks' = [seeks EXCEPT ![loop.seek].active = FALSE] /\ UNCHANGED failures
     \/ failures < MaxFailures /\ failures' = failures + 1 /\ UNCHANGED seeks
  /\ loop' = [loop EXCEPT !.pc = "expire", !.seek = Null]
  /\ UNCHANGED <<games, lastSeat, suspended, memory, world, missed, now, dials, restarts>>

ListActive ==
  /\ loop.pc = "expire" /\ loop.todo = {}
  /\ loop' = [loop EXCEPT !.pc = "pair", !.todo = Active]
  /\ UNCHANGED <<tables, memory, world, missed, now, bounds>>

Playing(did) == {i \in DOMAIN games : games[i].active /\ did \in {games[i].first, games[i].second}}

\* CountActiveByPlayer.
ActiveGames(did) == Cardinality(Playing(did))

Candidate(s) ==
  LET did == seeks[s].did IN
  [seek |-> s, did |-> did, rating |-> 1500, provisional |-> TRUE, window |-> 200,
   max |-> seeks[s].max, active |-> ActiveGames(did), created |-> seeks[s].created,
   operator |-> 0, lastSeat |-> lastSeat[did]]

\* BOUND: pools of at most three seekers, where the cooldown does not count.
Params == [now |-> loop.at, widen |-> 50, interval |-> 30, cap |-> 800,
           cooldown |-> TRUE, distinctOperators |-> TRUE, recent |-> {}]

\* pairPool: the candidates as the tables show them now, and the pure core.
PairPool ==
  /\ loop.pc = "pair"
  /\ loop' = [loop EXCEPT !.pc = "create", !.todo = {},
       !.pairs = IF Cardinality(loop.todo) < 2 THEN <<>>
                 ELSE Pair({Candidate(s) : s \in loop.todo}, Params)]
  /\ UNCHANGED <<tables, memory, world, missed, now, bounds>>

EndPass ==
  /\ loop.pc = "create" /\ loop.pairs = <<>>
  /\ loop' = Idle
  /\ UNCHANGED <<tables, memory, world, missed, now, bounds>>

\* materializePair: the game of the next pair. The seeks' rows are only read
\* for what never changes in them.
CreateGame ==
  /\ loop.pc = "create" /\ loop.pairs # <<>>
  /\ Len(games) < MaxGames
  /\ LET pr == Head(loop.pairs) IN
     \E f \in MayMoveFirst(pr) :
       LET g == CHOOSE c \in {pr.a, pr.b} : c # f IN
       games' = Append(games, [first |-> f.did, second |-> g.did, active |-> TRUE,
                               seeks |-> {f.seek, g.seek}, at |-> now])
  /\ loop' = [loop EXCEPT !.pc = "remember"]
  /\ UNCHANGED <<seeks, lastSeat, suspended, memory, world, missed, now, bounds>>

LastGame == games[Len(games)]

\* Mutant: only the seek that picked leaves.
LeavingPicker == {Head(loop.pairs).a.seek}

\* The seeks that leave the pool with their game.
Leaving == {s \in LastGame.seeks : seeks[s].mode = "once"}

\* The once seeks in L are set inactive, the others not.
Leave(L) ==
  /\ seeks' = [s \in Seeks |-> IF s \in L THEN [seeks[s] EXCEPT !.active = FALSE] ELSE seeks[s]]
  /\ missed' = missed \cup {Len(games)} \X (Leaving \ L)

\* What is written after the game: the seats, and the once seeks that leave. Each
\* write may fail by itself; errors are logged only.
Bookkeep ==
  /\ loop.pc = "remember"
  /\ \/ /\ lastSeat' = [lastSeat EXCEPT ![LastGame.first] = First, ![LastGame.second] = Second]
        /\ Leave(Leaving) /\ UNCHANGED failures
     \/ /\ failures < MaxFailures /\ failures' = failures + 1
        /\ \E L \in SUBSET Leaving : Leave(L)
        /\ UNCHANGED lastSeat
  /\ loop' = [loop EXCEPT !.pc = "create", !.pairs = Tail(@)]
  /\ UNCHANGED <<games, suspended, memory, world, now, dials, restarts>>

\* The pass ends where it is; a game just made keeps its seeks in the pool.
Stop ==
  /\ loop' = Idle
  /\ missed' = missed \cup (IF loop.pc = "remember" THEN {Len(games)} \X Leaving ELSE {})

\* A read fails, or the creation of a game does, after it has taken effect or before.
GiveUp ==
  /\ loop.pc \in {"expire", "pair", "create", "remember"}
  /\ failures < MaxFailures /\ failures' = failures + 1
  /\ Stop
  /\ UNCHANGED <<tables, memory, world, now, dials, restarts>>

Pass == \/ StartPass \/ CheckPresence \/ ExpireStanding \/ ListActive \/ PairPool
        \/ EndPass \/ CreateGame \/ Bookkeep

-----------------------------------------------------------------------------
(* Games end; time passes; the process restarts.                           *)

IsPutUpWith(did) == noShow[did] + 1 < NoShowThreshold

\* OnFinish for a timeout of the first or the second move.
NoShow(i, loser) ==
  /\ games[i].active
  /\ loser \in {games[i].first, games[i].second}
  /\ games' = [games EXCEPT ![i].active = FALSE]
  /\ IF IsPutUpWith(loser)
     THEN noShow' = [noShow EXCEPT ![loser] = @ + 1] /\ UNCHANGED suspended
     ELSE /\ noShow' = [noShow EXCEPT ![loser] = 0]
          /\ suspended' = [suspended EXCEPT ![loser] = now + NoShowSuspend]
  /\ UNCHANGED <<seeks, lastSeat, conns, lastSeen, world, loop, missed, now, bounds>>

\* OnFinish for any other end.
Played(i) ==
  /\ games[i].active
  /\ games' = [games EXCEPT ![i].active = FALSE]
  /\ noShow' = [noShow EXCEPT ![games[i].first] = 0, ![games[i].second] = 0]
  /\ UNCHANGED <<seeks, lastSeat, suspended, conns, lastSeen, world, loop, missed, now, bounds>>

FinishGame(i) == Played(i) \/ \E did \in Dids : NoShow(i, did)

Tick == /\ now < MaxNow /\ now' = now + 1
        /\ UNCHANGED <<tables, memory, world, loop, missed, bounds>>

Restart ==
  /\ restarts < MaxRestarts /\ restarts' = restarts + 1
  /\ EarlyEnough
  /\ noShow' = [d \in Dids |-> 0] /\ conns' = [d \in Dids |-> 0]
  /\ lastSeen' = [d \in Dids |-> Null]
  /\ open' = [d \in Dids |-> 0] /\ since' = [d \in Dids |-> Null]
  /\ Stop
  /\ UNCHANGED <<tables, now, dials, failures>>

\* Some agents are connected, the others have not been there since the start.
Init ==
  /\ seeks = [s \in Seeks |-> Null] /\ games = <<>>
  /\ lastSeat = [d \in Dids |-> NoSeat] /\ suspended = [d \in Dids |-> 0]
  /\ noShow = [d \in Dids |-> 0]
  /\ \E there \in SUBSET Dids :
       /\ open = [d \in Dids |-> IF d \in there THEN 1 ELSE 0]
       /\ since = [d \in Dids |-> IF d \in there THEN 0 ELSE Null]
  /\ conns = open /\ lastSeen = since
  /\ loop = Idle /\ missed = {} /\ now = 0 /\ dials = 0 /\ restarts = 0 /\ failures = 0

Next ==
  \/ \E s \in Seeks : CancelSeek(s) \/ \E did \in Dids : Seek(s, did)
  \/ \E did \in Dids : Connect(did) \/ Disconnect(did)
  \/ Pass \/ GiveUp
  \/ \E i \in DOMAIN games : FinishGame(i)
  \/ Tick \/ Restart

Spec == Init /\ [][Next]_vars

\* The ticker fires, a pass runs on, the clock of a game runs out, time passes.
FairSpec ==
  /\ Spec /\ WF_vars(Pass) /\ WF_vars(Tick)
  /\ \A i \in 1..MaxGames : WF_vars(i \in DOMAIN games /\ FinishGame(i))

-----------------------------------------------------------------------------

TypeOK ==
  /\ \A s \in Seeks : seeks[s] # Null => seeks[s] \in Row
  /\ \A i \in DOMAIN games :
       games[i] \in [first: Dids, second: Dids, active: BOOLEAN, seeks: SUBSET Seeks,
                     at: 0..MaxNow]
  /\ lastSeat \in [Dids -> {First, Second, NoSeat}]
  /\ suspended \in [Dids -> 0..(MaxNow + NoShowSuspend)]
  /\ noShow \in [Dids -> 0..(NoShowThreshold - 1)]
  /\ conns = open
  /\ \A d \in Dids : lastSeen[d] = Null \/ lastSeen[d] \in 0..now
  /\ missed \subseteq (DOMAIN games) \X Seeks
  /\ loop.pc \in {"idle", "expire", "deactivate", "pair", "create", "remember"}
  /\ loop.todo \subseteq Seeks /\ loop.at \in 0..MaxNow /\ now \in 0..MaxNow

\* A once seek is matched again only where it was not told to leave with the game
\* before: the write was lost, with the pass or the process, also when it is cancelled
\* in the middle of a pass (loop.go:247-258; spec 9a.3 "pair me one time, then remove").
OnceSeekPlaysOnce ==
  \A s \in Seeks : seeks[s] # Null /\ seeks[s].mode = "once" =>
    \A i, j \in DOMAIN games : i < j /\ s \in games[i].seeks \cap games[j].seeks =>
      <<i, s>> \in missed

\* It is matched once whatever happens (see SeekTwice).
OnceSeekIsPairedOnce ==
  \A s \in Seeks : seeks[s] # Null /\ seeks[s].mode = "once" =>
    Cardinality({i \in DOMAIN games : s \in games[i].seeks}) <= 1

\* The running games a seek has got.
GamesOf(s) == {i \in DOMAIN games : games[i].active /\ s \in games[i].seeks}

\* No seek has more games at once than it allows, though games are counted when
\* the pairs are formed and made one by one later (loop.go:113-142).
CapIsKept ==
  \A s \in Seeks : seeks[s] # Null => Cardinality(GamesOf(s)) <= seeks[s].max

\* No agent gets more games from its seeks than any of them allows (loop.go:86 "so
\* a DID cannot exceed maxConcurrent within one tick"; see SeekOverCap).
AgentCapIsKept ==
  \A s \in Seeks : seeks[s] # Null => ActiveGames(seeks[s].did) <= seeks[s].max

\* A pass may expire a seek whose agent has had no connection since the process
\* started, or none for longer than StandingExpire when the pass began, or which came
\* or went while the pass was at it.
IsEarned(s) ==
  LET d == seeks[s].did IN
  \/ since[d] = Null
  \/ since[d] >= loop.at
  \/ open[d] = 0 /\ loop.at - since[d] > StandingExpire

\* A standing seek only expires under an agent that stayed away or never came; an
\* agent that redials keeps its seek, whichever connection closes first.
ExpiryIsEarned == [][ExpireStanding => IsEarned(loop.seek)]_vars

\* Agents that the registry has not met keep their seeks for a while too
\* (presence.go:4 "expires when its DID's connection has been closed for more than"),
\* those that dial just after they posted and those that redial after a restart.
GraceIsGiven == [][ExpireStanding => since[seeks[loop.seek].did] # Null]_vars

\* The standing seek of an agent that has gone does not stay.
GoneSeekExpires ==
  \A s \in Seeks :
    (s \in Active /\ seeks[s].mode = "standing" /\ open[seeks[s].did] = 0)
      ~> (s \notin Active \/ open[seeks[s].did] > 0)

\* A suspended agent gets no games (repo.go:837 "barred from the seek pool").
SuspendedStaysOut ==
  [][CreateGame => \A d \in Dids :
       d \in {LastGame'.first, LastGame'.second} => ~(suspended[d] > loop.at)]_vars

=============================================================================
