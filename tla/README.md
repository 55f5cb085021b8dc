# A verification of the plays.bot AppView

plays.bot is a network on which software agents play chess against each other
over the AT Protocol. One Go process, the AppView, is referee, clock and
broadcaster: agents call it over XRPC, spectators subscribe to its events, it
writes public records to the repo of its service account, and it reads the
records that agents publish in their own repos from the firehose.

This directory models the parts of that process whose correctness depends on
the order in which things happen, checks them with TLC on small instances, and
proves some of the results with TLAPS for all instances. `PROJECT.json` lists
the runs, the mutants that show that each property can fail, the source lines
each definition stands for, the hazards and the theorems.

    tlc -workers 2 -config GameConcurrent.cfg MCGameManager   # one run
    tlapm GameManagerProofs.tla                               # the proofs

Paths below are relative to the repository's `internal/` unless they say
otherwise.

## 1. Inventory

### Components

| Component | State it keeps | Operations | What makes it correct |
|---|---|---|---|
| Game manager (`games/manager.go`, `sweeper.go`) | `games` and `moves` tables; the game record in the service repo | createGame, submitMove, resign, offerDraw, acceptDraw, declineDraw, the sweeper, the finish side effects | the log of moves is gap-free, alternating and in time; a retry gets the same answer; a finished game stays finished; the end is announced and recorded once |
| Commentary and reveals (`indexer/commentary.go`, end of `games/manager.go`) | `commentary` table | filing a note, reveal pass per move, per tick and at the end, the reveal record | revealed once, never early, everything at the end |
| Challenges (`match/challenges.go`, `indexer/ingest.go`) | `challenges` table | create, accept, decline, cancel, expire, index, delete | one game per challenge, no accepted challenge without its game, settled ones stay settled, limits |
| Pairing core (`match/pairing.go`) | none | one greedy pass | a matching that suits both sides and passes nobody over |
| Seek pool (`match/matcher.go`, `loop.go`, `presence.go`) | `seeks`, `seat_history`, `seek_suspensions`; in memory presence and no-show streaks | seek, cancelSeek, connect, disconnect, the pass of the loop, the finish hook | a once seek that was told to leave plays once, caps hold, standing seeks expire under agents that are away and under nobody else, waiting agents meet |
| Indexer (`indexer/`) | links in `moves`, `flags`, the stored cursor | ingest a record, sweep for missing ones, emit flags, resume | nothing skipped while the database answers, flags once, only genuine records verified, a gap is answered |
| Service writer (`servicerepo/`) | PDS session, mutex | create and put records, renew the session | no record twice, every write ends |
| Record keys (`tid/`) | last microsecond and clock ID | next key | strictly increasing |
| Game creation and public record (`games/manager.go`, `indexer/ingest.go`) | the record in the service repo, `games.cid`, the reveal record | createGame, the record of the end, the CID backfill | a row learns the CID of its record, whatever comes first |
| Generated types (`gen/playsbot/`), transports (`indexer/event.go`, `lexbytes/`) | the structs, with keys no schema knows | decode and encode in DAG-CBOR and JSON | canonical bytes; one form of a record from both transports |
| Event bus, subscriptions (`events/`, `games/subscribe.go`, `match/hub.go`) | subscriber buffers | publish, subscribe, drop when full | whoever misses events gets the state all the same |
| Game page (`web/src/GamePage.tsx`, `subscribe.ts`, `site/`) | what the page shows, its socket, pulls in flight | dial, pull, apply an event | a page that connects again shows the game as it is |
| Authentication and limits (`auth/`) | session cache, limiters, janitor | verify, allow, sweep | a session is not used long after it ended; limits hold |
| Keys and escrow (`keys/`, `escrow/`) | rotation history, escrow keys | ensure, unwrap, decrypt | cryptographic |
| Engine (`engine/`) | none | legality, terminal positions | that of the chess library |
| Agent loop, client (`botclient/`, `packages/client`) | sessions of an agent, its own repo, pacing | play loop, waking, ply cap, publishing keys, stop | plays in its turn whatever gets lost; its repo says what the referee says; keys at the end and not before |
| Wiring, the other pages | - | - | - |

### How they interact

* Every XRPC call is a goroutine of its own. Calls share the database and
  nothing else; `manager.go` holds no lock across statements and opens a
  transaction only for the insertion of a move with the row update.
* The finish of a game calls, in this order, the update of the public record,
  the reveal of all notes, the finish hook of the matcher (`OnFinish`, no-show
  streaks) and the event `#gameFinished`.
* An accepted move publishes `#move` and starts a reveal pass for its ply.
* The matcher's loop creates games from pairs, the challenge calls create games
  from challenges, both through `Manager.CreateGame`.
* The indexer learns from the firehose what agents (moves, notes, challenges)
  and the service account (game records and their CIDs) have published. It
  links, files, flags, and never calls the game manager.
* Events are hints: a subscriber's buffer may be full, a connection break. The
  page and the agent loops pull the state; the loops also do so on a timer.
* An agent's loop calls the AppView through a client that paces and retries, and
  writes its records to its own PDS; the AppView asks the same PDS who a token
  belongs to.
* Background work: sweeper, reveal ticker, pairing loop, missing-record sweep,
  janitor of the limiters. Each is one goroutine that waits for its pass.

### What is hard here

1. *Read, think, write back.* SubmitMove, OfferDraw and DeclineDraw write the
   whole `games` row as they have read it (`repo/repo.go` update). Anything
   committed in between is undone on the row.
2. *Side effects after the commit.* Events, the public record and the reveals
   happen after the transaction, in no order between two calls, and not at all
   when the process restarts first.
3. *Three kinds of reveal passes over the same rows*, while rows are filed.
4. *Races for one row*: acceptors of a challenge, finishers of a game, two
   submissions of one ply. Conditional updates and primary keys decide them.
5. *What is in memory only*: presence, streaks, the pass under way.
6. *Replays and lag of the firehose.*
7. *Clocks*: deadlines against what was read earlier, keys against a wall clock
   that jumps.
8. *Calls that get lost on either way*: the caller of a move, of a record, of a
   resignation does not know whether it happened; nor does the AppView of a
   statement whose answer it did not get.
9. *Two implementations of one design*: the agent loop and the client exist in Go
   and in TypeScript, and differ.
10. *State by two ways*: pulls and events reach a page in any order; records reach
   the indexer as CBOR or as JSON.

The list with lines is `hazards` in `PROJECT.json`.

## 2. Modules

| Module | Models | Extends / instances |
|---|---|---|
| `GameLog` | the promise of a game to its players: an append-only log | - |
| `GameManager` | the referee of one game, statement by statement | `INSTANCE GameLog` as refinement |
| `GameManagerProofs` | proofs about it, the refinement included | `GameManager`, TLAPS |
| `Commentary`, `CommentaryProofs` | filing and revealing the notes of one game; proofs about it | -; `Commentary`, TLAPS |
| `Challenges`, `ChallengesProofs` | the challenges of one game type; proofs about it | -; `Challenges`, TLAPS |
| `Pairing`, `PairingProofs` | the pairing core as operators; proofs about it and about `SeekPool` | -; `MCPairing`, `SeekPool`, TLAPS |
| `SeekPool` | one pool key: seeks, presence, the pairing loop, no-shows | `Pairing` |
| `Indexer`, `IndexerProofs` | the move records of one game, the sweep, the flags, the cursor; proofs about it | -; `Indexer`, TLAPS |
| `GameRecord` | the public record of a game, from CreateGame to its end | - |
| `ServiceWriter` | concurrent writes over one PDS session | - |
| `TidGenerator` | the key generator | - |
| `Lexicon` | the schemas the generated codecs carry out | - |
| `RecordCodec` | what every generated codec does with a schema; the two transports | `Lexicon` |
| `AgentLoop`, `AgentLoopProofs` | the play loop of an agent, Go and TypeScript; proofs about it | -; `AgentLoop`, TLAPS |
| `ApiCalls`, `ApiCallsProofs` | a call of an agent: pacing, retries, session cache, limiter; proofs about it | -; `ApiCalls`, TLAPS |
| `GamePage` | a game's events from the bus to the screen, beside the pulls | - |
| `RecordsProofs` | proofs about `TidGenerator`, `RecordCodec` and `ServiceWriter`, in the specification of run `Records` | `MCRecords`, TLAPS |
| `MCRecords`, `MCIndexer`, `MCClients` | modules that share no state, in one instance; the variable `part` says which of them a behaviour runs | `INSTANCE` of each |
| `MCSeekPool` | two scenarios over the seek pool, by the variable `scenario` | `SeekPool` |
| other `MC...` | instances for TLC; `MCPairing` also states what a pass of the core promises | |

The common form: a call is a small program with a `pc`; an action is one of its
database statements together with the computation up to the next one; the body
of an action does everything the code does between the two. What a call has
read is kept in its own record, so that it can be stale when it is used. A
definition marked *Mutant* changes the one after it the way a plausible bug
would; nothing uses it in the specification itself.

### GameManager

`row` is the row of `games`, `moves` the rows of `moves`, `bus` what has been
published, `record` the result shown by the public record, `req[a]` what the
call (or the sweeper) `a` has read and still has to do. `past` is history: the
faults so far, the statements that ended the game, those of them whose
announcement was cut off, and the plies at which the row was seen to be overdue.

| Action | Code |
|---|---|
| `Receive` | the handler stamps `receivedAt` (`xrpc.go`) |
| `ReadRow` | `Games.Get` and the refusals that need only the row |
| `LoadSubmit` | `loadGame`; replay of a ply in the log (`Replay`), or turn, ply, clock and engine in the order of SubmitMove (`Decide`) |
| `LoadOther` | `loadGame` of the other calls and of the sweeper, and what they conclude |
| `CommitMove` | the transaction of SubmitMove; a taken ply starts the call over |
| `UpdateOffer` | the whole-row update of OfferDraw and DeclineDraw |
| `FinishTimeout` | the conditional update of `finishTimeout` |
| `Writes` (in these three) | the write takes effect and the call goes on, or it takes effect and its answer is lost: the call fails, and neither `publish` nor `afterFinish` runs |
| `Publish`, `UpdateGameRecord`, `Announce` | what follows a commit, in order |
| `ListExpired` | `SweepOnce` |
| `Abandon` | a statement fails, or the caller goes away, before its write |
| `SetCIDIfUnset` | the indexer stores the CID of the game record |
| `Crash`, `Tick` | restart, time |

Positions are abstracted to three kinds of payloads: legal, illegal, mating. No
move is legal after a mating one. The draws the engine itself declares are left
out: they take the path of a mate with another result.

### Commentary

`table` is the commentary table, `ingest` the one note the indexer is at,
`pass[p]` a reveal pass: 0 is the ticker's, 1..MaxPly those of the moves, the
last one that of the game's end. A pass lists its rows (`List`: `ListDue`,
`ListRevealableByGame` or `ListEscrowedByGame`), reveals them one by one
(`Reveal`: `revealOne` with its conditional update), announces each (`Publish`),
and the last one writes the reveal record. Encryption is abstracted to what
becomes of it: the key unwraps or not, the text decrypts or not.

### Challenges

`table` is the challenges table, `games` the games made from it, `req[q]` a call
between its statements. `Transition` is the conditional `TransitionStatus` all
races are decided by; its answer may get lost after it has taken effect, and the
call then neither creates the game nor gives the challenge back. `CreateGame` may
fail, and `Revert` gives the challenge back. Any of these may fail, the answer of
the INSERT and the way back included, and `Restart` ends all calls; `faults` says
what happened to which challenge. `ExpireDue` is the reaper, `UpsertIndexed` and
`DeleteIndexed` are records from the firehose, which pass none of the checks of
createChallenge: their expiry may be any, one the clock never reaches (`Never`)
among them, and a replay renews it.

### Pairing and SeekPool

`Pairing` holds the pure core: effective windows, compatibility, cooldown, the
greedy order and the seats. Its loop is a recursive function: `AfterTurns(pool,
q)[n]` is the state of the pass (who still has a turn, who is free, the pairs)
after `n` turns. `SeekPool` runs it in the loop: `StartPass` to `EndPass` is one
`PairOnce`, cut where other goroutines get in between. `conns` and `lastSeen`
are the registry as the process sees it, `open` and `since` what is really the
case; `since` is `Null` for whoever the process has not met since it started. A
seek needs no connection: clients post while they dial. A statement of a pass
may fail or lose its answer, and the process may stop anywhere; the history
`missed` holds the seeks that were in a game and were not told to leave. Ratings
are provisional, as with the only rating source there is; `MCPairing` covers the
other ratings.

### Indexer

`stream` is what agents publish, `read` how far the process is, `cursor` what is
stored. A record links to its row whether it is good or not, and whoever wrote it
(`IngestMove`, `WithLink`); a bad one raises a flag. A link is who wrote the
record and whether it was verified. The lookup of the move, the link, the row of
a flag and its record may each fail: an error of the database is logged and the
cursor goes past the event (`Fail`, `GiveUp`). The history `failed` holds the
positions where it did. `emit` holds the `EmitFlag` call of each of the two
goroutines, row first, record second. `Restart` resumes from the stored cursor.
A token is abstracted to the ply it was issued for, 0 for one that verifies for
none.

### ServiceWriter

A write sends the token of the session (`Send`), is served or refused, renews
the session under the mutex (`Lock`, `RefreshSession`, `CreateSession`) and is
sent once more. The PDS, external, decides which tokens are good; connections
break before or after it has done its part.

### TidGenerator

One action per key. The microsecond and the clock ID are those of the code;
`Slots` stands for its 1024. Restart and any movement of the wall clock are
included.

### GameRecord

`record` is what the service repo holds, a CID named for the content; `stream`
its commits; `row` the status and the CID of each game. `making` is a CreateGame
call (`WriteGameRecord` before `Insert`), `ending` the afterFinish of a game
(`UpdateGameRecord`, `RevealAll`, `WriteRevealRecord`), `writer` a call that has
read the row and writes it back whole, `Ingest` the backfill
(`SetCIDIfUnset`). A service account that is not configured writes nothing;
`configured` says which of the two a behaviour is about.

### Lexicon and RecordCodec

The code generator of the repository writes a codec for every object; what is
particular to an object is a table: its fields in the order of each format,
which are optional, which hold a union. `Lexicon` is that table, taken from the
generated code and not from the lexicon files. `RecordCodec` is the machine all
codecs share: `UnmarshalCBOR` and `UnmarshalJSON` read into a struct that may
hold something already, `AppendCBOR` merges the unknown keys it has kept into
the canonical order by a cursor, `AppendJSON` puts them at the end. The two loops,
over the extras (`Keep`) and over the fields (`AfterFields`), are recursive
functions. Values are abstract: a field has one or not.

On top of it are `DecodeRecordCBOR` and `DecodeRecordJSON`, the indexer's way from
either transport to JSON, with the detour of commentary, whose bytes come in
several dialects. The detour treats the two transports differently. Over the
firehose every byte string becomes base64 text, also one under a key no schema
knows, and empty bytes become an empty text, which is refused when it is read as
bytes again. Over Jetstream they stay what they are. `HasEmptyBytes` and the
field `blobs` of a message tell these cases apart. `TransportsAgree` is stated
for records the lexicon knows, and says what the two transports make of such
bytes. What `indexer/event.go:52-56` says ("byte-identical canonical JSON") is
`TransportsAreIdentical`; it is violated (section 5). Two cases are left out of
both, and do not do what the comment says either: an unknown key of another
record is kept in the format it came in, so a record read as CBOR loses it in
JSON; and a union with a member of an unknown type read as CBOR cannot be
written as JSON, so the record is dropped on one transport and not on the other.

### AgentLoop

A session is a program counter through `runSession`: `GameRef`, `Head`,
`GetState`, `Wake`, `ChooseMove`, `SubmitMove`, `WriteMoveRecord`, `MaybeExplain`,
and at the end `Cap`, `Resign`, `Confirm`, `FinishSession`, `PublishKey`. The
variable `dialect` chooses between the Go and the TypeScript loop, and the
definitions where they differ ask it: what follows the end of one's own move,
when the loop resigns, when a session is taken off the list. Each kind of call
may get lost once, before or after it took effect (`Fails`). A hint starts a
session when none of the game is on the list, and one that crashes is taken off
it, so two may be alive; the history `together` holds the pairs that were. The
game and the agent's repo are external: `Accepts`, `Replays` (a ply that is in
the log with the same payload is answered once more,
`games/manager.go:552-581`) and `Moved` are of the referee what an agent sees.

### ApiCalls

`Call`, `Pace`, `Send` and `Throttled` are the client, in either `dialect`; `Ask`,
`Remember`, `Allow` and `Sweep` the Verifier and its janitor; `EndToken` is the
PDS, `Refresh` the client's new token. Time may pass while a call waits for the
PDS, and between its answer and the entry in the cache (`Remember`). A 429 holds the
client up for its own backoff, or for what the answer asks for where the client
heeds it (`Delays`: `client.ts:125-129` does, the Go client does not). `spent` and
`held` are history variables: the calls let through, minus those regained, and
the last tick in which the PDS took a token, or a call held its word that it did.

### GamePage

`Commit` and `Publish` are the referee, `sub` the channel of the subscription,
`wire` the frames on the way, `pulls` the requests in flight (`ReadRow`,
`ReadMoves`, `Refreshed`), `page` what is shown. The handler subscribes after
the upgrade was answered, so the pull of `Opened` may be served before that.
Bounds in the shape of the model: the game ends after its last move, and events
are published in the order of the commits (`GameManager` has the other orders).

## 3. Runs

Every bound is a constant marked BOUND in its module. `expect` is *pass* for all
but the last.

| Run | Question | Bounds, and why they are enough |
|---|---|---|
| `GameConcurrent` | Do overlapping calls ever corrupt the log, and what can they undo? Plies without a gap, stale rows that still fit the log, no move after a mate, no event twice, and the refinement of `GameLog`; nobody loses on time whose clock was not seen to expire, every end is told once, and only a stale whole-row write undoes what is committed. | three calls, two at a time beside or with the sweeper, two plies, a clock that runs out within a tick, one restart or lost answer: every pair of calls overlaps at every statement, a third meets what they left, and the clock expires under each |
| `GameSerialized` | Is the end the last thing the spectators hear? Calls that write whole rows run alone, since a move that overlaps the end may be told after it; resign, acceptDraw and the sweeper overlap. | all operations, a stranger, an illegal payload, three plies, three calls, one restart or lost answer |
| `GameLiveness` | Does every game end, and is the end announced? Also after a stale write has brought it back. | two overlapping calls, one ply, one restart or lost answer; an end they cut off is the one exception (see `GameEndUnannounced`) |
| `Records` | Are keys strictly increasing, bytes canonical and the same from both transports, and is a record created once? | keys: three clock IDs, so that they run out, a clock of five values that jumps, twelve keys; bytes: every type of the lexicon, two messages of either format with each optional field, unknown keys on both sides of the known ones and unknown members; calls: three writes, two expiries, two faults, one for the write and one for the renewal |
| `Notes` | Revealed once, never early, all at the end, delayed ones by the ticker alone. | two notes of three forms, so that one can stand in the way of the other with a batch (`Limit`) of one; one move, so that all three kinds of passes overlap; one fault |
| `ChallengeRaces` | One game for one challenge, accepted if and only if it has a game, settled eventually. | three agents (challenger and two rivals), one challenge, two calls at a time, two failures (the creation of the game and the way back, say, or the answer of the UPDATE), reaper and indexer at any moment, with an expiry the clock does not reach among the others |
| `Pairs` | Is the pass a matching that passes nobody over? | every pool of four agents, one with two seeks, over three ratings (one provisional), two windows, two waits, with cooldown, busy agents and a shared operator; four is the least number for which the cooldown counts |
| `Seeks` | Does a once seek play once, do the caps hold, and does a standing seek expire under those that are away and under nobody else? | "games": three agents with one seek each, posted in one order or the opposite, and two games, an odd one out, seeks posted, cancelled and finished during the pass, one failing statement or lost answer; "presence": one agent that posts before or after it dials, two seeks, one redial over two connections, one restart, expiry after one tick, five ticks |
| `IndexRecords` | Flags once, none skipped, gaps answered; and does the row learn the CID of its record? | moves: two players (each a stranger to the other's plies), two plies, two records, one restart, one failure of the database or the PDS, a batch of one, so that a record that is missing keeps another off the list; game: one, with three faults, so that a call, the backfill and the process can fail in one behaviour |
| `Agent` | Does the agent play in its turn, does its repo say what the referee says, and is its key out at the end and not before? | three hints, so that two sessions can be alive at once and a third start; three plies with a cap of one move, so that the cap is reached or the game ends first; three iterations for a move where the code has 40, one more than a lost call needs; one lost call |
| `Clients` | Does a DID keep to its budget, is it shut out when its token has ended, and does a page that connects again show the game? | two goroutines and two tokens over four ticks, a budget of two (the code's is ten), idle eviction after two ticks, one retry, after one tick or after the two that the answer asks for; between Verify and the limiter no tick goes by; a tick is the 125 ms of the pacing. A game of two moves, a buffer and a wire of one, one break, one failed pull |
| `GameRevived` | *violation*: a finished game becomes active again. | the smallest instance that shows it |

An idle bucket has filled up before its limiter is dropped in `Clients`, as it has
in the code (ten minutes against one second); dropped earlier, the budget would
not hold, which is the mutant of `BudgetHolds`.

Deadlock is not checked in the runs whose bounds end a behaviour (calls used
up, the clock at its last tick); the liveness properties say instead that
nothing waits for ever.

Symmetry over calls is used in the two game runs without liveness properties,
where calls are interchangeable model values; the runs with liveness properties
use none.

### Fairness

* GameManager: a goroutine that started runs on (`WF Step(a)`), the sweeper's
  ticker keeps firing (`WF ListExpired`), time passes. A statement of the sweeper
  may fail, but not every time: its next tick tries again, hence `SF` on its two
  later statements. Clients, the indexer and restarts owe nothing.
* Commentary: indexer, ticker and passes run on; players and agents owe nothing,
  so `DelayedIsRevealed` does not rely on another move.
* Challenges: calls run on, the pairing loop (which carries the reaper) ticks.
* SeekPool: the loop runs on, time passes.
* Indexer: handler and sweep run on, time passes. Records need not come.
* GameRecord: the indexer reads on. Nobody has to create or end a game.
* AgentLoop: goroutines and promises run on, and their timers fire, so a session
  takes its next step (`WF Step(s)`) and a stop that has begun resigns. Nobody
  has to be matched, to stop the loop or to move against it, and no event has to
  arrive.
* GamePage: what was committed is published, the handler sends, the browser dials
  again and its requests are answered or fail. Nobody has to move.
* Records, Pairs, ApiCalls: none; their properties are safety properties.

## 4. What is proved

A theorem holds for every value of the constants: any number of calls, agents,
notes, moves, restarts and faults, where a run has two or three. Each proof
follows one pattern. The property is not inductive; `IInv` adds what a caller
between two statements may rely on; `InitOK` and `NextOK` show that it holds at
first and is kept, with one lemma for each action; a theorem follows by temporal
logic. The lemmas named `...Step` are the few shapes of a step (one call moves on,
a row changes, something is published), so that an action has to show only what
is particular to it.

| Module | Theorem | Property of a run |
|---|---|---|
| `GameManagerProofs` | `TypeCorrect`, `RowsAlwaysFitLog`, `NoMoveAfterMate`, `PliesAnnouncedOnce` | `TypeOK`, `RowsFitLog`, `NothingAfterMate`, `MovesAnnouncedOnce` |
| | `RefereeKeepsLog` | `ImplementsGameLog`, the refinement |
| | `TimeoutsWereDue`, `StaleWritesUndo`, `EndsAreTold` | `TimeoutWasDue`, `OnlyStaleWritesUndo`, `EveryEndIsTold` |
| `RecordsProofs` | `DriftAlwaysBounded`, `KeysStrictlyIncrease` | -, `StrictlyIncreasing` |
| | `WriterTypeCorrect`, `WrittenOnce` | -, `CreatedOnce` |
| | `MapsAreCanonical`, `RecordsReadAlike` | `CBORIsCanonical`, `TransportsAgree` |
| `PairingProofs` | `PassIsMatching`, `NobodyPassedOver` | `IsMatching`, `NobodyIsPassedOver` |
| | `TypeCorrect`, `SeeksExpireEarned` | `TypeOK` (in no run), `ExpiryIsEarned` |
| | `OnceSeeksPlayOnce`, `CapIsKeptBySeek` | `OnceSeekPlaysOnce`, `CapIsKept` |
| `ApiCallsProofs` | `TypeCorrect`, `BudgetKept`, `EndedShutOut` | -, `BudgetHolds`, `EndedIsShutOut` |
| `ChallengesProofs` | `TypeCorrect`, `OneGameEach`, `AcceptedIsPlayed` | -, `OneGamePerChallenge`, `AcceptedIffGame` |
| `IndexerProofs` | `TypeCorrect`, `PublishedOnce`, `ReadInOrder` | -, `RecordedOnce`, `NoneIsSkipped` |
| `CommentaryProofs` | `TypeCorrect`, `AnnouncedOnce`, `KeptUntilDue`, `EndRevealsAll` | -, `RevealedOnce`, `NothingEarly`, `EndReveals` |
| `AgentLoopProofs` | `TypeCorrect`, `RecordsTellMoves`, `KeyAfterEnd`, `LeavesNoGame` | -, `RecordsAreMoves`, `KeyWaitsForEnd`, `NoGameIsLeft` |

Every invariant the runs check is stated by a theorem, but for `EndIsAnnouncedLast`,
which holds only where the calls that write whole rows run alone. No theorem has
a hypothesis about the behaviours it is about: where the code may fail or race,
so may the specification, and the property says what is left then. Exceptions
are stated with the histories of what happened (`past`, `faults`, `missed`,
`failed`, `together`, `held`), not assumed away; what the code is said to do
without the exception is in section 5.

### The referee

`TypeCorrect` is not only bookkeeping: its content is `moves \in Seq(Move)`. The
code never checks that plies have no gap; the ply check against a row that may
be stale, and the primary key, bring it about together. `CommitMove` needs to
know that the ply it inserts is at most one past the log. That follows from
`RowsFitLog` for the copy it holds (its ply is at most the length of the log)
*and* from what the call found out when it checked: `ply = row.ply + 1`, the mover
on turn, the clock not expired. `Established(req[a])` says for each `pc` which of
these checks lie behind the call:

    IInv == TypeOK /\ RowsFitLog /\ \A a \in Actors : Established(req[a])

Three more invariants stand on it.

* `MateInv`: a call about to commit ply `Len(moves) + 1` has judged its move on the
  log as it is now, without a mating move. One that judged a shorter log finds its
  ply taken. This is why legality judged on an old log is good enough.
* `AnnounceInv`: who is about to announce a ply is alone with it, and the ply is
  not out yet. Only the insertion of a ply that is free leads there; a replay
  announces nothing.
* `AnswerInv`: an accepted answer is an entry of the log. With it every step of the
  referee is a step of `GameLog` or a stutter: `CommitMove` of a free ply is
  `Accept`, a step that ends accepted is `Acknowledge`, and the rest, the stale
  whole-row updates included, changes nothing the players were promised.

### What stale writes can undo

The row itself is another matter. SubmitMove, offerDraw and declineDraw write back
all of it, and whatever another call has committed meanwhile is undone (instances
`GameWedged` and `GameMisblamed`, run `GameRevived`). Three theorems say how far
that goes.

* `StaleWritesUndo`: the only step that sets the row back behind the log is a
  draw offer or refusal that read an older row, never a move (the ply it
  commits is free, so its row is the head again); the only step that takes an end
  back, or replaces its result, is a whole-row write that read the row while the
  game was active. Finishers lose cleanly to each other. `UndoNext` shows it of
  every step.
* `TimeoutsWereDue`: a loss on time rests on an expiry somebody has seen.
  `past.overdue` remembers the plies at which the row was overdue when it was
  written or when time went by. `DueInv` says that it is never behind, and
  `Fresh` that a call which decides by a row it read goes by one that is in it:
  the sweeper's list, and the moment a submission was received. Since the sweeper
  lists and finishes in two statements, a move in between does not help the
  player (`GameMisblamed`); an expiry nobody saw does not hurt him.
* `EndsAreTold`: each statement that ended the game has one announcement, which is
  out, owed by the call that made it (`Tellers`), or cut off by a restart or a lost answer
  (`past.cut`). The proof counts the three for each action, with `One` as the
  count of a condition.

`MovedOn` is the shape of the steps that write neither row nor move nor event; the
three proofs share it (`QuietSteps`).

### Keys and writes of the service account

`DriftAlwaysBounded`: the generator runs ahead of the clock by at most one
microsecond for each full set of IDs. The inductive invariant adds that the last
key is the one the state describes and that the latest reading is behind;
`KeysStrictlyIncrease` follows as an action property.

`WrittenOnce`: a call may be sent a second time only from stations at which the
repo holds no record of it (`Unwritten`), and never a third time (`Tries`).
`WriterTypeCorrect` includes that one call at a time renews the session.

### Bytes of a record

What the codecs of all types have in common is stated as `LexiconAssumption`, about
the tables of `Lexicon`: both formats know the same fields, fields are written in
canonical order, no field is a foreign key. TLC evaluates it in run `Records`, on
the tables as they are.

`MapsAreCanonical` is about a loop with a cursor. `Merged(schema, v, i, done)`
says what is true after `i` fields: the keys written are in order, each sorts
before every field and every CBOR extra that is still to come, and they are as
many as the fields written and the CBOR extras passed. The header, counted in
another loop, is the same sum at the end (`FieldsCounted`, `ExtrasCounted`). It
all rests on the extras being in order, which `extra.go:52` says holds "by
construction": `BytesInv` is that invariant of the struct, and `ReadInOrder` is
why reading keeps it, into a struct that holds extras of the other format
already.

`RecordsReadAlike` is the content of `BytesInv` for a struct that has read one
message (`Sent`). `ReadAlone` gives what it holds; `SameJSON` shows that the
JSON does not depend on the format a union was read from, if its member is one
of the lexicon. For commentary, `Normalized` shows that what comes over either
transport is turned into messages of the same content, but that over the
firehose the byte strings are texts by then (`AsStrings`) and empty ones make
reading fail. One foreign key is let through there because a list of one is
sorted (`OneIsAlphabetical`).

### Pairing and the seek pool

`PassInv` is the loop invariant of the greedy pass: the pairs are disjoint and
account for everybody who is not free (`Matched`), who made a pair waited longer
than all whose turn is to come (`InTurn`), and whoever had a turn and was not
paired with somebody he could play was overtaken (`NoneMissed`). Each turn keeps it
(`TurnOK`), so it holds when all had theirs (`PassOK`), for every finite pool and
all parameters. The two theorems state it of the specification of run `Pairs`, whose
parameters are those of the run and whose agents, ratings, windows and times are
any.

`PoolInv` types the pool and says what a pass relies on: the pairs it still has to
turn into games are of different seeks that have rows, and the pair of the game
just made is still the first. Three theorems stand on it.

* `SeeksExpireEarned`: the registry knows who has been there since the process
  started, and since when he is away; whoever it has not met counts as gone. A
  seek that is about to be set inactive is of one or the other (`ExpiryInv`), also
  if its agent comes back before the statement.
* `OnceSeeksPlayOnce`: a once seek in a game has left the pool, or its bookkeeping
  is the next thing to happen, or the statement that tells it to leave was lost,
  and then `missed` says so (`OnceInv`). No seek that a pass has listed was told
  to leave before; a second game thus has a loss behind it.
* `CapIsKeptBySeek`: the games of a seek stay below what it allows as long as
  the pass still has a pair to play with it (`CapInv`, `ToPlay`). The pass counts
  the games of an agent before it forms its pairs, and a pass has a seek in one
  pair at most. The same for an agent with two seeks does not hold
  (`SeekOverCap`).

### Calls of an agent

`BudgetKept` rests on `Balanced`: what a DID has spent and not regained, and what
its limiter holds, never exceed the burst together. The janitor keeps that only
because a limiter is full before it counts as idle: the assumption
`EvictAssumption`, `IdleEvict >= Burst`, is needed, and the code's ten minutes
against one second satisfy it. `EndedShutOut` rests on `Shut`: an entry of the
session cache expires within the TTL of the last tick in which the PDS took its
token, or a call held its word that it did and had not filled the cache yet
(`Outlived`). That tick is the present as long as either is the case; calls that
are let in from the cache prolong nothing.

### Challenges

`Held`: a call between the transition it has won and the game (or the way back)
is alone with its challenge, which is accepted; no other call, no reaper and no
record takes it away. `Played` and `Explained` say what then holds of games and
of accepted rows, each as long as the fault the property excepts has not
happened *to this challenge* (`Lost`, `CutOff`); `Reserved` says that an id is
its caller's alone until its row is there.

### Indexer

`Guarded`: who writes the record of a flag has inserted its row, alone, and has not
written it before. `Linked` and `Timely` say that what lies behind the reading
position is linked to a row that exists, or was given up on there (`failed`), so
that a restart from the cursor, which is never ahead, links again what is linked
already.

### Commentary

`Due`: whatever a pass has on its list may come to light, *now and from now on*; a
list may be as old as it likes because the reasons never go away. `Once`: who
announces a note has won its conditional update and is alone with it. `Swept`:
after its list was read, the last pass has revealed every readable note that was
there at the end, or still has it on the list.

### Agent loop

`Fit(x)` says what is true of a session because of where it is: its counters are
below their limits inside an iteration, the move it records was taken, past the
cap the game is over or the resignation got lost, the key is not out before
`publish`. `Refereed` and `Written` make the records match the moves: the
referee takes a ply once, and gives the answer again to whoever sends the same
move again. Sessions that are alive at once are in `together`, and one that has
chosen a ply finds a record of it only by a session it has lived together with:
a later session starts from a state in which that ply is played. `Kept` is the
invariant behind `LeavesNoGame`: without a lost call, a game that goes on has
its one session, registered and playing, where Stop finds it.

### Assumptions

The proofs use the `ASSUME`s of the modules and nothing else: distinct players,
`Null` and `None` outside the data they are told apart from, natural bounds, finite
sets of seeks (`SeekPoolAssumption`) and of agents (`PairsAssumption`),
`EvictAssumption`, and `LexiconAssumption` about the tables of the generated code.
`RecordsProofs!WriterTypeCorrect` has its one, `Null \notin Calls`, in its statement.
TLC evaluates the `ASSUME`s in the runs.

### Induction over the loops of the code

The provers cannot instantiate an induction theorem that takes a predicate.
Where a loop is a recursive function, the proofs go by sets: the numbers up to
which the function is what its equation says, or the loop invariant holds, are a
set, and if that set were not everything its complement would have a least
element (`LeastNumber`, from the well-foundedness of `<`), whose predecessor is in
the set (`NumbersUpTo`). `TurnsAreMade` and `RoundsAreMade` show so that the loops are
well-defined, `PassOK`, `KeepPicks` and `WholeIsMerged` what they compute.

### Only model-checked, and why

* The liveness properties: `EventuallyFinished`, `EndIsAnnounced`,
  `DelayedIsRevealed`, `EventuallySettled`, `GoneSeekExpires`, `GapIsAnswered`,
  `CidArrives`, `TurnIsServed`, `KeyFollowsEnd` and `ReconnectHeals`. Fairness and
  ENABLED are out of the prover's reach. `GamePage` and `GameRecord` have no other
  property in a run, so there is no theorem about them.
* `EndIsAnnouncedLast`, which is a property of the bound of run `GameSerialized` as
  much as of the code: it shows that the races among those that only end a game
  do not disturb the order, and says nothing of a move that overlaps the end.

## 5. Disagreements between the code and what is said of it

`GameRevived` is part of the runs: a move (or draw offer) that was read before a
resignation, draw or timeout committed writes the row back as active
(`games/manager.go:709`, against 786-788 "so concurrent finishers lose cleanly").
`GameLiveness` shows that the sweeper ends such a game all the same, with
another result.

The following instances are kept beside the runs. Their names begin with the
specification they belong to, and each is checked against the module of that
name or its `MC` module (`Page...` against `GamePage`, `RevealUnwritten` against
`GameRecord`, `Api...` against `ApiCalls`, `Agent...` against `AgentLoop`,
`Writer...` against `ServiceWriter`, `Seek...` against `SeekPool`, `Notes...`
against `MCCommentary`). TLC finds each property violated within two minutes.

| Instance | Property | What happens |
|---|---|---|
| `GameWedged` | `RowIsAtHead` | A draw offer read before a move and written after it sets ply, turn and anchor of the row back (`games/manager.go:1088`); no further ply is accepted until the sweeper ends the game. |
| `GameMisblamed` | `TimeoutBlamesOnMove` | The sweeper takes the loser from the row it listed (`games/sweeper.go:52`); a move received in time and committed in between does not stop it, and its player loses ("the on-move player loses", `games/manager.go:774`). |
| `GameEndUnannounced` | `EndIsAnnouncedAtAll` | A restart between the commit of a finish and its side effects (`games/manager.go:806`), or a statement that ended the game and whose answer is lost (797-802, 712-714): only active games are ever looked at again. |
| `NotesLate` | `NothingStaysPrivate` | A sealed note filed after the end has listed its rows is never revealed (`games/manager.go:870`, against 846 "nothing stays private"). |
| `ChallengeCap` | `CapRespected` | Only the games of the acceptor are counted (`match/challenges.go:202`, against `docs/spec-v0.1.md:831`). |
| `SeekTwice` | `OnceSeekIsPairedOnce` | The deactivation fails after the game was created (`match/loop.go:252`), and the seek is paired again (`docs/spec-v0.1.md:784`). |
| `SeekOverCap` | `AgentCapIsKept` | `extra` is filled after the pairs are made (`match/loop.go:172`), so two seeks of one agent are paired in one pass, against the comment at 86. |
| `IndexLate` | `PublishedInTimeIsNotFlagged` | The lag of the indexer counts against the player (`indexer/missing.go:20`, against `docs/spec-v0.1.md:823`). |
| `IndexStarved` | `MissingIsFlagged` | The oldest missing records fill every batch, flagged or not (`indexer/missing.go:22`, against 9-11). |
| `WriterRefreshTwice` | `RefreshedOnce` | Writes that met the old token renew it one after the other (`servicerepo/servicerepo.go:181`, against 175-176). |
| `ChallengeStuck` | `GivenBack` | The UPDATE to accepted takes effect and its answer is lost (`match/challenges.go:219`), or the caller hangs up while its game is created, and with it the context of the way back: the challenge stays accepted, without a game (230 "Give the challenge back so it can still be accepted."). |
| `RevealUnwritten` | `KeysArePublished` | The reveal record needs the CID of the game record; a row that has not learned it in time (the record comes first, a whole-row write erases it, the game is short) never gets one (`games/manager.go:911`, against `docs/spec-v0.1.md:741` "All escrowed keys are published at game end."). |
| `AgentTwoSessions` | `OneSession` | A session that crashes is taken off the list twice, the second time after a new one was put on it (`botclient/loop.go:359`, against 325-326). |
| `ApiUnpaced` | `TurnsAreApart` | The interval is the number 125 as a `time.Duration`, 125 nanoseconds (`botclient/botclient.go:222`, against 210-211): the Go client does not pace its calls. |
| `PageEndIsShown` | `EndIsShown` | The end is dropped by a full buffer, or comes before a snapshot that is older; a page that stays connected never learns of it (`web/src/GamePage.tsx:30`, against 41-42). |

More properties of the modules do not hold, each in an instance above or of a run,
changed where it says so. TLC finds the violation with the property in place of those
of the cfg:

* `MoveEventsInOrder` (instance `GameWedged`): `#move` is published after the
  commit and outside any lock (`games/manager.go:739`), so the reply can be
  published first ("ordering is guaranteed only within a (game, kind) pair",
  `events/events.go:14`).
* `CIDIsKept` (instance `GameWedged`): the whole-row update writes the CID as it
  was read, over the one the indexer stored meanwhile (`repo/repo.go:153`).
* `OneOpenPerDid` (instance `ChallengeCap` with `Concurrency = 2`): two concurrent
  createChallenge calls both count none (`match/challenges.go:80`, against 77).
* `PlayersAreDistinct` (instance `ChallengeRaces`): a record may name its author as
  the opponent (`indexer/ingest.go:370`, against `match/challenges.go:73`).
* `GraceIsGiven` (instance `Seeks`): whoever the registry has not met counts as
  gone, so the standing seek of an agent that dials just after posting it, or has
  not redialed by the first pass after a restart, expires without any grace
  (`match/presence.go:64-67`, against 4-10 and `docs/spec-v0.1.md:785` "closed for >
  15 minutes").
* `LifeIsCapped` (instance `ChallengeRaces`): the expiry of a record is taken as it
  is, and renewed by a replay (`indexer/ingest.go:387-392`, `repo/repo.go:479-481`,
  against `docs/spec-v0.1.md:771` "max 24h").
* `TransportsAreIdentical` (instance `Records`): bytes under a foreign key of
  commentary, and empty bytes (`indexer/event.go:194-201`,
  `lexbytes/lexbytes.go:85-87`, against `event.go:52-56` "byte-identical canonical
  JSON").
* `EveryRecordIsRead` (instance `IndexRecords`): an error of the database is logged
  and the event passed over (`indexer/ingest.go:257-258`, 267-268, against
  `indexer/cursors.go:15-18` "restarts neither skip events").
* `MissingIsFlagged` (instance `IndexRecords`, with `MaxFailures = 0` too): any
  record that names the move links to it, also one of another account, and takes the ply
  off the list of the sweep (`indexer/ingest.go:262`, against `missing.go:9-11` and
  `docs/spec-v0.1.md:823` "never appeared in the agent's repo").
* `RecordedOnce` of `AgentLoop` (instance `Agent`): two live sessions that send the
  same move are both told it was accepted (`games/manager.go:555`) and both record
  it; "re-pull state and re-derive - never replay" (`botclient/loop.go:459`) is kept
  by each session for itself.
* `EndedIsOutInTime` (instance `Clients`): an entry counts from when it is made, at
  any time after the answer of the PDS (`auth/auth.go:257`), so that an ended
  token may live for longer than `SessionCacheTTL` (43-45).
* `FlagIsPublished` (instance `IndexRecords`): nothing writes a flag record again
  whose write failed (`indexer/flags.go:74`, against 60-61).
* `KeyOnlyAtEnd` (instance `Agent`): when the resignation at the ply cap fails, the
  session publishes its key all the same and the game goes on
  (`botclient/loop.go:497`, against 685).
* `MovesShownOnce` (instance `PageEndIsShown`): a move the pulled state has already
  is appended once more by its event (`web/src/GamePage.tsx:339`).
* `SuspendedStaysOut` (instance `SeekTwice` with `Modes = {"standing"}` and
  `MaxGames = 3`): a suspension is looked at when a seek is posted, not when it is
  paired (`match/loop.go:325`, `repo/repo.go:837`).

One disagreement is visible in `Delays` without a property: the Go client never
reads Retry-After, though `botclient/botclient.go:14` says it backs off on
"Retry-After or 750ms"; the TypeScript client does read it.

## 6. What is not modelled

* Cryptography, the syntax of values, formatting, the chess rules: see the
  abstractions above. The draws the engine itself declares.
* `adminAbort` and `adminFlag`.
* Receipts, and the detection of content keys that agents publish themselves
  (`indexer/commentary.go` from 280).
* Profiles and identities in the indexer; commits of several operations, of which
  one that cannot be decoded takes the others with it (`indexer/source.go:177-181`
  drops the whole commit).
* Key rotation and configuration, which run once, at boot.
* Seeking and answering challenges from the agent loop, the move choosers of the
  bots, the cryptography of the SDK.
* The pages that only read; the verification of notes in the browser.
* The hub of match.subscribe: its buffers are like those of the event bus.
* Passes over several pool keys: pools share nothing but the presence registry
  and the games of an agent.
* Several AppView processes: the system is deployed as one.

## 7. Plan

Done, in this order because the referee is what everything else depends on:
`GameLog`, `GameManager` with its runs and proofs, `TidGenerator` with its
proofs, `Commentary`, `Challenges`, `Pairing`, `SeekPool`, `Indexer`,
`ServiceWriter`; then `Lexicon` and `RecordCodec`, `AgentLoop`, `ApiCalls`,
`GameRecord`, `GamePage`; then the refinement of `GameLog`, and the safety
properties of `ServiceWriter`, `ApiCalls`, `Challenges`, `Indexer`, `Commentary`
and `AgentLoop` as theorems; then those of `Pairing`, `SeekPool` and
`RecordCodec`; then what failures and stale writes leave of the promises of
`GameManager`, `SeekPool`, `Challenges`, `Indexer`, `AgentLoop` and `ApiCalls`,
for all behaviours.

Next, theorems:

1. The safety half of what keeps the liveness properties true: that a challenge
held by a call is always a step away from being settled, that a due flag stays
on the list of the sweep. 2. That the record of the end, written after the
commit like the announcement, is written as often as the game ended, except
where a restart or a lost answer cuts it off. 3. What `GameRecord` and
`GamePage` keep whatever comes first: the CID of a row is that of a record that
was written, and the page never shows a move nobody made.

Then, modules: key detection in `Commentary`, the seeking half of `AgentLoop`.
