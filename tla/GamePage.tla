------------------------------- MODULE GamePage -------------------------------
(***************************************************************************)
(* The page of one game, from the publisher to the screen: the event bus   *)
(* with its bounded buffers (internal/events/events.go), the subscription  *)
(* handler (internal/games/subscribe.go), the reconnecting socket of the   *)
(* browser (web/src/subscribe.ts) and the page, which pulls the state when *)
(* it is opened and whenever the socket opens, and applies the events to   *)
(* what it has (web/src/GamePage.tsx). Pulls and events come by different  *)
(* ways, in any order. The game ends after its last move here, and events  *)
(* are published in the order of the commits.                              *)
(***************************************************************************)
EXTENDS Integers, Sequences

CONSTANTS
  Moves,     \* BOUND: moves of the game
  Buffer,    \* SubscribeBufferSize
  InTransit, \* BOUND: frames between the handler and the browser; Send blocks beyond
  MaxBreaks, \* BOUND: connections that break
  MaxErrors, \* BOUND: pulls that fail
  None

VARIABLES
  log,       \* the moves table: how many moves
  over,      \* the games row: whether it is finished
  told,      \* how many events have been published: the moves, then the end
  sub,       \* the subscription of the connection: its channel, None without one
  socket,    \* the browser's socket
  wire,      \* frames on the way to the browser
  pulls,     \* refresh calls in flight, by the connection they belong to
  page,      \* what the page shows: moves and status, None before the first pull
  breaks, errors

vars == <<log, over, told, sub, socket, wire, pulls, page, breaks, errors>>

\* An event is the number of its move; the end follows the last one.
End == Moves + 1

Pulls == 0..MaxBreaks + 1   \* the first is the one at mount

NoPull == [pc |-> "no", over |-> FALSE, log |-> 0]
Asked  == [NoPull EXCEPT !.pc = "row"]

Shown(p) == [history |-> [i \in 1..p.log |-> i], over |-> p.over]

-----------------------------------------------------------------------------
(* The referee and the bus.                                                *)

Commit ==
  /\ ~over
  /\ IF log < Moves THEN log' = log + 1 /\ UNCHANGED over ELSE over' = TRUE /\ UNCHANGED log
  /\ UNCHANGED <<told, sub, socket, wire, pulls, page, breaks, errors>>

\* Publish: never blocks, a full channel loses the event.
Publish ==
  /\ told < log \/ (told = Moves /\ over)
  /\ told' = told + 1
  /\ sub' = IF sub = None \/ Len(sub) = Buffer THEN sub ELSE Append(sub, told + 1)
  /\ UNCHANGED <<log, over, socket, wire, pulls, page, breaks, errors>>

\* gameSubscribe: it runs after the upgrade was answered, and subscribes then.
Subscribe ==
  /\ socket \in {"upgraded", "open"} /\ sub = None /\ sub' = <<>>
  /\ UNCHANGED <<log, over, told, socket, wire, pulls, page, breaks, errors>>

Send ==
  /\ sub \notin {None, <<>>} /\ Len(wire) < InTransit
  /\ wire' = Append(wire, Head(sub)) /\ sub' = Tail(sub)
  /\ UNCHANGED <<log, over, told, socket, pulls, page, breaks, errors>>

-----------------------------------------------------------------------------
(* The socket.                                                             *)

Connect ==
  /\ socket = "closed" /\ socket' = "upgraded"
  /\ UNCHANGED <<log, over, told, sub, wire, pulls, page, breaks, errors>>

\* Mutant: the state is pulled at mount only.
PulledAtMount == pulls

\* onStateChange(true): another refresh.
PulledOnOpen == [pulls EXCEPT ![breaks + 1] = Asked]

Opened ==
  /\ socket = "upgraded" /\ socket' = "open" /\ pulls' = PulledOnOpen
  /\ UNCHANGED <<log, over, told, sub, wire, page, breaks, errors>>

\* The connection breaks; the handler's context ends and its subscription is closed.
Break ==
  /\ socket # "closed" /\ breaks < MaxBreaks /\ breaks' = breaks + 1
  /\ socket' = "closed" /\ sub' = None /\ wire' = <<>>
  /\ UNCHANGED <<log, over, told, pulls, page, errors>>

-----------------------------------------------------------------------------
(* refresh: the site's handler reads the row and then the moves.           *)

ReadRow(n) ==
  /\ pulls[n].pc = "row"
  /\ pulls' = [pulls EXCEPT ![n] = [pc |-> "moves", over |-> over, log |-> 0]]
  /\ UNCHANGED <<log, over, told, sub, socket, wire, page, breaks, errors>>

ReadMoves(n) ==
  /\ pulls[n].pc = "moves"
  /\ pulls' = [pulls EXCEPT ![n].pc = "answer", ![n].log = log]
  /\ UNCHANGED <<log, over, told, sub, socket, wire, page, breaks, errors>>

\* The answer replaces what the page has; without one the page shows the error.
Refreshed(n) ==
  /\ \/ pulls[n].pc = "answer" /\ page' = Shown(pulls[n]) /\ UNCHANGED errors
     \/ /\ pulls[n].pc # "no" /\ errors < MaxErrors /\ errors' = errors + 1
        /\ page' = None
  /\ pulls' = [pulls EXCEPT ![n] = NoPull]
  /\ UNCHANGED <<log, over, told, sub, socket, wire, breaks>>

\* #move and #gameFinished, applied to what the page has, whatever that is. (Of a move
\* also its ply and position, which the history stands for here.)
WithMove(n) == [page EXCEPT !.history = Append(@, n)]
WithEnd == [page EXCEPT !.over = TRUE]

\* handleEvent. The events on notes and draw offers touch other parts of the page.
HandleEvent ==
  /\ wire # <<>> /\ socket = "open" /\ wire' = Tail(wire)
  /\ page' = IF page = None THEN None
             ELSE IF Head(wire) = End THEN WithEnd ELSE WithMove(Head(wire))
  /\ UNCHANGED <<log, over, told, sub, socket, pulls, breaks, errors>>

-----------------------------------------------------------------------------

Init ==
  /\ log = 0 /\ over = FALSE /\ told = 0
  /\ sub = None /\ socket = "closed" /\ wire = <<>>
  /\ pulls = [n \in Pulls |-> IF n = 0 THEN Asked ELSE NoPull]
  /\ page = None /\ breaks = 0 /\ errors = 0

Pull(n) == ReadRow(n) \/ ReadMoves(n) \/ Refreshed(n)

Browser == Connect \/ Opened \/ HandleEvent

Next == Commit \/ Publish \/ Subscribe \/ Send \/ Browser \/ Break \/ \E n \in Pulls : Pull(n)

Spec == Init /\ [][Next]_vars

\* What was committed is published, the browser dials again and its requests are
\* answered; nobody has to move.
FairSpec ==
  /\ Spec /\ WF_vars(Publish) /\ WF_vars(Subscribe) /\ WF_vars(Send)
  /\ WF_vars(Connect) /\ WF_vars(Opened) /\ WF_vars(HandleEvent)
  /\ \A n \in Pulls : WF_vars(ReadRow(n) \/ ReadMoves(n)) /\ WF_vars(Refreshed(n))

-----------------------------------------------------------------------------

TypeOK ==
  /\ log \in 0..Moves /\ over \in BOOLEAN /\ told \in 0..End
  /\ sub = None \/ (sub \in Seq(1..End) /\ Len(sub) <= Buffer)
  /\ socket \in {"closed", "upgraded", "open"} /\ Len(wire) <= InTransit
  /\ pulls \in [Pulls -> [pc: {"no", "row", "moves", "answer"}, over: BOOLEAN, log: 0..Moves]]
  /\ breaks \in 0..MaxBreaks /\ errors \in 0..MaxErrors

\* The page that is connected anew shows the end of the game and its moves, whatever it
\* has missed until then - events dropped by a full buffer, lost with the connection or
\* published before the subscription - unless a pull fails, or one is still on its way
\* that would come in late (GamePage.tsx:41 "events are advisory, state is authoritative").
ReconnectHeals ==
  \A e \in 0..MaxErrors :
    /\ socket = "closed" /\ told = End /\ errors = e
    /\ \A n \in Pulls : pulls[n].pc = "no"
    ~> page = Shown([over |-> TRUE, log |-> Moves]) \/ errors > e

\* GamePage.tsx:41 "events are advisory, state is authoritative", for a page that stays
\* connected.
EndIsShown == over ~> page # None /\ page.over

\* The history shows every move once (GamePage.tsx:338).
MovesShownOnce ==
  page # None => \A i, j \in DOMAIN page.history : page.history[i] = page.history[j] => i = j
=============================================================================
