------------------------------ MODULE MCClients ------------------------------
(***************************************************************************)
(* The two ways to reach the AppView from outside: an agent's calls        *)
(* (ApiCalls) and the page of a game (GamePage). The two share no state,   *)
(* so a behaviour is one of one of them; `part` says of which.             *)
(***************************************************************************)
EXTENDS ApiCalls

CONSTANTS Moves, Buffer, InTransit, MaxBreaks, MaxErrors  \* of GamePage

VARIABLES part, log, over, told, sub, socket, wire, pulls, page, breaks, errors

view == <<log, over, told, sub, socket, wire, pulls, page, breaks, errors>>

P == INSTANCE GamePage

MCInit ==
  /\ part \in {"calls", "page"} /\ Init /\ P!Init
  /\ part = "page" => dialect = "ts"

Part(name) == part = name /\ UNCHANGED part

Page(A) == Part("page") /\ A /\ UNCHANGED vars

\* BOUND: between Verify and allow, where a call waits for a lock at most, no tick goes by.
Calls(A) ==
  /\ Part("calls") /\ A /\ UNCHANGED view
  /\ clock' # clock => \A c \in Callers : ~At(c, "limit")

MCNext == Calls(Next) \/ Page(P!Next)

MCSpec ==
  /\ MCInit /\ [][MCNext]_<<part, vars, view>>
  /\ WF_view(Page(P!Publish)) /\ WF_view(Page(P!Subscribe)) /\ WF_view(Page(P!Send))
  /\ WF_view(Page(P!Connect)) /\ WF_view(Page(P!Opened)) /\ WF_view(Page(P!HandleEvent))
  /\ \A n \in P!Pulls : /\ WF_view(Page(P!ReadRow(n) \/ P!ReadMoves(n)))
                        /\ WF_view(Page(P!Refreshed(n)))

\* GamePage's: a page that connects again shows the end of the game (GamePage.tsx:41).
ReconnectHeals == P!ReconnectHeals
=============================================================================
