------------------------------- MODULE GameLog -------------------------------
(***************************************************************************)
(* What a game promises its players, whatever the referee does inside: an  *)
(* append-only log of accepted moves.  The players alternate, every move   *)
(* was received before the deadline the previous move set (the game's      *)
(* start, for the first), and whoever is told that a ply was accepted is   *)
(* told the entry of the log, now and in every later retry.                *)
(*                                                                         *)
(* This is an abstract specification.  Module GameManager implements it.   *)
(***************************************************************************)
EXTENDS Integers, Sequences

CONSTANTS
  White, Black,   \* the two players, in seat order
  Payloads,       \* the moves a player can send
  Budget,         \* time a player has for a move (perMoveSeconds)
  StartedAt,      \* when the first mover's clock starts
  Times           \* the moments the referee's clock can show

VARIABLES
  log,            \* the accepted moves, in ply order
  acks            \* the acceptances told to clients: <<ply, entry>>

Entry == [player: {White, Black}, payload: Payloads, at: Times]

\* The player who is to make the move with this ply.
PlayerAt(ply) == IF ply % 2 = 1 THEN White ELSE Black

\* The moment by which the move after the n-th has to be received.
DeadlineAfter(n) == (IF n = 0 THEN StartedAt ELSE log[n].at) + Budget

Init == log = <<>> /\ acks = {}

Accept(payload, at) ==
  /\ at < DeadlineAfter(Len(log))
  /\ log' = Append(log, [player  |-> PlayerAt(Len(log) + 1),
                         payload |-> payload,
                         at      |-> at])
  /\ UNCHANGED acks

Acknowledge(ply) ==
  /\ acks' = acks \cup {<<ply, log[ply]>>}
  /\ UNCHANGED log

Next ==
  \/ \E payload \in Payloads, at \in Times : Accept(payload, at)
  \/ \E ply \in 1..Len(log) : Acknowledge(ply)

vars == <<log, acks>>

Spec == Init /\ [][Next]_vars

=============================================================================
