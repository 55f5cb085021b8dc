------------------------------- MODULE Pairing -------------------------------
(***************************************************************************)
(* The pairing core (internal/match/pairing.go): one greedy pass over the  *)
(* seekers of one pool. Nothing here changes state.                        *)
(*                                                                         *)
(* A candidate is a record                                                 *)
(*   [seek, did, rating, provisional, window, max, active, created,        *)
(*    operator, lastSeat]                                                  *)
(* with DIDs and times as numbers (the code orders both); operator 0 is "no*)
(* operator known". p holds the parameters of the pass                     *)
(*   [now, widen, interval, cap, cooldown, distinctOperators, recent]      *)
(* where recent is the set of the pairs {did, did} that played lately.     *)
(***************************************************************************)
EXTENDS Integers, Sequences, FiniteSets

AtMost(x, y) == IF x <= y THEN x ELSE y
Distance(x, y) == IF x <= y THEN y - x ELSE x - y

\* The seats of a game in turn order, and the history of who has none.
First == "first"
Second == "second"
NoSeat == "none"

Wait(c, p) == p.now - c.created

\* How far from its own rating a seeker looks; the longer it waits the farther.
EffectiveWindow(c, p) ==
  LET steps == IF p.interval > 0 /\ Wait(c, p) > 0 THEN Wait(c, p) \div p.interval ELSE 0
      w == c.window + p.widen * steps
  IN  IF p.cap > 0 THEN AtMost(w, p.cap) ELSE w

InWindow(a, b, p) ==
  \/ a.provisional \/ b.provisional
  \/ Distance(a.rating, b.rating) <= AtMost(EffectiveWindow(a, p), EffectiveWindow(b, p))

Compatible(a, b, cooling, p) ==
  /\ a.did # b.did
  /\ InWindow(a, b, p)
  /\ ~(p.distinctOperators /\ a.operator # 0 /\ a.operator = b.operator)
  /\ ~(cooling /\ {a.did, b.did} \in p.recent)

\* Mutant: off by one.
EligibleAtCap(cands) == {c \in cands : ~(c.max > 0 /\ c.active > c.max)}

\* Seekers that may get another game.
Eligible(cands) == {c \in cands : ~(c.max > 0 /\ c.active >= c.max)}

\* The cooldown counts only where there are others to play with.
Cooling(pool, p) == Cardinality(pool) > 3 /\ p.cooldown

\* Longest wait first. Seekers equal in wait and DID keep the order of the list
\* they came in, which is that of their seek ids here.
WaitsLonger(a, b) ==
  \/ a.created < b.created
  \/ a.created = b.created /\ a.did < b.did
  \/ a.created = b.created /\ a.did = b.did /\ a.seek < b.seek

\* The partner a prefers to another: the smaller gap, then the longer wait.
Closer(a, b, c) ==
  LET gapB == Distance(a.rating, b.rating)
      gapC == Distance(a.rating, c.rating)
  IN  gapB < gapC \/ (gapB = gapC /\ WaitsLonger(b, c))

\* Mutant: whoever waits longest, whatever the gap.
BestWaiting(a, partners) == CHOOSE b \in partners : \A c \in partners \ {b} : WaitsLonger(b, c)

Best(a, partners) == CHOOSE b \in partners : \A c \in partners \ {b} : Closer(a, b, c)

\* Mutant: only the picker leaves the pool.
FreeAfterOnlyPicker(free, a, b) == free \ {a}

FreeAfter(free, a, b) == free \ {a, b}

\* Whose turn is next: the loop runs over the seekers sorted by their wait.
Longest(todo) == CHOOSE a \in todo : \A b \in todo \ {a} : WaitsLonger(a, b)

\* The pass before its first turn: who has yet to have a turn, who has no game
\* yet, and the pairs made.
Start(pool) == [todo |-> pool, free |-> pool, out |-> <<>>]

\* One turn of the loop: the seeker takes the best one left, if any.
Turn(acc, cooling, p) ==
  LET a == Longest(acc.todo)
      partners == {b \in acc.free \ {a} : Compatible(a, b, cooling, p)}
      b == Best(a, partners)
  IN  IF a \notin acc.free \/ partners = {}
      THEN [acc EXCEPT !.todo = @ \ {a}]
      ELSE [todo |-> acc.todo \ {a},
            free |-> FreeAfter(acc.free, a, b),
            out  |-> Append(acc.out, [a |-> a, b |-> b])]

\* The pass after each number of turns.
AfterTurns(pool, p) ==
  LET after[n \in 0..Cardinality(pool)] ==
        IF n = 0 THEN Start(pool) ELSE Turn(after[n - 1], Cooling(pool, p), p)
  IN  after

\* The pairs of one pass, in the order they are made; "a" picked "b".
Pair(cands, p) ==
  LET pool == Eligible(cands)
  IN  AfterTurns(pool, p)[Cardinality(pool)].out

\* Who may get the first seat: not the one who had it last; else a coin decides.
MayMoveFirst(pr) ==
  LET was == {c \in {pr.a, pr.b} : c.lastSeat = First}
  IN  IF Cardinality(was) = 1 THEN {pr.a, pr.b} \ was ELSE {pr.a, pr.b}

=============================================================================
