------------------------------ MODULE MCPairing ------------------------------
(* The pairing core over all pools of a few seekers, against what a pass    *)
(* promises.                                                                *)
EXTENDS Pairing

CONSTANTS
  Agents,    \* numbers
  Extra,     \* agents with a second seek
  Ratings,   \* values; 0 stands for a provisional rating
  Windows,   \* rating windows
  Times      \* when seeks are posted

ASSUME PairsAssumption ==
  /\ IsFiniteSet(Agents) /\ Agents \subseteq Nat \ {0} /\ Extra \subseteq Agents
  /\ Ratings \subseteq Nat /\ Windows \subseteq Nat /\ Times \subseteq Nat

Now == 3

PassParams == [now |-> Now, widen |-> 1, interval |-> 2, cap |-> 3, cooldown |-> TRUE,
               distinctOperators |-> TRUE, recent |-> {}]

VARIABLES
  cands,  \* the pool
  p,      \* the parameters of the pass
  pairs,  \* its result
  done    \* whether the pass was made

pairsVars == <<cands, p, pairs, done>>

\* The seeks of the agents: everything but the times depends on the agent.
Candidates(rating, window, busy, created) ==
  {[seek |-> 10 * s[1] + s[2], did |-> s[1], rating |-> rating[s[1]], provisional |-> rating[s[1]] = 0,
    window |-> window[s[1]], max |-> 1, active |-> IF s[1] \in busy THEN 1 ELSE 0,
    created |-> created[s], operator |-> IF s[1] <= 2 THEN 1 ELSE 0,
    lastSeat |-> IF s[1] % 2 = 0 THEN First ELSE Second] : s \in DOMAIN created}

PairsSeeks == (Agents \X {1}) \cup (Extra \X {2})

\* A pool is filled, and what its agents played lately is looked up.
Fill ==
  /\ cands = {}
  /\ \E rating \in [Agents -> Ratings], window \in [Agents -> Windows],
        busy \in {{}, {3}}, created \in [PairsSeeks -> Times], recent \in {{}, {{1, 3}}} :
       /\ cands' = Candidates(rating, window, busy, created)
       /\ p' = [PassParams EXCEPT !.recent = recent]
       /\ UNCHANGED <<pairs, done>>

MakePairs == /\ cands # {} /\ ~done /\ done' = TRUE
             /\ pairs' = Pair(cands, p)
             /\ UNCHANGED <<cands, p>>

PairsInit == cands = {} /\ p = PassParams /\ pairs = <<>> /\ done = FALSE

PairsNext == Fill \/ MakePairs

PairsSpec == PairsInit /\ [][PairsNext]_pairsVars

-----------------------------------------------------------------------------

Partners(c, d) == \E i \in DOMAIN pairs : {pairs[i].a, pairs[i].b} = {c, d}

May(c, d) == Compatible(c, d, Cooling(Eligible(cands), p), p)

\* A pass is a matching: no seek is in two games and nobody plays himself, also
\* where one agent has two seeks in the pool (pairing.go "two seeks from one DID
\* never pair with each other").
IsMatching ==
  /\ \A i \in DOMAIN pairs : pairs[i].a.did # pairs[i].b.did
  /\ \A i, j \in DOMAIN pairs :
       i # j => {pairs[i].a, pairs[i].b} \cap {pairs[j].a, pairs[j].b} = {}

\* The reference for "longest wait first, smallest rating gap": where two seekers
\* could play and do not, one of them is taken by a pair made for somebody who
\* waited longer than both, or for one of them who got a closer partner.
NobodyIsPassedOver ==
  done =>
  \A c, d \in Eligible(cands) :
    (WaitsLonger(c, d) /\ May(c, d) /\ ~Partners(c, d)) =>
      \E i \in DOMAIN pairs :
        /\ {pairs[i].a, pairs[i].b} \cap {c, d} # {}
        /\ \/ WaitsLonger(pairs[i].a, c)
           \/ pairs[i].a = c /\ ~Closer(c, d, pairs[i].b)

=============================================================================
