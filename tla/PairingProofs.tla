---------------------------- MODULE PairingProofs ----------------------------
(***************************************************************************)
(* Proofs about the pairing core, for every pool of seekers, and about the *)
(* seek pool over it, for any number of agents, seeks, games, connections, *)
(* restarts and failing passes.                                            *)
(***************************************************************************)
EXTENDS MCPairing, SeekPool, SequenceTheorems, FiniteSetTheorems, NaturalsInduction,
        WellFoundedInduction, TLAPS

-----------------------------------------------------------------------------
(* Induction and least elements, for sets in place of predicates.          *)

\* A set of numbers that is not empty has a least one.
LEMMA LeastNumber ==
  ASSUME NEW T, T \subseteq Nat, T # {}
  PROVE  \E n \in T : \A m \in T : ~(m < n)
<1>1. IsWellFoundedOn(OpToRel(<, Nat), Nat)
  BY NatLessThanWellFounded
<1>2. \E n \in T : \A m \in T : ~(<<m, n>> \in OpToRel(<, Nat))
  BY <1>1, WFMin
<1>3. \A m, n \in Nat : m < n => <<m, n>> \in OpToRel(<, Nat)
  BY DEF OpToRel
<1> QED
  BY <1>2, <1>3

\* A set with 0 and the successor of each of its numbers up to N has them all.
LEMMA NumbersUpTo ==
  ASSUME NEW N \in Nat, NEW T, 0 \in T, \A n \in 0..(N - 1) : n \in T => n + 1 \in T
  PROVE  0..N \subseteq T
<1> SUFFICES ASSUME ~(0..N \subseteq T) PROVE FALSE
  OBVIOUS
<1> DEFINE S == (0..N) \ T
<1>1. S # {} /\ S \subseteq Nat
  OBVIOUS
<1>2. PICK n \in S : \A m \in S : ~(m < n)
  BY <1>1, LeastNumber
<1>3. n # 0 /\ n - 1 \in 0..(N - 1) /\ n - 1 \in T
  BY <1>2
<1> QED
  BY <1>2, <1>3

\* A finite set with a linear order R has an element before all the others.
LEMMA FirstExists ==
  ASSUME NEW S, IsFiniteSet(S), S # {}, NEW R,
         \A x, y \in S : x # y => <<x, y>> \in R \/ <<y, x>> \in R,
         \A x, y, z \in S : <<x, y>> \in R /\ <<y, z>> \in R => <<x, z>> \in R
  PROVE  \E x \in S : \A y \in S \ {x} : <<x, y>> \in R
<1> DEFINE HasFirst(W) == \E x \in W : \A y \in W \ {x} : <<x, y>> \in R
           T == {n \in Nat : \E W \in SUBSET S : W # {} /\ Cardinality(W) = n /\ ~HasFirst(W)}
<1> SUFFICES ASSUME ~HasFirst(S) PROVE FALSE
  OBVIOUS
<1>1. T # {} /\ T \subseteq Nat
  BY FS_CardinalityType
<1>2. PICK n \in T : \A m \in T : ~(m < n)
  BY <1>1, LeastNumber
<1>3. PICK W \in SUBSET S : W # {} /\ Cardinality(W) = n /\ ~HasFirst(W)
  BY <1>2
<1>4. PICK x \in W : TRUE
  BY <1>3
<1>5. IsFiniteSet(W) /\ n \in Nat
  BY FS_Subset, <1>2
<1>6. Cardinality(W \ {x}) = n - 1 /\ Cardinality(W \ {x}) \in Nat
  BY <1>3, <1>4, <1>5, FS_RemoveElement, FS_CardinalityType
<1>7. CASE W \ {x} = {}
  BY <1>3, <1>4, <1>7
<1>8. CASE W \ {x} # {}
  <2>1. HasFirst(W \ {x})
    <3>0. n - 1 < n
      BY <1>5
    <3>1. n - 1 \notin T
      <4> HIDE DEF T
      <4> QED BY <3>0, <1>2
    <3> QED
      BY <3>1, <1>6, <1>8
  <2>2. PICK z \in W \ {x} : \A y \in (W \ {x}) \ {z} : <<z, y>> \in R
    BY <2>1
  <2>3. CASE <<x, z>> \in R
    <3>1. \A y \in W \ {x} : <<x, y>> \in R
      BY <1>3, <2>2, <2>3
    <3> QED
      BY <1>3, <1>4, <3>1
  <2>4. CASE <<z, x>> \in R
    <3>1. \A y \in W \ {z} : <<z, y>> \in R
      BY <2>2, <2>4
    <3> QED
      BY <1>3, <2>2, <3>1
  <2> QED
    BY <2>2, <2>3, <2>4, <1>3, <1>4
<1> QED
  BY <1>7, <1>8

-----------------------------------------------------------------------------
(* The orders of the pass.                                                 *)

\* What a pool is: finitely many seeks, each known by its id.
IsPool(S) ==
  /\ IsFiniteSet(S)
  /\ \A c \in S : c.created \in Int /\ c.did \in Int /\ c.seek \in Int /\ c.rating \in Int
  /\ \A c, d \in S : c.seek = d.seek => c = d

\* Who waits longer is a linear order of a pool.
LEMMA WaitOrder ==
  ASSUME NEW S, IsPool(S), NEW a \in S, NEW b \in S
  PROVE  /\ a # b => WaitsLonger(a, b) \/ WaitsLonger(b, a)
         /\ ~(WaitsLonger(a, b) /\ WaitsLonger(b, a))
         /\ \A c \in S : WaitsLonger(a, b) /\ WaitsLonger(b, c) => WaitsLonger(a, c)
BY DEF IsPool, WaitsLonger

\* Gaps between ratings are numbers.
LEMMA DistanceType == ASSUME NEW x \in Int, NEW y \in Int PROVE Distance(x, y) \in Int
BY DEF Distance

\* So is who is the closer partner of a seeker.
LEMMA CloserOrder ==
  ASSUME NEW S, IsPool(S), NEW a \in S, NEW b \in S, NEW c \in S
  PROVE  /\ b # c => Closer(a, b, c) \/ Closer(a, c, b)
         /\ ~(Closer(a, b, c) /\ Closer(a, c, b))
         /\ \A d \in S : Closer(a, b, c) /\ Closer(a, c, d) => Closer(a, b, d)
<1>1. \A x \in S : Distance(a.rating, x.rating) \in Int
  BY DistanceType DEF IsPool
<1> QED
  BY <1>1, WaitOrder DEF Closer

\* The loop comes to the seeker left that waits longest.
LEMMA LongestIsFirst ==
  ASSUME NEW S, IsPool(S), NEW T \in SUBSET S, T # {}
  PROVE  Longest(T) \in T /\ \A b \in T \ {Longest(T)} : WaitsLonger(Longest(T), b)
<1> DEFINE R == {xy \in S \X S : WaitsLonger(xy[1], xy[2])}
<1>0. \A x, y \in S : <<x, y>> \in R <=> WaitsLonger(x, y)
  OBVIOUS
<1> HIDE DEF R
<1>1. IsFiniteSet(T)
  BY FS_Subset DEF IsPool
<1>2. /\ \A x, y \in T : x # y => <<x, y>> \in R \/ <<y, x>> \in R
      /\ \A x, y, z \in T : <<x, y>> \in R /\ <<y, z>> \in R => <<x, z>> \in R
  BY <1>0, WaitOrder
<1>3. \E x \in T : \A y \in T \ {x} : <<x, y>> \in R
  BY <1>1, <1>2, FirstExists
<1>4. \E x \in T : \A y \in T \ {x} : WaitsLonger(x, y)
  BY <1>0, <1>3
<1> QED
  BY <1>4 DEF Longest

\* The best partner is one of the partners, and closer than each of the others.
LEMMA BestIsClosest ==
  ASSUME NEW S, IsPool(S), NEW a \in S, NEW T \in SUBSET S, T # {}
  PROVE  Best(a, T) \in T /\ \A c \in T \ {Best(a, T)} : Closer(a, Best(a, T), c)
<1> DEFINE R == {xy \in S \X S : Closer(a, xy[1], xy[2])}
<1>0. \A x, y \in S : <<x, y>> \in R <=> Closer(a, x, y)
  OBVIOUS
<1> HIDE DEF R
<1>1. IsFiniteSet(T)
  BY FS_Subset DEF IsPool
<1>2. /\ \A x, y \in T : x # y => <<x, y>> \in R \/ <<y, x>> \in R
      /\ \A x, y, z \in T : <<x, y>> \in R /\ <<y, z>> \in R => <<x, z>> \in R
  BY <1>0, CloserOrder
<1>3. \E x \in T : \A y \in T \ {x} : <<x, y>> \in R
  BY <1>1, <1>2, FirstExists
<1>4. \E x \in T : \A y \in T \ {x} : Closer(a, x, y)
  BY <1>0, <1>3
<1> QED
  BY <1>4 DEF Best

-----------------------------------------------------------------------------
(* The loop of the pass.                                                   *)

\* The loop is well-defined: the pass after n turns is the start of it, or one
\* turn more than the pass after n - 1.
LEMMA TurnsAreMade ==
  ASSUME NEW pool, IsFiniteSet(pool), NEW q
  PROVE  /\ AfterTurns(pool, q)[0] = Start(pool)
         /\ \A n \in 1..Cardinality(pool) :
              AfterTurns(pool, q)[n] = Turn(AfterTurns(pool, q)[n - 1], Cooling(pool, q), q)
<1> DEFINE N == Cardinality(pool)
           Made(f, k) == f = [n \in 0..k |-> IF n = 0 THEN Start(pool)
                                             ELSE Turn(f[n - 1], Cooling(pool, q), q)]
           T == {k \in 0..N : \E f : Made(f, k)}
<1>0. N \in Nat
  BY FS_CardinalityType
<1>1. 0 \in T
  <2>1. Made([n \in 0..0 |-> Start(pool)], 0)
    OBVIOUS
  <2> HIDE DEF Made
  <2>2. \E f : Made(f, 0)
    BY <2>1
  <2> QED BY <1>0, <2>2
<1>2. ASSUME NEW k \in 0..(N - 1), k \in T PROVE k + 1 \in T
  <2>1. PICK f : Made(f, k)
    BY <1>2
  <2> DEFINE g == [n \in 0..(k + 1) |-> IF n = k + 1 THEN Turn(f[k], Cooling(pool, q), q) ELSE f[n]]
  <2>2. \A n \in 0..k : f[n] = IF n = 0 THEN Start(pool) ELSE Turn(f[n - 1], Cooling(pool, q), q)
    BY <2>1
  <2>3. \A n \in 0..(k + 1) :
          g[n] = IF n = 0 THEN Start(pool) ELSE Turn(g[n - 1], Cooling(pool, q), q)
    BY <2>2
  <2>4. Made(g, k + 1)
    BY <2>3
  <2> HIDE DEF Made, g
  <2>5. \E h : Made(h, k + 1)
    BY <2>4
  <2> QED
    BY <2>5, <1>0
<1>3. N \in T
  <2> HIDE DEF T
  <2> QED BY <1>0, <1>1, <1>2, NumbersUpTo
<1>4. \E f : Made(f, N)
  BY <1>3
<1>5. Made(AfterTurns(pool, q), N)
  BY <1>4 DEF AfterTurns
<1> QED
  BY <1>0, <1>5

\* The pass in the middle, of a pool and its parameters.
PassState(pool) == [todo: SUBSET pool, free: SUBSET pool, out: Seq([a: pool, b: pool])]

PlaysIn(pr, x) == x = pr.a \/ x = pr.b

\* The pairs are disjoint, and take from the free seekers those that are paired.
Matched(pool, acc) ==
  /\ \A i \in DOMAIN acc.out :
       /\ acc.out[i].a.did # acc.out[i].b.did
       /\ acc.out[i].a \notin acc.free /\ acc.out[i].b \notin acc.free
  /\ \A i, j \in DOMAIN acc.out : i # j =>
       \A x \in pool : ~(PlaysIn(acc.out[i], x) /\ PlaysIn(acc.out[j], x))
  /\ \A x \in pool \ acc.free : \E i \in DOMAIN acc.out : PlaysIn(acc.out[i], x)

\* Who made a pair had its turn before all those whose turn is to come.
InTurn(acc) ==
  \A i \in DOMAIN acc.out : \A x \in acc.todo : WaitsLonger(acc.out[i].a, x)

\* Where c and d could play, c had its turn and the pair was not made, a pair
\* that is preferred to it took one of them.
Overtaken(out, c, d) ==
  \E i \in DOMAIN out :
    /\ PlaysIn(out[i], c) \/ PlaysIn(out[i], d)
    /\ WaitsLonger(out[i].a, c) \/ (out[i].a = c /\ ~Closer(c, d, out[i].b))

PlayEachOther(out, c, d) ==
  \E i \in DOMAIN out : PlaysIn(out[i], c) /\ PlaysIn(out[i], d)

NoneMissed(pool, cooling, q, acc) ==
  \A c \in pool \ acc.todo, d \in pool : Compatible(c, d, cooling, q) =>
    PlayEachOther(acc.out, c, d) \/ Overtaken(acc.out, c, d)

PassInv(pool, cooling, q, acc) ==
  acc \in PassState(pool) /\ Matched(pool, acc) /\ InTurn(acc) /\ NoneMissed(pool, cooling, q, acc)

\* One more pair leaves the others as they are.
LEMMA OneMorePair ==
  ASSUME NEW S, NEW out \in Seq(S), NEW pr \in S
  PROVE  LET more == Append(out, pr) IN
         /\ more \in Seq(S) /\ DOMAIN more = DOMAIN out \cup {Len(out) + 1}
         /\ DOMAIN out = 1..Len(out) /\ Len(out) \in Nat
         /\ Len(out) + 1 \notin DOMAIN out
         /\ \A i \in DOMAIN out : more[i] = out[i]
         /\ more[Len(out) + 1] = pr
OBVIOUS

\* Before the first turn nobody has been passed over.
LEMMA StartOK ==
  ASSUME NEW pool, NEW cooling, NEW q
  PROVE  PassInv(pool, cooling, q, Start(pool))
BY DEF PassInv, PassState, Matched, InTurn, NoneMissed, Start

\* A turn in which no pair is made: the seeker is paired, or has no partner left.
LEMMA TurnWithoutPair ==
  ASSUME NEW pool, IsPool(pool), NEW cooling, NEW q, NEW acc, PassInv(pool, cooling, q, acc),
         acc.todo # {}, NEW a, a = Longest(acc.todo),
         a \notin acc.free \/ {b \in acc.free \ {a} : Compatible(a, b, cooling, q)} = {}
  PROVE  PassInv(pool, cooling, q, [acc EXCEPT !.todo = @ \ {a}])
<1> DEFINE new == [acc EXCEPT !.todo = @ \ {a}]
<1>0. acc \in PassState(pool)
  BY DEF PassInv
<1>1. new \in PassState(pool) /\ new.todo = acc.todo \ {a} /\ new.free = acc.free /\ new.out = acc.out
  BY <1>0 DEF PassState
<1>2. a \in acc.todo /\ a \in pool
  BY <1>0, LongestIsFirst DEF PassState
<1> HIDE DEF new
<1>3. Matched(pool, new) /\ InTurn(new)
  BY <1>1 DEF PassInv, Matched, InTurn
<1>4. ASSUME NEW c \in pool \ new.todo, NEW d \in pool, Compatible(c, d, cooling, q)
      PROVE  PlayEachOther(new.out, c, d) \/ Overtaken(new.out, c, d)
  <2>1. CASE c # a
    BY <1>1, <1>4, <2>1 DEF PassInv, NoneMissed
  <2>2. CASE c = a
    <3>1. PICK x \in {c, d} : x \in pool \ acc.free
      BY <1>2, <1>4, <2>2 DEF Compatible
    <3>2. PICK i \in DOMAIN acc.out : PlaysIn(acc.out[i], x)
      BY <3>1 DEF PassInv, Matched
    <3>3. WaitsLonger(acc.out[i].a, c)
      BY <1>2, <2>2 DEF PassInv, InTurn
    <3> QED
      BY <1>1, <3>1, <3>2, <3>3 DEF Overtaken
  <2> QED
    BY <2>1, <2>2
<1> QED
  BY <1>1, <1>3, <1>4 DEF PassInv, NoneMissed, new

\* A turn in which a pair is made, of the seeker and its best partner.
LEMMA TurnWithPair ==
  ASSUME NEW pool, IsPool(pool), NEW cooling, NEW q, NEW acc, PassInv(pool, cooling, q, acc),
         acc.todo # {}, NEW a, a = Longest(acc.todo), a \in acc.free,
         NEW partners, partners = {b \in acc.free \ {a} : Compatible(a, b, cooling, q)},
         partners # {}, NEW b, b = Best(a, partners)
  PROVE  PassInv(pool, cooling, q,
           [todo |-> acc.todo \ {a}, free |-> FreeAfter(acc.free, a, b),
            out |-> Append(acc.out, [a |-> a, b |-> b])])
<1> DEFINE pr == [a |-> a, b |-> b]
           out == acc.out
           more == Append(out, pr)
           new == [todo |-> acc.todo \ {a}, free |-> FreeAfter(acc.free, a, b), out |-> more]
<1>0. acc.todo \subseteq pool /\ acc.free \subseteq pool /\ out \in Seq([a: pool, b: pool])
  BY DEF PassInv, PassState
<1>1. a \in acc.todo /\ a \in pool /\ \A x \in acc.todo \ {a} : WaitsLonger(a, x)
  BY <1>0, LongestIsFirst
<1>2. b \in partners /\ \A x \in partners \ {b} : Closer(a, b, x)
  <2>1. partners \in SUBSET pool
    BY <1>0
  <2> QED
    BY <1>1, <2>1, BestIsClosest
<1>3. b \in acc.free /\ b \in pool /\ a.did # b.did /\ a # b
  BY <1>0, <1>2 DEF Compatible
<1>4. pr \in [a: pool, b: pool] /\ pr.a = a /\ pr.b = b
  BY <1>1, <1>3
<1>5. /\ more \in Seq([a: pool, b: pool]) /\ DOMAIN more = DOMAIN out \cup {Len(out) + 1}
      /\ Len(out) + 1 \notin DOMAIN out
      /\ \A i \in DOMAIN out : more[i] = out[i]
      /\ more[Len(out) + 1] = pr
  BY <1>0, <1>4, OneMorePair
<1>6. /\ new.todo = acc.todo \ {a} /\ new.free = acc.free \ {a, b} /\ new.out = more
      /\ new \in PassState(pool)
  BY <1>0, <1>5 DEF FreeAfter, PassState
<1> HIDE DEF pr, more, new
<1>7. Matched(pool, new)
  <2>1. ASSUME NEW i \in DOMAIN more
        PROVE  /\ more[i].a.did # more[i].b.did
               /\ more[i].a \notin new.free /\ more[i].b \notin new.free
    BY <1>3, <1>4, <1>5, <1>6 DEF PassInv, Matched
  <2>2. ASSUME NEW i \in DOMAIN more, NEW j \in DOMAIN more, i # j, NEW x \in pool
        PROVE  ~(PlaysIn(more[i], x) /\ PlaysIn(more[j], x))
    <3>1. \A k \in DOMAIN out : PlaysIn(out[k], x) => x \notin acc.free
      BY DEF PassInv, Matched, PlaysIn
    <3>2. PlaysIn(pr, x) => x \in acc.free
      BY <1>3, <1>4 DEF PlaysIn
    <3>3. CASE i \in DOMAIN out /\ j \in DOMAIN out
      BY <1>5, <2>2, <3>3 DEF PassInv, Matched
    <3> QED
      BY <1>5, <2>2, <3>1, <3>2, <3>3
  <2>3. ASSUME NEW x \in pool \ new.free
        PROVE  \E i \in DOMAIN more : PlaysIn(more[i], x)
    <3>1. CASE x \in {a, b}
      BY <1>4, <1>5, <3>1 DEF PlaysIn
    <3>2. CASE x \notin acc.free
      <4>1. PICK i \in DOMAIN out : PlaysIn(out[i], x)
        BY <3>2 DEF PassInv, Matched
      <4> QED BY <1>5, <4>1
    <3> QED
      BY <1>6, <3>1, <3>2
  <2> QED
    BY <1>6, <2>1, <2>2, <2>3 DEF Matched
<1>8. InTurn(new)
  BY <1>1, <1>4, <1>5, <1>6 DEF PassInv, InTurn
<1>9. ASSUME NEW c \in pool \ new.todo, NEW d \in pool, Compatible(c, d, cooling, q)
      PROVE  PlayEachOther(more, c, d) \/ Overtaken(more, c, d)
  <2>1. CASE c # a
    <3>1. PlayEachOther(out, c, d) \/ Overtaken(out, c, d)
      BY <1>6, <1>9, <2>1 DEF PassInv, NoneMissed
    <3>2. PlayEachOther(out, c, d) => PlayEachOther(more, c, d)
      BY <1>5 DEF PlayEachOther
    <3>3. Overtaken(out, c, d) => Overtaken(more, c, d)
      BY <1>5 DEF Overtaken
    <3> QED
      BY <3>1, <3>2, <3>3
  <2>2. CASE c = a /\ d \notin acc.free
    <3>1. PICK i \in DOMAIN out : PlaysIn(out[i], d)
      BY <2>2 DEF PassInv, Matched
    <3>2. WaitsLonger(out[i].a, c)
      BY <1>1, <2>2 DEF PassInv, InTurn
    <3> QED
      BY <1>5, <3>1, <3>2 DEF Overtaken
  <2>3. CASE c = a /\ d = b
    BY <1>4, <1>5, <2>3 DEF PlayEachOther, PlaysIn
  <2>4. CASE c = a /\ d \in acc.free /\ d # b
    <3>1. d # a
      BY <1>9, <2>4 DEF Compatible
    <3>2. Closer(a, b, d)
      BY <1>2, <1>9, <2>4, <3>1
    <3>3. ~Closer(a, d, b)
      BY <1>1, <1>3, <3>2, CloserOrder
    <3> QED
      BY <1>4, <1>5, <2>4, <3>3 DEF Overtaken, PlaysIn
  <2> QED
    BY <2>1, <2>2, <2>3, <2>4
<1> QED
  BY <1>6, <1>7, <1>8, <1>9 DEF PassInv, NoneMissed, new, more, pr

\* Every turn of the loop keeps the invariant, and takes one seeker's turn.
LEMMA TurnOK ==
  ASSUME NEW pool, IsPool(pool), NEW cooling, NEW q, NEW acc, PassInv(pool, cooling, q, acc),
         acc.todo # {}
  PROVE  /\ PassInv(pool, cooling, q, Turn(acc, cooling, q))
         /\ Turn(acc, cooling, q).todo = acc.todo \ {Longest(acc.todo)}
<1> DEFINE a == Longest(acc.todo)
           partners == {b \in acc.free \ {a} : Compatible(a, b, cooling, q)}
           b == Best(a, partners)
<1>0. acc \in PassState(pool)
  BY DEF PassInv
<1>1. CASE a \notin acc.free \/ partners = {}
  <2>1. Turn(acc, cooling, q) = [acc EXCEPT !.todo = @ \ {a}]
    BY <1>1 DEF Turn
  <2>2. [acc EXCEPT !.todo = @ \ {a}].todo = acc.todo \ {a}
    BY <1>0 DEF PassState
  <2> QED
    BY <1>1, <2>1, <2>2, TurnWithoutPair
<1>2. CASE a \in acc.free /\ partners # {}
  <2>1. Turn(acc, cooling, q) =
          [todo |-> acc.todo \ {a}, free |-> FreeAfter(acc.free, a, b),
           out |-> Append(acc.out, [a |-> a, b |-> b])]
    BY <1>2 DEF Turn
  <2> HIDE DEF a, b, partners
  <2>2. PassInv(pool, cooling, q, Turn(acc, cooling, q))
    BY <1>2, <2>1, TurnWithPair DEF a, b, partners
  <2> QED
    BY <2>1, <2>2 DEF a
<1> QED
  BY <1>1, <1>2

\* After all the turns nobody's turn is left, and nobody has been passed over.
LEMMA PassOK ==
  ASSUME NEW pool, IsPool(pool), NEW q
  PROVE  LET end == AfterTurns(pool, q)[Cardinality(pool)] IN
         PassInv(pool, Cooling(pool, q), q, end) /\ end.todo = {}
<1> DEFINE N == Cardinality(pool)
           after == AfterTurns(pool, q)
           Good(n) == /\ PassInv(pool, Cooling(pool, q), q, after[n])
                      /\ Cardinality(after[n].todo) = N - n
           T == {n \in 0..N : Good(n)}
<1>0. IsFiniteSet(pool) /\ N \in Nat
  BY FS_CardinalityType DEF IsPool
<1>1. after[0] = Start(pool) /\ \A n \in 1..N : after[n] = Turn(after[n - 1], Cooling(pool, q), q)
  BY <1>0, TurnsAreMade
<1> HIDE DEF N, after
<1>2. Good(0)
  <2>1. Cardinality(Start(pool).todo) = N
    BY DEF Start, N
  <2> QED
    BY <1>0, <1>1, <2>1, StartOK
<1>3. ASSUME NEW n \in 0..(N - 1), Good(n) PROVE Good(n + 1)
  <2>1. after[n + 1] = Turn(after[n], Cooling(pool, q), q)
    BY <1>0, <1>1
  <2>2. after[n].todo \subseteq pool /\ IsFiniteSet(after[n].todo)
    <3>1. after[n].todo \in SUBSET pool
      BY <1>3 DEF PassInv, PassState
    <3> QED BY <1>0, <3>1, FS_Subset
  <2>3. after[n].todo # {}
    BY <1>0, <1>3, <2>2, FS_EmptySet
  <2>4. Longest(after[n].todo) \in after[n].todo
    BY <2>2, <2>3, LongestIsFirst
  <2>5. Cardinality(after[n].todo \ {Longest(after[n].todo)}) = N - n - 1
    BY <1>0, <1>3, <2>2, <2>4, FS_RemoveElement
  <2> QED
    BY <1>0, <1>3, <2>1, <2>3, <2>5, TurnOK
<1>4. N \in T
  <2>1. 0 \in T /\ \A n \in 0..(N - 1) : n \in T => n + 1 \in T
    <3> HIDE DEF Good
    <3> QED BY <1>0, <1>2, <1>3
  <2> HIDE DEF T
  <2> QED BY <1>0, <2>1, NumbersUpTo
<1>5. after[N].todo = {}
  <2>1. after[N].todo \in SUBSET pool /\ Cardinality(after[N].todo) = 0
    BY <1>0, <1>4 DEF PassInv, PassState
  <2> QED
    BY <1>0, <2>1, FS_Subset, FS_EmptySet
<1> QED
  BY <1>4, <1>5 DEF N, after

\* The seekers that may get another game are a pool, too.
LEMMA EligibleIsPool == ASSUME NEW S, IsPool(S) PROVE IsPool(Eligible(S)) /\ Eligible(S) \subseteq S
<1>1. Eligible(S) \in SUBSET S
  BY DEF Eligible
<1> QED
  BY <1>1, FS_Subset DEF IsPool

\* What a pass gives for every pool and all parameters: disjoint pairs of different
\* agents, and nobody who could have played is passed over.
LEMMA PairOK ==
  ASSUME NEW S, IsPool(S), NEW q
  PROVE  LET out == Pair(S, q)  pool == Eligible(S) IN
         /\ out \in Seq([a: pool, b: pool])
         /\ \A i \in DOMAIN out : out[i].a.did # out[i].b.did
         /\ \A i, j \in DOMAIN out : i # j =>
              \A x \in pool : ~(PlaysIn(out[i], x) /\ PlaysIn(out[j], x))
         /\ \A c, d \in pool : Compatible(c, d, Cooling(pool, q), q) =>
              PlayEachOther(out, c, d) \/ Overtaken(out, c, d)
<1> DEFINE pool == Eligible(S)
           end == AfterTurns(pool, q)[Cardinality(pool)]
<1>1. PassInv(pool, Cooling(pool, q), q, end) /\ end.todo = {} /\ Pair(S, q) = end.out
  BY EligibleIsPool, PassOK DEF Pair
<1> HIDE DEF pool, end
<1> QED
  BY <1>1 DEF PassInv, PassState, Matched, NoneMissed, pool

-----------------------------------------------------------------------------
(* The pass over the pools of the run.                                     *)

\* A sequence over fewer values.
LEMMA SeqSubset ==
  ASSUME NEW S, NEW T, S \subseteq T, NEW s \in Seq(S)
  PROVE  s \in Seq(T)
OBVIOUS

\* A pair of a sequence of pairs.
LEMMA PairType ==
  ASSUME NEW S, NEW out \in Seq([a: S, b: S]), NEW i \in DOMAIN out
  PROVE  out[i].a \in S /\ out[i].b \in S
<1> DEFINE R == [a: S, b: S]
<1>0. out \in Seq(R)
  OBVIOUS
<1>1. out[i] \in R
  <2> HIDE DEF R
  <2> QED BY <1>0
<1> QED BY <1>1

\* The seeks of the agents of a run.
LEMMA PairsSeekType ==
  ASSUME NEW s \in PairsSeeks
  PROVE  s[1] \in Agents /\ s[2] \in {1, 2} /\ s = <<s[1], s[2]>>
<1>1. CASE s \in Agents \X {1}
  BY <1>1
<1>2. CASE s \in Extra \X {2}
  <2>1. s[1] \in Extra /\ s[2] = 2 /\ s = <<s[1], s[2]>>
    BY <1>2
  <2> QED BY <2>1, PairsAssumption
<1> QED BY <1>1, <1>2 DEF PairsSeeks

\* The seeks of the run are a pool, whatever the agents, ratings and times.
LEMMA CandidatesArePool ==
  ASSUME NEW rating \in [Agents -> Ratings], NEW window \in [Agents -> Windows], NEW busy,
         NEW created \in [PairsSeeks -> Times]
  PROVE  IsPool(Candidates(rating, window, busy, created))
<1> USE PairsAssumption
<1> DEFINE D == PairsSeeks
           C(s) == [seek |-> 10 * s[1] + s[2], did |-> s[1], rating |-> rating[s[1]],
                    provisional |-> rating[s[1]] = 0, window |-> window[s[1]], max |-> 1,
                    active |-> IF s[1] \in busy THEN 1 ELSE 0, created |-> created[s],
                    operator |-> IF s[1] <= 2 THEN 1 ELSE 0,
                    lastSeat |-> IF s[1] % 2 = 0 THEN First ELSE Second]
           f == [s \in D |-> C(s)]
           S == {C(s) : s \in D}
<1>1. IsFiniteSet(D)
  <2>1. IsFiniteSet({1}) /\ IsFiniteSet({2}) /\ IsFiniteSet(Extra)
    BY FS_Singleton, FS_Subset
  <2>2. IsFiniteSet(Agents \X {1}) /\ IsFiniteSet(Extra \X {2})
    BY <2>1, FS_Product
  <2> QED
    BY <2>2, FS_Union DEF PairsSeeks
<1>2. IsFiniteSet(S)
  <2>1. f \in Surjection(D, S)
    BY DEF Surjection
  <2> QED BY <1>1, <2>1, FS_Surjection
<1>3. ASSUME NEW s \in D
      PROVE  /\ s[1] \in Nat /\ s[2] \in {1, 2} /\ s = <<s[1], s[2]>>
             /\ C(s).created \in Int /\ C(s).did \in Int /\ C(s).seek \in Int /\ C(s).rating \in Int
             /\ C(s).seek = 10 * s[1] + s[2]
  <2>1. s[1] \in Agents /\ s[2] \in {1, 2} /\ s = <<s[1], s[2]>>
    BY PairsSeekType
  <2>2. rating[s[1]] \in Nat /\ created[s] \in Nat /\ s[1] \in Nat
    BY <2>1
  <2> QED
    BY <2>1, <2>2
<1>4. Candidates(rating, window, busy, created) = S
  BY DEF Candidates
<1>5. \A s, t \in D : C(s).seek = C(t).seek => s = t
  BY <1>3
<1> HIDE DEF C, D
<1> QED
  BY <1>2, <1>3, <1>4, <1>5 DEF IsPool

\* A pool of the run is empty or a pool, and the pairs are those of the pass.
PassDone ==
  /\ done \in BOOLEAN
  /\ IsPool(cands)
  /\ pairs = IF done THEN Pair(cands, p) ELSE <<>>
  /\ cands = {} => ~done

\* Every step keeps to that.
LEMMA PassDoneOK == PairsSpec => []PassDone
<1>1. PairsInit => PassDone
  BY FS_EmptySet DEF PairsInit, PassDone, IsPool
<1>2. PassDone /\ [PairsNext]_pairsVars => PassDone'
  <2> SUFFICES ASSUME PassDone, [PairsNext]_pairsVars PROVE PassDone'
    OBVIOUS
  <2>1. CASE Fill
    BY <2>1, CandidatesArePool DEF Fill, PassDone
  <2>2. CASE MakePairs
    BY <2>2 DEF MakePairs, PassDone
  <2>3. CASE UNCHANGED pairsVars
    BY <2>3 DEF pairsVars, PassDone
  <2> QED
    BY <2>1, <2>2, <2>3 DEF PairsNext
<1> QED
  BY <1>1, <1>2, PTL DEF PairsSpec

\* A pass is a matching, of any pool: no seek is in two games and nobody plays
\* himself (pairing.go "two seeks from one DID never pair with each other").
THEOREM PassIsMatching == PairsSpec => []IsMatching
<1>1. PassDone => IsMatching
  <2> SUFFICES ASSUME PassDone, done PROVE IsMatching
    BY DEF PassDone, IsMatching
  <2>1. pairs = Pair(cands, p) /\ IsPool(cands)
    BY DEF PassDone
  <2>2. /\ pairs \in Seq([a: Eligible(cands), b: Eligible(cands)])
        /\ \A i \in DOMAIN pairs : pairs[i].a.did # pairs[i].b.did
        /\ \A i, j \in DOMAIN pairs : i # j =>
             \A x \in Eligible(cands) : ~(PlaysIn(pairs[i], x) /\ PlaysIn(pairs[j], x))
    BY <2>1, PairOK
  <2>3. \A i \in DOMAIN pairs : pairs[i].a \in Eligible(cands) /\ pairs[i].b \in Eligible(cands)
    BY <2>2, PairType
  <2> QED
    BY <2>2, <2>3 DEF IsMatching, PlaysIn
<1> QED
  BY <1>1, PassDoneOK, PTL

\* Where two seekers of any pool could play and do not, one of them is taken by a pair
\* made for who waited longer than both, or for one of them who got a closer partner.
THEOREM NobodyPassedOver == PairsSpec => []NobodyIsPassedOver
<1>1. PassDone => NobodyIsPassedOver
  <2> SUFFICES ASSUME PassDone, done,
                      NEW c \in Eligible(cands), NEW d \in Eligible(cands),
                      WaitsLonger(c, d), May(c, d), ~Partners(c, d)
               PROVE  \E i \in DOMAIN pairs :
                        /\ {pairs[i].a, pairs[i].b} \cap {c, d} # {}
                        /\ \/ WaitsLonger(pairs[i].a, c)
                           \/ pairs[i].a = c /\ ~Closer(c, d, pairs[i].b)
    BY DEF NobodyIsPassedOver
  <2>1. pairs = Pair(cands, p) /\ IsPool(cands)
    BY DEF PassDone
  <2>2. PlayEachOther(pairs, c, d) \/ Overtaken(pairs, c, d)
    BY <2>1, PairOK DEF May
  <2>3. c # d
    BY DEF May, Compatible
  <2>4. ~PlayEachOther(pairs, c, d)
    BY <2>3 DEF PlayEachOther, PlaysIn, Partners
  <2> QED
    BY <2>2, <2>4 DEF Overtaken, PlaysIn
<1> QED
  BY <1>1, PassDoneOK, PTL

-----------------------------------------------------------------------------
(* The seek pool: types, and the rows a pass holds on to.                  *)

Game == [first: Dids, second: Dids, active: BOOLEAN, seeks: SUBSET Seeks, at: 0..MaxNow]

Seats == {First, Second, NoSeat}

\* The candidates pairPool makes of the rows.
Seeker == [seek: Seeks, did: Dids, rating: {1500}, provisional: {TRUE}, window: {200}, max: Caps,
           active: Nat, created: 0..MaxNow, operator: {0}, lastSeat: Seats]

Couple == [a: Seeker, b: Seeker]

Ends(pr) == {pr.a, pr.b}

Known(s) == s \in Seeks /\ seeks[s] # Null

RowsTyped == seeks \in [Seeks -> Row \cup {Null}]

GamesTyped ==
  /\ games \in Seq(Game)
  /\ \A i \in DOMAIN games : \A s \in games[i].seeks : Known(s)

MemoryTyped ==
  /\ lastSeat \in [Dids -> Seats]
  /\ suspended \in [Dids -> 0..(MaxNow + NoShowSuspend)]
  /\ noShow \in [Dids -> 0..(NoShowThreshold - 1)]

PresenceTyped ==
  /\ open \in [Dids -> Nat] /\ conns = open
  /\ since \in [Dids -> 0..now \cup {Null}] /\ \A d \in Dids : open[d] > 0 => since[d] # Null
  /\ \A d \in Dids : lastSeen[d] = Null \/ lastSeen[d] \in 0..now
  /\ DOMAIN lastSeen = Dids
  /\ restarts \in Nat /\ failures \in Nat
  /\ now \in 0..MaxNow

Stations == {"idle", "expire", "deactivate", "pair", "create", "remember"}

LoopState == [pc: Stations, at: 0..now, todo: SUBSET Seeks, seek: Seeks \cup {Null}, pairs: Seq(Couple)]

LoopTyped == loop \in LoopState

\* A pass only works on rows that exist.
LoopKnows ==
  /\ \A s \in loop.todo : Known(s)
  /\ loop.pc = "deactivate" => Known(loop.seek)
  /\ \A k \in DOMAIN loop.pairs : \A c \in Ends(loop.pairs[k]) :
       Known(c.seek) /\ c.did = seeks[c.seek].did

\* The pairs a pass still has to make games of are disjoint.
PairsDisjoint ==
  /\ \A k \in DOMAIN loop.pairs : loop.pairs[k].a.did # loop.pairs[k].b.did
  /\ \A k, l \in DOMAIN loop.pairs : k # l =>
       \A c \in Ends(loop.pairs[k]), d \in Ends(loop.pairs[l]) : c.seek # d.seek

\* Between a game and its bookkeeping the pair of the game is still the first one.
AtBookkeeping ==
  /\ loop.pc \notin {"create", "remember"} => loop.pairs = <<>>
  /\ loop.pc = "remember" =>
       /\ loop.pairs # <<>> /\ games # <<>>
       /\ LastGame.seeks = {Head(loop.pairs).a.seek, Head(loop.pairs).b.seek}

MissedTyped == missed \subseteq (DOMAIN games) \X Seeks

PoolInv ==
  /\ RowsTyped /\ GamesTyped /\ MemoryTyped /\ PresenceTyped /\ LoopTyped /\ MissedTyped
  /\ LoopKnows /\ PairsDisjoint /\ AtBookkeeping

-----------------------------------------------------------------------------
(* What the steps do to the rows.                                          *)

\* A row stays, and keeps its agent, its mode and its cap.
RowsKept ==
  \A s \in Seeks : seeks[s] # Null =>
    /\ seeks'[s] # Null /\ seeks'[s].did = seeks[s].did /\ seeks'[s].mode = seeks[s].mode
    /\ seeks'[s].max = seeks[s].max

\* A row with another `active` is a row.
LEMMA InactiveRow ==
  ASSUME NEW r \in Row
  PROVE  LET q == [r EXCEPT !.active = FALSE] IN
         /\ q \in Row /\ q # Null /\ q.did = r.did /\ q.mode = r.mode /\ q.max = r.max
         /\ ~q.active
BY SeekPoolAssumption DEF Row

\* Rows that are set inactive stay rows.
LEMMA Deactivate ==
  ASSUME RowsTyped, NEW D \in SUBSET Seeks, \A s \in D : seeks[s] # Null,
         seeks' = [s \in Seeks |-> IF s \in D THEN [seeks[s] EXCEPT !.active = FALSE] ELSE seeks[s]]
  PROVE  RowsTyped' /\ RowsKept /\ \A s \in Seeks : seeks'[s] = Null => seeks[s] = Null
<1>1. ASSUME NEW s \in Seeks
      PROVE  /\ seeks'[s] \in Row \cup {Null}
             /\ seeks'[s] = Null => seeks[s] = Null
             /\ seeks[s] # Null =>
                  /\ seeks'[s] # Null /\ seeks'[s].max = seeks[s].max
                  /\ seeks'[s].did = seeks[s].did /\ seeks'[s].mode = seeks[s].mode
  <2>1. CASE s \in D
    <3>1. seeks[s] \in Row /\ seeks'[s] = [seeks[s] EXCEPT !.active = FALSE]
      BY <2>1 DEF RowsTyped
    <3> QED BY <3>1, InactiveRow
  <2>2. CASE s \notin D
    BY <2>2 DEF RowsTyped
  <2> QED BY <2>1, <2>2
<1> QED BY <1>1 DEF RowsTyped, RowsKept

\* match.seek adds a row under an id that has none.
LEMMA SeekRows ==
  ASSUME PoolInv, NEW s \in Seeks, NEW did \in Dids, Seek(s, did)
  PROVE  RowsTyped' /\ RowsKept
<1>1. PICK mode \in Modes, max \in Caps : seeks' = [seeks EXCEPT ![s] =
         [did |-> did, mode |-> mode, max |-> max, created |-> now, active |-> TRUE]]
  BY DEF Seek
<1> DEFINE r == [did |-> did, mode |-> mode, max |-> max, created |-> now, active |-> TRUE]
<1>2. r \in Row /\ r # Null
  <2>1. now \in 0..MaxNow
    BY DEF PoolInv, PresenceTyped
  <2>2. r \in Row
    BY <2>1 DEF Row
  <2>3. r # Null
    BY <2>2, SeekPoolAssumption
  <2> QED BY <2>2, <2>3
<1>3. seeks[s] = Null
  BY DEF Seek
<1>4. seeks' = [seeks EXCEPT ![s] = r]
  BY <1>1
<1> HIDE DEF r
<1> QED
  BY <1>2, <1>3, <1>4 DEF PoolInv, RowsTyped, RowsKept

\* match.cancelSeek and the expiry of a standing seek.
LEMMA OneInactive ==
  ASSUME RowsTyped, NEW s \in Seeks, seeks[s] # Null, seeks' = [seeks EXCEPT ![s].active = FALSE]
  PROVE  RowsTyped' /\ RowsKept
<1>1. seeks' = [t \in Seeks |-> IF t \in {s} THEN [seeks[t] EXCEPT !.active = FALSE] ELSE seeks[t]]
  BY DEF RowsTyped
<1> QED
  BY <1>1, Deactivate

\* The seeks that leave with their game have rows.
LEMMA LeavingRows ==
  ASSUME PoolInv, loop.pc = "remember"
  PROVE  /\ Leaving \in SUBSET Seeks /\ \A s \in Leaving : seeks[s] # Null
         /\ Len(games) \in DOMAIN games /\ LastGame = games[Len(games)] /\ LastGame \in Game
<1>1. games # <<>> /\ games \in Seq(Game)
  BY DEF PoolInv, AtBookkeeping, GamesTyped
<1>2. Len(games) \in DOMAIN games
  BY <1>1, EmptySeq, LenProperties
<1>3. LastGame \in Game
  BY <1>1, <1>2, ElementOfSeq DEF LastGame
<1> QED
  BY <1>2, <1>3 DEF PoolInv, GamesTyped, Known, Leaving, LastGame, Game

\* No step takes a row away, or gives it to another agent.
LEMMA RowsOK ==
  ASSUME PoolInv, [Next]_vars
  PROVE  RowsTyped' /\ RowsKept
<1>0. RowsTyped
  BY DEF PoolInv
<1>1. ASSUME NEW s \in Seeks, CancelSeek(s) PROVE RowsTyped' /\ RowsKept
  BY <1>0, <1>1, OneInactive DEF CancelSeek
<1>4. CASE seeks' = seeks
  BY <1>0, <1>4 DEF RowsTyped, RowsKept
<1>2. CASE ExpireStanding
  BY <1>0, <1>2, <1>4, OneInactive DEF ExpireStanding, PoolInv, LoopKnows, Known
<1>3. CASE Bookkeep
  <2>1. PICK L \in SUBSET Leaving : Leave(L)
    BY <1>3 DEF Bookkeep
  <2>2. L \in SUBSET Seeks /\ \A s \in L : seeks[s] # Null
    BY <1>3, LeavingRows DEF Bookkeep
  <2> QED
    BY <1>0, <2>1, <2>2, Deactivate DEF Leave
<1>5. \/ \E s \in Seeks : CancelSeek(s) \/ \E did \in Dids : Seek(s, did)
      \/ ExpireStanding \/ Bookkeep
      \/ seeks' = seeks
  BY DEF Next, Connect, Disconnect, Pass, StartPass, CheckPresence, ListActive, PairPool, EndPass,
         CreateGame, FinishGame, Played, NoShow, Tick, Restart, GiveUp, vars, tables
<1> QED
  BY <1>1, <1>2, <1>3, <1>4, <1>5, SeekRows

-----------------------------------------------------------------------------
(* What a pass makes of the rows.                                          *)

\* The games of an agent are some of the games: finitely many.
LEMMA PlayingFinite ==
  ASSUME GamesTyped, NEW did
  PROVE  Playing(did) \subseteq DOMAIN games /\ IsFiniteSet(Playing(did)) /\ ActiveGames(did) \in Nat
<1>1. DOMAIN games = 1..Len(games) /\ Len(games) \in Nat
  BY DEF GamesTyped
<1>2. Playing(did) \in SUBSET (1..Len(games))
  BY <1>1 DEF Playing
<1>3. IsFiniteSet(1..Len(games))
  BY <1>1, FS_Interval
<1> QED
  BY <1>1, <1>2, <1>3, FS_Subset, FS_CardinalityType DEF ActiveGames

\* A candidate shows the row it is made of.
LEMMA CandidateOK ==
  ASSUME PoolInv, NEW s, Known(s)
  PROVE  /\ Candidate(s) \in Seeker
         /\ Candidate(s).seek = s /\ Candidate(s).did = seeks[s].did
         /\ Candidate(s).active = ActiveGames(seeks[s].did) /\ Candidate(s).max = seeks[s].max
<1>1. seeks[s] \in Row /\ s \in Seeks
  BY DEF PoolInv, RowsTyped, Known
<1>2. seeks[s].did \in Dids /\ seeks[s].created \in 0..MaxNow /\ seeks[s].max \in Caps
  BY <1>1 DEF Row
<1>3. lastSeat[seeks[s].did] \in Seats
  BY <1>2 DEF PoolInv, MemoryTyped
<1>4. ActiveGames(seeks[s].did) \in Nat
  BY PlayingFinite DEF PoolInv
<1> QED
  BY <1>1, <1>2, <1>3, <1>4 DEF Candidate, Seeker

\* Agents, seeks, ratings and times are numbers.
LEMMA SeekerNumbers ==
  ASSUME NEW c \in Seeker
  PROVE  c.created \in Int /\ c.did \in Int /\ c.seek \in Int /\ c.rating \in Int
<1>1. c.did \in Dids /\ c.seek \in Seeks /\ c.created \in 0..MaxNow /\ c.rating \in {1500}
  BY DEF Seeker
<1>2. \A x \in Dids : x \in Int
  BY SeekPoolAssumption
<1>3. \A x \in Seeks : x \in Int
  BY SeekPoolAssumption
<1> QED
  BY <1>1, <1>2, <1>3

\* The candidates of a pass are a pool.
LEMMA PassIsPool ==
  ASSUME PoolInv
  PROVE  /\ IsPool({Candidate(s) : s \in loop.todo})
         /\ {Candidate(s) : s \in loop.todo} \subseteq Seeker
<1> DEFINE D == loop.todo
           S == {Candidate(s) : s \in D}
           f == [s \in D |-> Candidate(s)]
<1>1. IsFiniteSet(D)
  <2>1. D \in SUBSET Seeks
    BY DEF PoolInv, LoopTyped, LoopState
  <2> QED BY <2>1, SeekPoolAssumption, FS_Subset
<1>2. IsFiniteSet(S)
  <2>1. f \in Surjection(D, S)
    BY DEF Surjection
  <2> QED BY <1>1, <2>1, FS_Surjection
<1>3. ASSUME NEW s \in D
      PROVE  /\ Candidate(s) \in Seeker /\ Candidate(s).seek = s
             /\ Candidate(s).created \in Int /\ Candidate(s).did \in Int
             /\ Candidate(s).seek \in Int /\ Candidate(s).rating \in Int
  <2>1. Candidate(s) \in Seeker /\ Candidate(s).seek = s
    BY CandidateOK DEF PoolInv, LoopKnows
  <2> QED
    BY <2>1, SeekerNumbers
<1> HIDE DEF D, f
<1>4. /\ S \subseteq Seeker
      /\ \A c \in S : c.created \in Int /\ c.did \in Int /\ c.seek \in Int /\ c.rating \in Int
  BY <1>3
<1>5. \A c, d \in S : c.seek = d.seek => c = d
  BY <1>3
<1> QED
  BY <1>2, <1>4, <1>5 DEF IsPool, D

\* What pairPool makes of the seeks it listed: couples of different agents, with
\* every seek in one couple at most, and of agents that may play.
LEMMA PairPoolOK ==
  ASSUME PoolInv, PairPool
  PROVE  LET ps == loop'.pairs IN
         /\ ps \in Seq(Couple)
         /\ \A k \in DOMAIN ps :
              /\ ps[k].a.did # ps[k].b.did
              /\ \A c \in Ends(ps[k]) :
                   c.seek \in loop.todo /\ c = Candidate(c.seek) /\ ~(c.max > 0 /\ c.active >= c.max)
         /\ \A k, l \in DOMAIN ps : k # l =>
              \A c \in Ends(ps[k]), d \in Ends(ps[l]) : c.seek # d.seek
<1> DEFINE S == {Candidate(s) : s \in loop.todo}
           pool == Eligible(S)
           ps == loop'.pairs
<1>1. loop \in LoopState
  BY DEF PoolInv, LoopTyped
<1>2. ps = IF Cardinality(loop.todo) < 2 THEN <<>> ELSE Pair(S, Params)
  BY <1>1 DEF PairPool, LoopState
<1>3. CASE ps = <<>>
  BY <1>3
<1>4. CASE ps = Pair(S, Params)
  <2>0. IsPool(S) /\ S \subseteq Seeker
    BY PassIsPool
  <2>00. \A c \in S : c.seek \in loop.todo /\ c = Candidate(c.seek)
    BY CandidateOK DEF PoolInv, LoopKnows
  <2> HIDE DEF S
  <2>1. /\ ps \in Seq([a: pool, b: pool])
        /\ \A k \in DOMAIN ps : ps[k].a.did # ps[k].b.did
        /\ \A k, l \in DOMAIN ps : k # l =>
             \A x \in pool : ~(PlaysIn(ps[k], x) /\ PlaysIn(ps[l], x))
    BY <1>4, <2>0, PairOK
  <2>2. pool \subseteq S /\ \A c \in pool : ~(c.max > 0 /\ c.active >= c.max)
    BY DEF Eligible
  <2> HIDE DEF ps, pool
  <2>3. \A k \in DOMAIN ps : ps[k].a \in pool /\ ps[k].b \in pool
    BY <2>1, PairType
  <2>4. ps \in Seq(Couple)
    <3>1. [a: pool, b: pool] \subseteq Couple
      BY <2>0, <2>2 DEF Couple
    <3> QED BY <2>1, <3>1, SeqSubset
  <2>5. ASSUME NEW k \in DOMAIN ps, NEW l \in DOMAIN ps, k # l,
               NEW c \in Ends(ps[k]), NEW d \in Ends(ps[l])
        PROVE  c.seek # d.seek
    <3>1. c \in pool /\ d \in pool /\ PlaysIn(ps[k], c) /\ PlaysIn(ps[l], d)
      BY <2>3, <2>5 DEF Ends, PlaysIn
    <3>2. c # d
      BY <2>1, <2>5, <3>1
    <3> QED
      BY <2>00, <2>2, <3>1, <3>2
  <2>6. ASSUME NEW k \in DOMAIN ps, NEW c \in Ends(ps[k])
        PROVE  c.seek \in loop.todo /\ c = Candidate(c.seek) /\ ~(c.max > 0 /\ c.active >= c.max)
    BY <2>00, <2>2, <2>3, <2>6 DEF Ends
  <2> QED
    BY <2>1, <2>4, <2>5, <2>6 DEF ps
<1> QED
  BY <1>2, <1>3, <1>4

\* The first couple of a pass that makes a game.
LEMMA HeadOK ==
  ASSUME PoolInv, loop.pairs # <<>>
  PROVE  /\ 1 \in DOMAIN loop.pairs /\ Head(loop.pairs) = loop.pairs[1] /\ loop.pairs[1] \in Couple
         /\ Tail(loop.pairs) \in Seq(Couple)
         /\ \A k \in DOMAIN Tail(loop.pairs) :
              k + 1 \in DOMAIN loop.pairs /\ k + 1 # 1 /\ Tail(loop.pairs)[k] = loop.pairs[k + 1]
<1>1. loop.pairs \in Seq(Couple)
  BY DEF PoolInv, LoopTyped, LoopState
<1> QED
  BY <1>1

\* The game of a couple.
LEMMA GameMade ==
  ASSUME PoolInv, CreateGame
  PROVE  \E g \in Game :
           /\ games' = Append(games, g)
           /\ g.seeks = {loop.pairs[1].a.seek, loop.pairs[1].b.seek}
           /\ {g.first, g.second} = {loop.pairs[1].a.did, loop.pairs[1].b.did}
<1> DEFINE pr == loop.pairs[1]
<1>1. Head(loop.pairs) = pr /\ pr \in Couple /\ pr.a.did # pr.b.did
  BY HeadOK DEF CreateGame, PoolInv, PairsDisjoint
<1>2. PICK f \in MayMoveFirst(pr) :
        LET h == CHOOSE c \in {pr.a, pr.b} : c # f IN
        games' = Append(games, [first |-> f.did, second |-> h.did, active |-> TRUE,
                                seeks |-> {f.seek, h.seek}, at |-> now])
  BY <1>1 DEF CreateGame
<1> HIDE DEF pr
<1>3. f \in {pr.a, pr.b}
  BY DEF MayMoveFirst
<1> DEFINE h == CHOOSE c \in {pr.a, pr.b} : c # f
<1>4. h \in {pr.a, pr.b} /\ h # f
  BY <1>1, <1>3
<1> DEFINE g == [first |-> f.did, second |-> h.did, active |-> TRUE, seeks |-> {f.seek, h.seek}, at |-> now]
<1>5. games' = Append(games, g)
  BY <1>2
<1> HIDE DEF h
<1>6. {f.did, h.did} = {pr.a.did, pr.b.did} /\ {f.seek, h.seek} = {pr.a.seek, pr.b.seek}
  BY <1>3, <1>4
<1>7. f \in Seeker /\ h \in Seeker
  BY <1>1, <1>3, <1>4 DEF Couple
<1>8. g \in Game
  BY <1>7 DEF Game, Seeker, PoolInv, PresenceTyped
<1> QED
  BY <1>5, <1>6, <1>8 DEF pr

-----------------------------------------------------------------------------
(* Every step keeps PoolInv, part by part.                                 *)

\* A row that is known stays known.
LEMMA KnownStays == ASSUME RowsKept, NEW s, Known(s) PROVE Known(s)' /\ seeks'[s].did = seeks[s].did
BY DEF RowsKept, Known

\* What the end of a game changes in it.
LEMMA GameEnds ==
  ASSUME GamesTyped, NEW i \in DOMAIN games, games' = [games EXCEPT ![i].active = FALSE]
  PROVE  /\ games' \in Seq(Game) /\ DOMAIN games' = DOMAIN games /\ Len(games') = Len(games)
         /\ \A j \in DOMAIN games :
              /\ games'[j].seeks = games[j].seeks
              /\ games'[j].active => games[j].active
              /\ games'[j].first = games[j].first /\ games'[j].second = games[j].second
<1> DEFINE g == [games[i] EXCEPT !.active = FALSE]
<1>1. games \in Seq(Game) /\ games[i] \in Game
  BY ElementOfSeq DEF GamesTyped
<1>2. /\ g \in Game /\ g.seeks = games[i].seeks /\ ~g.active
      /\ g.first = games[i].first /\ g.second = games[i].second
  BY <1>1 DEF Game
<1>3. games' = [games EXCEPT ![i] = g]
  BY <1>1
<1> HIDE DEF g
<1>4. games' \in Seq(Game) /\ Len(games') = Len(games) /\ DOMAIN games' = DOMAIN games
  <2>1. i \in 1..Len(games)
    BY <1>1
  <2>2. games' \in Seq(Game) /\ Len(games') = Len(games)
    <3>1. [games EXCEPT ![i] = g] \in Seq(Game) /\ Len([games EXCEPT ![i] = g]) = Len(games)
      BY <1>1, <1>2, <2>1, ExceptSeq, Zenon
    <3> QED BY <1>3, <3>1
  <2> QED BY <1>1, <2>2
<1>5. \A j \in DOMAIN games : games'[j] = IF j = i THEN g ELSE games[j]
  BY <1>3
<1> QED
  BY <1>2, <1>4, <1>5

\* The games are games of known seeks.
LEMMA GamesOK ==
  ASSUME PoolInv, [Next]_vars
  PROVE  GamesTyped'
<1>0. GamesTyped /\ RowsKept
  BY RowsOK DEF PoolInv
<1>1. CASE games' = games
  BY <1>0, <1>1, KnownStays DEF GamesTyped
<1>2. CASE CreateGame
  <2>1. PICK g \in Game : /\ games' = Append(games, g)
                          /\ g.seeks = {loop.pairs[1].a.seek, loop.pairs[1].b.seek}
    BY <1>2, GameMade
  <2>2. \A s \in g.seeks : Known(s)
    BY <1>2, <2>1, HeadOK DEF CreateGame, PoolInv, LoopKnows, Ends
  <2>3. /\ games' \in Seq(Game) /\ DOMAIN games' = DOMAIN games \cup {Len(games) + 1}
        /\ \A i \in DOMAIN games : games'[i] = games[i]
        /\ games'[Len(games) + 1] = g
    BY <1>0, <2>1, OneMorePair DEF GamesTyped
  <2> QED
    BY <1>0, <2>2, <2>3, KnownStays DEF GamesTyped
<1>3. ASSUME NEW i \in DOMAIN games, FinishGame(i) PROVE GamesTyped'
  <2>1. games' = [games EXCEPT ![i].active = FALSE]
    BY <1>3 DEF FinishGame, Played, NoShow
  <2>2. /\ games' \in Seq(Game) /\ DOMAIN games' = DOMAIN games
        /\ \A j \in DOMAIN games : games'[j].seeks = games[j].seeks
    BY <1>0, <2>1, GameEnds
  <2> QED
    BY <1>0, <2>2, KnownStays DEF GamesTyped
<1>4. \/ games' = games \/ CreateGame \/ \E i \in DOMAIN games : FinishGame(i)
  BY DEF Next, CancelSeek, Seek, Connect, Disconnect, Pass, StartPass, CheckPresence, ExpireStanding,
         ListActive, PairPool, EndPass, Bookkeep, Tick, Restart, GiveUp, vars, tables
<1> QED
  BY <1>1, <1>2, <1>3, <1>4

\* Streaks, suspensions and seats.
LEMMA MemoryOK ==
  ASSUME PoolInv, [Next]_vars
  PROVE  MemoryTyped'
<1> USE SeekPoolAssumption DEF MemoryTyped
<1>0. MemoryTyped /\ games \in Seq(Game) /\ now \in 0..MaxNow
  BY DEF PoolInv, GamesTyped, PresenceTyped
<1>1. CASE UNCHANGED <<lastSeat, suspended, noShow>>
  BY <1>0, <1>1
<1>2. CASE Bookkeep
  <2>1. lastSeat' = lastSeat \/
        lastSeat' = [lastSeat EXCEPT ![LastGame.first] = First, ![LastGame.second] = Second]
    BY <1>2 DEF Bookkeep
  <2>2. LastGame.first \in Dids /\ LastGame.second \in Dids
    BY <1>2, LeavingRows DEF Bookkeep, Game
  <2>3. lastSeat' \in [Dids -> Seats]
    BY <1>0, <2>1, <2>2 DEF Seats
  <2> QED
    BY <1>0, <1>2, <2>3 DEF Bookkeep, memory
<1>3. ASSUME NEW i \in DOMAIN games, NEW did \in Dids, NoShow(i, did) PROVE MemoryTyped'
  <2>1. CASE IsPutUpWith(did)
    <3>1. noShow' = [noShow EXCEPT ![did] = @ + 1] /\ UNCHANGED <<suspended, lastSeat>>
      BY <1>3, <2>1 DEF NoShow
    <3>2. noShow[did] + 1 \in 0..(NoShowThreshold - 1)
      BY <1>0, <2>1 DEF IsPutUpWith
    <3> QED BY <1>0, <3>1, <3>2
  <2>2. CASE ~IsPutUpWith(did)
    <3>1. /\ noShow' = [noShow EXCEPT ![did] = 0] /\ UNCHANGED lastSeat
          /\ suspended' = [suspended EXCEPT ![did] = now + NoShowSuspend]
      BY <1>3, <2>2 DEF NoShow
    <3>2. now + NoShowSuspend \in 0..(MaxNow + NoShowSuspend) /\ 0 \in 0..(NoShowThreshold - 1)
      BY <1>0
    <3> QED BY <1>0, <3>1, <3>2
  <2> QED BY <2>1, <2>2
<1>4. ASSUME NEW i \in DOMAIN games, Played(i) PROVE MemoryTyped'
  <2>1. noShow' = [noShow EXCEPT ![games[i].first] = 0, ![games[i].second] = 0]
    BY <1>4 DEF Played
  <2>2. 0 \in 0..(NoShowThreshold - 1)
    OBVIOUS
  <2>3. noShow' \in [Dids -> 0..(NoShowThreshold - 1)]
    BY <1>0, <2>1, <2>2
  <2> QED BY <1>0, <1>4, <2>3 DEF Played
<1>5. CASE Restart
  BY <1>0, <1>5 DEF Restart, tables
<1>6. \/ UNCHANGED <<lastSeat, suspended, noShow>> \/ Bookkeep \/ Restart
      \/ \E i \in DOMAIN games : Played(i) \/ \E did \in Dids : NoShow(i, did)
  BY DEF Next, CancelSeek, Seek, Connect, Disconnect, Pass, StartPass, CheckPresence, ExpireStanding,
         ListActive, PairPool, EndPass, CreateGame, FinishGame, Tick, GiveUp, vars, tables, memory
<1> QED
  BY <1>1, <1>2, <1>3, <1>4, <1>5, <1>6

\* Who is connected, and the clock.
LEMMA PresenceOK ==
  ASSUME PoolInv, [Next]_vars
  PROVE  PresenceTyped'
<1> USE SeekPoolAssumption DEF PresenceTyped
<1>0. PresenceTyped
  BY DEF PoolInv
<1>1. CASE UNCHANGED <<open, conns, since, lastSeen, restarts, failures, now>>
  BY <1>0, <1>1
<1>2. ASSUME NEW did \in Dids, Connect(did) PROVE PresenceTyped'
  BY <1>0, <1>2 DEF Connect
<1>3. ASSUME NEW did \in Dids, Disconnect(did) PROVE PresenceTyped'
  <2>1. ConnsAfterClosing(did) = open[did] - 1
    BY <1>0, <1>3 DEF ConnsAfterClosing, Disconnect
  <2> QED
    BY <1>0, <1>3, <2>1 DEF Disconnect, bounds
<1>4. CASE Tick
  <2>1. now' = now + 1 /\ now' \in 0..MaxNow /\ UNCHANGED <<open, conns, since, lastSeen, restarts, failures>>
    BY <1>0, <1>4 DEF Tick, memory, world, bounds
  <2>2. \A x : x \in 0..now => x \in 0..now'
    BY <1>0, <2>1
  <2> QED BY <1>0, <2>1, <2>2
<1>5. CASE Restart
  BY <1>0, <1>5 DEF Restart
<1>6. CASE Bookkeep \/ GiveUp \/ ExpireStanding
  BY <1>0, <1>6 DEF Bookkeep, GiveUp, ExpireStanding, memory, world
<1>7. \/ UNCHANGED <<open, conns, since, lastSeen, restarts, failures, now>> \/ Tick \/ Restart
      \/ Bookkeep \/ GiveUp \/ ExpireStanding
      \/ \E did \in Dids : Connect(did) \/ Disconnect(did)
  BY DEF Next, CancelSeek, Seek, Pass, StartPass, CheckPresence, Played, NoShow,
         ListActive, PairPool, EndPass, CreateGame, FinishGame, vars, memory, world, bounds
<1> QED
  BY <1>1, <1>2, <1>3, <1>4, <1>5, <1>6, <1>7

\* A pass without pairs only has to know the seeks it lists.
LEMMA LoopWithoutPairs ==
  ASSUME RowsKept, loop' \in LoopState', loop'.pairs = <<>>, loop'.pc # "remember",
         \A s \in loop'.todo : Known(s), loop'.pc = "deactivate" => Known(loop'.seek)
  PROVE  LoopTyped' /\ LoopKnows' /\ PairsDisjoint' /\ AtBookkeeping'
BY KnownStays DEF LoopTyped, LoopKnows, PairsDisjoint, AtBookkeeping

\* A step of anybody else.
LEMMA LoopUntouched ==
  ASSUME PoolInv, RowsKept, loop' = loop, now' \in Nat, now' >= now,
         games' = games \/ \E i \in DOMAIN games : games' = [games EXCEPT ![i].active = FALSE]
  PROVE  LoopTyped' /\ LoopKnows' /\ PairsDisjoint' /\ AtBookkeeping'
<1>1. LoopTyped'
  <2>1. \A x \in 0..now : x \in 0..now'
    BY DEF PoolInv, PresenceTyped
  <2> QED
    BY <2>1 DEF PoolInv, LoopTyped, LoopState
<1>2. LoopKnows'
  BY KnownStays DEF PoolInv, LoopKnows
<1>3. PairsDisjoint'
  BY DEF PoolInv, PairsDisjoint
<1>4. AtBookkeeping'
  <2> SUFFICES ASSUME loop.pc = "remember"
               PROVE  games' # <<>> /\ LastGame'.seeks = LastGame.seeks
    BY DEF PoolInv, AtBookkeeping
  <2>1. Len(games) \in DOMAIN games /\ LastGame = games[Len(games)] /\ games # <<>>
    BY LeavingRows DEF PoolInv, AtBookkeeping
  <2>2. CASE games' = games
    BY <2>1, <2>2 DEF LastGame
  <2>3. CASE \E i \in DOMAIN games : games' = [games EXCEPT ![i].active = FALSE]
    <3>1. /\ DOMAIN games' = DOMAIN games /\ Len(games') = Len(games)
          /\ \A j \in DOMAIN games : games'[j].seeks = games[j].seeks
      BY <2>3, GameEnds DEF PoolInv
    <3>2. games' # <<>>
      BY <2>1, <3>1
    <3> QED
      BY <2>1, <3>1, <3>2 DEF LastGame
  <2> QED
    BY <2>2, <2>3
<1> QED
  BY <1>1, <1>2, <1>3, <1>4

\* The first half of a pass, which has no pairs, and its ends.
LEMMA ListingOK ==
  ASSUME PoolInv, RowsKept, StartPass \/ CheckPresence \/ ExpireStanding \/ ListActive \/ EndPass \/ GiveUp \/ Restart
  PROVE  LoopTyped' /\ LoopKnows' /\ PairsDisjoint' /\ AtBookkeeping'
<1>0. /\ loop \in LoopState /\ now \in 0..MaxNow /\ MaxNow \in Nat
      /\ \A s \in loop.todo : Known(s)
      /\ loop.pc \notin {"create", "remember"} => loop.pairs = <<>>
  BY SeekPoolAssumption DEF PoolInv, LoopTyped, PresenceTyped, LoopKnows, AtBookkeeping
<1>1. \A s \in Active : Known(s) /\ s \in Seeks
  BY DEF Active, Known
<1>2. <<>> \in Seq(Couple)
  OBVIOUS
<1>3. CASE StartPass
  <2>1. /\ now' = now
        /\ loop' = [pc |-> "expire", at |-> now, todo |-> {s \in Active : seeks[s].mode = "standing"},
                    seek |-> Null, pairs |-> <<>>]
    BY <1>3 DEF StartPass, Idle
  <2>2. loop' \in LoopState'
    BY <1>0, <1>1, <1>2, <2>1 DEF LoopState, Stations
  <2> QED
    BY <1>1, <2>1, <2>2, LoopWithoutPairs
<1>4. CASE CheckPresence
  <2>1. PICK s \in loop.todo :
          loop' = IF GoneSince(seeks[s].did, loop.at - StandingExpire)
                  THEN [loop EXCEPT !.pc = "deactivate", !.seek = s, !.todo = @ \ {s}]
                  ELSE [loop EXCEPT !.todo = @ \ {s}]
    BY <1>4 DEF CheckPresence
  <2>2. loop.pc = "expire" /\ now' = now /\ Known(s)
    BY <1>0, <1>4 DEF CheckPresence
  <2>3. CASE loop' = [loop EXCEPT !.pc = "deactivate", !.seek = s, !.todo = @ \ {s}]
    <3>1. /\ loop' \in LoopState' /\ loop'.pairs = <<>> /\ loop'.pc = "deactivate" /\ loop'.seek = s
          /\ loop'.todo = loop.todo \ {s}
      BY <1>0, <2>2, <2>3 DEF LoopState, Stations
    <3> QED
      BY <1>0, <2>2, <3>1, LoopWithoutPairs
  <2>4. CASE loop' = [loop EXCEPT !.todo = @ \ {s}]
    <3>1. /\ loop' \in LoopState' /\ loop'.pairs = <<>> /\ loop'.pc = "expire"
          /\ loop'.todo = loop.todo \ {s}
      BY <1>0, <2>2, <2>4 DEF LoopState, Stations
    <3> QED
      BY <1>0, <3>1, LoopWithoutPairs
  <2> QED
    BY <2>1, <2>3, <2>4
<1>5. CASE ExpireStanding
  <2>1. now' = now /\ loop.pc = "deactivate" /\ loop' = [loop EXCEPT !.pc = "expire", !.seek = Null]
    BY <1>5 DEF ExpireStanding
  <2>2. /\ loop' \in LoopState' /\ loop'.pairs = <<>> /\ loop'.pc = "expire" /\ loop'.todo = loop.todo
    BY <1>0, <2>1 DEF LoopState, Stations
  <2> QED
    BY <1>0, <2>2, LoopWithoutPairs
<1>6. CASE ListActive
  <2>1. now' = now /\ loop.pc = "expire" /\ loop' = [loop EXCEPT !.pc = "pair", !.todo = Active]
    BY <1>6 DEF ListActive
  <2>2. /\ loop' \in LoopState' /\ loop'.pairs = <<>> /\ loop'.pc = "pair" /\ loop'.todo = Active
    BY <1>0, <1>1, <2>1 DEF LoopState, Stations
  <2> QED
    BY <1>1, <2>2, LoopWithoutPairs
<1>7. CASE EndPass \/ GiveUp \/ Restart
  <2>1. now' = now /\ loop' = Idle
    BY <1>7 DEF EndPass, GiveUp, Restart, Stop
  <2>2. loop' \in LoopState' /\ loop'.pairs = <<>> /\ loop'.pc = "idle" /\ loop'.todo = {}
    BY <1>0, <1>2, <2>1 DEF LoopState, Stations, Idle
  <2> QED
    BY <2>2, LoopWithoutPairs
<1> QED
  BY <1>3, <1>4, <1>5, <1>6, <1>7

\* The second half of a pass, which makes games of its pairs.
LEMMA MakingOK ==
  ASSUME PoolInv, RowsKept, PairPool \/ CreateGame \/ Bookkeep
  PROVE  LoopTyped' /\ LoopKnows' /\ PairsDisjoint' /\ AtBookkeeping'
<1>0. loop \in LoopState
  BY DEF PoolInv, LoopTyped
<1>1. CASE PairPool
  <2> DEFINE ps == loop'.pairs
  <2>1. /\ ps \in Seq(Couple)
        /\ \A k \in DOMAIN ps : ps[k].a.did # ps[k].b.did
        /\ \A k \in DOMAIN ps : \A c \in Ends(ps[k]) : c.seek \in loop.todo /\ c = Candidate(c.seek)
        /\ \A k, l \in DOMAIN ps : k # l =>
             \A c \in Ends(ps[k]), d \in Ends(ps[l]) : c.seek # d.seek
    BY <1>1, PairPoolOK
  <2>2. loop' = [loop EXCEPT !.pc = "create", !.todo = {}, !.pairs = ps] /\ now' = now /\ seeks' = seeks
    BY <1>0, <1>1 DEF PairPool, LoopState, tables
  <2> HIDE DEF ps
  <2>3. loop' \in LoopState' /\ loop'.pc = "create" /\ loop'.todo = {} /\ loop'.pairs = ps
    BY <1>0, <2>1, <2>2 DEF LoopState, Stations
  <2>4. \A k \in DOMAIN ps : \A c \in Ends(ps[k]) : Known(c.seek) /\ c.did = seeks[c.seek].did
    BY <2>1, CandidateOK DEF PoolInv, LoopKnows
  <2> QED
    BY <2>1, <2>2, <2>3, <2>4 DEF LoopTyped, LoopKnows, PairsDisjoint, AtBookkeeping, Known
<1>2. CASE CreateGame
  <2>1. /\ loop.pc = "create" /\ loop.pairs # <<>> /\ now' = now /\ seeks' = seeks
        /\ loop' = [loop EXCEPT !.pc = "remember"]
    BY <1>2 DEF CreateGame
  <2>2. /\ loop' \in LoopState' /\ loop'.pc = "remember" /\ loop'.todo = loop.todo
        /\ loop'.pairs = loop.pairs
    BY <1>0, <2>1 DEF LoopState, Stations
  <2>3. PICK g \in Game : /\ games' = Append(games, g)
                          /\ g.seeks = {loop.pairs[1].a.seek, loop.pairs[1].b.seek}
    BY <1>2, GameMade
  <2>4. games' # <<>> /\ LastGame' = g
    BY <2>3 DEF LastGame, PoolInv, GamesTyped
  <2>5. Head(loop.pairs) = loop.pairs[1]
    BY <2>1, HeadOK
  <2>6. AtBookkeeping'
    BY <2>1, <2>2, <2>3, <2>4, <2>5 DEF AtBookkeeping
  <2> QED
    BY <2>1, <2>2, <2>6 DEF PoolInv, LoopTyped, LoopKnows, PairsDisjoint, Known
<1>3. CASE Bookkeep
  <2>1. /\ loop.pc = "remember" /\ loop.pairs # <<>> /\ now' = now
        /\ loop' = [loop EXCEPT !.pc = "create", !.pairs = Tail(@)]
    BY <1>3 DEF Bookkeep, PoolInv, AtBookkeeping
  <2>2. /\ Tail(loop.pairs) \in Seq(Couple)
        /\ \A k \in DOMAIN Tail(loop.pairs) :
             k + 1 \in DOMAIN loop.pairs /\ Tail(loop.pairs)[k] = loop.pairs[k + 1]
        /\ \A k, l \in DOMAIN Tail(loop.pairs) : k # l => k + 1 # l + 1
    BY <2>1, HeadOK
  <2>3. /\ loop' \in LoopState' /\ loop'.pc = "create" /\ loop'.todo = loop.todo
        /\ loop'.pairs = Tail(loop.pairs)
    BY <1>0, <2>1, <2>2 DEF LoopState, Stations
  <2>4. LoopKnows'
    <3>1. \A k \in DOMAIN loop'.pairs : \A c \in Ends(loop'.pairs[k]) :
            Known(c.seek) /\ c.did = seeks[c.seek].did
      BY <2>2, <2>3 DEF PoolInv, LoopKnows
    <3>2. \A s \in loop'.todo : Known(s)
      BY <2>3 DEF PoolInv, LoopKnows
    <3> QED
      BY <2>3, <3>1, <3>2, KnownStays DEF LoopKnows
  <2>5. PairsDisjoint'
    <3>1. \A k \in DOMAIN loop'.pairs : loop'.pairs[k].a.did # loop'.pairs[k].b.did
      BY <2>2, <2>3 DEF PoolInv, PairsDisjoint
    <3>2. ASSUME NEW k \in DOMAIN loop'.pairs, NEW l \in DOMAIN loop'.pairs, k # l,
                 NEW c \in Ends(loop'.pairs[k]), NEW d \in Ends(loop'.pairs[l])
          PROVE  c.seek # d.seek
      <4>1. /\ k + 1 \in DOMAIN loop.pairs /\ loop'.pairs[k] = loop.pairs[k + 1]
            /\ l + 1 \in DOMAIN loop.pairs /\ loop'.pairs[l] = loop.pairs[l + 1]
            /\ k + 1 # l + 1
        BY <2>2, <2>3, <3>2
      <4>2. c \in Ends(loop.pairs[k + 1]) /\ d \in Ends(loop.pairs[l + 1])
        BY <3>2, <4>1, Zenon
      <4> DEFINE m == k + 1
                 n == l + 1
      <4> HIDE DEF m, n
      <4>3. /\ m \in DOMAIN loop.pairs /\ n \in DOMAIN loop.pairs /\ m # n
            /\ c \in Ends(loop.pairs[m]) /\ d \in Ends(loop.pairs[n])
        BY <4>1, <4>2 DEF m, n
      <4> QED BY <4>3, Zenon DEF PoolInv, PairsDisjoint
    <3> QED BY <3>1, <3>2, Zenon DEF PairsDisjoint
  <2> QED
    BY <2>3, <2>4, <2>5 DEF LoopTyped, AtBookkeeping
<1> QED
  BY <1>1, <1>2, <1>3

\* Every step keeps the pass in order.
LEMMA LoopOK ==
  ASSUME PoolInv, [Next]_vars
  PROVE  LoopTyped' /\ LoopKnows' /\ PairsDisjoint' /\ AtBookkeeping'
<1>0. RowsKept /\ now \in Nat
  BY RowsOK, SeekPoolAssumption DEF PoolInv, PresenceTyped
<1>1. ASSUME loop' = loop, now' = now,
             games' = games \/ \E i \in DOMAIN games : games' = [games EXCEPT ![i].active = FALSE]
      PROVE  LoopTyped' /\ LoopKnows' /\ PairsDisjoint' /\ AtBookkeeping'
  BY <1>0, <1>1, LoopUntouched
<1>2. CASE Tick
  BY <1>0, <1>2, LoopUntouched DEF Tick, tables
<1>3. \/ StartPass \/ CheckPresence \/ ExpireStanding \/ ListActive \/ EndPass \/ GiveUp \/ Restart
      \/ PairPool \/ CreateGame \/ Bookkeep \/ Tick
      \/ /\ loop' = loop /\ now' = now
         /\ games' = games \/ \E i \in DOMAIN games : games' = [games EXCEPT ![i].active = FALSE]
  BY DEF Next, CancelSeek, Seek, Connect, Disconnect, Pass, FinishGame, Played, NoShow, vars, tables
<1> QED
  BY <1>0, <1>1, <1>2, <1>3, ListingOK, MakingOK

\* What was missed was missed after a game that was made.
LEMMA MissedOK ==
  ASSUME PoolInv, [Next]_vars
  PROVE  MissedTyped'
<1>0. MissedTyped /\ games \in Seq(Game)
  BY DEF PoolInv, GamesTyped
<1>1. DOMAIN games \subseteq DOMAIN games'
  <2>1. CASE CreateGame
    <3>1. PICK g \in Game : games' = Append(games, g)
      BY <2>1, GameMade
    <3> QED BY <1>0, <3>1, OneMorePair
  <2>2. CASE games' = games \/ \E i \in DOMAIN games : games' = [games EXCEPT ![i].active = FALSE]
    BY <2>2, GameEnds DEF PoolInv
  <2>3. CreateGame \/ games' = games \/ \E i \in DOMAIN games : games' = [games EXCEPT ![i].active = FALSE]
    BY DEF Next, CancelSeek, Seek, Connect, Disconnect, Pass, StartPass, CheckPresence, ExpireStanding, ListActive,
           PairPool, EndPass, Bookkeep, FinishGame, Played, NoShow, Tick, Restart, GiveUp, vars, tables
  <2> QED BY <2>1, <2>2, <2>3
<1>2. CASE missed' = missed
  BY <1>0, <1>1, <1>2 DEF MissedTyped
<1>3. CASE loop.pc = "remember" /\ missed' \subseteq missed \cup {Len(games)} \X Leaving
  BY <1>0, <1>1, <1>3, LeavingRows DEF MissedTyped
<1>4. \/ missed' = missed
      \/ loop.pc = "remember" /\ missed' \subseteq missed \cup {Len(games)} \X Leaving
  <2>1. CASE Bookkeep
    BY <2>1 DEF Bookkeep, Leave
  <2>2. CASE GiveUp \/ Restart
    BY <2>2 DEF GiveUp, Restart, Stop
  <2> QED
    BY <2>1, <2>2 DEF Next, CancelSeek, Seek, Connect, Disconnect, Pass, StartPass, CheckPresence, ExpireStanding,
       ListActive, PairPool, EndPass, CreateGame, FinishGame, Played, NoShow, Tick, vars
<1> QED BY <1>2, <1>3, <1>4

\* Before the first seek.
LEMMA PoolInitOK == Init => PoolInv
<1> SUFFICES ASSUME Init PROVE PoolInv
  OBVIOUS
<1> USE SeekPoolAssumption DEF Init
<1>1. RowsTyped /\ GamesTyped /\ MissedTyped
  BY DEF RowsTyped, GamesTyped, MissedTyped
<1>2. MemoryTyped
  BY DEF MemoryTyped, Seats
<1>3. PresenceTyped
  <2>1. PICK there \in SUBSET Dids :
          /\ open = [d \in Dids |-> IF d \in there THEN 1 ELSE 0]
          /\ since = [d \in Dids |-> IF d \in there THEN 0 ELSE Null]
    OBVIOUS
  <2>2. \A d \in Dids : open[d] \in Nat /\ since[d] \in 0..now \cup {Null} /\ (open[d] > 0 => since[d] # Null)
    BY <2>1
  <2>3. open \in [Dids -> Nat] /\ since \in [Dids -> 0..now \cup {Null}]
    BY <2>1, <2>2
  <2> QED BY <2>2, <2>3 DEF PresenceTyped
<1>4. LoopTyped /\ LoopKnows /\ PairsDisjoint /\ AtBookkeeping
  BY <1>3 DEF LoopTyped, LoopState, Stations, Idle, LoopKnows, PairsDisjoint, AtBookkeeping, PresenceTyped
<1> QED
  BY <1>1, <1>2, <1>3, <1>4 DEF PoolInv

\* Every step keeps the whole of it.
LEMMA PoolNextOK == PoolInv /\ [Next]_vars => PoolInv'
BY RowsOK, GamesOK, MemoryOK, PresenceOK, LoopOK, MissedOK DEF PoolInv

\* What the tables, the memory and a pass hold is of its type, and the registry counts
\* the connections there are (presence.go), in every behaviour of the pool.
THEOREM TypeCorrect == Spec => []TypeOK
<1>1. PoolInv => TypeOK
  <2> SUFFICES ASSUME PoolInv PROVE TypeOK
    OBVIOUS
  <2>1. \A s \in Seeks : seeks[s] # Null => seeks[s] \in Row
    BY DEF PoolInv, RowsTyped
  <2>2. \A i \in DOMAIN games : games[i] \in Game
    BY ElementOfSeq DEF PoolInv, GamesTyped
  <2>3. loop.pc \in Stations /\ loop.todo \subseteq Seeks /\ loop.at \in 0..MaxNow /\ now \in 0..MaxNow
    BY SeekPoolAssumption DEF PoolInv, PresenceTyped, LoopTyped, LoopState
  <2> QED
    BY <2>1, <2>2, <2>3 DEF PoolInv, MemoryTyped, PresenceTyped, MissedTyped, Seats, Stations, Game, TypeOK
<1> QED
  BY <1>1, PoolInitOK, PoolNextOK, PTL DEF Spec

-----------------------------------------------------------------------------
(* What a pass may promise: the invariants of the three promises below.    *)

\* The pairs whose game is still to be made.
ToPlay == {k \in DOMAIN loop.pairs : loop.pc = "create" \/ k > 1}

\* What a step does to the pass and the games.
LEMMA PassSteps ==
  ASSUME PoolInv, [Next]_vars
  PROVE  \/ /\ loop' = loop
            /\ games' = games \/ \E i \in DOMAIN games : games' = [games EXCEPT ![i].active = FALSE]
         \/ /\ games' = games /\ loop'.pairs = <<>> /\ loop'.pc \notin {"pair", "create", "remember"}
            /\ loop.pc = "remember" => {Len(games)} \X Leaving \subseteq missed'
         \/ ListActive \/ PairPool \/ CreateGame \/ Bookkeep
<1>0. loop \in LoopState /\ restarts \in Nat /\ (loop.pc \notin {"create", "remember"} => loop.pairs = <<>>)
  BY DEF PoolInv, LoopTyped, PresenceTyped, AtBookkeeping
<1>1. CASE StartPass
  BY <1>1 DEF StartPass, Idle, tables
<1>2. CASE CheckPresence
  <2>1. games' = games /\ loop.pc = "expire" /\ loop.pairs = <<>>
    BY <1>0, <1>2 DEF CheckPresence, tables
  <2>2. PICK s \in loop.todo :
          \/ loop' = [loop EXCEPT !.pc = "deactivate", !.seek = s, !.todo = @ \ {s}]
          \/ loop' = [loop EXCEPT !.todo = @ \ {s}]
    BY <1>2 DEF CheckPresence
  <2>3. loop'.pairs = <<>> /\ loop'.pc \in {"deactivate", "expire"}
    BY <1>0, <2>1, <2>2 DEF LoopState
  <2> QED BY <2>1, <2>3
<1>3. CASE ExpireStanding
  <2>1. /\ games' = games /\ loop.pc = "deactivate" /\ loop.pairs = <<>>
        /\ loop' = [loop EXCEPT !.pc = "expire", !.seek = Null]
    BY <1>0, <1>3 DEF ExpireStanding
  <2>2. loop'.pairs = <<>> /\ loop'.pc = "expire"
    BY <1>0, <2>1 DEF LoopState
  <2> QED BY <2>1, <2>2
<1>4. CASE EndPass
  BY <1>4 DEF EndPass, Idle, tables
<1>5. CASE GiveUp \/ Restart
  BY <1>0, <1>5 DEF GiveUp, Restart, Stop, Idle, tables
<1>6. \/ StartPass \/ CheckPresence \/ ExpireStanding \/ EndPass \/ GiveUp \/ Restart
      \/ ListActive \/ PairPool \/ CreateGame \/ Bookkeep
      \/ /\ loop' = loop
         /\ games' = games \/ \E i \in DOMAIN games : games' = [games EXCEPT ![i].active = FALSE]
  BY DEF Next, CancelSeek, Seek, Connect, Disconnect, Pass, FinishGame, Played, NoShow, Tick, vars, tables
<1> QED
  BY <1>1, <1>2, <1>3, <1>4, <1>5, <1>6

\* The listing of a pass.
LEMMA AfterListing ==
  ASSUME PoolInv, ListActive
  PROVE  /\ loop.pc = "expire" /\ loop'.pc = "pair" /\ loop'.todo = Active /\ loop'.pairs = <<>>
         /\ games' = games /\ seeks' = seeks
<1>0. loop \in LoopState /\ (loop.pc = "expire" => loop.pairs = <<>>)
  BY DEF PoolInv, LoopTyped, AtBookkeeping
<1> QED
  BY <1>0 DEF ListActive, LoopState, tables

\* The pairs of a pass.
LEMMA AfterPairing ==
  ASSUME PoolInv, PairPool
  PROVE  /\ loop.pc = "pair" /\ loop'.pc = "create"
         /\ games' = games /\ seeks' = seeks
<1>0. loop \in LoopState
  BY DEF PoolInv, LoopTyped
<1> QED
  BY <1>0 DEF PairPool, LoopState, tables

\* The game of the first pair.
LEMMA AfterCreating ==
  ASSUME PoolInv, CreateGame
  PROVE  /\ loop.pc = "create" /\ loop'.pc = "remember" /\ loop'.pairs = loop.pairs
         /\ 1 \in DOMAIN loop.pairs /\ seeks' = seeks
         /\ \E g \in Game :
              /\ g.seeks = {loop.pairs[1].a.seek, loop.pairs[1].b.seek}
              /\ {g.first, g.second} = {loop.pairs[1].a.did, loop.pairs[1].b.did}
              /\ Len(games') = Len(games) + 1
              /\ DOMAIN games' = DOMAIN games \cup {Len(games) + 1}
              /\ Len(games) + 1 \notin DOMAIN games
              /\ \A i \in DOMAIN games : games'[i] = games[i]
              /\ games'[Len(games) + 1] = g
<1>0. loop \in LoopState /\ games \in Seq(Game)
  BY DEF PoolInv, LoopTyped, GamesTyped
<1>1. /\ loop.pc = "create" /\ loop.pairs # <<>> /\ seeks' = seeks
      /\ loop' = [loop EXCEPT !.pc = "remember"]
  BY DEF CreateGame
<1>2. loop'.pc = "remember" /\ loop'.pairs = loop.pairs
  BY <1>0, <1>1 DEF LoopState
<1>3. PICK g \in Game : /\ games' = Append(games, g)
                        /\ g.seeks = {loop.pairs[1].a.seek, loop.pairs[1].b.seek}
                        /\ {g.first, g.second} = {loop.pairs[1].a.did, loop.pairs[1].b.did}
  BY GameMade
<1>4. /\ Len(games') = Len(games) + 1
      /\ DOMAIN games' = DOMAIN games \cup {Len(games) + 1} /\ Len(games) + 1 \notin DOMAIN games
      /\ \A i \in DOMAIN games : games'[i] = games[i]
      /\ games'[Len(games) + 1] = g
  <2>1. /\ DOMAIN games' = DOMAIN games \cup {Len(games) + 1}
        /\ \A i \in DOMAIN games : games'[i] = games[i]
        /\ games'[Len(games) + 1] = g
    BY <1>0, <1>3, OneMorePair
  <2>2. Len(games') = Len(games) + 1 /\ Len(games) + 1 \notin DOMAIN games
    BY <1>0, <1>3
  <2> QED BY <2>1, <2>2
<1>5. 1 \in DOMAIN loop.pairs
  BY <1>1, HeadOK
<1> QED
  BY <1>1, <1>2, <1>3, <1>4, <1>5

\* What is written after a game, if it is.
LEMMA AfterBookkeeping ==
  ASSUME PoolInv, Bookkeep
  PROVE  /\ loop.pc = "remember" /\ loop'.pc = "create" /\ games' = games
         /\ \A k \in DOMAIN loop'.pairs :
              /\ k + 1 \in ToPlay /\ loop'.pairs[k] = loop.pairs[k + 1]
         /\ \A s \in Leaving : ~seeks'[s].active \/ <<Len(games), s>> \in missed'
<1>1. /\ loop.pc = "remember" /\ loop.pairs # <<>> /\ games' = games
      /\ loop' = [loop EXCEPT !.pc = "create", !.pairs = Tail(@)]
  BY DEF Bookkeep, PoolInv, AtBookkeeping
<1>2. loop'.pc = "create" /\ loop'.pairs = Tail(loop.pairs)
  BY <1>1 DEF PoolInv, LoopTyped, LoopState
<1>3. ASSUME NEW k \in DOMAIN loop'.pairs
      PROVE  k + 1 \in ToPlay /\ loop'.pairs[k] = loop.pairs[k + 1]
  <2>1. k + 1 \in DOMAIN loop.pairs /\ k + 1 # 1 /\ loop'.pairs[k] = loop.pairs[k + 1]
    BY <1>1, <1>2, HeadOK
  <2>2. loop.pairs \in Seq(Couple)
    BY DEF PoolInv, LoopTyped, LoopState
  <2>3. k + 1 > 1
    BY <2>1, <2>2
  <2> QED BY <2>1, <2>3 DEF ToPlay
<1>4. ASSUME NEW s \in Leaving
      PROVE  ~seeks'[s].active \/ <<Len(games), s>> \in missed'
  <2>1. PICK L \in SUBSET Leaving : Leave(L)
    BY DEF Bookkeep
  <2>2. s \in Seeks /\ seeks[s] # Null
    BY <1>1, LeavingRows
  <2>3. CASE s \in L
    <3>1. seeks[s] \in Row /\ seeks'[s] = [seeks[s] EXCEPT !.active = FALSE]
      BY <2>1, <2>2, <2>3 DEF PoolInv, RowsTyped, Leave
    <3> QED BY <3>1, InactiveRow
  <2>4. CASE s \notin L
    BY <2>1, <2>4 DEF Leave
  <2> QED BY <2>3, <2>4
<1> QED
  BY <1>1, <1>2, <1>3, <1>4

\* A row that is inactive stays so.
LEMMA InactiveStays ==
  ASSUME PoolInv, [Next]_vars, NEW s, Known(s), ~seeks[s].active
  PROVE  ~seeks'[s].active
<1>0. seeks \in [Seeks -> Row \cup {Null}] /\ s \in Seeks /\ seeks[s] \in Row
  BY DEF PoolInv, RowsTyped, Known
<1>1. ASSUME NEW t \in Seeks, seeks[t] # Null, seeks' = [seeks EXCEPT ![t].active = FALSE]
      PROVE  ~seeks'[s].active
  <2>1. CASE t = s
    <3>1. seeks'[s] = [seeks[s] EXCEPT !.active = FALSE]
      BY <1>0, <1>1, <2>1
    <3> QED BY <1>0, <3>1, InactiveRow
  <2>2. CASE t # s
    BY <1>0, <1>1, <2>2
  <2> QED BY <2>1, <2>2
<1>2. ASSUME NEW t \in Seeks, CancelSeek(t) PROVE ~seeks'[s].active
  BY <1>1, <1>2 DEF CancelSeek
<1>3. ASSUME NEW t \in Seeks, NEW did \in Dids, Seek(t, did) PROVE ~seeks'[s].active
  <2>1. t # s
    BY <1>3 DEF Seek, Known
  <2> QED BY <1>0, <1>3, <2>1 DEF Seek
<1>6. CASE seeks' = seeks
  BY <1>6
<1>4. CASE ExpireStanding
  BY <1>1, <1>4, <1>6 DEF ExpireStanding, PoolInv, LoopKnows, Known
<1>5. CASE Bookkeep
  <2>1. PICK L \in SUBSET Leaving : Leave(L)
    BY <1>5 DEF Bookkeep
  <2>2. seeks'[s] = seeks[s] \/ seeks'[s] = [seeks[s] EXCEPT !.active = FALSE]
    BY <1>0, <2>1 DEF Leave
  <2> QED BY <1>0, <2>2, InactiveRow
<1>7. \/ \E t \in Seeks : CancelSeek(t) \/ \E did \in Dids : Seek(t, did)
      \/ ExpireStanding \/ Bookkeep
      \/ seeks' = seeks
  BY DEF Next, Connect, Disconnect, Pass, StartPass, CheckPresence, ListActive, PairPool, EndPass,
         CreateGame, FinishGame, Played, NoShow, Tick, Restart, GiveUp, vars, tables
<1> QED
  BY <1>2, <1>3, <1>4, <1>5, <1>6, <1>7

-----------------------------------------------------------------------------
(* A once seek plays again only where it was not told to leave.            *)

Once(s) == seeks[s].mode = "once"

\* A once seek that was not told to leave with any game it has; any standing seek.
Fresh(s) == Once(s) => \A i \in DOMAIN games : s \in games[i].seeks => <<i, s>> \in missed

\* A once seek in a game was not told to leave with the games before it; it has left
\* the pool unless it was not told to, or its game is the one whose bookkeeping is due;
\* the seeks of a pass are there because they were not told to leave.
OnceInv ==
  /\ \A i, j \in DOMAIN games : i < j =>
       \A s \in games[i].seeks \cap games[j].seeks : Once(s) => <<i, s>> \in missed
  /\ \A i \in DOMAIN games : \A s \in games[i].seeks :
       Once(s) => ~seeks[s].active \/ <<i, s>> \in missed
                  \/ (loop.pc = "remember" /\ i = Len(games))
  /\ loop.pc = "pair" => \A s \in loop.todo : Fresh(s)
  /\ \A k \in ToPlay : \A c \in Ends(loop.pairs[k]) : Fresh(c.seek)

\* What was missed stays on record.
LEMMA MissedStays == ASSUME [Next]_vars PROVE missed \subseteq missed'
BY DEF Next, CancelSeek, Seek, Connect, Disconnect, Pass, StartPass, CheckPresence, ExpireStanding, ListActive,
       PairPool, EndPass, CreateGame, Bookkeep, Leave, FinishGame, Played, NoShow, Tick, GiveUp, Restart, Stop, vars

\* The same games, of the same seeks.
SameSeeks ==
  /\ DOMAIN games' = DOMAIN games /\ Len(games') = Len(games)
  /\ \A i \in DOMAIN games : games'[i].seeks = games[i].seeks

\* A known seek keeps its mode.
LEMMA ModeKept == ASSUME RowsKept, NEW s, Known(s) PROVE Once(s)' = Once(s)
BY DEF RowsKept, Known, Once

\* A fresh seek stays so while no game is made.
LEMMA FreshStays ==
  ASSUME [Next]_vars, RowsKept, SameSeeks, NEW s, Known(s), Fresh(s)
  PROVE  Fresh(s)'
BY ModeKept, MissedStays DEF SameSeeks, Fresh

\* While no game is made, and but for the one whose bookkeeping ends, games keep
\* what OnceInv says of them.
LEMMA OnceGamesKept ==
  ASSUME PoolInv, [Next]_vars, OnceInv, SameSeeks,
         loop.pc = "remember" =>
           \/ loop'.pc = "remember"
           \/ \A s \in games[Len(games)].seeks :
                Once(s) => ~seeks'[s].active \/ <<Len(games), s>> \in missed'
  PROVE  /\ (\A i, j \in DOMAIN games : i < j =>
               \A s \in games[i].seeks \cap games[j].seeks : Once(s) => <<i, s>> \in missed)'
         /\ (\A i \in DOMAIN games : \A s \in games[i].seeks :
               Once(s) => ~seeks[s].active \/ <<i, s>> \in missed
                          \/ (loop.pc = "remember" /\ i = Len(games)))'
<1>0. RowsKept /\ missed \subseteq missed' /\ \A i \in DOMAIN games : \A s \in games[i].seeks : Known(s)
  BY RowsOK, MissedStays DEF PoolInv, GamesTyped
<1>1. ASSUME NEW i \in DOMAIN games', NEW j \in DOMAIN games', i < j,
             NEW s \in games'[i].seeks \cap games'[j].seeks, Once(s)'
      PROVE  <<i, s>> \in missed'
  <2>1. i \in DOMAIN games /\ j \in DOMAIN games /\ s \in games[i].seeks \cap games[j].seeks
    BY <1>1 DEF SameSeeks
  <2> QED BY <1>0, <1>1, <2>1, ModeKept DEF OnceInv
<1>2. ASSUME NEW i \in DOMAIN games', NEW s \in games'[i].seeks, Once(s)'
      PROVE  ~seeks'[s].active \/ <<i, s>> \in missed' \/ (loop'.pc = "remember" /\ i = Len(games'))
  <2>1. i \in DOMAIN games /\ s \in games[i].seeks
    BY <1>2 DEF SameSeeks
  <2>2. Known(s) /\ Once(s)
    BY <1>0, <1>2, <2>1, ModeKept
  <2>3. ~seeks[s].active \/ <<i, s>> \in missed \/ (loop.pc = "remember" /\ i = Len(games))
    BY <2>1, <2>2 DEF OnceInv
  <2> QED BY <1>0, <2>1, <2>2, <2>3, InactiveStays DEF SameSeeks
<1> QED BY <1>1, <1>2

\* Every step keeps it.
LEMMA OnceNextOK ==
  ASSUME PoolInv, OnceInv, [Next]_vars
  PROVE  OnceInv'
<1>0. /\ RowsKept /\ games \in Seq(Game) /\ missed \subseteq missed'
      /\ \A i \in DOMAIN games : \A s \in games[i].seeks : Known(s)
      /\ \A s \in loop.todo : Known(s)
      /\ \A k \in DOMAIN loop.pairs : \A c \in Ends(loop.pairs[k]) : Known(c.seek)
  BY RowsOK, MissedStays DEF PoolInv, GamesTyped, LoopKnows
<1>1. CASE /\ loop' = loop
           /\ games' = games \/ \E i \in DOMAIN games : games' = [games EXCEPT ![i].active = FALSE]
  <2>1. SameSeeks
    BY <1>1, GameEnds DEF SameSeeks, PoolInv
  <2>2. loop.pc = "pair" => \A s \in loop.todo : Fresh(s)'
    BY <1>0, <2>1, FreshStays DEF OnceInv
  <2>3. \A k \in ToPlay : \A c \in Ends(loop.pairs[k]) : Fresh(c.seek)'
    BY <1>0, <2>1, FreshStays DEF OnceInv, ToPlay
  <2> QED
    BY <1>1, <2>1, <2>2, <2>3, OnceGamesKept DEF OnceInv, ToPlay
<1>2. CASE /\ games' = games /\ loop'.pairs = <<>> /\ loop'.pc \notin {"pair", "create", "remember"}
           /\ loop.pc = "remember" => {Len(games)} \X Leaving \subseteq missed'
  <2>1. SameSeeks
    BY <1>2 DEF SameSeeks
  <2>2. ToPlay' = {}
    BY <1>2 DEF ToPlay
  <2>3. loop.pc = "remember" => \A s \in games[Len(games)].seeks : Once(s) => <<Len(games), s>> \in missed'
    BY <1>2 DEF Leaving, LastGame, Once
  <2> QED
    BY <1>2, <2>1, <2>2, <2>3, OnceGamesKept DEF OnceInv
<1>3. CASE ListActive
  <2>1. /\ loop.pc = "expire" /\ loop'.pc = "pair" /\ loop'.todo = Active /\ loop'.pairs = <<>>
        /\ games' = games /\ seeks' = seeks
    BY <1>3, AfterListing
  <2>2. SameSeeks /\ ToPlay' = {}
    BY <2>1 DEF SameSeeks, ToPlay
  <2>3. \A s \in Active : Fresh(s)
    BY <2>1 DEF OnceInv, Fresh, Active
  <2>4. \A s \in Active : Fresh(s)'
    BY <1>0, <2>1, <2>3 DEF Fresh, Once
  <2> QED
    BY <2>1, <2>2, <2>4, OnceGamesKept DEF OnceInv
<1>4. CASE PairPool
  <2>1. loop.pc = "pair" /\ loop'.pc = "create" /\ games' = games /\ seeks' = seeks
    BY <1>4, AfterPairing
  <2>2. \A k \in DOMAIN loop'.pairs : \A c \in Ends(loop'.pairs[k]) : c.seek \in loop.todo
    BY <1>4, PairPoolOK
  <2>3. \A k \in ToPlay' : \A c \in Ends(loop'.pairs[k]) : Fresh(c.seek)'
    BY <1>0, <2>1, <2>2 DEF OnceInv, ToPlay, Fresh, Once
  <2>4. SameSeeks
    BY <2>1 DEF SameSeeks
  <2> QED
    BY <2>1, <2>3, <2>4, OnceGamesKept DEF OnceInv
<1>5. CASE CreateGame
  <2>1. /\ loop.pc = "create" /\ loop'.pc = "remember" /\ loop'.pairs = loop.pairs
        /\ 1 \in DOMAIN loop.pairs /\ seeks' = seeks
    BY <1>5, AfterCreating
  <2>2. PICK g \in Game :
          /\ g.seeks = {loop.pairs[1].a.seek, loop.pairs[1].b.seek}
          /\ Len(games') = Len(games) + 1
          /\ DOMAIN games' = DOMAIN games \cup {Len(games) + 1}
          /\ Len(games) + 1 \notin DOMAIN games
          /\ \A i \in DOMAIN games : games'[i] = games[i]
          /\ games'[Len(games) + 1] = g
    BY <1>5, AfterCreating
  <2> DEFINE n == Len(games) + 1
  <2>3. \A s \in g.seeks : Fresh(s)
    BY <2>1, <2>2 DEF OnceInv, ToPlay, Ends
  <2>4. \A s : Once(s)' = Once(s)
    BY <2>1 DEF Once
  <2> HIDE DEF n
  <2>5. /\ Len(games') = n /\ DOMAIN games' = DOMAIN games \cup {n} /\ n \notin DOMAIN games
        /\ games'[n] = g /\ \A i \in DOMAIN games : games'[i] = games[i]
    BY <2>2 DEF n
  <2>6. ASSUME NEW i \in DOMAIN games', NEW j \in DOMAIN games', i < j,
               NEW s \in games'[i].seeks \cap games'[j].seeks, Once(s)
        PROVE  <<i, s>> \in missed'
    <3>1. i # n
      <4>1. \A k \in DOMAIN games : k <= Len(games) /\ k \in Nat
        BY <1>0
      <4>2. Len(games) \in Nat
        BY <1>0
      <4> QED BY <2>5, <2>6, <4>1, <4>2 DEF n
    <3>2. CASE j = n
      BY <1>0, <2>3, <2>5, <2>6, <3>1, <3>2 DEF Fresh
    <3>3. CASE j # n
      BY <1>0, <2>5, <2>6, <3>1, <3>3 DEF OnceInv
    <3> QED BY <3>2, <3>3
  <2>7. \A i \in DOMAIN games' : \A s \in games'[i].seeks :
          Once(s) => ~seeks[s].active \/ <<i, s>> \in missed' \/ i = Len(games')
    BY <1>0, <2>1, <2>5 DEF OnceInv
  <2>8. ASSUME NEW k \in ToPlay', NEW c \in Ends(loop.pairs[k])
        PROVE  Fresh(c.seek)'
    <3>1. k \in DOMAIN loop.pairs /\ k # 1
      BY <2>1, <2>8 DEF ToPlay
    <3>2. Fresh(c.seek)
      BY <2>1, <2>8, <3>1 DEF OnceInv, ToPlay
    <3>3. c.seek # loop.pairs[1].a.seek /\ c.seek # loop.pairs[1].b.seek
      BY <2>1, <2>8, <3>1 DEF PoolInv, PairsDisjoint, Ends
    <3>4. c.seek \notin g.seeks
      BY <2>2, <3>3
    <3> QED BY <1>0, <2>4, <2>5, <3>2, <3>4 DEF Fresh
  <2> QED
    BY <2>1, <2>4, <2>6, <2>7, <2>8 DEF OnceInv
<1>6. CASE Bookkeep
  <2>1. /\ loop.pc = "remember" /\ loop'.pc = "create" /\ games' = games
        /\ \A k \in DOMAIN loop'.pairs :
             /\ k + 1 \in ToPlay /\ loop'.pairs[k] = loop.pairs[k + 1]
        /\ \A s \in Leaving : ~seeks'[s].active \/ <<Len(games), s>> \in missed'
    BY <1>6, AfterBookkeeping
  <2>2. SameSeeks
    BY <2>1 DEF SameSeeks
  <2>3. \A s \in games[Len(games)].seeks :
          Once(s) => ~seeks'[s].active \/ <<Len(games), s>> \in missed'
    BY <2>1 DEF Leaving, LastGame, Once
  <2>4. ASSUME NEW k \in ToPlay', NEW c \in Ends(loop'.pairs[k])
        PROVE  Fresh(c.seek)'
    <3>1. PICK l : l \in ToPlay /\ loop'.pairs[k] = loop.pairs[l]
      BY <2>1, <2>4 DEF ToPlay
    <3>2. l \in DOMAIN loop.pairs /\ c \in Ends(loop.pairs[l])
      BY <2>4, <3>1 DEF ToPlay
    <3>3. Fresh(c.seek) /\ Known(c.seek)
      BY <1>0, <3>1, <3>2 DEF OnceInv
    <3> QED BY <1>0, <2>2, <3>3, FreshStays
  <2> QED
    BY <2>1, <2>2, <2>3, <2>4, OnceGamesKept DEF OnceInv
<1> QED
  BY <1>1, <1>2, <1>3, <1>4, <1>5, <1>6, PassSteps

\* A once seek is matched again only where the write that takes it out of the pool was
\* lost (spec 9a.3; loop.go:247-258), whatever agents and games do in the middle of a
\* pass, whichever statements fail and whenever the process restarts.
THEOREM OnceSeeksPlayOnce == Spec => []OnceSeekPlaysOnce
<1>1. Init => OnceInv
  BY DEF Init, Idle, OnceInv, ToPlay
<1>2. OnceInv => OnceSeekPlaysOnce
  BY DEF OnceInv, OnceSeekPlaysOnce, Once
<1> QED
  BY <1>1, <1>2, PoolInitOK, PoolNextOK, OnceNextOK, PTL DEF Spec

-----------------------------------------------------------------------------
(* A standing seek only expires under an agent that stayed away.           *)

\* The registry knows who has been there since the start, and since when who is away
\* is away; a seek a pass is about to set inactive has earned it.
ExpiryInv ==
  /\ \A d \in Dids : lastSeen[d] = Null => since[d] = Null
  /\ \A d \in Dids : open[d] = 0 /\ since[d] # Null => lastSeen[d] = since[d]
  /\ loop.pc = "deactivate" => IsEarned(loop.seek)

\* Whoever comes or goes while a pass is at it has come or gone since it began.
LEMMA EarnedStays ==
  ASSUME PoolInv, RowsKept, NEW s, Known(s), IsEarned(s), loop' = loop,
         \A d \in Dids : (open'[d] = open[d] /\ since'[d] = since[d]) \/ since'[d] = now
                         \/ (since'[d] = since[d] /\ open[d] > 0)
  PROVE  IsEarned(s)'
<1> DEFINE d == seeks[s].did
<1>1. d \in Dids /\ seeks'[s].did = d
  BY KnownStays DEF PoolInv, RowsTyped, Known, Row
<1> HIDE DEF d
<1>2. loop.at \in 0..now /\ now \in Nat /\ since[d] \in 0..now \cup {Null} /\ open[d] \in Nat
  <2>1. loop.at \in 0..now
    BY DEF PoolInv, LoopTyped, LoopState
  <2>2. now \in Nat /\ since \in [Dids -> 0..now \cup {Null}] /\ open \in [Dids -> Nat]
    BY SeekPoolAssumption DEF PoolInv, PresenceTyped
  <2> QED BY <1>1, <2>1, <2>2
<1>3. since[d] = Null \/ since[d] >= loop.at \/ (open[d] = 0 /\ loop.at - since[d] > StandingExpire)
  BY DEF IsEarned, d
<1>4. \/ open'[d] = open[d] /\ since'[d] = since[d]
      \/ since'[d] = now
      \/ since'[d] = since[d] /\ open[d] > 0
  BY <1>1
<1>5. since'[d] = Null \/ since'[d] >= loop.at \/ (open'[d] = 0 /\ loop.at - since'[d] > StandingExpire)
  BY <1>2, <1>3, <1>4
<1> QED
  BY <1>1, <1>5 DEF IsEarned

\* Every step keeps it.
LEMMA ExpiryNextOK ==
  ASSUME PoolInv, ExpiryInv, [Next]_vars
  PROVE  ExpiryInv'
<1>0. /\ RowsKept /\ now \in Nat /\ restarts \in Nat /\ loop \in LoopState
      /\ open \in [Dids -> Nat] /\ conns = open /\ DOMAIN lastSeen = Dids
      /\ since \in [Dids -> 0..now \cup {Null}] /\ \A d \in Dids : open[d] > 0 => since[d] # Null
      /\ \A s \in loop.todo : Known(s)
      /\ loop.pc = "deactivate" => Known(loop.seek)
  BY RowsOK, SeekPoolAssumption DEF PoolInv, PresenceTyped, LoopTyped, LoopKnows
<1>2. CASE CheckPresence
  <2>1. PICK s \in loop.todo :
          loop' = IF GoneSince(seeks[s].did, loop.at - StandingExpire)
                  THEN [loop EXCEPT !.pc = "deactivate", !.seek = s, !.todo = @ \ {s}]
                  ELSE [loop EXCEPT !.todo = @ \ {s}]
    BY <1>2 DEF CheckPresence
  <2>2. /\ loop.pc = "expire" /\ UNCHANGED <<seeks, lastSeen, open, since, now, restarts>>
    BY <1>2 DEF CheckPresence, tables, memory, world, bounds
  <2>3. CASE GoneSince(seeks[s].did, loop.at - StandingExpire)
    <3>1. loop' = [loop EXCEPT !.pc = "deactivate", !.seek = s, !.todo = @ \ {s}]
      BY <2>1, <2>3
    <3>2. loop'.seek = s /\ loop'.at = loop.at
      BY <1>0, <3>1 DEF LoopState
    <3>3. seeks[s].did \in Dids
      BY <1>0 DEF PoolInv, RowsTyped, Known, Row
    <3>4. IsEarned(s)
      <4> DEFINE d == seeks[s].did
      <4>1. d \in Dids /\ open[d] = 0 /\ (lastSeen[d] = Null \/ lastSeen[d] < loop.at - StandingExpire)
        BY <1>0, <2>3, <3>3 DEF GoneSince
      <4> HIDE DEF d
      <4>2. CASE since[d] = Null
        BY <4>2 DEF IsEarned, d
      <4>3. CASE since[d] # Null
        <5>1. lastSeen[d] = since[d] /\ lastSeen[d] # Null
          BY <4>1, <4>3 DEF ExpiryInv
        <5>2. loop.at \in 0..now /\ StandingExpire \in Nat /\ since[d] \in 0..now
          BY <1>0, <4>1, <4>3, SeekPoolAssumption DEF LoopState
        <5>3. loop.at - since[d] > StandingExpire
          BY <1>0, <4>1, <5>1, <5>2
        <5> QED BY <4>1, <5>3 DEF IsEarned, d
      <4> QED BY <4>2, <4>3
    <3> QED
      BY <2>2, <3>2, <3>4 DEF ExpiryInv, IsEarned
  <2>4. CASE ~GoneSince(seeks[s].did, loop.at - StandingExpire)
    <3>1. loop' = [loop EXCEPT !.todo = @ \ {s}]
      BY <2>1, <2>4
    <3>2. loop'.pc = "expire"
      BY <1>0, <2>2, <3>1 DEF LoopState
    <3> QED
      BY <2>2, <3>2 DEF ExpiryInv
  <2> QED BY <2>3, <2>4
<1>3. ASSUME NEW did \in Dids, Connect(did) PROVE ExpiryInv'
  <2>1. /\ loop' = loop /\ restarts' = restarts /\ now' = now /\ seeks' = seeks
        /\ open' = [open EXCEPT ![did] = @ + 1]
        /\ since' = [since EXCEPT ![did] = IF open[did] = 0 THEN now ELSE @]
        /\ lastSeen' = [lastSeen EXCEPT ![did] = now]
    BY <1>3 DEF Connect, tables
  <2>2. \A d \in Dids : (open'[d] = open[d] /\ since'[d] = since[d]) \/ since'[d] = now
                        \/ (since'[d] = since[d] /\ open[d] > 0)
    BY <1>0, <2>1
  <2>3. \A d \in Dids : /\ (lastSeen'[d] = Null => since'[d] = Null)
                         /\ (open'[d] = 0 /\ since'[d] # Null => lastSeen'[d] = since'[d])
    BY <1>0, <2>1, SeekPoolAssumption DEF ExpiryInv
  <2>4. loop.pc = "deactivate" => IsEarned(loop.seek)'
    BY <1>0, <2>1, <2>2, EarnedStays DEF ExpiryInv
  <2> QED BY <2>1, <2>3, <2>4 DEF ExpiryInv
<1>4. ASSUME NEW did \in Dids, Disconnect(did) PROVE ExpiryInv'
  <2>1. /\ loop' = loop /\ restarts' = restarts /\ now' = now /\ seeks' = seeks /\ open[did] > 0
        /\ open' = [open EXCEPT ![did] = @ - 1]
        /\ since' = [since EXCEPT ![did] = IF open[did] = 1 THEN now ELSE @]
        /\ lastSeen' = [lastSeen EXCEPT ![did] = now]
    BY <1>4 DEF Disconnect, tables, bounds
  <2>2. \A d \in Dids : (open'[d] = open[d] /\ since'[d] = since[d]) \/ since'[d] = now
                        \/ (since'[d] = since[d] /\ open[d] > 0)
    BY <1>0, <2>1
  <2>3. \A d \in Dids : /\ (lastSeen'[d] = Null => since'[d] = Null)
                         /\ (open'[d] = 0 /\ since'[d] # Null => lastSeen'[d] = since'[d])
    BY <1>0, <2>1, SeekPoolAssumption DEF ExpiryInv
  <2>4. loop.pc = "deactivate" => IsEarned(loop.seek)'
    BY <1>0, <2>1, <2>2, EarnedStays DEF ExpiryInv
  <2> QED BY <2>1, <2>3, <2>4 DEF ExpiryInv
<1>5. CASE Tick
  <2>1. now' = now + 1 /\ UNCHANGED <<seeks, loop, lastSeen, open, since, restarts>>
    BY <1>5 DEF Tick, tables, memory, world, bounds
  <2>2. \A x \in 0..now : x \in 0..now'
    BY <1>0, <2>1
  <2> QED BY <2>1, <2>2 DEF ExpiryInv, IsEarned
<1>6. CASE Restart
  BY <1>0, <1>6 DEF Restart, Stop, Idle, ExpiryInv
<1>7. \/ CheckPresence \/ Tick \/ Restart
      \/ \E did \in Dids : Connect(did) \/ Disconnect(did)
      \/ UNCHANGED <<conns, lastSeen, world, now, restarts>> /\ (loop' = loop \/ loop'.pc # "deactivate")
  <2>1. CASE ListActive
    BY <2>1, AfterListing DEF ListActive, memory, bounds
  <2>2. CASE PairPool
    BY <2>2, AfterPairing DEF PairPool, memory, bounds
  <2>3. CASE CreateGame
    BY <2>3, AfterCreating DEF CreateGame, memory, bounds
  <2>4. CASE Bookkeep
    BY <2>4, AfterBookkeeping DEF Bookkeep, memory, bounds
  <2>5. CASE StartPass
    <3>1. loop'.pc = "expire"
      BY <2>5 DEF StartPass, Idle
    <3> QED BY <2>5, <3>1 DEF StartPass, memory, bounds
  <2>6. CASE EndPass
    <3>1. loop'.pc = "idle"
      BY <2>6 DEF EndPass, Idle
    <3> QED BY <2>6, <3>1 DEF EndPass, memory, bounds
  <2>8. CASE GiveUp
    <3>1. loop'.pc = "idle"
      BY <2>8 DEF GiveUp, Stop, Idle
    <3> QED BY <2>8, <3>1 DEF GiveUp, memory
  <2>7. CASE ExpireStanding
    <3>1. loop' = [loop EXCEPT !.pc = "expire", !.seek = Null]
      BY <2>7 DEF ExpireStanding
    <3>2. loop'.pc = "expire"
      BY <1>0, <3>1 DEF LoopState
    <3> QED BY <2>7, <3>2 DEF ExpireStanding, memory, bounds
  <2> QED
    BY <2>1, <2>2, <2>3, <2>4, <2>5, <2>6, <2>7, <2>8
    DEF Next, CancelSeek, Seek, Pass, FinishGame, Played, NoShow, vars, tables, memory, world, bounds
<1>8. ASSUME UNCHANGED <<conns, lastSeen, world, now, restarts>>, loop' = loop \/ loop'.pc # "deactivate"
      PROVE  ExpiryInv'
  BY <1>0, <1>8, EarnedStays DEF ExpiryInv, world
<1> QED
  BY <1>2, <1>3, <1>4, <1>5, <1>6, <1>7, <1>8

\* A standing seek only expires under an agent that stayed away for longer than
\* StandingExpire, or that has had no connection since the process started; one that
\* redials keeps its seek, whichever connection closes first (presence.go,
\* expireStaleStanding). That grace is not given to those the registry never met:
\* GraceIsGiven does not hold.
THEOREM SeeksExpireEarned == Spec => ExpiryIsEarned
<1>1. Init => ExpiryInv
  BY SeekPoolAssumption DEF Init, Idle, ExpiryInv
<1>2. PoolInv /\ ExpiryInv /\ [Next]_vars => [ExpireStanding => IsEarned(loop.seek)]_vars
  BY DEF ExpiryInv, ExpireStanding
<1> QED
  BY <1>1, <1>2, PoolInitOK, PoolNextOK, ExpiryNextOK, PTL DEF Spec, ExpiryIsEarned

-----------------------------------------------------------------------------
(* No seek gets more games at once than it allows.                         *)

\* The games of a seek are games of its agent; none has more than it allows, and fewer
\* if a pass still has one for it.
CapInv ==
  /\ \A i \in DOMAIN games : \A s \in games[i].seeks : seeks[s].did \in {games[i].first, games[i].second}
  /\ \A s : Known(s) => Cardinality(GamesOf(s)) <= seeks[s].max
  /\ \A k \in ToPlay : \A c \in Ends(loop.pairs[k]) : Cardinality(GamesOf(c.seek)) < seeks[c.seek].max

\* The running games of a seek are finitely many.
LEMMA GamesOfFinite ==
  ASSUME GamesTyped, NEW s
  PROVE  IsFiniteSet(GamesOf(s)) /\ Cardinality(GamesOf(s)) \in Nat
<1>1. DOMAIN games = 1..Len(games) /\ Len(games) \in Nat
  BY DEF GamesTyped
<1>2. GamesOf(s) \in SUBSET (1..Len(games)) /\ IsFiniteSet(1..Len(games))
  BY <1>1, FS_Interval DEF GamesOf
<1> QED
  BY <1>2, FS_Subset, FS_CardinalityType

\* A cap is a number above zero.
LEMMA CapOK == ASSUME PoolInv, NEW s, Known(s) PROVE seeks[s].max \in Nat /\ seeks[s].max > 0
<1>1. seeks[s] \in Row
  BY DEF PoolInv, RowsTyped, Known
<1>2. seeks[s].max \in Caps
  BY <1>1 DEF Row
<1>3. seeks[s].max \in Nat /\ seeks[s].max # 0
  BY <1>2, SeekPoolAssumption
<1> DEFINE m == seeks[s].max
<1> HIDE DEF m
<1>4. m \in Nat /\ m # 0
  BY <1>3 DEF m
<1>5. m > 0
  BY <1>4
<1> QED
  BY <1>3, <1>5 DEF m

\* Games that are there only end.
GamesOnlyEnd ==
  /\ DOMAIN games' = DOMAIN games
  /\ \A i \in DOMAIN games :
       /\ games'[i].active => games[i].active
       /\ games'[i].seeks = games[i].seeks
       /\ games'[i].first = games[i].first /\ games'[i].second = games[i].second

\* Then seeks have no more games than before.
LEMMA NoMoreGames ==
  ASSUME GamesTyped, GamesOnlyEnd, NEW s
  PROVE  Cardinality(GamesOf(s)') <= Cardinality(GamesOf(s)) /\ Cardinality(GamesOf(s)') \in Nat
<1>1. GamesOf(s)' \subseteq GamesOf(s)
  BY DEF GamesOnlyEnd, GamesOf
<1> QED
  BY <1>1, GamesOfFinite, FS_Subset, FS_CardinalityType

\* While no game is made, games and seeks keep what CapInv says of them.
LEMMA CapGamesKept ==
  ASSUME PoolInv, PoolInv', RowsKept, CapInv, GamesOnlyEnd
  PROVE  /\ \A i \in DOMAIN games' : \A s \in games'[i].seeks : seeks'[s].did \in {games'[i].first, games'[i].second}
         /\ \A s : Known(s)' => Cardinality(GamesOf(s)') <= seeks'[s].max
<1>1. ASSUME NEW i \in DOMAIN games', NEW s \in games'[i].seeks
      PROVE  seeks'[s].did \in {games'[i].first, games'[i].second}
  <2>1. i \in DOMAIN games /\ s \in games[i].seeks /\ Known(s)
    BY <1>1 DEF GamesOnlyEnd, PoolInv, GamesTyped
  <2> QED BY <2>1, KnownStays DEF CapInv, GamesOnlyEnd
<1>2. ASSUME NEW s, Known(s)'
      PROVE  Cardinality(GamesOf(s)') <= seeks'[s].max
  <2> DEFINE m == Cardinality(GamesOf(s))
             n == Cardinality(GamesOf(s)')
  <2>1. n <= m /\ n \in Nat /\ m \in Nat
    BY NoMoreGames, GamesOfFinite DEF PoolInv
  <2>2. CASE Known(s)
    <3>1. m <= seeks[s].max /\ seeks[s].max \in Nat
      BY <2>2, CapOK DEF CapInv
    <3>2. seeks'[s].max = seeks[s].max
      BY <2>2 DEF RowsKept, Known
    <3> HIDE DEF m, n
    <3>3. n <= seeks'[s].max
      BY <2>1, <3>1, <3>2
    <3> QED BY <3>3 DEF n
  <2>3. CASE ~Known(s)
    <3>1. GamesOf(s) = {}
      BY <2>3 DEF GamesOf, PoolInv, GamesTyped
    <3>2. m = 0
      BY <3>1, FS_EmptySet
    <3>3. seeks'[s] \in Row
      BY <1>2 DEF PoolInv, RowsTyped, Known
    <3>4. seeks'[s].max \in Caps
      BY <3>3 DEF Row
    <3>5. seeks'[s].max \in Nat
      BY <3>4, SeekPoolAssumption
    <3> HIDE DEF m, n
    <3>6. n <= seeks'[s].max
      BY <2>1, <3>2, <3>5
    <3> QED BY <3>6 DEF n
  <2> QED BY <2>2, <2>3
<1> QED BY <1>1, <1>2

\* A candidate of a pass has fewer games than it allows, and so has its seek.
LEMMA CandidateHasRoom ==
  ASSUME PoolInv, CapInv, NEW s, Known(s),
         ~(Candidate(s).max > 0 /\ Candidate(s).active >= Candidate(s).max)
  PROVE  Cardinality(GamesOf(s)) < seeks[s].max
<1> DEFINE m == Cardinality(GamesOf(s))
           held == Cardinality(Playing(seeks[s].did))
           top == seeks[s].max
<1>1. GamesOf(s) \subseteq Playing(seeks[s].did)
  BY DEF CapInv, GamesOf, Playing
<1>2. IsFiniteSet(Playing(seeks[s].did)) /\ held \in Nat
  BY PlayingFinite DEF PoolInv, ActiveGames
<1>3. m <= held /\ m \in Nat
  BY <1>1, <1>2, FS_Subset, FS_CardinalityType
<1>4. top \in Nat /\ top > 0 /\ ~(top > 0 /\ held >= top)
  BY CandidateOK, CapOK DEF ActiveGames
<1> HIDE DEF m, held, top
<1>5. m < top
  BY <1>2, <1>3, <1>4
<1> QED BY <1>5 DEF m, top

\* Every step keeps it.
LEMMA CapNextOK ==
  ASSUME PoolInv, PoolInv', CapInv, [Next]_vars
  PROVE  CapInv'
<1>0. /\ RowsKept /\ games \in Seq(Game) /\ GamesTyped
      /\ \A s \in loop.todo : Known(s)
      /\ \A k \in DOMAIN loop.pairs : \A c \in Ends(loop.pairs[k]) : Known(c.seek) /\ c.did = seeks[c.seek].did
  BY RowsOK DEF PoolInv, GamesTyped, LoopKnows
<1>1. CASE /\ loop' = loop
           /\ games' = games \/ \E i \in DOMAIN games : games' = [games EXCEPT ![i].active = FALSE]
  <2>1. GamesOnlyEnd
    BY <1>1, GameEnds DEF GamesOnlyEnd, PoolInv
  <2>2. ASSUME NEW k \in ToPlay, NEW c \in Ends(loop.pairs[k])
        PROVE  Cardinality(GamesOf(c.seek)') < seeks'[c.seek].max
    <3> DEFINE s == c.seek
               m == Cardinality(GamesOf(s))
               n == Cardinality(GamesOf(s)')
    <3>1. Known(s) /\ m < seeks[s].max
      BY <1>0, <2>2 DEF CapInv, ToPlay
    <3>2. n <= m /\ n \in Nat /\ m \in Nat
      BY <2>1, NoMoreGames, GamesOfFinite DEF PoolInv
    <3>3. seeks[s].max \in Nat /\ seeks'[s].max = seeks[s].max
      BY <1>0, <3>1, CapOK DEF RowsKept, Known
    <3> HIDE DEF m, n
    <3>4. n < seeks'[s].max
      BY <3>1, <3>2, <3>3
    <3> QED BY <3>4 DEF n
  <2> QED
    BY <1>0, <1>1, <2>1, <2>2, CapGamesKept DEF CapInv, ToPlay
<1>2. CASE games' = games /\ loop'.pairs = <<>> /\ loop'.pc \notin {"pair", "create", "remember"}
  <2>1. GamesOnlyEnd /\ ToPlay' = {}
    BY <1>2 DEF GamesOnlyEnd, ToPlay
  <2> QED
    BY <1>0, <2>1, CapGamesKept DEF CapInv
<1>3. CASE ListActive
  <2>1. loop'.pairs = <<>> /\ games' = games
    BY <1>3, AfterListing
  <2>2. GamesOnlyEnd /\ ToPlay' = {}
    BY <2>1 DEF GamesOnlyEnd, ToPlay
  <2> QED
    BY <1>0, <2>2, CapGamesKept DEF CapInv
<1>4. CASE PairPool
  <2>1. loop.pc = "pair" /\ loop'.pc = "create" /\ games' = games /\ seeks' = seeks
    BY <1>4, AfterPairing
  <2>2. \A k \in DOMAIN loop'.pairs : \A c \in Ends(loop'.pairs[k]) :
          c.seek \in loop.todo /\ c = Candidate(c.seek) /\ ~(c.max > 0 /\ c.active >= c.max)
    BY <1>4, PairPoolOK
  <2>3. ASSUME NEW k \in ToPlay', NEW c \in Ends(loop'.pairs[k])
        PROVE  Cardinality(GamesOf(c.seek)) < seeks[c.seek].max
    <3>1. c.seek \in loop.todo /\ c = Candidate(c.seek) /\ ~(c.max > 0 /\ c.active >= c.max)
      BY <2>2, <2>3 DEF ToPlay
    <3>2. Known(c.seek) /\ ~(Candidate(c.seek).max > 0 /\ Candidate(c.seek).active >= Candidate(c.seek).max)
      BY <1>0, <3>1
    <3> QED BY <3>2, CandidateHasRoom
  <2>4. GamesOnlyEnd /\ \A s : GamesOf(s)' = GamesOf(s)
    BY <2>1 DEF GamesOnlyEnd, GamesOf
  <2> QED
    BY <1>0, <2>1, <2>3, <2>4, CapGamesKept DEF CapInv
<1>5. CASE CreateGame
  <2>1. /\ loop.pc = "create" /\ loop'.pc = "remember" /\ loop'.pairs = loop.pairs
        /\ 1 \in DOMAIN loop.pairs /\ seeks' = seeks
    BY <1>5, AfterCreating
  <2>2. PICK g \in Game :
          /\ g.seeks = {loop.pairs[1].a.seek, loop.pairs[1].b.seek}
          /\ {g.first, g.second} = {loop.pairs[1].a.did, loop.pairs[1].b.did}
          /\ DOMAIN games' = DOMAIN games \cup {Len(games) + 1}
          /\ Len(games) + 1 \notin DOMAIN games
          /\ \A i \in DOMAIN games : games'[i] = games[i]
          /\ games'[Len(games) + 1] = g
    BY <1>5, AfterCreating
  <2> DEFINE n == Len(games) + 1
  <2> HIDE DEF n
  <2>3. /\ DOMAIN games' = DOMAIN games \cup {n} /\ n \notin DOMAIN games
        /\ games'[n] = g /\ \A i \in DOMAIN games : games'[i] = games[i]
    BY <2>2 DEF n
  <2>4. \A s \in g.seeks : /\ Known(s) /\ seeks[s].did \in {g.first, g.second}
                           /\ Cardinality(GamesOf(s)) < seeks[s].max
    BY <1>0, <2>1, <2>2 DEF CapInv, ToPlay, Ends
  <2>5. \A i \in DOMAIN games' : \A s \in games'[i].seeks :
          seeks[s].did \in {games'[i].first, games'[i].second}
    BY <2>3, <2>4 DEF CapInv
  <2>6. \A s : GamesOf(s)' \subseteq GamesOf(s) \cup {n} /\ (s \notin g.seeks => GamesOf(s)' = GamesOf(s))
    BY <2>3 DEF GamesOf
  <2>7. ASSUME NEW s, Known(s) PROVE Cardinality(GamesOf(s)') <= seeks[s].max
    <3>1. CASE s \notin g.seeks
      BY <2>6, <2>7, <3>1 DEF CapInv
    <3>2. CASE s \in g.seeks
      <4> DEFINE m == Cardinality(GamesOf(s))
                 q == Cardinality(GamesOf(s)')
      <4>1. IsFiniteSet(GamesOf(s)) /\ m \in Nat /\ n \notin GamesOf(s)
        BY <2>3, GamesOfFinite DEF PoolInv, GamesOf
      <4>2. IsFiniteSet(GamesOf(s) \cup {n}) /\ Cardinality(GamesOf(s) \cup {n}) = m + 1
        BY <4>1, FS_AddElement
      <4>3. q <= m + 1 /\ q \in Nat
        BY <2>6, <4>2, FS_Subset, FS_CardinalityType
      <4>4. m < seeks[s].max /\ seeks[s].max \in Nat
        BY <2>4, <2>7, <3>2, CapOK
      <4> HIDE DEF m, q
      <4>5. q <= seeks[s].max
        BY <4>1, <4>3, <4>4
      <4> QED BY <4>5 DEF q
    <3> QED BY <3>1, <3>2
  <2>8. ASSUME NEW k \in ToPlay', NEW c \in Ends(loop.pairs[k])
        PROVE  Cardinality(GamesOf(c.seek)') < seeks[c.seek].max
    <3>1. k \in DOMAIN loop.pairs /\ k # 1
      BY <2>1, <2>8 DEF ToPlay
    <3>2. Cardinality(GamesOf(c.seek)) < seeks[c.seek].max
      BY <2>1, <2>8, <3>1 DEF CapInv, ToPlay
    <3>3. c.seek # loop.pairs[1].a.seek /\ c.seek # loop.pairs[1].b.seek
      BY <2>1, <2>8, <3>1 DEF PoolInv, PairsDisjoint, Ends
    <3> QED BY <2>2, <2>6, <3>2, <3>3
  <2>9. \A s : Known(s)' => Known(s)
    BY <2>1 DEF Known
  <2> QED
    BY <2>1, <2>5, <2>7, <2>8, <2>9 DEF CapInv
<1>6. CASE Bookkeep
  <2>1. /\ loop'.pc = "create" /\ games' = games
        /\ \A k \in DOMAIN loop'.pairs :
             /\ k + 1 \in ToPlay /\ loop'.pairs[k] = loop.pairs[k + 1]
    BY <1>6, AfterBookkeeping
  <2>2. GamesOnlyEnd /\ \A s : GamesOf(s)' = GamesOf(s)
    BY <2>1 DEF GamesOnlyEnd, GamesOf
  <2>3. ASSUME NEW k \in ToPlay', NEW c \in Ends(loop'.pairs[k])
        PROVE  Cardinality(GamesOf(c.seek)) < seeks'[c.seek].max
    <3>1. PICK l : l \in ToPlay /\ loop'.pairs[k] = loop.pairs[l]
      BY <2>1, <2>3 DEF ToPlay
    <3>2. c \in Ends(loop.pairs[l]) /\ l \in DOMAIN loop.pairs
      BY <2>3, <3>1 DEF ToPlay
    <3>3. Known(c.seek) /\ Cardinality(GamesOf(c.seek)) < seeks[c.seek].max
      BY <1>0, <3>1, <3>2 DEF CapInv
    <3> QED BY <1>0, <3>3 DEF RowsKept, Known
  <2> QED
    BY <1>0, <2>2, <2>3, CapGamesKept DEF CapInv
<1> QED
  BY <1>1, <1>2, <1>3, <1>4, <1>5, <1>6, PassSteps

\* No seek has more games at once than it allows (loop.go:113-142, pairing.go Pair),
\* though the games are counted when the pairs of a pass are formed and made one by one
\* later, while seeks come and go and games end. An agent with two seeks may have more
\* games than each of them allows: AgentCapIsKept does not hold.
THEOREM CapIsKeptBySeek == Spec => []CapIsKept
<1>1. Init => CapInv
  <2> SUFFICES ASSUME Init PROVE CapInv
    OBVIOUS
  <2>1. games = <<>> /\ loop.pairs = <<>> /\ \A s : ~Known(s)
    BY DEF Init, Idle, Known
  <2> QED BY <2>1 DEF CapInv, ToPlay
<1>2. CapInv => CapIsKept
  BY DEF CapInv, CapIsKept, Known
<1>3. PoolInv /\ CapInv /\ [Next]_vars => CapInv'
  BY CapNextOK, PoolNextOK
<1> QED
  BY <1>1, <1>2, <1>3, PoolInitOK, PoolNextOK, PTL DEF Spec

=============================================================================
