---------------------------- MODULE ApiCallsProofs ----------------------------
(***************************************************************************)
(* The budget of a DID and the end of a token, for every number of callers *)
(* and every length of the delays.                                         *)
(***************************************************************************)
EXTENDS ApiCalls, TLAPS

USE TokensAssumption, NoneAssumption, DurationsAssumption, EvictAssumption
USE DEF At, Goes, Ends, pds, server

\* TypeOK, and the types of what it leaves out. Nothing is dated in the future.
Typed ==
  /\ TypeOK
  /\ dialect \in {"go", "ts"}
  /\ pacing \in [next: Nat, throttle: Nat]
  /\ ended \in [Tokens -> Nat \cup {None}]
  /\ held \in [Tokens -> Nat] /\ \A t \in Tokens : held[t] <= clock
  /\ sessions \in [Tokens -> Nat \cup {None}]
  /\ limiter # None => limiter.seen <= clock
  /\ spent \in [calls: Nat, at: 0..clock]
  /\ \A c \in Callers :
       call[c].pc \in {"ask", "remember", "limit"} => call[c].token \in Tokens

\* What the DID owes its budget now, one call less with every tick.
Owed == Biggest(spent.calls - (clock - spent.at), 0)

\* What is owed and what is in the bucket never exceed its size together.
Balanced == spent.calls <= Burst /\ Owed + Filled(limiter) <= Burst

CallState == [pc: {"idle", "pace", "wait", "ask", "remember", "limit", "429"},
              attempt: 0..MaxRetries, due: Nat, token: Tokens \cup {None}]

-----------------------------------------------------------------------------
(* Types.                                                                  *)

\* A caller that moves on keeps the types.
LEMMA CallTyped ==
  ASSUME Typed, NEW c \in Callers, NEW q \in CallState, call' = [call EXCEPT ![c] = q],
         q.pc \in {"ask", "remember", "limit"} => q.token \in Tokens
  PROVE  /\ call' \in [Callers -> CallState]
         /\ \A d \in Callers :
              call'[d].pc \in {"ask", "remember", "limit"} => call'[d].token \in Tokens
BY DEF Typed, TypeOK, CallState

\* A caller at a later station of the same attempt, with the same token.
LEMMA GoesTyped ==
  ASSUME Typed, NEW c \in Callers, NEW pc, Goes(c, pc),
         \/ pc \in {"pace", "429"}
         \/ pc \in {"remember", "limit"} /\ call[c].pc \in {"ask", "remember"}
  PROVE  /\ call' \in [Callers -> CallState]
         /\ \A d \in Callers :
              call'[d].pc \in {"ask", "remember", "limit"} => call'[d].token \in Tokens
<1> DEFINE q == [call[c] EXCEPT !.pc = pc]
<1>1. call[c] \in CallState
  BY DEF Typed, TypeOK, CallState
<1>2. q \in CallState /\ q.pc = pc /\ q.token = call[c].token
  BY <1>1 DEF CallState
<1>3. pc \in {"remember", "limit"} => call[c].token \in Tokens
  BY DEF Typed
<1>4. call' = [call EXCEPT ![c] = q]
  OBVIOUS
<1> HIDE DEF q
<1> QED
  BY <1>2, <1>3, <1>4, CallTyped

\* So does a caller whose call is over.
LEMMA EndsTyped ==
  ASSUME Typed, NEW c \in Callers, Ends(c)
  PROVE  /\ call' \in [Callers -> CallState]
         /\ \A d \in Callers :
              call'[d].pc \in {"ask", "remember", "limit"} => call'[d].token \in Tokens
<1>1. Quiet \in CallState /\ Quiet.pc = "idle"
  BY DEF Quiet, CallState
<1> QED
  BY <1>1, CallTyped

\* The turn a caller is given is a moment.
LEMMA PaceTyped == ASSUME Typed, NEW c \in Callers, Pace(c) PROVE Typed'
<1> DEFINE due == Biggest(clock, Biggest(pacing.next, pacing.throttle))
           q   == [call[c] EXCEPT !.pc = "wait", !.due = due]
<1>1. call[c] \in CallState /\ due \in Nat /\ Interval \in Nat
  BY DEF Typed, TypeOK, CallState, Biggest, Interval
<1>2. q \in CallState /\ q.pc = "wait"
  BY <1>1 DEF CallState
<1>3. /\ call' = [call EXCEPT ![c] = q]
      /\ pacing' = [pacing EXCEPT !.next = due + Interval]
      /\ UNCHANGED <<dialect, clock, token, pds, server>>
  BY DEF Pace
<1>4. pacing' \in [next: Nat, throttle: Nat]
  BY <1>1, <1>3 DEF Typed
<1> HIDE DEF q, due
<1>5. /\ call' \in [Callers -> CallState]
      /\ \A d \in Callers :
           call'[d].pc \in {"ask", "remember", "limit"} => call'[d].token \in Tokens
  BY <1>2, <1>3, CallTyped
<1> QED
  BY <1>3, <1>4, <1>5 DEF Typed, TypeOK, CallState

\* So is the end of a throttling.
LEMMA ThrottledTyped == ASSUME Typed, NEW c \in Callers, Throttled(c) PROVE Typed'
<1> DEFINE q == [call[c] EXCEPT !.pc = "pace", !.attempt = @ + 1]
<1>1. call[c] \in CallState
  BY DEF Typed, TypeOK, CallState
<1>2. Delays(call[c].attempt) \subseteq Int
  BY <1>1 DEF Delays, BackoffFor, Smallest, CallState
<1>3. \A delay \in Int : Biggest(pacing.throttle, clock + delay) \in Nat
  BY DEF Biggest, Typed, TypeOK
<1>4. pacing' \in [next: Nat, throttle: Nat]
  BY <1>2, <1>3 DEF Throttled, Typed
<1>5. UNCHANGED <<dialect, clock, token, pds, server>>
  BY DEF Throttled
<1>6. /\ call' \in [Callers -> CallState]
      /\ \A d \in Callers :
           call'[d].pc \in {"ask", "remember", "limit"} => call'[d].token \in Tokens
  <2>1. CASE call[c].attempt < MaxRetries
    <3>0. call[c].attempt + 1 \in 0..MaxRetries
      BY <1>1, <2>1 DEF CallState
    <3>1. q \in CallState /\ q.pc = "pace"
      BY <1>1, <3>0 DEF CallState
    <3>2. call' = [call EXCEPT ![c] = q]
      BY <2>1 DEF Throttled
    <3> HIDE DEF q
    <3> QED
      BY <3>1, <3>2, CallTyped
  <2>2. CASE ~(call[c].attempt < MaxRetries)
    BY <2>2, EndsTyped DEF Throttled
  <2> QED
    BY <2>1, <2>2
<1> QED
  BY <1>4, <1>5, <1>6 DEF Typed, TypeOK, CallState

\* A request goes out with a token of the agent.
LEMMA SendTyped == ASSUME Typed, NEW c \in Callers, Send(c) PROVE Typed'
<1> DEFINE pc == IF Remembers(token) THEN "limit" ELSE "ask"
           q  == [call[c] EXCEPT !.pc = pc, !.due = 0, !.token = token]
<1>1. call[c] \in CallState /\ token \in Tokens
  BY DEF Typed, TypeOK, CallState
<1>2. q \in CallState /\ q.token = token
  BY <1>1 DEF CallState
<1>3. call' = [call EXCEPT ![c] = q] /\ UNCHANGED <<dialect, clock, pacing, token, pds, server>>
  BY DEF Send
<1> HIDE DEF q
<1>4. /\ call' \in [Callers -> CallState]
      /\ \A d \in Callers :
           call'[d].pc \in {"ask", "remember", "limit"} => call'[d].token \in Tokens
  BY <1>1, <1>2, <1>3, CallTyped
<1> QED
  BY <1>3, <1>4 DEF Typed, TypeOK, CallState

\* What allow finds in the bucket is between nothing and its size.
LEMMA FilledType == Typed => Filled(limiter) \in 0..Burst
  BY DEF Typed, TypeOK, Filled, Smallest

\* The budget is charged or not, by whole calls and now.
LEMMA AllowTyped == ASSUME Typed, NEW c \in Callers, Allow(c) PROVE Typed'
<1> DEFINE left == Filled(limiter)
<1>1. left \in 0..Burst /\ clock \in 0..MaxClock
  BY FilledType DEF Typed, TypeOK
<1>2. limiter' \in [left: 0..Burst, seen: 0..MaxClock] /\ limiter'.seen = clock
  <2>1. \/ left > 0 /\ limiter' = [left |-> left - 1, seen |-> clock]
        \/ limiter' = [left |-> left, seen |-> clock]
    BY DEF Allow
  <2> QED
    BY <1>1, <2>1
<1>3. spent' \in [calls: Nat, at: 0..clock]
  BY <1>1 DEF Allow, Typed, Biggest
<1>4. /\ call' \in [Callers -> CallState]
      /\ \A d \in Callers :
           call'[d].pc \in {"ask", "remember", "limit"} => call'[d].token \in Tokens
  BY GoesTyped, EndsTyped DEF Allow
<1>5. UNCHANGED <<dialect, clock, pacing, token, pds, sessions>>
  BY DEF Allow
<1> QED
  BY <1>2, <1>3, <1>4, <1>5 DEF Typed, TypeOK, CallState

\* Every step keeps the types.
LEMMA TypedNext == Typed /\ [Next]_vars => Typed'
<1> SUFFICES ASSUME Typed, [Next]_vars PROVE Typed'
  OBVIOUS
<1>1. ASSUME NEW c \in Callers, Call(c) \/ Ask(c) PROVE Typed'
  <2>1. /\ call' \in [Callers -> CallState]
        /\ \A d \in Callers :
             call'[d].pc \in {"ask", "remember", "limit"} => call'[d].token \in Tokens
    BY <1>1, GoesTyped, EndsTyped DEF Call, Ask, Refused
  <2>2. UNCHANGED <<dialect, clock, pacing, token, pds, server>>
    BY <1>1 DEF Call, Ask
  <2> QED
    BY <2>1, <2>2 DEF Typed, TypeOK, CallState
<1>2. ASSUME NEW c \in Callers, Remember(c) PROVE Typed'
  <2>1. /\ call' \in [Callers -> CallState]
        /\ \A d \in Callers :
             call'[d].pc \in {"ask", "remember", "limit"} => call'[d].token \in Tokens
    BY <1>2, GoesTyped DEF Remember
  <2>2. clock + TTL \in Nat
    BY DEF Typed, TypeOK
  <2>3. sessions' \in [Tokens -> Nat \cup {None}]
    BY <1>2, <2>2 DEF Remember, Typed
  <2> QED
    BY <1>2, <2>1, <2>3 DEF Remember, Typed, TypeOK, CallState
<1>3. CASE Tick
  <2>1. clock' \in 0..MaxClock /\ clock' = clock + 1
    BY <1>3 DEF Tick, Typed, TypeOK
  <2>2. held' \in [Tokens -> Nat] /\ \A t \in Tokens : held'[t] <= clock'
    BY <1>3, <2>1 DEF Tick, Typed, TypeOK
  <2> QED
    BY <1>3, <2>1, <2>2 DEF Tick, Typed, TypeOK
<1>4. CASE Sweep
  <2>1. sessions' \in [Tokens -> Nat \cup {None}]
    BY <1>4 DEF Sweep, Typed
  <2> QED
    BY <1>4, <2>1 DEF Sweep, Typed, TypeOK
<1>5. ASSUME NEW t \in Tokens, Refresh(t) \/ EndToken(t) PROVE Typed'
  <2>1. CASE Refresh(t)
    BY <2>1 DEF Refresh, Typed, TypeOK
  <2>2. CASE EndToken(t)
    <3>1. ended' \in [Tokens -> Nat \cup {None}] /\ good' \subseteq Tokens
      BY <2>2 DEF EndToken, Typed, TypeOK
    <3> QED
      BY <2>2, <3>1 DEF EndToken, Typed, TypeOK
  <2> QED
    BY <1>5, <2>1, <2>2
<1>6. CASE UNCHANGED vars
  BY <1>6 DEF vars, Typed, TypeOK
<1> QED
  BY <1>1, <1>2, <1>3, <1>4, <1>5, <1>6, PaceTyped, SendTyped, AllowTyped,
     ThrottledTyped DEF Next, Step

\* At the start every type is right.
LEMMA TypedInit == Init => Typed
<1> SUFFICES ASSUME Init PROVE Typed
  OBVIOUS
<1>1. Quiet \in CallState
  BY DEF Quiet, CallState
<1> QED
  BY <1>1 DEF Init, Typed, TypeOK, CallState, Quiet

\* Every variable keeps its type.
THEOREM TypeCorrect == Spec => []TypeOK
<1>1. Typed => TypeOK
  BY DEF Typed
<1> QED
  BY <1>1, TypedInit, TypedNext, PTL DEF Spec

-----------------------------------------------------------------------------
(* The budget.                                                             *)

\* Time gives back to the bucket no more than it takes off what is owed.
LEMMA TickBalanced == ASSUME Typed, Balanced, Tick PROVE Balanced'
<1>1. /\ clock' = clock + 1 /\ clock \in Nat /\ UNCHANGED <<limiter, spent>>
      /\ spent.calls \in Nat /\ spent.at \in 0..clock
  BY DEF Tick, Typed, TypeOK
<1>2. Owed' = IF Owed = 0 THEN 0 ELSE Owed - 1
  BY <1>1 DEF Owed, Biggest
<1>3. Filled(limiter)' <= Burst /\ Filled(limiter)' <= Filled(limiter) + 1
  <2>1. CASE limiter = None
    BY <1>1, <2>1 DEF Filled
  <2>2. CASE limiter # None
    <3>1. limiter.left \in Nat /\ limiter.seen \in 0..clock
      BY <2>2 DEF Typed, TypeOK
    <3> QED
      BY <1>1, <2>2, <3>1 DEF Filled, Smallest
  <2> QED
    BY <2>1, <2>2
<1>4. Owed \in Nat /\ Filled(limiter) \in 0..Burst
  BY <1>1, FilledType DEF Owed, Biggest
<1>5. Filled(limiter)' \in Int
  BY <1>1, FilledType, TypedNext DEF Next, Filled, Typed, TypeOK, Smallest
<1> QED
  BY <1>1, <1>2, <1>3, <1>4, <1>5 DEF Balanced

\* A call that is let through owes one more and leaves one less in the bucket.
LEMMA AllowBalanced ==
  ASSUME Typed, Balanced, NEW c \in Callers, Allow(c) PROVE Balanced'
<1> DEFINE left == Filled(limiter)
<1>1. /\ left \in 0..Burst /\ clock \in Nat /\ clock' = clock
      /\ spent.calls \in Nat /\ spent.at \in 0..clock /\ Owed \in Nat
      /\ Owed + left <= Burst /\ spent.calls <= Burst
  BY FilledType DEF Allow, Typed, TypeOK, Balanced, Owed, Biggest
<1>2. ASSUME NEW n \in 0..Burst, limiter' = [left |-> n, seen |-> clock]
      PROVE  Filled(limiter)' = n
  <2>1. limiter' # None
    BY <1>1, <1>2
  <2> QED
    BY <1>1, <1>2, <2>1 DEF Filled, Smallest
<1>3. CASE left > 0
  <2>1. limiter' = [left |-> left - 1, seen |-> clock]
        /\ spent' = [calls |-> Owed + 1, at |-> clock]
    BY <1>3 DEF Allow, Owed
  <2>2. Filled(limiter)' = left - 1
    BY <1>1, <1>2, <1>3, <2>1
  <2>3. Owed' = Owed + 1 /\ spent'.calls = Owed + 1
    BY <1>1, <2>1 DEF Owed, Biggest
  <2> QED
    BY <1>1, <1>3, <2>2, <2>3 DEF Balanced
<1>4. CASE ~(left > 0)
  <2>1. limiter' = [left |-> left, seen |-> clock] /\ spent' = spent
    BY <1>4 DEF Allow
  <2>2. Filled(limiter)' = left
    BY <1>1, <1>2, <2>1
  <2>3. Owed' = Owed
    BY <1>1, <2>1 DEF Owed
  <2> QED
    BY <1>1, <2>1, <2>2, <2>3 DEF Balanced
<1> QED
  BY <1>3, <1>4

\* A limiter that the janitor drops is full, so nothing is owed.
LEMMA SweepBalanced == ASSUME Typed, Balanced, Sweep PROVE Balanced'
<1>1. UNCHANGED <<clock, spent>> /\ limiter' \in {None, limiter}
  BY DEF Sweep
<1>2. CASE limiter' = limiter
  BY <1>1, <1>2 DEF Balanced, Owed, Filled
<1>3. CASE limiter' # limiter
  <2>1. limiter # None /\ Idle(limiter) /\ limiter' = None
    BY <1>1, <1>3 DEF Sweep
  <2>2. limiter.left \in Nat /\ limiter.seen \in 0..clock /\ clock \in Nat
    BY <2>1 DEF Typed, TypeOK
  <2>3. Filled(limiter) = Burst
    BY <2>1, <2>2 DEF Idle, Filled, Smallest
  <2>4. Filled(limiter)' = Burst /\ Owed' = Owed
    BY <1>1, <2>1 DEF Filled, Owed
  <2> QED
    BY <1>1, <2>3, <2>4 DEF Balanced
<1> QED
  BY <1>2, <1>3

\* Every step keeps the balance.
LEMMA BalancedNext == Typed /\ Balanced /\ [Next]_vars => Balanced'
<1> SUFFICES ASSUME Typed, Balanced, [Next]_vars PROVE Balanced'
  OBVIOUS
<1>1. CASE UNCHANGED <<clock, limiter, spent>>
  BY <1>1 DEF Balanced, Owed, Filled
<1> QED
  BY <1>1, TickBalanced, AllowBalanced, SweepBalanced
  DEF Next, Step, Call, Pace, Send, Ask, Remember, Throttled, Refresh, EndToken, vars

\* In every stretch of time a DID gets its burst and one call a tick, no more, also
\* when the janitor drops its limiter in between.
THEOREM BudgetKept == Spec => []BudgetHolds
<1>1. Init => Balanced
  BY DEF Init, Balanced, Owed, Biggest, Filled
<1>2. Balanced => BudgetHolds
  BY DEF Balanced, BudgetHolds
<1> QED
  BY <1>1, <1>2, TypedInit, TypedNext, BalancedNext, PTL DEF Spec

-----------------------------------------------------------------------------
(* The end of a token.                                                     *)

\* An entry outlives by the TTL the last tick in which the PDS took its token or a call
\* had the word of the PDS on it; and that tick is the present as long as either is so.
Outlived(t) ==
  /\ sessions[t] # None => sessions[t] <= held[t] + TTL
  /\ t \in good => held[t] = clock
  /\ Holds(t) => held[t] = clock

Shut == \A t \in Tokens : Outlived(t)

\* A step of a caller that neither asks the PDS nor remembers what it said.
LEMMA CallerShut ==
  ASSUME Typed, Shut, NEW c \in Callers, call'[c].pc # "remember",
         \A d \in Callers \ {c} : call'[d] = call[d], UNCHANGED <<clock, pds, sessions>>
  PROVE  Shut'
BY DEF Shut, Outlived, Holds

\* Every step keeps what a token lets in.
LEMMA ShutNext == Typed /\ Shut /\ [Next]_vars => Shut'
<1> SUFFICES ASSUME Typed, Shut, [Next]_vars PROVE Shut'
  OBVIOUS
<1>0. /\ call \in [Callers -> CallState] /\ clock \in Nat /\ held \in [Tokens -> Nat]
      /\ sessions \in [Tokens -> Nat \cup {None}] /\ good \subseteq Tokens
      /\ \A t \in Tokens : held[t] <= clock
  BY DEF Typed, TypeOK, CallState
<1>1. ASSUME NEW c \in Callers,
             Call(c) \/ Pace(c) \/ Send(c) \/ Throttled(c) \/ Allow(c)
      PROVE  Shut'
  <2>1. call'[c].pc # "remember" /\ \A d \in Callers \ {c} : call'[d] = call[d]
    BY <1>0, <1>1 DEF Call, Pace, Send, Throttled, Allow, CallState, Quiet
  <2> QED
    BY <1>1, <2>1, CallerShut DEF Call, Pace, Send, Throttled, Allow
<1>2. ASSUME NEW c \in Callers, Ask(c) PROVE Shut'
  <2>1. /\ \A d \in Callers \ {c} : call'[d] = call[d]
        /\ UNCHANGED <<clock, pds, sessions>>
    BY <1>0, <1>2 DEF Ask, Refused
  <2>2. CASE call[c].token \in good /\ Goes(c, "remember")
    <3>1. call'[c].token = call[c].token
      BY <1>0, <2>2 DEF CallState
    <3>2. \A t \in Tokens : Holds(t)' => Holds(t) \/ t \in good
      BY <2>1, <2>2, <3>1 DEF Holds
    <3> QED
      BY <2>1, <3>2 DEF Shut, Outlived
  <2>3. CASE Ends(c)
    <3>1. call'[c].pc = "idle"
      BY <1>0, <2>3 DEF Quiet
    <3> QED
      BY <2>1, <3>1, CallerShut
  <2> QED
    BY <1>2, <2>2, <2>3 DEF Ask, Refused
<1>3. ASSUME NEW c \in Callers, Remember(c) PROVE Shut'
  <2> DEFINE t == call[c].token
  <2>1. t \in Tokens /\ Holds(t)
    BY <1>3 DEF Remember, Holds, Typed
  <2>2. held[t] = clock
    BY <2>1 DEF Shut, Outlived
  <2>3. /\ \A d \in Callers \ {c} : call'[d] = call[d]
        /\ call'[c].pc # "remember" /\ UNCHANGED <<clock, pds>>
        /\ sessions' = [sessions EXCEPT ![t] = clock + TTL]
    BY <1>0, <1>3 DEF Remember, CallState
  <2> HIDE DEF t
  <2>4. \A u \in Tokens : Holds(u)' => Holds(u)
    BY <2>3 DEF Holds
  <2> SUFFICES ASSUME NEW u \in Tokens PROVE Outlived(u)'
    BY DEF Shut
  <2>5. Outlived(u)
    BY DEF Shut
  <2>6. CASE u = t
    <3>1. sessions'[u] = clock + TTL /\ held'[u] = clock /\ clock' = clock
      BY <1>0, <2>2, <2>3, <2>6
    <3>2. sessions'[u] <= held'[u] + TTL
      BY <1>0, <3>1
    <3> QED
      BY <3>1, <3>2 DEF Outlived
  <2>7. CASE u # t
    BY <1>0, <2>3, <2>4, <2>5, <2>7 DEF Outlived
  <2> QED
    BY <2>6, <2>7
<1>4. CASE Tick
  <2>1. /\ clock' = clock + 1 /\ UNCHANGED <<call, good, sessions>>
        /\ held' = [t \in Tokens |-> IF t \in good \/ Holds(t) THEN clock' ELSE held[t]]
    BY <1>4 DEF Tick
  <2>2. ASSUME NEW t \in Tokens PROVE Outlived(t)'
    <3>1. Holds(t)' <=> Holds(t)
      BY <2>1 DEF Holds
    <3>2. held'[t] >= held[t] /\ (t \in good \/ Holds(t) => held'[t] = clock')
      BY <1>0, <2>1
    <3>3. held[t] \in Nat /\ held'[t] \in Nat /\ TTL \in Nat
      BY <1>0, <2>1
    <3> QED
      BY <1>0, <2>1, <3>1, <3>2, <3>3 DEF Shut, Outlived
  <2> QED
    BY <2>2 DEF Shut
<1>5. CASE Sweep
  <2>1. UNCHANGED <<clock, call, pds>>
        /\ \A t \in Tokens : sessions'[t] = sessions[t] \/ sessions'[t] = None
    BY <1>5 DEF Sweep
  <2> QED
    BY <2>1 DEF Shut, Outlived, Holds
<1>6. ASSUME NEW t \in Tokens, Refresh(t) \/ EndToken(t) PROVE Shut'
  <2>1. UNCHANGED <<clock, call, held, sessions>> /\ good' \subseteq good
    BY <1>6 DEF Refresh, EndToken
  <2> QED
    BY <2>1 DEF Shut, Outlived, Holds
<1>7. CASE UNCHANGED vars
  BY <1>7 DEF vars, Shut, Outlived, Holds
<1> QED
  BY <1>1, <1>2, <1>3, <1>4, <1>5, <1>6, <1>7 DEF Next, Step

\* The cache takes nobody in on a token for longer than it remembers a session, counted
\* from when the PDS last took the token and from the last call that had its word then,
\* however long that call took to remember it (auth.go:43-45 SessionCacheTTL, :257).
THEOREM EndedShutOut == Spec => EndedIsShutOut
<1>1. Init => Shut
  BY DEF Init, Shut, Outlived, Holds, Quiet
<1>2. Typed /\ Shut =>
        \A c \in Callers : Send(c) /\ call'[c].pc = "limit" => clock < held[token] + TTL
  <2> SUFFICES ASSUME Typed, Shut, NEW c \in Callers, Send(c), call'[c].pc = "limit"
               PROVE  clock < held[token] + TTL
    OBVIOUS
  <2>1. token \in Tokens /\ call \in [Callers -> CallState] /\ clock \in Nat
    BY DEF Typed, TypeOK, CallState
  <2>2. Remembers(token)
    BY <2>1 DEF Send, CallState
  <2>3. sessions[token] \in Nat /\ held[token] \in Nat /\ TTL \in Nat
    BY <2>1, <2>2 DEF Remembers, Typed
  <2>4. sessions[token] # None /\ clock < sessions[token]
    BY <2>2 DEF Remembers
  <2>5. sessions[token] <= held[token] + TTL
    BY <2>1, <2>4 DEF Shut, Outlived
  <2> QED
    BY <2>1, <2>3, <2>4, <2>5
<1> QED
  BY <1>1, <1>2, TypedInit, TypedNext, ShutNext, PTL DEF Spec, EndedIsShutOut

=============================================================================
