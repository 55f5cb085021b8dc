------------------------------ MODULE ApiCalls ------------------------------
(***************************************************************************)
(* A call from an agent to the AppView, end to end: the pacing, throttling *)
(* and retries of the client (internal/botclient/botclient.go,             *)
(* packages/client/src/client.ts), and the wrapper of every endpoint,      *)
(* which verifies the bearer token with a cache of sessions and takes the  *)
(* call out of the budget of the DID (internal/auth/auth.go). One agent    *)
(* makes calls from several goroutines; its PDS and the network are        *)
(* external. A tick of the clock is the interval of the pacing, in which   *)
(* the budget regains one call (1.25 in the code).                         *)
(***************************************************************************)
EXTENDS Integers, FiniteSets

CONSTANTS
  Callers,      \* the goroutines of the agent
  Tokens,       \* access tokens of the agent, numbers; the first is the login's
  None,
  Burst,        \* RateLimitBurst
  TTL,          \* SessionCacheTTL in ticks
  IdleEvict,    \* RateLimitIdleEvict in ticks
  Backoff,      \* backoff429 of the first attempt, in ticks
  RetryAfter,   \* external: what a 429 may ask for in its header, in ticks
  MaxRetries,   \* maxRetries429
  MaxClock      \* BOUND: the last tick

ASSUME TokensAssumption == Tokens \subseteq Nat /\ 1 \in Tokens
ASSUME NoneAssumption == None \notin Nat \cup [left: Nat, seen: Nat]
ASSUME DurationsAssumption ==
  {Burst, TTL, IdleEvict, Backoff, RetryAfter, MaxRetries, MaxClock} \subseteq Nat
\* A limiter nobody has used for RateLimitIdleEvict is full again: ten minutes
\* against ten calls at ten a second.
ASSUME EvictAssumption == IdleEvict >= Burst

VARIABLES
  dialect,   \* the client: "go" or "ts"
  clock,     \* in ticks
  call,      \* what each caller is doing
  pacing,    \* the client's gate: the next free turn, and the throttle deadline
  token,     \* the client's access token
  good,      \* external: the tokens the PDS takes
  ended,     \* external: when a token stopped being taken
  held,      \* history: the last tick in which the PDS took a token, or a call had its
             \* word on it and had not remembered it yet
  sessions,  \* Verifier.sessions: when the entry of a token expires
  limiter,   \* Verifier.limiters: the entry of the DID
  spent      \* history: what the DID has got out of its budget and not regained

vars == <<dialect, clock, call, pacing, token, good, ended, held, sessions, limiter, spent>>
server == <<sessions, limiter, spent>>
pds == <<good, ended, held>>

Biggest(a, b) == IF a > b THEN a ELSE b
Smallest(a, b) == IF a < b THEN a ELSE b

Quiet == [pc |-> "idle", attempt |-> 0, due |-> 0, token |-> None]

At(c, pc) == call[c].pc = pc

Goes(c, pc) == call' = [call EXCEPT ![c].pc = pc]

Ends(c) == call' = [call EXCEPT ![c] = Quiet]

-----------------------------------------------------------------------------
(* The client.                                                             *)

\* minIntervalMs: 125 milliseconds; the Go client adds it to a Duration as it is,
\* which makes it 125 nanoseconds.
Interval == IF dialect = "go" THEN 0 ELSE 1

\* backoff429: 750 ms, doubled with every attempt, up to 8 s, which is 32/3 of it.
BackoffFor(attempt) == Smallest(Backoff * (2 ^ attempt), (32 * Backoff) \div 3)

Call(c) ==
  /\ At(c, "idle")
  /\ Goes(c, "pace")
  /\ UNCHANGED <<dialect, clock, pacing, token, pds, server>>

\* pace: the next turn, and not before the throttle ends. The TypeScript client
\* computes it when the turn before has come, the Go client at once.
Pace(c) ==
  /\ At(c, "pace")
  /\ dialect = "ts" => \A d \in Callers : ~At(d, "wait")
  /\ LET due == Biggest(clock, Biggest(pacing.next, pacing.throttle))
     IN /\ call' = [call EXCEPT ![c].pc = "wait", ![c].due = due]
        /\ pacing' = [pacing EXCEPT !.next = due + Interval]
  /\ UNCHANGED <<dialect, clock, token, pds, server>>

\* How long a 429 holds the client up: the TypeScript client does what the answer asks
\* for, if it asks for anything.
Delays(attempt) ==
  {BackoffFor(attempt)} \cup (IF dialect = "ts" THEN {RetryAfter} ELSE {})

\* doAppview: a 429 raises the shared deadline and is tried again, a few times. The
\* TypeScript client does not raise it with the one it gives up on.
Throttled(c) ==
  /\ At(c, "429")
  /\ IF dialect = "ts" /\ call[c].attempt = MaxRetries THEN UNCHANGED pacing
     ELSE \E delay \in Delays(call[c].attempt) :
            pacing' = [pacing EXCEPT !.throttle = Biggest(@, clock + delay)]
  /\ IF call[c].attempt < MaxRetries
     THEN call' = [call EXCEPT ![c].pc = "pace", ![c].attempt = @ + 1]
     ELSE Ends(c)
  /\ UNCHANGED <<dialect, clock, token, pds, server>>

\* The PDS session is renewed (by a record that was to be written).
Refresh(t) ==
  /\ t \in Tokens /\ t > token /\ token' = t
  /\ UNCHANGED <<dialect, clock, call, pacing, pds, server>>

-----------------------------------------------------------------------------
(* The Verifier.                                                           *)

\* Mutant: the cache forgets when an entry expires.
RemembersEver(t) == sessions[t] # None

Remembers(t) == sessions[t] # None /\ clock < sessions[t]

\* A call without an identity: endpoints that require one answer 401, which the
\* client does not retry, the others serve it anonymously and outside of any budget.
Refused(c) == Ends(c)

\* The request goes out with the token of the moment and reaches Verify, which knows
\* the token or has to ask. (The time a request travels is part of its wait.)
Send(c) ==
  /\ At(c, "wait") /\ clock >= call[c].due
  /\ call' = [call EXCEPT ![c].pc = IF Remembers(token) THEN "limit" ELSE "ask",
                          ![c].due = 0, ![c].token = token]
  /\ UNCHANGED <<dialect, clock, pacing, token, pds, server>>

\* The claims of the token, the PDS of its DID, getSession there: each may fail.
Ask(c) ==
  /\ At(c, "ask")
  /\ \/ call[c].token \in good /\ Goes(c, "remember")
     \/ Refused(c)
  /\ UNCHANGED <<dialect, clock, pacing, token, pds, server>>

\* What the PDS said goes into the cache, however long ago it said it.
Remember(c) ==
  /\ At(c, "remember") /\ Goes(c, "limit")
  /\ sessions' = [sessions EXCEPT ![call[c].token] = clock + TTL]
  /\ UNCHANGED <<dialect, clock, pacing, token, pds, limiter, spent>>

\* rate.Limiter: what is in the bucket now.
Filled(l) == IF l = None THEN Burst ELSE Smallest(Burst, l.left + (clock - l.seen))

\* allow, and the handler.
Allow(c) ==
  /\ At(c, "limit")
  /\ LET left == Filled(limiter)
     IN IF left > 0
        THEN /\ limiter' = [left |-> left - 1, seen |-> clock]
             /\ spent' = [calls |-> Biggest(spent.calls - (clock - spent.at), 0) + 1,
                          at |-> clock]
             /\ Ends(c)
        ELSE limiter' = [left |-> left, seen |-> clock] /\ Goes(c, "429") /\ UNCHANGED spent
  /\ UNCHANGED <<dialect, clock, pacing, token, pds, sessions>>

\* Mutant: a limiter is dropped with the next sweep.
IdleAtOnce(l) == clock > l.seen

Idle(l) == clock - l.seen > IdleEvict

\* The janitor.
Sweep ==
  /\ sessions' = [t \in Tokens |-> IF sessions[t] # None /\ clock > sessions[t]
                                   THEN None ELSE sessions[t]]
  /\ limiter' = IF limiter # None /\ Idle(limiter) THEN None ELSE limiter
  /\ UNCHANGED <<dialect, clock, call, pacing, token, pds, spent>>

-----------------------------------------------------------------------------

\* The PDS stops taking a token: it expires or is revoked.
EndToken(t) ==
  /\ t \in good /\ good' = good \ {t} /\ ended' = [ended EXCEPT ![t] = clock]
  /\ UNCHANGED <<dialect, clock, call, pacing, token, held, server>>

\* A call has the word of the PDS on a token.
Holds(t) == \E c \in Callers : At(c, "remember") /\ call[c].token = t

Tick ==
  /\ clock < MaxClock /\ clock' = clock + 1
  /\ held' = [t \in Tokens |-> IF t \in good \/ Holds(t) THEN clock' ELSE held[t]]
  /\ UNCHANGED <<dialect, call, pacing, token, good, ended, server>>

Init ==
  /\ dialect \in {"go", "ts"} /\ clock = 0
  /\ call = [c \in Callers |-> Quiet]
  /\ pacing = [next |-> 0, throttle |-> 0]
  /\ token = 1 /\ good = Tokens /\ ended = [t \in Tokens |-> None]
  /\ held = [t \in Tokens |-> 0]
  /\ sessions = [t \in Tokens |-> None] /\ limiter = None
  /\ spent = [calls |-> 0, at |-> 0]

Step(c) ==
  \/ Pace(c) \/ Send(c) \/ Ask(c) \/ Remember(c) \/ Allow(c) \/ Throttled(c)

Next ==
  \/ Tick \/ Sweep
  \/ \E c \in Callers : Call(c) \/ Step(c)
  \/ \E t \in Tokens : Refresh(t) \/ EndToken(t)

Spec == Init /\ [][Next]_vars

-----------------------------------------------------------------------------

TypeOK ==
  /\ clock \in 0..MaxClock /\ token \in Tokens /\ good \subseteq Tokens
  /\ call \in [Callers -> [pc: {"idle", "pace", "wait", "ask", "remember", "limit", "429"},
                           attempt: 0..MaxRetries, due: Nat,
                           token: Tokens \cup {None}]]
  /\ limiter = None \/ limiter \in [left: 0..Burst, seen: 0..MaxClock]

\* In every stretch of time a DID gets its burst and one call a tick, no more, also
\* when the janitor drops its limiter in between (auth.go:55 RateLimitIdleEvict).
BudgetHolds == spent.calls <= Burst

\* The cache takes nobody in on a token for longer than it remembers a session, counted
\* from when the PDS last took the token and from the last call that had its word then and
\* was slow to remember it; calls that come in meanwhile prolong nothing (auth.go:43-45
\* SessionCacheTTL, :257 the entry that is made after the answer).
EndedIsShutOut ==
  [][\A c \in Callers : Send(c) /\ call'[c].pc = "limit" => clock < held[token] + TTL]_vars

\* auth.go:43 "how long a verified session is remembered by token hash before the PDS is
\* consulted again": an ended token would be out after that time.
EndedIsOutInTime ==
  [][\A c \in Callers :
       Send(c) /\ call'[c].pc = "limit" /\ ended[token] # None
       => clock <= ended[token] + TTL]_vars

\* botclient.go:211 "each turn waits until minInterval has passed since the previous
\* request".
TurnsAreApart ==
  \A c, d \in Callers : c # d /\ At(c, "wait") /\ At(d, "wait") => call[c].due # call[d].due
=============================================================================
