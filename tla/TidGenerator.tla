---------------------------- MODULE TidGenerator ----------------------------
(***************************************************************************)
(* The generator of record keys (internal/tid/tid.go).  Games, receipts    *)
(* and reveals are filed under these keys, so two equal ones would         *)
(* overwrite a record.  The wall clock may stand still or go backwards     *)
(* between calls, more keys may be asked for in one microsecond than the   *)
(* clock ID has values, and the process may restart.  Next runs under a    *)
(* mutex and is one step.                                                  *)
(***************************************************************************)
EXTENDS Integers

CONSTANTS
  Slots,      \* values of the clock ID: 1024 in the code
  MaxWall,    \* BOUND: the last microsecond the wall clock shows
  MaxIssued   \* BOUND: keys issued by one process

ASSUME SlotsAssumption == Slots \in Nat \ {0}
ASSUME TidBoundsAssumption == MaxWall \in Nat /\ MaxIssued \in Nat

VARIABLES
  wall,        \* what nowMicros returns
  lastMicros, lastClockSeq,   \* the generator
  tid,         \* the last key handed out, as its integer; -1 before the first
  issued,      \* keys this process has handed out
  latest       \* the latest time this process has read off the wall clock

vars == <<wall, lastMicros, lastClockSeq, tid, issued, latest>>

\* The clock ID of defaultGenerator, which is a zero value.
clockID == 0

\* atmos.NewTID: the microsecond in the high bits, the clock ID in the low.
NewTID(micros, id) == micros * Slots + id

Init ==
  /\ wall \in 0..MaxWall
  /\ lastMicros = 0 /\ lastClockSeq = 0
  /\ tid = -1 /\ issued = 0 /\ latest = 0

Fresh(m, s) == m = wall /\ s = 0

Bump(m, s) == m = lastMicros /\ s = lastClockSeq + 1

\* Mutant: the exhausted clock ID wraps within its microsecond.
ExhaustedStays(m, s) == m = lastMicros /\ s = 0

Exhausted(m, s) == m = lastMicros + 1 /\ s = 0

\* The switch of generator.Next.
Choose(m, s) ==
  \/ wall > lastMicros  /\ Fresh(m, s)
  \/ wall <= lastMicros /\ lastClockSeq < Slots - 1  /\ Bump(m, s)
  \/ wall <= lastMicros /\ lastClockSeq >= Slots - 1 /\ Exhausted(m, s)

NextTID ==
  /\ issued < MaxIssued
  /\ Choose(lastMicros', lastClockSeq')
  /\ tid' = NewTID(lastMicros', (clockID + lastClockSeq') % Slots)
  /\ issued' = issued + 1
  /\ latest' = IF wall > latest THEN wall ELSE latest
  /\ UNCHANGED wall

\* Time passes, or somebody sets the clock.
SetClock ==
  /\ wall' \in 0..MaxWall
  /\ UNCHANGED <<lastMicros, lastClockSeq, tid, issued, latest>>

\* A new process knows nothing of the keys of the old one.
Restart ==
  /\ lastMicros' = 0 /\ lastClockSeq' = 0
  /\ tid' = -1 /\ issued' = 0 /\ latest' = 0
  /\ UNCHANGED wall

Next == NextTID \/ SetClock \/ Restart

Spec == Init /\ [][Next]_vars

-----------------------------------------------------------------------------

TypeOK ==
  /\ wall \in Nat /\ latest \in Nat /\ issued \in Nat
  /\ lastMicros \in Nat
  /\ lastClockSeq \in 0..(Slots - 1)
  /\ tid \in Nat \cup {-1}

\* While the process lives every key sorts after all the keys before it,
\* whatever the wall clock does (tid.go:50 "strictly increasing across calls
\* within the process").
StrictlyIncreasing == [][issued' > issued => tid' > tid]_vars

\* The generator runs ahead of the clock only when the keys really ran out:
\* by a microsecond for every Slots keys, no more (tid_test.go:47 "over 3001
\* calls the timestamp may advance by at most 2 microseconds").
DriftIsBounded == (lastMicros - latest) * Slots + lastClockSeq <= issued

=============================================================================
