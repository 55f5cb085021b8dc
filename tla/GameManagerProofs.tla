-------------------------- MODULE GameManagerProofs --------------------------
(***************************************************************************)
(* The referee implements the log it promises (module GameLog), for every  *)
(* number of requests, every overlap of them and every bound.              *)
(*                                                                         *)
(* IInv is the inductive invariant everything rests on: what each call has *)
(* established by the statements behind it.  MateInv, AnnounceInv and      *)
(* AnswerInv are inductive relative to it, one for each further promise.   *)
(* DueInv and TellInv are for the ends of games: who may lose on time, and *)
(* that every end is announced unless a fault keeps it from being so.      *)
(***************************************************************************)
EXTENDS GameManager, SequenceTheorems, FiniteSetTheorems, TLAPS

USE DEF Players, Actors

\* What a request has established by the statements it has executed.
Established(q) ==
  /\ q.op = "submitMove" => q.payload \in Payloads
  /\ q.pc = "read" => q.op \in AllOps
  /\ q.pc \in {"load", "commit", "update"} => q.row \in Row
  /\ q.pc = "load" /\ q.op = "submitMove" => q.ply >= 1
  /\ q.pc = "publish" /\ q.op = "offerDraw" => q.row \in Row
  /\ q.pc = "update" => q.op \in {"offerDraw", "declineDraw"}
  /\ q.pc \in {"load", "update"} /\ q.op \notin {"submitMove", "sweep"} =>
       q.by \in Players
  /\ q.pc = "commit" =>
       /\ q.op = "submitMove"
       /\ q.by = q.row.turn
       /\ q.ply = q.row.ply + 1
       /\ ~Expired(q.row, q.at)
  /\ q.pc \in {"finish", "record", "announce"} => q.res \in Result
  /\ q.pc = "finish" /\ q.op = "submitMove" => q.res.reason = "timeout"
  /\ q.pc = "publish" /\ q.op = "submitMove" =>
       q.ply \in 1..Len(moves) /\ (q.payload \in Mating => q.res \in Result)
  /\ q.pc \in {"record", "announce"} /\ q.op = "submitMove" =>
       q.ply \in 1..Len(moves) \/ q.res.reason = "timeout"

IInv ==
  /\ TypeOK
  /\ RowsFitLog
  /\ \A a \in Actors : Established(req[a])

USE PlayersAssumption, PayloadsAssumption, ClockAssumption, RequestsAssumption,
    BoundsAssumption, NullAssumption

\* The seat on move alternates with the ply (the seat order of PlayerAt).
LEMMA Alternation == \A n \in Nat : PlayerAt(n + 1) = Opponent(PlayerAt(n))
  BY DEF PlayerAt, Opponent

\* A ply that is next in the log and not taken extends the log by one entry.
LEMMA ExtendIsAppend ==
  ASSUME NEW S, NEW s \in Seq(S), NEW e \in S, NEW n, n = Len(s) + 1
  PROVE  [i \in DOMAIN s \cup {n} |-> IF i = n THEN e ELSE s[i]] = Append(s, e)
<1> DEFINE t == [i \in DOMAIN s \cup {n} |-> IF i = n THEN e ELSE s[i]]
           u == Append(s, e)
<1>1. u \in Seq(S) /\ Len(u) = n /\ DOMAIN u = 1..n
  OBVIOUS
<1>2. \A i \in 1..n : u[i] = IF i = n THEN e ELSE s[i]
  OBVIOUS
<1>3. DOMAIN s = 1..Len(s) /\ Len(s) \in Nat
  OBVIOUS
<1>4. DOMAIN s \cup {n} = 1..n
  BY <1>3
<1>5. t = [i \in 1..n |-> IF i = n THEN e ELSE s[i]]
  BY <1>4
<1>6. u = [i \in 1..n |-> u[i]]
  <2>1. u \in [1..n -> S]
    BY <1>1, LenProperties
  <2> HIDE DEF u
  <2> QED
    BY <2>1
<1>7. [i \in 1..n |-> u[i]] = [i \in 1..n |-> IF i = n THEN e ELSE s[i]]
  BY <1>2
<1> HIDE DEF t, u
<1>8. t = u
  BY <1>5, <1>6, <1>7
<1> QED
  BY <1>8 DEF t, u

\* The request of an actor that does nothing is well formed.
LEMMA QuietOK == Quiet \in Request
  BY DEF Quiet, Request, NoAnswer, AllOps, InFlight, Codes

\* A game just created satisfies the inductive invariant.
THEOREM InitOK == Init => IInv
<1> SUFFICES ASSUME Init PROVE IInv
  OBVIOUS
<1>1. NewRow \in Row /\ RowFitsLog(NewRow)
  BY DEF Init, NewRow, Row, RowFitsLog, PlayerAt
<1>3. TypeOK
  BY <1>1, QuietOK DEF Init, TypeOK, Past
<1>4. RowsFitLog
  BY <1>1 DEF Init, RowsFitLog, Quiet
<1>5. \A a \in Actors : Established(req[a])
  BY DEF Init, Established, Quiet, InFlight
<1> QED
  BY <1>3, <1>4, <1>5 DEF IInv

-----------------------------------------------------------------------------
(* Steps that only move one request on.                                    *)

DbVars == <<row, moves, now, bus, record, past>>

\* A step that changes one request only keeps the invariant when the new
\* request is well formed and has established what its next statement relies on.
LEMMA ReqStep ==
  ASSUME IInv, NEW a \in Actors, NEW q \in Request, Established(q),
         q.row # Null => RowFitsLog(q.row),
         req' = [req EXCEPT ![a] = q], UNCHANGED DbVars
  PROVE  IInv'
<1>1. TypeOK'
  BY DEF IInv, TypeOK, DbVars
<1>2. RowsFitLog'
  BY DEF IInv, TypeOK, DbVars, RowsFitLog, RowFitsLog
<1>3. (\A b \in Actors : Established(req[b]))'
  BY DEF IInv, TypeOK, DbVars, Established
<1> QED
  BY <1>1, <1>2, <1>3 DEF IInv

\* A call that has answered holds no row and has nothing left to establish.
LEMMA EndedOK ==
  ASSUME NEW a, NEW code \in Codes, NEW ply \in Nat, NEW mv \in Move \cup {Null}
  PROVE  /\ Ended(a, code, ply, mv) \in Request
         /\ Ended(a, code, ply, mv).row = Null
         /\ Established(Ended(a, code, ply, mv))
<1>1. Quiet \in Request
  BY QuietOK
<1>2. [Quiet EXCEPT !.pc = "done",
                    !.out = [code |-> code, ply |-> ply, move |-> mv]] \in Request
  BY <1>1 DEF Request
<1> QED
  BY <1>1, <1>2 DEF Ended, Quiet, Established, Request

\* Answering a call keeps the invariant.
LEMMA EndStep ==
  ASSUME IInv, NEW a \in Actors, NEW code \in Codes, NEW ply \in Nat,
         NEW mv \in Move \cup {Null},
         req' = [req EXCEPT ![a] = Ended(a, code, ply, mv)], UNCHANGED DbVars
  PROVE  IInv'
  BY EndedOK, ReqStep

\* Answering a call with an error keeps the invariant.
LEMMA FailStep ==
  ASSUME IInv, NEW a \in Actors, NEW code \in Codes, Fails(a, code)
  PROVE  IInv'
  BY EndStep DEF Fails, DbVars

\* Under the invariant every request is well formed.
LEMMA ReqType == ASSUME IInv, NEW a \in Actors PROVE req[a] \in Request
  BY DEF IInv, TypeOK

\* Moving on to the next statement keeps the invariant when what that
\* statement relies on is established.
LEMMA GoStep ==
  ASSUME IInv, NEW a \in Actors, NEW pc \in InFlight, GoesTo(a, pc),
         Established([req[a] EXCEPT !.pc = pc])
  PROVE  IInv'
<1>1. [req[a] EXCEPT !.pc = pc] \in Request
  BY ReqType DEF Request
<1>2. [req[a] EXCEPT !.pc = pc].row = req[a].row
  BY ReqType DEF Request
<1>3. req' = [req EXCEPT ![a] = [req[a] EXCEPT !.pc = pc]]
  BY DEF GoesTo
<1> QED
  BY <1>1, <1>2, <1>3, ReqStep DEF IInv, RowsFitLog, GoesTo, DbVars

\* Going to finishTimeout with a result keeps the invariant; a move gets
\* there on time alone.
LEMMA GoFinishStep ==
  ASSUME IInv, NEW a \in Actors, NEW res \in Result, GoesToFinish(a, res),
         req[a].op = "submitMove" => res.reason = "timeout"
  PROVE  IInv'
<1> DEFINE q == [req[a] EXCEPT !.pc = "finish", !.res = res, !.seen = Len(moves)]
<1>1. Len(moves) \in Nat
  BY DEF IInv, TypeOK
<1>2. q \in Request
  <2>1. "finish" \in InFlight
    BY DEF InFlight
  <2>2. req[a] \in Request
    BY ReqType
  <2> QED
    BY <1>1, <2>1, <2>2 DEF Request
<1>3. q.row = req[a].row
  BY ReqType DEF Request
<1>4. Established(q)
  BY ReqType DEF IInv, Request, Established
<1>5. req' = [req EXCEPT ![a] = q]
  BY DEF GoesToFinish
<1> QED
  BY <1>2, <1>3, <1>4, <1>5, ReqStep DEF IInv, RowsFitLog, GoesToFinish, DbVars

-----------------------------------------------------------------------------
(* Every statement preserves the invariant.                                *)

\* The arrival of any call keeps the invariant.
LEMMA ReceiveOK == ASSUME IInv, NEW a \in Actors, Receive(a) PROVE IInv'
<1>1. PICK op \in Ops, by \in Dids :
        \E ply \in IF op = "submitMove" THEN 0..MaxPly ELSE {0},
           payload \in IF op = "submitMove" THEN Payloads ELSE {Null} :
          req' = [req EXCEPT ![a] = [Quiet EXCEPT
                    !.pc = "read", !.op = op, !.by = by, !.ply = ply,
                    !.payload = payload, !.at = now]]
  BY DEF Receive
<1>2. PICK ply \in IF op = "submitMove" THEN 0..MaxPly ELSE {0},
           payload \in IF op = "submitMove" THEN Payloads ELSE {Null} :
          req' = [req EXCEPT ![a] = [Quiet EXCEPT
                    !.pc = "read", !.op = op, !.by = by, !.ply = ply,
                    !.payload = payload, !.at = now]]
  BY <1>1
<1> DEFINE q == [Quiet EXCEPT !.pc = "read", !.op = op, !.by = by, !.ply = ply,
                              !.payload = payload, !.at = now]
<1>3. ply \in 0..MaxPly /\ payload \in Payloads \cup {Null} /\ now \in 0..MaxNow
  BY DEF IInv, TypeOK
<1>4. q \in Request
  BY <1>3 DEF Request, Quiet, NoAnswer, Codes, InFlight
<1>5. q.row = Null /\ Established(q)
  BY <1>3 DEF Quiet, Established
<1> QED
  BY <1>2, <1>4, <1>5, ReqStep DEF Receive, DbVars

\* The query of the sweeper keeps the invariant: the row it copies fits the
\* log at that moment.
LEMMA ListExpiredOK == ASSUME IInv, ListExpired PROVE IInv'
<1> DEFINE q == [Quiet EXCEPT !.pc = "load", !.op = "sweep", !.at = now, !.row = row]
<1>1. q \in Request
  <2>1. row \in Row /\ now \in 0..MaxNow
    BY DEF IInv, TypeOK
  <2>2. Quiet \in Request /\ "load" \in InFlight
    BY QuietOK DEF InFlight
  <2> QED
    BY <2>1, <2>2 DEF Request
<1>2. q.row = row /\ row \in Row /\ RowFitsLog(row)
  BY DEF IInv, TypeOK, RowsFitLog, Quiet
<1>3. Established(q)
  BY <1>2 DEF Quiet, Established
<1>4. Sweeper \in Actors /\ req' = [req EXCEPT ![Sweeper] = q]
  BY DEF ListExpired
<1> HIDE DEF q
<1> QED
  BY <1>1, <1>2, <1>3, <1>4, ReqStep DEF ListExpired, DbVars

\* Reading the games row keeps the invariant, for the same reason.
LEMMA ReadRowOK == ASSUME IInv, NEW a \in Actors, ReadRow(a) PROVE IInv'
<1>1. CASE \E code \in Codes : Fails(a, code)
  BY <1>1, FailStep
<1>2. CASE ~\E code \in Codes : Fails(a, code)
  <2> DEFINE q == [req[a] EXCEPT !.pc = "load", !.row = row]
  <2>1. /\ IF req[a].op = "submitMove" THEN req[a].ply >= 1 ELSE req[a].by \in Players
        /\ req' = [req EXCEPT ![a] = q]
        /\ req[a].pc = "read"
        /\ UNCHANGED DbVars
    BY <1>2 DEF ReadRow, Codes, DbVars, At
  <2>2. row \in Row /\ RowFitsLog(row) /\ req[a] \in Request /\ "load" \in InFlight
    BY DEF IInv, TypeOK, RowsFitLog, InFlight
  <2>3. q \in Request /\ q.row = row
    BY <2>2 DEF Request
  <2>4. Established(q)
    BY <2>1, <2>2 DEF IInv, Established, Request
  <2> QED
    BY <2>1, <2>2, <2>3, <2>4, ReqStep
<1> QED
  BY <1>1, <1>2

\* Answering a retry from the moves table keeps the invariant.
LEMMA ReplayOK ==
  ASSUME IInv, NEW a \in Actors, req[a].ply >= 1, Replay(a)
  PROVE  IInv'
<1>1. req[a].ply \in 1..Len(moves)
  BY ReqType DEF Replay, Request, IInv, TypeOK
<1>2. moves[req[a].ply] \in Move /\ req[a].ply \in Nat
  BY <1>1 DEF IInv, TypeOK
<1> QED
  BY <1>2, FailStep, EndStep DEF Replay, Codes, DbVars

\* The checks of SubmitMove keep the invariant: a move that passes them is
\* the next of the row it was read with, by the player on move, in time.
LEMMA DecideOK ==
  ASSUME IInv, NEW a \in Actors, At(a, "load"), req[a].op = "submitMove", Decide(a)
  PROVE  IInv'
<1>1. CASE \E code \in Codes : Fails(a, code)
  BY <1>1, FailStep
<1>2. CASE ~\E code \in Codes : Fails(a, code)
  <2>1. /\ req[a].row.turn = req[a].by
        /\ req[a].ply = req[a].row.ply + 1
        /\ \/ Expired(req[a].row, req[a].at) /\ GoesToFinish(a, TimeoutResult(req[a].row))
           \/ ~Expired(req[a].row, req[a].at) /\ GoesTo(a, "commit")
    BY <1>2 DEF Decide, IsNextPly, Codes
  <2>2. TimeoutResult(req[a].row) \in Result /\ TimeoutResult(req[a].row).reason = "timeout"
    BY DEF TimeoutResult, WinFor, Opponent, Result
  <2>3. Established([req[a] EXCEPT !.pc = "commit"])
        \/ Expired(req[a].row, req[a].at)
    BY <2>1, ReqType DEF IInv, Established, Request, At
  <2>4. "commit" \in InFlight
    BY DEF InFlight
  <2> QED
    BY <2>1, <2>2, <2>3, <2>4, GoStep, GoFinishStep
<1> QED
  BY <1>1, <1>2

\* Loading the moves in SubmitMove keeps the invariant, retry or not.
LEMMA LoadSubmitOK == ASSUME IInv, NEW a \in Actors, LoadSubmit(a) PROVE IInv'
<1>1. CASE Fails(a, "NotYourTurn")
  BY <1>1, FailStep DEF Codes
<1>2. CASE Replay(a)
  BY <1>2, ReplayOK DEF LoadSubmit, At, IInv, Established
<1>3. CASE Decide(a)
  BY <1>3, DecideOK DEF LoadSubmit
<1> QED
  BY <1>1, <1>2, <1>3 DEF LoadSubmit

\* Loading the moves in the other calls and in the sweeper keeps the
\* invariant.
LEMMA LoadOtherOK == ASSUME IInv, NEW a \in Actors, LoadOther(a) PROVE IInv'
<1>1. CASE \E code \in Codes : Fails(a, code)
  BY <1>1, FailStep
<1>2. CASE \E res \in Result : GoesToFinish(a, res)
  BY <1>2, GoFinishStep DEF LoadOther
<1>3. CASE req[a].op \in {"offerDraw", "declineDraw"} /\ GoesTo(a, "update")
  <2> DEFINE q == [req[a] EXCEPT !.pc = "update"]
  <2>1. "update" \in InFlight
    BY DEF InFlight
  <2>2. req[a] \in Request /\ Established(req[a]) /\ req[a].pc = "load"
    BY ReqType DEF LoadOther, IInv, At
  <2>3. /\ q.pc = "update" /\ q.op = req[a].op /\ q.by = req[a].by
        /\ q.row = req[a].row /\ q.res = req[a].res /\ q.ply = req[a].ply
    BY <2>2 DEF Request
  <2>4. Established(q)
    BY <1>3, <2>2, <2>3 DEF Established
  <2> QED
    BY <1>3, <2>1, <2>4, GoStep
<1> QED
  <2>1. /\ TimeoutResult(req[a].row) \in Result
        /\ WinFor(Opponent(req[a].by), "resignation") \in Result
        /\ [reason |-> "agreement", winner |-> Null] \in Result
    BY DEF TimeoutResult, WinFor, Opponent, Result
  <2>2. LoadOther(a) => \/ Fails(a, "InvalidRequest")
                        \/ /\ req[a].op \in {"offerDraw", "declineDraw"}
                           /\ GoesTo(a, "update")
                        \/ \E res \in Result : GoesToFinish(a, res)
    BY <2>1 DEF LoadOther
  <2> QED
    BY <1>1, <1>2, <1>3, <2>2 DEF Codes

\* Remembering a fault, an end or an overdue ply keeps the history one.
LEMMA PastOK ==
  ASSUME past \in Past, NEW n \in Nat, NEW S \in SUBSET Nat
  PROVE  /\ [past EXCEPT !.ends = @ + n, !.overdue = S] \in Past
         /\ [past EXCEPT !.faults = @ + 1, !.ends = @ + n, !.cut = @ + n,
                         !.overdue = S] \in Past
         /\ [past EXCEPT !.faults = @ + 1, !.cut = @ + n] \in Past
         /\ [past EXCEPT !.overdue = S] \in Past
<1>1. /\ past.faults \in Nat /\ past.ends \in Nat /\ past.cut \in Nat
      /\ past.faults + 1 \in Nat /\ past.ends + n \in Nat /\ past.cut + n \in Nat
  BY DEF Past
<1>2. [past EXCEPT !.ends = @ + n, !.overdue = S] \in Past
  BY <1>1 DEF Past
<1>3. [past EXCEPT !.faults = @ + 1, !.ends = @ + n, !.cut = @ + n, !.overdue = S] \in Past
  BY <1>1 DEF Past
<1>4. [past EXCEPT !.faults = @ + 1, !.cut = @ + n] \in Past
  BY <1>1 DEF Past
<1>5. [past EXCEPT !.overdue = S] \in Past
  BY DEF Past
<1> QED
  BY <1>2, <1>3, <1>4, <1>5

\* The ply a row is overdue at is a ply.
LEMMA OverdueOK == ASSUME NEW r \in Row, NEW at PROVE OverduePly(r, at) \in SUBSET Nat
  BY DEF OverduePly, Row

\* What a write of the row leaves: the row, and its call where it goes on or
\* failed with the answer lost.
LEMMA WritesOK ==
  ASSUME past \in Past, NEW a, NEW r \in Row, NEW q, NEW ends \in {0, 1}, Writes(a, r, q, ends)
  PROVE  /\ row' = r
         /\ \/ req' = [req EXCEPT ![a] = q]
            \/ req' = [req EXCEPT ![a] = Ended(a, "InternalError", 0, Null)]
         /\ past' \in Past
<1> DEFINE S == past.overdue \cup OverduePly(r, now)
<1>1. S \in SUBSET Nat
  BY OverdueOK DEF Past
<1>2. \/ past' = [past EXCEPT !.ends = @ + ends, !.overdue = S]
      \/ past' = [past EXCEPT !.faults = @ + 1, !.ends = @ + ends,
                              !.cut = @ + ends, !.overdue = S]
  BY DEF Writes
<1>3. past' \in Past
  <2>1. ends \in Nat
    OBVIOUS
  <2> HIDE DEF S
  <2>2. CASE past' = [past EXCEPT !.ends = @ + ends, !.overdue = S]
    BY <1>1, <2>1, <2>2, PastOK
  <2>3. CASE past' = [past EXCEPT !.faults = @ + 1, !.ends = @ + ends,
                               !.cut = @ + ends, !.overdue = S]
    BY <1>1, <2>1, <2>3, PastOK
  <2> QED
    BY <1>2, <2>2, <2>3
<1> QED
  BY <1>3 DEF Writes

\* A step that rewrites the games row and one request.
LEMMA RowStep ==
  ASSUME IInv, NEW a \in Actors, NEW q \in Request, Established(q),
         q.row # Null => RowFitsLog(q.row),
         row' \in Row, RowFitsLog(row'), past' \in Past,
         req' = [req EXCEPT ![a] = q], UNCHANGED <<moves, now, bus, record>>
  PROVE  IInv'
<1>1. TypeOK'
  BY DEF IInv, TypeOK
<1>2. RowsFitLog'
  BY DEF IInv, TypeOK, RowsFitLog, RowFitsLog
<1>3. (\A b \in Actors : Established(req[b]))'
  BY DEF IInv, TypeOK, Established
<1> QED
  BY <1>1, <1>2, <1>3 DEF IInv

\* Writing a draw offer back with the whole, perhaps stale, row keeps the
\* invariant: a stale row still fits the log, which only grows.
LEMMA UpdateOfferOK == ASSUME IInv, NEW a \in Actors, UpdateOffer(a) PROVE IInv'
<1>1. /\ req[a] \in Request /\ req[a].row \in Row /\ RowFitsLog(req[a].row)
      /\ req[a].op # "submitMove"
      /\ req[a].op = "offerDraw" => req[a].by \in Players
      /\ Established(req[a])
  <2>1. req[a].row \in Row /\ req[a].row # Null
    BY DEF UpdateOffer, IInv, TypeOK, Established, At
  <2> QED
    BY <2>1, ReqType DEF UpdateOffer, IInv, TypeOK, RowsFitLog, Established, At
<1>2. AfterOffer(a) \in Row /\ RowFitsLog(AfterOffer(a))
  BY <1>1 DEF AfterOffer, Row, RowFitsLog
<1>3. /\ row' = AfterOffer(a) /\ past' \in Past
      /\ \/ req' = [req EXCEPT ![a] = AfterUpdate(a)]
         \/ req' = [req EXCEPT ![a] = Ended(a, "InternalError", 0, Null)]
      /\ UNCHANGED <<moves, now, bus, record>>
  BY <1>2, WritesOK DEF UpdateOffer, IInv, TypeOK
<1>4. CASE req[a].op = "offerDraw" /\ req' = [req EXCEPT ![a] = AfterUpdate(a)]
  <2> DEFINE q == [req[a] EXCEPT !.pc = "publish"]
  <2>1. q \in Request /\ q.row = req[a].row
    BY <1>1 DEF Request, InFlight
  <2>2. Established(q)
    BY <1>1, <1>4 DEF Established, Request
  <2>3. req' = [req EXCEPT ![a] = q]
    BY <1>4 DEF AfterUpdate
  <2> QED
    BY <1>1, <1>2, <1>3, <2>1, <2>2, <2>3, RowStep
<1>5. CASE \E code \in Codes : req' = [req EXCEPT ![a] = Ended(a, code, 0, Null)]
  <2>1. PICK code \in Codes : req' = [req EXCEPT ![a] = Ended(a, code, 0, Null)]
    BY <1>5
  <2> QED
    BY <1>2, <1>3, <2>1, EndedOK, RowStep
<1> QED
  BY <1>3, <1>4, <1>5 DEF AfterUpdate, Codes

\* Finishing a game, by whatever call, keeps the invariant: it leaves the
\* fields of the row alone that the log determines.
LEMMA FinishTimeoutOK == ASSUME IInv, NEW a \in Actors, FinishTimeout(a) PROVE IInv'
<1>1. CASE ~MayFinish
  BY <1>1, FailStep DEF FinishTimeout, Codes
<1>2. CASE MayFinish
  <2>1. req[a] \in Request /\ req[a].res \in Result /\ row \in Row /\ RowFitsLog(row)
    BY ReqType DEF FinishTimeout, At, IInv, TypeOK, RowsFitLog, Established
  <2> DEFINE q == [req[a] EXCEPT !.pc = "record"]
  <2>2. FinishedRow(a) \in Row /\ RowFitsLog(FinishedRow(a))
    BY <2>1 DEF FinishedRow, Row, RowFitsLog
  <2>3. q \in Request /\ q.row = req[a].row
    BY <2>1 DEF Request, InFlight
  <2>4. Established(q)
    BY <2>1 DEF FinishTimeout, At, IInv, Established, Request
  <2>5. /\ row' = FinishedRow(a) /\ past' \in Past
        /\ \/ req' = [req EXCEPT ![a] = q]
           \/ req' = [req EXCEPT ![a] = Ended(a, "InternalError", 0, Null)]
        /\ UNCHANGED <<moves, now, bus, record>>
    BY <1>2, <2>2, WritesOK DEF FinishTimeout, IInv, TypeOK
  <2>6. CASE req' = [req EXCEPT ![a] = q]
    BY <2>2, <2>3, <2>4, <2>5, <2>6, RowStep DEF IInv, RowsFitLog
  <2>7. CASE req' = [req EXCEPT ![a] = Ended(a, "InternalError", 0, Null)]
    BY <2>2, <2>5, <2>7, EndedOK, RowStep DEF Codes
  <2> QED
    BY <2>5, <2>6, <2>7
<1> QED
  BY <1>1, <1>2

\* A move whose ply is free is the next of the log, by the player on move.
LEMMA CommitAppends ==
  ASSUME IInv, NEW a \in Actors, CommitMove(a), ~PlyTaken(req[a].ply)
  PROVE  LET mv == [player |-> req[a].by, payload |-> req[a].payload, at |-> req[a].at]
         IN /\ mv \in Move
            /\ req[a].ply = Len(moves) + 1
            /\ req[a].row.ply = Len(moves)
            /\ req[a].by = PlayerAt(Len(moves) + 1)
            /\ moves' = Append(moves, mv)
<1> DEFINE mv == [player |-> req[a].by, payload |-> req[a].payload, at |-> req[a].at]
<1>1. /\ req[a] \in Request /\ Established(req[a]) /\ req[a].pc = "commit"
      /\ req[a].row \in Row /\ RowFitsLog(req[a].row)
  BY ReqType DEF CommitMove, At, IInv, RowsFitLog, Established
<1>2. /\ req[a].op = "submitMove" /\ req[a].payload \in Payloads
      /\ req[a].by = req[a].row.turn /\ req[a].ply = req[a].row.ply + 1
      /\ req[a].by \in Players
  BY <1>1 DEF Established, Row
<1>3. moves \in Seq(Move) /\ Len(moves) \in Nat /\ DOMAIN moves = 1..Len(moves)
  BY DEF IInv, TypeOK
<1>4. req[a].row.ply = Len(moves) /\ req[a].ply = Len(moves) + 1
  <2>1. req[a].row.ply \in Nat /\ req[a].row.ply <= Len(moves)
    BY <1>1 DEF RowFitsLog, Row
  <2>2. req[a].ply \notin 1..Len(moves)
    BY <1>3 DEF PlyTaken
  <2> QED
    BY <1>2, <1>3, <2>1, <2>2
<1>5. mv \in Move
  BY <1>1, <1>2 DEF Move, Request
<1>6. moves' = Append(moves, mv)
  BY <1>3, <1>4, <1>5, ExtendIsAppend DEF CommitMove
<1>7. req[a].by = PlayerAt(Len(moves) + 1)
  BY <1>1, <1>2, <1>4 DEF RowFitsLog
<1> QED
  BY <1>4, <1>5, <1>6, <1>7

\* Committing a move keeps the invariant: the primary key makes the move the
\* next of the log, so that the row written beside it is at the head.
LEMMA CommitMoveOK == ASSUME IInv, NEW a \in Actors, CommitMove(a) PROVE IInv'
<1>1. /\ req[a] \in Request /\ Established(req[a]) /\ req[a].pc = "commit"
      /\ req[a].row \in Row /\ RowFitsLog(req[a].row)
  BY ReqType DEF CommitMove, At, IInv, RowsFitLog, Established
<1>2. /\ req[a].op = "submitMove" /\ req[a].payload \in Payloads
      /\ req[a].by = req[a].row.turn /\ req[a].ply = req[a].row.ply + 1
      /\ req[a].by \in Players
  BY <1>1 DEF Established, Row
<1>3. CASE PlyTaken(req[a].ply)
  <2> DEFINE q == [req[a] EXCEPT !.pc = "read", !.row = Null]
  <2>1. q \in Request /\ q.row = Null
    BY <1>1 DEF Request, InFlight
  <2>2. Established(q)
    BY <1>1, <1>2 DEF Established, Request, AllOps
  <2>3. req' = [req EXCEPT ![a] = q] /\ UNCHANGED DbVars
    BY <1>3 DEF CommitMove, DbVars
  <2> QED
    BY <2>1, <2>2, <2>3, ReqStep
<1>4. CASE ~PlyTaken(req[a].ply)
  <2> DEFINE n  == Len(moves) + 1
             mv == [player |-> req[a].by, payload |-> req[a].payload, at |-> req[a].at]
             q  == [req[a] EXCEPT !.pc = "publish", !.res = AfterMove(a).result,
                                  !.seen = req[a].ply]
  <2>1. moves \in Seq(Move) /\ Len(moves) \in Nat /\ DOMAIN moves = 1..Len(moves)
    BY DEF IInv, TypeOK
  <2>2. /\ req[a].ply = n /\ req[a].row.ply = Len(moves) /\ req[a].by = PlayerAt(n)
        /\ mv \in Move /\ moves' = Append(moves, mv)
    BY <1>4, CommitAppends
  <2>3. /\ moves' \in Seq(Move) /\ Len(moves') = n
        /\ \A i \in 1..Len(moves) : moves'[i] = moves[i]
        /\ moves'[n] = mv
    BY <2>1, <2>2
  <2>4. req[a].by = PlayerAt(n) /\ Opponent(req[a].by) = PlayerAt(n + 1)
    BY <2>1, <2>2, Alternation
  <2>6. AfterMove(a) \in Row
    <3>1. req[a].ply \in Nat /\ req[a].at \in Nat
      BY <1>1 DEF Request
    <3>2. WinFor(req[a].by, "checkmate") \in Result /\ Opponent(req[a].by) \in Players
      BY <1>2 DEF WinFor, Result, Opponent
    <3> QED
      BY <1>1, <3>1, <3>2 DEF AfterMove, Row
  <2>5. /\ row' = AfterMove(a) /\ past' \in Past
        /\ \/ req' = [req EXCEPT ![a] = q]
           \/ req' = [req EXCEPT ![a] = Ended(a, "InternalError", 0, Null)]
        /\ UNCHANGED <<now, bus, record>>
    <3>1. Writes(a, AfterMove(a), q, IF req[a].payload \in Mating THEN 1 ELSE 0)
      BY <1>4 DEF CommitMove
    <3> HIDE DEF q
    <3> QED
      BY <1>4, <2>6, <3>1, WritesOK DEF CommitMove, IInv, TypeOK
  <2> DEFINE e == Ended(a, "InternalError", 0, Null)
  <2>e. e \in Request /\ e.row = Null /\ e.pc \in {"idle", "done"} /\ e.op = "none"
    <3>1. e \in Request /\ e.row = Null
      BY EndedOK DEF Codes
    <3>2. e.pc \in {"idle", "done"} /\ e.op = "none"
      BY DEF Ended, Quiet
    <3> QED
      BY <3>1, <3>2
  <2>7. (RowFitsLog(row))'
    <3>1. row'.ply = n /\ row'.turn = Opponent(req[a].by) /\ row'.anchor = req[a].at
      BY <1>1, <2>2, <2>5 DEF AfterMove, Row
    <3>2. moves'[n].at = req[a].at
      BY <2>3
    <3> QED
      BY <2>1, <2>3, <2>4, <3>1, <3>2 DEF RowFitsLog
  <2>8. \A r \in Row : RowFitsLog(r) => (r.ply <= Len(moves') /\ r.turn = PlayerAt(r.ply + 1)
             /\ r.anchor = IF r.ply = 0 THEN StartedAt ELSE moves'[r.ply].at)
    BY <2>1, <2>3 DEF RowFitsLog, Row
  <2>9. q \in Request /\ q.row = req[a].row /\ q.pc = "publish"
    <3>1. AfterMove(a).result \in Result \cup {Null}
      BY <2>6 DEF Row
    <3>2. req[a].ply \in Nat /\ "publish" \in InFlight
      BY <2>1, <2>2 DEF InFlight
    <3> QED
      BY <1>1, <3>1, <3>2 DEF Request
  <2>10. req[a].payload \in Mating => AfterMove(a).result \in Result
    BY <1>1, <1>2 DEF AfterMove, Row, WinFor, Result
  <2>11. (Established(req[a]))'
    <3>1. req[a]' = q \/ req[a]' = e
      BY <1>1, <2>5 DEF IInv, TypeOK
    <3>2. q.op = "submitMove" /\ q.ply = n /\ q.payload = req[a].payload
          /\ q.res = AfterMove(a).result
      BY <1>1, <1>2, <2>2 DEF Request
    <3>3. CASE req[a]' = q
      BY <1>2, <2>1, <2>3, <2>9, <2>10, <3>2, <3>3 DEF Established
    <3>4. CASE req[a]' = e
      BY <2>e, <3>4 DEF Established
    <3> QED
      BY <3>1, <3>3, <3>4
  <2> HIDE DEF q, mv, e
  <2>12. TypeOK'
    <3>1. req' \in [Actors -> Request]
      BY <2>5, <2>9, <2>e DEF IInv, TypeOK, e
    <3>2. \A ply \in DOMAIN moves' : 1..ply \subseteq DOMAIN moves'
      BY <2>3
    <3> QED
      BY <2>3, <2>5, <2>6, <3>1, <3>2 DEF IInv, TypeOK
  <2>13. RowsFitLog'
    <3> SUFFICES ASSUME NEW b \in Actors, req'[b].row # Null
                 PROVE  RowFitsLog(req[b].row)'
      BY <2>7 DEF RowsFitLog
    <3>1. req'[b].row = req[b].row /\ req[b] \in Request
      BY <1>1, <2>5, <2>9, <2>e, ReqType DEF IInv, TypeOK, e
    <3>2. req[b].row \in Row /\ RowFitsLog(req[b].row)
      BY <3>1 DEF IInv, RowsFitLog, Request
    <3> QED
      BY <2>8, <3>1, <3>2 DEF RowFitsLog
  <2>14. (\A b \in Actors : Established(req[b]))'
    <3> SUFFICES ASSUME NEW b \in Actors, b # a PROVE (Established(req[b]))'
      BY <2>11
    <3>1. req'[b] = req[b] /\ Established(req[b])
      BY <2>5 DEF IInv, TypeOK
    <3> QED
      BY <2>1, <2>3, <3>1 DEF Established
  <2> QED
    BY <2>12, <2>13, <2>14 DEF IInv
<1> QED
  BY <1>3, <1>4

\* A step after the commit: events, the game record and one request.
LEMMA EffectStep ==
  ASSUME IInv, NEW a \in Actors, NEW q \in Request, Established(q),
         q.row # Null => RowFitsLog(q.row),
         bus' \in Seq(Event), record' \in {Null} \cup [result: Result, plies: Nat],
         req' = [req EXCEPT ![a] = q], UNCHANGED <<row, moves, now, past>>
  PROVE  IInv'
<1>1. TypeOK'
  BY DEF IInv, TypeOK
<1>2. RowsFitLog'
  BY DEF IInv, TypeOK, RowsFitLog, RowFitsLog
<1>3. (\A b \in Actors : Established(req[b]))'
  BY DEF IInv, TypeOK, Established
<1> QED
  BY <1>1, <1>2, <1>3 DEF IInv

\* The acceptance of a stored move is a well-formed answer.
LEMMA AcceptedOK ==
  ASSUME IInv, NEW a \in Actors, req[a].ply \in 1..Len(moves)
  PROVE  /\ Accepted(a) \in Request
         /\ Accepted(a).row = Null
         /\ Established(Accepted(a))
<1>1. req[a].ply \in Nat /\ moves[req[a].ply] \in Move
  BY DEF IInv, TypeOK
<1> QED
  BY <1>1, EndedOK DEF Accepted, Codes

\* Publishing keeps the invariant.
LEMMA PublishOK == ASSUME IInv, NEW a \in Actors, Publish(a) PROVE IInv'
<1>1. /\ req[a] \in Request /\ Established(req[a]) /\ req[a].pc = "publish"
      /\ record \in {Null} \cup [result: Result, plies: Nat]
      /\ bus \in Seq(Event)
      /\ req[a].row # Null => RowFitsLog(req[a].row)
      /\ UNCHANGED <<row, moves, now, record, past>>
  BY ReqType DEF Publish, At, IInv, TypeOK, RowsFitLog
<1>2. CASE req[a].op = "submitMove"
  <2>1. req[a].ply \in 1..Len(moves) /\ (req[a].payload \in Mating => req[a].res \in Result)
    BY <1>1, <1>2 DEF Established
  <2>2. bus' \in Seq(Event)
    <3>1. [kind |-> "move", ply |-> req[a].ply] \in Event
      BY <2>1 DEF Event
    <3>2. bus' = Append(bus, [kind |-> "move", ply |-> req[a].ply])
      BY <1>2 DEF Publish
    <3> QED
      BY <1>1, <3>1, <3>2
  <2>3. req' = [req EXCEPT ![a] = AfterMoveEvent(a)]
    BY <1>2 DEF Publish
  <2>4. CASE req[a].payload \in Mating
    <3> DEFINE q == [req[a] EXCEPT !.pc = "record"]
    <3>1. "record" \in InFlight
      BY DEF InFlight
    <3>2. q \in Request /\ q.row = req[a].row
      BY <1>1, <3>1 DEF Request
    <3>3. Established(q)
      BY <1>1, <2>1, <2>4 DEF Established, Request
    <3>4. req' = [req EXCEPT ![a] = q]
      BY <2>3, <2>4 DEF AfterMoveEvent
    <3> QED
      BY <1>1, <2>2, <3>2, <3>3, <3>4, EffectStep
  <2>5. CASE req[a].payload \notin Mating
    BY <1>1, <2>1, <2>2, <2>3, <2>5, AcceptedOK, EffectStep DEF AfterMoveEvent
  <2> QED
    BY <2>4, <2>5
<1>3. CASE req[a].op = "offerDraw"
  <2>1. [kind |-> "drawOffered", ply |-> req[a].row.ply] \in Event
    BY <1>1, <1>3 DEF Established, Event, Row
  <2>2. /\ bus' = Append(bus, [kind |-> "drawOffered", ply |-> req[a].row.ply])
        /\ req' = [req EXCEPT ![a] = Ended(a, "ok", 0, Null)]
    BY <1>3 DEF Publish
  <2>3. bus' \in Seq(Event)
    BY <1>1, <2>1, <2>2
  <2> QED
    BY <1>1, <2>2, <2>3, EndedOK, EffectStep DEF Codes
<1> QED
  BY <1>2, <1>3 DEF Publish

\* Writing the public record of the game keeps the invariant.
LEMMA UpdateGameRecordOK ==
  ASSUME IInv, NEW a \in Actors, UpdateGameRecord(a) PROVE IInv'
<1>1. /\ req[a] \in Request /\ Established(req[a]) /\ req[a].pc = "record"
      /\ req[a].row # Null => RowFitsLog(req[a].row)
      /\ UNCHANGED <<row, moves, now, bus, past>>
      /\ bus \in Seq(Event)
  BY ReqType DEF UpdateGameRecord, At, IInv, TypeOK, RowsFitLog
<1>2. record' \in {Null} \cup [result: Result, plies: Nat]
  <2>1. req[a].res \in Result /\ req[a].seen \in Nat
    BY <1>1 DEF Established, Request
  <2> QED
    BY <2>1 DEF UpdateGameRecord, IInv, TypeOK
<1> DEFINE q == [req[a] EXCEPT !.pc = "announce"]
<1>3. "announce" \in InFlight
  BY DEF InFlight
<1>4. q \in Request /\ q.row = req[a].row
  BY <1>1, <1>3 DEF Request
<1>5. Established(q)
  BY <1>1 DEF Established, Request
<1>6. req' = [req EXCEPT ![a] = q]
  BY DEF UpdateGameRecord
<1> QED
  BY <1>1, <1>2, <1>4, <1>5, <1>6, EffectStep

\* Announcing the end keeps the invariant.
LEMMA AnnounceOK == ASSUME IInv, NEW a \in Actors, Announce(a) PROVE IInv'
<1>1. /\ req[a] \in Request /\ Established(req[a]) /\ req[a].pc = "announce"
      /\ record \in {Null} \cup [result: Result, plies: Nat]
      /\ bus \in Seq(Event)
      /\ UNCHANGED <<row, moves, now, record, past>>
  BY ReqType DEF Announce, At, IInv, TypeOK
<1>2. bus' \in Seq(Event)
  <2>1. [kind |-> "gameFinished", ply |-> req[a].seen] \in Event
    BY <1>1 DEF Event, Request
  <2> QED
    BY <1>1, <2>1 DEF Announce
<1>3. CASE /\ req[a].op = "submitMove" /\ req[a].res.reason = "checkmate"
           /\ req' = [req EXCEPT ![a] = Accepted(a)]
  <2>1. req[a].ply \in 1..Len(moves)
    BY <1>1, <1>3 DEF Established
  <2> QED
    BY <1>1, <1>2, <1>3, <2>1, AcceptedOK, EffectStep
<1>4. CASE \E code \in Codes : req' = [req EXCEPT ![a] = Ended(a, code, 0, Null)]
  <2>1. PICK code \in Codes : req' = [req EXCEPT ![a] = Ended(a, code, 0, Null)]
    BY <1>4
  <2>2. /\ Ended(a, code, 0, Null) \in Request
        /\ Ended(a, code, 0, Null).row = Null
        /\ Established(Ended(a, code, 0, Null))
    BY EndedOK
  <2> QED
    BY <1>1, <1>2, <2>1, <2>2, EffectStep
<1> QED
  BY <1>3, <1>4 DEF Announce, Codes

\* The CID that the indexer stores keeps the invariant.
LEMMA SetCIDIfUnsetOK == ASSUME IInv, SetCIDIfUnset PROVE IInv'
<1>1. row' = [row EXCEPT !.cid = TRUE] /\ row \in Row /\ RowFitsLog(row)
      /\ UNCHANGED <<moves, now, req, bus, record, past>>
  BY DEF SetCIDIfUnset, IInv, TypeOK, RowsFitLog
<1>2. row' \in Row /\ RowFitsLog(row)'
  BY <1>1 DEF Row, RowFitsLog
<1> QED
  BY <1>1, <1>2 DEF IInv, TypeOK, RowsFitLog, RowFitsLog, Established

\* A restart keeps the invariant: it only forgets requests.
LEMMA CrashOK == ASSUME IInv, Crash PROVE IInv'
<1>1. \A a \in Actors : \/ req'[a] = req[a]
                        \/ req'[a] = Ended(a, "lost", 0, Null)
  BY DEF Crash
<1>2. \A a \in Actors : /\ req'[a] \in Request
                        /\ Established(req'[a])
                        /\ req'[a].row # Null => RowFitsLog(req'[a].row)
  <2> TAKE a \in Actors
  <2>1. /\ Ended(a, "lost", 0, Null) \in Request
        /\ Ended(a, "lost", 0, Null).row = Null
        /\ Established(Ended(a, "lost", 0, Null))
    BY EndedOK DEF Codes
  <2>2. /\ req[a] \in Request /\ Established(req[a])
        /\ req[a].row # Null => RowFitsLog(req[a].row)
    BY DEF IInv, TypeOK, RowsFitLog
  <2> QED
    BY <1>1, <2>1, <2>2
<1>3. req' \in [Actors -> Request]
  <2>1. \A a \in Actors :
          (IF a \in Busy THEN Ended(a, "lost", 0, Null) ELSE req[a]) \in Request
    BY EndedOK DEF IInv, TypeOK, Codes
  <2> QED
    BY <2>1 DEF Crash
<1>4. UNCHANGED <<row, moves, now, bus, record>> /\ past' \in Past
  <2> DEFINE n == Cardinality({a \in Actors : Telling(req[a])})
  <2>1. n \in Nat
    <3>1. IsFiniteSet(Actors)
      BY FS_AddElement
    <3>2. IsFiniteSet({a \in Actors : Telling(req[a])})
      BY <3>1, FS_Subset
    <3> QED
      BY <3>2, FS_CardinalityType
  <2>2. past' = [past EXCEPT !.faults = @ + 1, !.cut = @ + n]
    BY DEF Crash
  <2> HIDE DEF n
  <2> QED
    BY <2>1, <2>2, PastOK DEF Crash, IInv, TypeOK
<1>5. TypeOK'
  BY <1>3, <1>4 DEF IInv, TypeOK
<1>6. RowsFitLog'
  BY <1>2, <1>4 DEF IInv, RowsFitLog, RowFitsLog
<1>7. (\A a \in Actors : Established(req[a]))'
  BY <1>2, <1>4 DEF Established
<1> QED
  BY <1>5, <1>6, <1>7 DEF IInv

\* The passage of time keeps the invariant.
LEMMA TickOK == ASSUME IInv, Tick PROVE IInv'
<1>1. now' \in 0..MaxNow /\ UNCHANGED <<row, moves, req, bus, record>>
  BY DEF Tick, IInv, TypeOK
<1>2. past' \in Past
  <2> DEFINE S == past.overdue \cup OverduePly(row, now + 1)
  <2>1. S \in SUBSET Nat /\ past \in Past
    BY OverdueOK DEF IInv, TypeOK, Past
  <2>2. past' = [past EXCEPT !.overdue = S]
    BY DEF Tick
  <2> HIDE DEF S
  <2> QED
    BY <2>1, <2>2, PastOK
<1> QED
  BY <1>1, <1>2 DEF IInv, TypeOK, RowsFitLog, RowFitsLog, Established

\* Every step, and every stutter, keeps the invariant.
THEOREM NextOK == IInv /\ [Next]_vars => IInv'
<1> SUFFICES ASSUME IInv, [Next]_vars PROVE IInv'
  OBVIOUS
<1>1. ASSUME NEW a \in Actors, Receive(a) \/ Step(a) \/ Abandon(a)
      PROVE  IInv'
  <2>1. CASE Receive(a)
    BY <2>1, ReceiveOK
  <2>2. CASE Step(a)
    BY <2>2, ReadRowOK, LoadSubmitOK, LoadOtherOK, CommitMoveOK, UpdateOfferOK,
       FinishTimeoutOK, PublishOK, UpdateGameRecordOK, AnnounceOK DEF Step
  <2>3. CASE Abandon(a)
    BY <2>3, FailStep DEF Abandon, Codes
  <2> QED
    BY <1>1, <2>1, <2>2, <2>3
<1>2. CASE UNCHANGED vars
  BY <1>2 DEF vars, IInv, TypeOK, RowsFitLog, RowFitsLog, Established
<1> QED
  BY <1>1, <1>2, ListExpiredOK, SetCIDIfUnsetOK, CrashOK, TickOK DEF Next

\* Every variable keeps its type.  The part that is not bookkeeping is the
\* moves table: its plies never have a gap, though no statement checks that.
THEOREM TypeCorrect == Spec => []TypeOK
<1>1. IInv => TypeOK
  BY DEF IInv
<1> QED
  BY <1>1, InitOK, NextOK, PTL DEF Spec

\* Ply, player on move and clock anchor of a row always belong together,
\* however stale the row is that a request writes back.
THEOREM RowsAlwaysFitLog == Spec => []RowsFitLog
<1>1. IInv => RowsFitLog
  BY DEF IInv
<1> QED
  BY <1>1, InitOK, NextOK, PTL DEF Spec

-----------------------------------------------------------------------------
(* What one statement can do to the requests, the log and the bus.         *)

\* The request of the actor whose statement it is changes, and no other.
LEMMA OthersWait ==
  ASSUME IInv, NEW a \in Actors, Receive(a) \/ Step(a) \/ Abandon(a),
         NEW b \in Actors, b # a
  PROVE  req'[b] = req[b]
<1>0. req \in [Actors -> Request]
  BY DEF IInv, TypeOK
<1>w. \A r, q, ends : Writes(a, r, q, ends) => req'[b] = req[b]
  BY <1>0 DEF Writes
<1>1. CASE Receive(a)
  BY <1>0, <1>1 DEF Receive
<1>2. CASE ReadRow(a)
  BY <1>0, <1>2 DEF ReadRow, Fails
<1>3. CASE LoadSubmit(a)
  BY <1>0, <1>3 DEF LoadSubmit, Replay, Decide, Fails, GoesTo, GoesToFinish
<1>4. CASE LoadOther(a)
  BY <1>0, <1>4 DEF LoadOther, Fails, GoesTo, GoesToFinish
<1>5. CASE CommitMove(a)
  BY <1>0, <1>w, <1>5 DEF CommitMove
<1>6. CASE UpdateOffer(a)
  BY <1>w, <1>6 DEF UpdateOffer
<1>7. CASE FinishTimeout(a)
  BY <1>0, <1>w, <1>7 DEF FinishTimeout, Fails
<1>8. CASE Publish(a)
  BY <1>0, <1>8 DEF Publish
<1>9. CASE UpdateGameRecord(a)
  BY <1>0, <1>9 DEF UpdateGameRecord
<1>10. CASE Announce(a)
  BY <1>0, <1>10 DEF Announce
<1>11. CASE Abandon(a)
  BY <1>0, <1>11 DEF Abandon, Fails
<1> QED
  BY <1>1, <1>2, <1>3, <1>4, <1>5, <1>6, <1>7, <1>8, <1>9, <1>10, <1>11 DEF Step

\* A call that has answered is at no statement, and an error is no acceptance.
LEMMA EndedAt ==
  ASSUME NEW a, NEW code, NEW ply, NEW mv
  PROVE  /\ Ended(a, code, ply, mv).pc \in {"idle", "done"}
         /\ Ended(a, code, ply, mv).out \in
              {NoAnswer, [code |-> code, ply |-> ply, move |-> mv]}
BY DEF Ended, Quiet

\* An error ends the call and touches neither the log nor the bus.
LEMMA FailsAt ==
  ASSUME IInv, NEW a \in Actors, NEW code, Fails(a, code)
  PROVE  /\ req'[a] = Ended(a, code, 0, Null)
         /\ req'[a].pc \in {"idle", "done"}
         /\ UNCHANGED <<moves, bus>>
<1>1. req'[a] = Ended(a, code, 0, Null) /\ UNCHANGED <<moves, bus>>
  BY DEF Fails, IInv, TypeOK
<1> QED
  BY <1>1, EndedAt

\* Moving on keeps the answer as it is, and the log, and the bus.
LEMMA GoesAt ==
  ASSUME IInv, NEW a \in Actors, NEW pc, GoesTo(a, pc)
  PROVE  /\ req'[a].pc = pc
         /\ req'[a].out = req[a].out /\ req'[a].op = req[a].op
         /\ UNCHANGED <<moves, bus>>
<1> DEFINE q == [req[a] EXCEPT !.pc = pc]
<1>1. req \in [Actors -> Request] /\ req[a] \in Request
  BY DEF IInv, TypeOK
<1>2. req'[a] = q /\ UNCHANGED <<moves, bus>>
  BY <1>1 DEF GoesTo
<1>3. q.pc = pc /\ q.out = req[a].out /\ q.op = req[a].op
  BY <1>1 DEF Request
<1> QED
  BY <1>2, <1>3

\* So does going to finishTimeout.
LEMMA FinishAt ==
  ASSUME IInv, NEW a \in Actors, NEW res, GoesToFinish(a, res)
  PROVE  /\ req'[a].pc = "finish"
         /\ req'[a].out = req[a].out
         /\ UNCHANGED <<moves, bus>>
<1> DEFINE q == [req[a] EXCEPT !.pc = "finish", !.res = res, !.seen = Len(moves)]
<1>1. req \in [Actors -> Request] /\ req[a] \in Request
  BY DEF IInv, TypeOK
<1>2. req'[a] = q /\ UNCHANGED <<moves, bus>>
  BY <1>1 DEF GoesToFinish
<1>3. q.pc = "finish" /\ q.out = req[a].out
  BY <1>1 DEF Request
<1> QED
  BY <1>2, <1>3

\* A call whose write took effect goes on, or has failed with an error.
LEMMA WritesAt ==
  ASSUME IInv, NEW a \in Actors, NEW r, NEW q, NEW ends, Writes(a, r, q, ends)
  PROVE  /\ row' = r
         /\ \/ req'[a] = q
            \/ req'[a] = Ended(a, "InternalError", 0, Null)
  BY DEF Writes, IInv, TypeOK

\* A call that is over, with another answer than an acceptance.
Over(q) == q.pc \in {"idle", "done"} /\ q.out.code # "accepted"

\* An error ends the call that gets it.
LEMMA EndedOver ==
  ASSUME NEW a, NEW code \in Codes \ {"accepted"}, NEW ply, NEW mv
  PROVE  Over(Ended(a, code, ply, mv))
  BY DEF Over, Ended, Quiet, NoAnswer

\* After the commit of a move its call starts over, goes on to the event of
\* the move, or is over.
LEMMA CommitAt ==
  ASSUME IInv, NEW a \in Actors, CommitMove(a)
  PROVE  /\ bus' = bus
         /\ \/ Over(req'[a])
            \/ /\ PlyTaken(req[a].ply) /\ req'[a].pc = "read" /\ req'[a].row = Null
               /\ req'[a].out = req[a].out
            \/ /\ ~PlyTaken(req[a].ply) /\ req'[a].pc = "publish"
               /\ req'[a].out = req[a].out /\ req'[a].op = req[a].op
               /\ req'[a].ply = req[a].ply /\ req'[a].payload = req[a].payload
<1>0. req \in [Actors -> Request] /\ req[a] \in Request
  BY DEF IInv, TypeOK
<1>1. CASE PlyTaken(req[a].ply)
  BY <1>0, <1>1 DEF CommitMove, Request
<1>2. CASE ~PlyTaken(req[a].ply)
  <2> DEFINE q == [req[a] EXCEPT !.pc = "publish", !.res = AfterMove(a).result,
                                 !.seen = req[a].ply]
  <2>1. /\ q.pc = "publish" /\ q.out = req[a].out /\ q.op = req[a].op
        /\ q.ply = req[a].ply /\ q.payload = req[a].payload
    BY <1>0 DEF Request
  <2>2. Writes(a, AfterMove(a), q, IF req[a].payload \in Mating THEN 1 ELSE 0)
    BY <1>2 DEF CommitMove
  <2> HIDE DEF q
  <2>3. req'[a] = q \/ req'[a] = Ended(a, "InternalError", 0, Null)
    BY <2>2, WritesAt
  <2> QED
    BY <1>2, <2>1, <2>3, EndedOver DEF CommitMove, Codes
<1> QED
  BY <1>1, <1>2

\* After the write of a draw offer its call goes on to the event, or is over.
LEMMA OfferAt ==
  ASSUME IInv, NEW a \in Actors, UpdateOffer(a)
  PROVE  /\ bus' = bus /\ moves' = moves
         /\ \/ Over(req'[a])
            \/ req'[a].pc = "publish" /\ req'[a].op = "offerDraw" /\ req'[a].out = req[a].out
<1>0. req \in [Actors -> Request] /\ req[a] \in Request
  BY DEF IInv, TypeOK
<1> DEFINE q == [req[a] EXCEPT !.pc = "publish"]
<1>1. q.pc = "publish" /\ q.op = req[a].op /\ q.out = req[a].out
  BY <1>0 DEF Request
<1>2. req'[a] = AfterUpdate(a) \/ req'[a] = Ended(a, "InternalError", 0, Null)
  BY WritesAt DEF UpdateOffer
<1>3. \/ AfterUpdate(a) = q /\ req[a].op = "offerDraw"
      \/ AfterUpdate(a) = Ended(a, "ok", 0, Null)
  BY DEF AfterUpdate
<1> HIDE DEF q
<1> QED
  BY <1>1, <1>2, <1>3, EndedOver DEF UpdateOffer, Codes

\* After the finishing UPDATE its call goes on to afterFinish, or is over.
LEMMA FinishedAt ==
  ASSUME IInv, NEW a \in Actors, FinishTimeout(a)
  PROVE  /\ bus' = bus /\ moves' = moves
         /\ \/ Over(req'[a])
            \/ MayFinish /\ req'[a].pc = "record" /\ req'[a].out = req[a].out
<1>0. req \in [Actors -> Request] /\ req[a] \in Request
  BY DEF IInv, TypeOK
<1>1. CASE ~MayFinish
  BY <1>0, <1>1, EndedOver DEF FinishTimeout, Fails, Codes
<1>2. CASE MayFinish
  <2> DEFINE q == [req[a] EXCEPT !.pc = "record"]
  <2>1. q.pc = "record" /\ q.out = req[a].out
    BY <1>0 DEF Request
  <2>2. Writes(a, FinishedRow(a), q, 1)
    BY <1>2 DEF FinishTimeout
  <2> HIDE DEF q
  <2>3. req'[a] = q \/ req'[a] = Ended(a, "InternalError", 0, Null)
    BY <2>2, WritesAt
  <2> QED
    BY <1>2, <2>1, <2>3, EndedOver DEF FinishTimeout, Codes
<1> QED
  BY <1>1, <1>2

\* No statement but the commit of a free ply touches the moves table.
LEMMA MovesAreCommitted ==
  ASSUME NEW a \in Actors, Receive(a) \/ Step(a) \/ Abandon(a), moves' # moves
  PROVE  CommitMove(a) /\ ~PlyTaken(req[a].ply)
BY DEF Receive, Step, Abandon, ReadRow, LoadSubmit, Replay, Decide, LoadOther,
   CommitMove, UpdateOffer, FinishTimeout, Publish, UpdateGameRecord, Announce,
   Fails, GoesTo, GoesToFinish

-----------------------------------------------------------------------------
(* Nothing after the move that decides the game.                           *)

\* A call that is to commit the next ply of the log judged its move on the
\* log as it still is; one that judged a shorter log finds its ply taken.
Undecided == \A i \in DOMAIN moves : moves[i].payload \notin Mating

MateInv ==
  /\ NothingAfterMate
  /\ \A a \in Actors :
       At(a, "commit") /\ req[a].ply = Len(moves) + 1 => Undecided

\* Only a passed legality check takes a call to its commit.
LEMMA CommitIsLegal ==
  ASSUME IInv, NEW a \in Actors, Receive(a) \/ Step(a) \/ Abandon(a),
         req'[a].pc = "commit"
  PROVE  moves' = moves /\ Undecided
<1>0. req \in [Actors -> Request] /\ req[a] \in Request
  BY DEF IInv, TypeOK
<1>1. CASE Receive(a)
  BY <1>0, <1>1 DEF Receive, Quiet
<1>2. CASE ReadRow(a)
  BY FailsAt, <1>0, <1>2 DEF ReadRow, Request
<1>3. CASE LoadSubmit(a)
  <2>1. CASE Replay(a)
    BY <1>0, <1>3, <2>1, EndedAt, FailsAt DEF Replay
  <2>2. CASE Decide(a)
    BY <1>0, <1>3, <2>2, FailsAt, GoesAt, FinishAt DEF Decide, Legal, Undecided
  <2> QED
    BY <1>3, <2>1, <2>2, FailsAt DEF LoadSubmit
<1>4. CASE LoadOther(a)
  <2>1. \/ Fails(a, "InvalidRequest")
        \/ GoesTo(a, "update")
        \/ GoesToFinish(a, TimeoutResult(req[a].row))
        \/ GoesToFinish(a, WinFor(Opponent(req[a].by), "resignation"))
        \/ GoesToFinish(a, [reason |-> "agreement", winner |-> Null])
    BY <1>4 DEF LoadOther
  <2> QED
    BY <2>1, FailsAt, GoesAt, FinishAt
<1>5. CASE CommitMove(a)
  BY <1>5, CommitAt DEF Over
<1>6. CASE UpdateOffer(a)
  BY <1>6, OfferAt DEF Over
<1>7. CASE FinishTimeout(a)
  BY <1>7, FinishedAt DEF Over
<1>8. CASE Publish(a)
  <2>1. [req[a] EXCEPT !.pc = "record"].pc = "record"
    BY <1>0 DEF Request
  <2>2. \/ req'[a] = AfterMoveEvent(a)
        \/ req'[a] = Ended(a, "ok", 0, Null)
    BY <1>0, <1>8 DEF Publish
  <2>3. AfterMoveEvent(a).pc \in {"record", "idle", "done"}
    BY <1>0, EndedAt, <2>1 DEF AfterMoveEvent, Accepted, Request
  <2> QED
    BY EndedAt, <2>2, <2>3
<1>9. CASE UpdateGameRecord(a)
  BY EndedAt, <1>0, <1>9 DEF UpdateGameRecord, Request
<1>10. CASE Announce(a)
  BY EndedAt, <1>0, <1>10 DEF Announce, Accepted, Request
<1>11. CASE Abandon(a)
  BY <1>0, <1>11, FailsAt DEF Abandon
<1> QED
  BY <1>1, <1>2, <1>3, <1>4, <1>5, <1>6, <1>7, <1>8, <1>9, <1>10, <1>11 DEF Step

\* Every step keeps what makes the log end with a mate.
LEMMA MateNext == IInv /\ MateInv /\ [Next]_vars => MateInv'
<1> SUFFICES ASSUME IInv, MateInv, [Next]_vars PROVE MateInv'
  OBVIOUS
<1>0. req \in [Actors -> Request] /\ moves \in Seq(Move) /\ Len(moves) \in Nat
  BY DEF IInv, TypeOK
<1>1. ASSUME NEW a \in Actors, Receive(a) \/ Step(a) \/ Abandon(a)
      PROVE  MateInv'
  <2>1. CASE moves' = moves
    BY <1>1, <2>1, OthersWait, CommitIsLegal DEF MateInv, NothingAfterMate, At, Undecided
  <2>2. CASE moves' # moves
    <3>1. CommitMove(a) /\ ~PlyTaken(req[a].ply)
      BY <1>1, <2>2, MovesAreCommitted
    <3>2. PICK mv \in Move : moves' = Append(moves, mv) /\ req[a].ply = Len(moves) + 1
      BY <3>1, CommitAppends
    <3>3. Undecided
      BY <3>1, <3>2 DEF CommitMove, MateInv
    <3>4. NothingAfterMate'
      BY <1>0, <3>2, <3>3 DEF NothingAfterMate, Undecided
    <3>5. ASSUME NEW b \in Actors, At(b, "commit")'
          PROVE  req'[b].ply # Len(moves')  + 1
      <4>1. b # a
        BY <3>1, <3>5, CommitAt DEF At, Over
      <4>2. req'[b] = req[b] /\ req[b].pc = "commit"
        BY <1>1, <3>5, <4>1, OthersWait DEF At
      <4>3. req[b].row \in Row /\ RowFitsLog(req[b].row) /\ req[b].ply = req[b].row.ply + 1
        BY <4>2 DEF IInv, Established, RowsFitLog
      <4> QED
        BY <1>0, <3>2, <4>2, <4>3 DEF RowFitsLog, Row
    <3> QED
      BY <3>4, <3>5 DEF MateInv
  <2> QED
    BY <2>1, <2>2
<1>2. CASE ListExpired
  BY <1>0, <1>2 DEF ListExpired, Quiet, MateInv, NothingAfterMate, At, Undecided
<1>3. CASE SetCIDIfUnset
  BY <1>3 DEF SetCIDIfUnset, MateInv, NothingAfterMate, At, Undecided
<1>4. CASE Crash
  BY <1>0, <1>4 DEF Crash, Ended, Quiet, MateInv, NothingAfterMate, At, Undecided
<1>5. CASE Tick
  BY <1>5 DEF Tick, MateInv, NothingAfterMate, At, Undecided
<1>6. CASE UNCHANGED vars
  BY <1>6 DEF vars, MateInv, NothingAfterMate, At, Undecided
<1> QED
  BY <1>1, <1>2, <1>3, <1>4, <1>5, <1>6 DEF Next

\* No move is ever accepted after one that decided the game.
THEOREM NoMoveAfterMate == Spec => []NothingAfterMate
<1>1. Init => MateInv
  BY DEF Init, MateInv, NothingAfterMate, At, Undecided
<1>2. MateInv => NothingAfterMate
  BY DEF MateInv
<1> QED
  BY <1>1, <1>2, InitOK, NextOK, MateNext, PTL DEF Spec

-----------------------------------------------------------------------------
(* A ply is announced once.                                                *)

\* The plies whose #move event is out.
Announced == {bus[i].ply : i \in {j \in DOMAIN bus : bus[j].kind = "move"}}

\* A call between the commit of its move and the event of it.
Announcing(a) == At(a, "publish") /\ req[a].op = "submitMove"

\* Whoever is about to announce a ply is alone with it, and it is not out yet.
AnnounceInv ==
  /\ MovesAnnouncedOnce
  /\ \A a \in Actors : Announcing(a) => req[a].ply \notin Announced
  /\ \A a, b \in Actors :
       Announcing(a) /\ Announcing(b) /\ req[a].ply = req[b].ply => a = b

\* Only the commit of a free ply takes a call to the event of its move.
LEMMA AnnouncesCommitted ==
  ASSUME IInv, NEW a \in Actors, Receive(a) \/ Step(a) \/ Abandon(a), Announcing(a)'
  PROVE  /\ CommitMove(a) /\ ~PlyTaken(req[a].ply)
         /\ req'[a].ply = req[a].ply /\ bus' = bus
<1>0. req \in [Actors -> Request] /\ req[a] \in Request
  BY DEF IInv, TypeOK
<1>a. req'[a].pc = "publish" /\ req'[a].op = "submitMove"
  BY DEF Announcing, At
<1>1. CASE Receive(a)
  BY <1>0, <1>a, <1>1 DEF Receive, Quiet
<1>2. CASE ReadRow(a)
  BY FailsAt, <1>0, <1>a, <1>2 DEF ReadRow, Request
<1>3. CASE LoadSubmit(a)
  <2>1. CASE Replay(a)
    BY <1>0, <1>a, <1>3, <2>1, EndedAt, FailsAt DEF Replay
  <2>2. CASE Decide(a)
    BY <1>0, <1>a, <1>3, <2>2, FailsAt, GoesAt, FinishAt DEF Decide
  <2> QED
    BY <1>3, <1>a, <2>1, <2>2, FailsAt DEF LoadSubmit
<1>4. CASE LoadOther(a)
  <2>1. \/ Fails(a, "InvalidRequest")
        \/ GoesTo(a, "update")
        \/ GoesToFinish(a, TimeoutResult(req[a].row))
        \/ GoesToFinish(a, WinFor(Opponent(req[a].by), "resignation"))
        \/ GoesToFinish(a, [reason |-> "agreement", winner |-> Null])
    BY <1>4 DEF LoadOther
  <2> QED
    BY <1>a, <2>1, FailsAt, GoesAt, FinishAt
<1>5. CASE CommitMove(a)
  BY <1>a, <1>5, CommitAt DEF Over
<1>6. CASE UpdateOffer(a)
  BY <1>a, <1>6, OfferAt DEF Over
<1>7. CASE FinishTimeout(a)
  BY <1>a, <1>7, FinishedAt DEF Over
<1>8. CASE Publish(a)
  <2>1. [req[a] EXCEPT !.pc = "record"].pc = "record"
    BY <1>0 DEF Request
  <2>2. \/ req'[a] = AfterMoveEvent(a)
        \/ req'[a] = Ended(a, "ok", 0, Null)
    BY <1>0, <1>8 DEF Publish
  <2>3. AfterMoveEvent(a).pc \in {"record", "idle", "done"}
    BY <1>0, EndedAt, <2>1 DEF AfterMoveEvent, Accepted, Request
  <2> QED
    BY EndedAt, <1>a, <2>2, <2>3
<1>9. CASE UpdateGameRecord(a)
  BY <1>0, <1>a, <1>9 DEF UpdateGameRecord, Request
<1>10. CASE Announce(a)
  BY EndedAt, <1>0, <1>a, <1>10 DEF Announce, Accepted, Request
<1>11. CASE Abandon(a)
  BY <1>a, <1>11, FailsAt DEF Abandon
<1> QED
  BY <1>1, <1>2, <1>3, <1>4, <1>5, <1>6, <1>7, <1>8, <1>9, <1>10, <1>11 DEF Step

\* Only a call that is announcing puts a #move event on the bus, that of its ply.
LEMMA BusStep ==
  ASSUME NEW a \in Actors, Receive(a) \/ Step(a) \/ Abandon(a), bus' # bus
  PROVE  \E e : /\ bus' = Append(bus, e)
                /\ e.kind = "move" => Announcing(a) /\ e.ply = req[a].ply
                /\ e.kind # "move" => ~Announcing(a)
<1>1. CASE Publish(a)
  BY <1>1 DEF Publish, Announcing
<1>2. CASE Announce(a)
  BY <1>2 DEF Announce, Announcing, At
<1> QED
  BY <1>1, <1>2 DEF Receive, Step, Abandon, ReadRow, LoadSubmit, Replay, Decide,
     LoadOther, CommitMove, UpdateOffer, FinishTimeout, UpdateGameRecord,
     Fails, GoesTo, GoesToFinish

\* Steps that announce nothing and bring nobody to announce keep the invariant.
LEMMA AnnounceQuiet ==
  ASSUME AnnounceInv, bus' = bus, moves' = moves,
         \A a \in Actors : Announcing(a)' => Announcing(a) /\ req'[a].ply = req[a].ply
  PROVE  AnnounceInv'
BY DEF AnnounceInv, MovesAnnouncedOnce, Announced

\* Every step keeps the announcements apart.
LEMMA AnnounceNext == IInv /\ AnnounceInv /\ [Next]_vars => AnnounceInv'
<1> SUFFICES ASSUME IInv, AnnounceInv, [Next]_vars PROVE AnnounceInv'
  OBVIOUS
<1>0. /\ req \in [Actors -> Request] /\ moves \in Seq(Move) /\ Len(moves) \in Nat
      /\ bus \in Seq(Event) /\ Len(bus) \in Nat /\ DOMAIN bus = 1..Len(bus)
  BY DEF IInv, TypeOK
<1>1. ASSUME NEW a \in Actors, Receive(a) \/ Step(a) \/ Abandon(a)
      PROVE  AnnounceInv'
  <2>0. \A b \in Actors \ {a} : req'[b] = req[b]
    BY <1>1, OthersWait
  <2>1. CASE moves' # moves
    <3>1. CommitMove(a) /\ ~PlyTaken(req[a].ply) /\ bus' = bus
      BY <1>1, <2>1, MovesAreCommitted DEF CommitMove
    <3>2. PICK mv \in Move : moves' = Append(moves, mv) /\ req[a].ply = Len(moves) + 1
      BY <3>1, CommitAppends
    <3>3. Announcing(a)' => req'[a].ply = req[a].ply
      BY <3>1, CommitAt DEF Announcing, At, Over
    <3>4. Announced' = Announced /\ \A n \in Announced : n \in 1..Len(moves)
      BY <3>1 DEF Announced, AnnounceInv, MovesAnnouncedOnce
    <3>5. \A b \in Actors \ {a} : Announcing(b)' =>
             Announcing(b) /\ req'[b].ply = req[b].ply /\ req[b].ply \in 1..Len(moves)
      BY <2>0 DEF Announcing, At, IInv, Established
    <3>6. MovesAnnouncedOnce'
      BY <1>0, <3>1, <3>2 DEF AnnounceInv, MovesAnnouncedOnce
    <3>7. \A b \in Actors : Announcing(b)' => req'[b].ply \notin Announced'
      BY <1>0, <3>2, <3>3, <3>4, <3>5 DEF AnnounceInv
    <3>8. \A b, c \in Actors : Announcing(b)' /\ Announcing(c)'
             /\ req'[b].ply = req'[c].ply => b = c
      BY <1>0, <3>2, <3>3, <3>5 DEF AnnounceInv
    <3> QED
      BY <3>6, <3>7, <3>8 DEF AnnounceInv
  <2>2. CASE moves' = moves /\ bus' # bus
    <3>1. PICK e : /\ bus' = Append(bus, e)
                   /\ e.kind = "move" => Announcing(a) /\ e.ply = req[a].ply
                   /\ e.kind # "move" => ~Announcing(a)
      BY <1>1, <2>2, BusStep
    <3>2. ~Announcing(a)'
      BY <1>1, <2>2, AnnouncesCommitted
    <3>3. \A b \in Actors : Announcing(b)' =>
             b # a /\ Announcing(b) /\ req'[b].ply = req[b].ply
      BY <2>0, <3>2 DEF Announcing, At
    <3>4. /\ DOMAIN bus' = 1..Len(bus) + 1
          /\ \A i \in 1..Len(bus) : bus'[i] = bus[i]
          /\ bus'[Len(bus) + 1] = e
      BY <1>0, <3>1
    <3>5. Announced' \subseteq Announced \cup {n \in {req[a].ply} : Announcing(a)}
      BY <1>0, <3>1, <3>4 DEF Announced
    <3>6. Announcing(a) => req[a].ply \in 1..Len(moves)
      BY DEF Announcing, At, IInv, Established
    <3>7. MovesAnnouncedOnce'
      <4>1. \A i \in DOMAIN bus' : bus'[i].kind = "move" => bus'[i].ply \in 1..Len(moves')
        <5>1. \A i \in 1..Len(bus) : bus[i].kind = "move" => bus[i].ply \in 1..Len(moves)
          BY <1>0 DEF AnnounceInv, MovesAnnouncedOnce
        <5>2. e.kind = "move" => e.ply \in 1..Len(moves)
          BY <3>1, <3>6
        <5>3. \A i \in DOMAIN bus' : i \in 1..Len(bus) \/ i = Len(bus) + 1
          BY <1>0, <3>4
        <5> QED
          BY <2>2, <3>4, <5>1, <5>2, <5>3
      <4>2. e.kind = "move" => e.ply \notin Announced
        BY <3>1 DEF AnnounceInv
      <4>3. \A i, j \in DOMAIN bus' :
              bus'[i].kind = "move" /\ bus'[j].kind = "move" /\ bus'[i].ply = bus'[j].ply
                => i = j
        BY <1>0, <3>4, <4>2 DEF AnnounceInv, MovesAnnouncedOnce, Announced
      <4> QED
        BY <4>1, <4>3 DEF MovesAnnouncedOnce
    <3> QED
      BY <3>3, <3>5, <3>7 DEF AnnounceInv
  <2>3. CASE moves' = moves /\ bus' = bus
    <3>1. ~Announcing(a)'
      <4>1. SUFFICES ASSUME CommitMove(a), ~PlyTaken(req[a].ply) PROVE FALSE
        BY <1>1, AnnouncesCommitted
      <4>2. PICK mv \in Move : moves' = Append(moves, mv)
        BY <4>1, CommitAppends
      <4> QED
        BY <1>0, <2>3, <4>2
    <3> QED
      BY <2>0, <2>3, <3>1, AnnounceQuiet DEF Announcing, At
  <2> QED
    BY <2>1, <2>2, <2>3
<1>2. CASE ListExpired
  BY <1>0, <1>2, AnnounceQuiet DEF ListExpired, Quiet, Announcing, At
<1>3. CASE SetCIDIfUnset
  BY <1>3, AnnounceQuiet DEF SetCIDIfUnset, Announcing, At
<1>4. CASE Crash
  BY <1>0, <1>4, EndedAt, AnnounceQuiet DEF Crash, Announcing, At
<1>5. CASE Tick
  BY <1>5, AnnounceQuiet DEF Tick, Announcing, At
<1>6. CASE UNCHANGED vars
  BY <1>6, AnnounceQuiet DEF vars, Announcing, At
<1> QED
  BY <1>1, <1>2, <1>3, <1>4, <1>5, <1>6 DEF Next

\* Spectators hear of a ply once, and only of plies whose acceptance is committed.
THEOREM PliesAnnouncedOnce == Spec => []MovesAnnouncedOnce
<1>1. Init => AnnounceInv
  BY DEF Init, AnnounceInv, MovesAnnouncedOnce, Announcing, At, Quiet
<1>2. AnnounceInv => MovesAnnouncedOnce
  BY DEF AnnounceInv
<1> QED
  BY <1>1, <1>2, InitOK, NextOK, AnnounceNext, PTL DEF Spec

-----------------------------------------------------------------------------
(* The referee implements the log of module GameLog.                       *)

\* An acceptance is held by a call that is over, and is an entry of the log.
Truthful(q) ==
  q.out.code = "accepted" =>
    /\ q.pc = "done"
    /\ q.out.ply \in 1..Len(moves)
    /\ q.out.move = moves[q.out.ply]

AnswerInv == \A a \in Actors : Truthful(req[a])

\* A call that is over takes no further step; one that ends accepted ends with
\* an entry of the log, which that step leaves alone.
LEMMA AnswerStep ==
  ASSUME IInv, AnswerInv, NEW a \in Actors, Receive(a) \/ Step(a) \/ Abandon(a)
  PROVE  /\ req[a].out.code # "accepted"
         /\ req'[a].out.code = "accepted" => moves' = moves /\ Truthful(req'[a])
<1>0. req \in [Actors -> Request] /\ req[a] \in Request /\ Len(moves) \in Nat
  BY DEF IInv, TypeOK
<1>a. req[a].out.code # "accepted"
  BY DEF AnswerInv, Truthful, Receive, Step, Abandon, ReadRow, LoadSubmit, LoadOther,
     CommitMove, UpdateOffer, FinishTimeout, Publish, UpdateGameRecord, Announce, At
<1>b. \A code \in Codes \ {"accepted"} : \A ply, mv :
        Ended(a, code, ply, mv).out.code # "accepted"
  BY DEF Ended, Quiet, NoAnswer
<1>c. ASSUME NEW ply \in 1..Len(moves), req'[a] = Ended(a, "accepted", ply, moves[ply]),
             req'[a].out.code = "accepted"
      PROVE  Truthful(req'[a])
  BY <1>c DEF Truthful, Ended, Quiet, NoAnswer
<1>1. CASE Receive(a)
  <2>1. PICK op, by, ply, payload :
          req' = [req EXCEPT ![a] = [Quiet EXCEPT
                    !.pc = "read", !.op = op, !.by = by, !.ply = ply,
                    !.payload = payload, !.at = now]]
    BY <1>1 DEF Receive
  <2> DEFINE q == [Quiet EXCEPT !.pc = "read", !.op = op, !.by = by, !.ply = ply,
                                !.payload = payload, !.at = now]
  <2>2. q.out = Quiet.out
    BY QuietOK DEF Request
  <2>3. req'[a] = q
    BY <1>0, <2>1
  <2> HIDE DEF q
  <2> QED
    BY <1>a, <2>2, <2>3 DEF Quiet, NoAnswer
<1>2. CASE ReadRow(a)
  BY FailsAt, <1>0, <1>a, <1>b, <1>2 DEF ReadRow, Request, Codes
<1>3. CASE LoadSubmit(a)
  <2>1. CASE Replay(a)
    <3>1. req[a].ply \in 1..Len(moves)
      BY <1>0, <1>3, <2>1 DEF LoadSubmit, Replay, At, IInv, Established, Request
    <3> QED
      BY <1>0, <1>a, <1>b, <1>c, <2>1, <3>1, FailsAt DEF Replay, Codes
  <2>2. CASE Decide(a)
    BY <1>a, <1>b, <1>3, <2>2, FailsAt, GoesAt, FinishAt DEF Decide, Codes
  <2> QED
    BY <1>3, <1>a, <1>b, <2>1, <2>2, FailsAt DEF LoadSubmit, Codes
<1>4. CASE LoadOther(a)
  <2>1. \/ Fails(a, "InvalidRequest")
        \/ GoesTo(a, "update")
        \/ GoesToFinish(a, TimeoutResult(req[a].row))
        \/ GoesToFinish(a, WinFor(Opponent(req[a].by), "resignation"))
        \/ GoesToFinish(a, [reason |-> "agreement", winner |-> Null])
    BY <1>4 DEF LoadOther
  <2> QED
    BY <1>a, <1>b, <2>1, FailsAt, GoesAt, FinishAt DEF Codes
<1>5. CASE CommitMove(a)
  BY <1>a, <1>5, CommitAt DEF Over
<1>6. CASE UpdateOffer(a)
  BY <1>a, <1>6, OfferAt DEF Over
<1>7. CASE FinishTimeout(a)
  BY <1>a, <1>7, FinishedAt DEF Over
<1>8. CASE Publish(a)
  <2>1. [req[a] EXCEPT !.pc = "record"].out = req[a].out
    BY <1>0 DEF Request
  <2>2. CASE req[a].op = "submitMove"
    <3>1. req[a].ply \in 1..Len(moves)
      BY <1>8, <2>2 DEF Publish, At, IInv, Established
    <3>2. req'[a] = AfterMoveEvent(a) /\ moves' = moves
      BY <1>0, <1>8, <2>2 DEF Publish
    <3>3. CASE req[a].payload \in Mating
      BY <1>0, <1>a, <2>1, <3>2, <3>3 DEF AfterMoveEvent, Request
    <3>4. CASE req[a].payload \notin Mating
      BY <1>a, <1>c, <3>1, <3>2, <3>4 DEF AfterMoveEvent, Accepted
    <3> QED
      BY <3>3, <3>4
  <2>3. CASE req[a].op # "submitMove"
    BY <1>0, <1>a, <1>b, <1>8, <2>3 DEF Publish, Codes
  <2> QED
    BY <2>2, <2>3
<1>9. CASE UpdateGameRecord(a)
  BY <1>0, <1>a, <1>9 DEF UpdateGameRecord, Request
<1>10. CASE Announce(a)
  <2>1. CASE req[a].op = "submitMove" /\ req[a].res.reason = "checkmate"
    <3>1. req[a].ply \in 1..Len(moves)
      BY <1>10, <2>1 DEF Announce, At, IInv, Established
    <3>2. req'[a] = Accepted(a) /\ moves' = moves
      BY <1>0, <1>10, <2>1 DEF Announce
    <3> QED
      BY <1>a, <1>c, <3>1, <3>2 DEF Accepted
  <2>2. CASE ~(req[a].op = "submitMove" /\ req[a].res.reason = "checkmate")
    BY <1>0, <1>a, <1>b, <1>10, <2>2 DEF Announce, Codes
  <2> QED
    BY <2>1, <2>2
<1>11. CASE Abandon(a)
  BY <1>a, <1>b, <1>11, FailsAt DEF Abandon, Codes
<1> QED
  BY <1>1, <1>2, <1>3, <1>4, <1>5, <1>6, <1>7, <1>8, <1>9, <1>10, <1>11 DEF Step

\* What a step does to the log: the commit of a free ply appends, nothing else
\* touches it.
LEMMA LogStep ==
  ASSUME IInv, [Next]_vars
  PROVE  \/ moves' = moves
         \/ \E a \in Actors : CommitMove(a) /\ ~PlyTaken(req[a].ply)
BY MovesAreCommitted DEF Next, ListExpired, SetCIDIfUnset, Crash, Tick, vars

\* Every step keeps the answers true.
LEMMA AnswerNext == IInv /\ AnswerInv /\ [Next]_vars => AnswerInv'
<1> SUFFICES ASSUME IInv, AnswerInv, [Next]_vars PROVE AnswerInv'
  OBVIOUS
<1>0. req \in [Actors -> Request] /\ moves \in Seq(Move)
  BY DEF IInv, TypeOK
<1>a. moves' = moves \/ \E mv \in Move : moves' = Append(moves, mv)
  BY LogStep, CommitAppends
<1>b. ASSUME NEW b \in Actors, req'[b] = req[b] \/ req'[b].out.code # "accepted"
      PROVE  Truthful(req[b])'
  <2>1. CASE req'[b] = req[b]
    <3>1. \A n \in 1..Len(moves) : n \in 1..Len(moves') /\ moves'[n] = moves[n]
      BY <1>0, <1>a
    <3> QED
      BY <2>1, <3>1 DEF AnswerInv, Truthful
  <2>2. CASE req'[b].out.code # "accepted"
    BY <2>2 DEF Truthful
  <2> QED
    BY <1>b, <2>1, <2>2
<1>1. ASSUME NEW a \in Actors, Receive(a) \/ Step(a) \/ Abandon(a)
      PROVE  AnswerInv'
  <2>1. Truthful(req[a])'
    BY <1>1, AnswerStep DEF Truthful
  <2>2. \A b \in Actors \ {a} : req'[b] = req[b]
    BY <1>1, OthersWait
  <2> QED
    BY <1>b, <2>1, <2>2 DEF AnswerInv
<1>2. CASE ListExpired
  BY <1>0, <1>b, <1>2 DEF ListExpired, Quiet, NoAnswer, AnswerInv
<1>3. CASE SetCIDIfUnset
  BY <1>b, <1>3 DEF SetCIDIfUnset, AnswerInv
<1>4. CASE Crash
  <2>1. \A b \in Actors : req'[b] = req[b] \/ req'[b] = Ended(b, "lost", 0, Null)
    BY <1>4 DEF Crash
  <2>2. \A b \in Actors : Ended(b, "lost", 0, Null).out.code # "accepted"
    BY DEF Ended, Quiet, NoAnswer
  <2> QED
    BY <1>b, <2>1, <2>2 DEF AnswerInv
<1>5. CASE Tick
  BY <1>b, <1>5 DEF Tick, AnswerInv
<1>6. CASE UNCHANGED vars
  BY <1>b, <1>6 DEF vars, AnswerInv
<1> QED
  BY <1>1, <1>2, <1>3, <1>4, <1>5, <1>6 DEF Next

\* A step that leaves every answer alone that is an acceptance, and makes none,
\* leaves the acceptances alone.
LEMMA AcksStay ==
  ASSUME \A b \in Requests : \/ req'[b] = req[b]
                             \/ /\ req[b].out.code # "accepted"
                                /\ req'[b].out.code # "accepted"
  PROVE  Acks' = Acks
<1> DEFINE A == {b \in Requests : req[b].out.code = "accepted"}
<1>1. A' = A /\ \A b \in A : req'[b] = req[b]
  OBVIOUS
<1> QED
  BY <1>1 DEF Acks

\* A commit is an acceptance of the log: the next ply, by the player on move,
\* before the deadline that the entry before set.
LEMMA CommitIsAccept ==
  ASSUME IInv, AnswerInv, NEW a \in Actors, CommitMove(a), ~PlyTaken(req[a].ply)
  PROVE  Log!Next
<1>0. req \in [Actors -> Request] /\ req[a] \in Request /\ moves \in Seq(Move)
  BY DEF IInv, TypeOK
<1> DEFINE p  == req[a].payload
           at == req[a].at
<1>1. /\ req[a].row.ply = Len(moves) /\ req[a].by = PlayerAt(Len(moves) + 1)
      /\ moves' = Append(moves, [player |-> req[a].by, payload |-> p, at |-> at])
      /\ req[a].row \in Row /\ RowFitsLog(req[a].row)
      /\ p \in Payloads /\ at \in 0..MaxNow /\ ~Expired(req[a].row, at)
  <2>1. /\ req[a].row \in Row /\ ~Expired(req[a].row, at) /\ p \in Payloads
    BY DEF CommitMove, At, IInv, Established
  <2> QED
    BY <1>0, <2>1, CommitAppends DEF IInv, RowsFitLog, Request
<1>2. at < Log!DeadlineAfter(Len(moves))
  <2>1. req[a].row.anchor \in Nat /\ at \in Nat /\ Len(moves) \in Nat
    BY <1>0, <1>1 DEF Row
  <2>2. at < req[a].row.anchor + Budget
    BY <1>1, <2>1 DEF Expired, DeadlineFor
  <2> QED
    BY <1>1, <2>1, <2>2 DEF RowFitsLog, Log!DeadlineAfter
<1>3. req[a].by = Log!PlayerAt(Len(moves) + 1)
  BY <1>1 DEF PlayerAt, Log!PlayerAt
<1>4. Acks' = Acks
  <2>1. \A b \in Actors \ {a} : req'[b] = req[b]
    BY OthersWait DEF Step
  <2>2. req[a].out.code # "accepted" /\ req'[a].out.code # "accepted"
    <3> QED
      BY AnswerStep, CommitAt DEF Step, Over
  <2> QED
    BY <2>1, <2>2, AcksStay
<1>5. Log!Accept(p, at)
  BY <1>1, <1>2, <1>3, <1>4 DEF Log!Accept
<1> QED
  BY <1>1, <1>5 DEF Log!Next

\* Every step of the referee is a step of the log or none.
LEMMA StepRefines ==
  ASSUME IInv, AnswerInv, [Next]_vars
  PROVE  [Log!Next]_(Log!vars)
<1>0. req \in [Actors -> Request] /\ moves \in Seq(Move)
  BY DEF IInv, TypeOK
<1>q. UNCHANGED <<moves, Acks>> => UNCHANGED Log!vars
  BY DEF Log!vars
<1>1. ASSUME NEW a \in Actors, Receive(a) \/ Step(a) \/ Abandon(a)
      PROVE  [Log!Next]_(Log!vars)
  <2>0. \A b \in Actors \ {a} : req'[b] = req[b]
    BY <1>1, OthersWait
  <2>1. req[a].out.code # "accepted"
    BY <1>1, AnswerStep
  <2>2. CASE moves' # moves
    BY <1>1, <2>2, MovesAreCommitted, CommitIsAccept
  <2>3. CASE moves' = moves /\ ~(a \in Requests /\ req'[a].out.code = "accepted")
    <3>1. Acks' = Acks
      BY <2>0, <2>1, <2>3, AcksStay
    <3> QED
      BY <1>q, <2>3, <3>1
  <2>4. CASE moves' = moves /\ a \in Requests /\ req'[a].out.code = "accepted"
    <3> DEFINE ply == req'[a].out.ply
               A   == {b \in Requests : req[b].out.code = "accepted"}
    <3>1. ply \in 1..Len(moves) /\ req'[a].out.move = moves[ply]
      BY <1>1, <2>4, AnswerStep DEF Truthful
    <3>2. A' = A \cup {a} /\ \A b \in A : req'[b] = req[b]
      BY <2>0, <2>1, <2>4
    <3>3. Acks' = Acks \cup {<<ply, moves[ply]>>}
      BY <3>1, <3>2 DEF Acks
    <3>4. Log!Acknowledge(ply)
      BY <2>4, <3>3 DEF Log!Acknowledge
    <3> QED
      BY <3>1, <3>4 DEF Log!Next
  <2> QED
    BY <2>2, <2>3, <2>4
<1>2. CASE ListExpired
  <2>1. \A b \in Requests : req'[b] = req[b]
    BY <1>0, <1>2 DEF ListExpired
  <2> QED
    BY <1>2, <1>q, <2>1, AcksStay DEF ListExpired
<1>3. CASE Crash
  <2>1. \A b \in Actors : \/ req'[b] = req[b]
                          \/ b \in Busy /\ req'[b] = Ended(b, "lost", 0, Null)
    BY <1>3 DEF Crash
  <2>2. \A b \in Busy : req[b].out.code # "accepted"
    BY DEF AnswerInv, Truthful, Busy, InFlight
  <2>3. \A b \in Actors : Ended(b, "lost", 0, Null).out.code # "accepted"
    BY DEF Ended, Quiet, NoAnswer
  <2>4. Acks' = Acks
    BY <2>1, <2>2, <2>3, AcksStay
  <2> QED
    BY <1>3, <1>q, <2>4 DEF Crash
<1>4. CASE SetCIDIfUnset \/ Tick \/ UNCHANGED vars
  BY <1>4, <1>q, AcksStay DEF SetCIDIfUnset, Tick, vars
<1> QED
  BY <1>1, <1>2, <1>3, <1>4 DEF Next

\* The referee implements the log it promises: append-only, the players
\* alternating, every move in time, and every acceptance an entry for good.
THEOREM RefereeKeepsLog == Spec => ImplementsGameLog
<1>1. Init => AnswerInv
  BY DEF Init, AnswerInv, Truthful, Quiet, NoAnswer
<1>2. Init => Log!Init
  BY DEF Init, Log!Init, Acks, Quiet, NoAnswer
<1>3. IInv /\ AnswerInv /\ [Next]_vars => [Log!Next]_(Log!vars)
  BY StepRefines
<1> QED
  BY <1>1, <1>2, <1>3, InitOK, NextOK, AnswerNext, PTL
  DEF Spec, ImplementsGameLog, Log!Spec

-----------------------------------------------------------------------------
(* How games end: what undoes an end, who may lose on time, who hears of it. *)

\* How a statement that writes no row, move or event takes a call on.
MovedOn(p, q) ==
  /\ q.at \in {0, now} \/ q.at = p.at
  /\ \/ q.pc \in {"idle", "done"} /\ ~Telling(p)
     \/ q.pc = "read" /\ p.pc \in {"idle", "commit"}
     \/ /\ q.pc = "load" /\ p.pc = "read" /\ q.row = row /\ Served
        /\ q.op = p.op /\ q.at = p.at /\ p.op # "sweep"
     \/ q.pc \in {"commit", "update"} /\ p.pc = "load" /\ q.row = p.row
     \/ /\ q.pc = "finish" /\ p.pc = "load"
        /\ q.res.reason = "timeout" =>
             /\ q.res.winner = Opponent(p.row.turn)
             /\ p.op # "sweep" => Expired(p.row, p.at)
     \/ q.pc = "announce" /\ p.pc = "record"

\* Moving on keeps the operation of a call and the row it has read.
LEMMA GoesWith ==
  ASSUME IInv, NEW a \in Actors, NEW pc, GoesTo(a, pc)
  PROVE  /\ req'[a].pc = pc /\ req'[a].op = req[a].op
         /\ req'[a].row = req[a].row /\ req'[a].at = req[a].at
         /\ UNCHANGED <<row, moves, now, bus, past>>
<1> DEFINE q == [req[a] EXCEPT !.pc = pc]
<1>1. req \in [Actors -> Request] /\ req[a] \in Request
  BY DEF IInv, TypeOK
<1>2. req'[a] = q /\ UNCHANGED <<row, moves, now, bus, past>>
  BY <1>1 DEF GoesTo
<1>3. q.pc = pc /\ q.op = req[a].op /\ q.row = req[a].row /\ q.at = req[a].at
  BY <1>1 DEF Request
<1> QED
  BY <1>2, <1>3

\* Going to finishTimeout sets the result it is to write.
LEMMA FinishWith ==
  ASSUME IInv, NEW a \in Actors, NEW res, GoesToFinish(a, res)
  PROVE  /\ req'[a].pc = "finish" /\ req'[a].res = res /\ req'[a].at = req[a].at
         /\ UNCHANGED <<row, moves, now, bus, past>>
<1> DEFINE q == [req[a] EXCEPT !.pc = "finish", !.res = res, !.seen = Len(moves)]
<1>1. req \in [Actors -> Request] /\ req[a] \in Request
  BY DEF IInv, TypeOK
<1>2. req'[a] = q /\ UNCHANGED <<row, moves, now, bus, past>>
  BY <1>1 DEF GoesToFinish
<1>3. q.pc = "finish" /\ q.res = res /\ q.at = req[a].at
  BY <1>1 DEF Request
<1> QED
  BY <1>2, <1>3

\* A call that is refused has ended nothing.
LEMMA FailsMovedOn ==
  ASSUME IInv, NEW a \in Actors, NEW code, Fails(a, code), ~Telling(req[a])
  PROVE  MovedOn(req[a], req'[a]) /\ UNCHANGED <<row, moves, now, bus, past>>
<1>1. /\ req'[a] = Ended(a, code, 0, Null)
      /\ UNCHANGED <<row, moves, now, bus, past>>
  BY DEF Fails, IInv, TypeOK
<1>2. Ended(a, code, 0, Null).at = 0 /\ Ended(a, code, 0, Null).pc \in {"idle", "done"}
  BY DEF Ended, Quiet
<1> QED
  BY <1>1, <1>2 DEF MovedOn

\* Every statement that writes nothing, or nothing but the public record,
\* moves its call on.
LEMMA QuietSteps ==
  ASSUME IInv, NEW a \in Actors,
         \/ Receive(a) \/ ReadRow(a) \/ LoadSubmit(a) \/ LoadOther(a) \/ Abandon(a)
         \/ UpdateGameRecord(a)
         \/ CommitMove(a) /\ PlyTaken(req[a].ply)
         \/ FinishTimeout(a) /\ ~MayFinish
  PROVE  MovedOn(req[a], req'[a]) /\ UNCHANGED <<row, moves, now, bus, past>>
<1>0. req \in [Actors -> Request] /\ req[a] \in Request
  BY DEF IInv, TypeOK
<1>1. CASE Receive(a)
  <2>1. PICK op, by, ply, payload :
          req' = [req EXCEPT ![a] = [Quiet EXCEPT
                    !.pc = "read", !.op = op, !.by = by, !.ply = ply,
                    !.payload = payload, !.at = now]]
    BY <1>1 DEF Receive
  <2>2. req'[a].pc = "read" /\ req'[a].at = now
    BY <1>0, <2>1 DEF Quiet
  <2> QED
    BY <1>1, <2>2 DEF Receive, At, MovedOn
<1>2. CASE ReadRow(a)
  <2>0. req[a].pc = "read" /\ ~Telling(req[a]) /\ req[a].op # "sweep"
    BY <1>2 DEF ReadRow, At, Telling, IInv, Established, AllOps
  <2>1. CASE Fails(a, "GameNotActive") \/ Fails(a, "PlyMismatch") \/ Fails(a, "Forbidden")
    BY <2>0, <2>1, FailsMovedOn
  <2>2. CASE /\ Served /\ req' = [req EXCEPT ![a].pc = "load", ![a].row = row]
             /\ UNCHANGED <<row, moves, now, bus, past>>
    <3> DEFINE q == [req[a] EXCEPT !.pc = "load", !.row = row]
    <3>1. req'[a] = q
      BY <1>0, <2>2
    <3>2. q.pc = "load" /\ q.row = row /\ q.op = req[a].op /\ q.at = req[a].at
      BY <1>0 DEF Request
    <3> HIDE DEF q
    <3> QED
      BY <2>0, <2>2, <3>1, <3>2 DEF MovedOn
  <2> QED
    BY <1>2, <2>1, <2>2 DEF ReadRow
<1>3. CASE LoadSubmit(a)
  <2>0. req[a].pc = "load" /\ req[a].op = "submitMove" /\ ~Telling(req[a])
    BY <1>3 DEF LoadSubmit, At, Telling
  <2>1. CASE Replay(a)
    <3>1. CASE Fails(a, "PlyMismatch")
      BY <2>0, <3>1, FailsMovedOn
    <3>2. CASE /\ req' = [req EXCEPT ![a] = Ended(a, "accepted", req[a].ply, moves[req[a].ply])]
               /\ UNCHANGED <<row, moves, now, bus, past>>
      <4>1. req'[a].pc \in {"idle", "done"} /\ req'[a].at = 0
        BY <1>0, <3>2 DEF Ended, Quiet
      <4> QED
        BY <2>0, <3>2, <4>1 DEF MovedOn
    <3> QED
      BY <2>1, <3>1, <3>2 DEF Replay
  <2>2. CASE Decide(a)
    <3>1. \/ Fails(a, "NotYourTurn") \/ Fails(a, "PlyMismatch") \/ Fails(a, "IllegalMove")
          \/ /\ GoesToFinish(a, TimeoutResult(req[a].row))
             /\ Expired(req[a].row, req[a].at)
          \/ GoesTo(a, "commit")
      BY <2>2 DEF Decide
    <3>2. CASE /\ GoesToFinish(a, TimeoutResult(req[a].row))
               /\ Expired(req[a].row, req[a].at)
      BY <2>0, <3>2, FinishWith DEF TimeoutResult, WinFor, MovedOn
    <3> QED
      BY <2>0, <3>1, <3>2, FailsMovedOn, GoesWith DEF MovedOn
  <2> QED
    BY <1>3, <2>0, <2>1, <2>2, FailsMovedOn DEF LoadSubmit
<1>4. CASE LoadOther(a)
  <2>0. req[a].pc = "load" /\ ~Telling(req[a])
    BY <1>4 DEF LoadOther, At, Telling
  <2>1. \/ Fails(a, "InvalidRequest")
        \/ GoesTo(a, "update")
        \/ req[a].op = "sweep" /\ GoesToFinish(a, TimeoutResult(req[a].row))
        \/ GoesToFinish(a, WinFor(Opponent(req[a].by), "resignation"))
        \/ GoesToFinish(a, [reason |-> "agreement", winner |-> Null])
    BY <1>4 DEF LoadOther
  <2> QED
    BY <2>0, <2>1, FailsMovedOn, GoesWith, FinishWith DEF TimeoutResult, WinFor, MovedOn
<1>5. CASE Abandon(a)
  BY <1>5, FailsMovedOn DEF Abandon, Telling
<1>6. CASE UpdateGameRecord(a)
  <2>1. /\ req' = [req EXCEPT ![a].pc = "announce"] /\ req[a].pc = "record"
        /\ UNCHANGED <<row, moves, now, bus, past>>
    BY <1>6 DEF UpdateGameRecord, At
  <2>2. req'[a].pc = "announce" /\ req'[a].at = req[a].at
    BY <1>0, <2>1 DEF Request
  <2> QED
    BY <2>1, <2>2 DEF MovedOn
<1>7. CASE CommitMove(a) /\ PlyTaken(req[a].ply)
  <2>1. /\ req' = [req EXCEPT ![a].pc = "read", ![a].row = Null] /\ req[a].pc = "commit"
        /\ UNCHANGED <<row, moves, now, bus, past>>
    BY <1>7 DEF CommitMove, At
  <2>2. req'[a].pc = "read" /\ req'[a].at = req[a].at
    BY <1>0, <2>1 DEF Request
  <2> QED
    BY <2>1, <2>2 DEF MovedOn
<1>8. CASE FinishTimeout(a) /\ ~MayFinish
  BY <1>8, FailsMovedOn DEF FinishTimeout, At, Telling
<1> QED
  BY <1>1, <1>2, <1>3, <1>4, <1>5, <1>6, <1>7, <1>8

\* What a call that goes by the row it has read knows of it.
Fresh(q) ==
  /\ q.at <= now
  /\ q.pc \in {"load", "commit", "update"} =>
       q.row.status = "active" /\ q.row.result = Null
  /\ q.pc = "load" => OverduePly(q.row, q.at) \subseteq past.overdue
  /\ q.pc = "load" /\ q.op = "sweep" => Expired(q.row, q.at)
  /\ q.pc = "finish" /\ q.res.reason = "timeout" =>
       \E ply \in past.overdue : q.res.winner = Opponent(PlayerAt(ply + 1))

\* The row was seen to be overdue whenever it is, and so was every row that a
\* call is about to decide a timeout by.
DueInv ==
  /\ TimeoutWasDue
  /\ row.status = "active" => row.result = Null
  /\ OverduePly(row, now) \subseteq past.overdue
  /\ \A a \in Actors : Fresh(req[a])

\* A call that waits stays fresh while time passes and more is remembered.
LEMMA FreshStays ==
  ASSUME NEW q, Fresh(q), now \in Nat, now' \in Nat, q.at \in Nat, now <= now',
         past.overdue \subseteq past'.overdue
  PROVE  /\ q.at <= now'
         /\ q.pc \in {"load", "commit", "update"} =>
              q.row.status = "active" /\ q.row.result = Null
         /\ q.pc = "load" => OverduePly(q.row, q.at) \subseteq past'.overdue
         /\ q.pc = "load" /\ q.op = "sweep" => Expired(q.row, q.at)
         /\ q.pc = "finish" /\ q.res.reason = "timeout" =>
              \E ply \in past'.overdue : q.res.winner = Opponent(PlayerAt(ply + 1))
BY DEF Fresh

\* A call that is past its decisions, or not there yet, has nothing to know.
LEMMA FreshElse ==
  ASSUME NEW q, q.pc \notin {"load", "commit", "update", "finish"}, q.at <= now
  PROVE  Fresh(q)
BY DEF Fresh

\* What moves on stays fresh: the row it reads is the row, and the result it
\* takes to finishTimeout is that of an expired clock.
LEMMA MovedOnFresh ==
  ASSUME IInv, DueInv, NEW a \in Actors, MovedOn(req[a], req'[a])
  PROVE  Fresh(req'[a])
<1> DEFINE p == req[a]
           q == req'[a]
<1>0. /\ p \in Request /\ Established(p) /\ Fresh(p) /\ now \in Nat
      /\ p.row # Null => RowFitsLog(p.row)
      /\ row \in Row
  BY DEF IInv, TypeOK, DueInv, RowsFitLog
<1>1. q.at <= now
  BY <1>0 DEF MovedOn, Fresh
<1>2. CASE q.pc = "load"
  <2>1. /\ q.row = row /\ Served /\ q.op # "sweep" /\ q.at = p.at
        /\ p.at <= now /\ p.at \in Nat
    BY <1>0, <1>2 DEF MovedOn, Fresh, Request
  <2>2. Expired(row, q.at) => Expired(row, now)
    BY <1>0, <2>1 DEF Expired, DeadlineFor, Row
  <2>3. OverduePly(row, q.at) \subseteq past.overdue
    BY <2>2 DEF DueInv, OverduePly
  <2> QED
    BY <1>1, <1>2, <2>1, <2>3 DEF Fresh, DueInv, Served
<1>3. CASE q.pc \in {"commit", "update"}
  BY <1>0, <1>1, <1>3 DEF MovedOn, Fresh
<1>4. CASE q.pc = "finish" /\ q.res.reason = "timeout"
  <2>1. /\ p.pc = "load" /\ q.res.winner = Opponent(p.row.turn)
        /\ Expired(p.row, p.at) /\ p.row.status = "active"
        /\ OverduePly(p.row, p.at) \subseteq past.overdue
    BY <1>0, <1>4 DEF MovedOn, Fresh
  <2>2. p.row \in Row /\ RowFitsLog(p.row)
    BY <1>0, <2>1 DEF Established
  <2>3. p.row.ply \in past.overdue /\ p.row.turn = PlayerAt(p.row.ply + 1)
    BY <2>1, <2>2 DEF OverduePly, RowFitsLog
  <2> QED
    BY <1>1, <1>4, <2>1, <2>3 DEF Fresh
<1>5. CASE q.pc = "finish" /\ q.res.reason # "timeout"
  BY <1>1, <1>5 DEF Fresh
<1>6. CASE q.pc \notin {"load", "commit", "update", "finish"}
  BY <1>1, <1>6, FreshElse
<1> QED
  BY <1>2, <1>3, <1>4, <1>5, <1>6

\* A statement that writes the row leaves the other calls fresh.
LEMMA DueWrite ==
  ASSUME IInv, DueInv, NEW a \in Actors,
         \A b \in Actors \ {a} : req'[b] = req[b],
         req'[a].pc \notin {"load", "commit", "update", "finish"}, req'[a].at \in {0, req[a].at},
         now' = now, past'.overdue = past.overdue \cup OverduePly(row', now),
         row'.status = "active" => row'.result = Null,
         row'.result # Null /\ row'.result.reason = "timeout" =>
           \E ply \in past.overdue : row'.result.winner = Opponent(PlayerAt(ply + 1))
  PROVE  DueInv'
<1>0. now \in Nat /\ \A b \in Actors : req[b].at \in Nat /\ Fresh(req[b])
  BY DEF IInv, TypeOK, DueInv, Request
<1>1. ASSUME NEW b \in Actors, b # a PROVE Fresh(req[b])'
  BY <1>0, <1>1, FreshStays DEF Fresh
<1>2. Fresh(req[a])'
  BY <1>0 DEF Fresh
<1>3. OverduePly(row', now') \subseteq past'.overdue
  OBVIOUS
<1>4. TimeoutWasDue'
  BY DEF TimeoutWasDue
<1> QED
  BY <1>1, <1>2, <1>3, <1>4 DEF DueInv, OverduePly, Expired, DeadlineFor

\* What a write of the row does to what is remembered, besides the row itself.
LEMMA WritesPast ==
  ASSUME IInv, NEW a \in Actors, NEW r, NEW q, NEW ends, Writes(a, r, q, ends)
  PROVE  /\ past'.overdue = past.overdue \cup OverduePly(row', now)
         /\ past'.ends = past.ends + ends
         /\ \/ req'[a] = q /\ past'.cut = past.cut
            \/ /\ req'[a] = Ended(a, "InternalError", 0, Null)
               /\ past'.cut = past.cut + ends
<1>1. past \in Past /\ req \in [Actors -> Request]
  BY DEF IInv, TypeOK
<1> QED
  BY <1>1 DEF Writes, Past

\* The error that a call gets has no row, and the moment 0.
LEMMA EndedBlank ==
  ASSUME NEW a, NEW code, NEW ply, NEW mv
  PROVE  /\ Ended(a, code, ply, mv).at = 0
         /\ Ended(a, code, ply, mv).pc \in {"idle", "done"}
         /\ ~Telling(Ended(a, code, ply, mv))
BY DEF Ended, Quiet, Telling

\* A committed move leaves an active row without a result, or a mate.
LEMMA DueCommit ==
  ASSUME IInv, DueInv, NEW a \in Actors, CommitMove(a), ~PlyTaken(req[a].ply)
  PROVE  DueInv'
<1> DEFINE q == [req[a] EXCEPT !.pc = "publish", !.res = AfterMove(a).result,
                               !.seen = req[a].ply]
<1>0. /\ req[a] \in Request /\ req[a].row \in Row
      /\ req[a].row.status = "active" /\ req[a].row.result = Null
  BY DEF IInv, TypeOK, CommitMove, At, Established, DueInv, Fresh
<1>1. q.pc = "publish" /\ q.at = req[a].at
  BY <1>0 DEF Request
<1>2. Writes(a, AfterMove(a), q, IF req[a].payload \in Mating THEN 1 ELSE 0)
  BY DEF CommitMove
<1> HIDE DEF q
<1>3. /\ row' = AfterMove(a) /\ now' = now
      /\ past'.overdue = past.overdue \cup OverduePly(row', now)
      /\ req'[a] = q \/ req'[a] = Ended(a, "InternalError", 0, Null)
  BY <1>2, WritesAt, WritesPast DEF CommitMove
<1>4. /\ row'.status = "active" => row'.result = Null
      /\ row'.result # Null => row'.result.reason = "checkmate"
  BY <1>0, <1>3 DEF AfterMove, Row, WinFor
<1>5. \A b \in Actors \ {a} : req'[b] = req[b]
  BY OthersWait DEF Step
<1> QED
  BY <1>1, <1>3, <1>4, <1>5, EndedBlank, DueWrite

\* A draw offer, however stale, brings back an active row without a result.
LEMMA DueOffer ==
  ASSUME IInv, DueInv, NEW a \in Actors, UpdateOffer(a)
  PROVE  DueInv'
<1> DEFINE q == [req[a] EXCEPT !.pc = "publish"]
<1>0. /\ req[a] \in Request /\ req[a].row \in Row
      /\ req[a].row.status = "active" /\ req[a].row.result = Null
  BY DEF IInv, TypeOK, UpdateOffer, At, Established, DueInv, Fresh
<1>1. q.pc = "publish" /\ q.at = req[a].at
  BY <1>0 DEF Request
<1> HIDE DEF q
<1>2. AfterUpdate(a) = q \/ AfterUpdate(a) = Ended(a, "ok", 0, Null)
  BY DEF AfterUpdate, q
<1>3. /\ row' = AfterOffer(a) /\ now' = now
      /\ past'.overdue = past.overdue \cup OverduePly(row', now)
      /\ req'[a] = AfterUpdate(a) \/ req'[a] = Ended(a, "InternalError", 0, Null)
  BY WritesAt, WritesPast DEF UpdateOffer
<1>4. row'.result = Null
  BY <1>0, <1>3 DEF AfterOffer, Row
<1>5. \A b \in Actors \ {a} : req'[b] = req[b]
  BY OthersWait DEF Step
<1> QED
  BY <1>1, <1>2, <1>3, <1>4, <1>5, EndedBlank, DueWrite

\* The UPDATE of finishTimeout writes the result its call has brought.
LEMMA DueFinish ==
  ASSUME IInv, DueInv, NEW a \in Actors, FinishTimeout(a), MayFinish
  PROVE  DueInv'
<1> DEFINE q == [req[a] EXCEPT !.pc = "record"]
<1>0. /\ req[a] \in Request /\ row \in Row /\ Fresh(req[a]) /\ req[a].pc = "finish"
  BY DEF IInv, TypeOK, FinishTimeout, At, DueInv
<1>1. q.pc = "record" /\ q.at = req[a].at
  BY <1>0 DEF Request
<1>2. Writes(a, FinishedRow(a), q, 1)
  BY DEF FinishTimeout
<1> HIDE DEF q
<1>3. /\ row' = FinishedRow(a) /\ now' = now
      /\ past'.overdue = past.overdue \cup OverduePly(row', now)
      /\ req'[a] = q \/ req'[a] = Ended(a, "InternalError", 0, Null)
  BY <1>2, WritesAt, WritesPast DEF FinishTimeout
<1>4. row'.status = "finished" /\ row'.result = req[a].res
  BY <1>0, <1>3 DEF FinishedRow, Row
<1>5. \A b \in Actors \ {a} : req'[b] = req[b]
  BY OthersWait DEF Step
<1> QED
  BY <1>0, <1>1, <1>3, <1>4, <1>5, EndedBlank, DueWrite DEF Fresh

\* A step that leaves row, clock and history alone keeps DueInv where it
\* leaves the calls fresh.
LEMMA DueQuiet ==
  ASSUME DueInv, UNCHANGED <<row, now, past>>, \A a \in Actors : Fresh(req'[a])
  PROVE  DueInv'
BY DEF DueInv, TimeoutWasDue, Fresh, OverduePly, Expired, DeadlineFor

\* Every step keeps the reasons for timeouts.
LEMMA DueNext == IInv /\ DueInv /\ [Next]_vars => DueInv'
<1> SUFFICES ASSUME IInv, DueInv, [Next]_vars PROVE DueInv'
  OBVIOUS
<1>0. /\ req \in [Actors -> Request] /\ row \in Row /\ now \in Nat /\ past \in Past
      /\ \A b \in Actors : req[b].at \in Nat /\ Fresh(req[b])
  BY DEF IInv, TypeOK, DueInv, Request
<1>1. ASSUME NEW a \in Actors, Receive(a) \/ Step(a) \/ Abandon(a)
      PROVE  DueInv'
  <2>0. \A b \in Actors \ {a} : req'[b] = req[b]
    BY <1>1, OthersWait
  <2>1. CASE MovedOn(req[a], req'[a]) /\ UNCHANGED <<row, now, past>>
    <3>1. Fresh(req'[a])
      BY <2>1, MovedOnFresh
    <3> QED
      BY <1>0, <2>0, <2>1, <3>1, DueQuiet
  <2>2. CASE Publish(a)
    <3>1. req'[a].pc \in {"idle", "done", "record"} /\ req'[a].at \in {0, req[a].at}
      <4> DEFINE q == [req[a] EXCEPT !.pc = "record"]
      <4>1. q.pc = "record" /\ q.at = req[a].at
        BY <1>0 DEF Request
      <4> HIDE DEF q
      <4>2. req'[a] = q \/ req'[a] = Accepted(a) \/ req'[a] = Ended(a, "ok", 0, Null)
        BY <1>0, <2>2 DEF Publish, AfterMoveEvent, q
      <4> QED
        BY <4>1, <4>2, EndedBlank DEF Accepted
    <3>2. Fresh(req'[a])
      BY <1>0, <3>1, FreshElse DEF Fresh
    <3> QED
      BY <1>0, <2>0, <2>2, <3>2, DueQuiet DEF Publish
  <2>3. CASE Announce(a)
    <3>1. \E code, ply, mv : req'[a] = Ended(a, code, ply, mv)
      BY <1>0, <2>3 DEF Announce, Accepted
    <3>2. Fresh(req'[a])
      BY <1>0, <3>1, EndedBlank, FreshElse
    <3> QED
      BY <1>0, <2>0, <2>3, <3>2, DueQuiet DEF Announce
  <2>4. CASE CommitMove(a) /\ ~PlyTaken(req[a].ply)
    BY <2>4, DueCommit
  <2>5. CASE UpdateOffer(a)
    BY <2>5, DueOffer
  <2>6. CASE FinishTimeout(a) /\ MayFinish
    BY <2>6, DueFinish
  <2> QED
    BY <1>1, <2>1, <2>2, <2>3, <2>4, <2>5, <2>6, QuietSteps DEF Step
<1>2. CASE ListExpired
  <2>1. req' = [req EXCEPT ![Sweeper] = [Quiet EXCEPT
               !.pc = "load", !.op = "sweep", !.at = now, !.row = row]]
        /\ SweepDue /\ UNCHANGED <<row, now, past>>
    BY <1>2 DEF ListExpired
  <2>2. Fresh(req'[Sweeper])
    BY <1>0, <2>1 DEF Fresh, Quiet, SweepDue, DueInv
  <2> QED
    BY <1>0, <2>1, <2>2, DueQuiet
<1>3. CASE SetCIDIfUnset
  <2>1. /\ row'.status = row.status /\ row'.result = row.result /\ row'.ply = row.ply
        /\ row'.anchor = row.anchor /\ UNCHANGED <<now, req, past>>
    BY <1>0, <1>3 DEF SetCIDIfUnset, Row
  <2> QED
    BY <2>1 DEF DueInv, TimeoutWasDue, Fresh, OverduePly, Expired, DeadlineFor
<1>4. CASE Crash
  <2>1. \A b \in Actors : req'[b] = req[b] \/ req'[b] = Ended(b, "lost", 0, Null)
    BY <1>4 DEF Crash
  <2>2. \A b \in Actors : Fresh(req'[b])
    BY <1>0, <2>1, EndedBlank, FreshElse
  <2>3. past'.overdue = past.overdue /\ UNCHANGED <<row, now>>
    BY <1>0, <1>4 DEF Crash, Past
  <2> QED
    BY <2>2, <2>3 DEF DueInv, TimeoutWasDue, Fresh, OverduePly, Expired, DeadlineFor
<1>5. CASE Tick
  <2>1. /\ now' = now + 1 /\ past'.overdue = past.overdue \cup OverduePly(row, now')
        /\ UNCHANGED <<row, req>>
    BY <1>0, <1>5 DEF Tick, Past
  <2>2. \A b \in Actors : Fresh(req[b])'
    BY <1>0, <2>1, FreshStays DEF Fresh
  <2>3. TimeoutWasDue'
    BY <2>1 DEF DueInv, TimeoutWasDue
  <2> QED
    BY <2>1, <2>2, <2>3 DEF DueInv, OverduePly, Expired, DeadlineFor
<1>6. CASE UNCHANGED vars
  BY <1>6, <1>0, DueQuiet DEF vars
<1> QED
  BY <1>1, <1>2, <1>3, <1>4, <1>5, <1>6 DEF Next

\* Nobody loses on time whose clock did not run out with the row against him,
\* whatever overlaps and whatever a stale write brings back.
THEOREM TimeoutsWereDue == Spec => []TimeoutWasDue
<1>1. Init => DueInv
  BY DEF Init, DueInv, TimeoutWasDue, NewRow, Fresh, Quiet, OverduePly, Expired, DeadlineFor
<1>2. DueInv => TimeoutWasDue
  BY DEF DueInv
<1> QED
  BY <1>1, <1>2, InitOK, NextOK, DueNext, PTL DEF Spec

\* The step that undoes something is that of a stale whole-row write.
LEMMA UndoNext == IInv /\ DueInv /\ [Next]_vars => [UndoneByStaleWrite]_vars
<1> SUFFICES ASSUME IInv, DueInv, [Next]_vars PROVE UndoneByStaleWrite \/ UNCHANGED vars
  OBVIOUS
<1>0. /\ req \in [Actors -> Request] /\ row \in Row /\ moves \in Seq(Move)
      /\ Len(moves) \in Nat
  BY DEF IInv, TypeOK
<1>2. CASE \E a \in Actors : CommitMove(a) /\ ~PlyTaken(req[a].ply)
  <2>1. PICK a \in Actors : CommitMove(a) /\ ~PlyTaken(req[a].ply)
    BY <1>2
  <2>2. req[a].pc = "commit" /\ req[a].row \in Row /\ req[a].row.status = "active"
    BY <2>1 DEF CommitMove, At, IInv, Established, DueInv, Fresh
  <2>3. Acts(a)
    BY <2>1, <2>2, CommitAt DEF Acts, Over
  <2>4. row' = AfterMove(a)
    BY <2>1 DEF CommitMove, Writes
  <2>5. row'.ply = req[a].ply
    BY <2>2, <2>4 DEF AfterMove, Row
  <2>6. Len(moves') = req[a].ply
    <3>1. PICK mv \in Move : moves' = Append(moves, mv) /\ req[a].ply = Len(moves) + 1
      BY <2>1, CommitAppends
    <3> QED
      BY <1>0, <3>1
  <2> QED
    BY <2>2, <2>3, <2>5, <2>6 DEF UndoneByStaleWrite, At
<1>3. CASE \E a \in Actors : UpdateOffer(a)
  <2>1. PICK a \in Actors : UpdateOffer(a)
    BY <1>3
  <2>2. /\ At(a, "update") /\ req[a].row \in Row /\ req[a].row.status = "active"
        /\ RowFitsLog(req[a].row)
    <3>1. At(a, "update") /\ req[a].row \in Row /\ req[a].row.status = "active"
      BY <2>1 DEF UpdateOffer, At, IInv, Established, DueInv, Fresh
    <3> QED
      BY <3>1 DEF IInv, RowsFitLog
  <2>3. Acts(a) /\ moves' = moves
    BY <2>1, <2>2, OfferAt DEF Acts, Over, At
  <2>4. row' = AfterOffer(a)
    BY <2>1 DEF UpdateOffer, Writes
  <2>5. row'.ply = req[a].row.ply
    BY <2>2, <2>4 DEF AfterOffer, Row
  <2>6. req[a].row.ply <= Len(moves) /\ req[a].row.ply \in Nat
    BY <2>2 DEF RowFitsLog, Row
  <2> QED
    BY <1>0, <2>2, <2>3, <2>5, <2>6 DEF UndoneByStaleWrite, At
<1>4. CASE \E a \in Actors : FinishTimeout(a) /\ MayFinish
  <2>1. PICK a \in Actors : FinishTimeout(a) /\ MayFinish
    BY <1>4
  <2>2. row' = FinishedRow(a) /\ moves' = moves /\ row.status = "active"
    BY <2>1 DEF FinishTimeout, Writes, MayFinish
  <2>3. row'.ply = row.ply
    BY <1>0, <2>2 DEF FinishedRow, Row
  <2> QED
    BY <2>2, <2>3 DEF UndoneByStaleWrite
<1>5. CASE SetCIDIfUnset
  BY <1>0, <1>5 DEF SetCIDIfUnset, Row, UndoneByStaleWrite
<1>6. CASE ListExpired \/ Crash \/ Tick \/ UNCHANGED vars
  BY <1>6 DEF ListExpired, Crash, Tick, vars, UndoneByStaleWrite
<1>7. ASSUME NEW a \in Actors, Receive(a) \/ Step(a) \/ Abandon(a)
      PROVE  \/ UNCHANGED <<row, moves>>
             \/ CommitMove(a) /\ ~PlyTaken(req[a].ply)
             \/ UpdateOffer(a)
             \/ FinishTimeout(a) /\ MayFinish
  BY <1>7, QuietSteps DEF Step, Publish, Announce
<1>8. UNCHANGED <<row, moves>> => UndoneByStaleWrite
  BY DEF UndoneByStaleWrite
<1> QED
  BY <1>2, <1>3, <1>4, <1>5, <1>6, <1>7, <1>8 DEF Next

\* What is committed is undone by a whole-row write that read the row before,
\* and by nothing else; those that only end the game lose cleanly.
THEOREM StaleWritesUndo == Spec => OnlyStaleWritesUndo
<1>1. Init => DueInv
  BY DEF Init, DueInv, TimeoutWasDue, NewRow, Fresh, Quiet, OverduePly, Expired, DeadlineFor
<1>2. IInv /\ DueInv /\ [Next]_vars => [UndoneByStaleWrite]_vars
  BY UndoNext
<1> QED
  BY <1>1, <1>2, InitOK, NextOK, DueNext, PTL DEF Spec, OnlyStaleWritesUndo

-----------------------------------------------------------------------------
(* The ends that are announced, that are about to be, and that never will. *)

EndsIn(b)   == {i \in DOMAIN b : b[i].kind = "gameFinished"}
Tellers(rq) == {a \in Actors : Telling(rq[a])}

\* One if the condition holds, none if it does not.
One(c) == IF c THEN 1 ELSE 0

\* An event of another kind adds no end, that of an end adds one.
LEMMA EndsInAppend ==
  ASSUME NEW b \in Seq(Event), NEW e \in Event
  PROVE  /\ Cardinality(EndsIn(b)) \in Nat
         /\ Cardinality(EndsIn(Append(b, e))) =
              Cardinality(EndsIn(b)) + One(e.kind = "gameFinished")
<1>1. DOMAIN b = 1..Len(b) /\ Len(b) \in Nat
  OBVIOUS
<1>2. IsFiniteSet(EndsIn(b)) /\ Cardinality(EndsIn(b)) \in Nat
  <2>1. IsFiniteSet(1..Len(b))
    BY <1>1, FS_Interval
  <2>2. EndsIn(b) \in SUBSET (1..Len(b))
    BY <1>1 DEF EndsIn
  <2> QED
    BY <2>1, <2>2, FS_Subset, FS_CardinalityType
<1> DEFINE n == Len(b) + 1
<1>3. /\ DOMAIN Append(b, e) = 1..n /\ Append(b, e)[n] = e
      /\ \A i \in 1..Len(b) : Append(b, e)[i] = b[i]
  BY <1>1
<1>4. n \notin EndsIn(b)
  BY <1>1 DEF EndsIn
<1>5. CASE e.kind = "gameFinished"
  <2>1. EndsIn(Append(b, e)) = EndsIn(b) \cup {n}
    BY <1>1, <1>3, <1>5 DEF EndsIn
  <2> QED
    BY <1>2, <1>4, <1>5, <2>1, FS_AddElement DEF One
<1>6. CASE e.kind # "gameFinished"
  <2>1. EndsIn(Append(b, e)) = EndsIn(b)
    BY <1>1, <1>3, <1>6 DEF EndsIn
  <2> QED
    BY <1>2, <1>6, <2>1 DEF One
<1> QED
  BY <1>5, <1>6

\* Those who have an end to tell can be counted.
LEMMA TellersCount ==
  ASSUME NEW rq
  PROVE  IsFiniteSet(Tellers(rq)) /\ Cardinality(Tellers(rq)) \in Nat
<1>1. IsFiniteSet(Actors)
  BY FS_AddElement
<1>2. Tellers(rq) \in SUBSET Actors
  BY DEF Tellers
<1> QED
  BY <1>1, <1>2, FS_Subset, FS_CardinalityType

\* When one call goes on, their number changes by that call alone.
LEMMA TellersChange ==
  ASSUME NEW rq, NEW rp, NEW a \in Actors, \A b \in Actors \ {a} : rp[b] = rq[b]
  PROVE  Cardinality(Tellers(rp)) + One(Telling(rq[a])) =
           Cardinality(Tellers(rq)) + One(Telling(rp[a]))
<1> DEFINE rest == {b \in Actors \ {a} : Telling(rq[b])}
<1>1. /\ Tellers(rq) = IF Telling(rq[a]) THEN rest \cup {a} ELSE rest
      /\ Tellers(rp) = IF Telling(rp[a]) THEN rest \cup {a} ELSE rest
  BY DEF Tellers
<1>2. IsFiniteSet(rest) /\ Cardinality(rest) \in Nat /\ a \notin rest
  <2>1. rest \in SUBSET Tellers(rq)
    BY DEF Tellers
  <2> QED
    BY <2>1, TellersCount, FS_Subset, FS_CardinalityType
<1> HIDE DEF rest
<1>3. Cardinality(rest \cup {a}) = Cardinality(rest) + 1
  BY <1>2, FS_AddElement
<1> QED
  BY <1>1, <1>2, <1>3 DEF One

\* The sum behind the next lemma.
LEMMA Balance ==
  ASSUME NEW e \in Nat, NEW t \in Nat, NEW c \in Nat, NEW o \in Nat, NEW d \in Nat,
         NEW n \in Nat, NEW t1 \in Nat, NEW c1 \in Nat, NEW d1 \in Nat,
         n + c + d = e + t + c + c1 + o + d1, t1 + d = t + d1
  PROVE  n = e + o + t1 + c1
OBVIOUS

\* What the invariant needs of a step of one call: the ends it adds are told,
\* to be told by this call, or cut.
LEMMA TellStep ==
  ASSUME IInv, EveryEndIsTold, NEW a \in Actors, \A b \in Actors \ {a} : req'[b] = req[b],
         NEW out \in Nat, Cardinality(EndsIn(bus')) = Cardinality(EndsIn(bus)) + out,
         Cardinality(EndsIn(bus)) \in Nat,
         past'.ends + past.cut + One(Telling(req[a])) =
           past.ends + past'.cut + out + One(Telling(req'[a])),
         past'.ends \in Nat, past'.cut \in Nat
  PROVE  EveryEndIsTold'
<1>1. Cardinality(Tellers(req')) + One(Telling(req[a])) =
        Cardinality(Tellers(req)) + One(Telling(req'[a]))
  BY TellersChange
<1>2. Cardinality(Tellers(req)) \in Nat /\ Cardinality(Tellers(req')) \in Nat
  BY TellersCount
<1>3. past.ends = Cardinality(EndsIn(bus)) + Cardinality(Tellers(req)) + past.cut
  BY DEF EveryEndIsTold, EndsIn, Tellers
<1>4. One(Telling(req[a])) \in Nat /\ One(Telling(req'[a])) \in Nat
  BY DEF One
<1>5. past.ends \in Nat /\ past.cut \in Nat
  BY DEF IInv, TypeOK, Past
<1>6. past'.ends = Cardinality(EndsIn(bus')) + Cardinality(Tellers(req')) + past'.cut
  <2> DEFINE e == Cardinality(EndsIn(bus))
             t == Cardinality(Tellers(req))
             t1 == Cardinality(Tellers(req'))
             d == One(Telling(req[a]))
             d1 == One(Telling(req'[a]))
             n == past'.ends
             c == past.cut
             c1 == past'.cut
  <2>1. /\ e \in Nat /\ t \in Nat /\ t1 \in Nat /\ d \in Nat /\ d1 \in Nat
        /\ n \in Nat /\ c \in Nat /\ c1 \in Nat
        /\ t1 + d = t + d1
    BY <1>1, <1>2, <1>4, <1>5
  <2>2. n + c + d = e + t + c + c1 + out + d1
    BY <1>3
  <2>3. n = Cardinality(EndsIn(bus')) + t1 + c1 <=> n = e + out + t1 + c1
    OBVIOUS
  <2> HIDE DEF e, t, t1, d, d1, n, c, c1
  <2>4. n = e + out + t1 + c1
    BY <2>1, <2>2, Balance
  <2> QED
    BY <2>3, <2>4 DEF t1, n, c1
<1> QED
  BY <1>6 DEF EveryEndIsTold, EndsIn, Tellers

\* Every step tells the ends it makes, hands them on, or is cut off from them.
LEMMA TellNext == IInv /\ EveryEndIsTold /\ [Next]_vars => EveryEndIsTold'
<1> SUFFICES ASSUME IInv, EveryEndIsTold, [Next]_vars PROVE EveryEndIsTold'
  OBVIOUS
<1>0. /\ req \in [Actors -> Request] /\ bus \in Seq(Event) /\ past \in Past
      /\ \A b \in Actors : req[b] \in Request /\ Established(req[b])
  BY DEF IInv, TypeOK
<1>n. Cardinality(EndsIn(bus)) \in Nat /\ past.ends \in Nat /\ past.cut \in Nat
  <2>1. [kind |-> "move", ply |-> 0] \in Event
    BY DEF Event
  <2> QED
    BY <1>0, <2>1, EndsInAppend DEF Past
<1>1. ASSUME NEW a \in Actors, Receive(a) \/ Step(a) \/ Abandon(a)
      PROVE  EveryEndIsTold'
  <2>0. \A b \in Actors \ {a} : req'[b] = req[b]
    BY <1>1, OthersWait
  <2>1. CASE MovedOn(req[a], req'[a]) /\ UNCHANGED <<row, moves, now, bus, past>>
    <3>1. Telling(req'[a]) = Telling(req[a])
      BY <2>1 DEF MovedOn, Telling
    <3> QED
      BY <1>n, <2>0, <2>1, <3>1, TellStep
  <2>2. CASE Publish(a)
    <3>1. PICK e \in Event : bus' = Append(bus, e) /\ e.kind # "gameFinished"
      <4>1. CASE req[a].op = "submitMove" /\ bus' = Append(bus, [kind |-> "move", ply |-> req[a].ply])
        <5>1. [kind |-> "move", ply |-> req[a].ply] \in Event
          BY <1>0 DEF Event, Request
        <5> QED
          BY <4>1, <5>1
      <4>2. CASE /\ req[a].op = "offerDraw"
                 /\ bus' = Append(bus, [kind |-> "drawOffered", ply |-> req[a].row.ply])
        <5>1. req[a].row.ply \in Nat
          BY <1>0, <2>2, <4>2 DEF Publish, At, Established, Row
        <5>2. [kind |-> "drawOffered", ply |-> req[a].row.ply] \in Event
          BY <5>1 DEF Event
        <5> QED
          BY <4>2, <5>2
      <4> QED
        BY <2>2, <4>1, <4>2 DEF Publish
    <3>2. Telling(req'[a]) = Telling(req[a])
      <4> DEFINE q == [req[a] EXCEPT !.pc = "record"]
      <4>1. q.pc = "record"
        BY <1>0 DEF Request
      <4> HIDE DEF q
      <4>2. /\ req[a].pc = "publish"
            /\ \/ /\ req[a].op = "submitMove" /\ req[a].payload \in Mating /\ req'[a] = q
               \/ /\ req[a].op = "submitMove" /\ req[a].payload \notin Mating
                  /\ req'[a] = Accepted(a)
               \/ req[a].op = "offerDraw" /\ req'[a] = Ended(a, "ok", 0, Null)
        BY <1>0, <2>2 DEF Publish, At, AfterMoveEvent, q
      <4> QED
        BY <4>1, <4>2, EndedBlank DEF Telling, Accepted
    <3>3. Cardinality(EndsIn(bus')) = Cardinality(EndsIn(bus)) + 0 /\ past' = past
      BY <1>0, <1>n, <2>2, <3>1, EndsInAppend DEF Publish, One
    <3> QED
      BY <1>n, <2>0, <3>2, <3>3, TellStep
  <2>3. CASE Announce(a)
    <3>1. PICK e \in Event : bus' = Append(bus, e) /\ e.kind = "gameFinished"
      BY <1>0, <2>3 DEF Announce, Event, Request
    <3>2. Telling(req[a]) /\ ~Telling(req'[a])
      <4>1. \E code, ply, mv : req'[a] = Ended(a, code, ply, mv)
        BY <1>0, <2>3 DEF Announce, Accepted
      <4> QED
        BY <2>3, <4>1, EndedBlank DEF Announce, At, Telling
    <3>3. Cardinality(EndsIn(bus')) = Cardinality(EndsIn(bus)) + 1 /\ past' = past
      BY <1>0, <2>3, <3>1, EndsInAppend DEF Announce, One
    <3> QED
      BY <1>n, <2>0, <3>2, <3>3, TellStep DEF One
  <2>4. CASE CommitMove(a) /\ ~PlyTaken(req[a].ply)
    <3> DEFINE q == [req[a] EXCEPT !.pc = "publish", !.res = AfterMove(a).result,
                                   !.seen = req[a].ply]
               mate == req[a].payload \in Mating
    <3>1. /\ q.pc = "publish" /\ q.op = "submitMove" /\ q.payload = req[a].payload
          /\ ~Telling(req[a])
      BY <1>0, <2>4 DEF CommitMove, At, Established, Request, Telling
    <3>2. Writes(a, AfterMove(a), q, IF req[a].payload \in Mating THEN 1 ELSE 0)
      BY <2>4 DEF CommitMove
    <3>3. One(mate) = IF req[a].payload \in Mating THEN 1 ELSE 0
      BY DEF One
    <3> HIDE DEF q
    <3>4. Telling(q) <=> mate
      BY <3>1 DEF Telling
    <3> HIDE DEF mate
    <3>5. /\ past'.ends = past.ends + One(mate) /\ bus' = bus
          /\ \/ req'[a] = q /\ past'.cut = past.cut
             \/ ~Telling(req'[a]) /\ past'.cut = past.cut + One(mate)
      BY <2>4, <3>2, <3>3, WritesPast, EndedBlank DEF CommitMove
    <3>6. One(mate) \in Nat /\ One(Telling(q)) = One(mate) /\ One(Telling(req[a])) = 0
      BY <3>1, <3>4 DEF One
    <3>7. past'.ends + past.cut = past.ends + past'.cut + 0 + One(Telling(req'[a]))
      <4>1. CASE req'[a] = q /\ past'.cut = past.cut
        BY <1>n, <3>5, <3>6, <4>1
      <4>2. CASE ~Telling(req'[a]) /\ past'.cut = past.cut + One(mate)
        <5>1. One(Telling(req'[a])) = 0
          BY <4>2 DEF One
        <5> QED
          BY <1>n, <3>5, <3>6, <4>2, <5>1
      <4> QED
        BY <3>5, <4>1, <4>2
    <3>8. past'.ends \in Nat /\ past'.cut \in Nat
      BY <1>n, <3>5, <3>6
    <3> QED
      BY <1>n, <2>0, <3>5, <3>6, <3>7, <3>8, TellStep
  <2>5. CASE UpdateOffer(a)
    <3>1. Writes(a, AfterOffer(a), AfterUpdate(a), 0) /\ bus' = bus /\ ~Telling(req[a])
      BY <2>5 DEF UpdateOffer, At, Telling
    <3>2. ~Telling(AfterUpdate(a))
      <4> DEFINE q == [req[a] EXCEPT !.pc = "publish"]
      <4>1. q.pc = "publish" /\ q.op = req[a].op
        BY <1>0 DEF Request
      <4>2. \/ AfterUpdate(a) = q /\ req[a].op = "offerDraw"
            \/ AfterUpdate(a) = Ended(a, "ok", 0, Null)
        BY DEF AfterUpdate
      <4> HIDE DEF q
      <4> QED
        BY <4>1, <4>2, EndedBlank DEF Telling
    <3>3. /\ past'.ends = past.ends /\ past'.cut = past.cut /\ ~Telling(req'[a])
      BY <1>n, <3>1, <3>2, WritesPast, EndedBlank
    <3> QED
      BY <1>n, <2>0, <3>1, <3>3, TellStep DEF One
  <2>6. CASE FinishTimeout(a) /\ MayFinish
    <3> DEFINE q == [req[a] EXCEPT !.pc = "record"]
    <3>1. q.pc = "record" /\ Telling(q) /\ ~Telling(req[a])
      BY <1>0, <2>6 DEF FinishTimeout, At, Telling, Request
    <3>2. Writes(a, FinishedRow(a), q, 1) /\ bus' = bus
      BY <2>6 DEF FinishTimeout
    <3> HIDE DEF q
    <3>3. /\ past'.ends = past.ends + 1
          /\ \/ Telling(req'[a]) /\ past'.cut = past.cut
             \/ ~Telling(req'[a]) /\ past'.cut = past.cut + 1
      BY <3>1, <3>2, WritesPast, EndedBlank
    <3> QED
      BY <1>n, <2>0, <3>1, <3>2, <3>3, TellStep DEF One
  <2> QED
    BY <1>1, <2>1, <2>2, <2>3, <2>4, <2>5, <2>6, QuietSteps DEF Step
<1>2. CASE ListExpired
  <2>1. /\ req' = [req EXCEPT ![Sweeper] = [Quiet EXCEPT
               !.pc = "load", !.op = "sweep", !.at = now, !.row = row]]
        /\ req[Sweeper].pc = "idle" /\ UNCHANGED <<bus, past>>
    BY <1>2 DEF ListExpired, At
  <2>2. req'[Sweeper].pc = "load"
    BY <1>0, <2>1 DEF Quiet
  <2>3. ~Telling(req[Sweeper]) /\ ~Telling(req'[Sweeper])
    BY <2>1, <2>2 DEF Telling
  <2>4. \A b \in Actors \ {Sweeper} : req'[b] = req[b]
    BY <1>0, <2>1
  <2>5. Sweeper \in Actors /\ Cardinality(EndsIn(bus')) = Cardinality(EndsIn(bus)) + 0
    BY <1>n, <2>1
  <2> QED
    BY <1>n, <2>1, <2>3, <2>4, <2>5, TellStep DEF One
<1>3. CASE SetCIDIfUnset
  BY <1>3 DEF SetCIDIfUnset, EveryEndIsTold
<1>4. CASE Crash
  <2>1. \A b \in Actors : ~Telling(req'[b])
    <3>1. ASSUME NEW b \in Actors, b \in Busy PROVE ~Telling(req'[b])
      BY <1>4, <3>1, EndedBlank DEF Crash
    <3>2. ASSUME NEW b \in Actors, b \notin Busy PROVE ~Telling(req'[b])
      BY <1>4, <3>2 DEF Crash, Busy, InFlight, Telling
    <3> QED
      BY <3>1, <3>2
  <2>2. Tellers(req') = {} /\ Cardinality(Tellers(req')) = 0
    BY <2>1, FS_EmptySet DEF Tellers
  <2>3. /\ past'.ends = past.ends /\ past'.cut = past.cut + Cardinality(Tellers(req))
        /\ bus' = bus
    BY <1>0, <1>4 DEF Crash, Past, Tellers
  <2>4. past.ends = Cardinality(EndsIn(bus)) + Cardinality(Tellers(req)) + past.cut
    BY DEF EveryEndIsTold, EndsIn, Tellers
  <2>5. past'.ends = Cardinality(EndsIn(bus')) + Cardinality(Tellers(req')) + past'.cut
    BY <1>n, <2>2, <2>3, <2>4, TellersCount
  <2> QED
    BY <2>5 DEF EveryEndIsTold, EndsIn, Tellers
<1>5. CASE Tick
  <2>1. past'.ends = past.ends /\ past'.cut = past.cut /\ UNCHANGED <<bus, req>>
    BY <1>0, <1>5 DEF Tick, Past
  <2> QED
    BY <2>1 DEF EveryEndIsTold
<1>6. CASE UNCHANGED vars
  BY <1>6 DEF vars, EveryEndIsTold
<1> QED
  BY <1>1, <1>2, <1>3, <1>4, <1>5, <1>6 DEF Next

\* Every end is announced, once for each statement that made it, unless a
\* restart or a lost answer comes between the statement and the announcement.
THEOREM EndsAreTold == Spec => []EveryEndIsTold
<1>1. Init => EveryEndIsTold
  <2> SUFFICES ASSUME Init PROVE EveryEndIsTold
    OBVIOUS
  <2>1. Tellers(req) = {} /\ EndsIn(bus) = {}
    BY DEF Init, Quiet, Telling, Tellers, EndsIn
  <2>2. past.ends = 0 /\ past.cut = 0
    BY DEF Init
  <2>3. past.ends = Cardinality(EndsIn(bus)) + Cardinality(Tellers(req)) + past.cut
    BY <2>1, <2>2, FS_EmptySet
  <2> QED
    BY <2>3 DEF EveryEndIsTold, Tellers, EndsIn
<1> QED
  BY <1>1, InitOK, NextOK, TellNext, PTL DEF Spec

=============================================================================
