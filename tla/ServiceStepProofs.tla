-------------------------- MODULE ServiceStepProofs --------------------------
(***************************************************************************)
(* The steps of an invocation, from its admission to its end, those of      *)
(* _expire and _fail for everybody who calls them, and the steps of a       *)
(* handler of call events, from the delivery to the answer, keep ServiceInv.*)
(***************************************************************************)
EXTENDS ServiceLemmas
-----------------------------------------------------------------------------
(*                        After an _expire or a _fail                       *)

LEMMA AskAfterExpire ==
    ASSUME ServiceInv, NEW a \in Asks, proc[a].pc \in WorkPcs, NEW C \in SUBSET CallIds,
           NEW s \in Snapshot, NEW raised \in BOOLEAN,
           ~raised => rows[proc[a].req].outcome = s.outcome
    PROVE  /\ AfterExpire(a, C, s, raised) \in ProcStates
           /\ AfterExpire(a, C, s, raised).req = proc[a].req
           /\ AskWell(ask[a], AfterExpire(a, C, s, raised))
<1>1. /\ proc[a] \in ProcStates /\ AskBase(ask[a], proc[a]) /\ proc[a].frame # "late"
  BY AskFacts DEF AskBase
<1>2. ASSUME NEW result \in Results \cup {None}, NEW next \in {"done", "fail"},
             next = "done" /\ result \in Outcomes => rows[proc[a].req].outcome = result
      PROVE  /\ HangUpThen(proc[a], C, next, result) \in ProcStates
             /\ HangUpThen(proc[a], C, next, result).req = proc[a].req
             /\ AskWell(ask[a], HangUpThen(proc[a], C, next, result))
  <2>1. PICK q \in AskStates, x \in ProcStates : q = ask[a] /\ x = proc[a] /\ AskBase(q, x)
    BY <1>1, AskFacts
  <2>2. MayLeave(q, x, next, result)
    BY <1>2, <2>1 DEF MayLeave
  <2>3. /\ HangUpThen(x, C, next, result) \in ProcStates
        /\ HangUpThen(x, C, next, result).req = x.req
        /\ AskWell(q, HangUpThen(x, C, next, result))
    BY <2>1, <2>2, AskHangUpWell
  <2> QED
    BY <2>1, <2>3
<1>3. s.outcome \in Results \cup {None}
  BY Names DEF Snapshot
<1>4. \E result \in Results \cup {None}, next \in {"done", "fail"} :
        /\ AfterExpire(a, C, s, raised) = HangUpThen(proc[a], C, next, result)
        /\ next = "done" /\ result \in Outcomes => rows[proc[a].req].outcome = result
  <2>1. CASE proc[a].frame \in {"inner", "outer"}
    <3>1. AfterExpire(a, C, s, raised) = HangUpThen(proc[a], C, "done", IF raised THEN "error" ELSE s.outcome)
      BY <2>1 DEF AfterExpire
    <3> QED
      BY <1>3, <3>1, Names
  <2>2. CASE proc[a].frame = "timeout"
    <3>1. AfterExpire(a, C, s, raised) = HangUpThen(proc[a], C, "done", IF raised THEN "error" ELSE "ok")
      BY <2>2 DEF AfterExpire
    <3> QED
      BY <3>1, Names
  <2>3. CASE proc[a].frame \notin {"inner", "outer", "timeout"} /\ raised
    <3>1. AfterExpire(a, C, s, raised) = HangUpThen(proc[a], C, "fail", None)
      BY <2>3 DEF AfterExpire
    <3> QED
      BY <3>1, Names
  <2>4. CASE proc[a].frame \notin {"inner", "outer", "timeout"} /\ ~raised
    <3>1. AfterExpire(a, C, s, raised) = HangUpThen(proc[a], C, "done", "ok")
      BY <1>1, <2>4 DEF AfterExpire
    <3> QED
      BY <3>1, Names
  <2> QED
    BY <2>1, <2>2, <2>3, <2>4
<1> QED
  BY <1>2, <1>4

LEMMA HandlerAfterExpire ==
    ASSUME ServiceInv, NEW h \in Handlers, proc[h].pc # "idle", NEW C \in SUBSET CallIds,
           NEW s \in Snapshot, NEW raised \in BOOLEAN
    PROVE  /\ AfterExpire(h, C, s, raised) \in ProcStates
           /\ HandlerWell(event[h], AfterExpire(h, C, s, raised))
           /\ ~Prompting(AfterExpire(h, C, s, raised))
<1>1. proc[h] \in ProcStates /\ HandlerBase(event[h], proc[h]) /\ event[h].call \in CallIds
  BY HandlerFacts
<1>2. ASSUME NEW D \in SUBSET CallIds, NEW result \in Results \cup {None}, NEW next \in {"done", "fail"}
      PROVE  /\ HangUpThen(proc[h], D, next, result) \in ProcStates
             /\ HandlerWell(event[h], HangUpThen(proc[h], D, next, result))
             /\ ~Prompting(HangUpThen(proc[h], D, next, result))
  BY <1>1, HandlerHangUpWell
<1>3. s.outcome \in Results \cup {None}
  BY Names DEF Snapshot
<1>4. \E D \in SUBSET CallIds, result \in Results \cup {None}, next \in {"done", "fail"} :
        AfterExpire(h, C, s, raised) = HangUpThen(proc[h], D, next, result)
  <2>1. CASE proc[h].frame \in {"inner", "outer"}
    <3>1. AfterExpire(h, C, s, raised) = HangUpThen(proc[h], C, "done", IF raised THEN "error" ELSE s.outcome)
      BY <2>1 DEF AfterExpire
    <3> QED
      BY <1>3, <3>1, Names
  <2>2. CASE proc[h].frame = "timeout"
    <3>1. AfterExpire(h, C, s, raised) = HangUpThen(proc[h], C, "done", IF raised THEN "error" ELSE "ok")
      BY <2>2 DEF AfterExpire
    <3> QED
      BY <3>1, Names
  <2>3. CASE proc[h].frame \notin {"inner", "outer", "timeout"} /\ raised
    <3>1. AfterExpire(h, C, s, raised) = HangUpThen(proc[h], C, "fail", None)
      BY <2>3 DEF AfterExpire
    <3> QED
      BY <3>1, Names
  <2>4. CASE proc[h].frame \notin {"inner", "outer", "timeout"} /\ ~raised
    <3> DEFINE D == C \cup {event[h].call}
    <3>1. \/ AfterExpire(h, C, s, raised) = HangUpThen(proc[h], D, "done", "ok")
          \/ AfterExpire(h, C, s, raised) = HangUpThen(proc[h], C, "done", "ok")
      BY <2>4 DEF AfterExpire
    <3>2. D \in SUBSET CallIds
      BY <1>1
    <3> HIDE DEF D
    <3> QED
      BY <3>1, <3>2, Names
  <2> QED
    BY <2>1, <2>2, <2>3, <2>4
<1> QED
  BY <1>2, <1>4

LEMMA AskAfterFail ==
    ASSUME ServiceInv, NEW a \in Asks, proc[a].pc \in WorkPcs, NEW C \in SUBSET CallIds, NEW raised \in BOOLEAN
    PROVE  /\ AfterFail(a, C, raised) \in ProcStates
           /\ AfterFail(a, C, raised).req = proc[a].req
           /\ AskWell(ask[a], AfterFail(a, C, raised))
<1>1. proc[a] \in ProcStates /\ AskBase(ask[a], proc[a]) /\ proc[a].req \in Requests
  BY AskFacts
<1>2. ASSUME NEW D \in SUBSET CallIds, NEW result \in {"ok", "error", None}, NEW next \in {"done", "fail", "poll"}
      PROVE  /\ HangUpThen(proc[a], D, next, result) \in ProcStates
             /\ HangUpThen(proc[a], D, next, result).req = proc[a].req
             /\ AskWell(ask[a], HangUpThen(proc[a], D, next, result))
  <2>1. result \in Results \cup {None} /\ result \notin Outcomes
    BY Names
  <2>2. PICK q \in AskStates, x \in ProcStates : q = ask[a] /\ x = proc[a] /\ AskBase(q, x)
    BY <1>1, AskFacts
  <2>3. MayLeave(q, x, next, result)
    BY <2>1 DEF MayLeave
  <2>4. /\ HangUpThen(x, D, next, result) \in ProcStates
        /\ HangUpThen(x, D, next, result).req = x.req
        /\ AskWell(q, HangUpThen(x, D, next, result))
    BY <2>1, <2>2, <2>3, AskHangUpWell
  <2> QED
    BY <2>2, <2>4
<1>3. C \cup KnownCalls(proc[a].req) \in SUBSET CallIds
  <2>1. KnownCalls(proc[a].req) \subseteq CallIds
    BY CallsToEndAreCalls, Names DEF ServiceInv, Typed, KnownCalls, Creators, AskStates
  <2> QED
    BY <2>1
<1>4. \E D \in SUBSET CallIds, result \in {"ok", "error", None}, next \in {"done", "fail", "poll"} :
        AfterFail(a, C, raised) = HangUpThen(proc[a], D, next, result)
  <2> DEFINE E == C \cup KnownCalls(proc[a].req)
  <2>1. CASE proc[a].frame = "start"
    <3>1. AfterFail(a, C, raised) = IF raised THEN HangUpThen(proc[a], C, "done", "error")
                                    ELSE HangUpThen(proc[a], C, "poll", None)
      BY <2>1 DEF AfterFail
    <3> QED
      BY <3>1
  <2>2. CASE proc[a].frame = "unattached"
    <3>1. AfterFail(a, C, raised) = IF raised THEN HangUpThen(proc[a], C, "fail", None)
                                    ELSE HangUpThen(proc[a], E, "poll", None)
      BY <2>2 DEF AfterFail
    <3> HIDE DEF E
    <3>2. E \in SUBSET CallIds
      BY <1>3 DEF E
    <3> QED
      BY <3>1, <3>2
  <2>3. CASE proc[a].frame = "creator"
    <3>1. AfterFail(a, C, raised) = HangUpThen(proc[a], C, "done", "error")
      BY <2>3 DEF AfterFail
    <3> QED
      BY <3>1
  <2>4. CASE proc[a].frame = "event" /\ raised
    <3>1. AfterFail(a, C, raised) = HangUpThen(proc[a], C, "fail", None)
      BY <2>4 DEF AfterFail
    <3> QED
      BY <3>1
  <2>5. CASE proc[a].frame \notin {"start", "unattached", "creator"} /\ ~(proc[a].frame = "event" /\ raised)
    <3>1. AfterFail(a, C, raised) = HangUpThen(proc[a], C, "done", IF raised THEN "error" ELSE "ok")
      BY <2>5 DEF AfterFail
    <3> QED
      BY <3>1
  <2> QED
    BY <2>1, <2>2, <2>3, <2>4, <2>5
<1> QED
  BY <1>2, <1>4

LEMMA HandlerAfterFail ==
    ASSUME ServiceInv, NEW h \in Handlers, proc[h].pc # "idle", NEW C \in SUBSET CallIds, NEW raised \in BOOLEAN
    PROVE  /\ AfterFail(h, C, raised) \in ProcStates
           /\ HandlerWell(event[h], AfterFail(h, C, raised))
           /\ ~Prompting(AfterFail(h, C, raised))
<1>1. proc[h] \in ProcStates /\ HandlerBase(event[h], proc[h]) /\ proc[h].frame \notin {"start", "unattached"}
  BY HandlerFacts DEF HandlerBase
<1>2. \E result \in {"ok", "error", None}, next \in {"done", "fail"} :
        AfterFail(h, C, raised) = HangUpThen(proc[h], C, next, result)
  <2>1. CASE proc[h].frame = "creator"
    <3>1. AfterFail(h, C, raised) = HangUpThen(proc[h], C, "done", "error")
      BY <2>1 DEF AfterFail
    <3> QED
      BY <3>1
  <2>2. CASE proc[h].frame = "event" /\ raised
    <3>1. AfterFail(h, C, raised) = HangUpThen(proc[h], C, "fail", None)
      BY <2>2 DEF AfterFail
    <3> QED
      BY <3>1
  <2>3. CASE proc[h].frame # "creator" /\ ~(proc[h].frame = "event" /\ raised)
    <3>1. AfterFail(h, C, raised) = HangUpThen(proc[h], C, "done", IF raised THEN "error" ELSE "ok")
      BY <1>1, <2>3 DEF AfterFail
    <3> QED
      BY <3>1
  <2> QED
    BY <2>1, <2>2, <2>3
<1> QED
  BY <1>1, <1>2, HandlerHangUpWell, Names
-----------------------------------------------------------------------------
(*                       The statements, and their reasons                  *)

LEMMA StatementMoves ==
    ASSUME ServiceInv, StoreNext, now' = now, NEW q \in Requests, NEW row, rows' = [rows EXCEPT ![q] = row],
           rows[q].status = "pending" /\ row.status = "responded" => HumanAnswer(q)',
           rows[q].status = "pending" /\ row.outcome = "cancelled" => CancelledRightly(q)',
           row.callId \in {None, rows[q].callId} \/ calls[row.callId].req = q
    PROVE  TableMoves
<1> SUFFICES ASSUME NEW r \in Requests
             PROVE  /\ rows[r].status = "pending" /\ rows'[r].status = "responded" => HumanAnswer(r)'
                    /\ rows[r].status = "pending" /\ rows'[r].outcome = "cancelled" => CancelledRightly(r)'
                    /\ rows'[r].callId \in {None, rows[r].callId} \/ calls[rows'[r].callId].req = r
  BY DEF TableMoves, VerdictsWell
<1>1. GoodRow(rows[r]) /\ rows \in [Requests -> Row]
  BY RowFacts DEF ServiceInv
<1>2. CASE r = q
  BY <1>1, <1>2
<1>3. CASE r # q
  <2>1. rows'[r] = rows[r]
    BY <1>1, <1>3
  <2>2. rows[r].status = "pending" => rows[r].outcome # "cancelled"
    BY <1>1, NoneIsNobody DEF GoodRow, Lifecycle, Outcomes, ExpiryOutcomes
  <2> QED
    BY <2>1, <2>2
<1> QED
  BY <1>2, <1>3

LEMMA ExpiryRecorded ==
    ASSUME ServiceInv, NEW q \in Requests, NEW o \in ExpiryOutcomes, CompleteIfPending(q, o, None),
           now' = now, o = "cancelled" => CancelledRightly(q)'
    PROVE  TableMoves
<1>1. StoreNext
  BY DEF StoreNext, WriteRow, Limits, Outcomes
<1> DEFINE row == IF Completable(q, o, None) THEN Settled(rows[q], StatusOf(o), o) ELSE rows[q]
<1>2. rows[q] \in Row /\ GoodRow(rows[q]) /\ rows \in [Requests -> Row]
  BY RowFacts DEF ServiceInv
<1>3. /\ row.callId = rows[q].callId
      /\ row.status # "pending" /\ rows[q].status = "pending" => row.status = "expired" /\ row.outcome = o
      /\ row.status = "pending" => row.outcome = None
  BY <1>2 DEF Settled, StatusOf, Row, HumanOutcomes, ExpiryOutcomes, GoodRow, Lifecycle
<1>4. rows' = [rows EXCEPT ![q] = row]
  BY DEF CompleteIfPending
<1>5. None # "cancelled"
  BY NoneIsNobody DEF Outcomes, ExpiryOutcomes
<1> HIDE DEF row
<1> QED
  BY <1>1, <1>3, <1>4, <1>5, StatementMoves

LEMMA FailureRecorded ==
    ASSUME ServiceInv, NEW q \in Requests, CompleteErrorIfPending(q), now' = now
    PROVE  TableMoves
<1>1. StoreNext
  BY DEF StoreNext, WriteRow
<1> DEFINE row == IF IsPending(q) THEN Settled(rows[q], "failed", None) ELSE rows[q]
<1>2. rows[q] \in Row /\ rows \in [Requests -> Row]
  BY RowFacts DEF ServiceInv
<1>3. /\ row.callId = rows[q].callId
      /\ rows[q].status = "pending" => row.status = "failed" /\ row.outcome = None
  BY <1>2 DEF Settled, Row, IsPending
<1>4. rows' = [rows EXCEPT ![q] = row]
  BY DEF CompleteErrorIfPending
<1>5. None # "cancelled"
  BY NoneIsNobody DEF Outcomes, ExpiryOutcomes
<1> HIDE DEF row
<1> QED
  BY <1>1, <1>3, <1>4, <1>5, StatementMoves

LEMMA CallAttached ==
    ASSUME ServiceInv, NEW q \in Requests, NEW c \in CallIds, calls[c].req = q, AttachCallId(q, c), now' = now
    PROVE  TableMoves
<1>1. StoreNext
  BY DEF StoreNext, WriteRow
<1> DEFINE row == [rows[q] EXCEPT !.callId = IF Attachable(q, c) THEN c ELSE @]
<1>2. rows[q] \in Row /\ GoodRow(rows[q]) /\ rows \in [Requests -> Row]
  BY RowFacts DEF ServiceInv
<1>3. /\ row.callId \in {c, rows[q].callId} /\ row.status = rows[q].status /\ row.outcome = rows[q].outcome
      /\ rows[q].status = "pending" => row.outcome # "cancelled"
  BY <1>2, NoneIsNobody DEF Row, GoodRow, Lifecycle, Outcomes, ExpiryOutcomes
<1>4. rows' = [rows EXCEPT ![q] = row]
  BY DEF AttachCallId
<1> HIDE DEF row
<1> QED
  BY <1>1, <1>3, <1>4, StatementMoves

LEMMA RecognitionClaimed ==
    ASSUME ServiceInv, NEW q \in Requests, ClaimRecognition(q), now' = now
    PROVE  TableMoves
<1>1. StoreNext
  BY DEF StoreNext, WriteRow
<1> DEFINE row == [rows[q] EXCEPT !.recognitionStarted = @ \/ Claimable(q)]
<1>2. rows[q] \in Row /\ GoodRow(rows[q]) /\ rows \in [Requests -> Row]
  BY RowFacts DEF ServiceInv
<1>3. /\ row.callId = rows[q].callId /\ row.status = rows[q].status /\ row.outcome = rows[q].outcome
      /\ rows[q].status = "pending" => row.outcome # "cancelled"
  BY <1>2, NoneIsNobody DEF Row, GoodRow, Lifecycle, Outcomes, ExpiryOutcomes
<1>4. rows' = [rows EXCEPT ![q] = row]
  BY DEF ClaimRecognition
<1> HIDE DEF row
<1> QED
  BY <1>1, <1>3, <1>4, StatementMoves

(* The result an event reports, on the attached call of its request. *)
LEMMA ResultRecorded ==
    ASSUME ServiceInv, NEW q \in Requests, NEW o \in Outcomes, CompleteIfPending(q, o, Cutoff(q)), now' = now,
           rows[q].status \notin {"absent", "purged"},
           [type |-> o, call |-> rows[q].callId] \in sent, calls[rows[q].callId].req = q,
           sent' = sent, calls' = calls
    PROVE  TableMoves
<1>1. StoreNext
  <2>1. rows[q].key # None
    BY NoneIsNobody DEF ServiceInv, TimesWell, RowTimes
  <2>2. Cutoff(q) \in Limits(q)
    BY <2>1 DEF Limits, RowsOfKey
  <2> QED
    BY <2>2 DEF StoreNext, WriteRow
<1> DEFINE row == IF Completable(q, o, Cutoff(q)) THEN Settled(rows[q], StatusOf(o), o) ELSE rows[q]
<1>2. /\ rows[q] \in Row /\ GoodRow(rows[q]) /\ rows \in [Requests -> Row] /\ now \in Nat
      /\ Cutoff(q) # None
  <2>1. StoreInv /\ TimesWell
    BY DEF ServiceInv
  <2>2. Cutoff(q) \in Nat
    BY <2>1, LoadedFacts
  <2> QED
    BY <2>1, <2>2, RowFacts, NoneIsNobody
<1>3. /\ row.callId = rows[q].callId /\ row.expiresAt = rows[q].expiresAt
      /\ rows[q].status = "pending" => \/ row = rows[q] /\ row.outcome = None
                                       \/ row.outcome = o /\ row.completedAt = now
      /\ rows[q].status = "pending" /\ row.status = "responded" => o \in HumanOutcomes /\ now < Cutoff(q)
  BY <1>2 DEF Settled, StatusOf, Row, Completable, GoodRow, Lifecycle
<1>4. rows' = [rows EXCEPT ![q] = row]
  BY DEF CompleteIfPending
<1>5. None # "cancelled"
  BY NoneIsNobody DEF Outcomes, ExpiryOutcomes
<1> HIDE DEF row
<1>6. rows'[q] = row
  BY <1>2, <1>4
<1>7. rows[q].status = "pending" /\ row.status = "responded" => HumanAnswer(q)'
  BY <1>3, <1>6 DEF HumanAnswer, Cutoff
<1>8. rows[q].status = "pending" /\ row.outcome = "cancelled" => CancelledRightly(q)'
  BY <1>3, <1>5, <1>6 DEF CancelledRightly
<1> QED
  BY <1>1, <1>3, <1>4, <1>7, <1>8, StatementMoves

LEMMA RowInserted ==
    ASSUME ServiceInv, NEW a \in Asks, NEW q \in Requests, proc[a].pc = "insert", Inserted(a, q)
    PROVE  /\ TableMoves
           /\ rows'[q].status = "pending" /\ rows'[q].key = ask[a].key /\ rows'[q].payload = ask[a].payload
           /\ rows[q].status = "absent" /\ rows'[q].callId = None
<1>1. /\ ask[a].key \in Keys /\ ask[a].payload \in Payloads /\ ask[a].started \in Nat /\ now \in Nat
      /\ ask[a].started <= now /\ now <= ask[a].started + WorkCutoff
  BY AskFacts DEF AskWell, Asked
<1>2. /\ InsertPending(q, ask[a].key, ask[a].payload, AskExpiry(a)) /\ now' = now
      /\ AskExpiry(a) \in (now + Deadline - WorkCutoff) .. (now + Deadline)
  BY <1>1, TimesAssumption DEF Inserted, AskExpiry
<1>3. StoreNext
  BY <1>1, <1>2 DEF StoreNext, WriteRow
<1> DEFINE row == [NoRow("pending") EXCEPT !.key = ask[a].key, !.payload = ask[a].payload, !.expiresAt = AskExpiry(a)]
<1>4. /\ row.status = "pending" /\ row.key = ask[a].key /\ row.payload = ask[a].payload /\ row.callId = None
      /\ rows' = [rows EXCEPT ![q] = row] /\ rows[q].status = "absent"
  BY <1>2 DEF InsertPending, NoRow
<1>5. rows \in [Requests -> Row]
  BY RowFacts DEF ServiceInv
<1> HIDE DEF row
<1>6. rows'[q] = row
  BY <1>4, <1>5
<1> QED
  BY <1>2, <1>3, <1>4, <1>6, StatementMoves

LEMMA RowsExpired ==
    ASSUME ServiceInv, ExpireStaleCalls \/ PurgeTerminal, now' = now
    PROVE  TableMoves
<1>1. StoreNext
  BY DEF StoreNext, WriteRow
<1> SUFFICES ASSUME NEW r \in Requests
             PROVE  /\ rows[r].status = "pending" => rows'[r].status # "responded" /\ rows'[r].outcome # "cancelled"
                    /\ rows'[r].callId \in {None, rows[r].callId}
  BY <1>1 DEF TableMoves, VerdictsWell
<1>2. GoodRow(rows[r]) /\ rows[r] \in Row /\ None # "cancelled"
  BY RowFacts, NoneIsNobody DEF ServiceInv, Outcomes, ExpiryOutcomes
<1>3. CASE ExpireStaleCalls
  <2>1. rows'[r] = IF r \in Stale THEN Settled(rows[r], "expired", "deadline_exceeded") ELSE rows[r]
    BY <1>3 DEF ExpireStaleCalls
  <2> QED
    BY <1>2, <2>1 DEF Settled, Row, GoodRow, Lifecycle
<1>4. CASE PurgeTerminal
  <2>1. rows'[r] = IF r \in Purgeable THEN NoRow("purged") ELSE rows[r]
    BY <1>4 DEF PurgeTerminal
  <2> QED
    BY <1>2, <2>1 DEF NoRow, GoodRow, Lifecycle
<1> QED
  BY <1>3, <1>4
-----------------------------------------------------------------------------
(*                         The steps of _expire and _fail                   *)

(* A coroutine in its cleanup is of an invocation or of a handler. *)
LEMMA CleanupFacts ==
    ASSUME ServiceInv, NEW p \in Processes, proc[p].pc \in CleanupPcs
    PROVE  /\ proc[p] \in ProcStates /\ proc[p].req \in Requests /\ proc[p].stored \in Snapshot
           /\ p \in Asks => proc[p].pc \in WorkPcs /\ AskBase(ask[p], proc[p])
           /\ p \in Handlers => proc[p].pc # "idle" /\ HandlerBase(event[p], proc[p])
           /\ p \in Asks \/ p \in Handlers
<1>1. proc[p].pc \in WorkPcs /\ proc[p].pc # "idle" /\ (p \in Asks \/ p \in Handlers)
  BY DEF WorkPcs, CleanupPcs, Processes
<1>2. proc[p] \in ProcStates /\ proc[p].stored \in Snapshot
  BY DEF ServiceInv, Typed, ProcStates
<1> QED
  BY <1>1, <1>2, AskFacts, HandlerFacts

(* The step of a coroutine with the statement it sends, or none. *)
LEMMA CleanupSteps ==
    ASSUME ServiceInv, NEW p \in Processes, NEW y \in ProcStates, Resume(p, y), TableMoves, AcsMoves,
           p \in Asks => AskWell(ask[p], y) /\ y.req = proc[p].req,
           p \in Handlers => HandlerWell(event[p], y) /\ ~Prompting(y),
           Fault \/ UNCHANGED budgetVars, UNCHANGED <<ask, event, sweep>>
    PROVE  ServiceInv'
<1>1. Budget
  BY BudgetKept DEF ServiceInv
<1> QED
  BY <1>1, CoroutineSteps

LEMMA ExpireWriteSteps ==
    ASSUME ServiceInv, NEW p \in Processes, ExpireWrite(p)
    PROVE  ServiceInv'
<1> DEFINE x == proc[p]
           y == Goto(x, "reread")
<1>1. /\ proc[p].pc = "expire" /\ CompleteIfPending(x.req, x.outcome, None) /\ Resume(p, y)
      /\ now' = now /\ UNCHANGED <<ask, event, sweep>> /\ UNCHANGED acsVars /\ UNCHANGED budgetVars
  BY DEF ExpireWrite
<1>2. /\ x \in ProcStates /\ x.req \in Requests
      /\ p \in Asks => AskBase(ask[p], x) /\ MayExpire(ask[p], x)
      /\ p \in Handlers => HandlerBase(event[p], x) /\ x.outcome \in ExpiryOutcomes \ {"cancelled"}
      /\ p \in Asks \/ p \in Handlers
  <2>1. x.pc \in CleanupPcs
    BY <1>1 DEF CleanupPcs
  <2>2. /\ p \in Asks => MayExpire(ask[p], x)
        /\ p \in Handlers => x.outcome \in ExpiryOutcomes \ {"cancelled"}
    BY <1>1, AskFacts, HandlerFacts DEF AskWell, HandlerWell
  <2> QED
    BY <2>1, <2>2, CleanupFacts
<1>3. y \in ProcStates /\ y.req = x.req
  BY <1>2, PcIsProc, Names DEF Goto, ProcStates
<1>4. PICK r \in Requests, o \in ExpiryOutcomes : r = x.req /\ o = x.outcome
  BY <1>2 DEF MayExpire
<1>5. o = "cancelled" => CancelledRightly(r)'
  <2> SUFFICES ASSUME o = "cancelled" PROVE CancelledRightly(r)'
    OBVIOUS
  <2>1. p \in Asks /\ ask[p].role = "creator" /\ ask[p].cancelled
    BY <1>2, <1>4 DEF MayExpire
  <2>2. proc'[p] = y
    BY <1>1 DEF Resume, ServiceInv, Typed
  <2>3. proc'[p].req = x.req /\ ask' = ask
    BY <1>1, <1>3, <2>2
  <2> QED
    BY <1>4, <2>1, <2>3 DEF CancelledRightly
<1>6. TableMoves /\ AcsMoves
  <2>1. TableMoves
    BY <1>1, <1>4, <1>5, ExpiryRecorded
  <2> QED
    BY <1>1, <2>1, AcsUnchanged
<1>7. /\ p \in Asks => AskWell(ask[p], y)
      /\ p \in Handlers => HandlerWell(event[p], y) /\ ~Prompting(y)
  BY <1>2, AskGotoWell, HandlerGotoWell
<1> HIDE DEF y
<1> QED
  BY <1>1, <1>3, <1>6, <1>7, CleanupSteps

LEMMA ExpireRaisesWell ==
    ASSUME ServiceInv, NEW p \in Processes, proc[p].pc \in {"expire", "reread"}, ExpireRaises(p)
    PROVE  \E y \in ProcStates : /\ Resume(p, y)
                                 /\ p \in Asks => AskWell(ask[p], y) /\ y.req = proc[p].req
                                 /\ p \in Handlers => HandlerWell(event[p], y) /\ ~Prompting(y)
<1> DEFINE x == proc[p]
           C == CallsToEnd(x.req, x.stored)
           y == AfterExpire(p, C, x.stored, TRUE)
<1>1. x.pc \in CleanupPcs
  BY DEF CleanupPcs
<1>2. /\ x.stored \in Snapshot /\ x.req \in Requests
      /\ p \in Asks => x.pc \in WorkPcs
      /\ p \in Handlers => x.pc # "idle"
      /\ p \in Asks \/ p \in Handlers
  BY <1>1, CleanupFacts
<1>3. C \in SUBSET CallIds
  BY <1>2, RowOf
<1>4. Resume(p, y)
  BY DEF ExpireRaises
<1> HIDE DEF C
<1> HIDE DEF x
<1>5. p \in Asks => y \in ProcStates /\ AskWell(ask[p], y) /\ y.req = x.req
  BY <1>2, <1>3, AskAfterExpire DEF x
<1>6. p \in Handlers => y \in ProcStates /\ HandlerWell(event[p], y) /\ ~Prompting(y)
  BY <1>2, <1>3, HandlerAfterExpire DEF x
<1> QED
  BY <1>2, <1>4, <1>5, <1>6 DEF x

LEMMA ExpireRereadSteps ==
    ASSUME ServiceInv, NEW p \in Processes, ExpireReread(p)
    PROVE  ServiceInv'
<1> DEFINE x == proc[p]
           s == Loaded(x.req)
           C == IF s.status = "responded" THEN {} ELSE CallsToEnd(x.req, s)
           y == AfterExpire(p, C, s, s.status = "failed")
<1>1. /\ proc[p].pc = "reread"
      /\ UNCHANGED <<ask, event, sweep>> /\ UNCHANGED storeVars /\ UNCHANGED acsVars /\ UNCHANGED budgetVars
  BY DEF ExpireReread
<1>2. TableMoves /\ AcsMoves
  BY <1>1, StoreUnchanged, AcsUnchanged
<1>3. CASE Missing(s)
  <2>1. ExpireRaises(p)
    BY <1>3 DEF ExpireReread
  <2>2. PICK z \in ProcStates : /\ Resume(p, z)
                                /\ p \in Asks => AskWell(ask[p], z) /\ z.req = proc[p].req
                                /\ p \in Handlers => HandlerWell(event[p], z) /\ ~Prompting(z)
    BY <1>1, <2>1, ExpireRaisesWell
  <2> QED
    BY <1>1, <1>2, <2>2, CleanupSteps
<1>4. CASE ~Missing(s)
  <2>1. x.pc \in CleanupPcs
    BY <1>1 DEF CleanupPcs
  <2>2. /\ x.req \in Requests
        /\ p \in Asks => x.pc \in WorkPcs
        /\ p \in Handlers => x.pc # "idle"
        /\ p \in Asks \/ p \in Handlers
    BY <2>1, CleanupFacts
  <2>3. s \in Snapshot /\ C \in SUBSET CallIds /\ rows[x.req].outcome = s.outcome
    BY <2>2, RowOf
  <2>4. Resume(p, y)
    BY <1>4 DEF ExpireReread
  <2>5. (s.status = "failed") \in BOOLEAN
    OBVIOUS
  <2> HIDE DEF C
  <2> HIDE DEF s
  <2> HIDE DEF x
  <2>6. p \in Asks => y \in ProcStates /\ AskWell(ask[p], y) /\ y.req = x.req
    BY <2>2, <2>3, <2>5, AskAfterExpire DEF x
  <2>7. p \in Handlers => y \in ProcStates /\ HandlerWell(event[p], y) /\ ~Prompting(y)
    BY <2>2, <2>3, <2>5, HandlerAfterExpire DEF x
  <2> HIDE DEF y
  <2> QED
    BY <1>1, <1>2, <2>2, <2>4, <2>6, <2>7, CleanupSteps DEF x
<1> QED
  BY <1>3, <1>4

LEMMA ExpireFaultSteps ==
    ASSUME ServiceInv, NEW p \in Processes, ExpireFault(p)
    PROVE  ServiceInv'
<1>1. /\ proc[p].pc \in {"expire", "reread"} /\ ExpireRaises(p) /\ Fault
      /\ UNCHANGED <<ask, event, sweep>> /\ UNCHANGED storeVars /\ UNCHANGED acsVars
  BY DEF ExpireFault
<1>2. TableMoves /\ AcsMoves
  BY <1>1, StoreUnchanged, AcsUnchanged
<1>3. PICK y \in ProcStates : /\ Resume(p, y)
                              /\ p \in Asks => AskWell(ask[p], y) /\ y.req = proc[p].req
                              /\ p \in Handlers => HandlerWell(event[p], y) /\ ~Prompting(y)
  BY <1>1, ExpireRaisesWell
<1> QED
  BY <1>1, <1>2, <1>3, CleanupSteps

(* The record after a _fail, whatever calls are to end. *)
LEMMA AfterFailWell ==
    ASSUME ServiceInv, NEW p \in Processes, proc[p].pc \in CleanupPcs,
           NEW C \in SUBSET CallIds, NEW raised \in BOOLEAN
    PROVE  /\ AfterFail(p, C, raised) \in ProcStates
           /\ p \in Asks => AskWell(ask[p], AfterFail(p, C, raised)) /\ AfterFail(p, C, raised).req = proc[p].req
           /\ p \in Handlers => HandlerWell(event[p], AfterFail(p, C, raised)) /\ ~Prompting(AfterFail(p, C, raised))
  BY CleanupFacts, AskAfterFail, HandlerAfterFail

LEMMA FailWriteSteps ==
    ASSUME ServiceInv, NEW p \in Processes, FailWrite(p)
    PROVE  ServiceInv'
<1> DEFINE x == proc[p]
           y == Goto(x, "refetch")
           z == AfterFail(p, {}, FALSE)
<1>1. /\ proc[p].pc = "fail" /\ CompleteErrorIfPending(x.req)
      /\ Resume(p, IF IsPending(x.req) THEN y ELSE z)
      /\ now' = now /\ UNCHANGED <<ask, event, sweep>> /\ UNCHANGED acsVars /\ UNCHANGED budgetVars
  BY DEF FailWrite
<1>2. x.pc \in CleanupPcs
  BY <1>1 DEF CleanupPcs
<1>3. /\ x \in ProcStates /\ x.req \in Requests
      /\ p \in Asks => AskBase(ask[p], x)
      /\ p \in Handlers => HandlerBase(event[p], x)
  BY <1>2, CleanupFacts
<1>4. TableMoves /\ AcsMoves
  BY <1>1, <1>3, FailureRecorded, AcsUnchanged
<1>5. /\ y \in ProcStates
      /\ p \in Asks => AskWell(ask[p], y) /\ y.req = x.req
      /\ p \in Handlers => HandlerWell(event[p], y) /\ ~Prompting(y)
  BY <1>3, AskGotoWell, HandlerGotoWell, PcIsProc, Names DEF Goto
<1>6. /\ z \in ProcStates
      /\ p \in Asks => AskWell(ask[p], z) /\ z.req = x.req
      /\ p \in Handlers => HandlerWell(event[p], z) /\ ~Prompting(z)
  BY <1>2, AfterFailWell
<1> HIDE DEF y, z
<1> QED
  BY <1>1, <1>4, <1>5, <1>6, CleanupSteps

LEMMA FailRefetchSteps ==
    ASSUME ServiceInv, NEW p \in Processes, FailRefetch(p) \/ FailFault(p)
    PROVE  ServiceInv'
<1> DEFINE x == proc[p]
           s == Loaded(x.req)
           y == AfterFail(p, CallsToEnd(x.req, x.stored), TRUE)
           z == AfterFail(p, CallsToEnd(x.req, s), FALSE)
<1>1. /\ proc[p].pc \in {"fail", "refetch"}
      /\ Fault \/ UNCHANGED budgetVars
      /\ UNCHANGED <<ask, event, sweep>> /\ UNCHANGED storeVars /\ UNCHANGED acsVars
      /\ Resume(p, y) \/ Resume(p, z)
  BY DEF FailRefetch, FailFault, FailRaises
<1>2. TableMoves /\ AcsMoves
  BY <1>1, StoreUnchanged, AcsUnchanged
<1>3. x.pc \in CleanupPcs
  BY <1>1 DEF CleanupPcs
<1>4. x.stored \in Snapshot /\ x.req \in Requests
  BY <1>3, CleanupFacts
<1>5. CallsToEnd(x.req, x.stored) \in SUBSET CallIds /\ CallsToEnd(x.req, s) \in SUBSET CallIds
  BY <1>4, RowOf
<1>6. /\ y \in ProcStates
      /\ p \in Asks => AskWell(ask[p], y) /\ y.req = x.req
      /\ p \in Handlers => HandlerWell(event[p], y) /\ ~Prompting(y)
  BY <1>3, <1>5, AfterFailWell
<1>7. /\ z \in ProcStates
      /\ p \in Asks => AskWell(ask[p], z) /\ z.req = x.req
      /\ p \in Handlers => HandlerWell(event[p], z) /\ ~Prompting(z)
  BY <1>3, <1>5, AfterFailWell
<1> HIDE DEF y, z
<1> QED
  BY <1>1, <1>2, <1>6, <1>7, CleanupSteps

LEMMA HangUpSteps ==
    ASSUME ServiceInv, NEW p \in Processes, NEW c \in CallIds, HangUp(p, c) \/ HangUpFault(p, c)
    PROVE  ServiceInv'
<1> DEFINE x == proc[p]
           y == HungUp(x, c)
<1>1. /\ x.pc = "hang_up" /\ Resume(p, y)
      /\ EndCall(c) \/ UNCHANGED acsVars
      /\ UNCHANGED <<ask, event, sweep>> /\ UNCHANGED storeVars
      /\ Fault \/ UNCHANGED budgetVars
  BY DEF HangUp, HangUpFault
<1>2. TableMoves /\ AcsMoves
  BY <1>1, StoreUnchanged, AcsUnchanged, EndCallMoves
<1>3. x \in ProcStates /\ (p \in Asks \/ p \in Handlers)
  BY DEF ServiceInv, Typed, Processes
<1>4. /\ p \in Asks => AskWell(ask[p], x)
      /\ p \in Handlers => HandlerWell(event[p], x)
  BY AskFacts, HandlerFacts
<1>5. /\ y \in ProcStates
      /\ p \in Asks => AskWell(ask[p], y) /\ y.req = x.req
      /\ p \in Handlers => HandlerWell(event[p], y) /\ ~Prompting(y)
  BY <1>1, <1>3, <1>4, AskHungUpWell, HandlerHungUpWell
<1> HIDE DEF y
<1> QED
  BY <1>1, <1>2, <1>5, CleanupSteps

LEMMA CleanupKeeps ==
    ASSUME ServiceInv, NEW p \in Processes, CleanupStep(p) \/ CleanupFault(p)
    PROVE  ServiceInv'
  BY ExpireWriteSteps, ExpireRereadSteps, ExpireFaultSteps, FailWriteSteps, FailRefetchSteps, HangUpSteps
  DEF CleanupStep, CleanupFault
-----------------------------------------------------------------------------
(*                     The steps of an invocation alone                     *)

(* An invocation without a row ends without an outcome. *)
LEMMA AskEndsWell ==
    ASSUME NEW q, NEW x \in ProcStates, Asked(q), x.req = None,
           NEW result \in {"rate_limited", "conflict", "aborted", "error"}
    PROVE  /\ Finish(x, result) \in ProcStates /\ Finish(x, result).req = x.req
           /\ AskWell(q, Finish(x, result))
<1>1. /\ Finish(x, result).pc = "done" /\ Finish(x, result).req = None
      /\ Finish(x, result).result = result
  BY DEF Finish, IdleProc
<1>2. result \in Results \cup {None} /\ result \notin Outcomes /\ "done" \notin WorkPcs
  BY Names
<1>3. Finish(x, result) \in ProcStates
  BY <1>2, FinishIsProc
<1> HIDE DEF Finish
<1> QED
  BY <1>1, <1>2, <1>3 DEF AskWell

LEMMA AdmitConflictSteps ==
    ASSUME ServiceInv, NEW a \in Asks, AdmitConflict(a)
    PROVE  ServiceInv'
<1> DEFINE x == proc[a]
           y == Goto(x, "lookup")
<1>1. /\ x.pc = "insert" /\ Resume(a, y)
      /\ UNCHANGED <<storeVars, ask, event, sweep, acsVars>> /\ UNCHANGED budgetVars
  BY DEF AdmitConflict
<1>2. x \in ProcStates /\ AskWell(ask[a], x)
  BY AskFacts
<1>3. y \in ProcStates /\ y = [x EXCEPT !.pc = "lookup"]
  BY <1>2, PcIsProc, Names DEF Goto
<1>4. y.pc = "lookup" /\ y.req = x.req /\ y.frame = x.frame
  BY <1>2, <1>3 DEF ProcStates
<1> HIDE DEF y
<1>5. AskWell(ask[a], y)
  BY <1>1, <1>2, <1>4 DEF AskWell, WorkPcs, AskPcs, CleanupPcs
<1> QED
  BY <1>1, <1>3, <1>4, <1>5, AskSilent

LEMMA AdmissionEndsSteps ==
    ASSUME ServiceInv, NEW a \in Asks, AdmitRefused(a) \/ AdmissionAborted(a) \/ AdmissionFault(a)
    PROVE  ServiceInv'
<1>1. PICK result \in {"rate_limited", "conflict", "aborted", "error"} :
        /\ proc[a].pc \in {"insert", "lookup"} /\ Resume(a, Finish(proc[a], result))
        /\ UNCHANGED <<storeVars, ask, event, sweep, acsVars>>
        /\ Fault \/ UNCHANGED budgetVars
  BY DEF AdmitRefused, AdmissionAborted, AdmissionFault
<1>2. proc[a] \in ProcStates /\ Asked(ask[a]) /\ proc[a].req = None
  BY <1>1, AskFacts DEF AskWell
<1> QED
  BY <1>1, <1>2, AskEndsWell, AskSilent

LEMMA AdmitReplayedSteps ==
    ASSUME ServiceInv, NEW a \in Asks, NEW r \in Requests, AdmitReplayed(a, r)
    PROVE  ServiceInv'
<1> DEFINE x == [proc[a] EXCEPT !.req = r]
           o == Verdict(Loaded(r))
           y == Finish(x, o)
<1>1. /\ proc[a].pc = "lookup" /\ Resume(a, y)
      /\ UNCHANGED <<storeVars, ask, event, sweep, acsVars>> /\ UNCHANGED budgetVars
      /\ rows[r].key = ask[a].key /\ rows[r].payload = ask[a].payload /\ ~IsPending(r)
  BY DEF AdmitReplayed, RowsOfKey
<1>2. proc[a] \in ProcStates /\ Asked(ask[a]) /\ ask[a].role = None
  BY <1>1, AskFacts DEF AskWell
<1>3. x \in ProcStates /\ x.req = r
  BY <1>2 DEF ProcStates
<1>4. /\ o \in Results \cup {None}
      /\ o \in Outcomes => OnRecord(ask[a], r, o)
      /\ rows[r].status # "absent"
  <2>1. /\ Loaded(r).outcome = rows[r].outcome /\ Loaded(r) \in Snapshot
        /\ rows[r].outcome \in Outcomes \cup {None}
    BY RowOf
  <2>2. rows[r].status # "absent"
    <3>1. rows[r].status = "absent" => rows[r] = NoRow("absent")
      BY RowFacts DEF ServiceInv
    <3>2. rows[r].key # None
      BY <1>1, <1>2, NoneIsNobody DEF Asked
    <3> QED
      BY <3>1, <3>2 DEF NoRow
  <2>3. o = "error" \/ o = rows[r].outcome
    BY <2>1 DEF Verdict
  <2> HIDE DEF o
  <2> QED
    BY <1>1, <2>1, <2>2, <2>3, Names DEF OnRecord
<1>5. y.pc = "done" /\ y.req = r /\ y.result = o
  BY <1>3 DEF Finish, IdleProc
<1> HIDE DEF x, o
<1>6. y \in ProcStates
  BY <1>3, <1>4, FinishIsProc
<1> HIDE DEF y
<1>7. AskWell(ask[a], y)
  BY <1>2, <1>4, <1>5, Names DEF AskWell
<1>8. ask[a].role # "creator"
  BY <1>2, NoneIsNoName DEF Roles
<1> QED
  BY <1>1, <1>6, <1>7, <1>8, AskSilent

LEMMA VerifySteps ==
    ASSUME ServiceInv, NEW a \in Asks, Verify(a)
    PROVE  ServiceInv'
<1> DEFINE x == proc[a]
           y == Goto(x, "create_call")
<1>1. /\ x.pc = "verify"
      /\ UNCHANGED <<storeVars, ask, event, sweep, acsVars>> /\ UNCHANGED budgetVars
      /\ Resume(a, Finish(x, "error")) \/ Resume(a, y) \/ Resume(a, Goto(x, "poll"))
  BY DEF Verify
<1>2. x \in ProcStates /\ AskWell(ask[a], x) /\ AskBase(ask[a], x)
  BY <1>1, AskFacts DEF WorkPcs, AskPcs
<1>3. /\ Finish(x, "error") \in ProcStates /\ Finish(x, "error").req = x.req
      /\ AskWell(ask[a], Finish(x, "error"))
  BY <1>2, AskFinishWell, Names
<1>4. /\ Goto(x, "poll") \in ProcStates /\ Goto(x, "poll").req = x.req
      /\ AskWell(ask[a], Goto(x, "poll"))
  BY <1>2, AskGotoWell
<1>5. y \in ProcStates /\ y = [x EXCEPT !.pc = "create_call"]
  BY <1>2, PcIsProc, Names DEF Goto
<1>6. y.pc = "create_call" /\ y.req = x.req /\ y.frame = x.frame
  BY <1>2, <1>5 DEF ProcStates
<1> HIDE DEF y
<1>7. AskWell(ask[a], y)
  BY <1>1, <1>2, <1>6 DEF AskWell, AskBase, WorkPcs, AskPcs, CleanupPcs
<1> QED
  BY <1>1, <1>3, <1>4, <1>5, <1>6, <1>7, AskSilent

LEMMA ConfirmSteps ==
    ASSUME ServiceInv, NEW a \in Asks, Confirm(a)
    PROVE  ServiceInv'
<1> DEFINE x == proc[a]
           C == {ask[a].callId}
           z == [x EXCEPT !.frame = "start"]
           y == HangUpThen(z, C, "poll", None)
<1>1. /\ x.pc \in {"confirm", "unattached"}
      /\ UNCHANGED <<storeVars, ask, event, sweep, acsVars>> /\ UNCHANGED budgetVars
      /\ \/ \E frame \in {"start", "unattached"} : Resume(a, StartFail(x, frame))
         \/ Resume(a, y) \/ Resume(a, Goto(x, "poll"))
  BY DEF Confirm
<1>2. x \in ProcStates /\ AskBase(ask[a], x) /\ ask[a].callId \in CallIds
  BY <1>1, AskFacts DEF AskWell, WorkPcs, AskPcs
<1>3. \A frame \in {"start", "unattached"} :
        /\ StartFail(x, frame) \in ProcStates /\ StartFail(x, frame).req = x.req
        /\ AskWell(ask[a], StartFail(x, frame))
  BY <1>2, AskFailWell DEF Frames
<1>4. /\ Goto(x, "poll") \in ProcStates /\ Goto(x, "poll").req = x.req
      /\ AskWell(ask[a], Goto(x, "poll"))
  BY <1>2, AskGotoWell
<1>5. y \in ProcStates /\ y.req = x.req /\ AskWell(ask[a], y)
  <2>1. C \in SUBSET CallIds /\ None \notin Outcomes
    BY <1>2, Names
  <2>2. "poll" \in {"done", "fail", "poll", "expire"} /\ None \in Results \cup {None}
    OBVIOUS
  <2>3. z \in ProcStates /\ z.req = x.req /\ z.frame = "start"
    BY <1>2 DEF ProcStates, Frames
  <2> HIDE DEF C, z
  <2>4. AskBase(ask[a], z)
    BY <1>2, <2>3 DEF AskBase
  <2> QED
    BY <2>1, <2>2, <2>3, <2>4, AskHangUpWell DEF MayLeave
<1> HIDE DEF y
<1> QED
  BY <1>1, <1>3, <1>4, <1>5, AskSilent

(* Poll ends with what the table says, or goes on to record an expiry. *)
LEMMA PollSteps ==
    ASSUME ServiceInv, NEW a \in Asks, Poll(a)
    PROVE  ServiceInv'
<1> DEFINE x == proc[a]
           s == Loaded(x.req)
<1>1. /\ x.pc = "poll"
      /\ UNCHANGED <<storeVars, ask, event, sweep, acsVars>> /\ UNCHANGED budgetVars
  BY DEF Poll
<1>2. /\ x \in ProcStates /\ AskBase(ask[a], x) /\ x.req \in Requests
      /\ rows[x.req].status \notin {"absent", "purged"}
  BY <1>1, AskFacts DEF WorkPcs, AskPcs
<1>3. /\ s.outcome = rows[x.req].outcome /\ s.status = rows[x.req].status
      /\ s.status \in {"absent", "purged", "pending"} \cup TerminalStatuses
      /\ rows[x.req].outcome \in Outcomes \cup {None}
  BY <1>2, RowOf
<1>4. \/ \E result \in {"error", "aborted", s.outcome} : Resume(a, Finish(x, result))
      \/ ask[a].cancelled /\ ask[a].role = "creator" /\ Resume(a, StartExpire(x, "cancelled", "inner"))
      \/ Resume(a, StartExpire(x, "deadline_exceeded", "inner"))
  BY <1>2, <1>3 DEF Poll, Missing, Verdict, TerminalStatuses
<1>5. CASE \E result \in {"error", "aborted", s.outcome} : Resume(a, Finish(x, result))
  <2>1. PICK result \in {"error", "aborted", s.outcome} : Resume(a, Finish(x, result))
    BY <1>5
  <2>2. result \in Results \cup {None} /\ (result \in Outcomes => rows[x.req].outcome = result)
    BY <1>3, Names
  <2> QED
    BY <1>1, <1>2, <2>1, <2>2, AskFinishWell, AskSilent
<1>6. CASE ask[a].cancelled /\ ask[a].role = "creator" /\ Resume(a, StartExpire(x, "cancelled", "inner"))
  BY <1>1, <1>2, <1>6, AskExpireWell, AskSilent DEF Frames, ExpiryOutcomes
<1>7. CASE Resume(a, StartExpire(x, "deadline_exceeded", "inner"))
  BY <1>1, <1>2, <1>7, AskExpireWell, AskSilent DEF Frames, ExpiryOutcomes
<1> QED
  BY <1>4, <1>5, <1>6, <1>7

LEMMA WorkFaultSteps ==
    ASSUME ServiceInv, NEW a \in Asks, WorkFault(a)
    PROVE  ServiceInv'
<1> DEFINE x == proc[a]
<1>1. /\ x.pc \in {"attach", "confirm", "unattached", "verify", "poll"} /\ Fault
      /\ UNCHANGED <<storeVars, ask, event, sweep, acsVars>>
      /\ \/ \E frame \in {"start", "creator"} : Resume(a, StartFail(x, frame))
         \/ Resume(a, Finish(x, "error"))
  BY DEF WorkFault
<1>2. x \in ProcStates /\ AskBase(ask[a], x)
  BY <1>1, AskFacts DEF WorkPcs, AskPcs
<1>3. \A frame \in {"start", "creator"} :
        /\ StartFail(x, frame) \in ProcStates /\ StartFail(x, frame).req = x.req
        /\ AskWell(ask[a], StartFail(x, frame))
  BY <1>2, AskFailWell DEF Frames
<1>4. /\ Finish(x, "error") \in ProcStates /\ Finish(x, "error").req = x.req
      /\ AskWell(ask[a], Finish(x, "error"))
  BY <1>2, AskFinishWell, Names
<1> QED
  BY <1>1, <1>3, <1>4, AskSilent

(* Where a coroutine is once it hangs up, or has nothing to hang up. *)
LEMMA HangUpPc ==
    ASSUME NEW x \in ProcStates, NEW C \in SUBSET CallIds,
           NEW next \in {"done", "fail", "poll", "expire"}, NEW result \in Results \cup {None}
    PROVE  HangUpThen(x, C, next, result).pc \in {"hang_up", "done", "fail", "poll", "expire"}
<1> DEFINE y == [x EXCEPT !.targets = C, !.next = next, !.result = result]
<1>1. y \in ProcStates /\ y.next = next
  <2>1. next \in CleanupPcs \cup {"poll", "done", None}
    BY Names
  <2>2. y \in ProcStates
    BY <2>1, TargetsIsProc
  <2> QED
    BY <2>2 DEF ProcStates
<1>2. HangUpThen(x, C, next, result) = IF C = {} THEN Leave(y) ELSE Goto(y, "hang_up")
  BY DEF HangUpThen
<1> HIDE DEF y
<1>3. Goto(y, "hang_up").pc = "hang_up"
  BY <1>1 DEF Goto, ProcStates
<1>4. Leave(y).pc = next
  BY <1>1 DEF Leave, Finish, IdleProc, ProcStates
<1> QED
  BY <1>2, <1>3, <1>4

(* The record of an interrupted invocation. *)
LEMMA InterruptedWell ==
    ASSUME ServiceInv, NEW a \in Asks, proc[a].pc \in WorkPcs, WorkOver(a)
    PROVE  /\ Interrupted(a) \in ProcStates /\ Interrupted(a).req = proc[a].req
           /\ AskWell(ask[a], Interrupted(a))
           /\ Interrupted(a).pc \notin {"verify", "create_call"}
<1> DEFINE o == IF ask[a].cancelled THEN "cancelled" ELSE "deadline_exceeded"
           x == [proc[a] EXCEPT !.frame = "outer", !.next = None, !.targets = {}, !.outcome = o]
           C == IF proc[a].pc \in {"expire", "reread"} THEN CallsToEnd(x.req, x.stored) ELSE {}
<1>1. /\ proc[a] \in ProcStates /\ AskBase(ask[a], proc[a]) /\ proc[a].req \in Requests
      /\ ask[a] \in AskStates
  BY AskFacts
<1>2. /\ x.req = proc[a].req /\ x.frame = "outer" /\ x.outcome = o /\ x.stored = proc[a].stored
      /\ x.stored \in Snapshot
  BY <1>1 DEF ProcStates
<1>3. x \in ProcStates
  <2> DEFINE y == [proc[a] EXCEPT !.targets = {}, !.next = None, !.result = proc[a].result]
  <2>1. y \in ProcStates
    BY <1>1, TargetsIsProc, Names DEF ProcStates
  <2>2. x = [y EXCEPT !.pc = proc[a].pc, !.outcome = o, !.frame = "outer"]
    BY <1>1 DEF ProcStates
  <2>3. o \in Outcomes \cup {None} /\ "outer" \in Frames \cup {None}
    BY Names DEF ExpiryOutcomes
  <2>4. proc[a].pc \in {"idle", "done"} \cup AskPcs \cup HandlerPcs \cup CleanupPcs
    BY <1>1 DEF ProcStates
  <2> HIDE DEF y, x, o
  <2>5. [y EXCEPT !.pc = proc[a].pc, !.outcome = o, !.frame = "outer"] \in ProcStates
    BY <2>1, <2>3, <2>4, ExpireIsProc
  <2> QED
    BY <2>2, <2>5
<1>4. C \in SUBSET CallIds
  BY <1>1, <1>2, RowOf
<1>5. Interrupted(a) = IF ask[a].cancelled /\ ask[a].role = "joiner"
                       THEN HangUpThen(x, C, "done", "aborted") ELSE HangUpThen(x, C, "expire", None)
  BY DEF Interrupted
<1>6. o \in ExpiryOutcomes /\ (o = "cancelled" => ask[a].cancelled)
  BY DEF ExpiryOutcomes
<1> HIDE DEF x, o, C
<1>7. AskBase(ask[a], x)
  BY <1>1, <1>2 DEF AskBase
<1>8. CASE ask[a].cancelled /\ ask[a].role = "joiner"
  <2>1. "aborted" \in Results \cup {None} /\ "aborted" \notin Outcomes
    BY Names
  <2> QED
    <3> DEFINE y == HangUpThen(x, C, "done", "aborted")
    <3>1. y \in ProcStates /\ y.req = x.req /\ AskWell(ask[a], y)
      BY <1>3, <1>4, <1>7, <2>1, AskHangUpWell DEF MayLeave
    <3>2. y.pc \in {"hang_up", "done", "fail", "poll", "expire"}
      BY <1>3, <1>4, <2>1, HangUpPc
    <3>3. Interrupted(a) = y
      BY <1>5, <1>8
    <3> HIDE DEF y
    <3> QED
      BY <1>2, <3>1, <3>2, <3>3
<1>9. CASE ~(ask[a].cancelled /\ ask[a].role = "joiner")
  <2>1. MayExpire(ask[a], x)
    BY <1>1, <1>2, <1>6, <1>9 DEF MayExpire, AskBase, Roles
  <2> QED
    <3> DEFINE y == HangUpThen(x, C, "expire", None)
    <3>1. "expire" \in {"done", "fail", "poll", "expire"} /\ None \in Results \cup {None} /\ None \notin Outcomes
      BY Names
    <3>2. y \in ProcStates /\ y.req = x.req /\ AskWell(ask[a], y)
      BY <1>3, <1>4, <1>7, <2>1, <3>1, AskHangUpWell DEF MayLeave
    <3>3. y.pc \in {"hang_up", "done", "fail", "poll", "expire"}
      BY <1>3, <1>4, HangUpPc
    <3> HIDE DEF y
    <3>4. Interrupted(a) = y
      BY <1>5, <1>9 DEF y
    <3> QED
      BY <1>2, <3>2, <3>3, <3>4
<1> QED
  BY <1>8, <1>9

LEMMA InterruptSteps ==
    ASSUME ServiceInv, NEW a \in Asks, Interrupt(a)
    PROVE  ServiceInv'
<1>1. /\ proc[a].pc \in WorkPcs /\ WorkOver(a) /\ Resume(a, Interrupted(a))
      /\ UNCHANGED <<storeVars, ask, event, sweep, acsVars>> /\ UNCHANGED budgetVars
  BY DEF Interrupt, InWork, WorkPcs, AskPcs
<1> QED
  BY <1>1, InterruptedWell, AskSilent

(* Neither way to end an invocation at its deadline is an answer. *)
LEMMA CutWell ==
    ASSUME ServiceInv, NEW a \in Asks, DeadlineAbort(a), proc[a].pc \in WorkPcs, NEW C \in {{}, CallsAtDeadline(a)}
    PROVE  LET y == HangUpThen([proc[a] EXCEPT !.frame = "cut"], C, "done", "error")
           IN  y \in ProcStates /\ y.req = proc[a].req /\ AskWell(ask[a], y)
<1> DEFINE x == [proc[a] EXCEPT !.frame = "cut"]
<1>1. proc[a] \in ProcStates /\ AskBase(ask[a], proc[a]) /\ proc[a].req \in Requests
  BY AskFacts DEF AskWell
<1>2. x \in ProcStates /\ x.req = proc[a].req /\ x.frame = "cut"
  BY <1>1 DEF ProcStates, Frames
<1>3. proc[a].stored \in Snapshot
  BY <1>1 DEF ProcStates
<1>4. C \in SUBSET CallIds
  <2>1. ask \in [Asks -> AskStates]
    BY DEF ServiceInv, Typed
  <2>2. /\ CallsToEnd(proc[a].req, proc[a].stored) \subseteq CallIds
        /\ KnownCalls(proc[a].req) \subseteq CallIds
    BY <1>3, <2>1, CallsToEndAreCalls
  <2> QED
    BY <2>2 DEF CallsAtDeadline
<1> HIDE DEF x
<1>5. AskBase(ask[a], x)
  BY <1>1, <1>2 DEF AskBase
<1>6. MayLeave(ask[a], x, "done", "error")
  BY Names DEF MayLeave
<1> DEFINE y == HangUpThen(x, C, "done", "error")
<1>8. y \in ProcStates /\ y.req = x.req /\ AskWell(ask[a], y)
  BY <1>2, <1>4, <1>5, <1>6, AskHangUpWell
<1> HIDE DEF y
<1>9. y \in ProcStates /\ y.req = proc[a].req /\ AskWell(ask[a], y)
  BY <1>2, <1>8
<1> QED
  BY <1>9 DEF x, y

LEMMA DeadlineAbortSteps ==
    ASSUME ServiceInv, NEW a \in Asks, DeadlineAbort(a)
    PROVE  ServiceInv'
<1>1. Fault /\ UNCHANGED <<storeVars, ask, event, sweep, acsVars>>
  BY DEF DeadlineAbort
<1>2. proc[a] \in ProcStates /\ AskWell(ask[a], proc[a])
  BY AskFacts
<1>3. CASE proc[a].pc \in {"insert", "lookup"}
  <2> DEFINE x == [proc[a] EXCEPT !.frame = "cut"]
  <2>1. Asked(ask[a]) /\ proc[a].req = None /\ ask[a].role = None
    BY <1>2, <1>3 DEF AskWell
  <2>2. CallsAtDeadline(a) = {}
    BY <1>3, <2>1, NoneIsNoName DEF CallsAtDeadline, Roles
  <2>3. Resume(a, HangUpThen(x, {}, "done", "error"))
    BY <2>2 DEF DeadlineAbort
  <2>4. HangUpThen(x, {}, "done", "error") = Finish(proc[a], "error")
    BY <1>2 DEF HangUpThen, Leave, Finish, ProcStates
  <2> QED
    BY <1>1, <1>2, <1>3, <2>1, <2>3, <2>4, AskEndsWell, AskSilent
<1>4. CASE proc[a].pc \in WorkPcs
  <2>1. PICK C \in {{}, CallsAtDeadline(a)} :
          Resume(a, HangUpThen([proc[a] EXCEPT !.frame = "cut"], C, "done", "error"))
    BY DEF DeadlineAbort
  <2> QED
    BY <1>1, <1>4, <2>1, CutWell, AskSilent
<1>5. proc[a].pc \notin {"idle", "done"}
  BY DEF DeadlineAbort, Running
<1> QED
  BY <1>2, <1>3, <1>4, <1>5 DEF AskWell
-----------------------------------------------------------------------------
(*              The steps that change who is who, and place calls           *)

(* What is left to show of a step that takes no time. *)
LEMMA Assembled ==
    ASSUME ServiceInv, TableMoves, Typed', CallsStay, sent \subseteq sent',
           AsksWell', HandlersWell', OneCreator', OneClaimant', SentWell', OneCallPerRequest', PromptedOnce',
           \A c \in CallIds : CallWell(calls'[c]), CreatorsStay
    PROVE  ServiceInv'
<1>1. StoreInv' /\ RowsMove
  BY StepOK, StoreMoves DEF ServiceInv, TableMoves
<1>2. TimesWell'
  BY <1>1, TimesStay DEF ServiceInv, TableMoves
<1>3. Moving
  BY <1>1 DEF Moving, TableMoves
<1>4. CallsWell' /\ AttachedWell'
  BY <1>3, CallsWellStay, AttachedStays DEF ServiceInv, TableMoves, VerdictsWell
<1>5. AnswerIsHuman' /\ CancelledByCreator'
  BY <1>3, HumanStays, CancelledStays DEF ServiceInv, TableMoves, VerdictsWell
<1> QED
  BY <1>1, <1>2, <1>4, <1>5 DEF ServiceInv

(* The step of an invocation that also changes its arguments. *)
LEMMA AskChanges ==
    ASSUME ServiceInv, NEW a \in Asks, NEW q \in AskStates, NEW y \in ProcStates,
           ask' = [ask EXCEPT ![a] = q], Resume(a, y), AskWell(q, y),
           q.role = "creator" <=> ask[a].role = "creator",
           ask[a].role = "creator" => y.req = proc[a].req /\ (ask[a].cancelled => q.cancelled),
           UNCHANGED <<storeVars, event, sweep, acsVars, budgetVars>>
    PROVE  ServiceInv'
<1>1. TableMoves /\ AcsMoves /\ Budget
  BY BudgetKept, StoreUnchanged, AcsUnchanged DEF ServiceInv
<1>2. /\ a \in Processes /\ proc \in [Processes -> ProcStates] /\ ask \in [Asks -> AskStates]
      /\ event' = event /\ sweep' = sweep /\ proc' = [proc EXCEPT ![a] = y]
  BY AskFacts DEF ServiceInv, Typed, Resume
<1>3. proc' \in [Processes -> ProcStates] /\ ask' \in [Asks -> AskStates]
  BY <1>2
<1>4. Typed'
  BY <1>1, <1>2, <1>3 DEF ServiceInv, Typed, AcsMoves, Budget
<1>5. /\ ask'[a] = q /\ proc'[a] = y
      /\ \A b \in Asks : b # a => ask'[b] = ask[b] /\ proc'[b] = proc[b]
      /\ \A h \in Handlers : proc'[h] = proc[h]
  BY <1>2, ProcessesAssumption DEF Processes
<1>6. \A b \in Asks : AskWell(ask'[b], proc'[b])
  <2> SUFFICES ASSUME NEW b \in Asks PROVE AskWell(ask'[b], proc'[b])
    OBVIOUS
  <2> QED
    BY <1>5, AskFacts
<1>7. \A h \in Handlers : HandlerWell(event'[h], proc'[h])
  BY <1>2, <1>5, HandlerFacts
<1>8. CreatorsStay /\ NoNewCreators
  BY <1>5 DEF CreatorsStay, NoNewCreators
<1>9. NoNewClaimants
  BY <1>5 DEF NoNewClaimants
<1>10. \A c \in CallIds : CallWell(calls'[c])
  BY <1>1, CallsStayWell
<1> QED
  BY <1>1, <1>4, <1>6, <1>7, <1>8, <1>9, <1>10, Keeps DEF AcsMoves, TableMoves

LEMMA AskSteps ==
    ASSUME ServiceInv, NEW a \in Asks, NEW k \in Keys, NEW p \in Payloads, Ask(a, k, p)
    PROVE  ServiceInv'
<1> DEFINE q == [NoAsk EXCEPT !.key = k, !.payload = p, !.started = now]
           y == Goto(IdleProc, "insert")
<1>1. /\ proc[a].pc = "idle" /\ ask' = [ask EXCEPT ![a] = q] /\ Resume(a, y)
      /\ UNCHANGED <<storeVars, event, sweep, acsVars, budgetVars>>
  BY DEF Ask
<1>2. ask[a].role # "creator" /\ now \in Nat
  BY <1>1, AskFacts, NoneIsNoName DEF AskWell, Roles
<1>3. /\ q.key = k /\ q.payload = p /\ q.started = now /\ q.role = None
      /\ q \in AskStates
  BY <1>2 DEF NoAsk, AskStates
<1>4. /\ y.pc = "insert" /\ y.req = None /\ y.frame = None
      /\ y = [IdleProc EXCEPT !.pc = "insert"]
  BY DEF Goto, IdleProc
<1>5. y \in ProcStates
  BY <1>4, IdleIsProc, PcIsProc, Names
<1>6. None # "creator" /\ None # "late"
  BY NoneIsNoName DEF Roles, Frames
<1> HIDE DEF q, y
<1>7. AskWell(q, y)
  BY <1>2, <1>3, <1>4, <1>6, TimesAssumption DEF AskWell, Asked, WorkPcs, AskPcs, CleanupPcs
<1> QED
  BY <1>1, <1>2, <1>3, <1>5, <1>6, <1>7, AskChanges

LEMMA CancelSteps ==
    ASSUME ServiceInv, NEW a \in Asks, Cancel(a)
    PROVE  ServiceInv'
<1> DEFINE q == [ask[a] EXCEPT !.cancelled = TRUE]
           x == proc[a]
<1>1. ask[a] \in AskStates /\ x \in ProcStates /\ AskWell(ask[a], x) /\ a \in Processes
  BY AskFacts
<1>2. /\ q \in AskStates /\ q.key = ask[a].key /\ q.payload = ask[a].payload /\ q.started = ask[a].started
      /\ q.role = ask[a].role /\ q.callId = ask[a].callId /\ q.cancelled
  BY <1>1 DEF AskStates
<1>3. /\ ask' = [ask EXCEPT ![a] = q] /\ proc' = proc
      /\ UNCHANGED <<storeVars, event, sweep, acsVars, budgetVars>>
  BY <1>1 DEF Cancel, ServiceInv, Typed
<1>4. Resume(a, x)
  BY <1>1, <1>3 DEF Resume, ServiceInv, Typed
<1> HIDE DEF q, x
<1>5. AskWell(q, x)
  BY <1>1, <1>2 DEF AskWell, AskBase, Asked, Mine, OnRecord, LeaveWell, MayExpire
<1> QED
  BY <1>1, <1>2, <1>3, <1>4, <1>5, AskChanges DEF x

LEMMA AdmitJoinedSteps ==
    ASSUME ServiceInv, NEW a \in Asks, NEW r \in Requests, AdmitJoined(a, r)
    PROVE  ServiceInv'
<1> DEFINE q == [ask[a] EXCEPT !.role = "joiner"]
           x == proc[a]
           s == Loaded(r)
           y == [x EXCEPT !.req = r, !.stored = s, !.pc = "poll"]
<1>1. /\ x.pc = "lookup" /\ ask' = [ask EXCEPT ![a] = q] /\ Resume(a, y)
      /\ rows[r].key = ask[a].key /\ rows[r].payload = ask[a].payload /\ IsPending(r)
      /\ UNCHANGED <<storeVars, event, sweep, acsVars, budgetVars>>
  BY DEF AdmitJoined, RowsOfKey
<1>2. /\ ask[a] \in AskStates /\ x \in ProcStates /\ AskWell(ask[a], x) /\ now \in Nat
      /\ ask[a].started \in Nat
  BY AskFacts
<1>3. ask[a].role # "creator" /\ Asked(ask[a]) /\ now <= ask[a].started + Deadline /\ x.frame # "late"
  BY <1>1, <1>2, NoneIsNoName, TimesAssumption DEF AskWell, Roles
<1>4. /\ q \in AskStates /\ q.key = ask[a].key /\ q.payload = ask[a].payload /\ q.started = ask[a].started
      /\ q.role = "joiner"
  BY <1>2 DEF AskStates, Roles
<1>5. s \in Snapshot
  BY RowOf
<1> HIDE DEF s
<1>6. y.pc = "poll" /\ y.req = r /\ y.frame = x.frame
  BY <1>2 DEF ProcStates
<1>7. y \in ProcStates
  <2> DEFINE z == [x EXCEPT !.req = r, !.stored = s]
  <2>1. z \in ProcStates
    BY <1>2, <1>5 DEF ProcStates
  <2>2. y = [z EXCEPT !.pc = "poll"]
    BY <1>2 DEF ProcStates
  <2> HIDE DEF z
  <2> QED
    BY <2>1, <2>2, PcIsProc, Names
<1> HIDE DEF q, x, y
<1>8. AskWell(q, y)
  BY <1>1, <1>3, <1>4, <1>6 DEF AskWell, AskBase, Asked, Mine, IsPending, WorkPcs, AskPcs, CleanupPcs, Roles
<1> QED
  BY <1>1, <1>3, <1>4, <1>7, <1>8, AskChanges

LEMMA AttachSteps ==
    ASSUME ServiceInv, NEW a \in Asks, Attach(a)
    PROVE  ServiceInv'
<1> DEFINE x == proc[a]
           pc == IF Attachable(x.req, ask[a].callId) THEN "confirm" ELSE "unattached"
           y == Goto(x, pc)
<1>1. /\ x.pc = "attach" /\ AttachCallId(x.req, ask[a].callId) /\ Resume(a, y) /\ now' = now
      /\ UNCHANGED <<ask, event, sweep>> /\ UNCHANGED acsVars /\ UNCHANGED budgetVars
  BY DEF Attach
<1>2. /\ x \in ProcStates /\ AskWell(ask[a], x) /\ AskBase(ask[a], x) /\ x.req \in Requests
      /\ ask[a].callId \in CallIds /\ calls[ask[a].callId].req = x.req /\ a \in Processes /\ a \notin Handlers
  BY <1>1, AskFacts DEF AskWell, WorkPcs, AskPcs
<1>3. TableMoves
  BY <1>1, <1>2, CallAttached
<1>4. pc \in {"confirm", "unattached"}
  OBVIOUS
<1> HIDE DEF pc
<1>5. y \in ProcStates /\ y = [x EXCEPT !.pc = pc]
  BY <1>2, <1>4, PcIsProc, Names DEF Goto
<1>6. y.pc = pc /\ y.req = x.req /\ y.frame = x.frame
  BY <1>2, <1>5 DEF ProcStates
<1> HIDE DEF y
<1>7. AskWell(ask[a], y)
  BY <1>1, <1>2, <1>4, <1>6 DEF AskWell, AskBase, WorkPcs, AskPcs, CleanupPcs
<1>8. AcsMoves /\ Budget
  BY <1>1, AcsUnchanged, BudgetKept DEF ServiceInv
<1> QED
  BY <1>1, <1>2, <1>3, <1>5, <1>6, <1>7, <1>8, CoroutineSteps

LEMMA AdmissionLostSteps ==
    ASSUME ServiceInv, NEW a \in Asks, NEW r \in Requests, AdmissionLost(a, r)
    PROVE  ServiceInv'
<1> DEFINE x == proc[a]
           result == IF ask[a].cancelled THEN "aborted" ELSE "error"
           y == Finish(x, result)
<1>1. /\ x.pc = "insert" /\ Inserted(a, r) /\ Resume(a, y) /\ Fault
      /\ UNCHANGED <<ask, event, sweep>> /\ UNCHANGED acsVars
  BY DEF AdmissionLost
<1>2. x \in ProcStates /\ Asked(ask[a]) /\ x.req = None /\ a \in Processes /\ a \notin Handlers
  BY <1>1, AskFacts DEF AskWell
<1>3. TableMoves /\ AcsMoves /\ Budget
  BY <1>1, RowInserted, AcsUnchanged, BudgetKept DEF ServiceInv
<1>4. result \in {"rate_limited", "conflict", "aborted", "error"}
  OBVIOUS
<1> HIDE DEF result
<1>5. y \in ProcStates /\ y.req = x.req /\ AskWell(ask[a], y)
  BY <1>2, <1>4, AskEndsWell
<1> HIDE DEF y
<1> QED
  BY <1>1, <1>2, <1>3, <1>5, CoroutineSteps

(* A new row has its creator in nobody's way. *)
LEMMA AdmitCreatedSteps ==
    ASSUME ServiceInv, NEW a \in Asks, NEW r \in Requests, AdmitCreated(a, r)
    PROVE  ServiceInv'
<1> DEFINE q == [ask[a] EXCEPT !.role = "creator"]
           x == proc[a]
           pc == IF ask[a].cancelled \/ OutOfTime(Accepted(a)) THEN "poll" ELSE "verify"
           y == [x EXCEPT !.req = r, !.stored = Accepted(a), !.pc = pc]
<1>1. /\ x.pc = "insert" /\ Inserted(a, r) /\ ask' = [ask EXCEPT ![a] = q] /\ proc' = [proc EXCEPT ![a] = y]
      /\ event' = event /\ sweep' = sweep /\ UNCHANGED acsVars /\ UNCHANGED budgetVars
  BY DEF AdmitCreated, Resume
<1>2. /\ ask[a] \in AskStates /\ x \in ProcStates /\ Asked(ask[a]) /\ x.frame # "late" /\ now \in Nat
      /\ ask[a].started \in Nat /\ now <= ask[a].started + WorkCutoff /\ a \in Processes
      /\ ask[a].role # "creator"
  BY <1>1, AskFacts, NoneIsNoName DEF AskWell, Roles
<1>3. /\ q \in AskStates /\ q.key = ask[a].key /\ q.payload = ask[a].payload /\ q.started = ask[a].started
      /\ q.role = "creator"
  BY <1>2 DEF AskStates, Roles
<1>4. pc \in {"poll", "verify"}
  OBVIOUS
<1>5. Accepted(a) \in Snapshot
  <2>1. PICK cutoff \in Nat : cutoff = AskCutoff(a)
    BY <1>2, TimesAssumption DEF AskCutoff
  <2> QED
    BY <2>1 DEF Accepted, NotLoaded, Snapshot
<1> HIDE DEF pc
<1>6. y.pc = pc /\ y.req = r /\ y.frame = x.frame
  BY <1>2 DEF ProcStates
<1>7. y \in ProcStates
  <2> DEFINE z == [x EXCEPT !.req = r, !.stored = Accepted(a)]
  <2>1. z \in ProcStates
    BY <1>2, <1>5 DEF ProcStates
  <2>2. y = [z EXCEPT !.pc = pc]
    BY <1>2 DEF ProcStates
  <2> HIDE DEF z, y
  <2> QED
    BY <1>4, <2>1, <2>2, PcIsProc, Names
<1> HIDE DEF q, x, y
<1>8. /\ TableMoves /\ rows[r].status = "absent"
      /\ rows'[r].status = "pending" /\ rows'[r].key = ask[a].key /\ rows'[r].payload = ask[a].payload
  BY <1>1, RowInserted DEF x
<1>9. AcsMoves /\ Budget /\ calls' = calls /\ sent' = sent
  BY <1>1, AcsUnchanged, BudgetKept DEF ServiceInv, acsVars
<1>10. /\ ask'[a] = q /\ proc'[a] = y
       /\ \A b \in Asks : b # a => ask'[b] = ask[b] /\ proc'[b] = proc[b]
       /\ \A h \in Handlers : proc'[h] = proc[h]
  BY <1>1, <1>2, ProcessesAssumption DEF Processes, ServiceInv, Typed
<1>11. Typed'
  <2>1. ask' \in [Asks -> AskStates] /\ proc' \in [Processes -> ProcStates]
    BY <1>1, <1>2, <1>3, <1>7 DEF ServiceInv, Typed
  <2> QED
    BY <1>1, <1>9, <2>1 DEF ServiceInv, Typed, AcsMoves, Budget
<1>12. CallsStay /\ Moving
  <2>1. StoreInv' /\ RowsMove
    BY <1>8, StepOK, StoreMoves DEF ServiceInv, TableMoves
  <2> QED
    BY <1>8, <1>9, <1>11, <2>1 DEF CallsStay, Moving, TableMoves
<1>13. \A c \in CallIds : calls[c].req # r
  BY <1>8, NoneIsNoName DEF ServiceInv, CallsWell, CallWell
<1>14. AskWell(ask[a], proc[a])'
  <2>1. now' = now
    BY <1>8 DEF TableMoves
  <2> QED
    BY <1>2, <1>3, <1>4, <1>6, <1>8, <1>9, <1>10, <1>13, <2>1, TimesAssumption
    DEF AskWell, AskBase, Asked, Mine, WorkPcs, AskPcs, CleanupPcs, Roles
<1>15. AsksWell'
  <2> SUFFICES ASSUME NEW b \in Asks, b # a PROVE AskWell(ask[b], proc[b])'
    BY <1>14 DEF AsksWell
  <2>1. AskWell(ask'[b], proc'[b])
    BY <1>10, AskFacts
  <2>2. proc'[b].pc \in {"verify", "create_call"} => \A c \in CallIds : calls'[c].req # proc'[b].req
    BY <1>9, <2>1 DEF AskWell
  <2> QED
    BY <1>12, <2>1, <2>2, AskStays DEF ServiceInv
<1>16. HandlersWell'
  <2> SUFFICES ASSUME NEW h \in Handlers PROVE HandlerWell(event[h], proc[h])'
    BY DEF HandlersWell
  <2>1. HandlerWell(event'[h], proc'[h])
    BY <1>1, <1>10, HandlerFacts
  <2>2. Prompting(proc'[h]) => \A c \in CallIds : calls'[c].req = proc'[h].req => calls'[c].prompts = 0
    BY <1>9, <2>1 DEF HandlerWell, Prompting
  <2> QED
    BY <1>12, <2>1, <2>2, HandlerStays DEF ServiceInv
<1>17. \A b \in Asks : proc[b].req # r
  <2> SUFFICES ASSUME NEW b \in Asks, proc[b].req = r PROVE FALSE
    OBVIOUS
  <2>1. AskWell(ask[b], proc[b]) /\ proc[b].req # None
    BY AskFacts, NoneIsNoName
  <2>2. proc[b].pc \in WorkPcs \/ proc[b].pc = "done"
    BY <2>1 DEF AskWell
  <2> QED
    BY <1>8, <2>1, <2>2, AskFacts DEF AskWell
<1>18. OneCreator' /\ CreatorsStay
  BY <1>2, <1>6, <1>10, <1>17 DEF OneCreator, CreatorsStay, ServiceInv
<1>19. OneClaimant' /\ SentWell' /\ OneCallPerRequest' /\ PromptedOnce'
  BY <1>9, <1>10 DEF OneClaimant, ServiceInv, SentWell, OneCallPerRequest, PromptedOnce
<1>20. \A c \in CallIds : CallWell(calls'[c])
  BY <1>9, CallsStayWell
<1> QED
  BY <1>8, <1>9, <1>11, <1>12, <1>15, <1>16, <1>18, <1>19, <1>20, Assembled

(* A creator places the one call of its request. *)
LEMMA CallPlaced ==
    ASSUME ServiceInv, NEW a \in Asks, NEW c \in CallIds, proc[a].pc = "create_call", Unused(c),
           Placed(proc[a].req, c), NEW q \in AskStates, NEW y \in ProcStates,
           ask' = [ask EXCEPT ![a] = q], Resume(a, y), y.req = proc[a].req,
           q.role = ask[a].role, q.cancelled = ask[a].cancelled,
           \/ AskWell(q, y) /\ y.pc \notin {"verify", "create_call"}
           \/ AskBase(q, y) /\ y.pc = "attach" /\ q.callId = c,
           Fault \/ UNCHANGED budgetVars, UNCHANGED <<storeVars, event, sweep, sent, fresh>>
    PROVE  ServiceInv'
<1>1. PICK r \in Requests : r = proc[a].req /\ r # None
  BY AskFacts, NoneIsNoName DEF WorkPcs, AskPcs
<1>2. /\ proc \in [Processes -> ProcStates] /\ ask \in [Asks -> AskStates] /\ calls \in [CallIds -> CallStates]
      /\ sent \subseteq Events
      /\ a \in Processes /\ proc' = [proc EXCEPT ![a] = y] /\ sent' = sent /\ fresh' = fresh
      /\ event' = event /\ sweep' = sweep /\ now' = now /\ rows' = rows
  BY AskFacts DEF ServiceInv, Typed, Resume, storeVars
<1>3. /\ ask[a].role = "creator" /\ rows[r].status # "absent"
      /\ \A d \in CallIds : calls[d].req # r
      /\ calls[c].req = None
  BY <1>1, AskFacts DEF AskWell, WorkPcs, AskPcs, Unused, ServiceInv, CallsWell, CallWell
<1> DEFINE call == [NoCall EXCEPT !.req = r, !.state = "dialing"]
<1>4. /\ call \in CallStates /\ call.req = r /\ call.prompts = 0 /\ call.state = "dialing"
  BY DEF NoCall, CallStates
<1>5. calls' = [calls EXCEPT ![c] = call]
  BY <1>1 DEF Placed
<1> HIDE DEF call
<1>6. calls'[c] = call /\ \A d \in CallIds : d # c => calls'[d] = calls[d]
  BY <1>2, <1>5
<1>7. /\ ask'[a] = q /\ proc'[a] = y
      /\ \A b \in Asks : b # a => ask'[b] = ask[b] /\ proc'[b] = proc[b]
      /\ \A h \in Handlers : proc'[h] = proc[h]
  BY <1>2, ProcessesAssumption DEF Processes
<1>8. TableMoves /\ Budget
  BY StoreUnchanged, BudgetKept DEF ServiceInv
<1>9. Typed'
  <2>1. ask' \in [Asks -> AskStates] /\ proc' \in [Processes -> ProcStates] /\ calls' \in [CallIds -> CallStates]
    BY <1>2, <1>4, <1>5
  <2> QED
    BY <1>2, <1>8, <2>1 DEF ServiceInv, Typed, Budget
<1>10. CallsStay
  BY <1>3, <1>6 DEF CallsStay
<1>11. Moving
  <2>1. StoreInv' /\ RowsMove
    BY <1>8, StepOK, StoreMoves DEF ServiceInv, TableMoves
  <2> QED
    BY <1>2, <1>9, <1>10, <2>1 DEF Moving
<1>12. AsksWell'
  <2> SUFFICES ASSUME NEW b \in Asks PROVE AskWell(ask[b], proc[b])'
    BY DEF AsksWell
  <2>1. CASE b # a
    <3>1. AskWell(ask'[b], proc'[b]) /\ ask'[b] = ask[b] /\ proc'[b] = proc[b]
      BY <1>7, <2>1, AskFacts
    <3>2. proc'[b].pc \in {"verify", "create_call"} => \A d \in CallIds : calls'[d].req # proc'[b].req
      <4>1. proc[b].pc \in {"verify", "create_call"} =>
              ask[b].role = "creator" /\ \A d \in CallIds : calls[d].req # proc[b].req
        BY <3>1 DEF AskWell
      <4>2. proc[b].req = r => ask[b].role # "creator"
        BY <1>1, <1>3, <2>1 DEF ServiceInv, OneCreator
      <4> QED
        BY <1>4, <1>6, <3>1, <4>1, <4>2
    <3> QED
      BY <1>11, <3>1, <3>2, AskStays DEF ServiceInv
  <2>2. CASE b = a /\ AskWell(q, y) /\ y.pc \notin {"verify", "create_call"}
    BY <1>7, <1>11, <2>2, AskStays DEF ServiceInv
  <2>3. CASE b = a /\ AskBase(q, y) /\ y.pc = "attach" /\ q.callId = c
    BY <1>1, <1>2, <1>4, <1>6, <1>7, <2>3 DEF AskWell, AskBase, Asked, Mine, WorkPcs, AskPcs, CleanupPcs
  <2> QED
    BY <2>1, <2>2, <2>3
<1>13. HandlersWell'
  <2> SUFFICES ASSUME NEW h \in Handlers PROVE HandlerWell(event[h], proc[h])'
    BY DEF HandlersWell
  <2>1. HandlerWell(event'[h], proc'[h])
    BY <1>2, <1>7, HandlerFacts
  <2>2. Prompting(proc'[h]) => \A d \in CallIds : calls'[d].req = proc'[h].req => calls'[d].prompts = 0
    BY <1>4, <1>6, <2>1 DEF HandlerWell, Prompting
  <2> QED
    BY <1>11, <2>1, <2>2, HandlerStays DEF ServiceInv
<1>14. OneCreator' /\ CreatorsStay
  BY <1>1, <1>7 DEF OneCreator, CreatorsStay, ServiceInv
<1>15. OneClaimant'
  BY <1>7 DEF OneClaimant, ServiceInv
<1>16. SentWell'
  BY <1>2, <1>3, <1>6 DEF SentWell, ServiceInv, Events
<1>17. OneCallPerRequest' /\ PromptedOnce'
  BY <1>3, <1>4, <1>6 DEF OneCallPerRequest, PromptedOnce, ServiceInv
<1>18. \A d \in CallIds : CallWell(calls'[d])
  <2>1. CallWell(call)
    <3>1. call.req # None /\ call.state # "unused" /\ ~(call.prompts > 0)
      BY <1>1, <1>4
    <3> QED
      BY <1>3, <1>4, <3>1 DEF CallWell
  <2> QED
    BY <1>6, <2>1 DEF ServiceInv, CallsWell
<1> QED
  BY <1>2, <1>8, <1>9, <1>10, <1>12, <1>13, <1>14, <1>15, <1>16, <1>17, <1>18, Assembled

LEMMA CreateCallSteps ==
    ASSUME ServiceInv, NEW a \in Asks, NEW c \in CallIds, CreateCall(a, c)
    PROVE  ServiceInv'
<1> DEFINE q == [ask[a] EXCEPT !.callId = c]
           x == proc[a]
           y == Goto(x, "attach")
<1>1. /\ x.pc = "create_call" /\ Unused(c) /\ Placed(x.req, c) /\ ask' = [ask EXCEPT ![a] = q] /\ Resume(a, y)
      /\ UNCHANGED <<storeVars, event, sweep, sent, fresh>> /\ UNCHANGED budgetVars
  BY DEF CreateCall
<1>2. ask[a] \in AskStates /\ x \in ProcStates /\ AskBase(ask[a], x)
  BY <1>1, AskFacts DEF WorkPcs, AskPcs
<1>3. /\ q \in AskStates /\ q.key = ask[a].key /\ q.payload = ask[a].payload /\ q.started = ask[a].started
      /\ q.role = ask[a].role /\ q.cancelled = ask[a].cancelled /\ q.callId = c
  BY <1>2 DEF AskStates
<1>4. y \in ProcStates /\ y = [x EXCEPT !.pc = "attach"]
  BY <1>2, PcIsProc, Names DEF Goto
<1>5. y.pc = "attach" /\ y.req = x.req /\ y.frame = x.frame
  BY <1>2, <1>4 DEF ProcStates
<1> HIDE DEF q, y
<1>6. AskBase(q, y)
  BY <1>2, <1>3, <1>5 DEF AskBase, Asked, Mine
<1> HIDE DEF x
<1> QED
  BY <1>1, <1>3, <1>4, <1>5, <1>6, CallPlaced DEF x

LEMMA CreateCallFaultSteps ==
    ASSUME ServiceInv, NEW a \in Asks, NEW c \in CallIds, CreateCallFault(a, c) \/ InterruptCreate(a, c)
    PROVE  ServiceInv'
<1> DEFINE x == proc[a]
<1>1. /\ x.pc = "create_call" /\ Unused(c)
      /\ Placed(x.req, c) \/ UNCHANGED calls
      /\ Fault \/ UNCHANGED budgetVars
      /\ UNCHANGED <<storeVars, ask, event, sweep, sent, fresh>>
      /\ Resume(a, StartFail(x, "start")) \/ (WorkOver(a) /\ Resume(a, Interrupted(a)))
  BY DEF CreateCallFault, InterruptCreate
<1>2. /\ ask[a] \in AskStates /\ x \in ProcStates /\ AskBase(ask[a], x) /\ x.pc \in WorkPcs
      /\ ask' = [ask EXCEPT ![a] = ask[a]]
  BY <1>1, AskFacts DEF WorkPcs, AskPcs, ServiceInv, Typed
<1>3. /\ StartFail(x, "start") \in ProcStates /\ StartFail(x, "start").req = x.req
      /\ AskWell(ask[a], StartFail(x, "start")) /\ StartFail(x, "start").pc = "fail"
  <2>1. StartFail(x, "start").pc = "fail"
    BY <1>2 DEF StartFail, ProcStates
  <2> QED
    BY <1>2, <2>1, AskFailWell DEF Frames
<1>4. WorkOver(a) => /\ Interrupted(a) \in ProcStates /\ Interrupted(a).req = x.req
                     /\ AskWell(ask[a], Interrupted(a)) /\ Interrupted(a).pc \notin {"verify", "create_call"}
  BY <1>2, InterruptedWell
<1>5. PICK y \in ProcStates : /\ Resume(a, y) /\ AskWell(ask[a], y) /\ y.req = x.req
                              /\ y.pc \notin {"verify", "create_call"}
  BY <1>1, <1>3, <1>4
<1>6. CASE Placed(x.req, c)
  BY <1>1, <1>2, <1>5, <1>6, CallPlaced
<1>7. CASE UNCHANGED calls
  <2>1. UNCHANGED acsVars
    BY <1>1, <1>7 DEF acsVars
  <2> QED
    BY <1>1, <1>5, <2>1, AskSilent
<1> QED
  BY <1>1, <1>6, <1>7
-----------------------------------------------------------------------------
(*                      The steps of a handler alone                        *)

(* The handler h may go on with the record y, and will not prompt. *)
GoesOn(h, y) == y \in ProcStates /\ HandlerWell(event[h], y) /\ ~Prompting(y)

LEMMA HandlerGoesOn ==
    ASSUME ServiceInv, NEW h \in Handlers, NEW y, GoesOn(h, y), Resume(h, y),
           Fault \/ UNCHANGED budgetVars, UNCHANGED <<storeVars, ask, event, sweep, acsVars>>
    PROVE  ServiceInv'
  BY HandlerSilent DEF GoesOn

LEMMA HandlerEnds ==
    ASSUME NEW h \in Handlers, NEW x \in ProcStates, HandlerBase(event[h], x)
    PROVE  /\ GoesOn(h, Finish(x, "ok")) /\ GoesOn(h, Finish(x, "error"))
           /\ GoesOn(h, StartFail(x, "final")) /\ GoesOn(h, StartFail(x, "event"))
           /\ GoesOn(h, StartExpire(x, "deadline_exceeded", "late"))
           /\ GoesOn(h, StartExpire(x, "deadline_exceeded", "lost"))
           /\ GoesOn(h, StartExpire(x, "deadline_exceeded", "timeout"))
<1>1. GoesOn(h, Finish(x, "ok")) /\ GoesOn(h, Finish(x, "error"))
  BY HandlerFinishWell, Names DEF GoesOn
<1>2. GoesOn(h, StartFail(x, "final")) /\ GoesOn(h, StartFail(x, "event"))
  BY HandlerFailWell DEF GoesOn
<1>3. \A frame \in {"late", "lost", "timeout"} : GoesOn(h, StartExpire(x, "deadline_exceeded", frame))
  BY HandlerExpireWell DEF GoesOn
<1> QED
  BY <1>1, <1>2, <1>3

(* The snapshot is part of the record, and of nothing else the handler needs. *)
LEMMA LoadedWell ==
    ASSUME NEW e, NEW x \in ProcStates, HandlerBase(e, x), NEW s \in Snapshot
    PROVE  /\ [x EXCEPT !.stored = s] \in ProcStates /\ HandlerBase(e, [x EXCEPT !.stored = s])
           /\ [x EXCEPT !.stored = s].stored = s /\ [x EXCEPT !.stored = s].req = x.req
  BY DEF ProcStates, HandlerBase

LEMMA LateConnectionWell ==
    ASSUME NEW h \in Handlers, NEW x \in ProcStates, HandlerBase(event[h], x), event[h].call \in CallIds, NEW s
    PROVE  GoesOn(h, LateConnection(h, x, s))
<1> DEFINE C == {event[h].call}
           y == HangUpThen(x, C, "done", "ok")
<1>1. LateConnection(h, x, s) \in {y, Finish(x, "ok")}
  BY DEF LateConnection
<1>2. C \in SUBSET CallIds /\ "ok" \in Results \cup {None}
  BY Names
<1> HIDE DEF C
<1>3. GoesOn(h, y)
  BY <1>2, HandlerHangUpWell DEF GoesOn
<1> HIDE DEF y
<1> QED
  BY <1>1, <1>3, HandlerEnds

(* Within the block, before and after the event is known to be of the       *)
(* attached call of its request.                                            *)
InBlockWell(h, x) ==
    /\ x \in ProcStates /\ HandlerBase(event[h], x)
    /\ rows[x.req].status \notin {"absent", "purged"}
    /\ x.stored.cutoff = Cutoff(x.req) /\ now <= x.stored.cutoff

LEMMA BlockGotoWell ==
    ASSUME NEW h \in Handlers, NEW x, InBlockWell(h, x), NEW pc \in {"bind", "reload", "claim", "complete"},
           pc \in {"claim", "complete"} => x.stored.callId = event[h].call /\ rows[x.req].callId = event[h].call,
           pc = "complete" => event[h].type \in Outcomes
    PROVE  GoesOn(h, Goto(x, pc))
<1> DEFINE y == Goto(x, pc)
<1>1. y \in ProcStates /\ y = [x EXCEPT !.pc = pc] /\ x \in ProcStates
  BY PcIsProc, Names DEF Goto, InBlockWell
<1>2. y.pc = pc /\ y.req = x.req /\ y.frame = x.frame /\ y.stored = x.stored
  BY <1>1 DEF ProcStates
<1>3. y = Goto(x, pc)
  OBVIOUS
<1> HIDE DEF y
<1>4. HandlerWell(event[h], y) /\ ~Prompting(y)
  BY <1>2 DEF HandlerWell, InBlockWell, HandlerBase, BlockPcs, HandlerPcs, CleanupPcs, Prompting
<1> QED
  BY <1>1, <1>3, <1>4 DEF GoesOn

LEMMA DispatchWell ==
    ASSUME ServiceInv, NEW h \in Handlers, NEW x \in ProcStates, HandlerBase(event[h], x), x.req \in Requests,
           event[h].type \in EventTypes, event[h].call = rows[x.req].callId, IsPending(x.req)
    PROVE  GoesOn(h, Dispatch(h, x, Loaded(x.req)))
<1> DEFINE s == Loaded(x.req)
           y == [x EXCEPT !.stored = s]
           w == IF Creators(x.req) = {} THEN None ELSE CHOOSE a \in Creators(x.req) : TRUE
           z == [y EXCEPT !.watch = w]
<1>1. /\ s \in Snapshot /\ s.callId = event[h].call /\ s.cutoff = Cutoff(x.req) /\ Cutoff(x.req) \in Nat
      /\ now \in Nat /\ rows[x.req].status \notin {"absent", "purged"}
  BY RowOf, HandlerFacts DEF IsPending
<1>2. y \in ProcStates /\ HandlerBase(event[h], y) /\ y.stored = s /\ y.req = x.req
  BY <1>1, LoadedWell
<1>3. w \in Asks \cup {None}
  BY DEF Creators
<1> HIDE DEF w
<1>4. [y EXCEPT !.pc = "claim", !.watch = w] = Goto(z, "claim")
  BY <1>2 DEF Goto, ProcStates
<1>5. \/ Dispatch(h, x, s) \in {Finish(x, "ok"), StartFail(y, "event"), StartExpire(y, "deadline_exceeded", "timeout")}
      \/ ~OutOfTime(s) /\ Dispatch(h, x, s) = Goto(z, "claim")
      \/ /\ ~OutOfTime(s) /\ Dispatch(h, x, s) = Goto(y, "complete")
         /\ event[h].type \notin {"connected", "dependency_failed"}
  <2> HIDE DEF s
  <2>1. CASE event[h].type = "connected"
    BY <1>4, <2>1 DEF Dispatch, w
  <2>2. CASE event[h].type = "dependency_failed"
    BY <2>2 DEF Dispatch
  <2>3. CASE event[h].type \notin {"connected", "dependency_failed"}
    BY <2>3 DEF Dispatch
  <2> QED
    BY <2>1, <2>2, <2>3
<1> HIDE DEF s, y
<1>6. z \in ProcStates /\ HandlerBase(event[h], z) /\ z.stored = s /\ z.req = x.req
  BY <1>2, <1>3 DEF ProcStates, HandlerBase
<1> HIDE DEF z
<1>7. CASE Dispatch(h, x, s) \in {Finish(x, "ok"), StartFail(y, "event"), StartExpire(y, "deadline_exceeded", "timeout")}
  BY <1>2, <1>7, HandlerEnds DEF s
<1>8. CASE ~OutOfTime(s) /\ Dispatch(h, x, s) = Goto(z, "claim")
  <2>1. InBlockWell(h, z)
    BY <1>1, <1>6, <1>8 DEF InBlockWell, OutOfTime
  <2> QED
    BY <1>1, <1>6, <1>8, <2>1, BlockGotoWell DEF s
<1>9. CASE /\ ~OutOfTime(s) /\ Dispatch(h, x, s) = Goto(y, "complete")
           /\ event[h].type \notin {"connected", "dependency_failed"}
  <2>1. InBlockWell(h, y)
    BY <1>1, <1>2, <1>9 DEF InBlockWell, OutOfTime
  <2>2. event[h].type \in Outcomes
    BY <1>9 DEF EventTypes, Outcomes, ExpiryOutcomes
  <2> QED
    BY <1>1, <1>2, <1>9, <2>1, <2>2, BlockGotoWell DEF s
<1> QED
  BY <1>5, <1>7, <1>8, <1>9

LEMMA GetSteps ==
    ASSUME ServiceInv, NEW h \in Handlers, Get(h)
    PROVE  ServiceInv'
<1> DEFINE s == Loaded(proc[h].req)
           x == [proc[h] EXCEPT !.stored = s]
<1>1. proc[h].pc = "get" /\ UNCHANGED <<storeVars, ask, event, sweep, acsVars>> /\ UNCHANGED budgetVars
  BY DEF Get
<1>2. /\ proc[h] \in ProcStates /\ HandlerBase(event[h], proc[h]) /\ proc[h].req \in Requests
      /\ event[h].call \in CallIds /\ event[h].type \in EventTypes /\ now \in Nat
  BY <1>1, HandlerFacts DEF ServiceInv, Typed
<1>3. /\ s \in Snapshot /\ s.status = rows[proc[h].req].status /\ s.callId = rows[proc[h].req].callId
      /\ rows[proc[h].req].status \notin {"absent", "purged"} =>
            s.cutoff = Cutoff(proc[h].req) /\ Cutoff(proc[h].req) \in Nat
  BY <1>2, RowOf
<1>4. x \in ProcStates /\ HandlerBase(event[h], x) /\ x.req = proc[h].req /\ x.stored = s
  BY <1>2, <1>3, LoadedWell
<1>5. event[h].call # None
  BY <1>2, NoneIsNobody
<1>6. \/ Resume(h, Finish(x, "ok")) \/ Resume(h, LateConnection(h, x, s))
      \/ Resume(h, StartExpire(x, "deadline_exceeded", "late"))
      \/ s.status = "pending" /\ ~OutOfTime(s) /\ Resume(h, Goto(x, "bind"))
      \/ s.status = "pending" /\ s.callId = event[h].call /\ Resume(h, Dispatch(h, x, s))
  BY <1>5 DEF Get
<1>7. s = Loaded(x.req)
  BY <1>4
<1> HIDE DEF s, x
<1>8. CASE Resume(h, Finish(x, "ok")) \/ Resume(h, StartExpire(x, "deadline_exceeded", "late"))
  BY <1>1, <1>4, <1>8, HandlerEnds, HandlerGoesOn
<1>9. CASE Resume(h, LateConnection(h, x, s))
  BY <1>1, <1>2, <1>4, <1>9, LateConnectionWell, HandlerGoesOn
<1>10. CASE s.status = "pending" /\ ~OutOfTime(s) /\ Resume(h, Goto(x, "bind"))
  <2>1. InBlockWell(h, x)
    BY <1>2, <1>3, <1>4, <1>10 DEF InBlockWell, OutOfTime
  <2> QED
    BY <1>1, <1>10, <2>1, BlockGotoWell, HandlerGoesOn
<1>11. CASE s.status = "pending" /\ s.callId = event[h].call /\ Resume(h, Dispatch(h, x, s))
  <2>1. GoesOn(h, Dispatch(h, x, s))
    BY <1>2, <1>3, <1>4, <1>7, <1>11, DispatchWell DEF IsPending
  <2> QED
    BY <1>1, <1>11, <2>1, HandlerGoesOn
<1> QED
  BY <1>6, <1>8, <1>9, <1>10, <1>11

LEMMA ReloadSteps ==
    ASSUME ServiceInv, NEW h \in Handlers, Reload(h)
    PROVE  ServiceInv'
<1> DEFINE x == proc[h]
           s == Loaded(x.req)
           z == [x EXCEPT !.frame = "event"]
<1>1. x.pc = "reload" /\ UNCHANGED <<storeVars, ask, event, sweep, acsVars>> /\ UNCHANGED budgetVars
  BY DEF Reload
<1>2. /\ x \in ProcStates /\ HandlerBase(event[h], x) /\ x.req \in Requests
      /\ event[h].call \in CallIds /\ event[h].type \in EventTypes
  BY <1>1, HandlerFacts DEF ServiceInv, Typed
<1>3. s.status = rows[x.req].status /\ s.callId = rows[x.req].callId
  BY <1>2, RowOf
<1>4. \/ Resume(h, Finish(x, "ok")) \/ Resume(h, StartFail(x, "final")) \/ Resume(h, LateConnection(h, z, s))
      \/ s.status = "pending" /\ s.callId = event[h].call /\ Resume(h, Dispatch(h, x, s))
  BY DEF Reload
<1>5. CASE Resume(h, Finish(x, "ok")) \/ Resume(h, StartFail(x, "final"))
  BY <1>1, <1>2, <1>5, HandlerEnds, HandlerGoesOn
<1>6. CASE Resume(h, LateConnection(h, z, s))
  <2>1. z \in ProcStates /\ z.req = x.req /\ z.frame = "event"
    BY <1>2 DEF ProcStates, Frames
  <2> HIDE DEF z
  <2>2. HandlerBase(event[h], z)
    BY <1>2, <2>1 DEF HandlerBase
  <2> QED
    BY <1>1, <1>2, <1>6, <2>1, <2>2, LateConnectionWell, HandlerGoesOn
<1>7. CASE s.status = "pending" /\ s.callId = event[h].call /\ Resume(h, Dispatch(h, x, s))
  <2>1. GoesOn(h, Dispatch(h, x, s))
    BY <1>2, <1>3, <1>7, DispatchWell DEF IsPending
  <2> QED
    BY <1>1, <1>7, <2>1, HandlerGoesOn
<1> QED
  BY <1>4, <1>5, <1>6, <1>7
LEMMA BlockFacts ==
    ASSUME ServiceInv, NEW h \in Handlers, proc[h].pc \in BlockPcs
    PROVE  /\ InBlockWell(h, proc[h]) /\ proc[h].pc # "idle" /\ proc[h] \in ProcStates
           /\ HandlerBase(event[h], proc[h]) /\ proc[h].req \in Requests /\ event[h].call \in CallIds
           /\ event[h] \in sent /\ calls[event[h].call].req = proc[h].req
           /\ event[h] = [type |-> event[h].type, call |-> event[h].call]
           /\ h \in Processes /\ h \notin Asks
<1>1. proc[h].pc # "idle"
  BY DEF BlockPcs
<1>2. event[h] \in [type: EventTypes, call: CallIds \cup {None}]
  BY DEF ServiceInv, Typed
<1> QED
  BY <1>1, <1>2, HandlerFacts DEF HandlerWell, InBlockWell, HandlerBase

(* A handler goes on after its statement. *)
LEMMA HandlerWrites ==
    ASSUME ServiceInv, NEW h \in Handlers, NEW y, GoesOn(h, y), Resume(h, y), TableMoves, AcsMoves,
           Fault \/ UNCHANGED budgetVars, UNCHANGED <<ask, event, sweep>>
    PROVE  ServiceInv'
<1>1. Budget /\ h \in Processes /\ h \notin Asks
  BY BudgetKept, HandlerFacts DEF ServiceInv
<1> QED
  BY <1>1, CoroutineSteps DEF GoesOn

LEMMA BindSteps ==
    ASSUME ServiceInv, NEW h \in Handlers, Bind(h)
    PROVE  ServiceInv'
<1> DEFINE x == proc[h]
<1>1. /\ x.pc = "bind" /\ AttachCallId(x.req, event[h].call) /\ now' = now
      /\ UNCHANGED <<ask, event, sweep>> /\ UNCHANGED acsVars /\ UNCHANGED budgetVars
      /\ Resume(h, Goto(x, "reload")) \/ Resume(h, Finish(x, "ok"))
  BY DEF Bind
<1>2. /\ InBlockWell(h, x) /\ x.req \in Requests /\ event[h].call \in CallIds
      /\ x \in ProcStates /\ HandlerBase(event[h], x) /\ calls[event[h].call].req = x.req
  BY <1>1, BlockFacts DEF BlockPcs
<1>3. TableMoves /\ AcsMoves
  BY <1>1, <1>2, CallAttached, AcsUnchanged
<1>4. GoesOn(h, Goto(x, "reload")) /\ GoesOn(h, Finish(x, "ok"))
  BY <1>2, BlockGotoWell, HandlerEnds
<1> QED
  BY <1>1, <1>3, <1>4, HandlerWrites

LEMMA CompleteSteps ==
    ASSUME ServiceInv, NEW h \in Handlers, Complete(h) \/ CompleteLost(h)
    PROVE  ServiceInv'
<1> DEFINE x == proc[h]
           o == event[h].type
           C == {event[h].call}
           y == HangUpThen(x, C, "done", "ok")
<1>1. /\ x.pc = "complete" /\ CompleteIfPending(x.req, o, x.stored.cutoff) /\ now' = now
      /\ UNCHANGED <<ask, event, sweep>> /\ UNCHANGED acsVars
      /\ Fault \/ UNCHANGED budgetVars
      /\ \/ Resume(h, Goto(x, "acknowledge")) \/ Resume(h, y) \/ Resume(h, Finish(x, "ok"))
         \/ \E frame \in {"lost", "timeout"} : Resume(h, StartExpire(x, "deadline_exceeded", frame))
         \/ Resume(h, StartFail(x, "final"))
  BY DEF Complete, CompleteLost
<1>2. /\ InBlockWell(h, x) /\ x.req \in Requests /\ event[h].call \in CallIds
      /\ x \in ProcStates /\ HandlerBase(event[h], x) /\ calls[event[h].call].req = x.req
      /\ event[h] \in sent /\ event[h] = [type |-> o, call |-> event[h].call]
  BY <1>1, BlockFacts DEF BlockPcs
<1>3. rows[x.req].callId = event[h].call /\ o \in Outcomes
  BY <1>1, HandlerFacts DEF HandlerWell
<1>4. PICK r \in Requests : r = x.req
  BY <1>2
<1>5. /\ CompleteIfPending(r, o, Cutoff(r)) /\ rows[r].status \notin {"absent", "purged"}
      /\ [type |-> o, call |-> rows[r].callId] \in sent /\ calls[rows[r].callId].req = r
  BY <1>1, <1>2, <1>3, <1>4 DEF InBlockWell
<1>6. TableMoves /\ AcsMoves
  <2>1. sent' = sent /\ calls' = calls
    BY <1>1 DEF acsVars
  <2> QED
    BY <1>1, <1>3, <1>5, <2>1, ResultRecorded, AcsUnchanged
<1>7. C \in SUBSET CallIds /\ "ok" \in Results \cup {None}
  BY <1>2, Names
<1> HIDE DEF C
<1>8. GoesOn(h, y)
  BY <1>2, <1>7, HandlerHangUpWell DEF GoesOn
<1>9. GoesOn(h, Goto(x, "acknowledge"))
  BY <1>2, HandlerGotoWell DEF GoesOn
<1> HIDE DEF y
<1> QED
  BY <1>1, <1>2, <1>6, <1>8, <1>9, HandlerEnds, HandlerWrites

LEMMA RecheckSteps ==
    ASSUME ServiceInv, NEW h \in Handlers, Recheck(h)
    PROVE  ServiceInv'
<1> DEFINE x == proc[h]
           y == Goto(x, "prompt")
<1>1. /\ x.pc = "recheck" /\ UNCHANGED <<storeVars, ask, event, sweep, acsVars>> /\ UNCHANGED budgetVars
      /\ \/ Resume(h, StartFail(x, "final")) \/ Resume(h, Finish(x, "ok"))
         \/ Resume(h, StartExpire(x, "deadline_exceeded", "timeout")) \/ Resume(h, y)
  BY DEF Recheck
<1>2. x \in ProcStates /\ HandlerBase(event[h], x) /\ HandlerWell(event[h], x)
  BY <1>1, BlockFacts, HandlerFacts DEF BlockPcs
<1>3. CASE Resume(h, y)
  <2>1. y \in ProcStates /\ y = [x EXCEPT !.pc = "prompt"]
    BY <1>2, PcIsProc, Names DEF Goto
  <2>2. y.pc = "prompt" /\ y.req = x.req /\ y.frame = x.frame /\ y.stored = x.stored
    BY <1>2, <2>1 DEF ProcStates
  <2> HIDE DEF y
  <2>3. HandlerWell(event[h], y)
    BY <1>1, <1>2, <2>2 DEF HandlerWell, HandlerBase, BlockPcs, HandlerPcs, CleanupPcs
  <2>4. Prompting(x)
    BY <1>1 DEF Prompting
  <2> QED
    BY <1>1, <1>3, <2>1, <2>2, <2>3, <2>4, HandlerSilent
<1>4. CASE ~Resume(h, y)
  BY <1>1, <1>2, <1>4, HandlerEnds, HandlerGoesOn
<1> QED
  BY <1>3, <1>4

LEMMA HandlerFaultSteps ==
    ASSUME ServiceInv, NEW h \in Handlers, HandlerFault(h)
    PROVE  ServiceInv'
<1>1. /\ proc[h].pc # "idle" /\ Fault /\ UNCHANGED <<storeVars, ask, event, sweep, acsVars>>
      /\ Resume(h, Finish(proc[h], "error")) \/ Resume(h, StartFail(proc[h], "final"))
  BY DEF HandlerFault
<1> QED
  BY <1>1, HandlerFacts, HandlerEnds, HandlerGoesOn

LEMMA HandlerTimeoutSteps ==
    ASSUME ServiceInv, NEW h \in Handlers, HandlerTimeout(h)
    PROVE  ServiceInv'
<1> DEFINE x == proc[h]
           y == [StartExpire(x, "deadline_exceeded", "timeout") EXCEPT !.next = None, !.targets = {}, !.result = None]
           z == [x EXCEPT !.targets = {}, !.next = None, !.result = None]
<1>1. /\ x.pc # "idle" /\ UNCHANGED <<storeVars, ask, event, sweep, acsVars>> /\ UNCHANGED budgetVars
      /\ Resume(h, y)
  BY DEF HandlerTimeout, InBlock, CleanupPcs
<1>2. x \in ProcStates /\ HandlerBase(event[h], x)
  BY <1>1, HandlerFacts
<1>3. z \in ProcStates /\ z.req = x.req /\ z.frame = x.frame
  BY <1>2, TargetsIsProc DEF ProcStates
<1>4. y = StartExpire(z, "deadline_exceeded", "timeout")
  BY <1>2 DEF StartExpire, ProcStates
<1> HIDE DEF y, z
<1>5. HandlerBase(event[h], z)
  BY <1>2, <1>3 DEF HandlerBase
<1> QED
  BY <1>1, <1>3, <1>4, <1>5, HandlerEnds, HandlerGoesOn

LEMMA AcknowledgeSteps ==
    ASSUME ServiceInv, NEW h \in Handlers, Acknowledge(h)
    PROVE  ServiceInv'
<1> DEFINE x == proc[h]
           c == event[h].call
           C == {c}
           z == [x EXCEPT !.frame = "acknowledged"]
           y == HangUpThen(z, C, "done", "ok")
           call == [calls[c] EXCEPT !.playing = (@ \/ calls[c].state = "connected")]
<1>1. /\ x.pc = "acknowledge" /\ Resume(h, y)
      /\ UNCHANGED <<ask, event, sweep>> /\ UNCHANGED storeVars /\ UNCHANGED budgetVars
      /\ sent' = sent /\ fresh' = fresh
  BY DEF Acknowledge
<1>2. /\ x \in ProcStates /\ HandlerBase(event[h], x) /\ c \in CallIds
      /\ calls \in [CallIds -> CallStates] /\ calls[c] \in CallStates
  BY <1>1, HandlerFacts DEF ServiceInv, Typed
<1>3. AcsMoves
  <2>1. calls' = [calls EXCEPT ![c] = call]
    BY <1>2 DEF Acknowledge
  <2>2. /\ call \in CallStates /\ call.req = calls[c].req /\ call.prompts = calls[c].prompts
        /\ call.state = calls[c].state /\ call.listening = calls[c].listening
    BY <1>2 DEF CallStates
  <2> HIDE DEF call
  <2>3. \A d \in CallIds : calls[d].state = "unused" => calls[d].listening = None
    BY DEF ServiceInv, CallsWell, CallWell
  <2>4. calls' \in [CallIds -> CallStates]
    BY <1>2, <2>1, <2>2
  <2>5. \A d \in CallIds : calls'[d].req = calls[d].req /\ calls'[d].prompts = calls[d].prompts
                           /\ calls'[d].state = calls[d].state /\ calls'[d].listening = calls[d].listening
    BY <1>2, <2>1, <2>2
  <2> QED
    BY <1>1, <2>3, <2>4, <2>5 DEF AcsMoves, SameCalls, ServiceInv, Typed, SentWell
<1>4. TableMoves
  BY <1>1, StoreUnchanged
<1>5. z \in ProcStates /\ z.req = x.req /\ z.frame = "acknowledged"
  <2>1. "acknowledged" \in Frames
    BY DEF Frames
  <2> QED
    BY <1>2, <2>1 DEF ProcStates
<1>6. C \in SUBSET CallIds /\ "ok" \in Results \cup {None}
  BY <1>2, Names
<1> HIDE DEF C, z
<1>7. HandlerBase(event[h], z)
  BY <1>2, <1>5 DEF HandlerBase
<1>8. GoesOn(h, y)
  BY <1>5, <1>6, <1>7, HandlerHangUpWell DEF GoesOn
<1> HIDE DEF y
<1> QED
  BY <1>1, <1>3, <1>4, <1>8, HandlerWrites

(* A handler takes an event, or answers one. *)
LEMMA HandlerChanges ==
    ASSUME ServiceInv, NEW h \in Handlers, NEW e \in [type: EventTypes, call: CallIds \cup {None}],
           NEW y \in ProcStates, event' = [event EXCEPT ![h] = e], Resume(h, y), HandlerWell(e, y), ~Prompting(y),
           UNCHANGED <<storeVars, ask, sweep, calls, sent, budgetVars>>, fresh' \subseteq sent
    PROVE  ServiceInv'
<1>1. TableMoves /\ Budget
  BY BudgetKept, StoreUnchanged DEF ServiceInv
<1>2. /\ h \in Processes /\ proc \in [Processes -> ProcStates] /\ proc' = [proc EXCEPT ![h] = y]
      /\ event \in [Handlers -> [type: EventTypes, call: CallIds \cup {None}]]
      /\ ask' = ask /\ sweep' = sweep /\ calls' = calls /\ sent' = sent
  BY HandlerFacts DEF ServiceInv, Typed, Resume
<1>3. proc' \in [Processes -> ProcStates]
  BY <1>2
<1>4. event' \in [Handlers -> [type: EventTypes, call: CallIds \cup {None}]]
  BY <1>2
<1>5. Typed'
  BY <1>1, <1>2, <1>3, <1>4 DEF ServiceInv, Typed, Budget
<1>6. /\ event'[h] = e /\ proc'[h] = y
      /\ \A g \in Handlers : g # h => event'[g] = event[g] /\ proc'[g] = proc[g]
      /\ \A a \in Asks : proc'[a] = proc[a]
  BY <1>2, ProcessesAssumption DEF Processes
<1>7. \A a \in Asks : AskWell(ask'[a], proc'[a])
  BY <1>2, <1>6, AskFacts
<1>8. \A g \in Handlers : HandlerWell(event'[g], proc'[g])
  <2> SUFFICES ASSUME NEW g \in Handlers PROVE HandlerWell(event'[g], proc'[g])
    OBVIOUS
  <2> QED
    BY <1>6, HandlerFacts
<1>9. CreatorsStay /\ NoNewCreators /\ NoNewClaimants /\ SameCalls
  BY <1>2, <1>6 DEF CreatorsStay, NoNewCreators, NoNewClaimants, SameCalls
<1>10. /\ \A c \in CallIds : CallWell(calls'[c])
       /\ \A f \in sent' : calls[f.call].req # None
  BY <1>2 DEF ServiceInv, CallsWell, SentWell
<1> QED
  BY <1>1, <1>2, <1>5, <1>7, <1>8, <1>9, <1>10, Keeps DEF TableMoves

LEMMA DeliverSteps ==
    ASSUME ServiceInv, NEW h \in Handlers, NEW e \in sent, Deliver(h, e)
    PROVE  ServiceInv'
<1> DEFINE r == calls[e.call].req
           y == [IdleProc EXCEPT !.pc = "get", !.req = r]
<1>1. /\ event' = [event EXCEPT ![h] = e] /\ Resume(h, y)
      /\ UNCHANGED <<storeVars, ask, sweep, calls, sent, budgetVars>> /\ fresh' = fresh
  BY DEF Deliver, acsVars
<1>2. e \in Events /\ fresh \subseteq sent /\ e.call \in CallIds
  BY DEF ServiceInv, Typed, Events
<1>3. r \in Requests
  BY <1>2 DEF ServiceInv, Typed, CallStates, SentWell
<1>4. e \in [type: EventTypes, call: CallIds \cup {None}]
  BY <1>2 DEF Events
<1>5. y.pc = "get" /\ y.req = r /\ y.frame = None
  BY DEF IdleProc
<1>6. y \in ProcStates
  <2> DEFINE z == [IdleProc EXCEPT !.req = r]
  <2>1. z \in ProcStates
    BY <1>3, IdleIsProc DEF ProcStates
  <2>2. y = [z EXCEPT !.pc = "get"]
    BY DEF IdleProc
  <2> HIDE DEF y, z
  <2> QED
    BY <2>1, <2>2, PcIsProc, Names
<1>7. None \notin {"start", "unattached"}
  BY NoneIsNoName DEF Frames
<1> HIDE DEF y
<1>8. HandlerWell(e, y) /\ ~Prompting(y)
  BY <1>3, <1>5, <1>7 DEF HandlerWell, HandlerBase, BlockPcs, HandlerPcs, CleanupPcs, Prompting
<1> QED
  BY <1>1, <1>2, <1>4, <1>6, <1>8, HandlerChanges

LEMMA RespondSteps ==
    ASSUME ServiceInv, NEW h \in Handlers, Respond(h)
    PROVE  ServiceInv'
<1>1. /\ event' = [event EXCEPT ![h] = NoEvent] /\ Resume(h, IdleProc)
      /\ UNCHANGED <<storeVars, ask, sweep, calls, sent, budgetVars>> /\ fresh' \subseteq fresh
  BY DEF Respond
<1>2. fresh \subseteq sent
  BY DEF ServiceInv, Typed
<1>3. NoEvent \in [type: EventTypes, call: CallIds \cup {None}]
  BY DEF NoEvent, EventTypes
<1>4. HandlerWell(NoEvent, IdleProc) /\ ~Prompting(IdleProc)
  <2>1. IdleProc.pc = "idle"
    BY DEF IdleProc
  <2> QED
    BY <2>1 DEF HandlerWell, BlockPcs, Prompting
<1> QED
  BY <1>1, <1>2, <1>3, <1>4, IdleIsProc, HandlerChanges
-----------------------------------------------------------------------------
(*                        The recognition, and the prompt                   *)

LEMMA ClaimSteps ==
    ASSUME ServiceInv, NEW h \in Handlers, Claim(h)
    PROVE  ServiceInv'
<1> DEFINE x == proc[h]
           y == Goto(x, "recheck")
<1>1. /\ x.pc = "claim" /\ ClaimRecognition(x.req) /\ now' = now
      /\ UNCHANGED <<ask, event, sweep>> /\ UNCHANGED acsVars /\ UNCHANGED budgetVars
      /\ Resume(h, IF Claimable(x.req) THEN y ELSE Finish(x, "ok"))
  BY DEF Claim
<1>2. /\ InBlockWell(h, x) /\ x.req \in Requests /\ x \in ProcStates /\ HandlerBase(event[h], x)
      /\ HandlerWell(event[h], x) /\ h \in Processes
  BY <1>1, BlockFacts, HandlerFacts DEF BlockPcs
<1>3. TableMoves /\ AcsMoves /\ Budget
  BY <1>1, <1>2, RecognitionClaimed, AcsUnchanged, BudgetKept DEF ServiceInv
<1>4. CASE ~Claimable(x.req)
  BY <1>1, <1>2, <1>3, <1>4, HandlerEnds, HandlerWrites
<1>5. CASE Claimable(x.req)
  <2>1. PICK r \in Requests : r = x.req /\ Claimable(r)
    BY <1>2, <1>5
  <2>2. y \in ProcStates /\ y = [x EXCEPT !.pc = "recheck"]
    BY <1>2, PcIsProc, Names DEF Goto
  <2>3. y.pc = "recheck" /\ y.req = r /\ y.frame = x.frame /\ y.stored = x.stored
    BY <1>2, <2>1, <2>2 DEF ProcStates
  <2>4. proc' = [proc EXCEPT ![h] = y]
    BY <1>1, <1>5 DEF Resume
  <2> HIDE DEF y
  <2>5. /\ ask' = ask /\ event' = event /\ sweep' = sweep /\ calls' = calls /\ sent' = sent
        /\ proc'[h] = y /\ \A p \in Processes : p # h => proc'[p] = proc[p]
        /\ proc' \in [Processes -> ProcStates]
    BY <1>1, <1>2, <2>2, <2>4 DEF acsVars, ServiceInv, Typed
  <2>6. Typed'
    BY <1>3, <2>5 DEF ServiceInv, Typed, AcsMoves, Budget
  <2>7. CallsStay /\ Moving
    <3>1. StoreInv' /\ RowsMove
      BY <1>3, StepOK, StoreMoves DEF ServiceInv, TableMoves
    <3> QED
      BY <1>3, <2>5, <2>6, <3>1 DEF CallsStay, Moving, TableMoves
  <2>8. AsksWell'
    <3> SUFFICES ASSUME NEW a \in Asks PROVE AskWell(ask[a], proc[a])'
      BY DEF AsksWell
    <3>1. AskWell(ask'[a], proc'[a])
      BY <2>5, AskFacts, HandlerFacts
    <3>2. proc'[a].pc \in {"verify", "create_call"} => \A c \in CallIds : calls'[c].req # proc'[a].req
      BY <2>5, <3>1 DEF AskWell
    <3> QED
      BY <2>7, <3>1, <3>2, AskStays DEF ServiceInv
  (* Nobody was prompted on the calls of a request whose recognition was not claimed. *)
  <2>9. \A c \in CallIds : calls[c].req = r => calls[c].prompts = 0
    <3> SUFFICES ASSUME NEW c \in CallIds, calls[c].req = r PROVE calls[c].prompts = 0
      OBVIOUS
    <3>1. calls[c].prompts \in Nat /\ CallWell(calls[c])
      BY DEF ServiceInv, Typed, CallStates, CallsWell
    <3> QED
      BY <2>1, <3>1 DEF CallWell, Claimable, IsPending
  <2>10. HandlerWell(event[h], proc[h])'
    <3>1. rows'[r] = [rows[r] EXCEPT !.recognitionStarted = @ \/ Claimable(r)] /\ rows[r] \in Row
      BY <1>1, <2>1, RowFacts DEF ClaimRecognition, ServiceInv
    <3>2. /\ rows'[r].recognitionStarted /\ rows'[r].status = rows[r].status
          /\ rows'[r].expiresAt = rows[r].expiresAt /\ rows'[r].callId = rows[r].callId
      BY <2>1, <3>1 DEF Row
    <3>3. HandlerBase(event[h], proc[h])'
      BY <1>2, <2>1, <2>3, <2>5 DEF HandlerBase
    <3>4. /\ rows[r].status \notin {"absent", "purged"}
          /\ x.stored.cutoff = Cutoff(r) /\ now <= x.stored.cutoff
          /\ x.stored.callId = event[h].call /\ rows[r].callId = event[h].call
      BY <1>1, <1>2, <2>1 DEF HandlerWell, BlockPcs
    <3>5. Cutoff(r)' = Cutoff(r)
      BY <3>2 DEF Cutoff
    <3>6. /\ rows'[r].status \notin {"absent", "purged"}
          /\ y.stored.cutoff = Cutoff(r)' /\ now' <= y.stored.cutoff
          /\ y.stored.callId = event'[h].call /\ rows'[r].callId = event'[h].call
      BY <1>1, <2>3, <2>5, <3>2, <3>4, <3>5
    <3>7. \A c \in CallIds : calls'[c].req = r => calls'[c].prompts = 0
      BY <2>5, <2>9
    <3>8. y.pc = "recheck" /\ y.pc \in HandlerPcs /\ event'[h] = event[h] /\ proc'[h] = y
      BY <2>3, <2>5 DEF HandlerPcs
    <3> QED
      BY <2>3, <3>2, <3>3, <3>6, <3>7, <3>8 DEF HandlerWell, BlockPcs
  <2>11. HandlersWell'
    <3> SUFFICES ASSUME NEW g \in Handlers, g # h PROVE HandlerWell(event[g], proc[g])'
      BY <2>10 DEF HandlersWell
    <3>1. HandlerWell(event'[g], proc'[g])
      BY <2>5, HandlerFacts
    <3>2. Prompting(proc'[g]) => \A c \in CallIds : calls'[c].req = proc'[g].req => calls'[c].prompts = 0
      BY <2>5, <3>1 DEF HandlerWell, Prompting
    <3> QED
      BY <2>7, <3>1, <3>2, HandlerStays DEF ServiceInv
  <2>12. \A a \in Asks : proc'[a] = proc[a]
    BY <2>5, ProcessesAssumption DEF Processes
  <2>13. OneCreator' /\ CreatorsStay
    BY <2>5, <2>12 DEF OneCreator, CreatorsStay, ServiceInv
  <2>14. OneClaimant'
    <3>1. \A g \in Handlers : Prompting(proc[g]) => proc[g].req # r
      <4> SUFFICES ASSUME NEW g \in Handlers, Prompting(proc[g]), proc[g].req = r PROVE FALSE
        OBVIOUS
      <4> QED
        BY <2>1, HandlerFacts DEF HandlerWell, Prompting, Claimable
    <3>2. \A g \in Handlers : g # h => proc'[g] = proc[g]
      BY <2>5 DEF Processes
    <3> QED
      BY <2>3, <2>5, <3>1, <3>2 DEF OneClaimant, ServiceInv
  <2>15. SentWell' /\ OneCallPerRequest' /\ PromptedOnce' /\ \A c \in CallIds : CallWell(calls'[c])
    BY <2>5 DEF ServiceInv, SentWell, OneCallPerRequest, PromptedOnce, CallsWell
  <2> QED
    BY <1>3, <2>5, <2>6, <2>7, <2>8, <2>11, <2>13, <2>14, <2>15, Assembled
<1> QED
  BY <1>4, <1>5

(* The handler that claimed the recognition is the first to prompt. *)
LEMMA PromptSteps ==
    ASSUME ServiceInv, NEW h \in Handlers, Prompt(h) \/ PromptFault(h)
    PROVE  ServiceInv'
<1> DEFINE x == proc[h]
           c == x.stored.callId
           r == x.req
<1>1. /\ x.pc = "prompt"
      /\ (calls[c].state = "connected" /\ Prompted(c)) \/ UNCHANGED calls
      /\ Resume(h, Finish(x, "ok")) \/ Resume(h, StartFail(x, "event"))
      /\ UNCHANGED <<storeVars, ask, event, sweep, sent, fresh>>
      /\ Fault \/ UNCHANGED budgetVars
  BY DEF Prompt, PromptFault
<1>2. /\ InBlockWell(h, x) /\ r \in Requests /\ x \in ProcStates /\ HandlerBase(event[h], x)
      /\ HandlerWell(event[h], x) /\ h \in Processes /\ event[h].call \in CallIds
      /\ calls[event[h].call].req = r
  BY <1>1, BlockFacts, HandlerFacts DEF BlockPcs
<1>3. c \in CallIds /\ calls[c].req = r /\ calls[c].prompts = 0
      /\ \A d \in CallIds : calls[d].req = r => calls[d].prompts = 0
  BY <1>1, <1>2 DEF HandlerWell
<1>4. PICK y : Resume(h, y) /\ GoesOn(h, y)
  BY <1>1, <1>2, HandlerEnds
<1>5. CASE UNCHANGED calls
  <2>1. UNCHANGED acsVars
    BY <1>1, <1>5 DEF acsVars
  <2> QED
    BY <1>1, <1>4, <2>1, HandlerGoesOn
<1>6. CASE calls[c].state = "connected" /\ Prompted(c)
  <2> DEFINE call == [calls[c] EXCEPT !.prompts = @ + 1, !.listening = rows[r].payload.kind]
  <2>1. calls \in [CallIds -> CallStates] /\ calls[c] \in CallStates
    BY <1>3 DEF ServiceInv, Typed
  <2>2. rows[r].payload.kind \in Kinds
    <3>1. rows[r].payload \in Payloads
      BY <1>2, RowFacts, NoneIsNobody DEF ServiceInv, InBlockWell, GoodRow, Filled, Row
    <3> QED
      BY <3>1, PayloadsAssumption
  <2>3. calls' = [calls EXCEPT ![c] = call]
    BY <1>3, <1>6, <2>1 DEF Prompted
  <2>4. /\ call \in CallStates /\ call.req = r /\ call.prompts = 1 /\ call.state = "connected"
    <3>1. PICK kind \in Kinds : kind = rows[r].payload.kind
      BY <2>2
    <3>2. PICK k : k = calls[c] /\ k \in CallStates /\ k.req = r /\ k.prompts = 0 /\ k.state = "connected"
      BY <1>3, <1>6, <2>1
    <3>3. call = [k EXCEPT !.prompts = 1, !.listening = kind]
      BY <3>1, <3>2
    <3> HIDE DEF call
    <3>4. call = [req |-> k.req, state |-> k.state, prompts |-> 1, listening |-> kind, playing |-> k.playing]
      BY <3>2, <3>3 DEF CallStates
    <3> QED
      BY <3>1, <3>2, <3>4 DEF CallStates
  <2> HIDE DEF call
  <2>5. calls'[c] = call /\ \A d \in CallIds : d # c => calls'[d] = calls[d]
    BY <1>3, <2>1, <2>3
  <2>6. calls' \in [CallIds -> CallStates]
    BY <1>3, <2>1, <2>3, <2>4
  <2>7. /\ ask' = ask /\ event' = event /\ sweep' = sweep /\ sent' = sent /\ fresh' = fresh /\ rows' = rows
        /\ now' = now /\ proc'[h] = y /\ \A p \in Processes : p # h => proc'[p] = proc[p]
        /\ proc' \in [Processes -> ProcStates]
    BY <1>1, <1>2, <1>4 DEF ServiceInv, Typed, Resume, GoesOn, storeVars
  <2>8. TableMoves /\ Budget
    BY <1>1, StoreUnchanged, BudgetKept DEF ServiceInv
  <2>9. Typed'
    BY <2>6, <2>7, <2>8 DEF ServiceInv, Typed, Budget
  <2>10. CallsStay /\ Moving
    <3>1. StoreInv' /\ RowsMove
      BY <2>8, StepOK, StoreMoves DEF ServiceInv, TableMoves
    <3>2. CallsStay
      BY <1>3, <2>4, <2>5 DEF CallsStay
    <3> QED
      BY <2>7, <2>9, <3>1, <3>2 DEF Moving
  <2>11. \A a \in Asks : proc'[a] = proc[a]
    BY <2>7, ProcessesAssumption DEF Processes
  <2>12. AsksWell'
    <3> SUFFICES ASSUME NEW a \in Asks PROVE AskWell(ask[a], proc[a])'
      BY DEF AsksWell
    <3>1. AskWell(ask'[a], proc'[a])
      BY <2>7, <2>11, AskFacts
    <3>2. proc'[a].pc \in {"verify", "create_call"} => \A d \in CallIds : calls'[d].req # proc'[a].req
      BY <1>3, <2>4, <2>5, <3>1 DEF AskWell
    <3> QED
      BY <2>10, <3>1, <3>2, AskStays DEF ServiceInv
  <2>13. HandlersWell'
    <3> SUFFICES ASSUME NEW g \in Handlers PROVE HandlerWell(event[g], proc[g])'
      BY DEF HandlersWell
    <3>1. HandlerWell(event'[g], proc'[g])
      BY <1>4, <2>7, HandlerFacts DEF GoesOn
    <3>2. Prompting(proc'[g]) => \A d \in CallIds : calls'[d].req = proc'[g].req => calls'[d].prompts = 0
      <4> SUFFICES ASSUME Prompting(proc'[g]), NEW d \in CallIds, calls'[d].req = proc'[g].req
                   PROVE  calls'[d].prompts = 0
        OBVIOUS
      <4>1. g # h
        BY <1>4, <2>7 DEF GoesOn
      <4>2. proc'[g] = proc[g]
        BY <2>7, <4>1 DEF Processes
      <4>3. proc[g].req # r
        BY <1>1, <4>1, <4>2 DEF ServiceInv, OneClaimant, Prompting
      <4>4. d # c /\ calls'[d] = calls[d]
        BY <2>4, <2>5, <4>2, <4>3
      <4> QED
        BY <4>2, <4>4, HandlerFacts DEF HandlerWell, Prompting
    <3> QED
      BY <2>10, <3>1, <3>2, HandlerStays DEF ServiceInv
  <2>14. OneCreator' /\ CreatorsStay
    BY <2>7, <2>11 DEF OneCreator, CreatorsStay, ServiceInv
  <2>15. OneClaimant'
    <3>1. \A g \in Handlers : Prompting(proc'[g]) => proc'[g] = proc[g]
      BY <1>4, <2>7 DEF GoesOn, Processes
    <3> QED
      BY <3>1 DEF OneClaimant, ServiceInv
  <2>16. SentWell' /\ OneCallPerRequest'
    <3>1. \A d \in CallIds : calls'[d].req = calls[d].req
      BY <1>3, <2>4, <2>5
    <3> QED
      BY <2>7, <3>1 DEF ServiceInv, Typed, Events, SentWell, OneCallPerRequest
  <2>17. PromptedOnce'
    BY <2>4, <2>5 DEF ServiceInv, PromptedOnce
  <2>18. \A d \in CallIds : CallWell(calls'[d])
    <3>1. rows[r].recognitionStarted /\ rows[r].status # "absent"
      BY <1>1, <1>2 DEF HandlerWell, InBlockWell
    <3>2. CallWell(call)
      BY <1>2, <2>4, <3>1, NoneIsNoName DEF CallWell
    <3> QED
      BY <2>5, <3>2 DEF ServiceInv, CallsWell
  <2> QED
    BY <2>7, <2>8, <2>9, <2>10, <2>12, <2>13, <2>14, <2>15, <2>16, <2>17, <2>18, Assembled
<1> QED
  BY <1>1, <1>5, <1>6
==============================================================================
