---------------------------- MODULE ServiceLemmas ----------------------------
(***************************************************************************)
(* Proofs about AskHumanService, for any number of invocations, deliveries, *)
(* requests, calls, failures and restarts, and any times.                   *)
(*                                                                          *)
(* ServiceInv says what each coroutine may rely on at the dependency call   *)
(* it awaits, whatever the others did since it last looked: that its row is *)
(* its own and still there (AskWell, HandlerWell), whose call a call is,    *)
(* and who alone may place a call or prompt the person.  It holds together  *)
(* because a row only moves on (RowMoves) and is purged only when nobody    *)
(* can be waiting for it any more (RowTimes).  A step is then the table's   *)
(* move, which leaves every coroutine what it relies on (the Stays lemmas), *)
(* and the next record of the coroutine that takes it (the Well lemmas).    *)
(***************************************************************************)
EXTENDS AskHumanService, RequestStoreProofs

(* A live row expires a deadline after its ask began, at most, and the      *)
(* INSERT came no later than the cutoff of that ask.                        *)
RowTimes(row) ==
    row.status \notin {"absent", "purged"} =>
        /\ row.key \in Keys
        /\ Deadline - WorkCutoff <= row.expiresAt
        /\ row.expiresAt <= now + Deadline
        /\ row.status # "pending" => row.expiresAt <= row.completedAt + Deadline /\ row.completedAt <= now

TimesWell == \A r \in Requests : RowTimes(rows[r])

(* The row that an invocation works on: its question, under its key, and no *)
(* verdict from before it began.                                            *)
Mine(q, r) ==
    /\ r \in Requests
    /\ rows[r].status \notin {"absent", "purged"}
    /\ rows[r].key = q.key /\ rows[r].payload = q.payload
    /\ rows[r].status # "pending" => q.started <= rows[r].completedAt

Asked(q) == q.key \in Keys /\ q.payload \in Payloads /\ q.started <= now

(* What an invocation returns as the outcome is on record. *)
OnRecord(q, r, result) ==
    /\ r \in Requests
    /\ rows[r].status # "absent"
    /\ rows[r].status # "purged" =>
          rows[r].outcome = result /\ rows[r].key = q.key /\ rows[r].payload = q.payload

WorkPcs == (AskPcs \ {"insert", "lookup"}) \cup CleanupPcs

(* What an invocation is about to record for its request. *)
MayExpire(q, x) ==
    /\ x.outcome \in ExpiryOutcomes
    /\ x.outcome = "cancelled" => q.role = "creator" /\ q.cancelled

(* The invocation with the arguments q has the coroutine x. *)
AskBase(q, x) == q.role \in Roles /\ x.frame # "late" /\ Asked(q) /\ now <= q.started + Deadline /\ Mine(q, x.req)

LeaveWell(q, x) ==
    /\ x.next \in {"done", "fail", "poll", "expire"}
    /\ x.next = "done" /\ x.result \in Outcomes => rows[x.req].outcome = x.result
    /\ x.next = "expire" => MayExpire(q, x)

AskWell(q, x) ==
    /\ x.pc \in {"idle", "done", "insert", "lookup"} \cup WorkPcs
    /\ x.pc = "idle" => x.req = None /\ q.role = None /\ x.result = None
    /\ x.pc # "idle" => Asked(q)
    /\ x.pc \in {"insert", "lookup"} =>
          /\ x.req = None /\ q.role = None /\ x.frame # "late"
          /\ now <= q.started + WorkCutoff
    /\ x.pc \in WorkPcs => AskBase(q, x)
    /\ x.pc = "done" =>
          /\ x.req # None => x.req \in Requests /\ rows[x.req].status # "absent"
          /\ x.result \in Outcomes => OnRecord(q, x.req, x.result)
    /\ x.pc = "hang_up" => LeaveWell(q, x)
    /\ x.pc = "expire" => MayExpire(q, x)
    /\ x.pc \in {"verify", "create_call"} =>
          q.role = "creator" /\ \A c \in CallIds : calls[c].req # x.req
    /\ x.pc \in {"attach", "confirm", "unattached"} =>
          q.callId \in CallIds /\ calls[q.callId].req = x.req

BlockPcs == {"bind", "reload", "claim", "recheck", "prompt", "complete"}

(* A delivery of the event e has the coroutine x. *)
HandlerBase(e, x) ==
    /\ x.frame \notin {"start", "unattached"}
    /\ e \in sent /\ x.req \in Requests /\ x.req = calls[e.call].req

(* Within the block, the row is there with the cutoff of the snapshot, and  *)
(* once the event is known to be of the attached call, it stays so.         *)
HandlerWell(e, x) ==
    /\ x.pc \in {"idle", "done"} \cup HandlerPcs \cup CleanupPcs
    /\ x.pc # "idle" => HandlerBase(e, x)
    /\ x.pc \in BlockPcs =>
          /\ rows[x.req].status \notin {"absent", "purged"}
          /\ x.stored.cutoff = Cutoff(x.req) /\ now <= x.stored.cutoff
    /\ x.pc \in {"claim", "recheck", "prompt", "complete"} =>
          x.stored.callId = e.call /\ rows[x.req].callId = e.call
    /\ x.pc = "complete" => e.type \in Outcomes
    /\ x.pc = "hang_up" => x.next \in {"done", "fail"}
    /\ x.pc = "expire" => x.outcome \in ExpiryOutcomes \ {"cancelled"}
    /\ x.pc \in {"recheck", "prompt"} =>
          /\ rows[x.req].recognitionStarted
          /\ \A c \in CallIds : calls[c].req = x.req => calls[c].prompts = 0

AsksWell == \A a \in Asks : AskWell(ask[a], proc[a])
HandlersWell == \A h \in Handlers : HandlerWell(event[h], proc[h])

(* A request has one creator, and the recognition one claimant. *)
OneCreator ==
    \A a, b \in Asks :
        ask[a].role = "creator" /\ ask[b].role = "creator" /\ proc[a].req = proc[b].req /\ proc[a].req # None
            => a = b

Prompting(x) == x.pc \in {"recheck", "prompt"}

OneClaimant ==
    \A g, h \in Handlers : Prompting(proc[g]) /\ Prompting(proc[h]) /\ proc[g].req = proc[h].req => g = h

(* ACS only knows of calls that the service placed, each for one request.   *)
CallWell(call) ==
    /\ call.state = "unused" <=> call.req = None
    /\ call.state = "unused" => call.listening = None /\ call.prompts = 0
    /\ call.req # None => rows[call.req].status # "absent"
    /\ call.prompts > 0 => rows[call.req].recognitionStarted \/ rows[call.req].status = "purged"

CallsWell == \A c \in CallIds : CallWell(calls[c])
SentWell == \A e \in sent : calls[e.call].req # None

(* A request is only attached a call that was placed for it. *)
AttachedWell == \A r \in Requests : rows[r].callId # None => calls[rows[r].callId].req = r

(* The variables of the service and of ACS have their types. *)
Typed ==
    /\ ask \in [Asks -> AskStates]
    /\ proc \in [Processes -> ProcStates]
    /\ calls \in [CallIds -> CallStates]
    /\ event \in [Handlers -> [type: EventTypes, call: CallIds \cup {None}]]
    /\ sweep \subseteq CallIds
    /\ sent \subseteq Events /\ fresh \subseteq sent
    /\ faults \in 0..MaxFaults /\ crashes \in 0..MaxCrashes

ServiceInv ==
    /\ StoreInv /\ TimesWell /\ Typed
    /\ AsksWell /\ HandlersWell
    /\ OneCreator /\ OneClaimant
    /\ CallsWell /\ SentWell /\ AttachedWell
    /\ OneCallPerRequest /\ PromptedOnce /\ AnswerIsHuman /\ CancelledByCreator
-----------------------------------------------------------------------------
(*                      What a statement does to a row                      *)

(* A row is inserted under a key, moves on while it is pending, and is left *)
(* alone once it is terminal, until its purge is due.                       *)
RowMoves(r) ==
    \/ rows'[r] = rows[r]
    \/ /\ rows[r].status = "absent"
       /\ rows'[r].status = "pending" /\ rows'[r].key \in Keys
       /\ rows'[r].callId = None /\ rows'[r].outcome = None
       /\ rows'[r].expiresAt \in (now + Deadline - WorkCutoff) .. (now + Deadline)
    \/ /\ rows[r].status = "pending"
       /\ rows'[r].status \in {"pending"} \cup TerminalStatuses
       /\ rows'[r].key = rows[r].key /\ rows'[r].payload = rows[r].payload
       /\ rows'[r].expiresAt = rows[r].expiresAt
       /\ rows[r].callId # None => rows'[r].callId = rows[r].callId
       /\ rows[r].recognitionStarted => rows'[r].recognitionStarted
       /\ rows'[r].status # "pending" => rows'[r].completedAt = now
    \/ /\ rows[r].status \in TerminalStatuses /\ rows[r].completedAt + Retention < now
       /\ rows'[r] = NoRow("purged")

RowsMove == \A r \in Requests : RowMoves(r)

LEMMA RowFacts ==
    ASSUME StoreInv, NEW r \in Requests
    PROVE  /\ rows[r] \in Row /\ GoodRow(rows[r])
           /\ now \in Nat /\ rows \in [Requests -> Row]
           /\ IsTerminal(r) => rows[r].completedAt \in Nat
           /\ rows[r].status \in {"absent", "purged"} => rows[r] = NoRow(rows[r].status)
  BY NoneIsNobody DEF StoreInv, GoodRows, GoodRow, IsTerminal, TerminalStatuses, Lifecycle, Row

LEMMA InsertMoves ==
    ASSUME StoreInv, NEW q \in Requests, NEW k \in Keys, NEW p \in Payloads,
           NEW e \in (now + Deadline - WorkCutoff) .. (now + Deadline), InsertPending(q, k, p, e),
           NEW r \in Requests
    PROVE  RowMoves(r)
<1>1. rows \in [Requests -> Row]
  BY RowFacts
<1> DEFINE row == [NoRow("pending") EXCEPT !.key = k, !.payload = p, !.expiresAt = e]
<1>2. /\ row.status = "pending" /\ row.key = k /\ row.expiresAt = e
      /\ row.callId = None /\ row.outcome = None
  BY DEF NoRow
<1>3. rows' = [rows EXCEPT ![q] = row] /\ rows[q].status = "absent"
  BY DEF InsertPending
<1> HIDE DEF row
<1> QED
  BY <1>1, <1>2, <1>3 DEF RowMoves

LEMMA SettleMoves ==
    ASSUME StoreInv, NEW q \in Requests, NEW status \in TerminalStatuses, NEW outcome, NEW enabled,
           rows' = [rows EXCEPT ![q] = IF enabled THEN Settled(@, status, outcome) ELSE @],
           enabled => IsPending(q),
           NEW r \in Requests
    PROVE  RowMoves(r)
<1>1. rows \in [Requests -> Row] /\ rows[q] \in Row
  BY RowFacts
<1> DEFINE row == Settled(rows[q], status, outcome)
<1>2. /\ row.status = status /\ row.key = rows[q].key /\ row.payload = rows[q].payload
      /\ row.expiresAt = rows[q].expiresAt /\ row.callId = rows[q].callId
      /\ row.recognitionStarted = rows[q].recognitionStarted /\ row.completedAt = now
  BY <1>1 DEF Settled, Row
<1>3. rows' = [rows EXCEPT ![q] = IF enabled THEN row ELSE @]
  OBVIOUS
<1> HIDE DEF row
<1> QED
  BY <1>1, <1>2, <1>3 DEF RowMoves, IsPending

LEMMA AttachMoves ==
    ASSUME StoreInv, NEW q \in Requests, NEW c \in CallIds, AttachCallId(q, c), NEW r \in Requests
    PROVE  RowMoves(r)
<1>1. rows \in [Requests -> Row] /\ rows[q] \in Row
  BY RowFacts
<1> DEFINE row == [rows[q] EXCEPT !.callId = IF Attachable(q, c) THEN c ELSE @]
<1>2. /\ row.status = rows[q].status /\ row.key = rows[q].key /\ row.payload = rows[q].payload
      /\ row.expiresAt = rows[q].expiresAt
      /\ row.recognitionStarted = rows[q].recognitionStarted
      /\ rows[q].callId # None => row.callId = rows[q].callId
      /\ ~IsPending(q) => row = rows[q]
  BY <1>1 DEF Row, Attachable
<1>3. rows' = [rows EXCEPT ![q] = row]
  BY DEF AttachCallId
<1> HIDE DEF row
<1> QED
  BY <1>1, <1>2, <1>3 DEF RowMoves, IsPending

LEMMA ClaimMoves ==
    ASSUME StoreInv, NEW q \in Requests, ClaimRecognition(q), NEW r \in Requests
    PROVE  RowMoves(r)
<1>1. rows \in [Requests -> Row] /\ rows[q] \in Row
  BY RowFacts
<1> DEFINE row == [rows[q] EXCEPT !.recognitionStarted = @ \/ Claimable(q)]
<1>2. /\ row.status = rows[q].status /\ row.key = rows[q].key /\ row.payload = rows[q].payload
      /\ row.expiresAt = rows[q].expiresAt /\ row.callId = rows[q].callId
      /\ rows[q].recognitionStarted => row.recognitionStarted
      /\ ~IsPending(q) => row = rows[q]
  BY <1>1 DEF Row, Claimable
<1>3. rows' = [rows EXCEPT ![q] = row]
  BY DEF ClaimRecognition
<1> HIDE DEF row
<1> QED
  BY <1>1, <1>2, <1>3 DEF RowMoves, IsPending

LEMMA ExpireMoves ==
    ASSUME StoreInv, ExpireStaleCalls, NEW r \in Requests
    PROVE  RowMoves(r)
<1>1. rows[r] \in Row
  BY RowFacts
<1> DEFINE row == Settled(rows[r], "expired", "deadline_exceeded")
<1>2. /\ row.status = "expired" /\ row.key = rows[r].key /\ row.payload = rows[r].payload
      /\ row.expiresAt = rows[r].expiresAt /\ row.callId = rows[r].callId
      /\ row.recognitionStarted = rows[r].recognitionStarted /\ row.completedAt = now
  BY <1>1 DEF Settled, Row
<1>3. rows'[r] = IF r \in Stale THEN row ELSE rows[r]
  BY DEF ExpireStaleCalls
<1> HIDE DEF row
<1> QED
  BY <1>2, <1>3 DEF RowMoves, Stale, PendingRows, IsPending, TerminalStatuses

LEMMA PurgeMoves ==
    ASSUME StoreInv, PurgeTerminal, NEW r \in Requests
    PROVE  RowMoves(r)
  BY DEF PurgeTerminal, RowMoves, Purgeable, IsTerminal

LEMMA StoreMoves ==
    ASSUME StoreInv, [StoreNext]_storeVars
    PROVE  RowsMove
<1> SUFFICES ASSUME NEW r \in Requests PROVE RowMoves(r)
  BY DEF RowsMove
<1>1. CASE Tick \/ UNCHANGED storeVars
  BY <1>1 DEF Tick, storeVars, RowMoves
<1>2. CASE \E q \in Requests, k \in Keys, p \in Payloads :
             \E e \in (now + Deadline - WorkCutoff) .. (now + Deadline) : InsertPending(q, k, p, e)
  BY <1>2, InsertMoves
<1>3. CASE \E q \in Requests, c \in CallIds : AttachCallId(q, c)
  BY <1>3, AttachMoves
<1>4. CASE \E q \in Requests : ClaimRecognition(q)
  BY <1>4, ClaimMoves
<1>5. CASE \E q \in Requests, o \in Outcomes :
             \E before \in Limits(q) : CompleteIfPending(q, o, before)
  <2>1. PICK q \in Requests, o \in Outcomes : \E before \in Limits(q) : CompleteIfPending(q, o, before)
    BY <1>5
  <2>2. PICK before \in Limits(q) : CompleteIfPending(q, o, before)
    BY <2>1
  <2>3. StatusOf(o) \in TerminalStatuses /\ (Completable(q, o, before) => IsPending(q))
    BY DEF StatusOf, TerminalStatuses, Completable
  <2> QED
    BY <2>2, <2>3, SettleMoves DEF CompleteIfPending
<1>6. CASE \E q \in Requests : CompleteErrorIfPending(q)
  <2>1. "failed" \in TerminalStatuses
    BY DEF TerminalStatuses
  <2> QED
    BY <1>6, <2>1, SettleMoves DEF CompleteErrorIfPending
<1>7. CASE ExpireStaleCalls \/ PurgeTerminal
  BY <1>7, ExpireMoves, PurgeMoves
<1> QED
  BY <1>1, <1>2, <1>3, <1>4, <1>5, <1>6, <1>7 DEF StoreNext, WriteRow

(* Rows keep to their times. *)
LEMMA TimesStay ==
    ASSUME StoreInv, TimesWell, RowsMove, StoreInv', now' \in {now, now + 1}
    PROVE  TimesWell'
<1> SUFFICES ASSUME NEW r \in Requests PROVE RowTimes(rows[r])'
  BY DEF TimesWell
<1>1. /\ RowTimes(rows[r]) /\ RowMoves(r) /\ rows[r] \in Row /\ GoodRow(rows[r]) /\ now \in Nat
      /\ rows'[r] \in Row /\ GoodRow(rows'[r])
      /\ IsTerminal(r) => rows[r].completedAt \in Nat
  BY RowFacts DEF TimesWell, RowsMove, StoreInv, GoodRows
<1>2. /\ rows[r].status \notin {"absent", "purged"} => rows[r].expiresAt \in Nat
      /\ rows[r].status \in {"absent", "pending", "purged"} \cup TerminalStatuses
  BY <1>1 DEF GoodRow, Filled, Row
<1>3. CASE rows'[r] = rows[r]
  BY <1>1, <1>2, <1>3, TimesAssumption DEF RowTimes, IsTerminal
<1>4. CASE rows[r].status = "absent" /\ rows'[r] # rows[r]
  BY <1>1, <1>4, TimesAssumption DEF RowTimes, RowMoves, TerminalStatuses
<1>5. CASE rows[r].status = "pending" /\ rows'[r] # rows[r]
  BY <1>1, <1>2, <1>5, TimesAssumption DEF RowTimes, RowMoves, TerminalStatuses
<1>6. CASE IsTerminal(r) /\ rows'[r] # rows[r]
  BY <1>1, <1>6 DEF RowTimes, RowMoves, TerminalStatuses, IsTerminal, NoRow
<1> QED
  BY <1>1, <1>2, <1>3, <1>4, <1>5, <1>6 DEF RowMoves, IsTerminal

(* No row is purged before its expiry. *)
LEMMA PurgedAfterExpiry ==
    ASSUME StoreInv, TimesWell, NEW r \in Requests, RowMoves(r), IsTerminal(r), rows'[r] # rows[r]
    PROVE  rows[r].expiresAt < now /\ rows[r].completedAt + Deadline < now /\ rows'[r] = NoRow("purged")
<1>1. /\ RowTimes(rows[r]) /\ GoodRow(rows[r]) /\ now \in Nat /\ rows[r].completedAt \in Nat
  BY RowFacts DEF TimesWell
<1>2. rows[r].expiresAt \in Nat
  BY <1>1 DEF GoodRow, Filled, IsTerminal, TerminalStatuses
<1>3. rows[r].completedAt + Retention < now /\ rows'[r] = NoRow("purged")
  BY DEF RowMoves, IsTerminal, TerminalStatuses
<1> QED
  BY <1>1, <1>2, <1>3, TimesAssumption DEF RowTimes, IsTerminal, TerminalStatuses
-----------------------------------------------------------------------------
(*            What each part of the invariant withstands: the Stays         *)

(* A call stays a call for its request. *)
CallsStay == \A c \in CallIds : calls[c].req # None => calls'[c].req = calls[c].req

Moving == RowsMove /\ now' = now /\ CallsStay /\ sent \subseteq sent' /\ StoreInv' /\ Typed'

LEMMA NoneIsNoName ==
    /\ None \notin Requests /\ None \notin Roles /\ None \notin Frames /\ None \notin Results
    /\ None \notin {"done", "fail", "poll", "expire"}
  BY NoneAssumption, NamesAssumption DEF CleanupPcs

(* Whatever the table does, a row that was inserted stays so, and one that  *)
(* an invocation in time works on stays its own.                            *)
LEMMA InsertedStays ==
    ASSUME StoreInv, RowsMove, NEW r \in Requests, rows[r].status # "absent"
    PROVE  rows'[r].status # "absent"
  BY DEF RowsMove, RowMoves, TerminalStatuses, NoRow

LEMMA MineStays ==
    ASSUME StoreInv, TimesWell, RowsMove, now' = now,
           NEW q, NEW r, q.started \in Nat, Asked(q), now <= q.started + Deadline, Mine(q, r)
    PROVE  /\ rows'[r].status \notin {"absent", "purged"}
           /\ rows'[r].key = q.key /\ rows'[r].payload = q.payload
           /\ rows'[r].status # "pending" => q.started <= rows'[r].completedAt
           /\ \A o \in Outcomes : rows[r].outcome = o => rows'[r].outcome = o
<1>1. /\ r \in Requests /\ RowMoves(r) /\ GoodRow(rows[r]) /\ rows[r] \in Row /\ now \in Nat
      /\ IsTerminal(r) => rows[r].completedAt \in Nat
      /\ rows[r].status = "pending" \/ IsTerminal(r)
  BY RowFacts DEF RowsMove, Mine, Row, IsTerminal
<1>2. CASE rows'[r] = rows[r]
  BY <1>2 DEF Mine
<1>3. CASE rows[r].status = "pending" /\ rows'[r] # rows[r]
  BY <1>1, <1>3, NoneIsNobody DEF RowMoves, Mine, Asked, TerminalStatuses, GoodRow, Lifecycle
<1>4. CASE IsTerminal(r) /\ rows'[r] # rows[r]
  <2>1. rows[r].completedAt + Deadline < now
    BY <1>1, <1>4, PurgedAfterExpiry
  <2>2. q.started <= rows[r].completedAt
    BY <1>4 DEF Mine, IsTerminal, TerminalStatuses
  <2> QED
    BY <1>1, <1>4, <2>1, <2>2, TimesAssumption
<1> QED
  BY <1>1, <1>2, <1>3, <1>4

LEMMA OnRecordStays ==
    ASSUME StoreInv, RowsMove, NEW q, NEW r, NEW o \in Outcomes, OnRecord(q, r, o)
    PROVE  /\ rows'[r].status # "absent"
           /\ rows'[r].status # "purged" =>
                 rows'[r].outcome = o /\ rows'[r].key = q.key /\ rows'[r].payload = q.payload
<1>1. r \in Requests /\ RowMoves(r) /\ GoodRow(rows[r]) /\ rows[r].status # "absent" /\ rows'[r].status # "absent"
  BY RowFacts, InsertedStays DEF OnRecord, RowsMove
<1>2. rows[r].status # "pending"
  BY <1>1, NoneIsNobody DEF OnRecord, GoodRow, Lifecycle
<1>3. rows'[r] = rows[r] \/ rows'[r].status = "purged"
  BY <1>1, <1>2 DEF RowMoves, NoRow
<1> QED
  BY <1>1, <1>3 DEF OnRecord

LEMMA AskStays ==
    ASSUME StoreInv, TimesWell, Moving, NEW a \in Asks, AskWell(ask'[a], proc'[a]),
           proc'[a].pc \in {"verify", "create_call"} => \A c \in CallIds : calls'[c].req # proc'[a].req
    PROVE  AskWell(ask[a], proc[a])'
<1>1. PICK q \in AskStates, x \in ProcStates : q = ask'[a] /\ x = proc'[a]
  BY DEF Moving, Typed, Processes
<1>2. AskWell(q, x) /\ RowsMove /\ now' = now /\ CallsStay /\ q.started \in Nat
  BY <1>1 DEF Moving, AskStates
<1>3. x.pc \in WorkPcs =>
        /\ Asked(q) /\ now <= q.started + Deadline /\ Mine(q, x.req) /\ x.req \in Requests
        /\ rows'[x.req].status \notin {"absent", "purged"}
        /\ rows'[x.req].key = q.key /\ rows'[x.req].payload = q.payload
        /\ rows'[x.req].status # "pending" => q.started <= rows'[x.req].completedAt
        /\ \A o \in Outcomes : rows[x.req].outcome = o => rows'[x.req].outcome = o
  BY <1>2, MineStays DEF AskWell, AskBase, Mine
<1>4. x.pc = "done" =>
        /\ x.req # None => x.req \in Requests /\ rows'[x.req].status # "absent"
        /\ x.result \in Outcomes =>
              /\ x.req \in Requests /\ rows'[x.req].status # "absent"
              /\ rows'[x.req].status # "purged" =>
                    rows'[x.req].outcome = x.result /\ rows'[x.req].key = q.key /\ rows'[x.req].payload = q.payload
  BY <1>2, InsertedStays, OnRecordStays DEF AskWell, OnRecord
<1>5. x.pc \in {"attach", "confirm", "unattached"} =>
        q.callId \in CallIds /\ calls'[q.callId].req = x.req
  <2>1. x.pc \in {"attach", "confirm", "unattached"} => x.req # None
    BY <1>3, NoneIsNoName DEF WorkPcs, AskPcs
  <2> QED
    BY <1>2, <2>1 DEF AskWell, CallsStay
<1>6. x.pc = "hang_up" =>
        /\ x.next \in {"done", "fail", "poll", "expire"}
        /\ x.next = "done" /\ x.result \in Outcomes => rows'[x.req].outcome = x.result
        /\ x.next = "expire" => MayExpire(q, x)
  <2>1. x.pc = "hang_up" => x.pc \in WorkPcs
    BY DEF WorkPcs, CleanupPcs
  <2> QED
    BY <1>2, <1>3, <2>1 DEF AskWell, LeaveWell
<1> QED
  BY <1>1, <1>2, <1>3, <1>4, <1>5, <1>6
  DEF AskWell, AskBase, Asked, Mine, OnRecord, LeaveWell, MayExpire

LEMMA HandlerStays ==
    ASSUME StoreInv, TimesWell, Moving, NEW h \in Handlers, HandlerWell(event'[h], proc'[h]),
           Prompting(proc'[h]) => \A c \in CallIds : calls'[c].req = proc'[h].req => calls'[c].prompts = 0
    PROVE  HandlerWell(event[h], proc[h])'
<1>1. PICK e \in [type: EventTypes, call: CallIds \cup {None}], x \in ProcStates : e = event'[h] /\ x = proc'[h]
  BY DEF Moving, Typed, Processes
<1>2. HandlerWell(e, x) /\ RowsMove /\ now' = now /\ CallsStay /\ sent \subseteq sent'
  BY <1>1 DEF Moving
<1>3. x.pc # "idle" => HandlerBase(e, x) /\ e \in sent' /\ x.req = calls'[e.call].req
  <2> SUFFICES ASSUME x.pc # "idle" PROVE e \in sent' /\ x.req = calls'[e.call].req
    BY <1>2 DEF HandlerWell
  <2>1. HandlerBase(e, x) /\ e \in sent'
    BY <1>2 DEF HandlerWell, HandlerBase
  <2>2. e.call \in CallIds
    BY <2>1 DEF Moving, Typed, Events
  <2> QED
    BY <1>2, <2>1, <2>2, NoneIsNoName DEF HandlerBase, CallsStay
<1>4. x.pc \in BlockPcs =>
        /\ rows'[x.req].status \notin {"absent", "purged"}
        /\ rows'[x.req].expiresAt = rows[x.req].expiresAt
        /\ rows[x.req].callId # None => rows'[x.req].callId = rows[x.req].callId
        /\ rows[x.req].recognitionStarted => rows'[x.req].recognitionStarted
  <2> SUFFICES ASSUME x.pc \in BlockPcs
               PROVE  /\ rows'[x.req].status \notin {"absent", "purged"}
                      /\ rows'[x.req].expiresAt = rows[x.req].expiresAt
                      /\ rows[x.req].callId # None => rows'[x.req].callId = rows[x.req].callId
                      /\ rows[x.req].recognitionStarted => rows'[x.req].recognitionStarted
    OBVIOUS
  <2>1. x.pc # "idle"
    BY DEF BlockPcs
  <2>2. /\ x.req \in Requests /\ RowMoves(x.req) /\ rows[x.req] \in Row /\ GoodRow(rows[x.req])
        /\ rows[x.req].status \notin {"absent", "purged"} /\ now <= Cutoff(x.req) /\ now \in Nat
    BY <1>2, <1>3, <2>1, RowFacts DEF HandlerWell, HandlerBase, RowsMove
  <2>3. rows[x.req].expiresAt \in Nat /\ now <= rows[x.req].expiresAt
    BY <2>2, TimesAssumption DEF GoodRow, Filled, Cutoff
  <2>4. CASE IsTerminal(x.req)
    <3>1. rows'[x.req] = rows[x.req]
      BY <1>2, <2>2, <2>3, <2>4, PurgedAfterExpiry
    <3> QED
      BY <2>2, <3>1
  <2>5. CASE ~IsTerminal(x.req)
    BY <2>2, <2>5 DEF RowMoves, IsTerminal, Row, TerminalStatuses
  <2> QED
    BY <2>4, <2>5
<1>5. x.pc \in {"claim", "recheck", "prompt", "complete"} => e.call # None /\ x.pc \in BlockPcs /\ x.pc # "idle"
  <2>1. x.pc \in {"claim", "recheck", "prompt", "complete"} => x.pc \in BlockPcs /\ x.pc # "idle"
    BY DEF BlockPcs
  <2>2. x.pc # "idle" => e.call # None
    BY <1>3, NoneIsNobody DEF Moving, Typed, Events
  <2> QED
    BY <2>1, <2>2
<1>6. Prompting(x) => \A c \in CallIds : calls'[c].req = x.req => calls'[c].prompts = 0
  BY <1>1
<1>7. x.pc \in BlockPcs => x.stored.cutoff = rows'[x.req].expiresAt - (Deadline - WorkCutoff)
  BY <1>2, <1>4 DEF HandlerWell, Cutoff
<1>8. HandlerWell(e, x)'
  <2>1. x.pc # "idle" => HandlerBase(e, x)'
    BY <1>3 DEF HandlerBase
  <2>2. x.pc \in BlockPcs =>
          /\ rows'[x.req].status \notin {"absent", "purged"}
          /\ x.stored.cutoff = Cutoff(x.req)' /\ now' <= x.stored.cutoff
    BY <1>2, <1>4, <1>7 DEF HandlerWell, Cutoff
  <2>3. x.pc \in {"claim", "recheck", "prompt", "complete"} =>
          x.stored.callId = e.call /\ rows'[x.req].callId = e.call
    BY <1>2, <1>4, <1>5 DEF HandlerWell
  <2>4. x.pc \in {"recheck", "prompt"} =>
          /\ rows'[x.req].recognitionStarted
          /\ \A c \in CallIds : calls'[c].req = x.req => calls'[c].prompts = 0
    BY <1>2, <1>4, <1>5, <1>6 DEF HandlerWell, Prompting
  <2> QED
    BY <1>2, <2>1, <2>2, <2>3, <2>4 DEF HandlerWell
<1> QED
  BY <1>1, <1>8 DEF HandlerWell, HandlerBase, Cutoff
LEMMA CallsWellStay ==
    ASSUME StoreInv, Moving, \A c \in CallIds : CallWell(calls'[c])
    PROVE  CallsWell'
<1> SUFFICES ASSUME NEW c \in CallIds PROVE CallWell(calls[c])'
  BY DEF CallsWell
<1>1. calls'[c] \in CallStates /\ CallWell(calls'[c])
  BY DEF Moving, Typed
<1> DEFINE r == calls'[c].req
<1>2. r # None => r \in Requests
  BY <1>1 DEF CallStates
<1>3. r # None => rows'[r].status # "absent"
  BY <1>1, <1>2, InsertedStays DEF CallWell, Moving
<1>4. calls'[c].prompts > 0 => r # None
  BY <1>1 DEF CallWell, CallStates
<1>5. ASSUME r # None, rows[r].recognitionStarted \/ rows[r].status = "purged"
      PROVE  rows'[r].recognitionStarted \/ rows'[r].status = "purged"
  <2>1. RowMoves(r) /\ GoodRow(rows[r])
    BY <1>2, <1>5, RowFacts DEF Moving, RowsMove
  <2> QED
    BY <1>5, <2>1 DEF RowMoves, NoRow, GoodRow, Lifecycle, TerminalStatuses
<1> QED
  BY <1>1, <1>3, <1>4, <1>5 DEF CallWell

LEMMA AttachedStays ==
    ASSUME StoreInv, AttachedWell, Moving,
           \A r \in Requests : \/ rows'[r].callId \in {None, rows[r].callId}
                               \/ calls[rows'[r].callId].req = r
    PROVE  AttachedWell'
<1> SUFFICES ASSUME NEW r \in Requests, rows'[r].callId # None
             PROVE  calls'[rows'[r].callId].req = r
  BY DEF AttachedWell
<1>1. rows'[r].callId \in CallIds
  BY DEF Moving, StoreInv, GoodRows, Row
<1>2. calls[rows'[r].callId].req = r
  BY DEF AttachedWell
<1> QED
  BY <1>1, <1>2, NoneIsNoName DEF Moving, CallsStay

(* The answer on record of the request r is a person's. *)
HumanAnswer(r) ==
    /\ [type |-> rows[r].outcome, call |-> rows[r].callId] \in sent
    /\ calls[rows[r].callId].req = r
    /\ rows[r].completedAt < Cutoff(r)

LEMMA HumanStays ==
    ASSUME StoreInv, AnswerIsHuman, Moving,
           \A r \in Requests : rows[r].status = "pending" /\ rows'[r].status = "responded" => HumanAnswer(r)'
    PROVE  AnswerIsHuman'
<1> SUFFICES ASSUME NEW r \in Requests, rows'[r].status = "responded" PROVE HumanAnswer(r)'
  BY DEF AnswerIsHuman, HumanAnswer
<1>1. CASE rows[r].status = "pending"
  BY <1>1
<1>2. CASE rows[r].status # "pending"
  <2>1. rows'[r] = rows[r]
    BY <1>2 DEF Moving, RowsMove, RowMoves, NoRow
  <2>2. HumanAnswer(r)
    BY <2>1 DEF AnswerIsHuman, HumanAnswer
  <2>3. rows[r].callId \in CallIds
    <3>1. [type |-> rows[r].outcome, call |-> rows[r].callId] \in Events
      BY <2>2 DEF HumanAnswer, Moving, Typed
    <3> QED
      BY <3>1 DEF Events
  <2> QED
    BY <2>1, <2>2, <2>3, NoneIsNoName DEF HumanAnswer, Moving, CallsStay, Cutoff
<1> QED
  BY <1>1, <1>2

(* The request r was cancelled by who may cancel it. *)
CancelledRightly(r) ==
    \/ \E a \in Asks : proc[a].req = r /\ ask[a].role = "creator" /\ ask[a].cancelled
    \/ [type |-> "cancelled", call |-> rows[r].callId] \in sent

(* Who created a request and was cancelled stays so. *)
CreatorsStay ==
    \A a \in Asks : ask[a].role = "creator" /\ proc[a].req # None =>
        ask'[a].role = "creator" /\ proc'[a].req = proc[a].req /\ (ask[a].cancelled => ask'[a].cancelled)

LEMMA CancelledStays ==
    ASSUME StoreInv, CancelledByCreator, Moving, CreatorsStay,
           \A r \in Requests :
              rows[r].status = "pending" /\ rows'[r].outcome = "cancelled" => CancelledRightly(r)'
    PROVE  CancelledByCreator'
<1> SUFFICES ASSUME NEW r \in Requests, rows'[r].outcome = "cancelled" PROVE CancelledRightly(r)'
  BY DEF CancelledByCreator, CancelledRightly
<1>0. "cancelled" # None
  BY NoneIsNobody DEF Outcomes, ExpiryOutcomes
<1>1. CASE rows[r].status = "pending"
  BY <1>1
<1>2. CASE rows[r].status # "pending"
  <2>1. rows'[r] = rows[r]
    BY <1>0, <1>2 DEF Moving, RowsMove, RowMoves, NoRow
  <2>2. CancelledRightly(r)
    BY <2>1 DEF CancelledByCreator, CancelledRightly
  <2>3. CASE \E a \in Asks : proc[a].req = r /\ ask[a].role = "creator" /\ ask[a].cancelled
    BY <2>3, NoneIsNoName DEF CancelledRightly, CreatorsStay
  <2>4. CASE [type |-> "cancelled", call |-> rows[r].callId] \in sent
    BY <2>1, <2>4 DEF CancelledRightly, Moving
  <2> QED
    BY <2>2, <2>3, <2>4 DEF CancelledRightly
<1> QED
  BY <1>1, <1>2

(* No creator or claimant of a request appears. *)
NoNewCreators ==
    \A a \in Asks : ask'[a].role = "creator" => ask[a].role = "creator" /\ proc'[a].req = proc[a].req

NoNewClaimants ==
    \A h \in Handlers : Prompting(proc'[h]) => Prompting(proc[h]) /\ proc'[h].req = proc[h].req

(* What most steps leave alone: whose calls there are, and their prompts.   *)
SameCalls ==
    \A c \in CallIds : calls'[c].req = calls[c].req /\ calls'[c].prompts = calls[c].prompts

(* Verdicts and attachments are only recorded for a reason. *)
VerdictsWell ==
    \A r \in Requests :
        /\ rows[r].status = "pending" /\ rows'[r].status = "responded" => HumanAnswer(r)'
        /\ rows[r].status = "pending" /\ rows'[r].outcome = "cancelled" => CancelledRightly(r)'
        /\ rows'[r].callId \in {None, rows[r].callId} \/ calls[rows'[r].callId].req = r

(* A step that places no call, claims no recognition, makes no creator and  *)
(* takes no time keeps the invariant, if the coroutines' next records are   *)
(* sound as things stand.                                                   *)
LEMMA Keeps ==
    ASSUME ServiceInv, [StoreNext]_storeVars, now' = now, Typed',
           \A a \in Asks : AskWell(ask'[a], proc'[a]),
           \A h \in Handlers : HandlerWell(event'[h], proc'[h]),
           SameCalls, \A c \in CallIds : CallWell(calls'[c]),
           sent \subseteq sent', \A e \in sent' : calls[e.call].req # None,
           CreatorsStay, NoNewCreators, NoNewClaimants, VerdictsWell
    PROVE  ServiceInv'
<1>1. StoreInv' /\ RowsMove
  BY StepOK, StoreMoves DEF ServiceInv
<1>2. TimesWell'
  BY <1>1, TimesStay DEF ServiceInv
<1>3. CallsStay
  BY DEF SameCalls, CallsStay
<1>4. Moving
  BY <1>1, <1>3 DEF Moving
<1>5. AsksWell'
  <2> SUFFICES ASSUME NEW a \in Asks PROVE AskWell(ask[a], proc[a])'
    BY DEF AsksWell
  <2>1. AskWell(ask'[a], proc'[a])
    OBVIOUS
  <2>2. proc'[a].pc \in {"verify", "create_call"} => \A c \in CallIds : calls'[c].req # proc'[a].req
    BY <2>1 DEF AskWell, SameCalls
  <2> QED
    BY <1>4, <2>1, <2>2, AskStays DEF ServiceInv
<1>6. HandlersWell'
  <2> SUFFICES ASSUME NEW h \in Handlers PROVE HandlerWell(event[h], proc[h])'
    BY DEF HandlersWell
  <2>1. HandlerWell(event'[h], proc'[h])
    OBVIOUS
  <2>2. Prompting(proc'[h]) => \A c \in CallIds : calls'[c].req = proc'[h].req => calls'[c].prompts = 0
    BY <2>1 DEF HandlerWell, SameCalls, Prompting
  <2> QED
    BY <1>4, <2>1, <2>2, HandlerStays DEF ServiceInv
<1>7. OneCreator' /\ OneClaimant'
  BY DEF ServiceInv, OneCreator, OneClaimant, NoNewCreators, NoNewClaimants, Prompting
<1>8. CallsWell' /\ AttachedWell'
  BY <1>4, CallsWellStay, AttachedStays DEF ServiceInv, VerdictsWell
<1>9. SentWell'
  BY DEF SentWell, SameCalls, Typed, Events
<1>10. OneCallPerRequest' /\ PromptedOnce'
  BY DEF ServiceInv, OneCallPerRequest, PromptedOnce, SameCalls
<1>11. AnswerIsHuman' /\ CancelledByCreator'
  BY <1>4, HumanStays, CancelledStays DEF ServiceInv, VerdictsWell
<1> QED
  BY <1>1, <1>2, <1>5, <1>6, <1>7, <1>8, <1>9, <1>10, <1>11 DEF ServiceInv
-----------------------------------------------------------------------------
(*              The records a coroutine goes on with: the Wells             *)

LEMMA LoadedFacts ==
    ASSUME StoreInv, TimesWell, NEW r \in Requests
    PROVE  /\ Loaded(r) \in Snapshot
           /\ Loaded(r).status = rows[r].status /\ Loaded(r).outcome = rows[r].outcome
           /\ Loaded(r).callId = rows[r].callId
           /\ rows[r].status \notin {"absent", "purged"} =>
                 Loaded(r).cutoff = Cutoff(r) /\ Cutoff(r) \in Nat
<1>1. rows[r] \in Row /\ GoodRow(rows[r]) /\ RowTimes(rows[r])
  BY RowFacts DEF TimesWell
<1>2. rows[r].expiresAt # None => rows[r].expiresAt \in Nat /\ rows[r].status \notin {"absent", "purged"}
  BY <1>1 DEF Row, GoodRow, Lifecycle, NoRow
<1>3. rows[r].status \notin {"absent", "purged"} => rows[r].expiresAt \in Nat /\ rows[r].expiresAt # None
  BY <1>1, NoneIsNobody DEF GoodRow, Filled
<1>4. rows[r].expiresAt # None => Cutoff(r) \in Nat
  BY <1>1, <1>2, TimesAssumption DEF RowTimes, Cutoff
<1> QED
  BY <1>1, <1>2, <1>3, <1>4 DEF Loaded, Snapshot, Row

LEMMA CallsToEndAreCalls ==
    ASSUME ask \in [Asks -> AskStates], NEW r, NEW s \in Snapshot
    PROVE  CallsToEnd(r, s) \subseteq CallIds /\ KnownCalls(r) \subseteq CallIds
<1>1. KnownCalls(r) \subseteq CallIds
  BY DEF KnownCalls, Creators, AskStates
<1> QED
  BY <1>1 DEF CallsToEnd, Snapshot

LEMMA MineFacts ==
    ASSUME NEW q, NEW r, Mine(q, r)
    PROVE  r \in Requests /\ r # None /\ rows[r].status # "absent"
  BY NoneIsNoName DEF Mine

(* A record with some of its fields updated is a record of a coroutine.     *)
LEMMA PcIsProc ==
    ASSUME NEW x \in ProcStates, NEW pc \in {"idle", "done"} \cup AskPcs \cup HandlerPcs \cup CleanupPcs
    PROVE  [x EXCEPT !.pc = pc] \in ProcStates
  BY DEF ProcStates

LEMMA FailIsProc ==
    ASSUME NEW x \in ProcStates, NEW pc \in {"idle", "done"} \cup AskPcs \cup HandlerPcs \cup CleanupPcs,
           NEW frame \in Frames \cup {None}
    PROVE  [x EXCEPT !.pc = pc, !.frame = frame] \in ProcStates
  BY DEF ProcStates

LEMMA ExpireIsProc ==
    ASSUME NEW x \in ProcStates, NEW pc \in {"idle", "done"} \cup AskPcs \cup HandlerPcs \cup CleanupPcs,
           NEW frame \in Frames \cup {None}, NEW outcome \in Outcomes \cup {None}
    PROVE  [x EXCEPT !.pc = pc, !.outcome = outcome, !.frame = frame] \in ProcStates
<1> DEFINE y == [x EXCEPT !.outcome = outcome]
<1>1. y \in ProcStates
  BY DEF ProcStates
<1>2. [x EXCEPT !.pc = pc, !.outcome = outcome, !.frame = frame] = [y EXCEPT !.pc = pc, !.frame = frame]
  BY DEF ProcStates
<1> HIDE DEF y
<1> QED
  BY <1>1, <1>2, FailIsProc

LEMMA TargetsIsProc ==
    ASSUME NEW x \in ProcStates, NEW C \in SUBSET CallIds,
           NEW next \in CleanupPcs \cup {"poll", "done", None}, NEW result \in Results \cup {None}
    PROVE  [x EXCEPT !.targets = C, !.next = next, !.result = result] \in ProcStates
  BY DEF ProcStates

LEMMA LeaveToIsProc ==
    ASSUME NEW x \in ProcStates, NEW pc \in {"idle", "done"} \cup AskPcs \cup HandlerPcs \cup CleanupPcs,
           NEW next \in CleanupPcs \cup {"poll", "done", None}, NEW result \in Results \cup {None}
    PROVE  [x EXCEPT !.pc = pc, !.next = next, !.result = result] \in ProcStates
<1> DEFINE y == [x EXCEPT !.targets = x.targets, !.next = next, !.result = result]
<1>1. y \in ProcStates
  BY TargetsIsProc DEF ProcStates
<1>2. [x EXCEPT !.pc = pc, !.next = next, !.result = result] = [y EXCEPT !.pc = pc]
  BY DEF ProcStates
<1> HIDE DEF y
<1> QED
  BY <1>1, <1>2, PcIsProc

LEMMA LeaveToFailIsProc ==
    ASSUME NEW x \in ProcStates, NEW pc \in {"idle", "done"} \cup AskPcs \cup HandlerPcs \cup CleanupPcs,
           NEW next \in CleanupPcs \cup {"poll", "done", None}, NEW frame \in Frames \cup {None}
    PROVE  [x EXCEPT !.pc = pc, !.next = next, !.frame = frame] \in ProcStates
<1> DEFINE y == [x EXCEPT !.next = next]
<1>1. y \in ProcStates
  BY DEF ProcStates
<1>2. [x EXCEPT !.pc = pc, !.next = next, !.frame = frame] = [y EXCEPT !.pc = pc, !.frame = frame]
  BY DEF ProcStates
<1> HIDE DEF y
<1> QED
  BY <1>1, <1>2, FailIsProc

LEMMA IdleIsProc ==
    IdleProc \in ProcStates
<1>1. NotLoaded \in Snapshot
  BY DEF NotLoaded, Snapshot
<1> QED
  BY <1>1 DEF ProcStates, IdleProc

LEMMA FinishIsProc ==
    ASSUME NEW x \in ProcStates, NEW result \in Results \cup {None}
    PROVE  Finish(x, result) \in ProcStates
<1>1. NotLoaded \in Snapshot
  BY DEF NotLoaded, Snapshot
<1> QED
  BY <1>1 DEF Finish, ProcStates, IdleProc

LEMMA Names ==
    /\ {"poll", "fail", "expire", "reread", "refetch", "acknowledge", "hang_up", "create_call", "verify",
         "attach", "confirm", "unattached", "insert", "lookup", "get", "bind", "reload", "claim",
         "recheck", "prompt", "complete"} \subseteq {"idle", "done"} \cup AskPcs \cup HandlerPcs \cup CleanupPcs
    /\ {"fail", "expire", "poll", "done"} \subseteq CleanupPcs \cup {"poll", "done", None}
    /\ {"start", "unattached", "creator", "event", "final", "late", "lost", "timeout", "inner", "outer"}
          \subseteq Frames \cup {None}
    /\ ExpiryOutcomes \subseteq Outcomes \cup {None} /\ "deadline_exceeded" \in ExpiryOutcomes
    /\ {"ok", "error", "aborted", "conflict", "rate_limited"} \subseteq Results \cup {None}
    /\ Outcomes \subseteq Results
    /\ {"ok", "error", "aborted", "conflict", "rate_limited", None} \cap Outcomes = {}
    /\ {"poll", "fail", "expire", "reread", "refetch", "hang_up"} \subseteq WorkPcs
    /\ "done" \notin WorkPcs
  BY NoneIsNobody DEF AskPcs, HandlerPcs, CleanupPcs, Frames, Outcomes, HumanOutcomes, ExpiryOutcomes, WorkPcs, Results

LEMMA AskFinishWell ==
    ASSUME NEW q, NEW x \in ProcStates, AskBase(q, x), NEW result \in Results \cup {None},
           result \in Outcomes => rows[x.req].outcome = result
    PROVE  /\ Finish(x, result) \in ProcStates /\ Finish(x, result).req = x.req
           /\ AskWell(q, Finish(x, result))
<1>1. /\ Finish(x, result).pc = "done" /\ Finish(x, result).req = x.req
      /\ Finish(x, result).result = result
  BY DEF Finish, IdleProc
<1>2. Finish(x, result) \in ProcStates
  BY FinishIsProc
<1>3. AskWell(q, Finish(x, result))
  <2>1. x.req \in Requests /\ rows[x.req].status # "absent" /\ Asked(q)
    BY MineFacts DEF AskBase
  <2> HIDE DEF Finish
  <2>2. result \in Outcomes => OnRecord(q, x.req, result)
    BY <2>1 DEF OnRecord, AskBase, Mine
  <2>3. "done" \notin WorkPcs
    BY DEF WorkPcs, AskPcs, CleanupPcs
  <2> QED
    BY <1>1, <2>1, <2>2, <2>3 DEF AskWell
<1> QED
  BY <1>1, <1>2, <1>3

LEMMA AskGotoWell ==
    ASSUME NEW q, NEW x \in ProcStates, AskBase(q, x),
           NEW pc \in {"poll", "reread", "refetch", "fail"}
    PROVE  /\ Goto(x, pc) \in ProcStates /\ Goto(x, pc).req = x.req
           /\ AskWell(q, Goto(x, pc))
<1>1. /\ Goto(x, pc).pc = pc /\ Goto(x, pc).req = x.req /\ Goto(x, pc).frame = x.frame
  BY DEF Goto, ProcStates
<1>2. Goto(x, pc) \in ProcStates
  BY PcIsProc, Names DEF Goto
<1>3. pc \in WorkPcs
  BY DEF WorkPcs, AskPcs, CleanupPcs
<1> QED
  BY <1>1, <1>2, <1>3 DEF AskWell, AskBase

LEMMA AskFailWell ==
    ASSUME NEW q, NEW x \in ProcStates, AskBase(q, x), NEW frame \in Frames \ {"late"}
    PROVE  /\ StartFail(x, frame) \in ProcStates /\ StartFail(x, frame).req = x.req
           /\ AskWell(q, StartFail(x, frame))
<1>1. /\ StartFail(x, frame).pc = "fail" /\ StartFail(x, frame).req = x.req
      /\ StartFail(x, frame).frame = frame
  BY DEF StartFail, ProcStates
<1>2. StartFail(x, frame) \in ProcStates
  BY FailIsProc, Names DEF StartFail
<1>3. "fail" \in WorkPcs
  BY DEF WorkPcs, CleanupPcs
<1> QED
  BY <1>1, <1>2, <1>3 DEF AskWell, AskBase

LEMMA AskExpireWell ==
    ASSUME NEW q, NEW x \in ProcStates, AskBase(q, x), NEW frame \in Frames \ {"late"},
           NEW outcome \in ExpiryOutcomes, outcome = "cancelled" => q.role = "creator" /\ q.cancelled
    PROVE  /\ StartExpire(x, outcome, frame) \in ProcStates /\ StartExpire(x, outcome, frame).req = x.req
           /\ AskWell(q, StartExpire(x, outcome, frame))
<1>1. /\ StartExpire(x, outcome, frame).pc = "expire" /\ StartExpire(x, outcome, frame).req = x.req
      /\ StartExpire(x, outcome, frame).frame = frame /\ StartExpire(x, outcome, frame).outcome = outcome
  BY DEF StartExpire, ProcStates
<1>2. StartExpire(x, outcome, frame) \in ProcStates
  BY ExpireIsProc, Names DEF StartExpire
<1>3. "expire" \in WorkPcs
  BY DEF WorkPcs, CleanupPcs
<1> QED
  BY <1>1, <1>2, <1>3 DEF AskWell, AskBase, MayExpire

LEMMA AskLeaveWell ==
    ASSUME NEW q, NEW x \in ProcStates, AskBase(q, x), LeaveWell(q, x)
    PROVE  /\ Leave(x) \in ProcStates /\ Leave(x).req = x.req
           /\ AskWell(q, Leave(x))
<1>1. CASE x.next = "done"
  <2>1. Leave(x) = Finish(x, x.result) /\ x.result \in Results \cup {None}
    BY <1>1 DEF Leave, ProcStates
  <2> QED
    BY <1>1, <2>1, AskFinishWell DEF LeaveWell
<1>2. CASE x.next = "fail"
  <2> DEFINE y == [x EXCEPT !.pc = "fail", !.next = None,
                            !.frame = IF @ = "unattached" THEN "start" ELSE "final"]
  <2>1. Leave(x) = y
    BY <1>2 DEF Leave
  <2>2. y.pc = "fail" /\ y.req = x.req /\ y.frame \in {"start", "final"}
    BY DEF ProcStates
  <2>4. y \in ProcStates
    BY LeaveToFailIsProc, Names
  <2>3. "fail" \in WorkPcs
    BY DEF WorkPcs, CleanupPcs
  <2> HIDE DEF y
  <2> QED
    BY <2>1, <2>2, <2>3, <2>4 DEF AskWell, AskBase
<1>3. CASE x.next \in {"poll", "expire"}
  <2> DEFINE y == [x EXCEPT !.pc = x.next, !.next = None, !.result = None]
  <2>1. Leave(x) = y
    BY <1>3 DEF Leave
  <2>2. y.pc = x.next /\ y.req = x.req /\ y.frame = x.frame /\ y.outcome = x.outcome
    BY DEF ProcStates
  <2>4. y \in ProcStates
    BY <1>3, LeaveToIsProc, Names
  <2>3. x.next \in WorkPcs
    BY <1>3 DEF WorkPcs, CleanupPcs, AskPcs
  <2> HIDE DEF y
  <2> QED
    BY <1>3, <2>1, <2>2, <2>3, <2>4 DEF AskWell, AskBase, LeaveWell, MayExpire
<1> QED
  BY <1>1, <1>2, <1>3 DEF LeaveWell

MayLeave(q, x, next, result) ==
    /\ next \in {"done", "fail", "poll", "expire"} /\ result \in Results \cup {None}
    /\ next = "done" /\ result \in Outcomes => rows[x.req].outcome = result
    /\ next = "expire" => MayExpire(q, x)

LEMMA AskHangUpWell ==
    ASSUME NEW q, NEW x \in ProcStates, AskBase(q, x), NEW C \in SUBSET CallIds, NEW next, NEW result,
           MayLeave(q, x, next, result)
    PROVE  /\ HangUpThen(x, C, next, result) \in ProcStates
           /\ HangUpThen(x, C, next, result).req = x.req
           /\ AskWell(q, HangUpThen(x, C, next, result))
<1>0. /\ next \in {"done", "fail", "poll", "expire"} /\ result \in Results \cup {None}
      /\ next = "done" /\ result \in Outcomes => rows[x.req].outcome = result
      /\ next = "expire" => MayExpire(q, x)
  BY DEF MayLeave
<1> DEFINE y == [x EXCEPT !.targets = C, !.next = next, !.result = result]
<1>1. /\ y.req = x.req /\ y.frame = x.frame /\ y.outcome = x.outcome
      /\ y.next = next /\ y.result = result
  BY DEF ProcStates
<1>5. y \in ProcStates
  BY <1>0, TargetsIsProc, Names
<1>2. HangUpThen(x, C, next, result) = IF C = {} THEN Leave(y) ELSE Goto(y, "hang_up")
  BY DEF HangUpThen
<1> HIDE DEF y
<1>3. AskBase(q, y) /\ LeaveWell(q, y)
  BY <1>0, <1>1 DEF AskBase, LeaveWell, MayExpire
<1>4. /\ Goto(y, "hang_up") \in ProcStates /\ Goto(y, "hang_up").req = x.req
      /\ AskWell(q, Goto(y, "hang_up"))
  <2> DEFINE z == Goto(y, "hang_up")
  <2>1. /\ z.pc = "hang_up" /\ z.req = y.req /\ z.frame = y.frame
        /\ z.next = y.next /\ z.result = y.result /\ z.outcome = y.outcome
    BY <1>5 DEF Goto, ProcStates
  <2>3. z \in ProcStates
    BY <1>5, PcIsProc, Names DEF Goto
  <2>2. "hang_up" \in WorkPcs
    BY DEF WorkPcs, CleanupPcs
  <2>4. z = Goto(y, "hang_up")
    OBVIOUS
  <2> HIDE DEF z
  <2> QED
    BY <1>1, <1>3, <2>1, <2>2, <2>3, <2>4 DEF AskWell, AskBase, LeaveWell, MayExpire
<1> QED
  BY <1>0, <1>1, <1>2, <1>3, <1>4, <1>5, AskLeaveWell

LEMMA AskHungUpWell ==
    ASSUME NEW q, NEW x \in ProcStates, x.pc = "hang_up", AskWell(q, x), NEW c \in CallIds
    PROVE  HungUp(x, c) \in ProcStates /\ HungUp(x, c).req = x.req /\ AskWell(q, HungUp(x, c))
<1>0. "hang_up" \in WorkPcs
  BY DEF WorkPcs, CleanupPcs
<1>1. AskBase(q, x) /\ LeaveWell(q, x)
  BY <1>0 DEF AskWell
<1> DEFINE y(T) == [x EXCEPT !.targets = T]
<1>2. ASSUME NEW T \in SUBSET CallIds
      PROVE  /\ y(T) \in ProcStates /\ y(T).pc = "hang_up" /\ y(T).req = x.req /\ y(T).frame = x.frame
             /\ y(T).next = x.next /\ y(T).result = x.result /\ y(T).outcome = x.outcome
  BY DEF ProcStates
<1>3. {} \in SUBSET CallIds /\ x.targets \ {c} \in SUBSET CallIds
  BY DEF ProcStates
<1>4. HungUp(x, c) = IF x.targets = {c} THEN Leave(y({})) ELSE y(x.targets \ {c})
  BY DEF HungUp
<1> HIDE DEF y
<1>5. ASSUME NEW T \in SUBSET CallIds
      PROVE  y(T) \in ProcStates /\ AskBase(q, y(T)) /\ LeaveWell(q, y(T)) /\ AskWell(q, y(T))
  BY <1>0, <1>1, <1>2 DEF AskBase, LeaveWell, MayExpire, AskWell
<1> QED
  BY <1>2, <1>3, <1>4, <1>5, AskLeaveWell

LEMMA HandlerFinishWell ==
    ASSUME NEW e, NEW x \in ProcStates, HandlerBase(e, x), NEW result \in Results \cup {None}
    PROVE  /\ Finish(x, result) \in ProcStates /\ ~Prompting(Finish(x, result))
           /\ HandlerWell(e, Finish(x, result))
<1>1. /\ Finish(x, result).pc = "done" /\ Finish(x, result).req = x.req
      /\ Finish(x, result).frame = None
  BY DEF Finish, IdleProc
<1>2. Finish(x, result) \in ProcStates
  BY FinishIsProc
<1>3. None \notin {"start", "unattached"}
  BY NoneIsNoName DEF Frames
<1>4. HandlerWell(e, Finish(x, result))
  <2> HIDE DEF Finish
  <2> QED
    BY <1>1, <1>3 DEF HandlerWell, HandlerBase, BlockPcs
<1> QED
  BY <1>1, <1>2, <1>4 DEF Prompting

LEMMA HandlerGotoWell ==
    ASSUME NEW e, NEW x \in ProcStates, HandlerBase(e, x), NEW pc \in {"reread", "refetch", "acknowledge"}
    PROVE  /\ Goto(x, pc) \in ProcStates /\ ~Prompting(Goto(x, pc))
           /\ HandlerWell(e, Goto(x, pc))
<1>1. /\ Goto(x, pc).pc = pc /\ Goto(x, pc).req = x.req /\ Goto(x, pc).frame = x.frame
  BY DEF Goto, ProcStates
<1>2. Goto(x, pc) \in ProcStates
  BY PcIsProc, Names DEF Goto
<1> QED
  BY <1>1, <1>2 DEF HandlerWell, HandlerBase, BlockPcs, Prompting, HandlerPcs, CleanupPcs

LEMMA HandlerFailWell ==
    ASSUME NEW e, NEW x \in ProcStates, HandlerBase(e, x), NEW frame \in {"event", "final"}
    PROVE  /\ StartFail(x, frame) \in ProcStates /\ ~Prompting(StartFail(x, frame))
           /\ HandlerWell(e, StartFail(x, frame))
<1>1. /\ StartFail(x, frame).pc = "fail" /\ StartFail(x, frame).req = x.req
      /\ StartFail(x, frame).frame = frame
  BY DEF StartFail, ProcStates
<1>2. StartFail(x, frame) \in ProcStates
  BY FailIsProc, Names DEF StartFail
<1> QED
  BY <1>1, <1>2 DEF HandlerWell, HandlerBase, BlockPcs, Prompting, CleanupPcs

LEMMA HandlerExpireWell ==
    ASSUME NEW e, NEW x \in ProcStates, HandlerBase(e, x), NEW frame \in {"late", "lost", "timeout"}
    PROVE  /\ StartExpire(x, "deadline_exceeded", frame) \in ProcStates
           /\ ~Prompting(StartExpire(x, "deadline_exceeded", frame))
           /\ HandlerWell(e, StartExpire(x, "deadline_exceeded", frame))
<1> DEFINE y == StartExpire(x, "deadline_exceeded", frame)
<1>1. y.pc = "expire" /\ y.req = x.req /\ y.frame = frame /\ y.outcome = "deadline_exceeded"
  BY DEF StartExpire, ProcStates
<1>2. y \in ProcStates
  BY ExpireIsProc, Names DEF StartExpire
<1>3. y = StartExpire(x, "deadline_exceeded", frame)
  OBVIOUS
<1> HIDE DEF y
<1> QED
  BY <1>1, <1>2, <1>3 DEF HandlerWell, HandlerBase, BlockPcs, Prompting, CleanupPcs, ExpiryOutcomes

LEMMA HandlerLeaveWell ==
    ASSUME NEW e, NEW x \in ProcStates, HandlerBase(e, x), x.next \in {"done", "fail"}
    PROVE  Leave(x) \in ProcStates /\ ~Prompting(Leave(x)) /\ HandlerWell(e, Leave(x))
<1>1. CASE x.next = "done"
  <2>1. Leave(x) = Finish(x, x.result) /\ x.result \in Results \cup {None}
    BY <1>1 DEF Leave, ProcStates
  <2> QED
    BY <2>1, HandlerFinishWell
<1>2. CASE x.next = "fail"
  <2> DEFINE y == [x EXCEPT !.pc = "fail", !.next = None,
                            !.frame = IF @ = "unattached" THEN "start" ELSE "final"]
  <2>1. Leave(x) = y
    BY <1>2 DEF Leave
  <2>2. y.pc = "fail" /\ y.req = x.req /\ y.frame = "final"
    BY DEF ProcStates, HandlerBase
  <2>3. y \in ProcStates
    BY LeaveToFailIsProc, Names
  <2> HIDE DEF y
  <2> QED
    BY <2>1, <2>2, <2>3 DEF HandlerWell, HandlerBase, BlockPcs, Prompting, CleanupPcs
<1> QED
  BY <1>1, <1>2

LEMMA HandlerHangUpWell ==
    ASSUME NEW e, NEW x \in ProcStates, HandlerBase(e, x), NEW C \in SUBSET CallIds,
           NEW next \in {"done", "fail"}, NEW result \in Results \cup {None}
    PROVE  /\ HangUpThen(x, C, next, result) \in ProcStates
           /\ ~Prompting(HangUpThen(x, C, next, result))
           /\ HandlerWell(e, HangUpThen(x, C, next, result))
<1> DEFINE y == [x EXCEPT !.targets = C, !.next = next, !.result = result]
<1>1. y.req = x.req /\ y.frame = x.frame /\ y.next = next
  BY DEF ProcStates
<1>5. y \in ProcStates
  BY TargetsIsProc, Names
<1>2. HangUpThen(x, C, next, result) = IF C = {} THEN Leave(y) ELSE Goto(y, "hang_up")
  BY DEF HangUpThen
<1> HIDE DEF y
<1>3. HandlerBase(e, y)
  BY <1>1 DEF HandlerBase
<1>4. /\ Goto(y, "hang_up") \in ProcStates /\ ~Prompting(Goto(y, "hang_up"))
      /\ HandlerWell(e, Goto(y, "hang_up"))
  <2> DEFINE z == Goto(y, "hang_up")
  <2>1. /\ z.pc = "hang_up" /\ z.req = y.req /\ z.frame = y.frame /\ z.next = y.next
    BY <1>5 DEF Goto, ProcStates
  <2>2. z \in ProcStates
    BY <1>5, PcIsProc, Names DEF Goto
  <2>4. z = Goto(y, "hang_up")
    OBVIOUS
  <2> HIDE DEF z
  <2> QED
    BY <1>1, <1>3, <2>1, <2>2, <2>4 DEF HandlerWell, HandlerBase, BlockPcs, Prompting, CleanupPcs
<1> QED
  BY <1>1, <1>2, <1>3, <1>4, <1>5, HandlerLeaveWell

LEMMA HandlerHungUpWell ==
    ASSUME NEW e, NEW x \in ProcStates, x.pc = "hang_up", HandlerWell(e, x), NEW c \in CallIds
    PROVE  HungUp(x, c) \in ProcStates /\ ~Prompting(HungUp(x, c)) /\ HandlerWell(e, HungUp(x, c))
<1>1. HandlerBase(e, x) /\ x.next \in {"done", "fail"}
  BY DEF HandlerWell
<1> DEFINE y(T) == [x EXCEPT !.targets = T]
<1>2. ASSUME NEW T \in SUBSET CallIds
      PROVE  /\ y(T) \in ProcStates /\ y(T).pc = "hang_up" /\ y(T).req = x.req /\ y(T).frame = x.frame
             /\ y(T).next = x.next
  BY DEF ProcStates
<1>3. {} \in SUBSET CallIds /\ x.targets \ {c} \in SUBSET CallIds
  BY DEF ProcStates
<1>4. HungUp(x, c) = IF x.targets = {c} THEN Leave(y({})) ELSE y(x.targets \ {c})
  BY DEF HungUp
<1> HIDE DEF y
<1>5. ASSUME NEW T \in SUBSET CallIds
      PROVE  y(T) \in ProcStates /\ HandlerBase(e, y(T)) /\ ~Prompting(y(T)) /\ HandlerWell(e, y(T))
  BY <1>1, <1>2 DEF HandlerBase, HandlerWell, Prompting, BlockPcs, CleanupPcs
<1> QED
  BY <1>1, <1>2, <1>3, <1>4, <1>5, HandlerLeaveWell
-----------------------------------------------------------------------------
(*                          The shapes of a step                            *)

Budget == faults' \in 0..MaxFaults /\ crashes' \in 0..MaxCrashes

(* What ACS does but for a new call and a prompt. *)
AcsMoves ==
    /\ calls' \in [CallIds -> CallStates] /\ SameCalls
    /\ \A c \in CallIds : calls'[c].state = "unused" <=> calls[c].state = "unused"
    /\ \A c \in CallIds : calls[c].state = "unused" => calls'[c].listening = None
    /\ sent \subseteq sent' /\ sent' \subseteq Events /\ fresh' \subseteq sent'
    /\ \A e \in sent' : calls[e.call].req # None

TableMoves == [StoreNext]_storeVars /\ now' = now /\ VerdictsWell

LEMMA BudgetKept ==
    ASSUME Typed, Fault \/ UNCHANGED budgetVars
    PROVE  Budget
<1>1. faults \in 0..MaxFaults /\ crashes \in 0..MaxCrashes
  BY DEF Typed
<1> QED
  BY <1>1, ProcessesAssumption DEF Budget, Fault, budgetVars

LEMMA StoreUnchanged ==
    ASSUME ServiceInv, UNCHANGED storeVars
    PROVE  TableMoves
<1> SUFFICES ASSUME NEW r \in Requests
             PROVE  /\ rows[r].status = "pending" => rows'[r].status # "responded" /\ rows'[r].outcome # "cancelled"
                    /\ rows'[r].callId = rows[r].callId
  BY DEF TableMoves, VerdictsWell, storeVars
<1>1. GoodRow(rows[r]) /\ rows' = rows
  BY RowFacts DEF ServiceInv, storeVars
<1> QED
  BY <1>1, NoneIsNobody DEF GoodRow, Lifecycle, Outcomes, ExpiryOutcomes

LEMMA AcsUnchanged ==
    ASSUME ServiceInv, UNCHANGED acsVars
    PROVE  AcsMoves
<1>1. calls' = calls /\ sent' = sent /\ fresh' = fresh
  BY DEF acsVars
<1>2. \A c \in CallIds : calls[c].state = "unused" => calls[c].listening = None
  BY DEF ServiceInv, CallsWell, CallWell
<1> QED
  BY <1>1, <1>2 DEF AcsMoves, ServiceInv, Typed, SameCalls, SentWell

LEMMA CallsStayWell ==
    ASSUME ServiceInv, AcsMoves, NEW c \in CallIds
    PROVE  CallWell(calls'[c])
<1>1. CallWell(calls[c])
  BY DEF ServiceInv, CallsWell
<1>2. calls'[c] \in CallStates /\ calls[c] \in CallStates
  BY DEF ServiceInv, Typed, AcsMoves
<1> QED
  BY <1>1, <1>2 DEF CallWell, AcsMoves, SameCalls

(* An event is sent on a call that was placed. *)
LEMMA SendMoves ==
    ASSUME ServiceInv, NEW c \in CallIds, calls[c].state # "unused", NEW type \in EventTypes,
           NEW call \in CallStates, call.req = calls[c].req, call.prompts = calls[c].prompts, call.state # "unused",
           calls' = [calls EXCEPT ![c] = call], Send(type, c)
    PROVE  AcsMoves
<1>1. calls \in [CallIds -> CallStates] /\ sent \subseteq Events /\ fresh \subseteq sent
  BY DEF ServiceInv, Typed
<1>2. calls[c].req # None /\ \A d \in CallIds : calls[d].state = "unused" => calls[d].listening = None
  BY DEF ServiceInv, CallsWell, CallWell
<1> DEFINE e == [type |-> type, call |-> c]
<1>3. e \in Events /\ e.call = c
  BY DEF Events
<1>4. sent' = sent \cup {e} /\ fresh' = fresh \cup {e}
  BY DEF Send
<1> HIDE DEF e
<1>5. \A f \in sent' : calls[f.call].req # None
  BY <1>2, <1>3, <1>4 DEF ServiceInv, SentWell
<1>6. SameCalls
  BY <1>1 DEF SameCalls
<1>7. calls' \in [CallIds -> CallStates]
  BY <1>1
<1> QED
  BY <1>1, <1>2, <1>3, <1>4, <1>5, <1>6, <1>7 DEF AcsMoves

LEMMA EndCallMoves ==
    ASSUME ServiceInv, NEW c \in CallIds, EndCall(c)
    PROVE  AcsMoves
<1>1. CASE ~Live(c)
  BY <1>1, AcsUnchanged DEF EndCall
<1>2. CASE Live(c)
  <2> DEFINE call == [calls[c] EXCEPT !.state = "ended", !.listening = None, !.playing = FALSE]
  <2>1. calls \in [CallIds -> CallStates] /\ calls[c] \in CallStates
    BY DEF ServiceInv, Typed
  <2>2. /\ call \in CallStates /\ call.req = calls[c].req /\ call.prompts = calls[c].prompts
        /\ call.state # "unused"
    BY <2>1 DEF CallStates
  <2>3. calls' = [calls EXCEPT ![c] = call] /\ Send("unavailable", c)
    BY <1>2, <2>1 DEF EndCall
  <2>4. "unavailable" \in EventTypes /\ calls[c].state # "unused"
    BY <1>2 DEF EventTypes, Live
  <2> HIDE DEF call
  <2> QED
    BY <2>2, <2>3, <2>4, SendMoves
<1> QED
  BY <1>1, <1>2

(* A coroutine goes on with a record that is sound as things stand. *)
LEMMA CoroutineSteps ==
    ASSUME ServiceInv, TableMoves, AcsMoves, Budget, NEW p \in Processes, NEW y \in ProcStates, Resume(p, y),
           p \in Asks => AskWell(ask[p], y) /\ (ask[p].role = "creator" => y.req = proc[p].req),
           p \in Handlers => /\ HandlerWell(event[p], y)
                             /\ Prompting(y) => Prompting(proc[p]) /\ y.req = proc[p].req,
           UNCHANGED <<ask, event, sweep>>
    PROVE  ServiceInv'
<1>1. /\ proc \in [Processes -> ProcStates] /\ proc' = [proc EXCEPT ![p] = y]
      /\ ask' = ask /\ event' = event /\ sweep' = sweep
  BY DEF ServiceInv, Typed, Resume
<1>2. \A a \in Asks : a \in Processes /\ AskWell(ask[a], proc[a])
  BY DEF Processes, ServiceInv, AsksWell
<1>3. \A h \in Handlers : h \in Processes /\ HandlerWell(event[h], proc[h])
  BY DEF Processes, ServiceInv, HandlersWell
<1>4. \A q \in Processes : q # p => proc'[q] = proc[q]
  BY <1>1
<1>5. proc'[p] = y
  BY <1>1
<1>6. proc' \in [Processes -> ProcStates]
  BY <1>1
<1>7. Typed'
  BY <1>1, <1>6 DEF ServiceInv, Typed, AcsMoves, Budget
<1>8. \A a \in Asks : AskWell(ask'[a], proc'[a])
  <2> SUFFICES ASSUME NEW a \in Asks PROVE AskWell(ask[a], proc'[a])
    BY <1>1
  <2> QED
    BY <1>2, <1>4, <1>5
<1>9. \A h \in Handlers : HandlerWell(event'[h], proc'[h])
  <2> SUFFICES ASSUME NEW h \in Handlers PROVE HandlerWell(event[h], proc'[h])
    BY <1>1
  <2> QED
    BY <1>3, <1>4, <1>5
<1>10. CreatorsStay /\ NoNewCreators
  BY <1>1, <1>2, <1>4, <1>5 DEF CreatorsStay, NoNewCreators
<1>11. NoNewClaimants
  BY <1>3, <1>4, <1>5 DEF NoNewClaimants
<1>12. \A c \in CallIds : CallWell(calls'[c])
  BY CallsStayWell
<1> QED
  BY <1>7, <1>8, <1>9, <1>10, <1>11, <1>12, Keeps DEF AcsMoves, TableMoves

(* The same where only the coroutine and the budget change, for an          *)
(* invocation and for a handler.                                            *)
LEMMA AskSilent ==
    ASSUME ServiceInv, NEW a \in Asks, NEW y \in ProcStates, Resume(a, y),
           AskWell(ask[a], y), ask[a].role = "creator" => y.req = proc[a].req,
           Fault \/ UNCHANGED budgetVars,
           UNCHANGED <<storeVars, ask, event, sweep, acsVars>>
    PROVE  ServiceInv'
<1>1. Budget /\ TableMoves /\ AcsMoves /\ a \in Processes /\ a \notin Handlers
  BY BudgetKept, StoreUnchanged, AcsUnchanged, ProcessesAssumption DEF ServiceInv, Processes
<1> QED
  BY <1>1, CoroutineSteps

LEMMA HandlerSilent ==
    ASSUME ServiceInv, NEW h \in Handlers, NEW y \in ProcStates, Resume(h, y),
           HandlerWell(event[h], y), Prompting(y) => Prompting(proc[h]) /\ y.req = proc[h].req,
           Fault \/ UNCHANGED budgetVars,
           UNCHANGED <<storeVars, ask, event, sweep, acsVars>>
    PROVE  ServiceInv'
<1>1. Budget /\ TableMoves /\ AcsMoves /\ h \in Processes /\ h \notin Asks
  BY BudgetKept, StoreUnchanged, AcsUnchanged, ProcessesAssumption DEF ServiceInv, Processes
<1> QED
  BY <1>1, CoroutineSteps

(* What holds of an invocation and of a handler before their steps. *)
LEMMA AskFacts ==
    ASSUME ServiceInv, NEW a \in Asks
    PROVE  /\ ask[a] \in AskStates /\ proc[a] \in ProcStates /\ AskWell(ask[a], proc[a])
           /\ proc[a].pc \in WorkPcs => /\ AskBase(ask[a], proc[a]) /\ proc[a].req \in Requests
                                        /\ rows[proc[a].req].status \notin {"absent", "purged"}
           /\ now \in Nat /\ ask[a].started \in Nat
           /\ a \in Processes /\ a \notin Handlers
<1>1. a \in Processes /\ a \notin Handlers
  BY ProcessesAssumption DEF Processes
<1>2. ask[a] \in AskStates /\ proc[a] \in ProcStates /\ ask[a].started \in Nat
  BY <1>1 DEF ServiceInv, Typed, AskStates
<1>3. AskWell(ask[a], proc[a])
  BY DEF ServiceInv, AsksWell
<1>4. now \in Nat
  BY DEF ServiceInv, StoreInv
<1> QED
  BY <1>1, <1>2, <1>3, <1>4 DEF AskWell, AskBase, Mine

LEMMA HandlerFacts ==
    ASSUME ServiceInv, NEW h \in Handlers
    PROVE  /\ proc[h] \in ProcStates /\ HandlerWell(event[h], proc[h])
           /\ proc[h].pc # "idle" => /\ HandlerBase(event[h], proc[h]) /\ event[h].call \in CallIds
                                     /\ proc[h].req \in Requests
           /\ now \in Nat /\ h \in Processes /\ h \notin Asks
<1>1. h \in Processes /\ h \notin Asks
  BY ProcessesAssumption DEF Processes
<1>2. proc[h] \in ProcStates /\ sent \subseteq Events
  BY <1>1 DEF ServiceInv, Typed
<1>3. HandlerWell(event[h], proc[h])
  BY DEF ServiceInv, HandlersWell
<1>4. now \in Nat
  BY DEF ServiceInv, StoreInv
<1> QED
  BY <1>1, <1>2, <1>3, <1>4 DEF HandlerWell, HandlerBase, Events

(* Purged and unused names: a row that is loaded is in a state of its own.  *)
LEMMA RowOf ==
    ASSUME ServiceInv, NEW r \in Requests
    PROVE  /\ Loaded(r) \in Snapshot
           /\ Loaded(r).status = rows[r].status /\ Loaded(r).outcome = rows[r].outcome
           /\ Loaded(r).callId = rows[r].callId
           /\ rows[r].status \notin {"absent", "purged"} =>
                 Loaded(r).cutoff = Cutoff(r) /\ Cutoff(r) \in Nat
           /\ rows[r].status \in {"absent", "purged", "pending"} \cup TerminalStatuses
           /\ rows[r].outcome \in Outcomes \cup {None}
           /\ \A s \in Snapshot, q \in Requests : CallsToEnd(q, s) \subseteq CallIds /\ KnownCalls(q) \subseteq CallIds
<1>1. StoreInv /\ TimesWell /\ ask \in [Asks -> AskStates] /\ rows[r] \in Row
  BY RowFacts DEF ServiceInv, Typed
<1> QED
  BY <1>1, LoadedFacts, CallsToEndAreCalls DEF Row
==============================================================================
