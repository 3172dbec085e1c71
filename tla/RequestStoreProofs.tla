-------------------------- MODULE RequestStoreProofs --------------------------
(***************************************************************************)
(* What the repository's statements guarantee for any set of requests,      *)
(* keys, calls and any times: the table's type and constraints (StoreInv,   *)
(* which is inductive), that the first terminal update wins, and that the   *)
(* table implements the ledger.                                             *)
(***************************************************************************)
EXTENDS RequestStore, TLAPS

(* A live row of the table, as the column types and constraints have it:    *)
(* every row that is not pending-free of a payload and an expiry.           *)
Filled(row) == row.status \notin {"absent", "purged"} =>
                  row.payload \in Payloads /\ row.expiresAt \in Nat

GoodRow(row) == row \in Row /\ Filled(row) /\ Lifecycle(row) /\ InTime(row)

GoodRows == rows \in [Requests -> Row] /\ \A r \in Requests : GoodRow(rows[r])

StoreInv == now \in Nat /\ GoodRows /\ UniqueIndexes

LEMMA NoneIsNobody ==
    None \notin Keys /\ None \notin CallIds /\ None \notin Nat /\ None \notin Outcomes
  BY NoneAssumption

(* A pending row that is settled becomes a good terminal row.               *)
LEMMA SettledIsGood ==
    ASSUME NEW row \in Row, GoodRow(row), row.status = "pending", now \in Nat,
           NEW status, NEW outcome,
           \/ status = "failed" /\ outcome = None
           \/ status = "expired" /\ outcome \in ExpiryOutcomes
           \/ /\ status = "responded" /\ outcome \in HumanOutcomes
              /\ now < row.expiresAt /\ FitsKind(row.payload.kind, outcome)
    PROVE  /\ GoodRow(Settled(row, status, outcome))
           /\ Settled(row, status, outcome).status = status
           /\ Settled(row, status, outcome).key = row.key
<1> DEFINE t == Settled(row, status, outcome)
<1>1. /\ t = [row EXCEPT !.status = status, !.outcome = outcome, !.completedAt = now]
      /\ t.status = status /\ t.outcome = outcome /\ t.completedAt = now
      /\ t.key = row.key /\ t.payload = row.payload /\ t.expiresAt = row.expiresAt
  BY DEF Settled, Row
<1>2. outcome \in Outcomes \cup {None} /\ status \in TerminalStatuses
  BY DEF Outcomes, TerminalStatuses
<1>3. t \in Row
  BY <1>1, <1>2 DEF Row, TerminalStatuses
<1>4. Filled(t)
  BY <1>1 DEF GoodRow, Filled
<1>5. Lifecycle(t)
  BY <1>1, NoneIsNobody DEF Lifecycle
<1>6. InTime(t)
  BY <1>1 DEF InTime
<1> QED
  BY <1>1, <1>3, <1>4, <1>5, <1>6 DEF GoodRow

(* A statement that adds no row and opens none keeps the invariant, if the  *)
(* rows it leaves are good.                                                 *)
LEMMA TableUpdate ==
    ASSUME StoreInv, now' \in Nat,
           rows' = [r \in Requests |-> rows'[r]],
           \A r \in Requests : /\ GoodRow(rows'[r])
                               /\ rows'[r].status = "pending" => IsPending(r)
                               /\ rows'[r].key \in {rows[r].key, None}
    PROVE  StoreInv'
<1>1. GoodRows'
  BY DEF GoodRows, GoodRow
<1>2. OnePending'
  BY DEF StoreInv, UniqueIndexes, OnePending, IsPending
<1>3. OneRowPerKey'
  BY DEF StoreInv, UniqueIndexes, OneRowPerKey
<1> QED
  BY <1>1, <1>2, <1>3 DEF StoreInv, UniqueIndexes

LEMMA InitOK == StoreInit => StoreInv
<1> SUFFICES ASSUME StoreInit PROVE StoreInv
  OBVIOUS
<1>1. NoRow("absent") \in Row /\ GoodRow(NoRow("absent"))
  BY DEF NoRow, Row, GoodRow, Filled, Lifecycle, InTime
<1>2. GoodRows /\ now \in Nat
  BY <1>1 DEF StoreInit, GoodRows
<1>3. UniqueIndexes
  BY DEF StoreInit, UniqueIndexes, OnePending, OneRowPerKey, IsPending, NoRow
<1> QED
  BY <1>2, <1>3 DEF StoreInv

LEMMA InsertOK ==
    ASSUME StoreInv, UNCHANGED now,
           NEW r \in Requests, NEW k \in Keys, NEW p \in Payloads, NEW e \in Nat,
           InsertPending(r, k, p, e)
    PROVE  StoreInv'
<1> DEFINE row == [NoRow("pending") EXCEPT !.key = k, !.payload = p, !.expiresAt = e]
<1>1. /\ row.status = "pending" /\ row.key = k /\ row.payload = p /\ row.expiresAt = e
      /\ row.outcome = None /\ row.completedAt = None /\ row \in Row
  BY DEF NoRow, Row
<1>2. GoodRow(row)
  BY <1>1 DEF GoodRow, Filled, Lifecycle, InTime
<1>3. rows' = [rows EXCEPT ![r] = row] /\ rows \in [Requests -> Row]
  BY DEF InsertPending, StoreInv, GoodRows
<1>4. GoodRows'
  BY <1>1, <1>2, <1>3 DEF StoreInv, GoodRows
<1>5. OnePending'
  BY <1>3 DEF InsertPending, NoConflict, PendingRows, OnePending, IsPending
<1>6. OneRowPerKey'
  <2>1. \A q \in Requests : rows[q].key # k
    BY DEF InsertPending, NoConflict, RowsOfKey
  <2> QED
    BY <1>1, <1>3, <2>1 DEF StoreInv, UniqueIndexes, OneRowPerKey
<1> QED
  BY <1>4, <1>5, <1>6 DEF StoreInv, UniqueIndexes

LEMMA AttachOK ==
    ASSUME StoreInv, UNCHANGED now, NEW r \in Requests, NEW c \in CallIds, AttachCallId(r, c)
    PROVE  StoreInv'
<1> DEFINE row == [rows[r] EXCEPT !.callId = IF Attachable(r, c) THEN c ELSE @]
<1>1. rows' = [rows EXCEPT ![r] = row] /\ rows \in [Requests -> Row] /\ GoodRow(rows[r])
  BY DEF AttachCallId, StoreInv, GoodRows
<1>2. row \in Row /\ row.status = rows[r].status /\ row.key = rows[r].key
  BY <1>1 DEF Row
<1>3. GoodRow(row)
  <2>1. CASE rows[r].status \in {"absent", "purged"}
    <3>1. row = rows[r]
      BY <1>1, <2>1 DEF Attachable, IsPending, Row
    <3> QED
      BY <1>1, <3>1
  <2>2. CASE rows[r].status \notin {"absent", "purged"}
    BY <1>1, <1>2, <2>2 DEF GoodRow, Filled, Lifecycle, InTime, Row
  <2> QED
    BY <2>1, <2>2
<1> QED
  BY <1>1, <1>2, <1>3, TableUpdate DEF StoreInv, GoodRows, IsPending

LEMMA ClaimOK ==
    ASSUME StoreInv, UNCHANGED now, NEW r \in Requests, ClaimRecognition(r)
    PROVE  StoreInv'
<1> DEFINE row == [rows[r] EXCEPT !.recognitionStarted = @ \/ Claimable(r)]
<1>1. rows' = [rows EXCEPT ![r] = row] /\ rows \in [Requests -> Row] /\ GoodRow(rows[r])
  BY DEF ClaimRecognition, StoreInv, GoodRows
<1>2. row \in Row /\ row.status = rows[r].status /\ row.key = rows[r].key
  BY <1>1 DEF Row
<1>3. GoodRow(row)
  <2>1. CASE rows[r].status \in {"absent", "purged"}
    <3>1. row = rows[r]
      BY <1>1, <2>1 DEF Claimable, IsPending, Row
    <3> QED
      BY <1>1, <3>1
  <2>2. CASE rows[r].status \notin {"absent", "purged"}
    BY <1>1, <1>2, <2>2 DEF GoodRow, Filled, Lifecycle, InTime, Row
  <2> QED
    BY <2>1, <2>2
<1> QED
  BY <1>1, <1>2, <1>3, TableUpdate DEF StoreInv, GoodRows, IsPending

(* One row is settled, if a condition that implies it is pending holds.     *)
LEMMA SettleOK ==
    ASSUME StoreInv, UNCHANGED now, NEW r \in Requests, NEW status, NEW outcome, NEW enabled,
           rows' = [rows EXCEPT ![r] = IF enabled THEN Settled(@, status, outcome) ELSE @],
           enabled =>
              /\ IsPending(r)
              /\ \/ status = "failed" /\ outcome = None
                 \/ status = "expired" /\ outcome \in ExpiryOutcomes
                 \/ /\ status = "responded" /\ outcome \in HumanOutcomes
                    /\ now < rows[r].expiresAt /\ FitsKind(rows[r].payload.kind, outcome)
    PROVE  StoreInv'
<1> DEFINE row == IF enabled THEN Settled(rows[r], status, outcome) ELSE rows[r]
<1>1. /\ rows' = [rows EXCEPT ![r] = row] /\ rows \in [Requests -> Row]
      /\ \A q \in Requests : GoodRow(rows[q])
  BY DEF StoreInv, GoodRows
<1>2. GoodRow(row) /\ (row.status = "pending" => IsPending(r)) /\ row.key = rows[r].key
  <2>1. CASE enabled
    <3>1. rows[r] \in Row /\ GoodRow(rows[r]) /\ rows[r].status = "pending" /\ now \in Nat
      BY <1>1, <2>1 DEF StoreInv, IsPending
    <3>2. /\ GoodRow(Settled(rows[r], status, outcome))
          /\ Settled(rows[r], status, outcome).key = rows[r].key
      BY <2>1, <3>1, SettledIsGood
    <3> QED
      BY <2>1, <3>2
  <2>2. CASE ~enabled
    BY <1>1, <2>2 DEF IsPending
  <2> QED
    BY <2>1, <2>2
<1> QED
  BY <1>1, <1>2, TableUpdate DEF StoreInv, GoodRows, IsPending

LEMMA CompleteOK ==
    ASSUME StoreInv, UNCHANGED now, NEW r \in Requests, NEW o \in Outcomes, NEW before,
           CompleteIfPending(r, o, before)
    PROVE  StoreInv'
<1>1. Completable(r, o, before) =>
        /\ IsPending(r)
        /\ \/ StatusOf(o) = "expired" /\ o \in ExpiryOutcomes
           \/ /\ StatusOf(o) = "responded" /\ o \in HumanOutcomes
              /\ now < rows[r].expiresAt /\ FitsKind(rows[r].payload.kind, o)
  BY DEF Completable, StatusOf, Outcomes
<1> QED
  BY <1>1, SettleOK DEF CompleteIfPending

LEMMA CompleteErrorOK ==
    ASSUME StoreInv, UNCHANGED now, NEW r \in Requests, CompleteErrorIfPending(r)
    PROVE  StoreInv'
  BY SettleOK DEF CompleteErrorIfPending

LEMMA ExpireOK == ASSUME StoreInv, UNCHANGED now, ExpireStaleCalls PROVE StoreInv'
<1>1. SUFFICES ASSUME NEW r \in Requests
               PROVE  /\ GoodRow(rows'[r])
                      /\ rows'[r].status = "pending" => IsPending(r)
                      /\ rows'[r].key = rows[r].key
  BY TableUpdate DEF ExpireStaleCalls, StoreInv
<1>2. rows[r] \in Row /\ GoodRow(rows[r]) /\ now \in Nat
  BY DEF StoreInv, GoodRows
<1>3. CASE r \in Stale
  <2>1. rows'[r] = Settled(rows[r], "expired", "deadline_exceeded")
    BY <1>3 DEF ExpireStaleCalls
  <2>2. rows[r].status = "pending"
    BY <1>3 DEF Stale, PendingRows, IsPending
  <2>3. "deadline_exceeded" \in ExpiryOutcomes
    BY DEF ExpiryOutcomes
  <2> QED
    BY <1>2, <2>1, <2>2, <2>3, SettledIsGood DEF IsPending
<1>4. CASE r \notin Stale
  BY <1>2, <1>4 DEF ExpireStaleCalls, IsPending
<1> QED
  BY <1>3, <1>4

LEMMA PurgeOK == ASSUME StoreInv, UNCHANGED now, PurgeTerminal PROVE StoreInv'
<1>1. SUFFICES ASSUME NEW r \in Requests
               PROVE  /\ GoodRow(rows'[r])
                      /\ rows'[r].status = "pending" => IsPending(r)
                      /\ rows'[r].key \in {rows[r].key, None}
  BY TableUpdate DEF PurgeTerminal, StoreInv
<1>2. GoodRow(NoRow("purged")) /\ NoRow("purged").status = "purged" /\ NoRow("purged").key = None
  BY DEF NoRow, Row, GoodRow, Filled, Lifecycle, InTime
<1> QED
  BY <1>2 DEF PurgeTerminal, IsPending, StoreInv, GoodRows

LEMMA StepOK == StoreInv /\ [StoreNext]_storeVars => StoreInv'
<1> SUFFICES ASSUME StoreInv, [StoreNext]_storeVars PROVE StoreInv'
  OBVIOUS
<1>1. CASE Tick \/ UNCHANGED storeVars
  BY <1>1 DEF StoreInv, GoodRows, UniqueIndexes, OnePending, OneRowPerKey, IsPending, Tick, storeVars
<1>2. CASE UNCHANGED now /\ \E r \in Requests, k \in Keys, p \in Payloads :
             \E e \in (now + Deadline - WorkCutoff) .. (now + Deadline) : InsertPending(r, k, p, e)
  <2>1. PICK r \in Requests, k \in Keys, p \in Payloads,
             e \in (now + Deadline - WorkCutoff) .. (now + Deadline) : InsertPending(r, k, p, e)
    BY <1>2
  <2>2. e \in Nat
    BY <2>1, TimesAssumption DEF StoreInv
  <2> QED
    BY <1>2, <2>1, <2>2, InsertOK
<1>3. CASE UNCHANGED now /\ \E r \in Requests, c \in CallIds : AttachCallId(r, c)
  BY <1>3, AttachOK
<1>4. CASE UNCHANGED now /\ \E r \in Requests : ClaimRecognition(r)
  BY <1>4, ClaimOK
<1>5. CASE UNCHANGED now /\ \E r \in Requests, o \in Outcomes :
             \E before \in Limits(r) : CompleteIfPending(r, o, before)
  BY <1>5, CompleteOK
<1>6. CASE UNCHANGED now /\ \E r \in Requests : CompleteErrorIfPending(r)
  BY <1>6, CompleteErrorOK
<1>7. CASE UNCHANGED now /\ (ExpireStaleCalls \/ PurgeTerminal)
  BY <1>7, ExpireOK, PurgeOK
<1> QED
  BY <1>1, <1>2, <1>3, <1>4, <1>5, <1>6, <1>7 DEF StoreNext, WriteRow

(* The table always satisfies its type and its constraints: no statement of *)
(* the repository is ever refused by the database.                          *)
THEOREM StoreInvariant == StoreSpec => []StoreInv
  BY InitOK, StepOK, PTL DEF StoreSpec

(* Every row is a row of the table, whatever statements are sent.           *)
THEOREM TypeCorrect == StoreSpec => []StoreTypeOK
<1>1. StoreInv => StoreTypeOK
  BY DEF StoreInv, GoodRows, StoreTypeOK
<1> QED
  BY <1>1, StoreInvariant, PTL

(* The unique indexes are never what refuses a statement.                   *)
THEOREM IndexesHold == StoreSpec => []UniqueIndexes
<1>1. StoreInv => UniqueIndexes
  BY DEF StoreInv
<1> QED
  BY <1>1, StoreInvariant, PTL

(* The lifecycle constraint is never what refuses a statement.              *)
THEOREM ConstraintsHold == StoreSpec => []LifecycleCheck
<1>1. StoreInv => LifecycleCheck
  BY DEF StoreInv, GoodRows, GoodRow, LifecycleCheck
<1> QED
  BY <1>1, StoreInvariant, PTL

(* complete_if_pending only records an answer in time, to a question of its *)
(* kind.                                                                    *)
THEOREM AnswersFit == StoreSpec => []AnswerFitsQuestion
<1>1. StoreInv => AnswerFitsQuestion
  BY DEF StoreInv, GoodRows, GoodRow, AnswerFitsQuestion
<1> QED
  BY <1>1, StoreInvariant, PTL
-----------------------------------------------------------------------------
(* A terminal row is left alone by every statement but a due purge.         *)
LEMMA TerminalStep ==
    ASSUME StoreInv, [StoreNext]_storeVars, NEW r \in Requests, IsTerminal(r)
    PROVE  \/ rows'[r] = rows[r]
           \/ rows'[r].status = "purged" /\ now - rows[r].completedAt > Retention
<1> DEFINE Kept == rows'[r] = rows[r]
<1>1. /\ rows \in [Requests -> Row] /\ rows[r] \in Row /\ ~IsPending(r)
      /\ rows[r].completedAt \in Nat /\ now \in Nat
  BY DEF StoreInv, GoodRows, GoodRow, IsTerminal, IsPending, TerminalStatuses, Lifecycle, Row
<1>2. CASE Tick \/ UNCHANGED storeVars
  BY <1>2 DEF Tick, storeVars
<1>3. ASSUME NEW q \in Requests, NEW k, NEW p, NEW e, InsertPending(q, k, p, e) PROVE Kept
  BY <1>1, <1>3 DEF InsertPending, IsTerminal, TerminalStatuses
<1>4. ASSUME NEW q \in Requests, NEW c, AttachCallId(q, c) PROVE Kept
  BY <1>1, <1>4 DEF AttachCallId, Attachable, Row
<1>5. ASSUME NEW q \in Requests, ClaimRecognition(q) PROVE Kept
  BY <1>1, <1>5 DEF ClaimRecognition, Claimable, Row
<1>6. ASSUME NEW q \in Requests, NEW o, NEW before, CompleteIfPending(q, o, before) PROVE Kept
  BY <1>1, <1>6 DEF CompleteIfPending, Completable
<1>7. ASSUME NEW q \in Requests, CompleteErrorIfPending(q) PROVE Kept
  BY <1>1, <1>7 DEF CompleteErrorIfPending
<1>8. CASE ExpireStaleCalls
  BY <1>1, <1>8 DEF ExpireStaleCalls, Stale, PendingRows
<1>9. CASE PurgeTerminal
  <2>1. CASE r \in Purgeable
    BY <1>1, <1>9, <2>1, TimesAssumption DEF PurgeTerminal, Purgeable, NoRow
  <2>2. CASE r \notin Purgeable
    BY <1>9, <2>2 DEF PurgeTerminal
  <2> QED
    BY <2>1, <2>2
<1> QED
  BY <1>2, <1>3, <1>4, <1>5, <1>6, <1>7, <1>8, <1>9 DEF StoreNext, WriteRow

(* The first terminal update wins, whatever is raced against it.            *)
THEOREM FirstTerminal == StoreSpec => FirstTerminalWins
<1>1. StoreInv /\ [StoreNext]_storeVars =>
        [\A r \in Requests : IsTerminal(r) =>
            \/ rows'[r] = rows[r]
            \/ rows'[r].status = "purged" /\ now - rows[r].completedAt > Retention]_storeVars
  BY TerminalStep
<1> QED
  BY <1>1, StoreInvariant, PTL DEF StoreSpec, FirstTerminalWins
-----------------------------------------------------------------------------
(* The ledger is the table seen through EntryOf, row by row.                *)
LedgerOf == [r \in Requests |-> EntryOf(rows[r])]

LEMMA LedgerEntry ==
    ASSUME NEW row \in Row, GoodRow(row)
    PROVE  /\ EntryOf(row).key = row.key
           /\ EntryOf(row).phase = "open" <=> row.status = "pending"
           /\ row.status \in TerminalStatuses => EntryOf(row).phase = "settled"
           /\ row.status = "pending" =>
                 EntryOf(row) = [phase |-> "open", key |-> row.key, verdict |-> None]
  BY DEF EntryOf, GoodRow, Lifecycle, TerminalStatuses, Row

(* A statement that changes no row's key, status or outcome is a stutter.   *)
LEMMA LedgerStutter ==
    ASSUME \A r \in Requests : /\ rows'[r].status = rows[r].status
                               /\ rows'[r].key = rows[r].key
                               /\ rows'[r].outcome = rows[r].outcome
    PROVE  UNCHANGED LedgerOf
  BY DEF LedgerOf, EntryOf

LEMMA LedgerSettle ==
    ASSUME StoreInv, NEW r \in Requests, IsPending(r), NEW status, NEW outcome,
           \/ status = "failed" /\ outcome = None
           \/ status = "expired" /\ outcome \in ExpiryOutcomes
           \/ status = "responded" /\ outcome \in HumanOutcomes,
           rows' = [rows EXCEPT ![r] = Settled(@, status, outcome)]
    PROVE  \E v \in Verdicts : Ledger!Settle(r, v)
<1>1. PICK v \in Verdicts : v = IF status = "failed" THEN "failed" ELSE outcome
  BY DEF Verdicts, Outcomes
<1>2. rows \in [Requests -> Row] /\ rows[r] \in Row /\ GoodRow(rows[r]) /\ rows[r].status = "pending"
  BY DEF StoreInv, GoodRows, IsPending
<1>3. LedgerOf[r] = [phase |-> "open", key |-> rows[r].key, verdict |-> None]
  BY <1>2, LedgerEntry DEF LedgerOf
<1>4. EntryOf(rows'[r]) = [phase |-> "settled", key |-> rows[r].key, verdict |-> v]
  BY <1>1, <1>2 DEF EntryOf, Settled, Row
<1>5. \A q \in Requests : q # r => rows'[q] = rows[q]
  BY <1>2
<1>6. LedgerOf' = [LedgerOf EXCEPT ![r] = [phase |-> "settled", key |-> rows[r].key, verdict |-> v]]
  <2> DEFINE new == [phase |-> "settled", key |-> rows[r].key, verdict |-> v]
  <2>1. \A q \in Requests : EntryOf(rows'[q]) = IF q = r THEN new ELSE EntryOf(rows[q])
    BY <1>4, <1>5
  <2>2. LedgerOf' = [q \in Requests |-> IF q = r THEN new ELSE EntryOf(rows[q])]
    BY <2>1 DEF LedgerOf
  <2> QED
    BY <2>2 DEF LedgerOf
<1>7. LedgerOf[r].phase = "open" /\ LedgerOf[r].key = rows[r].key
  BY <1>3
<1>8. Ledger!Settle(r, v)
  BY <1>6, <1>7 DEF Ledger!Settle, LedgerOf
<1> QED
  BY <1>8

LEMMA LedgerAccept ==
    ASSUME StoreInv, NEW r \in Requests, NEW k \in Keys, NEW p, NEW e, InsertPending(r, k, p, e)
    PROVE  Ledger!Accept(r, k)
<1>1. /\ rows \in [Requests -> Row] /\ \A q \in Requests : rows[q] \in Row /\ GoodRow(rows[q])
      /\ rows[r].status = "absent"
  BY DEF StoreInv, GoodRows, InsertPending
<1>2. LedgerOf[r].phase = "unused"
  BY <1>1 DEF LedgerOf, EntryOf
<1>3. \A q \in Requests : LedgerOf[q].phase # "open" /\ LedgerOf[q].key # k
  BY <1>1, LedgerEntry DEF LedgerOf, InsertPending, NoConflict, PendingRows, RowsOfKey, IsPending
<1>4. EntryOf(rows'[r]) = [phase |-> "open", key |-> k, verdict |-> None]
  BY <1>1 DEF InsertPending, EntryOf, NoRow
<1>5. LedgerOf' = [LedgerOf EXCEPT ![r] = [phase |-> "open", key |-> k, verdict |-> None]]
  BY <1>1, <1>4 DEF InsertPending, LedgerOf
<1> QED
  BY <1>2, <1>3, <1>5 DEF Ledger!Accept, Ledger!Open, LedgerOf

LEMMA LedgerForget == ASSUME StoreInv, PurgeTerminal PROVE Ledger!Forget(Purgeable)
<1>1. \A r \in Requests : rows[r] \in Row /\ GoodRow(rows[r])
  BY DEF StoreInv, GoodRows
<1>2. \A r \in Purgeable : r \in Requests /\ LedgerOf[r].phase = "settled"
  BY <1>1, LedgerEntry DEF LedgerOf, Purgeable, IsTerminal
<1>3. EntryOf(NoRow("purged")) = [phase |-> "forgotten", key |-> None, verdict |-> None]
  BY DEF EntryOf, NoRow
<1>4. \A r \in Requests : LedgerOf'[r] = IF r \in Purgeable
                           THEN [phase |-> "forgotten", key |-> None, verdict |-> None]
                           ELSE LedgerOf[r]
  BY <1>3 DEF PurgeTerminal, LedgerOf
<1>5. LedgerOf' = [r \in Requests |-> IF r \in Purgeable
                           THEN [phase |-> "forgotten", key |-> None, verdict |-> None]
                           ELSE LedgerOf[r]]
  BY <1>4 DEF LedgerOf
<1> QED
  BY <1>2, <1>5 DEF Ledger!Forget, LedgerOf

LEMMA LedgerStep ==
    ASSUME StoreInv, [StoreNext]_storeVars
    PROVE  Ledger!LedgerNext \/ UNCHANGED LedgerOf
<1>1. /\ rows \in [Requests -> Row] /\ \A r \in Requests : rows[r] \in Row
      /\ UniqueIndexes
  BY DEF StoreInv, GoodRows
<1>2. CASE Tick \/ UNCHANGED storeVars
  BY <1>2, LedgerStutter DEF Tick, storeVars
<1>3. ASSUME NEW r \in Requests, NEW k \in Keys, NEW p, NEW e, InsertPending(r, k, p, e)
      PROVE  Ledger!LedgerNext
  BY <1>3, LedgerAccept DEF Ledger!LedgerNext
<1>4. ASSUME NEW r \in Requests, NEW c, AttachCallId(r, c) PROVE UNCHANGED LedgerOf
  BY <1>1, <1>4, LedgerStutter DEF AttachCallId, Row
<1>5. ASSUME NEW r \in Requests, ClaimRecognition(r) PROVE UNCHANGED LedgerOf
  BY <1>1, <1>5, LedgerStutter DEF ClaimRecognition, Row
<1>6. ASSUME NEW r \in Requests, NEW o \in Outcomes, NEW before, CompleteIfPending(r, o, before)
      PROVE  Ledger!LedgerNext \/ UNCHANGED LedgerOf
  <2>1. CASE Completable(r, o, before)
    <3>1. rows' = [rows EXCEPT ![r] = Settled(@, StatusOf(o), o)] /\ IsPending(r)
      BY <1>6, <2>1 DEF CompleteIfPending, Completable
    <3>2. \/ StatusOf(o) = "expired" /\ o \in ExpiryOutcomes
          \/ StatusOf(o) = "responded" /\ o \in HumanOutcomes
      BY DEF StatusOf, Outcomes
    <3> QED
      BY <3>1, <3>2, LedgerSettle DEF Ledger!LedgerNext
  <2>2. CASE ~Completable(r, o, before)
    BY <1>1, <1>6, <2>2, LedgerStutter DEF CompleteIfPending
  <2> QED
    BY <2>1, <2>2
<1>7. ASSUME NEW r \in Requests, CompleteErrorIfPending(r)
      PROVE  Ledger!LedgerNext \/ UNCHANGED LedgerOf
  <2>1. CASE IsPending(r)
    <3>1. rows' = [rows EXCEPT ![r] = Settled(@, "failed", None)]
      BY <1>7, <2>1 DEF CompleteErrorIfPending
    <3> QED
      BY <2>1, <3>1, LedgerSettle DEF Ledger!LedgerNext
  <2>2. CASE ~IsPending(r)
    BY <1>1, <1>7, <2>2, LedgerStutter DEF CompleteErrorIfPending
  <2> QED
    BY <2>1, <2>2
<1>8. CASE ExpireStaleCalls
  <2>1. CASE Stale = {}
    BY <1>1, <1>8, <2>1, LedgerStutter DEF ExpireStaleCalls
  <2>2. CASE Stale # {}
    <3>1. PICK r \in Requests : r \in Stale /\ IsPending(r)
      BY <2>2 DEF Stale, PendingRows
    <3>2. \A q \in Requests : q \in Stale <=> q = r
      BY <1>1, <3>1 DEF UniqueIndexes, OnePending, Stale, PendingRows
    <3>3. rows' = [rows EXCEPT ![r] = Settled(@, "expired", "deadline_exceeded")]
      BY <1>1, <1>8, <3>2 DEF ExpireStaleCalls
    <3>4. "deadline_exceeded" \in ExpiryOutcomes
      BY DEF ExpiryOutcomes
    <3> QED
      BY <3>1, <3>3, <3>4, LedgerSettle DEF Ledger!LedgerNext
  <2> QED
    BY <2>1, <2>2
<1>9. CASE PurgeTerminal
  <2>1. Purgeable \in SUBSET Requests
    BY DEF Purgeable
  <2> QED
    BY <1>9, <2>1, LedgerForget DEF Ledger!LedgerNext
<1> QED
  BY <1>2, <1>3, <1>4, <1>5, <1>6, <1>7, <1>8, <1>9 DEF StoreNext, WriteRow

(* The table keeps the ledger's promises: one open request, one request per *)
(* key, one verdict each, and only settled requests are forgotten.          *)
THEOREM LedgerImplemented == StoreSpec => ImplementsLedger
<1>1. StoreInit => Ledger!LedgerInit
  BY DEF StoreInit, Ledger!LedgerInit, EntryOf, NoRow
<1>2. StoreInv /\ [StoreNext]_storeVars => [Ledger!LedgerNext]_LedgerOf
  BY LedgerStep
<1> QED
  BY <1>1, <1>2, StoreInvariant, PTL DEF StoreSpec, ImplementsLedger, Ledger!LedgerSpec, LedgerOf
=============================================================================
