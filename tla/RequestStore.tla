---------------------------- MODULE RequestStore ----------------------------
(***************************************************************************)
(* The PostgreSQL repository (persistence/repository.py) over the           *)
(* human_requests table of the migrations.  One action per SQL statement    *)
(* that writes: a statement runs atomically under READ COMMITTED, and the   *)
(* two statements of create_or_replay are two steps of the service.  An     *)
(* UPDATE whose WHERE clause selects no row leaves the table as it is and   *)
(* reports a row count of 0: the predicate of each clause is an operator    *)
(* of its own, which the caller reads as that row count.                    *)
(*                                                                          *)
(* `now' is the one clock of the model: the database's clock_timestamp()    *)
(* and the service's clock.now() and monotonic() are taken to agree.        *)
(*                                                                          *)
(* The four ways a telephone call can fail to reach a person (no_answer,    *)
(* busy, declined, disconnected) are treated alike everywhere below         *)
(* telephony/events.py and are the single outcome "unavailable" here.       *)
(***************************************************************************)
EXTENDS Integers, FiniteSets

CONSTANTS
    Requests,     \* request ids (uuid4): each names one inserted row, for ever
    Keys,         \* (subject, idempotency key) pairs
    Payloads,     \* questions: their kind, and the prompt and number they go to
    CallIds,      \* ACS call connection ids
    None,         \* SQL NULL, Python None
    Deadline,     \* deadline_seconds: a row expires this long after its ask began
    WorkCutoff,   \* work_cutoff_seconds: work stops this long after the ask began
    Retention,    \* retention_hours: terminal rows are kept this long
    MaxTime       \* bound of the model: the clock stops here

(* service.py:55 refuses other cutoffs; retention is counted in whole hours *)
(* and the deadline in seconds, so a row outlives the asks that use it.     *)
ASSUME TimesAssumption ==
    /\ Deadline \in Nat /\ WorkCutoff \in Nat /\ Retention \in Nat /\ MaxTime \in Nat
    /\ 0 < WorkCutoff /\ WorkCutoff < Deadline /\ Deadline <= Retention

VARIABLES
    rows,         \* request -> its row of human_requests
    now

storeVars == <<rows, now>>
-----------------------------------------------------------------------------
Kinds == {"approval", "input"}

(* request_hash: two payloads have one hash only if they are the same.      *)
ASSUME PayloadsAssumption == \A p \in Payloads : p.kind \in Kinds

HumanOutcomes == {"approved", "rejected", "answered"}
ExpiryOutcomes == {"unavailable", "cancelled", "deadline_exceeded"}
Outcomes == HumanOutcomes \cup ExpiryOutcomes
TerminalStatuses == {"responded", "expired", "failed"}

ASSUME NoneAssumption ==
    None \notin (Requests \cup Keys \cup CallIds \cup Payloads \cup Nat \cup Outcomes)

Row == [status: {"absent", "pending", "purged"} \cup TerminalStatuses,
        key: Keys \cup {None}, payload: Payloads \cup {None},
        outcome: Outcomes \cup {None}, callId: CallIds \cup {None},
        recognitionStarted: BOOLEAN,
        expiresAt: Nat \cup {None}, completedAt: Nat \cup {None}]

(* "absent": the id was never inserted; "purged": its row was deleted. *)
NoRow(s) == [status |-> s, key |-> None, payload |-> None, outcome |-> None, callId |-> None,
             recognitionStarted |-> FALSE, expiresAt |-> None, completedAt |-> None]

IsPending(r) == rows[r].status = "pending"
IsTerminal(r) == rows[r].status \in TerminalStatuses
PendingRows == {r \in Requests : IsPending(r)}
RowsOfKey(k) == {r \in Requests : rows[r].key = k}

(* service._cutoff *)
Cutoff(r) == rows[r].expiresAt - (Deadline - WorkCutoff)

StoreInit == rows = [r \in Requests |-> NoRow("absent")] /\ now = 0
-----------------------------------------------------------------------------
(* Mutant: only the index on the keys is there. *)
NoConflictOfKeys(k) == RowsOfKey(k) = {}

(* INSERT ... ON CONFLICT DO NOTHING: either unique index makes it a no-op. *)
NoConflict(k) == PendingRows = {} /\ RowsOfKey(k) = {}

InsertPending(r, k, p, expiresAt) ==
    /\ rows[r].status = "absent"
    /\ NoConflict(k)
    /\ rows' = [rows EXCEPT ![r] = [NoRow("pending") EXCEPT
                    !.key = k, !.payload = p, !.expiresAt = expiresAt]]

(* attach_call_id *)
Attachable(r, c) == IsPending(r) /\ rows[r].callId \in {None, c}

(* Mutant: the UPDATE has no WHERE clause. *)
AttachAnyCallId(r, c) == rows' = [rows EXCEPT ![r].callId = c]

AttachCallId(r, c) ==
    rows' = [rows EXCEPT ![r].callId = IF Attachable(r, c) THEN c ELSE @]

(* Mutant: a recognition is claimed again by every duplicate. *)
ClaimableAgain(r) == IsPending(r) /\ rows[r].callId # None /\ now < rows[r].expiresAt

(* claim_recognition *)
Claimable(r) == /\ IsPending(r)
                /\ rows[r].callId # None
                /\ ~rows[r].recognitionStarted
                /\ now < rows[r].expiresAt

ClaimRecognition(r) ==
    rows' = [rows EXCEPT ![r].recognitionStarted = @ \/ Claimable(r)]

(* complete_if_pending: a human answer must fit the kind of the question    *)
(* and arrive before both the expiry and `before', when that is given.      *)
FitsKind(kind, outcome) ==
    \/ kind = "approval" /\ outcome \in {"approved", "rejected"}
    \/ kind = "input" /\ outcome = "answered"

(* Mutants: the expiry, the kind, the status and `before' are not checked.  *)
CompletableLate(r, outcome, before) ==
    /\ IsPending(r)
    /\ outcome \in HumanOutcomes => FitsKind(rows[r].payload.kind, outcome)
CompletableTwice(r, outcome, before) ==
    /\ rows[r].status \in {"pending", "expired"}
    /\ outcome \in HumanOutcomes =>
          now < rows[r].expiresAt /\ FitsKind(rows[r].payload.kind, outcome)
CompletableAfterCutoff(r, outcome, before) ==
    /\ IsPending(r)
    /\ outcome \in HumanOutcomes =>
          now < rows[r].expiresAt /\ FitsKind(rows[r].payload.kind, outcome)

Completable(r, outcome, before) ==
    /\ IsPending(r)
    /\ outcome \in HumanOutcomes =>
          /\ now < rows[r].expiresAt
          /\ before # None => now < before
          /\ FitsKind(rows[r].payload.kind, outcome)

Settled(row, status, outcome) ==
    [row EXCEPT !.status = status, !.outcome = outcome, !.completedAt = now]

StatusOf(outcome) == IF outcome \in HumanOutcomes THEN "responded" ELSE "expired"

CompleteIfPending(r, outcome, before) ==
    rows' = [rows EXCEPT ![r] = IF Completable(r, outcome, before)
                                THEN Settled(@, StatusOf(outcome), outcome) ELSE @]

(* Mutant: the error code goes to the column of the outcome. *)
CompleteErrorAsOutcome(r) ==
    rows' = [rows EXCEPT ![r] = IF IsPending(r) THEN Settled(@, "failed", "failed") ELSE @]

(* complete_error_if_pending *)
CompleteErrorIfPending(r) ==
    rows' = [rows EXCEPT ![r] = IF IsPending(r) THEN Settled(@, "failed", None) ELSE @]

(* Mutant: rows whose call was never attached are not swept. *)
StaleWithCall == {r \in PendingRows : rows[r].expiresAt <= now /\ rows[r].callId # None}

(* expire_stale_calls: one UPDATE over every overdue pending row. *)
Stale == {r \in PendingRows : rows[r].expiresAt <= now}

ExpireStaleCalls ==
    rows' = [r \in Requests |-> IF r \in Stale THEN Settled(rows[r], "expired", "deadline_exceeded")
                                ELSE rows[r]]

(* Mutants: rows are purged at once; rows that never ended are purged too. *)
PurgeableAtOnce == {r \in Requests : IsTerminal(r) /\ rows[r].completedAt <= now}
PurgeableExpired ==
    {r \in Requests : rows[r].expiresAt # None /\ rows[r].expiresAt + Retention <= now}

(* purge_terminal(clock.now() - retention) *)
Purgeable == {r \in Requests : IsTerminal(r) /\ rows[r].completedAt + Retention < now}

PurgeTerminal ==
    rows' = [r \in Requests |-> IF r \in Purgeable THEN NoRow("purged") ELSE rows[r]]

Tick == now < MaxTime /\ now' = now + 1 /\ UNCHANGED rows
-----------------------------------------------------------------------------
(* The two values callers give for `before': none, or the cutoff of the row *)
(* (of a row that was inserted).                                            *)
Limits(r) == {None} \cup {Cutoff(q) : q \in {r} \ RowsOfKey(None)}

(* An INSERT may run up to WorkCutoff after its expiry was computed.        *)
WriteRow ==
    \/ \E r \in Requests, k \in Keys, p \in Payloads :
         \E e \in (now + Deadline - WorkCutoff) .. (now + Deadline) : InsertPending(r, k, p, e)
    \/ \E r \in Requests, c \in CallIds : AttachCallId(r, c)
    \/ \E r \in Requests : ClaimRecognition(r)
    \/ \E r \in Requests, o \in Outcomes :
         \E before \in Limits(r) : CompleteIfPending(r, o, before)
    \/ \E r \in Requests : CompleteErrorIfPending(r)
    \/ ExpireStaleCalls
    \/ PurgeTerminal

StoreNext == Tick \/ (WriteRow /\ UNCHANGED now)

StoreSpec == StoreInit /\ [][StoreNext]_storeVars
-----------------------------------------------------------------------------
(* Rows are rows of the table, as its column types and NOT NULLs have it. *)
StoreTypeOK == rows \in [Requests -> Row] /\ now \in Nat

(* The two unique indexes of migration 0001: one pending row in the whole   *)
(* table, and one row per (subject, idempotency key).  Every statement has  *)
(* to preserve them, or the database would refuse it with an error.         *)
OnePending == \A q, r \in Requests : IsPending(q) /\ IsPending(r) => q = r
OneRowPerKey ==
    \A q, r \in Requests : rows[q].key = rows[r].key /\ rows[q].key # None => q = r
UniqueIndexes == OnePending /\ OneRowPerKey

(* ck_human_requests_lifecycle of migration 0001, which no statement of the *)
(* repository may trip over: the verdict columns agree with the status.     *)
Lifecycle(row) ==
    /\ row.status = "pending" => row.outcome = None /\ row.completedAt = None
    /\ row.status = "responded" => row.outcome \in HumanOutcomes /\ row.completedAt # None
    /\ row.status = "expired" => row.outcome \in ExpiryOutcomes /\ row.completedAt # None
    /\ row.status = "failed" => row.outcome = None /\ row.completedAt # None
    /\ row.status \in {"absent", "purged"} => row = NoRow(row.status)

LifecycleCheck == \A r \in Requests : Lifecycle(rows[r])

(* A human answer is only ever recorded in time, to a question of its kind. *)
InTime(row) ==
    row.status = "responded" => /\ row.completedAt < row.expiresAt
                                /\ FitsKind(row.payload.kind, row.outcome)

AnswerFitsQuestion == \A r \in Requests : InTime(rows[r])

(* The first terminal update wins: whatever statements race, a terminal row *)
(* keeps its verdict, its call and its time until it is purged, and it is   *)
(* purged only when it has been kept for the retention time.                *)
FirstTerminalWins ==
    [][\A r \in Requests : IsTerminal(r) =>
          \/ rows'[r] = rows[r]
          \/ rows'[r].status = "purged" /\ now - rows[r].completedAt > Retention]_storeVars

(* The table implements the ledger: a status is a phase, and the verdict is *)
(* the outcome or the error.                                                *)
Verdicts == Outcomes \cup {"failed"}

EntryOf(row) ==
    [phase |-> CASE row.status = "absent" -> "unused"
                 [] row.status = "pending" -> "open"
                 [] row.status = "purged" -> "forgotten"
                 [] OTHER -> "settled",
     key |-> row.key,
     verdict |-> IF row.status = "failed" THEN "failed" ELSE row.outcome]

Ledger == INSTANCE RequestLedger WITH ledger <- [r \in Requests |-> EntryOf(rows[r])]

ImplementsLedger == Ledger!LedgerSpec
=============================================================================
