-------------------------- MODULE AskHumanService --------------------------
(***************************************************************************)
(* One replica of the service (application/service.py) and its maintenance  *)
(* loops (application/maintenance.py) over the repository, with Azure       *)
(* Communication Services and the person at the telephone around them.      *)
(*                                                                          *)
(* A coroutine is a process whose pc names the dependency call it awaits.   *)
(* A step is: that call takes effect, the coroutine resumes and runs to its *)
(* next await.  So a decision sees the clock and the cancellation signals   *)
(* at the reply, and anything may happen before the next call takes effect. *)
(* A dependency that fails, and one whose reply is lost after it took       *)
(* effect, spend one of MaxFaults; so does a timeout of a cleanup budget.   *)
(* The gauge read of _sync_pending, whose failures are suppressed, changes  *)
(* nothing here and is left out, and so are spans and telemetry records.    *)
(***************************************************************************)
EXTENDS RequestStore

CONSTANTS
    Asks,         \* invocations of ask(), over REST or MCP
    Handlers,     \* callback deliveries handled at a time
    Reports,      \* bound: the types of the events ACS sends
    Repeats,      \* bound: whether ACS delivers again what was answered with 200
    MaxFaults,    \* bound: failed, lost or timed-out dependency calls
    MaxCrashes    \* bound: restarts of the replica

ASSUME ProcessesAssumption ==
    /\ Asks \cap Handlers = {} /\ None \notin Asks
    /\ MaxFaults \in Nat /\ MaxCrashes \in Nat

VARIABLES
    ask,          \* invocation -> its arguments, its signal, its role and its call
    proc,         \* invocation or handler -> its coroutine
    event,        \* handler -> the event it handles
    sweep,        \* calls of expired rows that maintenance has yet to hang up
    calls,        \* ACS: call -> its state
    sent,         \* ACS: every event ever sent; any of them may arrive again
    fresh,        \* ACS: the events not yet answered with HTTP 200
    faults, crashes

serviceVars == <<ask, proc, event, sweep>>
acsVars == <<calls, sent, fresh>>
budgetVars == <<faults, crashes>>
vars == <<storeVars, serviceVars, acsVars, budgetVars>>
-----------------------------------------------------------------------------
Processes == Asks \cup Handlers

EventTypes == HumanOutcomes \cup {"connected", "unavailable", "cancelled", "dependency_failed"}
Events == [type: EventTypes, call: CallIds]

AskPcs == {"insert", "lookup", "verify", "create_call", "attach", "confirm", "unattached", "poll"}
HandlerPcs == {"get", "bind", "reload", "claim", "recheck", "prompt", "complete", "acknowledge"}
CleanupPcs == {"expire", "reread", "fail", "refetch", "hang_up"}

(* Who called _expire or _fail, and so what follows when it is over.        *)
Frames == {"inner", "outer", "start", "unattached", "creator",
           "late", "lost", "timeout", "event", "final", "acknowledged", "cut"}

(* What an invocation returns or raises, and a handler's 200 ("ok") or 5xx. *)
Results == Outcomes \cup {"ok", "error", "conflict", "rate_limited", "aborted", "crashed"}

(* What admission made of an invocation: its request is its own, or shared. *)
Roles == {"creator", "joiner"}

(* Python's None is none of the names the coroutines go by.                 *)
ASSUME NamesAssumption == None \notin Frames \cup Results \cup CleanupPcs \cup Roles \cup {"poll", "done"}

(* The HumanRequest a coroutine holds, as it was when it was loaded. *)
Snapshot == [status: {"absent", "pending", "purged"} \cup TerminalStatuses,
             outcome: Outcomes \cup {None}, callId: CallIds \cup {None}, cutoff: Nat \cup {None}]

Loaded(r) == [status |-> rows[r].status, outcome |-> rows[r].outcome, callId |-> rows[r].callId,
              cutoff |-> IF rows[r].expiresAt = None THEN None ELSE Cutoff(r)]

NotLoaded == [status |-> "absent", outcome |-> None, callId |-> None, cutoff |-> None]

Missing(s) == s.status \in {"absent", "purged"}

IdleProc == [pc |-> "idle", req |-> None, stored |-> NotLoaded, outcome |-> None, frame |-> None,
             targets |-> {}, next |-> None, watch |-> None, result |-> None]

NoAsk == [key |-> None, payload |-> None, started |-> 0, cancelled |-> FALSE,
          role |-> None, callId |-> None]

NoCall == [req |-> None, state |-> "unused", prompts |-> 0, listening |-> None, playing |-> FALSE]
NoEvent == [type |-> "connected", call |-> None]

Init ==
    /\ StoreInit
    /\ ask = [a \in Asks |-> NoAsk]
    /\ proc = [p \in Processes |-> IdleProc]
    /\ event = [h \in Handlers |-> NoEvent]
    /\ sweep = {}
    /\ calls = [c \in CallIds |-> NoCall]
    /\ sent = {} /\ fresh = {}
    /\ faults = 0 /\ crashes = 0
-----------------------------------------------------------------------------
(* self._active and self._call_ids: what the running creator of a request   *)
(* keeps in memory.  Its limit, started + work cutoff, is the row's cutoff. *)
Running(a) == proc[a].pc \notin {"idle", "done"}
Creators(r) == {a \in Asks : Running(a) /\ proc[a].req = r /\ ask[a].role = "creator"}
KnownCalls(r) == {ask[a].callId : a \in Creators(r)} \ {None}

OutOfTime(s) == now >= s.cutoff               \* _remaining(stored) <= 0

(* Mutants: only the call in memory is ended; the column is not looked at. *)
CallsInMemory(r, s) == KnownCalls(r)
CallOnRecord(r, s) == {s.callId}

(* current.call_id or self._call_ids.get(request_id) *)
CallsToEnd(r, s) == IF s.callId # None THEN {s.callId} ELSE KnownCalls(r)

(* Resuming a coroutine x: await the next call, finish, or hang up first. *)
Goto(x, pc) == [x EXCEPT !.pc = pc]
Finish(x, result) == [IdleProc EXCEPT !.pc = "done", !.req = x.req, !.result = result]
Leave(x) ==
    CASE x.next = "done" -> Finish(x, x.result)
      [] x.next = "fail" -> [x EXCEPT !.pc = "fail", !.next = None,      \* an except clause
                                !.frame = IF @ = "unattached" THEN "start" ELSE "final"]
      [] OTHER -> [x EXCEPT !.pc = x.next, !.next = None, !.result = None]
HangUpThen(x, C, next, result) ==
    LET y == [x EXCEPT !.targets = C, !.next = next, !.result = result] IN
    IF C = {} THEN Leave(y) ELSE Goto(y, "hang_up")
StartExpire(x, outcome, frame) == [x EXCEPT !.pc = "expire", !.outcome = outcome, !.frame = frame]
StartFail(x, frame) == [x EXCEPT !.pc = "fail", !.frame = frame]

Resume(p, x) == proc' = [proc EXCEPT ![p] = x]

Fault == faults < MaxFaults /\ faults' = faults + 1 /\ UNCHANGED crashes

Send(type, c) == LET e == [type |-> type, call |-> c] IN sent' = sent \cup {e} /\ fresh' = fresh \cup {e}

(* Hanging up for everyone ends a live call, and ACS reports the end. *)
Live(c) == calls[c].state \in {"dialing", "connected"}
EndCall(c) ==
    IF Live(c)
    THEN /\ calls' = [calls EXCEPT ![c].state = "ended", ![c].listening = None, ![c].playing = FALSE]
         /\ Send("unavailable", c)
    ELSE UNCHANGED acsVars
-----------------------------------------------------------------------------
(*                 _expire and _fail, for every caller                      *)

(* Mutant: _expire answers with the outcome it meant to record. *)
AfterExpireAsMeant(p, C, s, raised) ==
    LET x == proc[p] IN
    CASE x.frame \in {"inner", "outer"} -> HangUpThen(x, C, "done", IF raised THEN "error" ELSE x.outcome)
      [] x.frame = "timeout" -> HangUpThen(x, C, "done", IF raised THEN "error" ELSE "ok")
      [] OTHER -> HangUpThen(x, C, "done", "ok")

(* What the caller of _expire does once the calls in C are hung up: the    *)
(* error of a failed row is raised, and the except clauses of a handler     *)
(* answer a raise with _fail, except for the last of them.                  *)
AfterExpire(p, C, s, raised) ==
    LET x == proc[p] IN
    CASE x.frame \in {"inner", "outer"} -> HangUpThen(x, C, "done", IF raised THEN "error" ELSE s.outcome)
      [] x.frame = "timeout" -> HangUpThen(x, C, "done", IF raised THEN "error" ELSE "ok")
      [] x.frame \notin {"inner", "outer", "timeout"} /\ raised -> HangUpThen(x, C, "fail", None)
      [] ~raised /\ x.frame = "late" /\ x.stored.callId = None /\ s.status = "expired" ->
            HangUpThen(x, C \cup {event[p].call}, "done", "ok")
      [] OTHER -> HangUpThen(x, C, "done", "ok")

ExpireRaises(p) ==
    Resume(p, AfterExpire(p, CallsToEnd(proc[p].req, proc[p].stored), proc[p].stored, TRUE))

ExpireWrite(p) ==
    /\ proc[p].pc = "expire"
    /\ CompleteIfPending(proc[p].req, proc[p].outcome, None)
    /\ Resume(p, Goto(proc[p], "reread"))
    /\ UNCHANGED <<now, ask, event, sweep, acsVars, budgetVars>>

ExpireReread(p) ==
    LET s == Loaded(proc[p].req) IN
    /\ proc[p].pc = "reread"
    /\ IF Missing(s) THEN ExpireRaises(p)
       ELSE Resume(p, AfterExpire(p, IF s.status = "responded" THEN {} ELSE CallsToEnd(proc[p].req, s),
                                  s, s.status = "failed"))
    /\ UNCHANGED <<storeVars, ask, event, sweep, acsVars, budgetVars>>

ExpireFault(p) ==
    /\ proc[p].pc \in {"expire", "reread"}
    /\ ExpireRaises(p)
    /\ Fault
    /\ UNCHANGED <<storeVars, ask, event, sweep, acsVars>>

AfterFail(p, C, raised) ==
    LET x == proc[p] IN
    CASE x.frame = "start" -> IF raised THEN HangUpThen(x, C, "done", "error")
                              ELSE HangUpThen(x, C, "poll", None)
      [] x.frame = "unattached" -> IF raised THEN HangUpThen(x, C, "fail", None)
                                   ELSE HangUpThen(x, C \cup KnownCalls(x.req), "poll", None)
      [] x.frame = "creator" -> HangUpThen(x, C, "done", "error")
      [] x.frame = "event" /\ raised -> HangUpThen(x, C, "fail", None)
      [] OTHER -> HangUpThen(x, C, "done", IF raised THEN "error" ELSE "ok")

FailRaises(p) == Resume(p, AfterFail(p, CallsToEnd(proc[p].req, proc[p].stored), TRUE))

(* Mutant: losing the race to settle the request is retried for ever. *)
FailWriteUntilWon(p) ==
    /\ proc[p].pc = "fail"
    /\ CompleteErrorIfPending(proc[p].req)
    /\ IsPending(proc[p].req) /\ Resume(p, Goto(proc[p], "refetch"))
    /\ UNCHANGED <<now, ask, event, sweep, acsVars, budgetVars>>

FailWrite(p) ==
    /\ proc[p].pc = "fail"
    /\ CompleteErrorIfPending(proc[p].req)
    /\ Resume(p, IF IsPending(proc[p].req) THEN Goto(proc[p], "refetch") ELSE AfterFail(p, {}, FALSE))
    /\ UNCHANGED <<now, ask, event, sweep, acsVars, budgetVars>>

FailRefetch(p) ==
    LET s == Loaded(proc[p].req) IN
    /\ proc[p].pc = "refetch"
    /\ IF Missing(s) THEN FailRaises(p)
       ELSE Resume(p, AfterFail(p, CallsToEnd(proc[p].req, s), FALSE))
    /\ UNCHANGED <<storeVars, ask, event, sweep, acsVars, budgetVars>>

FailFault(p) ==
    /\ proc[p].pc \in {"fail", "refetch"}
    /\ FailRaises(p)
    /\ Fault
    /\ UNCHANGED <<storeVars, ask, event, sweep, acsVars>>

(* _best_effort_hang_up: a failure is suppressed. *)
HungUp(x, c) == IF x.targets = {c} THEN Leave([x EXCEPT !.targets = {}])
                ELSE [x EXCEPT !.targets = @ \ {c}]

HangUp(p, c) ==
    /\ proc[p].pc = "hang_up" /\ c \in proc[p].targets
    /\ EndCall(c)
    /\ Resume(p, HungUp(proc[p], c))
    /\ UNCHANGED <<storeVars, ask, event, sweep, budgetVars>>

HangUpFault(p, c) ==
    /\ proc[p].pc = "hang_up" /\ c \in proc[p].targets
    /\ Resume(p, HungUp(proc[p], c))
    /\ Fault
    /\ UNCHANGED <<storeVars, ask, event, sweep, acsVars>>
-----------------------------------------------------------------------------
(*                             ask(): admission                             *)

(* Bound: an ask begins early enough for its deadline to pass within the    *)
(* model's time.                                                            *)
Ask(a, k, p) ==
    /\ proc[a].pc = "idle"
    /\ now + Deadline <= MaxTime
    /\ ask' = [ask EXCEPT ![a] = [NoAsk EXCEPT !.key = k, !.payload = p, !.started = now]]
    /\ Resume(a, Goto(IdleProc, "insert"))
    /\ UNCHANGED <<storeVars, event, sweep, acsVars, budgetVars>>

(* The client disconnects: requests.py's watcher or the MCP dispatcher sets *)
(* the cancellation signal of the invocation.                               *)
Cancel(a) ==
    /\ Running(a) /\ ~ask[a].cancelled
    /\ ask' = [ask EXCEPT ![a].cancelled = TRUE]
    /\ UNCHANGED <<storeVars, proc, event, sweep, acsVars, budgetVars>>

(* Mutant: a row is inserted to expire at the cutoff of its ask. *)
AskExpiryAtCutoff(a) == ask[a].started + WorkCutoff

AskExpiry(a) == ask[a].started + Deadline          \* expires_at of a row this ask inserts
AskCutoff(a) == ask[a].started + WorkCutoff

Accepted(a) == [NotLoaded EXCEPT !.status = "pending", !.cutoff = AskCutoff(a)]

Inserted(a, r) == InsertPending(r, ask[a].key, ask[a].payload, AskExpiry(a)) /\ UNCHANGED now

(* The INSERT of create_or_replay; its creator goes on in _run_request.     *)
AdmitCreated(a, r) ==
    /\ proc[a].pc = "insert"
    /\ Inserted(a, r)
    /\ ask' = [ask EXCEPT ![a].role = "creator"]
    /\ Resume(a, [proc[a] EXCEPT
            !.req = r, !.stored = Accepted(a),
            !.pc = IF ask[a].cancelled \/ OutOfTime(Accepted(a)) THEN "poll" ELSE "verify"])
    /\ UNCHANGED <<event, sweep, acsVars, budgetVars>>

AdmitConflict(a) ==
    /\ proc[a].pc = "insert"
    /\ ~NoConflict(ask[a].key)
    /\ Resume(a, Goto(proc[a], "lookup"))
    /\ UNCHANGED <<storeVars, ask, event, sweep, acsVars, budgetVars>>

(* The SELECT by key, a statement of its own: the row that stood in the way *)
(* of the INSERT may have changed, or be gone.                              *)
Verdict(s) == IF s.status = "failed" THEN "error" ELSE s.outcome

(* Mutant: a joiner works on the request like its creator. *)
AdmitAsCreator(a, r) ==
    /\ proc[a].pc = "lookup"
    /\ r \in RowsOfKey(ask[a].key)
    /\ rows[r].payload = ask[a].payload /\ IsPending(r)
    /\ ask' = [ask EXCEPT ![a].role = "joiner"]
    /\ Resume(a, [proc[a] EXCEPT !.req = r, !.stored = Loaded(r), !.pc = "verify"])
    /\ UNCHANGED <<storeVars, event, sweep, acsVars, budgetVars>>

AdmitJoined(a, r) ==
    /\ proc[a].pc = "lookup"
    /\ r \in RowsOfKey(ask[a].key)
    /\ rows[r].payload = ask[a].payload /\ IsPending(r)
    /\ ask' = [ask EXCEPT ![a].role = "joiner"]
    /\ Resume(a, [proc[a] EXCEPT !.req = r, !.stored = Loaded(r), !.pc = "poll"])
    /\ UNCHANGED <<storeVars, event, sweep, acsVars, budgetVars>>

AdmitRefused(a) ==
    /\ proc[a].pc = "lookup"
    /\ \/ /\ RowsOfKey(ask[a].key) = {}
          /\ Resume(a, Finish(proc[a], "rate_limited"))
       \/ \E r \in RowsOfKey(ask[a].key) :
            /\ rows[r].payload # ask[a].payload
            /\ Resume(a, Finish(proc[a], "conflict"))
    /\ UNCHANGED <<storeVars, ask, event, sweep, acsVars, budgetVars>>

(* Mutant: the payload is not compared with the one on record. *)
AdmitAnyReplay(a, r) ==
    /\ proc[a].pc = "lookup"
    /\ r \in RowsOfKey(ask[a].key) /\ ~IsPending(r)
    /\ Resume(a, Finish([proc[a] EXCEPT !.req = r], Verdict(Loaded(r))))
    /\ UNCHANGED <<storeVars, ask, event, sweep, acsVars, budgetVars>>

AdmitReplayed(a, r) ==
    /\ proc[a].pc = "lookup"
    /\ r \in RowsOfKey(ask[a].key)
    /\ rows[r].payload = ask[a].payload /\ ~IsPending(r)
    /\ Resume(a, Finish([proc[a] EXCEPT !.req = r], Verdict(Loaded(r))))
    /\ UNCHANGED <<storeVars, ask, event, sweep, acsVars, budgetVars>>

(* Cancelled, or out of time, while the admission is in flight.             *)
AdmissionOver(a) == ask[a].cancelled \/ now >= AskCutoff(a)

AdmissionAborted(a) ==
    /\ proc[a].pc \in {"insert", "lookup"}
    /\ AdmissionOver(a)
    /\ Resume(a, Finish(proc[a], IF ask[a].cancelled THEN "aborted" ELSE "error"))
    /\ UNCHANGED <<storeVars, ask, event, sweep, acsVars, budgetVars>>

AdmissionFault(a) ==
    /\ proc[a].pc \in {"insert", "lookup"}
    /\ Resume(a, Finish(proc[a], "error"))
    /\ Fault
    /\ UNCHANGED <<storeVars, ask, event, sweep, acsVars>>

(* The INSERT committed but the invocation never learned of it: the row is  *)
(* pending and no coroutine has created it.                                 *)
AdmissionLost(a, r) ==
    /\ proc[a].pc = "insert"
    /\ Inserted(a, r)
    /\ Resume(a, Finish(proc[a], IF ask[a].cancelled THEN "aborted" ELSE "error"))
    /\ Fault
    /\ UNCHANGED <<ask, event, sweep, acsVars>>
-----------------------------------------------------------------------------
(*               ask(): _run_request, the creator's and the joiners' work   *)

Placed(r, c) == calls' = [calls EXCEPT ![c] = [NoCall EXCEPT !.req = r, !.state = "dialing"]]
Unused(c) == calls[c].state = "unused"

Verify(a) ==
    LET s == Loaded(proc[a].req) IN
    /\ proc[a].pc = "verify"
    /\ Resume(a, IF Missing(s) THEN Finish(proc[a], "error")
                 ELSE IF s.status = "pending" /\ ~ask[a].cancelled /\ ~OutOfTime(s)
                      THEN Goto(proc[a], "create_call")
                      ELSE Goto(proc[a], "poll"))
    /\ UNCHANGED <<storeVars, ask, event, sweep, acsVars, budgetVars>>

CreateCall(a, c) ==
    /\ proc[a].pc = "create_call" /\ Unused(c)
    /\ Placed(proc[a].req, c)
    /\ ask' = [ask EXCEPT ![a].callId = c]
    /\ Resume(a, Goto(proc[a], "attach"))
    /\ UNCHANGED <<storeVars, event, sweep, sent, fresh, budgetVars>>

CreateCallFault(a, c) ==
    /\ proc[a].pc = "create_call" /\ Unused(c)
    /\ Placed(proc[a].req, c) \/ UNCHANGED calls
    /\ Resume(a, StartFail(proc[a], "start"))
    /\ Fault
    /\ UNCHANGED <<storeVars, ask, event, sweep, sent, fresh>>

Attach(a) ==
    /\ proc[a].pc = "attach"
    /\ AttachCallId(proc[a].req, ask[a].callId)
    /\ Resume(a, Goto(proc[a], IF Attachable(proc[a].req, ask[a].callId) THEN "confirm" ELSE "unattached"))
    /\ UNCHANGED <<now, ask, event, sweep, acsVars, budgetVars>>

(* The row that _start_call reads again.  One that is pending and of        *)
(* another call, whose id its _fail would then hang up first, takes a       *)
(* second call of the request (OneCallPerRequest).                          *)
Confirm(a) ==
    LET s == Loaded(proc[a].req) IN
    /\ proc[a].pc \in {"confirm", "unattached"}
    /\ Resume(a, CASE Missing(s) -> StartFail(proc[a], "start")
                   [] proc[a].pc = "unattached" /\ s.status = "pending" -> StartFail(proc[a], "unattached")
                   [] /\ proc[a].pc = "unattached" /\ s.status \in TerminalStatuses
                      /\ ~(s.callId = ask[a].callId /\ s.status = "responded") ->
                        HangUpThen([proc[a] EXCEPT !.frame = "start"], {ask[a].callId}, "poll", None)
                   [] OTHER -> Goto(proc[a], "poll"))
    /\ UNCHANGED <<storeVars, ask, event, sweep, acsVars, budgetVars>>

(* One turn of _wait_for_terminal; a turn that finds nothing sleeps.        *)
Poll(a) ==
    LET s == Loaded(proc[a].req) IN
    /\ proc[a].pc = "poll"
    /\ CASE Missing(s) -> Resume(a, Finish(proc[a], "error"))
         [] s.status \in TerminalStatuses -> Resume(a, Finish(proc[a], Verdict(s)))
         [] s.status = "pending" /\ ask[a].cancelled ->
                Resume(a, IF ask[a].role = "creator" THEN StartExpire(proc[a], "cancelled", "inner")
                          ELSE Finish(proc[a], "aborted"))
         [] OTHER -> /\ OutOfTime(proc[a].stored)
                     /\ Resume(a, StartExpire(proc[a], "deadline_exceeded", "inner"))
    /\ UNCHANGED <<storeVars, ask, event, sweep, acsVars, budgetVars>>

WorkFault(a) ==
    /\ \/ /\ proc[a].pc \in {"attach", "confirm", "unattached"}
          /\ Resume(a, StartFail(proc[a], "start"))
       \/ /\ proc[a].pc \in {"verify", "poll"}
          /\ Resume(a, IF ask[a].role = "creator" THEN StartFail(proc[a], "creator")
                       ELSE Finish(proc[a], "error"))
    /\ Fault
    /\ UNCHANGED <<storeVars, ask, event, sweep, acsVars>>

(* _ask waits for the work, for the cancellation signal and for the earlier *)
(* of the row's cutoff and its own.  Either of the last two cancels the     *)
(* work at whatever it awaits; an _expire among it still hangs up.          *)
InWork(a) ==
    \/ proc[a].pc \in {"verify", "create_call", "attach", "confirm", "unattached", "poll"}
    \/ proc[a].pc \in CleanupPcs /\ proc[a].frame \in {"inner", "start", "unattached"}

WorkOver(a) == ask[a].cancelled \/ OutOfTime(proc[a].stored) \/ now >= AskCutoff(a)

(* Mutant: a joiner that disconnects cancels the request, as its creator does. *)
InterruptedByAnyone(a) ==
    LET x == [proc[a] EXCEPT !.frame = "outer", !.next = None, !.targets = {},
                 !.outcome = IF ask[a].cancelled THEN "cancelled" ELSE "deadline_exceeded"] IN
    HangUpThen(x, IF proc[a].pc \in {"expire", "reread"} THEN CallsToEnd(x.req, x.stored) ELSE {},
               "expire", None)

Interrupted(a) ==
    LET x == [proc[a] EXCEPT !.frame = "outer", !.next = None, !.targets = {},
                 !.outcome = IF ask[a].cancelled THEN "cancelled" ELSE "deadline_exceeded"]
        C == IF proc[a].pc \in {"expire", "reread"} THEN CallsToEnd(x.req, x.stored) ELSE {} IN
    IF ask[a].cancelled /\ ask[a].role = "joiner"
    THEN HangUpThen(x, C, "done", "aborted")
    ELSE HangUpThen(x, C, "expire", None)

Interrupt(a) ==
    /\ InWork(a) /\ WorkOver(a)
    /\ Resume(a, Interrupted(a))
    /\ UNCHANGED <<storeVars, ask, event, sweep, acsVars, budgetVars>>

(* The interrupted create_call reached ACS all the same: the call exists    *)
(* and its id was never returned.                                           *)
InterruptCreate(a, c) ==
    /\ proc[a].pc = "create_call" /\ WorkOver(a) /\ Unused(c)
    /\ Placed(proc[a].req, c)
    /\ Resume(a, Interrupted(a))
    /\ UNCHANGED <<storeVars, ask, event, sweep, sent, fresh, budgetVars>>

(* What is still hung up when the deadline cuts an invocation: the calls of *)
(* an _expire under way, and the call a creator remembers, by the shielded  *)
(* _expire of its except clause, which has no budget left for a statement.  *)
CallsAtDeadline(a) ==
    LET x == proc[a] IN
    (IF x.pc \in {"expire", "reread"} THEN CallsToEnd(x.req, x.stored) ELSE {})
      \cup (IF ask[a].role = "creator" /\ x.frame # "creator" THEN KnownCalls(x.req) ELSE {})

(* asyncio.timeout(deadline) around it all: reached only when a dependency  *)
(* outlasts the budgets of the cleanup, and so a fault, which may outlast   *)
(* the last hang-ups too.                                                   *)
DeadlineAbort(a) ==
    /\ Running(a) /\ now >= AskExpiry(a) /\ proc[a].frame # "cut"
    /\ \E C \in {{}, CallsAtDeadline(a)} :
          Resume(a, HangUpThen([proc[a] EXCEPT !.frame = "cut"], C, "done", "error"))
    /\ Fault
    /\ UNCHANGED <<storeVars, ask, event, sweep, acsVars>>
-----------------------------------------------------------------------------
(*                          handle_call_event()                             *)

(* A delivery: of an event never answered with 200, or of one again.        *)
Deliver(h, e) ==
    /\ proc[h].pc = "idle" /\ e \in IF Repeats THEN sent ELSE fresh
    /\ event' = [event EXCEPT ![h] = e]
    /\ Resume(h, [IdleProc EXCEPT !.pc = "get", !.req = calls[e.call].req])
    /\ UNCHANGED <<storeVars, ask, sweep, acsVars, budgetVars>>

(* The callback endpoint answers 200, or 5xx and ACS delivers again.        *)
Respond(h) ==
    /\ proc[h].pc = "done"
    /\ fresh' = IF proc[h].result = "ok" THEN fresh \ {event[h]} ELSE fresh
    /\ event' = [event EXCEPT ![h] = NoEvent]
    /\ Resume(h, IdleProc)
    /\ UNCHANGED <<storeVars, ask, sweep, calls, sent, budgetVars>>

LateConnection(h, x, s) ==
    IF event[h].type = "connected" /\ s.status \in {"expired", "failed"}
    THEN HangUpThen(x, {event[h].call}, "done", "ok") ELSE Finish(x, "ok")

(* The event meets a pending request whose call it is.  domain/transitions: *)
(* a result that does not fit the question is ignored.                      *)
Fits(r, type) == type \in ExpiryOutcomes \/ FitsKind(rows[r].payload.kind, type)

Dispatch(h, x, s) ==
    LET type == event[h].type  loaded == [x EXCEPT !.stored = s] IN
    CASE type = "connected" ->
            IF OutOfTime(s) \/ \E a \in Creators(x.req) : ask[a].cancelled
            THEN Finish(x, "ok")
            ELSE [loaded EXCEPT !.pc = "claim",
                     !.watch = IF Creators(x.req) = {} THEN None ELSE CHOOSE a \in Creators(x.req) : TRUE]
      [] type = "dependency_failed" -> StartFail(loaded, "event")
      [] OTHER -> IF ~Fits(x.req, type) THEN Finish(x, "ok")
                  ELSE IF OutOfTime(s) THEN StartExpire(loaded, "deadline_exceeded", "timeout")
                  ELSE Goto(loaded, "complete")

Get(h) ==
    LET s == Loaded(proc[h].req)  x == [proc[h] EXCEPT !.stored = s]
        concerned == ~Missing(s) /\ s.callId \in {None, event[h].call} IN
    /\ proc[h].pc = "get"
    /\ Resume(h, CASE ~concerned -> Finish(x, "ok")
                   [] concerned /\ s.status # "pending" -> LateConnection(h, x, s)
                   [] concerned /\ s.status = "pending" /\ OutOfTime(s) ->
                        StartExpire(x, "deadline_exceeded", "late")
                   [] concerned /\ s.status = "pending" /\ ~OutOfTime(s) /\ s.callId = None -> Goto(x, "bind")
                   [] OTHER -> Dispatch(h, x, s))
    /\ UNCHANGED <<storeVars, ask, event, sweep, acsVars, budgetVars>>

Bind(h) ==
    /\ proc[h].pc = "bind"
    /\ AttachCallId(proc[h].req, event[h].call)
    /\ Resume(h, IF Attachable(proc[h].req, event[h].call) THEN Goto(proc[h], "reload")
                 ELSE Finish(proc[h], "ok"))
    /\ UNCHANGED <<now, ask, event, sweep, acsVars, budgetVars>>

Reload(h) ==
    LET s == Loaded(proc[h].req)  x == proc[h] IN
    /\ proc[h].pc = "reload"
    /\ Resume(h, CASE Missing(s) -> StartFail(x, "final")
                   [] ~Missing(s) /\ s.callId # event[h].call -> Finish(x, "ok")
                   [] s.callId = event[h].call /\ s.status # "pending" ->
                        LateConnection(h, [x EXCEPT !.frame = "event"], s)
                   [] OTHER -> Dispatch(h, x, s))
    /\ UNCHANGED <<storeVars, ask, event, sweep, acsVars, budgetVars>>

(* _recognize: whoever claims the recognition prompts the person, once.     *)
Claim(h) ==
    /\ proc[h].pc = "claim"
    /\ ClaimRecognition(proc[h].req)
    /\ Resume(h, IF Claimable(proc[h].req) THEN Goto(proc[h], "recheck") ELSE Finish(proc[h], "ok"))
    /\ UNCHANGED <<now, ask, event, sweep, acsVars, budgetVars>>

Recheck(h) ==
    LET s == Loaded(proc[h].req)  x == proc[h] IN
    /\ proc[h].pc = "recheck"
    /\ Resume(h, IF Missing(s) THEN StartFail(x, "final")
                 ELSE IF s.status # "pending" THEN Finish(x, "ok")
                 ELSE IF OutOfTime(s) THEN StartExpire(x, "deadline_exceeded", "timeout")
                 ELSE IF x.watch # None /\ ask[x.watch].cancelled THEN Finish(x, "ok")
                 ELSE Goto(x, "prompt"))
    /\ UNCHANGED <<storeVars, ask, event, sweep, acsVars, budgetVars>>

Prompted(c) == calls' = [calls EXCEPT ![c].prompts = @ + 1,
                                      ![c].listening = rows[calls[c].req].payload.kind]

(* ACS refuses to prompt on a call that is over.                            *)
Prompt(h) ==
    LET c == proc[h].stored.callId IN
    /\ proc[h].pc = "prompt"
    /\ IF calls[c].state = "connected"
       THEN Prompted(c) /\ Resume(h, Finish(proc[h], "ok"))
       ELSE UNCHANGED calls /\ Resume(h, StartFail(proc[h], "event"))
    /\ UNCHANGED <<storeVars, ask, event, sweep, sent, fresh, budgetVars>>

PromptFault(h) ==
    LET c == proc[h].stored.callId IN
    /\ proc[h].pc = "prompt"
    /\ \/ calls[c].state = "connected" /\ Prompted(c)
       \/ UNCHANGED calls
    /\ Resume(h, StartFail(proc[h], "event"))
    /\ Fault
    /\ UNCHANGED <<storeVars, ask, event, sweep, sent, fresh>>

(* The event's result, if it is the first and in time.                      *)
Complete(h) ==
    LET x == proc[h]  o == event[h].type IN
    /\ x.pc = "complete"
    /\ CompleteIfPending(x.req, o, x.stored.cutoff)
    /\ Resume(h, CASE Completable(x.req, o, x.stored.cutoff) ->
                        IF StatusOf(o) = "responded" THEN Goto(x, "acknowledge")
                        ELSE HangUpThen(x, {event[h].call}, "done", "ok")
                   [] ~Completable(x.req, o, x.stored.cutoff) /\ OutOfTime(x.stored) ->
                        StartExpire(x, "deadline_exceeded", "lost")
                   [] OTHER -> Finish(x, "ok"))
    /\ UNCHANGED <<now, ask, event, sweep, acsVars, budgetVars>>

(* Mutant: the acknowledgement waits for a person who may be gone. *)
AcknowledgeConnected(h) ==
    LET c == event[h].call IN
    /\ proc[h].pc = "acknowledge" /\ calls[c].state = "connected"
    /\ calls' = [calls EXCEPT ![c].playing = TRUE]
    /\ Resume(h, HangUpThen([proc[h] EXCEPT !.frame = "acknowledged"], {c}, "done", "ok"))
    /\ UNCHANGED <<storeVars, ask, event, sweep, sent, fresh, budgetVars>>

(* acknowledge_and_hang_up: the thanks are played, then the call is ended,  *)
(* whether or not they could be.                                            *)
Acknowledge(h) ==
    LET c == event[h].call IN
    /\ proc[h].pc = "acknowledge"
    /\ calls' = [calls EXCEPT ![c].playing = (@ \/ calls[c].state = "connected")]
    /\ Resume(h, HangUpThen([proc[h] EXCEPT !.frame = "acknowledged"], {c}, "done", "ok"))
    /\ UNCHANGED <<storeVars, ask, event, sweep, sent, fresh, budgetVars>>

HandlerFault(h) ==
    /\ \/ /\ proc[h].pc = "get"
          /\ Resume(h, Finish(proc[h], "error"))
       \/ /\ proc[h].pc \in {"bind", "reload", "claim", "recheck", "complete"}
          /\ Resume(h, StartFail(proc[h], "final"))
    /\ Fault
    /\ UNCHANGED <<storeVars, ask, event, sweep, acsVars>>

(* The result was recorded, but the handler saw an error, or the timeout of *)
(* the block.                                                               *)
CompleteLost(h) ==
    /\ proc[h].pc = "complete"
    /\ CompleteIfPending(proc[h].req, event[h].type, proc[h].stored.cutoff)
    /\ \/ Resume(h, StartFail(proc[h], "final"))
       \/ Resume(h, StartExpire(proc[h], "deadline_exceeded", "timeout"))
    /\ Fault
    /\ UNCHANGED <<now, ask, event, sweep, acsVars>>

(* asyncio.timeout(remaining) over everything between get and complete.     *)
InBlock(h) == \/ proc[h].pc \in {"bind", "reload", "claim", "recheck", "prompt", "complete"}
              \/ proc[h].pc \in CleanupPcs /\ proc[h].frame = "event"

HandlerTimeout(h) ==
    /\ InBlock(h) /\ OutOfTime(proc[h].stored)
    /\ Resume(h, [StartExpire(proc[h], "deadline_exceeded", "timeout")
                     EXCEPT !.next = None, !.targets = {}, !.result = None])
    /\ UNCHANGED <<storeVars, ask, event, sweep, acsVars, budgetVars>>
-----------------------------------------------------------------------------
(*                  application/maintenance.py, and a crash                 *)

(* expire_once: the overdue rows are expired, then their calls hung up.     *)
ExpirePass ==
    /\ sweep = {} /\ Stale # {}
    /\ ExpireStaleCalls
    /\ sweep' = {rows[r].callId : r \in Stale} \ {None}
    /\ UNCHANGED <<now, ask, proc, event, acsVars, budgetVars>>

(* The rows were expired, but the list of them never came back.             *)
ExpirePassLost ==
    /\ sweep = {} /\ Stale # {}
    /\ ExpireStaleCalls
    /\ Fault
    /\ UNCHANGED <<now, serviceVars, acsVars>>

Sweep(c) ==
    /\ c \in sweep
    /\ EndCall(c)
    /\ sweep' = sweep \ {c}
    /\ UNCHANGED <<storeVars, ask, proc, event, budgetVars>>

SweepFault(c) ==
    /\ c \in sweep
    /\ sweep' = sweep \ {c}
    /\ Fault
    /\ UNCHANGED <<storeVars, ask, proc, event, acsVars>>

(* purge_once *)
PurgePass ==
    /\ Purgeable # {}
    /\ PurgeTerminal
    /\ UNCHANGED <<now, serviceVars, acsVars, budgetVars>>

(* The replica stops and starts again: the table and ACS are what is left.  *)
Crash ==
    /\ crashes < MaxCrashes /\ crashes' = crashes + 1
    /\ sweep # {} \/ \E p \in Processes : proc[p].pc \notin {"idle", "done"}
    /\ proc' = [p \in Processes |->
                    IF p \in Handlers THEN IdleProc
                    ELSE IF Running(p) THEN Finish(proc[p], "crashed") ELSE proc[p]]
    /\ event' = [h \in Handlers |-> NoEvent]
    /\ sweep' = {}
    /\ calls' = [c \in CallIds |-> [calls[c] EXCEPT !.playing = FALSE]]
    /\ UNCHANGED <<storeVars, ask, sent, fresh, faults>>
-----------------------------------------------------------------------------
(*                       ACS and the person (external)                      *)

PickUp(c) ==
    /\ calls[c].state = "dialing"
    /\ calls' = [calls EXCEPT ![c].state = "connected"]
    /\ Send("connected", c)
    /\ UNCHANGED <<storeVars, serviceVars, budgetVars>>

(* No answer, busy, declined; or a technical CreateCallFailed.              *)
NotReached(c, type) ==
    /\ calls[c].state = "dialing" /\ type \in Reports
    /\ calls' = [calls EXCEPT ![c].state = "ended"]
    /\ Send(type, c)
    /\ UNCHANGED <<storeVars, serviceVars, budgetVars>>

(* Recognition ends: an answer of the kind asked for, silence, a            *)
(* RecognizeCanceled, or an error.                                          *)
Hear(c, type) ==
    /\ calls[c].listening # None /\ type \in Reports
    /\ type \in {"unavailable", "cancelled", "dependency_failed"} \/ FitsKind(calls[c].listening, type)
    /\ calls' = [calls EXCEPT ![c].listening = None]
    /\ Send(type, c)
    /\ UNCHANGED <<storeVars, serviceVars, budgetVars>>

PutDown(c) ==
    /\ calls[c].state = "connected"
    /\ EndCall(c)
    /\ UNCHANGED <<storeVars, serviceVars, budgetVars>>
-----------------------------------------------------------------------------
(* Timers fire on time: the clock does not pass an admission wait, a wait   *)
(* for the work, a deadline or a handler's block that is due.               *)
TimerDue ==
    \/ \E a \in Asks : \/ proc[a].pc \in {"insert", "lookup"} /\ now >= AskCutoff(a)
                       \/ InWork(a) /\ (OutOfTime(proc[a].stored) \/ now >= AskCutoff(a))
                       \/ Running(a) /\ now >= AskExpiry(a)
    \/ \E h \in Handlers : InBlock(h) /\ OutOfTime(proc[h].stored)

ClockTick == ~TimerDue /\ Tick /\ UNCHANGED <<serviceVars, acsVars, budgetVars>>

CleanupStep(p) ==
    \/ ExpireWrite(p) \/ ExpireReread(p)
    \/ FailWrite(p) \/ FailRefetch(p)
    \/ \E c \in CallIds : HangUp(p, c)

CleanupFault(p) ==
    \/ ExpireFault(p) \/ FailFault(p)
    \/ \E c \in CallIds : HangUpFault(p, c)

AskStep(a) ==
    \/ \E r \in Requests : AdmitCreated(a, r) \/ AdmitJoined(a, r) \/ AdmitReplayed(a, r)
    \/ AdmitConflict(a) \/ AdmitRefused(a) \/ AdmissionAborted(a)
    \/ Verify(a)
    \/ \E c \in CallIds : CreateCall(a, c) \/ InterruptCreate(a, c)
    \/ Attach(a) \/ Confirm(a) \/ Poll(a) \/ Interrupt(a)
    \/ CleanupStep(a)

AskFault(a) ==
    \/ AdmissionFault(a) \/ WorkFault(a) \/ DeadlineAbort(a)
    \/ \E r \in Requests : AdmissionLost(a, r)
    \/ \E c \in CallIds : CreateCallFault(a, c)
    \/ CleanupFault(a)

HandlerStep(h) ==
    \/ Get(h) \/ Bind(h) \/ Reload(h) \/ Claim(h) \/ Recheck(h) \/ Prompt(h)
    \/ Complete(h) \/ Acknowledge(h) \/ HandlerTimeout(h) \/ Respond(h)
    \/ CleanupStep(h)

HandlerFaults(h) == HandlerFault(h) \/ PromptFault(h) \/ CompleteLost(h) \/ CleanupFault(h)

Maintenance == ExpirePass \/ \E c \in CallIds : Sweep(c)

Client(a) == Cancel(a) \/ \E k \in Keys, p \in Payloads : Ask(a, k, p)

Person(c) ==
    \/ PickUp(c) \/ PutDown(c)
    \/ \E type \in {"unavailable", "dependency_failed"} : NotReached(c, type)
    \/ \E type \in EventTypes : Hear(c, type)

Next ==
    \/ \E a \in Asks : Client(a) \/ AskStep(a) \/ AskFault(a)
    \/ \E h \in Handlers : HandlerStep(h) \/ HandlerFaults(h) \/ \E e \in sent : Deliver(h, e)
    \/ \E c \in CallIds : Person(c) \/ SweepFault(c)
    \/ Maintenance \/ ExpirePassLost \/ PurgePass \/ Crash \/ ClockTick

Spec == Init /\ [][Next]_vars

(* The event loop runs whatever can run, timers fire, and the maintenance   *)
(* loop comes round; clients, the person, ACS deliveries and the purge owe  *)
(* nothing.                                                                 *)
Fairness ==
    /\ WF_vars(ClockTick)
    /\ WF_vars(Maintenance)
    /\ \A a \in Asks : WF_vars(AskStep(a))
    /\ \A h \in Handlers : WF_vars(HandlerStep(h))

FairSpec == Spec /\ Fairness
-----------------------------------------------------------------------------
AskStates == [key: Keys \cup {None}, payload: Payloads \cup {None}, started: Nat, cancelled: BOOLEAN,
              role: Roles \cup {None}, callId: CallIds \cup {None}]

ProcStates == [pc: {"idle", "done"} \cup AskPcs \cup HandlerPcs \cup CleanupPcs,
               req: Requests \cup {None}, stored: Snapshot, outcome: Outcomes \cup {None},
               frame: Frames \cup {None}, targets: SUBSET CallIds,
               next: CleanupPcs \cup {"poll", "done", None},
               watch: Asks \cup {None}, result: Results \cup {None}]

CallStates == [req: Requests \cup {None}, state: {"unused", "dialing", "connected", "ended"},
               prompts: Nat, listening: Kinds \cup {None}, playing: BOOLEAN]

TypeOK ==
    /\ StoreTypeOK
    /\ ask \in [Asks -> AskStates]
    /\ proc \in [Processes -> ProcStates]
    /\ calls \in [CallIds -> CallStates]
    /\ event \in [Handlers -> [type: EventTypes, call: CallIds \cup {None}]]
    /\ sweep \subseteq CallIds
    /\ sent \subseteq Events /\ fresh \subseteq sent
    /\ faults \in 0..MaxFaults /\ crashes \in 0..MaxCrashes

(* However many invocations share a key, and whatever fails or restarts,    *)
(* a request is given at most one telephone call.                           *)
OneCallPerRequest ==
    \A c, d \in CallIds : calls[c].req = calls[d].req /\ calls[c].req # None => c = d

(* However often ACS repeats CallConnected, the person is asked once.       *)
PromptedOnce == \A c \in CallIds : calls[c].prompts <= 1

(* What an invocation returns as the outcome is what the table records for  *)
(* its question, not what the invocation itself last tried to record.       *)
AnswerIsRecorded ==
    \A a \in Asks : proc[a].result \in Outcomes /\ proc[a].pc = "done" =>
        LET row == rows[proc[a].req] IN
        row.status # "purged" => /\ row.outcome = proc[a].result
                                 /\ row.key = ask[a].key /\ row.payload = ask[a].payload

(* A human answer on record was given, as recorded, on the call attached to *)
(* the request, which was placed for it, before the work cutoff.            *)
AnswerIsHuman ==
    \A r \in Requests : rows[r].status = "responded" =>
        /\ [type |-> rows[r].outcome, call |-> rows[r].callId] \in sent
        /\ calls[rows[r].callId].req = r
        /\ rows[r].completedAt < Cutoff(r)

(* No invocation finds its row purged under it: the answer is kept at least *)
(* as long as anybody who asked can still be waiting for it.                *)
RowKeptForItsAsks ==
    \A a \in Asks : Running(a) /\ proc[a].req # None => rows[proc[a].req].status # "purged"

(* A request is cancelled by the client whose invocation created it, or by  *)
(* a recognition that ACS cancelled on its call: a joiner that disconnects  *)
(* leaves the shared call alone.                                            *)
CancelledByCreator ==
    \A r \in Requests : rows[r].outcome = "cancelled" =>
        \/ \E a \in Asks : proc[a].req = r /\ ask[a].role = "creator" /\ ask[a].cancelled
        \/ [type |-> "cancelled", call |-> rows[r].callId] \in sent

(* Once nothing is left to do, and no dependency failed, nothing crashed    *)
(* and no joiner was cancelled, no terminal request has its attached call   *)
(* still connected.                                                         *)
Quiet == /\ \A p \in Processes : proc[p].pc \in {"idle", "done"}
         /\ sweep = {} /\ fresh = {}

Undisturbed == Quiet /\ faults = 0 /\ crashes = 0

Released(r) == rows[r].callId # None => calls[rows[r].callId].state # "connected"

AttachedCallReleased ==
    Undisturbed /\ (\A a \in Asks : ~(ask[a].role = "joiner" /\ ask[a].cancelled)) =>
        \A r \in Requests : IsTerminal(r) => Released(r)

(* Every statement the service sends is one of the repository's.            *)
ImplementsStore == StoreSpec

(* Whatever fails, every invocation returns and every handler answers...    *)
AsksReturn == \A a \in Asks : Running(a) ~> ~Running(a)
HandlersAnswer == \A h \in Handlers : proc[h].pc # "idle" ~> proc[h].pc = "idle"

(* ... and every accepted request is settled, if only by maintenance.       *)
RequestsSettle == \A r \in Requests : IsPending(r) ~> ~IsPending(r)
-----------------------------------------------------------------------------
(* What the repository's documents and tests say, and the service does not do *)

(* A late CallConnected cleans up the call of a request that is over.       *)
LateCallReleased ==
    Undisturbed => \A c \in CallIds : calls[c].state = "connected" => ~IsTerminal(calls[c].req)
=============================================================================
