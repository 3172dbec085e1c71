-------------------------------- MODULE Replica --------------------------------
(***************************************************************************)
(* One replica from start to stop (main.py): its lifespan, the two          *)
(* maintenance loops (application/maintenance.py), the adapters that call   *)
(* the service (api/requests.py, api/callbacks.py, mcp_adapter/server.py),  *)
(* readiness and the gauge of pending requests.                             *)
(*                                                                          *)
(* The service itself is AskHumanService's; here it is how a call of it     *)
(* ends, and when it touches the table or the gauge.  The table is whether  *)
(* a request is pending.  An action runs one coroutine from one await to    *)
(* the next.                                                                *)
(***************************************************************************)
EXTENDS Naturals

CONSTANTS
    Handlers,       \* invocations of the service handled at a time
    Closers,        \* the number of clients the application closes
    MaxFaults       \* bound: failures of a dependency

ASSUME ReplicaAssumption == Closers \in Nat \ {0} /\ MaxFaults \in Nat

VARIABLES
    phase,          \* of the lifespan
    pool,           \* the pool of connections: "new", "open", "closed"
    closed,         \* how many of the clients have been told to close
    stopping,       \* ShutdownSignal
    loop,           \* loop -> [pc, exit]: the task that runs it
    work,           \* loop -> [pc, cancelled, failed, count]: its operation
    adapter,        \* handler -> [kind, pc, gone, signal]
    service,        \* handler -> [pc, count]: the call of the service
    pending,        \* the table: a request is pending
    gauge,          \* Telemetry._pending
    faults

lifeVars == <<phase, pool, closed, stopping>>
loopVars == <<loop, work>>
callVars == <<adapter, service>>
vars == <<lifeVars, loopVars, callVars, pending, gauge, faults>>
-----------------------------------------------------------------------------
Loops == {"expiry", "purge"}

NoWork == [pc |-> "none", cancelled |-> FALSE, failed |-> FALSE, count |-> FALSE]
NoService == [pc |-> "none", count |-> FALSE]
Idle == [kind |-> "rest", pc |-> "idle", gone |-> FALSE, signal |-> FALSE]

Init ==
    /\ phase = "opening" /\ pool = "new" /\ closed = 0 /\ stopping = FALSE
    /\ loop = [l \in Loops |-> [pc |-> "none", exit |-> FALSE]]
    /\ work = [l \in Loops |-> NoWork]
    /\ adapter = [h \in Handlers |-> Idle]
    /\ service = [h \in Handlers |-> NoService]
    /\ pending \in BOOLEAN          \* the table outlives the replica
    /\ gauge = FALSE
    /\ faults = 0

Fault == faults < MaxFaults /\ faults' = faults + 1
-----------------------------------------------------------------------------
(*                     _run: the loops and their operations                *)

Start(l) ==
    /\ loop' = [loop EXCEPT ![l].pc = "work"]
    /\ work' = [work EXCEPT ![l] = [NoWork EXCEPT !.pc = IF l = "expiry" THEN "count" ELSE "purge"]]

Begin(l) == loop[l].pc = "created" /\ Start(l)

(* Mutant: the failure of an operation is not caught, and ends its loop. *)
CollectUncaught(l) ==
    /\ loop[l].pc = "work" /\ work[l].pc = "over"
    /\ loop' = [loop EXCEPT ![l] = [pc |-> "settle", exit |-> work[l].failed]]
    /\ UNCHANGED work

(* asyncio.wait returns for the operation, whose failure is caught.  It     *)
(* never returns for the signal, which _stop_tasks only sets together with  *)
(* the cancellation of the task.                                            *)
Collect(l) ==
    /\ loop[l].pc = "work" /\ work[l].pc = "over"
    /\ loop' = [loop EXCEPT ![l].pc = "settle"]
    /\ UNCHANGED work

(* Both tasks of the pass have ended; a cancelled loop ends here. *)
Settled(l) ==
    /\ loop[l].pc = "settle" /\ work[l].pc = "over"
    /\ loop' = [loop EXCEPT ![l].pc = IF loop[l].exit THEN "done" ELSE "delay"]
    /\ work' = [work EXCEPT ![l] = NoWork]

(* The interval is over. *)
Wake(l) == loop[l].pc = "delay" /\ loop' = [loop EXCEPT ![l].pc = "drain"] /\ UNCHANGED work

(* The two awaits under suppress(CancelledError), and the signal is read.   *)
Drained(l) ==
    /\ loop[l].pc = "drain"
    /\ IF loop[l].exit \/ stopping THEN loop' = [loop EXCEPT ![l].pc = "done"] /\ UNCHANGED work
       ELSE Start(l)

LoopStep(l) ==
    /\ Begin(l) \/ Collect(l) \/ Settled(l) \/ Wake(l) \/ Drained(l)
    /\ UNCHANGED <<lifeVars, callVars, pending, gauge, faults>>

(* Mutant: a cancelled loop does not wait for its operation. *)
CancelledAtOnce(l) == [pc |-> "done", exit |-> TRUE]

(* task.cancel(): in the last awaits of a pass it is suppressed. *)
CancelledLoop(l) ==
    CASE loop[l].pc = "created" -> [pc |-> "done", exit |-> TRUE]
      [] loop[l].pc \in {"work", "settle"} -> [pc |-> "settle", exit |-> TRUE]
      [] loop[l].pc = "delay" -> [pc |-> "drain", exit |-> TRUE]
      [] loop[l].pc \in {"drain", "done"} -> loop[l]

Running(l) == work[l].pc \notin {"none", "over"}

WorkGoto(l, pc) == work' = [work EXCEPT ![l].pc = pc]

(* Mutant: the pass does not refresh the gauge. *)
RefreshNothing(l, pc) == WorkGoto(l, pc) /\ UNCHANGED gauge

Refresh(l, pc) == WorkGoto(l, pc) /\ gauge' = work[l].count

(* expire_once: the count, the gauge, the UPDATE, the count and the gauge   *)
(* again; the hang-ups in between are AskHumanService's.                    *)
Count(l) ==
    /\ work[l].pc \in {"count", "recount"}
    /\ work' = [work EXCEPT ![l].count = pending,
                            ![l].pc = IF @ = "count" THEN "counted" ELSE "recounted"]
    /\ UNCHANGED <<pending, gauge>>

Counted(l) == work[l].pc = "counted" /\ Refresh(l, "expire") /\ UNCHANGED pending

Expire(l) ==
    /\ work[l].pc = "expire"
    /\ pending' = FALSE \/ UNCHANGED pending
    /\ WorkGoto(l, "recount")
    /\ UNCHANGED gauge

Recounted(l) == work[l].pc = "recounted" /\ Refresh(l, "over") /\ UNCHANGED pending

Purge(l) == work[l].pc = "purge" /\ WorkGoto(l, "over") /\ UNCHANGED <<pending, gauge>>

(* A cancelled operation ends at its await. *)
WorkCancelled(l) ==
    /\ Running(l) /\ work[l].cancelled
    /\ WorkGoto(l, "over")
    /\ UNCHANGED <<pending, gauge>>

(* A statement fails; the failure of the second count is swallowed.         *)
WorkFault(l) ==
    /\ work[l].pc \in {"count", "expire", "recount", "purge"}
    /\ work' = [work EXCEPT ![l].pc = "over", ![l].failed = work[l].pc # "recount"]
    /\ Fault
    /\ UNCHANGED <<lifeVars, loop, callVars, pending, gauge>>

WorkStep(l) ==
    /\ \/ WorkCancelled(l)
       \/ /\ ~work[l].cancelled
          /\ Count(l) \/ Counted(l) \/ Expire(l) \/ Recounted(l) \/ Purge(l)
    /\ UNCHANGED <<lifeVars, loop, callVars, faults>>
-----------------------------------------------------------------------------
(*                      The adapters and the service                       *)

(* The handler of a request starts the service: ask(), or the settlement of *)
(* a callback.                                                              *)
Arrive(h, kind) ==
    /\ phase = "serving" /\ adapter[h].pc = "idle"
    /\ adapter' = [adapter EXCEPT ![h] = [Idle EXCEPT !.kind = kind, !.pc = "await"]]
    /\ service' = [service EXCEPT ![h] =
            [NoService EXCEPT !.pc = IF kind = "callback" THEN "settle" ELSE "admit"]]
    /\ UNCHANGED <<lifeVars, loopVars, pending, gauge, faults>>

(* The client of a REST request has gone, and its watcher notices.          *)
Leave(h) ==
    /\ adapter[h].pc = "await" /\ adapter[h].kind = "rest" /\ ~adapter[h].gone
    /\ adapter' = [adapter EXCEPT ![h].gone = TRUE]
    /\ UNCHANGED <<lifeVars, loopVars, service, pending, gauge, faults>>

Watch(h) ==
    /\ adapter[h].pc = "await" /\ adapter[h].gone /\ ~adapter[h].signal
    /\ adapter' = [adapter EXCEPT ![h].signal = TRUE]
    /\ UNCHANGED service

(* Mutant: a cancelled tool call does not wait for the service. *)
AbandonedCall(h) == [Idle EXCEPT !.signal = TRUE]

(* _dispatch: a cancelled tool call tells the service and waits for it.     *)
CancelledCall(h) == [adapter[h] EXCEPT !.pc = "shielded", !.signal = TRUE]

CancelTool(h) ==
    /\ adapter[h].pc = "await" /\ adapter[h].kind = "tool"
    /\ adapter' = [adapter EXCEPT ![h] = CancelledCall(h)]
    /\ UNCHANGED <<lifeVars, loopVars, service, pending, gauge, faults>>

Return(h) ==
    /\ adapter[h].pc \in {"await", "shielded"} /\ service[h].pc = "over"
    /\ adapter' = [adapter EXCEPT ![h] = Idle]
    /\ service' = [service EXCEPT ![h] = NoService]

AdapterStep(h) == (Watch(h) \/ Return(h)) /\ UNCHANGED <<lifeVars, loopVars, pending, gauge, faults>>

ServiceGoto(h, pc) == service' = [service EXCEPT ![h].pc = pc]

(* admit_or_replay: created, joined, or refused or replayed. *)
Admit(h) ==
    /\ service[h].pc = "admit"
    /\ \/ pending' = TRUE /\ ServiceGoto(h, "admitted")
       \/ UNCHANGED pending /\ ServiceGoto(h, "sync")
    /\ UNCHANGED gauge

(* The signal comes before the reply; the INSERT may have committed.        *)
AdmissionCancelled(h) ==
    /\ service[h].pc = "admit" /\ adapter[h].signal
    /\ pending' = TRUE \/ UNCHANGED pending
    /\ ServiceGoto(h, "over")
    /\ UNCHANGED gauge

Admitted(h) ==
    /\ service[h].pc = "admitted"
    /\ gauge' = TRUE
    /\ ServiceGoto(h, "wait")
    /\ UNCHANGED pending

(* A verdict, or a joiner's signal, ends the wait; the creator's signal and *)
(* the cutoff, which always comes, make the invocation record one.          *)
Waited(h) ==
    /\ service[h].pc = "wait"
    /\ ~pending \/ adapter[h].signal
    /\ ServiceGoto(h, "over")
    /\ UNCHANGED <<pending, gauge>>

CutOff(h) == service[h].pc = "wait" /\ ServiceGoto(h, "settle") /\ UNCHANGED <<pending, gauge>>

(* complete_if_pending, of a request that may no longer be the pending one. *)
Settle(h) ==
    /\ service[h].pc = "settle"
    /\ pending' = FALSE \/ UNCHANGED pending
    /\ ServiceGoto(h, "sync")
    /\ UNCHANGED gauge

(* _sync_pending: the count, and the gauge. *)
SyncCount(h) ==
    /\ service[h].pc = "sync"
    /\ service' = [service EXCEPT ![h] = [pc |-> "set", count |-> pending]]
    /\ UNCHANGED <<pending, gauge>>

SyncSet(h) ==
    /\ service[h].pc = "set"
    /\ gauge' = service[h].count
    /\ ServiceGoto(h, "over")
    /\ UNCHANGED pending

(* A statement fails, before or after it took effect.                       *)
ServiceFault(h) ==
    /\ \/ service[h].pc = "admit" /\ (pending' = TRUE \/ UNCHANGED pending)
       \/ service[h].pc = "settle" /\ (pending' = FALSE \/ UNCHANGED pending)
       \/ service[h].pc \in {"wait", "sync"} /\ UNCHANGED pending
    /\ ServiceGoto(h, "over")
    /\ Fault
    /\ UNCHANGED <<lifeVars, loopVars, adapter, gauge>>

ServiceStep(h) ==
    /\ \/ Admit(h) \/ AdmissionCancelled(h) \/ Admitted(h) \/ Waited(h) \/ CutOff(h)
       \/ Settle(h) \/ SyncCount(h) \/ SyncSet(h)
    /\ UNCHANGED <<lifeVars, loopVars, adapter, faults>>

(* Another replica, as there is during a rollout, admits or settles a       *)
(* request.                                                                 *)
ElsewhereInTable ==
    /\ phase # "stopped"
    /\ pending' = ~pending
    /\ UNCHANGED <<lifeVars, loopVars, callVars, gauge, faults>>
-----------------------------------------------------------------------------
(*                              The lifespan                               *)

(* Mutant: the pool is closed before the tool calls have ended. *)
AfterPoolFirst(p) ==
    CASE p = "stop_tasks" -> "close_pool"
      [] p = "close_pool" -> "stop_sessions"
      [] p = "stop_sessions" -> "close_clients"
      [] p = "close_clients" -> "stopped"

(* The exit stack unwinds in the reverse order of what was pushed on it.    *)
After(p) ==
    CASE p = "stop_tasks" -> "stop_sessions"
      [] p = "stop_sessions" -> "close_pool"
      [] p = "close_pool" -> "close_clients"
      [] p = "close_clients" -> "stopped"

(* The pool opens, the session manager and the loops are started. *)
Open ==
    /\ phase = "opening"
    /\ phase' = "serving" /\ pool' = "open"
    /\ loop' = [l \in Loops |-> [pc |-> "created", exit |-> FALSE]]
    /\ UNCHANGED <<closed, stopping, work, callVars, pending, gauge, faults>>

(* The pool does not open, or not in time. *)
OpenFault ==
    /\ phase = "opening"
    /\ phase' = "close_pool" /\ pool' \in {"new", "open"}
    /\ Fault
    /\ UNCHANGED <<closed, stopping, loopVars, callVars, pending, gauge>>

(* SIGTERM: uvicorn takes no more requests, and waits for those it has.     *)
Terminate ==
    /\ phase = "serving" /\ phase' = "draining"
    /\ UNCHANGED <<pool, closed, stopping, loopVars, callVars, pending, gauge, faults>>

(* Mutant: the tasks are cancelled without the signal. *)
Unsignalled == UNCHANGED stopping

Signalled == stopping' = TRUE

(* _stop_tasks, up to its await: the signal, and the tasks are cancelled.   *)
StopTasks ==
    /\ phase = "draining"
    /\ \A h \in Handlers : adapter[h].pc = "idle" \/ adapter[h].kind = "tool"
    /\ phase' = "stop_tasks"
    /\ Signalled
    /\ loop' = [l \in Loops |-> CancelledLoop(l)]
    /\ work' = [l \in Loops |-> IF loop[l].pc = "work" THEN [work[l] EXCEPT !.cancelled = TRUE]
                                ELSE work[l]]
    /\ UNCHANGED <<pool, closed, callVars, pending, gauge, faults>>

(* The loops have ended: the session manager cancels its tool calls.        *)
StopSessions ==
    /\ phase = "stop_tasks" /\ \A l \in Loops : loop[l].pc = "done"
    /\ phase' = After(phase)
    /\ adapter' = [h \in Handlers |->
            IF adapter[h].pc = "await" THEN CancelledCall(h) ELSE adapter[h]]
    /\ UNCHANGED <<pool, closed, stopping, loopVars, service, pending, gauge, faults>>

(* It waits for them, by way of its task group. *)
SessionsStopped ==
    /\ phase = "stop_sessions" /\ \A h \in Handlers : adapter[h].pc = "idle"
    /\ phase' = After(phase)
    /\ UNCHANGED <<pool, closed, stopping, loopVars, callVars, pending, gauge, faults>>

(* A pool that fails to close in order is closed; the stack unwinds on.     *)
ClosePool ==
    /\ phase = "close_pool"
    /\ phase' = After(phase) /\ pool' = "closed"
    /\ Fault \/ UNCHANGED faults
    /\ UNCHANGED <<closed, stopping, loopVars, callVars, pending, gauge>>

(* Mutant: the first failure ends it. *)
CloserFailedOut == phase' = "stopped"

CloserFailed == phase' = IF closed + 1 = Closers THEN After(phase) ELSE phase

(* _close_all: the failures are gathered. *)
CloseClient ==
    /\ phase = "close_clients"
    /\ closed' = closed + 1
    /\ \/ phase' = (IF closed + 1 = Closers THEN After(phase) ELSE phase) /\ UNCHANGED faults
       \/ CloserFailed /\ Fault
    /\ UNCHANGED <<pool, stopping, loopVars, callVars, pending, gauge>>

Shutdown == StopTasks \/ StopSessions \/ SessionsStopped \/ ClosePool \/ CloseClient

Next ==
    \/ Open \/ OpenFault \/ Terminate \/ Shutdown \/ ElsewhereInTable
    \/ \E l \in Loops : LoopStep(l) \/ WorkStep(l) \/ WorkFault(l)
    \/ \E h \in Handlers :
          \/ \E kind \in {"rest", "tool", "callback"} : Arrive(h, kind)
          \/ Leave(h) \/ CancelTool(h) \/ AdapterStep(h) \/ ServiceStep(h) \/ ServiceFault(h)

(* Coroutines that can run are run, statements and timers end; nobody need  *)
(* ever send a request, or SIGTERM.                                         *)
Fairness ==
    /\ WF_vars(Shutdown)
    /\ \A l \in Loops : WF_vars(LoopStep(l)) /\ WF_vars(WorkStep(l))
    /\ \A h \in Handlers : WF_vars(AdapterStep(h)) /\ WF_vars(ServiceStep(h))

Spec == Init /\ [][Next]_vars
FairSpec == Spec /\ Fairness
-----------------------------------------------------------------------------
LoopStates == [pc: {"none", "created", "work", "settle", "delay", "drain", "done"}, exit: BOOLEAN]
WorkStates == [pc: {"none", "count", "counted", "expire", "recount", "recounted", "purge", "over"},
               cancelled: BOOLEAN, failed: BOOLEAN, count: BOOLEAN]
AdapterStates == [kind: {"rest", "tool", "callback"}, pc: {"idle", "await", "shielded"},
                  gone: BOOLEAN, signal: BOOLEAN]
ServiceStates == [pc: {"none", "admit", "admitted", "wait", "settle", "sync", "set", "over"},
                  count: BOOLEAN]

LifeOK ==
    /\ phase \in {"opening", "serving", "draining", "stop_tasks", "stop_sessions", "close_pool",
                  "close_clients", "stopped"}
    /\ pool \in {"new", "open", "closed"}
    /\ closed \in 0..Closers
    /\ stopping \in BOOLEAN

(* A loop has an operation exactly while it waits for one. *)
LoopsOK ==
    /\ loop \in [Loops -> LoopStates]
    /\ work \in [Loops -> WorkStates]
    /\ \A l \in Loops : loop[l].pc \in {"work", "settle"} <=> work[l].pc # "none"

CallsOK == adapter \in [Handlers -> AdapterStates] /\ service \in [Handlers -> ServiceStates]

TypeOK ==
    /\ LifeOK /\ LoopsOK /\ CallsOK
    /\ pending \in BOOLEAN /\ gauge \in BOOLEAN
    /\ faults \in 0..MaxFaults

(* Nothing of the service or of maintenance is still running when the pool, *)
(* or the first client, is closed (create_app's lifespan).                  *)
ResourcesOutliveTheirUsers ==
    pool = "closed" \/ closed > 0 =>
        /\ \A l \in Loops : loop[l].pc \in {"none", "done"} /\ ~Running(l)
        /\ \A h \in Handlers : service[h].pc = "none"

(* The service never works for a handler that has returned: a cancelled     *)
(* tool call waits for it too (_dispatch), however the cancellation meets   *)
(* the end of the service.                                                  *)
NoOrphanedWork == \A h \in Handlers : adapter[h].pc = "idle" => service[h].pc = "none"

(* readiness, with maintenance_ready: a failure of the table does not take  *)
(* a replica that serves, or drains, out of service.                        *)
Ready == pool = "open" /\ \A l \in Loops : loop[l].pc \in {"created", "work", "settle", "delay", "drain"}

ServingIsReady == phase \in {"serving", "draining"} => Ready

(* However a replica comes to stop, and whatever fails as it does, the pool *)
(* has been closed and so has every client (_close_all).                    *)
EverythingClosed == phase = "stopped" => pool = "closed" /\ closed = Closers

(* A replica that is to stop does: no loop outlives its cancellation, not   *)
(* even when it comes at an await that suppresses it (_stop_tasks, _run).   *)
ShutdownCompletes == phase \notin {"opening", "serving"} ~> phase = "stopped"

(* While a replica serves, its gauge comes to say what the table says if    *)
(* that stays as it is, whatever counts were under way, and with whatever   *)
(* bounded number of failures (set_pending, _sync_pending, expire_once).    *)
GaugeSettles ==
    \A b \in BOOLEAN : <>[](phase = "serving" /\ pending = b) => <>[](gauge = b)
=============================================================================
