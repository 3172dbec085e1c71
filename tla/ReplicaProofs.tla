----------------------------- MODULE ReplicaProofs -----------------------------
(***************************************************************************)
(* What holds of a replica with any number of invocations, of clients to    *)
(* close and of failures.  Everything follows from ReplicaInv, which says   *)
(* for each phase of the lifespan what has been opened, started, cancelled  *)
(* and closed; it is inductive.                                             *)
(***************************************************************************)
EXTENDS Replica, TLAPS

LoopsEnded == \A l \in Loops : loop[l].pc \in {"none", "done"}
CallsOver == \A h \in Handlers : adapter[h].pc = "idle"

(* In service: nobody has told the loops to stop.                           *)
InService ==
    phase \in {"serving", "draining"} =>
        /\ pool = "open" /\ closed = 0 /\ ~stopping
        /\ \A l \in Loops : loop[l].pc \notin {"none", "done"} /\ ~loop[l].exit

(* Before, nothing runs; afterwards the loops end first, then the calls,    *)
(* then the pool and then the clients.                                      *)
OutOfService ==
    /\ phase = "opening" =>
          pool = "new" /\ closed = 0 /\ ~stopping /\ CallsOver /\ \A l \in Loops : loop[l].pc = "none"
    /\ phase = "stop_tasks" =>
          /\ pool = "open" /\ closed = 0
          /\ \A h \in Handlers : adapter[h].pc = "idle" \/ adapter[h].kind = "tool"
    /\ phase = "stop_sessions" =>
          /\ pool = "open" /\ closed = 0 /\ LoopsEnded
          /\ \A h \in Handlers : adapter[h].pc # "await"
    /\ phase = "close_pool" => pool # "closed" /\ closed = 0 /\ LoopsEnded /\ CallsOver
    /\ phase = "close_clients" => pool = "closed" /\ closed < Closers /\ LoopsEnded /\ CallsOver
    /\ phase = "stopped" => pool = "closed" /\ closed = Closers /\ LoopsEnded /\ CallsOver

ReplicaInv == TypeOK /\ InService /\ OutOfService /\ NoOrphanedWork

LEMMA InitOK == Init => ReplicaInv
<1> SUFFICES ASSUME Init PROVE ReplicaInv
  OBVIOUS
<1>1. LifeOK /\ pending \in BOOLEAN /\ gauge \in BOOLEAN /\ faults \in 0..MaxFaults
  <2>1. closed \in 0..Closers /\ faults \in 0..MaxFaults
    BY ReplicaAssumption DEF Init
  <2>2. phase = "opening" /\ pool = "new" /\ stopping \in BOOLEAN /\ pending \in BOOLEAN /\ gauge \in BOOLEAN
    BY DEF Init
  <2> QED
    BY <2>1, <2>2 DEF LifeOK
<1>2. LoopsOK
  BY DEF Init, LoopsOK, LoopStates, WorkStates, NoWork
<1>3. CallsOK
  BY DEF Init, CallsOK, AdapterStates, ServiceStates, Idle, NoService
<1>4. InService /\ OutOfService /\ NoOrphanedWork
  BY DEF Init, InService, OutOfService, NoOrphanedWork, LoopsEnded, CallsOver, Idle, NoService
<1> QED
  BY <1>1, <1>2, <1>3, <1>4 DEF ReplicaInv, TypeOK

(* A loop goes on, or ends where it was told to.                            *)
LEMMA LoopStepOK == ASSUME ReplicaInv, NEW l \in Loops, LoopStep(l) PROVE ReplicaInv'
<1>1. UNCHANGED <<lifeVars, callVars, pending, gauge, faults>>
  BY DEF LoopStep
<1>2. LoopsOK
  BY DEF ReplicaInv, TypeOK
<1>3. LoopsOK'
  <2>1. ASSUME Start(l) PROVE LoopsOK'
    <3>1. /\ [loop[l] EXCEPT !.pc = "work"] \in LoopStates
          /\ [NoWork EXCEPT !.pc = IF l = "expiry" THEN "count" ELSE "purge"] \in WorkStates
      BY <1>2 DEF LoopsOK, LoopStates, WorkStates, NoWork
    <3>2. /\ loop' = [loop EXCEPT ![l] = [loop[l] EXCEPT !.pc = "work"]]
          /\ [loop[l] EXCEPT !.pc = "work"].pc = "work"
      BY <1>2, <2>1 DEF LoopsOK, LoopStates, Start
    <3>3. [NoWork EXCEPT !.pc = IF l = "expiry" THEN "count" ELSE "purge"].pc # "none"
      BY DEF NoWork
    <3>4. work' = [work EXCEPT ![l] = [NoWork EXCEPT !.pc = IF l = "expiry" THEN "count" ELSE "purge"]]
      BY <2>1 DEF Start
    <3> QED
      BY <1>2, <3>1, <3>2, <3>3, <3>4 DEF LoopsOK
  <2>2. ASSUME UNCHANGED work, NEW pc \in {"settle", "drain", "done"}, loop' = [loop EXCEPT ![l].pc = pc],
               pc = "settle" <=> loop[l].pc = "work", loop[l].pc # "settle"
        PROVE  LoopsOK'
    <3>1. [loop[l] EXCEPT !.pc = pc] \in LoopStates /\ [loop[l] EXCEPT !.pc = pc].pc = pc
      BY <1>2 DEF LoopsOK, LoopStates
    <3>2. loop' = [loop EXCEPT ![l] = [loop[l] EXCEPT !.pc = pc]]
      BY <2>2
    <3> QED
      BY <1>2, <2>2, <3>1, <3>2 DEF LoopsOK
  <2>3. CASE Settled(l)
    BY <1>2, <2>3 DEF LoopsOK, LoopStates, WorkStates, Settled, NoWork
  <2> QED
    BY <2>1, <2>2, <2>3 DEF LoopStep, Begin, Collect, Wake, Drained
<1>4. loop[l].pc \notin {"none", "done"}
  BY DEF LoopStep, Begin, Collect, Settled, Wake, Drained
<1>5. /\ \A k \in Loops \ {l} : loop'[k] = loop[k]
      /\ loop'[l].exit = loop[l].exit
      /\ ~stopping /\ ~loop[l].exit => loop'[l].pc \notin {"none", "done"}
  BY <1>2 DEF LoopsOK, LoopStates, LoopStep, Begin, Collect, Settled, Wake, Drained, Start
<1>6. InService'
  BY <1>1, <1>5 DEF ReplicaInv, InService, lifeVars
<1>7. OutOfService'
  BY <1>1, <1>4 DEF ReplicaInv, OutOfService, LoopsEnded, CallsOver, lifeVars, callVars
<1> QED
  BY <1>1, <1>3, <1>6, <1>7 DEF ReplicaInv, TypeOK, LifeOK, CallsOK, NoOrphanedWork, lifeVars, callVars

(* An operation of a loop touches its own state, the table and the gauge.   *)
LEMMA WorkStepOK == ASSUME ReplicaInv, NEW l \in Loops, WorkStep(l) \/ WorkFault(l) PROVE ReplicaInv'
<1>1. UNCHANGED <<lifeVars, loop, callVars>>
  BY DEF WorkStep, WorkFault
<1>2. LoopsOK /\ pending \in BOOLEAN /\ gauge \in BOOLEAN /\ faults \in 0..MaxFaults
  BY DEF ReplicaInv, TypeOK
<1>3. /\ work' \in [Loops -> WorkStates] /\ pending' \in BOOLEAN /\ gauge' \in BOOLEAN
      /\ faults' \in 0..MaxFaults
  <2>1. CASE WorkFault(l)
    <3>1. work' \in [Loops -> WorkStates]
      <4>1. work' = [work EXCEPT ![l] = [work[l] EXCEPT !.pc = "over", !.failed = work[l].pc # "recount"]]
        BY <2>1 DEF WorkFault
      <4>2. [work[l] EXCEPT !.pc = "over", !.failed = work[l].pc # "recount"] \in WorkStates
        <5>1. work[l] \in WorkStates /\ (work[l].pc # "recount") \in BOOLEAN
          BY <1>2 DEF LoopsOK
        <5> QED
          BY <5>1 DEF WorkStates
      <4> QED
        BY <1>2, <4>1, <4>2 DEF LoopsOK
    <3>2. faults' \in 0..MaxFaults
      BY <1>2, <2>1, ReplicaAssumption DEF WorkFault, Fault
    <3> QED
      BY <1>2, <2>1, <3>1, <3>2 DEF WorkFault
  <2>2. CASE WorkCancelled(l) /\ UNCHANGED faults
    BY <1>2, <2>2 DEF LoopsOK, WorkStates, WorkCancelled, WorkGoto
  <2>3. CASE Count(l) /\ UNCHANGED faults
    BY <1>2, <2>3 DEF LoopsOK, WorkStates, Count
  <2>4. CASE (Counted(l) \/ Recounted(l)) /\ UNCHANGED faults
    BY <1>2, <2>4 DEF LoopsOK, WorkStates, Counted, Recounted, Refresh, WorkGoto
  <2>5. CASE (Expire(l) \/ Purge(l)) /\ UNCHANGED faults
    BY <1>2, <2>5 DEF LoopsOK, WorkStates, Expire, Purge, WorkGoto
  <2> QED
    BY <2>1, <2>2, <2>3, <2>4, <2>5 DEF WorkStep
<1>4. /\ \A k \in Loops \ {l} : work'[k] = work[k]
      /\ work[l].pc # "none" /\ work'[l].pc # "none"
  BY <1>2 DEF LoopsOK, WorkStates, WorkFault, WorkStep, WorkCancelled, Running, Count, Counted, Recounted,
     Refresh, Expire, Purge, WorkGoto
<1>5. LoopsOK'
  BY <1>1, <1>2, <1>3, <1>4 DEF LoopsOK
<1>6. InService' /\ OutOfService' /\ NoOrphanedWork'
  BY <1>1 DEF ReplicaInv, InService, OutOfService, NoOrphanedWork, LoopsEnded, CallsOver, lifeVars, callVars
<1> QED
  BY <1>1, <1>3, <1>5, <1>6 DEF ReplicaInv, TypeOK, LifeOK, CallsOK, lifeVars, callVars

(* What a step that leaves the lifespan and the loops alone has to keep.    *)
LEMMA CallStep ==
    ASSUME ReplicaInv, UNCHANGED <<lifeVars, loopVars>>, CallsOK', NoOrphanedWork',
           pending' \in BOOLEAN, gauge' \in BOOLEAN, faults' \in 0..MaxFaults,
           \A h \in Handlers :
              \/ adapter'[h].pc = "idle"
              \/ phase \in {"serving", "draining"}
              \/ /\ adapter[h].pc # "idle" /\ adapter'[h].kind = adapter[h].kind
                 /\ adapter[h].pc # "await" => adapter'[h].pc # "await"
    PROVE  ReplicaInv'
<1>1. LoopsOK' /\ LifeOK'
  BY DEF ReplicaInv, TypeOK, LoopsOK, LifeOK, lifeVars, loopVars
<1>2. InService'
  BY DEF ReplicaInv, InService, lifeVars, loopVars
<1>3. OutOfService'
  BY DEF ReplicaInv, OutOfService, LoopsEnded, CallsOver, lifeVars, loopVars
<1> QED
  BY <1>1, <1>2, <1>3 DEF ReplicaInv, TypeOK

(* An invocation comes and goes, or is told that it is over.                *)
LEMMA AdapterOK ==
    ASSUME ReplicaInv, NEW h \in Handlers,
           \/ \E kind \in {"rest", "tool", "callback"} : Arrive(h, kind)
           \/ Leave(h) \/ CancelTool(h) \/ AdapterStep(h)
    PROVE  ReplicaInv'
<1>1. UNCHANGED <<lifeVars, loopVars, pending, gauge, faults>>
  BY DEF Arrive, Leave, CancelTool, AdapterStep
<1>2. CallsOK /\ NoOrphanedWork
  BY DEF ReplicaInv, TypeOK
<1>3. CASE \E kind \in {"rest", "tool", "callback"} : Arrive(h, kind)
  <2>1. CallsOK'
    <3>1. PICK kind \in {"rest", "tool", "callback"} : Arrive(h, kind)
      BY <1>3
    <3>2. [Idle EXCEPT !.kind = kind, !.pc = "await"] \in AdapterStates
      BY <3>1 DEF AdapterStates, Idle
    <3>3. [NoService EXCEPT !.pc = IF kind = "callback" THEN "settle" ELSE "admit"] \in ServiceStates
      BY DEF ServiceStates, NoService
    <3> QED
      BY <1>2, <3>1, <3>2, <3>3 DEF CallsOK, Arrive
  <2>2. NoOrphanedWork' /\ phase = "serving"
    BY <1>2, <1>3 DEF CallsOK, NoOrphanedWork, Arrive, Idle
  <2> QED
    BY <1>1, <2>1, <2>2, CallStep DEF ReplicaInv, TypeOK
<1>4. CASE Leave(h) \/ (Watch(h) /\ UNCHANGED service)
  <2>1. CallsOK' /\ UNCHANGED service
    BY <1>2, <1>4 DEF CallsOK, AdapterStates, Leave, Watch
  <2>2. \A g \in Handlers : adapter'[g].pc = adapter[g].pc /\ adapter'[g].kind = adapter[g].kind
    BY <1>2, <1>4 DEF CallsOK, AdapterStates, Leave, Watch
  <2>3. NoOrphanedWork'
    BY <1>2, <2>1, <2>2 DEF NoOrphanedWork
  <2> QED
    BY <1>1, <2>1, <2>2, <2>3, CallStep DEF ReplicaInv, TypeOK
<1>5. CASE CancelTool(h)
  <2>1. CallsOK' /\ UNCHANGED service
    BY <1>2, <1>5 DEF CallsOK, AdapterStates, CancelTool, CancelledCall
  <2>2. /\ \A g \in Handlers \ {h} : adapter'[g] = adapter[g]
        /\ adapter[h].pc = "await" /\ adapter'[h].pc = "shielded" /\ adapter'[h].kind = adapter[h].kind
    BY <1>2, <1>5 DEF CallsOK, AdapterStates, CancelTool, CancelledCall
  <2>3. NoOrphanedWork'
    BY <1>2, <2>1, <2>2 DEF NoOrphanedWork
  <2> QED
    BY <1>1, <2>1, <2>2, <2>3, CallStep DEF ReplicaInv, TypeOK
<1>6. CASE Return(h)
  <2>1. CallsOK'
    BY <1>2, <1>6 DEF CallsOK, AdapterStates, ServiceStates, Return, Idle, NoService
  <2>2. /\ \A g \in Handlers \ {h} : adapter'[g] = adapter[g] /\ service'[g] = service[g]
        /\ adapter'[h].pc = "idle" /\ service'[h].pc = "none"
    BY <1>2, <1>6 DEF CallsOK, Return, Idle, NoService
  <2>3. NoOrphanedWork'
    BY <1>2, <2>2 DEF NoOrphanedWork
  <2> QED
    BY <1>1, <2>1, <2>2, <2>3, CallStep DEF ReplicaInv, TypeOK
<1> QED
  BY <1>3, <1>4, <1>5, <1>6 DEF AdapterStep, Watch

(* The service moves on, but only its adapter takes it as ended.            *)
LEMMA ServiceOK == ASSUME ReplicaInv, NEW h \in Handlers, ServiceStep(h) \/ ServiceFault(h) PROVE ReplicaInv'
<1>1. UNCHANGED <<lifeVars, loopVars, adapter>>
  BY DEF ServiceStep, ServiceFault
<1>2. /\ CallsOK /\ NoOrphanedWork /\ pending \in BOOLEAN /\ gauge \in BOOLEAN
      /\ faults \in 0..MaxFaults
  BY DEF ReplicaInv, TypeOK
<1>3. pending' \in BOOLEAN /\ faults' \in 0..MaxFaults
  <2>1. pending' \in BOOLEAN
    BY <1>2 DEF ServiceFault, ServiceStep, Admit, AdmissionCancelled, Admitted, Waited, CutOff,
       Settle, SyncCount, SyncSet
  <2>2. faults' \in 0..MaxFaults
    BY <1>2, ReplicaAssumption DEF ServiceFault, Fault, ServiceStep
  <2> QED
    BY <2>1, <2>2
<1>4. gauge' \in BOOLEAN
  BY <1>2 DEF CallsOK, ServiceStates, ServiceFault, ServiceStep, Admit, AdmissionCancelled, Admitted, Waited, CutOff,
     Settle, SyncCount, SyncSet
<1>5. service' \in [Handlers -> ServiceStates]
  <2>1. CASE SyncCount(h)
    BY <1>2, <2>1 DEF CallsOK, ServiceStates, SyncCount
  <2>2. ASSUME NEW pc \in {"admitted", "sync", "over", "wait", "settle"}, ServiceGoto(h, pc)
        PROVE  service' \in [Handlers -> ServiceStates]
    BY <1>2, <2>2 DEF CallsOK, ServiceStates, ServiceGoto
  <2> QED
    BY <2>1, <2>2 DEF ServiceFault, ServiceStep, Admit, AdmissionCancelled, Admitted, Waited, CutOff, Settle, SyncSet
<1>6. service[h].pc # "none" /\ \A g \in Handlers \ {h} : service'[g] = service[g]
  BY <1>2 DEF CallsOK, ServiceFault, ServiceStep, Admit, AdmissionCancelled, Admitted, Waited, CutOff,
     Settle, SyncCount, SyncSet, ServiceGoto
<1>7. NoOrphanedWork' /\ CallsOK'
  BY <1>1, <1>2, <1>5, <1>6 DEF NoOrphanedWork, CallsOK
<1>8. \A g \in Handlers : adapter'[g] = adapter[g]
  BY <1>1
<1> QED
  BY <1>1, <1>3, <1>4, <1>7, <1>8, CallStep

(* The replica opens, or fails to, and is told to stop.                     *)
LEMMA OpenOK == ASSUME ReplicaInv, Open \/ OpenFault \/ Terminate PROVE ReplicaInv'
<1>1. UNCHANGED <<callVars, pending, gauge, work>>
  BY DEF Open, OpenFault, Terminate, callVars, loopVars
<1>2. TypeOK
  BY DEF ReplicaInv
<1>3. LifeOK' /\ faults' \in 0..MaxFaults
  BY <1>2, ReplicaAssumption DEF TypeOK, LifeOK, Open, OpenFault, Terminate, Fault
<1>4. LoopsOK'
  <2>1. CASE Open
    BY <1>1, <1>2, <2>1 DEF ReplicaInv, TypeOK, OutOfService, LoopsOK, LoopStates, Open
  <2>2. CASE OpenFault \/ Terminate
    BY <1>2, <2>2 DEF TypeOK, LoopsOK, OpenFault, Terminate, loopVars
  <2> QED
    BY <2>1, <2>2
<1>5. InService'
  BY <1>1, <1>2 DEF ReplicaInv, TypeOK, LoopsOK, InService, OutOfService, Open, OpenFault, Terminate, loopVars
<1>6. OutOfService'
  BY <1>1 DEF ReplicaInv, InService, OutOfService, LoopsEnded, CallsOver, Open, OpenFault, Terminate, loopVars, callVars
<1> QED
  BY <1>1, <1>2, <1>3, <1>4, <1>5, <1>6 DEF ReplicaInv, TypeOK, CallsOK, NoOrphanedWork, callVars

(* The replica stops, one phase at a time.                                  *)
LEMMA ShutdownOK == ASSUME ReplicaInv, Shutdown PROVE ReplicaInv'
<1>1. UNCHANGED <<service, pending, gauge>> /\ TypeOK
  BY DEF ReplicaInv, Shutdown, StopTasks, StopSessions, SessionsStopped, ClosePool, CloseClient, callVars
<1>2. LifeOK' /\ faults' \in 0..MaxFaults
  <2>1. faults' \in 0..MaxFaults
    BY <1>1, ReplicaAssumption DEF TypeOK, Shutdown, StopTasks, StopSessions, SessionsStopped, ClosePool,
       CloseClient, Fault
  <2>2. closed' \in 0..Closers
    BY <1>1, ReplicaAssumption DEF ReplicaInv, OutOfService, TypeOK, LifeOK, Shutdown, StopTasks, StopSessions,
       SessionsStopped, ClosePool, CloseClient
  <2>3. pool' \in {"new", "open", "closed"} /\ stopping' \in BOOLEAN
    BY <1>1 DEF TypeOK, LifeOK, Shutdown, StopTasks, Signalled, StopSessions, SessionsStopped, ClosePool,
       CloseClient
  <2>4. phase' \in {"stop_tasks", "stop_sessions", "close_pool", "close_clients", "stopped"}
    BY DEF Shutdown, StopTasks, StopSessions, SessionsStopped, ClosePool, CloseClient, CloserFailed, After
  <2> QED
    BY <2>1, <2>2, <2>3, <2>4 DEF LifeOK
<1>3. CASE StopTasks
  <2>1. \A l \in Loops : /\ loop'[l] = CancelledLoop(l)
                         /\ work'[l] = IF loop[l].pc = "work" THEN [work[l] EXCEPT !.cancelled = TRUE]
                                       ELSE work[l]
    BY <1>3 DEF StopTasks
  <2>2. LoopsOK
    BY <1>1 DEF TypeOK
  <2>3. \A l \in Loops : /\ CancelledLoop(l) \in LoopStates
                         /\ CancelledLoop(l).pc \in {"work", "settle"} <=> loop[l].pc \in {"work", "settle"}
    BY <1>3, <2>2 DEF ReplicaInv, InService, StopTasks, LoopsOK, LoopStates, CancelledLoop
  <2>4. loop' \in [Loops -> LoopStates]
    BY <1>3, <2>3 DEF StopTasks
  <2>5. work' \in [Loops -> WorkStates] /\ \A l \in Loops : work'[l].pc = work[l].pc
    BY <1>3, <2>2 DEF StopTasks, LoopsOK, WorkStates
  <2>6. LoopsOK'
    BY <2>1, <2>2, <2>3, <2>4, <2>5 DEF LoopsOK
  <2>7. InService' /\ OutOfService'
    BY <1>3 DEF ReplicaInv, InService, OutOfService, StopTasks, callVars
  <2> QED
    BY <1>1, <1>2, <1>3, <2>6, <2>7 DEF ReplicaInv, TypeOK, CallsOK, NoOrphanedWork, StopTasks, callVars
<1>4. CASE StopSessions
  <2>1. CallsOK' /\ LoopsOK'
    BY <1>1, <1>4 DEF TypeOK, CallsOK, LoopsOK, AdapterStates, StopSessions, CancelledCall, loopVars
  <2>2. \A h \in Handlers : /\ adapter'[h].pc # "await"
                            /\ adapter'[h].pc = "idle" <=> adapter[h].pc = "idle"
    BY <1>1, <1>4 DEF TypeOK, CallsOK, AdapterStates, StopSessions, CancelledCall
  <2>3. NoOrphanedWork'
    BY <1>1, <2>2 DEF ReplicaInv, NoOrphanedWork
  <2>4. InService' /\ OutOfService'
    BY <1>4, <2>2 DEF ReplicaInv, InService, OutOfService, LoopsEnded, StopSessions, After, loopVars
  <2> QED
    BY <1>1, <1>2, <2>1, <2>3, <2>4 DEF ReplicaInv, TypeOK
<1>5. CASE SessionsStopped \/ ClosePool \/ CloseClient
  <2>1. UNCHANGED <<loopVars, callVars>>
    BY <1>5 DEF SessionsStopped, ClosePool, CloseClient
  <2>2. LoopsOK' /\ CallsOK' /\ NoOrphanedWork'
    BY <1>1, <2>1 DEF ReplicaInv, TypeOK, LoopsOK, CallsOK, NoOrphanedWork, loopVars, callVars
  <2>3. InService' /\ OutOfService'
    BY <1>1, <1>5, <2>1, ReplicaAssumption DEF ReplicaInv, TypeOK, LifeOK, InService, OutOfService, LoopsEnded, CallsOver,
       SessionsStopped, ClosePool, CloseClient, CloserFailed, After, loopVars, callVars
  <2> QED
    BY <1>1, <1>2, <2>2, <2>3 DEF ReplicaInv, TypeOK
<1> QED
  BY <1>3, <1>4, <1>5 DEF Shutdown

(* Every step keeps the invariant.                                          *)
LEMMA StepOK == ReplicaInv /\ [Next]_vars => ReplicaInv'
<1> SUFFICES ASSUME ReplicaInv, [Next]_vars PROVE ReplicaInv'
  OBVIOUS
<1>1. CASE Open \/ OpenFault \/ Terminate
  BY <1>1, OpenOK
<1>2. CASE Shutdown
  BY <1>2, ShutdownOK
<1>3. CASE ElsewhereInTable \/ UNCHANGED vars
  <2>1. UNCHANGED <<lifeVars, loopVars, callVars, gauge, faults>> /\ pending' \in BOOLEAN
    BY <1>3 DEF ReplicaInv, TypeOK, ElsewhereInTable, vars
  <2> QED
    BY <2>1 DEF ReplicaInv, TypeOK, LifeOK, LoopsOK, CallsOK, InService, OutOfService, NoOrphanedWork,
       LoopsEnded, CallsOver, lifeVars, loopVars, callVars
<1>4. CASE \E l \in Loops : LoopStep(l) \/ WorkStep(l) \/ WorkFault(l)
  BY <1>4, LoopStepOK, WorkStepOK
<1>5. CASE \E h \in Handlers :
              \/ \E kind \in {"rest", "tool", "callback"} : Arrive(h, kind)
              \/ Leave(h) \/ CancelTool(h) \/ AdapterStep(h) \/ ServiceStep(h) \/ ServiceFault(h)
  BY <1>5, AdapterOK, ServiceOK
<1> QED
  BY <1>1, <1>2, <1>3, <1>4, <1>5 DEF Next

THEOREM ReplicaInvariant == Spec => []ReplicaInv
  BY InitOK, StepOK, PTL DEF Spec

(* The state of a replica is always of its type, and a loop has an          *)
(* operation exactly while it waits for one (_run).                         *)
THEOREM ReplicaTypeCorrect == Spec => []TypeOK
<1>1. ReplicaInv => TypeOK
  BY DEF ReplicaInv
<1> QED
  BY <1>1, ReplicaInvariant, PTL

(* Whatever fails, and however many invocations there are, nothing is       *)
(* closed under anybody who might use it (lifespan).                        *)
THEOREM ClosedAfterUse == Spec => []ResourcesOutliveTheirUsers
<1>1. ReplicaInv => ResourcesOutliveTheirUsers
  BY DEF ReplicaInv, TypeOK, LifeOK, LoopsOK, InService, OutOfService, NoOrphanedWork, LoopsEnded, CallsOver,
     ResourcesOutliveTheirUsers, Running
<1> QED
  BY <1>1, ReplicaInvariant, PTL

(* No call of the service outlives the handler that made it (_dispatch).    *)
THEOREM WorkHasItsHandler == Spec => []NoOrphanedWork
<1>1. ReplicaInv => NoOrphanedWork
  BY DEF ReplicaInv
<1> QED
  BY <1>1, ReplicaInvariant, PTL

(* No number of failed operations takes a replica out of service (_run,     *)
(* maintenance_ready).                                                      *)
THEOREM StaysReady == Spec => []ServingIsReady
<1>1. ReplicaInv => ServingIsReady
  BY DEF ReplicaInv, TypeOK, LoopsOK, LoopStates, InService, ServingIsReady, Ready
<1> QED
  BY <1>1, ReplicaInvariant, PTL

(* A replica that has stopped has closed its pool and every one of its      *)
(* clients, whichever of them failed (_close_all).                          *)
THEOREM AllClosed == Spec => []EverythingClosed
<1>1. ReplicaInv => EverythingClosed
  BY DEF ReplicaInv, OutOfService, EverythingClosed
<1> QED
  BY <1>1, ReplicaInvariant, PTL
=============================================================================
