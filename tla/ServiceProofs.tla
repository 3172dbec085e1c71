---------------------------- MODULE ServiceProofs ----------------------------
(***************************************************************************)
(* The steps of maintenance, a restart, ACS, the person and the clock keep  *)
(* ServiceInv, which is therefore an invariant; what follows from it; that  *)
(* the service only sends the repository's statements; that somebody hangs  *)
(* up the attached call of every request that is over; and that every step  *)
(* of an invocation or a handler takes it nearer its end.                   *)
(***************************************************************************)
EXTENDS ServiceStepProofs
-----------------------------------------------------------------------------
(*                 Maintenance, a crash, the person and the clock           *)

(* The coroutines stay where they are. *)
LEMMA OthersMove ==
    ASSUME ServiceInv, TableMoves, AcsMoves, Budget, UNCHANGED <<ask, proc, event>>, sweep' \subseteq CallIds
    PROVE  ServiceInv'
<1>1. ask' = ask /\ proc' = proc /\ event' = event
  OBVIOUS
<1>2. Typed'
  BY <1>1 DEF ServiceInv, Typed, AcsMoves, Budget
<1>3. /\ \A a \in Asks : AskWell(ask'[a], proc'[a])
      /\ \A h \in Handlers : HandlerWell(event'[h], proc'[h])
  BY <1>1, AskFacts, HandlerFacts
<1>4. CreatorsStay /\ NoNewCreators /\ NoNewClaimants
  BY <1>1 DEF CreatorsStay, NoNewCreators, NoNewClaimants
<1>5. \A c \in CallIds : CallWell(calls'[c])
  BY CallsStayWell
<1> QED
  BY <1>2, <1>3, <1>4, <1>5, Keeps DEF AcsMoves, TableMoves

LEMMA MaintenanceSteps ==
    ASSUME ServiceInv, ExpirePass \/ ExpirePassLost \/ PurgePass
    PROVE  ServiceInv'
<1>1. /\ ExpireStaleCalls \/ PurgeTerminal
      /\ now' = now /\ UNCHANGED <<ask, proc, event>> /\ UNCHANGED acsVars
      /\ sweep' \in {sweep, {rows[r].callId : r \in Stale} \ {None}}
      /\ Fault \/ UNCHANGED budgetVars
  BY DEF ExpirePass, ExpirePassLost, PurgePass, serviceVars
<1>2. TableMoves /\ AcsMoves /\ Budget
  BY <1>1, RowsExpired, AcsUnchanged, BudgetKept DEF ServiceInv
<1>3. sweep' \subseteq CallIds
  <2>1. \A r \in Requests : rows[r].callId \in CallIds \cup {None}
    BY RowFacts DEF ServiceInv, Row
  <2> QED
    BY <1>1, <2>1 DEF ServiceInv, Typed, Stale, PendingRows
<1> QED
  BY <1>1, <1>2, <1>3, OthersMove

LEMMA SweepSteps ==
    ASSUME ServiceInv, NEW c \in CallIds, Sweep(c) \/ SweepFault(c)
    PROVE  ServiceInv'
<1>1. /\ UNCHANGED storeVars /\ UNCHANGED <<ask, proc, event>>
      /\ EndCall(c) \/ UNCHANGED acsVars
      /\ sweep' = sweep \ {c}
      /\ Fault \/ UNCHANGED budgetVars
  BY DEF Sweep, SweepFault
<1>2. TableMoves /\ AcsMoves /\ Budget
  BY <1>1, StoreUnchanged, EndCallMoves, AcsUnchanged, BudgetKept DEF ServiceInv
<1>3. sweep' \subseteq CallIds
  BY <1>1 DEF ServiceInv, Typed
<1> QED
  BY <1>1, <1>2, <1>3, OthersMove

(* The person and the network change one call, and ACS reports it. *)
LEMMA PersonSteps ==
    ASSUME ServiceInv, NEW c \in CallIds, Person(c)
    PROVE  ServiceInv'
<1>1. calls \in [CallIds -> CallStates] /\ CallWell(calls[c])
  BY DEF ServiceInv, Typed, CallsWell
<1>2. calls[c].listening # None => calls[c].state # "unused"
  BY <1>1 DEF CallWell
<1>3. UNCHANGED storeVars /\ UNCHANGED serviceVars /\ UNCHANGED budgetVars
  BY DEF Person, PickUp, NotReached, Hear, PutDown
<1>4. AcsMoves
  <2>1. CASE PutDown(c)
    BY <2>1, EndCallMoves DEF PutDown
  <2>2. CASE ~PutDown(c)
    <3>1. PICK type \in EventTypes :
            /\ Send(type, c)
            /\ \/ /\ calls[c].state = "dialing"
                  /\ calls' = [calls EXCEPT ![c].state = "connected"]
               \/ /\ calls[c].state = "dialing"
                  /\ calls' = [calls EXCEPT ![c].state = "ended"]
               \/ /\ calls[c].listening # None
                  /\ calls' = [calls EXCEPT ![c].listening = None]
      BY <2>2 DEF Person, PickUp, NotReached, Hear, EventTypes
    <3>2. PICK call \in CallStates : /\ call.req = calls[c].req /\ call.prompts = calls[c].prompts
                                     /\ call.state # "unused"
                                     /\ calls' = [calls EXCEPT ![c] = call]
      <4>1. CASE calls[c].state = "dialing" /\ calls' = [calls EXCEPT ![c].state = "connected"]
        <5> DEFINE call == [calls[c] EXCEPT !.state = "connected"]
        <5>1. /\ call \in CallStates /\ call.req = calls[c].req /\ call.prompts = calls[c].prompts
              /\ call.state # "unused"
          BY <1>1 DEF CallStates
        <5>2. calls' = [calls EXCEPT ![c] = call]
          BY <1>1, <4>1
        <5> HIDE DEF call
        <5> QED
          BY <5>1, <5>2
      <4>2. CASE calls[c].state = "dialing" /\ calls' = [calls EXCEPT ![c].state = "ended"]
        <5> DEFINE call == [calls[c] EXCEPT !.state = "ended"]
        <5>1. /\ call \in CallStates /\ call.req = calls[c].req /\ call.prompts = calls[c].prompts
              /\ call.state # "unused"
          BY <1>1 DEF CallStates
        <5>2. calls' = [calls EXCEPT ![c] = call]
          BY <1>1, <4>2
        <5> HIDE DEF call
        <5> QED
          BY <5>1, <5>2
      <4>3. CASE calls[c].listening # None /\ calls' = [calls EXCEPT ![c].listening = None]
        <5> DEFINE call == [calls[c] EXCEPT !.listening = None]
        <5>1. /\ call \in CallStates /\ call.req = calls[c].req /\ call.prompts = calls[c].prompts
              /\ call.state # "unused"
          BY <1>1, <1>2, <4>3 DEF CallStates
        <5>2. calls' = [calls EXCEPT ![c] = call]
          BY <1>1, <4>3
        <5> HIDE DEF call
        <5> QED
          BY <5>1, <5>2
      <4> QED
        BY <3>1, <4>1, <4>2, <4>3
    <3>3. calls[c].state # "unused"
      BY <1>2, <3>1
    <3> QED
      BY <3>1, <3>2, <3>3, SendMoves
  <2> QED
    BY <2>1, <2>2
<1>5. TableMoves /\ Budget
  BY <1>3, StoreUnchanged, BudgetKept DEF ServiceInv
<1> QED
  BY <1>3, <1>4, <1>5, OthersMove DEF serviceVars, ServiceInv, Typed

(* What a restart leaves of an invocation is a result that nobody gets. *)
LEMMA CrashSteps ==
    ASSUME ServiceInv, Crash
    PROVE  ServiceInv'
<1>1. /\ UNCHANGED storeVars /\ ask' = ask /\ sent' = sent /\ fresh' = fresh /\ faults' = faults
      /\ crashes < MaxCrashes /\ crashes' = crashes + 1 /\ sweep' = {}
      /\ event' = [h \in Handlers |-> NoEvent]
      /\ calls' = [c \in CallIds |-> [calls[c] EXCEPT !.playing = FALSE]]
      /\ proc' = [p \in Processes |->
                    IF p \in Handlers THEN IdleProc
                    ELSE IF Running(p) THEN Finish(proc[p], "crashed") ELSE proc[p]]
  BY DEF Crash
<1>2. TableMoves
  BY <1>1, StoreUnchanged
<1>3. Budget
  BY <1>1, ProcessesAssumption DEF ServiceInv, Typed, Budget
<1>4. \A c \in CallIds : /\ calls[c] \in CallStates /\ calls'[c] \in CallStates
                         /\ calls'[c].req = calls[c].req /\ calls'[c].prompts = calls[c].prompts
                         /\ calls'[c].state = calls[c].state /\ calls'[c].listening = calls[c].listening
  <2> SUFFICES ASSUME NEW c \in CallIds
               PROVE  /\ calls[c] \in CallStates /\ calls'[c] \in CallStates
                      /\ calls'[c].req = calls[c].req /\ calls'[c].prompts = calls[c].prompts
                      /\ calls'[c].state = calls[c].state /\ calls'[c].listening = calls[c].listening
    OBVIOUS
  <2>1. calls[c] \in CallStates /\ calls'[c] = [calls[c] EXCEPT !.playing = FALSE]
    BY <1>1 DEF ServiceInv, Typed
  <2> QED
    BY <2>1 DEF CallStates
<1>5. AcsMoves
  <2>1. calls' \in [CallIds -> CallStates]
    BY <1>1, <1>4
  <2>2. \A c \in CallIds : calls[c].state = "unused" => calls[c].listening = None
    BY DEF ServiceInv, CallsWell, CallWell
  <2> QED
    BY <1>1, <1>4, <2>1, <2>2 DEF AcsMoves, ServiceInv, Typed, SameCalls, SentWell
<1>6. \A p \in Processes : proc[p] \in ProcStates /\ proc'[p] \in ProcStates
  <2>1. "crashed" \in Results \cup {None}
    BY DEF Results
  <2> QED
    BY <1>1, <2>1, IdleIsProc, FinishIsProc DEF ServiceInv, Typed
<1>7. \A h \in Handlers : proc'[h] = IdleProc /\ event'[h] = NoEvent /\ IdleProc.pc = "idle"
  BY <1>1 DEF Processes, IdleProc
<1>8. \A a \in Asks : /\ AskWell(ask'[a], proc'[a])
                      /\ proc'[a].req = proc[a].req
  <2> SUFFICES ASSUME NEW a \in Asks
               PROVE  AskWell(ask[a], proc'[a]) /\ proc'[a].req = proc[a].req
    BY <1>1
  <2>1. AskWell(ask[a], proc[a]) /\ a \in Processes /\ a \notin Handlers /\ proc[a] \in ProcStates
    BY AskFacts
  <2>2. CASE ~Running(a)
    BY <1>1, <2>1, <2>2
  <2>3. CASE Running(a)
    <3>1. proc'[a] = Finish(proc[a], "crashed")
      BY <1>1, <2>1, <2>3
    <3>2. proc'[a].pc = "done" /\ proc'[a].req = proc[a].req /\ proc'[a].result = "crashed"
      BY <3>1 DEF Finish, IdleProc
    <3>3. "crashed" \notin Outcomes
      BY DEF Outcomes, HumanOutcomes, ExpiryOutcomes
    <3>4. Asked(ask[a])
      BY <2>1, <2>3 DEF AskWell, Running
    <3>5. proc[a].req # None => proc[a].req \in Requests /\ rows[proc[a].req].status # "absent"
      <4>1. CASE proc[a].pc \in WorkPcs
        BY <2>1, <4>1 DEF AskWell, AskBase, Mine
      <4>2. CASE proc[a].pc \in {"insert", "lookup"}
        BY <2>1, <4>2 DEF AskWell
      <4> QED
        BY <2>1, <2>3, <4>1, <4>2 DEF AskWell, Running
    <3>6. "done" \notin WorkPcs
      BY Names
    <3> QED
      BY <3>2, <3>3, <3>4, <3>5, <3>6 DEF AskWell
  <2> QED
    BY <2>2, <2>3
<1>9. \A h \in Handlers : HandlerWell(event'[h], proc'[h])
  BY <1>7 DEF HandlerWell, BlockPcs
<1>10. Typed'
  <2>1. proc' \in [Processes -> ProcStates]
    BY <1>1, <1>6
  <2>2. NoEvent \in [type: EventTypes, call: CallIds \cup {None}]
    BY DEF NoEvent, EventTypes
  <2> QED
    BY <1>1, <1>3, <1>5, <2>1, <2>2 DEF ServiceInv, Typed, AcsMoves, Budget
<1>11. CreatorsStay /\ NoNewCreators /\ NoNewClaimants
  BY <1>1, <1>7, <1>8 DEF CreatorsStay, NoNewCreators, NoNewClaimants, Prompting
<1>12. \A c \in CallIds : CallWell(calls'[c])
  BY <1>5, CallsStayWell
<1> QED
  BY <1>2, <1>5, <1>8, <1>9, <1>10, <1>11, <1>12, Keeps DEF AcsMoves, TableMoves
-----------------------------------------------------------------------------
(* The clock does not pass a limit that somebody still relies on: a timer   *)
(* is due first.                                                            *)
LEMMA AskWaits ==
    ASSUME ServiceInv, ClockTick, NEW a \in Asks
    PROVE  AskWell(ask[a], proc[a])'
<1>1. PICK q \in AskStates, x \in ProcStates : q = ask[a] /\ x = proc[a]
  BY AskFacts
<1>2. /\ AskWell(q, x) /\ q.started \in Nat /\ now \in Nat
  BY <1>1, AskFacts
<1>3. /\ now' = now + 1 /\ rows' = rows /\ calls' = calls /\ ask'[a] = q /\ proc'[a] = x
  BY <1>1 DEF ClockTick, Tick, serviceVars, acsVars
<1>4. /\ x.pc \in {"insert", "lookup"} => now < q.started + WorkCutoff
      /\ x.pc \notin {"idle", "done"} => now < q.started + Deadline
  BY <1>1, <1>2, TimesAssumption DEF ClockTick, TimerDue, Running, AskCutoff, AskExpiry
<1>5. Asked(q) => Asked(q)'
  BY <1>2, <1>3 DEF Asked
<1>6. x.pc \in {"insert", "lookup"} => now' <= q.started + WorkCutoff
  BY <1>2, <1>3, <1>4, TimesAssumption
<1>7. x.pc \in WorkPcs => now' <= q.started + Deadline
  BY <1>2, <1>3, <1>4, TimesAssumption DEF WorkPcs, AskPcs, CleanupPcs
<1>8. Mine(q, x.req) => Mine(q, x.req)'
  BY <1>3 DEF Mine
<1>9. AskBase(q, x) /\ x.pc \in WorkPcs => AskBase(q, x)'
  BY <1>5, <1>7, <1>8 DEF AskBase
<1>10. /\ LeaveWell(q, x) => LeaveWell(q, x)'
       /\ \A result : OnRecord(q, x.req, result) => OnRecord(q, x.req, result)'
       /\ MayExpire(q, x) => MayExpire(q, x)'
  BY <1>3 DEF LeaveWell, OnRecord, MayExpire
<1>11. AskWell(q, x)'
  BY <1>2, <1>3, <1>5, <1>6, <1>9, <1>10 DEF AskWell
<1> QED
  BY <1>3, <1>11

LEMMA HandlerWaits ==
    ASSUME ServiceInv, ClockTick, NEW h \in Handlers
    PROVE  HandlerWell(event[h], proc[h])'
<1>1. PICK e, x : e = event[h] /\ x = proc[h]
  OBVIOUS
<1>2. HandlerWell(e, x) /\ now \in Nat
  BY <1>1, HandlerFacts
<1>3. /\ now' = now + 1 /\ rows' = rows /\ calls' = calls /\ sent' = sent /\ event'[h] = e /\ proc'[h] = x
  BY <1>1 DEF ClockTick, Tick, serviceVars, acsVars
<1>4. x.pc \in BlockPcs => now' <= x.stored.cutoff
  <2> SUFFICES ASSUME x.pc \in BlockPcs PROVE now' <= x.stored.cutoff
    OBVIOUS
  <2>1. ~(now >= x.stored.cutoff)
    BY <1>1 DEF ClockTick, TimerDue, InBlock, OutOfTime, BlockPcs
  <2>2. x.stored.cutoff = Cutoff(x.req) /\ rows[x.req].status \notin {"absent", "purged"} /\ x.req \in Requests
    BY <1>2 DEF HandlerWell, HandlerBase, BlockPcs
  <2>3. Cutoff(x.req) \in Nat
    BY <2>2, RowOf
  <2> QED
    BY <1>2, <1>3, <2>1, <2>2, <2>3
<1>5. HandlerBase(e, x) => HandlerBase(e, x)'
  BY <1>3 DEF HandlerBase
<1>6. Cutoff(x.req)' = Cutoff(x.req)
  BY <1>3 DEF Cutoff
<1>7. HandlerWell(e, x)'
  BY <1>2, <1>3, <1>4, <1>5, <1>6 DEF HandlerWell
<1> QED
  BY <1>3, <1>7

LEMMA ClockSteps ==
    ASSUME ServiceInv, ClockTick
    PROVE  ServiceInv'
<1>1. /\ Tick /\ now' = now + 1 /\ rows' = rows
      /\ ask' = ask /\ proc' = proc /\ event' = event /\ sweep' = sweep
      /\ calls' = calls /\ sent' = sent /\ fresh' = fresh /\ faults' = faults /\ crashes' = crashes
  BY DEF ClockTick, Tick, serviceVars, acsVars, budgetVars
<1>2. StoreInv' /\ RowsMove
  BY <1>1, StepOK, StoreMoves DEF ServiceInv, StoreNext
<1>3. TimesWell'
  BY <1>1, <1>2, TimesStay DEF ServiceInv
<1>4. Typed'
  BY <1>1 DEF ServiceInv, Typed
<1>5. AsksWell' /\ HandlersWell'
  BY AskWaits, HandlerWaits DEF AsksWell, HandlersWell
<1>6. OneCreator' /\ OneClaimant'
  BY <1>1 DEF ServiceInv, OneCreator, OneClaimant, Prompting
<1>7. CallsWell' /\ SentWell' /\ AttachedWell'
  BY <1>1 DEF ServiceInv, CallsWell, CallWell, SentWell, AttachedWell
<1>8. OneCallPerRequest' /\ PromptedOnce' /\ AnswerIsHuman' /\ CancelledByCreator'
  BY <1>1 DEF ServiceInv, OneCallPerRequest, PromptedOnce, AnswerIsHuman, CancelledByCreator, Cutoff
<1> QED
  BY <1>2, <1>3, <1>4, <1>5, <1>6, <1>7, <1>8 DEF ServiceInv

LEMMA StutterSteps ==
    ASSUME ServiceInv, UNCHANGED vars
    PROVE  ServiceInv'
<1>1. UNCHANGED storeVars /\ UNCHANGED <<ask, proc, event>> /\ sweep' = sweep
      /\ UNCHANGED acsVars /\ UNCHANGED budgetVars
  BY DEF vars, serviceVars
<1>2. TableMoves /\ AcsMoves /\ Budget /\ sweep' \subseteq CallIds
  BY <1>1, StoreUnchanged, AcsUnchanged, BudgetKept DEF ServiceInv, Typed
<1> QED
  BY <1>1, <1>2, OthersMove
-----------------------------------------------------------------------------
(*                               The invariant                              *)

LEMMA ServiceInit ==
    Init => ServiceInv
<1> SUFFICES ASSUME Init PROVE ServiceInv
  OBVIOUS
<1>1. /\ rows = [r \in Requests |-> NoRow("absent")] /\ now = 0
      /\ \A r \in Requests : /\ rows[r].status = "absent" /\ rows[r].callId = None /\ rows[r].outcome = None
  BY DEF Init, StoreInit, NoRow
<1>2. StoreInv
  BY InitOK DEF Init
<1>3. TimesWell
  BY <1>1 DEF TimesWell, RowTimes
<1>4. Typed
  <2>1. NoAsk \in AskStates
    BY DEF NoAsk, AskStates
  <2>2. NoCall \in CallStates
    BY DEF NoCall, CallStates
  <2>3. NoEvent \in [type: EventTypes, call: CallIds \cup {None}]
    BY DEF NoEvent, EventTypes
  <2> QED
    BY <2>1, <2>2, <2>3, IdleIsProc, ProcessesAssumption DEF Init, Typed
<1>5. \A a \in Asks : /\ ask[a] = NoAsk /\ proc[a] = IdleProc /\ proc[a].req = None
                      /\ ask[a].role = None /\ ask[a].role # "creator"
  <2>1. None # "creator"
    BY NoneIsNoName DEF Roles
  <2> QED
    BY <2>1 DEF Init, Processes, NoAsk, IdleProc
<1>6. AsksWell
  <2> SUFFICES ASSUME NEW a \in Asks PROVE AskWell(NoAsk, IdleProc)
    BY <1>5 DEF AsksWell
  <2>1. IdleProc.pc = "idle" /\ IdleProc.req = None /\ IdleProc.result = None /\ NoAsk.role = None
    BY DEF IdleProc, NoAsk
  <2>2. "idle" \notin WorkPcs
    BY DEF WorkPcs, AskPcs, CleanupPcs
  <2> QED
    BY <2>1, <2>2 DEF AskWell
<1>7. \A h \in Handlers : proc[h] = IdleProc /\ proc[h].pc = "idle"
  BY DEF Init, Processes, IdleProc
<1>8. HandlersWell
  BY <1>7 DEF HandlersWell, HandlerWell, BlockPcs
<1>9. OneCreator /\ OneClaimant
  BY <1>5, <1>7 DEF OneCreator, OneClaimant, Prompting
<1>10. \A c \in CallIds : /\ calls[c].req = None /\ calls[c].prompts = 0
                          /\ calls[c].state = "unused" /\ calls[c].listening = None
  BY DEF Init, NoCall
<1>11. CallsWell /\ SentWell /\ AttachedWell
  BY <1>1, <1>10 DEF Init, CallsWell, CallWell, SentWell, AttachedWell
<1>12. OneCallPerRequest /\ PromptedOnce
  BY <1>10 DEF OneCallPerRequest, PromptedOnce
<1>13. AnswerIsHuman /\ CancelledByCreator
  BY <1>1, NoneIsNobody DEF AnswerIsHuman, CancelledByCreator, Outcomes, ExpiryOutcomes
<1> QED
  BY <1>2, <1>3, <1>4, <1>6, <1>8, <1>9, <1>11, <1>12, <1>13 DEF ServiceInv

LEMMA AskKeeps ==
    ASSUME ServiceInv, NEW a \in Asks, Client(a) \/ AskStep(a) \/ AskFault(a)
    PROVE  ServiceInv'
<1>1. CASE Client(a)
  BY <1>1, AskSteps, CancelSteps DEF Client
<1>2. CASE AskStep(a)
  <2>1. CASE \E r \in Requests : AdmitCreated(a, r) \/ AdmitJoined(a, r) \/ AdmitReplayed(a, r)
    BY <2>1, AdmitCreatedSteps, AdmitJoinedSteps, AdmitReplayedSteps
  <2>2. CASE AdmitConflict(a) \/ AdmitRefused(a) \/ AdmissionAborted(a)
    BY <2>2, AdmitConflictSteps, AdmissionEndsSteps
  <2>3. CASE \E c \in CallIds : CreateCall(a, c) \/ InterruptCreate(a, c)
    BY <2>3, CreateCallSteps, CreateCallFaultSteps
  <2>4. CASE Verify(a) \/ Attach(a) \/ Confirm(a) \/ Poll(a) \/ Interrupt(a)
    BY <2>4, VerifySteps, AttachSteps, ConfirmSteps, PollSteps, InterruptSteps
  <2>5. CASE CleanupStep(a)
    BY <2>5, CleanupKeeps DEF Processes
  <2> QED
    BY <1>2, <2>1, <2>2, <2>3, <2>4, <2>5 DEF AskStep
<1>3. CASE AskFault(a)
  <2>1. CASE AdmissionFault(a) \/ WorkFault(a) \/ DeadlineAbort(a)
    BY <2>1, AdmissionEndsSteps, WorkFaultSteps, DeadlineAbortSteps
  <2>2. CASE \E r \in Requests : AdmissionLost(a, r)
    BY <2>2, AdmissionLostSteps
  <2>3. CASE \E c \in CallIds : CreateCallFault(a, c)
    BY <2>3, CreateCallFaultSteps
  <2>4. CASE CleanupFault(a)
    BY <2>4, CleanupKeeps DEF Processes
  <2> QED
    BY <1>3, <2>1, <2>2, <2>3, <2>4 DEF AskFault
<1> QED
  BY <1>1, <1>2, <1>3

LEMMA HandlerKeeps ==
    ASSUME ServiceInv, NEW h \in Handlers, HandlerStep(h) \/ HandlerFaults(h) \/ \E e \in sent : Deliver(h, e)
    PROVE  ServiceInv'
<1>1. CASE HandlerStep(h)
  <2>1. CASE Get(h) \/ Bind(h) \/ Reload(h) \/ Claim(h) \/ Recheck(h) \/ Prompt(h)
    BY <2>1, GetSteps, BindSteps, ReloadSteps, ClaimSteps, RecheckSteps, PromptSteps
  <2>2. CASE Complete(h) \/ Acknowledge(h) \/ HandlerTimeout(h) \/ Respond(h)
    BY <2>2, CompleteSteps, AcknowledgeSteps, HandlerTimeoutSteps, RespondSteps
  <2>3. CASE CleanupStep(h)
    BY <2>3, CleanupKeeps DEF Processes
  <2> QED
    BY <1>1, <2>1, <2>2, <2>3 DEF HandlerStep
<1>2. CASE HandlerFaults(h)
  <2>1. CASE HandlerFault(h) \/ PromptFault(h) \/ CompleteLost(h)
    BY <2>1, HandlerFaultSteps, PromptSteps, CompleteSteps
  <2>2. CASE CleanupFault(h)
    BY <2>2, CleanupKeeps DEF Processes
  <2> QED
    BY <1>2, <2>1, <2>2 DEF HandlerFaults
<1>3. CASE \E e \in sent : Deliver(h, e)
  BY <1>3, DeliverSteps
<1> QED
  BY <1>1, <1>2, <1>3

LEMMA NextKeeps ==
    ServiceInv /\ [Next]_vars => ServiceInv'
<1> SUFFICES ASSUME ServiceInv, [Next]_vars PROVE ServiceInv'
  OBVIOUS
<1>1. CASE \E a \in Asks : Client(a) \/ AskStep(a) \/ AskFault(a)
  BY <1>1, AskKeeps
<1>2. CASE \E h \in Handlers : HandlerStep(h) \/ HandlerFaults(h) \/ \E e \in sent : Deliver(h, e)
  BY <1>2, HandlerKeeps
<1>3. CASE \E c \in CallIds : Person(c) \/ SweepFault(c)
  BY <1>3, PersonSteps, SweepSteps
<1>4. CASE Maintenance \/ ExpirePassLost \/ PurgePass
  BY <1>4, MaintenanceSteps, SweepSteps DEF Maintenance
<1>5. CASE Crash \/ ClockTick
  BY <1>5, CrashSteps, ClockSteps
<1>6. CASE UNCHANGED vars
  BY <1>6, StutterSteps
<1> QED
  BY <1>1, <1>2, <1>3, <1>4, <1>5, <1>6 DEF Next
-----------------------------------------------------------------------------
(*                    Every statement is the repository's                   *)

(* A settlement that _expire, _fail or a result asks for. *)
LEMMA SettlesAreStatements ==
    ASSUME NEW r \in Requests, NEW o \in Outcomes, NEW before \in Limits(r),
           CompleteIfPending(r, o, before) \/ CompleteErrorIfPending(r), now' = now
    PROVE  StoreNext
  BY DEF StoreNext, WriteRow

LEMMA CleanupStatements ==
    ASSUME ServiceInv, NEW p \in Processes, CleanupStep(p) \/ CleanupFault(p)
    PROVE  [StoreNext]_storeVars
<1>1. CASE UNCHANGED storeVars
  BY <1>1
<1>2. CASE ExpireWrite(p)
  <2>1. proc[p].req \in Requests /\ proc[p].outcome \in Outcomes
    <3>1. CASE p \in Asks
      <4>1. AskWell(ask[p], proc[p]) /\ proc[p].pc = "expire" /\ "expire" \in WorkPcs
        BY <1>2, <3>1, AskFacts, Names DEF ExpireWrite
      <4> QED
        BY <3>1, <4>1, AskFacts DEF AskWell, MayExpire, Outcomes
    <3>2. CASE p \in Handlers
      <4>1. HandlerWell(event[p], proc[p]) /\ proc[p].pc = "expire"
        BY <1>2, <3>2, HandlerFacts DEF ExpireWrite
      <4> QED
        BY <4>1 DEF HandlerWell, HandlerBase, Outcomes
    <3> QED
      BY <3>1, <3>2 DEF Processes
  <2> QED
    BY <1>2, <2>1, SettlesAreStatements DEF ExpireWrite, Limits
<1>3. CASE FailWrite(p)
  <2>1. proc[p].req \in Requests
    <3>1. CASE p \in Asks
      <4>1. proc[p].pc = "fail" /\ "fail" \in WorkPcs
        BY <1>3, Names DEF FailWrite
      <4> QED
        BY <3>1, <4>1, AskFacts
    <3>2. CASE p \in Handlers
      BY <1>3, <3>2, HandlerFacts DEF FailWrite
    <3> QED
      BY <3>1, <3>2 DEF Processes
  <2> QED
    BY <1>3, <2>1 DEF FailWrite, StoreNext, WriteRow
<1> QED
  BY <1>1, <1>2, <1>3
  DEF CleanupStep, CleanupFault, ExpireReread, FailRefetch, HangUp, ExpireFault, FailFault, HangUpFault

LEMMA AskStatements ==
    ASSUME ServiceInv, NEW a \in Asks, Client(a) \/ AskStep(a) \/ AskFault(a)
    PROVE  [StoreNext]_storeVars
<1>1. CASE UNCHANGED storeVars
  BY <1>1
<1>2. CASE CleanupStep(a) \/ CleanupFault(a)
  BY <1>2, CleanupStatements DEF Processes
<1>3. CASE \E r \in Requests : AdmitCreated(a, r) \/ AdmissionLost(a, r)
  BY <1>3, RowInserted DEF AdmitCreated, AdmissionLost, TableMoves
<1>4. CASE Attach(a)
  <2>1. proc[a].pc = "attach" /\ "attach" \in WorkPcs
    BY <1>4 DEF Attach, WorkPcs, AskPcs
  <2>2. proc[a].req \in Requests /\ ask[a].callId \in CallIds
    BY <2>1, AskFacts DEF AskWell
  <2> QED
    BY <1>4, <2>2 DEF Attach, StoreNext, WriteRow
<1> QED
  BY <1>1, <1>2, <1>3, <1>4
  DEF Client, AskStep, AskFault, Ask, Cancel, AdmitJoined, AdmitReplayed, AdmitConflict, AdmitRefused,
      AdmissionAborted, Verify, CreateCall, InterruptCreate, Confirm, Poll, Interrupt,
      AdmissionFault, WorkFault, DeadlineAbort, CreateCallFault

LEMMA HandlerStatements ==
    ASSUME ServiceInv, NEW h \in Handlers, HandlerStep(h) \/ HandlerFaults(h) \/ \E e \in sent : Deliver(h, e)
    PROVE  [StoreNext]_storeVars
<1>1. CASE UNCHANGED storeVars
  BY <1>1
<1>2. CASE CleanupStep(h) \/ CleanupFault(h)
  BY <1>2, CleanupStatements DEF Processes
<1>3. CASE Bind(h)
  <2>1. proc[h].req \in Requests /\ event[h].call \in CallIds
    BY <1>3, HandlerFacts DEF Bind
  <2> QED
    BY <1>3, <2>1 DEF Bind, StoreNext, WriteRow
<1>4. CASE Claim(h)
  <2>1. proc[h].req \in Requests
    BY <1>4, HandlerFacts DEF Claim
  <2> QED
    BY <1>4, <2>1 DEF Claim, StoreNext, WriteRow
<1>5. CASE Complete(h) \/ CompleteLost(h)
  <2> DEFINE x == proc[h]
  <2>1. /\ x.pc = "complete" /\ now' = now
        /\ CompleteIfPending(x.req, event[h].type, x.stored.cutoff)
    BY <1>5 DEF Complete, CompleteLost
  <2>2. /\ x.req \in Requests /\ event[h].type \in Outcomes
        /\ x.stored.cutoff = Cutoff(x.req) /\ rows[x.req].status \notin {"absent", "purged"}
    BY <2>1, HandlerFacts DEF HandlerWell, BlockPcs
  <2>3. rows[x.req].key # None
    BY <2>2, NoneIsNobody DEF ServiceInv, TimesWell, RowTimes
  <2>4. x.stored.cutoff \in Limits(x.req)
    BY <2>2, <2>3 DEF Limits, RowsOfKey
  <2> QED
    BY <2>1, <2>2, <2>4, SettlesAreStatements
<1> QED
  BY <1>1, <1>2, <1>3, <1>4, <1>5
  DEF HandlerStep, HandlerFaults, Get, Reload, Recheck, Prompt, Acknowledge, HandlerTimeout, Respond,
      HandlerFault, PromptFault, Deliver

LEMMA NextStatements ==
    ServiceInv /\ [Next]_vars => [StoreNext]_storeVars
<1> SUFFICES ASSUME ServiceInv, [Next]_vars PROVE [StoreNext]_storeVars
  OBVIOUS
<1>1. CASE \E a \in Asks : Client(a) \/ AskStep(a) \/ AskFault(a)
  BY <1>1, AskStatements
<1>2. CASE \E h \in Handlers : HandlerStep(h) \/ HandlerFaults(h) \/ \E e \in sent : Deliver(h, e)
  BY <1>2, HandlerStatements
<1>3. CASE \E c \in CallIds : Person(c) \/ SweepFault(c) \/ Sweep(c)
  BY <1>3 DEF Person, PickUp, PutDown, NotReached, Hear, SweepFault, Sweep
<1>4. CASE ExpirePass \/ ExpirePassLost \/ PurgePass
  BY <1>4 DEF ExpirePass, ExpirePassLost, PurgePass, StoreNext, WriteRow
<1>5. CASE Crash \/ ClockTick \/ UNCHANGED vars
  BY <1>5 DEF Crash, ClockTick, StoreNext, vars
<1> QED
  BY <1>1, <1>2, <1>3, <1>4, <1>5 DEF Next, Maintenance
-----------------------------------------------------------------------------
(*                    Who hangs up when a request is over                   *)

(* As long as nothing failed, the replica did not restart and no joiner was *)
(* cancelled, the attached call of a request that is over is either on the  *)
(* list of maintenance, or a coroutine that holds the request is on its way *)
(* to hang it up: _expire and _fail reread the row and end the call that    *)
(* they find there, an interruption starts _expire anew unless the person   *)
(* has answered, and after an answer it is the acknowledgement that ends    *)
(* the call, which nothing interrupts.                                      *)
Ends(x, r, row) ==
    /\ x.req = r
    /\ \/ /\ row.status # "responded"
          /\ \/ x.pc \in {"expire", "reread", "refetch"}
             \/ x.pc = "hang_up" /\ (x.next = "expire" \/ row.callId \in x.targets)
       \/ x.pc = "acknowledge"
       \/ x.pc = "hang_up" /\ x.frame = "acknowledged" /\ row.callId \in x.targets

Calm == faults = 0 /\ crashes = 0 /\ \A a \in Asks : ~(ask[a].role = "joiner" /\ ask[a].cancelled)

HasLiveCall(r) == rows[r].callId # None /\ Live(rows[r].callId)

Ended(r) == rows[r].callId \in sweep \/ \E p \in Processes : Ends(proc[p], r, rows[r])

CallsWatched == Calm => \A r \in Requests : IsTerminal(r) /\ HasLiveCall(r) => Ended(r)

(* The steps that such a behaviour is made of. *)
CalmStep ==
    \/ \E a \in Asks : Client(a) \/ AskStep(a)
    \/ \E h \in Handlers : HandlerStep(h) \/ \E e \in sent : Deliver(h, e)
    \/ \E c \in CallIds : Person(c)
    \/ Maintenance \/ PurgePass \/ ClockTick \/ UNCHANGED vars

LEMMA HangUpTargets ==
    ASSUME NEW x \in ProcStates, NEW C, C # {}, NEW next, NEW result
    PROVE  /\ HangUpThen(x, C, next, result).pc = "hang_up"
           /\ HangUpThen(x, C, next, result).req = x.req
           /\ HangUpThen(x, C, next, result).targets = C
           /\ HangUpThen(x, C, next, result).next = next
           /\ HangUpThen(x, C, next, result).frame = x.frame
<1> DEFINE y == [x EXCEPT !.targets = C, !.next = next, !.result = result]
<1>1. HangUpThen(x, C, next, result) = [y EXCEPT !.pc = "hang_up"]
  BY DEF HangUpThen, Goto
<1> QED
  BY <1>1 DEF ProcStates

(* Whatever _expire and _fail were called for, they hang up what they found. *)
LEMMA ExpireHangsUp ==
    ASSUME NEW p \in Processes, proc[p] \in ProcStates, NEW C, NEW s, NEW raised \in BOOLEAN,
           NEW row, row.callId \in C, row.status # "responded"
    PROVE  Ends(AfterExpire(p, C, s, raised), proc[p].req, row)
<1>1. ASSUME NEW D, C \subseteq D, NEW next, NEW result
      PROVE  Ends(HangUpThen(proc[p], D, next, result), proc[p].req, row)
  BY <1>1, HangUpTargets DEF Ends
<1>2. \E D, next, result : C \subseteq D /\ AfterExpire(p, C, s, raised) = HangUpThen(proc[p], D, next, result)
  <2>1. CASE proc[p].frame \in {"inner", "outer"}
    <3>1. AfterExpire(p, C, s, raised) = HangUpThen(proc[p], C, "done", IF raised THEN "error" ELSE s.outcome)
      BY <2>1 DEF AfterExpire
    <3> QED
      BY <3>1
  <2>2. CASE proc[p].frame = "timeout"
    <3>1. AfterExpire(p, C, s, raised) = HangUpThen(proc[p], C, "done", IF raised THEN "error" ELSE "ok")
      BY <2>2 DEF AfterExpire
    <3> QED
      BY <3>1
  <2>3. CASE proc[p].frame \notin {"inner", "outer", "timeout"} /\ raised
    <3>1. AfterExpire(p, C, s, raised) = HangUpThen(proc[p], C, "fail", None)
      BY <2>3 DEF AfterExpire
    <3> QED
      BY <3>1
  <2>4. CASE proc[p].frame \notin {"inner", "outer", "timeout"} /\ ~raised
    <3> DEFINE D == C \cup {event[p].call}
    <3>1. \/ AfterExpire(p, C, s, raised) = HangUpThen(proc[p], D, "done", "ok")
          \/ AfterExpire(p, C, s, raised) = HangUpThen(proc[p], C, "done", "ok")
      BY <2>4 DEF AfterExpire
    <3>2. C \subseteq D
      OBVIOUS
    <3> HIDE DEF D
    <3> QED
      BY <3>1, <3>2
  <2> QED
    BY <2>1, <2>2, <2>3, <2>4
<1> QED
  BY <1>1, <1>2

LEMMA FailHangsUp ==
    ASSUME NEW p \in Processes, proc[p] \in ProcStates, NEW C, NEW raised \in BOOLEAN,
           NEW row, row.callId \in C, row.status # "responded"
    PROVE  Ends(AfterFail(p, C, raised), proc[p].req, row)
<1>1. ASSUME NEW D, C \subseteq D, NEW next, NEW result
      PROVE  Ends(HangUpThen(proc[p], D, next, result), proc[p].req, row)
  BY <1>1, HangUpTargets DEF Ends
<1>2. \E D, next, result : C \subseteq D /\ AfterFail(p, C, raised) = HangUpThen(proc[p], D, next, result)
  <2>1. CASE proc[p].frame = "start"
    <3>1. AfterFail(p, C, raised) = IF raised THEN HangUpThen(proc[p], C, "done", "error")
                                    ELSE HangUpThen(proc[p], C, "poll", None)
      BY <2>1 DEF AfterFail
    <3> QED
      BY <3>1
  <2>2. CASE proc[p].frame = "unattached"
    <3> DEFINE D == C \cup KnownCalls(proc[p].req)
    <3>1. AfterFail(p, C, raised) = IF raised THEN HangUpThen(proc[p], C, "fail", None)
                                    ELSE HangUpThen(proc[p], D, "poll", None)
      BY <2>2 DEF AfterFail
    <3>2. C \subseteq D
      OBVIOUS
    <3> HIDE DEF D
    <3> QED
      BY <3>1, <3>2
  <2>3. CASE proc[p].frame = "creator"
    <3>1. AfterFail(p, C, raised) = HangUpThen(proc[p], C, "done", "error")
      BY <2>3 DEF AfterFail
    <3> QED
      BY <3>1
  <2>4. CASE proc[p].frame = "event" /\ raised
    <3>1. AfterFail(p, C, raised) = HangUpThen(proc[p], C, "fail", None)
      BY <2>4 DEF AfterFail
    <3> QED
      BY <3>1
  <2>5. CASE proc[p].frame \notin {"start", "unattached", "creator"} /\ ~(proc[p].frame = "event" /\ raised)
    <3>1. AfterFail(p, C, raised) = HangUpThen(proc[p], C, "done", IF raised THEN "error" ELSE "ok")
      BY <2>5 DEF AfterFail
    <3> QED
      BY <3>1
  <2> QED
    BY <2>1, <2>2, <2>3, <2>4, <2>5
<1> QED
  BY <1>1, <1>2

(* An interruption hangs up first, or goes straight to _expire. *)
LEMMA ExpiresNext ==
    ASSUME NEW x \in ProcStates, NEW C, NEW row, row.status # "responded"
    PROVE  Ends(HangUpThen(x, C, "expire", None), x.req, row)
<1>1. CASE C = {}
  <2> DEFINE y == [x EXCEPT !.targets = C, !.next = "expire", !.result = None]
  <2>1. HangUpThen(x, C, "expire", None) = Leave(y)
    BY <1>1 DEF HangUpThen
  <2>2. Leave(y) = [y EXCEPT !.pc = "expire", !.next = None, !.result = None]
    BY DEF Leave, ProcStates
  <2>3. Leave(y).pc = "expire" /\ Leave(y).req = x.req
    BY <2>2 DEF ProcStates
  <2> HIDE DEF y
  <2> QED
    BY <2>1, <2>3 DEF Ends
<1>2. CASE C # {}
  BY <1>2, HangUpTargets DEF Ends
<1> QED
  BY <1>1, <1>2

LEMMA HungUpEnds ==
    ASSUME NEW x \in ProcStates, x.pc = "hang_up", NEW r, NEW row, Ends(x, r, row),
           NEW c, c # row.callId
    PROVE  Ends(HungUp(x, c), r, row)
<1>1. CASE x.targets = {c}
  <2> DEFINE y == [x EXCEPT !.targets = {}]
  <2>1. x.next = "expire" /\ row.status # "responded"
    BY <1>1 DEF Ends
  <2>2. HungUp(x, c) = Leave(y)
    BY <1>1 DEF HungUp
  <2>3. Leave(y) = [y EXCEPT !.pc = "expire", !.next = None, !.result = None]
    BY <2>1 DEF Leave, ProcStates
  <2>4. Leave(y).pc = "expire" /\ Leave(y).req = x.req
    BY <2>3 DEF ProcStates
  <2>5. x.req = r
    BY DEF Ends
  <2> HIDE DEF y
  <2> QED
    BY <2>1, <2>2, <2>4, <2>5 DEF Ends
<1>2. CASE x.targets # {c}
  <2>1. HungUp(x, c) = [x EXCEPT !.targets = x.targets \ {c}]
    BY <1>2 DEF HungUp
  <2> QED
    BY <2>1 DEF Ends, ProcStates
<1> QED
  BY <1>1, <1>2

(* A failure and a restart leave their mark for ever. *)
LEMMA FaultShows ==
    ASSUME ServiceInv, Fault
    PROVE  ~Calm'
<1>1. faults \in Nat
  BY ProcessesAssumption DEF ServiceInv, Typed
<1> QED
  BY <1>1 DEF Fault, Calm

LEMMA OnlyCalmSteps ==
    ASSUME ServiceInv, [Next]_vars, Calm'
    PROVE  CalmStep
<1>1. \A a \in Asks : ~AskFault(a)
  <2>1. \A a \in Asks : AskFault(a) => Fault
    BY DEF AskFault, AdmissionFault, WorkFault, DeadlineAbort, AdmissionLost, CreateCallFault,
           CleanupFault, ExpireFault, FailFault, HangUpFault
  <2> QED
    BY <2>1, FaultShows
<1>2. \A h \in Handlers : ~HandlerFaults(h)
  <2>1. \A h \in Handlers : HandlerFaults(h) => Fault
    BY DEF HandlerFaults, HandlerFault, PromptFault, CompleteLost,
           CleanupFault, ExpireFault, FailFault, HangUpFault
  <2> QED
    BY <2>1, FaultShows
<1>3. (\A c \in CallIds : ~SweepFault(c)) /\ ~ExpirePassLost
  BY FaultShows DEF SweepFault, ExpirePassLost
<1>4. ~Crash
  <2>1. crashes \in Nat
    BY ProcessesAssumption DEF ServiceInv, Typed
  <2> QED
    BY <2>1 DEF Crash, Calm
<1> QED
  BY <1>1, <1>2, <1>3, <1>4 DEF Next, CalmStep

(* A joiner stays a joiner, and a cancelled invocation cancelled. *)
LEMMA JoinersStay ==
    ASSUME ServiceInv, CalmStep, NEW a \in Asks, ask[a].role = "joiner", ask[a].cancelled
    PROVE  ask'[a].role = "joiner" /\ ask'[a].cancelled
<1>1. ask[a].role # None /\ proc[a].pc # "idle" /\ proc[a].pc # "insert"
  BY AskFacts, NoneIsNoName DEF AskWell, Roles
<1>2. ask \in [Asks -> AskStates]
  BY DEF ServiceInv, Typed
<1>3. CASE ask' = ask
  BY <1>3
<1>4. ASSUME NEW b \in Asks, NEW q, ask' = [ask EXCEPT ![b] = q],
             b = a => q.role = "joiner" /\ q.cancelled
      PROVE  ask'[a].role = "joiner" /\ ask'[a].cancelled
  BY <1>2, <1>4
<1>5. ASSUME NEW b \in Asks, Client(b) \/ AskStep(b)
      PROVE  ask'[a].role = "joiner" /\ ask'[a].cancelled
  <2>1. CASE \E k \in Keys, p \in Payloads : Ask(b, k, p)
    <3>1. PICK k \in Keys, p \in Payloads : Ask(b, k, p)
      BY <2>1
    <3>2. b # a
      BY <1>1, <3>1 DEF Ask
    <3> QED
      BY <1>2, <3>1, <3>2 DEF Ask
  <2>2. CASE Cancel(b)
    BY <1>2, <2>2 DEF Cancel, AskStates
  <2>3. CASE \E r \in Requests : AdmitCreated(b, r) \/ AdmitJoined(b, r)
    <3>1. PICK r \in Requests : AdmitCreated(b, r) \/ AdmitJoined(b, r)
      BY <2>3
    <3>2. CASE AdmitCreated(b, r)
      <4>1. b # a
        BY <1>1, <3>2 DEF AdmitCreated
      <4> QED
        BY <1>2, <3>2, <4>1 DEF AdmitCreated
    <3>3. CASE AdmitJoined(b, r)
      BY <1>2, <3>3 DEF AdmitJoined, AskStates
    <3> QED
      BY <3>1, <3>2, <3>3
  <2>4. CASE \E c \in CallIds : CreateCall(b, c)
    BY <1>2, <2>4 DEF CreateCall, AskStates
  <2>5. CASE CleanupStep(b)
    BY <1>3, <2>5 DEF CleanupStep, ExpireWrite, ExpireReread, FailWrite, FailRefetch, HangUp
  <2>6. CASE (\E r \in Requests : AdmitReplayed(b, r)) \/ (\E c \in CallIds : InterruptCreate(b, c))
    BY <1>3, <2>6 DEF AdmitReplayed, InterruptCreate
  <2>7. CASE \/ AdmitConflict(b) \/ AdmitRefused(b) \/ AdmissionAborted(b)
             \/ Verify(b) \/ Attach(b) \/ Confirm(b) \/ Poll(b) \/ Interrupt(b)
    BY <1>3, <2>7 DEF AdmitConflict, AdmitRefused, AdmissionAborted, Verify, Attach, Confirm, Poll, Interrupt
  <2> QED
    BY <1>5, <2>1, <2>2, <2>3, <2>4, <2>5, <2>6, <2>7 DEF Client, AskStep
<1>6. ASSUME NEW h \in Handlers, HandlerStep(h) \/ \E e \in sent : Deliver(h, e)
      PROVE  ask' = ask
  BY <1>6 DEF HandlerStep, Get, Bind, Reload, Claim, Recheck, Prompt, Complete, Acknowledge, HandlerTimeout,
              Respond, Deliver, CleanupStep, ExpireWrite, ExpireReread, FailWrite, FailRefetch, HangUp
<1>7. CASE (\E c \in CallIds : Person(c)) \/ Maintenance \/ PurgePass \/ ClockTick \/ UNCHANGED vars
  BY <1>3, <1>7 DEF Person, PickUp, NotReached, Hear, PutDown, Maintenance, ExpirePass, Sweep, PurgePass,
                    ClockTick, serviceVars, vars
<1> QED
  BY <1>3, <1>5, <1>6, <1>7 DEF CalmStep

LEMMA CalmBefore ==
    ASSUME ServiceInv, CalmStep, Calm'
    PROVE  Calm
<1>1. ASSUME NEW p \in Processes, CleanupStep(p)
      PROVE  UNCHANGED budgetVars
  BY <1>1 DEF CleanupStep, ExpireWrite, ExpireReread, FailWrite, FailRefetch, HangUp
<1>2. ASSUME NEW a \in Asks, Client(a) \/ AskStep(a)
      PROVE  UNCHANGED budgetVars
  <2>1. CASE Client(a)
    BY <2>1 DEF Client, Ask, Cancel
  <2>2. CASE \E r \in Requests : AdmitCreated(a, r) \/ AdmitJoined(a, r) \/ AdmitReplayed(a, r)
    BY <2>2 DEF AdmitCreated, AdmitJoined, AdmitReplayed
  <2>3. CASE \E c \in CallIds : CreateCall(a, c) \/ InterruptCreate(a, c)
    BY <2>3 DEF CreateCall, InterruptCreate
  <2>4. CASE \/ AdmitConflict(a) \/ AdmitRefused(a) \/ AdmissionAborted(a)
             \/ Verify(a) \/ Attach(a) \/ Confirm(a) \/ Poll(a) \/ Interrupt(a)
    BY <2>4 DEF AdmitConflict, AdmitRefused, AdmissionAborted, Verify, Attach, Confirm, Poll, Interrupt
  <2>5. CASE CleanupStep(a)
    BY <1>1, <2>5 DEF Processes
  <2> QED
    BY <1>2, <2>1, <2>2, <2>3, <2>4, <2>5 DEF AskStep
<1>3. ASSUME NEW h \in Handlers, HandlerStep(h) \/ \E e \in sent : Deliver(h, e)
      PROVE  UNCHANGED budgetVars
  <2>1. CASE CleanupStep(h)
    BY <1>1, <2>1 DEF Processes
  <2>2. CASE \E e \in sent : Deliver(h, e)
    BY <2>2 DEF Deliver
  <2>3. CASE \/ Get(h) \/ Bind(h) \/ Reload(h) \/ Claim(h) \/ Recheck(h) \/ Prompt(h)
             \/ Complete(h) \/ Acknowledge(h) \/ HandlerTimeout(h) \/ Respond(h)
    BY <2>3 DEF Get, Bind, Reload, Claim, Recheck, Prompt, Complete, Acknowledge, HandlerTimeout, Respond
  <2> QED
    BY <1>3, <2>1, <2>2, <2>3 DEF HandlerStep
<1>4. ASSUME NEW c \in CallIds, Person(c) \/ Sweep(c)
      PROVE  UNCHANGED budgetVars
  BY <1>4 DEF Person, PickUp, NotReached, Hear, PutDown, Sweep
<1>5. ASSUME ExpirePass \/ PurgePass \/ ClockTick \/ UNCHANGED vars
      PROVE  UNCHANGED budgetVars
  BY <1>5 DEF ExpirePass, PurgePass, ClockTick, vars
<1>6. UNCHANGED budgetVars
  BY <1>2, <1>3, <1>4, <1>5 DEF CalmStep, Maintenance
<1>7. faults' = faults /\ crashes' = crashes
  BY <1>6 DEF budgetVars
<1> QED
  BY <1>7, JoinersStay DEF Calm

(* No call that was placed comes to life again. *)
LEMMA LiveBefore ==
    ASSUME ServiceInv, CalmStep, NEW c \in CallIds, calls[c].req # None, Live(c)'
    PROVE  Live(c)
<1>1. calls \in [CallIds -> CallStates] /\ calls[c].state # "unused"
  BY DEF ServiceInv, Typed, CallsWell, CallWell
<1>2. ASSUME NEW d \in CallIds, NEW call, calls' = [calls EXCEPT ![d] = call],
             d = c => Live(c) \/ call.state \notin {"dialing", "connected"}
      PROVE  Live(c)
  BY <1>1, <1>2 DEF Live
<1>3. CASE UNCHANGED calls
  BY <1>3 DEF Live
<1>4. ASSUME NEW d \in CallIds, EndCall(d)
      PROVE  Live(c)
  <2>1. CASE Live(d)
    BY <1>1, <1>4, <2>1 DEF EndCall, Live, CallStates
  <2> QED
    BY <1>3, <1>4, <2>1 DEF EndCall, acsVars
<1>5. ASSUME NEW p \in Processes, CleanupStep(p)
      PROVE  Live(c)
  BY <1>3, <1>4, <1>5
  DEF CleanupStep, ExpireWrite, ExpireReread, FailWrite, FailRefetch, HangUp, acsVars
<1>6. ASSUME NEW a \in Asks, Client(a) \/ AskStep(a)
      PROVE  Live(c)
  <2>1. CASE \E d \in CallIds : CreateCall(a, d) \/ InterruptCreate(a, d)
    <3>1. PICK d \in CallIds : Unused(d) /\ Placed(proc[a].req, d)
      BY <2>1 DEF CreateCall, InterruptCreate
    <3> QED
      BY <1>1, <3>1 DEF Unused, Placed, Live
  <2>2. CASE CleanupStep(a)
    BY <1>5, <2>2 DEF Processes
  <2>3. CASE UNCHANGED calls
    BY <1>3, <2>3
  <2> QED
    BY <1>6, <2>1, <2>2, <2>3
    DEF Client, Ask, Cancel, AskStep, AdmitCreated, AdmitJoined, AdmitReplayed, AdmitConflict,
        AdmitRefused, AdmissionAborted, Verify, Attach, Confirm, Poll, Interrupt, acsVars
<1>7. ASSUME NEW h \in Handlers, HandlerStep(h) \/ \E e \in sent : Deliver(h, e)
      PROVE  Live(c)
  <2>1. CASE Prompt(h)
    <3> DEFINE d == proc[h].stored.callId
    <3>1. CASE calls[d].state = "connected"
      BY <1>1, <2>1, <3>1 DEF Prompt, Prompted, Live, CallStates
    <3> QED
      BY <1>3, <2>1, <3>1 DEF Prompt
  <2>2. CASE Acknowledge(h)
    BY <1>1, <2>2 DEF Acknowledge, Live, CallStates
  <2>3. CASE CleanupStep(h)
    BY <1>5, <2>3 DEF Processes
  <2>4. CASE UNCHANGED calls
    BY <1>3, <2>4
  <2> QED
    BY <1>7, <2>1, <2>2, <2>3, <2>4
    DEF HandlerStep, Get, Bind, Reload, Claim, Recheck, Complete, HandlerTimeout, Respond, Deliver, acsVars
<1>8. ASSUME NEW d \in CallIds, Person(d)
      PROVE  Live(c)
  <2>1. CASE PutDown(d)
    BY <1>4, <2>1 DEF PutDown
  <2>2. CASE PickUp(d)
    BY <1>1, <2>2 DEF PickUp, Live, CallStates
  <2>3. CASE \E type \in {"unavailable", "dependency_failed"} : NotReached(d, type)
    BY <1>1, <2>3 DEF NotReached, Live, CallStates
  <2>4. CASE \E type \in EventTypes : Hear(d, type)
    BY <1>1, <2>4 DEF Hear, Live, CallStates
  <2> QED
    BY <1>8, <2>1, <2>2, <2>3, <2>4 DEF Person
<1>9. CASE Maintenance \/ PurgePass \/ ClockTick \/ UNCHANGED vars
  BY <1>3, <1>4, <1>9 DEF Maintenance, ExpirePass, Sweep, PurgePass, ClockTick, acsVars, vars
<1> QED
  BY <1>6, <1>7, <1>8, <1>9 DEF CalmStep

(* Hanging up for everyone ends the call. *)
LEMMA EndCallEnds ==
    ASSUME ServiceInv, NEW c \in CallIds, EndCall(c)
    PROVE  ~Live(c)'
<1>1. calls \in [CallIds -> CallStates]
  BY DEF ServiceInv, Typed
<1> QED
  BY <1>1 DEF EndCall, Live, CallStates, acsVars
-----------------------------------------------------------------------------
(*         The steps of the coroutine that is to hang up the call           *)

LEMMA CleanupWatches ==
    ASSUME ServiceInv, NEW p \in Processes, CleanupStep(p), NEW r \in Requests, IsTerminal(r),
           rows'[r] = rows[r], rows[r].callId \in CallIds, Live(rows[r].callId)',
           Ends(proc[p], r, rows[r])
    PROVE  Ends(proc'[p], r, rows[r])
<1>1. proc[p] \in ProcStates /\ proc[p].req = r /\ proc \in [Processes -> ProcStates]
  BY DEF ServiceInv, Typed, Ends
<1>2. ASSUME NEW y, Resume(p, y)
      PROVE  proc'[p] = y
  BY <1>1, <1>2 DEF Resume
<1>3. CASE ExpireWrite(p)
  <2>1. proc'[p] = Goto(proc[p], "reread") /\ rows[r].status # "responded"
    BY <1>2, <1>3 DEF ExpireWrite, Ends
  <2> QED
    BY <1>1, <2>1 DEF Goto, Ends, ProcStates
<1>4. CASE ExpireReread(p)
  <2> DEFINE s == Loaded(r)
             C == CallsToEnd(r, s)
  <2>1. s.status = rows[r].status /\ s.callId = rows[r].callId /\ ~Missing(s)
    BY RowOf DEF Missing, IsTerminal, TerminalStatuses
  <2>2. proc[p].pc = "reread" /\ rows[r].status # "responded"
    BY <1>4 DEF ExpireReread, Ends
  <2>3. rows[r].callId \in C
    BY <2>1, NoneIsNobody DEF CallsToEnd
  <2>4. Resume(p, AfterExpire(p, C, s, s.status = "failed"))
    BY <1>1, <1>4, <2>1, <2>2 DEF ExpireReread
  <2> HIDE DEF C, s
  <2>5. Ends(AfterExpire(p, C, s, s.status = "failed"), proc[p].req, rows[r])
    BY <1>1, <2>2, <2>3, ExpireHangsUp
  <2> QED
    BY <1>1, <1>2, <2>4, <2>5
<1>5. CASE FailWrite(p)
  BY <1>5 DEF FailWrite, Ends
<1>6. CASE FailRefetch(p)
  <2> DEFINE s == Loaded(r)
             C == CallsToEnd(r, s)
  <2>1. s.status = rows[r].status /\ s.callId = rows[r].callId /\ ~Missing(s)
    BY RowOf DEF Missing, IsTerminal, TerminalStatuses
  <2>2. proc[p].pc = "refetch" /\ rows[r].status # "responded"
    BY <1>6 DEF FailRefetch, Ends
  <2>3. rows[r].callId \in C
    BY <2>1, NoneIsNobody DEF CallsToEnd
  <2>4. Resume(p, AfterFail(p, C, FALSE))
    BY <1>1, <1>6, <2>1 DEF FailRefetch
  <2> HIDE DEF C, s
  <2>5. Ends(AfterFail(p, C, FALSE), proc[p].req, rows[r])
    BY <1>1, <2>2, <2>3, FailHangsUp
  <2> QED
    BY <1>1, <1>2, <2>4, <2>5
<1>7. ASSUME NEW c \in CallIds, HangUp(p, c)
      PROVE  Ends(proc'[p], r, rows[r])
  <2>1. c # rows[r].callId
    BY <1>7, EndCallEnds DEF HangUp
  <2>2. proc[p].pc = "hang_up" /\ Resume(p, HungUp(proc[p], c))
    BY <1>7 DEF HangUp
  <2>3. Ends(HungUp(proc[p], c), r, rows[r])
    BY <1>1, <2>1, <2>2, HungUpEnds
  <2> QED
    BY <1>2, <2>2, <2>3
<1> QED
  BY <1>3, <1>4, <1>5, <1>6, <1>7 DEF CleanupStep

(* The work of an invocation is interrupted only before its answer. *)
LEMMA InterruptWatches ==
    ASSUME ServiceInv, NEW a \in Asks, Interrupt(a), ~(ask[a].role = "joiner" /\ ask[a].cancelled),
           NEW r, NEW row, Ends(proc[a], r, row)
    PROVE  Ends(proc'[a], r, row)
<1> DEFINE o == IF ask[a].cancelled THEN "cancelled" ELSE "deadline_exceeded"
           x == [proc[a] EXCEPT !.frame = "outer", !.next = None, !.targets = {}, !.outcome = o]
           C == IF proc[a].pc \in {"expire", "reread"} THEN CallsToEnd(x.req, x.stored) ELSE {}
<1>1. proc[a] \in ProcStates /\ proc \in [Processes -> ProcStates] /\ a \in Processes
  BY AskFacts DEF ServiceInv, Typed
<1>2. x \in ProcStates /\ x.req = r
  <2>1. "outer" \in Frames \cup {None} /\ o \in Outcomes \cup {None}
    BY Names DEF ExpiryOutcomes
  <2> HIDE DEF o
  <2> QED
    BY <1>1, <2>1 DEF ProcStates, Ends
<1>3. row.status # "responded"
  BY DEF Ends, Interrupt, InWork, CleanupPcs
<1>4. Resume(a, HangUpThen(x, C, "expire", None))
  BY DEF Interrupt, Interrupted
<1> HIDE DEF x, C
<1>5. Ends(HangUpThen(x, C, "expire", None), r, row)
  BY <1>2, <1>3, ExpiresNext
<1> QED
  BY <1>1, <1>4, <1>5 DEF Resume

LEMMA TimeoutWatches ==
    ASSUME ServiceInv, NEW h \in Handlers, HandlerTimeout(h), NEW r, NEW row, Ends(proc[h], r, row)
    PROVE  Ends(proc'[h], r, row)
<1> DEFINE y == [StartExpire(proc[h], "deadline_exceeded", "timeout")
                    EXCEPT !.next = None, !.targets = {}, !.result = None]
<1>1. proc[h] \in ProcStates /\ proc \in [Processes -> ProcStates] /\ h \in Processes
  BY HandlerFacts DEF ServiceInv, Typed
<1>2. row.status # "responded" /\ proc[h].req = r
  BY DEF Ends, HandlerTimeout, InBlock, CleanupPcs
<1>3. y.pc = "expire" /\ y.req = proc[h].req
  BY <1>1 DEF StartExpire, ProcStates
<1>4. Resume(h, y)
  BY DEF HandlerTimeout
<1> HIDE DEF y
<1> QED
  BY <1>1, <1>2, <1>3, <1>4 DEF Resume, Ends

(* The call of the event that answered is the one attached. *)
LEMMA AcknowledgeWatches ==
    ASSUME ServiceInv, NEW h \in Handlers, Acknowledge(h), NEW r \in Requests, Ends(proc[h], r, rows[r]),
           rows[r].callId \in CallIds
    PROVE  Ends(proc'[h], r, rows[r])
<1> DEFINE x == [proc[h] EXCEPT !.frame = "acknowledged"]
           C == {event[h].call}
<1>1. proc[h] \in ProcStates /\ proc \in [Processes -> ProcStates] /\ h \in Processes
  BY HandlerFacts DEF ServiceInv, Typed
<1>2. proc[h].req = r /\ proc[h].pc # "idle"
  BY DEF Ends, Acknowledge
<1>3. event[h].call \in CallIds /\ calls[event[h].call].req = r
  BY <1>2, HandlerFacts DEF HandlerBase
<1>4. event[h].call = rows[r].callId
  <2>1. calls[rows[r].callId].req = r /\ r # None
    BY NoneAssumption DEF ServiceInv, AttachedWell
  <2> QED
    BY <1>3, <2>1 DEF ServiceInv, OneCallPerRequest
<1>5. x \in ProcStates /\ x.req = r /\ x.frame = "acknowledged"
  <2>1. "acknowledged" \in Frames
    BY DEF Frames
  <2> QED
    BY <1>1, <1>2, <2>1 DEF ProcStates
<1>6. Resume(h, HangUpThen(x, C, "done", "ok"))
  BY DEF Acknowledge
<1>7. rows[r].callId \in C
  BY <1>4
<1> HIDE DEF x, C
<1>8. Ends(HangUpThen(x, C, "done", "ok"), r, rows[r])
  BY <1>5, <1>7, HangUpTargets DEF Ends
<1> QED
  BY <1>1, <1>6, <1>8 DEF Resume

(* A coroutine that is to hang up the call still is after its next step. *)
LEMMA EndsStays ==
    ASSUME ServiceInv, CalmStep, Calm, NEW p \in Processes, NEW r \in Requests, IsTerminal(r),
           rows'[r] = rows[r], rows[r].callId \in CallIds, Live(rows[r].callId)',
           Ends(proc[p], r, rows[r])
    PROVE  Ends(proc'[p], r, rows[r])
<1>1. proc \in [Processes -> ProcStates]
      /\ proc[p].pc \in {"expire", "reread", "refetch", "hang_up", "acknowledge"}
  BY DEF ServiceInv, Typed, Ends
<1>2. CASE proc'[p] = proc[p]
  BY <1>2
<1>3. ASSUME NEW q \in Processes, q # p, NEW y, Resume(q, y)
      PROVE  proc'[p] = proc[p]
  BY <1>1, <1>3 DEF Resume
<1>4. ASSUME NEW q \in Processes, CleanupStep(q)
      PROVE  Ends(proc'[p], r, rows[r])
  <2>1. \E y : Resume(q, y)
    BY <1>4 DEF CleanupStep, ExpireWrite, ExpireReread, ExpireRaises, FailWrite, FailRefetch, FailRaises, HangUp
  <2>2. CASE q = p
    BY <1>4, <2>2, CleanupWatches
  <2> QED
    BY <1>2, <1>3, <2>1, <2>2
<1>5. ASSUME NEW a \in Asks, Client(a) \/ AskStep(a)
      PROVE  Ends(proc'[p], r, rows[r])
  <2>1. a \in Processes
    BY DEF Processes
  <2>2. CASE CleanupStep(a)
    BY <1>4, <2>1, <2>2
  <2>3. CASE Interrupt(a)
    <3>1. CASE a = p
      BY <2>3, <3>1, InterruptWatches DEF Calm
    <3> QED
      BY <1>2, <1>3, <2>1, <2>3, <3>1 DEF Interrupt
  <2>4. CASE Cancel(a)
    BY <1>2, <2>4 DEF Cancel
  <2>5. CASE ~CleanupStep(a) /\ ~Interrupt(a) /\ ~Cancel(a)
    <3>1. /\ proc[a].pc \in {"idle", "insert", "lookup", "verify", "create_call", "attach", "confirm",
                             "unattached", "poll"}
          /\ \E y : Resume(a, y)
      <4>1. CASE \E k \in Keys, q \in Payloads : Ask(a, k, q)
        BY <4>1 DEF Ask
      <4>2. CASE \E q \in Requests : AdmitCreated(a, q) \/ AdmitJoined(a, q) \/ AdmitReplayed(a, q)
        BY <4>2 DEF AdmitCreated, AdmitJoined, AdmitReplayed
      <4>3. CASE AdmitConflict(a) \/ AdmitRefused(a) \/ AdmissionAborted(a)
        BY <4>3 DEF AdmitConflict, AdmitRefused, AdmissionAborted
      <4>4. CASE \E c \in CallIds : CreateCall(a, c) \/ InterruptCreate(a, c)
        BY <4>4 DEF CreateCall, InterruptCreate
      <4>5. CASE Verify(a) \/ Attach(a) \/ Confirm(a)
        BY <4>5 DEF Verify, Attach, Confirm
      <4>6. CASE Poll(a)
        BY <4>6 DEF Poll
      <4> QED
        BY <1>5, <2>5, <4>1, <4>2, <4>3, <4>4, <4>5, <4>6 DEF Client, AskStep
    <3>2. a # p
      BY <1>1, <3>1
    <3> QED
      BY <1>2, <1>3, <2>1, <3>1, <3>2
  <2> QED
    BY <2>2, <2>3, <2>4, <2>5
<1>6. ASSUME NEW h \in Handlers, HandlerStep(h) \/ \E e \in sent : Deliver(h, e)
      PROVE  Ends(proc'[p], r, rows[r])
  <2>1. h \in Processes
    BY DEF Processes
  <2>2. CASE CleanupStep(h)
    BY <1>4, <2>1, <2>2
  <2>3. CASE HandlerTimeout(h)
    <3>1. CASE h = p
      BY <2>3, <3>1, TimeoutWatches
    <3> QED
      BY <1>2, <1>3, <2>1, <2>3, <3>1 DEF HandlerTimeout
  <2>4. CASE Acknowledge(h)
    <3>1. CASE h = p
      BY <2>4, <3>1, AcknowledgeWatches
    <3> QED
      BY <1>2, <1>3, <2>1, <2>4, <3>1 DEF Acknowledge
  <2>5. CASE ~CleanupStep(h) /\ ~HandlerTimeout(h) /\ ~Acknowledge(h)
    <3>1. /\ proc[h].pc \in {"idle", "done", "get", "bind", "reload", "claim", "recheck", "prompt", "complete"}
          /\ \E y : Resume(h, y)
      BY <1>6, <2>5
      DEF HandlerStep, Get, Bind, Reload, Claim, Recheck, Prompt, Complete, Respond, Deliver
    <3>2. h # p
      BY <1>1, <3>1
    <3> QED
      BY <1>2, <1>3, <2>1, <3>1, <3>2
  <2> QED
    BY <2>2, <2>3, <2>4, <2>5
<1>7. CASE (\E c \in CallIds : Person(c)) \/ Maintenance \/ PurgePass \/ ClockTick \/ UNCHANGED vars
  BY <1>2, <1>7 DEF Person, PickUp, NotReached, Hear, PutDown, Maintenance, ExpirePass, Sweep, PurgePass,
                    ClockTick, serviceVars, vars
<1> QED
  BY <1>5, <1>6, <1>7 DEF CalmStep

(* Maintenance keeps its list until it has hung up each of its calls. *)
LEMMA SweepStays ==
    ASSUME ServiceInv, CalmStep, NEW c \in sweep, Live(c)'
    PROVE  c \in sweep'
<1>1. c \in CallIds
  BY DEF ServiceInv, Typed
<1>2. CASE UNCHANGED sweep
  BY <1>2
<1>3. CASE ExpirePass
  BY <1>3 DEF ExpirePass
<1>4. ASSUME NEW d \in CallIds, Sweep(d)
      PROVE  c \in sweep'
  BY <1>1, <1>4, EndCallEnds DEF Sweep
<1>5. ASSUME NEW a \in Asks, Client(a) \/ AskStep(a)
      PROVE  c \in sweep'
  <2>1. CASE CleanupStep(a)
    BY <1>2, <2>1 DEF CleanupStep, ExpireWrite, ExpireReread, FailWrite, FailRefetch, HangUp
  <2>2. CASE \E d \in CallIds : CreateCall(a, d) \/ InterruptCreate(a, d)
    BY <1>2, <2>2 DEF CreateCall, InterruptCreate
  <2> QED
    BY <1>2, <1>5, <2>1, <2>2
    DEF Client, Ask, Cancel, AskStep, AdmitCreated, AdmitJoined, AdmitReplayed, AdmitConflict,
        AdmitRefused, AdmissionAborted, Verify, Attach, Confirm, Poll, Interrupt
<1>6. CASE \E h \in Handlers : HandlerStep(h) \/ \E e \in sent : Deliver(h, e)
  BY <1>2, <1>6 DEF HandlerStep, Get, Bind, Reload, Claim, Recheck, Prompt, Complete, Acknowledge, HandlerTimeout,
              Respond, Deliver, CleanupStep, ExpireWrite, ExpireReread, FailWrite, FailRefetch, HangUp
<1>7. CASE (\E d \in CallIds : Person(d)) \/ PurgePass \/ ClockTick \/ UNCHANGED vars
  BY <1>2, <1>7 DEF Person, PickUp, NotReached, Hear, PutDown, PurgePass, ClockTick, serviceVars, vars
<1> QED
  BY <1>3, <1>4, <1>5, <1>6, <1>7 DEF CalmStep, Maintenance

(* Whoever settles a request sees to its call: _expire and _fail go on to   *)
(* reread it, the handler of a result hangs up or acknowledges first, and   *)
(* maintenance lists the calls of the rows that it expires.                 *)
LEMMA SettlerEnds ==
    ASSUME ServiceInv, NEW p \in Processes, ExpireWrite(p) \/ FailWrite(p),
           NEW r \in Requests, IsPending(r), rows'[r].status # "pending"
    PROVE  Ends(proc'[p], r, rows'[r])
<1>1. /\ proc \in [Processes -> ProcStates] /\ rows \in [Requests -> Row] /\ rows[r] \in Row
      /\ proc[p] \in ProcStates
  BY RowFacts DEF ServiceInv, Typed
<1>2. proc[p].pc \in CleanupPcs /\ rows[r].status = "pending"
  BY DEF ExpireWrite, FailWrite, CleanupPcs, IsPending
<1>3. CASE ExpireWrite(p)
  <2>1. proc[p].outcome \in ExpiryOutcomes
    <3>1. CASE p \in Asks
      BY <1>2, <1>3, <3>1, CleanupFacts, AskFacts, Names DEF ExpireWrite, AskWell, MayExpire
    <3>2. CASE p \in Handlers
      BY <1>3, <3>2, HandlerFacts DEF ExpireWrite, HandlerWell
    <3> QED
      BY <3>1, <3>2 DEF Processes
  <2>2. CompleteIfPending(proc[p].req, proc[p].outcome, None) /\ proc'[p] = Goto(proc[p], "reread")
    BY <1>1, <1>3 DEF ExpireWrite, Resume
  <2>3. StatusOf(proc[p].outcome) = "expired"
    BY <2>1 DEF StatusOf, ExpiryOutcomes, HumanOutcomes
  <2>4. r = proc[p].req /\ rows'[r].status = "expired"
    BY <1>1, <1>2, <2>2, <2>3 DEF CompleteIfPending, Settled, Row
  <2> QED
    BY <1>1, <2>2, <2>4 DEF Goto, Ends, ProcStates
<1>4. CASE FailWrite(p)
  <2>1. r = proc[p].req /\ rows'[r].status = "failed"
    BY <1>1, <1>2, <1>4 DEF FailWrite, CompleteErrorIfPending, Settled, Row
  <2>2. proc'[p] = Goto(proc[p], "refetch")
    BY <1>1, <1>4, <2>1 DEF FailWrite, Resume
  <2> QED
    BY <1>1, <2>1, <2>2 DEF Goto, Ends, ProcStates
<1> QED
  BY <1>3, <1>4

LEMMA CompleterEnds ==
    ASSUME ServiceInv, NEW h \in Handlers, Complete(h),
           NEW r \in Requests, IsPending(r), rows'[r].status # "pending"
    PROVE  Ends(proc'[h], r, rows'[r])
<1> DEFINE x == proc[h]
           o == event[h].type
           C == {event[h].call}
<1>1. /\ proc \in [Processes -> ProcStates] /\ rows \in [Requests -> Row] /\ rows[r] \in Row
      /\ x \in ProcStates /\ h \in Processes
  BY RowFacts, HandlerFacts DEF ServiceInv, Typed
<1>2. /\ x.pc = "complete" /\ CompleteIfPending(x.req, o, x.stored.cutoff)
      /\ rows[r].status = "pending"
  BY DEF Complete, IsPending
<1>3. /\ r = x.req /\ Completable(x.req, o, x.stored.cutoff)
      /\ rows'[r].status = StatusOf(o) /\ rows'[r].callId = rows[r].callId
  BY <1>1, <1>2 DEF CompleteIfPending, Settled, Row
<1>4. rows[r].callId = event[h].call
  BY <1>2, <1>3, HandlerFacts DEF HandlerWell
<1>5. CASE StatusOf(o) = "responded"
  <2>1. proc'[h] = Goto(x, "acknowledge")
    BY <1>1, <1>3, <1>5 DEF Complete, Resume
  <2> QED
    BY <1>1, <1>3, <2>1 DEF Goto, Ends, ProcStates
<1>6. CASE StatusOf(o) # "responded"
  <2>1. Resume(h, HangUpThen(x, C, "done", "ok"))
    BY <1>3, <1>6 DEF Complete
  <2>2. rows'[r].callId \in C
    BY <1>3, <1>4
  <2> HIDE DEF C
  <2>3. Ends(HangUpThen(x, C, "done", "ok"), r, rows'[r])
    BY <1>1, <1>3, <1>6, <2>2, HangUpTargets DEF Ends
  <2>4. proc'[h] = HangUpThen(x, C, "done", "ok")
    BY <1>1, <2>1 DEF Resume
  <2> QED
    BY <2>3, <2>4
<1> QED
  BY <1>5, <1>6

LEMMA SettledEnds ==
    ASSUME ServiceInv, CalmStep, NEW r \in Requests, IsPending(r), IsTerminal(r)', rows'[r].callId # None
    PROVE  Ended(r)'
<1>1. /\ rows \in [Requests -> Row] /\ rows[r] \in Row
      /\ rows[r].status = "pending" /\ rows'[r].status # "pending" /\ rows'[r] # rows[r]
  BY RowFacts DEF ServiceInv, IsPending, IsTerminal, TerminalStatuses
<1>2. ~UNCHANGED storeVars /\ rows' # rows
  BY <1>1 DEF storeVars
<1>3. ASSUME NEW p \in Processes, CleanupStep(p)
      PROVE  Ended(r)'
  <2>1. ExpireWrite(p) \/ FailWrite(p)
    BY <1>2, <1>3 DEF CleanupStep, ExpireReread, FailRefetch, HangUp
  <2> QED
    BY <1>1, <2>1, SettlerEnds DEF Ended
<1>4. ASSUME NEW q \in Requests, NEW c, AttachCallId(q, c) \/ ClaimRecognition(q)
      PROVE  FALSE
  BY <1>1, <1>4 DEF AttachCallId, ClaimRecognition, Row
<1>5. ASSUME NEW a \in Asks, Client(a) \/ AskStep(a)
      PROVE  Ended(r)'
  <2>1. CASE \E q \in Requests : AdmitCreated(a, q)
    BY <1>1, <2>1 DEF AdmitCreated, Inserted, InsertPending
  <2>2. CASE Attach(a)
    <3>1. proc[a].req \in Requests
      BY <2>2, AskFacts, Names DEF Attach, WorkPcs, AskPcs
    <3> QED
      BY <1>4, <2>2, <3>1 DEF Attach
  <2>3. CASE CleanupStep(a)
    BY <1>3, <2>3 DEF Processes
  <2> QED
    BY <1>2, <1>5, <2>1, <2>2, <2>3
    DEF Client, Ask, Cancel, AskStep, AdmitJoined, AdmitReplayed, AdmitConflict,
        AdmitRefused, AdmissionAborted, Verify, CreateCall, InterruptCreate, Confirm, Poll, Interrupt
<1>6. ASSUME NEW h \in Handlers, HandlerStep(h) \/ \E e \in sent : Deliver(h, e)
      PROVE  Ended(r)'
  <2>1. CASE Bind(h) \/ Claim(h)
    <3>1. proc[h].req \in Requests
      BY <2>1, HandlerFacts DEF Bind, Claim
    <3> QED
      BY <1>4, <2>1, <3>1 DEF Bind, Claim
  <2>2. CASE Complete(h)
    <3>1. Ends(proc'[h], r, rows'[r])
      BY <1>1, <2>2, CompleterEnds
    <3> QED
      BY <3>1 DEF Ended, Processes
  <2>3. CASE CleanupStep(h)
    BY <1>3, <2>3 DEF Processes
  <2> QED
    BY <1>2, <1>6, <2>1, <2>2, <2>3
    DEF HandlerStep, Get, Reload, Recheck, Prompt, Acknowledge, HandlerTimeout, Respond, Deliver
<1>7. CASE ExpirePass
  <2>1. r \in Stale /\ rows'[r].callId = rows[r].callId
    BY <1>1, <1>7 DEF ExpirePass, ExpireStaleCalls, Settled, Row
  <2>2. rows'[r].callId \in sweep'
    BY <1>7, <2>1 DEF ExpirePass
  <2> QED
    BY <2>2 DEF Ended
<1>8. CASE PurgePass
  BY <1>1, <1>8 DEF PurgePass, PurgeTerminal, Purgeable, IsTerminal, TerminalStatuses
<1>9. CASE (\E c \in CallIds : Person(c) \/ Sweep(c)) \/ ClockTick \/ UNCHANGED vars
  BY <1>2, <1>9 DEF Person, PickUp, NotReached, Hear, PutDown, Sweep, ClockTick, Tick, vars
<1> QED
  BY <1>5, <1>6, <1>7, <1>8, <1>9 DEF CalmStep, Maintenance

LEMMA WatchInit ==
    Init => CallsWatched
<1> SUFFICES ASSUME Init, NEW r \in Requests PROVE ~IsTerminal(r)
  BY DEF CallsWatched
<1>1. rows[r].status = "absent"
  BY DEF Init, StoreInit, NoRow
<1> QED
  BY <1>1 DEF IsTerminal, TerminalStatuses

LEMMA WatchKept ==
    ServiceInv /\ CallsWatched /\ [Next]_vars => CallsWatched'
<1> SUFFICES ASSUME ServiceInv, CallsWatched, [Next]_vars, Calm',
                    NEW r \in Requests, IsTerminal(r)', HasLiveCall(r)'
             PROVE  Ended(r)'
  BY DEF CallsWatched
<1>1. CalmStep /\ Calm
  BY OnlyCalmSteps, CalmBefore
<1>2. ServiceInv' /\ [StoreNext]_storeVars
  BY NextKeeps, NextStatements
<1>3. RowMoves(r) /\ rows[r] \in Row
  BY <1>2, StoreMoves, RowFacts DEF ServiceInv, RowsMove
<1>4. rows'[r].status \in TerminalStatuses /\ rows'[r].callId # None /\ Live(rows[r].callId)'
  BY DEF IsTerminal, HasLiveCall
<1>5. CASE IsPending(r)
  BY <1>1, <1>4, <1>5, SettledEnds
<1>6. CASE IsTerminal(r)
  <2>1. rows'[r] = rows[r]
    BY <1>3, <1>4, <1>6 DEF RowMoves, IsTerminal, TerminalStatuses, NoRow
  <2>2. /\ rows[r].callId \in CallIds /\ Live(rows[r].callId)'
        /\ calls[rows[r].callId].req # None
    BY <1>3, <1>4, <2>1, NoneAssumption DEF Row, ServiceInv, AttachedWell
  <2>3. HasLiveCall(r)
    <3>1. PICK c \in CallIds : c = rows[r].callId
      BY <2>2
    <3>2. Live(c)'
      BY <1>4, <2>1, <3>1 DEF Live
    <3>3. Live(c)
      BY <1>1, <2>2, <3>1, <3>2, LiveBefore
    <3> QED
      BY <1>4, <2>1, <3>1, <3>3 DEF HasLiveCall
  <2>4. Ended(r)
    BY <1>1, <1>6, <2>3 DEF CallsWatched
  <2>5. CASE rows[r].callId \in sweep
    <3>1. PICK c \in sweep : c = rows[r].callId
      BY <2>5
    <3>2. Live(c)'
      BY <1>4, <2>1, <3>1 DEF Live
    <3> QED
      BY <1>1, <2>1, <3>1, <3>2, SweepStays DEF Ended
  <2>6. CASE \E p \in Processes : Ends(proc[p], r, rows[r])
    <3>1. PICK p \in Processes : Ends(proc[p], r, rows[r])
      BY <2>6
    <3>2. Ends(proc'[p], r, rows[r])
      BY <1>1, <1>6, <2>1, <2>2, <3>1, EndsStays
    <3> QED
      BY <2>1, <3>2 DEF Ended
  <2> QED
    BY <2>4, <2>5, <2>6 DEF Ended
<1> QED
  BY <1>3, <1>4, <1>5, <1>6 DEF RowMoves, IsPending, IsTerminal, TerminalStatuses, NoRow
-----------------------------------------------------------------------------
(*                                 The theorems                             *)

(* What every coroutine relies on holds at every dependency call that it    *)
(* awaits, whatever the other coroutines, ACS, the person, maintenance, the *)
(* failures and the restarts do meanwhile.                                  *)
THEOREM ServiceInvariant == Spec => []ServiceInv
  BY ServiceInit, NextKeeps, PTL DEF Spec

(* The coroutines, ACS and the table keep their types. *)
THEOREM ServiceTypeCorrect == Spec => []TypeOK
<1>1. ServiceInv => TypeOK
  BY DEF ServiceInv, Typed, TypeOK, StoreInv, GoodRows, StoreTypeOK
<1> QED
  BY <1>1, ServiceInvariant, PTL

(* Every statement that ask(), a handler or maintenance sends is one of the *)
(* repository's, within the times and the limits its theorems assume: so    *)
(* all that RequestStoreProofs proves of the table holds under the service. *)
THEOREM ServiceUsesStore == Spec => ImplementsStore
<1>1. Init => StoreInit
  BY DEF Init
<1>2. ServiceInv /\ [Next]_vars => [StoreNext]_storeVars
  BY NextStatements
<1> QED
  BY <1>1, <1>2, ServiceInvariant, PTL DEF Spec, ImplementsStore, StoreSpec

(* However many invocations share a key, and whatever is lost, interrupted  *)
(* or restarted, create_call succeeds at most once for a request.           *)
THEOREM OneCall == Spec => []OneCallPerRequest
<1>1. ServiceInv => OneCallPerRequest
  BY DEF ServiceInv
<1> QED
  BY <1>1, ServiceInvariant, PTL

(* However often CallConnected is delivered, to however many handlers, the  *)
(* person is prompted at most once on a call.                               *)
THEOREM AskedOnce == Spec => []PromptedOnce
<1>1. ServiceInv => PromptedOnce
  BY DEF ServiceInv
<1> QED
  BY <1>1, ServiceInvariant, PTL

(* An answer on record was reported by ACS for the call attached to the     *)
(* request, which was placed for it, and was recorded before the cutoff.    *)
THEOREM HumanAnswers == Spec => []AnswerIsHuman
<1>1. ServiceInv => AnswerIsHuman
  BY DEF ServiceInv
<1> QED
  BY <1>1, ServiceInvariant, PTL

(* Only the client whose invocation created a request, or a recognition     *)
(* that ACS cancelled on its call, has it recorded as cancelled.            *)
THEOREM RightlyCancelled == Spec => []CancelledByCreator
<1>1. ServiceInv => CancelledByCreator
  BY DEF ServiceInv
<1> QED
  BY <1>1, ServiceInvariant, PTL

(* No invocation that still runs has had its row purged under it. *)
THEOREM RowsKept == Spec => []RowKeptForItsAsks
<1>1. ServiceInv => RowKeptForItsAsks
  <2> SUFFICES ASSUME ServiceInv, NEW a \in Asks, Running(a), proc[a].req # None
               PROVE  rows[proc[a].req].status # "purged"
    BY DEF RowKeptForItsAsks
  <2>1. proc[a].pc \in WorkPcs
    BY AskFacts DEF AskWell, Running
  <2> QED
    BY <2>1, AskFacts
<1> QED
  BY <1>1, ServiceInvariant, PTL

(* An outcome that ask() returned is the one on record for its question, as *)
(* long as the row is kept.                                                 *)
THEOREM AnswersRecorded == Spec => []AnswerIsRecorded
<1>1. ServiceInv => AnswerIsRecorded
  <2> SUFFICES ASSUME ServiceInv, NEW a \in Asks, proc[a].result \in Outcomes, proc[a].pc = "done",
                      rows[proc[a].req].status # "purged"
               PROVE  /\ rows[proc[a].req].outcome = proc[a].result
                      /\ rows[proc[a].req].key = ask[a].key /\ rows[proc[a].req].payload = ask[a].payload
    BY DEF AnswerIsRecorded
  <2> QED
    BY AskFacts DEF AskWell, OnRecord
<1> QED
  BY <1>1, ServiceInvariant, PTL

(* When all is quiet, nobody is left to hang up, and so nothing was left    *)
(* to be hung up: no request that is over, and no part of whose handling    *)
(* failed, leaves the person on the line of its attached call.              *)
THEOREM CallsReleased == Spec => []AttachedCallReleased
<1>1. CallsWatched => AttachedCallReleased
  <2> SUFFICES ASSUME CallsWatched, Undisturbed, Calm, NEW r \in Requests, IsTerminal(r),
                      rows[r].callId # None, calls[rows[r].callId].state = "connected"
               PROVE  FALSE
    BY DEF AttachedCallReleased, Undisturbed, Calm, Released
  <2>1. Ended(r)
    BY DEF CallsWatched, HasLiveCall, Live
  <2> QED
    BY <2>1 DEF Ended, Ends, Undisturbed, Quiet
<1> QED
  BY <1>1, WatchInit, WatchKept, ServiceInvariant, PTL DEF Spec

(* Under the service the first terminal update of a request wins, and the   *)
(* table is the ledger of what was accepted, settled once and forgotten.    *)
THEOREM VerdictsStand == Spec => FirstTerminalWins /\ ImplementsLedger
  BY ServiceUsesStore, FirstTerminal, LedgerImplemented, PTL DEF ImplementsStore
-----------------------------------------------------------------------------
(*                        Every coroutine comes to an end                   *)

ExpireFrames == {"inner", "outer", "timeout", "late", "lost"}
FailFrames == {"start", "unattached", "creator", "event", "final"}

(* Where a clean-up may go on to once it has hung up, by who called it. *)
MayGoOn(frame, next) ==
    \/ next = "done"
    \/ next = "expire" /\ frame = "outer"
    \/ next = "poll" /\ frame \in {"start", "unattached"}
    \/ next = "fail" /\ frame \in {"late", "lost", "event", "unattached"}

FrameOK(x) ==
    /\ x.pc \in {"expire", "reread"} => x.frame \in ExpireFrames
    /\ x.pc \in {"fail", "refetch"} => x.frame \in FailFrames
    /\ x.pc = "hang_up" => MayGoOn(x.frame, x.next)

FramesOK == \A p \in Processes : FrameOK(proc[p])

(* What may still follow a clean-up: nothing, another clean-up, the wait    *)
(* for a terminal row, or both.                                             *)
Behind(frame) ==
    IF frame \in {"inner", "late", "lost", "event"} THEN 5
    ELSE IF frame = "start" THEN 10
    ELSE IF frame = "unattached" THEN 15 ELSE 0

Stage(pc) ==
    IF pc = "insert" THEN 26 ELSE IF pc = "lookup" THEN 25
    ELSE IF pc = "verify" THEN 24 ELSE IF pc = "create_call" THEN 23 ELSE IF pc = "attach" THEN 22
    ELSE IF pc \in {"confirm", "unattached"} THEN 21
    ELSE IF pc = "get" THEN 16 ELSE IF pc = "bind" THEN 15 ELSE IF pc = "reload" THEN 14
    ELSE IF pc = "claim" THEN 13 ELSE IF pc \in {"recheck", "complete"} THEN 12
    ELSE IF pc \in {"poll", "prompt", "acknowledge"} THEN 11
    ELSE IF pc = "done" THEN 1 ELSE 0

(* What is ahead of a clean-up that hangs up: the last one is of what the   *)
(* deadline cut.                                                            *)
Ending(frame, next) ==
    IF next = "expire" THEN 6 ELSE IF frame = "cut" THEN 2 ELSE Behind(frame) + 3

(* At most this many awaits are ahead of a coroutine, and one for each call *)
(* that it hangs up together with another.                                  *)
Ahead(x) ==
    IF x.pc \in {"expire", "fail"} THEN Behind(x.frame) + 5
    ELSE IF x.pc \in {"reread", "refetch"} THEN Behind(x.frame) + 4
    ELSE IF x.pc = "hang_up" THEN Ending(x.frame, x.next)
    ELSE Stage(x.pc)

Nearer(x, y) ==
    \/ Ahead(y) < Ahead(x)
    \/ Ahead(y) = Ahead(x) /\ y.targets \subseteq x.targets /\ y.targets # x.targets

LEMMA BehindRange ==
    ASSUME NEW frame
    PROVE  Behind(frame) \in {0, 5, 10, 15}
  BY DEF Behind

LEMMA AheadRange ==
    ASSUME NEW x
    PROVE  Ahead(x) \in 0..26
  BY BehindRange DEF Ahead, Ending, Stage

LEMMA FinishAhead ==
    ASSUME NEW x, NEW result
    PROVE  FrameOK(Finish(x, result)) /\ Ahead(Finish(x, result)) = 1
<1>1. Finish(x, result).pc = "done"
  BY DEF Finish, IdleProc
<1> QED
  BY <1>1 DEF FrameOK, Ahead, Stage

LEMMA GotoAhead ==
    ASSUME NEW x \in ProcStates, NEW pc, pc \notin CleanupPcs
    PROVE  FrameOK(Goto(x, pc)) /\ Ahead(Goto(x, pc)) = Stage(pc)
<1>1. Goto(x, pc).pc = pc
  BY DEF Goto, ProcStates
<1> QED
  BY <1>1 DEF FrameOK, Ahead, CleanupPcs

LEMMA ExpireAhead ==
    ASSUME NEW x \in ProcStates, NEW outcome, NEW frame \in ExpireFrames
    PROVE  FrameOK(StartExpire(x, outcome, frame)) /\ Ahead(StartExpire(x, outcome, frame)) = Behind(frame) + 5
<1>1. StartExpire(x, outcome, frame).pc = "expire" /\ StartExpire(x, outcome, frame).frame = frame
  BY DEF StartExpire, ProcStates
<1> QED
  BY <1>1 DEF FrameOK, Ahead

LEMMA FailAhead ==
    ASSUME NEW x \in ProcStates, NEW frame \in FailFrames
    PROVE  FrameOK(StartFail(x, frame)) /\ Ahead(StartFail(x, frame)) = Behind(frame) + 5
<1>1. StartFail(x, frame).pc = "fail" /\ StartFail(x, frame).frame = frame
  BY DEF StartFail, ProcStates
<1> QED
  BY <1>1 DEF FrameOK, Ahead

LEMMA LeaveAhead ==
    ASSUME NEW w \in ProcStates, NEW C, NEW next, NEW result, MayGoOn(w.frame, next)
    PROVE  LET x == [w EXCEPT !.targets = C, !.next = next, !.result = result]
           IN  FrameOK(Leave(x)) /\ Ahead(Leave(x)) < Ending(w.frame, next)
<1> DEFINE x == [w EXCEPT !.targets = C, !.next = next, !.result = result]
<1>0. x.frame = w.frame /\ x.next = next
  BY DEF ProcStates
<1>1. CASE next = "done"
  <2>1. Leave(x) = Finish(x, x.result)
    BY <1>0, <1>1 DEF Leave
  <2>2. Ending(w.frame, next) > 1
    BY <1>1, BehindRange DEF Ending
  <2> HIDE DEF x
  <2> QED
    BY <2>1, <2>2, FinishAhead DEF x
<1>2. CASE next = "fail" /\ w.frame \in {"late", "lost", "event", "unattached"}
  <2> DEFINE y == [x EXCEPT !.pc = "fail", !.next = None,
                            !.frame = IF @ = "unattached" THEN "start" ELSE "final"]
  <2>1. Leave(x) = y
    BY <1>0, <1>2 DEF Leave
  <2>2. y.pc = "fail" /\ y.frame = IF w.frame = "unattached" THEN "start" ELSE "final"
    BY <1>0 DEF ProcStates
  <2> HIDE DEF y
  <2> QED
    BY <1>2, <2>1, <2>2 DEF FrameOK, FailFrames, Ahead, Behind, Ending
<1>3. CASE \/ next = "poll" /\ w.frame \in {"start", "unattached"}
           \/ next = "expire" /\ w.frame = "outer"
  <2> DEFINE y == [x EXCEPT !.pc = x.next, !.next = None, !.result = None]
  <2>1. Leave(x) = y
    BY <1>0, <1>3 DEF Leave
  <2>2. y.pc = next /\ y.frame = w.frame
    BY <1>0 DEF ProcStates
  <2> HIDE DEF y
  <2> QED
    BY <1>3, <2>1, <2>2 DEF FrameOK, ExpireFrames, Ahead, Stage, Behind, Ending
<1> HIDE DEF x
<1> QED
  BY <1>1, <1>2, <1>3 DEF MayGoOn, x

LEMMA HangUpAhead ==
    ASSUME NEW x \in ProcStates, NEW C, NEW next, NEW result, MayGoOn(x.frame, next)
    PROVE  /\ FrameOK(HangUpThen(x, C, next, result))
           /\ Ahead(HangUpThen(x, C, next, result)) <= Ending(x.frame, next)
<1> DEFINE y == [x EXCEPT !.targets = C, !.next = next, !.result = result]
<1>1. Goto(y, "hang_up").pc = "hang_up" /\ Goto(y, "hang_up").frame = x.frame /\ Goto(y, "hang_up").next = next
  BY DEF Goto, ProcStates
<1>2. FrameOK(Leave(y)) /\ Ahead(Leave(y)) < Ending(x.frame, next)
  BY LeaveAhead
<1>3. HangUpThen(x, C, next, result) = IF C = {} THEN Leave(y) ELSE Goto(y, "hang_up")
  BY DEF HangUpThen
<1> HIDE DEF y
<1>4. FrameOK(Goto(y, "hang_up")) /\ Ahead(Goto(y, "hang_up")) = Ending(x.frame, next)
  BY <1>1 DEF FrameOK, Ahead, Ending
<1>5. Ending(x.frame, next) \in Nat /\ Ahead(Leave(y)) \in Nat
  BY BehindRange, AheadRange DEF Ending
<1> QED
  BY <1>2, <1>3, <1>4, <1>5

LEMMA HungUpAhead ==
    ASSUME NEW x \in ProcStates, x.pc = "hang_up", FrameOK(x), NEW c \in x.targets
    PROVE  FrameOK(HungUp(x, c)) /\ Nearer(x, HungUp(x, c))
<1>1. MayGoOn(x.frame, x.next) /\ Ahead(x) = Ending(x.frame, x.next)
  BY DEF FrameOK, Ahead, Ending
<1>2. CASE x.targets = {c}
  <2> DEFINE y == [x EXCEPT !.targets = {}]
  <2>1. HungUp(x, c) = Leave(y)
    BY <1>2 DEF HungUp
  <2>2. y = [x EXCEPT !.targets = {}, !.next = x.next, !.result = x.result]
    BY DEF ProcStates
  <2> HIDE DEF y
  <2>3. FrameOK(Leave(y)) /\ Ahead(Leave(y)) < Ending(x.frame, x.next)
    BY <1>1, <2>2, LeaveAhead
  <2> QED
    BY <1>1, <2>1, <2>3 DEF Nearer
<1>3. CASE x.targets # {c}
  <2> DEFINE y == [x EXCEPT !.targets = @ \ {c}]
  <2>1. HungUp(x, c) = y
    BY <1>3 DEF HungUp
  <2>2. y.pc = x.pc /\ y.frame = x.frame /\ y.next = x.next /\ y.targets = x.targets \ {c}
    BY DEF ProcStates
  <2> HIDE DEF y
  <2>3. Ahead(y) = Ahead(x) /\ FrameOK(y)
    BY <2>2 DEF Ahead, FrameOK
  <2> QED
    BY <2>1, <2>2, <2>3 DEF Nearer
<1> QED
  BY <1>2, <1>3

(* The coroutine p goes on to a record that is nearer its end. *)
Advances(p) == \E y : Resume(p, y) /\ FrameOK(y) /\ Nearer(proc[p], y)

LEMMA ProcFacts ==
    ASSUME ServiceInv, NEW p \in Processes
    PROVE  proc[p] \in ProcStates
  BY DEF ServiceInv, Typed

LEMMA PcAhead ==
    ASSUME NEW y, y.pc \notin CleanupPcs
    PROVE  FrameOK(y) /\ Ahead(y) = Stage(y.pc)
  BY DEF FrameOK, Ahead, CleanupPcs

(* The three ways to go on: to an end, to another await, to a hang-up. *)
LEMMA Finishes ==
    ASSUME ServiceInv, NEW p \in Processes, proc[p].pc \notin {"idle", "done"}, NEW x, NEW result,
           Resume(p, Finish(x, result))
    PROVE  Advances(p)
<1>1. Ahead(proc[p]) > 1
  BY ProcFacts, BehindRange DEF ProcStates, AskPcs, HandlerPcs, CleanupPcs, Ahead, Ending, Stage
<1> QED
  BY <1>1, FinishAhead DEF Advances, Nearer

LEMMA GoesTo ==
    ASSUME NEW p \in Processes, NEW y, Resume(p, y), y.pc \notin CleanupPcs, Stage(y.pc) < Ahead(proc[p])
    PROVE  Advances(p)
  BY PcAhead DEF Advances, Nearer

LEMMA GoesOnTo ==
    ASSUME ServiceInv, NEW p \in Processes, NEW pc, Resume(p, Goto(proc[p], pc)),
           {proc[p].pc, pc} \cap CleanupPcs = {}, Stage(pc) < Stage(proc[p].pc)
    PROVE  Advances(p)
<1>1. Goto(proc[p], pc).pc = pc
  BY ProcFacts DEF Goto, ProcStates
<1> QED
  BY <1>1, PcAhead, GoesTo

LEMMA GoesToHangUp ==
    ASSUME NEW p \in Processes, NEW x \in ProcStates, NEW C, NEW next, NEW result, MayGoOn(x.frame, next),
           Ending(x.frame, next) < Ahead(proc[p]), Resume(p, HangUpThen(x, C, next, result))
    PROVE  Advances(p)
<1> DEFINE y == HangUpThen(x, C, next, result)
<1>1. FrameOK(y) /\ Ahead(y) <= Ending(x.frame, next)
  BY HangUpAhead
<1> HIDE DEF y
<1>2. Ahead(y) \in Nat /\ Ending(x.frame, next) \in Nat /\ Ahead(proc[p]) \in Nat
  BY AheadRange, BehindRange DEF Ending
<1>3. Ahead(y) < Ahead(proc[p])
  BY <1>1, <1>2
<1> QED
  BY <1>1, <1>3 DEF Advances, Nearer, y

LEMMA GoesToExpire ==
    ASSUME NEW p \in Processes, NEW x \in ProcStates, NEW outcome, NEW frame \in ExpireFrames,
           Behind(frame) + 5 < Ahead(proc[p]), Resume(p, StartExpire(x, outcome, frame))
    PROVE  Advances(p)
  BY ExpireAhead DEF Advances, Nearer

LEMMA GoesToFail ==
    ASSUME NEW p \in Processes, NEW x \in ProcStates, NEW frame \in FailFrames,
           Behind(frame) + 5 < Ahead(proc[p]), Resume(p, StartFail(x, frame))
    PROVE  Advances(p)
  BY FailAhead DEF Advances, Nearer
-----------------------------------------------------------------------------
LEMMA AfterExpireAdvances ==
    ASSUME ServiceInv, NEW p \in Processes, proc[p].pc \in {"expire", "reread"}, FrameOK(proc[p]),
           NEW C, NEW s, NEW raised \in BOOLEAN, Resume(p, AfterExpire(p, C, s, raised))
    PROVE  Advances(p)
<1> DEFINE x == proc[p]
<1>1. x \in ProcStates /\ x.frame \in ExpireFrames /\ Behind(x.frame) + 3 < Ahead(x)
  BY ProcFacts, BehindRange DEF FrameOK, Ahead
<1>2. \E D, next, result :
        /\ AfterExpire(p, C, s, raised) = HangUpThen(x, D, next, result)
        /\ next = "done" \/ (next = "fail" /\ x.frame \in {"late", "lost"})
  <2>1. CASE x.frame \in {"inner", "outer"}
    <3>1. AfterExpire(p, C, s, raised) = HangUpThen(x, C, "done", IF raised THEN "error" ELSE s.outcome)
      BY <2>1 DEF AfterExpire
    <3> QED
      BY <3>1
  <2>2. CASE x.frame = "timeout"
    <3>1. AfterExpire(p, C, s, raised) = HangUpThen(x, C, "done", IF raised THEN "error" ELSE "ok")
      BY <2>2 DEF AfterExpire
    <3> QED
      BY <3>1
  <2>3. CASE x.frame \notin {"inner", "outer", "timeout"} /\ raised
    <3>1. AfterExpire(p, C, s, raised) = HangUpThen(x, C, "fail", None)
      BY <2>3 DEF AfterExpire
    <3> QED
      BY <1>1, <2>3, <3>1 DEF ExpireFrames
  <2>4. CASE x.frame \notin {"inner", "outer", "timeout"} /\ ~raised
    <3>1. \/ AfterExpire(p, C, s, raised) = HangUpThen(x, C \cup {event[p].call}, "done", "ok")
          \/ AfterExpire(p, C, s, raised) = HangUpThen(x, C, "done", "ok")
      BY <2>4 DEF AfterExpire
    <3> QED
      BY <3>1
  <2> QED
    BY <2>1, <2>2, <2>3, <2>4
<1>3. PICK D, next, result :
        /\ AfterExpire(p, C, s, raised) = HangUpThen(x, D, next, result)
        /\ next = "done" \/ (next = "fail" /\ x.frame \in {"late", "lost"})
  BY <1>2
<1>4. MayGoOn(x.frame, next) /\ Ending(x.frame, next) = Behind(x.frame) + 3
  BY <1>1, <1>3 DEF MayGoOn, Ending, ExpireFrames
<1> QED
  BY <1>1, <1>3, <1>4, GoesToHangUp

LEMMA AfterFailAdvances ==
    ASSUME ServiceInv, NEW p \in Processes, proc[p].pc \in {"fail", "refetch"}, FrameOK(proc[p]),
           NEW C, NEW raised \in BOOLEAN, Resume(p, AfterFail(p, C, raised))
    PROVE  Advances(p)
<1> DEFINE x == proc[p]
<1>1. x \in ProcStates /\ x.frame \in FailFrames /\ Behind(x.frame) + 3 < Ahead(x)
  BY ProcFacts, BehindRange DEF FrameOK, Ahead
<1>2. \E D, next, result :
        /\ AfterFail(p, C, raised) = HangUpThen(x, D, next, result)
        /\ \/ next = "done"
           \/ next = "poll" /\ x.frame \in {"start", "unattached"}
           \/ next = "fail" /\ x.frame \in {"event", "unattached"}
  <2>1. CASE x.frame = "start"
    <3>1. AfterFail(p, C, raised) = IF raised THEN HangUpThen(x, C, "done", "error")
                                    ELSE HangUpThen(x, C, "poll", None)
      BY <2>1 DEF AfterFail
    <3> QED
      BY <2>1, <3>1
  <2>2. CASE x.frame = "unattached"
    <3>1. AfterFail(p, C, raised) = IF raised THEN HangUpThen(x, C, "fail", None)
                                    ELSE HangUpThen(x, C \cup KnownCalls(x.req), "poll", None)
      BY <2>2 DEF AfterFail
    <3> QED
      BY <2>2, <3>1
  <2>3. CASE x.frame = "creator"
    BY <2>3 DEF AfterFail
  <2>4. CASE x.frame = "event" /\ raised
    <3>1. AfterFail(p, C, raised) = HangUpThen(x, C, "fail", None)
      BY <2>4 DEF AfterFail
    <3> QED
      BY <2>4, <3>1
  <2>5. CASE x.frame \notin {"start", "unattached", "creator"} /\ ~(x.frame = "event" /\ raised)
    BY <2>5 DEF AfterFail
  <2> QED
    BY <2>1, <2>2, <2>3, <2>4, <2>5
<1>3. PICK D, next, result :
        /\ AfterFail(p, C, raised) = HangUpThen(x, D, next, result)
        /\ \/ next = "done"
           \/ next = "poll" /\ x.frame \in {"start", "unattached"}
           \/ next = "fail" /\ x.frame \in {"event", "unattached"}
  BY <1>2
<1>4. MayGoOn(x.frame, next) /\ Ending(x.frame, next) = Behind(x.frame) + 3
  BY <1>1, <1>3 DEF MayGoOn, Ending, FailFrames
<1> QED
  BY <1>1, <1>3, <1>4, GoesToHangUp

LEMMA CleanupAdvances ==
    ASSUME ServiceInv, NEW p \in Processes, FrameOK(proc[p]), CleanupStep(p) \/ CleanupFault(p)
    PROVE  Advances(p)
<1> DEFINE x == proc[p]
<1>1. x \in ProcStates
  BY ProcFacts
<1>2. CASE ExpireWrite(p)
  <2>1. x.pc = "expire" /\ Resume(p, Goto(x, "reread"))
    BY <1>2 DEF ExpireWrite
  <2>2. Goto(x, "reread").pc = "reread" /\ Goto(x, "reread").frame = x.frame
    BY <1>1 DEF Goto, ProcStates
  <2>3. FrameOK(Goto(x, "reread")) /\ Ahead(Goto(x, "reread")) < Ahead(x)
    BY <2>1, <2>2, BehindRange DEF FrameOK, Ahead
  <2> QED
    BY <2>1, <2>3 DEF Advances, Nearer
<1>3. CASE ExpireReread(p) \/ ExpireFault(p)
  <2>1. /\ x.pc \in {"expire", "reread"}
        /\ \E C, s : \E raised \in BOOLEAN : Resume(p, AfterExpire(p, C, s, raised))
    BY <1>3 DEF ExpireReread, ExpireFault, ExpireRaises
  <2> QED
    BY <2>1, AfterExpireAdvances
<1>4. CASE FailWrite(p) /\ IsPending(x.req)
  <2>1. x.pc = "fail" /\ Resume(p, Goto(x, "refetch"))
    BY <1>4 DEF FailWrite
  <2>2. Goto(x, "refetch").pc = "refetch" /\ Goto(x, "refetch").frame = x.frame
    BY <1>1 DEF Goto, ProcStates
  <2>3. FrameOK(Goto(x, "refetch")) /\ Ahead(Goto(x, "refetch")) < Ahead(x)
    BY <2>1, <2>2, BehindRange DEF FrameOK, Ahead
  <2> QED
    BY <2>1, <2>3 DEF Advances, Nearer
<1>5. CASE (FailWrite(p) /\ ~IsPending(x.req)) \/ FailRefetch(p) \/ FailFault(p)
  <2>1. /\ x.pc \in {"fail", "refetch"}
        /\ \E C : \E raised \in BOOLEAN : Resume(p, AfterFail(p, C, raised))
    BY <1>5 DEF FailWrite, FailRefetch, FailFault, FailRaises
  <2> QED
    BY <2>1, AfterFailAdvances
<1>6. CASE \E c \in CallIds : HangUp(p, c) \/ HangUpFault(p, c)
  <2>1. PICK c \in x.targets : x.pc = "hang_up" /\ Resume(p, HungUp(x, c))
    BY <1>6 DEF HangUp, HangUpFault
  <2> QED
    BY <1>1, <2>1, HungUpAhead DEF Advances
<1> QED
  BY <1>2, <1>3, <1>4, <1>5, <1>6 DEF CleanupStep, CleanupFault

(* The work on a request is further from its end than an _expire. *)
LEMMA WorkAhead ==
    ASSUME ServiceInv, NEW a \in Asks, FrameOK(proc[a]), InWork(a)
    PROVE  Ahead(proc[a]) > 6
<1>1. CASE proc[a].pc \in {"verify", "create_call", "attach", "confirm", "unattached", "poll"}
  BY <1>1 DEF Ahead, Stage
<1>2. CASE proc[a].pc \in CleanupPcs /\ proc[a].frame \in {"inner", "start", "unattached"}
  BY <1>2 DEF Ahead, Ending, Behind, FrameOK, MayGoOn, CleanupPcs
<1> QED
  BY <1>1, <1>2 DEF InWork

LEMMA InterruptAdvances ==
    ASSUME ServiceInv, NEW a \in Asks, FrameOK(proc[a]), InWork(a), Resume(a, Interrupted(a))
    PROVE  Advances(a)
<1> DEFINE outcome == IF ask[a].cancelled THEN "cancelled" ELSE "deadline_exceeded"
           x == [proc[a] EXCEPT !.frame = "outer", !.next = None, !.targets = {}, !.outcome = outcome]
           C == IF proc[a].pc \in {"expire", "reread"} THEN CallsToEnd(x.req, x.stored) ELSE {}
<1>1. a \in Processes /\ proc[a] \in ProcStates
  BY AskFacts
<1>2. x \in ProcStates /\ x.frame = "outer"
  <2>1. outcome \in Outcomes
    BY DEF Outcomes, ExpiryOutcomes
  <2> HIDE DEF outcome
  <2> QED
    BY <1>1, <2>1 DEF ProcStates, Frames
<1>3. Interrupted(a) = IF ask[a].cancelled /\ ask[a].role = "joiner"
                       THEN HangUpThen(x, C, "done", "aborted") ELSE HangUpThen(x, C, "expire", None)
  BY DEF Interrupted
<1> HIDE DEF x, C
<1>4. \A next \in {"done", "expire"} : MayGoOn(x.frame, next) /\ Ending(x.frame, next) <= 6
  BY <1>2 DEF MayGoOn, Ending, Behind
<1>5. \A next \in {"done", "expire"} : Ending(x.frame, next) < Ahead(proc[a])
  BY <1>4, WorkAhead, AheadRange, BehindRange DEF Ending
<1> QED
  BY <1>1, <1>2, <1>3, <1>4, <1>5, GoesToHangUp

LEMMA AdmissionAdvances ==
    ASSUME ServiceInv, NEW a \in Asks,
           \/ \E r \in Requests : AdmitCreated(a, r) \/ AdmitJoined(a, r) \/ AdmitReplayed(a, r) \/ AdmissionLost(a, r)
           \/ AdmitConflict(a) \/ AdmitRefused(a) \/ AdmissionAborted(a) \/ AdmissionFault(a)
    PROVE  Advances(a)
<1> DEFINE x == proc[a]
<1>1. a \in Processes /\ x \in ProcStates
  BY AskFacts
<1>2. x.pc \in {"insert", "lookup"} /\ Ahead(x) \in {25, 26}
  BY DEF AdmitCreated, AdmitJoined, AdmitReplayed, AdmissionLost, AdmitConflict, AdmitRefused, AdmissionAborted,
     AdmissionFault, Ahead, Stage
<1>3. CASE \E w, result : Resume(a, Finish(w, result))
  BY <1>1, <1>2, <1>3, Finishes
<1>4. CASE \E r \in Requests : AdmitCreated(a, r)
  <2>1. PICK r \in Requests : AdmitCreated(a, r)
    BY <1>4
  <2> DEFINE y == [x EXCEPT !.req = r, !.stored = Accepted(a),
                            !.pc = IF ask[a].cancelled \/ OutOfTime(Accepted(a)) THEN "poll" ELSE "verify"]
  <2>2. Resume(a, y)
    BY <2>1 DEF AdmitCreated
  <2>3. y.pc \in {"poll", "verify"}
    BY <1>1 DEF ProcStates
  <2> HIDE DEF y
  <2> QED
    BY <1>1, <1>2, <2>2, <2>3, GoesTo DEF Stage, CleanupPcs
<1>5. CASE \E r \in Requests : AdmitJoined(a, r)
  <2>1. PICK r \in Requests : AdmitJoined(a, r)
    BY <1>5
  <2> DEFINE y == [x EXCEPT !.req = r, !.stored = Loaded(r), !.pc = "poll"]
  <2>2. Resume(a, y)
    BY <2>1 DEF AdmitJoined
  <2>3. y.pc = "poll"
    BY <1>1 DEF ProcStates
  <2> HIDE DEF y
  <2> QED
    BY <1>1, <1>2, <2>2, <2>3, GoesTo DEF Stage, CleanupPcs
<1>6. CASE AdmitConflict(a)
  <2>1. Resume(a, Goto(x, "lookup")) /\ x.pc = "insert"
    BY <1>6 DEF AdmitConflict
  <2>2. Goto(x, "lookup").pc = "lookup" /\ Ahead(x) = 26
    BY <1>1, <2>1 DEF Goto, ProcStates, Ahead, Stage
  <2> QED
    BY <1>1, <2>1, <2>2, GoesTo DEF Stage, CleanupPcs
<1>7. \/ \E w, result : Resume(a, Finish(w, result))
      \/ \E r \in Requests : AdmitCreated(a, r) \/ AdmitJoined(a, r)
      \/ AdmitConflict(a)
  BY DEF AdmitReplayed, AdmissionLost, AdmitRefused, AdmissionAborted, AdmissionFault
<1> QED
  BY <1>3, <1>4, <1>5, <1>6, <1>7

LEMMA WorkAdvances ==
    ASSUME ServiceInv, NEW a \in Asks,
           \/ Verify(a) \/ Attach(a) \/ Confirm(a) \/ Poll(a) \/ WorkFault(a)
           \/ \E c \in CallIds : CreateCall(a, c) \/ CreateCallFault(a, c)
    PROVE  Advances(a)
<1> DEFINE x == proc[a]
           z == [x EXCEPT !.frame = "start"]
<1>1. a \in Processes /\ x \in ProcStates
  BY AskFacts
<1>2. z \in ProcStates /\ z.frame = "start"
  BY <1>1 DEF ProcStates, Frames
<1>3. CASE \E w, result : Resume(a, Finish(w, result))
  <2>1. x.pc \notin {"idle", "done"}
    BY DEF Verify, Attach, Confirm, Poll, WorkFault, CreateCall, CreateCallFault
  <2> QED
    BY <1>1, <1>3, <2>1, Finishes
<1>4. CASE Verify(a) /\ ~\E w, result : Resume(a, Finish(w, result))
  <2>1. x.pc = "verify" /\ \E pc \in {"create_call", "poll"} : Resume(a, Goto(x, pc))
    BY <1>4 DEF Verify
  <2> QED
    BY <1>1, <2>1, GoesOnTo DEF Stage, CleanupPcs
<1>5. CASE \E c \in CallIds : CreateCall(a, c)
  <2>1. x.pc = "create_call" /\ Resume(a, Goto(x, "attach"))
    BY <1>5 DEF CreateCall
  <2> QED
    BY <1>1, <2>1, GoesOnTo DEF Stage, CleanupPcs
<1>6. CASE Attach(a)
  <2>1. x.pc = "attach" /\ \E pc \in {"confirm", "unattached"} : Resume(a, Goto(x, pc))
    BY <1>6 DEF Attach
  <2> QED
    BY <1>1, <2>1, GoesOnTo DEF Stage, CleanupPcs
<1>7. CASE Confirm(a)
  <2>1. x.pc \in {"confirm", "unattached"} /\ Ahead(x) = 21
    BY <1>7 DEF Confirm, Ahead, Stage
  <2>2. \/ \E frame \in {"start", "unattached"} : Resume(a, StartFail(x, frame))
        \/ Resume(a, HangUpThen(z, {ask[a].callId}, "poll", None)) \/ Resume(a, Goto(x, "poll"))
    BY <1>7 DEF Confirm
  <2> HIDE DEF z
  <2>3. CASE \E frame \in {"start", "unattached"} : Resume(a, StartFail(x, frame))
    BY <1>1, <2>1, <2>3, GoesToFail DEF FailFrames, Behind
  <2>4. CASE Resume(a, HangUpThen(z, {ask[a].callId}, "poll", None))
    <3>1. MayGoOn(z.frame, "poll") /\ Ending(z.frame, "poll") < Ahead(x)
      BY <1>2, <2>1 DEF MayGoOn, Ending, Behind
    <3> QED
      BY <1>1, <1>2, <2>4, <3>1, GoesToHangUp
  <2>5. CASE Resume(a, Goto(x, "poll"))
    BY <1>1, <2>1, <2>5, GoesOnTo DEF Stage, CleanupPcs
  <2> QED
    BY <2>2, <2>3, <2>4, <2>5
<1>8. CASE Poll(a) /\ ~\E w, result : Resume(a, Finish(w, result))
  <2>1. x.pc = "poll" /\ \E outcome : Resume(a, StartExpire(x, outcome, "inner"))
    BY <1>8 DEF Poll
  <2> QED
    BY <1>1, <2>1, GoesToExpire DEF ExpireFrames, Behind, Ahead, Stage
<1>9. CASE \/ WorkFault(a) /\ ~\E w, result : Resume(a, Finish(w, result))
           \/ \E c \in CallIds : CreateCallFault(a, c)
  <2>1. \/ x.pc \in {"create_call", "attach", "confirm", "unattached"} /\ Resume(a, StartFail(x, "start"))
        \/ x.pc \in {"verify", "poll"} /\ Resume(a, StartFail(x, "creator"))
    BY <1>9 DEF WorkFault, CreateCallFault
  <2> QED
    BY <1>1, <2>1, GoesToFail DEF FailFrames, Behind, Ahead, Stage
<1> QED
  BY <1>3, <1>4, <1>5, <1>6, <1>7, <1>8, <1>9

(* What the deadline cuts has at most a last hang-up ahead. *)
LEMMA DeadlineAdvances ==
    ASSUME ServiceInv, NEW a \in Asks, FrameOK(proc[a]), DeadlineAbort(a)
    PROVE  Advances(a)
<1> DEFINE x == [proc[a] EXCEPT !.frame = "cut"]
<1>1. a \in Processes /\ proc[a] \in ProcStates
  BY AskFacts
<1>2. x \in ProcStates /\ x.frame = "cut"
  BY <1>1 DEF ProcStates, Frames
<1>3. MayGoOn(x.frame, "done") /\ Ending(x.frame, "done") = 2
  BY <1>2 DEF MayGoOn, Ending
<1>4. Ahead(proc[a]) > 2
  <2>1. CASE proc[a].pc \in CleanupPcs
    BY <2>1, BehindRange DEF DeadlineAbort, Ahead, Ending, CleanupPcs
  <2>2. CASE proc[a].pc \notin CleanupPcs
    BY <1>1, <2>2 DEF DeadlineAbort, Running, ProcStates, AskPcs, HandlerPcs, CleanupPcs, Ahead, Stage
  <2> QED
    BY <2>1, <2>2
<1>5. PICK C : Resume(a, HangUpThen(x, C, "done", "error"))
  BY DEF DeadlineAbort
<1> HIDE DEF x
<1> QED
  BY <1>1, <1>2, <1>3, <1>4, <1>5, GoesToHangUp

(* An invocation advances by each of its steps, whatever fails. *)
LEMMA AskAdvances ==
    ASSUME ServiceInv, NEW a \in Asks, FrameOK(proc[a]), AskStep(a) \/ AskFault(a)
    PROVE  Advances(a)
<1>1. a \in Processes
  BY AskFacts
<1>2. CASE \/ \E r \in Requests : AdmitCreated(a, r) \/ AdmitJoined(a, r) \/ AdmitReplayed(a, r) \/ AdmissionLost(a, r)
           \/ AdmitConflict(a) \/ AdmitRefused(a) \/ AdmissionAborted(a) \/ AdmissionFault(a)
  BY <1>2, AdmissionAdvances
<1>3. CASE \/ Verify(a) \/ Attach(a) \/ Confirm(a) \/ Poll(a) \/ WorkFault(a)
           \/ \E c \in CallIds : CreateCall(a, c) \/ CreateCallFault(a, c)
  BY <1>3, WorkAdvances
<1>4. CASE Interrupt(a) \/ \E c \in CallIds : InterruptCreate(a, c)
  <2>1. InWork(a) /\ Resume(a, Interrupted(a))
    BY <1>4 DEF Interrupt, InterruptCreate, InWork
  <2> QED
    BY <2>1, InterruptAdvances
<1>5. CASE DeadlineAbort(a)
  BY <1>5, DeadlineAdvances
<1>6. CASE CleanupStep(a) \/ CleanupFault(a)
  BY <1>1, <1>6, CleanupAdvances
<1> QED
  BY <1>2, <1>3, <1>4, <1>5, <1>6 DEF AskStep, AskFault

(* A handler whose request has not ended has no invocation's clean-up behind it. *)
LEMMA HandlerWaiting ==
    ASSUME ServiceInv, NEW h \in Handlers, proc[h].pc # "idle"
    PROVE  /\ h \in Processes /\ proc[h] \in ProcStates
           /\ Behind(proc[h].frame) \in {0, 5}
           /\ Loaded(proc[h].req) \in Snapshot
<1>1. proc[h].frame \notin {"start", "unattached"} /\ proc[h].req \in Requests
  BY HandlerFacts DEF HandlerBase
<1> QED
  BY <1>1, HandlerFacts, RowOf DEF Behind

LEMMA LateConnectionAdvances ==
    ASSUME ServiceInv, NEW h \in Handlers, NEW x \in ProcStates, Behind(x.frame) \in {0, 5}, NEW s,
           Ahead(proc[h]) > 8, proc[h].pc \notin {"idle", "done"}, Resume(h, LateConnection(h, x, s))
    PROVE  Advances(h)
<1>1. h \in Processes
  BY HandlerFacts
<1>2. \/ Resume(h, HangUpThen(x, {event[h].call}, "done", "ok")) \/ Resume(h, Finish(x, "ok"))
  BY DEF LateConnection
<1>3. MayGoOn(x.frame, "done") /\ Ending(x.frame, "done") < Ahead(proc[h])
  BY AheadRange DEF MayGoOn, Ending
<1> QED
  BY <1>1, <1>2, <1>3, GoesToHangUp, Finishes

LEMMA DispatchAdvances ==
    ASSUME ServiceInv, NEW h \in Handlers, NEW x \in ProcStates, NEW s \in Snapshot,
           Ahead(proc[h]) > 13, proc[h].pc \notin {"idle", "done"}, Resume(h, Dispatch(h, x, s))
    PROVE  Advances(h)
<1> DEFINE z == [x EXCEPT !.stored = s]
           watch == IF Creators(x.req) = {} THEN None ELSE CHOOSE a \in Creators(x.req) : TRUE
           y == [z EXCEPT !.pc = "claim", !.watch = watch]
<1>1. h \in Processes /\ z \in ProcStates
  BY HandlerFacts DEF ProcStates
<1>2. \/ Resume(h, Finish(x, "ok")) \/ Resume(h, y)
      \/ Resume(h, StartFail(z, "event"))
      \/ Resume(h, StartExpire(z, "deadline_exceeded", "timeout"))
      \/ Resume(h, Goto(z, "complete"))
  <2>1. CASE event[h].type = "connected"
    <3>1. Dispatch(h, x, s) \in {Finish(x, "ok"), y}
      BY <2>1 DEF Dispatch
    <3> QED
      BY <3>1
  <2>2. CASE event[h].type = "dependency_failed"
    <3>1. Dispatch(h, x, s) = StartFail(z, "event")
      BY <2>2 DEF Dispatch
    <3> QED
      BY <3>1
  <2>3. CASE event[h].type \notin {"connected", "dependency_failed"}
    <3>1. Dispatch(h, x, s) \in {Finish(x, "ok"), StartExpire(z, "deadline_exceeded", "timeout"), Goto(z, "complete")}
      BY <2>3 DEF Dispatch
    <3> QED
      BY <3>1
  <2> QED
    BY <2>1, <2>2, <2>3
<1>3. y.pc = "claim" /\ Goto(z, "complete").pc = "complete"
  BY <1>1 DEF ProcStates, Goto
<1>4. Ahead(proc[h]) \in Nat
  BY AheadRange
<1> HIDE DEF y, z
<1>5. CASE Resume(h, y) \/ Resume(h, Goto(z, "complete"))
  BY <1>1, <1>3, <1>4, <1>5, GoesTo DEF Stage, CleanupPcs
<1>6. CASE Resume(h, StartFail(z, "event")) \/ Resume(h, StartExpire(z, "deadline_exceeded", "timeout"))
  BY <1>1, <1>4, <1>6, GoesToFail, GoesToExpire DEF FailFrames, ExpireFrames, Behind
<1> QED
  BY <1>1, <1>2, <1>5, <1>6, Finishes

LEMMA GetAdvances ==
    ASSUME ServiceInv, NEW h \in Handlers, Get(h)
    PROVE  Advances(h)
<1> DEFINE s == Loaded(proc[h].req)
           x == [proc[h] EXCEPT !.stored = s]
<1>1. proc[h].pc = "get" /\ Ahead(proc[h]) = 16
  BY DEF Get, Ahead, Stage
<1>2. /\ h \in Processes /\ proc[h] \in ProcStates /\ s \in Snapshot
      /\ Behind(proc[h].frame) \in {0, 5}
  BY <1>1, HandlerWaiting
<1>3. x \in ProcStates /\ x.frame = proc[h].frame /\ Goto(x, "bind").pc = "bind"
  BY <1>2 DEF ProcStates, Goto
<1>4. \/ Resume(h, Finish(x, "ok")) \/ Resume(h, LateConnection(h, x, s))
      \/ Resume(h, StartExpire(x, "deadline_exceeded", "late"))
      \/ Resume(h, Goto(x, "bind")) \/ Resume(h, Dispatch(h, x, s))
  BY DEF Get
<1> HIDE DEF s, x
<1>5. CASE Resume(h, StartExpire(x, "deadline_exceeded", "late"))
  BY <1>1, <1>2, <1>3, <1>5, GoesToExpire DEF ExpireFrames, Behind
<1>6. CASE Resume(h, Goto(x, "bind"))
  BY <1>1, <1>2, <1>3, <1>6, GoesTo DEF Stage, CleanupPcs
<1>7. CASE Resume(h, LateConnection(h, x, s)) \/ Resume(h, Dispatch(h, x, s))
  BY <1>1, <1>2, <1>3, <1>7, LateConnectionAdvances, DispatchAdvances
<1> QED
  BY <1>1, <1>2, <1>4, <1>5, <1>6, <1>7, Finishes

LEMMA ReloadAdvances ==
    ASSUME ServiceInv, NEW h \in Handlers, Reload(h)
    PROVE  Advances(h)
<1> DEFINE x == proc[h]
           s == Loaded(x.req)
           z == [x EXCEPT !.frame = "event"]
<1>1. x.pc = "reload" /\ Ahead(x) = 14
  BY DEF Reload, Ahead, Stage
<1>2. h \in Processes /\ x \in ProcStates /\ s \in Snapshot
  BY <1>1, HandlerWaiting
<1>3. z \in ProcStates /\ Behind(z.frame) = 5
  BY <1>2 DEF ProcStates, Frames, Behind
<1>4. \/ Resume(h, Finish(x, "ok")) \/ Resume(h, StartFail(x, "final"))
      \/ Resume(h, LateConnection(h, z, s)) \/ Resume(h, Dispatch(h, x, s))
  BY DEF Reload
<1> HIDE DEF s, z
<1>5. CASE Resume(h, StartFail(x, "final"))
  BY <1>1, <1>2, <1>5, GoesToFail DEF FailFrames, Behind
<1>6. CASE Resume(h, LateConnection(h, z, s)) \/ Resume(h, Dispatch(h, x, s))
  BY <1>1, <1>2, <1>3, <1>6, LateConnectionAdvances, DispatchAdvances
<1> QED
  BY <1>1, <1>2, <1>4, <1>5, <1>6, Finishes

LEMMA TimeoutAdvances ==
    ASSUME ServiceInv, NEW h \in Handlers, FrameOK(proc[h]), HandlerTimeout(h)
    PROVE  Advances(h)
<1> DEFINE y == [StartExpire(proc[h], "deadline_exceeded", "timeout") EXCEPT !.next = None, !.targets = {}, !.result = None]
<1>1. h \in Processes /\ proc[h] \in ProcStates /\ Resume(h, y)
  BY HandlerFacts DEF HandlerTimeout
<1>2. y.pc = "expire" /\ y.frame = "timeout"
  BY <1>1 DEF StartExpire, ProcStates
<1>3. Ahead(proc[h]) > 5
  <2>1. CASE proc[h].pc \in {"bind", "reload", "claim", "recheck", "prompt", "complete"}
    BY <2>1 DEF Ahead, Stage
  <2>2. CASE proc[h].pc \in CleanupPcs /\ proc[h].frame = "event"
    BY <2>2 DEF Ahead, Ending, Behind, FrameOK, MayGoOn, CleanupPcs
  <2> QED
    BY <2>1, <2>2 DEF HandlerTimeout, InBlock
<1> HIDE DEF y
<1>4. FrameOK(y) /\ Ahead(y) = 5
  BY <1>2 DEF FrameOK, ExpireFrames, Ahead, Behind
<1> QED
  BY <1>1, <1>3, <1>4, AheadRange DEF Advances, Nearer

LEMMA BlockAdvances ==
    ASSUME ServiceInv, NEW h \in Handlers,
           \/ Bind(h) \/ Claim(h) \/ Recheck(h) \/ Prompt(h) \/ Complete(h) \/ Acknowledge(h)
           \/ HandlerFault(h) \/ PromptFault(h) \/ CompleteLost(h)
    PROVE  Advances(h)
<1> DEFINE x == proc[h]
           z == [x EXCEPT !.frame = "acknowledged"]
           C == {event[h].call}
<1>0. x.pc \notin {"idle", "done"} /\ x.pc \in {"get", "acknowledge"} \cup BlockPcs
  BY DEF Bind, Claim, Recheck, Prompt, Complete, Acknowledge, HandlerFault, PromptFault, CompleteLost, BlockPcs
<1>1. h \in Processes /\ x \in ProcStates /\ Behind(x.frame) \in {0, 5} /\ Ahead(x) = Stage(x.pc)
  BY <1>0, HandlerWaiting DEF Ahead, BlockPcs
<1>2. z \in ProcStates /\ z.frame = "acknowledged"
  BY <1>1 DEF ProcStates, Frames
<1>3. \/ \E w, result : Resume(h, Finish(w, result))
      \/ x.pc = "bind" /\ Resume(h, Goto(x, "reload"))
      \/ x.pc = "claim" /\ Resume(h, Goto(x, "recheck"))
      \/ x.pc = "recheck" /\ Resume(h, Goto(x, "prompt"))
      \/ x.pc = "complete" /\ Resume(h, Goto(x, "acknowledge"))
      \/ x.pc \in {"recheck", "complete"} /\ \E frame \in {"timeout", "lost"} : Resume(h, StartExpire(x, "deadline_exceeded", frame))
      \/ x.pc \in BlockPcs /\ \E frame \in {"event", "final"} : Resume(h, StartFail(x, frame))
      \/ x.pc = "complete" /\ Resume(h, HangUpThen(x, C, "done", "ok"))
      \/ x.pc = "acknowledge" /\ Resume(h, HangUpThen(z, C, "done", "ok"))
  <2> HIDE DEF C, z
  <2>1. CASE Bind(h) \/ Claim(h)
    BY <2>1 DEF Bind, Claim
  <2>2. CASE Recheck(h)
    BY <2>2 DEF Recheck, BlockPcs
  <2>3. CASE Prompt(h) \/ PromptFault(h)
    BY <2>3 DEF Prompt, PromptFault, BlockPcs
  <2>4. CASE Complete(h)
    <3>1. \/ Resume(h, Goto(x, "acknowledge")) \/ Resume(h, HangUpThen(x, C, "done", "ok"))
          \/ Resume(h, StartExpire(x, "deadline_exceeded", "lost")) \/ Resume(h, Finish(x, "ok"))
      BY <2>4 DEF Complete, C
    <3> QED
      BY <2>4, <3>1 DEF Complete
  <2>5. CASE Acknowledge(h)
    BY <2>5 DEF Acknowledge, C, z
  <2>6. CASE HandlerFault(h)
    BY <2>6 DEF HandlerFault, BlockPcs
  <2>7. CASE CompleteLost(h)
    BY <2>7 DEF CompleteLost, BlockPcs
  <2> QED
    BY <2>1, <2>2, <2>3, <2>4, <2>5, <2>6, <2>7
<1> HIDE DEF C, z
<1>4. CASE \E w, result : Resume(h, Finish(w, result))
  BY <1>0, <1>1, <1>4, Finishes
<1>5. CASE \/ x.pc = "bind" /\ Resume(h, Goto(x, "reload"))
           \/ x.pc = "claim" /\ Resume(h, Goto(x, "recheck"))
           \/ x.pc = "recheck" /\ Resume(h, Goto(x, "prompt"))
           \/ x.pc = "complete" /\ Resume(h, Goto(x, "acknowledge"))
  BY <1>1, <1>5, GoesOnTo DEF Stage, CleanupPcs
<1>6. CASE x.pc \in {"recheck", "complete"} /\ \E frame \in {"timeout", "lost"} : Resume(h, StartExpire(x, "deadline_exceeded", frame))
  BY <1>1, <1>6, GoesToExpire DEF ExpireFrames, Behind, Stage
<1>7. CASE x.pc \in BlockPcs /\ \E frame \in {"event", "final"} : Resume(h, StartFail(x, frame))
  BY <1>1, <1>7, GoesToFail DEF FailFrames, Behind, Stage, BlockPcs
<1>8. CASE x.pc = "complete" /\ Resume(h, HangUpThen(x, C, "done", "ok"))
  <2>1. MayGoOn(x.frame, "done") /\ Ending(x.frame, "done") < Ahead(x)
    BY <1>1, <1>8 DEF MayGoOn, Ending, Stage
  <2> QED
    BY <1>1, <1>8, <2>1, GoesToHangUp
<1>9. CASE x.pc = "acknowledge" /\ Resume(h, HangUpThen(z, C, "done", "ok"))
  <2>1. MayGoOn(z.frame, "done") /\ Ending(z.frame, "done") < Ahead(x)
    BY <1>1, <1>2, <1>9 DEF MayGoOn, Ending, Behind, Stage
  <2> QED
    BY <1>1, <1>2, <1>9, <2>1, GoesToHangUp
<1> QED
  BY <1>3, <1>4, <1>5, <1>6, <1>7, <1>8, <1>9

LEMMA HandlerAdvances ==
    ASSUME ServiceInv, NEW h \in Handlers, FrameOK(proc[h]), HandlerStep(h) \/ HandlerFaults(h)
    PROVE  Advances(h)
<1>1. h \in Processes
  BY HandlerFacts
<1>2. CASE Respond(h)
  <2>1. proc[h].pc = "done" /\ Resume(h, IdleProc)
    BY <1>2 DEF Respond
  <2>2. IdleProc.pc = "idle" /\ Ahead(proc[h]) = 1
    BY <2>1 DEF IdleProc, Ahead, Stage
  <2> QED
    BY <1>1, <2>1, <2>2, GoesTo DEF Stage, CleanupPcs
<1>3. CASE \/ Bind(h) \/ Claim(h) \/ Recheck(h) \/ Prompt(h) \/ Complete(h) \/ Acknowledge(h)
           \/ HandlerFault(h) \/ PromptFault(h) \/ CompleteLost(h)
  BY <1>3, BlockAdvances
<1> QED
  BY <1>1, <1>2, <1>3, GetAdvances, ReloadAdvances, TimeoutAdvances, CleanupAdvances
     DEF HandlerStep, HandlerFaults
-----------------------------------------------------------------------------
(* What one step may do to a coroutine. *)
MovesOn(p) == proc[p].pc # "idle" => Nearer(proc[p], proc'[p]) \/ UNCHANGED proc[p]

LEMMA OthersWait ==
    ASSUME ServiceInv, FramesOK, NEW q \in Processes, NEW y, Resume(q, y), FrameOK(y),
           proc[q].pc = "idle" \/ Nearer(proc[q], y)
    PROVE  FramesOK' /\ \A p \in Processes : MovesOn(p)
<1>1. proc'[q] = y /\ \A p \in Processes \ {q} : proc'[p] = proc[p]
  BY DEF ServiceInv, Typed, Resume
<1>2. \A p \in Processes : FrameOK(proc'[p])
  BY <1>1 DEF FramesOK
<1> QED
  BY <1>1, <1>2 DEF FramesOK, MovesOn

LEMMA AdvanceMoves ==
    ASSUME ServiceInv, FramesOK, NEW q \in Processes, Advances(q)
    PROVE  FramesOK' /\ \A p \in Processes : MovesOn(p)
<1>1. PICK y : Resume(q, y) /\ FrameOK(y) /\ Nearer(proc[q], y)
  BY DEF Advances
<1> QED
  BY <1>1, OthersWait

LEMMA StartMoves ==
    ASSUME ServiceInv, FramesOK, NEW q \in Processes, proc[q].pc = "idle",
           NEW y, Resume(q, y), y.pc \notin CleanupPcs
    PROVE  FramesOK' /\ \A p \in Processes : MovesOn(p)
  BY PcAhead, OthersWait

LEMMA AskMoves ==
    ASSUME ServiceInv, FramesOK, NEW a \in Asks, NEW k, NEW payload, Ask(a, k, payload)
    PROVE  FramesOK' /\ \A p \in Processes : MovesOn(p)
<1> DEFINE y == Goto(IdleProc, "insert")
<1>1. a \in Processes /\ proc[a].pc = "idle" /\ Resume(a, y)
  BY DEF Ask, Processes
<1>2. y.pc = "insert"
  BY DEF Goto, IdleProc
<1> HIDE DEF y
<1> QED
  BY <1>1, <1>2, StartMoves DEF CleanupPcs

LEMMA DeliverMoves ==
    ASSUME ServiceInv, FramesOK, NEW h \in Handlers, NEW e, Deliver(h, e)
    PROVE  FramesOK' /\ \A p \in Processes : MovesOn(p)
<1> DEFINE y == [IdleProc EXCEPT !.pc = "get", !.req = calls[e.call].req]
<1>1. h \in Processes /\ proc[h].pc = "idle" /\ Resume(h, y)
  BY DEF Deliver, Processes
<1>2. y.pc = "get"
  BY DEF IdleProc
<1> HIDE DEF y
<1> QED
  BY <1>1, <1>2, StartMoves DEF CleanupPcs

(* A restart ends the running invocations and forgets the handlers. *)
LEMMA CrashMoves ==
    ASSUME ServiceInv, FramesOK, Crash
    PROVE  FramesOK' /\ \A p \in Processes : MovesOn(p)
<1> SUFFICES ASSUME NEW p \in Processes PROVE FrameOK(proc'[p]) /\ MovesOn(p)
  BY DEF FramesOK
<1>1. proc'[p] = IF p \in Handlers THEN IdleProc
                 ELSE IF Running(p) THEN Finish(proc[p], "crashed") ELSE proc[p]
  BY DEF Crash
<1>2. FrameOK(proc[p]) /\ proc[p] \in ProcStates
  BY ProcFacts DEF FramesOK
<1>3. CASE p \in Handlers
  <2>1. proc'[p] = IdleProc /\ IdleProc.pc = "idle"
    BY <1>1, <1>3 DEF IdleProc
  <2>2. FrameOK(proc'[p]) /\ Ahead(proc'[p]) = 0
    BY <2>1, PcAhead DEF CleanupPcs, Stage
  <2>3. proc[p].pc = "idle" \/ Ahead(proc[p]) > 0
    BY <1>2, BehindRange DEF ProcStates, AskPcs, HandlerPcs, CleanupPcs, Ahead, Ending, Stage
  <2> QED
    BY <2>2, <2>3 DEF MovesOn, Nearer
<1>4. CASE p \notin Handlers /\ Running(p)
  <2>1. proc'[p] = Finish(proc[p], "crashed")
    BY <1>1, <1>4
  <2>2. FrameOK(proc'[p]) /\ Ahead(proc'[p]) = 1
    BY <2>1, FinishAhead
  <2>3. Ahead(proc[p]) > 1
    BY <1>2, <1>4, BehindRange DEF Running, ProcStates, AskPcs, HandlerPcs, CleanupPcs, Ahead, Ending, Stage
  <2> QED
    BY <2>2, <2>3 DEF MovesOn, Nearer
<1>5. CASE p \notin Handlers /\ ~Running(p)
  BY <1>1, <1>2, <1>5 DEF MovesOn
<1> QED
  BY <1>3, <1>4, <1>5

LEMMA ProcStays ==
    ASSUME FramesOK, UNCHANGED proc
    PROVE  FramesOK' /\ \A p \in Processes : MovesOn(p)
<1>1. \A p \in Processes : proc'[p] = proc[p] /\ FrameOK(proc'[p])
  BY DEF FramesOK
<1> QED
  BY <1>1 DEF FramesOK, MovesOn

LEMMA NextMoves ==
    ASSUME ServiceInv, FramesOK, [Next]_vars
    PROVE  FramesOK' /\ \A p \in Processes : MovesOn(p)
<1>1. CASE \E a \in Asks : Client(a) \/ AskStep(a) \/ AskFault(a)
  <2>1. PICK a \in Asks : Client(a) \/ AskStep(a) \/ AskFault(a)
    BY <1>1
  <2>2. a \in Processes /\ FrameOK(proc[a])
    BY DEF Processes, FramesOK
  <2>3. CASE Cancel(a)
    BY <2>3, ProcStays DEF Cancel
  <2>4. CASE \E k \in Keys, payload \in Payloads : Ask(a, k, payload)
    BY <2>4, AskMoves
  <2>5. CASE AskStep(a) \/ AskFault(a)
    BY <2>2, <2>5, AskAdvances, AdvanceMoves
  <2> QED
    BY <2>1, <2>3, <2>4, <2>5 DEF Client
<1>2. CASE \E h \in Handlers : HandlerStep(h) \/ HandlerFaults(h) \/ \E e \in sent : Deliver(h, e)
  <2>1. PICK h \in Handlers : HandlerStep(h) \/ HandlerFaults(h) \/ \E e \in sent : Deliver(h, e)
    BY <1>2
  <2>2. h \in Processes /\ FrameOK(proc[h])
    BY DEF Processes, FramesOK
  <2>3. CASE HandlerStep(h) \/ HandlerFaults(h)
    BY <2>2, <2>3, HandlerAdvances, AdvanceMoves
  <2> QED
    BY <2>1, <2>3, DeliverMoves
<1>3. CASE \E c \in CallIds : Person(c) \/ SweepFault(c)
  <2>1. UNCHANGED proc
    BY <1>3 DEF Person, PickUp, PutDown, NotReached, Hear, SweepFault, serviceVars
  <2> QED
    BY <2>1, ProcStays
<1>4. CASE Maintenance \/ ExpirePassLost \/ PurgePass \/ ClockTick \/ UNCHANGED vars
  <2>1. UNCHANGED proc
    BY <1>4 DEF Maintenance, ExpirePass, Sweep, ExpirePassLost, PurgePass, ClockTick, vars, serviceVars
  <2> QED
    BY <2>1, ProcStays
<1> QED
  BY <1>1, <1>2, <1>3, <1>4, CrashMoves DEF Next

LEMMA FramesInit ==
    Init => FramesOK
<1> SUFFICES ASSUME Init, NEW p \in Processes PROVE FrameOK(proc[p])
  BY DEF FramesOK
<1>1. proc[p].pc = "idle"
  BY DEF Init, IdleProc
<1> QED
  BY <1>1, PcAhead DEF CleanupPcs

(* Each step of an invocation or of an event's handler, through whichever   *)
(* failure, cancellation, timeout or restart, takes it nearer its end, and  *)
(* the steps of everybody else leave it where it is.                        *)
CoroutinesAdvance ==
    [][\A p \in Processes : proc[p].pc # "idle" => Nearer(proc[p], proc'[p]) \/ UNCHANGED proc[p]]_vars

(* No invocation of ask() and no handler of an event goes on for ever: at   *)
(* most 26 stages lie ahead of it, of one await each except that a hang-up  *)
(* may be of several calls, one fewer each time.  What the except clauses   *)
(* start to clean up after one another, _expire after a lost write and      *)
(* _fail after that, cannot come round; a turn of _poll that finds no       *)
(* terminal row changes nothing and is no step.                             *)
THEOREM CoroutinesEnd == Spec => CoroutinesAdvance
<1>1. ServiceInv /\ FramesOK /\ [Next]_vars => FramesOK'
  BY NextMoves
<1>2. ServiceInv /\ FramesOK /\ [Next]_vars =>
        [\A p \in Processes : proc[p].pc # "idle" => Nearer(proc[p], proc'[p]) \/ UNCHANGED proc[p]]_vars
  BY NextMoves DEF MovesOn
<1> QED
  BY <1>1, <1>2, FramesInit, ServiceInvariant, PTL DEF Spec, CoroutinesAdvance
==============================================================================
