--------------------------- MODULE CallbackEndpoint ---------------------------
(***************************************************************************)
(* The callback endpoint (api/callbacks.py, and parse_callback_events of    *)
(* main.py): ACS posts its events in batches, several deliveries are        *)
(* handled at a time, the events of a batch one after another, and what is  *)
(* not answered with 200 is delivered again.  CallEvents says what an event *)
(* means, Playback how an answer is acknowledged.                           *)
(*                                                                          *)
(* handle_call_event is here as AskHumanService has it once the person has  *)
(* been prompted: the request's row is its status, its call is attached,    *)
(* and the rest of the service is SettledElsewhere.  Its clock is left out, *)
(* and of the gauge there is only the wait for its refresh.  Tokens have    *)
(* been validated before.                                                   *)
(***************************************************************************)
EXTENDS Playback, FiniteSets, SequencesExt

CONSTANTS
    Requests,
    CallOf,         \* request -> the call attached to it
    Reports,        \* bound: request -> the types of the events ACS sends of its call
    MaxBatch        \* bound: events in a delivery

ASSUME CallsAssumption ==
    \A r, q \in Requests : CallOf[r] \in Calls /\ (CallOf[r] = CallOf[q] => r = q)

ASSUME NoneAssumption ==
    /\ MaxFaults \in Nat /\ None \notin Requests
    /\ \A r \in Requests, b \in BOOLEAN : [request |-> r, completed |-> b] # None

VARIABLES
    row,            \* request -> its status in the table
    listening,      \* the requests whose person is being listened to
    delivery,       \* delivery -> its coroutine
    sent,           \* ACS: every event there has been
    fresh           \* ACS: those not yet answered with 200

endpointVars == <<row, listening, delivery, sent, fresh>>
vars == <<playbackVars, endpointVars>>
-----------------------------------------------------------------------------
Statuses == {"absent", "pending", "responded", "expired", "failed"}

CloudEvent(type, r) ==
    [wellFormed |-> TRUE, type |-> type, request |-> r, call |-> CallOf[r],
     result |-> IF type = "RecognizeFailed" THEN <<500, 9999>> ELSE None,
     choice |-> IF type = "RecognizeCompleted" THEN "approve" ELSE None, speech |-> None]

IdleDelivery == [pc |-> "idle", batch |-> <<>>, i |-> 0, raises |-> FALSE, result |-> None]

Current(d) == delivery[d].batch[delivery[d].i]
RequestOf(d) == Current(d).request

Init ==
    /\ PlaybackInit
    /\ row = [r \in Requests |-> "absent"]
    /\ listening = {}
    /\ delivery = [d \in Deliveries |-> IdleDelivery]
    /\ sent = {} /\ fresh = {}

Send(type, r) ==
    IF type \in Reports[r]
    THEN sent' = sent \cup {CloudEvent(type, r)} /\ fresh' = fresh \cup {CloudEvent(type, r)}
    ELSE UNCHANGED <<sent, fresh>>

Goto(d, pc) == delivery' = [delivery EXCEPT ![d].pc = pc]

Finish(d, result) == delivery' = [delivery EXCEPT ![d].pc = "done", ![d].result = result]

(* The event has been handled: on to the next one of the batch, or a raise. *)
Advance(d) ==
    IF delivery[d].raises THEN Finish(d, "error")
    ELSE IF delivery[d].i = Len(delivery[d].batch) THEN Finish(d, "ok")
    ELSE delivery' = [delivery EXCEPT ![d].i = @ + 1, ![d].pc = "get"]
-----------------------------------------------------------------------------
(* receive_callback: a batch with an event the parser refuses is a 400. *)
Receive(d, b) ==
    /\ delivery[d].pc = "idle"
    /\ delivery' = [delivery EXCEPT ![d] =
            IF ParsableBatch(b) THEN [IdleDelivery EXCEPT !.pc = "get", !.batch = b, !.i = 1]
            ELSE [IdleDelivery EXCEPT !.pc = "done", !.batch = b, !.result = "refused"]]
    /\ UNCHANGED <<playbackVars, row, listening, sent, fresh>>

(* repository.get, and the branches of handle_call_event up to its next     *)
(* await.                                                                   *)
Get(d) ==
    LET e == Current(d) IN
    /\ delivery[d].pc = "get"
    /\ IF DomainEvent(e) \in {"play_completed", "play_failed"}
       THEN HandlePlaybackEvent(e.call, e.request) /\ Advance(d)
       ELSE /\ UNCHANGED playbacks
            /\ IF row[e.request] # "pending" \/ Effect("approval", e) = "ignored" THEN Advance(d)
               ELSE Goto(d, IF Effect("approval", e) = "failed" THEN "fail" ELSE "complete")
    /\ UNCHANGED <<ack, media, faults, row, listening, sent, fresh>>

(* Mutant: the error of one event is swallowed, and the batch goes on. *)
GetFaultSwallowed(d) ==
    /\ delivery[d].pc = "get"
    /\ Advance(d)
    /\ Fault
    /\ UNCHANGED <<playbacks, ack, media, row, listening, sent, fresh>>

GetFault(d) ==
    /\ delivery[d].pc = "get"
    /\ Finish(d, "error")
    /\ Fault
    /\ UNCHANGED <<playbacks, ack, media, row, listening, sent, fresh>>

Settle(r, status) ==
    row' = IF row[r] = "pending" THEN [row EXCEPT ![r] = status] ELSE row

(* complete_if_pending: the winner acknowledges an answer, and ends the     *)
(* call of a request without one.                                           *)
Complete(d) ==
    LET e == Current(d)  answered == Effect("approval", e) \in RespondedTypes IN
    /\ delivery[d].pc = "complete"
    /\ Settle(e.request, IF answered THEN "responded" ELSE "expired")
    /\ IF row[e.request] # "pending" THEN Advance(d) /\ UNCHANGED <<playbacks, ack>>
       ELSE IF ~answered THEN Goto(d, "hang_up") /\ UNCHANGED <<playbacks, ack>>
       ELSE Owe(d, e.call, e.request) /\ Goto(d, "acknowledge") /\ UNCHANGED playbacks
    /\ UNCHANGED <<media, faults, listening, sent, fresh>>

(* The gauge has been refreshed, and acknowledge_and_hang_up is called. *)
BeginAcknowledge(d) ==
    /\ Register(d)
    /\ IF ack'[d].pc = "none" THEN Advance(d) ELSE UNCHANGED delivery
    /\ UNCHANGED <<row, listening, sent, fresh>>

(* It fails, before or after the table was written. *)
CompleteFault(d) ==
    LET e == Current(d) IN
    /\ delivery[d].pc = "complete"
    /\ \/ UNCHANGED row
       \/ Settle(e.request, IF Effect("approval", e) \in RespondedTypes THEN "responded" ELSE "expired")
    /\ Goto(d, "fail")
    /\ Fault
    /\ UNCHANGED <<playbacks, ack, media, listening, sent, fresh>>

(* _fail: the call of a request that this handler failed is ended.  When    *)
(* _fail itself fails it hangs up all the same, and raises.                 *)
Fail(d) ==
    /\ delivery[d].pc = "fail"
    /\ Settle(RequestOf(d), "failed")
    /\ IF row[RequestOf(d)] = "pending" THEN Goto(d, "hang_up") ELSE Advance(d)
    /\ UNCHANGED <<playbackVars, listening, sent, fresh>>

FailFault(d) ==
    /\ delivery[d].pc = "fail"
    /\ UNCHANGED row \/ Settle(RequestOf(d), "failed")
    /\ delivery' = [delivery EXCEPT ![d].pc = "hang_up", ![d].raises = TRUE]
    /\ Fault
    /\ UNCHANGED <<playbacks, ack, media, listening, sent, fresh>>

(* The steps of the acknowledgement; when it is over the handler goes on,   *)
(* or, when it raised, ends the call itself.                                *)
Acknowledge(d) ==
    /\ PlayMedia(d) \/ PlayReply(d) \/ HeardOut(d) \/ PlaybackTimeout(d)
    /\ UNCHANGED endpointVars

PlaybackFault(d) == (PlayFault(d) \/ CleanupTimeout(d)) /\ UNCHANGED endpointVars

HangUpReports(c) ==
    IF media[c].up /\ ~media'[c].up
    THEN /\ listening' = {r \in listening : CallOf[r] # c}
         /\ Send("CallDisconnected", CHOOSE r \in Requests : CallOf[r] = c)
    ELSE UNCHANGED <<listening, sent, fresh>>

Acknowledged(d) ==
    /\ HangUp(d)
    /\ HangUpReports(Current(d).call)
    /\ IF ack[d].raises THEN Goto(d, "hang_up") ELSE Advance(d)
    /\ UNCHANGED row

(* Mutant: an acknowledgement that failed is left at that. *)
AcknowledgeFaultIgnored(d) ==
    /\ HangUpFault(d)
    /\ HangUpReports(Current(d).call)
    /\ Advance(d)
    /\ UNCHANGED row

AcknowledgeFault(d) ==
    /\ HangUpFault(d)
    /\ HangUpReports(Current(d).call)
    /\ Goto(d, "hang_up")
    /\ UNCHANGED row

(* _best_effort_hang_up: a failure is suppressed. *)
BestEffortHangUp(d) ==
    /\ delivery[d].pc = "hang_up"
    /\ Down(Current(d).call)
    /\ HangUpReports(Current(d).call)
    /\ Advance(d)
    /\ UNCHANGED <<playbacks, ack, faults, row>>

BestEffortHangUpFault(d) ==
    /\ delivery[d].pc = "hang_up"
    /\ Advance(d)
    /\ Fault
    /\ UNCHANGED <<playbacks, ack, media, row, listening, sent, fresh>>

(* 200, or 400 or 5xx and ACS delivers again. *)
Respond(d) ==
    /\ delivery[d].pc = "done"
    /\ fresh' = IF delivery[d].result = "ok" THEN fresh \ ToSet(delivery[d].batch) ELSE fresh
    /\ delivery' = [delivery EXCEPT ![d] = IdleDelivery]
    /\ UNCHANGED <<playbackVars, row, listening, sent>>
-----------------------------------------------------------------------------
(*              The rest of the service, ACS and the person                 *)

(* A request is admitted when no other is pending; its call is picked up    *)
(* and the person prompted.                                                 *)
Prompted(r) ==
    /\ row[r] = "absent" /\ \A q \in Requests : row[q] # "pending"
    /\ row' = [row EXCEPT ![r] = "pending"]
    /\ media' = [media EXCEPT ![CallOf[r]].up = TRUE]
    /\ listening' = listening \cup {r}
    /\ UNCHANGED <<playbacks, ack, faults, delivery, sent, fresh>>

(* The request is expired by its invocation or by maintenance. *)
SettledElsewhere(r) ==
    /\ row[r] = "pending"
    /\ Settle(r, "expired")
    /\ Down(CallOf[r])
    /\ HangUpReports(CallOf[r])
    /\ UNCHANGED <<playbacks, ack, faults, delivery>>

Hear(r, type) ==
    /\ r \in listening /\ type \in {"RecognizeCompleted", "RecognizeFailed"} \cap Reports[r]
    /\ listening' = listening \ {r}
    /\ Send(type, r)
    /\ UNCHANGED <<playbackVars, row, delivery>>

PutDown(r) ==
    /\ media[CallOf[r]].up
    /\ Down(CallOf[r])
    /\ HangUpReports(CallOf[r])
    /\ UNCHANGED <<playbacks, ack, faults, row, delivery>>

PlaybackReported(r, type) ==
    /\ PlaybackOver(CallOf[r]) /\ type \in {"PlayCompleted", "PlayFailed"} \cap Reports[r]
    /\ Send(type, r)
    /\ UNCHANGED <<row, listening, delivery>>

(* ACS sends an event of a type that the parser does not know. *)
Unknown(r) ==
    /\ media[CallOf[r]].up /\ "ParticipantsUpdated" \in Reports[r]
    /\ CloudEvent("ParticipantsUpdated", r) \notin sent
    /\ Send("ParticipantsUpdated", r)
    /\ UNCHANGED <<playbackVars, row, listening, delivery>>

(* Bound: the batches of at most MaxBatch events. *)
Batches(S) == {<<e>> : e \in S} \cup
              IF MaxBatch = 1 THEN {} ELSE {<<e, f>> : e, f \in S} \ {<<e, e>> : e \in S}

Post(d) == \E b \in Batches(fresh) : Receive(d, b)

Handle(d) ==
    \/ Get(d) \/ Complete(d) \/ Fail(d) \/ BeginAcknowledge(d) \/ Acknowledge(d)
    \/ Acknowledged(d) \/ BestEffortHangUp(d) \/ Respond(d)

Faults(d) ==
    \/ GetFault(d) \/ CompleteFault(d) \/ FailFault(d) \/ PlaybackFault(d)
    \/ AcknowledgeFault(d) \/ BestEffortHangUpFault(d)

World(r) ==
    \/ Prompted(r) \/ SettledElsewhere(r) \/ PutDown(r) \/ Unknown(r)
    \/ \E type \in Reports[r] : Hear(r, type) \/ PlaybackReported(r, type)

Next ==
    \/ \E d \in Deliveries : Post(d) \/ Handle(d) \/ Faults(d)
    \/ \E r \in Requests : World(r)

Spec == Init /\ [][Next]_vars
-----------------------------------------------------------------------------
AckStates ==
    [pc: {"none", "due", "play", "reply", "wait", "hang_up"}, call: Calls \cup {None},
     request: Requests \cup {None}, cut: BOOLEAN, raises: BOOLEAN]

TypeOK ==
    /\ playbacks \in [Calls -> [request: Requests, completed: BOOLEAN] \cup {None}]
    /\ ack \in [Deliveries -> AckStates]
    /\ media \in [Calls -> [up: BOOLEAN, playing: BOOLEAN]]
    /\ faults \in 0..MaxFaults
    /\ row \in [Requests -> Statuses]
    /\ listening \subseteq Requests
    /\ \A d \in Deliveries :
          /\ delivery[d].pc \in {"idle", "get", "complete", "fail", "acknowledge", "hang_up", "done"}
          /\ ToSet(delivery[d].batch) \subseteq sent
          /\ delivery[d].result \in {"ok", "error", "refused", None}
          /\ delivery[d].pc = "acknowledge" <=> ack[d].pc # "none"
    /\ fresh \subseteq sent

(* An event that ends a request is not answered with 200 before the request *)
(* has ended, whichever of its batch failed, and in whatever order and how  *)
(* often it was delivered (receive_callback).                               *)
NoEventLost ==
    \A e \in sent \ fresh :
        Parsable(e) /\ Effect("approval", e) # "ignored" => row[e.request] # "pending"

(* A call is registered exactly while one delivery plays its thanks, for    *)
(* the request of that call: no failure or timeout leaves a registration    *)
(* behind that would keep a later acknowledgement from hanging up           *)
(* (acknowledge_and_hang_up).                                               *)
RegisteredWhilePlaying ==
    \A c \in Calls :
        LET players == {d \in Deliveries : Playing(d) /\ ack[d].call = c} IN
        /\ Cardinality(players) <= 1
        /\ playbacks[c] # None <=> players # {}
        /\ \A d \in players : playbacks[c].request = ack[d].request /\ CallOf[ack[d].request] = c

(* The thanks are heard out: nobody hangs up on them but the person, unless *)
(* they took too long or a call to ACS failed, even when the thanks of two  *)
(* calls are played at once and a report comes late (handle_playback_event).*)
ThanksHeardOut ==
    \A d \in Deliveries :
        ack[d].pc = "hang_up" /\ ~ack[d].cut => ~media[ack[d].call].playing

(* A report of the playback that was accepted is not waited for again, even *)
(* when it overtook the reply to play_media (acknowledge_and_hang_up).      *)
ReportNotLost ==
    \A d \in Deliveries, type \in {"PlayCompleted", "PlayFailed"} :
        Playing(d) /\ CloudEvent(type, ack[d].request) \in sent \ fresh =>
            playbacks[ack[d].call].completed

(* The handler of an answer on record acknowledges it, or hangs up.         *)
Ending(d) == delivery[d].pc \in {"acknowledge", "hang_up"} /\ row[RequestOf(d)] = "responded"

(* Once the handler that recorded the answer has learnt so, a single failure*)
(* leaves no call up: it acknowledges, leaves the acknowledgement with the  *)
(* call ended or, when that failed, to hang up itself, and leaves the       *)
(* hang-up with the call ended unless that failed too.  The handler to      *)
(* which the reply of its completion was lost does not know that it won,    *)
(* and this says nothing of it (handle_call_event, acknowledge_and_hang_up).*)
AnsweredCallEnds ==
    [][/\ \A r \in Requests :
             row[r] = "pending" /\ row'[r] = "responded" /\ UNCHANGED faults =>
                 \E d \in Deliveries : delivery'[d].pc = "acknowledge" /\ ack'[d].request = r
       /\ \A d \in Deliveries : Ending(d) /\ delivery'[d].pc # delivery[d].pc =>
             \/ ~media'[Current(d).call].up
             \/ /\ faults' > faults
                /\ delivery[d].pc = "acknowledge" => delivery'[d].pc = "hang_up" /\ Current(d)' = Current(d)
      ]_vars

(* No delivery waits for an event or a timer that may never come, whether   *)
(* or not the thanks are ever reported to be over: it always has a step of  *)
(* its own to take, and so it ends (acknowledge_and_hang_up).               *)
DeliveriesMove == \A d \in Deliveries : delivery[d].pc # "idle" => ENABLED Handle(d)
=============================================================================
