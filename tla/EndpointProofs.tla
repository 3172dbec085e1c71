----------------------------- MODULE EndpointProofs -----------------------------
(***************************************************************************)
(* Proofs about CallbackEndpoint, for every number of requests, calls,      *)
(* deliveries and failures, and batches of one or two events.               *)
(*                                                                          *)
(* EndpointInv says what links a delivery to the registry of playbacks and  *)
(* to ACS: an acknowledgement is of the event that its delivery has come    *)
(* to; a registration is of one acknowledgement that plays; the thanks of a *)
(* request are asked for once, after its answer, and reported once they are *)
(* over; an event that a delivery is past, and one that was answered with   *)
(* 200, has had its effect; and what may keep an answered call up is a      *)
(* failure.  An event that has had its effect keeps it (FinishedStays), and *)
(* each part is preserved by what leaves its own concern alone (the Frame   *)
(* lemmas), so that a step is left with what it does itself.                *)
(***************************************************************************)
EXTENDS CallbackEndpoint, FiniteSetTheorems, TLAPS

Types == {"RecognizeCompleted", "RecognizeFailed", "CallDisconnected", "PlayCompleted", "PlayFailed",
          "ParticipantsUpdated"}
Events == {CloudEvent(type, r) : type \in Types, r \in Requests}

PlaybackStates == [request: Requests, completed: BOOLEAN] \cup {None}
MediaStates == [up: BOOLEAN, playing: BOOLEAN]
DeliveryStates ==
    [pc: {"idle", "get", "complete", "fail", "acknowledge", "hang_up", "done"}, batch: Seq(Events),
     i: Nat, raises: BOOLEAN, result: {"ok", "error", "refused", None}]

PlayTypes == {"PlayCompleted", "PlayFailed"}

Busy(d) == delivery[d].pc \notin {"idle", "done"}

StateOK ==
    /\ playbacks \in [Calls -> PlaybackStates]
    /\ ack \in [Deliveries -> AckStates]
    /\ media \in [Calls -> MediaStates]
    /\ faults \in 0..MaxFaults
    /\ row \in [Requests -> Statuses]
    /\ listening \subseteq Requests
    /\ sent \subseteq Events /\ fresh \subseteq sent
    /\ delivery \in [Deliveries -> DeliveryStates]

(* What a delivery works on has been sent, and its acknowledgement is of    *)
(* the event it has come to.                                                *)
BatchesOK ==
    \A d \in Deliveries :
        /\ \A j \in DOMAIN delivery[d].batch : delivery[d].batch[j] \in sent
        /\ Busy(d) => delivery[d].i \in DOMAIN delivery[d].batch
        /\ Busy(d) /\ delivery[d].pc # "get" => Current(d).type \notin PlayTypes
        /\ delivery[d].pc = "acknowledge" <=> ack[d].pc # "none"
        /\ ack[d].pc # "none" => ack[d].request = RequestOf(d) /\ ack[d].call = Current(d).call

(* Nothing is heard of a request before its person has been prompted.       *)
Reached(r) == row[r] # "absent"

WorldOK ==
    /\ \A e \in sent : Reached(e.request)
    /\ \A r \in listening : Reached(r)
    /\ \A r \in Requests : media[CallOf[r]].up => Reached(r)

(* A registration is of one acknowledgement that plays, of an answer on     *)
(* record; there is one acknowledgement of a call.                          *)
RegistryOK ==
    /\ \A d \in Deliveries : Playing(d) =>
          playbacks[ack[d].call] # None /\ playbacks[ack[d].call].request = ack[d].request
    /\ \A d, k \in Deliveries : ack[d].pc # "none" /\ ack[k].pc # "none" /\ ack[d].call = ack[k].call => d = k
    /\ \A c \in Calls : playbacks[c] # None => \E d \in Deliveries : Playing(d) /\ ack[d].call = c
    /\ \A d \in Deliveries : ack[d].pc # "none" => row[ack[d].request] = "responded"

(* The requests the end of whose thanks has been reported, and those whose  *)
(* thanks are about to be asked for.                                        *)
Reported == {r \in Requests : \E e \in sent : e.type \in PlayTypes /\ e.request = r}
Asking == {r \in Requests : \E d \in Deliveries : ack[d].pc \in {"due", "play"} /\ ack[d].request = r}

(* The thanks of a request are asked for once, after its answer; a report   *)
(* is of thanks that are over.                                              *)
ThanksOK ==
    /\ \A r \in Requests :
          media[CallOf[r]].playing \/ r \in Reported => row[r] = "responded" /\ r \notin Asking
    /\ \A r \in Reported : ~media[CallOf[r]].playing
    /\ \A c \in Calls : playbacks[c] # None /\ playbacks[c].completed => playbacks[c].request \in Reported
    /\ \A d \in Deliveries : ack[d].pc = "hang_up" /\ ~ack[d].cut => ack[d].request \in Reported

(* The events that have had their effect.                                   *)
Settles(e) == Parsable(e) /\ Effect("approval", e) # "ignored"

Finished ==
    {e \in Events :
        /\ Settles(e) => row[e.request] # "pending"
        /\ e.type \in PlayTypes =>
              \A d \in Deliveries : Playing(d) /\ ack[d].request = e.request => playbacks[ack[d].call].completed}

(* A delivery is past its event number j. *)
Past(d, j) ==
    \/ Busy(d) /\ j < delivery[d].i
    \/ delivery[d].pc \in {"acknowledge", "hang_up"} /\ ~delivery[d].raises /\ j = delivery[d].i
    \/ delivery[d].pc = "done" /\ delivery[d].result = "ok"

HandledOK ==
    /\ sent \ fresh \subseteq Finished
    /\ \A d \in Deliveries : \A j \in DOMAIN delivery[d].batch : Past(d, j) => delivery[d].batch[j] \in Finished

(* What may keep an answered call up counts as a failure.                   *)
FaultsOK ==
    \A d \in Deliveries :
        /\ ack[d].raises => faults > 0
        /\ delivery[d].pc = "hang_up" => faults > 0 \/ row[RequestOf(d)] \in {"expired", "failed"}
        /\ delivery[d].raises => delivery[d].pc \in {"hang_up", "done"}

EndpointInv == StateOK /\ BatchesOK /\ WorldOK /\ RegistryOK /\ ThanksOK /\ HandledOK /\ FaultsOK
-----------------------------------------------------------------------------
(*                 What the parts of a step do to the state                *)

LEMMA EventFacts ==
    ASSUME NEW e \in Events
    PROVE  e.type \in Types /\ e.request \in Requests /\ e.call = CallOf[e.request] /\ e.call \in Calls
<1>1. PICK type \in Types, r \in Requests : e = CloudEvent(type, r)
  BY DEF Events
<1>2. e.type = type /\ e.request = r /\ e.call = CallOf[r]
  BY <1>1 DEF CloudEvent
<1> QED
  BY <1>1, <1>2, CallsAssumption

(* The event that a delivery has come to.                                   *)
LEMMA CurrentFacts ==
    ASSUME StateOK, BatchesOK, NEW d \in Deliveries, Busy(d)
    PROVE  /\ Current(d) \in sent /\ Current(d) \in Events
           /\ RequestOf(d) \in Requests /\ RequestOf(d) = Current(d).request
           /\ Current(d).call = CallOf[RequestOf(d)] /\ Current(d).call \in Calls
           /\ delivery[d].i \in DOMAIN delivery[d].batch
<1>1. delivery[d].i \in DOMAIN delivery[d].batch
  BY DEF BatchesOK
<1>2. Current(d) \in sent
  BY <1>1 DEF BatchesOK, Current
<1>3. Current(d) \in Events
  BY <1>2 DEF StateOK
<1> QED
  BY <1>1, <1>2, <1>3, EventFacts DEF RequestOf

(* A delivery that goes somewhere stays with its event.                     *)
LEMMA GotoFacts ==
    ASSUME StateOK, NEW d \in Deliveries, NEW pc \in {"complete", "fail", "acknowledge", "hang_up"}, Goto(d, pc)
    PROVE  /\ delivery' \in [Deliveries -> DeliveryStates]
           /\ \A k \in Deliveries \ {d} : delivery'[k] = delivery[k]
           /\ delivery'[d].pc = pc /\ delivery'[d].batch = delivery[d].batch /\ delivery'[d].i = delivery[d].i
           /\ delivery'[d].raises = delivery[d].raises
<1>1. delivery[d] \in DeliveryStates /\ delivery \in [Deliveries -> DeliveryStates]
  BY DEF StateOK
<1>2. delivery' = [delivery EXCEPT ![d] = [delivery[d] EXCEPT !.pc = pc]]
  BY DEF Goto
<1>3. [delivery[d] EXCEPT !.pc = pc] \in DeliveryStates
  BY <1>1 DEF DeliveryStates
<1>4. /\ [delivery[d] EXCEPT !.pc = pc].pc = pc
      /\ [delivery[d] EXCEPT !.pc = pc].batch = delivery[d].batch
      /\ [delivery[d] EXCEPT !.pc = pc].i = delivery[d].i
      /\ [delivery[d] EXCEPT !.pc = pc].raises = delivery[d].raises
  BY <1>1 DEF DeliveryStates
<1>5. delivery'[d] = [delivery[d] EXCEPT !.pc = pc] /\ \A k \in Deliveries \ {d} : delivery'[k] = delivery[k]
  BY <1>1, <1>2
<1>6. delivery' \in [Deliveries -> DeliveryStates]
  BY <1>1, <1>2, <1>3
<1> QED
  BY <1>4, <1>5, <1>6

LEMMA FinishFacts ==
    ASSUME StateOK, NEW d \in Deliveries, NEW result \in {"ok", "error"}, Finish(d, result)
    PROVE  /\ delivery' \in [Deliveries -> DeliveryStates]
           /\ \A k \in Deliveries \ {d} : delivery'[k] = delivery[k]
           /\ delivery'[d].pc = "done" /\ delivery'[d].batch = delivery[d].batch
           /\ delivery'[d].raises = delivery[d].raises /\ delivery'[d].result = result
<1> DEFINE new == [delivery[d] EXCEPT !.pc = "done", !.result = result]
<1>1. delivery[d] \in DeliveryStates /\ delivery \in [Deliveries -> DeliveryStates]
  BY DEF StateOK
<1>2. delivery' = [delivery EXCEPT ![d] = new]
  BY DEF Finish
<1>3. new \in DeliveryStates
  BY <1>1 DEF DeliveryStates
<1>4. /\ new.pc = "done" /\ new.batch = delivery[d].batch /\ new.raises = delivery[d].raises
      /\ new.result = result
  BY <1>1 DEF DeliveryStates
<1> HIDE DEF new
<1>5. delivery'[d] = new /\ \A k \in Deliveries \ {d} : delivery'[k] = delivery[k]
  BY <1>1, <1>2
<1>6. delivery' \in [Deliveries -> DeliveryStates]
  BY <1>1, <1>2, <1>3
<1> QED
  BY <1>4, <1>5, <1>6

(* The end of an event: an error, the end of the batch, or the next event.  *)
LEMMA AdvanceFacts ==
    ASSUME StateOK, NEW d \in Deliveries, Advance(d)
    PROVE  /\ delivery' \in [Deliveries -> DeliveryStates]
           /\ \A k \in Deliveries \ {d} : delivery'[k] = delivery[k]
           /\ delivery'[d].batch = delivery[d].batch /\ delivery'[d].raises = delivery[d].raises
           /\ \/ delivery[d].raises /\ delivery'[d].pc = "done" /\ delivery'[d].result = "error"
              \/ /\ ~delivery[d].raises /\ delivery[d].i = Len(delivery[d].batch)
                 /\ delivery'[d].pc = "done" /\ delivery'[d].result = "ok"
              \/ /\ ~delivery[d].raises /\ delivery[d].i # Len(delivery[d].batch)
                 /\ delivery'[d].pc = "get" /\ delivery'[d].i = delivery[d].i + 1
<1>1. delivery[d] \in DeliveryStates /\ delivery \in [Deliveries -> DeliveryStates]
  BY DEF StateOK
<1>2. CASE delivery[d].raises
  BY <1>2, FinishFacts DEF Advance
<1>3. CASE ~delivery[d].raises /\ delivery[d].i = Len(delivery[d].batch)
  BY <1>3, FinishFacts DEF Advance
<1>4. CASE ~delivery[d].raises /\ delivery[d].i # Len(delivery[d].batch)
  <2> DEFINE new == [delivery[d] EXCEPT !.i = delivery[d].i + 1, !.pc = "get"]
  <2>1. delivery' = [delivery EXCEPT ![d] = new]
    BY <1>4 DEF Advance
  <2>2. new \in DeliveryStates
    <3>1. delivery[d].i + 1 \in Nat
      BY <1>1 DEF DeliveryStates
    <3> QED
      BY <1>1, <3>1 DEF DeliveryStates
  <2>3. /\ new.pc = "get" /\ new.batch = delivery[d].batch /\ new.raises = delivery[d].raises
        /\ new.i = delivery[d].i + 1
    BY <1>1 DEF DeliveryStates
  <2> HIDE DEF new
  <2>4. delivery'[d] = new /\ \A k \in Deliveries \ {d} : delivery'[k] = delivery[k]
    BY <1>1, <2>1
  <2>5. delivery' \in [Deliveries -> DeliveryStates]
    BY <1>1, <2>1, <2>2
  <2> QED
    BY <1>4, <2>3, <2>4, <2>5
<1> QED
  BY <1>2, <1>3, <1>4

(* The acknowledgement of a delivery is at another of its awaits.           *)
LEMMA AckGotoFacts ==
    ASSUME StateOK, NEW d \in Deliveries, NEW pc \in {"reply", "wait"}, ack' = [ack EXCEPT ![d].pc = pc]
    PROVE  /\ ack' \in [Deliveries -> AckStates]
           /\ \A k \in Deliveries \ {d} : ack'[k] = ack[k]
           /\ ack'[d].pc = pc /\ ack'[d].call = ack[d].call /\ ack'[d].request = ack[d].request
           /\ ack'[d].cut = ack[d].cut /\ ack'[d].raises = ack[d].raises
<1> DEFINE new == [ack[d] EXCEPT !.pc = pc]
<1>1. ack[d] \in AckStates /\ ack \in [Deliveries -> AckStates]
  BY DEF StateOK
<1>2. ack' = [ack EXCEPT ![d] = new]
  OBVIOUS
<1>3. new \in AckStates
  BY <1>1 DEF AckStates
<1>4. /\ new.pc = pc /\ new.call = ack[d].call /\ new.request = ack[d].request
      /\ new.cut = ack[d].cut /\ new.raises = ack[d].raises
  BY <1>1 DEF AckStates
<1> HIDE DEF new
<1>5. ack'[d] = new /\ \A k \in Deliveries \ {d} : ack'[k] = ack[k]
  BY <1>1, <1>2
<1>6. ack' \in [Deliveries -> AckStates]
  BY <1>1, <1>2, <1>3
<1> QED
  BY <1>4, <1>5, <1>6

(* The playback is over for the acknowledgement that registered it.         *)
LEMMA StopFacts ==
    ASSUME StateOK, NEW d \in Deliveries, NEW cut \in BOOLEAN, NEW raises \in BOOLEAN, Stop(d, cut, raises),
           ack[d].call \in Calls
    PROVE  /\ ack' \in [Deliveries -> AckStates]
           /\ \A k \in Deliveries \ {d} : ack'[k] = ack[k]
           /\ ack'[d].pc = "hang_up" /\ ack'[d].call = ack[d].call /\ ack'[d].request = ack[d].request
           /\ ack'[d].cut = cut /\ ack'[d].raises = raises
           /\ playbacks' \in [Calls -> PlaybackStates]
           /\ playbacks'[ack[d].call] = None
           /\ \A c \in Calls \ {ack[d].call} : playbacks'[c] = playbacks[c]
<1> DEFINE new == [ack[d] EXCEPT !.pc = "hang_up", !.cut = cut, !.raises = raises]
<1>1. ack[d] \in AckStates /\ ack \in [Deliveries -> AckStates]
  BY DEF StateOK
<1>2. ack' = [ack EXCEPT ![d] = new]
  BY DEF Stop
<1>3. new \in AckStates
  BY <1>1 DEF AckStates
<1>4. /\ new.pc = "hang_up" /\ new.call = ack[d].call /\ new.request = ack[d].request
      /\ new.cut = cut /\ new.raises = raises
  BY <1>1 DEF AckStates
<1> HIDE DEF new
<1>5. ack'[d] = new /\ \A k \in Deliveries \ {d} : ack'[k] = ack[k]
  BY <1>1, <1>2
<1>6. ack' \in [Deliveries -> AckStates]
  BY <1>1, <1>2, <1>3
<1>7. /\ playbacks' \in [Calls -> PlaybackStates]
      /\ playbacks'[ack[d].call] = None
      /\ \A c \in Calls \ {ack[d].call} : playbacks'[c] = playbacks[c]
  BY DEF StateOK, Stop, Unregister, PlaybackStates
<1> QED
  BY <1>4, <1>5, <1>6, <1>7

LEMMA EndedFacts ==
    ASSUME StateOK, NEW d \in Deliveries, Ended(d)
    PROVE  /\ ack' \in [Deliveries -> AckStates]
           /\ \A k \in Deliveries \ {d} : ack'[k] = ack[k]
           /\ ack'[d].pc = "none" /\ ~ack'[d].raises
<1>1. NoAck \in AckStates /\ NoAck.pc = "none" /\ ~NoAck.raises
  BY DEF AckStates, NoAck
<1> QED
  BY <1>1 DEF StateOK, Ended

(* An acknowledgement is owed.                                              *)
LEMMA OweFacts ==
    ASSUME StateOK, NEW d \in Deliveries, NEW c \in Calls, NEW r \in Requests, Owe(d, c, r)
    PROVE  /\ ack' \in [Deliveries -> AckStates]
           /\ \A k \in Deliveries \ {d} : ack'[k] = ack[k]
           /\ ack'[d].pc = "due" /\ ack'[d].call = c /\ ack'[d].request = r /\ ~ack'[d].raises
<1> DEFINE new == [NoAck EXCEPT !.pc = "due", !.call = c, !.request = r]
<1>1. new \in AckStates
  BY DEF AckStates, NoAck
<1>2. new.pc = "due" /\ new.call = c /\ new.request = r /\ ~new.raises
  BY DEF NoAck
<1>3. ack' = [ack EXCEPT ![d] = new] /\ ack \in [Deliveries -> AckStates]
  BY DEF StateOK, Owe
<1> HIDE DEF new
<1>4. ack'[d] = new /\ \A k \in Deliveries \ {d} : ack'[k] = ack[k]
  BY <1>3
<1>5. ack' \in [Deliveries -> AckStates]
  BY <1>1, <1>3
<1> QED
  BY <1>2, <1>4, <1>5

(* A call that is not being acknowledged is, from now on.                   *)
LEMMA RegisterFacts ==
    ASSUME StateOK, NEW d \in Deliveries, Register(d), ack[d].call \in Calls, ack[d].request \in Requests,
           playbacks[ack[d].call] = None
    PROVE  /\ ack' \in [Deliveries -> AckStates]
           /\ \A k \in Deliveries \ {d} : ack'[k] = ack[k]
           /\ ack'[d].pc = "play" /\ ack'[d].call = ack[d].call /\ ack'[d].request = ack[d].request
           /\ ack'[d].raises = ack[d].raises
           /\ playbacks' \in [Calls -> PlaybackStates]
           /\ playbacks'[ack[d].call] # None /\ playbacks'[ack[d].call].request = ack[d].request
           /\ ~playbacks'[ack[d].call].completed
           /\ \A c \in Calls \ {ack[d].call} : playbacks'[c] = playbacks[c]
<1> DEFINE new == [ack[d] EXCEPT !.pc = "play"]
<1>1. ack[d] \in AckStates /\ ack \in [Deliveries -> AckStates]
  BY DEF StateOK
<1>2. ack' = [ack EXCEPT ![d] = new]
  BY DEF Register
<1>3. new \in AckStates
  BY <1>1 DEF AckStates
<1>4. /\ new.pc = "play" /\ new.call = ack[d].call /\ new.request = ack[d].request
      /\ new.raises = ack[d].raises
  BY <1>1 DEF AckStates
<1> HIDE DEF new
<1>5. ack'[d] = new /\ \A k \in Deliveries \ {d} : ack'[k] = ack[k]
  BY <1>1, <1>2
<1>6. ack' \in [Deliveries -> AckStates]
  BY <1>1, <1>2, <1>3
<1> DEFINE p == [request |-> ack[d].request, completed |-> FALSE]
<1>7. p \in PlaybackStates /\ p.request = ack[d].request /\ ~p.completed /\ p # None
  BY NoneAssumption DEF PlaybackStates
<1>8. playbacks' = [playbacks EXCEPT ![ack[d].call] = p] /\ playbacks \in [Calls -> PlaybackStates]
  BY DEF StateOK, Register
<1> HIDE DEF p
<1>9. /\ playbacks' \in [Calls -> PlaybackStates] /\ playbacks'[ack[d].call] = p
      /\ \A c \in Calls \ {ack[d].call} : playbacks'[c] = playbacks[c]
  BY <1>7, <1>8
<1> QED
  BY <1>4, <1>5, <1>6, <1>7, <1>9

LEMMA RegistrationIsNotNone == ASSUME NEW p \in [request: Requests, completed: BOOLEAN] PROVE p # None
<1>1. p = [request |-> p.request, completed |-> p.completed]
  OBVIOUS
<1> QED
  BY <1>1, NoneAssumption

LEMMA DownFacts ==
    ASSUME StateOK, NEW c \in Calls, Down(c)
    PROVE  /\ media' \in [Calls -> MediaStates]
           /\ ~media'[c].up /\ ~media'[c].playing
           /\ \A k \in Calls \ {c} : media'[k] = media[k]
  BY DEF StateOK, Down, MediaStates

LEMMA SettleFacts ==
    ASSUME StateOK, NEW r \in Requests, NEW status \in {"responded", "expired", "failed"}, Settle(r, status)
    PROVE  /\ row' \in [Requests -> Statuses]
           /\ \A q \in Requests \ {r} : row'[q] = row[q]
           /\ row'[r] = IF row[r] = "pending" THEN status ELSE row[r]
  BY DEF StateOK, Settle, Statuses
-----------------------------------------------------------------------------
(*               What no step does, and what follows from it               *)

(* A row only moves on. *)
RowsMove ==
    \A r \in Requests :
        \/ row'[r] = row[r]
        \/ row[r] = "absent" /\ row'[r] = "pending"
        \/ row[r] = "pending" /\ row'[r] \in {"responded", "expired", "failed"}

(* An acknowledgement plays on, or is about to ask for its thanks.          *)
PlaysMove ==
    \A d \in Deliveries : Playing(d)' =>
        \/ /\ Playing(d) /\ ack'[d].request = ack[d].request /\ ack'[d].call = ack[d].call
           /\ playbacks[ack[d].call].completed => playbacks'[ack[d].call].completed
        \/ ack'[d].request \in Asking

LEMMA FinishedStays == ASSUME EndpointInv, RowsMove, PlaysMove, NEW e \in sent, e \in Finished PROVE e \in Finished'
<1>1. e \in Events /\ e.request \in Requests /\ row[e.request] # "absent"
  BY EventFacts DEF EndpointInv, StateOK, WorldOK, Reached
<1>2. Settles(e) => row'[e.request] # "pending"
  BY <1>1 DEF Finished, RowsMove
<1>3. ASSUME e.type \in PlayTypes, NEW d \in Deliveries, Playing(d)', ack'[d].request = e.request
      PROVE  playbacks'[ack'[d].call].completed
  <2>1. e.request \notin Asking
    BY <1>1, <1>3 DEF EndpointInv, ThanksOK, Reported
  <2> QED
    BY <1>3, <2>1 DEF PlaysMove, Finished
<1> QED
  BY <1>1, <1>2, <1>3 DEF Finished

Others(d) == \A k \in Deliveries \ {d} : delivery'[k] = delivery[k]
OtherAcks(d) == \A k \in Deliveries \ {d} : ack'[k] = ack[k]

LEMMA BatchesFrame ==
    ASSUME EndpointInv, NEW d \in Deliveries, Others(d), OtherAcks(d), sent \subseteq sent',
           \A j \in DOMAIN delivery'[d].batch : delivery'[d].batch[j] \in sent',
           Busy(d)' => delivery'[d].i \in DOMAIN delivery'[d].batch,
           Busy(d)' /\ delivery'[d].pc # "get" => Current(d)'.type \notin PlayTypes,
           delivery'[d].pc = "acknowledge" <=> ack'[d].pc # "none",
           ack'[d].pc # "none" => ack'[d].request = RequestOf(d)' /\ ack'[d].call = Current(d)'.call
    PROVE  BatchesOK'
<1> SUFFICES ASSUME NEW k \in Deliveries
             PROVE  /\ \A j \in DOMAIN delivery'[k].batch : delivery'[k].batch[j] \in sent'
                    /\ Busy(k)' => delivery'[k].i \in DOMAIN delivery'[k].batch
                    /\ Busy(k)' /\ delivery'[k].pc # "get" => Current(k)'.type \notin PlayTypes
                    /\ delivery'[k].pc = "acknowledge" <=> ack'[k].pc # "none"
                    /\ ack'[k].pc # "none" => ack'[k].request = RequestOf(k)' /\ ack'[k].call = Current(k)'.call
  BY DEF BatchesOK
<1>1. CASE k # d
  BY <1>1 DEF Others, OtherAcks, EndpointInv, BatchesOK, Busy, RequestOf, Current
<1> QED
  BY <1>1

LEMMA HandledFrame ==
    ASSUME EndpointInv, NEW d \in Deliveries, RowsMove, PlaysMove, Others(d),
           \A e \in sent' \ fresh' : e \in sent /\ (e \in fresh => e \in Finished'),
           \A j \in DOMAIN delivery'[d].batch : Past(d, j)' => delivery'[d].batch[j] \in Finished'
    PROVE  HandledOK'
<1>1. \A e \in sent : e \in Finished => e \in Finished'
  BY FinishedStays
<1>2. sent' \ fresh' \subseteq Finished'
  BY <1>1 DEF EndpointInv, HandledOK
<1>3. ASSUME NEW k \in Deliveries, NEW j \in DOMAIN delivery'[k].batch, Past(k, j)'
      PROVE  delivery'[k].batch[j] \in Finished'
  <2>1. CASE k # d
    <3>1. delivery'[k] = delivery[k]
      BY <2>1 DEF Others
    <3>2. Past(k, j)
      BY <1>3, <3>1 DEF Past, Busy
    <3>3. delivery[k].batch[j] \in sent /\ delivery[k].batch[j] \in Finished
      BY <1>3, <3>1, <3>2 DEF EndpointInv, HandledOK, BatchesOK
    <3> QED
      BY <1>1, <3>1, <3>3
  <2> QED
    BY <1>3, <2>1
<1> QED
  BY <1>2, <1>3 DEF HandledOK

LEMMA FaultsFrame ==
    ASSUME EndpointInv, NEW d \in Deliveries, RowsMove, Others(d), OtherAcks(d), faults > 0 => faults' > 0,
           ack'[d].raises => faults' > 0,
           delivery'[d].pc = "hang_up" => faults' > 0 \/ row'[RequestOf(d)'] \in {"expired", "failed"},
           delivery'[d].raises => delivery'[d].pc \in {"hang_up", "done"}
    PROVE  FaultsOK'
<1> SUFFICES ASSUME NEW k \in Deliveries
             PROVE  /\ ack'[k].raises => faults' > 0
                    /\ delivery'[k].pc = "hang_up" => faults' > 0 \/ row'[RequestOf(k)'] \in {"expired", "failed"}
                    /\ delivery'[k].raises => delivery'[k].pc \in {"hang_up", "done"}
  BY DEF FaultsOK
<1>1. CASE k # d
  <2>1. ack'[k] = ack[k] /\ delivery'[k] = delivery[k] /\ RequestOf(k)' = RequestOf(k)
    BY <1>1 DEF Others, OtherAcks, RequestOf, Current
  <2>2. delivery[k].pc = "hang_up" => RequestOf(k) \in Requests
    BY CurrentFacts DEF EndpointInv, Busy
  <2> QED
    BY <2>1, <2>2 DEF EndpointInv, FaultsOK, RowsMove
<1> QED
  BY <1>1

LEMMA WorldFrame ==
    ASSUME EndpointInv, RowsMove, row' \in [Requests -> Statuses], listening' \subseteq Requests,
           \A e \in sent' : e \in sent \/ (e.request \in Requests /\ Reached(e.request)),
           \A r \in listening' : r \in listening \/ row'[r] # "absent",
           \A r \in Requests : media'[CallOf[r]].up => media[CallOf[r]].up \/ row'[r] # "absent"
    PROVE  WorldOK'
<1>1. \A r \in Requests : Reached(r) => row'[r] # "absent"
  BY DEF RowsMove, Reached
<1>2. \A e \in sent : e.request \in Requests
  BY EventFacts DEF EndpointInv, StateOK
<1>3. \A e \in sent' : row'[e.request] # "absent"
  BY <1>1, <1>2 DEF EndpointInv, WorldOK
<1>4. \A r \in listening' : row'[r] # "absent"
  BY <1>1 DEF EndpointInv, WorldOK
<1>5. \A r \in Requests : media'[CallOf[r]].up => row'[r] # "absent"
  BY <1>1 DEF EndpointInv, WorldOK
<1> QED
  BY <1>3, <1>4, <1>5 DEF WorldOK, Reached

(* Whose acknowledgement plays, and what is registered of it, is as it was; *)
(* an acknowledgement that hung up may be over.                             *)
SamePlays ==
    /\ \A d \in Deliveries :
          ack'[d] = ack[d] \/ (ack[d].pc = "hang_up" /\ ack'[d].pc = "none" /\ ~ack'[d].raises)
    /\ \A c \in Calls : /\ playbacks'[c] # None <=> playbacks[c] # None
                        /\ playbacks[c] # None =>
                              /\ playbacks'[c].request = playbacks[c].request
                              /\ playbacks[c].completed => playbacks'[c].completed
                              /\ playbacks'[c].completed => playbacks[c].completed \/ playbacks[c].request \in Reported

(* A report completes the playback that it is of, and no other.             *)
LEMMA ReportFacts ==
    ASSUME StateOK, NEW c \in Calls, NEW r \in Reported, HandlePlaybackEvent(c, r), UNCHANGED ack
    PROVE  /\ playbacks' \in [Calls -> PlaybackStates] /\ SamePlays
           /\ playbacks[c] # None /\ playbacks[c].request = r => playbacks'[c].completed
<1>1. playbacks \in [Calls -> PlaybackStates]
  BY DEF StateOK
<1>2. CASE playbacks[c] # None /\ playbacks[c].request = r
  <2> DEFINE new == [playbacks[c] EXCEPT !.completed = TRUE]
  <2>1. playbacks[c] \in [request: Requests, completed: BOOLEAN]
    BY <1>1, <1>2 DEF PlaybackStates
  <2>2. new \in [request: Requests, completed: BOOLEAN] /\ new.request = r /\ new.completed
    BY <1>2, <2>1
  <2>3. new \in PlaybackStates /\ new # None /\ new.request = r /\ new.completed
    BY <2>2, RegistrationIsNotNone DEF PlaybackStates
  <2>4. playbacks' = [playbacks EXCEPT ![c] = new]
    BY <1>2 DEF HandlePlaybackEvent
  <2> HIDE DEF new
  <2>5. /\ playbacks' \in [Calls -> PlaybackStates] /\ playbacks'[c] = new
        /\ \A k \in Calls \ {c} : playbacks'[k] = playbacks[k]
    BY <1>1, <2>3, <2>4
  <2>6. SamePlays
    BY <1>2, <2>3, <2>5 DEF SamePlays
  <2> QED
    BY <2>3, <2>5, <2>6
<1>3. CASE ~(playbacks[c] # None /\ playbacks[c].request = r)
  <2>1. playbacks' = playbacks
    BY <1>1, <1>3 DEF HandlePlaybackEvent
  <2> QED
    BY <1>1, <1>3, <2>1 DEF SamePlays
<1> QED
  BY <1>2, <1>3

(* The acknowledgement of a delivery that is not idle. *)
LEMMA AckFacts ==
    ASSUME EndpointInv, NEW d \in Deliveries, ack[d].pc # "none"
    PROVE  /\ delivery[d].pc = "acknowledge" /\ Busy(d)
           /\ ack[d].request \in Requests /\ ack[d].call = CallOf[ack[d].request] /\ ack[d].call \in Calls
           /\ ack[d].request = RequestOf(d) /\ ack[d].call = Current(d).call
<1>1. delivery[d].pc = "acknowledge" /\ Busy(d) /\ ack[d].request = RequestOf(d) /\ ack[d].call = Current(d).call
  BY DEF EndpointInv, BatchesOK, Busy
<1> QED
  BY <1>1, CurrentFacts DEF EndpointInv

LEMMA RegistryFrame == ASSUME EndpointInv, SamePlays, RowsMove PROVE RegistryOK' /\ PlaysMove
<1>1. \A d \in Deliveries : ack[d].pc # "none" => ack[d].request \in Requests /\ ack[d].call \in Calls
  BY AckFacts
<1>2. \A d \in Deliveries : Playing(d)' <=> Playing(d)
  BY DEF Playing, SamePlays
<1>3. \A d \in Deliveries : Playing(d) => ack[d].pc # "none" /\ ack'[d] = ack[d]
  BY DEF Playing, SamePlays
<1>10. RegistryOK
  BY DEF EndpointInv
<1>4. ASSUME NEW d \in Deliveries, Playing(d)'
      PROVE  playbacks'[ack'[d].call] # None /\ playbacks'[ack'[d].call].request = ack'[d].request
  <2>1. Playing(d) /\ ack'[d] = ack[d] /\ ack[d].call \in Calls
    BY <1>1, <1>2, <1>3, <1>4
  <2>2. playbacks[ack[d].call] # None /\ playbacks[ack[d].call].request = ack[d].request
    BY <1>10, <2>1 DEF RegistryOK
  <2>3. playbacks'[ack[d].call] # None /\ playbacks'[ack[d].call].request = playbacks[ack[d].call].request
    BY <2>1, <2>2 DEF SamePlays
  <2> QED
    BY <2>1, <2>2, <2>3
<1>5. \A d, k \in Deliveries : ack'[d].pc # "none" /\ ack'[k].pc # "none" /\ ack'[d].call = ack'[k].call => d = k
  <2>1. \A d \in Deliveries : ack'[d].pc # "none" => ack'[d] = ack[d]
    BY DEF SamePlays
  <2> QED
    BY <1>10, <2>1 DEF RegistryOK
<1>6. ASSUME NEW c \in Calls, playbacks'[c] # None
      PROVE  \E d \in Deliveries : Playing(d)' /\ ack'[d].call = c
  <2>3. playbacks[c] # None
    BY <1>6 DEF SamePlays
  <2>1. PICK d \in Deliveries : Playing(d) /\ ack[d].call = c
    BY <2>3, <1>10 DEF RegistryOK
  <2>2. Playing(d)' /\ ack'[d].call = c
    BY <1>2, <1>3, <2>1
  <2> QED
    BY <2>2
<1>7. \A d \in Deliveries : ack'[d].pc # "none" => row'[ack'[d].request] = "responded"
  <2>1. \A d \in Deliveries : ack'[d].pc # "none" => ack'[d] = ack[d]
    BY DEF SamePlays
  <2> QED
    BY <1>1, <1>10, <2>1 DEF RegistryOK, RowsMove
<1>8. PlaysMove
  <2>1. \A d \in Deliveries : Playing(d) =>
            (playbacks[ack[d].call].completed => playbacks'[ack[d].call].completed)
    BY <1>1, <1>3, <1>10 DEF RegistryOK, SamePlays
  <2> QED
    BY <1>2, <1>3, <2>1 DEF PlaysMove
<1> QED
  BY <1>4, <1>5, <1>6, <1>7, <1>8 DEF RegistryOK

LEMMA ThanksFrame ==
    ASSUME EndpointInv, SamePlays, RowsMove, sent \subseteq sent',
           \A c \in Calls : media'[c].playing => media[c].playing,
           Reported' \subseteq Reported
    PROVE  ThanksOK'
<1>1. Reported' = Reported
  BY DEF Reported
<1>2. \A r \in Requests : CallOf[r] \in Calls
  BY CallsAssumption
<1>3. Asking' = Asking
  BY DEF Asking, SamePlays
<1>4. \A r \in Requests :
          media'[CallOf[r]].playing \/ r \in Reported' => row'[r] = "responded" /\ r \notin Asking'
  BY <1>1, <1>2, <1>3 DEF EndpointInv, ThanksOK, RowsMove
<1>5. \A r \in Reported' : ~media'[CallOf[r]].playing
  BY <1>1, <1>2 DEF EndpointInv, ThanksOK, Reported
<1>7. \A c \in Calls : playbacks'[c] # None /\ playbacks'[c].completed => playbacks'[c].request \in Reported'
  BY <1>1 DEF EndpointInv, ThanksOK, SamePlays
<1>8. \A d \in Deliveries : ack'[d].pc = "hang_up" /\ ~ack'[d].cut => ack'[d].request \in Reported'
  BY <1>1 DEF EndpointInv, ThanksOK, SamePlays
<1> QED
  BY <1>4, <1>5, <1>7, <1>8 DEF ThanksOK
-----------------------------------------------------------------------------
(*                        The steps of a delivery                          *)

(* The events that the service ignores are the reports of a playback, and   *)
(* only those are told to the gateway.                                      *)
LEMMA PlayEvents ==
    ASSUME NEW e \in Events
    PROVE  /\ DomainEvent(e) \in {"play_completed", "play_failed"} <=> e.type \in PlayTypes
           /\ e.type \in PlayTypes => Effect("approval", e) = "ignored"
<1>1. e.type \in Types
  BY EventFacts
<1>2. Classified(e.result) \in {None, "no_answer", "busy", "declined"}
  BY DEF Classified
<1>3. Recognized(e) \in {"approved", "rejected", "answered", "no_answer"}
  BY DEF Recognized
<1>4. CASE e.type = "PlayCompleted"
  <2>1. DomainEvent(e) = "play_completed"
    BY <1>4 DEF DomainEvent
  <2> QED
    BY <1>4, <2>1 DEF PlayTypes, Effect, ResultFor, Ignored, RespondedTypes, ExpiredTypes
<1>5. CASE e.type = "PlayFailed"
  <2>1. DomainEvent(e) = "play_failed"
    BY <1>5 DEF DomainEvent
  <2> QED
    BY <1>5, <2>1 DEF PlayTypes, Effect, ResultFor, Ignored, RespondedTypes, ExpiredTypes
<1>6. CASE e.type \notin PlayTypes
  <2>1. DomainEvent(e) \notin {"play_completed", "play_failed"}
    BY <1>1, <1>2, <1>3, <1>6 DEF DomainEvent, Types, PlayTypes
  <2> QED
    BY <1>6, <2>1
<1> QED
  BY <1>4, <1>5, <1>6 DEF PlayTypes

(* Where an event that has been handled leaves its delivery.                *)
LEMMA AdvancePast ==
    ASSUME EndpointInv, NEW d \in Deliveries, Busy(d), Advance(d)
    PROVE  /\ delivery'[d].pc \in {"get", "done"}
           /\ Busy(d)' => delivery'[d].i \in DOMAIN delivery'[d].batch
           /\ delivery'[d].raises => delivery'[d].pc = "done"
           /\ \A j \in DOMAIN delivery[d].batch :
                 Past(d, j)' => ~delivery[d].raises /\ (Past(d, j) \/ j = delivery[d].i)
<1>1. delivery[d] \in DeliveryStates /\ delivery[d].i \in DOMAIN delivery[d].batch
  BY CurrentFacts DEF EndpointInv, StateOK
<1>2. /\ delivery[d].batch \in Seq(Events) /\ delivery[d].i \in Nat
      /\ DOMAIN delivery[d].batch = 1..Len(delivery[d].batch) /\ Len(delivery[d].batch) \in Nat
  BY <1>1 DEF DeliveryStates
<1>3. /\ delivery'[d].batch = delivery[d].batch /\ delivery'[d].raises = delivery[d].raises
      /\ \/ delivery[d].raises /\ delivery'[d].pc = "done" /\ delivery'[d].result = "error"
         \/ /\ ~delivery[d].raises /\ delivery[d].i = Len(delivery[d].batch)
            /\ delivery'[d].pc = "done" /\ delivery'[d].result = "ok"
         \/ /\ ~delivery[d].raises /\ delivery[d].i # Len(delivery[d].batch)
            /\ delivery'[d].pc = "get" /\ delivery'[d].i = delivery[d].i + 1
  BY AdvanceFacts DEF EndpointInv
<1>4. Busy(d)' => delivery'[d].i \in DOMAIN delivery'[d].batch
  BY <1>1, <1>2, <1>3 DEF Busy
<1>5. ASSUME NEW j \in DOMAIN delivery[d].batch, Past(d, j)'
      PROVE  ~delivery[d].raises /\ (Past(d, j) \/ j = delivery[d].i)
  BY <1>1, <1>2, <1>3, <1>5 DEF Past, Busy
<1> QED
  BY <1>3, <1>4, <1>5

(* A step of a handler that leaves the acknowledgements and ACS alone.      *)
HandlerStep(d) ==
    /\ UNCHANGED <<ack, media, listening, sent, fresh>>
    /\ SamePlays /\ playbacks' \in [Calls -> PlaybackStates]
    /\ RowsMove /\ row' \in [Requests -> Statuses]
    /\ faults' \in 0..MaxFaults /\ (faults > 0 => faults' > 0)

LEMMA HandlerFrame ==
    ASSUME EndpointInv, NEW d \in Deliveries, Busy(d), delivery[d].pc # "acknowledge", HandlerStep(d),
           Others(d), delivery' \in [Deliveries -> DeliveryStates], delivery'[d].batch = delivery[d].batch,
           delivery'[d].pc # "acknowledge",
           Busy(d)' => delivery'[d].i \in DOMAIN delivery'[d].batch,
           Busy(d)' /\ delivery'[d].pc # "get" => Current(d)'.type \notin PlayTypes,
           delivery'[d].pc = "hang_up" => faults' > 0 \/ row'[RequestOf(d)'] \in {"expired", "failed"},
           delivery'[d].raises => delivery'[d].pc \in {"hang_up", "done"},
           \A j \in DOMAIN delivery[d].batch : Past(d, j)' => Past(d, j) \/ delivery[d].batch[j] \in Finished'
    PROVE  EndpointInv'
<1>1. StateOK'
  BY DEF EndpointInv, StateOK, HandlerStep, SamePlays
<1>2. OtherAcks(d) /\ ack'[d] = ack[d] /\ ack[d].pc = "none"
  BY DEF HandlerStep, SamePlays, OtherAcks, EndpointInv, BatchesOK
<1>3. \A j \in DOMAIN delivery'[d].batch : delivery'[d].batch[j] \in sent'
  BY DEF HandlerStep, EndpointInv, BatchesOK
<1>4. BatchesOK'
  BY <1>2, <1>3, BatchesFrame DEF HandlerStep
<1>5. WorldOK'
  BY WorldFrame DEF HandlerStep, EndpointInv, StateOK
<1>6. RegistryOK' /\ PlaysMove
  BY RegistryFrame DEF HandlerStep
<1>7. ThanksOK'
  BY ThanksFrame DEF HandlerStep, Reported
<1>8. HandledOK'
  <2>1. \A j \in DOMAIN delivery[d].batch : Past(d, j) => delivery[d].batch[j] \in Finished'
    <3>1. \A j \in DOMAIN delivery[d].batch : Past(d, j) =>
              delivery[d].batch[j] \in sent /\ delivery[d].batch[j] \in Finished
      BY DEF EndpointInv, HandledOK, BatchesOK
    <3> QED
      BY <1>6, <3>1, FinishedStays DEF HandlerStep
  <2>2. \A e \in sent' \ fresh' : e \in sent /\ (e \in fresh => e \in Finished')
    BY DEF HandlerStep
  <2> QED
    BY <1>6, <2>1, <2>2, HandledFrame DEF HandlerStep
<1>9. ~ack'[d].raises \/ faults' > 0
  BY <1>2 DEF HandlerStep, EndpointInv, FaultsOK
<1>10. FaultsOK'
  BY <1>2, <1>9, FaultsFrame DEF HandlerStep
<1> QED
  BY <1>1, <1>4, <1>5, <1>6, <1>7, <1>8, <1>10 DEF EndpointInv

(* An event is handled only once it has had its effect.                     *)
LEMMA AdvanceOK ==
    ASSUME EndpointInv, NEW d \in Deliveries, Busy(d), delivery[d].pc # "acknowledge", HandlerStep(d),
           Advance(d), Current(d) \in Finished'
    PROVE  EndpointInv'
<1>1. /\ delivery' \in [Deliveries -> DeliveryStates] /\ Others(d)
      /\ delivery'[d].batch = delivery[d].batch
  BY AdvanceFacts DEF EndpointInv, Others
<1>2. /\ delivery'[d].pc \in {"get", "done"}
      /\ Busy(d)' => delivery'[d].i \in DOMAIN delivery'[d].batch
      /\ delivery'[d].raises => delivery'[d].pc = "done"
      /\ \A j \in DOMAIN delivery[d].batch : Past(d, j)' => Past(d, j) \/ j = delivery[d].i
  BY AdvancePast
<1>3. \A j \in DOMAIN delivery[d].batch : Past(d, j)' => Past(d, j) \/ delivery[d].batch[j] \in Finished'
  BY <1>2 DEF Current
<1>4. Busy(d)' => delivery'[d].pc = "get"
  BY <1>2 DEF Busy
<1> QED
  BY <1>1, <1>2, <1>3, <1>4, HandlerFrame

LEMMA FinishOK ==
    ASSUME EndpointInv, NEW d \in Deliveries, Busy(d), delivery[d].pc # "acknowledge", HandlerStep(d),
           Finish(d, "error")
    PROVE  EndpointInv'
<1>1. /\ delivery' \in [Deliveries -> DeliveryStates] /\ Others(d)
      /\ delivery'[d].batch = delivery[d].batch
      /\ delivery'[d].pc = "done" /\ delivery'[d].result = "error"
  BY FinishFacts DEF EndpointInv, Others
<1>2. ~Busy(d)' /\ \A j \in DOMAIN delivery[d].batch : ~Past(d, j)'
  BY <1>1 DEF Busy, Past
<1> QED
  BY <1>1, <1>2, HandlerFrame

LEMMA GotoOK ==
    ASSUME EndpointInv, NEW d \in Deliveries, Busy(d), delivery[d].pc # "acknowledge", HandlerStep(d),
           NEW pc \in {"complete", "fail", "hang_up"}, Goto(d, pc),
           Current(d).type \notin PlayTypes, delivery[d].pc # "hang_up",
           pc = "hang_up" => row'[RequestOf(d)] \in {"expired", "failed"} /\ Current(d) \in Finished'
    PROVE  EndpointInv'
<1>1. /\ delivery' \in [Deliveries -> DeliveryStates] /\ Others(d)
      /\ delivery'[d].pc = pc /\ delivery'[d].batch = delivery[d].batch /\ delivery'[d].i = delivery[d].i
      /\ delivery'[d].raises = delivery[d].raises
  BY GotoFacts DEF EndpointInv, Others
<1>2. Current(d)' = Current(d) /\ RequestOf(d)' = RequestOf(d)
  BY <1>1 DEF Current, RequestOf
<1>3. delivery[d].i \in DOMAIN delivery[d].batch /\ ~delivery[d].raises
  BY CurrentFacts DEF EndpointInv, FaultsOK, Busy
<1>4. \A j \in DOMAIN delivery[d].batch : Past(d, j)' => Past(d, j) \/ delivery[d].batch[j] \in Finished'
  BY <1>1 DEF Past, Busy, Current
<1> QED
  BY <1>1, <1>2, <1>3, <1>4, HandlerFrame

LEMMA FinishedNow ==
    ASSUME NEW e \in Events, Settles(e) => row'[e.request] # "pending", e.type \notin PlayTypes
    PROVE  e \in Finished'
  BY DEF Finished

LEMMA Unregistered == UNCHANGED <<playbacks, ack>> => SamePlays
  BY DEF SamePlays

LEMMA GetOK ==
    ASSUME EndpointInv, NEW d \in Deliveries, Get(d) \/ GetFault(d)
    PROVE  EndpointInv'
<1>1. Busy(d) /\ delivery[d].pc = "get" /\ UNCHANGED <<ack, media, row, listening, sent, fresh>>
  BY DEF Get, GetFault, Busy
<1>2. Current(d) \in Events /\ Current(d).request = RequestOf(d) /\ Current(d).call \in Calls
  BY <1>1, CurrentFacts DEF EndpointInv
<1>3. StateOK /\ RowsMove /\ RequestOf(d) \in Requests /\ Current(d) \in sent
  BY <1>1, CurrentFacts DEF EndpointInv, RowsMove
<1>4. faults' \in 0..MaxFaults /\ (faults > 0 => faults' > 0)
  BY <1>3, NoneAssumption DEF StateOK, Get, GetFault, Fault
<1>5. CASE Current(d).type \in PlayTypes /\ Get(d)
  <2>1. HandlePlaybackEvent(Current(d).call, RequestOf(d)) /\ Advance(d)
    BY <1>2, <1>5, PlayEvents DEF Get
  <2>2. RequestOf(d) \in Reported
    BY <1>2, <1>3, <1>5 DEF Reported
  <2>4. /\ playbacks' \in [Calls -> PlaybackStates] /\ SamePlays
        /\ playbacks[Current(d).call] # None /\ playbacks[Current(d).call].request = RequestOf(d)
              => playbacks'[Current(d).call].completed
    BY <1>1, <1>2, <1>3, <2>1, <2>2, ReportFacts
  <2>5. HandlerStep(d)
    BY <1>1, <1>3, <1>4, <2>4 DEF HandlerStep, StateOK
  <2>6. Current(d) \in Finished'
    <3>1. ~Settles(Current(d))
      BY <1>2, <1>5, PlayEvents DEF Settles
    <3>2. ASSUME NEW k \in Deliveries, Playing(k)', ack'[k].request = Current(d).request
          PROVE  playbacks'[ack'[k].call].completed
      <4>1. Playing(k) /\ ack[k].request = RequestOf(d) /\ ack[k].pc # "none"
        BY <1>1, <1>2, <3>2 DEF Playing
      <4>2. ack[k].call = CallOf[RequestOf(d)] /\ Current(d).call = CallOf[RequestOf(d)]
        BY <1>1, <4>1, AckFacts, CurrentFacts DEF EndpointInv
      <4>3. playbacks[ack[k].call] # None /\ playbacks[ack[k].call].request = RequestOf(d)
        BY <4>1 DEF EndpointInv, RegistryOK
      <4> QED
        BY <1>1, <2>4, <4>2, <4>3
    <3> QED
      BY <1>2, <3>1, <3>2 DEF Finished
  <2> QED
    BY <1>1, <2>1, <2>5, <2>6, AdvanceOK
<1>6. CASE Current(d).type \notin PlayTypes /\ Get(d)
  <2>1. /\ UNCHANGED playbacks
        /\ IF row[RequestOf(d)] # "pending" \/ Effect("approval", Current(d)) = "ignored" THEN Advance(d)
           ELSE Goto(d, IF Effect("approval", Current(d)) = "failed" THEN "fail" ELSE "complete")
    BY <1>2, <1>6, PlayEvents DEF Get
  <2>2. HandlerStep(d)
    BY <1>1, <1>3, <1>4, <2>1, Unregistered DEF HandlerStep, StateOK
  <2>3. CASE row[RequestOf(d)] # "pending" \/ Effect("approval", Current(d)) = "ignored"
    <3>1. Current(d) \in Finished'
      BY <1>1, <1>2, <1>6, <2>3, FinishedNow DEF Settles
    <3> QED
      BY <1>1, <2>1, <2>2, <2>3, <3>1, AdvanceOK
  <2>4. CASE ~(row[RequestOf(d)] # "pending" \/ Effect("approval", Current(d)) = "ignored")
    <3>1. PICK pc \in {"complete", "fail"} : Goto(d, pc)
      BY <2>1, <2>4
    <3> QED
      BY <1>1, <1>6, <2>2, <3>1, GotoOK
  <2> QED
    BY <2>3, <2>4
<1>7. CASE GetFault(d)
  <2>1. HandlerStep(d)
    BY <1>1, <1>3, <1>4, <1>7, Unregistered DEF HandlerStep, StateOK, GetFault
  <2> QED
    BY <1>1, <1>7, <2>1, FinishOK DEF GetFault
<1> QED
  BY <1>5, <1>6, <1>7

(* A step that writes the row of the event, in the way that the table does. *)
LEMMA SettleMoves ==
    ASSUME StateOK, NEW r \in Requests, NEW status \in {"responded", "expired", "failed"},
           Settle(r, status) \/ UNCHANGED row
    PROVE  /\ RowsMove /\ row' \in [Requests -> Statuses]
           /\ Settle(r, status) => row'[r] # "pending" /\ (row[r] = "pending" => row'[r] = status)
  BY SettleFacts DEF RowsMove, StateOK

LEMMA FailOK ==
    ASSUME EndpointInv, NEW d \in Deliveries, Fail(d) \/ FailFault(d) \/ CompleteFault(d)
    PROVE  EndpointInv'
<1>1. Busy(d) /\ delivery[d].pc \in {"complete", "fail"} /\ UNCHANGED <<playbacks, ack, media, listening, sent, fresh>>
  BY DEF Fail, FailFault, CompleteFault, Busy, playbackVars
<1>2. /\ Current(d) \in Events /\ Current(d).request = RequestOf(d) /\ RequestOf(d) \in Requests
      /\ StateOK /\ Current(d).type \notin PlayTypes
  BY <1>1, CurrentFacts DEF EndpointInv, BatchesOK
<1>3. faults' \in 0..MaxFaults /\ (faults > 0 => faults' > 0)
  BY <1>2, NoneAssumption DEF StateOK, Fail, FailFault, CompleteFault, Fault, playbackVars
<1>4. PICK status \in {"responded", "expired", "failed"} :
          /\ Settle(RequestOf(d), status) \/ UNCHANGED row
          /\ Fail(d) => Settle(RequestOf(d), status) /\ status = "failed"
  BY <1>2 DEF Fail, FailFault, CompleteFault
<1>5. /\ RowsMove /\ row' \in [Requests -> Statuses]
      /\ Settle(RequestOf(d), status) =>
            row'[RequestOf(d)] # "pending" /\ (row[RequestOf(d)] = "pending" => row'[RequestOf(d)] = status)
  BY <1>2, <1>4, SettleMoves
<1>6. HandlerStep(d)
  BY <1>1, <1>2, <1>3, <1>5, Unregistered DEF HandlerStep, StateOK
<1>7. CASE Fail(d)
  <2>1. Current(d) \in Finished'
    BY <1>2, <1>4, <1>5, <1>7, FinishedNow
  <2>2. CASE row[RequestOf(d)] = "pending"
    <3>1. Goto(d, "hang_up") /\ row'[RequestOf(d)] \in {"expired", "failed"}
      BY <1>4, <1>5, <1>7, <2>2 DEF Fail
    <3> QED
      BY <1>1, <1>2, <1>6, <2>1, <3>1, GotoOK
  <2>3. CASE row[RequestOf(d)] # "pending"
    BY <1>1, <1>6, <1>7, <2>1, <2>3, AdvanceOK DEF Fail
  <2> QED
    BY <2>2, <2>3
<1>8. CASE CompleteFault(d)
  <2>1. Goto(d, "fail")
    BY <1>8 DEF CompleteFault
  <2> QED
    BY <1>1, <1>2, <1>6, <2>1, GotoOK
<1>9. CASE FailFault(d)
  <2> DEFINE new == [delivery[d] EXCEPT !.pc = "hang_up", !.raises = TRUE]
  <2>1. delivery[d] \in DeliveryStates /\ delivery \in [Deliveries -> DeliveryStates]
    BY <1>2 DEF StateOK
  <2>2. new \in DeliveryStates /\ new.pc = "hang_up" /\ new.raises
    BY <2>1 DEF DeliveryStates
  <2>3. new.batch = delivery[d].batch /\ new.i = delivery[d].i
    BY <2>1 DEF DeliveryStates
  <2>4. delivery' = [delivery EXCEPT ![d] = new]
    BY <1>9 DEF FailFault
  <2> HIDE DEF new
  <2>5. /\ delivery' \in [Deliveries -> DeliveryStates] /\ Others(d)
        /\ delivery'[d].pc = "hang_up" /\ delivery'[d].raises
        /\ delivery'[d].batch = delivery[d].batch /\ delivery'[d].i = delivery[d].i
    BY <2>1, <2>2, <2>3, <2>4 DEF Others
  <2>6. Current(d)' = Current(d)
    BY <2>5 DEF Current
  <2>7. faults' > 0
    BY <1>2, <1>9, NoneAssumption DEF StateOK, FailFault, Fault
  <2>8. \A j \in DOMAIN delivery[d].batch : Past(d, j)' => Past(d, j)
    BY <1>1, <2>5 DEF Past, Busy
  <2>9. delivery[d].i \in DOMAIN delivery[d].batch
    BY <1>1, CurrentFacts DEF EndpointInv
  <2> QED
    BY <1>1, <1>2, <1>6, <2>5, <2>6, <2>7, <2>8, <2>9, HandlerFrame
<1> QED
  BY <1>7, <1>8, <1>9

(* The answer that is recorded is acknowledged, once; what is no answer has *)
(* its call ended.                                                          *)
LEMMA CompleteOK == ASSUME EndpointInv, NEW d \in Deliveries, Complete(d) PROVE EndpointInv'
<1> DEFINE e == Current(d)
           r == RequestOf(d)
           answered == Effect("approval", e) \in RespondedTypes
           status == IF answered THEN "responded" ELSE "expired"
<1>1. Busy(d) /\ delivery[d].pc = "complete" /\ UNCHANGED <<media, faults, listening, sent, fresh>>
  BY DEF Complete, Busy
<1>2. /\ e \in Events /\ e \in sent /\ e.request = r /\ r \in Requests /\ e.call = CallOf[r] /\ e.call \in Calls
      /\ StateOK /\ e.type \notin PlayTypes
  BY <1>1, CurrentFacts DEF EndpointInv, BatchesOK
<1>3. /\ Settle(r, status)
      /\ IF row[r] # "pending" THEN Advance(d) /\ UNCHANGED <<playbacks, ack>>
         ELSE IF ~answered THEN Goto(d, "hang_up") /\ UNCHANGED <<playbacks, ack>>
         ELSE Owe(d, e.call, r) /\ Goto(d, "acknowledge") /\ UNCHANGED playbacks
  BY <1>2 DEF Complete
<1>4. /\ RowsMove /\ row' \in [Requests -> Statuses]
      /\ row'[r] # "pending" /\ (row[r] = "pending" => row'[r] = status)
  BY <1>2, <1>3, SettleMoves
<1>5. e \in Finished'
  BY <1>2, <1>4, FinishedNow
<1>6. ASSUME UNCHANGED <<playbacks, ack>> PROVE HandlerStep(d)
  BY <1>1, <1>2, <1>4, <1>6, Unregistered DEF HandlerStep, StateOK
<1>7. CASE row[r] # "pending"
  BY <1>1, <1>3, <1>5, <1>6, <1>7, AdvanceOK
<1>8. CASE row[r] = "pending" /\ ~answered
  <2>1. row'[r] \in {"expired", "failed"}
    BY <1>4, <1>8
  <2>2. Goto(d, "hang_up") /\ UNCHANGED <<playbacks, ack>>
    BY <1>3, <1>8
  <2> QED
    BY <1>1, <1>2, <1>5, <1>6, <2>1, <2>2, GotoOK
<1>9. CASE row[r] = "pending" /\ answered
  <2>1. \A k \in Deliveries : ack[k].pc # "none" => ack[k].request # r /\ ack[k].call # e.call
    <3>1. \A k \in Deliveries : ack[k].pc # "none" =>
              /\ ack[k].request \in Requests /\ ack[k].call = CallOf[ack[k].request]
              /\ row[ack[k].request] = "responded"
      BY AckFacts DEF EndpointInv, RegistryOK
    <3> QED
      BY <1>2, <1>9, <3>1, CallsAssumption
  <2>3. Owe(d, e.call, r) /\ Goto(d, "acknowledge") /\ UNCHANGED playbacks /\ row'[r] = "responded"
    BY <1>3, <1>4, <1>9
  <2>4. /\ ack' \in [Deliveries -> AckStates] /\ OtherAcks(d)
        /\ ack'[d].pc = "due" /\ ack'[d].call = e.call /\ ack'[d].request = r /\ ~ack'[d].raises
    BY <1>2, <2>3, OweFacts DEF OtherAcks
  <2>5. /\ delivery' \in [Deliveries -> DeliveryStates] /\ Others(d)
        /\ delivery'[d].pc = "acknowledge" /\ delivery'[d].batch = delivery[d].batch
        /\ delivery'[d].i = delivery[d].i /\ delivery'[d].raises = delivery[d].raises
    BY <1>2, <2>3, GotoFacts DEF Others
  <2>6. Current(d)' = e /\ RequestOf(d)' = r
    BY <2>5 DEF Current, RequestOf
  <2>7. StateOK'
    BY <1>1, <1>2, <1>4, <2>3, <2>4, <2>5 DEF StateOK
  <2>8. BatchesOK'
    <3>1. \A j \in DOMAIN delivery'[d].batch : delivery'[d].batch[j] \in sent'
      BY <1>1, <2>5 DEF EndpointInv, BatchesOK
    <3>2. delivery'[d].i \in DOMAIN delivery'[d].batch
      BY <1>1, <2>5, CurrentFacts DEF EndpointInv
    <3> QED
      BY <1>1, <1>2, <2>4, <2>5, <2>6, <3>1, <3>2, BatchesFrame
  <2>9. WorldOK'
    BY <1>1, <1>2, <1>4, WorldFrame DEF StateOK
  <2>10. PlaysMove
    <3>1. \A k \in Deliveries : Playing(k)' => k # d /\ Playing(k) /\ ack'[k] = ack[k]
      BY <2>4 DEF OtherAcks, Playing
    <3> QED
      BY <2>3, <3>1 DEF PlaysMove
  <2>11. RegistryOK'
    <3>1. \A k \in Deliveries \ {d} :
              /\ ack'[k] = ack[k]
              /\ ack[k].pc # "none" => ack[k].call # e.call /\ ack[k].request \in Requests
                                        /\ row'[ack[k].request] = "responded"
      BY <1>4, <2>1, <2>4, AckFacts DEF OtherAcks, EndpointInv, RegistryOK, RowsMove
    <3>2. \A k \in Deliveries : Playing(k)' <=> Playing(k)
      BY <1>1, <2>4, <3>1 DEF Playing, EndpointInv, BatchesOK
    <3>3. \A k \in Deliveries : Playing(k) => k # d
      BY <1>1 DEF Playing, EndpointInv, BatchesOK
    <3>4. \A k \in Deliveries : Playing(k)' =>
              playbacks'[ack'[k].call] # None /\ playbacks'[ack'[k].call].request = ack'[k].request
      BY <2>3, <3>1, <3>2, <3>3 DEF EndpointInv, RegistryOK
    <3>5. \A k, m \in Deliveries : ack'[k].pc # "none" /\ ack'[m].pc # "none" /\ ack'[k].call = ack'[m].call => k = m
      BY <2>4, <3>1 DEF EndpointInv, RegistryOK
    <3>6. \A c \in Calls : playbacks'[c] # None => \E k \in Deliveries : Playing(k)' /\ ack'[k].call = c
      BY <2>3, <3>1, <3>2, <3>3 DEF EndpointInv, RegistryOK
    <3>7. \A k \in Deliveries : ack'[k].pc # "none" => row'[ack'[k].request] = "responded"
      BY <2>3, <2>4, <3>1
    <3> QED
      BY <3>4, <3>5, <3>6, <3>7 DEF RegistryOK
  <2>12. ThanksOK'
    <3>1. Reported' = Reported /\ r \notin Reported /\ ~media[e.call].playing
      BY <1>1, <1>2, <1>9 DEF Reported, EndpointInv, ThanksOK
    <3>2. Asking' \subseteq Asking \cup {r}
      BY <2>4 DEF Asking, OtherAcks
    <3>3. \A q \in Requests : media'[CallOf[q]].playing \/ q \in Reported' =>
              row'[q] = "responded" /\ q \notin Asking'
      BY <1>1, <1>2, <1>4, <3>1, <3>2 DEF EndpointInv, ThanksOK, RowsMove
    <3>4. \A q \in Reported' : ~media'[CallOf[q]].playing
      BY <1>1, <3>1 DEF EndpointInv, ThanksOK
    <3>5. \A c \in Calls : playbacks'[c] # None /\ playbacks'[c].completed => playbacks'[c].request \in Reported'
      BY <2>3, <3>1 DEF EndpointInv, ThanksOK
    <3>6. \A k \in Deliveries : ack'[k].pc = "hang_up" /\ ~ack'[k].cut => ack'[k].request \in Reported'
      BY <2>4, <3>1 DEF EndpointInv, ThanksOK, OtherAcks
    <3> QED
      BY <3>3, <3>4, <3>5, <3>6 DEF ThanksOK
  <2>13. HandledOK'
    <3>1. \A j \in DOMAIN delivery'[d].batch : Past(d, j)' => Past(d, j) \/ delivery[d].batch[j] \in Finished'
      BY <1>1, <1>5, <2>5 DEF Past, Busy, Current
    <3>2. \A j \in DOMAIN delivery[d].batch : Past(d, j) => delivery[d].batch[j] \in Finished'
      <4>1. \A j \in DOMAIN delivery[d].batch : Past(d, j) =>
                delivery[d].batch[j] \in sent /\ delivery[d].batch[j] \in Finished
        BY DEF EndpointInv, HandledOK, BatchesOK
      <4> QED
        BY <1>4, <2>10, <4>1, FinishedStays
    <3>3. \A j \in DOMAIN delivery'[d].batch : Past(d, j)' => delivery'[d].batch[j] \in Finished'
      BY <2>5, <3>1, <3>2
    <3>4. \A x \in sent' \ fresh' : x \in sent /\ (x \in fresh => x \in Finished')
      BY <1>1
    <3> QED
      BY <1>4, <2>5, <2>10, <3>3, <3>4, HandledFrame
  <2>14. FaultsOK'
    <3>1. ~delivery'[d].raises
      BY <1>1, <2>5 DEF EndpointInv, FaultsOK
    <3> QED
      BY <1>1, <1>4, <2>4, <2>5, <3>1, FaultsFrame
  <2> QED
    BY <2>7, <2>8, <2>9, <2>11, <2>12, <2>13, <2>14 DEF EndpointInv
<1> QED
  BY <1>7, <1>8, <1>9

(* A step of an acknowledgement, which leaves its delivery where it is.     *)
PlaybackStep(d) ==
    /\ UNCHANGED endpointVars
    /\ faults' \in 0..MaxFaults /\ (faults > 0 => faults' > 0)

(* What such a step has to keep of the acknowledgement.                     *)
LEMMA PlaybackFrame ==
    ASSUME EndpointInv, NEW d \in Deliveries, PlaybackStep(d), ack[d].pc # "none", OtherAcks(d),
           ack' \in [Deliveries -> AckStates], playbacks' \in [Calls -> PlaybackStates],
           media' \in [Calls -> MediaStates],
           ack'[d].pc # "none" /\ ack'[d].request = ack[d].request /\ ack'[d].call = ack[d].call,
           ack'[d].raises => faults' > 0,
           \A c \in Calls : media'[c].up => media[c].up,
           RegistryOK', PlaysMove, ThanksOK'
    PROVE  EndpointInv'
<1>1. StateOK /\ RowsMove /\ ack[d].pc # "none"
  BY DEF EndpointInv, PlaybackStep, endpointVars, RowsMove
<1>2. StateOK'
  BY <1>1 DEF StateOK, PlaybackStep, endpointVars
<1>3. Others(d) /\ delivery' = delivery /\ RequestOf(d)' = RequestOf(d) /\ Current(d)' = Current(d) /\ Busy(d)' = Busy(d)
  BY DEF PlaybackStep, endpointVars, Others, RequestOf, Current, Busy
<1>4. BatchesOK'
  <2>1. /\ \A j \in DOMAIN delivery'[d].batch : delivery'[d].batch[j] \in sent'
        /\ Busy(d)' => delivery'[d].i \in DOMAIN delivery'[d].batch
        /\ Busy(d)' /\ delivery'[d].pc # "get" => Current(d)'.type \notin PlayTypes
        /\ delivery'[d].pc = "acknowledge" <=> ack'[d].pc # "none"
        /\ ack'[d].pc # "none" => ack'[d].request = RequestOf(d)' /\ ack'[d].call = Current(d)'.call
    BY <1>1, <1>3 DEF EndpointInv, BatchesOK, PlaybackStep, endpointVars
  <2> QED
    BY <1>3, <2>1, BatchesFrame DEF PlaybackStep, endpointVars
<1>5. WorldOK'
  BY <1>1, CallsAssumption, WorldFrame DEF StateOK, PlaybackStep, endpointVars
<1>6. HandledOK'
  <2>1. \A j \in DOMAIN delivery'[d].batch : Past(d, j)' => Past(d, j)
    BY <1>3 DEF Past
  <2>2. \A j \in DOMAIN delivery[d].batch : Past(d, j) =>
            delivery[d].batch[j] \in sent /\ delivery[d].batch[j] \in Finished
    BY DEF EndpointInv, HandledOK, BatchesOK
  <2>3. \A j \in DOMAIN delivery'[d].batch : Past(d, j)' => delivery'[d].batch[j] \in Finished'
    BY <1>1, <1>3, <2>1, <2>2, FinishedStays
  <2>4. \A e \in sent' \ fresh' : e \in sent /\ (e \in fresh => e \in Finished')
    BY DEF PlaybackStep, endpointVars
  <2> QED
    BY <1>1, <1>3, <2>3, <2>4, HandledFrame
<1>7. FaultsOK'
  <2>1. /\ delivery'[d].pc = "hang_up" => faults' > 0 \/ row'[RequestOf(d)'] \in {"expired", "failed"}
        /\ delivery'[d].raises => delivery'[d].pc \in {"hang_up", "done"}
    BY <1>3 DEF EndpointInv, FaultsOK, PlaybackStep, endpointVars
  <2> QED
    BY <1>1, <1>3, <2>1, FaultsFrame DEF PlaybackStep
<1> QED
  BY <1>2, <1>4, <1>5, <1>6, <1>7 DEF EndpointInv

(* Whoever else acknowledges has another call. *)
LEMMA OtherPlays ==
    ASSUME EndpointInv, NEW d \in Deliveries, ack[d].pc # "none", NEW k \in Deliveries, k # d, ack[k].pc # "none"
    PROVE  /\ ack[k].call \in Calls /\ ack[k].request \in Requests
           /\ ack[k].call # ack[d].call /\ ack[k].request # ack[d].request
<1>1. /\ ack[k].call \in Calls /\ ack[k].request \in Requests /\ ack[k].call = CallOf[ack[k].request]
      /\ ack[d].call = CallOf[ack[d].request]
  BY AckFacts
<1>2. ack[k].call # ack[d].call
  BY DEF EndpointInv, RegistryOK
<1> QED
  BY <1>1, <1>2

(* The playback is registered, and its thanks are about to be asked for.    *)
LEMMA RegisterOK == ASSUME EndpointInv, NEW d \in Deliveries, BeginAcknowledge(d) PROVE EndpointInv'
<1>1. /\ StateOK /\ ack[d].pc = "due" /\ ack[d].request \in Requests /\ ack[d].call \in Calls
      /\ row[ack[d].request] = "responded" /\ ~Playing(d)
  BY AckFacts DEF EndpointInv, RegistryOK, BeginAcknowledge, Register, Playing
<1>2. playbacks[ack[d].call] = None
  <2>1. \A k \in Deliveries : Playing(k) => ack[k].pc # "none" /\ k # d
    BY <1>1 DEF Playing
  <2> QED
    BY <1>1, <2>1 DEF EndpointInv, RegistryOK
<1>3. /\ ack' \in [Deliveries -> AckStates] /\ OtherAcks(d)
      /\ ack'[d].pc = "play" /\ ack'[d].call = ack[d].call /\ ack'[d].request = ack[d].request
      /\ ack'[d].raises = ack[d].raises
      /\ playbacks' \in [Calls -> PlaybackStates]
      /\ playbacks'[ack[d].call] # None /\ playbacks'[ack[d].call].request = ack[d].request
      /\ ~playbacks'[ack[d].call].completed
      /\ \A c \in Calls \ {ack[d].call} : playbacks'[c] = playbacks[c]
  BY <1>1, <1>2, RegisterFacts DEF BeginAcknowledge, OtherAcks
<1>4. /\ UNCHANGED <<media, faults, delivery, row, listening, sent, fresh>>
      /\ PlaybackStep(d)
  <2>1. UNCHANGED <<media, faults, delivery, row, listening, sent, fresh>>
    BY <1>3 DEF BeginAcknowledge, Register
  <2> QED
    BY <1>1, <2>1 DEF PlaybackStep, endpointVars, StateOK
<1>5. \A k \in Deliveries \ {d} :
          /\ ack'[k] = ack[k] /\ (Playing(k)' <=> Playing(k))
          /\ ack[k].pc # "none" =>
                ack[k].call \in Calls \ {ack[d].call} /\ playbacks'[ack[k].call] = playbacks[ack[k].call]
  <2>1. \A k \in Deliveries \ {d} : ack'[k] = ack[k] /\ (Playing(k)' <=> Playing(k))
    BY <1>3 DEF OtherAcks, Playing
  <2>2. \A k \in Deliveries \ {d} : ack[k].pc # "none" => ack[k].call \in Calls \ {ack[d].call}
    BY <1>1, OtherPlays
  <2> QED
    BY <1>3, <2>1, <2>2
<1>6. Playing(d)' /\ \A k \in Deliveries : Playing(k) => ack[k].pc # "none"
  BY <1>3 DEF Playing
<1>7. PlaysMove
  <2>1. ack[d].request \in Asking
    BY <1>1 DEF Asking
  <2> QED
    BY <1>3, <1>5, <1>6, <2>1 DEF PlaysMove
<1>8. RegistryOK'
  <2>1. \A k \in Deliveries : Playing(k)' =>
            playbacks'[ack'[k].call] # None /\ playbacks'[ack'[k].call].request = ack'[k].request
    BY <1>3, <1>5, <1>6 DEF EndpointInv, RegistryOK
  <2>2. \A k, m \in Deliveries : ack'[k].pc # "none" /\ ack'[m].pc # "none" /\ ack'[k].call = ack'[m].call => k = m
    BY <1>1, <1>3, <1>5 DEF EndpointInv, RegistryOK
  <2>3. \A c \in Calls : playbacks'[c] # None => \E k \in Deliveries : Playing(k)' /\ ack'[k].call = c
    BY <1>1, <1>3, <1>5, <1>6 DEF EndpointInv, RegistryOK
  <2>4. \A k \in Deliveries : ack'[k].pc # "none" => row'[ack'[k].request] = "responded"
    BY <1>1, <1>3, <1>4, <1>5 DEF EndpointInv, RegistryOK
  <2> QED
    BY <2>1, <2>2, <2>3, <2>4 DEF RegistryOK
<1>9. ThanksOK'
  <2>1. Reported' = Reported
    BY <1>4 DEF Reported
  <2>2. Asking' = Asking
    BY <1>1, <1>3, <1>5 DEF Asking
  <2>3. \A r \in Requests :
            media'[CallOf[r]].playing \/ r \in Reported' => row'[r] = "responded" /\ r \notin Asking'
    BY <1>4, <2>1, <2>2 DEF EndpointInv, ThanksOK
  <2>4. \A r \in Reported' : ~media'[CallOf[r]].playing
    BY <1>4, <2>1 DEF EndpointInv, ThanksOK
  <2>5. \A c \in Calls : playbacks'[c] # None /\ playbacks'[c].completed => playbacks'[c].request \in Reported'
    BY <1>3, <2>1 DEF EndpointInv, ThanksOK
  <2>6. \A k \in Deliveries : ack'[k].pc = "hang_up" /\ ~ack'[k].cut => ack'[k].request \in Reported'
    BY <1>3, <1>5, <2>1 DEF EndpointInv, ThanksOK
  <2> QED
    BY <2>3, <2>4, <2>5, <2>6 DEF ThanksOK
<1>10. ack'[d].raises => faults' > 0
  BY <1>3, <1>4 DEF EndpointInv, FaultsOK
<1>11. media' \in [Calls -> MediaStates] /\ (\A c \in Calls : media'[c].up => media[c].up)
  BY <1>1, <1>4 DEF StateOK
<1> QED
  BY <1>1, <1>3, <1>4, <1>7, <1>8, <1>9, <1>10, <1>11, PlaybackFrame

(* The playback stops, and the registration goes.                           *)
LEMMA StopOK ==
    ASSUME EndpointInv, NEW d \in Deliveries, PlaybackStep(d), Playing(d), UNCHANGED media,
           NEW cut \in BOOLEAN, NEW raises \in BOOLEAN, Stop(d, cut, raises),
           cut \/ playbacks[ack[d].call].completed, raises => faults' > 0
    PROVE  EndpointInv'
<1>1. /\ StateOK /\ ack[d].pc # "none" /\ ack[d].request \in Requests /\ ack[d].call = CallOf[ack[d].request]
      /\ ack[d].call \in Calls
  BY AckFacts DEF EndpointInv, Playing
<1>2. /\ ack' \in [Deliveries -> AckStates] /\ OtherAcks(d)
      /\ ack'[d].pc = "hang_up" /\ ack'[d].call = ack[d].call /\ ack'[d].request = ack[d].request
      /\ ack'[d].cut = cut /\ ack'[d].raises = raises
      /\ playbacks' \in [Calls -> PlaybackStates]
      /\ playbacks'[ack[d].call] = None
      /\ \A c \in Calls \ {ack[d].call} : playbacks'[c] = playbacks[c]
  BY <1>1, StopFacts DEF OtherAcks
<1>3. /\ UNCHANGED <<row, sent>> /\ ~Playing(d)'
      /\ \A k \in Deliveries \ {d} : ack'[k] = ack[k] /\ (Playing(k)' <=> Playing(k))
  BY <1>2 DEF PlaybackStep, endpointVars, Playing, OtherAcks
<1>4. \A k \in Deliveries \ {d} : Playing(k) =>
          /\ ack[k].call \in Calls \ {ack[d].call}
          /\ playbacks'[ack[k].call] = playbacks[ack[k].call]
  BY <1>2, OtherPlays DEF Playing
<1>5. RegistryOK'
  <2>1. \A k \in Deliveries : Playing(k)' =>
            playbacks'[ack'[k].call] # None /\ playbacks'[ack'[k].call].request = ack'[k].request
    BY <1>3, <1>4 DEF EndpointInv, RegistryOK
  <2>2. \A k, m \in Deliveries : ack'[k].pc # "none" /\ ack'[m].pc # "none" /\ ack'[k].call = ack'[m].call => k = m
    BY <1>1, <1>2, <1>3 DEF EndpointInv, RegistryOK
  <2>3. ASSUME NEW c \in Calls, playbacks'[c] # None
        PROVE  \E k \in Deliveries : Playing(k)' /\ ack'[k].call = c
    <3>1. c # ack[d].call /\ playbacks[c] # None
      BY <1>2, <2>3
    <3>2. PICK k \in Deliveries : Playing(k) /\ ack[k].call = c
      BY <3>1 DEF EndpointInv, RegistryOK
    <3>3. Playing(k)' /\ ack'[k].call = c
      BY <1>3, <3>1, <3>2
    <3> QED
      BY <3>3
  <2>4. \A k \in Deliveries : ack'[k].pc # "none" => row'[ack'[k].request] = "responded"
    BY <1>1, <1>2, <1>3 DEF EndpointInv, RegistryOK
  <2> QED
    BY <2>1, <2>2, <2>3, <2>4 DEF RegistryOK
<1>6. PlaysMove
  BY <1>3, <1>4 DEF PlaysMove
<1>7. ThanksOK'
  <2>1. Reported' = Reported
    BY <1>3 DEF Reported
  <2>2. Asking' \subseteq Asking
    BY <1>2, <1>3 DEF Asking
  <2>3. \A r \in Requests :
            media'[CallOf[r]].playing \/ r \in Reported' => row'[r] = "responded" /\ r \notin Asking'
    BY <1>3, <2>1, <2>2 DEF EndpointInv, ThanksOK
  <2>4. \A r \in Reported' : ~media'[CallOf[r]].playing
    BY <2>1 DEF EndpointInv, ThanksOK
  <2>5. \A c \in Calls : playbacks'[c] # None /\ playbacks'[c].completed => playbacks'[c].request \in Reported'
    BY <1>2, <2>1 DEF EndpointInv, ThanksOK
  <2>6. ~cut => ack[d].request \in Reported
    <3>1. playbacks[ack[d].call] # None /\ playbacks[ack[d].call].request = ack[d].request
      BY DEF EndpointInv, RegistryOK
    <3> QED
      BY <1>1, <3>1 DEF EndpointInv, ThanksOK
  <2>7. \A k \in Deliveries : ack'[k].pc = "hang_up" /\ ~ack'[k].cut => ack'[k].request \in Reported'
    BY <1>2, <1>3, <2>1, <2>6 DEF EndpointInv, ThanksOK
  <2> QED
    BY <2>3, <2>4, <2>5, <2>7 DEF ThanksOK
<1> QED
  BY <1>1, <1>2, <1>5, <1>6, <1>7, PlaybackFrame DEF StateOK

(* The playback goes on. *)
LEMMA PlayOnOK ==
    ASSUME EndpointInv, NEW d \in Deliveries, PlaybackStep(d), Playing(d), UNCHANGED playbacks,
           NEW pc \in {"reply", "wait"}, ack' = [ack EXCEPT ![d].pc = pc],
           \/ UNCHANGED media
           \/ ack[d].pc = "play" /\ media' = [media EXCEPT ![ack[d].call].playing = TRUE]
    PROVE  EndpointInv'
<1>1. /\ StateOK /\ ack[d].pc # "none" /\ ack[d].request \in Requests /\ ack[d].call = CallOf[ack[d].request]
      /\ ack[d].call \in Calls /\ row[ack[d].request] = "responded"
  BY AckFacts DEF EndpointInv, Playing, RegistryOK
<1>2. /\ ack' \in [Deliveries -> AckStates] /\ OtherAcks(d)
      /\ ack'[d].pc = pc /\ ack'[d].call = ack[d].call /\ ack'[d].request = ack[d].request
      /\ ack'[d].cut = ack[d].cut /\ ack'[d].raises = ack[d].raises
  BY <1>1, AckGotoFacts DEF OtherAcks
<1>3. UNCHANGED <<row, sent>> /\ \A k \in Deliveries : Playing(k)' <=> Playing(k)
  BY <1>2 DEF PlaybackStep, endpointVars, Playing, OtherAcks
<1>4. ASSUME NEW k \in Deliveries
      PROVE  /\ ack'[k].call = ack[k].call /\ ack'[k].request = ack[k].request
             /\ ack'[k].pc # "none" => ack[k].pc # "none"
             /\ ack'[k].pc \in {"due", "play"} => ack[k].pc \in {"due", "play"} /\ k # d
             /\ ack'[k].pc = "hang_up" => ack'[k] = ack[k]
  BY <1>1, <1>2 DEF OtherAcks
<1>5. RegistryOK'
  BY <1>3, <1>4 DEF EndpointInv, RegistryOK
<1>6. PlaysMove
  BY <1>3, <1>4 DEF PlaysMove
<1>7. /\ media' \in [Calls -> MediaStates]
      /\ \A c \in Calls : media'[c].up => media[c].up
      /\ \A c \in Calls : 
            media'[c].playing => media[c].playing \/ (c = ack[d].call /\ ack[d].pc = "play")
  BY <1>1 DEF StateOK, MediaStates
<1>8. ThanksOK'
  <2>1. Reported' = Reported
    BY <1>3 DEF Reported
  <2>2. Asking' \subseteq Asking
    BY <1>4 DEF Asking
  <2>3. ack[d].pc = "play" => ack[d].request \in Asking /\ ack[d].request \notin Asking'
    <3>1. ack[d].pc = "play" => ack[d].request \in Asking
      BY <1>1 DEF Asking
    <3>2. \A k \in Deliveries \ {d} : ack[k].pc \in {"due", "play"} => ack[k].request # ack[d].request
      BY <1>1, OtherPlays
    <3> QED
      BY <1>4, <3>1, <3>2 DEF Asking
  <2>4. ack[d].pc = "play" => ack[d].request \notin Reported
    BY <1>1, <2>3 DEF EndpointInv, ThanksOK
  <2>5. \A r \in Requests : CallOf[r] = ack[d].call => r = ack[d].request
    BY <1>1, CallsAssumption
  <2>6. \A r \in Requests : CallOf[r] \in Calls
    BY CallsAssumption
  <2>7. \A r \in Requests :
            media'[CallOf[r]].playing \/ r \in Reported' => row'[r] = "responded" /\ r \notin Asking'
    <3> SUFFICES ASSUME NEW r \in Requests, media'[CallOf[r]].playing \/ r \in Reported'
                 PROVE  row'[r] = "responded" /\ r \notin Asking'
      OBVIOUS
    <3>1. CASE r = ack[d].request /\ ack[d].pc = "play"
      BY <1>1, <1>3, <2>3, <3>1
    <3>2. CASE media[CallOf[r]].playing \/ r \in Reported
      BY <1>3, <2>2, <3>2 DEF EndpointInv, ThanksOK
    <3> QED
      BY <1>7, <2>1, <2>5, <2>6, <3>1, <3>2
  <2>8. \A r \in Reported' : ~media'[CallOf[r]].playing
    <3>1. \A r \in Reported : r \in Requests /\ ~media[CallOf[r]].playing
      BY DEF EndpointInv, ThanksOK, Reported
    <3> QED
      BY <1>7, <2>1, <2>4, <2>5, <2>6, <3>1
  <2>9. \A c \in Calls : playbacks'[c] # None /\ playbacks'[c].completed => playbacks'[c].request \in Reported'
    BY <2>1 DEF EndpointInv, ThanksOK
  <2>10. \A k \in Deliveries : ack'[k].pc = "hang_up" /\ ~ack'[k].cut => ack'[k].request \in Reported'
    BY <1>4, <2>1 DEF EndpointInv, ThanksOK
  <2> QED
    BY <2>7, <2>8, <2>9, <2>10 DEF ThanksOK
<1>9. ack'[d].raises => faults' > 0
  BY <1>2 DEF EndpointInv, FaultsOK, PlaybackStep
<1>10. playbacks' \in [Calls -> PlaybackStates] /\ ack'[d].pc # "none"
  BY <1>1, <1>2 DEF StateOK
<1> QED
  BY <1>1, <1>2, <1>5, <1>6, <1>7, <1>8, <1>9, <1>10, PlaybackFrame

LEMMA AcknowledgeOK == ASSUME EndpointInv, NEW d \in Deliveries, Acknowledge(d) \/ PlaybackFault(d) PROVE EndpointInv'
<1>1. StateOK /\ UNCHANGED endpointVars /\ Playing(d)
  BY DEF EndpointInv, Acknowledge, PlaybackFault, PlayMedia, PlayReply, HeardOut, PlaybackTimeout, PlayFault,
     CleanupTimeout, Playing
<1>2. faults' \in 0..MaxFaults /\ (faults > 0 => faults' > 0)
  <2>1. Fault \/ UNCHANGED faults
    BY DEF Acknowledge, PlaybackFault, PlayMedia, PlayReply, HeardOut, PlaybackTimeout, PlayFault, CleanupTimeout
  <2>2. faults \in 0..MaxFaults
    BY <1>1 DEF StateOK
  <2> QED
    BY <2>1, <2>2, NoneAssumption DEF Fault
<1>3. PlaybackStep(d)
  BY <1>1, <1>2 DEF PlaybackStep
<1>4. CASE PlayMedia(d)
  <2>1. CASE media[ack[d].call].up
    BY <1>1, <1>3, <1>4, <2>1, PlayOnOK DEF PlayMedia
  <2>2. CASE ~media[ack[d].call].up
    BY <1>1, <1>3, <1>4, <2>2, StopOK DEF PlayMedia
  <2> QED
    BY <2>1, <2>2
<1>5. CASE PlayReply(d)
  <2>1. CASE playbacks[ack[d].call].completed
    BY <1>1, <1>3, <1>5, <2>1, StopOK DEF PlayReply
  <2>2. CASE ~playbacks[ack[d].call].completed
    BY <1>1, <1>3, <1>5, <2>2, PlayOnOK DEF PlayReply
  <2> QED
    BY <2>1, <2>2
<1>6. CASE HeardOut(d)
  BY <1>1, <1>3, <1>6, StopOK DEF HeardOut
<1>7. CASE PlaybackTimeout(d)
  BY <1>1, <1>3, <1>7, StopOK DEF PlaybackTimeout
<1>8. CASE PlayFault(d)
  BY <1>1, <1>3, <1>8, StopOK DEF PlayFault
<1>9. CASE CleanupTimeout(d)
  <2>1. faults' > 0
    BY <1>1, <1>9, NoneAssumption DEF StateOK, CleanupTimeout, Fault
  <2> QED
    BY <1>1, <1>3, <1>9, <2>1, StopOK DEF CleanupTimeout
<1> QED
  BY <1>4, <1>5, <1>6, <1>7, <1>8, <1>9 DEF Acknowledge, PlaybackFault
-----------------------------------------------------------------------------
(*                          What ACS sends                                 *)

LEMMA SendFacts ==
    ASSUME StateOK, NEW r \in Requests, NEW type \in Types, Send(type, r)
    PROVE  /\ sent \subseteq sent' /\ sent' \subseteq Events /\ fresh' \subseteq sent'
           /\ sent' \ fresh' \subseteq sent \ fresh
           /\ \A e \in sent' : e \in sent \/ (e.request = r /\ e.type = type)
<1>1. CloudEvent(type, r) \in Events
  BY DEF Events
<1>2. CloudEvent(type, r).request = r /\ CloudEvent(type, r).type = type
  BY DEF CloudEvent
<1>3. sent \subseteq Events /\ fresh \subseteq sent
  BY DEF StateOK
<1>4. CASE sent' = sent \cup {CloudEvent(type, r)} /\ fresh' = fresh \cup {CloudEvent(type, r)}
  BY <1>1, <1>2, <1>3, <1>4
<1>5. CASE UNCHANGED <<sent, fresh>>
  BY <1>3, <1>5
<1> QED
  BY <1>4, <1>5 DEF Send

(* The call of a request may end, and ACS says so. *)
MayEnd(c) ==
    /\ Down(c) \/ UNCHANGED media
    /\ HangUpReports(c)

LEMMA HangUpFacts ==
    ASSUME EndpointInv, NEW q \in Requests, MayEnd(CallOf[q])
    PROVE  /\ sent \subseteq sent' /\ sent' \subseteq Events /\ fresh' \subseteq sent'
           /\ sent' \ fresh' \subseteq sent \ fresh /\ listening' \subseteq listening
           /\ \A e \in sent' : e \in sent \/ (e.request \in Requests /\ Reached(e.request))
           /\ Reported' = Reported
           /\ media' \in [Calls -> MediaStates]
           /\ \A c \in Calls : media'[c].up => media[c].up
           /\ \A c \in Calls : media'[c].playing => media[c].playing
<1>1. StateOK /\ CallOf[q] \in Calls
  BY CallsAssumption DEF EndpointInv
<1>2. /\ media' \in [Calls -> MediaStates]
      /\ \A c \in Calls : media'[c].up => media[c].up
      /\ \A c \in Calls : media'[c].playing => media[c].playing
  BY <1>1, DownFacts DEF StateOK, MayEnd
<1>3. CASE media[CallOf[q]].up /\ ~media'[CallOf[q]].up
  <2>1. (CHOOSE r \in Requests : CallOf[r] = CallOf[q]) = q
    BY CallsAssumption
  <2>2. Send("CallDisconnected", q) /\ listening' \subseteq listening
    BY <1>3, <2>1 DEF MayEnd, HangUpReports
  <2>3. /\ sent \subseteq sent' /\ sent' \subseteq Events /\ fresh' \subseteq sent'
        /\ sent' \ fresh' \subseteq sent \ fresh
        /\ \A e \in sent' : e \in sent \/ (e.request = q /\ e.type = "CallDisconnected")
    BY <1>1, <2>2, SendFacts DEF Types
  <2>4. Reached(q)
    BY <1>3 DEF EndpointInv, WorldOK
  <2>5. Reported' = Reported
    BY <2>3 DEF Reported, PlayTypes
  <2> QED
    BY <1>2, <2>2, <2>3, <2>4, <2>5
<1>4. CASE ~(media[CallOf[q]].up /\ ~media'[CallOf[q]].up)
  <2>1. UNCHANGED <<listening, sent, fresh>>
    BY <1>4 DEF MayEnd, HangUpReports
  <2> QED
    BY <1>1, <1>2, <2>1 DEF StateOK, Reported
<1> QED
  BY <1>3, <1>4

(* The end of the handling of an answer, or of a request without one.       *)
LEMMA HangUpOK ==
    ASSUME EndpointInv, NEW d \in Deliveries,
           Acknowledged(d) \/ AcknowledgeFault(d) \/ BestEffortHangUp(d) \/ BestEffortHangUpFault(d)
    PROVE  EndpointInv'
<1>1. /\ StateOK /\ UNCHANGED <<playbacks, row>> /\ RowsMove
      /\ delivery[d].pc \in {"acknowledge", "hang_up"}
  <2>1. UNCHANGED <<playbacks, row>>
    BY DEF Acknowledged, AcknowledgeFault, BestEffortHangUp, BestEffortHangUpFault, HangUp, HangUpFault
  <2>2. delivery[d].pc = "hang_up" \/ ack[d].pc = "hang_up"
    BY DEF Acknowledged, AcknowledgeFault, BestEffortHangUp, BestEffortHangUpFault, HangUp, HangUpFault
  <2> QED
    BY <2>1, <2>2, AckFacts DEF EndpointInv, RowsMove
<1>2. /\ Busy(d) /\ Current(d).call = CallOf[RequestOf(d)] /\ RequestOf(d) \in Requests
      /\ delivery[d].i \in DOMAIN delivery[d].batch
  BY <1>1, CurrentFacts DEF EndpointInv, Busy
<1>3. MayEnd(Current(d).call)
  <2>1. CASE Acknowledged(d) \/ AcknowledgeFault(d)
    <3>1. ack[d].call = Current(d).call
      BY <2>1, AckFacts DEF Acknowledged, AcknowledgeFault, HangUp, HangUpFault
    <3> QED
      BY <2>1, <3>1 DEF Acknowledged, AcknowledgeFault, HangUp, HangUpFault, MayEnd
  <2>2. CASE BestEffortHangUp(d)
    BY <2>2 DEF BestEffortHangUp, MayEnd
  <2>3. CASE BestEffortHangUpFault(d)
    BY <2>3 DEF BestEffortHangUpFault, MayEnd, HangUpReports
  <2> QED
    BY <2>1, <2>2, <2>3
<1>4. /\ sent \subseteq sent' /\ sent' \subseteq Events /\ fresh' \subseteq sent'
      /\ sent' \ fresh' \subseteq sent \ fresh /\ listening' \subseteq listening
      /\ \A e \in sent' : e \in sent \/ (e.request \in Requests /\ Reached(e.request))
      /\ Reported' = Reported
      /\ media' \in [Calls -> MediaStates]
      /\ \A c \in Calls : media'[c].up => media[c].up
      /\ \A c \in Calls : media'[c].playing => media[c].playing
  BY <1>2, <1>3, HangUpFacts
<1>5. faults' \in 0..MaxFaults /\ (faults > 0 => faults' > 0)
  <2>1. Fault \/ UNCHANGED faults
    BY DEF Acknowledged, AcknowledgeFault, BestEffortHangUp, BestEffortHangUpFault, HangUp, HangUpFault
  <2>2. faults \in 0..MaxFaults
    BY <1>1 DEF StateOK
  <2> QED
    BY <2>1, <2>2, NoneAssumption DEF Fault
<1>6. /\ ack' \in [Deliveries -> AckStates] /\ OtherAcks(d) /\ SamePlays
      /\ ack'[d].pc = "none" /\ (ack'[d].raises => faults' > 0)
  <2>1. CASE Acknowledged(d) \/ AcknowledgeFault(d)
    <3>1. ack[d].pc = "hang_up" /\ Ended(d)
      BY <2>1 DEF Acknowledged, AcknowledgeFault, HangUp, HangUpFault
    <3>2. /\ ack' \in [Deliveries -> AckStates] /\ OtherAcks(d)
          /\ ack'[d].pc = "none" /\ ~ack'[d].raises
      BY <1>1, <3>1, EndedFacts DEF OtherAcks
    <3>3. \A k \in Deliveries :
              ack'[k] = ack[k] \/ (ack[k].pc = "hang_up" /\ ack'[k].pc = "none" /\ ~ack'[k].raises)
      BY <3>1, <3>2 DEF OtherAcks
    <3>4. playbacks' = playbacks
      BY <1>1
    <3>5. SamePlays
      BY <3>3, <3>4 DEF SamePlays
    <3> QED
      BY <3>2, <3>5
  <2>2. CASE BestEffortHangUp(d) \/ BestEffortHangUpFault(d)
    <3>1. UNCHANGED ack /\ delivery[d].pc = "hang_up"
      BY <2>2 DEF BestEffortHangUp, BestEffortHangUpFault
    <3>2. ack[d].pc = "none"
      BY <3>1 DEF EndpointInv, BatchesOK
    <3>3. ack[d].raises => faults > 0
      BY DEF EndpointInv, FaultsOK
    <3>4. SamePlays
      BY <1>1, <3>1, Unregistered
    <3>5. ack' \in [Deliveries -> AckStates] /\ OtherAcks(d)
      BY <1>1, <3>1 DEF StateOK, OtherAcks
    <3> QED
      BY <1>5, <3>1, <3>2, <3>3, <3>4, <3>5
  <2> QED
    BY <2>1, <2>2
<1>7. \/ Advance(d)
      \/ Goto(d, "hang_up") /\ faults' > 0 /\ delivery[d].pc = "acknowledge"
  <2>1. ack[d].raises => faults > 0
    BY DEF EndpointInv, FaultsOK
  <2>2. Fault => faults' > 0
    BY <1>1, NoneAssumption DEF StateOK, Fault
  <2>3. ack[d].pc = "hang_up" => delivery[d].pc = "acknowledge"
    BY AckFacts
  <2> QED
    BY <1>5, <2>1, <2>2, <2>3 DEF Acknowledged, AcknowledgeFault, BestEffortHangUp, BestEffortHangUpFault,
       HangUp, HangUpFault
<1>8. \A j \in DOMAIN delivery[d].batch : Past(d, j) => delivery[d].batch[j] \in sent /\ delivery[d].batch[j] \in Finished
  BY DEF EndpointInv, HandledOK, BatchesOK
<1>9. /\ delivery' \in [Deliveries -> DeliveryStates] /\ Others(d)
      /\ delivery'[d].batch = delivery[d].batch /\ delivery'[d].pc # "acknowledge"
      /\ Busy(d)' => delivery'[d].i \in DOMAIN delivery'[d].batch
      /\ Busy(d)' /\ delivery'[d].pc # "get" => Current(d)'.type \notin PlayTypes
      /\ delivery'[d].pc = "hang_up" => faults' > 0
      /\ delivery'[d].raises => delivery'[d].pc \in {"hang_up", "done"}
      /\ \A j \in DOMAIN delivery[d].batch : Past(d, j)' => Past(d, j)
  <2>1. CASE Advance(d)
    <3>1. /\ delivery' \in [Deliveries -> DeliveryStates] /\ Others(d) /\ delivery'[d].batch = delivery[d].batch
      BY <1>1, <2>1, AdvanceFacts DEF Others
    <3>2. /\ delivery'[d].pc \in {"get", "done"}
          /\ Busy(d)' => delivery'[d].i \in DOMAIN delivery'[d].batch
          /\ delivery'[d].raises => delivery'[d].pc = "done"
          /\ \A j \in DOMAIN delivery[d].batch :
                Past(d, j)' => ~delivery[d].raises /\ (Past(d, j) \/ j = delivery[d].i)
      BY <1>2, <2>1, AdvancePast
    <3>3. ~delivery[d].raises => Past(d, delivery[d].i)
      BY <1>1 DEF Past
    <3>4. Busy(d)' => delivery'[d].pc = "get"
      BY <3>2 DEF Busy
    <3> QED
      BY <3>1, <3>2, <3>3, <3>4
  <2>2. CASE Goto(d, "hang_up") /\ faults' > 0 /\ delivery[d].pc = "acknowledge"
    <3>1. /\ delivery' \in [Deliveries -> DeliveryStates] /\ Others(d)
          /\ delivery'[d].pc = "hang_up" /\ delivery'[d].batch = delivery[d].batch
          /\ delivery'[d].i = delivery[d].i /\ delivery'[d].raises = delivery[d].raises
      BY <1>1, <2>2, GotoFacts DEF Others
    <3>2. Current(d)' = Current(d) /\ Current(d).type \notin PlayTypes
      BY <1>2, <2>2, <3>1 DEF Current, EndpointInv, BatchesOK
    <3>3. \A j \in DOMAIN delivery[d].batch : Past(d, j)' => Past(d, j)
      BY <1>2, <2>2, <3>1 DEF Past, Busy
    <3> QED
      BY <1>2, <2>2, <3>1, <3>2, <3>3
  <2> QED
    BY <1>7, <2>1, <2>2
<1>10. StateOK'
  BY <1>1, <1>4, <1>5, <1>6, <1>9 DEF StateOK
<1>11. BatchesOK'
  <2>1. \A j \in DOMAIN delivery'[d].batch : delivery'[d].batch[j] \in sent'
    BY <1>4, <1>9 DEF EndpointInv, BatchesOK
  <2> QED
    BY <1>4, <1>6, <1>9, <2>1, BatchesFrame
<1>12. WorldOK'
  <2>1. \A r \in Requests : media'[CallOf[r]].up => media[CallOf[r]].up
    BY <1>4, CallsAssumption
  <2> QED
    BY <1>1, <1>4, <2>1, WorldFrame DEF StateOK
<1>13. RegistryOK' /\ PlaysMove
  BY <1>1, <1>6, RegistryFrame
<1>14. ThanksOK'
  BY <1>1, <1>4, <1>6, ThanksFrame
<1>15. HandledOK'
  <2>1. \A j \in DOMAIN delivery'[d].batch : Past(d, j)' => delivery'[d].batch[j] \in Finished'
    BY <1>1, <1>8, <1>9, <1>13, FinishedStays
  <2>2. \A e \in sent' \ fresh' : e \in sent /\ (e \in fresh => e \in Finished')
    BY <1>4
  <2> QED
    BY <1>1, <1>9, <1>13, <2>1, <2>2, HandledFrame
<1>16. FaultsOK'
  BY <1>1, <1>5, <1>6, <1>9, FaultsFrame
<1> QED
  BY <1>10, <1>11, <1>12, <1>13, <1>14, <1>15, <1>16 DEF EndpointInv

(* ACS posts a batch of what it has not been answered for.                  *)
LEMMA ReceiveOK ==
    ASSUME EndpointInv, NEW d \in Deliveries, Post(d) \/ Respond(d)
    PROVE  EndpointInv'
<1>1. /\ StateOK /\ UNCHANGED <<playbacks, ack, media, faults, row, listening, sent>> /\ RowsMove /\ SamePlays
      /\ ~Busy(d) /\ ack[d].pc = "none"
  <2>1. UNCHANGED <<playbacks, ack, media, faults, row, listening, sent>> /\ delivery[d].pc \in {"idle", "done"}
    BY DEF Post, Receive, Respond, playbackVars
  <2>2. ack[d].pc = "none"
    BY <2>1 DEF EndpointInv, BatchesOK
  <2> QED
    BY <2>1, <2>2, Unregistered DEF EndpointInv, RowsMove, Busy
<1>2. IdleDelivery \in DeliveryStates /\ IdleDelivery.pc = "idle" /\ ~IdleDelivery.raises /\ IdleDelivery.batch = <<>>
  BY DEF DeliveryStates, IdleDelivery
<1>3. /\ delivery' \in [Deliveries -> DeliveryStates] /\ Others(d)
      /\ delivery'[d].pc \in {"idle", "get", "done"} /\ ~delivery'[d].raises
      /\ delivery'[d].pc = "get" => delivery'[d].i = 1 /\ 1 \in DOMAIN delivery'[d].batch
      /\ delivery'[d].pc = "done" => delivery'[d].result = "refused"
      /\ \A j \in DOMAIN delivery'[d].batch : delivery'[d].batch[j] \in sent /\ j \in Nat /\ j >= 1
      /\ sent \ fresh' \subseteq (sent \ fresh) \cup Finished /\ fresh' \subseteq sent
  <2>1. CASE Respond(d)
    <3>1. delivery' = [delivery EXCEPT ![d] = IdleDelivery] /\ delivery \in [Deliveries -> DeliveryStates]
      BY <1>1, <2>1 DEF Respond, StateOK
    <3>2. delivery'[d] = IdleDelivery /\ Others(d) /\ delivery' \in [Deliveries -> DeliveryStates]
      BY <1>2, <3>1 DEF Others
    <3>3. delivery[d].result = "ok" => ToSet(delivery[d].batch) \subseteq Finished
      BY <2>1 DEF Respond, ToSet, EndpointInv, HandledOK, Past
    <3>4. sent \ fresh' \subseteq (sent \ fresh) \cup Finished /\ fresh' \subseteq sent
      BY <1>1, <2>1, <3>3 DEF Respond, StateOK
    <3> QED
      BY <1>2, <3>2, <3>4
  <2>2. CASE Post(d)
    <3>1. PICK b \in Batches(fresh) : Receive(d, b)
      BY <2>2 DEF Post
    <3>2. /\ b \in Seq(Events) /\ 1 \in DOMAIN b
          /\ \A j \in DOMAIN b : b[j] \in sent /\ j \in Nat /\ j >= 1
      <4>1. fresh \subseteq sent /\ sent \subseteq Events
        BY <1>1 DEF StateOK
      <4>2. (\E e \in fresh : b = <<e>>) \/ (\E e, f \in fresh : b = <<e, f>>)
        BY <3>1 DEF Batches
      <4>3. ASSUME NEW e \in fresh, b = <<e>>
            PROVE  b \in Seq(Events) /\ DOMAIN b = 1..1 /\ b[1] \in sent
        BY <4>1, <4>3
      <4>4. ASSUME NEW e \in fresh, NEW f \in fresh, b = <<e, f>>
            PROVE  b \in Seq(Events) /\ DOMAIN b = 1..2 /\ b[1] \in sent /\ b[2] \in sent
        BY <4>1, <4>4
      <4>5. CASE \E e \in fresh : b = <<e>>
        BY <4>3, <4>5
      <4>6. CASE \E e, f \in fresh : b = <<e, f>>
        <5>1. b \in Seq(Events) /\ DOMAIN b = 1..2 /\ b[1] \in sent /\ b[2] \in sent
          BY <4>4, <4>6
        <5>2. \A j \in DOMAIN b : j = 1 \/ j = 2
          BY <5>1
        <5> QED
          BY <5>1, <5>2
      <4> QED
        BY <4>2, <4>5, <4>6
    <3> DEFINE taken == [IdleDelivery EXCEPT !.pc = "get", !.batch = b, !.i = 1]
               refused == [IdleDelivery EXCEPT !.pc = "done", !.batch = b, !.result = "refused"]
    <3>3. /\ taken \in DeliveryStates /\ taken.pc = "get" /\ ~taken.raises /\ taken.batch = b /\ taken.i = 1
      BY <3>2 DEF DeliveryStates, IdleDelivery
    <3>4. /\ refused \in DeliveryStates /\ refused.pc = "done" /\ ~refused.raises /\ refused.batch = b
          /\ refused.result = "refused"
      BY <3>2 DEF DeliveryStates, IdleDelivery
    <3>5. PICK new \in {taken, refused} : delivery' = [delivery EXCEPT ![d] = new]
      BY <3>1 DEF Receive
    <3> HIDE DEF taken, refused
    <3>6. delivery'[d] = new /\ Others(d) /\ delivery' \in [Deliveries -> DeliveryStates]
      BY <1>1, <3>3, <3>4, <3>5 DEF Others, StateOK
    <3>7. fresh' = fresh
      BY <3>1 DEF Receive
    <3>8. fresh \subseteq sent
      BY <1>1 DEF StateOK
    <3> QED
      BY <3>2, <3>3, <3>4, <3>5, <3>6, <3>7, <3>8
  <2> QED
    BY <2>1, <2>2
<1>4. OtherAcks(d) /\ sent' = sent /\ Reported' = Reported
  BY <1>1 DEF OtherAcks, Reported
<1>5. StateOK'
  BY <1>1, <1>3 DEF StateOK
<1>6. BatchesOK'
  <2>1. Busy(d)' => delivery'[d].pc = "get"
    BY <1>3 DEF Busy
  <2>2. Busy(d)' => delivery'[d].i \in DOMAIN delivery'[d].batch
    BY <1>3, <2>1
  <2>3. delivery'[d].pc # "acknowledge" /\ ack'[d].pc = "none"
    BY <1>1, <1>3
  <2>4. \A j \in DOMAIN delivery'[d].batch : delivery'[d].batch[j] \in sent'
    BY <1>3, <1>4
  <2>5. Others(d)
    BY <1>3
  <2>6. sent \subseteq sent'
    BY <1>4
  <2> QED
    BY <1>4, <2>1, <2>2, <2>3, <2>4, <2>5, <2>6, BatchesFrame
<1>7. WorldOK'
  BY <1>1, WorldFrame DEF StateOK
<1>8. RegistryOK' /\ PlaysMove
  BY <1>1, RegistryFrame
<1>9. ThanksOK'
  BY <1>1, <1>4, ThanksFrame
<1>10. HandledOK'
  <2>1. \A j \in DOMAIN delivery'[d].batch : ~Past(d, j)'
    BY <1>3 DEF Past, Busy
  <2>2. \A e \in sent' \ fresh' : e \in sent /\ (e \in fresh => e \in Finished')
    BY <1>1, <1>3, <1>4, <1>8, FinishedStays
  <2> QED
    BY <1>1, <1>3, <1>8, <2>1, <2>2, HandledFrame
<1>11. FaultsOK'
  BY <1>1, <1>3, <1>4, FaultsFrame DEF EndpointInv, FaultsOK
<1> QED
  BY <1>5, <1>6, <1>7, <1>8, <1>9, <1>10, <1>11 DEF EndpointInv

(* What holds of the deliveries holds whatever else goes on.                *)
LEMMA WorldStep ==
    ASSUME EndpointInv, NEW r \in Requests, World(r),
           UNCHANGED <<playbacks, ack, faults, delivery>>, RowsMove, row' \in [Requests -> Statuses],
           media' \in [Calls -> MediaStates], listening' \subseteq Requests,
           sent \subseteq sent', sent' \subseteq Events, fresh' \subseteq sent', sent' \ fresh' \subseteq sent \ fresh,
           \A e \in sent' : e \in sent \/ (e.request \in Requests /\ Reached(e.request)),
           \A q \in listening' : q \in listening \/ row'[q] # "absent",
           \A q \in Requests : media'[CallOf[q]].up => media[CallOf[q]].up \/ row'[q] # "absent",
           ThanksOK'
    PROVE  EndpointInv'
<1>1. StateOK'
  BY DEF EndpointInv, StateOK
<1>2. SamePlays
  BY Unregistered
<1>3. BatchesOK'
  BY DEF EndpointInv, BatchesOK, Busy, Current, RequestOf
<1>4. WorldOK'
  BY WorldFrame
<1>5. RegistryOK' /\ PlaysMove
  BY <1>2, RegistryFrame
<1>6. HandledOK'
  <2>1. \A e \in sent : e \in Finished => e \in Finished'
    BY <1>5, FinishedStays
  <2>2. ASSUME NEW d \in Deliveries, NEW j \in DOMAIN delivery'[d].batch, Past(d, j)'
        PROVE  delivery'[d].batch[j] \in Finished'
    <3>1. Past(d, j) /\ j \in DOMAIN delivery[d].batch /\ delivery'[d].batch[j] = delivery[d].batch[j]
      BY <2>2 DEF Past, Busy
    <3> QED
      BY <2>1, <3>1 DEF EndpointInv, HandledOK, BatchesOK
  <2>3. sent' \ fresh' \subseteq Finished'
    BY <2>1 DEF EndpointInv, HandledOK
  <2> QED
    BY <2>2, <2>3 DEF HandledOK
<1>7. FaultsOK'
  <2>1. \A d \in Deliveries : delivery[d].pc = "hang_up" => RequestOf(d) \in Requests
    BY CurrentFacts DEF EndpointInv, Busy
  <2>2. \A d \in Deliveries : RequestOf(d)' = RequestOf(d)
    BY DEF RequestOf, Current
  <2>3. \A d \in Deliveries : delivery'[d].pc = "hang_up" => faults' > 0 \/ row'[RequestOf(d)'] \in {"expired", "failed"}
    BY <2>1, <2>2 DEF EndpointInv, FaultsOK, RowsMove
  <2> QED
    BY <2>2, <2>3 DEF EndpointInv, FaultsOK
<1> QED
  BY <1>1, <1>3, <1>4, <1>5, <1>6, <1>7 DEF EndpointInv

(* What is not a report of a playback leaves the thanks alone.              *)
LEMMA WorldThanks ==
    ASSUME EndpointInv, UNCHANGED <<playbacks, ack>>, RowsMove, sent \subseteq sent', Reported' = Reported,
           \A c \in Calls : media'[c].playing => media[c].playing
    PROVE  ThanksOK'
  BY Unregistered, ThanksFrame

(* The call of a request ends outside the deliveries.                       *)
LEMMA EndsOK ==
    ASSUME EndpointInv, NEW r \in Requests, SettledElsewhere(r) \/ PutDown(r)
    PROVE  EndpointInv'
<1>1. StateOK /\ World(r) /\ UNCHANGED <<playbacks, ack, faults, delivery>> /\ MayEnd(CallOf[r])
  BY DEF EndpointInv, World, SettledElsewhere, PutDown, MayEnd
<1>2. RowsMove /\ row' \in [Requests -> Statuses]
  <2>1. CASE SettledElsewhere(r)
    BY <1>1, <2>1, SettleFacts DEF SettledElsewhere, RowsMove
  <2>2. CASE PutDown(r)
    BY <1>1, <2>2 DEF PutDown, RowsMove, StateOK
  <2> QED
    BY <2>1, <2>2
<1>3. /\ sent \subseteq sent' /\ sent' \subseteq Events /\ fresh' \subseteq sent'
      /\ sent' \ fresh' \subseteq sent \ fresh /\ listening' \subseteq listening
      /\ \A e \in sent' : e \in sent \/ (e.request \in Requests /\ Reached(e.request))
      /\ Reported' = Reported
      /\ media' \in [Calls -> MediaStates]
      /\ \A c \in Calls : media'[c].up => media[c].up
      /\ \A c \in Calls : media'[c].playing => media[c].playing
  BY <1>1, HangUpFacts
<1>4. \A q \in Requests : media'[CallOf[q]].up => media[CallOf[q]].up
  BY <1>3, CallsAssumption
<1>5. listening' \subseteq Requests /\ (\A q \in listening' : q \in listening)
  BY <1>1, <1>3 DEF StateOK
<1>6. ThanksOK'
  BY <1>1, <1>2, <1>3, WorldThanks
<1> QED
  BY <1>1, <1>2, <1>3, <1>4, <1>5, <1>6, WorldStep

(* A person is called, answers, and is heard.                               *)
LEMMA PromptedOK == ASSUME EndpointInv, NEW r \in Requests, Prompted(r) PROVE EndpointInv'
<1>1. StateOK /\ World(r) /\ UNCHANGED <<playbacks, ack, faults, delivery, sent, fresh>> /\ CallOf[r] \in Calls
  BY CallsAssumption DEF EndpointInv, World, Prompted
<1>2. /\ row' \in [Requests -> Statuses] /\ row[r] = "absent" /\ row'[r] = "pending"
      /\ \A q \in Requests \ {r} : row'[q] = row[q]
  BY <1>1 DEF Prompted, StateOK, Statuses
<1>3. RowsMove
  BY <1>2 DEF RowsMove
<1>4. /\ media' \in [Calls -> MediaStates]
      /\ \A c \in Calls : media'[c].playing => media[c].playing
      /\ \A c \in Calls \ {CallOf[r]} : media'[c] = media[c]
  BY <1>1 DEF Prompted, StateOK, MediaStates
<1>5. \A q \in Requests : media'[CallOf[q]].up => media[CallOf[q]].up \/ row'[q] # "absent"
  <2>1. \A q \in Requests \ {r} : CallOf[q] \in Calls \ {CallOf[r]}
    BY CallsAssumption
  <2> QED
    BY <1>2, <1>4, <2>1
<1>6. listening' \subseteq Requests /\ \A q \in listening' : q \in listening \/ row'[q] # "absent"
  BY <1>1, <1>2 DEF Prompted, StateOK
<1>7. ThanksOK'
  <2>1. Reported' = Reported
    BY <1>1 DEF Reported
  <2> QED
    BY <1>1, <1>3, <1>4, <2>1, WorldThanks
<1>8. sent \subseteq sent' /\ sent' \subseteq Events /\ fresh' \subseteq sent' /\ sent' \ fresh' \subseteq sent \ fresh
  BY <1>1 DEF StateOK
<1>9. \A e \in sent' : e \in sent
  BY <1>1
<1> QED
  BY <1>1, <1>2, <1>3, <1>4, <1>5, <1>6, <1>7, <1>8, <1>9, WorldStep

(* What is heard, and what the parser does not know, is sent of a call that *)
(* has been reached.                                                        *)
LEMMA HeardOK ==
    ASSUME EndpointInv, NEW r \in Requests, NEW type \in Reports[r], Hear(r, type) \/ Unknown(r)
    PROVE  EndpointInv'
<1>1. StateOK /\ World(r) /\ UNCHANGED <<playbacks, ack, media, faults, row, delivery>> /\ listening' \subseteq listening
  BY DEF EndpointInv, World, Hear, Unknown, playbackVars
<1>2. Reached(r)
  BY DEF EndpointInv, WorldOK, Hear, Unknown
<1>3. PICK t \in Types \ PlayTypes : Send(t, r)
  BY DEF Hear, Unknown, Types, PlayTypes
<1>4. /\ sent \subseteq sent' /\ sent' \subseteq Events /\ fresh' \subseteq sent'
      /\ sent' \ fresh' \subseteq sent \ fresh
      /\ \A e \in sent' : e \in sent \/ (e.request = r /\ e.type = t)
  BY <1>1, <1>3, SendFacts
<1>5. Reported' = Reported
  BY <1>3, <1>4 DEF Reported
<1>6. RowsMove /\ row' \in [Requests -> Statuses] /\ media' \in [Calls -> MediaStates]
  BY <1>1 DEF StateOK, RowsMove
<1>7. ThanksOK'
  BY <1>1, <1>4, <1>5, <1>6, WorldThanks
<1>8. \A e \in sent' : e \in sent \/ (e.request \in Requests /\ Reached(e.request))
  BY <1>2, <1>4
<1>9. listening' \subseteq Requests /\ \A q \in listening' : q \in listening
  BY <1>1 DEF StateOK
<1>10. \A q \in Requests : media'[CallOf[q]].up => media[CallOf[q]].up
  BY <1>1
<1> QED
  BY <1>1, <1>4, <1>6, <1>7, <1>8, <1>9, <1>10, WorldStep

(* The thanks are over, and ACS says so. *)
LEMMA ReportedOK ==
    ASSUME EndpointInv, NEW r \in Requests, NEW type \in Reports[r], PlaybackReported(r, type)
    PROVE  EndpointInv'
<1>1. /\ StateOK /\ World(r) /\ UNCHANGED <<playbacks, ack, faults, row, listening, delivery>>
      /\ media[CallOf[r]].playing /\ CallOf[r] \in Calls
  BY CallsAssumption DEF EndpointInv, World, PlaybackReported, PlaybackOver
<1>2. Send(type, r) /\ type \in PlayTypes /\ type \in Types
  BY DEF PlaybackReported, PlayTypes, Types
<1>3. /\ sent \subseteq sent' /\ sent' \subseteq Events /\ fresh' \subseteq sent'
      /\ sent' \ fresh' \subseteq sent \ fresh
      /\ \A e \in sent' : e \in sent \/ (e.request = r /\ e.type = type)
  BY <1>1, <1>2, SendFacts
<1>4. row[r] = "responded" /\ r \notin Asking
  BY <1>1 DEF EndpointInv, ThanksOK
<1>5. Reported \subseteq Reported' /\ \A q \in Reported' : q \in Reported \/ q = r
  BY <1>3 DEF Reported
<1>6. RowsMove /\ row' \in [Requests -> Statuses]
  BY <1>1 DEF StateOK, RowsMove
<1>7. /\ media' \in [Calls -> MediaStates]
      /\ ~media'[CallOf[r]].playing
      /\ \A c \in Calls : (media'[c].up => media[c].up) /\ (media'[c].playing => media[c].playing)
  BY <1>1 DEF PlaybackReported, PlaybackOver, StateOK, MediaStates
<1>8. \A q \in Requests : media'[CallOf[q]].up => media[CallOf[q]].up
  BY <1>7, CallsAssumption
<1>9. ThanksOK'
  <2>1. Asking' = Asking /\ \A q \in Requests : CallOf[q] \in Calls
    BY <1>1, CallsAssumption DEF Asking
  <2>2. \A q \in Requests :
            media'[CallOf[q]].playing \/ q \in Reported' => row'[q] = "responded" /\ q \notin Asking'
    <3> SUFFICES ASSUME NEW q \in Requests, media'[CallOf[q]].playing \/ q \in Reported'
                 PROVE  row[q] = "responded" /\ q \notin Asking
      BY <1>1, <2>1
    <3>1. q = r \/ media[CallOf[q]].playing \/ q \in Reported
      BY <1>5, <1>7, <2>1
    <3> QED
      BY <1>4, <3>1 DEF EndpointInv, ThanksOK
  <2>3. \A q \in Reported' : ~media'[CallOf[q]].playing
    <3>1. \A q \in Reported : q \in Requests /\ ~media[CallOf[q]].playing
      BY DEF EndpointInv, ThanksOK, Reported
    <3> QED
      BY <1>5, <1>7, <2>1, <3>1
  <2>4. \A c \in Calls : playbacks'[c] # None /\ playbacks'[c].completed => playbacks'[c].request \in Reported'
    BY <1>1, <1>5 DEF EndpointInv, ThanksOK
  <2>5. \A d \in Deliveries : ack'[d].pc = "hang_up" /\ ~ack'[d].cut => ack'[d].request \in Reported'
    BY <1>1, <1>5 DEF EndpointInv, ThanksOK
  <2> QED
    BY <2>2, <2>3, <2>4, <2>5 DEF ThanksOK
<1>10. \A e \in sent' : e \in sent \/ (e.request \in Requests /\ Reached(e.request))
  BY <1>3, <1>4 DEF Reached
<1>11. listening' \subseteq Requests /\ \A q \in listening' : q \in listening
  BY <1>1 DEF StateOK
<1> QED
  BY <1>1, <1>3, <1>6, <1>7, <1>8, <1>9, <1>10, <1>11, WorldStep
-----------------------------------------------------------------------------
LEMMA InitOK == Init => EndpointInv
<1> SUFFICES ASSUME Init PROVE EndpointInv
  OBVIOUS
<1> USE DEF Init, PlaybackInit
<1>1. /\ \A d \in Deliveries : ack[d] = NoAck /\ delivery[d] = IdleDelivery
      /\ \A c \in Calls : playbacks[c] = None /\ ~media[c].up /\ ~media[c].playing
      /\ sent = {} /\ fresh = {} /\ listening = {}
  OBVIOUS
<1>2. NoAck \in AckStates /\ NoAck.pc = "none" /\ ~NoAck.raises
  BY DEF NoAck, AckStates
<1>3. /\ IdleDelivery \in DeliveryStates /\ IdleDelivery.pc = "idle" /\ ~IdleDelivery.raises
      /\ DOMAIN IdleDelivery.batch = {}
  BY DEF IdleDelivery, DeliveryStates
<1>4. StateOK
  <2>1. row \in [Requests -> Statuses] /\ faults \in 0..MaxFaults
    BY NoneAssumption DEF Statuses
  <2>2. playbacks \in [Calls -> PlaybackStates] /\ media \in [Calls -> MediaStates]
    BY DEF PlaybackStates, MediaStates
  <2> QED
    BY <1>1, <1>2, <1>3, <2>1, <2>2 DEF StateOK
<1>5. \A d \in Deliveries : ack[d].pc = "none" /\ delivery[d].pc = "idle"
  BY <1>1, <1>2, <1>3
<1>6. BatchesOK
  BY <1>1, <1>3, <1>5 DEF BatchesOK, Busy
<1>7. WorldOK
  BY <1>1, CallsAssumption DEF WorldOK
<1>8. RegistryOK
  BY <1>1, <1>5 DEF RegistryOK, Playing
<1>9. ThanksOK
  BY <1>1, <1>5, CallsAssumption DEF ThanksOK, Reported
<1>10. HandledOK
  BY <1>1, <1>3, <1>5 DEF HandledOK
<1>11. FaultsOK
  BY <1>1, <1>2, <1>3, <1>5 DEF FaultsOK
<1> QED
  BY <1>4, <1>6, <1>7, <1>8, <1>9, <1>10, <1>11 DEF EndpointInv

LEMMA StepOK == EndpointInv /\ [Next]_vars => EndpointInv'
<1> SUFFICES ASSUME EndpointInv, [Next]_vars PROVE EndpointInv'
  OBVIOUS
<1>1. CASE UNCHANGED vars
  BY <1>1 DEF vars, playbackVars, endpointVars, EndpointInv, StateOK, BatchesOK, WorldOK, RegistryOK, ThanksOK,
     HandledOK, FaultsOK, Busy, Current, RequestOf, Reached, Playing, Reported, Asking, Finished, Past
<1>2. ASSUME NEW d \in Deliveries, Post(d) \/ Handle(d) \/ Faults(d) PROVE EndpointInv'
  <2>1. CASE Post(d) \/ Respond(d)
    BY <2>1, ReceiveOK
  <2>2. CASE Get(d) \/ GetFault(d)
    BY <2>2, GetOK
  <2>3. CASE Complete(d)
    BY <2>3, CompleteOK
  <2>4. CASE Fail(d) \/ FailFault(d) \/ CompleteFault(d)
    BY <2>4, FailOK
  <2>7. CASE BeginAcknowledge(d)
    BY <2>7, RegisterOK
  <2>5. CASE Acknowledge(d) \/ PlaybackFault(d)
    BY <2>5, AcknowledgeOK
  <2>6. CASE Acknowledged(d) \/ AcknowledgeFault(d) \/ BestEffortHangUp(d) \/ BestEffortHangUpFault(d)
    BY <2>6, HangUpOK
  <2> QED
    BY <1>2, <2>1, <2>2, <2>3, <2>4, <2>5, <2>6, <2>7 DEF Handle, Faults
<1>3. ASSUME NEW r \in Requests, World(r) PROVE EndpointInv'
  <2>1. CASE Prompted(r)
    BY <2>1, PromptedOK
  <2>2. CASE SettledElsewhere(r) \/ PutDown(r)
    BY <2>2, EndsOK
  <2>3. CASE Unknown(r)
    <3>1. PICK type \in Reports[r] : Unknown(r)
      BY <2>3 DEF Unknown
    <3> QED
      BY <3>1, HeardOK
  <2>4. ASSUME NEW type \in Reports[r], Hear(r, type) \/ PlaybackReported(r, type) PROVE EndpointInv'
    BY <2>4, HeardOK, ReportedOK
  <2> QED
    BY <1>3, <2>1, <2>2, <2>3, <2>4 DEF World
<1> QED
  BY <1>1, <1>2, <1>3 DEF Next

(* The inductive invariant of the deliveries, their acknowledgements and    *)
(* the registry of playbacks (receive_callback, handle_call_event,          *)
(* acknowledge_and_hang_up).                                                *)
THEOREM EndpointInvariant == Spec => []EndpointInv
  BY InitOK, StepOK, PTL DEF Spec

(* The states of the endpoint are what they are meant to be. *)
THEOREM EndpointTypeCorrect == Spec => []TypeOK
<1>1. EndpointInv => TypeOK
  <2> SUFFICES ASSUME EndpointInv PROVE TypeOK
    OBVIOUS
  <2>1. ASSUME NEW d \in Deliveries
        PROVE  /\ delivery[d].pc \in {"idle", "get", "complete", "fail", "acknowledge", "hang_up", "done"}
               /\ ToSet(delivery[d].batch) \subseteq sent
               /\ delivery[d].result \in {"ok", "error", "refused", None}
               /\ delivery[d].pc = "acknowledge" <=> ack[d].pc # "none"
    <3>1. delivery[d] \in DeliveryStates
      BY DEF EndpointInv, StateOK
    <3>2. /\ delivery[d].pc \in {"idle", "get", "complete", "fail", "acknowledge", "hang_up", "done"}
          /\ delivery[d].result \in {"ok", "error", "refused", None}
      BY <3>1 DEF DeliveryStates
    <3>3. ToSet(delivery[d].batch) \subseteq sent
      BY DEF ToSet, EndpointInv, BatchesOK
    <3>4. delivery[d].pc = "acknowledge" <=> ack[d].pc # "none"
      BY DEF EndpointInv, BatchesOK
    <3> QED
      BY <3>2, <3>3, <3>4
  <2>2. StateOK
    BY DEF EndpointInv
  <2> QED
    BY <2>1, <2>2 DEF TypeOK, StateOK, PlaybackStates, MediaStates
<1> QED
  BY <1>1, EndpointInvariant, PTL

(* No event that ends a request is answered with 200 before the request has *)
(* ended (receive_callback).                                                *)
THEOREM EventsTakeEffect == Spec => []NoEventLost
<1>1. EndpointInv => NoEventLost
  BY DEF EndpointInv, HandledOK, Finished, Settles, NoEventLost
<1> QED
  BY <1>1, EndpointInvariant, PTL

(* The registry of playbacks holds just the calls whose thanks are played,  *)
(* each for one delivery (acknowledge_and_hang_up).                         *)
THEOREM RegistryIsExact == Spec => []RegisteredWhilePlaying
<1>1. EndpointInv => RegisteredWhilePlaying
  <2> SUFFICES ASSUME EndpointInv, NEW c \in Calls
               PROVE  LET players == {d \in Deliveries : Playing(d) /\ ack[d].call = c} IN
                      /\ Cardinality(players) <= 1
                      /\ playbacks[c] # None <=> players # {}
                      /\ \A d \in players : playbacks[c].request = ack[d].request /\ CallOf[ack[d].request] = c
    BY DEF RegisteredWhilePlaying
  <2> DEFINE players == {d \in Deliveries : Playing(d) /\ ack[d].call = c}
  <2>1. \A d, k \in players : d = k
    BY DEF EndpointInv, RegistryOK, Playing
  <2>2. Cardinality(players) <= 1
    <3>1. CASE players = {}
      BY <3>1, FS_EmptySet
    <3>2. CASE players # {}
      <4>1. PICK d \in players : players = {d}
        BY <2>1, <3>2
      <4> HIDE DEF players
      <4>2. Cardinality({d}) = 1
        BY FS_Singleton
      <4> QED
        BY <4>1, <4>2
    <3> QED
      BY <3>1, <3>2
  <2>3. playbacks[c] # None <=> players # {}
    BY DEF EndpointInv, RegistryOK
  <2>4. \A d \in players : ack[d].pc # "none"
    BY DEF Playing
  <2>5. \A d \in players : playbacks[c].request = ack[d].request /\ CallOf[ack[d].request] = c
    BY <2>4, AckFacts DEF EndpointInv, RegistryOK
  <2> QED
    BY <2>2, <2>3, <2>5
<1> QED
  BY <1>1, EndpointInvariant, PTL

(* Nobody hangs up on the thanks, short of a timeout or a failure, however  *)
(* late a report comes (handle_playback_event).                             *)
THEOREM ThanksAreHeard == Spec => []ThanksHeardOut
<1>1. EndpointInv => ThanksHeardOut
  <2> SUFFICES ASSUME EndpointInv, NEW d \in Deliveries, ack[d].pc = "hang_up", ~ack[d].cut
               PROVE  ~media[ack[d].call].playing
    BY DEF ThanksHeardOut
  <2>1. ack[d].call = CallOf[ack[d].request] /\ ack[d].request \in Reported
    BY AckFacts DEF EndpointInv, ThanksOK
  <2> QED
    BY <2>1 DEF EndpointInv, ThanksOK
<1> QED
  BY <1>1, EndpointInvariant, PTL

(* A report that was accepted is not waited for again, whenever it came     *)
(* (acknowledge_and_hang_up).                                               *)
THEOREM ReportsAreKept == Spec => []ReportNotLost
<1>1. EndpointInv => ReportNotLost
  <2> SUFFICES ASSUME EndpointInv, NEW d \in Deliveries, NEW type \in PlayTypes, Playing(d),
                      CloudEvent(type, ack[d].request) \in sent \ fresh
               PROVE  playbacks[ack[d].call].completed
    BY DEF ReportNotLost, PlayTypes
  <2> DEFINE e == CloudEvent(type, ack[d].request)
  <2>1. e.type = type /\ e.request = ack[d].request
    BY DEF CloudEvent
  <2>2. e \in Finished
    BY DEF EndpointInv, HandledOK
  <2> HIDE DEF e
  <2> QED
    BY <2>1, <2>2 DEF Finished
<1> QED
  BY <1>1, EndpointInvariant, PTL

(* A step of one delivery is no step of another. *)
LEMMA OthersStay ==
    ASSUME StateOK, NEW k \in Deliveries, Post(k) \/ Handle(k) \/ Faults(k)
    PROVE  Others(k)
<1>1. delivery \in [Deliveries -> DeliveryStates]
  BY DEF StateOK
<1>2. /\ \A pc : Goto(k, pc) => Others(k)
      /\ \A result : Finish(k, result) => Others(k)
      /\ Advance(k) => Others(k)
  BY <1>1 DEF Advance, Finish, Goto, Others
<1>3. CASE Post(k) \/ Respond(k) \/ Acknowledge(k) \/ PlaybackFault(k) \/ FailFault(k)
  BY <1>1, <1>3 DEF Post, Receive, Respond, Acknowledge, PlaybackFault, FailFault, Others, endpointVars
<1>4. CASE Get(k) \/ Complete(k) \/ Fail(k) \/ BeginAcknowledge(k) \/ Acknowledged(k) \/ BestEffortHangUp(k)
  <2>1. UNCHANGED delivery => Others(k)
    BY DEF Others
  <2> QED
    BY <1>2, <1>4, <2>1 DEF Get, Complete, Fail, BeginAcknowledge, Acknowledged, BestEffortHangUp
<1>5. CASE GetFault(k) \/ CompleteFault(k) \/ AcknowledgeFault(k) \/ BestEffortHangUpFault(k)
  BY <1>2, <1>5 DEF GetFault, CompleteFault, AcknowledgeFault, BestEffortHangUpFault
<1> QED
  BY <1>3, <1>4, <1>5 DEF Handle, Faults

(* An answer on record stays there. *)
LEMMA AnswersStay ==
    ASSUME EndpointInv, Next, NEW r \in Requests, row[r] = "responded"
    PROVE  row'[r] = "responded"
<1>1. StateOK
  BY DEF EndpointInv
<1>2. ASSUME NEW q \in Requests, NEW status, Settle(q, status) PROVE row'[r] = "responded"
  BY <1>1, <1>2 DEF Settle, StateOK
<1>3. ASSUME NEW d \in Deliveries, Post(d) \/ Handle(d) \/ Faults(d) PROVE row'[r] = "responded"
  <2>1. CASE Complete(d) \/ CompleteFault(d) \/ Fail(d) \/ FailFault(d)
    <3>1. RequestOf(d) \in Requests
      BY <2>1, CurrentFacts DEF Complete, CompleteFault, Fail, FailFault, Busy, EndpointInv
    <3> QED
      BY <1>2, <2>1, <3>1 DEF Complete, CompleteFault, Fail, FailFault, RequestOf
  <2>2. CASE ~(Complete(d) \/ CompleteFault(d) \/ Fail(d) \/ FailFault(d))
    BY <1>3, <2>2 DEF Post, Receive, Handle, Faults, Get, BeginAcknowledge, Acknowledge, Acknowledged, BestEffortHangUp, Respond, GetFault,
       PlaybackFault, AcknowledgeFault, BestEffortHangUpFault, endpointVars
  <2> QED
    BY <2>1, <2>2
<1>4. ASSUME NEW q \in Requests, World(q) PROVE row'[r] = "responded"
  BY <1>1, <1>2, <1>4 DEF World, Prompted, SettledElsewhere, PutDown, Unknown, Hear, PlaybackReported, StateOK
<1> QED
  BY <1>3, <1>4 DEF Next

(* Who records an answer, and learns so, goes on to acknowledge it.         *)
LEMMA WinnersAcknowledge ==
    ASSUME EndpointInv, Next, NEW r \in Requests, row[r] = "pending", row'[r] = "responded", UNCHANGED faults
    PROVE  \E d \in Deliveries : delivery'[d].pc = "acknowledge" /\ ack'[d].request = r
<1>1. StateOK
  BY DEF EndpointInv
<1>2. ASSUME NEW q \in Requests, NEW status \in {"responded", "expired", "failed"}, Settle(q, status)
      PROVE  q = r /\ status = "responded"
  BY <1>1, <1>2, SettleFacts
<1>3. \A q \in Requests : ~World(q)
  BY <1>1, <1>2 DEF World, Prompted, SettledElsewhere, PutDown, Unknown, Hear, PlaybackReported, playbackVars,
     StateOK
<1>4. PICK d \in Deliveries : Post(d) \/ Handle(d) \/ Faults(d)
  BY <1>3 DEF Next
<1>5. ~Fault
  BY <1>1 DEF Fault, StateOK
<1>6. Complete(d) \/ Fail(d)
  BY <1>4, <1>5 DEF Post, Receive, Handle, Faults, Get, BeginAcknowledge, Acknowledge, Acknowledged, BestEffortHangUp,
     Respond, GetFault, CompleteFault, FailFault, PlaybackFault, AcknowledgeFault, BestEffortHangUpFault, HangUpFault,
     endpointVars
<1>7. /\ Busy(d) /\ RequestOf(d) \in Requests /\ RequestOf(d) = Current(d).request /\ Current(d).call \in Calls
  BY <1>6, CurrentFacts DEF Complete, Fail, Busy, EndpointInv
<1>8. ~Fail(d)
  BY <1>2, <1>7 DEF Fail
<1> DEFINE answered == Effect("approval", Current(d)) \in RespondedTypes
           status == IF answered THEN "responded" ELSE "expired"
<1>9. /\ Settle(RequestOf(d), status)
      /\ IF row[RequestOf(d)] # "pending" THEN Advance(d) /\ UNCHANGED <<playbacks, ack>>
         ELSE IF ~answered THEN Goto(d, "hang_up") /\ UNCHANGED <<playbacks, ack>>
         ELSE Owe(d, Current(d).call, RequestOf(d)) /\ Goto(d, "acknowledge") /\ UNCHANGED playbacks
  BY <1>6, <1>7, <1>8 DEF Complete
<1>10. RequestOf(d) = r /\ answered
  BY <1>2, <1>7, <1>9
<1>11. Owe(d, Current(d).call, r) /\ Goto(d, "acknowledge")
  BY <1>9, <1>10
<1>12. ack'[d].request = r /\ delivery'[d].pc = "acknowledge"
  BY <1>1, <1>7, <1>11, OweFacts, GotoFacts
<1> QED
  BY <1>12

(* Who acknowledges an answer on record, or hangs up after it, goes on only *)
(* with the call ended, or because that failed.                             *)
LEMMA EndingEnds ==
    ASSUME EndpointInv, Next, NEW d \in Deliveries, Ending(d), delivery'[d].pc # delivery[d].pc
    PROVE  \/ ~media'[Current(d).call].up
           \/ /\ faults' > faults
              /\ delivery[d].pc = "acknowledge" => delivery'[d].pc = "hang_up" /\ Current(d)' = Current(d)
<1>1. Busy(d) /\ StateOK /\ delivery[d].pc \in {"acknowledge", "hang_up"}
  BY DEF Ending, Busy, EndpointInv
<1>2. RequestOf(d) \in Requests /\ Current(d).call \in Calls
  BY <1>1, CurrentFacts DEF EndpointInv
<1>3. \A r \in Requests : ~World(r)
  BY DEF World, Prompted, SettledElsewhere, PutDown, Unknown, Hear, PlaybackReported
<1>4. Post(d) \/ Handle(d) \/ Faults(d)
  BY <1>1, <1>3, OthersStay DEF Next, Others
<1>5. ~BeginAcknowledge(d)
  <2> SUFFICES ASSUME BeginAcknowledge(d) PROVE FALSE
    OBVIOUS
  <2>1. ack[d].pc = "due" /\ ack[d].call \in Calls /\ ack[d].pc # "none" /\ ~Playing(d)
    BY AckFacts DEF BeginAcknowledge, Register, Playing
  <2>2. \A k \in Deliveries : Playing(k) => ack[k].pc # "none" /\ k # d
    BY <2>1 DEF Playing
  <2>3. playbacks[ack[d].call] = None
    BY <2>1, <2>2 DEF EndpointInv, RegistryOK
  <2>4. ack'[d].pc = "play"
    BY <1>1, <2>3 DEF BeginAcknowledge, Register, StateOK, AckStates
  <2> QED
    BY <2>4 DEF BeginAcknowledge
<1>6. Acknowledged(d) \/ AcknowledgeFault(d) \/ BestEffortHangUp(d) \/ BestEffortHangUpFault(d)
  BY <1>1, <1>4, <1>5 DEF Post, Receive, Handle, Faults, Get, Complete, Fail, Acknowledge, Respond, GetFault,
     CompleteFault, FailFault, PlaybackFault, endpointVars
<1>7. Fault => faults' > faults
  BY <1>1, NoneAssumption DEF Fault, StateOK
<1>8. CASE Acknowledged(d)
  <2>1. HangUp(d) /\ ack[d].call = Current(d).call
    BY <1>8, AckFacts DEF Acknowledged, HangUp
  <2> QED
    BY <1>1, <1>2, <2>1, DownFacts DEF HangUp
<1>9. CASE AcknowledgeFault(d)
  <2>1. delivery'[d].pc = "hang_up" /\ delivery'[d].batch = delivery[d].batch /\ delivery'[d].i = delivery[d].i
    BY <1>1, <1>9, GotoFacts DEF AcknowledgeFault
  <2> QED
    BY <1>7, <1>9, <2>1 DEF AcknowledgeFault, HangUpFault, Current
<1>10. CASE BestEffortHangUp(d)
  BY <1>1, <1>2, <1>10, DownFacts DEF BestEffortHangUp
<1>11. CASE BestEffortHangUpFault(d)
  BY <1>7, <1>11 DEF BestEffortHangUpFault
<1> QED
  BY <1>6, <1>8, <1>9, <1>10, <1>11

(* Once the handler that recorded an answer has learnt so, one failure      *)
(* leaves no call up: the acknowledgement that failed is followed by a      *)
(* hang-up, and only a second failure, of that hang-up, goes on without the *)
(* call ended (handle_call_event, acknowledge_and_hang_up).                 *)
THEOREM AnsweredCallsEnd == Spec => AnsweredCallEnds
<1> DEFINE Wins(r) ==
      row[r] = "pending" /\ row'[r] = "responded" /\ UNCHANGED faults =>
          \E d \in Deliveries : delivery'[d].pc = "acknowledge" /\ ack'[d].request = r
           Ends(d) ==
      Ending(d) /\ delivery'[d].pc # delivery[d].pc =>
          \/ ~media'[Current(d).call].up
          \/ /\ faults' > faults
             /\ delivery[d].pc = "acknowledge" => delivery'[d].pc = "hang_up" /\ Current(d)' = Current(d)
           Answered == /\ \A r \in Requests : Wins(r)
                       /\ \A d \in Deliveries : Ends(d)
<1>1. EndpointInv /\ [Next]_vars => [Answered]_vars
  <2> SUFFICES ASSUME EndpointInv, Next PROVE Answered
    BY DEF vars
  <2>1. \A r \in Requests : Wins(r)
    BY WinnersAcknowledge
  <2>2. \A d \in Deliveries : Ends(d)
    BY EndingEnds
  <2> QED
    BY <2>1, <2>2
<1>2. Spec => [][Answered]_vars
  BY <1>1, EndpointInvariant, PTL DEF Spec
<1> QED
  BY <1>2 DEF AnsweredCallEnds
-----------------------------------------------------------------------------
(*                    Deliveries come nearer their answer                   *)

(* How far a handler has yet to go with its event, and how far its          *)
(* acknowledgement.                                                         *)
HandlerStage(pc) ==
    IF pc = "get" THEN 9 ELSE IF pc = "complete" THEN 8 ELSE IF pc = "fail" THEN 7 ELSE 2

AckStage(pc) ==
    IF pc = "due" THEN 5 ELSE IF pc = "play" THEN 4 ELSE IF pc = "reply" THEN 3 ELSE IF pc = "wait" THEN 2
    ELSE IF pc = "hang_up" THEN 1 ELSE 0

(* What is left to do for a delivery until it is answered. *)
Work(d) ==
    IF Busy(d)
    THEN 10 * (Len(delivery[d].batch) - delivery[d].i)
         + HandlerStage(delivery[d].pc) + AckStage(ack[d].pc)
    ELSE IF delivery[d].pc = "done" THEN 1 ELSE 0

(* A delivery under way has n events after this one, and is at stages h and *)
(* a of it.                                                                 *)
AtWork(d, n, h, a) ==
    /\ n = Len(delivery[d].batch) - delivery[d].i
    /\ h = HandlerStage(delivery[d].pc) /\ a = AckStage(ack[d].pc)
    /\ Work(d) = 10 * n + h + a

LEMMA BusyWork ==
    ASSUME StateOK, BatchesOK, NEW d \in Deliveries, Busy(d)
    PROVE  /\ \E n \in Nat, h \in 2..9, a \in 0..5 : AtWork(d, n, h, a)
           /\ Work(d) > 1
           /\ delivery[d].pc # "acknowledge" => AckStage(ack[d].pc) = 0
<1>1. delivery[d] \in DeliveryStates /\ delivery[d].i \in DOMAIN delivery[d].batch
  BY CurrentFacts DEF StateOK
<1>2. Len(delivery[d].batch) - delivery[d].i \in Nat
  BY <1>1 DEF DeliveryStates
<1>3. HandlerStage(delivery[d].pc) \in 2..9 /\ AckStage(ack[d].pc) \in 0..5
  BY DEF HandlerStage, AckStage
<1>4. PICK n \in Nat, h \in 2..9, a \in 0..5 : AtWork(d, n, h, a)
  BY <1>2, <1>3 DEF AtWork, Work
<1>5. Work(d) > 1
  <2>1. Work(d) = 10 * n + h + a
    BY <1>4 DEF AtWork
  <2>2. 10 * n + h + a > 1
    OBVIOUS
  <2> QED
    BY <2>1, <2>2
<1>6. delivery[d].pc # "acknowledge" => AckStage(ack[d].pc) = 0
  BY DEF BatchesOK, AckStage
<1> QED
  BY <1>4, <1>5, <1>6

(* To be over with an event is to have less to do. *)
LEMMA AdvanceShortens ==
    ASSUME EndpointInv, EndpointInv', NEW d \in Deliveries, Busy(d), Advance(d)
    PROVE  Work(d)' < Work(d)
<1>1. StateOK /\ BatchesOK /\ StateOK' /\ BatchesOK'
  BY DEF EndpointInv
<1>2. PICK n \in Nat, h \in 2..9, a \in 0..5 : AtWork(d, n, h, a)
  BY <1>1, BusyWork
<1>3. /\ delivery'[d].batch = delivery[d].batch
      /\ \/ delivery'[d].pc = "done"
         \/ delivery'[d].pc = "get" /\ delivery'[d].i = delivery[d].i + 1
  BY <1>1, AdvanceFacts
<1>4. CASE delivery'[d].pc = "done"
  <2>1. Work(d)' = 1
    BY <1>4 DEF Work, Busy
  <2> QED
    BY <1>1, <2>1, BusyWork
<1>5. CASE delivery'[d].pc = "get" /\ delivery'[d].i = delivery[d].i + 1
  <2>1. Busy(d)' /\ HandlerStage(delivery'[d].pc) = 9 /\ AckStage(ack'[d].pc) = 0
    BY <1>1, <1>5 DEF Busy, BatchesOK, HandlerStage, AckStage
  <2>2. PICK l \in Nat, i \in Nat : l = Len(delivery[d].batch) /\ i = delivery[d].i
    BY <1>1, CurrentFacts DEF StateOK, DeliveryStates
  <2>3. n = l - i /\ Work(d) = 10 * n + h + a
    BY <1>2, <2>2 DEF AtWork
  <2>4. Len(delivery'[d].batch) = l /\ delivery'[d].i = i + 1
    BY <1>3, <1>5, <2>2
  <2>5. Work(d)' = 10 * (l - (i + 1)) + 9 + 0
    BY <2>1, <2>4 DEF Work
  <2>6. 10 * (l - (i + 1)) + 9 + 0 < 10 * n + h + a
    BY <2>3
  <2> QED
    BY <2>3, <2>5, <2>6
<1> QED
  BY <1>3, <1>4, <1>5

(* To go on with the same event is to have less to do, too. *)
LEMMA StageShortens ==
    ASSUME EndpointInv, NEW d \in Deliveries, Busy(d), Busy(d)',
           delivery'[d].batch = delivery[d].batch, delivery'[d].i = delivery[d].i,
           HandlerStage(delivery'[d].pc) + AckStage(ack'[d].pc)
               < HandlerStage(delivery[d].pc) + AckStage(ack[d].pc)
    PROVE  Work(d)' < Work(d)
<1>1. PICK n \in Nat, h \in 2..9, a \in 0..5 : AtWork(d, n, h, a)
  BY BusyWork DEF EndpointInv
<1>2. PICK k \in 2..9, b \in 0..5 : k = HandlerStage(delivery'[d].pc) /\ b = AckStage(ack'[d].pc)
  BY DEF HandlerStage, AckStage
<1>3. Work(d)' = 10 * n + k + b
  BY <1>1, <1>2 DEF Work, AtWork
<1>4. k + b < h + a
  BY <1>1, <1>2 DEF AtWork
<1> QED
  BY <1>1, <1>3, <1>4 DEF AtWork

LEMMA GotoShortens ==
    ASSUME EndpointInv, EndpointInv', NEW d \in Deliveries, Busy(d),
           NEW pc \in {"complete", "fail", "acknowledge", "hang_up"}, Goto(d, pc),
           pc = "acknowledge" => delivery[d].pc = "complete",
           pc # "acknowledge" => HandlerStage(pc) < HandlerStage(delivery[d].pc) + AckStage(ack[d].pc)
    PROVE  Work(d)' < Work(d)
<1>1. /\ delivery'[d].pc = pc /\ delivery'[d].batch = delivery[d].batch /\ delivery'[d].i = delivery[d].i
  BY GotoFacts DEF EndpointInv
<1>2. Busy(d)'
  BY <1>1 DEF Busy
<1>3. CASE pc = "acknowledge"
  <2>1. HandlerStage(delivery[d].pc) = 8 /\ HandlerStage(delivery'[d].pc) = 2
    BY <1>1, <1>3 DEF HandlerStage
  <2>2. AckStage(ack[d].pc) \in 0..5 /\ AckStage(ack'[d].pc) \in 0..5
    BY DEF AckStage
  <2> QED
    BY <1>1, <1>2, <2>1, <2>2, StageShortens
<1>4. CASE pc # "acknowledge"
  <2>1. AckStage(ack'[d].pc) = 0
    BY <1>1, <1>4 DEF EndpointInv, BatchesOK, AckStage
  <2>2. HandlerStage(pc) \in 2..9
    BY DEF HandlerStage
  <2> QED
    BY <1>1, <1>2, <1>4, <2>1, <2>2, StageShortens
<1> QED
  BY <1>3, <1>4

(* The steps of the acknowledgement. *)
LEMMA AcknowledgeShortens ==
    ASSUME EndpointInv, NEW d \in Deliveries, Acknowledge(d) \/ PlaybackFault(d)
    PROVE  Work(d)' < Work(d)
<1>1. StateOK /\ delivery' = delivery /\ Playing(d)
  BY DEF EndpointInv, Acknowledge, PlaybackFault, PlayMedia, PlayReply, HeardOut, PlaybackTimeout, PlayFault,
     CleanupTimeout, Playing, endpointVars
<1>2. delivery[d].pc = "acknowledge" /\ Busy(d) /\ ack[d].call \in Calls
  BY <1>1, AckFacts DEF Playing
<1>3. ASSUME NEW cut \in BOOLEAN, NEW raises \in BOOLEAN, Stop(d, cut, raises)
      PROVE  AckStage(ack'[d].pc) < AckStage(ack[d].pc)
  <2>1. ack'[d].pc = "hang_up"
    BY <1>1, <1>2, <1>3, StopFacts
  <2> QED
    BY <1>1, <2>1 DEF AckStage, Playing
<1>6. \/ \E cut, raises \in BOOLEAN : Stop(d, cut, raises)
      \/ ack[d].pc = "play" /\ ack' = [ack EXCEPT ![d].pc = "reply"]
      \/ ack[d].pc = "reply" /\ ack' = [ack EXCEPT ![d].pc = "wait"]
  BY DEF Acknowledge, PlaybackFault, PlayMedia, PlayReply, HeardOut, PlaybackTimeout, PlayFault, CleanupTimeout
<1>7. AckStage(ack'[d].pc) < AckStage(ack[d].pc)
  BY <1>1, <1>3, <1>6, AckGotoFacts DEF AckStage
<1>8. HandlerStage(delivery[d].pc) = 2
  BY <1>2 DEF HandlerStage
<1>9. AckStage(ack'[d].pc) \in 0..5 /\ AckStage(ack[d].pc) \in 0..5
  BY DEF AckStage
<1>10. Busy(d)' /\ delivery'[d].batch = delivery[d].batch /\ delivery'[d].i = delivery[d].i
  BY <1>1, <1>2 DEF Busy
<1> QED
  BY <1>1, <1>2, <1>7, <1>8, <1>9, <1>10, StageShortens

(* Every step that a handler takes, whether or not what it calls fails.     *)
LEMMA HandlerShortens ==
    ASSUME EndpointInv, EndpointInv', NEW d \in Deliveries, Handle(d) \/ Faults(d)
    PROVE  Work(d)' < Work(d)
<1>1. StateOK /\ BatchesOK
  BY DEF EndpointInv
<1>2. CASE Get(d)
  <2>1. Busy(d) /\ HandlerStage(delivery[d].pc) = 9 /\ AckStage(ack[d].pc) = 0
    BY <1>1, <1>2 DEF Get, Busy, HandlerStage, AckStage, BatchesOK
  <2>2. Advance(d) \/ Goto(d, "fail") \/ Goto(d, "complete")
    BY <1>2 DEF Get
  <2>3. HandlerStage("fail") = 7 /\ HandlerStage("complete") = 8
    BY DEF HandlerStage
  <2> QED
    BY <2>1, <2>2, <2>3, AdvanceShortens, GotoShortens
<1>3. CASE GetFault(d)
  <2>1. Busy(d) /\ Finish(d, "error")
    BY <1>3 DEF GetFault, Busy
  <2>2. delivery'[d].pc = "done"
    BY <1>1, <2>1, FinishFacts
  <2>3. Work(d)' = 1
    BY <2>2 DEF Work, Busy
  <2> QED
    BY <1>1, <2>1, <2>3, BusyWork
<1>4. CASE Complete(d) \/ CompleteFault(d)
  <2>1. Busy(d) /\ delivery[d].pc = "complete" /\ HandlerStage(delivery[d].pc) = 8 /\ AckStage(ack[d].pc) = 0
    BY <1>1, <1>4 DEF Complete, CompleteFault, Busy, HandlerStage, AckStage, BatchesOK
  <2>2. Advance(d) \/ Goto(d, "fail") \/ Goto(d, "hang_up") \/ Goto(d, "acknowledge")
    BY <1>4 DEF Complete, CompleteFault
  <2>3. HandlerStage("fail") = 7 /\ HandlerStage("hang_up") = 2
    BY DEF HandlerStage
  <2> QED
    BY <2>1, <2>2, <2>3, AdvanceShortens, GotoShortens
<1>5. CASE Fail(d)
  <2>1. Busy(d) /\ HandlerStage(delivery[d].pc) = 7 /\ AckStage(ack[d].pc) = 0
    BY <1>1, <1>5 DEF Fail, Busy, HandlerStage, AckStage, BatchesOK
  <2>2. Advance(d) \/ Goto(d, "hang_up")
    BY <1>5 DEF Fail
  <2>3. HandlerStage("hang_up") = 2
    BY DEF HandlerStage
  <2> QED
    BY <2>1, <2>2, <2>3, AdvanceShortens, GotoShortens
<1>6. CASE FailFault(d)
  <2>1. Busy(d) /\ HandlerStage(delivery[d].pc) = 7 /\ AckStage(ack[d].pc) = 0
    BY <1>1, <1>6 DEF FailFault, Busy, HandlerStage, AckStage, BatchesOK
  <2> DEFINE new == [delivery[d] EXCEPT !.pc = "hang_up", !.raises = TRUE]
  <2>2. delivery' = [delivery EXCEPT ![d] = new]
    BY <1>6 DEF FailFault
  <2>3. delivery[d] \in DeliveryStates /\ delivery \in [Deliveries -> DeliveryStates]
    BY <1>1 DEF StateOK
  <2>4. new.pc = "hang_up" /\ new.batch = delivery[d].batch /\ new.i = delivery[d].i
    BY <2>3 DEF DeliveryStates
  <2> HIDE DEF new
  <2>5. delivery'[d].pc = "hang_up" /\ delivery'[d].batch = delivery[d].batch /\ delivery'[d].i = delivery[d].i
    BY <2>2, <2>3, <2>4
  <2>6. Busy(d)' /\ HandlerStage(delivery'[d].pc) = 2 /\ ack' = ack
    BY <1>6, <2>5 DEF Busy, HandlerStage, FailFault
  <2> QED
    BY <2>1, <2>5, <2>6, StageShortens
<1>7. CASE Acknowledge(d) \/ PlaybackFault(d)
  BY <1>7, AcknowledgeShortens
<1>11. CASE BeginAcknowledge(d)
  <2>1. ack[d].pc = "due" /\ Busy(d) /\ (Advance(d) \/ UNCHANGED delivery)
    BY <1>11, AckFacts DEF BeginAcknowledge, Register
  <2>2. CASE Advance(d)
    BY <2>1, <2>2, AdvanceShortens
  <2>3. CASE UNCHANGED delivery
    <3>1. ack'[d].pc # "none"
      BY <2>1, <2>3, AckFacts DEF EndpointInv, BatchesOK
    <3>2. ack' = [ack EXCEPT ![d].pc = "play"]
      BY <1>11, <3>1, <1>1 DEF BeginAcknowledge, Register, NoAck, StateOK
    <3>3. ack'[d].pc = "play"
      BY <1>1, <3>2 DEF StateOK, AckStates
    <3>4. AckStage(ack[d].pc) = 5 /\ AckStage(ack'[d].pc) = 4 /\ HandlerStage(delivery[d].pc) \in 2..9
      BY <2>1, <3>3 DEF AckStage, HandlerStage
    <3>5. Busy(d)'
      BY <2>1, <2>3 DEF Busy
    <3> QED
      BY <2>1, <2>3, <3>4, <3>5, StageShortens
  <2> QED
    BY <2>1, <2>2, <2>3
<1>8. CASE Acknowledged(d) \/ AcknowledgeFault(d)
  <2>1. ack[d].pc = "hang_up" /\ (Advance(d) \/ Goto(d, "hang_up"))
    BY <1>8 DEF Acknowledged, AcknowledgeFault, HangUp, HangUpFault
  <2>2. Busy(d) /\ delivery[d].pc = "acknowledge"
    BY <2>1, AckFacts
  <2>3. HandlerStage(delivery[d].pc) = 2 /\ AckStage(ack[d].pc) = 1 /\ HandlerStage("hang_up") = 2
    BY <2>1, <2>2 DEF HandlerStage, AckStage
  <2> QED
    BY <2>1, <2>2, <2>3, AdvanceShortens, GotoShortens
<1>9. CASE BestEffortHangUp(d) \/ BestEffortHangUpFault(d)
  BY <1>9, AdvanceShortens DEF BestEffortHangUp, BestEffortHangUpFault, Busy
<1>10. CASE Respond(d)
  <2>1. delivery'[d] = IdleDelivery /\ delivery[d].pc = "done"
    BY <1>1, <1>10 DEF Respond, StateOK
  <2> QED
    BY <2>1 DEF Work, Busy, IdleDelivery
<1> QED
  BY <1>2, <1>3, <1>4, <1>5, <1>6, <1>7, <1>8, <1>9, <1>10, <1>11 DEF Handle, Faults

(* Nobody else's step is in the way. *)
LEMMA AcksStay ==
    ASSUME StateOK, NEW k \in Deliveries, Post(k) \/ Handle(k) \/ Faults(k)
    PROVE  OtherAcks(k)
<1>1. ack \in [Deliveries -> AckStates]
  BY DEF StateOK
<1>2. CASE Post(k) \/ Get(k) \/ GetFault(k) \/ CompleteFault(k) \/ Fail(k) \/ FailFault(k) \/ Respond(k)
           \/ BestEffortHangUp(k) \/ BestEffortHangUpFault(k)
  BY <1>2 DEF Post, Receive, Get, GetFault, CompleteFault, Fail, FailFault, Respond, BestEffortHangUp,
     BestEffortHangUpFault, OtherAcks, playbackVars
<1>3. CASE Complete(k) \/ BeginAcknowledge(k)
  BY <1>1, <1>3 DEF Complete, Owe, BeginAcknowledge, Register, OtherAcks
<1>4. CASE Acknowledge(k) \/ PlaybackFault(k)
  BY <1>1, <1>4 DEF Acknowledge, PlaybackFault, PlayMedia, PlayReply, HeardOut, PlaybackTimeout, PlayFault,
     CleanupTimeout, Stop, OtherAcks
<1>5. CASE Acknowledged(k) \/ AcknowledgeFault(k)
  BY <1>1, <1>5 DEF Acknowledged, AcknowledgeFault, HangUp, HangUpFault, Ended, OtherAcks
<1> QED
  BY <1>2, <1>3, <1>4, <1>5 DEF Handle, Faults

(* A delivery that is under way only comes nearer its answer: each step of  *)
(* its own leaves it less to do, whatever fails, and no step of another     *)
(* delivery, of ACS or of the rest of the service adds to it; so that it    *)
(* is answered after at most ten steps for each event of its batch, and one *)
(* (receive_callback, handle_call_event, acknowledge_and_hang_up).          *)
DeliveriesShorten ==
    [][\A d \in Deliveries :
          delivery[d].pc # "idle" => Work(d)' < Work(d) \/ UNCHANGED <<delivery[d], ack[d]>>]_vars

THEOREM DeliveriesEnd == Spec => DeliveriesShorten
<1> DEFINE Shortens(d) ==
      delivery[d].pc # "idle" => Work(d)' < Work(d) \/ UNCHANGED <<delivery[d], ack[d]>>
<1>1. EndpointInv /\ [Next]_vars => [\A d \in Deliveries : Shortens(d)]_vars
  <2> SUFFICES ASSUME EndpointInv, Next, NEW d \in Deliveries, delivery[d].pc # "idle"
               PROVE  Work(d)' < Work(d) \/ (delivery'[d] = delivery[d] /\ ack'[d] = ack[d])
    BY DEF vars
  <2>1. EndpointInv' /\ StateOK
    BY StepOK DEF EndpointInv
  <2>2. CASE Handle(d) \/ Faults(d)
    BY <2>1, <2>2, HandlerShortens
  <2>3. ~Post(d)
    BY DEF Post, Receive
  <2>4. ASSUME NEW k \in Deliveries, k # d, Post(k) \/ Handle(k) \/ Faults(k)
        PROVE  delivery'[d] = delivery[d] /\ ack'[d] = ack[d]
    BY <2>1, <2>4, OthersStay, AcksStay DEF Others, OtherAcks
  <2>5. ASSUME NEW r \in Requests, World(r) PROVE delivery'[d] = delivery[d] /\ ack'[d] = ack[d]
    BY <2>5 DEF World, Prompted, SettledElsewhere, PutDown, Unknown, Hear, PlaybackReported, PlaybackOver,
       playbackVars
  <2> QED
    BY <2>2, <2>3, <2>4, <2>5 DEF Next
<1>2. Spec => [][\A d \in Deliveries : Shortens(d)]_vars
  BY <1>1, EndpointInvariant, PTL DEF Spec
<1> QED
  BY <1>2 DEF DeliveriesShorten
=============================================================================
