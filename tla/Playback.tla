------------------------------- MODULE Playback -------------------------------
(***************************************************************************)
(* The acknowledgement of an answer by the ACS gateway                      *)
(* (telephony/acs_client.py): the thanks are played, the coroutine waits    *)
(* for the report that they are over, and hangs up.                         *)
(*                                                                          *)
(* playbacks is the gateway's registry, ack the coroutine of each callback  *)
(* delivery that acknowledges, media what ACS knows of a call.  Here is     *)
(* what the gateway does; CallbackEndpoint composes it with the deliveries  *)
(* that call it.  Timers are not measured: a timeout may come at any await  *)
(* that it covers.                                                          *)
(***************************************************************************)
EXTENDS CallEvents

CONSTANTS
    Calls,          \* call connections
    Deliveries,     \* callback deliveries handled at a time
    MaxFaults       \* bound: failed dependency calls

VARIABLES
    playbacks,      \* call -> [request, completed], or None
    ack,            \* delivery -> its acknowledgement
    media,          \* ACS: call -> [up, playing]
    faults

playbackVars == <<playbacks, ack, media, faults>>
-----------------------------------------------------------------------------
NoAck == [pc |-> "none", call |-> None, request |-> None, cut |-> FALSE, raises |-> FALSE]

PlaybackInit ==
    /\ playbacks = [c \in Calls |-> None]
    /\ ack = [d \in Deliveries |-> NoAck]
    /\ media = [c \in Calls |-> [up |-> FALSE, playing |-> FALSE]]
    /\ faults = 0

(* In the block that is under the playback timeout. *)
Playing(d) == ack[d].pc \in {"play", "reply", "wait"}

Fault == faults < MaxFaults /\ faults' = faults + 1

Down(c) == media' = [media EXCEPT ![c] = [up |-> FALSE, playing |-> FALSE]]

(* The service owes an acknowledgement: it has won, and is on its way to    *)
(* acknowledge_and_hang_up.                                                 *)
Owe(d, c, r) == ack' = [ack EXCEPT ![d] = [NoAck EXCEPT !.pc = "due", !.call = c, !.request = r]]

(* Up to the first await: a call that is being acknowledged already is left *)
(* alone, any other is registered before the thanks are asked for.          *)
Register(d) ==
    /\ ack[d].pc = "due"
    /\ IF playbacks[ack[d].call] # None THEN ack' = [ack EXCEPT ![d] = NoAck] /\ UNCHANGED playbacks
       ELSE /\ playbacks' = [playbacks EXCEPT ![ack[d].call] = [request |-> ack[d].request, completed |-> FALSE]]
            /\ ack' = [ack EXCEPT ![d].pc = "play"]
    /\ UNCHANGED <<media, faults>>

(* Mutant: only a playback that was reported is taken off the registry. *)
UnregisterReported(d) ==
    playbacks' = IF playbacks[ack[d].call].completed
                 THEN [playbacks EXCEPT ![ack[d].call] = None] ELSE playbacks

(* The finally clause: the registration goes, then the call. *)
Unregister(d) == playbacks' = [playbacks EXCEPT ![ack[d].call] = None]

(* Mutant: the finally clause does not hang up where the playback was cut. *)
StopWithoutHangUp(d, cut, raises) ==
    /\ Unregister(d)
    /\ ack' = [ack EXCEPT ![d] =
            IF cut THEN NoAck ELSE [@ EXCEPT !.pc = "hang_up", !.cut = cut, !.raises = raises]]

Stop(d, cut, raises) ==
    /\ Unregister(d)
    /\ ack' = [ack EXCEPT ![d].pc = "hang_up", ![d].cut = cut, ![d].raises = raises]

(* play_media reaches ACS, which refuses a call that is over; the error is  *)
(* suppressed.                                                              *)
PlayMedia(d) ==
    /\ ack[d].pc = "play"
    /\ IF media[ack[d].call].up
       THEN /\ media' = [media EXCEPT ![ack[d].call].playing = TRUE]
            /\ ack' = [ack EXCEPT ![d].pc = "reply"]
            /\ UNCHANGED playbacks
       ELSE Stop(d, TRUE, FALSE) /\ UNCHANGED media
    /\ UNCHANGED faults

(* The reply of play_media, which the report of the playback may overtake. *)
PlayReply(d) ==
    /\ ack[d].pc = "reply"
    /\ IF playbacks[ack[d].call].completed THEN Stop(d, FALSE, FALSE)
       ELSE ack' = [ack EXCEPT ![d].pc = "wait"] /\ UNCHANGED playbacks
    /\ UNCHANGED <<media, faults>>

(* completed.wait() returns. *)
HeardOut(d) ==
    /\ ack[d].pc = "wait" /\ playbacks[ack[d].call].completed
    /\ Stop(d, FALSE, FALSE)
    /\ UNCHANGED <<media, faults>>

(* play_media fails, before or after ACS began to play. *)
PlayFault(d) ==
    /\ ack[d].pc \in {"play", "reply"}
    /\ Stop(d, TRUE, FALSE)
    /\ Fault
    /\ UNCHANGED media

(* Mutant: the timeout is on the request to play alone. *)
PlaybackTimeoutOnPlay(d) ==
    /\ ack[d].pc \in {"play", "reply"}
    /\ Stop(d, TRUE, FALSE)
    /\ UNCHANGED <<media, faults>>

(* asyncio.timeout(playback): suppressed, and the call ended. *)
PlaybackTimeout(d) ==
    /\ Playing(d)
    /\ Stop(d, TRUE, FALSE)
    /\ UNCHANGED <<media, faults>>

(* The service's timeout over the whole acknowledgement, by default twice   *)
(* as long as it can take, and so a fault: the finally clause still hangs   *)
(* up, and then it raises.                                                  *)
CleanupTimeout(d) ==
    /\ Playing(d)
    /\ Stop(d, TRUE, TRUE)
    /\ Fault
    /\ UNCHANGED media

(* hang_up(True) of the finally clause; the acknowledgement is over.        *)
Ended(d) == ack' = [ack EXCEPT ![d] = NoAck]

HangUp(d) == ack[d].pc = "hang_up" /\ Down(ack[d].call) /\ Ended(d) /\ UNCHANGED <<playbacks, faults>>

(* It fails, or one of its timeouts fires, before or after it took effect.  *)
HangUpFault(d) ==
    /\ ack[d].pc = "hang_up"
    /\ Down(ack[d].call) \/ UNCHANGED media
    /\ Ended(d)
    /\ Fault
    /\ UNCHANGED playbacks

(* Mutant: any report of a playback completes every playback there is. *)
HandleAnyPlaybackEvent(c, r) ==
    playbacks' = [k \in Calls |-> IF playbacks[k] # None THEN [playbacks[k] EXCEPT !.completed = TRUE]
                                  ELSE None]

(* Mutant: the report wakes those who wait for it now, like a condition     *)
(* variable, and nobody who will wait for it.                               *)
HandleAwaitedPlaybackEvent(c, r) ==
    playbacks' = [playbacks EXCEPT ![c] =
        IF @ # None /\ @.request = r /\ \E d \in Deliveries : ack[d].pc = "wait" /\ ack[d].call = c
        THEN [@ EXCEPT !.completed = TRUE] ELSE @]

(* handle_playback_event, of a PlayCompleted or PlayFailed of a call with   *)
(* the id of a request as its context.                                      *)
HandlePlaybackEvent(c, r) ==
    playbacks' = [playbacks EXCEPT ![c] =
        IF @ # None /\ @.request = r THEN [@ EXCEPT !.completed = TRUE] ELSE @]

(* ACS has played the thanks to their end, or gives up on them. *)
PlaybackOver(c) ==
    /\ media[c].playing
    /\ media' = [media EXCEPT ![c].playing = FALSE]
    /\ UNCHANGED <<playbacks, ack, faults>>
=============================================================================
