------------------------------ MODULE CallEvents ------------------------------
(***************************************************************************)
(* What a callback of Azure Communication Services means: the parser and    *)
(* the classification of telephony/events.py, the terminal result of        *)
(* domain/transitions.py, and the contract of contracts.py that the result  *)
(* has to meet.  There is no state here.                                    *)
(*                                                                          *)
(* A CloudEvent is a record of what the code looks at:                      *)
(*   wellFormed  its envelope is (version, id, source), and its             *)
(*               resultInformation, if any, holds two integers              *)
(*   type        its type, without the prefix                               *)
(*   request     operationContext, None if it is no UUID                    *)
(*   call        callConnectionId, None if it is missing or blank           *)
(*   result      <<code, subCode>>, or None                                 *)
(*   choice      the label of choiceResult, or None                         *)
(*   speech      speechResult: "blank", "text", "long" (more than the 4000  *)
(*               characters a result may carry), or None                    *)
(***************************************************************************)
EXTENDS Naturals, Sequences

CONSTANT None

AcsEventTypes == {"CallConnected", "CallDisconnected", "CreateCallFailed",
                  "RecognizeCompleted", "RecognizeFailed", "RecognizeCanceled",
                  "PlayCompleted", "PlayFailed"}

RespondedTypes == {"approved", "rejected", "answered"}
ExpiredTypes == {"no_answer", "busy", "declined", "disconnected", "cancelled", "deadline_exceeded"}
-----------------------------------------------------------------------------
(* parse_callback_event does not raise. *)
Parsable(e) ==
    /\ e.wellFormed
    /\ e.type \in AcsEventTypes
    /\ e.request # None /\ e.call # None
    /\ e.type = "RecognizeCompleted" => (e.choice = None) # (e.speech = None)
    /\ e.type \in {"CreateCallFailed", "RecognizeFailed"} => e.result # None

(* parse_callback_events: a batch is taken as a whole or not at all. *)
ParsableBatch(b) == \A i \in DOMAIN b : Parsable(b[i])

BusyCodes == {486, 540486, 560486}
BusySubCodes == {540486, 560486, 8539, 8540}

(* _classify_result: the first of these reasons that applies. *)
Classified(result) ==
    IF result = None THEN None
    ELSE IF result = <<480, 560480>> THEN "no_answer"
    ELSE IF result[1] \in BusyCodes \/ result[2] \in BusySubCodes THEN "busy"
    ELSE IF result[1] = 603 \/ result[2] = 8538 \/ result = <<487, 10024>> THEN "declined"
    ELSE None

Silence(result) == result[1] = 400 /\ result[2] \in {8510, 8511}

(* Mutant: whatever was chosen, if it is not the rejection, is an approval. *)
RecognizedUnlessRejected(e) ==
    CASE e.choice = "reject" -> "rejected"
      [] e.choice \notin {"reject", None} -> "approved"
      [] e.choice = None /\ e.speech \in {"text", "long"} -> "answered"
      [] OTHER -> "no_answer"

(* Mutant: blank speech is not told from an answer. *)
RecognizedBlank(e) ==
    CASE e.choice = "approve" -> "approved"
      [] e.choice = "reject" -> "rejected"
      [] e.choice \notin {"approve", "reject"} /\ e.speech # None -> "answered"
      [] OTHER -> "no_answer"

Recognized(e) ==
    CASE e.choice = "approve" -> "approved"
      [] e.choice = "reject" -> "rejected"
      [] e.choice \notin {"approve", "reject"} /\ e.speech \in {"text", "long"} -> "answered"
      [] OTHER -> "no_answer"

(* _domain_event_type *)
DomainEvent(e) ==
    CASE e.type = "CallConnected" -> "connected"
      [] e.type = "PlayCompleted" -> "play_completed"
      [] e.type = "PlayFailed" -> "play_failed"
      [] e.type = "RecognizeCompleted" -> Recognized(e)
      [] e.type = "RecognizeFailed" -> IF Silence(e.result) THEN "no_answer" ELSE "dependency_failed"
      [] e.type = "RecognizeCanceled" -> "cancelled"
      [] e.type \in {"CallDisconnected", "CreateCallFailed"} /\ Classified(e.result) # None ->
            Classified(e.result)
      [] e.type = "CallDisconnected" /\ Classified(e.result) = None -> "disconnected"
      [] OTHER -> "dependency_failed"
-----------------------------------------------------------------------------
(* complete(): the result that an event gives a pending request of a kind,  *)
(* None if it gives none.  A result carries an answer or it does not.       *)
Ignored(kind, type) ==
    \/ type \notin RespondedTypes \cup ExpiredTypes
    \/ kind = "approval" /\ type = "answered"
    \/ kind = "input" /\ type \in {"approved", "rejected"}

ResultFor(kind, e) ==
    LET type == DomainEvent(e) IN
    IF Ignored(kind, type) THEN None
    ELSE [status |-> IF type \in RespondedTypes THEN "responded" ELSE "expired",
          outcome |-> type, answer |-> IF type = "answered" THEN e.speech ELSE None]

(* AskHumanResult: what its fields and validate_outcome let through.        *)
ValidResult(res) ==
    /\ res.answer \in {None, "text"}
    /\ \/ res.status = "responded" /\ res.outcome \in {"approved", "rejected"} /\ res.answer = None
       \/ res.status = "responded" /\ res.outcome = "answered" /\ res.answer # None
       \/ res.status = "expired" /\ res.outcome \in ExpiredTypes /\ res.answer = None

(* What the service does with an event of a pending request that is not a   *)
(* connection or a playback: fail the request, record a result, or nothing. *)
(* A result that the contract refuses raises, and fails the request.        *)
Effect(kind, e) ==
    IF DomainEvent(e) = "dependency_failed" THEN "failed"
    ELSE IF ResultFor(kind, e) = None THEN "ignored"
    ELSE IF ~ValidResult(ResultFor(kind, e)) THEN "failed"
    ELSE ResultFor(kind, e).outcome
=============================================================================
