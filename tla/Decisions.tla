------------------------------- MODULE Decisions -------------------------------
(***************************************************************************)
(* The pure decisions of the program, CallEvents, AgentIdentity and         *)
(* LiveEvidence, as a system that takes one input, decides it by the one    *)
(* step that fits it, and stops: so that each decision can be compared with *)
(* what may be said of its input itself.  Which inputs there are is a       *)
(* parameter; MCDecisions names the ones that TLC enumerates.               *)
(***************************************************************************)
EXTENDS CallEvents, AgentIdentity, LiveEvidence

CONSTANTS
    EventInputs,        \* [about, kind, event]
    ClaimInputs,        \* [about, claims]
    EvidenceInputs      \* [about, snapshot, review, now]

(* A question is for approval or for input, and None is no label and no     *)
(* words.                                                                   *)
ASSUME EventsAssumption ==
    /\ \A i \in EventInputs : i.about = "event" /\ i.kind \in {"approval", "input"}
    /\ None \notin {"approve", "reject", "blank", "text", "long"}

ASSUME ClaimsAssumption ==
    \A i \in ClaimInputs : i.about = "claims" /\ IsFiniteSet(i.claims)

(* Times are numbers, and a delivery says when it was received.             *)
ASSUME EvidenceAssumption ==
    \A i \in EvidenceInputs :
        /\ i.about = "evidence"
        /\ {i.snapshot.start, i.snapshot.end, i.snapshot.queried, i.review.at, i.now} \subseteq Nat
        /\ \A o \in i.snapshot.observations :
              o.at \in Nat /\ (o.op = CallbackAccepted => o.received \in Nat)

VARIABLES input, decision
vars == <<input, decision>>
-----------------------------------------------------------------------------
Init == input \in EventInputs \cup ClaimInputs \cup EvidenceInputs /\ decision = None

Undecided(about) == decision = None /\ input.about = about

(* parse_callback_events, then the service on a pending request. *)
DecideEvent ==
    /\ Undecided("event")
    /\ decision' = IF ParsableBatch(<<input.event>>) THEN Effect(input.kind, input.event) ELSE "refused"
    /\ UNCHANGED input

(* authenticate() of main.py: the header is preferred, the token the other way. *)
DecideClaims ==
    /\ Undecided("claims")
    /\ \/ decision' = PrincipalFromHeader(input.claims)
       \/ decision' = PrincipalFromToken(input.claims)
    /\ UNCHANGED input

DecideEvidence ==
    /\ Undecided("evidence")
    /\ decision' = IF Collected(input.snapshot) /\ Reviewed(input.snapshot, input.review, input.now)
                   THEN "accepted" ELSE "refused"
    /\ UNCHANGED input

Next == DecideEvent \/ DecideClaims \/ DecideEvidence

Spec == Init /\ [][Next]_vars
-----------------------------------------------------------------------------
Decided(about) == decision # None /\ input.about = about

(* A request fails over an event only when ACS reports a technical failure, *)
(* or when the person said more than a result can carry: silence, blank     *)
(* speech and an unknown choice are no failure of the service               *)
(* (telephony/events.py, domain/transitions.py).                            *)
OnlyFailuresFail ==
    Decided("event") /\ decision = "failed" =>
        \/ input.event.type \in {"RecognizeFailed", "CreateCallFailed"}
        \/ input.event.speech = "long"

(* A verdict is recorded as the person's only when a recognition completed  *)
(* with that very choice, or with words in answer to a question, and never  *)
(* with both (telephony/events.py, domain/transitions.py).                  *)
VerdictWasSpoken ==
    Decided("event") =>
        /\ decision \in RespondedTypes => input.event.type = "RecognizeCompleted"
        /\ decision = "approved" => input.event.choice = "approve"
        /\ decision = "rejected" => input.event.choice = "reject"
        /\ decision \in {"approved", "rejected"} =>
              input.kind = "approval" /\ input.event.speech = None
        /\ decision = "answered" =>
              input.kind = "input" /\ input.event.speech = "text" /\ input.event.choice = None

(* An agent is who it is: leaving any one claim out of an accepted identity *)
(* leaves a refusal or the same identity, but for the object id, which the  *)
(* subject claims stand in for (security/agent.py).                         *)
IdentityIsStable ==
    Decided("claims") /\ Accepted(decision) =>
        \A c \in input.claims :
            LET p == PrincipalFromToken(input.claims \ {c}) IN
            Accepted(p) => /\ p.application = decision.application
                           /\ c.typ \notin OBJECT_ID_CLAIMS => p.subject = decision.subject

(* In reviewed evidence every call was placed by the provider for exactly   *)
(* one request, every request that was told of a call has one, and every    *)
(* callback was received for the one request of its call, within the window *)
(* and before the review (live_evidence.py).                                *)
EvidenceReconciles ==
    Decided("evidence") /\ decision = "accepted" =>
        LET created == Rows(input.snapshot.observations, Created)
            RequestsOf(call) == {o.request : o \in {p \in created : p.call = call}} IN
        /\ \A a \in input.snapshot.attempts : Cardinality(RequestsOf(a.call)) = 1
        /\ \A o \in created : \E a \in input.snapshot.attempts : a.call = o.call
        /\ \A d \in Rows(input.snapshot.observations, CallbackAccepted) :
              /\ RequestsOf(d.call) = {d.request}
              /\ input.snapshot.start <= d.received /\ d.received <= input.review.at
              /\ input.review.at <= input.now
================================================================================
