---------------------------- MODULE DecisionsProofs ----------------------------
(***************************************************************************)
(* What is promised of the decisions of Decisions holds for every input: of *)
(* any number of claims, with any values, of any evidence, and of any event *)
(* whatever its codes.  The inductive invariant says that a decision is the *)
(* one its input calls for; the rest is about the operators alone.          *)
(***************************************************************************)
EXTENDS Decisions, FiniteSetTheorems, TLAPS
-----------------------------------------------------------------------------
(*                                The decisions                             *)

EventDecided ==
    /\ input \in EventInputs
    /\ decision = IF ParsableBatch(<<input.event>>) THEN Effect(input.kind, input.event) ELSE "refused"

ClaimsDecided ==
    /\ input \in ClaimInputs
    /\ decision \in {PrincipalFromHeader(input.claims), PrincipalFromToken(input.claims)}

EvidenceDecided ==
    /\ input \in EvidenceInputs
    /\ decision = IF Collected(input.snapshot) /\ Reviewed(input.snapshot, input.review, input.now)
                  THEN "accepted" ELSE "refused"

(* A decision, once there, is the one its input calls for. *)
DecisionsInv ==
    /\ input \in EventInputs \cup ClaimInputs \cup EvidenceInputs
    /\ decision # None => EventDecided \/ ClaimsDecided \/ EvidenceDecided

(* An input is about what its set is about. *)
LEMMA InputKinds ==
    ASSUME DecisionsInv
    PROVE  /\ input.about = "event" <=> input \in EventInputs
           /\ input.about = "claims" <=> input \in ClaimInputs
           /\ input.about = "evidence" <=> input \in EvidenceInputs
  BY EventsAssumption, ClaimsAssumption, EvidenceAssumption DEF DecisionsInv

(* Nothing is decided but by the decision of its input. *)
LEMMA DecisionsInvariant == Spec => []DecisionsInv
<1>1. Init => DecisionsInv
  BY DEF Init, DecisionsInv
<1>2. DecisionsInv /\ [Next]_vars => DecisionsInv'
  <2> SUFFICES ASSUME DecisionsInv, [Next]_vars PROVE DecisionsInv'
    OBVIOUS
  <2>1. CASE DecideEvent
    <3>1. input \in EventInputs
      BY <2>1, InputKinds DEF DecideEvent, Undecided
    <3>2. EventDecided'
      BY <2>1, <3>1 DEF DecideEvent, EventDecided
    <3> QED
      BY <3>1, <3>2, <2>1 DEF DecisionsInv, DecideEvent
  <2>2. CASE DecideClaims
    <3>1. input \in ClaimInputs
      BY <2>2, InputKinds DEF DecideClaims, Undecided
    <3>2. ClaimsDecided'
      BY <2>2, <3>1 DEF DecideClaims, ClaimsDecided
    <3> QED
      BY <3>1, <3>2, <2>2 DEF DecisionsInv, DecideClaims
  <2>3. CASE DecideEvidence
    <3>1. input \in EvidenceInputs
      BY <2>3, InputKinds DEF DecideEvidence, Undecided
    <3>2. EvidenceDecided'
      BY <2>3, <3>1 DEF DecideEvidence, EvidenceDecided
    <3> QED
      BY <3>1, <3>2, <2>3 DEF DecisionsInv, DecideEvidence
  <2>4. CASE UNCHANGED vars
    BY <2>4 DEF vars, DecisionsInv, EventDecided, ClaimsDecided, EvidenceDecided
  <2> QED
    BY <2>1, <2>2, <2>3, <2>4 DEF Next
<1> QED
  BY <1>1, <1>2, PTL DEF Spec

(* What was decided about an input is the decision of that input. *)
LEMMA DecidedAsCalledFor ==
    ASSUME DecisionsInv
    PROVE  /\ Decided("event") => EventDecided
           /\ Decided("claims") => ClaimsDecided
           /\ Decided("evidence") => EvidenceDecided
<1>1. ASSUME Decided("event") PROVE EventDecided
  BY <1>1, InputKinds, ClaimsAssumption, EvidenceAssumption
     DEF DecisionsInv, Decided, ClaimsDecided, EvidenceDecided
<1>2. ASSUME Decided("claims") PROVE ClaimsDecided
  BY <1>2, InputKinds, EventsAssumption, EvidenceAssumption
     DEF DecisionsInv, Decided, EventDecided, EvidenceDecided
<1>3. ASSUME Decided("evidence") PROVE EvidenceDecided
  BY <1>3, InputKinds, EventsAssumption, ClaimsAssumption
     DEF DecisionsInv, Decided, EventDecided, ClaimsDecided
<1> QED
  BY <1>1, <1>2, <1>3
-----------------------------------------------------------------------------
(*                                  Events                                  *)

(* ACS's codes never make a failure, nor an answer, of a call that ended.   *)
LEMMA ClassifiedRange ==
    ASSUME NEW result
    PROVE  Classified(result) \in {None, "no_answer", "busy", "declined"}
  BY DEF Classified

LEMMA RecognizedRange ==
    ASSUME NEW e
    PROVE  /\ Recognized(e) \in RespondedTypes \cup {"no_answer"}
           /\ Recognized(e) = "approved" => e.choice = "approve"
           /\ Recognized(e) = "rejected" => e.choice = "reject"
           /\ Recognized(e) = "answered" =>
                 e.choice \notin {"approve", "reject"} /\ e.speech \in {"text", "long"}
  BY DEF Recognized, RespondedTypes

(* Only a failure that ACS reports is a failure, and only a recognition is  *)
(* a response.                                                              *)
LEMMA DomainEventRange ==
    ASSUME NEW e, Parsable(e)
    PROVE  /\ DomainEvent(e) = "dependency_failed" => e.type \in {"RecognizeFailed", "CreateCallFailed"}
           /\ DomainEvent(e) \in RespondedTypes =>
                 e.type = "RecognizeCompleted" /\ DomainEvent(e) = Recognized(e)
<1>1. e.type \in AcsEventTypes
  BY DEF Parsable
<1>2. CASE e.type = "RecognizeCompleted"
  <2>1. DomainEvent(e) = Recognized(e)
    BY <1>2 DEF DomainEvent
  <2> QED
    BY <1>2, <2>1, RecognizedRange DEF RespondedTypes
<1>3. CASE e.type = "CallDisconnected"
  <2>1. DomainEvent(e) \in {"no_answer", "busy", "declined", "disconnected"}
    BY <1>3, ClassifiedRange DEF DomainEvent
  <2> QED
    BY <2>1 DEF RespondedTypes
<1>4. CASE e.type = "CreateCallFailed"
  <2>1. DomainEvent(e) \in {"no_answer", "busy", "declined", "dependency_failed"}
    BY <1>4, ClassifiedRange DEF DomainEvent
  <2> QED
    BY <1>4, <2>1 DEF RespondedTypes
<1>5. CASE e.type = "RecognizeFailed"
  <2>1. DomainEvent(e) \in {"no_answer", "dependency_failed"}
    BY <1>5 DEF DomainEvent
  <2> QED
    BY <1>5, <2>1 DEF RespondedTypes
<1>6. CASE e.type \in {"CallConnected", "RecognizeCanceled", "PlayCompleted", "PlayFailed"}
  <2>1. DomainEvent(e) \in {"connected", "cancelled", "play_completed", "play_failed"}
    BY <1>6 DEF DomainEvent
  <2> QED
    BY <2>1 DEF RespondedTypes
<1> QED
  BY <1>1, <1>2, <1>3, <1>4, <1>5, <1>6 DEF AcsEventTypes

(* The contract refuses no result but an answer of too many words. *)
LEMMA RefusedResult ==
    ASSUME NEW kind, NEW e, Parsable(e), ResultFor(kind, e) # None, ~ValidResult(ResultFor(kind, e))
    PROVE  e.speech = "long"
<1> DEFINE type == DomainEvent(e)
<1>1. ~Ignored(kind, type)
  BY DEF ResultFor
<1>2. ResultFor(kind, e) =
        [status |-> IF type \in RespondedTypes THEN "responded" ELSE "expired",
         outcome |-> type, answer |-> IF type = "answered" THEN e.speech ELSE None]
  BY <1>1 DEF ResultFor
<1>3. type \in RespondedTypes \cup ExpiredTypes
  BY <1>1 DEF Ignored
<1>4. CASE type = "answered"
  <2>1. e.speech \in {"text", "long"}
    BY <1>4, DomainEventRange, RecognizedRange DEF RespondedTypes
  <2>2. CASE e.speech = "text"
    <3> HIDE DEF type
    <3> QED
      BY <1>2, <1>4, <2>2, EventsAssumption DEF ValidResult, RespondedTypes
  <2> QED
    BY <2>1, <2>2
<1>5. CASE type # "answered"
  <2> HIDE DEF type
  <2> QED
    BY <1>2, <1>3, <1>5 DEF ValidResult, RespondedTypes, ExpiredTypes
<1> QED
  BY <1>4, <1>5

(* A request gets the outcome of an event that it does not ignore, and that *)
(* is no more than a result can carry.                                      *)
LEMMA OutcomeIsTheEvents ==
    ASSUME NEW kind, NEW e, Effect(kind, e) \in RespondedTypes
    PROVE  /\ ~Ignored(kind, DomainEvent(e)) /\ DomainEvent(e) = Effect(kind, e)
           /\ DomainEvent(e) = "answered" => e.speech \in {None, "text"}
<1>1. /\ ResultFor(kind, e) # None /\ ValidResult(ResultFor(kind, e))
      /\ Effect(kind, e) = ResultFor(kind, e).outcome
  BY DEF Effect, RespondedTypes
<1>2. ~Ignored(kind, DomainEvent(e))
  BY <1>1 DEF ResultFor
<1>3. /\ ResultFor(kind, e).outcome = DomainEvent(e)
      /\ DomainEvent(e) = "answered" => ResultFor(kind, e).answer = e.speech
  BY <1>2 DEF ResultFor
<1> QED
  BY <1>1, <1>2, <1>3 DEF ValidResult

(* Whatever its codes, an event fails a request only as a technical failure *)
(* or an answer that is too long.                                           *)
THEOREM FailuresFail == Spec => []OnlyFailuresFail
<1>1. DecisionsInv => OnlyFailuresFail
  <2> SUFFICES ASSUME DecisionsInv, Decided("event"), decision = "failed"
               PROVE  \/ input.event.type \in {"RecognizeFailed", "CreateCallFailed"}
                      \/ input.event.speech = "long"
    BY DEF OnlyFailuresFail
  <2> DEFINE e == input.event  kind == input.kind
  <2>1. Parsable(e) /\ Effect(kind, e) = "failed"
    BY DecidedAsCalledFor DEF EventDecided, ParsableBatch
  <2>2. CASE DomainEvent(e) = "dependency_failed"
    BY <2>1, <2>2, DomainEventRange
  <2>3. CASE ResultFor(kind, e) # None /\ ~ValidResult(ResultFor(kind, e))
    BY <2>1, <2>3, RefusedResult
  <2>4. CASE ResultFor(kind, e) # None /\ ValidResult(ResultFor(kind, e)) /\ DomainEvent(e) # "dependency_failed"
    <3>1. ResultFor(kind, e).outcome = "failed"
      BY <2>1, <2>4 DEF Effect
    <3> QED
      BY <2>4, <3>1 DEF ValidResult, ExpiredTypes
  <2> QED
    BY <2>1, <2>2, <2>3, <2>4 DEF Effect
<1> QED
  BY <1>1, DecisionsInvariant, PTL

(* A verdict on record is what the person chose or said, and the only thing *)
(* that was recognized.                                                     *)
THEOREM VerdictsSpoken == Spec => []VerdictWasSpoken
<1>1. DecisionsInv => VerdictWasSpoken
  <2> DEFINE e == input.event  kind == input.kind
  <2> SUFFICES ASSUME DecisionsInv, Decided("event"), decision \in RespondedTypes
               PROVE  /\ e.type = "RecognizeCompleted"
                      /\ decision = "approved" => e.choice = "approve"
                      /\ decision = "rejected" => e.choice = "reject"
                      /\ decision \in {"approved", "rejected"} => kind = "approval" /\ e.speech = None
                      /\ decision = "answered" => kind = "input" /\ e.speech = "text" /\ e.choice = None
    BY DEF VerdictWasSpoken, RespondedTypes
  <2>1. input \in EventInputs /\ Parsable(e) /\ Effect(kind, e) = decision
    BY DecidedAsCalledFor DEF EventDecided, ParsableBatch, RespondedTypes
  <2>2. /\ ~Ignored(kind, DomainEvent(e)) /\ DomainEvent(e) = decision
        /\ decision = "answered" => e.speech \in {None, "text"}
    BY <2>1, OutcomeIsTheEvents
  <2>3. e.type = "RecognizeCompleted" /\ Recognized(e) = decision
    BY <2>1, <2>2, DomainEventRange
  <2>4. kind \in {"approval", "input"} /\ None \notin {"approve", "reject", "blank", "text", "long"}
    BY <2>1, EventsAssumption
  <2>5. (e.choice = None) # (e.speech = None)
    BY <2>1, <2>3 DEF Parsable
  <2>6. /\ decision = "approved" => e.choice = "approve"
        /\ decision = "rejected" => e.choice = "reject"
        /\ decision = "answered" => e.speech \in {"text", "long"}
    BY <2>3, RecognizedRange
  <2>7. /\ decision \in {"approved", "rejected"} => kind = "approval"
        /\ decision = "answered" => kind = "input"
    BY <2>2, <2>4 DEF Ignored
  <2> HIDE DEF e, kind
  <2> QED
    BY <2>2, <2>3, <2>4, <2>5, <2>6, <2>7
<1> QED
  BY <1>1, DecisionsInvariant, PTL
-----------------------------------------------------------------------------
(*                                   Agents                                 *)

LEMMA OneValue ==
    ASSUME NEW values, IsFiniteSet(values), SingleClaim(values)
    PROVE  values = {Only(values)}
<1>1. PICK v : values = {v}
  BY FS_Singleton DEF SingleClaim
<1> QED
  BY <1>1 DEF Only

LEMMA ValuesFinite ==
    ASSUME NEW claims, IsFiniteSet(claims), NEW types
    PROVE  IsFiniteSet(Values(claims, types))
<1> DEFINE D == {d \in claims : d.typ \in types}
           T == {d.val : d \in D}
           f == [d \in D |-> d.val]
<1>1. IsFiniteSet(D)
  BY FS_Subset
<1>2. f \in Surjection(D, T)
  BY DEF Surjection
<1>3. IsFiniteSet(T)
  BY <1>1, <1>2, FS_Surjection
<1> QED
  BY <1>3, FS_Subset DEF Values

LEMMA SubjectFinite ==
    ASSUME NEW claims, IsFiniteSet(claims)
    PROVE  IsFiniteSet(Subject(claims))
  BY ValuesFinite DEF Subject

(* Leaving a claim out takes values away, and only from the types that list *)
(* its own.                                                                 *)
LEMMA ValuesWithout ==
    ASSUME NEW claims, NEW c, NEW types
    PROVE  /\ Values(claims \ {c}, types) \subseteq Values(claims, types)
           /\ c.typ \notin types => Values(claims \ {c}, types) = Values(claims, types)
  BY DEF Values

(* Who is accepted has one application and one subject, whose names the     *)
(* identity bears.                                                          *)
LEMMA AcceptedIdentity ==
    ASSUME NEW claims, IsFiniteSet(claims), Accepted(PrincipalFromClaims(claims))
    PROVE  LET p == PrincipalFromClaims(claims) IN
           /\ Values(claims, APPLICATION_ID_CLAIMS) = {p.application}
           /\ Subject(claims) = {p.subject}
<1> DEFINE applications == Values(claims, APPLICATION_ID_CLAIMS)  subjects == Subject(claims)
<1>1. SingleClaim(applications) /\ SingleClaim(subjects)
  BY DEF PrincipalFromClaims, Accepted, Unauthenticated
<1>2. applications = {Only(applications)} /\ subjects = {Only(subjects)}
  BY <1>1, OneValue, ValuesFinite, SubjectFinite
<1>3. PrincipalFromClaims(claims) = Identified(Only(subjects), Only(applications))
  BY DEF PrincipalFromClaims, Accepted, Unauthenticated, Forbidden
<1>4. /\ PrincipalFromClaims(claims).application = Only(applications)
      /\ PrincipalFromClaims(claims).subject = Only(subjects)
  BY <1>3 DEF Identified
<1> HIDE DEF applications, subjects
<1> QED
  BY <1>2, <1>4 DEF applications, subjects

(* No claim is so placed that leaving it out makes another of an agent.     *)
THEOREM AgentsAreStable == Spec => []IdentityIsStable
<1>1. DecisionsInv => IdentityIsStable
  <2> SUFFICES ASSUME DecisionsInv, Decided("claims"), Accepted(decision), NEW c \in input.claims,
                      Accepted(PrincipalFromToken(input.claims \ {c}))
               PROVE  LET p == PrincipalFromToken(input.claims \ {c}) IN
                      /\ p.application = decision.application
                      /\ c.typ \notin OBJECT_ID_CLAIMS => p.subject = decision.subject
    BY DEF IdentityIsStable
  <2> DEFINE claims == input.claims
             rest == claims \ {c}
             p == PrincipalFromClaims(rest)
  <2>1. IsFiniteSet(claims) /\ decision \in {PrincipalFromHeader(claims), PrincipalFromToken(claims)}
    BY DecidedAsCalledFor, ClaimsAssumption DEF ClaimsDecided
  <2>2. IsFiniteSet(rest)
    BY <2>1, FS_Subset
  <2>3. decision = PrincipalFromClaims(claims)
    BY <2>1 DEF PrincipalFromHeader, PrincipalFromToken, Accepted, Unauthenticated
  <2>4. /\ Values(claims, APPLICATION_ID_CLAIMS) = {decision.application}
        /\ Subject(claims) = {decision.subject}
    BY <2>1, <2>3, AcceptedIdentity
  <2>5. /\ Values(rest, APPLICATION_ID_CLAIMS) = {p.application}
        /\ Subject(rest) = {p.subject}
    BY <2>2, AcceptedIdentity DEF PrincipalFromToken
  <2>6. p.application = decision.application
    <3>1. Values(rest, APPLICATION_ID_CLAIMS) \subseteq Values(claims, APPLICATION_ID_CLAIMS)
      BY ValuesWithout
    <3> QED
      BY <2>4, <2>5, <3>1
  <2>7. ASSUME c.typ \notin OBJECT_ID_CLAIMS PROVE p.subject = decision.subject
    <3>1. Values(rest, OBJECT_ID_CLAIMS) = Values(claims, OBJECT_ID_CLAIMS)
      BY <2>7, ValuesWithout
    <3>2. Values(rest, SUBJECT_ID_CLAIMS) \subseteq Values(claims, SUBJECT_ID_CLAIMS)
      BY ValuesWithout
    <3>3. Subject(rest) \subseteq Subject(claims)
      BY <3>1, <3>2 DEF Subject
    <3> QED
      BY <2>4, <2>5, <3>3
  <2> QED
    BY <2>6, <2>7 DEF PrincipalFromToken
<1> QED
  BY <1>1, DecisionsInvariant, PTL
-----------------------------------------------------------------------------
(*                                  Evidence                                *)

(* Where a call has one request, the requests of a call are the request of  *)
(* any row of it.                                                           *)
LEMMA RequestOfCall ==
    ASSUME NEW observations, Correlated(observations), NEW o \in Rows(observations, Created)
    PROVE  {q.request : q \in {p \in Rows(observations, Created) : p.call = o.call}} = {o.request}
  BY DEF Correlated

(* Of however many calls, deliveries and times.                             *)
THEOREM ReviewedEvidence == Spec => []EvidenceReconciles
<1>1. DecisionsInv => EvidenceReconciles
  <2> SUFFICES ASSUME DecisionsInv, Decided("evidence"), decision = "accepted"
               PROVE  EvidenceReconciles
    BY DEF EvidenceReconciles
  <2> DEFINE s == input.snapshot
             created == Rows(s.observations, Created)
             RequestsOf(call) == {o.request : o \in {p \in created : p.call = call}}
  <2>1. /\ input \in EvidenceInputs
        /\ Collected(s) /\ Reviewed(s, input.review, input.now)
    BY DecidedAsCalledFor DEF EvidenceDecided
  <2>2. \A o \in created : RequestsOf(o.call) = {o.request}
    BY <2>1, RequestOfCall DEF Collected
  <2>3. {a.call : a \in s.attempts} = {o.call : o \in created}
    BY <2>1 DEF Collected, Reconciled
  <2>4. ASSUME NEW a \in s.attempts PROVE Cardinality(RequestsOf(a.call)) = 1
    <3>1. PICK o \in created : o.call = a.call
      BY <2>3
    <3>2. RequestsOf(a.call) = {o.request}
      BY <2>2, <3>1
    <3> QED
      BY <3>2, FS_Singleton
  <2>5. \A o \in created : \E a \in s.attempts : a.call = o.call
    BY <2>3
  <2>6. ASSUME NEW d \in Rows(s.observations, CallbackAccepted)
        PROVE  /\ RequestsOf(d.call) = {d.request}
               /\ s.start <= d.received /\ d.received <= input.review.at
               /\ input.review.at <= input.now
    <3>1. PICK o \in created : o.call = d.call /\ o.request = d.request
      BY <2>1 DEF Collected, DeliveriesMatched
    <3>2. RequestsOf(d.call) = {d.request}
      BY <2>2, <3>1
    <3>3. /\ s.start <= d.received /\ d.received <= d.at
          /\ d.at <= s.end /\ s.end <= s.queried
          /\ s.queried <= input.review.at /\ input.review.at <= input.now
      BY <2>1 DEF Collected, DeliveriesMatched, InWindow, Reviewed, Rows
    <3>4. {d.received, d.at, s.end, s.queried, input.review.at} \subseteq Nat
      BY <2>1, EvidenceAssumption DEF Rows
    <3>5. d.received <= input.review.at
      BY <3>3, <3>4
    <3> QED
      BY <3>2, <3>3, <3>5
  <2> QED
    BY <2>4, <2>5, <2>6 DEF EvidenceReconciles
<1> QED
  BY <1>1, DecisionsInvariant, PTL
================================================================================
