----------------------------- MODULE LiveEvidence -----------------------------
(***************************************************************************)
(* The evidence of a live test: what scripts/harvest_live_evidence.py       *)
(* exports from the logs and what live_evidence.py accepts as a snapshot    *)
(* and as its review.  There is no state here.                              *)
(*                                                                          *)
(* attempts      provider rows: [call, at]                                  *)
(* observations  application rows: [op, request, call, received, at, count] *)
(* Hashes stand for themselves; times are natural numbers.  Text fields     *)
(* are compared as values; their formats are not modelled.                  *)
(***************************************************************************)
EXTENDS Naturals, FiniteSets

CONSTANT MAX_ROWS

Created == "call_created"
CallbackAccepted == "callback_accepted"
JoinPending == "join_pending"
-----------------------------------------------------------------------------
(* _rows: a table that may have been cut off is refused. *)
Complete(rows) == Cardinality(rows) <= MAX_ROWS

(* _application_evidence *)
Unsampled(observations) == \A o \in observations : o.count = 1

Rows(observations, op) == {o \in observations : o.op = op}

(* by_call: a call has one request. *)
Correlated(observations) ==
    \A o, p \in Rows(observations, Created) : o.call = p.call => o.request = p.request

Reconciled(s) ==
    {a.call : a \in s.attempts} = {o.call : o \in Rows(s.observations, Created)}

(* Mutant: a delivery needs a call, whosever it is. *)
AnyDeliveryMatched(s) ==
    \A d \in Rows(s.observations, CallbackAccepted) :
        /\ \E o \in Rows(s.observations, Created) : o.call = d.call
        /\ s.start <= d.received /\ d.received <= d.at

DeliveriesMatched(s) ==
    \A d \in Rows(s.observations, CallbackAccepted) :
        /\ \E o \in Rows(s.observations, Created) : o.call = d.call /\ o.request = d.request
        /\ s.start <= d.received /\ d.received <= d.at

InWindow(s) == \A r \in s.attempts \cup s.observations : s.start <= r.at /\ r.at <= s.end

(* collect_snapshot, and validate_correlations_and_window of the snapshot   *)
(* it builds.                                                               *)
Collected(s) ==
    /\ s.end <= s.begun                  \* no future window, when the export begins
    /\ Complete(s.attempts) /\ Complete(s.observations)
    /\ Unsampled(s.observations)
    /\ s.start < s.end /\ s.end <= s.queried
    /\ Correlated(s.observations) /\ Reconciled(s) /\ DeliveriesMatched(s) /\ InWindow(s)

(* read_reviewed_snapshot: the review is of this very snapshot, later than  *)
(* it and not in the future.                                                *)
Reviewed(s, review, now) ==
    /\ review.of = s
    /\ s.queried <= review.at /\ review.at <= now
=============================================================================
