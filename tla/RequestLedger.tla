--------------------------- MODULE RequestLedger ---------------------------
(***************************************************************************)
(* What the human_requests table promises to everybody who talks to it,     *)
(* with nothing of how it is kept: a request is accepted once, under a key  *)
(* no other remembered request uses, while no other request is open; it is  *)
(* settled once, with a verdict that never changes; and only a settled      *)
(* request is forgotten.  RequestStore implements it.                       *)
(***************************************************************************)
CONSTANTS Requests, Keys, Verdicts, None

VARIABLE ledger       \* request -> [phase, key, verdict]

Phases == {"unused", "open", "settled", "forgotten"}

Entry == [phase: Phases, key: Keys \cup {None}, verdict: Verdicts \cup {None}]

Open == {r \in Requests : ledger[r].phase = "open"}

LedgerInit == ledger = [r \in Requests |-> [phase |-> "unused", key |-> None, verdict |-> None]]

(* A new request is accepted under a key nobody holds, one open at a time. *)
Accept(r, k) ==
    /\ ledger[r].phase = "unused"
    /\ Open = {}
    /\ \A q \in Requests : ledger[q].key # k
    /\ ledger' = [ledger EXCEPT ![r] = [phase |-> "open", key |-> k, verdict |-> None]]

(* The open request gets its verdict. *)
Settle(r, v) ==
    /\ ledger[r].phase = "open"
    /\ ledger' = [ledger EXCEPT ![r] = [phase |-> "settled", key |-> ledger[r].key, verdict |-> v]]

(* Settled requests are forgotten, several at a time, and free their keys. *)
Forget(R) ==
    /\ \A r \in R : ledger[r].phase = "settled"
    /\ ledger' = [r \in Requests |->
                    IF r \in R THEN [phase |-> "forgotten", key |-> None, verdict |-> None]
                    ELSE ledger[r]]

LedgerNext ==
    \/ \E r \in Requests, k \in Keys : Accept(r, k)
    \/ \E r \in Requests, v \in Verdicts : Settle(r, v)
    \/ \E R \in SUBSET Requests : Forget(R)

LedgerSpec == LedgerInit /\ [][LedgerNext]_ledger
=============================================================================
