---------------------------- MODULE AgentIdentity ----------------------------
(***************************************************************************)
(* The identity of the calling agent (security/agent.py), as it follows     *)
(* from the claims of a principal header or of a bearer token.  There is no *)
(* state here.                                                              *)
(*                                                                          *)
(* A claim is [typ, val]; a claim set is a set of them, since both routes   *)
(* collect the values of a type and compare them as sets.  A value that is  *)
(* no string has val = NoValue: the header route refuses it, as it does a   *)
(* blank one, the token route passes it over.  The decoding of the header,  *)
(* and the checks on the token itself, are not modelled.                    *)
(***************************************************************************)
EXTENDS FiniteSets

CONSTANTS
    NoValue,
    Authorized,     \* the configured application ids, casefolded
    Fold            \* casefold, on the application ids that occur

REQUIRED_ROLE == "AskHuman.Invoke"

APPLICATION_ID_CLAIMS == {"appid", "azp", "identity/claims/appid"}
OBJECT_ID_CLAIMS == {"oid", "claims/objectidentifier"}
SUBJECT_ID_CLAIMS == {"sub", "claims/nameidentifier"}
ROLE_CLAIMS == {"roles", "role", "claims/role"}

Unauthenticated == [error |-> "unauthenticated"]
Forbidden == [error |-> "forbidden"]
Identified(subject, application) ==
    [error |-> "none", subject |-> subject, application |-> application]

Accepted(p) == p.error = "none"

(* Two strings stand for the blank ones: the empty one is false in Python,  *)
(* any other is not.                                                        *)
Blank == {"", " "}
-----------------------------------------------------------------------------
Values(claims, types) == {c.val : c \in {d \in claims : d.typ \in types}} \ {NoValue}

Only(values) == CHOOSE v \in values : TRUE

(* _single_claim(objects) or _single_claim(subjects): the subject claims    *)
(* are not even looked at when there is an object id, unless it is empty.   *)
Subject(claims) ==
    IF Values(claims, OBJECT_ID_CLAIMS) \subseteq {""} THEN Values(claims, SUBJECT_ID_CLAIMS)
    ELSE Values(claims, OBJECT_ID_CLAIMS)

(* Mutant: where aliases disagree, one of them is believed. *)
SomeClaim(values) == values # {}

(* _single_claim: one value, however many aliases repeat it. *)
SingleClaim(values) == Cardinality(values) = 1

(* _principal_from_claim_values *)
PrincipalFromClaims(claims) ==
    LET applications == Values(claims, APPLICATION_ID_CLAIMS)
        subjects == Subject(claims) IN
    IF ~SingleClaim(applications) \/ ~SingleClaim(subjects) THEN Unauthenticated
    ELSE IF REQUIRED_ROLE \notin Values(claims, ROLE_CLAIMS) THEN Forbidden
    ELSE IF Fold[Only(applications)] \notin Authorized THEN Forbidden
    ELSE Identified(Only(subjects), Only(applications))

(* parse_container_apps_principal: every claim must have a value. *)
PrincipalFromHeader(claims) ==
    IF \E c \in claims : c.val \in Blank \cup {NoValue} THEN Unauthenticated ELSE PrincipalFromClaims(claims)

(* AgentBearerTokenValidator.validate, once the token has been verified. *)
PrincipalFromToken(claims) == PrincipalFromClaims(claims)
=============================================================================
