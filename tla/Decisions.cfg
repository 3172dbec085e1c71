\* Every event, claim set and piece of evidence of the bounded sets of MCDecisions.
SPECIFICATION Spec
CONSTANTS
    None = None
    NoValue = NoValue
    Authorized = {"app"}
    Fold <- MCFold
    MAX_ROWS = 4
    EventInputs <- MCEventInputs
    ClaimInputs <- MCClaimInputs
    EvidenceInputs <- MCEvidenceInputs
CHECK_DEADLOCK FALSE
INVARIANTS
    OnlyFailuresFail
    VerdictWasSpoken
    IdentityIsStable
    EvidenceReconciles
