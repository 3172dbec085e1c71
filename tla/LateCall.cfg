\* A call placed by an interrupted create_call is picked up late.
SPECIFICATION Spec
CONSTANTS
    Requests = {r1}
    Keys = {k1}
    Payloads <- Approvals
    CallIds = {c1}
    None = None
    Deadline = 2
    WorkCutoff = 1
    Retention = 2
    MaxTime = 2
    Asks = {a1}
    Handlers = {h1}
    Reports = {"approved"}
    Repeats = FALSE
    MaxFaults = 0
    MaxCrashes = 0
CHECK_DEADLOCK FALSE
INVARIANTS
    LateCallReleased
