\* Two deliveries at once, each event as often as ACS likes, and a restart.
SPECIFICATION Spec
CONSTANTS
    Requests = {r1}
    Keys = {k1}
    Payloads <- Approvals
    CallIds = {c1}
    None = None
    Deadline = 2
    WorkCutoff = 1
    Retention = 2
    MaxTime = 2
    Asks = {a1}
    Handlers = {h1, h2}
    Reports = {"approved", "unavailable"}
    Repeats = TRUE
    MaxFaults = 0
    MaxCrashes = 1
SYMMETRY SymmetryOfNames
CHECK_DEADLOCK FALSE
INVARIANTS
    PromptedOnce
