\* One question, one delivery at a time, everything ACS can report, one fault.
SPECIFICATION Spec
CONSTANTS
    Requests = {r1}
    Keys = {k1}
    Payloads <- BothKinds
    CallIds = {c1}
    None = None
    Deadline = 2
    WorkCutoff = 1
    Retention = 2
    MaxTime = 2
    Asks = {a1}
    Handlers = {h1}
    Reports = {"approved", "rejected", "answered", "unavailable", "cancelled", "dependency_failed"}
    Repeats = TRUE
    MaxFaults = 1
    MaxCrashes = 0
SYMMETRY SymmetryOfNames
CHECK_DEADLOCK FALSE
INVARIANTS
    TypeOK
    AnswerIsHuman
PROPERTIES
    ImplementsStore
