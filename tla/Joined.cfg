\* Two clients share a key, a creator and a joiner or two creators in turn, and the
\* replica may restart at any point.
SPECIFICATION Spec
CONSTANTS
    Requests = {r1, r2}
    Keys = {k1}
    Payloads <- Approvals
    CallIds = {c1, c2}
    None = None
    Deadline = 2
    WorkCutoff = 1
    Retention = 2
    MaxTime = 2
    Asks = {a1, a2}
    Handlers = {h1}
    Reports = {"approved"}
    Repeats = FALSE
    MaxFaults = 0
    MaxCrashes = 1
SYMMETRY SymmetryOfNames
CHECK_DEADLOCK FALSE
INVARIANTS
    OneCallPerRequest
    CancelledByCreator
    AttachedCallReleased
    AnswerIsRecorded
