\* Two questions under two keys, for long enough for a row to be purged and its key
\* used again; nothing is delivered, so requests end by cutoff and cancellation.
SPECIFICATION Spec
CONSTANTS
    Requests = {r1, r2}
    Keys = {k1, k2}
    Payloads <- BothKinds
    CallIds = {c1}
    None = None
    Deadline = 2
    WorkCutoff = 1
    Retention = 2
    MaxTime = 5
    Asks = {a1, a2}
    Handlers = {}
    Reports = {}
    Repeats = FALSE
    MaxFaults = 0
    MaxCrashes = 0
SYMMETRY SymmetryOfNames
CHECK_DEADLOCK FALSE
INVARIANTS
    AnswerIsRecorded
    RowKeptForItsAsks
