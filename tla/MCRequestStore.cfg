\* Two requests may share a key or not, on two calls; a row lives its whole
\* life twice over: accepted at 0 or 1, expired at 2, purged at 3.
SPECIFICATION StoreSpec
CONSTANTS
    Requests = {r1, r2}
    Keys = {k1, k2}
    Payloads <- BothKinds
    CallIds = {c1, c2}
    None = None
    Deadline = 2
    WorkCutoff = 1
    Retention = 2
    MaxTime = 3
SYMMETRY SymmetryOfNames
CHECK_DEADLOCK FALSE
INVARIANTS
    StoreTypeOK
    UniqueIndexes
    LifecycleCheck
    AnswerFitsQuestion
PROPERTIES
    FirstTerminalWins
    ImplementsLedger
