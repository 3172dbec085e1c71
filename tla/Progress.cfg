\* What eventually happens, under the fairness of the event loop.
SPECIFICATION FairSpec
CONSTANTS
    Requests = {r1}
    Keys = {k1}
    Payloads <- Approvals
    CallIds = {c1}
    None = None
    Deadline = 2
    WorkCutoff = 1
    Retention = 2
    MaxTime = 2
    Asks = {a1}
    Handlers = {h1}
    Reports = {"approved"}
    Repeats = FALSE
    MaxFaults = 1
    MaxCrashes = 1
CHECK_DEADLOCK FALSE
PROPERTIES
    AsksReturn
    HandlersAnswer
    RequestsSettle
