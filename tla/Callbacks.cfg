\* Two deliveries of batches over two calls, reports late or never, and one failure.
SPECIFICATION Spec
CONSTANTS
    None = None
    Requests = {"r1", "r2"}
    Calls = {"c1", "c2"}
    CallOf <- MCCallOf
    d1 = d1
    d2 = d2
    Deliveries <- MCDeliveries
    Reports <- MCReports
    MaxBatch = 2
    MaxFaults = 1
SYMMETRY MCSymmetry
CHECK_DEADLOCK FALSE
INVARIANTS
    TypeOK
    NoEventLost
    RegisteredWhilePlaying
    ThanksHeardOut
    ReportNotLost
    DeliveriesMove
PROPERTIES
    AnsweredCallEnds
