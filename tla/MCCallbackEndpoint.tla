-------------------------- MODULE MCCallbackEndpoint --------------------------
EXTENDS CallbackEndpoint

CONSTANTS d1, d2

MCDeliveries == {d1, d2}

MCSymmetry == Permutations(MCDeliveries)

MCCallOf == [r \in {"r1", "r2"} |-> IF r = "r1" THEN "c1" ELSE "c2"]

MCReports == [r \in {"r1", "r2"} |->
    IF r = "r1" THEN {"RecognizeCompleted", "RecognizeFailed", "CallDisconnected", "PlayCompleted"}
    ELSE {"RecognizeCompleted", "ParticipantsUpdated"}]
=============================================================================
