----------------------------- MODULE MCAskHuman -----------------------------
(* The service on small instances; the .cfg files choose the instance. *)
EXTENDS AskHumanService, TLC

Question(kind) == [kind |-> kind, text |-> 1]
Approvals == {Question("approval")}
BothKinds == {Question("approval"), Question("input")}

SymmetryOfNames ==
    Permutations(Requests) \cup Permutations(Keys) \cup Permutations(CallIds)
        \cup Permutations(Asks) \cup Permutations(Handlers)
=============================================================================
