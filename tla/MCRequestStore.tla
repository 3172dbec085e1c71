--------------------------- MODULE MCRequestStore ---------------------------
(* RequestStore on its own: every statement, at any time, in any order. *)
EXTENDS RequestStore, TLC

Question(kind) == [kind |-> kind, text |-> 1]
Approvals == {Question("approval")}
BothKinds == {Question("approval"), Question("input")}

SymmetryOfNames == Permutations(Requests) \cup Permutations(Keys) \cup Permutations(CallIds)
=============================================================================
