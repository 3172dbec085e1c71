--------------------------- MODULE MCCallbackKeys ---------------------------
(* The validator on small instances. *)
EXTENDS CallbackKeys, TLC

SymmetryOfNames == Permutations(Validations) \cup Permutations(Kids)
=============================================================================
