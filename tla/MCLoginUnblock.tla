--------------------------- MODULE MCLoginUnblock ---------------------------
(* Instances of LoginUnblock for TLC. *)
EXTENDS LoginUnblock, TLC

Symmetric == Permutations(Caller) \cup Permutations(Worker)
=============================================================================
