------------------------------ MODULE MCCache ------------------------------
(* Threads and keys are interchangeable. *)
EXTENDS Cache, TLC

Symmetry == Permutations(Threads) \cup Permutations(Keys)
=============================================================================
