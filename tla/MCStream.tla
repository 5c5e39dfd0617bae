------------------------------ MODULE MCStream ------------------------------
(* Ids are interchangeable. *)
EXTENDS Stream

Symmetry == Permutations(Ids)
=============================================================================
