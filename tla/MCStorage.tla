----------------------------- MODULE MCStorage -----------------------------
(* Storage for TLC: the schemas are interchangeable. *)
EXTENDS Storage, TLC

Symmetry == Permutations(Schemas)
=============================================================================
