------------------------------ MODULE MCDelta ------------------------------
(* Small instances of Delta: two keys, two values, symmetric in both.      *)
EXTENDS Delta, TLC

AllConfs == [postgres : BOOLEAN, withoutIndex : BOOLEAN]

Symmetry == Permutations(Keys) \union Permutations(Vals)
=============================================================================
