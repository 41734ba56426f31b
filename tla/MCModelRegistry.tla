-------------------------- MODULE MCModelRegistry --------------------------
(* Instances of ModelRegistry for TLC: syncs and administrators are          *)
(* interchangeable, matches and versions are numbers.                        *)
EXTENDS ModelRegistry, TLC

Symmetry == Permutations(Trainer) \union Permutations(Admin)
=============================================================================
