-------------------------------- MODULE MCOrm --------------------------------
(* Orm for TLC. *)
EXTENDS Orm, TLC

Symmetry == Permutations(Writers)
==============================================================================
