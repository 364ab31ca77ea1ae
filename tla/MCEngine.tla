------------------------------ MODULE MCEngine ------------------------------
(* Instances of Engine for TLC.                                             *)
EXTENDS Engine, TLC

Symmetry == Permutations(Tenants)
=============================================================================
