---------------------------- MODULE MCRbacStore ----------------------------
(* Instances of RbacStore and MemoryStore for TLC.                                       *)
EXTENDS MemoryStore, TLC

Symmetry == Permutations(Tenants) \union Permutations(Apps)
            \union Permutations(Perms) \union Permutations(Users)
=============================================================================
