--------------------------- MODULE MCSigningKeys ---------------------------
(* Instances of SigningKeys for TLC.                                        *)
EXTENDS SigningKeys, TLC

Symmetry == Permutations(Workers) \union Permutations(Keys)
=============================================================================
