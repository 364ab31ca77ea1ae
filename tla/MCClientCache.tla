--------------------------- MODULE MCClientCache ---------------------------
(* Instances of ClientCache for TLC.                                        *)
EXTENDS ClientCache, TLC

CONSTANTS t1, t2, a1

\* The same application in two tenants.
MCKeys == {[tenant |-> t1, app |-> a1], [tenant |-> t2, app |-> a1]}

\* Threads are alike, and so are the tenants: the keys differ in nothing else.
Symmetry == Permutations(Threads) \union Permutations({t1, t2})
=============================================================================
