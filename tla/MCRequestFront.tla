--------------------------- MODULE MCRequestFront ---------------------------
(* Instances of RequestFront for TLC.                                       *)
EXTENDS RequestFront, TLC

CONSTANTS c1, c2, k1

\* One key, used by two credentials, and an operation without a key.
MCOps == [cred : {c1, c2}, path : {"delegations"}, key : {k1}]
         \union [cred : {c1}, path : {"authorize"}, key : {NoKey}]

Symmetry == Permutations(Senders)
=============================================================================
