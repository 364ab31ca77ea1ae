---------------------------- MODULE MCJwksCache ----------------------------
(* Instances of JwksCache for TLC.                                          *)
EXTENDS JwksCache, TLC

CONSTANTS i1, other, k1, k2

MCIssuers == {i1}

\* Good tokens of two keys of the issuer, the second soon to expire; one that
\* somebody else signed in its name, and one of an issuer nobody configured.
MCTokens ==
  {[iss |-> i1, kid |-> k1, by |-> i1, fit |-> TRUE, exp |-> 9],
   [iss |-> i1, kid |-> k2, by |-> i1, fit |-> TRUE, exp |-> 1],
   [iss |-> i1, kid |-> k1, by |-> other, fit |-> TRUE, exp |-> 9],
   [iss |-> other, kid |-> k1, by |-> other, fit |-> TRUE, exp |-> 9]}

Symmetry == Permutations(Threads)
=============================================================================
