---------------------------- MODULE MCCredentials ----------------------------
(* Instances of Credentials for TLC.                                        *)
EXTENDS Credentials, TLC

CONSTANTS t1, t2

Pinned(scopes) == [scopes |-> scopes, tenant |-> t1]
Free(scopes) == [scopes |-> scopes, tenant |-> None]

\* An administrator, and a credential of one tenant with scopes that the token
\* endpoint must take apart.
MCGrants == {Free({"admin"}), Pinned({"runtime", t2})}
MCDeadlines == {0}
MCSettings == {[dev |-> TRUE, env |-> FALSE, sso |-> FALSE], [dev |-> FALSE, env |-> TRUE, sso |-> TRUE]}

Symmetry == Permutations(Keys) \union Permutations(Workers)
=============================================================================
