---------------------------- MODULE MCDelegations ----------------------------
(* Instances of Delegations for TLC.                                         *)
EXTENDS Delegations

CONSTANTS p1, r1, r2

\* Everything is on, and the application's role carries the permission; user
\* and agent hold it or not.
MCStarts ==
  {[status |-> [x \in Switches |-> "active"],
    linked |-> [s \in Subjects |-> IF s \in holders THEN {r1} ELSE {}],
    stands |-> [r \in Roles |-> r],
    carried |-> [r \in Roles |-> IF r = r1 THEN {p1} ELSE {}],
    unmasked |-> Perms] : holders \in SUBSET Subjects}
=============================================================================
