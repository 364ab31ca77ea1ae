---------------------------- MODULE MCInvitations ----------------------------
(* Instances of Invitations for TLC: one invitation, the accept requests   *)
(* that carry its token, and the faults they meet.                         *)
EXTENDS Invitations
=============================================================================
