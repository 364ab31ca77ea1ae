--------------------------- MODULE MCAdminSessions ---------------------------
(* Instances of AdminSessions for TLC.                                      *)
EXTENDS AdminSessions
=============================================================================
