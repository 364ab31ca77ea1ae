---------------------------- MODULE MCDirectory ----------------------------
(* Instances of Directory for TLC.                                          *)
EXTENDS Directory, TLC

CONSTANTS c1, c2, i1, i2, u1, u2, m1, m2, t1, t2, r1

Row(t, scoped, status) ==
  [tenant |-> t, scoped |-> scoped, user |-> u1, status |-> status, roles |-> {r1}]

Known == [i \in Identities |-> IF i = i1 THEN u1 ELSE None]
Database(exists, mg, known, one, other, map, provision) ==
  [app |-> exists, manager |-> mg, identities |-> known, auto |-> provision, mapping |-> map,
   members |-> [m \in Rows |-> IF m = m1 THEN one ELSE IF m = m2 THEN other ELSE Absent]]

\* Nothing yet; a bound member of a free application; of a managed one, disabled
\* in the application and active in the tenant; a member of two tenants; two
\* tenant-wide rows.
MCStarts ==
  {Database(FALSE, None, [i \in Identities |-> None], Absent, Absent, None, TRUE),
   Database(TRUE, None, Known, Row(t1, TRUE, "active"), Absent, None, FALSE),
   Database(TRUE, c1, Known, Row(t1, TRUE, "disabled"), Row(t1, FALSE, "active"), t1, FALSE),
   Database(TRUE, c1, Known, Row(t1, TRUE, "active"), Row(t2, FALSE, "active"), t2, TRUE),
   Database(TRUE, None, Known, Row(t1, FALSE, "active"), Row(t1, FALSE, "disabled"), None, TRUE)}

MCRequests ==
  [kind : {"claim", "release", "catalog"}, who : {c1, c2}] \union
  [kind : {"state"}, who : {c1}, tenant : {t1}, identity : Identities,
   status : {"active"}, roles : {{r1}}] \union
  [kind : {"state"}, who : {c1}, tenant : {t1}, identity : {i1}, status : {"disabled"}, roles : {{r1}}] \union
  [kind : {"create"}, who : {c2}, tenant : {t1}, scoped : BOOLEAN, user : {u1}, roles : {{r1}}] \union
  [kind : {"patch"}, who : {c2}, row : {m1}, status : {"active"}, roles : {{}}] \union
  [kind : {"patch"}, who : {c2}, row : {m1}, status : {"disabled"}, roles : {{r1}}] \union
  [kind : {"user"}, identity : {i1, i2}] \union
  [kind : {"resolve"}, identity : {i1}, ext : BOOLEAN, explicit : {t1, None}, bound : {None}] \union
  [kind : {"resolve"}, identity : {i2}, ext : {FALSE}, explicit : {None}, bound : {t2}] \union
  [kind : {"resolve"}, identity : {i1}, ext : {TRUE}, explicit : {None}, bound : {t1}]
=============================================================================
