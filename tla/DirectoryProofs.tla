--------------------------- MODULE DirectoryProofs ---------------------------
(***************************************************************************)
(* Proofs about Directory for any number of threads, callers, identities,   *)
(* tenants and rows, any requests and any database the service made.        *)
(***************************************************************************)
EXTENDS Directory, FiniteSetTheorems, TLAPS

USE NullAssumption

\* A further row of users or memberships: the first argument of Fresh is what
\* there is in all, the second what is in use.
LEMMA FreshId ==
  ASSUME NEW ids, NEW taken \in SUBSET ids, ids # taken
  PROVE  Fresh(ids, taken) \in ids /\ Fresh(ids, taken) \notin taken
  BY DEF Fresh

\* The fields of a request, by its kind.
LEMMA RequestFields ==
  ASSUME NEW req \in Requests
  PROVE  /\ req.kind \in {"claim", "release", "catalog", "state", "create", "patch", "user", "resolve"}
         /\ req.kind \notin {"user", "resolve"} => req.who \in Callers
         /\ req.kind = "state" =>
              req.tenant \in Tenants /\ req.identity \in Identities /\ req.status \in {"active", "disabled"}
              /\ req.roles \in SUBSET Roles
         /\ req.kind = "create" =>
              /\ req.tenant \in Tenants /\ req.scoped \in BOOLEAN /\ req.user \in Users
              /\ req.roles \in SUBSET Roles
         /\ req.kind = "patch" =>
              req.row \in Rows /\ req.status \in {"active", "disabled"} /\ req.roles \in SUBSET Roles
         /\ req.kind \in {"user", "resolve"} => req.identity \in Identities
         /\ req.kind = "resolve" =>
              /\ req.ext \in BOOLEAN /\ req.explicit \in Tenants \union {None}
              /\ req.bound \in Tenants \union {None}
<1>1. req \in Write \union Lookup
  BY RequestsAssumption
<1>2. CASE req \in Write
  BY <1>2 DEF Write
<1>3. CASE req \in Lookup
  BY <1>3 DEF Lookup
<1> QED
  BY <1>1, <1>2, <1>3

\* Facts of a database: an active tenant, an active row, a role linked to a row.
LEMMA ActiveIsFact ==
  ASSUME NEW ts, NEW ms, NEW t \in Tenants, ts[t] = "active"
  PROVE  <<"active", t>> \in Facts(ts, ms)
  BY DEF Facts

LEMMA MemberIsFact ==
  ASSUME NEW ts, NEW ms, NEW m \in Rows, NEW u \in Users, NEW t \in Tenants,
         ms[m].status = "active", ms[m].user = u, ms[m].tenant = t
  PROVE  <<"member", m, u, t>> \in Facts(ts, ms)
  BY DEF Facts

LEMMA LinkIsFact ==
  ASSUME NEW ts, NEW ms, NEW m \in Rows, NEW r \in Roles, r \in ms[m].roles
  PROVE  <<"linked", m, r>> \in Facts(ts, ms)
  BY DEF Facts

\* A worker that takes notice keeps everything but its history, which grows.
LEMMA NoticesFields ==
  ASSUME NEW k, NEW ts, NEW ms, NEW mg, Placed(k), NEW n, n = Notices(k, ts, ms, mg)
  PROVE  /\ Placed(n)
         /\ n.pc = k.pc /\ n.req = k.req /\ n.user = k.user /\ n.tenant = k.tenant
         /\ n.rows = k.rows /\ n.roles = k.roles /\ n.outcome = k.outcome
         /\ k.was \subseteq n.was /\ (k.may => n.may) /\ (k.held => n.held)
         /\ k.pc = "idle" => n = k
<1>1. CASE k.pc = "idle" \/ k.req.kind = "user"
  BY <1>1 DEF Notices
<1>2. CASE ~ (k.pc = "idle" \/ k.req.kind = "user") /\ k.req.kind = "resolve"
  <2>1. n = [k EXCEPT !.was = k.was \union Facts(ts, ms)]
    BY <1>2 DEF Notices
  <2>2. n = [pc |-> k.pc, req |-> k.req, user |-> k.user, tenant |-> k.tenant,
             rows |-> k.rows, roles |-> k.roles,
             was |-> k.was \union Facts(ts, ms), may |-> k.may, held |-> k.held, outcome |-> k.outcome]
    BY <2>1 DEF Placed
  <2> QED
    BY <1>2, <2>2 DEF Placed
<1>3. CASE ~ (k.pc = "idle" \/ k.req.kind = "user") /\ k.req.kind # "resolve"
  <2>1. n = [k EXCEPT !.may = k.may \/ mg \in {None, k.req.who}, !.held = k.held \/ mg = k.req.who]
    BY <1>3 DEF Notices
  <2>2. PICK may, held : /\ may = (k.may \/ mg \in {None, k.req.who})
                         /\ held = (k.held \/ mg = k.req.who)
    OBVIOUS
  <2>3. n = [pc |-> k.pc, req |-> k.req, user |-> k.user, tenant |-> k.tenant,
             rows |-> k.rows, roles |-> k.roles,
             was |-> k.was, may |-> may, held |-> held, outcome |-> k.outcome]
    BY <2>1, <2>2 DEF Placed
  <2>4. may \in BOOLEAN /\ held \in BOOLEAN /\ (k.may => may) /\ (k.held => held)
    BY <2>2 DEF Placed
  <2> QED
    BY <1>3, <2>3, <2>4 DEF Placed
<1> QED
  BY <1>1, <1>2, <1>3

\* What an answer rests on stays known.
LEMMA GroundedGrows ==
  ASSUME NEW was, NEW was2, was \subseteq was2, NEW user, NEW tenant, NEW roles,
         Grounded(was, user, tenant, roles)
  PROVE  Grounded(was2, user, tenant, roles)
  BY DEF Grounded, ActiveRow

\* Whoever takes notice has noticed.
LEMMA NoticesWatch ==
  ASSUME NEW k, NEW ts, NEW ms, NEW mg, Placed(k), NEW n, n = Notices(k, ts, ms, mg)
  PROVE  Watching(n, ts, ms, mg)
<1>1. CASE k.pc = "idle" \/ k.req.kind = "user"
  BY <1>1 DEF Notices, Watching
<1>2. CASE ~ (k.pc = "idle" \/ k.req.kind = "user") /\ k.req.kind = "resolve"
  <2>1. n = [k EXCEPT !.was = k.was \union Facts(ts, ms)]
    BY <1>2 DEF Notices
  <2>2. n.was = k.was \union Facts(ts, ms) /\ n.req = k.req
    BY <2>1 DEF Placed
  <2> QED
    BY <1>2, <2>2 DEF Watching
<1>3. CASE ~ (k.pc = "idle" \/ k.req.kind = "user") /\ k.req.kind # "resolve"
  <2>1. n = [k EXCEPT !.may = k.may \/ mg \in {None, k.req.who}, !.held = k.held \/ mg = k.req.who]
    BY <1>3 DEF Notices
  <2>2. n.may = (k.may \/ mg \in {None, k.req.who}) /\ n.held = (k.held \/ mg = k.req.who)
        /\ n.req = k.req
    BY <2>1 DEF Placed
  <2> QED
    BY <1>3, <2>2 DEF Watching
<1> QED
  BY <1>1, <1>2, <1>3

\* What others do leaves a worker as it should be: identities keep their users
\* and rows what they are bound to, and it takes notice.
LEMMA WorkerKept ==
  ASSUME NEW k, NEW ids, NEW ids2, NEW ts, NEW ts2, NEW ms, NEW ms2, NEW mg, NEW mg2,
         WorkerOK(k, ids, ts, ms, mg),
         \A i \in Identities : ids[i] # None => ids2[i] = ids[i],
         \A m \in Rows : ms[m] # Absent => ms2[m] # Absent /\ ms2[m].scoped = ms[m].scoped,
         NEW n, n = Notices(k, ts2, ms2, mg2)
  PROVE  WorkerOK(n, ids2, ts2, ms2, mg2)
<1>1. Placed(k)
  BY DEF WorkerOK
<1>2. /\ Placed(n)
      /\ n.pc = k.pc /\ n.req = k.req /\ n.user = k.user /\ n.tenant = k.tenant
      /\ n.rows = k.rows /\ n.roles = k.roles /\ n.outcome = k.outcome
      /\ k.was \subseteq n.was /\ (k.may => n.may)
  BY <1>1, NoticesFields
<1>3. Watching(n, ts2, ms2, mg2)
  BY <1>1, NoticesWatch
<1>4. UserFound(n, ids2)
  <2> SUFFICES ASSUME \/ k.pc \in {"tenant", "single", "sole", "member", "wide", "perms", "links"}
                      \/ k.outcome \in {"user", "context"}
               PROVE  k.user \in Users /\ k.user = ids2[k.req.identity]
    BY <1>2 DEF UserFound
  <2>1. k.user \in Users /\ k.user = ids[k.req.identity]
    BY DEF WorkerOK, UserFound
  <2>2. k.req.identity \in Identities
    <3>1. k.req \in Requests /\ k.req.kind \in {"user", "resolve"}
      BY <1>1 DEF Placed
    <3> QED
      BY <3>1, RequestFields
  <2> QED
    BY <2>1, <2>2
<1>5. Evidence(n)
  <2>1. Evidence(k)
    BY DEF WorkerOK
  <2>2. ASSUME k.pc \in {"perms", "links"}
        PROVE  \E m \in Rows : ActiveRow(n.was, m, n.user, n.tenant)
    BY <1>2, <2>1, <2>2 DEF Evidence, ActiveRow
  <2>3. ASSUME k.pc = "links"
        PROVE  \A m \in n.rows : ActiveRow(n.was, m, n.user, n.tenant)
    BY <1>2, <2>1, <2>3 DEF Evidence, ActiveRow
  <2>4. ASSUME k.outcome = "context"
        PROVE  Grounded(n.was, n.user, n.tenant, n.roles)
    <3>1. Grounded(k.was, k.user, k.tenant, k.roles)
      BY <2>1, <2>4 DEF Evidence
    <3>2. Grounded(n.was, k.user, k.tenant, k.roles)
      BY <1>2, <3>1, GroundedGrows
    <3> QED
      BY <1>2, <3>2
  <2> QED
    BY <1>2, <2>1, <2>2, <2>3, <2>4 DEF Evidence
<1>6. Guarded(n, ms2)
  <2>1. Guarded(k, ms)
    BY DEF WorkerOK
  <2>2. CASE k.pc # "idle" /\ k.req.kind = "patch"
    <3>1. k.req.row \in Rows
      BY <1>1, <2>2, RequestFields DEF Placed
    <3> QED
      BY <1>2, <2>1, <2>2, <3>1 DEF Guarded
  <2>3. CASE ~ (k.pc # "idle" /\ k.req.kind = "patch")
    BY <1>2, <2>1, <2>3 DEF Guarded
  <2> QED
    BY <2>2, <2>3
<1> QED
  BY <1>2, <1>3, <1>4, <1>5, <1>6 DEF WorkerOK

LEMMA WorkerStays ==
  ASSUME NEW k, NEW ids, NEW ids2, NEW ts, NEW ms, NEW mg, WorkerOK(k, ids, ts, ms, mg),
         \A i \in Identities : ids[i] # None => ids2[i] = ids[i]
  PROVE  WorkerOK(k, ids2, ts, ms, mg)
<1>1. UserFound(k, ids2)
  <2> SUFFICES ASSUME \/ k.pc \in {"tenant", "single", "sole", "member", "wide", "perms", "links"}
                      \/ k.outcome \in {"user", "context"}
               PROVE  k.user \in Users /\ k.user = ids2[k.req.identity]
    BY DEF UserFound
  <2>1. k.user \in Users /\ k.user = ids[k.req.identity]
    BY DEF WorkerOK, UserFound
  <2>2. k.req \in Requests /\ k.req.kind \in {"user", "resolve"}
    BY DEF WorkerOK, Placed
  <2>3. k.req.identity \in Identities
    BY <2>2, RequestFields
  <2> QED
    BY <2>1, <2>3
<1> QED
  BY <1>1 DEF WorkerOK

(***************************************************************************)
(* The forms a step takes.                                                 *)
(***************************************************************************)

\* A worker takes a step that the others notice.
LEMMA NoticedStep ==
  ASSUME DirectoryInv, TablesOK',
         \A i \in Identities : identities[i] # None => identities'[i] = identities[i],
         \A m \in Rows : members[m] # Absent =>
           members'[m] # Absent /\ members'[m].scoped = members[m].scoped,
         NEW w \in Workers, NEW k, workers' = Noticing(Set(w, k), tenants', members', manager'),
         NEW n, n = Notices(k, tenants', members', manager'),
         WorkerOK(n, identities', tenants', members', manager'),
         app => app', n.pc = "claim" => app'
  PROVE  DirectoryInv'
<1>1. workers' = [v \in Workers |-> workers'[v]]
  BY DEF Noticing
<1>2. ASSUME NEW v \in Workers
      PROVE  /\ WorkerOK(workers'[v], identities', tenants', members', manager')
             /\ workers'[v].pc = "claim" => app'
  <2>1. WorkerOK(workers[v], identities, tenants, members, manager)
    BY DEF DirectoryInv
  <2>2. CASE v = w
    <3>1. Set(w, k)[v] = k
      BY <2>2 DEF Set, DirectoryInv
    <3>2. workers'[v] = n
      BY <3>1 DEF Noticing
    <3> QED
      BY <3>2
  <2>3. CASE v # w
    <3>1. Set(w, k)[v] = workers[v]
      BY <2>3 DEF Set, DirectoryInv
    <3>2. workers'[v] = Notices(workers[v], tenants', members', manager')
      BY <3>1 DEF Noticing
    <3>3. WorkerOK(workers'[v], identities', tenants', members', manager')
      BY <2>1, <3>2, WorkerKept
    <3>4. workers'[v].pc = workers[v].pc
      BY <2>1, <3>2, NoticesFields DEF WorkerOK
    <3>5. workers[v].pc = "claim" => app
      BY DEF DirectoryInv
    <3> QED
      BY <3>3, <3>4, <3>5
  <2> QED
    BY <2>2, <2>3
<1> QED
  BY <1>1, <1>2 DEF DirectoryInv

\* A worker takes a step that nobody notices.
LEMMA QuietStep ==
  ASSUME DirectoryInv, TablesOK', UNCHANGED <<tenants, members, manager>>,
         \A i \in Identities : identities[i] # None => identities'[i] = identities[i],
         NEW w \in Workers, NEW k, workers' = Set(w, k),
         WorkerOK(k, identities', tenants, members, manager),
         app => app', k.pc = "claim" => app'
  PROVE  DirectoryInv'
<1>1. workers' = [v \in Workers |-> workers'[v]]
  BY DEF Set, DirectoryInv
<1>2. ASSUME NEW v \in Workers
      PROVE  /\ WorkerOK(workers'[v], identities', tenants', members', manager')
             /\ workers'[v].pc = "claim" => app'
  <2>1. WorkerOK(workers[v], identities, tenants, members, manager)
    BY DEF DirectoryInv
  <2>2. CASE v = w
    <3>1. workers'[v] = k
      BY <2>2 DEF Set, DirectoryInv
    <3> QED
      BY <3>1
  <2>3. CASE v # w
    <3>1. workers'[v] = workers[v]
      BY <2>3 DEF Set, DirectoryInv
    <3>2. WorkerOK(workers[v], identities', tenants, members, manager)
      BY <2>1, WorkerStays
    <3>3. workers[v].pc = "claim" => app
      BY DEF DirectoryInv
    <3> QED
      BY <3>1, <3>2, <3>3
  <2> QED
    BY <2>2, <2>3
<1> QED
  BY <1>1, <1>2 DEF DirectoryInv

\* The tables do not change.
LEMMA SameTables ==
  ASSUME DirectoryInv, UNCHANGED <<db, auto>>
  PROVE  TablesOK'
  BY DEF DirectoryInv, TablesOK, db

\* A worker that has answered something else than a user or a context is fine.
LEMMA EndedWorker ==
  ASSUME NEW k, Placed(k), k.pc = "idle", k.outcome \notin {"user", "context"},
         NEW ids, NEW ts, NEW ms, NEW mg
  PROVE  WorkerOK(k, ids, ts, ms, mg)
  BY DEF WorkerOK, UserFound, Evidence, Watching, Guarded

\* A request ends with an outcome of its own.
LEMMA EndStep ==
  ASSUME DirectoryInv, UNCHANGED <<db, auto>>, NEW w \in Workers,
         NEW o, o \notin {"user", "context"}, End(w, o)
  PROVE  DirectoryInv'
<1>1. PICK k : k = [workers[w] EXCEPT !.pc = "idle", !.outcome = o, !.was = {}, !.user = None,
                                      !.tenant = None, !.rows = {}, !.roles = {}]
  OBVIOUS
<1>2. Placed(workers[w])
  BY DEF DirectoryInv, WorkerOK
<1>3. k = [pc |-> "idle", req |-> workers[w].req, user |-> None, tenant |-> None,
           rows |-> {}, roles |-> {},
           was |-> {}, may |-> workers[w].may, held |-> workers[w].held, outcome |-> o]
  BY <1>1, <1>2 DEF Placed
<1>4. Placed(k) /\ k.pc = "idle" /\ k.outcome = o
  BY <1>2, <1>3 DEF Placed
<1>5. WorkerOK(k, identities', tenants, members, manager)
  BY <1>4, EndedWorker
<1>6. TablesOK' /\ UNCHANGED <<app, identities, tenants, members, manager>>
  BY SameTables DEF db
<1> QED
  BY <1>1, <1>4, <1>5, <1>6, QuietStep DEF End

\* A write ends.
LEMMA DoneStep ==
  ASSUME DirectoryInv, TablesOK',
         \A i \in Identities : identities[i] # None => identities'[i] = identities[i],
         \A m \in Rows : members[m] # Absent =>
           members'[m] # Absent /\ members'[m].scoped = members[m].scoped,
         app => app',
         \E w \in Workers, o \in {"written", "released"} :
           workers' = Noticing(Set(w, [workers[w] EXCEPT !.pc = "idle", !.outcome = o]),
                               tenants', members', manager')
  PROVE  DirectoryInv'
<1> PICK w \in Workers, o \in {"written", "released"} :
      workers' = Noticing(Set(w, [workers[w] EXCEPT !.pc = "idle", !.outcome = o]),
                          tenants', members', manager')
  OBVIOUS
<1>1. PICK k : k = [workers[w] EXCEPT !.pc = "idle", !.outcome = o]
  OBVIOUS
<1>2. Placed(workers[w])
  BY DEF DirectoryInv, WorkerOK
<1>3. k = [pc |-> "idle", req |-> workers[w].req, user |-> workers[w].user,
           tenant |-> workers[w].tenant,
           rows |-> workers[w].rows, roles |-> workers[w].roles, was |-> workers[w].was,
           may |-> workers[w].may, held |-> workers[w].held, outcome |-> o]
  BY <1>1, <1>2 DEF Placed
<1>4. Placed(k) /\ k.pc = "idle" /\ k.outcome = o
  BY <1>2, <1>3 DEF Placed
<1>5. WorkerOK(k, identities', tenants', members', manager')
  BY <1>4, EndedWorker
<1>6. k = Notices(k, tenants', members', manager')
  BY <1>4 DEF Notices
<1> QED
  BY <1>1, <1>4, <1>5, <1>6, NoticedStep

\* A worker goes on, with what it has found and noticed.
LEMMA GoStep ==
  ASSUME DirectoryInv, UNCHANGED <<db, auto>>, NEW w \in Workers, workers[w].pc # "idle",
         NEW p, Go(w, p), p # "idle",
         NEW n, n = [pc |-> p, req |-> workers[w].req, user |-> workers[w].user,
                     tenant |-> workers[w].tenant,
                     rows |-> workers[w].rows, roles |-> workers[w].roles,
                     was |-> workers[w].was, may |-> workers[w].may, held |-> workers[w].held,
                     outcome |-> workers[w].outcome],
         Placed(n), UserFound(n, identities), Evidence(n), Guarded(n, members), p = "claim" => app
  PROVE  DirectoryInv'
<1>1. WorkerOK(workers[w], identities, tenants, members, manager)
  BY DEF DirectoryInv
<1>2. n = [workers[w] EXCEPT !.pc = p]
  BY <1>1 DEF WorkerOK, Placed
<1>3. Watching(n, tenants, members, manager)
  <2>1. Watching(workers[w], tenants, members, manager)
    BY <1>1 DEF WorkerOK
  <2> QED
    BY <2>1 DEF Watching
<1>4. WorkerOK(n, identities, tenants, members, manager)
  BY <1>3 DEF WorkerOK
<1>5. TablesOK' /\ UNCHANGED <<app, identities, tenants, members, manager>>
  BY SameTables DEF db
<1> QED
  BY <1>2, <1>4, <1>5, QuietStep DEF Go

(***************************************************************************)
(* The actions.                                                            *)
(***************************************************************************)

LEMMA InitInv == Init => DirectoryInv
<1> SUFFICES ASSUME Init PROVE DirectoryInv
  OBVIOUS
<1>1. PICK s \in Starts :
        /\ app = s.app /\ manager = s.manager /\ identities = s.identities
        /\ members = s.members /\ mapping = s.mapping /\ auto = s.auto
        /\ users = {s.identities[i] : i \in Identities} \ {None}
  BY DEF Init
<1>2. tenants = [t \in Tenants |-> "active"] /\ workers = [w \in Workers |-> Idle]
  BY DEF Init
<1>3. TablesOK
  BY <1>1, <1>2, StartsAssumption DEF TablesOK
<1>4. Placed(Idle) /\ Idle.pc = "idle" /\ Idle.outcome = "none"
  BY DEF Placed, Idle
<1>5. WorkerOK(Idle, identities, tenants, members, manager)
  BY <1>4, EndedWorker
<1> QED
  BY <1>2, <1>3, <1>4, <1>5 DEF DirectoryInv

\* A request begins, and has noticed what holds.
LEMMA BeginInv ==
  ASSUME DirectoryInv, NEW w \in Workers, NEW req \in Requests, Begin(w, req)
  PROVE  DirectoryInv'
<1>1. PICK p : p = IF req.kind = "create" /\ ~ req.scoped THEN "write"
                   ELSE [resolve |-> "app", user |-> "upsert", claim |-> "app", release |-> "app",
                         catalog |-> "app", state |-> "app", create |-> "app",
                         patch |-> "row"][req.kind]
  OBVIOUS
<1>2. /\ req.kind \in {"resolve", "claim", "release", "catalog", "state"} => p = "app"
      /\ req.kind = "user" => p = "upsert"
      /\ req.kind = "patch" => p = "row"
      /\ req.kind = "create" => p = IF req.scoped THEN "app" ELSE "write"
  BY <1>1
<1>3. PICK k : k = [Idle EXCEPT !.pc = p, !.req = req]
  OBVIOUS
<1>4. k = [pc |-> p, req |-> req, user |-> None, tenant |-> None, rows |-> {}, roles |-> {},
           was |-> {}, may |-> FALSE, held |-> FALSE, outcome |-> "none"]
  BY <1>3 DEF Idle
<1>5. Placed(k)
  BY <1>2, <1>4, RequestFields DEF Placed
<1>6. PICK n : n = Notices(k, tenants, members, manager)
  OBVIOUS
<1>7. workers' = Set(w, n)
  BY <1>1, <1>3, <1>6 DEF Begin
<1>8. /\ Placed(n) /\ n.pc = p /\ n.req = req /\ n.user = None /\ n.tenant = None
      /\ n.outcome = "none"
  BY <1>4, <1>5, <1>6, NoticesFields
<1>9. Watching(n, tenants, members, manager)
  BY <1>5, <1>6, NoticesWatch
<1>10. p \in {"app", "upsert", "row", "write"} /\ (p = "write" => req.kind = "create" /\ ~ req.scoped)
  BY <1>2, RequestFields
<1>11. UserFound(n, identities) /\ Evidence(n)
  BY <1>8, <1>10 DEF UserFound, Evidence
<1>12. Guarded(n, members)
  <2>1. req.kind = "patch" => members[req.row] # Absent
    BY DEF Begin
  <2>2. p = "app" /\ req.kind = "create" => req.scoped
    BY <1>2
  <2> QED
    BY <1>8, <1>10, <2>1, <2>2 DEF Guarded
<1>13. TablesOK' /\ UNCHANGED <<app, identities, tenants, members, manager>>
  BY SameTables DEF Begin, db
<1>14. WorkerOK(n, identities', tenants, members, manager)
  BY <1>8, <1>9, <1>11, <1>12, <1>13 DEF WorkerOK
<1> QED
  BY <1>7, <1>8, <1>10, <1>13, <1>14, QuietStep

LEMMA SwitchTenantInv ==
  ASSUME DirectoryInv, NEW t \in Tenants, SwitchTenant(t)
  PROVE  DirectoryInv'
<1>1. TablesOK'
  BY DEF DirectoryInv, TablesOK, SwitchTenant
<1>2. UNCHANGED <<app, identities, members, manager>>
  BY DEF SwitchTenant
<1>3. ASSUME NEW v \in Workers
      PROVE  /\ WorkerOK(workers'[v], identities', tenants', members', manager')
             /\ workers'[v].pc = "claim" => app'
  <2>1. WorkerOK(workers[v], identities, tenants, members, manager) /\ (workers[v].pc = "claim" => app)
    BY DEF DirectoryInv
  <2>2. workers'[v] = Notices(workers[v], tenants', members', manager')
    BY <1>2 DEF SwitchTenant, Noticing
  <2>3. workers'[v].pc = workers[v].pc
    BY <2>1, <2>2, NoticesFields DEF WorkerOK
  <2>4. WorkerOK(workers'[v], identities', tenants', members', manager')
    BY <1>2, <2>1, <2>2, WorkerKept
  <2> QED
    BY <1>2, <2>1, <2>3, <2>4
<1>4. workers' = [v \in Workers |-> workers'[v]]
  BY DEF SwitchTenant, Noticing
<1> QED
  BY <1>1, <1>3, <1>4 DEF DirectoryInv

LEMMA MapTenantInv ==
  ASSUME DirectoryInv, NEW t \in Tenants, MapTenant(t)
  PROVE  DirectoryInv'
<1>1. TablesOK'
  BY DEF DirectoryInv, TablesOK, MapTenant
<1> QED
  BY <1>1 DEF DirectoryInv, MapTenant

\* The guard: whoever may go on to write has been seen to.
LEMMA FindAppInv ==
  ASSUME DirectoryInv, NEW w \in Workers, FindApp(w)
  PROVE  DirectoryInv'
<1> DEFINE k == workers[w]
           To(p) == [pc |-> p, req |-> k.req, user |-> k.user, tenant |-> k.tenant,
                     rows |-> k.rows, roles |-> k.roles,
                     was |-> k.was, may |-> k.may, held |-> k.held, outcome |-> k.outcome]
<1>1. k.pc = "app" /\ UNCHANGED <<db, auto>>
  BY DEF FindApp
<1>2. WorkerOK(k, identities, tenants, members, manager)
  BY DEF DirectoryInv
<1>3. Placed(k) /\ k.req \in Requests /\ k.outcome = "none"
  BY <1>1, <1>2 DEF WorkerOK, Placed
<1>4. CASE \E o \in {"unknown", "claimed", "conflict", "forbidden"} : End(w, o)
  BY <1>1, <1>4, EndStep
<1>5. CASE k.req.kind = "resolve" /\ Go(w, "user")
  <2>1. Placed(To("user"))
    BY <1>3, <1>5 DEF Placed
  <2>2. UserFound(To("user"), identities) /\ Evidence(To("user")) /\ Guarded(To("user"), members)
    BY <1>3, <1>5 DEF UserFound, Evidence, Guarded
  <2> QED
    BY <1>1, <1>5, <2>1, <2>2, GoStep
<1>6. CASE k.req.kind = "release" /\ Go(w, "release")
  <2>1. Placed(To("release"))
    BY <1>3, <1>6 DEF Placed
  <2>2. /\ UserFound(To("release"), identities) /\ Evidence(To("release"))
        /\ Guarded(To("release"), members)
    BY <1>3, <1>6 DEF UserFound, Evidence, Guarded
  <2> QED
    BY <1>1, <1>6, <2>1, <2>2, GoStep
<1>7. CASE app /\ k.req.kind = "claim" /\ Go(w, "claim")
  <2>1. Placed(To("claim"))
    BY <1>3, <1>7 DEF Placed
  <2>2. UserFound(To("claim"), identities) /\ Evidence(To("claim")) /\ Guarded(To("claim"), members)
    BY <1>3, <1>7 DEF UserFound, Evidence, Guarded
  <2> QED
    BY <1>1, <1>7, <2>1, <2>2, GoStep
<1>8. CASE /\ k.req.kind \in {"catalog", "state", "create", "patch"} /\ Go(w, "write")
           /\ app => Allows(k.req)
           /\ app \/ k.req.kind = "catalog"
  <2>1. Placed(To("write"))
    BY <1>3, <1>8 DEF Placed
  <2>2. UserFound(To("write"), identities) /\ Evidence(To("write"))
    BY <1>3 DEF UserFound, Evidence
  <2>3. manager \in {None, k.req.who}
    <3>1. CASE app
      BY <1>8, <3>1 DEF Allows
    <3>2. CASE ~ app
      BY <3>2 DEF DirectoryInv, TablesOK
    <3> QED
      BY <3>1, <3>2
  <2>4. k.may
    BY <1>1, <1>2, <1>8, <2>3 DEF WorkerOK, Watching
  <2>5. Guarded(To("write"), members)
    BY <1>1, <1>2, <2>4 DEF WorkerOK, Guarded
  <2> QED
    BY <1>1, <1>8, <2>1, <2>2, <2>5, GoStep
<1> QED
  BY <1>4, <1>5, <1>6, <1>7, <1>8 DEF FindApp

LEMMA FindRowInv ==
  ASSUME DirectoryInv, NEW w \in Workers, FindRow(w)
  PROVE  DirectoryInv'
<1> DEFINE k == workers[w]
           To(p) == [pc |-> p, req |-> k.req, user |-> k.user, tenant |-> k.tenant,
                     rows |-> k.rows, roles |-> k.roles,
                     was |-> k.was, may |-> k.may, held |-> k.held, outcome |-> k.outcome]
<1>1. k.pc = "row" /\ UNCHANGED <<db, auto>>
  BY DEF FindRow
<1>2. WorkerOK(k, identities, tenants, members, manager)
  BY DEF DirectoryInv
<1>3. Placed(k) /\ k.req \in Requests /\ k.outcome = "none" /\ k.req.kind = "patch"
  BY <1>1, <1>2 DEF WorkerOK, Placed
<1>4. ASSUME NEW p \in {"app", "write"}, Go(w, p), p = "write" => ~ members[k.req.row].scoped
      PROVE  DirectoryInv'
  <2>1. Placed(To(p))
    BY <1>3, <1>4 DEF Placed
  <2>2. UserFound(To(p), identities) /\ Evidence(To(p))
    BY <1>3, <1>4 DEF UserFound, Evidence
  <2>3. Guarded(To(p), members)
    BY <1>1, <1>2, <1>3, <1>4 DEF WorkerOK, Guarded
  <2> QED
    BY <1>1, <1>4, <2>1, <2>2, <2>3, GoStep
<1>5. CASE members[k.req.row].scoped
  BY <1>4, <1>5 DEF FindRow
<1>6. CASE ~ members[k.req.row].scoped
  BY <1>4, <1>6 DEF FindRow
<1> QED
  BY <1>5, <1>6

\* A claim is written where there is no manager.
LEMMA ClaimInv ==
  ASSUME DirectoryInv, NEW w \in Workers, Claim(w)
  PROVE  DirectoryInv'
<1>1. workers[w].pc = "claim"
  BY DEF Claim
<1>2. WorkerOK(workers[w], identities, tenants, members, manager)
  BY DEF DirectoryInv
<1>3. Placed(workers[w]) /\ workers[w].req \in Requests /\ workers[w].outcome = "none"
      /\ workers[w].req.kind = "claim"
  BY <1>1, <1>2 DEF WorkerOK, Placed
<1>4. UNCHANGED <<app, identities, users, tenants, mapping, members, auto>>
  BY DEF Claim
<1>5. workers[w].req.who \in Callers /\ app = TRUE
  BY <1>1, <1>3, RequestFields DEF DirectoryInv, TablesOK
<1>6. manager' \in Callers \union {None}
  BY <1>5 DEF Claim, DirectoryInv, TablesOK
<1>7. TablesOK'
  BY <1>4, <1>5, <1>6 DEF DirectoryInv, TablesOK
<1>8. PICK k : k = [workers[w] EXCEPT !.pc = "claimed"]
  OBVIOUS
<1>9. k = [pc |-> "claimed", req |-> workers[w].req, user |-> workers[w].user,
           tenant |-> workers[w].tenant,
           rows |-> workers[w].rows, roles |-> workers[w].roles, was |-> workers[w].was,
           may |-> workers[w].may, held |-> workers[w].held, outcome |-> "none"]
  BY <1>3, <1>8 DEF Placed
<1>10. Placed(k)
  BY <1>3, <1>9 DEF Placed
<1>11. PICK n : n = Notices(k, tenants', members', manager')
  OBVIOUS
<1>12. /\ Placed(n) /\ n.pc = "claimed" /\ n.req = workers[w].req /\ n.outcome = "none"
  BY <1>9, <1>10, <1>11, NoticesFields
<1>13. Watching(n, tenants', members', manager')
  BY <1>10, <1>11, NoticesWatch
<1>14. UserFound(n, identities') /\ Evidence(n) /\ Guarded(n, members')
  BY <1>3, <1>12 DEF UserFound, Evidence, Guarded
<1>15. WorkerOK(n, identities', tenants', members', manager')
  BY <1>12, <1>13, <1>14 DEF WorkerOK
<1>16. workers' = Noticing(Set(w, k), tenants', members', manager')
  BY <1>4, <1>8 DEF Claim
<1> QED
  BY <1>4, <1>7, <1>11, <1>12, <1>15, <1>16, NoticedStep

LEMMA ClaimedInv ==
  ASSUME DirectoryInv, NEW w \in Workers, Claimed(w)
  PROVE  DirectoryInv'
  BY EndStep DEF Claimed

LEMMA ReleaseInv ==
  ASSUME DirectoryInv, NEW w \in Workers, Release(w)
  PROVE  DirectoryInv'
<1>1. UNCHANGED <<app, identities, users, tenants, mapping, members, auto>> /\ manager' = None
  BY DEF Release
<1>2. TablesOK'
  BY <1>1 DEF DirectoryInv, TablesOK
<1>3. workers' = Noticing(Set(w, [workers[w] EXCEPT !.pc = "idle", !.outcome = "released"]),
                          tenants', members', manager')
  BY <1>1 DEF Release
<1> QED
  BY <1>1, <1>2, <1>3, DoneStep

\* An application that is created gets its creator as manager.
LEMMA WriteCatalogInv ==
  ASSUME DirectoryInv, NEW w \in Workers, WriteCatalog(w)
  PROVE  DirectoryInv'
<1>1. UNCHANGED <<identities, users, tenants, mapping, members, auto>> /\ app' = TRUE
  BY DEF WriteCatalog
<1>2. workers[w].req.who \in Callers
  <2>1. workers[w].req \in Requests /\ workers[w].req.kind = "catalog"
    BY DEF WriteCatalog, DirectoryInv, WorkerOK, Placed
  <2> QED
    BY <2>1, RequestFields
<1>3. manager' \in Callers \union {None}
  BY <1>2 DEF WriteCatalog, DirectoryInv, TablesOK
<1>4. TablesOK'
  BY <1>1, <1>3 DEF DirectoryInv, TablesOK
<1>5. workers' = Noticing(Set(w, [workers[w] EXCEPT !.pc = "idle", !.outcome = "written"]),
                          tenants', members', manager')
  BY <1>1 DEF WriteCatalog
<1> QED
  BY <1>1, <1>4, <1>5, DoneStep

\* The rows in use.
LEMMA FreshRow ==
  ASSUME Taken # Rows
  PROVE  Fresh(Rows, Taken) \in Rows /\ members[Fresh(Rows, Taken)] = Absent
<1>1. Taken \in SUBSET Rows
  BY DEF Taken
<1>2. Fresh(Rows, Taken) \in Rows /\ Fresh(Rows, Taken) \notin Taken
  BY <1>1, FreshId
<1> QED
  BY <1>2 DEF Taken

\* A tenant state keeps who is who, and what rows are bound to.
LEMMA WriteStateInv ==
  ASSUME DirectoryInv, NEW w \in Workers, WriteState(w)
  PROVE  DirectoryInv'
<1>1. PICK req : req = workers[w].req
  OBVIOUS
<1>2. req \in Requests /\ req.kind = "state"
  BY <1>1 DEF WriteState, DirectoryInv, WorkerOK, Placed
<1>3. req.tenant \in Tenants /\ req.identity \in Identities
      /\ req.status \in {"active", "disabled"} /\ req.roles \in SUBSET Roles
  BY <1>2, RequestFields
<1>4. PICK u : u = IF identities[req.identity] # None THEN identities[req.identity]
                   ELSE Fresh(Users, users)
  OBVIOUS
<1>5. PICK own : own = RowsOf(members, u, req.tenant, TRUE)
  OBVIOUS
<1>6. PICK here : here = {m \in Rows : members[m].tenant = req.tenant /\ members[m].scoped}
  OBVIOUS
<1>7. PICK row : row = [tenant |-> req.tenant, scoped |-> TRUE, user |-> u, status |-> req.status,
                        roles |-> req.roles]
  OBVIOUS
<1>8. UNCHANGED <<app, manager, tenants, mapping, auto>>
  BY DEF WriteState
<1>9. CASE End(w, "failed") /\ UNCHANGED <<identities, users, members>>
  BY <1>9, EndStep DEF WriteState, db
<1>10. CASE /\ u # None /\ (own = {} => Taken # Rows)
           /\ identities' = [identities EXCEPT ![req.identity] = u]
           /\ users' = users \union {u}
           /\ members' = [m \in Rows |->
                IF m \in own \/ (own = {} /\ m = Fresh(Rows, Taken)) THEN row
                ELSE IF m \in here THEN [members[m] EXCEPT !.status = "disabled"] ELSE members[m]]
           /\ workers' = Noticing(Set(w, [workers[w] EXCEPT !.pc = "idle", !.outcome = "written"]),
                                  tenants, members', manager)
  <2>1. users \in SUBSET Users
    BY DEF DirectoryInv, TablesOK
  <2>2. /\ u \in Users
        /\ identities[req.identity] # None => u = identities[req.identity]
        /\ identities[req.identity] = None => u \notin users
    <3>1. CASE identities[req.identity] # None
      BY <1>3, <1>4, <3>1 DEF DirectoryInv, TablesOK
    <3>2. CASE identities[req.identity] = None
      <4>1. u = Fresh(Users, users)
        BY <1>4, <3>2
      <4>2. Users # users
        BY <1>10, <4>1 DEF Fresh
      <4> QED
        BY <2>1, <3>2, <4>1, <4>2, FreshId
    <3> QED
      BY <3>1, <3>2
  <2>3. row \in Member
    BY <1>3, <1>7, <2>2 DEF Member
  <2>4. ASSUME NEW m \in Rows
        PROVE  /\ members'[m] \in Member \union {Absent}
               /\ members[m] # Absent => members'[m] # Absent /\ members'[m].scoped = members[m].scoped
    <3>1. members[m] \in Member \union {Absent}
      BY DEF DirectoryInv, TablesOK
    <3>2. row # Absent /\ row.scoped = TRUE
      BY <1>7, <2>2 DEF Absent
    <3>3. CASE m \in own
      BY <1>5, <1>10, <2>3, <3>2, <3>3 DEF RowsOf
    <3>4. CASE m \notin own /\ own = {} /\ m = Fresh(Rows, Taken)
      BY <1>10, <2>3, <3>4, FreshRow
    <3>5. CASE ~ (m \in own \/ (own = {} /\ m = Fresh(Rows, Taken))) /\ m \in here
      <4>1. members[m] \in Member
        BY <1>6, <3>1, <3>5 DEF Absent
      <4>2. members'[m] = [members[m] EXCEPT !.status = "disabled"]
        BY <1>10, <3>5
      <4>3. members'[m] \in Member /\ members'[m].scoped = members[m].scoped
        BY <4>1, <4>2 DEF Member
      <4>4. members'[m] # Absent
        BY <4>3 DEF Member, Absent
      <4> QED
        BY <4>3, <4>4
    <3>6. CASE ~ (m \in own \/ (own = {} /\ m = Fresh(Rows, Taken))) /\ m \notin here
      BY <1>10, <3>1, <3>6
    <3> QED
      BY <3>3, <3>4, <3>5, <3>6
  <2>5. /\ identities' \in [Identities -> Users \union {None}]
        /\ users' = {identities'[i] : i \in Identities} \ {None}
        /\ \A i, j \in Identities : identities'[i] = identities'[j] /\ identities'[i] # None => i = j
        /\ \A i \in Identities : identities[i] # None => identities'[i] = identities[i]
    BY <1>3, <1>10, <2>2 DEF DirectoryInv, TablesOK
  <2>6. members' \in [Rows -> Member \union {Absent}]
    BY <1>10, <2>4
  <2>7. TablesOK'
    BY <1>10, <1>8, <2>5, <2>6 DEF DirectoryInv, TablesOK
  <2> QED
    BY <1>10, <1>8, <2>4, <2>5, <2>7, DoneStep
<1> QED
  BY <1>9, <1>1, <1>4, <1>5, <1>6, <1>7, <1>10 DEF WriteState

LEMMA WriteMembershipInv ==
  ASSUME DirectoryInv, NEW w \in Workers, WriteMembership(w)
  PROVE  DirectoryInv'
<1>1. PICK req : req = workers[w].req
  OBVIOUS
<1>2. req \in Requests /\ req.kind = "create"
  BY <1>1 DEF WriteMembership, DirectoryInv, WorkerOK, Placed
<1>3. /\ req.tenant \in Tenants /\ req.scoped \in BOOLEAN /\ req.user \in Users
      /\ req.roles \in SUBSET Roles
  BY <1>2, RequestFields
<1>4. PICK row : row = [tenant |-> req.tenant, scoped |-> req.scoped, user |-> req.user,
                        status |-> "active", roles |-> req.roles]
  OBVIOUS
<1>5. UNCHANGED <<app, manager, identities, users, tenants, mapping, auto>>
  BY DEF WriteMembership
<1>6. CASE End(w, "failed") /\ UNCHANGED members
  BY <1>5, <1>6, EndStep DEF db
<1>7. CASE /\ Taken # Rows
           /\ members' = [members EXCEPT ![Fresh(Rows, Taken)] = row]
           /\ workers' = Noticing(Set(w, [workers[w] EXCEPT !.pc = "idle", !.outcome = "written"]),
                                  tenants, members', manager)
  <2>1. row \in Member
    BY <1>3, <1>4 DEF Member
  <2>2. Fresh(Rows, Taken) \in Rows /\ members[Fresh(Rows, Taken)] = Absent
    BY <1>7, FreshRow
  <2>3. members' \in [Rows -> Member \union {Absent}]
    BY <1>7, <2>1 DEF DirectoryInv, TablesOK
  <2>4. \A m \in Rows : members[m] # Absent => members'[m] = members[m]
    BY <1>7, <2>2 DEF DirectoryInv, TablesOK
  <2>5. TablesOK'
    BY <1>5, <2>3 DEF DirectoryInv, TablesOK
  <2> QED
    BY <1>5, <1>7, <2>4, <2>5, DoneStep
<1> QED
  BY <1>1, <1>4, <1>6, <1>7 DEF WriteMembership

\* A patch is of a row that exists; the row stays bound to what it was bound to.
LEMMA PatchedRow ==
  ASSUME DirectoryInv, NEW w \in Workers, workers[w].pc # "idle", workers[w].req.kind = "patch",
         NEW req, req = workers[w].req
  PROVE  /\ req \in Requests /\ req.row \in Rows /\ req.status \in {"active", "disabled"}
         /\ req.roles \in SUBSET Roles /\ members[req.row] # Absent /\ members[req.row] \in Member
<1>1. req \in Requests /\ members[req.row] # Absent
  BY DEF DirectoryInv, WorkerOK, Placed, Guarded
<1>2. /\ req.row \in Rows /\ req.status \in {"active", "disabled"} /\ req.roles \in SUBSET Roles
  BY <1>1, RequestFields
<1> QED
  BY <1>1, <1>2 DEF DirectoryInv, TablesOK

LEMMA PatchStatusInv ==
  ASSUME DirectoryInv, NEW w \in Workers, PatchStatus(w)
  PROVE  DirectoryInv'
<1>1. PICK req : req = workers[w].req
  OBVIOUS
<1>2. workers[w].pc = "write" /\ req.kind = "patch"
  BY <1>1 DEF PatchStatus
<1>3. /\ req \in Requests /\ req.row \in Rows /\ req.status \in {"active", "disabled"}
      /\ members[req.row] # Absent /\ members[req.row] \in Member
  BY <1>1, <1>2, PatchedRow
<1>4. PICK row : row = [members[req.row] EXCEPT !.status = req.status]
  OBVIOUS
<1>5. row \in Member /\ row.scoped = members[req.row].scoped /\ row # Absent
  <2>1. row \in Member /\ row.scoped = members[req.row].scoped
    BY <1>3, <1>4 DEF Member
  <2> QED
    BY <2>1 DEF Member, Absent
<1>6. UNCHANGED <<app, manager, identities, users, tenants, mapping, auto>>
      /\ members' = [members EXCEPT ![req.row] = row]
  BY <1>1, <1>4 DEF PatchStatus
<1>7. members' \in [Rows -> Member \union {Absent}]
  BY <1>5, <1>6 DEF DirectoryInv, TablesOK
<1>8. TablesOK'
  BY <1>6, <1>7 DEF DirectoryInv, TablesOK
<1>9. \A m \in Rows : members[m] # Absent =>
        members'[m] # Absent /\ members'[m].scoped = members[m].scoped
  BY <1>3, <1>5, <1>6 DEF DirectoryInv, TablesOK
<1>10. WorkerOK(workers[w], identities, tenants, members, manager)
  BY DEF DirectoryInv
<1>11. PICK k : k = [workers[w] EXCEPT !.pc = "roles"]
  OBVIOUS
<1>12. k = [pc |-> "roles", req |-> req, user |-> workers[w].user,
            tenant |-> workers[w].tenant,
            rows |-> workers[w].rows, roles |-> workers[w].roles, was |-> workers[w].was,
            may |-> workers[w].may, held |-> workers[w].held, outcome |-> "none"]
  BY <1>1, <1>2, <1>10, <1>11 DEF WorkerOK, Placed
<1>13. Placed(k)
  BY <1>2, <1>3, <1>10, <1>12 DEF WorkerOK, Placed
<1>14. PICK n : n = Notices(k, tenants', members', manager')
  OBVIOUS
<1>15. /\ Placed(n) /\ n.pc = "roles" /\ n.req = req /\ n.outcome = "none"
       /\ (workers[w].may => n.may)
  BY <1>12, <1>13, <1>14, NoticesFields
<1>16. Watching(n, tenants', members', manager')
  BY <1>13, <1>14, NoticesWatch
<1>17. UserFound(n, identities') /\ Evidence(n)
  BY <1>15 DEF UserFound, Evidence
<1>18. Guarded(n, members')
  BY <1>1, <1>2, <1>3, <1>9, <1>10, <1>15 DEF WorkerOK, Guarded
<1>19. WorkerOK(n, identities', tenants', members', manager')
  BY <1>15, <1>16, <1>17, <1>18 DEF WorkerOK
<1>20. workers' = Noticing(Set(w, k), tenants', members', manager')
  BY <1>6, <1>11 DEF PatchStatus
<1> QED
  BY <1>6, <1>8, <1>9, <1>14, <1>15, <1>19, <1>20, NoticedStep

LEMMA PatchRolesInv ==
  ASSUME DirectoryInv, NEW w \in Workers, PatchRoles(w)
  PROVE  DirectoryInv'
<1>1. PICK req : req = workers[w].req
  OBVIOUS
<1>2. workers[w].pc = "roles" /\ req.kind = "patch"
  BY <1>1 DEF PatchRoles, DirectoryInv, WorkerOK, Placed
<1>3. /\ req.row \in Rows /\ req.roles \in SUBSET Roles
      /\ members[req.row] # Absent /\ members[req.row] \in Member
  BY <1>1, <1>2, PatchedRow
<1>4. PICK row : row = [members[req.row] EXCEPT !.roles = req.roles]
  OBVIOUS
<1>5. row \in Member /\ row.scoped = members[req.row].scoped /\ row # Absent
  <2>1. row \in Member /\ row.scoped = members[req.row].scoped
    BY <1>3, <1>4 DEF Member
  <2> QED
    BY <2>1 DEF Member, Absent
<1>6. UNCHANGED <<app, manager, identities, users, tenants, mapping, auto>>
      /\ members' = [members EXCEPT ![req.row] = row]
  BY <1>1, <1>4 DEF PatchRoles
<1>7. members' \in [Rows -> Member \union {Absent}]
  BY <1>5, <1>6 DEF DirectoryInv, TablesOK
<1>8. TablesOK'
  BY <1>6, <1>7 DEF DirectoryInv, TablesOK
<1>9. \A m \in Rows : members[m] # Absent =>
        members'[m] # Absent /\ members'[m].scoped = members[m].scoped
  BY <1>3, <1>5, <1>6 DEF DirectoryInv, TablesOK
<1>10. workers' = Noticing(Set(w, [workers[w] EXCEPT !.pc = "idle", !.outcome = "written"]),
                           tenants', members', manager')
  BY <1>6 DEF PatchRoles
<1> QED
  BY <1>6, <1>8, <1>9, <1>10, DoneStep

\* A lookup goes on with what it has just found, or ends with it.
LEMMA FoundStep ==
  ASSUME DirectoryInv, NEW w \in Workers, workers[w].pc # "idle", TablesOK',
         UNCHANGED <<app, manager, tenants, members>>,
         \A i \in Identities : identities[i] # None => identities'[i] = identities[i],
         NEW n, workers' = Set(w, n), n.pc # "claim", n.req = workers[w].req,
         n.was = workers[w].was, n.may = workers[w].may, n.held = workers[w].held,
         Placed(n), UserFound(n, identities'), Evidence(n), Guarded(n, members)
  PROVE  DirectoryInv'
<1>1. Watching(workers[w], tenants, members, manager)
  BY DEF DirectoryInv, WorkerOK
<1>2. Watching(n, tenants, members, manager)
  BY <1>1 DEF Watching
<1>3. WorkerOK(n, identities', tenants, members, manager)
  BY <1>2 DEF WorkerOK
<1> QED
  BY <1>3, QuietStep

\* A lookup has found, or made, the user of its identity.
LEMMA WithInv ==
  ASSUME DirectoryInv, TablesOK', NEW w \in Workers, workers[w].pc \in {"user", "upsert", "insert"},
         UNCHANGED <<app, manager, tenants, members>>,
         \A i \in Identities : identities[i] # None => identities'[i] = identities[i],
         NEW u \in Users, u = identities'[workers[w].req.identity], With(w, u)
  PROVE  DirectoryInv'
<1> PICK k : k = workers[w]
  OBVIOUS
<1>1. Placed(k) /\ k.req \in Requests /\ k.outcome = "none" /\ k.req.kind \in {"user", "resolve"}
  BY DEF DirectoryInv, WorkerOK, Placed
<1>2. CASE k.req.kind = "user"
  <2>1. PICK n : n = [k EXCEPT !.pc = "idle", !.user = u, !.outcome = "user"]
    OBVIOUS
  <2>2. n = [pc |-> "idle", req |-> k.req, user |-> u, tenant |-> k.tenant,
             rows |-> k.rows, roles |-> k.roles,
             was |-> k.was, may |-> k.may, held |-> k.held, outcome |-> "user"]
    BY <1>1, <2>1 DEF Placed
  <2>3. workers' = Set(w, n)
    BY <1>2, <2>1 DEF With
  <2>4. Placed(n)
    BY <1>1, <2>2 DEF Placed
  <2>5. UserFound(n, identities') /\ Evidence(n) /\ Guarded(n, members)
    BY <2>2 DEF UserFound, Evidence, Guarded
  <2>6. /\ n.pc # "claim" /\ n.req = workers[w].req /\ n.was = workers[w].was
        /\ n.may = workers[w].may /\ n.held = workers[w].held
    BY <2>2
  <2> QED
    BY <2>3, <2>4, <2>5, <2>6, FoundStep
<1>3. CASE k.req.kind = "resolve"
  <2>1. PICK n : n = [k EXCEPT !.pc = "tenant", !.user = u]
    OBVIOUS
  <2>2. n = [pc |-> "tenant", req |-> k.req, user |-> u, tenant |-> k.tenant,
             rows |-> k.rows, roles |-> k.roles,
             was |-> k.was, may |-> k.may, held |-> k.held, outcome |-> "none"]
    BY <1>1, <2>1 DEF Placed
  <2>3. workers' = Set(w, n)
    BY <1>3, <2>1 DEF With
  <2>4. Placed(n)
    BY <1>1, <1>3, <2>2 DEF Placed
  <2>5. UserFound(n, identities') /\ Evidence(n) /\ Guarded(n, members)
    BY <1>3, <2>2 DEF UserFound, Evidence, Guarded
  <2>6. /\ n.pc # "claim" /\ n.req = workers[w].req /\ n.was = workers[w].was
        /\ n.may = workers[w].may /\ n.held = workers[w].held
    BY <2>2
  <2> QED
    BY <2>3, <2>4, <2>5, <2>6, FoundStep
<1> QED
  BY <1>1, <1>2, <1>3

\* A lookup goes on to make the user.
LEMMA TowardsInsert ==
  ASSUME DirectoryInv, NEW w \in Workers, workers[w].pc \in {"user", "upsert"}, UNCHANGED <<db, auto>>,
         NEW p \in {"upsert", "insert"}, Go(w, p)
  PROVE  DirectoryInv'
<1> DEFINE k == workers[w]
<1>1. Placed(k) /\ k.req \in Requests /\ k.outcome = "none" /\ k.req.kind \in {"user", "resolve"}
  BY DEF DirectoryInv, WorkerOK, Placed
<1>2. PICK n : n = [pc |-> p, req |-> k.req, user |-> k.user, tenant |-> k.tenant,
                    rows |-> k.rows, roles |-> k.roles,
                    was |-> k.was, may |-> k.may, held |-> k.held, outcome |-> k.outcome]
  OBVIOUS
<1>3. Placed(n)
  BY <1>1, <1>2 DEF Placed
<1>4. UserFound(n, identities) /\ Evidence(n) /\ Guarded(n, members)
  BY <1>1, <1>2 DEF UserFound, Evidence, Guarded
<1> QED
  BY <1>2, <1>3, <1>4, GoStep

\* The identity of a lookup, and its user if it has one.
LEMMA IdentityUser ==
  ASSUME DirectoryInv, NEW w \in Workers, workers[w].pc \in {"user", "upsert", "insert"}
  PROVE  /\ workers[w].req.identity \in Identities
         /\ identities[workers[w].req.identity] \in Users \union {None}
<1>1. workers[w].req \in Requests /\ workers[w].req.kind \in {"user", "resolve"}
  BY DEF DirectoryInv, WorkerOK, Placed
<1>2. workers[w].req.identity \in Identities
  BY <1>1, RequestFields
<1> QED
  BY <1>2 DEF DirectoryInv, TablesOK

LEMMA FindUserInv ==
  ASSUME DirectoryInv, NEW w \in Workers, FindUser(w)
  PROVE  DirectoryInv'
<1>1. PICK u : u = identities[workers[w].req.identity]
  OBVIOUS
<1>2. workers[w].pc = "user" /\ UNCHANGED <<db, auto>>
  BY DEF FindUser
<1>3. u \in Users \union {None}
  BY <1>1, <1>2, IdentityUser
<1>4. TablesOK' /\ UNCHANGED <<app, manager, identities, tenants, members>>
  BY <1>2, SameTables DEF db
<1>5. CASE u # None /\ workers' = Set(w, [workers[w] EXCEPT !.pc = "tenant", !.user = u])
  <2>1. workers[w].req.kind = "resolve"
    BY <1>2 DEF DirectoryInv, WorkerOK, Placed
  <2>2. With(w, u)
    BY <1>5, <2>1 DEF With
  <2>3. u \in Users /\ u = identities'[workers[w].req.identity]
    BY <1>1, <1>3, <1>4, <1>5
  <2> QED
    BY <1>2, <1>4, <2>2, <2>3, WithInv
<1>6. CASE Go(w, "upsert")
  BY <1>2, <1>6, TowardsInsert
<1>7. CASE End(w, "denied")
  BY <1>2, <1>7, EndStep
<1> QED
  BY <1>1, <1>5, <1>6, <1>7 DEF FindUser

LEMMA UpsertInv ==
  ASSUME DirectoryInv, NEW w \in Workers, Upsert(w)
  PROVE  DirectoryInv'
<1>1. PICK u : u = identities[workers[w].req.identity]
  OBVIOUS
<1>2. workers[w].pc = "upsert" /\ UNCHANGED <<db, auto>>
  BY DEF Upsert
<1>3. u \in Users \union {None}
  BY <1>1, <1>2, IdentityUser
<1>4. TablesOK' /\ UNCHANGED <<app, manager, identities, tenants, members>>
  BY <1>2, SameTables DEF db
<1>5. CASE u # None
  <2>1. With(w, u)
    BY <1>1, <1>5 DEF Upsert
  <2>2. u \in Users /\ u = identities'[workers[w].req.identity]
    BY <1>1, <1>3, <1>4, <1>5
  <2> QED
    BY <1>2, <1>4, <2>1, <2>2, WithInv
<1>6. CASE u = None
  <2>1. Go(w, "insert")
    BY <1>1, <1>6 DEF Upsert
  <2> QED
    BY <1>2, <2>1, TowardsInsert
<1> QED
  BY <1>5, <1>6

\* User and identity are made together, or not at all.
LEMMA InsertInv ==
  ASSUME DirectoryInv, NEW w \in Workers, Insert(w)
  PROVE  DirectoryInv'
<1>1. PICK i : i = workers[w].req.identity
  OBVIOUS
<1>2. PICK u : u = Fresh(Users, users)
  OBVIOUS
<1>3. workers[w].pc = "insert" /\ UNCHANGED <<app, manager, tenants, mapping, members, auto>>
  BY DEF Insert
<1>4. CASE End(w, "failed") /\ UNCHANGED <<identities, users>>
  BY <1>3, <1>4, EndStep DEF db
<1>5. CASE /\ identities[i] = None /\ u # None /\ With(w, u)
           /\ users' = users \union {u} /\ identities' = [identities EXCEPT ![i] = u]
  <2>1. i \in Identities
    BY <1>1, <1>3, IdentityUser
  <2>2. users \in SUBSET Users /\ Users # users
    BY <1>2, <1>5 DEF Fresh, DirectoryInv, TablesOK
  <2>3. u \in Users /\ u \notin users
    BY <1>2, <2>2, FreshId
  <2>4. /\ identities' \in [Identities -> Users \union {None}]
        /\ users' = {identities'[j] : j \in Identities} \ {None}
        /\ \A j, h \in Identities : identities'[j] = identities'[h] /\ identities'[j] # None => j = h
        /\ \A j \in Identities : identities[j] # None => identities'[j] = identities[j]
        /\ u = identities'[i]
    BY <1>5, <2>1, <2>3 DEF DirectoryInv, TablesOK
  <2>5. TablesOK'
    BY <1>3, <2>4 DEF DirectoryInv, TablesOK
  <2> QED
    BY <1>1, <1>3, <1>5, <2>3, <2>4, <2>5, WithInv
<1> QED
  BY <1>1, <1>2, <1>4, <1>5 DEF Insert

\* What a context under way knows.
LEMMA Resolving ==
  ASSUME DirectoryInv, NEW w \in Workers, NEW k, k = workers[w],
         k.pc \in {"tenant", "single", "sole", "member", "wide", "perms", "links"}
  PROVE  /\ Placed(k) /\ k.req \in Requests /\ k.req.kind = "resolve" /\ k.outcome = "none"
         /\ k.user \in Users /\ k.user = identities[k.req.identity] /\ Evidence(k)
         /\ Facts(tenants, members) \subseteq k.was
  BY DEF DirectoryInv, WorkerOK, Placed, UserFound, Watching

\* The tenant of a context was active when it was read.
LEMMA InInv ==
  ASSUME DirectoryInv, UNCHANGED <<db, auto>>, NEW w \in Workers, workers[w].pc \in {"tenant", "sole"},
         NEW t \in Tenants, workers[w].req.explicit \in {None, t}, In(w, t)
  PROVE  DirectoryInv'
<1>1. CASE tenants[t] # "active"
  <2>1. End(w, "denied")
    BY <1>1 DEF In
  <2> QED
    BY <2>1, EndStep
<1>2. CASE tenants[t] = "active"
  <2> PICK k : k = workers[w]
    OBVIOUS
  <2>1. /\ Placed(k) /\ k.req \in Requests /\ k.req.kind = "resolve" /\ k.outcome = "none"
        /\ k.user \in Users /\ k.user = identities[k.req.identity]
        /\ Facts(tenants, members) \subseteq k.was
    BY Resolving
  <2>2. <<"active", t>> \in k.was
    BY <1>2, <2>1, ActiveIsFact
  <2>3. PICK n : n = [k EXCEPT !.pc = "member", !.tenant = t]
    OBVIOUS
  <2>4. n = [pc |-> "member", req |-> k.req, user |-> k.user, tenant |-> t,
             rows |-> k.rows, roles |-> k.roles,
             was |-> k.was, may |-> k.may, held |-> k.held, outcome |-> "none"]
    BY <2>1, <2>3 DEF Placed
  <2>5. workers' = Set(w, n)
    BY <1>2, <2>3 DEF In
  <2>6. Placed(n)
    BY <2>1, <2>4 DEF Placed
  <2>7. TablesOK' /\ UNCHANGED <<app, manager, identities, tenants, members>>
    BY SameTables DEF db
  <2>8. UserFound(n, identities')
    BY <2>1, <2>4, <2>7 DEF UserFound
  <2>9. Evidence(n)
    BY <2>2, <2>4 DEF Evidence
  <2>10. Guarded(n, members)
    BY <2>1, <2>4 DEF Guarded
  <2>11. /\ n.pc # "claim" /\ n.req = workers[w].req /\ n.was = workers[w].was
         /\ n.may = workers[w].may /\ n.held = workers[w].held
    BY <2>4
  <2> QED
    BY <2>5, <2>6, <2>7, <2>8, <2>9, <2>10, <2>11, FoundStep
<1> QED
  BY <1>1, <1>2

LEMMA FindTenantInv ==
  ASSUME DirectoryInv, NEW w \in Workers, FindTenant(w)
  PROVE  DirectoryInv'
<1> PICK k : k = workers[w]
  OBVIOUS
<1>1. k.pc = "tenant" /\ UNCHANGED <<db, auto>>
  BY DEF FindTenant
<1>2. /\ Placed(k) /\ k.req \in Requests /\ k.req.kind = "resolve" /\ k.outcome = "none"
      /\ k.user \in Users /\ k.user = identities[k.req.identity]
  BY <1>1, Resolving
<1>3. k.req.explicit \in Tenants \union {None} /\ mapping \in Tenants \union {None}
  BY <1>2, RequestFields DEF DirectoryInv, TablesOK
<1>4. CASE k.req.explicit # None /\ In(w, k.req.explicit)
  BY <1>1, <1>3, <1>4, InInv
<1>5. CASE k.req.explicit = None /\ mapping # None /\ In(w, mapping)
  BY <1>1, <1>3, <1>5, InInv
<1>6. CASE k.req.explicit = None /\ Go(w, "single")
  <2>1. PICK n : n = [pc |-> "single", req |-> k.req, user |-> k.user, tenant |-> k.tenant,

                      rows |-> k.rows, roles |-> k.roles, was |-> k.was, may |-> k.may, held |-> k.held,
                      outcome |-> k.outcome]
    OBVIOUS
  <2>2. Placed(n)
    BY <1>2, <2>1 DEF Placed
  <2>3. UserFound(n, identities) /\ Evidence(n) /\ Guarded(n, members)
    BY <1>2, <1>6, <2>1 DEF UserFound, Evidence, Guarded
  <2> QED
    BY <1>1, <1>6, <2>1, <2>2, <2>3, GoStep
<1> QED
  BY <1>4, <1>5, <1>6 DEF FindTenant

LEMMA FindSingleInv ==
  ASSUME DirectoryInv, NEW w \in Workers, FindSingle(w)
  PROVE  DirectoryInv'
<1> PICK k : k = workers[w]
  OBVIOUS
<1>1. k.pc = "single" /\ UNCHANGED <<db, auto>>
  BY DEF FindSingle
<1>2. PICK ts : ts = {members[m].tenant : m \in {r \in Rows : /\ members[r].user = k.user
                                                              /\ members[r].status = "active"}}
  OBVIOUS
<1>3. ts \subseteq Tenants
  <2>1. ASSUME NEW m \in Rows, members[m].status = "active"
        PROVE  members[m].tenant \in Tenants
    <3>1. members[m] \in Member \union {Absent}
      BY DEF DirectoryInv, TablesOK
    <3>2. members[m] \in Member
      BY <2>1, <3>1 DEF Absent
    <3> QED
      BY <3>2 DEF Member
  <2> QED
    BY <1>2, <2>1
<1>4. CASE Cardinality(ts) # 1
  <2>1. End(w, "denied")
    BY <1>2, <1>4 DEF FindSingle
  <2> QED
    BY <1>1, <2>1, EndStep
<1>5. CASE Cardinality(ts) = 1
  <2>1. ts # {}
    BY <1>5, FS_EmptySet
  <2>2. PICK t : t = CHOOSE x \in ts : TRUE
    OBVIOUS
  <2>3. t \in Tenants
    BY <1>3, <2>1, <2>2
  <2>4. /\ Placed(k) /\ k.req \in Requests /\ k.req.kind = "resolve" /\ k.outcome = "none"
        /\ k.user \in Users /\ k.user = identities[k.req.identity] /\ Evidence(k)
    BY <1>1, Resolving
  <2>5. PICK n : n = [k EXCEPT !.pc = "sole", !.tenant = t]
    OBVIOUS
  <2>6. n = [pc |-> "sole", req |-> k.req, user |-> k.user, tenant |-> t,
             rows |-> k.rows, roles |-> k.roles,
             was |-> k.was, may |-> k.may, held |-> k.held, outcome |-> "none"]
    BY <2>4, <2>5 DEF Placed
  <2>7. workers' = Set(w, n)
    BY <1>2, <1>5, <2>2, <2>5 DEF FindSingle
  <2>8. Placed(n)
    BY <2>4, <2>6 DEF Placed
  <2>9. TablesOK' /\ UNCHANGED <<app, manager, identities, tenants, members>>
    BY <1>1, SameTables DEF db
  <2>10. UserFound(n, identities')
    BY <2>4, <2>6, <2>9 DEF UserFound
  <2>11. Evidence(n)
    BY <1>1, <2>3, <2>4, <2>6 DEF Evidence
  <2>12. Guarded(n, members)
    BY <2>4, <2>6 DEF Guarded
  <2>13. /\ n.pc # "claim" /\ n.req = workers[w].req /\ n.was = workers[w].was
         /\ n.may = workers[w].may /\ n.held = workers[w].held
    BY <2>6
  <2> QED
    BY <1>1, <2>7, <2>8, <2>9, <2>10, <2>11, <2>12, <2>13, FoundStep
<1> QED
  BY <1>4, <1>5

LEMMA FindSoleInv ==
  ASSUME DirectoryInv, NEW w \in Workers, FindSole(w)
  PROVE  DirectoryInv'
<1>1. workers[w].pc = "sole" /\ UNCHANGED <<db, auto>> /\ In(w, workers[w].tenant)
  BY DEF FindSole
<1>2. workers[w].tenant \in Tenants /\ workers[w].req.explicit = None
  BY <1>1 DEF DirectoryInv, WorkerOK, Evidence
<1> QED
  BY <1>1, <1>2, InInv

\* The answer of a context: every role in it has its evidence.
LEMMA AnswerInv ==
  ASSUME DirectoryInv, UNCHANGED <<db, auto>>, NEW w \in Workers,
         workers[w].pc \in {"wide", "perms", "links"},
         NEW rs, Grounded(workers[w].was, workers[w].user, workers[w].tenant, rs), Answer(w, rs)
  PROVE  DirectoryInv'
<1> PICK k : k = workers[w]
  OBVIOUS
<1>1. /\ Placed(k) /\ k.req \in Requests /\ k.req.kind = "resolve" /\ k.outcome = "none"
      /\ k.user \in Users /\ k.user = identities[k.req.identity] /\ Evidence(k)
  BY Resolving
<1>2. k.req.explicit \in {None, k.tenant}
  BY <1>1 DEF Evidence
<1>3. CASE k.req.bound \in {None, k.tenant}
  <2>1. PICK n : n = [k EXCEPT !.pc = "idle", !.rows = {}, !.roles = rs, !.outcome = "context"]
    OBVIOUS
  <2>2. n = [pc |-> "idle", req |-> k.req, user |-> k.user, tenant |-> k.tenant, rows |-> {},
             roles |-> rs, was |-> k.was, may |-> k.may, held |-> k.held, outcome |-> "context"]
    BY <1>1, <2>1 DEF Placed
  <2>3. workers' = Set(w, n)
    BY <1>3, <2>1 DEF Answer
  <2>4. Placed(n)
    BY <1>1, <2>2 DEF Placed
  <2>5. TablesOK' /\ UNCHANGED <<app, manager, identities, tenants, members>>
    BY SameTables DEF db
  <2>6. UserFound(n, identities')
    BY <1>1, <2>2, <2>5 DEF UserFound
  <2>7. Grounded(n.was, n.user, n.tenant, n.roles)
    BY <2>2
  <2>8. Evidence(n)
    BY <1>2, <1>3, <2>2, <2>7 DEF Evidence
  <2>9. Guarded(n, members)
    BY <2>2 DEF Guarded
  <2>10. /\ n.pc # "claim" /\ n.req = workers[w].req /\ n.was = workers[w].was
         /\ n.may = workers[w].may /\ n.held = workers[w].held
    BY <2>2
  <2> QED
    BY <2>3, <2>4, <2>5, <2>6, <2>8, <2>9, <2>10, FoundStep
<1>4. CASE k.req.bound \notin {None, k.tenant}
  <2>1. End(w, "forbidden")
    BY <1>4 DEF Answer
  <2> QED
    BY <2>1, EndStep
<1> QED
  BY <1>3, <1>4

\* A row of the user in the tenant that is active now has been noticed.
LEMMA ActiveMember ==
  ASSUME DirectoryInv, NEW w \in Workers, workers[w].pc \in {"member", "wide", "perms"},
         NEW m \in Rows, members[m].user = workers[w].user, members[m].tenant = workers[w].tenant,
         members[m].status = "active"
  PROVE  ActiveRow(workers[w].was, m, workers[w].user, workers[w].tenant)
<1>1. Facts(tenants, members) \subseteq workers[w].was /\ workers[w].user \in Users
  BY Resolving
<1>2. workers[w].tenant \in Tenants
  BY Resolving DEF Evidence
<1>3. <<"member", m, workers[w].user, workers[w].tenant>> \in Facts(tenants, members)
  BY <1>1, <1>2, MemberIsFact
<1> QED
  BY <1>1, <1>3 DEF ActiveRow

LEMMA FindMemberInv ==
  ASSUME DirectoryInv, NEW w \in Workers, FindMember(w)
  PROVE  DirectoryInv'
<1> PICK k : k = workers[w]
  OBVIOUS
<1>1. k.pc = "member" /\ UNCHANGED <<db, auto>>
  BY DEF FindMember
<1>2. /\ Placed(k) /\ k.req \in Requests /\ k.req.kind = "resolve" /\ k.outcome = "none"
      /\ k.user \in Users /\ k.user = identities[k.req.identity] /\ Evidence(k)
  BY <1>1, Resolving
<1>3. ASSUME NEW p \in {"wide", "perms"}, Go(w, p),
             p = "perms" => \E m \in Rows : ActiveRow(k.was, m, k.user, k.tenant)
      PROVE  DirectoryInv'
  <2>1. PICK n : n = [pc |-> p, req |-> k.req, user |-> k.user, tenant |-> k.tenant,
                      rows |-> k.rows, roles |-> k.roles, was |-> k.was, may |-> k.may,
                      held |-> k.held, outcome |-> k.outcome]
    OBVIOUS
  <2>2. Placed(n)
    BY <1>2, <2>1 DEF Placed
  <2>3. UserFound(n, identities) /\ Evidence(n) /\ Guarded(n, members)
    BY <1>1, <1>2, <1>3, <2>1 DEF UserFound, Evidence, Guarded
  <2> QED
    BY <1>1, <1>3, <2>1, <2>2, <2>3, GoStep
<1>4. CASE Go(w, "wide")
  BY <1>3, <1>4
<1>5. ASSUME NEW m \in RowsOf(members, k.user, k.tenant, TRUE), members[m].status = "active", Go(w, "perms")
      PROVE  DirectoryInv'
  <2>1. ActiveRow(k.was, m, k.user, k.tenant) /\ m \in Rows
    BY <1>1, <1>5, ActiveMember DEF RowsOf
  <2> QED
    BY <1>3, <1>5, <2>1
<1>6. CASE End(w, "denied")
  BY <1>1, <1>6, EndStep
<1> QED
  BY <1>4, <1>5, <1>6 DEF FindMember

LEMMA FindWideInv ==
  ASSUME DirectoryInv, NEW w \in Workers, FindWide(w)
  PROVE  DirectoryInv'
<1> PICK k : k = workers[w]
  OBVIOUS
<1>1. k.pc = "wide" /\ UNCHANGED <<db, auto>>
  BY DEF FindWide
<1>2. CASE End(w, "denied")
  BY <1>1, <1>2, EndStep
<1>3. ASSUME NEW m \in RowsOf(members, k.user, k.tenant, FALSE), members[m].status = "active", Answer(w, {})
      PROVE  DirectoryInv'
  <2>1. ActiveRow(k.was, m, k.user, k.tenant) /\ m \in Rows
    BY <1>1, <1>3, ActiveMember DEF RowsOf
  <2>2. <<"active", k.tenant>> \in k.was
    BY <1>1, Resolving DEF Evidence
  <2>3. Grounded(k.was, k.user, k.tenant, {})
    BY <2>1, <2>2 DEF Grounded
  <2> QED
    BY <1>1, <1>3, <2>3, AnswerInv
<1> QED
  BY <1>2, <1>3 DEF FindWide

\* The rows that were found are active rows of the user and have been noticed.
LEMMA ReadRowsInv ==
  ASSUME DirectoryInv, NEW w \in Workers, ReadRows(w)
  PROVE  DirectoryInv'
<1> PICK k : k = workers[w]
  OBVIOUS
<1>1. k.pc = "perms" /\ UNCHANGED <<db, auto>>
  BY DEF ReadRows
<1>2. PICK rows : rows = {m \in Rows : /\ members[m].user = k.user /\ members[m].tenant = k.tenant
                                       /\ members[m].status = "active"}
  OBVIOUS
<1>3. /\ Placed(k) /\ k.req \in Requests /\ k.req.kind = "resolve" /\ k.outcome = "none"
      /\ k.user \in Users /\ k.user = identities[k.req.identity] /\ Evidence(k)
  BY <1>1, Resolving
<1>4. CASE rows = {}
  <2>1. Answer(w, {})
    BY <1>2, <1>4 DEF ReadRows
  <2>2. Grounded(k.was, k.user, k.tenant, {})
    BY <1>1, <1>3 DEF Evidence, Grounded
  <2> QED
    BY <1>1, <2>1, <2>2, AnswerInv
<1>5. CASE rows # {}
  <2>1. PICK n : n = [k EXCEPT !.pc = "links", !.rows = rows]
    OBVIOUS
  <2>2. n = [pc |-> "links", req |-> k.req, user |-> k.user, tenant |-> k.tenant, rows |-> rows,
             roles |-> k.roles, was |-> k.was, may |-> k.may, held |-> k.held, outcome |-> "none"]
    BY <1>3, <2>1 DEF Placed
  <2>3. workers' = Set(w, n)
    BY <1>2, <1>5, <2>1 DEF ReadRows
  <2>4. Placed(n)
    BY <1>3, <2>2 DEF Placed
  <2>5. TablesOK' /\ UNCHANGED <<app, manager, identities, tenants, members>>
    BY <1>1, SameTables DEF db
  <2>6. UserFound(n, identities')
    BY <1>3, <2>2, <2>5 DEF UserFound
  <2>7. \A m \in rows : ActiveRow(k.was, m, k.user, k.tenant)
    BY <1>1, <1>2, ActiveMember
  <2>8. Evidence(n)
    BY <1>1, <1>3, <2>2, <2>7 DEF Evidence
  <2>9. Guarded(n, members)
    BY <1>3, <2>2 DEF Guarded
  <2>10. /\ n.pc # "claim" /\ n.req = workers[w].req /\ n.was = workers[w].was
         /\ n.may = workers[w].may /\ n.held = workers[w].held
    BY <2>2
  <2> QED
    BY <1>1, <2>3, <2>4, <2>5, <2>6, <2>8, <2>9, <2>10, FoundStep
<1> QED
  BY <1>4, <1>5

\* A role that is linked to one of them by now has been noticed too.
LEMMA ReadLinksInv ==
  ASSUME DirectoryInv, NEW w \in Workers, ReadLinks(w)
  PROVE  DirectoryInv'
<1> PICK k : k = workers[w]
  OBVIOUS
<1>1. k.pc = "links" /\ UNCHANGED <<db, auto>>
  BY DEF ReadLinks
<1>2. Evidence(k) /\ Facts(tenants, members) \subseteq k.was
  BY <1>1, Resolving
<1>3. PICK rs : rs = UNION {members[m].roles : m \in k.rows}
  OBVIOUS
<1>4. ASSUME NEW r \in rs
      PROVE  \E m \in Rows : ActiveRow(k.was, m, k.user, k.tenant) /\ <<"linked", m, r>> \in k.was
  <2>1. PICK m \in k.rows : r \in members[m].roles
    BY <1>3, <1>4
  <2>2. ActiveRow(k.was, m, k.user, k.tenant) /\ m \in Rows
    BY <1>1, <1>2, <2>1 DEF Evidence, ActiveRow
  <2>3. r \in Roles
    <3>1. members[m] \in Member \union {Absent}
      BY <2>2 DEF DirectoryInv, TablesOK
    <3> QED
      BY <2>1, <3>1 DEF Member, Absent
  <2>4. <<"linked", m, r>> \in k.was
    BY <1>2, <2>1, <2>2, <2>3, LinkIsFact
  <2> QED
    BY <2>2, <2>4
<1>5. Grounded(k.was, k.user, k.tenant, rs)
  BY <1>1, <1>2, <1>4 DEF Evidence, Grounded
<1>6. Answer(w, rs)
  BY <1>3 DEF ReadLinks
<1> QED
  BY <1>1, <1>5, <1>6, AnswerInv

(***************************************************************************)
(* The invariants of the runs.                                             *)
(***************************************************************************)

LEMMA NextInv == DirectoryInv /\ [Next]_vars => DirectoryInv'
<1> SUFFICES ASSUME DirectoryInv, [Next]_vars PROVE DirectoryInv'
  OBVIOUS
<1>1. ASSUME NEW t \in Tenants, SwitchTenant(t) \/ MapTenant(t)
      PROVE  DirectoryInv'
  BY <1>1, SwitchTenantInv, MapTenantInv
<1>2. ASSUME NEW w \in Workers, Step(w)
      PROVE  DirectoryInv'
  <2>1. CASE \E req \in Requests : Begin(w, req)
    BY <2>1, BeginInv
  <2>2. CASE FindApp(w) \/ FindRow(w) \/ Claim(w) \/ Claimed(w) \/ Release(w)
    BY <2>2, FindAppInv, FindRowInv, ClaimInv, ClaimedInv, ReleaseInv
  <2>3. CASE WriteCatalog(w) \/ WriteState(w) \/ WriteMembership(w) \/ PatchStatus(w) \/ PatchRoles(w)
    BY <2>3, WriteCatalogInv, WriteStateInv, WriteMembershipInv, PatchStatusInv, PatchRolesInv
  <2>4. CASE FindUser(w) \/ Upsert(w) \/ Insert(w)
    BY <2>4, FindUserInv, UpsertInv, InsertInv
  <2>5. CASE FindTenant(w) \/ FindSingle(w) \/ FindSole(w)
    BY <2>5, FindTenantInv, FindSingleInv, FindSoleInv
  <2>6. CASE FindMember(w) \/ FindWide(w) \/ ReadRows(w) \/ ReadLinks(w)
    BY <2>6, FindMemberInv, FindWideInv, ReadRowsInv, ReadLinksInv
  <2> QED
    BY <1>2, <2>1, <2>2, <2>3, <2>4, <2>5, <2>6 DEF Step
<1>3. CASE UNCHANGED vars
  BY <1>3 DEF vars, DirectoryInv, TablesOK
<1> QED
  BY <1>1, <1>2, <1>3 DEF Next

\* The inductive invariant of the directory, for any database the service made.
THEOREM DirectoryInvCorrect == Spec => []DirectoryInv
<1>1. Init => DirectoryInv
  BY InitInv
<1>2. DirectoryInv /\ [Next]_vars => DirectoryInv'
  BY NextInv
<1> QED
  BY <1>1, <1>2, PTL DEF Spec

\* However many first logins, pre-provisionings and tenant states overlap, an
\* identity has one user and a user one identity; losers leave no user behind,
\* and nobody is told another user than the one of its identity.
THEOREM IdentitiesHaveOneUser == Spec => []OneUserPerIdentity
<1>1. DirectoryInv => OneUserPerIdentity
  <2> SUFFICES ASSUME DirectoryInv PROVE OneUserPerIdentity
    OBVIOUS
  <2>1. ASSUME NEW w \in Workers, workers[w].outcome \in {"user", "context"}
        PROVE  workers[w].user = identities[workers[w].req.identity]
    BY <2>1 DEF DirectoryInv, WorkerOK, UserFound
  <2> QED
    BY <2>1 DEF DirectoryInv, TablesOK, OneUserPerIdentity
<1> QED
  BY <1>1, DirectoryInvCorrect, PTL

\* Whatever is switched, disabled or patched between its reads, a context
\* answers with a tenant that was active, a user that had an active row there, and
\* roles each of which was linked to a row of that user and tenant that was active,
\* each at some moment of the call, in the tenant that was asked for.  The moments
\* are those of the reads and may differ.
THEOREM ContextsAreTrue == Spec => []ContextsHold
<1>1. DirectoryInv => ContextsHold
  <2> SUFFICES ASSUME DirectoryInv PROVE ContextsHold
    OBVIOUS
  <2>1. \A m \in Rows : members[m] \in Member \union {Absent}
    BY DEF DirectoryInv, TablesOK
  <2>2. ASSUME NEW w \in Workers, NEW k, k = workers[w], k.outcome = "context"
        PROVE  /\ Grounded(k.was, k.user, k.tenant, k.roles)
               /\ k.req.explicit \in {None, k.tenant} /\ k.req.bound \in {None, k.tenant}
    <3>1. Evidence(k)
      BY <2>2 DEF DirectoryInv, WorkerOK
    <3> QED
      BY <2>2, <3>1 DEF Evidence
  <2> QED
    BY <2>1, <2>2 DEF ContextsHold
<1> QED
  BY <1>1, DirectoryInvCorrect, PTL

(***************************************************************************)
(* Management of the application.                                          *)
(***************************************************************************)

\* A step without a write: what it answers is no claim, or one of the manager.
LEMMA QuietManagement ==
  ASSUME DirectoryInv, UNCHANGED manager, NEW w \in Workers, NEW n, workers' = Set(w, n),
         n.pc = "idle" => n.outcome # "written" /\ (n.outcome = "claimed" => n.held)
  PROVE  ManagementStep
<1>1. workers'[w] = n
  BY DEF Set, DirectoryInv
<1>2. \A v \in Workers : v # w => workers'[v] = workers[v]
  BY DEF Set, DirectoryInv
<1> QED
  BY <1>1, <1>2 DEF ManagementStep

\* A write of whoever may make it.
LEMMA NoticedManagement ==
  ASSUME DirectoryInv, manager # None => manager' \in {manager, None},
         NEW w \in Workers, NEW k, Placed(k), NEW ts, NEW ms, NEW mg,
         workers' = Noticing(Set(w, k), ts, ms, mg),
         k.pc = "idle" =>
           /\ k.outcome # "claimed"
           /\ (workers[w].req.kind = "create" => workers[w].req.scoped)
              /\ (workers[w].req.kind = "patch" => members[workers[w].req.row].scoped)
              /\ k.outcome = "written" => k.may
  PROVE  ManagementStep
<1>1. ASSUME NEW v \in Workers, v # w
      PROVE  workers'[v].pc = workers[v].pc
  <2>1. workers'[v] = Notices(workers[v], ts, ms, mg)
    BY <1>1 DEF Set, Noticing, DirectoryInv
  <2> QED
    BY <2>1, NoticesFields DEF DirectoryInv, WorkerOK
<1>2. workers'[w] = Notices(k, ts, ms, mg)
  BY DEF Set, Noticing, DirectoryInv
<1>3. /\ workers'[w].pc = k.pc /\ workers'[w].outcome = k.outcome
      /\ k.may => workers'[w].may
  BY <1>2, NoticesFields
<1> QED
  BY <1>1, <1>3 DEF ManagementStep

\* A request that ends without having written.
LEMMA EndManagement ==
  ASSUME DirectoryInv, UNCHANGED manager, NEW w \in Workers, NEW o, End(w, o), o # "written",
         o = "claimed" => workers[w].held
  PROVE  ManagementStep
<1>1. PICK n : n = [workers[w] EXCEPT !.pc = "idle", !.outcome = o, !.was = {}, !.user = None,
                                      !.tenant = None, !.rows = {}, !.roles = {}]
  OBVIOUS
<1>2. Placed(workers[w])
  BY DEF DirectoryInv, WorkerOK
<1>3. n.outcome = o /\ n.held = workers[w].held
  BY <1>1, <1>2 DEF Placed
<1>4. workers' = Set(w, n)
  BY <1>1 DEF End
<1> QED
  BY <1>3, <1>4, QuietManagement

LEMMA GoManagement ==
  ASSUME DirectoryInv, UNCHANGED manager, NEW w \in Workers, NEW p, Go(w, p), p # "idle"
  PROVE  ManagementStep
<1>1. PICK n : n = [workers[w] EXCEPT !.pc = p]
  OBVIOUS
<1>2. n.pc = p
  BY <1>1 DEF DirectoryInv, WorkerOK, Placed
<1>3. workers' = Set(w, n)
  BY <1>1 DEF Go
<1> QED
  BY <1>2, <1>3, QuietManagement

\* A claim is confirmed to nobody but the manager.
LEMMA ClaimHeld ==
  ASSUME DirectoryInv, NEW w \in Workers, workers[w].pc # "idle", workers[w].req.kind = "claim",
         manager = workers[w].req.who
  PROVE  workers[w].held
  BY DEF DirectoryInv, WorkerOK, Watching

LEMMA FindAppManagement ==
  ASSUME DirectoryInv, NEW w \in Workers, FindApp(w)
  PROVE  ManagementStep
<1>1. workers[w].pc = "app" /\ UNCHANGED manager
  BY DEF FindApp, db
<1>2. CASE \E o \in {"unknown", "conflict", "forbidden"} : End(w, o)
  BY <1>1, <1>2, EndManagement
<1>3. CASE /\ workers[w].req.kind = "claim" /\ manager = workers[w].req.who /\ End(w, "claimed")
  <2>1. workers[w].held
    BY <1>1, <1>3, ClaimHeld
  <2> QED
    BY <1>1, <1>3, <2>1, EndManagement
<1>4. CASE \E p \in {"user", "release", "claim", "write"} : Go(w, p)
  BY <1>1, <1>4, GoManagement
<1> QED
  BY <1>2, <1>3, <1>4 DEF FindApp

LEMMA ClaimedManagement ==
  ASSUME DirectoryInv, NEW w \in Workers, Claimed(w)
  PROVE  ManagementStep
<1>1. workers[w].pc = "claimed" /\ UNCHANGED manager /\ workers[w].req.kind = "claim"
  BY DEF Claimed, db, DirectoryInv, WorkerOK, Placed
<1>2. CASE manager = workers[w].req.who
  <2>1. workers[w].held /\ End(w, "claimed")
    BY <1>1, <1>2, ClaimHeld DEF Claimed
  <2> QED
    BY <1>1, <2>1, EndManagement
<1>3. CASE manager # workers[w].req.who
  <2>1. End(w, "conflict")
    BY <1>3 DEF Claimed
  <2> QED
    BY <1>1, <2>1, EndManagement
<1> QED
  BY <1>2, <1>3

LEMMA ClaimManagement ==
  ASSUME DirectoryInv, NEW w \in Workers, Claim(w)
  PROVE  ManagementStep
<1>1. workers[w].pc = "claim" /\ workers[w].req.kind = "claim"
  BY DEF Claim, DirectoryInv, WorkerOK, Placed
<1>2. PICK k : k = [workers[w] EXCEPT !.pc = "claimed"]
  OBVIOUS
<1>3. k = [pc |-> "claimed", req |-> workers[w].req, user |-> workers[w].user,
           tenant |-> workers[w].tenant,
           rows |-> workers[w].rows, roles |-> workers[w].roles, was |-> workers[w].was,
           may |-> workers[w].may, held |-> workers[w].held, outcome |-> "none"]
  BY <1>1, <1>2 DEF DirectoryInv, WorkerOK, Placed
<1>4. Placed(k) /\ k.pc = "claimed"
  BY <1>1, <1>3 DEF DirectoryInv, WorkerOK, Placed
<1>5. /\ workers' = Noticing(Set(w, k), tenants, members, manager')
      /\ manager # None => manager' \in {manager, None}
  BY <1>2 DEF Claim
<1> QED
  BY <1>4, <1>5, NoticedManagement

LEMMA PatchStatusManagement ==
  ASSUME DirectoryInv, NEW w \in Workers, PatchStatus(w)
  PROVE  ManagementStep
<1>1. workers[w].pc = "write" /\ workers[w].req.kind = "patch" /\ UNCHANGED manager
  BY DEF PatchStatus
<1>2. PICK k : k = [workers[w] EXCEPT !.pc = "roles"]
  OBVIOUS
<1>3. k = [pc |-> "roles", req |-> workers[w].req, user |-> workers[w].user,
           tenant |-> workers[w].tenant,
           rows |-> workers[w].rows, roles |-> workers[w].roles, was |-> workers[w].was,
           may |-> workers[w].may, held |-> workers[w].held, outcome |-> "none"]
  BY <1>1, <1>2 DEF DirectoryInv, WorkerOK, Placed
<1>4. Placed(k) /\ k.pc = "roles"
  BY <1>1, <1>3 DEF DirectoryInv, WorkerOK, Placed
<1>5. workers' = Noticing(Set(w, k), tenants, members', manager)
  BY <1>2 DEF PatchStatus
<1> QED
  BY <1>1, <1>4, <1>5, NoticedManagement

\* A write that ends, or a release.
LEMMA DoneManagement ==
  ASSUME DirectoryInv, NEW w \in Workers, workers[w].pc # "idle",
         manager # None => manager' \in {manager, None},
         NEW o \in {"written", "released"},
         (workers[w].req.kind = "create" => workers[w].req.scoped)
           /\ (workers[w].req.kind = "patch" => members[workers[w].req.row].scoped)
           /\ o = "written" => workers[w].may,
         NEW k, k = [workers[w] EXCEPT !.pc = "idle", !.outcome = o],
         NEW ts, NEW ms, NEW mg, workers' = Noticing(Set(w, k), ts, ms, mg)
  PROVE  ManagementStep
<1>1. Placed(workers[w])
  BY DEF DirectoryInv, WorkerOK
<1>2. k = [pc |-> "idle", req |-> workers[w].req, user |-> workers[w].user,
           tenant |-> workers[w].tenant,
           rows |-> workers[w].rows, roles |-> workers[w].roles, was |-> workers[w].was,
           may |-> workers[w].may, held |-> workers[w].held, outcome |-> o]
  BY <1>1 DEF Placed
<1>3. Placed(k) /\ k.pc = "idle" /\ k.outcome = o /\ k.may = workers[w].may
  BY <1>1, <1>2 DEF Placed
<1> QED
  BY <1>3, NoticedManagement

LEMMA ReleaseManagement ==
  ASSUME DirectoryInv, NEW w \in Workers, Release(w)
  PROVE  ManagementStep
<1>1. PICK k : k = [workers[w] EXCEPT !.pc = "idle", !.outcome = "released"]
  OBVIOUS
<1>2. /\ workers' = Noticing(Set(w, k), tenants, members, None) /\ manager' = None
      /\ workers[w].pc # "idle"
  BY <1>1 DEF Release
<1> QED
  BY <1>1, <1>2, DoneManagement

\* The four writes behind the guard.
LEMMA WriteManagement ==
  ASSUME DirectoryInv, NEW w \in Workers,
         WriteCatalog(w) \/ WriteState(w) \/ WriteMembership(w) \/ PatchRoles(w)
  PROVE  ManagementStep
<1>1. PICK k : k = [workers[w] EXCEPT !.pc = "idle", !.outcome = "written"]
  OBVIOUS
<1>2. Guarded(workers[w], members)
  BY DEF DirectoryInv, WorkerOK
<1>3. CASE WriteCatalog(w)
  <2>1. /\ workers' = Noticing(Set(w, k), tenants, members, manager')
        /\ workers[w].pc = "write" /\ workers[w].req.kind = "catalog"
        /\ manager' = IF app THEN manager ELSE workers[w].req.who
    BY <1>1, <1>3 DEF WriteCatalog
  <2>2. manager # None => manager' \in {manager, None}
    BY <2>1 DEF DirectoryInv, TablesOK
  <2>3. workers[w].may
    BY <1>2, <2>1 DEF Guarded
  <2> QED
    BY <1>1, <2>1, <2>2, <2>3, DoneManagement
<1>4. CASE WriteState(w)
  <2>1. workers[w].pc = "write" /\ workers[w].req.kind = "state" /\ UNCHANGED manager
    BY <1>4 DEF WriteState
  <2>2. CASE End(w, "failed")
    BY <2>1, <2>2, EndManagement
  <2>3. CASE workers' = Noticing(Set(w, k), tenants, members', manager)
    <3>1. workers[w].may
      BY <1>2, <2>1 DEF Guarded
    <3> QED
      BY <1>1, <2>1, <2>3, <3>1, DoneManagement
  <2> QED
    BY <1>1, <1>4, <2>2, <2>3 DEF WriteState
<1>5. CASE WriteMembership(w)
  <2>1. workers[w].pc = "write" /\ workers[w].req.kind = "create" /\ UNCHANGED manager
    BY <1>5 DEF WriteMembership
  <2>2. CASE End(w, "failed")
    BY <2>1, <2>2, EndManagement
  <2>3. CASE workers' = Noticing(Set(w, k), tenants, members', manager)
    <3>1. workers[w].req.scoped => workers[w].may
      BY <1>2, <2>1 DEF Guarded
    <3> QED
      BY <1>1, <2>1, <2>3, <3>1, DoneManagement
  <2> QED
    BY <1>1, <1>5, <2>2, <2>3 DEF WriteMembership
<1>6. CASE PatchRoles(w)
  <2>1. /\ workers' = Noticing(Set(w, k), tenants, members', manager)
        /\ workers[w].pc = "roles" /\ UNCHANGED manager
    BY <1>1, <1>6 DEF PatchRoles
  <2>2. workers[w].req.kind = "patch"
    BY <2>1 DEF DirectoryInv, WorkerOK, Placed
  <2>3. members[workers[w].req.row].scoped => workers[w].may
    BY <1>2, <2>1, <2>2 DEF Guarded
  <2> QED
    BY <1>1, <2>1, <2>2, <2>3, DoneManagement
<1> QED
  BY <1>3, <1>4, <1>5, <1>6

\* Lookups answer with a user or a context.
LEMMA WithManagement ==
  ASSUME DirectoryInv, UNCHANGED manager, NEW w \in Workers, workers[w].pc # "idle", NEW u, With(w, u)
  PROVE  ManagementStep
<1>1. Placed(workers[w]) /\ workers[w].outcome = "none"
  BY DEF DirectoryInv, WorkerOK, Placed
<1>2. PICK n : n = IF workers[w].req.kind = "user"
                   THEN [workers[w] EXCEPT !.pc = "idle", !.user = u, !.outcome = "user"]
                   ELSE [workers[w] EXCEPT !.pc = "tenant", !.user = u]
  OBVIOUS
<1>3. n.outcome \in {"user", "none"}
  BY <1>1, <1>2 DEF Placed
<1>4. workers' = Set(w, n)
  BY <1>2 DEF With
<1> QED
  BY <1>3, <1>4, QuietManagement

LEMMA InManagement ==
  ASSUME DirectoryInv, UNCHANGED manager, NEW w \in Workers, workers[w].pc # "idle", NEW t, In(w, t)
  PROVE  ManagementStep
<1>1. CASE End(w, "denied")
  BY <1>1, EndManagement
<1>2. CASE workers' = Set(w, [workers[w] EXCEPT !.pc = "member", !.tenant = t])
  <2>1. PICK n : n = [workers[w] EXCEPT !.pc = "member", !.tenant = t]
    OBVIOUS
  <2>2. n.pc = "member"
    BY <2>1 DEF DirectoryInv, WorkerOK, Placed
  <2> QED
    BY <1>2, <2>1, <2>2, QuietManagement
<1> QED
  BY <1>1, <1>2 DEF In

LEMMA AnswerManagement ==
  ASSUME DirectoryInv, UNCHANGED manager, NEW w \in Workers, NEW rs, Answer(w, rs)
  PROVE  ManagementStep
<1>1. CASE End(w, "forbidden")
  BY <1>1, EndManagement
<1>2. CASE workers' = Set(w, [workers[w] EXCEPT !.pc = "idle", !.rows = {}, !.roles = rs,
                                               !.outcome = "context"])
  <2>1. PICK n : n = [workers[w] EXCEPT !.pc = "idle", !.rows = {}, !.roles = rs,
                                               !.outcome = "context"]
    OBVIOUS
  <2>2. n.outcome = "context"
    BY <2>1 DEF DirectoryInv, WorkerOK, Placed
  <2> QED
    BY <1>2, <2>1, <2>2, QuietManagement
<1> QED
  BY <1>1, <1>2 DEF Answer

LEMMA UserManagement ==
  ASSUME DirectoryInv, NEW w \in Workers, FindUser(w) \/ Upsert(w) \/ Insert(w)
  PROVE  ManagementStep
<1>1. UNCHANGED manager /\ workers[w].pc \in {"user", "upsert", "insert"}
  BY DEF FindUser, Upsert, Insert, db
<1>2. CASE \E o \in {"denied", "failed"} : End(w, o)
  BY <1>1, <1>2, EndManagement
<1>3. CASE \E p \in {"upsert", "insert"} : Go(w, p)
  BY <1>1, <1>3, GoManagement
<1>4. CASE \E u : With(w, u)
  BY <1>1, <1>4, WithManagement
<1>5. CASE FindUser(w)
  <2>1. workers[w].req.kind = "resolve"
    BY <1>5 DEF FindUser, DirectoryInv, WorkerOK, Placed
  <2> QED
    BY <1>2, <1>3, <1>4, <1>5, <2>1 DEF FindUser, With
<1>6. CASE Upsert(w)
  BY <1>2, <1>3, <1>4, <1>6 DEF Upsert
<1>7. CASE Insert(w)
  BY <1>2, <1>3, <1>4, <1>7 DEF Insert
<1> QED
  BY <1>5, <1>6, <1>7

LEMMA TenantManagement ==
  ASSUME DirectoryInv, NEW w \in Workers, FindTenant(w) \/ FindSingle(w) \/ FindSole(w)
  PROVE  ManagementStep
<1>1. UNCHANGED manager /\ workers[w].pc \in {"tenant", "single", "sole"}
  BY DEF FindTenant, FindSingle, FindSole, db
<1>2. CASE End(w, "denied")
  BY <1>1, <1>2, EndManagement
<1>3. CASE Go(w, "single")
  BY <1>1, <1>3, GoManagement
<1>4. CASE \E t : In(w, t)
  BY <1>1, <1>4, InManagement
<1>5. CASE \E t : workers' = Set(w, [workers[w] EXCEPT !.pc = "sole", !.tenant = t])
  <2>1. PICK t, n : n = [workers[w] EXCEPT !.pc = "sole", !.tenant = t] /\ workers' = Set(w, n)
    BY <1>5
  <2>2. n.pc = "sole"
    BY <2>1 DEF DirectoryInv, WorkerOK, Placed
  <2> QED
    BY <1>1, <2>1, <2>2, QuietManagement
<1>6. CASE FindTenant(w)
  BY <1>3, <1>4, <1>6 DEF FindTenant
<1>7. CASE FindSingle(w)
  BY <1>2, <1>5, <1>7 DEF FindSingle
<1>8. CASE FindSole(w)
  BY <1>4, <1>8 DEF FindSole
<1> QED
  BY <1>6, <1>7, <1>8

LEMMA MemberManagement ==
  ASSUME DirectoryInv, NEW w \in Workers, FindMember(w) \/ FindWide(w) \/ ReadRows(w) \/ ReadLinks(w)
  PROVE  ManagementStep
<1>1. UNCHANGED manager
  BY DEF FindMember, FindWide, ReadRows, ReadLinks, db
<1>2. CASE End(w, "denied")
  BY <1>1, <1>2, EndManagement
<1>3. CASE \E p \in {"wide", "perms"} : Go(w, p)
  BY <1>1, <1>3, GoManagement
<1>4. CASE \E rs : Answer(w, rs)
  BY <1>1, <1>4, AnswerManagement
<1>5. CASE \E rows : workers' = Set(w, [workers[w] EXCEPT !.pc = "links", !.rows = rows])
  <2>1. PICK rows, n : n = [workers[w] EXCEPT !.pc = "links", !.rows = rows] /\ workers' = Set(w, n)
    BY <1>5
  <2>2. n.pc = "links"
    BY <2>1 DEF DirectoryInv, WorkerOK, Placed
  <2> QED
    BY <1>1, <2>1, <2>2, QuietManagement
<1> QED
  BY <1>2, <1>3, <1>4, <1>5 DEF FindMember, FindWide, ReadRows, ReadLinks

LEMMA FindRowManagement ==
  ASSUME DirectoryInv, NEW w \in Workers, FindRow(w)
  PROVE  ManagementStep
<1>1. UNCHANGED manager /\ \E p \in {"app", "write"} : Go(w, p)
  BY DEF FindRow, db
<1> QED
  BY <1>1, GoManagement

LEMMA BeginManagement ==
  ASSUME DirectoryInv, NEW w \in Workers, NEW req \in Requests, Begin(w, req)
  PROVE  ManagementStep
<1>1. UNCHANGED manager /\ workers[w].pc = "idle" /\ \E n : workers' = Set(w, n)
  BY DEF Begin, db
<1>2. \A v \in Workers : v # w => workers'[v] = workers[v]
  BY <1>1 DEF Set, DirectoryInv
<1> QED
  BY <1>1, <1>2 DEF ManagementStep

LEMMA SwitchManagement ==
  ASSUME DirectoryInv, NEW t \in Tenants, SwitchTenant(t)
  PROVE  ManagementStep
<1>1. UNCHANGED manager
  BY DEF SwitchTenant
<1>2. ASSUME NEW v \in Workers
      PROVE  workers'[v].pc = workers[v].pc
  <2>1. workers'[v] = Notices(workers[v], tenants', members, manager)
    BY DEF SwitchTenant, Noticing
  <2> QED
    BY <2>1, NoticesFields DEF DirectoryInv, WorkerOK
<1> QED
  BY <1>1, <1>2 DEF ManagementStep

\* Nobody takes an application from its manager, a claim is confirmed only to
\* whoever managed the application during the call, and every guarded write is one
\* of a caller who managed it, or found it free, during the call.
THEOREM ManagementHolds == Spec => ManagementIsExclusive
<1>1. ASSUME DirectoryInv, [Next]_vars
      PROVE  [ManagementStep]_vars
  <2>1. CASE UNCHANGED vars
    BY <2>1
  <2>2. ASSUME NEW t \in Tenants, SwitchTenant(t) \/ MapTenant(t)
        PROVE  ManagementStep
    <3>1. CASE SwitchTenant(t)
      BY <1>1, <3>1, SwitchManagement
    <3>2. CASE MapTenant(t)
      BY <3>2 DEF MapTenant, ManagementStep
    <3> QED
      BY <2>2, <3>1, <3>2
  <2>3. ASSUME NEW w \in Workers, Step(w)
        PROVE  ManagementStep
    <3>1. CASE \E req \in Requests : Begin(w, req)
      BY <1>1, <3>1, BeginManagement
    <3>2. CASE FindApp(w) \/ FindRow(w) \/ Claim(w) \/ Claimed(w) \/ Release(w)
      BY <1>1, <3>2, FindAppManagement, FindRowManagement, ClaimManagement, ClaimedManagement,
         ReleaseManagement
    <3>3. CASE WriteCatalog(w) \/ WriteState(w) \/ WriteMembership(w) \/ PatchStatus(w) \/ PatchRoles(w)
      BY <1>1, <3>3, WriteManagement, PatchStatusManagement
    <3>4. CASE \/ FindUser(w) \/ Upsert(w) \/ Insert(w)
               \/ FindTenant(w) \/ FindSingle(w) \/ FindSole(w)
               \/ FindMember(w) \/ FindWide(w) \/ ReadRows(w) \/ ReadLinks(w)
      BY <1>1, <3>4, UserManagement, TenantManagement, MemberManagement
    <3> QED
      BY <2>3, <3>1, <3>2, <3>3, <3>4 DEF Step
  <2> QED
    BY <1>1, <2>1, <2>2, <2>3 DEF Next
<1> QED
  BY <1>1, DirectoryInvCorrect, PTL DEF Spec, ManagementIsExclusive
=============================================================================
