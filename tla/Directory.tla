----------------------------- MODULE Directory -----------------------------
(***************************************************************************)
(* Who a foreign identity is and who manages an application: POST           *)
(* /v1/resolve-context (TenantContextResolver, authzkit/tenancy/            *)
(* resolver.py), the users behind it, and the writes that race with it      *)
(* under the guard of authz_service/management.py: catalog, tenant state,   *)
(* memberships, claim-management and release-management.                   *)
(*                                                                         *)
(* One application.  Every read or write of a request is a transaction of   *)
(* its own and a step.  Membership rows have ids: of those without an       *)
(* application, a user may have two in one tenant, since NULLs are not      *)
(* equal.  resolve_user_permissions is taken as far as the rows and the      *)
(* roles linked to them, a SELECT each: the two that follow, of what the     *)
(* roles mean in the tenant and grant, are those of DecisionRequest and      *)
(* Delegations, and a context keeps the roles its permissions come from.     *)
(***************************************************************************)
EXTENDS Integers, FiniteSets

CONSTANTS Workers,       \* threads that serve requests
          Callers,       \* caller_label of administrators
          Identities,    \* provider, issuer and subject
          Users, Rows,   \* ids of users and memberships, each used once
          Tenants, Roles, None,
          Starts,        \* databases to start from: app, manager, identities, members, mapping, auto
          Requests,      \* requests that are made
          MaxRequests, MaxSwitches   \* bounds on requests and on changes of a tenant's status

\* The requests of administrators, with the caller who makes them.
Write ==
  [kind : {"claim", "release", "catalog"}, who : Callers] \union
  [kind : {"state"}, who : Callers, tenant : Tenants, identity : Identities,
   status : {"active", "disabled"}, roles : SUBSET Roles] \union
  [kind : {"create"}, who : Callers, tenant : Tenants, scoped : BOOLEAN, user : Users, roles : SUBSET Roles] \union
  [kind : {"patch"}, who : Callers, row : Rows, status : {"active", "disabled"}, roles : SUBSET Roles]

\* Pre-provisioning, and a context: of an identity, with the external tenant of
\* its token or not, in a tenant that is given or not, for a caller bound to one.
Lookup ==
  [kind : {"user"}, identity : Identities] \union
  [kind : {"resolve"}, identity : Identities, ext : BOOLEAN, explicit : Tenants \union {None},
   bound : Tenants \union {None}]

Absent == [tenant |-> None, scoped |-> FALSE, user |-> None, status |-> "absent", roles |-> {}]
Member ==
  [tenant : Tenants, scoped : BOOLEAN, user : Users, status : {"active", "disabled"}, roles : SUBSET Roles]

\* A database to start from is one that this service made: its columns are of
\* their types, only an application that exists has a manager, and every user was
\* made with the identity it has.
ASSUME RequestsAssumption == Requests \subseteq Write \union Lookup
ASSUME NullAssumption == None \notin Callers \union Users \union Tenants
ASSUME StartsAssumption ==
  \A s \in Starts :
    /\ s.app \in BOOLEAN /\ s.manager \in Callers \union {None} /\ (s.manager # None => s.app)
    /\ s.members \in [Rows -> Member \union {Absent}]
    /\ s.mapping \in Tenants \union {None} /\ s.auto \in BOOLEAN
    /\ s.identities \in [Identities -> Users \union {None}]
    /\ \A i, j \in Identities : s.identities[i] = s.identities[j] /\ s.identities[i] # None => i = j

VARIABLES app,          \* the application exists
          manager,      \* applications.managed_by
          identities,   \* external_identities: the user of each identity, or None
          users,        \* rows of users
          tenants,      \* tenants.status
          mapping,      \* tenant_identity_mappings of the one external tenant
          members,      \* memberships by id
          auto,         \* auto_provision_user
          workers,
          requests, switches

db == <<app, manager, identities, users, tenants, mapping, members>>
vars == <<app, manager, identities, users, tenants, mapping, members, auto, workers, requests, switches>>

\* user, tenant, rows, roles: what was found.  History: was, facts that held at some
\* moment of the call; may, the caller was the manager, or there was none, at
\* some moment of it; held, the caller was the manager.
Idle == [pc |-> "idle", req |-> [kind |-> "none"], user |-> None, tenant |-> None, rows |-> {}, roles |-> {},
         was |-> {}, may |-> FALSE, held |-> FALSE, outcome |-> "none"]

RowsOf(ms, user, tenant, scoped) ==
  {m \in Rows : ms[m].user = user /\ ms[m].tenant = tenant /\ ms[m].scoped = scoped}

\* What a context rests on, as a set: tenants that are active, rows that are, with
\* their user and tenant, and the roles linked to each row, active or not.
Facts(ts, ms) ==
  {f \in {"active"} \X Tenants : ts[f[2]] = "active"} \union
  {f \in {"member"} \X Rows \X Users \X Tenants :
     ms[f[2]].status = "active" /\ ms[f[2]].user = f[3] /\ ms[f[2]].tenant = f[4]} \union
  {f \in {"linked"} \X Rows \X Roles : f[3] \in ms[f[2]].roles}

\* The steps of a worker: it goes on, or ends with an outcome.
Set(w, fields) == [workers EXCEPT ![w] = fields]
Go(w, pc) == workers' = Set(w, [workers[w] EXCEPT !.pc = pc])
End(w, outcome) ==
  workers' = Set(w, [workers[w] EXCEPT !.pc = "idle", !.outcome = outcome, !.was = {}, !.user = None,
                                       !.tenant = None, !.rows = {}, !.roles = {}])

\* Contexts under way notice what holds now, writers who the manager is.
Notices(k, ts, ms, mg) ==
  IF k.pc = "idle" \/ k.req.kind = "user" THEN k
  ELSE IF k.req.kind = "resolve" THEN [k EXCEPT !.was = @ \union Facts(ts, ms)]
  ELSE [k EXCEPT !.may = @ \/ mg \in {None, k.req.who}, !.held = @ \/ mg = k.req.who]
Noticing(ws, ts, ms, mg) == [w \in Workers |-> Notices(ws[w], ts, ms, mg)]

-----------------------------------------------------------------------------
Init ==
  \E s \in Starts :
    /\ app = s.app /\ manager = s.manager /\ identities = s.identities
    /\ members = s.members /\ mapping = s.mapping /\ auto = s.auto
    /\ users = {s.identities[i] : i \in Identities} \ {None}
    /\ tenants = [t \in Tenants |-> "active"]
    /\ workers = [w \in Workers |-> Idle]
    /\ requests = 0 /\ switches = 0

Begin(w, req) ==
  LET first == [resolve |-> "app", user |-> "upsert", claim |-> "app", release |-> "app",
                catalog |-> "app", state |-> "app", create |-> "app", patch |-> "row"]
      k == [Idle EXCEPT !.pc = IF req.kind = "create" /\ ~ req.scoped THEN "write" ELSE first[req.kind],
                        !.req = req]
  IN
  /\ workers[w].pc = "idle" /\ requests < MaxRequests
  /\ req.kind = "create" => req.user \in users
  /\ req.kind = "patch" => members[req.row] # Absent
  /\ requests' = requests + 1
  /\ workers' = Set(w, Notices(k, tenants, members, manager))
  /\ UNCHANGED <<db, auto, switches>>

\* update_tenant: an operator suspends a tenant or brings it back.
SwitchTenant(t) ==
  /\ switches < MaxSwitches /\ switches' = switches + 1
  /\ tenants' = [tenants EXCEPT ![t] = IF @ = "active" THEN "disabled" ELSE "active"]
  /\ workers' = Noticing(workers, tenants', members, manager)
  /\ UNCHANGED <<app, manager, identities, users, mapping, members, auto, requests>>

\* create_tenant_mapping, once: provider, issuer and external id are unique.
MapTenant(t) ==
  /\ mapping = None /\ switches < MaxSwitches /\ switches' = switches + 1
  /\ mapping' = t
  /\ UNCHANGED <<app, manager, identities, users, tenants, members, auto, workers, requests>>

-----------------------------------------------------------------------------
(* ManagementGuard *)

\* check, and manager_only for the state of a tenant.
Allows(req) ==
  IF req.kind = "state" THEN manager = req.who ELSE manager \in {None, req.who}

\* The application is read, with its manager: 404 without one, except for the
\* catalog call that will create it; 403 for a guarded write of somebody else;
\* a claim is settled here unless there is no manager.
FindApp(w) ==
  LET req == workers[w].req IN
  /\ workers[w].pc = "app"
  /\ \/ ~ app /\ req.kind # "catalog" /\ End(w, "unknown")
     \/ app /\ req.kind = "resolve" /\ Go(w, "user")
     \/ app /\ req.kind = "release" /\ Go(w, "release")
     \/ app /\ req.kind = "claim" /\ manager = None /\ Go(w, "claim")
     \/ app /\ req.kind = "claim" /\ manager # None
           /\ End(w, IF manager = req.who THEN "claimed" ELSE "conflict")
     \/ /\ app \/ req.kind = "catalog"
        /\ req.kind \in {"catalog", "state", "create", "patch"}
        /\ IF app /\ ~ Allows(req) THEN End(w, "forbidden") ELSE Go(w, "write")
  /\ UNCHANGED <<db, auto, requests, switches>>

\* managed_membership: the row tells the application, none needs no check.
FindRow(w) ==
  /\ workers[w].pc = "row"
  /\ Go(w, IF members[workers[w].req.row].scoped THEN "app" ELSE "write")
  /\ UNCHANGED <<db, auto, requests, switches>>

-----------------------------------------------------------------------------
(* Management of the application *)

\* Mutation: the manager is written as the request found it, unconditionally.
ClaimBlindly(w) ==
  /\ workers[w].pc = "claim"
  /\ manager' = workers[w].req.who
  /\ workers' = Noticing(Set(w, [workers[w] EXCEPT !.pc = "claimed"]), tenants, members, manager')
  /\ UNCHANGED <<app, identities, users, tenants, mapping, members, auto, requests, switches>>

\* claim_application_management: UPDATE ... WHERE managed_by IS NULL
Claim(w) ==
  /\ workers[w].pc = "claim"
  /\ manager' = IF manager = None THEN workers[w].req.who ELSE manager
  /\ workers' = Noticing(Set(w, [workers[w] EXCEPT !.pc = "claimed"]), tenants, members, manager')
  /\ UNCHANGED <<app, identities, users, tenants, mapping, members, auto, requests, switches>>

\* and, after the commit, the SELECT that the answer is made from.
Claimed(w) ==
  /\ workers[w].pc = "claimed"
  /\ End(w, IF manager = workers[w].req.who THEN "claimed" ELSE "conflict")
  /\ UNCHANGED <<db, auto, requests, switches>>

\* set_application_managed_by(None), whoever manages it by now.
Release(w) ==
  /\ workers[w].pc = "release"
  /\ manager' = None
  /\ workers' = Noticing(Set(w, [workers[w] EXCEPT !.pc = "idle", !.outcome = "released"]),
                         tenants, members, None)
  /\ UNCHANGED <<app, identities, users, tenants, mapping, members, auto, requests, switches>>

-----------------------------------------------------------------------------
(* Guarded writes *)

\* apply_application_catalog: the application is created with its manager; one
\* that is there by now is written as it is.
WriteCatalog(w) ==
  /\ workers[w].pc = "write" /\ workers[w].req.kind = "catalog"
  /\ app' = TRUE
  /\ manager' = IF app THEN manager ELSE workers[w].req.who
  /\ workers' = Noticing(Set(w, [workers[w] EXCEPT !.pc = "idle", !.outcome = "written"]),
                         tenants, members, manager')
  /\ UNCHANGED <<identities, users, tenants, mapping, members, auto, requests, switches>>

Fresh(ids, taken) == IF ids = taken THEN None ELSE CHOOSE i \in ids : i \notin taken
Taken == {m \in Rows : members[m] # Absent}

\* apply_tenant_state: the listed identity gets a user and a membership with the
\* listed status, the other memberships of the tenant and the application are
\* disabled.  Or nothing of it happens: a name is unknown, or another transaction
\* was first with a row that is unique.
WriteState(w) ==
  LET req == workers[w].req
      u == IF identities[req.identity] # None THEN identities[req.identity] ELSE Fresh(Users, users)
      own == RowsOf(members, u, req.tenant, TRUE)
      here == {m \in Rows : members[m].tenant = req.tenant /\ members[m].scoped}
      row == [tenant |-> req.tenant, scoped |-> TRUE, user |-> u, status |-> req.status, roles |-> req.roles]
  IN
  /\ workers[w].pc = "write" /\ req.kind = "state"
  /\ \/ End(w, "failed") /\ UNCHANGED <<identities, users, members>>
     \/ /\ u # None /\ (own = {} => Taken # Rows)
        /\ identities' = [identities EXCEPT ![req.identity] = u]
        /\ users' = users \union {u}
        /\ members' = [m \in Rows |->
             IF m \in own \/ (own = {} /\ m = Fresh(Rows, Taken)) THEN row
             ELSE IF m \in here THEN [members[m] EXCEPT !.status = "disabled"] ELSE members[m]]
        /\ workers' = Noticing(Set(w, [workers[w] EXCEPT !.pc = "idle", !.outcome = "written"]),
                               tenants, members', manager)
  /\ UNCHANGED <<app, manager, tenants, mapping, auto, requests, switches>>

\* create_membership: tenant, application and user are unique, where there is
\* an application.
WriteMembership(w) ==
  LET req == workers[w].req
      row == [tenant |-> req.tenant, scoped |-> req.scoped, user |-> req.user,
              status |-> "active", roles |-> req.roles]
  IN
  /\ workers[w].pc = "write" /\ req.kind = "create"
  /\ IF req.scoped /\ RowsOf(members, req.user, req.tenant, TRUE) # {}
     THEN End(w, "failed") /\ UNCHANGED members
     ELSE /\ Taken # Rows
          /\ members' = [members EXCEPT ![Fresh(Rows, Taken)] = row]
          /\ workers' = Noticing(Set(w, [workers[w] EXCEPT !.pc = "idle", !.outcome = "written"]),
                                 tenants, members', manager)
  /\ UNCHANGED <<app, manager, identities, users, tenants, mapping, auto, requests, switches>>

\* update_membership: the status first, then, in a transaction of their own, the
\* roles.
PatchStatus(w) ==
  LET req == workers[w].req IN
  /\ workers[w].pc = "write" /\ req.kind = "patch"
  /\ members' = [members EXCEPT ![req.row].status = req.status]
  /\ workers' = Noticing(Set(w, [workers[w] EXCEPT !.pc = "roles"]), tenants, members', manager)
  /\ UNCHANGED <<app, manager, identities, users, tenants, mapping, auto, requests, switches>>

PatchRoles(w) ==
  LET req == workers[w].req IN
  /\ workers[w].pc = "roles"
  /\ members' = [members EXCEPT ![req.row].roles = req.roles]
  /\ workers' = Noticing(Set(w, [workers[w] EXCEPT !.pc = "idle", !.outcome = "written"]),
                         tenants, members', manager)
  /\ UNCHANGED <<app, manager, identities, users, tenants, mapping, auto, requests, switches>>

-----------------------------------------------------------------------------
(* _resolve_user, upsert_user_from_identity *)

With(w, user) ==
  IF workers[w].req.kind = "user"
  THEN workers' = Set(w, [workers[w] EXCEPT !.pc = "idle", !.user = user, !.outcome = "user"])
  ELSE workers' = Set(w, [workers[w] EXCEPT !.pc = "tenant", !.user = user])

\* find_user_by_external_identity
FindUser(w) ==
  LET user == identities[workers[w].req.identity] IN
  /\ workers[w].pc = "user"
  /\ \/ user # None /\ workers' = Set(w, [workers[w] EXCEPT !.pc = "tenant", !.user = user])
     \/ user = None /\ auto /\ Go(w, "upsert")
     \/ user = None /\ ~ auto /\ End(w, "denied")
  /\ UNCHANGED <<db, auto, requests, switches>>

\* The transaction looks for the identity again,
Upsert(w) ==
  LET user == identities[workers[w].req.identity] IN
  /\ workers[w].pc = "upsert"
  /\ IF user # None THEN With(w, user) ELSE Go(w, "insert")
  /\ UNCHANGED <<db, auto, requests, switches>>

\* Mutation: the user is committed before its identity.
InsertApart(w) ==
  LET i == workers[w].req.identity
      u == Fresh(Users, users)
  IN
  /\ workers[w].pc = "insert" /\ u # None
  /\ users' = users \union {u}
  /\ IF identities[i] # None THEN End(w, "failed") /\ UNCHANGED identities
     ELSE With(w, u) /\ identities' = [identities EXCEPT ![i] = u]
  /\ UNCHANGED <<app, manager, tenants, mapping, members, auto, requests, switches>>

\* and inserts user and identity: whoever is second violates the constraint and
\* is rolled back.
Insert(w) ==
  LET i == workers[w].req.identity
      u == Fresh(Users, users)
  IN
  /\ workers[w].pc = "insert"
  /\ \/ identities[i] # None /\ End(w, "failed") /\ UNCHANGED <<identities, users>>
     \/ /\ identities[i] = None /\ u # None /\ With(w, u)
        /\ users' = users \union {u} /\ identities' = [identities EXCEPT ![i] = u]
  /\ UNCHANGED <<app, manager, tenants, mapping, members, auto, requests, switches>>

-----------------------------------------------------------------------------
(* _resolve_tenant *)

\* The tenant has been read: it must be active.
In(w, t) ==
  IF tenants[t] # "active" THEN End(w, "denied")
  ELSE workers' = Set(w, [workers[w] EXCEPT !.pc = "member", !.tenant = t])

\* The one that is given, else the one the external tenant is mapped to.
FindTenant(w) ==
  LET req == workers[w].req IN
  /\ workers[w].pc = "tenant"
  /\ \/ req.explicit # None /\ In(w, req.explicit)
     \/ req.explicit = None /\ req.ext /\ mapping # None /\ In(w, mapping)
     \/ req.explicit = None /\ ~ (req.ext /\ mapping # None) /\ Go(w, "single")
  /\ UNCHANGED <<db, auto, requests, switches>>

\* Else that of all active memberships of the user, if it is one,
FindSingle(w) ==
  LET ts == {members[m].tenant : m \in {r \in Rows : /\ members[r].user = workers[w].user
                                                     /\ members[r].status = "active"}}
  IN
  /\ workers[w].pc = "single"
  /\ IF Cardinality(ts) # 1 THEN End(w, "denied")
     ELSE workers' = Set(w, [workers[w] EXCEPT !.pc = "sole", !.tenant = CHOOSE t \in ts : TRUE])
  /\ UNCHANGED <<db, auto, requests, switches>>

\* which is then read.
FindSole(w) ==
  /\ workers[w].pc = "sole"
  /\ In(w, workers[w].tenant)
  /\ UNCHANGED <<db, auto, requests, switches>>

-----------------------------------------------------------------------------
(* The membership and its permissions *)

\* Mutation: the status is not looked at.
FindMemberAnyStatus(w) ==
  LET own == RowsOf(members, workers[w].user, workers[w].tenant, TRUE) IN
  /\ workers[w].pc = "member"
  /\ Go(w, IF own = {} THEN "wide" ELSE "perms")
  /\ UNCHANGED <<db, auto, requests, switches>>

\* The row bound to the application decides if there is one.
FindMember(w) ==
  LET own == RowsOf(members, workers[w].user, workers[w].tenant, TRUE) IN
  /\ workers[w].pc = "member"
  /\ \/ own = {} /\ Go(w, "wide")
     \/ \E m \in own : IF members[m].status = "active" THEN Go(w, "perms") ELSE End(w, "denied")
  /\ UNCHANGED <<db, auto, requests, switches>>

\* enforce_tenant_scope_binding, at the end.
Answer(w, roles) ==
  IF workers[w].req.bound \in {None, workers[w].tenant}
  THEN workers' = Set(w, [workers[w] EXCEPT !.pc = "idle", !.rows = {}, !.roles = roles,
                                           !.outcome = "context"])
  ELSE End(w, "forbidden")

\* Else a tenant-wide row, any of them; it brings no permissions.
FindWide(w) ==
  LET wide == RowsOf(members, workers[w].user, workers[w].tenant, FALSE) IN
  /\ workers[w].pc = "wide"
  /\ \/ wide = {} /\ End(w, "denied")
     \/ \E m \in wide : IF members[m].status = "active" THEN Answer(w, {}) ELSE End(w, "denied")
  /\ UNCHANGED <<db, auto, requests, switches>>

\* resolve_user_permissions: the active rows, bound or tenant-wide; without one
\* there are no permissions;
ReadRows(w) ==
  LET rows == {m \in Rows : /\ members[m].user = workers[w].user /\ members[m].tenant = workers[w].tenant
                            /\ members[m].status = "active"}
  IN
  /\ workers[w].pc = "perms"
  /\ IF rows = {} THEN Answer(w, {})
     ELSE workers' = Set(w, [workers[w] EXCEPT !.pc = "links", !.rows = rows])
  /\ UNCHANGED <<db, auto, requests, switches>>

\* the roles linked to them by now, whatever has become of the rows.
ReadLinks(w) ==
  /\ workers[w].pc = "links"
  /\ Answer(w, UNION {members[m].roles : m \in workers[w].rows})
  /\ UNCHANGED <<db, auto, requests, switches>>

-----------------------------------------------------------------------------
Step(w) ==
  \/ \E req \in Requests : Begin(w, req)
  \/ FindApp(w) \/ FindRow(w) \/ Claim(w) \/ Claimed(w) \/ Release(w)
  \/ WriteCatalog(w) \/ WriteState(w) \/ WriteMembership(w) \/ PatchStatus(w) \/ PatchRoles(w)
  \/ FindUser(w) \/ Upsert(w) \/ Insert(w)
  \/ FindTenant(w) \/ FindSingle(w) \/ FindSole(w)
  \/ FindMember(w) \/ FindWide(w) \/ ReadRows(w) \/ ReadLinks(w)

Next ==
  \/ \E t \in Tenants : SwitchTenant(t) \/ MapTenant(t)
  \/ \E w \in Workers : Step(w)

Spec == Init /\ [][Next]_vars

-----------------------------------------------------------------------------
(* Properties *)

\* Every identity has at most one user and every user one identity, through
\* concurrent first logins, pre-provisioning and tenant states, the losers of
\* which leave nothing behind; and whoever was told a user was told that one.
OneUserPerIdentity ==
  /\ users = {identities[i] : i \in Identities} \ {None}
  /\ \A i, j \in Identities : identities[i] = identities[j] /\ identities[i] # None => i = j
  /\ \A w \in Workers : workers[w].outcome \in {"user", "context"} =>
       workers[w].user = identities[workers[w].req.identity]

\* An active row of this user and tenant, at some moment that was noticed.
ActiveRow(was, m, user, tenant) == m \in Rows /\ <<"member", m, user, tenant>> \in was

\* What a context of user and tenant needs: the tenant was active, the user had an
\* active row there, and each role has a row of this user and tenant that was
\* active and linked to it, each at some moment, not always the same.
Grounded(was, user, tenant, roles) ==
  /\ <<"active", tenant>> \in was
  /\ \E m \in Rows : ActiveRow(was, m, user, tenant)
  /\ \A r \in roles : \E m \in Rows : ActiveRow(was, m, user, tenant) /\ <<"linked", m, r>> \in was

\* Every row is of its type, and a context is never made up: each thing it rests
\* on was so at some moment of the call, though each is read on its own, and those
\* moments may differ (a role may be linked to a row only after the row was
\* disabled, and is still used); the tenant is the one asked for and one the
\* caller is bound to.
ContextsHold ==
  /\ \A m \in Rows : members[m] \in Member \union {Absent}
  /\ \A w \in Workers :
       LET k == workers[w] IN
       k.outcome = "context" =>
         /\ Grounded(k.was, k.user, k.tenant, k.roles)
         /\ k.req.explicit \in {None, k.tenant} /\ k.req.bound \in {None, k.tenant}

\* Nobody takes the application from its manager; whoever ends a call with a claim
\* held it, with a guarded write may have made it, at some moment of the call.
ManagementStep ==
  /\ manager # None => manager' \in {manager, None}
  /\ \A w \in Workers :
       workers[w].pc # "idle" /\ workers'[w].pc = "idle" =>
         /\ workers'[w].outcome = "claimed" => workers'[w].held
         /\ workers'[w].outcome = "written"
            /\ (workers[w].req.kind = "create" => workers[w].req.scoped)
            /\ (workers[w].req.kind = "patch" => members[workers[w].req.row].scoped)
            => workers'[w].may

\* Management changes hands only through a release: whatever claims, releases
\* and catalogs overlap, nobody takes an application from its manager; a caller
\* told that it manages the application did at some moment of the call; and a
\* guarded write is one of a caller who managed it, or found it free, at some
\* moment of the call.
ManagementIsExclusive == [][ManagementStep]_vars

-----------------------------------------------------------------------------
(* What makes them inductive *)

\* What a worker does at each point is what its request asks for, and a request
\* under way has no outcome yet.
Placed(k) ==
  /\ k = [pc |-> k.pc, req |-> k.req, user |-> k.user, tenant |-> k.tenant, rows |-> k.rows, roles |-> k.roles,
          was |-> k.was, may |-> k.may, held |-> k.held, outcome |-> k.outcome]
  /\ k.may \in BOOLEAN /\ k.held \in BOOLEAN
  /\ k.outcome \in {"user", "context"} => k.req \in Requests /\ k.req.kind \in {"user", "resolve"}
  /\ k.pc # "idle" => k.req \in Requests /\ k.outcome = "none"
  /\ k.pc = "app" => k.req.kind # "user"
  /\ k.pc \in {"claim", "claimed"} => k.req.kind = "claim"
  /\ k.pc \in {"row", "roles"} => k.req.kind = "patch"
  /\ k.pc = "release" => k.req.kind = "release"
  /\ k.pc = "write" => k.req.kind \in {"catalog", "state", "create", "patch"}
  /\ k.pc \in {"upsert", "insert"} => k.req.kind \in {"user", "resolve"}
  /\ k.pc \in {"user", "tenant", "single", "sole", "member", "wide", "perms", "links"} => k.req.kind = "resolve"

\* A user that was found is the one of the identity, and stays so.
UserFound(k, ids) ==
  \/ k.pc \in {"tenant", "single", "sole", "member", "wide", "perms", "links"}
  \/ k.outcome \in {"user", "context"}
  => k.user \in Users /\ k.user = ids[k.req.identity]

\* What a context has read so far, and what it answers, was true when it was read.
Evidence(k) ==
  /\ k.pc = "single" => k.req.explicit = None
  /\ k.pc = "sole" => k.tenant \in Tenants /\ k.req.explicit = None
  /\ k.pc \in {"member", "wide", "perms", "links"} =>
       k.tenant \in Tenants /\ k.req.explicit \in {None, k.tenant} /\ <<"active", k.tenant>> \in k.was
  /\ k.pc \in {"perms", "links"} => \E m \in Rows : ActiveRow(k.was, m, k.user, k.tenant)
  /\ k.pc = "links" => \A m \in k.rows : ActiveRow(k.was, m, k.user, k.tenant)
  /\ k.outcome = "context" =>
       /\ Grounded(k.was, k.user, k.tenant, k.roles)
       /\ k.req.explicit \in {None, k.tenant} /\ k.req.bound \in {None, k.tenant}

\* Who is under way has noticed what holds now.
Watching(k, ts, ms, mg) ==
  k.pc # "idle" =>
    /\ k.req.kind = "resolve" => Facts(ts, ms) \subseteq k.was
    /\ k.req.kind \notin {"resolve", "user"} =>
         (mg \in {None, k.req.who} => k.may) /\ (mg = k.req.who => k.held)

\* A write that needs the guard has passed it.  The row of a patch exists, and
\* neither disappears nor changes what it is bound to.
Guarded(k, ms) ==
  /\ k.pc # "idle" /\ k.req.kind = "patch" => ms[k.req.row] # Absent
  /\ k.pc = "app" /\ k.req.kind = "create" => k.req.scoped
  /\ \/ k.pc = "write" /\ k.req.kind \in {"catalog", "state"}
     \/ k.pc = "write" /\ k.req.kind = "create" /\ k.req.scoped
     \/ k.pc \in {"write", "roles"} /\ k.req.kind = "patch" /\ ms[k.req.row].scoped
     => k.may

WorkerOK(k, ids, ts, ms, mg) ==
  /\ Placed(k) /\ UserFound(k, ids) /\ Evidence(k)
  /\ Watching(k, ts, ms, mg) /\ Guarded(k, ms)

\* The tables, of which a missing application has no manager and identities have
\* users of their own.
TablesOK ==
  /\ app \in BOOLEAN /\ manager \in Callers \union {None} /\ (manager # None => app)
  /\ identities \in [Identities -> Users \union {None}]
  /\ users = {identities[i] : i \in Identities} \ {None}
  /\ \A i, j \in Identities : identities[i] = identities[j] /\ identities[i] # None => i = j
  /\ tenants \in [Tenants -> {"active", "disabled"}]
  /\ mapping \in Tenants \union {None}
  /\ members \in [Rows -> Member \union {Absent}]
  /\ auto \in BOOLEAN

DirectoryInv ==
  /\ TablesOK
  /\ workers = [w \in Workers |-> workers[w]]
  /\ \A w \in Workers : WorkerOK(workers[w], identities, tenants, members, manager)
  /\ \A w \in Workers : workers[w].pc = "claim" => app
=============================================================================
