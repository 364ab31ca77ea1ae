----------------------------- MODULE RbacStore -----------------------------
(***************************************************************************)
(* The role-based access-control tables of SqlAlchemyStore                 *)
(* (authzkit/storage/sqlalchemy.py) and the administrative writes to them: *)
(* the REST handlers of authz_service/api and the declarative provisioning *)
(* of an application catalog, tenant state and tenant role overrides.      *)
(*                                                                         *)
(* A write is one transaction and one step.  Rows are identified by their  *)
(* unique key; ids, descriptions, timestamps and counters of results are   *)
(* left out.  What a request reads from these tables is in the operators   *)
(* of the section "Reads"; Engine decides with them.                       *)
(***************************************************************************)
EXTENDS Integers, FiniteSets

CONSTANTS Tenants, Apps, Users, Agents,  \* tenants, applications, users, agent names
          RoleNames, Perms,              \* role names, permission names
          MaskNames,                     \* what a tenant mask lists (not validated)
          None,                          \* SQL NULL: application-wide, tenant-wide
          Scopes,                        \* applications of roles, permissions, memberships
          MaxWrites                      \* bound on the administrative writes

ASSUME ScopesAssumption == /\ Apps \subseteq Scopes /\ Scopes \subseteq Apps \union {None}
                           /\ None \notin Apps \union Tenants \union Agents
ASSUME NamesAssumption == RoleNames \intersect Agents = {}

VARIABLES tenants,      \* tenants.status
          apps,         \* applications.status
          perms,        \* permissions: absent, active or deprecated
          roles,        \* rows of roles
          rolePerms,    \* role_permissions
          memberships,  \* memberships.status, or absent
          memberRoles,  \* membership_roles
          agents,       \* agents.status, or absent
          agentRoles,   \* agent_roles
          mask,         \* tenant_permission_masks
          writes        \* number of writes so far

rbacVars == <<tenants, apps, perms, roles, rolePerms, memberships, memberRoles,
              agents, agentRoles, mask, writes>>

\* Internal per-agent roles (agent_id set, named "agent:<name>") carry the name
\* of their agent; the other roles are the named roles.
PermRow    == [app : Scopes, name : Perms]
RoleRow    == [tenant : Tenants \union {None}, app : Scopes, name : RoleNames \union Agents]
MemberKey  == [tenant : Tenants, app : Scopes, user : Users]
AgentKey   == [tenant : Tenants, app : Apps, name : Agents]
Statuses   == {"active", "disabled"}
Internal(r) == r.name \in Agents
InternalRole(g) == [tenant |-> g.tenant, app |-> g.app, name |-> g.name]

-----------------------------------------------------------------------------
(* Reads *)

\* _active_permissions: the assignable permission rows of an application.
ActivePermissions(app, names) ==
  {p \in PermRow : p.app = app /\ p.name \in names /\ perms[p] = "active"}

\* _named_roles / _role_by_name: the role row of that key, if it exists.
RoleByName(app, tenant, name) ==
  {r \in roles : r.app = app /\ r.tenant = tenant /\ r.name = name /\ ~ Internal(r)}

\* Mutation: roles of every tenant.
AssignableRolesAnyTenant(tenant, app, names) ==
  {r \in roles : r.app = app /\ r.name \in names /\ ~ Internal(r)}

\* _assignable_roles: tenant-first, the application-wide role otherwise.
AssignableRoles(tenant, app, names) ==
  LET rows == {r \in roles : /\ r.app = app /\ r.name \in names /\ ~ Internal(r)
                             /\ r.tenant \in {tenant, None}}
  IN  {r \in rows : r.tenant # None \/ ~ \E o \in rows : o.tenant # None /\ o.name = r.name}

\* _effective_role_ids: a tenant role named like a linked application-wide
\* role overrides it; links to another tenant's role grant nothing.
Override(tenant, r) == RoleByName(r.app, tenant, r.name)

\* Mutation: an override counts for those linked to it only.
EffectiveRolesLinked(tenant, linked) == {r \in linked : r.tenant \in {None, tenant}}

EffectiveRoles(tenant, linked) ==
  LET own == {r \in linked : r.tenant \in {None, tenant}}
      plain == {r \in own : r.tenant = None /\ ~ Internal(r)}
  IN  (own \ plain) \union
      UNION {IF Override(tenant, r) # {} THEN Override(tenant, r) ELSE {r} : r \in plain}

EligibleMemberships(tenant, app, user) ==
  {m \in MemberKey : /\ m.tenant = tenant /\ m.user = user
                     /\ m.app \in {app, None} /\ memberships[m] = "active"}

\* The active permissions that the roles carry.
GrantedRows(granting) ==
  {p \in PermRow : perms[p] = "active" /\ \E r \in granting : p \in rolePerms[r]}

Names(rows) == {p.name : p \in rows}

ResolveUserPermissions(tenant, app, user) ==
  LET linked == UNION {memberRoles[m] : m \in EligibleMemberships(tenant, app, user)}
  IN  Names({p \in GrantedRows(EffectiveRoles(tenant, linked)) : p.app \in {app, None}})

\* Mutation: the links of an agent taken as they are.
ResolveAgentPermissionsLinked(tenant, app, g) ==
  IF agents[g] = "absent" \/ g.tenant # tenant \/ g.app # app THEN {}
  ELSE Names(GrantedRows(agentRoles[g]))

\* resolve_agent_permissions of the agent row g, asked for in a tenant and an
\* application that need not be its own.
ResolveAgentPermissions(tenant, app, g) ==
  IF agents[g] = "absent" \/ g.tenant # tenant \/ g.app # app THEN {}
  ELSE Names(GrantedRows(EffectiveRoles(tenant, agentRoles[g])))

ResolveTenantPermissions(tenant, app) == mask[<<tenant, app>>]

\* is_user_membership_active: the row of the application decides; without one
\* the tenant-wide row does.
MembershipRow(tenant, app, user) == [tenant |-> tenant, app |-> app, user |-> user]

IsUserMembershipActive(tenant, app, user) ==
  LET own  == MembershipRow(tenant, app, user)
      wide == MembershipRow(tenant, None, user)
  IN  \/ memberships[own] = "active"
      \/ memberships[own] = "absent" /\ None \in Scopes /\ memberships[wide] = "active"

IsAgentActive(tenant, app, g) ==
  agents[g] = "active" /\ g.tenant = tenant /\ g.app = app

-----------------------------------------------------------------------------
(* Administrative writes *)

RbacInit == /\ tenants = [t \in Tenants |-> "active"]
            /\ apps = [a \in Apps |-> "active"]
            /\ perms = [p \in PermRow |-> "absent"]
            /\ roles = {}
            /\ rolePerms = [r \in RoleRow |-> {}]
            /\ memberships = [m \in MemberKey |-> "absent"]
            /\ memberRoles = [m \in MemberKey |-> {}]
            /\ agents = [g \in AgentKey |-> "absent"]
            /\ agentRoles = [g \in AgentKey |-> {}]
            /\ mask = [ta \in Tenants \X Apps |-> {}]
            /\ writes = 0

Write == writes < MaxWrites /\ writes' = writes + 1

\* update_tenant, update_application: the kill switches of a tenant and of an
\* application.
SetTenantStatus(t, status) ==
  /\ Write
  /\ tenants' = [tenants EXCEPT ![t] = status]
  /\ UNCHANGED <<apps, perms, roles, rolePerms, memberships, memberRoles, agents,
                 agentRoles, mask>>

SetApplicationStatus(a, status) ==
  /\ Write
  /\ apps' = [apps EXCEPT ![a] = status]
  /\ UNCHANGED <<tenants, perms, roles, rolePerms, memberships, memberRoles, agents,
                 agentRoles, mask>>

CreatePermission(p) ==
  /\ Write
  /\ perms[p] = "absent"
  /\ perms' = [perms EXCEPT ![p] = "active"]
  /\ UNCHANGED <<tenants, apps, roles, rolePerms, memberships, memberRoles, agents,
                 agentRoles, mask>>

CreateRole(r) ==
  /\ Write
  /\ r \notin roles /\ ~ Internal(r)
  /\ roles' = roles \union {r}
  /\ UNCHANGED <<tenants, apps, perms, rolePerms, memberships, memberRoles, agents,
                 agentRoles, mask>>

\* set_role_permissions: unknown and deprecated names are refused.
SetRolePermissions(r, names) ==
  /\ Write
  /\ r \in roles
  /\ names \subseteq Names(ActivePermissions(r.app, names))
  /\ rolePerms' = [rolePerms EXCEPT ![r] = ActivePermissions(r.app, names)]
  /\ UNCHANGED <<tenants, apps, perms, roles, memberships, memberRoles, agents,
                 agentRoles, mask>>

\* create_membership: role names that resolve to nothing are dropped.
CreateMembership(m, status, names) ==
  /\ Write
  /\ memberships[m] = "absent"
  /\ memberships' = [memberships EXCEPT ![m] = status]
  /\ memberRoles' = [memberRoles EXCEPT ![m] = AssignableRoles(m.tenant, m.app, names)]
  /\ UNCHANGED <<tenants, apps, perms, roles, rolePerms, agents, agentRoles, mask>>

\* update_membership writes status and roles in a transaction each.
SetMembershipStatus(m, status) ==
  /\ Write
  /\ memberships[m] # "absent"
  /\ memberships' = [memberships EXCEPT ![m] = status]
  /\ UNCHANGED <<tenants, apps, perms, roles, rolePerms, memberRoles, agents,
                 agentRoles, mask>>

SetMembershipRoles(m, names) ==
  /\ Write
  /\ memberships[m] # "absent"
  /\ memberRoles' = [memberRoles EXCEPT ![m] = AssignableRoles(m.tenant, m.app, names)]
  /\ UNCHANGED <<tenants, apps, perms, roles, rolePerms, memberships, agents,
                 agentRoles, mask>>

CreateAgent(g, status) ==
  /\ Write
  /\ agents[g] = "absent"
  /\ agents' = [agents EXCEPT ![g] = status]
  /\ UNCHANGED <<tenants, apps, perms, roles, rolePerms, memberships, memberRoles,
                 agentRoles, mask>>

\* set_agent_roles: unknown role names are refused.
SetAgentRoles(g, names) ==
  /\ Write
  /\ agents[g] # "absent"
  /\ names \subseteq Names(AssignableRoles(g.tenant, g.app, names))
  /\ agentRoles' = [agentRoles EXCEPT ![g] = AssignableRoles(g.tenant, g.app, names)]
  /\ UNCHANGED <<tenants, apps, perms, roles, rolePerms, memberships, memberRoles,
                 agents, mask>>

SetTenantPermissionMask(t, a, names) ==
  /\ Write
  /\ mask' = [mask EXCEPT ![<<t, a>>] = names]
  /\ UNCHANGED <<tenants, apps, perms, roles, rolePerms, memberships, memberRoles,
                 agents, agentRoles>>

-----------------------------------------------------------------------------
(* Declarative provisioning *)

\* apply_application_catalog: listed permissions become active, the others of
\* the application deprecated; each default role gets exactly its listed ones.
DefaultRole(a, n) == [tenant |-> None, app |-> a, name |-> n]

ApplyCatalog(a, listed, defaults) ==
  /\ Write
  /\ \A n \in DOMAIN defaults : defaults[n] \subseteq listed
  /\ perms' = [p \in PermRow |->
       IF p.app # a THEN perms[p]
       ELSE IF p.name \in listed THEN "active"
       ELSE IF perms[p] = "absent" THEN "absent" ELSE "deprecated"]
  /\ roles' = roles \union {DefaultRole(a, n) : n \in DOMAIN defaults}
  /\ rolePerms' = [r \in RoleRow |->
       IF r.tenant = None /\ r.app = a /\ r.name \in DOMAIN defaults
       THEN [app : {a}, name : defaults[r.name]] ELSE rolePerms[r]]
  /\ UNCHANGED <<tenants, apps, memberships, memberRoles, agents, agentRoles, mask>>

\* set_tenant_role_override: the default role exists (checked by the handler);
\* the tenant's role of that name gets exactly the permissions.
SetTenantRoleOverride(t, a, n, names) ==
  LET o == [tenant |-> t, app |-> a, name |-> n] IN
  /\ Write
  /\ RoleByName(a, None, n) # {}
  /\ names \subseteq Names(ActivePermissions(a, names))
  /\ roles' = roles \union {o}
  /\ rolePerms' = [rolePerms EXCEPT ![o] = ActivePermissions(a, names)]
  /\ UNCHANGED <<tenants, apps, perms, memberships, memberRoles, agents, agentRoles, mask>>

\* Mutation: holders lose the role.
RelinkDropped(links, o, default) == links \ {o}

\* delete_tenant_role_override: holders of the override get the default role.
Relink(links, o, default) ==
  IF o \in links THEN (links \ {o}) \union {default} ELSE links

DeleteTenantRoleOverride(t, a, n) ==
  LET o == [tenant |-> t, app |-> a, name |-> n] IN
  /\ Write
  /\ o \in roles
  /\ RoleByName(a, None, n) # {}
  /\ roles' = roles \ {o}
  /\ rolePerms' = [rolePerms EXCEPT ![o] = {}]
  /\ memberRoles' = [m \in MemberKey |-> Relink(memberRoles[m], o, DefaultRole(a, n))]
  /\ agentRoles' = [g \in AgentKey |-> Relink(agentRoles[g], o, DefaultRole(a, n))]
  /\ UNCHANGED <<tenants, apps, perms, memberships, agents, mask>>

\* apply_tenant_state: wantedMembers and wantedAgents map the listed users and
\* agents to status and roles or permissions; unlisted ones are disabled.
StateValid(t, a, wantedMembers, wantedAgents) ==
  /\ \A u \in DOMAIN wantedMembers :
       wantedMembers[u].roles \subseteq Names(AssignableRoles(t, a, wantedMembers[u].roles))
  /\ \A g \in DOMAIN wantedAgents :
       wantedAgents[g].perms \subseteq Names(ActivePermissions(a, wantedAgents[g].perms))

\* The status a row of the tenant and application ends with.
AppliedStatus(status, key, wanted) ==
  IF key \in DOMAIN wanted THEN wanted[key].status
  ELSE IF status = "absent" THEN "absent" ELSE "disabled"

ApplyTenantState(t, a, wantedMembers, wantedAgents) ==
  LET here(k) == k.tenant = t /\ k.app = a IN
  /\ Write
  /\ StateValid(t, a, wantedMembers, wantedAgents)
  /\ memberships' = [m \in MemberKey |->
       IF here(m) THEN AppliedStatus(memberships[m], m.user, wantedMembers)
       ELSE memberships[m]]
  /\ memberRoles' = [m \in MemberKey |->
       IF here(m) /\ m.user \in DOMAIN wantedMembers
       THEN AssignableRoles(t, a, wantedMembers[m.user].roles) ELSE memberRoles[m]]
  /\ agents' = [g \in AgentKey |->
       IF here(g) THEN AppliedStatus(agents[g], g.name, wantedAgents) ELSE agents[g]]
  /\ roles' = roles \union {r \in RoleRow : here(r) /\ r.name \in DOMAIN wantedAgents}
  /\ rolePerms' = [r \in RoleRow |->
       IF here(r) /\ r.name \in DOMAIN wantedAgents
       THEN ActivePermissions(a, wantedAgents[r.name].perms) ELSE rolePerms[r]]
  /\ agentRoles' = [g \in AgentKey |->
       IF here(g) /\ g.name \in DOMAIN wantedAgents THEN {InternalRole(g)} ELSE agentRoles[g]]
  /\ UNCHANGED <<tenants, apps, perms, mask>>

-----------------------------------------------------------------------------
\* Partial functions: the bodies of the declarative calls.
Partial(S, R) == UNION {[D -> R] : D \in SUBSET S}

RbacNext ==
  \/ \E t \in Tenants, st \in Statuses : SetTenantStatus(t, st)
  \/ \E a \in Apps, st \in Statuses : SetApplicationStatus(a, st)
  \/ \E p \in PermRow : CreatePermission(p)
  \/ \E r \in RoleRow : CreateRole(r)
  \/ \E r \in RoleRow, ns \in SUBSET Perms : SetRolePermissions(r, ns)
  \/ \E m \in MemberKey, st \in Statuses, ns \in SUBSET RoleNames : CreateMembership(m, st, ns)
  \/ \E m \in MemberKey, st \in Statuses : SetMembershipStatus(m, st)
  \/ \E m \in MemberKey, ns \in SUBSET RoleNames : SetMembershipRoles(m, ns)
  \/ \E g \in AgentKey, st \in Statuses : CreateAgent(g, st)
  \/ \E g \in AgentKey, ns \in SUBSET RoleNames : SetAgentRoles(g, ns)
  \/ \E t \in Tenants, a \in Apps, ns \in SUBSET MaskNames : SetTenantPermissionMask(t, a, ns)
  \/ \E a \in Apps, ls \in SUBSET Perms, ds \in Partial(RoleNames, SUBSET Perms) :
       ApplyCatalog(a, ls, ds)
  \/ \E t \in Tenants, a \in Apps, n \in RoleNames, ns \in SUBSET Perms :
       SetTenantRoleOverride(t, a, n, ns)
  \/ \E t \in Tenants, a \in Apps, n \in RoleNames : DeleteTenantRoleOverride(t, a, n)
  \/ \E t \in Tenants, a \in Apps,
        ms \in Partial(Users, [status : Statuses, roles : SUBSET RoleNames]),
        gs \in Partial(Agents, [status : Statuses, perms : SUBSET Perms]) :
       ApplyTenantState(t, a, ms, gs)

RbacSpec == RbacInit /\ [][RbacNext]_rbacVars

-----------------------------------------------------------------------------
(* Properties *)

RbacTypeOK ==
  /\ tenants \in [Tenants -> Statuses] /\ apps \in [Apps -> Statuses]
  /\ perms \in [PermRow -> {"absent", "active", "deprecated"}]
  /\ roles \subseteq RoleRow /\ rolePerms \in [RoleRow -> SUBSET PermRow]
  /\ memberships \in [MemberKey -> Statuses \union {"absent"}]
  /\ memberRoles \in [MemberKey -> SUBSET RoleRow]
  /\ agents \in [AgentKey -> Statuses \union {"absent"}]
  /\ agentRoles \in [AgentKey -> SUBSET RoleRow]
  /\ mask \in [Tenants \X Apps -> SUBSET MaskNames]
  /\ writes \in Nat

\* Role links of a membership or an agent: an existing role of its application,
\* of its tenant or application-wide; an internal role only on its own agent.
MemberLinksOK ==
  \A m \in MemberKey, r \in RoleRow : r \in memberRoles[m] =>
    r \in roles /\ r.tenant \in {None, m.tenant} /\ r.app = m.app /\ ~ Internal(r)

AgentLinksOK ==
  \A g \in AgentKey, r \in RoleRow : r \in agentRoles[g] =>
    /\ r \in roles /\ r.tenant \in {None, g.tenant} /\ r.app = g.app
    /\ Internal(r) => r = InternalRole(g)

\* A role carries existing permissions of its own application only, and the
\* internal roles are bound to a tenant.
RolePermsOK ==
  /\ \A r \in RoleRow, p \in PermRow : p \in rolePerms[r] =>
       p.app = r.app /\ perms[p] # "absent"
  /\ \A r \in roles : Internal(r) => r.tenant # None

\* No sequence of role, catalog, override, membership, agent and tenant-state
\* writes leaves a link across tenants or applications, or to a deleted role.
LinksStayInScope == MemberLinksOK /\ AgentLinksOK /\ RolePermsOK

\* What a role name means in a tenant: its own role, else the application's.
NameInTenant(t, app, n) ==
  LET own == [tenant |-> t, app |-> app, name |-> n]
  IN  IF own \in roles THEN own ELSE [own EXCEPT !.tenant = None]

Means(t, app, n, p) == perms[p] = "active" /\ p \in rolePerms[NameInTenant(t, app, n)]

\* resolve_user_permissions, which follows links, override rows and permission
\* rows, returns what the role names held by the user mean in the tenant: an
\* override takes effect for every holder whichever row the holder is linked
\* to, and nothing of another tenant or application counts.
UserPermissionsFollowNames ==
  \A t \in Tenants, a \in Apps, u \in Users :
    ResolveUserPermissions(t, a, u) =
      {p \in Perms : \E m \in EligibleMemberships(t, a, u) : \E n \in Names(memberRoles[m]) :
         Means(t, m.app, n, [app |-> m.app, name |-> p])}

\* The same of resolve_agent_permissions, which does not filter permissions by
\* application: every permission it returns is one of the agent's application.
AgentPermissionsFollowNames ==
  \A g \in AgentKey :
    agents[g] # "absent" =>
      ResolveAgentPermissions(g.tenant, g.app, g) =
        {p \in Perms : \E n \in Names(agentRoles[g]) :
           Means(g.tenant, g.app, n, [app |-> g.app, name |-> p])}

\* "holders of it keep the default role": removing role rows never takes a role
\* name away from a membership or an agent.
HoldersKeepNames ==
  [][~ roles \subseteq roles' =>
       /\ \A m \in MemberKey : Names(memberRoles'[m]) = Names(memberRoles[m])
       /\ \A g \in AgentKey : Names(agentRoles'[g]) = Names(agentRoles[g])]_rbacVars
=============================================================================
