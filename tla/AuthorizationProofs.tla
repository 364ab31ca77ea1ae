------------------------- MODULE AuthorizationProofs -------------------------
(***************************************************************************)
(* Proofs about RbacStore, and about MemoryStore, Engine and               *)
(* DecisionRequest, which read its tables, for any tenants, applications,  *)
(* users, agents, role and permission names, requests and tokens, and any  *)
(* number of administrative writes.                                        *)
(***************************************************************************)
EXTENDS DecisionRequest, MemoryStore, TLAPS

USE ScopesAssumption, NamesAssumption

RbacInv == RbacTypeOK /\ LinksStayInScope

(***************************************************************************)
(* The operators the writes are built from.                                *)
(***************************************************************************)

\* A partial function of the body of a declarative call.
LEMMA PartialType ==
  ASSUME NEW S, NEW R, NEW f \in Partial(S, R)
  PROVE  DOMAIN f \subseteq S /\ \A x \in DOMAIN f : f[x] \in R
  BY DEF Partial

\* _assignable_roles returns existing, named roles of the application that are
\* the tenant's own or application-wide.
LEMMA AssignableRolesScope ==
  ASSUME RbacTypeOK, NEW t, NEW a, NEW names, NEW r \in AssignableRoles(t, a, names)
  PROVE  /\ r \in roles /\ r \in RoleRow /\ r.app = a /\ r.tenant \in {t, None}
         /\ ~ Internal(r) /\ r.name \in names
  BY DEF AssignableRoles, RbacTypeOK

\* _active_permissions returns existing permissions of the application.
LEMMA ActivePermissionsScope ==
  ASSUME NEW a, NEW names, NEW p \in ActivePermissions(a, names)
  PROVE  p \in PermRow /\ p.app = a /\ perms[p] = "active" /\ p.name \in names
  BY DEF ActivePermissions

\* The override that a tenant puts over a default role.
LEMMA RoleByNameIs ==
  ASSUME RbacTypeOK, NEW a \in Scopes, NEW t \in Tenants \union {None}, NEW n \in RoleNames
  PROVE  RoleByName(a, t, n) =
           roles \intersect {[tenant |-> t, app |-> a, name |-> n]}
  BY DEF RoleByName, Internal, RbacTypeOK, RoleRow

(***************************************************************************)
(* Type correctness and the scope of links.                                *)
(***************************************************************************)

\* The empty tables satisfy the inductive invariant.
LEMMA RbacInvInit == RbacInit => RbacInv
  BY DEF RbacInit, RbacInv, RbacTypeOK, LinksStayInScope, MemberLinksOK, AgentLinksOK,
     RolePermsOK, Statuses

\* The actions that leave roles, permissions and links alone.
LEMMA StatusNext ==
  ASSUME RbacInv,
         \/ \E t \in Tenants, st \in Statuses : SetTenantStatus(t, st)
         \/ \E a \in Apps, st \in Statuses : SetApplicationStatus(a, st)
         \/ \E m \in MemberKey, st \in Statuses : SetMembershipStatus(m, st)
         \/ \E g \in AgentKey, st \in Statuses : CreateAgent(g, st)
         \/ \E t \in Tenants, a \in Apps, ns \in SUBSET MaskNames :
              SetTenantPermissionMask(t, a, ns)
  PROVE  RbacInv'
<1>1. RbacTypeOK'
  <2> USE DEF RbacInv, RbacTypeOK, Write
  <2>1. ASSUME NEW t \in Tenants, NEW st \in Statuses, SetTenantStatus(t, st) PROVE RbacTypeOK'
    BY <2>1 DEF SetTenantStatus
  <2>2. ASSUME NEW a \in Apps, NEW st \in Statuses, SetApplicationStatus(a, st)
        PROVE  RbacTypeOK'
    BY <2>2 DEF SetApplicationStatus
  <2>3. ASSUME NEW m \in MemberKey, NEW st \in Statuses, SetMembershipStatus(m, st)
        PROVE  RbacTypeOK'
    BY <2>3 DEF SetMembershipStatus
  <2>4. ASSUME NEW g \in AgentKey, NEW st \in Statuses, CreateAgent(g, st) PROVE RbacTypeOK'
    BY <2>4 DEF CreateAgent
  <2>5. ASSUME NEW t \in Tenants, NEW a \in Apps, NEW ns \in SUBSET MaskNames,
               SetTenantPermissionMask(t, a, ns)
        PROVE  RbacTypeOK'
    BY <2>5 DEF SetTenantPermissionMask
  <2> QED BY <2>1, <2>2, <2>3, <2>4, <2>5
<1>2. UNCHANGED <<roles, rolePerms, perms, memberRoles, agentRoles>>
  BY DEF SetTenantStatus, SetApplicationStatus, SetMembershipStatus, CreateAgent,
     SetTenantPermissionMask
<1> QED BY <1>1, <1>2 DEF RbacInv, LinksStayInScope, MemberLinksOK, AgentLinksOK, RolePermsOK

\* create_permission
LEMMA CreatePermissionNext ==
  ASSUME RbacInv, NEW p \in PermRow, CreatePermission(p) PROVE RbacInv'
<1>1. RbacTypeOK'
  BY DEF RbacInv, RbacTypeOK, CreatePermission, Write
<1>2. LinksStayInScope'
  BY DEF RbacInv, RbacTypeOK, CreatePermission, LinksStayInScope, MemberLinksOK, AgentLinksOK,
     RolePermsOK
<1> QED BY <1>1, <1>2 DEF RbacInv

\* create_role
LEMMA CreateRoleNext ==
  ASSUME RbacInv, NEW r \in RoleRow, CreateRole(r) PROVE RbacInv'
<1>1. RbacTypeOK'
  BY DEF RbacInv, RbacTypeOK, CreateRole, Write
<1>2. LinksStayInScope'
  BY DEF RbacInv, CreateRole, LinksStayInScope, MemberLinksOK, AgentLinksOK, RolePermsOK
<1> QED BY <1>1, <1>2 DEF RbacInv

\* set_role_permissions
LEMMA SetRolePermissionsNext ==
  ASSUME RbacInv, NEW r \in RoleRow, NEW ns \in SUBSET Perms, SetRolePermissions(r, ns)
  PROVE  RbacInv'
<1>1. RbacTypeOK'
  BY ActivePermissionsScope DEF RbacInv, RbacTypeOK, SetRolePermissions, Write
<1>2. RolePermsOK'
  BY ActivePermissionsScope DEF RbacInv, RbacTypeOK, SetRolePermissions, LinksStayInScope,
     RolePermsOK
<1>3. MemberLinksOK' /\ AgentLinksOK'
  BY DEF RbacInv, SetRolePermissions, LinksStayInScope, MemberLinksOK, AgentLinksOK
<1> QED BY <1>1, <1>2, <1>3 DEF RbacInv, LinksStayInScope

\* create_membership, set_membership_roles
LEMMA MemberNext ==
  ASSUME RbacInv, NEW m \in MemberKey, NEW st \in Statuses, NEW ns \in SUBSET RoleNames,
         CreateMembership(m, st, ns) \/ SetMembershipRoles(m, ns)
  PROVE  RbacInv'
<1>1. AssignableRoles(m.tenant, m.app, ns) \subseteq RoleRow
  BY AssignableRolesScope DEF RbacInv
<1>2. RbacTypeOK'
  BY <1>1 DEF RbacInv, RbacTypeOK, CreateMembership, SetMembershipRoles, Write, Statuses
<1>3. /\ UNCHANGED <<roles, rolePerms, perms, agentRoles>>
      /\ memberRoles' = [memberRoles EXCEPT ![m] = AssignableRoles(m.tenant, m.app, ns)]
  BY DEF CreateMembership, SetMembershipRoles
<1>4. MemberLinksOK'
  <2> SUFFICES ASSUME NEW k \in MemberKey, NEW r \in RoleRow, r \in memberRoles'[k]
               PROVE  r \in roles /\ r.tenant \in {None, k.tenant} /\ r.app = k.app /\ ~ Internal(r)
    BY <1>3 DEF MemberLinksOK, Internal
  <2>1. CASE k = m
    BY <2>1, <1>3, AssignableRolesScope DEF RbacInv, RbacTypeOK
  <2>2. CASE k # m
    BY <2>2, <1>3 DEF RbacInv, RbacTypeOK, LinksStayInScope, MemberLinksOK
  <2> QED BY <2>1, <2>2
<1>5. AgentLinksOK' /\ RolePermsOK'
  BY <1>3 DEF RbacInv, LinksStayInScope, AgentLinksOK, RolePermsOK
<1> QED BY <1>2, <1>4, <1>5 DEF RbacInv, LinksStayInScope

\* set_agent_roles
LEMMA SetAgentRolesNext ==
  ASSUME RbacInv, NEW g \in AgentKey, NEW ns \in SUBSET RoleNames, SetAgentRoles(g, ns)
  PROVE  RbacInv'
<1>1. AssignableRoles(g.tenant, g.app, ns) \subseteq RoleRow
  BY AssignableRolesScope DEF RbacInv
<1>2. RbacTypeOK'
  BY <1>1 DEF RbacInv, RbacTypeOK, SetAgentRoles, Write
<1>3. /\ UNCHANGED <<roles, rolePerms, perms, memberRoles>>
      /\ agentRoles' = [agentRoles EXCEPT ![g] = AssignableRoles(g.tenant, g.app, ns)]
  BY DEF SetAgentRoles
<1>4. AgentLinksOK'
  <2> SUFFICES ASSUME NEW k \in AgentKey, NEW r \in RoleRow, r \in agentRoles'[k]
               PROVE  /\ r \in roles /\ r.tenant \in {None, k.tenant} /\ r.app = k.app
                      /\ Internal(r) => r = InternalRole(k)
    BY <1>3 DEF AgentLinksOK, Internal, InternalRole
  <2>1. CASE k = g
    BY <2>1, <1>3, AssignableRolesScope DEF RbacInv, RbacTypeOK
  <2>2. CASE k # g
    BY <2>2, <1>3 DEF RbacInv, RbacTypeOK, LinksStayInScope, AgentLinksOK
  <2> QED BY <2>1, <2>2
<1>5. MemberLinksOK' /\ RolePermsOK'
  BY <1>3 DEF RbacInv, LinksStayInScope, MemberLinksOK, RolePermsOK
<1> QED BY <1>2, <1>4, <1>5 DEF RbacInv, LinksStayInScope

\* apply_application_catalog
LEMMA ApplyCatalogNext ==
  ASSUME RbacInv, NEW a \in Apps, NEW ls \in SUBSET Perms,
         NEW ds \in Partial(RoleNames, SUBSET Perms), ApplyCatalog(a, ls, ds)
  PROVE  RbacInv'
<1>1. DOMAIN ds \subseteq RoleNames /\ \A n \in DOMAIN ds : ds[n] \subseteq Perms
  BY PartialType
<1>2. \A n \in DOMAIN ds : [app : {a}, name : ds[n]] \subseteq PermRow
  BY <1>1 DEF PermRow
<1>3. \A n \in DOMAIN ds : /\ DefaultRole(a, n) \in RoleRow /\ ~ Internal(DefaultRole(a, n))
  BY <1>1 DEF DefaultRole, RoleRow, Internal
<1>4. RbacTypeOK'
  <2>1. perms' \in [PermRow -> {"absent", "active", "deprecated"}]
    BY DEF ApplyCatalog, RbacInv, RbacTypeOK
  <2>2. roles' \subseteq RoleRow
    BY <1>3 DEF ApplyCatalog, RbacInv, RbacTypeOK
  <2>3. rolePerms' \in [RoleRow -> SUBSET PermRow]
    BY <1>2 DEF ApplyCatalog, RbacInv, RbacTypeOK
  <2> QED BY <2>1, <2>2, <2>3 DEF ApplyCatalog, RbacInv, RbacTypeOK, Write
<1>5. RolePermsOK'
  <2>1. ASSUME NEW r \in RoleRow, NEW p \in PermRow, p \in rolePerms'[r]
        PROVE  p.app = r.app /\ perms'[p] # "absent"
    <3>1. CASE r.tenant = None /\ r.app = a /\ r.name \in DOMAIN ds
      <4>1. p \in [app : {a}, name : ds[r.name]]
        BY <2>1, <3>1 DEF ApplyCatalog
      <4>2. p.app = a /\ p.name \in ls
        BY <4>1, <3>1 DEF ApplyCatalog
      <4> QED BY <4>2, <3>1 DEF ApplyCatalog
    <3>2. CASE ~ (r.tenant = None /\ r.app = a /\ r.name \in DOMAIN ds)
      <4>1. p \in rolePerms[r]
        BY <2>1, <3>2 DEF ApplyCatalog
      <4>2. p.app = r.app /\ perms[p] # "absent"
        BY <4>1 DEF RbacInv, LinksStayInScope, RolePermsOK
      <4> QED BY <4>2 DEF ApplyCatalog
    <3> QED BY <3>1, <3>2
  <2>2. \A r \in roles' : Internal(r) => r.tenant # None
    BY <1>3 DEF ApplyCatalog, RbacInv, LinksStayInScope, RolePermsOK
  <2> QED BY <2>1, <2>2 DEF RolePermsOK, Internal
<1>6. MemberLinksOK' /\ AgentLinksOK'
  BY DEF ApplyCatalog, RbacInv, LinksStayInScope, MemberLinksOK, AgentLinksOK
<1> QED BY <1>4, <1>5, <1>6 DEF RbacInv, LinksStayInScope

\* set_tenant_role_override
LEMMA SetOverrideNext ==
  ASSUME RbacInv, NEW t \in Tenants, NEW a \in Apps, NEW n \in RoleNames,
         NEW ns \in SUBSET Perms, SetTenantRoleOverride(t, a, n, ns)
  PROVE  RbacInv'
<1> DEFINE o == [tenant |-> t, app |-> a, name |-> n]
<1>1. o \in RoleRow /\ o.app = a /\ ~ Internal(o)
  BY DEF RoleRow, Internal
<1>2. /\ roles' = roles \union {o}
      /\ rolePerms' = [rolePerms EXCEPT ![o] = ActivePermissions(a, ns)]
      /\ UNCHANGED <<perms, memberRoles, agentRoles>>
  BY DEF SetTenantRoleOverride
<1>3. ActivePermissions(a, ns) \subseteq PermRow
  BY ActivePermissionsScope
<1> HIDE DEF o
<1>4. RbacTypeOK'
  BY <1>1, <1>2, <1>3 DEF RbacInv, RbacTypeOK, SetTenantRoleOverride, Write
<1>5. RolePermsOK'
  BY <1>1, <1>2, ActivePermissionsScope DEF RbacInv, RbacTypeOK, LinksStayInScope, RolePermsOK
<1>6. MemberLinksOK' /\ AgentLinksOK'
  BY <1>2 DEF RbacInv, LinksStayInScope, MemberLinksOK, AgentLinksOK
<1> QED BY <1>4, <1>5, <1>6 DEF RbacInv, LinksStayInScope

\* delete_tenant_role_override
LEMMA DeleteOverrideNext ==
  ASSUME RbacInv, NEW t \in Tenants, NEW a \in Apps, NEW n \in RoleNames,
         DeleteTenantRoleOverride(t, a, n)
  PROVE  RbacInv'
<1> DEFINE o == [tenant |-> t, app |-> a, name |-> n]
           d == DefaultRole(a, n)
<1>1. /\ o \in RoleRow /\ d \in RoleRow /\ o # d
      /\ o.app = a /\ d.app = a /\ d.tenant = None /\ ~ Internal(d)
  BY DEF RoleRow, Internal, DefaultRole
<1>2. d \in roles
  BY RoleByNameIs DEF DeleteTenantRoleOverride, DefaultRole, RbacInv
<1>3. /\ roles' = roles \ {o} /\ rolePerms' = [rolePerms EXCEPT ![o] = {}]
      /\ memberRoles' = [m \in MemberKey |-> Relink(memberRoles[m], o, d)]
      /\ agentRoles' = [g \in AgentKey |-> Relink(agentRoles[g], o, d)]
      /\ perms' = perms
  BY DEF DeleteTenantRoleOverride
<1> HIDE DEF o, d
<1>4. \A links \in SUBSET RoleRow :
        /\ Relink(links, o, d) \subseteq RoleRow /\ o \notin Relink(links, o, d)
        /\ \A r \in Relink(links, o, d) : r \in links \/ (r = d /\ o \in links)
  BY <1>1 DEF Relink
<1>5. /\ \A m \in MemberKey : memberRoles[m] \in SUBSET RoleRow
      /\ \A g \in AgentKey : agentRoles[g] \in SUBSET RoleRow
  BY DEF RbacInv, RbacTypeOK
<1>6. RbacTypeOK'
  BY <1>1, <1>3, <1>4, <1>5 DEF RbacInv, RbacTypeOK, DeleteTenantRoleOverride, Write
<1>7. MemberLinksOK'
  BY <1>1, <1>2, <1>3, <1>4, <1>5 DEF RbacInv, LinksStayInScope, MemberLinksOK
<1>8. AgentLinksOK'
  BY <1>1, <1>2, <1>3, <1>4, <1>5 DEF RbacInv, LinksStayInScope, AgentLinksOK
<1>9. RolePermsOK'
  BY <1>1, <1>3 DEF RbacInv, RbacTypeOK, LinksStayInScope, RolePermsOK
<1> QED BY <1>6, <1>7, <1>8, <1>9 DEF RbacInv, LinksStayInScope

\* apply_tenant_state
LEMMA ApplyStateNext ==
  ASSUME RbacInv, NEW t \in Tenants, NEW a \in Apps,
         NEW ms \in Partial(Users, [status : Statuses, roles : SUBSET RoleNames]),
         NEW gs \in Partial(Agents, [status : Statuses, perms : SUBSET Perms]),
         ApplyTenantState(t, a, ms, gs)
  PROVE  RbacInv'
<1> DEFINE here(k) == k.tenant = t /\ k.app = a
<1>1. /\ DOMAIN ms \subseteq Users /\ DOMAIN gs \subseteq Agents
      /\ \A u \in DOMAIN ms : ms[u].status \in Statuses
      /\ \A g \in DOMAIN gs : gs[g].status \in Statuses
  <2> DEFINE M == [status : Statuses, roles : SUBSET RoleNames]
             G == [status : Statuses, perms : SUBSET Perms]
  <2>1. ms \in Partial(Users, M) /\ gs \in Partial(Agents, G)
    OBVIOUS
  <2>2. (\A v \in M : v.status \in Statuses) /\ (\A v \in G : v.status \in Statuses)
    OBVIOUS
  <2> HIDE DEF M, G
  <2>3. DOMAIN ms \subseteq Users /\ \A u \in DOMAIN ms : ms[u] \in M
    BY <2>1, PartialType
  <2>4. DOMAIN gs \subseteq Agents /\ \A g \in DOMAIN gs : gs[g] \in G
    BY <2>1, PartialType
  <2> QED BY <2>2, <2>3, <2>4
<1>2. /\ memberRoles' = [m \in MemberKey |-> IF here(m) /\ m.user \in DOMAIN ms
                        THEN AssignableRoles(t, a, ms[m.user].roles) ELSE memberRoles[m]]
      /\ roles' = roles \union {r \in RoleRow : here(r) /\ r.name \in DOMAIN gs}
      /\ rolePerms' = [r \in RoleRow |-> IF here(r) /\ r.name \in DOMAIN gs
                      THEN ActivePermissions(a, gs[r.name].perms) ELSE rolePerms[r]]
      /\ agentRoles' = [g \in AgentKey |-> IF here(g) /\ g.name \in DOMAIN gs
                       THEN {InternalRole(g)} ELSE agentRoles[g]]
      /\ perms' = perms
  BY DEF ApplyTenantState
<1>3. \A g \in AgentKey : /\ InternalRole(g) \in RoleRow /\ InternalRole(g).name = g.name
                          /\ InternalRole(g).tenant = g.tenant /\ InternalRole(g).app = g.app
  BY DEF AgentKey, RoleRow, InternalRole
<1>4. RbacTypeOK'
  <2>1. memberships' \in [MemberKey -> Statuses \union {"absent"}]
    BY <1>1 DEF ApplyTenantState, AppliedStatus, RbacInv, RbacTypeOK, Statuses
  <2>2. agents' \in [AgentKey -> Statuses \union {"absent"}]
    BY <1>1 DEF ApplyTenantState, AppliedStatus, RbacInv, RbacTypeOK, Statuses
  <2>3. memberRoles' \in [MemberKey -> SUBSET RoleRow]
    <3>1. \A names : AssignableRoles(t, a, names) \subseteq RoleRow
      BY AssignableRolesScope DEF RbacInv
    <3> QED BY <3>1, <1>2 DEF RbacInv, RbacTypeOK
  <2>4. roles' \subseteq RoleRow /\ agentRoles' \in [AgentKey -> SUBSET RoleRow]
    BY <1>2, <1>3 DEF RbacInv, RbacTypeOK
  <2>5. rolePerms' \in [RoleRow -> SUBSET PermRow]
    <3>1. \A names : ActivePermissions(a, names) \subseteq PermRow
      BY ActivePermissionsScope
    <3> QED BY <3>1, <1>2 DEF RbacInv, RbacTypeOK
  <2> QED BY <2>1, <2>2, <2>3, <2>4, <2>5 DEF ApplyTenantState, RbacInv, RbacTypeOK, Write
<1>5. MemberLinksOK'
  <2> SUFFICES ASSUME NEW m \in MemberKey, NEW r \in RoleRow, r \in memberRoles'[m]
               PROVE  r \in roles /\ r.tenant \in {None, m.tenant} /\ r.app = m.app /\ ~ Internal(r)
    BY <1>2 DEF MemberLinksOK, Internal
  <2>1. CASE here(m) /\ m.user \in DOMAIN ms
    BY <2>1, <1>2, AssignableRolesScope DEF RbacInv
  <2>2. CASE ~ (here(m) /\ m.user \in DOMAIN ms)
    BY <2>2, <1>2 DEF RbacInv, LinksStayInScope, MemberLinksOK
  <2> QED BY <2>1, <2>2
<1>6. AgentLinksOK'
  <2> SUFFICES ASSUME NEW g \in AgentKey, NEW r \in RoleRow, r \in agentRoles'[g]
               PROVE  /\ r \in roles' /\ r.tenant \in {None, g.tenant} /\ r.app = g.app
                      /\ Internal(r) => r = InternalRole(g)
    BY DEF AgentLinksOK, Internal, InternalRole
  <2>1. CASE here(g) /\ g.name \in DOMAIN gs
    BY <2>1, <1>2, <1>3
  <2>2. CASE ~ (here(g) /\ g.name \in DOMAIN gs)
    BY <2>2, <1>2 DEF RbacInv, LinksStayInScope, AgentLinksOK
  <2> QED BY <2>1, <2>2
<1>7. RolePermsOK'
  <2>1. ASSUME NEW r \in RoleRow, NEW p \in PermRow, p \in rolePerms'[r]
        PROVE  p.app = r.app /\ perms[p] # "absent"
    <3>1. CASE here(r) /\ r.name \in DOMAIN gs
      BY <2>1, <3>1, <1>2, ActivePermissionsScope
    <3>2. CASE ~ (here(r) /\ r.name \in DOMAIN gs)
      BY <2>1, <3>2, <1>2 DEF RbacInv, LinksStayInScope, RolePermsOK
    <3> QED BY <3>1, <3>2
  <2>2. \A r \in roles' : Internal(r) => r.tenant # None
    BY <1>2 DEF RbacInv, LinksStayInScope, RolePermsOK
  <2> QED BY <1>2, <2>1, <2>2 DEF RolePermsOK, Internal
<1> QED BY <1>4, <1>5, <1>6, <1>7 DEF RbacInv, LinksStayInScope

\* Every administrative write keeps the inductive invariant.
LEMMA RbacInvNext == RbacInv /\ [RbacNext]_rbacVars => RbacInv'
<1> SUFFICES ASSUME RbacInv, [RbacNext]_rbacVars PROVE RbacInv'
  OBVIOUS
<1>1. CASE UNCHANGED rbacVars
  BY <1>1 DEF rbacVars, RbacInv, RbacTypeOK, LinksStayInScope, MemberLinksOK, AgentLinksOK,
     RolePermsOK
<1>2. CASE RbacNext
  BY <1>2, StatusNext, CreatePermissionNext, CreateRoleNext, SetRolePermissionsNext, MemberNext,
     SetAgentRolesNext, ApplyCatalogNext, SetOverrideNext, DeleteOverrideNext, ApplyStateNext
     DEF RbacNext, Statuses
<1> QED BY <1>1, <1>2

\* The inductive invariant holds in every reachable state.
THEOREM RbacInvCorrect == RbacSpec => []RbacInv
  BY RbacInvInit, RbacInvNext, PTL DEF RbacSpec

\* The tables stay well formed under every administrative write.
THEOREM RbacTypeCorrect == RbacSpec => []RbacTypeOK
<1>1. RbacInv => RbacTypeOK
  BY DEF RbacInv
<1> QED BY RbacInvCorrect, <1>1, PTL

\* No sequence of writes leaves a link across tenants or applications, or to a
\* role that is gone.
THEOREM LinksInScope == RbacSpec => []LinksStayInScope
<1>1. RbacInv => LinksStayInScope
  BY DEF RbacInv
<1> QED BY RbacInvCorrect, <1>1, PTL

(***************************************************************************)
(* What the permission queries return.                                     *)
(***************************************************************************)

\* _effective_role_ids, for the links of one scope: each linked role counts as
\* what its name means in the tenant.
LEMMA EffectiveIsByName ==
  ASSUME RbacInv, NEW t \in Tenants, NEW app \in Scopes, NEW linked \in SUBSET roles,
         NEW r \in linked, r.app = app, r.tenant \in {None, t}, ~ Internal(r)
  PROVE  /\ NameInTenant(t, app, r.name) \in EffectiveRoles(t, linked)
         /\ NameInTenant(t, app, r.name) \in RoleRow
         /\ r.tenant = t => NameInTenant(t, app, r.name) = r
         /\ r.tenant = None =>
              {NameInTenant(t, app, r.name)} =
                IF Override(t, r) # {} THEN Override(t, r) ELSE {r}
<1> DEFINE own == [tenant |-> t, app |-> app, name |-> r.name]
<1>1. r \in RoleRow /\ r.name \in RoleNames /\ r = [tenant |-> r.tenant, app |-> app, name |-> r.name]
  BY DEF RbacInv, RbacTypeOK, RoleRow, Internal
<1>2. own \in RoleRow /\ [own EXCEPT !.tenant = None] = [tenant |-> None, app |-> app, name |-> r.name]
  BY <1>1 DEF RoleRow
<1>3. [tenant |-> None, app |-> app, name |-> r.name] \in RoleRow
  BY <1>1 DEF RoleRow
<1>4. NameInTenant(t, app, r.name) =
        IF own \in roles THEN own ELSE [tenant |-> None, app |-> app, name |-> r.name]
  BY <1>2 DEF NameInTenant
<1>5. Override(t, r) = roles \intersect {own}
  BY <1>1, RoleByNameIs DEF Override, RbacInv
<1>6. CASE r.tenant = t
  BY <1>6, <1>1, <1>2, <1>4 DEF EffectiveRoles
<1>7. CASE r.tenant = None
  <2>1. {NameInTenant(t, app, r.name)} = IF Override(t, r) # {} THEN Override(t, r) ELSE {r}
    BY <1>7, <1>1, <1>4, <1>5
  <2>2. NameInTenant(t, app, r.name) \in EffectiveRoles(t, linked)
    BY <1>7, <2>1 DEF EffectiveRoles
  <2> QED BY <1>7, <2>1, <2>2, <1>2, <1>3, <1>4
<1> QED BY <1>6, <1>7

\* resolve_user_permissions returns what the role names held by the user mean
\* in the tenant, in every reachable state.
THEOREM UsersFollowNames == RbacSpec => []UserPermissionsFollowNames
<1>1. RbacInv => UserPermissionsFollowNames
  <2> SUFFICES ASSUME RbacInv, NEW t \in Tenants, NEW a \in Apps, NEW u \in Users
      PROVE  ResolveUserPermissions(t, a, u) =
               {p \in Perms : \E m \in EligibleMemberships(t, a, u) :
                  \E n \in Names(memberRoles[m]) :
                    Means(t, m.app, n, [app |-> m.app, name |-> p])}
    BY DEF UserPermissionsFollowNames
  <2> DEFINE ms == EligibleMemberships(t, a, u)
             linked == UNION {memberRoles[m] : m \in ms}
             eff == EffectiveRoles(t, linked)
             held == {p \in Perms : \E m \in ms : \E n \in Names(memberRoles[m]) :
                        Means(t, m.app, n, [app |-> m.app, name |-> p])}
  <2>1. \A m \in ms : /\ m \in MemberKey /\ m.tenant = t /\ m.app \in {a, None}
                      /\ m.app \in Scopes /\ memberRoles[m] \subseteq RoleRow
    BY DEF EligibleMemberships, MemberKey, RbacInv, RbacTypeOK
  <2>2. \A m \in ms : \A r \in memberRoles[m] :
          r \in roles /\ r.tenant \in {None, t} /\ r.app = m.app /\ ~ Internal(r)
    BY <2>1 DEF RbacInv, LinksStayInScope, MemberLinksOK
  <2>3. linked \in SUBSET roles
    BY <2>2
  <2>4. \A r \in linked : \E m \in ms : r \in memberRoles[m]
    OBVIOUS
  <2> HIDE DEF ms, linked, eff, held
  \* A role that counts is what the name of a linked one means.
  <2>5. \A e \in eff : \E m \in ms : \E r \in memberRoles[m] :
          e = NameInTenant(t, m.app, r.name)
    <3> SUFFICES ASSUME NEW e \in eff
                 PROVE  \E m \in ms : \E r \in memberRoles[m] : e = NameInTenant(t, m.app, r.name)
      OBVIOUS
    <3>1. PICK r \in linked :
            \/ e = r /\ r.tenant = t
            \/ r.tenant = None /\ e \in (IF Override(t, r) # {} THEN Override(t, r) ELSE {r})
      BY <2>2, <2>4 DEF eff, EffectiveRoles
    <3>2. PICK m \in ms : r \in memberRoles[m]
      BY <2>4
    <3>3. /\ r.tenant = t => NameInTenant(t, m.app, r.name) = r
          /\ r.tenant = None => {NameInTenant(t, m.app, r.name)} =
                                  IF Override(t, r) # {} THEN Override(t, r) ELSE {r}
      BY <2>1, <2>2, <2>3, <3>2, EffectiveIsByName
    <3>4. e = NameInTenant(t, m.app, r.name)
      BY <3>1, <3>3
    <3> QED BY <3>2, <3>4
  <2>6. \A m \in ms : \A r \in memberRoles[m] :
          NameInTenant(t, m.app, r.name) \in eff /\ NameInTenant(t, m.app, r.name) \in RoleRow
    <3> SUFFICES ASSUME NEW m \in ms, NEW r \in memberRoles[m]
                 PROVE  /\ NameInTenant(t, m.app, r.name) \in eff
                        /\ NameInTenant(t, m.app, r.name) \in RoleRow
      OBVIOUS
    <3>1. r \in linked
      BY DEF linked
    <3> QED BY <3>1, <2>1, <2>2, <2>3, EffectiveIsByName DEF eff
  <2>7. \A tt \in Tenants, app \in Scopes : \A n : NameInTenant(tt, app, n).app = app
    BY DEF NameInTenant
  <2>8. \A p : p \in ResolveUserPermissions(t, a, u) <=>
          \E row \in PermRow : /\ row.name = p /\ perms[row] = "active" /\ row.app \in {a, None}
                               /\ \E e \in eff : row \in rolePerms[e]
    BY DEF ResolveUserPermissions, GrantedRows, Names, eff, linked, ms
  <2>9. ASSUME NEW p \in ResolveUserPermissions(t, a, u) PROVE p \in held
    <3>1. PICK row \in PermRow : /\ row.name = p /\ perms[row] = "active"
                                /\ \E e \in eff : row \in rolePerms[e]
      BY <2>8
    <3>2. PICK e \in eff : row \in rolePerms[e]
      BY <3>1
    <3>3. PICK m \in ms : \E r \in memberRoles[m] : e = NameInTenant(t, m.app, r.name)
      BY <2>5
    <3>4. PICK r \in memberRoles[m] : e = NameInTenant(t, m.app, r.name)
      BY <3>3
    <3>5. e \in RoleRow /\ e.app = m.app
      BY <3>4, <2>1, <2>6, <2>7
    <3>6. row.app = m.app
      BY <3>2, <3>5 DEF RbacInv, LinksStayInScope, RolePermsOK
    <3>7. row = [app |-> m.app, name |-> p] /\ p \in Perms
      BY <3>1, <3>6 DEF PermRow
    <3>8. Means(t, m.app, r.name, [app |-> m.app, name |-> p])
      BY <3>1, <3>2, <3>4, <3>7 DEF Means
    <3>9. r.name \in Names(memberRoles[m])
      BY DEF Names
    <3> QED BY <3>7, <3>8, <3>9 DEF held
  <2>10. ASSUME NEW p \in held PROVE p \in ResolveUserPermissions(t, a, u)
    <3>1. PICK m \in ms : \E n \in Names(memberRoles[m]) :
            Means(t, m.app, n, [app |-> m.app, name |-> p])
      BY <2>10 DEF held
    <3>2. PICK r \in memberRoles[m] : Means(t, m.app, r.name, [app |-> m.app, name |-> p])
      BY <3>1 DEF Names
    <3>3. p \in Perms
      BY <2>10 DEF held
    <3>4. [app |-> m.app, name |-> p] \in PermRow
      BY <3>3, <2>1 DEF PermRow
    <3> QED BY <3>2, <3>4, <2>1, <2>6, <2>8 DEF Means
  <2>11. ResolveUserPermissions(t, a, u) = held
    BY <2>9, <2>10
  <2> QED BY <2>11 DEF held, ms
<1> QED BY RbacInvCorrect, <1>1, PTL

\* A role linked to an agent that is its internal role, which no override can
\* stand in for: the name means that very role.
LEMMA InternalIsByName ==
  ASSUME RbacInv, NEW g \in AgentKey, NEW r \in agentRoles[g], Internal(r)
  PROVE  /\ r = InternalRole(g) /\ r \in RoleRow /\ r.tenant = g.tenant
         /\ NameInTenant(g.tenant, g.app, r.name) = r
<1>1. r \in RoleRow
  BY DEF RbacInv, RbacTypeOK
<1>2. r \in roles /\ r = InternalRole(g)
  BY <1>1 DEF RbacInv, LinksStayInScope, AgentLinksOK
<1>3. r = [tenant |-> g.tenant, app |-> g.app, name |-> r.name] /\ r.tenant = g.tenant
  BY <1>2 DEF InternalRole, AgentKey
<1> QED BY <1>1, <1>2, <1>3 DEF NameInTenant

\* resolve_agent_permissions returns what the role names of the agent mean in
\* its tenant, the internal role included, in every reachable state.
THEOREM AgentsFollowNames == RbacSpec => []AgentPermissionsFollowNames
<1>1. RbacInv => AgentPermissionsFollowNames
  <2> SUFFICES ASSUME RbacInv, NEW g \in AgentKey, agents[g] # "absent"
      PROVE  ResolveAgentPermissions(g.tenant, g.app, g) =
               {p \in Perms : \E n \in Names(agentRoles[g]) :
                  Means(g.tenant, g.app, n, [app |-> g.app, name |-> p])}
    BY DEF AgentPermissionsFollowNames
  <2> DEFINE linked == agentRoles[g]
             eff == EffectiveRoles(g.tenant, linked)
             meant(n) == NameInTenant(g.tenant, g.app, n)
             held == {p \in Perms : \E n \in Names(agentRoles[g]) :
                        Means(g.tenant, g.app, n, [app |-> g.app, name |-> p])}
  <2>1. g.tenant \in Tenants /\ g.app \in Scopes
    BY DEF AgentKey
  <2>2. \A r \in linked : /\ r \in RoleRow /\ r \in roles
                          /\ r.tenant \in {None, g.tenant} /\ r.app = g.app
    BY DEF RbacInv, RbacTypeOK, LinksStayInScope, AgentLinksOK
  <2>3. linked \in SUBSET roles
    BY <2>2
  \* What each link counts as.
  <2>4. \A r \in linked : ~ Internal(r) =>
          /\ meant(r.name) \in eff /\ meant(r.name) \in RoleRow
          /\ r.tenant = g.tenant => meant(r.name) = r
          /\ r.tenant = None =>
               {meant(r.name)} = IF Override(g.tenant, r) # {} THEN Override(g.tenant, r) ELSE {r}
    BY <2>1, <2>2, <2>3, EffectiveIsByName
  <2>5. \A r \in linked : Internal(r) =>
          r.tenant = g.tenant /\ meant(r.name) = r /\ r \in RoleRow /\ r \in eff
    BY InternalIsByName DEF EffectiveRoles
  <2>6. \A r \in linked : meant(r.name) \in eff /\ meant(r.name) \in RoleRow
    BY <2>4, <2>5
  <2>7. \A e \in eff : \E r \in linked : e = meant(r.name)
    <3> SUFFICES ASSUME NEW e \in eff PROVE \E r \in linked : e = meant(r.name)
      OBVIOUS
    <3>1. PICK r \in linked :
            \/ e = r /\ (r.tenant = g.tenant \/ Internal(r))
            \/ /\ r.tenant = None /\ ~ Internal(r)
               /\ e \in (IF Override(g.tenant, r) # {} THEN Override(g.tenant, r) ELSE {r})
      BY <2>2 DEF EffectiveRoles
    <3> QED BY <3>1, <2>4, <2>5
  <2>8. \A n : meant(n).app = g.app
    BY DEF NameInTenant
  <2>9. \A p : p \in ResolveAgentPermissions(g.tenant, g.app, g) <=>
          \E row \in PermRow : row.name = p /\ perms[row] = "active"
                               /\ \E e \in eff : row \in rolePerms[e]
    BY DEF ResolveAgentPermissions, GrantedRows, Names
  <2> HIDE DEF linked, eff, meant, held
  <2>10. ASSUME NEW p \in ResolveAgentPermissions(g.tenant, g.app, g) PROVE p \in held
    <3>1. PICK row \in PermRow : /\ row.name = p /\ perms[row] = "active"
                                /\ \E e \in eff : row \in rolePerms[e]
      BY <2>9
    <3>2. PICK r \in linked : row \in rolePerms[meant(r.name)]
      BY <3>1, <2>7
    <3>3. row.app = g.app
      BY <3>2, <2>6, <2>8 DEF RbacInv, LinksStayInScope, RolePermsOK
    <3>4. row = [app |-> g.app, name |-> p] /\ p \in Perms
      BY <3>1, <3>3 DEF PermRow
    <3>5. Means(g.tenant, g.app, r.name, [app |-> g.app, name |-> p])
      BY <3>1, <3>2, <3>4 DEF Means, meant
    <3>6. r.name \in Names(agentRoles[g])
      BY DEF Names, linked
    <3> QED BY <3>4, <3>5, <3>6 DEF held
  <2>11. ASSUME NEW p \in held PROVE p \in ResolveAgentPermissions(g.tenant, g.app, g)
    <3>1. p \in Perms
      BY <2>11 DEF held
    <3>2. PICK r \in linked : Means(g.tenant, g.app, r.name, [app |-> g.app, name |-> p])
      BY <2>11 DEF held, Names, linked
    <3>3. [app |-> g.app, name |-> p] \in PermRow
      BY <3>1, <2>1 DEF PermRow
    <3> QED BY <3>2, <3>3, <2>6, <2>9 DEF Means, meant
  <2> QED BY <2>10, <2>11 DEF held
<1> QED BY RbacInvCorrect, <1>1, PTL

\* Removing a tenant's override takes no role name away from a membership or an
\* agent: the links move to the default role in the same transaction.
THEOREM OverridesReleaseHolders == RbacSpec => HoldersKeepNames
<1> DEFINE Kept == ~ roles \subseteq roles' =>
             /\ \A m \in MemberKey : Names(memberRoles'[m]) = Names(memberRoles[m])
             /\ \A g \in AgentKey : Names(agentRoles'[g]) = Names(agentRoles[g])
<1>1. RbacInv /\ [RbacNext]_rbacVars => [Kept]_rbacVars
  <2> SUFFICES ASSUME RbacInv, RbacNext, ~ roles \subseteq roles' PROVE Kept
    BY DEF rbacVars
  <2>1. \E t \in Tenants, a \in Apps, n \in RoleNames : DeleteTenantRoleOverride(t, a, n)
    <3>1. ~ \E t \in Tenants, st \in Statuses : SetTenantStatus(t, st)
      BY DEF SetTenantStatus
    <3>2. ~ \E a \in Apps, st \in Statuses : SetApplicationStatus(a, st)
      BY DEF SetApplicationStatus
    <3>3. ~ \E p \in PermRow : CreatePermission(p)
      BY DEF CreatePermission
    <3>4. ~ \E r \in RoleRow : CreateRole(r)
      BY DEF CreateRole
    <3>5. ~ \E r \in RoleRow, ns \in SUBSET Perms : SetRolePermissions(r, ns)
      BY DEF SetRolePermissions
    <3>6. ~ \E m \in MemberKey, st \in Statuses, ns \in SUBSET RoleNames :
              CreateMembership(m, st, ns)
      BY DEF CreateMembership
    <3>7. ~ \E m \in MemberKey, st \in Statuses : SetMembershipStatus(m, st)
      BY DEF SetMembershipStatus
    <3>8. ~ \E m \in MemberKey, ns \in SUBSET RoleNames : SetMembershipRoles(m, ns)
      BY DEF SetMembershipRoles
    <3>9. ~ \E g \in AgentKey, st \in Statuses : CreateAgent(g, st)
      BY DEF CreateAgent
    <3>10. ~ \E g \in AgentKey, ns \in SUBSET RoleNames : SetAgentRoles(g, ns)
      BY DEF SetAgentRoles
    <3>11. ~ \E t \in Tenants, a \in Apps, ns \in SUBSET MaskNames :
               SetTenantPermissionMask(t, a, ns)
      BY DEF SetTenantPermissionMask
    <3>12. ~ \E a \in Apps, ls \in SUBSET Perms, ds \in Partial(RoleNames, SUBSET Perms) :
               ApplyCatalog(a, ls, ds)
      BY DEF ApplyCatalog
    <3>13. ~ \E t \in Tenants, a \in Apps, n \in RoleNames, ns \in SUBSET Perms :
               SetTenantRoleOverride(t, a, n, ns)
      BY DEF SetTenantRoleOverride
    <3>14. ~ \E t \in Tenants, a \in Apps,
                ms \in Partial(Users, [status : Statuses, roles : SUBSET RoleNames]),
                gs \in Partial(Agents, [status : Statuses, perms : SUBSET Perms]) :
               ApplyTenantState(t, a, ms, gs)
      BY DEF ApplyTenantState
    <3> QED BY <3>1, <3>2, <3>3, <3>4, <3>5, <3>6, <3>7, <3>8, <3>9, <3>10, <3>11, <3>12,
               <3>13, <3>14 DEF RbacNext
  <2>0. PICK t \in Tenants, a \in Apps, n \in RoleNames : DeleteTenantRoleOverride(t, a, n)
    BY <2>1
  <2> DEFINE o == [tenant |-> t, app |-> a, name |-> n]
             d == DefaultRole(a, n)
  <2>2. o.name = n /\ d.name = n
    BY DEF DefaultRole
  <2>3. /\ memberRoles' = [m \in MemberKey |-> Relink(memberRoles[m], o, d)]
        /\ agentRoles' = [g \in AgentKey |-> Relink(agentRoles[g], o, d)]
    BY <2>0 DEF DeleteTenantRoleOverride
  <2> HIDE DEF o, d
  <2>4. ASSUME NEW links PROVE Names(Relink(links, o, d)) = Names(links)
    <3>1. CASE o \in links
      <4>1. Relink(links, o, d) = (links \ {o}) \union {d}
        BY <3>1 DEF Relink
      <4> QED BY <3>1, <4>1, <2>2 DEF Names
    <3>2. CASE o \notin links
      BY <3>2 DEF Relink
    <3> QED BY <3>1, <3>2
  <2> QED BY <2>3, <2>4
<1> QED BY RbacInvCorrect, <1>1, PTL DEF RbacSpec, HoldersKeepNames

(***************************************************************************)
(* The in-memory store reads the same.                                     *)
(***************************************************************************)

\* The loop of find_assignable_roles ends with what _assignable_roles selects,
\* in whatever order it meets the roles: a name has at most the tenant's role
\* and the application-wide one, and the former is written in any case.
LEMMA LoopAssigns ==
  ASSUME RbacTypeOK, NEW t \in Tenants, NEW s \in Scopes, NEW names, NEW named,
         named = NamedRows(t, s, names), NEW rows \in Bijection(1..Cardinality(named), named)
  PROVE  FindAssignableRoles(rows) = AssignableRoles(t, s, names)
<1>1. PICK D : D = 1..Cardinality(named)
  OBVIOUS
<1>2. \A i, j \in D : i < j \/ i = j \/ i > j
  BY <1>1
<1>3. /\ DOMAIN rows = D /\ \A j \in D : rows[j] \in named
      /\ \A r \in named : \E j \in D : rows[j] = r
  BY <1>1 DEF Bijection, Injection, Surjection
<1>4. ASSUME NEW x \in named, NEW y \in named, x.name = y.name, x.tenant = y.tenant PROVE x = y
  <2>1. x \in RoleRow /\ y \in RoleRow /\ x.app = s /\ y.app = s
    BY DEF NamedRows, RbacTypeOK
  <2> QED BY <1>4, <2>1 DEF RoleRow
<1>5. \A x \in named : x.tenant # None => x.tenant = t
  BY DEF NamedRows
<1>6. AssignableRoles(t, s, names) =
        {r \in named : r.tenant # None \/ ~ \E o \in named : o.tenant # None /\ o.name = r.name}
  BY DEF AssignableRoles, NamedRows
<1>7. \A k \in D : KeepRole(rows, k) <=>
        (rows[k].tenant # None \/ \A i \in D : i < k => rows[i].name # rows[k].name)
  BY <1>3 DEF KeepRole
<1>8. ASSUME NEW x \in FindAssignableRoles(rows) PROVE x \in AssignableRoles(t, s, names)
  <2>1. PICK k \in D : /\ x = rows[k] /\ KeepRole(rows, k)
                       /\ \A i \in D : i > k /\ KeepRole(rows, i) => rows[i].name # rows[k].name
    BY <1>3 DEF FindAssignableRoles
  <2>2. CASE x.tenant # None
    BY <1>3, <1>6, <2>1, <2>2
  <2>3. CASE x.tenant = None
    <3>1. ASSUME NEW o \in named, o.tenant # None, o.name = x.name PROVE FALSE
      <4>1. PICK i \in D : rows[i] = o
        BY <1>3
      <4>2. KeepRole(rows, i)
        BY <1>7, <3>1, <4>1
      <4>3. ~ (i < k) /\ ~ (i > k)
        BY <1>7, <2>1, <2>3, <3>1, <4>1, <4>2
      <4>4. i = k
        BY <1>2, <4>3
      <4> QED BY <2>1, <2>3, <3>1, <4>1, <4>4
    <3> QED BY <1>3, <1>6, <2>1, <3>1
  <2> QED BY <2>2, <2>3
<1>9. ASSUME NEW x \in AssignableRoles(t, s, names) PROVE x \in FindAssignableRoles(rows)
  <2>1. x \in named /\ (x.tenant # None \/ ~ \E o \in named : o.tenant # None /\ o.name = x.name)
    BY <1>6
  <2>2. PICK k \in D : rows[k] = x
    BY <1>3, <2>1
  <2>3. ASSUME NEW i \in D, i # k, rows[i].name = x.name PROVE x.tenant # None /\ rows[i].tenant = None
    <3>1. rows[i] \in named
      BY <1>3
    <3>2. CASE rows[i] = x
      <4>1. IsInjective(rows)
        BY DEF Bijection, Injection
      <4> QED BY <1>3, <2>2, <2>3, <3>2, <4>1 DEF IsInjective
    <3>3. CASE rows[i] # x
      BY <1>4, <1>5, <2>1, <2>3, <3>1, <3>3
    <3> QED BY <3>2, <3>3
  <2>4. \A i \in D : ~ (i < i)
    BY <1>1
  <2>5. KeepRole(rows, k)
    BY <1>7, <2>2, <2>3, <2>4
  <2>6. ASSUME NEW i \in D, i > k, KeepRole(rows, i), rows[i].name = rows[k].name PROVE FALSE
    <3>0. i # k /\ k < i
      BY <1>1, <2>6
    <3>1. rows[i].tenant = None
      BY <2>2, <2>3, <2>6, <3>0
    <3> QED BY <1>7, <2>6, <3>0, <3>1
  <2> QED BY <1>3, <2>2, <2>5, <2>6 DEF FindAssignableRoles
<1> QED BY <1>8, <1>9

\* _effective_role_ids of both stores, for links to existing roles.
LEMMA EffectiveAsWalked ==
  ASSUME RbacTypeOK, NEW t \in Tenants, NEW linked \in SUBSET roles, NEW x
  PROVE  x \in EffectiveRoles(t, linked) <=>
           \E r \in linked : r.tenant \in {None, t} /\ x = OverrideOrSelf(t, r)
<1>1. ASSUME NEW r \in linked, r.tenant \in {None, t}
      PROVE  {OverrideOrSelf(t, r)} =
               IF r.tenant = None /\ ~ Internal(r) /\ Override(t, r) # {} THEN Override(t, r) ELSE {r}
  <2>1. CASE r.tenant = None /\ ~ Internal(r)
    <3>1. r \in RoleRow
      BY DEF RbacTypeOK
    <3>2. r.app \in Scopes /\ r.name \in RoleNames
      BY <2>1, <3>1 DEF RoleRow, Internal
    <3>3. PICK own : own = [tenant |-> t, app |-> r.app, name |-> r.name]
      OBVIOUS
    <3>4. Override(t, r) = roles \intersect {own}
      BY <3>2, <3>3, RoleByNameIs DEF Override
    <3>5. {o \in roles : o.tenant = t /\ ~ Internal(o) /\ o.app = r.app /\ o.name = r.name} = Override(t, r)
      BY DEF Override, RoleByName
    <3>6. Override(t, r) # {} => (CHOOSE o \in Override(t, r) : TRUE) = own /\ Override(t, r) = {own}
      BY <3>4
    <3>7. PICK S : S = {o \in roles : o.tenant = t /\ ~ Internal(o) /\ o.app = r.app /\ o.name = r.name}
      OBVIOUS
    <3>8. OverrideOrSelf(t, r) = IF S # {} THEN CHOOSE o \in S : TRUE ELSE r
      BY <2>1, <3>7 DEF OverrideOrSelf
    <3>9. S = Override(t, r)
      BY <3>5, <3>7
    <3> QED BY <2>1, <3>6, <3>8, <3>9
  <2>2. CASE ~ (r.tenant = None /\ ~ Internal(r))
    BY <2>2 DEF OverrideOrSelf
  <2> QED BY <2>1, <2>2
<1>2. ASSUME x \in EffectiveRoles(t, linked)
      PROVE  \E r \in linked : r.tenant \in {None, t} /\ x = OverrideOrSelf(t, r)
  <2>1. PICK r \in linked :
          /\ r.tenant \in {None, t}
          /\ x \in IF r.tenant = None /\ ~ Internal(r) /\ Override(t, r) # {} THEN Override(t, r) ELSE {r}
    BY <1>2 DEF EffectiveRoles
  <2>2. x \in {OverrideOrSelf(t, r)}
    BY <1>1, <2>1
  <2> QED BY <2>1, <2>2
<1>3. ASSUME NEW r \in linked, r.tenant \in {None, t}, x = OverrideOrSelf(t, r)
      PROVE  x \in EffectiveRoles(t, linked)
  <2>1. x \in IF r.tenant = None /\ ~ Internal(r) /\ Override(t, r) # {} THEN Override(t, r) ELSE {r}
    BY <1>1, <1>3
  <2> QED BY <1>3, <2>1 DEF EffectiveRoles
<1> QED BY <1>2, <1>3

\* What the roles that are found give: the permissions collected role by role.
LEMMA WalkedRoles ==
  ASSUME RbacTypeOK, NEW t \in Tenants, NEW linked \in SUBSET roles
  PROVE  EffectiveRoleIds(t, linked) = EffectiveRoles(t, linked)
<1>1. linked = {y \in linked : y \in roles}
  OBVIOUS
<1>2. \A x : x \in EffectiveRoleIds(t, linked) <=>
        \E r \in linked : r.tenant \in {None, t} /\ x = OverrideOrSelf(t, r)
  BY DEF EffectiveRoleIds
<1>3. \A x : x \in EffectiveRoles(t, linked) <=>
        \E r \in linked : r.tenant \in {None, t} /\ x = OverrideOrSelf(t, r)
  BY EffectiveAsWalked
<1>4. \A x : x \in EffectiveRoleIds(t, linked) <=> x \in EffectiveRoles(t, linked)
  BY <1>2, <1>3
<1> QED BY <1>4

LEMMA WalkedUser ==
  ASSUME RbacInv, NEW t \in Tenants, NEW a \in Apps, NEW u \in Users
  PROVE  MemoryUserPermissions(t, a, u) = ResolveUserPermissions(t, a, u)
<1>1. PICK M : M = EligibleMemberships(t, a, u)
  OBVIOUS
<1>2. M = {k \in MemberKey : k.tenant = t /\ k.user = u /\ memberships[k] = "active" /\ (k.app = a \/ k.app = None)}
  BY <1>1 DEF EligibleMemberships
<1>3. \A m \in M : m \in MemberKey /\ memberRoles[m] \in SUBSET roles
  BY <1>2 DEF RbacInv, RbacTypeOK, LinksStayInScope, MemberLinksOK
<1>4. PICK L : L = UNION {memberRoles[m] : m \in M}
  OBVIOUS
<1>5. L \in SUBSET roles
  BY <1>3, <1>4
<1>6. \A x : x \in EffectiveRoles(t, L) <=> \E m \in M : x \in EffectiveRoles(t, memberRoles[m])
  <2>1. \A x : x \in EffectiveRoles(t, L) <=>
          \E r \in L : r.tenant \in {None, t} /\ x = OverrideOrSelf(t, r)
    BY <1>5, EffectiveAsWalked DEF RbacInv
  <2>2. \A m \in M : \A x : x \in EffectiveRoles(t, memberRoles[m]) <=>
          \E r \in memberRoles[m] : r.tenant \in {None, t} /\ x = OverrideOrSelf(t, r)
    BY <1>3, EffectiveAsWalked DEF RbacInv
  <2>3. \A r : r \in L <=> \E m \in M : r \in memberRoles[m]
    BY <1>4
  <2>4. ASSUME NEW x, x \in EffectiveRoles(t, L) PROVE \E m \in M : x \in EffectiveRoles(t, memberRoles[m])
    <3>1. PICK r \in L : r.tenant \in {None, t} /\ x = OverrideOrSelf(t, r)
      BY <2>1, <2>4
    <3>2. PICK m \in M : r \in memberRoles[m]
      BY <2>3
    <3> QED BY <2>2, <3>1, <3>2
  <2>5. ASSUME NEW x, NEW m \in M, x \in EffectiveRoles(t, memberRoles[m]) PROVE x \in EffectiveRoles(t, L)
    <3>1. PICK r \in memberRoles[m] : r.tenant \in {None, t} /\ x = OverrideOrSelf(t, r)
      BY <2>2, <2>5
    <3> QED BY <2>1, <2>3, <3>1
  <2> QED BY <2>4, <2>5
<1>7. \A m \in M : EffectiveRoleIds(t, memberRoles[m]) = EffectiveRoles(t, memberRoles[m])
  BY <1>3, WalkedRoles DEF RbacInv
<1>8. ResolveUserPermissions(t, a, u) =
        {p.name : p \in {x \in PermRow : /\ perms[x] = "active" /\ x.app \in {a, None}
                                         /\ \E r \in EffectiveRoles(t, L) : x \in rolePerms[r]}}
  BY <1>1, <1>4 DEF ResolveUserPermissions, Names, GrantedRows
<1>9. MemoryUserPermissions(t, a, u) =
        UNION {UNION {{p.name : p \in {x \in ListRolePermissions(r) : x.app \in {a, None} /\ perms[x] = "active"}} :
                        r \in EffectiveRoleIds(t, memberRoles[m])} : m \in M}
  BY <1>2 DEF MemoryUserPermissions
<1>10. ASSUME NEW n PROVE n \in MemoryUserPermissions(t, a, u) <=>
         \E m \in M : \E r \in EffectiveRoles(t, memberRoles[m]) : \E x \in PermRow :
           x \in rolePerms[r] /\ x.app \in {a, None} /\ perms[x] = "active" /\ n = x.name
  BY <1>7, <1>9 DEF ListRolePermissions
<1>11. ASSUME NEW n PROVE n \in ResolveUserPermissions(t, a, u) <=>
         \E m \in M : \E r \in EffectiveRoles(t, memberRoles[m]) : \E x \in PermRow :
           x \in rolePerms[r] /\ x.app \in {a, None} /\ perms[x] = "active" /\ n = x.name
  BY <1>6, <1>8
<1> QED BY <1>10, <1>11

LEMMA WalkedAgent ==
  ASSUME RbacInv, NEW t \in Tenants, NEW a \in Apps, NEW g \in AgentKey
  PROVE  MemoryAgentPermissions(t, a, g) = ResolveAgentPermissions(t, a, g)
<1>1. CASE ~ MemoryAgent(t, a, g)
  BY <1>1 DEF MemoryAgent, MemoryAgentPermissions, ResolveAgentPermissions
<1>2. CASE MemoryAgent(t, a, g)
  <2>1. agentRoles[g] \in SUBSET roles
    BY DEF RbacInv, RbacTypeOK, LinksStayInScope, AgentLinksOK
  <2>2. PICK E : E = EffectiveRoles(t, agentRoles[g]) /\ E = EffectiveRoleIds(t, agentRoles[g])
    BY <2>1, WalkedRoles DEF RbacInv
  <2>3. ResolveAgentPermissions(t, a, g) =
          {p.name : p \in {x \in PermRow : perms[x] = "active" /\ \E r \in E : x \in rolePerms[r]}}
    BY <1>2, <2>2 DEF MemoryAgent, ResolveAgentPermissions, Names, GrantedRows
  <2>4. MemoryAgentPermissions(t, a, g) =
          UNION {{p.name : p \in {x \in ListRolePermissions(r) : perms[x] = "active"}} : r \in E}
    BY <1>2, <2>2 DEF MemoryAgentPermissions
  <2>5. ASSUME NEW n PROVE n \in MemoryAgentPermissions(t, a, g) <=>
          \E r \in E : \E x \in PermRow : x \in rolePerms[r] /\ perms[x] = "active" /\ n = x.name
    BY <2>4 DEF ListRolePermissions
  <2>6. ASSUME NEW n PROVE n \in ResolveAgentPermissions(t, a, g) <=>
          \E r \in E : \E x \in PermRow : x \in rolePerms[r] /\ perms[x] = "active" /\ n = x.name
    BY <2>3
  <2> QED BY <2>5, <2>6
<1> QED BY <1>1, <1>2

LEMMA WalkedMembership ==
  ASSUME NEW t \in Tenants, NEW a \in Apps, NEW u \in Users
  PROVE  MemoryMembershipActive(t, a, u) = IsUserMembershipActive(t, a, u)
<1>1. PICK own, wide : own = MembershipRow(t, a, u) /\ wide = MembershipRow(t, None, u)
  OBVIOUS
<1>2. own \in MemberKey
  BY <1>1 DEF MembershipRow, MemberKey
<1>3. wide \in MemberKey <=> None \in Scopes
  BY <1>1 DEF MembershipRow, MemberKey
<1>4. ASSUME NEW m \in MemberKey, NEW s PROVE m.tenant = t /\ m.app = s /\ m.user = u <=> m = MembershipRow(t, s, u)
  BY DEF MembershipRow, MemberKey
<1>5. GetMembership(t, a, u) = IF memberships[own] # "absent" THEN {own} ELSE {}
  BY <1>1, <1>2, <1>4 DEF GetMembership
<1>6. GetMembership(t, None, u) = IF None \in Scopes /\ memberships[wide] # "absent" THEN {wide} ELSE {}
  BY <1>1, <1>3, <1>4 DEF GetMembership
<1>7. MemoryMembershipActive(t, a, u) <=> IsUserMembershipActive(t, a, u)
  BY <1>1, <1>5, <1>6 DEF MemoryMembershipActive, IsUserMembershipActive
<1> QED BY <1>7 DEF MemoryMembershipActive, IsUserMembershipActive

\* All the reads of the two stores, side by side.
LEMMA ReadAlike == RbacInv => StoresAgree
<1> SUFFICES ASSUME RbacInv PROVE StoresAgree
  OBVIOUS
<1>1. ASSUME NEW t \in Tenants, NEW s \in Scopes, NEW ns \in SUBSET RoleNames,
             NEW rows \in Bijection(1..Cardinality(NamedRows(t, s, ns)), NamedRows(t, s, ns))
      PROVE  FindAssignableRoles(rows) = AssignableRoles(t, s, ns)
  BY LoopAssigns DEF RbacInv
<1>2. ASSUME NEW t \in Tenants, NEW a \in Apps, NEW g \in AgentKey
      PROVE  MemoryAgentActive(t, a, g) = IsAgentActive(t, a, g)
  <2>1. MemoryAgentActive(t, a, g) <=> IsAgentActive(t, a, g)
    BY DEF MemoryAgentActive, MemoryAgent, IsAgentActive
  <2> QED BY <2>1 DEF MemoryAgentActive, IsAgentActive
<1>3. ASSUME NEW r \in roles, NEW ns \in SUBSET Perms
      PROVE  FoundPermissions(r, ns) = ActivePermissions(r.app, ns)
  BY DEF FoundPermissions, ActivePermissions
<1> QED BY <1>1, <1>2, <1>3, WalkedUser, WalkedAgent, WalkedMembership DEF StoresAgree

\* InMemoryStore and SqlAlchemyStore resolve names, overrides, memberships and
\* permissions alike, in every database that administrative writes lead to and
\* in whatever order the dictionaries hold their rows.
THEOREM StoresReadAlike == RbacSpec => []StoresAgree
BY ReadAlike, RbacInvCorrect, PTL

USE UnknownAssumption, NullAssumption

(***************************************************************************)
(* References and delegation.                                              *)
(***************************************************************************)

\* The fields of a request.
LEMMA RequestFields ==
  ASSUME NEW q \in Requests
  PROVE  /\ q.tenant \in Tenants \union {Unknown} /\ q.app \in Apps
         /\ q.type \in {"user", "agent", "service"}
         /\ q.user \in Users \union {Unknown, None} /\ q.userRef \in BOOLEAN
         /\ q.agent \in AgentKey \union {None} /\ q.agentName \in Agents \union {Unknown, None}
         /\ q.userRef => q.user = Unknown
         /\ q.agentName # None => q.agent = None
  BY DEF Requests

\* The fields of a token.
LEMMA TokenFields ==
  ASSUME NEW token \in Tokens
  PROVE  /\ token.kind \in {"none", "invalid", "grant"}
         /\ token.kind = "grant" =>
              /\ token.tenant \in Tenants /\ token.app \in Apps /\ token.user \in Users
              /\ token.agent \in AgentKey /\ token.perms \in SUBSET Perms
              /\ token.agent.tenant = token.tenant /\ token.agent.app = token.app
  BY DEF Tokens, Grants

\* The row that a name refers to.
LEMMA NamedAgentRow ==
  ASSUME RbacTypeOK, NEW q \in Requests, NamedAgent(q) \in AgentKey
  PROVE  /\ NamedAgent(q).tenant = q.tenant /\ NamedAgent(q).app = q.app
         /\ NamedAgent(q) # None
         /\ agents[NamedAgent(q)] \in Statuses \union {"absent"}
  BY DEF NamedAgent, RbacTypeOK

\* resolve_references, field by field.
LEMMA ReferenceFields ==
  ASSUME RbacTypeOK, NEW q \in Requests
  PROVE  /\ ResolveReferences(q).tenantStatus = None <=> q.tenant \notin Tenants
         /\ q.tenant \in Tenants => ResolveReferences(q).tenantStatus = tenants[q.tenant]
         /\ ResolveReferences(q).appStatus = apps[q.app]
         /\ ResolveReferences(q).userMissing = q.userRef
         /\ ResolveReferences(q).user = IF q.userRef THEN None ELSE q.user
         /\ ResolveReferences(q).agentMissing = (q.agentName # None /\ ~ AgentFound(q))
         /\ q.agentName = None =>
              /\ ResolveReferences(q).agent = q.agent
              /\ ResolveReferences(q).agentStatus = None
         /\ q.agentName # None /\ AgentFound(q) =>
              /\ ResolveReferences(q).agent = NamedAgent(q)
              /\ ResolveReferences(q).agentStatus = agents[NamedAgent(q)]
         /\ q.agentName # None /\ ~ AgentFound(q) => ResolveReferences(q).agent = None
  BY RequestFields DEF ResolveReferences, RbacTypeOK, Statuses

\* apply_delegation, case by case.
LEMMA DelegationCases ==
  ASSUME NEW q, NEW refs, NEW token, NEW required, NEW s, token \in Tokens,
         s = ApplyDelegation(q, refs, token, required)
  PROVE  /\ token.kind = "none" =>
              /\ s.deny \in {Ok, "delegation_required"}
              /\ s.deny = Ok <=> ~ (required /\ q.type = "agent")
              /\ s.perms = None /\ s.user = refs.user /\ s.agent = refs.agent
         /\ token.kind = "invalid" => s.deny = "delegation_invalid"
         /\ token.kind = "grant" /\ q.type # "agent" => s.deny = "delegation_mismatch"
         /\ token.kind # "grant" \/ q.type # "agent" =>
              s.perms = None /\ s.user = refs.user /\ s.agent = refs.agent
         /\ token.kind = "grant" /\ q.type = "agent" =>
              /\ s.user = IF refs.user = None THEN token.user ELSE refs.user
              /\ s.agent = IF refs.agent = None THEN token.agent ELSE refs.agent
              /\ s.deny = IF /\ q.tenant = token.tenant /\ q.app = token.app
                             /\ s.user = token.user /\ s.agent = token.agent
                          THEN Ok ELSE "delegation_mismatch"
              /\ s.deny = Ok => s.perms = token.perms
<1>1. token.kind \in {"none", "invalid", "grant"}
  BY TokenFields
<1>2. CASE token.kind = "none"
  BY <1>2 DEF ApplyDelegation, Ok
<1>3. CASE token.kind = "invalid"
  BY <1>3 DEF ApplyDelegation, Ok
<1>4. CASE token.kind = "grant"
  BY <1>4 DEF ApplyDelegation, Ok, GrantMatches
<1> QED BY <1>1, <1>2, <1>3, <1>4

(***************************************************************************)
(* The ladders of the engine.                                              *)
(***************************************************************************)

\* _resolve_user and _resolve_agent let through exactly the subjects with an
\* active membership and, for an agent, an active agent.
LEMMA SubjectOk ==
  ASSUME NEW q, NEW refs, NEW s
  PROVE  SubjectReason(q, refs, s) = Ok <=>
           /\ s.user # None /\ MembershipActive(q, refs, s)
           /\ \/ q.type = "user" /\ ~ refs.agentMissing
              \/ q.type = "agent" /\ s.agent # None /\ AgentActive(q, refs, s)
  BY DEF SubjectReason, Ok, MembershipActive

\* No reason to deny reads like a grant.
LEMMA SubjectNotGranted ==
  ASSUME NEW q, NEW refs, NEW s
  PROVE  /\ SubjectReason(q, refs, s) # "permission_granted"
         /\ Inactive(refs) # "permission_granted"
  BY DEF SubjectReason, Inactive, Ok

\* What authorize() grants, when no condition refuses: the subject is let through
\* and the permission is in the delegated part of the masked set.
LEMMA AuthorizeGrants ==
  ASSUME NEW q, NEW refs, NEW s, NEW p
  PROVE  EngineAuthorize(q, refs, s, p, {}) = "permission_granted" <=>
           /\ Inactive(refs) = Ok /\ SubjectReason(q, refs, s) = Ok
           /\ p \in Delegated(Masked(SubjectPermissions(q, s),
                                     ResolveTenantPermissions(q.tenant, q.app)), s.perms)
  BY SubjectNotGranted DEF EngineAuthorize, Decide, MissingReason, Ok

\* A subset, mask or grant takes permissions away and adds none.
LEMMA DelegatedSubset ==
  ASSUME NEW P, NEW T, NEW D
  PROVE  Delegated(Masked(P, T), D) \subseteq Masked(P, T) /\ Masked(P, T) \subseteq P
  BY DEF Delegated, Masked

\* What the permission queries return are names of permissions.
LEMMA PermissionsAreNames ==
  ASSUME NEW t, NEW a, NEW u, NEW g
  PROVE  /\ ResolveUserPermissions(t, a, u) \subseteq Perms
         /\ ResolveAgentPermissions(t, a, g) \subseteq Perms
  BY DEF ResolveUserPermissions, ResolveAgentPermissions, Names, GrantedRows, PermRow

\* An unknown tenant, user or agent is denied by the engine, whatever a token
\* has filled in.
LEMMA IncompleteDenied ==
  ASSUME RbacTypeOK, NEW q \in Requests, NEW s, NEW p, ~ Complete(ResolveReferences(q))
  PROVE  EngineAuthorize(q, ResolveReferences(q), s, p, {}) # "permission_granted"
<1> DEFINE refs == ResolveReferences(q)
<1>1. refs.tenantStatus = None \/ refs.userMissing \/ refs.agentMissing
  BY DEF Complete
<1>2. CASE refs.tenantStatus = None
  BY <1>2, AuthorizeGrants DEF Inactive, Ok, Statuses
<1>3. CASE refs.userMissing \/ refs.agentMissing
  <2> HIDE DEF refs
  <2>1. SubjectReason(q, refs, s) # Ok
    BY <1>3, SubjectOk DEF MembershipActive, AgentActive
  <2> QED BY <2>1, AuthorizeGrants DEF refs
<1> QED BY <1>1, <1>2, <1>3

\* authorize and bulk-authorize give the same reason for every check.
LEMMA BulkAgrees ==
  ASSUME NEW q, NEW pre, NEW refused
  PROVE  BulkEndpoint(q, pre, Perms, refused) =
           [p \in Perms |-> AuthorizeEndpoint(q, pre, p, refused)]
<1> SUFFICES EngineBulk(q, pre.refs, pre.s, Perms, refused) =
               [p \in Perms |-> EngineAuthorize(q, pre.refs, pre.s, p, refused)]
  BY DEF BulkEndpoint, AuthorizeEndpoint
<1> DEFINE P == SubjectPermissions(q, pre.s)
           T == ResolveTenantPermissions(q.tenant, q.app)
           U == Masked(P, T)
           F == Delegated(U, pre.s.perms)
<1>1. CASE Inactive(pre.refs) # Ok \/ SubjectReason(q, pre.refs, pre.s) # Ok
  BY <1>1 DEF EngineBulk, EngineAuthorize
<1>2. CASE Inactive(pre.refs) = Ok /\ SubjectReason(q, pre.refs, pre.s) = Ok
  <2>1. F \subseteq U
    BY DelegatedSubset
  <2>2. EngineBulk(q, pre.refs, pre.s, Perms, refused) =
          [p \in Perms |->
              CASE p \in F /\ p \in refused -> "policy_condition_failed"
                [] p \in F /\ p \notin refused -> "permission_granted"
                [] p \notin F /\ p \in U -> "not_delegated"
                [] p \notin U /\ T # {} /\ p \in P -> "tenant_feature_disabled"
                [] OTHER -> "missing_permission"]
    BY <1>2 DEF EngineBulk
  <2>3. \A p : EngineAuthorize(q, pre.refs, pre.s, p, refused) =
          IF p \notin F
          THEN IF p \in U THEN "not_delegated"
               ELSE IF T # {} /\ p \in P THEN "tenant_feature_disabled"
               ELSE "missing_permission"
          ELSE IF p \in refused THEN "policy_condition_failed" ELSE "permission_granted"
    BY <1>2 DEF EngineAuthorize, Decide, MissingReason
  <2> HIDE DEF F, U, T, P
  <2>4. ASSUME NEW p
        PROVE  (CASE p \in F /\ p \in refused -> "policy_condition_failed"
                  [] p \in F /\ p \notin refused -> "permission_granted"
                  [] p \notin F /\ p \in U -> "not_delegated"
                  [] p \notin U /\ T # {} /\ p \in P -> "tenant_feature_disabled"
                  [] OTHER -> "missing_permission")
               = EngineAuthorize(q, pre.refs, pre.s, p, refused)
    BY <2>1, <2>3
  <2> QED BY <2>2, <2>4
<1> QED BY <1>1, <1>2

\* The references and the delegation as the endpoints prepare them; what a
\* delegation problem is called.
LEMMA DenyReasons ==
  ASSUME NEW q, NEW refs, NEW token \in Tokens, NEW required
  PROVE  ApplyDelegation(q, refs, token, required).deny \in
           {Ok, "delegation_required", "delegation_invalid", "delegation_mismatch"}
<1>1. PICK s : s = ApplyDelegation(q, refs, token, required)
  OBVIOUS
<1>2. token.kind \in {"none", "invalid", "grant"}
  BY TokenFields
<1>3. /\ token.kind = "none" =>
           s.deny \in {Ok, "delegation_required"}
      /\ token.kind = "invalid" => s.deny = "delegation_invalid"
      /\ token.kind = "grant" /\ q.type # "agent" => s.deny = "delegation_mismatch"
      /\ token.kind = "grant" /\ q.type = "agent" => s.deny \in {Ok, "delegation_mismatch"}
  BY <1>1, DelegationCases
<1> QED BY <1>1, <1>2, <1>3

\* authorize grants nothing when a reference is unknown or the delegation is
\* denied, and otherwise what the engine grants.
LEMMA EndpointGrants ==
  ASSUME RbacTypeOK, NEW q \in Requests, NEW token \in Tokens, NEW required, NEW p
  PROVE  LET pre == Prepared(q, token, required) IN
         AuthorizeEndpoint(q, pre, p, {}) = "permission_granted" <=>
           /\ Complete(pre.refs) /\ pre.s.deny = Ok
           /\ EngineAuthorize(q, pre.refs, pre.s, p, {}) = "permission_granted"
<1> DEFINE refs == ResolveReferences(q)
           s == ApplyDelegation(q, refs, token, required)
           pre == Prepared(q, token, required)
<1>1. pre.refs = refs /\ pre.s = s
  BY DEF Prepared
<1>2. s.deny # "permission_granted"
  BY DenyReasons DEF Ok
<1>3. ~ Complete(refs) => EngineAuthorize(q, refs, s, p, {}) # "permission_granted"
  BY IncompleteDenied
<1> HIDE DEF refs, s, pre
<1> QED BY <1>1, <1>2, <1>3 DEF AuthorizeEndpoint, DelegationDeny, pre

\* The permissions listed are the permissions that would be granted one by one.
LEMMA EffectiveAgrees ==
  ASSUME RbacTypeOK, NEW q \in Requests, NEW token \in Tokens, NEW required
  PROVE  EffectiveEndpoint(q, Prepared(q, token, required)) =
           {p \in Perms : AuthorizeEndpoint(q, Prepared(q, token, required), p, {})
                            = "permission_granted"}
<1> DEFINE pre == Prepared(q, token, required)
           E == Delegated(Masked(SubjectPermissions(q, pre.s),
                                 ResolveTenantPermissions(q.tenant, q.app)), pre.s.perms)
<1>1. E \subseteq Perms
  BY DelegatedSubset, PermissionsAreNames DEF SubjectPermissions
<1>2. \A p : AuthorizeEndpoint(q, pre, p, {}) = "permission_granted" <=>
        /\ Complete(pre.refs) /\ pre.s.deny = Ok
        /\ Inactive(pre.refs) = Ok /\ SubjectReason(q, pre.refs, pre.s) = Ok /\ p \in E
  BY EndpointGrants, AuthorizeGrants
<1>3. EffectiveEndpoint(q, pre) =
        IF ~ Complete(pre.refs) \/ pre.s.deny # Ok THEN {} ELSE EngineEffective(q, pre.refs, pre.s)
  BY DEF EffectiveEndpoint
<1>4. Complete(pre.refs) => (SubjectReason(q, pre.refs, pre.s) = Ok <=>
           /\ pre.s.user # None /\ MembershipActive(q, pre.refs, pre.s)
           /\ \/ q.type = "user"
              \/ q.type = "agent" /\ pre.s.agent # None /\ AgentActive(q, pre.refs, pre.s))
  BY SubjectOk DEF Complete
<1>5. Complete(pre.refs) => EngineEffective(q, pre.refs, pre.s) =
        IF Inactive(pre.refs) = Ok /\ SubjectReason(q, pre.refs, pre.s) = Ok THEN E ELSE {}
  BY <1>4 DEF EngineEffective
<1> HIDE DEF pre, E
<1> QED BY <1>1, <1>2, <1>3, <1>5 DEF pre

\* The library's ladder for an agent run, where the endpoint asks no more.
LEMMA LibraryAgrees ==
  ASSUME RbacTypeOK, NEW q \in Requests, NEW token \in Tokens,
         q.type = "agent", q.agentName = None, ~ q.userRef, token.kind = "none",
         apps[q.app] = "active", NEW required, ~ required
  PROVE  EffectiveEndpoint(q, Prepared(q, token, required)) =
           AgentContext(q.tenant, q.app, q.user, q.agent)
<1> DEFINE refs == ResolveReferences(q)
           s == ApplyDelegation(q, refs, token, required)
<1>1. Prepared(q, token, required).refs = refs /\ Prepared(q, token, required).s = s
  BY DEF Prepared
<1>2. /\ refs.tenantStatus = None <=> q.tenant \notin Tenants
      /\ q.tenant \in Tenants => refs.tenantStatus = tenants[q.tenant]
      /\ refs.appStatus = "active" /\ ~ refs.userMissing /\ ~ refs.agentMissing
      /\ refs.user = q.user /\ refs.agent = q.agent /\ refs.agentStatus = None
  BY ReferenceFields
<1>3. s.deny = Ok /\ s.perms = None /\ s.user = q.user /\ s.agent = q.agent
  <2>1. PICK d : d = s
    OBVIOUS
  <2>2. PICK r : r = refs
    OBVIOUS
  <2>3. d = ApplyDelegation(q, r, token, required)
    BY <2>1, <2>2
  <2>4. d.deny = Ok /\ d.perms = None /\ d.user = r.user /\ d.agent = r.agent
    BY <2>3, DelegationCases
  <2> QED BY <1>2, <2>1, <2>2, <2>4
<1> HIDE DEF refs, s
<1>4. Complete(refs) <=> q.tenant \in Tenants
  BY <1>2 DEF Complete
<1>5. q.tenant \in Tenants => (Inactive(refs) = Ok <=> tenants[q.tenant] = "active")
  BY <1>2 DEF Inactive, Ok
<1>6. s.user # None /\ MembershipActive(q, refs, s) <=>
        q.user \in Users /\ IsUserMembershipActive(q.tenant, q.app, q.user)
  BY <1>2, <1>3 DEF MembershipActive
<1>7. s.agent # None /\ AgentActive(q, refs, s) <=>
        q.agent \in AgentKey /\ IsAgentActive(q.tenant, q.app, q.agent)
  BY <1>2, <1>3, RequestFields DEF AgentActive
<1>8. Delegated(Masked(SubjectPermissions(q, s), ResolveTenantPermissions(q.tenant, q.app)),
                s.perms)
        = Masked(ResolveUserPermissions(q.tenant, q.app, q.user)
                   \intersect ResolveAgentPermissions(q.tenant, q.app, q.agent),
                 ResolveTenantPermissions(q.tenant, q.app))
  BY <1>3 DEF Delegated, SubjectPermissions
<1>9. EffectiveEndpoint(q, Prepared(q, token, required)) =
        IF q.tenant \notin Tenants THEN {} ELSE EngineEffective(q, refs, s)
  BY <1>1, <1>3, <1>4 DEF EffectiveEndpoint
<1> QED BY <1>5, <1>6, <1>7, <1>8, <1>9 DEF EngineEffective, AgentContext

\* authorize, bulk-authorize, effective-permissions and the library's resolver,
\* each coded on its own, answer alike whatever the tables hold.
THEOREM EntryPoints == RbacSpec => []EntryPointsAgree
<1>1. RbacTypeOK => EntryPointsAgree
  <2> SUFFICES ASSUME RbacTypeOK, NEW q \in Requests, NEW token \in Tokens,
                      NEW required \in Settings(token)
      PROVE  \A pre \in {Prepared(q, token, required)} :
        /\ \A refused \in SUBSET Perms :
             BulkEndpoint(q, pre, Perms, refused) =
               [p \in Perms |-> AuthorizeEndpoint(q, pre, p, refused)]
        /\ EffectiveEndpoint(q, pre) =
             {p \in Perms : AuthorizeEndpoint(q, pre, p, {}) = "permission_granted"}
        /\ /\ q.type = "agent" /\ q.agentName = None /\ ~ q.userRef
           /\ token.kind = "none" /\ ~ required /\ apps[q.app] = "active"
           => EffectiveEndpoint(q, pre) = AgentContext(q.tenant, q.app, q.user, q.agent)
    BY DEF EntryPointsAgree
  <2>1. required \in BOOLEAN
    BY DEF Settings
  <2> DEFINE pre == Prepared(q, token, required)
  <2>2. \A refused \in SUBSET Perms :
          BulkEndpoint(q, pre, Perms, refused) =
            [p \in Perms |-> AuthorizeEndpoint(q, pre, p, refused)]
    BY BulkAgrees
  <2>3. EffectiveEndpoint(q, pre) =
          {p \in Perms : AuthorizeEndpoint(q, pre, p, {}) = "permission_granted"}
    BY <2>1, EffectiveAgrees
  <2>4. /\ q.type = "agent" /\ q.agentName = None /\ ~ q.userRef
        /\ token.kind = "none" /\ ~ required /\ apps[q.app] = "active"
        => EffectiveEndpoint(q, pre) = AgentContext(q.tenant, q.app, q.user, q.agent)
    BY LibraryAgrees
  <2> HIDE DEF pre
  <2> QED BY <2>2, <2>3, <2>4 DEF pre
<1> QED BY RbacTypeCorrect, <1>1, PTL

(***************************************************************************)
(* What an allow means.                                                    *)
(***************************************************************************)

\* A request that names somebody unknown is entitled to nothing.
LEMMA EntitledComplete ==
  ASSUME RbacTypeOK, NEW q \in Requests, NEW token \in Tokens, NEW required, NEW p,
         Entitled(q, token, required, p)
  PROVE  Complete(ResolveReferences(q))
<1>1. q.tenant \in Tenants
  BY DEF Entitled
<1>2. PICK u \in NamedUsers(q, token) :
        \/ q.type = "user" /\ (q.agentName # None => NamedAgents(q, token) # {})
        \/ \E g \in NamedAgents(q, token) : q.type = "agent"
  BY DEF Entitled
<1>3. ~ q.userRef
  BY <1>2, RequestFields DEF NamedUsers
<1>4. q.agentName # None => AgentFound(q)
  BY <1>2 DEF NamedAgents, AgentFound
<1> QED BY <1>1, <1>3, <1>4, ReferenceFields DEF Complete

\* For known references, the agent that the engine decides about is the agent
\* that the request names, and _agent_active asks for its status in this tenant
\* and application, whether it was read with the name or later.
LEMMA DecidedAgent ==
  ASSUME RbacTypeOK, NEW q \in Requests, NEW token \in Tokens, NEW refs, NEW s,
         refs = ResolveReferences(q), Complete(refs), q.type = "agent",
         s.agent = IF token.kind = "grant" /\ refs.agent = None THEN token.agent ELSE refs.agent
  PROVE  /\ NamedAgents(q, token) = IF s.agent # None THEN {s.agent} ELSE {}
         /\ s.agent # None =>
              /\ s.agent \in AgentKey
              /\ AgentActive(q, refs, s) <=>
                   s.agent.tenant = q.tenant /\ s.agent.app = q.app /\ agents[s.agent] = "active"
<1>1. ~ refs.agentMissing /\ (q.agentName # None => AgentFound(q))
  BY ReferenceFields DEF Complete
<1>2. token.kind = "grant" => token.agent \in AgentKey /\ token.agent # None
  BY TokenFields
<1>3. CASE q.agentName # None
  <2>1. /\ refs.agent = NamedAgent(q) /\ refs.agentStatus = agents[NamedAgent(q)]
        /\ NamedAgent(q) \in AgentKey /\ agents[NamedAgent(q)] # "absent"
    BY <1>1, <1>3, ReferenceFields DEF AgentFound
  <2>2. /\ NamedAgent(q).tenant = q.tenant /\ NamedAgent(q).app = q.app
        /\ NamedAgent(q) # None /\ agents[NamedAgent(q)] # None
    BY <2>1, NamedAgentRow DEF Statuses
  <2>3. s.agent = NamedAgent(q)
    BY <2>1, <2>2
  <2>4. NamedAgents(q, token) = {NamedAgent(q)}
    BY <1>3, <2>1 DEF NamedAgents
  <2> QED BY <1>1, <2>1, <2>2, <2>3, <2>4 DEF AgentActive
<1>4. CASE q.agentName = None
  <2>1. refs.agent = q.agent /\ refs.agentStatus = None
    BY <1>4, ReferenceFields
  <2>2. AgentActive(q, refs, s) <=> IsAgentActive(q.tenant, q.app, s.agent)
    BY <1>1, <2>1 DEF AgentActive
  <2>3. q.agent \in AgentKey \union {None}
    BY RequestFields
  <2>4. NamedAgents(q, token) = IF s.agent # None THEN {s.agent} ELSE {}
    BY <1>2, <1>4, <2>1 DEF NamedAgents
  <2>5. s.agent # None => s.agent \in AgentKey
    BY <1>2, <2>1, <2>3
  <2> QED BY <2>2, <2>4, <2>5 DEF IsAgentActive
<1> QED BY <1>3, <1>4

\* The permissions left after mask and grant.
LEMMA Remaining ==
  ASSUME NEW P, NEW T, NEW D, NEW p
  PROVE  p \in Delegated(Masked(P, T), D) <=>
           p \in P /\ (T # {} => p \in T) /\ (D # None => p \in D)
  BY DEF Delegated, Masked

\* A user's request.
LEMMA UserEntitled ==
  ASSUME RbacTypeOK, NEW q \in Requests, NEW token \in Tokens, NEW required, NEW p,
         NEW refs, NEW s, refs = ResolveReferences(q), Complete(refs),
         s = ApplyDelegation(q, refs, token, required), q.type = "user"
  PROVE  /\ s.deny = Ok /\ Inactive(refs) = Ok /\ SubjectReason(q, refs, s) = Ok
         /\ p \in Delegated(Masked(SubjectPermissions(q, s),
                                   ResolveTenantPermissions(q.tenant, q.app)), s.perms)
         <=> Entitled(q, token, required, p)
<1>1. /\ q.tenant \in Tenants /\ ~ q.userRef /\ ~ refs.userMissing /\ ~ refs.agentMissing
      /\ refs.user = q.user /\ (q.agentName # None => AgentFound(q))
      /\ refs.tenantStatus = tenants[q.tenant] /\ refs.appStatus = apps[q.app]
  BY ReferenceFields DEF Complete
<1>2. token.kind \in {"none", "invalid", "grant"}
  BY TokenFields
<1>3. Entitled(q, token, required, p) => token.kind = "none"
  BY DEF Entitled
<1>4. token.kind # "none" => s.deny # Ok
  BY <1>2, DelegationCases DEF Ok
<1>5. CASE token.kind = "none"
  <2>1. s.deny = Ok /\ s.perms = None /\ s.user = q.user
    BY <1>1, <1>5, DelegationCases
  <2>2. SubjectReason(q, refs, s) = Ok <=>
          q.user \in Users /\ IsUserMembershipActive(q.tenant, q.app, q.user)
    BY <1>1, <2>1, SubjectOk DEF MembershipActive
  <2>3. Inactive(refs) = Ok <=> tenants[q.tenant] = "active" /\ apps[q.app] = "active"
    BY <1>1 DEF Inactive, Ok
  <2>4. p \in Delegated(Masked(SubjectPermissions(q, s),
                               ResolveTenantPermissions(q.tenant, q.app)), s.perms)
        <=> /\ p \in ResolveUserPermissions(q.tenant, q.app, q.user)
            /\ mask[<<q.tenant, q.app>>] # {} => p \in mask[<<q.tenant, q.app>>]
    BY <2>1, Remaining DEF SubjectPermissions, ResolveTenantPermissions
  <2>5. NamedUsers(q, token) = IF q.user \in Users THEN {q.user} ELSE {}
    BY <1>5 DEF NamedUsers
  <2>6. q.agentName # None => NamedAgents(q, token) # {}
    BY <1>1 DEF NamedAgents, AgentFound
  <2> QED BY <1>1, <1>5, <2>1, <2>2, <2>3, <2>4, <2>5, <2>6 DEF Entitled
<1> QED BY <1>3, <1>4, <1>5

\* An agent's request.
LEMMA AgentEntitled ==
  ASSUME RbacTypeOK, NEW q \in Requests, NEW token \in Tokens, NEW required, NEW p,
         NEW refs, NEW s, refs = ResolveReferences(q), Complete(refs),
         s = ApplyDelegation(q, refs, token, required), q.type = "agent"
  PROVE  /\ s.deny = Ok /\ Inactive(refs) = Ok /\ SubjectReason(q, refs, s) = Ok
         /\ p \in Delegated(Masked(SubjectPermissions(q, s),
                                   ResolveTenantPermissions(q.tenant, q.app)), s.perms)
         <=> Entitled(q, token, required, p)
<1> DEFINE U == ResolveUserPermissions(q.tenant, q.app, s.user)
           A == ResolveAgentPermissions(q.tenant, q.app, s.agent)
           T == mask[<<q.tenant, q.app>>]
<1>1. /\ q.tenant \in Tenants /\ ~ q.userRef /\ ~ refs.userMissing /\ ~ refs.agentMissing
      /\ refs.user = q.user
      /\ refs.tenantStatus = tenants[q.tenant] /\ refs.appStatus = apps[q.app]
  BY ReferenceFields DEF Complete
<1>2. token.kind \in {"none", "invalid", "grant"}
  BY TokenFields
<1>3. Inactive(refs) = Ok <=> tenants[q.tenant] = "active" /\ apps[q.app] = "active"
  BY <1>1 DEF Inactive, Ok
<1>4. token.kind = "invalid" => s.deny # Ok /\ ~ Entitled(q, token, required, p)
  <2>1. token.kind = "invalid" => s.deny # Ok
    BY DelegationCases DEF Ok
  <2>2. token.kind = "invalid" => ~ Entitled(q, token, required, p)
    BY DEF Entitled
  <2> QED BY <2>1, <2>2
<1>5. s.agent = IF token.kind = "grant" /\ refs.agent = None THEN token.agent ELSE refs.agent
  <2>1. token.kind # "grant" => s.agent = refs.agent
    BY DelegationCases
  <2>2. token.kind = "grant" =>
          s.agent = IF refs.agent = None THEN token.agent ELSE refs.agent
    BY DelegationCases
  <2> QED BY <2>1, <2>2
<1>6. /\ NamedAgents(q, token) = IF s.agent # None THEN {s.agent} ELSE {}
      /\ s.agent # None =>
           (AgentActive(q, refs, s) <=>
              s.agent.tenant = q.tenant /\ s.agent.app = q.app /\ agents[s.agent] = "active")
  BY <1>5, DecidedAgent
<1>7. SubjectReason(q, refs, s) = Ok <=>
        /\ s.user \in Users /\ IsUserMembershipActive(q.tenant, q.app, s.user)
        /\ s.agent # None /\ AgentActive(q, refs, s)
  BY <1>1, SubjectOk DEF MembershipActive
<1>8. p \in Delegated(Masked(SubjectPermissions(q, s),
                             ResolveTenantPermissions(q.tenant, q.app)), s.perms)
        <=> /\ p \in U /\ p \in A /\ (T # {} => p \in T)
            /\ s.perms # None => p \in s.perms
  BY Remaining DEF SubjectPermissions, ResolveTenantPermissions
<1> HIDE DEF U, A, T
\* Every condition about the agent, with the token in hand.
<1> DEFINE Covered(u, g) == IF token.kind = "none" THEN ~ required
                            ELSE /\ token.kind = "grant" /\ p \in token.perms
                                 /\ token.tenant = q.tenant /\ token.app = q.app
                                 /\ token.user = u /\ token.agent = g
<1>9. Entitled(q, token, required, p) <=>
        /\ tenants[q.tenant] = "active" /\ apps[q.app] = "active"
        /\ \E u \in NamedUsers(q, token) :
             /\ IsUserMembershipActive(q.tenant, q.app, u)
             /\ p \in ResolveUserPermissions(q.tenant, q.app, u)
             /\ s.agent # None /\ AgentActive(q, refs, s) /\ p \in A /\ Covered(u, s.agent)
        /\ T # {} => p \in T
  BY <1>1, <1>6 DEF Entitled, A, T
<1>10. CASE token.kind = "none"
  <2>1. s.user = q.user /\ s.perms = None /\ (s.deny = Ok <=> ~ required)
    BY <1>1, <1>10, DelegationCases
  <2>2. NamedUsers(q, token) = IF s.user \in Users THEN {s.user} ELSE {}
    BY <1>10, <2>1 DEF NamedUsers
  <2> QED BY <1>3, <1>7, <1>8, <1>9, <1>10, <2>1, <2>2 DEF U
<1>11. CASE token.kind = "grant"
  <2>1. /\ s.user = IF q.user = None THEN token.user ELSE q.user
        /\ s.deny = Ok <=> /\ q.tenant = token.tenant /\ q.app = token.app
                           /\ s.user = token.user /\ s.agent = token.agent
        /\ s.deny = Ok => s.perms = token.perms
    BY <1>1, <1>11, DelegationCases DEF Ok
  <2>2. token.perms # None /\ token.user \in Users
    BY <1>11, TokenFields
  <2>3. NamedUsers(q, token) = IF s.user \in Users THEN {s.user} ELSE {}
    BY <1>11, <2>1, <2>2 DEF NamedUsers
  <2> QED BY <1>3, <1>7, <1>8, <1>9, <1>11, <2>1, <2>2, <2>3 DEF U
<1> QED BY <1>2, <1>4, <1>10, <1>11

\* authorize grants exactly what the conditions entitle to, in every reachable
\* state and for every request, token and setting.
THEOREM AllowsTheEntitled == RbacSpec => []AllowsExactlyTheEntitled
<1>1. RbacTypeOK => AllowsExactlyTheEntitled
  <2> SUFFICES ASSUME RbacTypeOK, NEW q \in Requests, NEW token \in Tokens, NEW p \in Perms,
                      NEW required \in Settings(token)
      PROVE  (AuthorizeEndpoint(q, Prepared(q, token, required), p, {}) = "permission_granted")
               <=> Entitled(q, token, required, p)
    BY DEF AllowsExactlyTheEntitled
  <2>1. PICK refs : refs = ResolveReferences(q)
    OBVIOUS
  <2>2. PICK s : s = ApplyDelegation(q, refs, token, required)
    OBVIOUS
  <2>3. Prepared(q, token, required) = [refs |-> refs, s |-> s]
    BY <2>1, <2>2 DEF Prepared
  <2>4. AuthorizeEndpoint(q, Prepared(q, token, required), p, {}) = "permission_granted" <=>
          /\ Complete(refs) /\ s.deny = Ok
          /\ Inactive(refs) = Ok /\ SubjectReason(q, refs, s) = Ok
          /\ p \in Delegated(Masked(SubjectPermissions(q, s),
                                    ResolveTenantPermissions(q.tenant, q.app)), s.perms)
    BY <2>3, EndpointGrants, AuthorizeGrants
  <2>5. Entitled(q, token, required, p) => Complete(refs)
    BY <2>1, EntitledComplete
  <2>6. CASE q.type = "user"
    BY <2>1, <2>2, <2>4, <2>5, <2>6, UserEntitled
  <2>7. CASE q.type = "agent"
    BY <2>1, <2>2, <2>4, <2>5, <2>7, AgentEntitled
  <2>8. CASE q.type \notin {"user", "agent"}
    BY <2>4, <2>8, SubjectOk DEF Entitled
  <2> QED BY <2>6, <2>7, <2>8
<1> QED BY RbacTypeCorrect, <1>1, PTL

(***************************************************************************)
(* A request while administrators write.                                   *)
(***************************************************************************)

\* A provisioned database is a database that the writes of RbacStore keep.
LEMMA ProvisionedInv ==
  ASSUME NEW scope \in Scopes, Provisioned(scope)
  PROVE  RbacInv
<1>1. \A n \in RoleNames :
        /\ DefaultRole(scope, n) \in RoleRow /\ ~ Internal(DefaultRole(scope, n))
        /\ DefaultRole(scope, n).tenant = None /\ DefaultRole(scope, n).app = scope
  BY NamesAssumption DEF DefaultRole, RoleRow, Internal
<1>2. \A g \in AgentKey :
        /\ InternalRole(g) \in RoleRow /\ Internal(InternalRole(g))
        /\ InternalRole(g).tenant = g.tenant /\ InternalRole(g).app = g.app
        /\ g.tenant # None /\ g.app \in Apps
  BY ScopesAssumption DEF InternalRole, RoleRow, Internal, AgentKey
<1>3. roles = {DefaultRole(scope, n) : n \in RoleNames} \union {InternalRole(g) : g \in AgentKey}
  BY DEF Provisioned
<1>4. roles \subseteq RoleRow /\ \A r \in roles : r.app \in Apps \union {scope}
  <2>1. \A r \in roles : (\E n \in RoleNames : r = DefaultRole(scope, n))
                          \/ \E g \in AgentKey : r = InternalRole(g)
    BY <1>3
  <2> QED BY <1>1, <1>2, <2>1
<1>5. \A r \in RoleRow : r.app \in Scopes
  BY DEF RoleRow
<1>6. rolePerms \in [RoleRow -> SUBSET PermRow]
  <2>1. \A r \in RoleRow : [app : {r.app}, name : Perms] \in SUBSET PermRow
    BY <1>5 DEF PermRow
  <2>2. rolePerms = [r \in RoleRow |-> IF r \in roles THEN [app : {r.app}, name : Perms] ELSE {}]
    BY DEF Provisioned
  <2> QED BY <2>1, <2>2
<1>7. {DefaultRole(scope, n) : n \in RoleNames} \in SUBSET RoleRow
  BY <1>1
<1>8. memberRoles \in [MemberKey -> SUBSET RoleRow] /\ agentRoles \in [AgentKey -> SUBSET RoleRow]
  BY <1>2, <1>7 DEF Provisioned
<1>9. RbacTypeOK
  BY <1>4, <1>6, <1>8 DEF Provisioned, RbacTypeOK, Statuses
<1>10. MemberLinksOK
  BY <1>1, <1>3 DEF Provisioned, MemberLinksOK
<1>11. AgentLinksOK
  BY <1>2, <1>3 DEF Provisioned, AgentLinksOK
<1>12. RolePermsOK
  <2>1. ASSUME NEW r \in RoleRow, NEW p \in PermRow, p \in rolePerms[r]
        PROVE  p.app = r.app /\ perms[p] # "absent"
    <3>1. r \in roles /\ p.app = r.app
      BY <2>1 DEF Provisioned
    <3>2. p.app \in Apps \union {scope}
      BY <3>1, <1>4
    <3> QED BY <3>1, <3>2 DEF Provisioned
  <2>2. \A r \in roles : Internal(r) => r.tenant # None
    BY <1>1, <1>2, <1>3
  <2> QED BY <2>1, <2>2 DEF RolePermsOK
<1> QED BY <1>9, <1>10, <1>11, <1>12 DEF RbacInv, LinksStayInScope

\* Requests leave the tables as they are, and the end of a grant touches none of
\* them: what is proved of the tables holds while requests are served.
LEMMA DecisionTables == RbacInv /\ [DecisionNext]_allVars => RbacInv'
<1> SUFFICES ASSUME RbacInv, [DecisionNext]_allVars PROVE RbacInv'
  OBVIOUS
<1>1. CASE UNCHANGED rbacVars
  BY <1>1, RbacInvNext
<1>2. CASE RbacNext
  BY <1>2, RbacInvNext
<1>3. CASE GrantEnds
  <2>1. writes' \in Nat
    BY <1>3 DEF GrantEnds, Write, RbacInv, RbacTypeOK
  <2> QED BY <1>3, <2>1 DEF GrantEnds, RbacInv, RbacTypeOK, LinksStayInScope, MemberLinksOK,
             AgentLinksOK, RolePermsOK
<1>4. UNCHANGED rbacVars \/ RbacNext \/ GrantEnds
  BY DEF DecisionNext, allVars
<1> QED BY <1>1, <1>2, <1>3, <1>4

\* A write is counted.
LEMMA WritesCount == RbacNext \/ GrantEnds => writes' = writes + 1
<1>1. RbacNext => Write
  <2>1. \A t, a, st, n, ns :
          \/ SetTenantStatus(t, st) \/ SetApplicationStatus(a, st)
          \/ SetTenantPermissionMask(t, a, ns)
          \/ SetTenantRoleOverride(t, a, n, ns) \/ DeleteTenantRoleOverride(t, a, n)
          => Write
    BY DEF SetTenantStatus, SetApplicationStatus, SetTenantPermissionMask, SetTenantRoleOverride,
       DeleteTenantRoleOverride
  <2>2. \A p, r, ns : CreatePermission(p) \/ CreateRole(r) \/ SetRolePermissions(r, ns) => Write
    BY DEF CreatePermission, CreateRole, SetRolePermissions
  <2>3. \A m, st, ns :
          CreateMembership(m, st, ns) \/ SetMembershipStatus(m, st) \/ SetMembershipRoles(m, ns) => Write
    BY DEF CreateMembership, SetMembershipStatus, SetMembershipRoles
  <2>4. \A g, st, ns : CreateAgent(g, st) \/ SetAgentRoles(g, ns) => Write
    BY DEF CreateAgent, SetAgentRoles
  <2>5. \A t, a, ls, ds, ms, gs : ApplyCatalog(a, ls, ds) \/ ApplyTenantState(t, a, ms, gs) => Write
    BY DEF ApplyCatalog, ApplyTenantState
  <2> QED
    BY <2>1, <2>2, <2>3, <2>4, <2>5, Zenon DEF RbacNext
<1> QED
  BY <1>1 DEF GrantEnds, Write

\* What a request that is made knows of itself.
LEMMA KnownFields ==
  ASSUME NEW q \in KnownRequests
  PROVE  /\ q \in Requests /\ q.tenant \in Tenants /\ q.app \in Apps /\ q.user \in Users
         /\ q.user # None /\ ~ q.userRef /\ q.type \in {"user", "agent"}
         /\ q.type = "user" => q.agent = None /\ q.agentName = None
         /\ q.type = "agent" /\ q.agentName = None => q.agent \in AgentKey /\ q.agent # None
         /\ q.type = "agent" /\ q.agentName # None =>
              NamedAgent(q) \in AgentKey /\ NamedAgent(q) # None
<1>1. q \in Requests /\ q.tenant \in Tenants /\ q.app \in Apps /\ q.user \in Users /\ ~ q.userRef
  BY RequestFields DEF KnownRequests
<1>2. q.type \in {"user", "agent"} /\ (q.type = "user" => q.agent = None /\ q.agentName = None)
  BY DEF KnownRequests
<1>3. q.type = "agent" /\ q.agentName = None => q.agent \in AgentKey /\ q.agent # None
  BY <1>1, RequestFields DEF KnownRequests
<1>4. q.type = "agent" /\ q.agentName # None => q.agentName \in Agents
  BY <1>1, RequestFields DEF KnownRequests
<1>5. q.type = "agent" /\ q.agentName # None => NamedAgent(q) \in AgentKey
  BY <1>1, <1>4 DEF NamedAgent, AgentKey
<1> QED BY <1>1, <1>2, <1>3, <1>5

\* The token of a request, and what it verifies to.
LEMMA VerifiedFields ==
  ASSUME NEW token \in {NoToken} \union Grants
  PROVE  /\ token.kind \in {"none", "grant"}
         /\ Verified(token) \in Tokens
         /\ Verified(token).kind # "invalid" => token.kind = "none" \/ grantStatus = "active"
<1>1. NoToken \in Tokens /\ [kind |-> "invalid"] \in Tokens /\ NoToken.kind = "none"
  BY DEF NoToken, Tokens
<1>2. token \in Grants => token \in Tokens /\ token.kind = "grant"
  BY DEF Tokens, Grants
<1> QED BY <1>1, <1>2 DEF Verified

\* A request reads the tables and changes none: what one snapshot says is the
\* same before and after a read.
LEMMA SnapshotKept ==
  ASSUME UNCHANGED <<rbacVars, grantStatus>>, NEW r
  PROVE  Snapshot(r)' <=> Snapshot(r)
<1> USE DEF rbacVars
<1>1. \A t, a, u : EligibleMemberships(t, a, u)' = EligibleMemberships(t, a, u)
  BY DEF EligibleMemberships
<1>2. \A t, R : EffectiveRoles(t, R)' = EffectiveRoles(t, R)
  BY DEF EffectiveRoles, Override, RoleByName
<1>3. \A R : GrantedRows(R)' = GrantedRows(R)
  BY DEF GrantedRows
<1>4. \A t, a, u : ResolveUserPermissions(t, a, u)' = ResolveUserPermissions(t, a, u)
  BY <1>1, <1>2, <1>3 DEF ResolveUserPermissions
<1>5. \A t, a, g : ResolveAgentPermissions(t, a, g)' = ResolveAgentPermissions(t, a, g)
  BY <1>2, <1>3 DEF ResolveAgentPermissions
<1>6. \A q : AgentFound(q)' = AgentFound(q)
  BY DEF AgentFound
<1>7. \A q : ResolveReferences(q)' = ResolveReferences(q)
  BY <1>6 DEF ResolveReferences
<1>8. \A token : Verified(token)' = Verified(token)
  BY DEF Verified
<1>9. \A q, refs, s : MembershipActive(q, refs, s)' <=> MembershipActive(q, refs, s)
  BY DEF MembershipActive, IsUserMembershipActive
<1>10. \A q, refs, s : AgentActive(q, refs, s)' <=> AgentActive(q, refs, s)
  BY DEF AgentActive, IsAgentActive
<1>11. \A q, refs, s : SubjectReason(q, refs, s)' = SubjectReason(q, refs, s)
  BY <1>9, <1>10 DEF SubjectReason
<1>12. \A q, s : SubjectPermissions(q, s)' = SubjectPermissions(q, s)
  BY <1>4, <1>5 DEF SubjectPermissions
<1>13. \A t, a : ResolveTenantPermissions(t, a)' = ResolveTenantPermissions(t, a)
  BY DEF ResolveTenantPermissions
<1>14. \A q, refs, s, p : EngineAuthorize(q, refs, s, p, {})' = EngineAuthorize(q, refs, s, p, {})
  BY <1>11, <1>12, <1>13 DEF EngineAuthorize
<1>15. \A q, token : Prepared(q, Verified(token), DelegationRequired)'
                       = Prepared(q, Verified(token), DelegationRequired)
  BY <1>7, <1>8 DEF Prepared
<1>16. \A q, pre, p : AuthorizeEndpoint(q, pre, p, {})' = AuthorizeEndpoint(q, pre, p, {})
  BY <1>14 DEF AuthorizeEndpoint
<1>17. \A q, s : Linked(q, s)' = Linked(q, s)
  BY <1>1 DEF Linked
<1> QED
  BY <1>1, <1>2, <1>4, <1>7, <1>8, <1>9, <1>11, <1>12, <1>15, <1>16, <1>17 DEF Snapshot

\* Which conditions a moment adds to the history.
LEMMA ConditionMembers ==
  ASSUME NEW r
  PROVE  /\ Conditions(r) \subseteq AllConditions
         /\ tenants[r.q.tenant] = "active" => "tenant" \in Conditions(r)
         /\ apps[r.q.app] = "active" => "application" \in Conditions(r)
         /\ EligibleMemberships(r.q.tenant, r.q.app, r.q.user) # {} =>
              "membership" \in Conditions(r)
         /\ r.q.type = "user" => "agent" \in Conditions(r)
         /\ \A g \in NamedAgents(r.q, r.token) : agents[g] = "active" => "agent" \in Conditions(r)
         /\ r.token.kind = "none" \/ grantStatus = "active" => "grant" \in Conditions(r)
         /\ \A p \in PermRow : p.name = r.p /\ perms[p] = "active" =>
              "permission" \in Conditions(r)
         /\ r.p \in Masked({r.p}, mask[<<r.q.tenant, r.q.app>>]) => "mask" \in Conditions(r)
  BY DEF Conditions, AllConditions, RequestedAgents

\* The step of a request under way that leaves the tables alone, as the history
\* records it.
LEMMA Observed ==
  ASSUME UNCHANGED <<rbacVars, grantStatus>>, Observe, SwitchesSeen, req.pc # "idle",
         NEW r, r = req', r.pc # "idle"
  PROVE  /\ seen' = Conditions(r) \union seen /\ seen' \subseteq AllConditions
         /\ began' = began /\ writes' = writes
<1>1. seen' = Conditions(req)' \union seen /\ began' = began
  BY DEF Observe
<1>2. Conditions(req)' = Conditions(r)
  BY DEF rbacVars, Conditions, RequestedAgents, NamedAgents, NamedAgent, EligibleMemberships,
     Masked
<1> QED BY <1>1, <1>2, ConditionMembers DEF SwitchesSeen, rbacVars

\* What is left to show of such a step.
LEMMA Concluded ==
  ASSUME DecisionInv, RbacTypeOK, UNCHANGED <<rbacVars, grantStatus>>, Observe,
         req.pc # "idle", NEW r, r = req', r.pc # "idle",
         RequestOK', SwitchesSeen', KillSwitchesHold', writes = began => Snapshot(r)
  PROVE  DecisionInv'
<1>1. began' = began /\ writes' = writes /\ grantStatus' = grantStatus
  BY Observed DEF DecisionInv
<1>2. Snapshot(r)' <=> Snapshot(r)
  BY SnapshotKept
<1>3. SnapshotHeld'
  BY <1>1, <1>2 DEF SnapshotHeld
<1> QED BY <1>1, <1>3 DEF DecisionInv

\* The reads of the tenant and of the application.
LEMMA ReadStatusNext ==
  ASSUME DecisionInv, RbacTypeOK, UNCHANGED <<rbacVars, grantStatus>>, Observe,
         ReadTenant \/ ReadApplication
  PROVE  DecisionInv'
<1> USE DEF RowReads, AgentKnown, MemberFound, SubjectSet
<1>1. PICK r : r = req'
  OBVIOUS
<1>2. CASE ReadTenant
  <2>1. r = [pc |-> "app", q |-> req.q, token |-> req.token, p |-> req.p,
             tenantStatus |-> tenants[req.q.tenant]] /\ req.pc = "tenant"
    BY <1>1, <1>2 DEF ReadTenant, At
  <2>2. /\ req.q \in KnownRequests /\ req.token \in {NoToken} \union Grants /\ req.p \in Perms
        /\ tenants[req.q.tenant] \in Statuses
    BY <2>1, KnownFields DEF DecisionInv, RequestOK, Idle, RbacTypeOK
  <2>3. seen' = Conditions(r) \union seen /\ seen' \subseteq AllConditions
    BY <1>1, <2>1, Observed DEF DecisionInv
  <2>4. RequestOK'
    BY <1>1, <2>1, <2>2 DEF RequestOK
  <2>5. SwitchesSeen' /\ KillSwitchesHold'
    <3>1. tenants[req.q.tenant] = "active" => "tenant" \in seen'
      BY <2>1, <2>3, ConditionMembers
    <3> QED BY <1>1, <2>1, <2>3, <3>1 DEF SwitchesSeen, KillSwitchesHold, Granted
  <2>6. Snapshot(r)
    BY <2>1 DEF Snapshot
  <2> QED BY <1>1, <2>1, <2>4, <2>5, <2>6, Concluded
<1>3. CASE ReadApplication
  <2>1. r = [pc |-> "agentref", q |-> req.q, token |-> req.token, p |-> req.p,
             tenantStatus |-> req.tenantStatus, appStatus |-> apps[req.q.app]] /\ req.pc = "app"
    BY <1>1, <1>3 DEF ReadApplication, At
  <2>2. /\ req.q \in KnownRequests /\ req.token \in {NoToken} \union Grants /\ req.p \in Perms
        /\ req.tenantStatus \in Statuses
    BY <2>1 DEF DecisionInv, RequestOK, Idle
  <2>3. seen' = Conditions(r) \union seen /\ seen' \subseteq AllConditions
    BY <1>1, <2>1, Observed DEF DecisionInv
  <2>4. RequestOK'
    BY <1>1, <2>1, <2>2 DEF RequestOK
  <2>5. SwitchesSeen' /\ KillSwitchesHold'
    <3>1. req.tenantStatus = "active" => "tenant" \in seen
      BY <2>1 DEF DecisionInv, SwitchesSeen
    <3>2. apps[req.q.app] = "active" => "application" \in seen'
      BY <2>1, <2>3, ConditionMembers
    <3> QED BY <1>1, <2>1, <2>3, <3>1, <3>2 DEF SwitchesSeen, KillSwitchesHold, Granted
  <2>6. writes = began => Snapshot(r)
    <3>1. writes = began => req.tenantStatus = tenants[req.q.tenant]
      BY <2>1 DEF DecisionInv, SnapshotHeld, Snapshot
    <3> QED BY <2>1, <3>1 DEF Snapshot
  <2> QED BY <1>1, <2>1, <2>4, <2>5, <2>6, Concluded
<1> QED BY <1>2, <1>3

\* A request under way knows what was asked.
LEMMA UnderWay ==
  ASSUME RequestOK, req.pc # "idle"
  PROVE  /\ req.q \in KnownRequests /\ req.token \in {NoToken} \union Grants /\ req.p \in Perms
         /\ req.pc \in {"grant"} \union SubjectSet => RefsKnown(req.q, req.refs)
         /\ req.pc \in SubjectSet => SubjectKnown(req.q, req.refs, req.s)
  BY DEF RequestOK, Idle, RowReads, AgentKnown, MemberFound, SubjectSet

\* The answer that the engine gives on one snapshot.
LEMMA ExpectedIs ==
  ASSUME NEW q, NEW token, NEW p, NEW refs, NEW s, refs = ResolveReferences(q),
         s = ApplyDelegation(q, refs, Verified(token), DelegationRequired)
  PROVE  AuthorizeEndpoint(q, Prepared(q, Verified(token), DelegationRequired), p, {}) =
           IF DelegationDeny(refs, s) # Ok THEN s.deny ELSE EngineAuthorize(q, refs, s, p, {})
  BY DEF AuthorizeEndpoint, Prepared

\* What is left to show of a step that answers the request.
LEMMA Answered ==
  ASSUME DecisionInv, RbacTypeOK, UNCHANGED <<rbacVars, grantStatus>>, Observe,
         req.pc # "idle", NEW reason, Finish(reason),
         reason = "permission_granted" => AllConditions \subseteq seen',
         writes = began => reason =
           AuthorizeEndpoint(req.q, Prepared(req.q, Verified(req.token), DelegationRequired),
                             req.p, {})
  PROVE  DecisionInv'
<1> USE DEF RowReads, AgentKnown, MemberFound, SubjectSet
<1>1. PICK r : r = req'
  OBVIOUS
<1>2. r = [pc |-> "done", q |-> req.q, token |-> req.token, p |-> req.p, reason |-> reason]
  BY <1>1 DEF Finish
<1>3. seen' \subseteq AllConditions
  BY <1>1, <1>2, Observed DEF DecisionInv
<1>4. RequestOK'
  BY <1>1, <1>2, UnderWay DEF DecisionInv, RequestOK
<1>5. SwitchesSeen' /\ KillSwitchesHold'
  <2>1. reason = "permission_granted" => seen' = AllConditions
    BY <1>3
  <2>2. req' = [pc |-> "done", q |-> req.q, token |-> req.token, p |-> req.p, reason |-> reason]
    BY <1>1, <1>2
  <2>3. SwitchesSeen'
    BY <1>3, <2>2 DEF SwitchesSeen
  <2>4. KillSwitchesHold'
    BY <2>1, <2>2 DEF KillSwitchesHold, Granted
  <2> QED BY <2>3, <2>4
<1>6. writes = began => Snapshot(r)
  BY <1>2 DEF Snapshot
<1> QED BY <1>1, <1>2, <1>4, <1>5, <1>6, Concluded

\* The read of the agent by its name, which completes the references.
LEMMA ReadAgentRefNext ==
  ASSUME DecisionInv, RbacTypeOK, UNCHANGED <<rbacVars, grantStatus>>, Observe, ReadAgentRef
  PROVE  DecisionInv'
<1> USE DEF RowReads, AgentKnown, MemberFound, SubjectSet
<1>1. PICK r : r = req'
  OBVIOUS
<1>2. PICK q : q = req.q
  OBVIOUS
<1>3. PICK refs : refs = [ResolveReferences(q) EXCEPT !.tenantStatus = req.tenantStatus,
                                                      !.appStatus = req.appStatus]
  OBVIOUS
<1>4. /\ r = [pc |-> "grant", q |-> q, token |-> req.token, p |-> req.p, refs |-> refs]
      /\ req.pc = "agentref"
  BY <1>1, <1>2, <1>3 DEF ReadAgentRef, At
<1>5. /\ q \in KnownRequests /\ req.token \in {NoToken} \union Grants /\ req.p \in Perms
      /\ req.tenantStatus \in Statuses
  BY <1>2, <1>4 DEF DecisionInv, RequestOK, Idle
<1>6. q \in Requests /\ q.tenant \in Tenants /\ ~ q.userRef
      /\ (q.agentName # None => NamedAgent(q) \in AgentKey)
  BY <1>5, KnownFields
<1>7. /\ refs.tenantStatus = req.tenantStatus /\ refs.appStatus = req.appStatus
      /\ refs.user = ResolveReferences(q).user
      /\ refs.userMissing = ResolveReferences(q).userMissing
      /\ refs.agent = ResolveReferences(q).agent
      /\ refs.agentStatus = ResolveReferences(q).agentStatus
      /\ refs.agentMissing = ResolveReferences(q).agentMissing
  BY <1>3 DEF ResolveReferences
<1>8. q.agentName # None /\ ~ refs.agentMissing =>
        /\ AgentFound(q) /\ refs.agent = NamedAgent(q)
        /\ refs.agentStatus = agents[NamedAgent(q)] /\ refs.agentStatus \in Statuses
  <2>1. q.agentName # None /\ ~ refs.agentMissing => AgentFound(q)
    BY <1>6, <1>7, ReferenceFields
  <2>2. AgentFound(q) => agents[NamedAgent(q)] \in Statuses
    BY <1>6, NamedAgentRow DEF AgentFound
  <2> QED BY <2>1, <2>2, <1>6, <1>7, ReferenceFields
<1>9. RefsKnown(q, refs)
  BY <1>5, <1>6, <1>7, <1>8, ReferenceFields DEF RefsKnown
<1>10. seen' = Conditions(r) \union seen /\ seen' \subseteq AllConditions
  BY <1>1, <1>4, Observed DEF DecisionInv
<1>11. RequestOK'
  BY <1>1, <1>4, <1>5, <1>9 DEF RequestOK
<1>12. SwitchesSeen' /\ KillSwitchesHold'
  <2>1. /\ refs.tenantStatus = "active" => "tenant" \in seen
        /\ refs.appStatus = "active" => "application" \in seen
    BY <1>4, <1>7 DEF DecisionInv, SwitchesSeen
  <2>2. ~ refs.agentMissing /\ refs.agentStatus = "active" => "agent" \in seen'
    <3>1. q.agentName = None => refs.agentStatus # "active"
      BY <1>9 DEF RefsKnown, Statuses
    <3>2. q.agentName # None /\ ~ refs.agentMissing =>
            NamedAgent(q) \in NamedAgents(r.q, r.token)
      BY <1>4, <1>8 DEF NamedAgents, AgentFound
    <3> QED BY <3>1, <3>2, <1>8, <1>10, ConditionMembers
  <2> QED BY <1>1, <1>4, <1>10, <2>1, <2>2 DEF SwitchesSeen, KillSwitchesHold, Granted
<1>13. writes = began => Snapshot(r)
  <2>1. writes = began => req.tenantStatus = tenants[q.tenant] /\ req.appStatus = apps[q.app]
    BY <1>2, <1>4 DEF DecisionInv, SnapshotHeld, Snapshot
  <2>2. writes = began => refs = ResolveReferences(q)
    BY <1>3, <1>6, <2>1 DEF ResolveReferences
  <2> QED BY <1>4, <2>2 DEF Snapshot
<1> QED BY <1>1, <1>4, <1>11, <1>12, <1>13, Concluded

\* The subject after apply_delegation is the one that the request names.
LEMMA SubjectStays ==
  ASSUME NEW q \in KnownRequests, NEW refs, RefsKnown(q, refs), NEW token \in Tokens,
         NEW s, s = ApplyDelegation(q, refs, token, DelegationRequired)
  PROVE  SubjectKnown(q, refs, s)
<1>1. refs.user = q.user /\ q.user # None
  BY KnownFields DEF RefsKnown
<1>2. q.type = "agent" /\ ~ refs.agentMissing => refs.agent # None
  BY KnownFields DEF RefsKnown
<1>3. s.user = refs.user
  BY <1>1, DelegationCases
<1>4. q.type = "agent" /\ ~ refs.agentMissing => s.agent = refs.agent
  BY <1>2, DelegationCases
<1> QED BY <1>1, <1>3, <1>4 DEF SubjectKnown

\* The read of the grant, and what needs no read: the status of tenant and
\* application.
LEMMA ReadGrantNext ==
  ASSUME DecisionInv, RbacTypeOK, UNCHANGED <<rbacVars, grantStatus>>, Observe, ReadGrant
  PROVE  DecisionInv'
<1> USE DEF RowReads, AgentKnown, MemberFound, SubjectSet
<1>1. PICK r : r = req'
  OBVIOUS
<1>2. PICK q : q = req.q
  OBVIOUS
<1>3. PICK refs : refs = req.refs
  OBVIOUS
<1>4. PICK token : token = Verified(req.token)
  OBVIOUS
<1>5. PICK s : s = ApplyDelegation(q, refs, token, DelegationRequired)
  OBVIOUS
<1>6. /\ req.pc = "grant"
      /\ \/ DelegationDeny(refs, s) # Ok /\ Finish(s.deny)
         \/ /\ DelegationDeny(refs, s) = Ok /\ Inactive(refs) # Ok
            /\ Finish(Inactive(refs))
         \/ /\ DelegationDeny(refs, s) = Ok /\ Inactive(refs) = Ok
            /\ r = [pc |-> "member", q |-> q, token |-> req.token, p |-> req.p,
                    refs |-> refs, s |-> s]
  BY <1>1, <1>2, <1>3, <1>4, <1>5 DEF ReadGrant, At
<1>7. /\ q \in KnownRequests /\ req.token \in {NoToken} \union Grants /\ req.p \in Perms
      /\ RefsKnown(q, refs) /\ token \in Tokens
  BY <1>2, <1>3, <1>4, <1>6, UnderWay, VerifiedFields DEF DecisionInv
<1>8. writes = began => refs = ResolveReferences(q)
  BY <1>2, <1>3, <1>6 DEF DecisionInv, SnapshotHeld, Snapshot
<1>9. writes = began =>
        AuthorizeEndpoint(req.q, Prepared(req.q, Verified(req.token), DelegationRequired),
                          req.p, {}) =
          IF DelegationDeny(refs, s) # Ok THEN s.deny ELSE EngineAuthorize(q, refs, s, req.p, {})
  BY <1>2, <1>4, <1>5, <1>8, ExpectedIs
<1>10. CASE DelegationDeny(refs, s) # Ok /\ Finish(s.deny)
  <2>1. s.deny # "permission_granted"
    BY <1>5, <1>7, DenyReasons DEF Ok
  <2> QED BY <1>6, <1>9, <1>10, <2>1, Answered
<1>11. CASE DelegationDeny(refs, s) = Ok /\ Inactive(refs) # Ok /\ Finish(Inactive(refs))
  <2>1. Inactive(refs) # "permission_granted"
    BY SubjectNotGranted
  <2>2. EngineAuthorize(q, refs, s, req.p, {}) = Inactive(refs)
    BY <1>11 DEF EngineAuthorize
  <2> QED BY <1>6, <1>9, <1>11, <2>1, <2>2, Answered
<1>12. CASE /\ DelegationDeny(refs, s) = Ok /\ Inactive(refs) = Ok
            /\ r = [pc |-> "member", q |-> q, token |-> req.token, p |-> req.p,
                    refs |-> refs, s |-> s]
  <2>1. seen' = Conditions(r) \union seen /\ seen' \subseteq AllConditions
    BY <1>1, <1>6, <1>12, Observed DEF DecisionInv
  <2>2. SubjectKnown(q, refs, s)
    BY <1>5, <1>7, SubjectStays
  <2>3. RequestOK'
    BY <1>1, <1>7, <1>12, <2>2 DEF RequestOK
  <2>4. {"tenant", "application"} \subseteq seen
    <3>1. refs.tenantStatus = "active" /\ refs.appStatus = "active"
      BY <1>12 DEF Inactive, Ok
    <3> QED BY <1>3, <1>6, <3>1 DEF DecisionInv, SwitchesSeen
  <2>5. refs.agentMissing \/ "grant" \in seen'
    <3>1. ~ refs.agentMissing => Complete(refs)
      BY <1>7 DEF Complete, RefsKnown
    <3>2. ~ refs.agentMissing => s.deny = Ok
      BY <3>1, <1>12 DEF DelegationDeny
    <3>3. ~ refs.agentMissing => token.kind # "invalid"
      BY <3>2, <1>5, <1>7, DelegationCases DEF Ok
    <3>4. ~ refs.agentMissing => r.token.kind = "none" \/ grantStatus = "active"
      BY <3>3, <1>4, <1>7, <1>12, VerifiedFields
    <3> QED BY <3>4, <2>1, ConditionMembers
  <2>6. ~ refs.agentMissing /\ refs.agentStatus = "active" => "agent" \in seen
    BY <1>3, <1>6 DEF DecisionInv, SwitchesSeen
  <2>7. SwitchesSeen' /\ KillSwitchesHold'
    BY <1>1, <1>12, <2>1, <2>4, <2>5, <2>6 DEF SwitchesSeen, KillSwitchesHold, Granted
  <2>8. writes = began => Snapshot(r)
    BY <1>4, <1>5, <1>8, <1>12 DEF Snapshot
  <2> QED BY <1>1, <1>6, <1>12, <2>3, <2>7, <2>8, Concluded
<1> QED BY <1>6, <1>10, <1>11, <1>12

\* Where a request with a subject goes on without reading rows, and what it keeps.
LEMMA GoesOn ==
  ASSUME RequestOK, req.pc \in SubjectSet \ RowReads, NEW next, Go(next)
  PROVE  req' = [pc |-> next, q |-> req.q, token |-> req.token, p |-> req.p,
                 refs |-> req.refs, s |-> req.s]
<1>1. req = [pc |-> req.pc, q |-> req.q, token |-> req.token, p |-> req.p,
             refs |-> req.refs, s |-> req.s]
  BY DEF RequestOK, Idle, RowReads, AgentKnown, MemberFound, SubjectSet
<1>2. req' = [[pc |-> req.pc, q |-> req.q, token |-> req.token, p |-> req.p,
               refs |-> req.refs, s |-> req.s] EXCEPT !.pc = next]
  BY <1>1 DEF Go
<1> QED BY <1>2

\* What a request that is past its grant has of the snapshot.
LEMMA SubjectSnapshot ==
  ASSUME DecisionInv, req.pc \in SubjectSet, writes = began
  PROVE  /\ req.refs = ResolveReferences(req.q)
         /\ req.s = ApplyDelegation(req.q, req.refs, Verified(req.token), DelegationRequired)
         /\ DelegationDeny(req.refs, req.s) = Ok /\ Inactive(req.refs) = Ok
         /\ AuthorizeEndpoint(req.q, Prepared(req.q, Verified(req.token), DelegationRequired),
                              req.p, {})
              = EngineAuthorize(req.q, req.refs, req.s, req.p, {})
<1>1. /\ req.refs = ResolveReferences(req.q)
      /\ req.s = ApplyDelegation(req.q, req.refs, Verified(req.token), DelegationRequired)
      /\ DelegationDeny(req.refs, req.s) = Ok /\ Inactive(req.refs) = Ok
  BY DEF DecisionInv, SnapshotHeld, Snapshot
<1> QED BY <1>1, ExpectedIs

\* A subject that is refused is answered with the engine's reason.
LEMMA RefusedSubject ==
  ASSUME DecisionInv, RbacTypeOK, UNCHANGED <<rbacVars, grantStatus>>, Observe,
         req.pc \in SubjectSet, NEW reason, Finish(reason), reason # "permission_granted",
         reason # Ok, writes = began => SubjectReason(req.q, req.refs, req.s) = reason
  PROVE  DecisionInv'
<1>1. writes = began =>
        AuthorizeEndpoint(req.q, Prepared(req.q, Verified(req.token), DelegationRequired),
                          req.p, {}) = reason
  BY SubjectSnapshot DEF EngineAuthorize
<1>2. req.pc # "idle"
  BY DEF RowReads, AgentKnown, MemberFound, SubjectSet
<1> QED BY <1>1, <1>2, Answered

\* An agent that the request names is there when the references are.
LEMMA AgentNamed ==
  ASSUME NEW q \in KnownRequests, NEW refs, NEW s, RefsKnown(q, refs), SubjectKnown(q, refs, s)
  PROVE  /\ s.user \in Users /\ s.user # None /\ ~ refs.userMissing
         /\ q.type = "user" => ~ refs.agentMissing
         /\ q.type = "agent" /\ ~ refs.agentMissing => s.agent # None
  BY KnownFields DEF RefsKnown, SubjectKnown

\* The membership of the user was found active.
LEMMA MemberFoundNext ==
  ASSUME DecisionInv, RbacTypeOK, UNCHANGED <<rbacVars, grantStatus>>, Observe,
         req.pc \in {"member", "wide"},
         Go(IF req.q.type = "user" THEN "umember" ELSE "agent"),
         EligibleMemberships(req.q.tenant, req.q.app, req.q.user) # {},
         writes = began => IsUserMembershipActive(req.q.tenant, req.q.app, req.s.user)
  PROVE  DecisionInv'
<1> USE DEF RowReads, AgentKnown, MemberFound, SubjectSet
<1>1. PICK r : r = req'
  OBVIOUS
<1>2. PICK q, refs, s : q = req.q /\ refs = req.refs /\ s = req.s
  OBVIOUS
<1>3. PICK next : next = IF q.type = "user" THEN "umember" ELSE "agent"
  OBVIOUS
<1>4. r = [pc |-> next, q |-> q, token |-> req.token, p |-> req.p, refs |-> refs, s |-> s]
  BY <1>1, <1>2, <1>3, GoesOn DEF DecisionInv
<1>5. /\ q \in KnownRequests /\ req.token \in {NoToken} \union Grants /\ req.p \in Perms
      /\ RefsKnown(q, refs) /\ SubjectKnown(q, refs, s)
  BY <1>2, UnderWay DEF DecisionInv
<1>6. /\ s.user \in Users /\ s.user # None /\ ~ refs.userMissing
      /\ q.type = "user" => ~ refs.agentMissing
  BY <1>5, AgentNamed
<1>7. q.type \in {"user", "agent"}
  BY <1>5, KnownFields
<1>8. seen' = Conditions(r) \union seen /\ seen' \subseteq AllConditions
  BY <1>1, <1>3, <1>4, Observed DEF DecisionInv
<1>9. RequestOK'
  BY <1>1, <1>3, <1>4, <1>5 DEF RequestOK
<1>10. SwitchesSeen' /\ KillSwitchesHold'
  <2>1. /\ {"tenant", "application"} \subseteq seen
        /\ refs.agentMissing \/ "grant" \in seen
        /\ ~ refs.agentMissing /\ refs.agentStatus = "active" => "agent" \in seen
    BY <1>2 DEF DecisionInv, SwitchesSeen
  <2>2. "membership" \in seen'
    BY <1>2, <1>4, <1>8, ConditionMembers
  <2>3. q.type = "user" => {"agent", "grant"} \subseteq seen'
    <3>1. q.type = "user" => "agent" \in Conditions(r)
      BY <1>4, ConditionMembers
    <3> QED BY <3>1, <1>6, <1>8, <2>1
  <2> QED BY <1>1, <1>3, <1>4, <1>8, <2>1, <2>2, <2>3 DEF SwitchesSeen, KillSwitchesHold, Granted
<1>11. writes = began => Snapshot(r)
  <2> SUFFICES ASSUME writes = began PROVE Snapshot(r)
    OBVIOUS
  <2>1. /\ refs = ResolveReferences(q)
        /\ s = ApplyDelegation(q, refs, Verified(req.token), DelegationRequired)
        /\ DelegationDeny(refs, s) = Ok /\ Inactive(refs) = Ok
    BY <1>2, SubjectSnapshot
  <2>2. MembershipActive(q, refs, s)
    BY <1>2, <1>6 DEF MembershipActive
  <2>3. q.type = "user" => SubjectReason(q, refs, s) = Ok
    BY <1>6, <2>2, SubjectOk
  <2> QED BY <1>3, <1>4, <1>7, <2>1, <2>2, <2>3 DEF Snapshot
<1>12. req.pc # "idle" /\ r.pc # "idle"
  BY <1>3, <1>4
<1> QED BY <1>1, <1>9, <1>10, <1>11, <1>12, Concluded

\* No active membership was found.
LEMMA MemberRefusedNext ==
  ASSUME DecisionInv, RbacTypeOK, UNCHANGED <<rbacVars, grantStatus>>, Observe,
         req.pc \in {"member", "wide"}, Finish(MembershipDenied),
         writes = began => ~ IsUserMembershipActive(req.q.tenant, req.q.app, req.s.user)
  PROVE  DecisionInv'
<1> USE DEF RowReads, AgentKnown, MemberFound, SubjectSet
<1>1. /\ req.q \in KnownRequests /\ RefsKnown(req.q, req.refs)
      /\ SubjectKnown(req.q, req.refs, req.s)
  BY UnderWay DEF DecisionInv
<1>2. /\ req.s.user # None /\ req.q.type \in {"user", "agent"}
      /\ req.q.type = "agent" /\ ~ req.refs.agentMissing => req.s.agent # None
  BY <1>1, AgentNamed, KnownFields
<1>3. writes = began => ~ MembershipActive(req.q, req.refs, req.s)
  BY DEF MembershipActive
<1>4. writes = began => SubjectReason(req.q, req.refs, req.s) = MembershipDenied
  BY <1>2, <1>3 DEF SubjectReason, MembershipDenied
<1>5. MembershipDenied # "permission_granted" /\ MembershipDenied # Ok
  BY DEF MembershipDenied, Ok
<1> QED BY <1>4, <1>5, RefusedSubject

\* is_user_membership_active, in its two reads.
LEMMA ReadMembershipNext ==
  ASSUME DecisionInv, RbacTypeOK, UNCHANGED <<rbacVars, grantStatus>>, Observe,
         ReadMembership \/ ReadWideMembership
  PROVE  DecisionInv'
<1> USE DEF RowReads, AgentKnown, MemberFound, SubjectSet
<1>1. PICK q, refs, s : q = req.q /\ refs = req.refs /\ s = req.s
  OBVIOUS
<1>2. req.pc \in {"member", "wide"}
  BY DEF ReadMembership, ReadWideMembership, At
<1>3. /\ q \in KnownRequests /\ req.token \in {NoToken} \union Grants /\ req.p \in Perms
      /\ RefsKnown(q, refs) /\ SubjectKnown(q, refs, s)
  BY <1>1, <1>2, UnderWay DEF DecisionInv
<1>4. /\ s.user = q.user /\ q.user \in Users /\ q.tenant \in Tenants /\ q.app \in Apps
      /\ q.app \in Scopes
  BY <1>3, KnownFields, ScopesAssumption DEF SubjectKnown
<1>5. /\ MembershipRow(q.tenant, q.app, q.user) \in MemberKey
      /\ None \in Scopes => MembershipRow(q.tenant, None, q.user) \in MemberKey
  BY <1>4 DEF MembershipRow, MemberKey
<1>6. /\ memberships[MembershipRow(q.tenant, q.app, q.user)] = "active" =>
           EligibleMemberships(q.tenant, q.app, q.user) # {}
      /\ None \in Scopes /\ memberships[MembershipRow(q.tenant, None, q.user)] = "active" =>
           EligibleMemberships(q.tenant, q.app, q.user) # {}
  BY <1>5 DEF EligibleMemberships, MembershipRow
<1>7. CASE ReadMembership
  <2> DEFINE status == memberships[MembershipRow(q.tenant, q.app, q.user)]
  <2>1. CASE status = "absent" /\ None \in Scopes
    <3>1. PICK r : r = req'
      OBVIOUS
    <3>2. Go("wide") /\ req.pc = "member"
      BY <1>1, <1>4, <1>7, <2>1 DEF ReadMembership, At
    <3>3. r = [pc |-> "wide", q |-> q, token |-> req.token, p |-> req.p, refs |-> refs, s |-> s]
      BY <1>1, <3>1, <3>2, GoesOn DEF DecisionInv
    <3>4. seen \subseteq seen' /\ seen' \subseteq AllConditions
      BY <3>1, <3>2, <3>3, Observed DEF DecisionInv
    <3>5. RequestOK'
      BY <1>3, <2>1, <3>1, <3>3 DEF RequestOK
    <3>6. SwitchesSeen' /\ KillSwitchesHold'
      <4>1. /\ {"tenant", "application"} \subseteq seen
            /\ refs.agentMissing \/ "grant" \in seen
            /\ ~ refs.agentMissing /\ refs.agentStatus = "active" => "agent" \in seen
        BY <1>1, <1>2 DEF DecisionInv, SwitchesSeen
      <4> QED BY <3>1, <3>3, <3>4, <4>1 DEF SwitchesSeen, KillSwitchesHold, Granted
    <3>7. writes = began => Snapshot(r)
      BY <1>1, <1>2, <1>4, <2>1, <3>3, SubjectSnapshot DEF Snapshot
    <3> QED BY <3>1, <3>2, <3>3, <3>5, <3>6, <3>7, Concluded
  <2>2. CASE ~ (status = "absent" /\ None \in Scopes)
    <3>1. IsUserMembershipActive(q.tenant, q.app, s.user) <=> status = "active"
      BY <1>4, <2>2 DEF IsUserMembershipActive
    <3>2. IF status = "active" THEN Go(IF req.q.type = "user" THEN "umember" ELSE "agent")
          ELSE Finish(MembershipDenied)
      BY <1>1, <1>4, <1>7, <2>2 DEF ReadMembership, AfterMembership
    <3>3. CASE status = "active"
      BY <1>1, <1>2, <1>6, <3>1, <3>2, <3>3, MemberFoundNext
    <3>4. CASE status # "active"
      BY <1>1, <1>2, <3>1, <3>2, <3>4, MemberRefusedNext
    <3> QED BY <3>3, <3>4
  <2> QED BY <2>1, <2>2
<1>8. CASE ReadWideMembership
  <2> DEFINE status == memberships[MembershipRow(q.tenant, None, q.user)]
  <2>1. req.pc = "wide" /\ None \in Scopes
    BY <1>8 DEF ReadWideMembership, At, DecisionInv, RequestOK, Idle
  <2>2. writes = began => memberships[MembershipRow(q.tenant, q.app, q.user)] = "absent"
    BY <1>1, <1>4, <2>1 DEF DecisionInv, SnapshotHeld, Snapshot
  <2>3. writes = began =>
          (IsUserMembershipActive(q.tenant, q.app, s.user) <=> status = "active")
    BY <1>4, <2>1, <2>2 DEF IsUserMembershipActive
  <2>4. IF status = "active" THEN Go(IF req.q.type = "user" THEN "umember" ELSE "agent")
        ELSE Finish(MembershipDenied)
    BY <1>1, <1>4, <1>8 DEF ReadWideMembership, AfterMembership
  <2>5. CASE status = "active"
    BY <1>1, <1>2, <1>6, <2>1, <2>3, <2>4, <2>5, MemberFoundNext
  <2>6. CASE status # "active"
    BY <1>1, <1>2, <2>3, <2>4, <2>6, MemberRefusedNext
  <2> QED BY <2>5, <2>6
<1> QED BY <1>7, <1>8

\* The read of the agent's status, unless it came with its name.
LEMMA ReadAgentNext ==
  ASSUME DecisionInv, RbacTypeOK, UNCHANGED <<rbacVars, grantStatus>>, Observe, ReadAgent
  PROVE  DecisionInv'
<1> USE DEF RowReads, AgentKnown, MemberFound, SubjectSet
<1>1. PICK q, refs, s : q = req.q /\ refs = req.refs /\ s = req.s
  OBVIOUS
<1>2. req.pc = "agent"
  BY DEF ReadAgent, At
<1>3. /\ q \in KnownRequests /\ req.token \in {NoToken} \union Grants /\ req.p \in Perms
      /\ RefsKnown(q, refs) /\ SubjectKnown(q, refs, s)
  BY <1>1, <1>2, UnderWay DEF DecisionInv
<1>4. /\ s.user # None
      /\ q.type = "agent" /\ ~ refs.agentMissing => s.agent # None
  BY <1>3, AgentNamed
<1>5. writes = began => q.type = "agent" /\ MembershipActive(q, refs, s)
  BY <1>1, <1>2 DEF DecisionInv, SnapshotHeld, Snapshot
<1>6. CASE s.agent # None /\ AgentActive(q, refs, s)
  <2>1. PICK r : r = req'
    OBVIOUS
  <2>2. Go("umember")
    BY <1>1, <1>6 DEF ReadAgent
  <2>3. r = [pc |-> "umember", q |-> q, token |-> req.token, p |-> req.p, refs |-> refs, s |-> s]
    BY <1>1, <1>2, <2>1, <2>2, GoesOn DEF DecisionInv
  <2>4. seen' = Conditions(r) \union seen /\ seen' \subseteq AllConditions
    BY <1>2, <2>1, <2>3, Observed DEF DecisionInv
  <2>5. RequestOK'
    BY <1>3, <2>1, <2>3 DEF RequestOK
  <2>6. ~ refs.agentMissing
    BY <1>6 DEF AgentActive
  <2>7. "agent" \in seen'
    <3>1. CASE q.type = "user"
      BY <3>1, <2>3, <2>4, ConditionMembers
    <3>2. CASE q.type = "agent" /\ q.agentName # None
      <4>1. s.agent = refs.agent /\ refs.agentStatus # None
        BY <3>2, <2>6, <1>3 DEF RefsKnown, SubjectKnown
      <4>2. refs.agentStatus = "active"
        BY <4>1, <1>6 DEF AgentActive
      <4> QED BY <4>2, <1>1, <1>2, <2>4, <2>6 DEF DecisionInv, SwitchesSeen
    <3>3. CASE q.type = "agent" /\ q.agentName = None
      <4>1. s.agent = q.agent /\ refs.agentStatus = None
        BY <3>3, <2>6, <1>3 DEF RefsKnown, SubjectKnown
      <4>2. agents[q.agent] = "active"
        BY <4>1, <1>6 DEF AgentActive, IsAgentActive
      <4>3. q.agent \in NamedAgents(r.q, r.token)
        BY <3>3, <4>1, <1>6, <2>3 DEF NamedAgents
      <4> QED BY <4>2, <4>3, <2>4, ConditionMembers
    <3> QED BY <3>1, <3>2, <3>3, <1>3, KnownFields
  <2>8. SwitchesSeen' /\ KillSwitchesHold'
    <3>1. {"tenant", "application", "grant", "membership"} \subseteq seen
      BY <1>1, <1>2, <2>6 DEF DecisionInv, SwitchesSeen
    <3> QED BY <2>1, <2>3, <2>4, <2>7, <3>1 DEF SwitchesSeen, KillSwitchesHold, Granted
  <2>9. writes = began => Snapshot(r)
    <3> SUFFICES ASSUME writes = began PROVE Snapshot(r)
      OBVIOUS
    <3>1. /\ refs = ResolveReferences(q)
          /\ s = ApplyDelegation(q, refs, Verified(req.token), DelegationRequired)
          /\ DelegationDeny(refs, s) = Ok /\ Inactive(refs) = Ok
      BY <1>1, <1>2, SubjectSnapshot
    <3>2. SubjectReason(q, refs, s) = Ok
      BY <1>4, <1>5, <1>6, SubjectOk
    <3> QED BY <2>3, <3>1, <3>2 DEF Snapshot
  <2> QED BY <1>2, <2>1, <2>3, <2>5, <2>8, <2>9, Concluded
<1>7. CASE ~ (s.agent # None /\ AgentActive(q, refs, s))
  <2>1. Finish("agent_not_active")
    BY <1>1, <1>7 DEF ReadAgent
  <2>2. writes = began => SubjectReason(q, refs, s) = "agent_not_active"
    BY <1>4, <1>5, <1>7 DEF SubjectReason
  <2> QED BY <1>1, <1>2, <2>1, <2>2, RefusedSubject DEF Ok
<1> QED BY <1>6, <1>7

\* What is left to show of a read of memberships, links, roles or permissions.
LEMMA RowsNext ==
  ASSUME DecisionInv, RbacTypeOK, UNCHANGED <<rbacVars, grantStatus>>, Observe,
         req.pc \in AgentKnown, NEW next \in RowReads, NEW rows, NEW user,
         Reading(next, rows, user),
         next \in {"alinks", "mask"} /\ req.p \in user => "permission" \in seen',
         next \in {"aoverrides", "aperms"} => user = req.user /\ req.pc \in {"alinks", "aoverrides"},
         writes = began =>
           /\ next = "ulinks" => rows = EligibleMemberships(req.q.tenant, req.q.app, req.s.user)
           /\ next = "uoverrides" => rows = Linked(req.q, req.s)
           /\ next = "uperms" => rows = EffectiveRoles(req.q.tenant, Linked(req.q, req.s))
           /\ next \in {"alinks", "aoverrides", "aperms"} =>
                /\ req.q.type = "agent"
                /\ user = ResolveUserPermissions(req.q.tenant, req.q.app, req.s.user)
           /\ next = "aoverrides" => rows = agentRoles[req.s.agent]
           /\ next = "aperms" => rows = EffectiveRoles(req.q.tenant, agentRoles[req.s.agent])
           /\ next = "mask" => user = SubjectPermissions(req.q, req.s)
  PROVE  DecisionInv'
<1> USE DEF RowReads, AgentKnown, MemberFound, SubjectSet
<1>1. PICK r : r = req'
  OBVIOUS
<1>2. r = [pc |-> next, q |-> req.q, token |-> req.token, p |-> req.p, refs |-> req.refs,
           s |-> req.s, rows |-> rows, user |-> user]
  BY <1>1 DEF Reading
<1>3. /\ req.q \in KnownRequests /\ req.token \in {NoToken} \union Grants /\ req.p \in Perms
      /\ RefsKnown(req.q, req.refs) /\ SubjectKnown(req.q, req.refs, req.s)
  BY UnderWay DEF DecisionInv
<1>4. r.pc = next /\ next # "idle" /\ next # "done" /\ req.pc # "idle"
  BY <1>2
<1>5. seen \subseteq seen' /\ seen' \subseteq AllConditions
  BY <1>1, <1>4, Observed DEF DecisionInv
<1>6. RequestOK'
  BY <1>1, <1>2, <1>3 DEF RequestOK
<1>7. SwitchesSeen'
  <2>1. {"tenant", "application", "grant", "membership", "agent"} \subseteq seen
    BY DEF DecisionInv, SwitchesSeen
  <2>2. next \in {"aoverrides", "aperms"} /\ req.p \in user => "permission" \in seen
    BY DEF DecisionInv, SwitchesSeen
  <2>3. /\ req'.pc = next /\ req'.refs = req.refs /\ req'.p = req.p /\ req'.user = user
    BY <1>1, <1>2
  <2> QED BY <1>5, <2>1, <2>2, <2>3 DEF SwitchesSeen
<1>8. KillSwitchesHold'
  BY <1>1, <1>4 DEF KillSwitchesHold, Granted
<1>9. writes = began => Snapshot(r)
  <2> SUFFICES ASSUME writes = began PROVE Snapshot(r)
    OBVIOUS
  <2>1. SubjectReason(req.q, req.refs, req.s) = Ok
    BY DEF DecisionInv, SnapshotHeld, Snapshot
  <2> QED BY <1>2, <2>1, SubjectSnapshot DEF Snapshot
<1> QED BY <1>1, <1>4, <1>6, <1>7, <1>8, <1>9, Concluded

\* The reads of resolve_user_permissions.
LEMMA ReadUserNext ==
  ASSUME DecisionInv, RbacTypeOK, UNCHANGED <<rbacVars, grantStatus>>, Observe,
         \/ ReadUserMemberships \/ ReadUserLinks \/ ReadUserOverrides \/ ReadUserPermissions
  PROVE  DecisionInv'
<1> USE DEF RowReads, AgentKnown, MemberFound, SubjectSet
<1>1. CASE ReadUserMemberships
  BY <1>1, RowsNext DEF ReadUserMemberships, At
<1>2. CASE ReadUserLinks
  <2>1. req.pc = "ulinks" /\ Reading("uoverrides", UNION {memberRoles[m] : m \in req.rows}, {})
    BY <1>2 DEF ReadUserLinks, At
  <2>2. writes = began => UNION {memberRoles[m] : m \in req.rows} = Linked(req.q, req.s)
    BY <2>1 DEF DecisionInv, SnapshotHeld, Snapshot, Linked
  <2> QED BY <2>1, <2>2, RowsNext
<1>3. CASE ReadUserOverrides
  <2>1. req.pc = "uoverrides" /\ Reading("uperms", EffectiveRoles(req.q.tenant, req.rows), {})
    BY <1>3 DEF ReadUserOverrides, At
  <2>2. writes = began => req.rows = Linked(req.q, req.s)
    BY <2>1 DEF DecisionInv, SnapshotHeld, Snapshot
  <2> QED BY <2>1, <2>2, RowsNext
<1>4. CASE ReadUserPermissions
  <2>1. PICK names : names = Names({p \in GrantedRows(req.rows) : p.app \in {req.q.app, None}})
    OBVIOUS
  <2>2. PICK next : next = IF req.q.type = "user" THEN "mask" ELSE "alinks"
    OBVIOUS
  <2>3. req.pc = "uperms" /\ Reading(next, {}, names)
    BY <1>4, <2>1, <2>2 DEF ReadUserPermissions, At
  <2>4. req.q.type \in {"user", "agent"}
    BY <2>3, UnderWay, KnownFields DEF DecisionInv
  <2>5. req.p \in names => "permission" \in seen'
    <3> SUFFICES ASSUME req.p \in names PROVE "permission" \in seen'
      OBVIOUS
    <3>1. PICK r : r = req'
      OBVIOUS
    <3>2. r.p = req.p /\ r.pc # "idle"
      BY <3>1, <2>2, <2>3 DEF Reading
    <3>3. \E row \in PermRow : row.name = req.p /\ perms[row] = "active"
      BY <2>1 DEF Names, GrantedRows
    <3>4. "permission" \in Conditions(r)
      BY <3>2, <3>3, ConditionMembers
    <3> QED BY <2>3, <3>1, <3>2, <3>4, Observed DEF DecisionInv
  <2>6. writes = began =>
          names = ResolveUserPermissions(req.q.tenant, req.q.app, req.s.user)
    <3>1. writes = began => req.rows = EffectiveRoles(req.q.tenant, Linked(req.q, req.s))
      BY <2>3 DEF DecisionInv, SnapshotHeld, Snapshot
    <3> QED BY <2>1, <3>1 DEF ResolveUserPermissions, Linked
  <2>7. writes = began /\ req.q.type = "user" => names = SubjectPermissions(req.q, req.s)
    BY <2>6 DEF SubjectPermissions
  <2> QED BY <2>2, <2>3, <2>4, <2>5, <2>6, <2>7, RowsNext
<1> QED BY <1>1, <1>2, <1>3, <1>4

\* The reads of resolve_agent_permissions.
LEMMA ReadAgentRowsNext ==
  ASSUME DecisionInv, RbacTypeOK, UNCHANGED <<rbacVars, grantStatus>>, Observe,
         ReadAgentLinks \/ ReadAgentOverrides \/ ReadAgentPermissions
  PROVE  DecisionInv'
<1> USE DEF RowReads, AgentKnown, MemberFound, SubjectSet
<1>1. req.pc \in {"alinks", "aoverrides", "aperms"}
  BY DEF ReadAgentLinks, ReadAgentOverrides, ReadAgentPermissions, At
<1>2. writes = began =>
        /\ req.q.type = "agent"
        /\ req.user = ResolveUserPermissions(req.q.tenant, req.q.app, req.s.user)
        /\ req.pc = "aoverrides" => req.rows = agentRoles[req.s.agent]
        /\ req.pc = "aperms" => req.rows = EffectiveRoles(req.q.tenant, agentRoles[req.s.agent])
        /\ SubjectReason(req.q, req.refs, req.s) = Ok
  BY <1>1 DEF DecisionInv, SnapshotHeld, Snapshot
<1>3. CASE ReadAgentLinks
  <2>1. req.pc = "alinks" /\ Reading("aoverrides", agentRoles[req.s.agent], req.user)
    BY <1>3 DEF ReadAgentLinks, At
  <2> QED BY <1>2, <2>1, RowsNext
<1>4. CASE ReadAgentOverrides
  <2>1. req.pc = "aoverrides"
        /\ Reading("aperms", EffectiveRoles(req.q.tenant, req.rows), req.user)
    BY <1>4 DEF ReadAgentOverrides, At
  <2> QED BY <1>2, <2>1, RowsNext
<1>5. CASE ReadAgentPermissions
  <2>1. PICK user : user = req.user \intersect Names(GrantedRows(req.rows))
    OBVIOUS
  <2>2. req.pc = "aperms" /\ Reading("mask", {}, user)
    BY <1>5, <2>1 DEF ReadAgentPermissions, At
  <2>3. req.p \in user => "permission" \in seen'
    <3>1. req.p \in user => "permission" \in seen
      BY <2>1, <2>2 DEF DecisionInv, SwitchesSeen
    <3>2. PICK r : r = req'
      OBVIOUS
    <3>3. r.pc # "idle"
      BY <3>2, <2>2 DEF Reading
    <3>4. seen \subseteq seen'
      BY <2>2, <3>2, <3>3, Observed DEF DecisionInv
    <3> QED BY <3>1, <3>4
  \* The agent decided about is one of this tenant and application.
  <2>4. writes = began =>
          /\ agents[req.s.agent] # "absent"
          /\ req.s.agent.tenant = req.q.tenant /\ req.s.agent.app = req.q.app
    <3> SUFFICES ASSUME writes = began
                 PROVE  /\ agents[req.s.agent] # "absent"
                        /\ req.s.agent.tenant = req.q.tenant /\ req.s.agent.app = req.q.app
      OBVIOUS
    <3>1. PICK q, refs, s, token :
            q = req.q /\ refs = req.refs /\ s = req.s /\ token = Verified(req.token)
      OBVIOUS
    <3>2. s.agent # None /\ AgentActive(q, refs, s) /\ q.type = "agent"
      BY <1>2, <3>1, SubjectOk
    <3>3. ~ refs.agentMissing
      BY <3>2 DEF AgentActive
    <3>4. /\ q \in KnownRequests /\ RefsKnown(q, refs) /\ SubjectKnown(q, refs, s)
          /\ token \in Tokens
      BY <1>1, <3>1, UnderWay, VerifiedFields DEF DecisionInv
    <3>5. q \in Requests /\ s.agent = refs.agent
      BY <3>2, <3>3, <3>4, KnownFields DEF SubjectKnown
    <3>6. refs = ResolveReferences(q)
      BY <1>1, <3>1, SubjectSnapshot
    <3>7. Complete(refs)
      BY <3>3, <3>4 DEF Complete, RefsKnown
    <3>8. s.agent = IF token.kind = "grant" /\ refs.agent = None THEN token.agent ELSE refs.agent
      BY <3>2, <3>5
    <3>9. s.agent.tenant = q.tenant /\ s.agent.app = q.app /\ agents[s.agent] = "active"
      BY <3>2, <3>4, <3>5, <3>6, <3>7, <3>8, DecidedAgent
    <3> QED BY <3>1, <3>9
  <2>5. writes = began => user = SubjectPermissions(req.q, req.s)
    BY <1>2, <2>1, <2>2, <2>4 DEF SubjectPermissions, ResolveAgentPermissions
  <2> QED BY <2>2, <2>3, <2>5, RowsNext
<1> QED BY <1>3, <1>4, <1>5

\* The read of the tenant's mask, and the decision.
LEMMA ReadMaskNext ==
  ASSUME DecisionInv, RbacTypeOK, UNCHANGED <<rbacVars, grantStatus>>, Observe, ReadMask
  PROVE  DecisionInv'
<1> USE DEF RowReads, AgentKnown, MemberFound, SubjectSet
<1>1. PICK T : T = ResolveTenantPermissions(req.q.tenant, req.q.app)
  OBVIOUS
<1>2. PICK reason : reason = Decide(req.p, req.user, T, req.s.perms, {})
  OBVIOUS
<1>3. req.pc = "mask" /\ Finish(reason)
  BY <1>1, <1>2 DEF ReadMask, At
<1>4. PICK r : r = req'
  OBVIOUS
<1>5. r.pc = "done" /\ r.q = req.q /\ r.p = req.p
  BY <1>3, <1>4 DEF Finish
<1>6. seen' = Conditions(r) \union seen
  BY <1>3, <1>4, <1>5, Observed DEF DecisionInv
<1>7. reason = "permission_granted" => AllConditions \subseteq seen'
  <2> SUFFICES ASSUME reason = "permission_granted" PROVE AllConditions \subseteq seen'
    OBVIOUS
  <2>1. req.p \in Delegated(Masked(req.user, T), req.s.perms)
    BY <1>2 DEF Decide, MissingReason
  <2>2. req.p \in req.user /\ (T # {} => req.p \in T)
    BY <2>1, Remaining
  <2>3. "permission" \in seen
    BY <1>3, <2>2 DEF DecisionInv, SwitchesSeen
  <2>4. req.p \in Masked({req.p}, mask[<<req.q.tenant, req.q.app>>])
    BY <1>1, <2>2 DEF Masked, ResolveTenantPermissions
  <2>5. "mask" \in Conditions(r)
    BY <1>5, <2>4, ConditionMembers
  <2>6. {"tenant", "application", "grant", "membership", "agent"} \subseteq seen
    BY <1>3 DEF DecisionInv, SwitchesSeen
  <2> QED BY <1>6, <2>3, <2>5, <2>6 DEF AllConditions
<1>8. writes = began => reason = EngineAuthorize(req.q, req.refs, req.s, req.p, {})
  <2>1. writes = began => /\ req.user = SubjectPermissions(req.q, req.s)
                          /\ SubjectReason(req.q, req.refs, req.s) = Ok
                          /\ Inactive(req.refs) = Ok
    BY <1>3 DEF DecisionInv, SnapshotHeld, Snapshot
  <2> QED BY <1>1, <1>2, <2>1 DEF EngineAuthorize
<1> QED BY <1>3, <1>7, <1>8, SubjectSnapshot, Answered

\* An administrative write, or the end of the grant, while a request is under way
\* or none is: the request keeps what it has read, and is not a quiet one any more.
LEMMA WriteDuringNext ==
  ASSUME DecisionInv, RbacTypeOK, Observe, req.pc # "done",
         \/ RbacNext /\ UNCHANGED <<grantStatus, req>>
         \/ GrantEnds
  PROVE  DecisionInv'
<1>1. writes' = writes + 1
  BY WritesCount
<1>2. req' = req /\ grantStatus' \in {"active", "ended"}
  BY DEF GrantEnds, DecisionInv
<1>3. began' = began
  BY <1>2 DEF Observe
<1>4. Conditions(req)' \subseteq AllConditions
  BY DEF Conditions, AllConditions
<1>5. seen \subseteq seen' /\ seen' \subseteq AllConditions
  BY <1>2, <1>4 DEF Observe, DecisionInv, SwitchesSeen
<1>6. began' \in Nat /\ began' <= writes' /\ writes' # began'
  BY <1>1, <1>3 DEF DecisionInv, RbacTypeOK
<1>7. RequestOK'
  BY <1>2 DEF DecisionInv, RequestOK, RefsKnown, SubjectKnown
<1>8. SwitchesSeen'
  BY <1>2, <1>5 DEF DecisionInv, SwitchesSeen
<1>9. KillSwitchesHold' /\ SnapshotHeld'
  BY <1>2, <1>6 DEF KillSwitchesHold, Granted, SnapshotHeld
<1> QED BY <1>2, <1>6, <1>7, <1>8, <1>9 DEF DecisionInv

\* A request begins.
LEMMA BeginNext ==
  ASSUME DecisionInv, RbacTypeOK, UNCHANGED <<rbacVars, grantStatus>>, Observe,
         NEW q \in KnownRequests, NEW token \in {NoToken} \union Grants, NEW p \in Perms,
         Begin(q, token, p)
  PROVE  DecisionInv'
<1> USE DEF RowReads, AgentKnown, MemberFound, SubjectSet
<1>1. req' = [pc |-> "tenant", q |-> q, token |-> token, p |-> p] /\ req.pc = "idle"
  BY DEF Begin
<1>2. Conditions(req)' \subseteq AllConditions
  BY DEF Conditions, AllConditions
<1>3. seen' \subseteq AllConditions /\ began' = writes /\ writes' = writes
  BY <1>1, <1>2 DEF Observe, rbacVars
<1>4. RequestOK'
  BY <1>1 DEF RequestOK
<1>5. SwitchesSeen' /\ KillSwitchesHold'
  BY <1>1, <1>3 DEF SwitchesSeen, KillSwitchesHold, Granted
<1>6. SnapshotHeld'
  BY <1>1 DEF SnapshotHeld, Snapshot
<1>7. began' \in Nat /\ began' <= writes'
  BY <1>3 DEF RbacTypeOK
<1> QED BY <1>4, <1>5, <1>6, <1>7 DEF DecisionInv

\* Before the first request.
LEMMA DecisionInvInit == DecisionInit => DecisionInv /\ RbacInv
<1> SUFFICES ASSUME DecisionInit PROVE DecisionInv /\ RbacInv
  OBVIOUS
<1> USE DEF RowReads, AgentKnown, MemberFound, SubjectSet
<1>1. RbacInv
  BY ProvisionedInv DEF DecisionInit
<1>2. req = Idle /\ req.pc = "idle" /\ seen = {} /\ began = 0 /\ writes = 0
      /\ grantStatus = "active"
  BY DEF DecisionInit, Provisioned, Idle
<1>3. RequestOK
  BY <1>2 DEF RequestOK
<1>4. SwitchesSeen /\ KillSwitchesHold
  BY <1>2 DEF SwitchesSeen, KillSwitchesHold, Granted
<1>5. SnapshotHeld
  BY <1>2 DEF SnapshotHeld, Snapshot
<1> QED BY <1>1, <1>2, <1>3, <1>4, <1>5 DEF DecisionInv

\* Every step of a request and every write keeps the inductive invariant.
LEMMA DecisionInvNext == DecisionInv /\ RbacInv /\ [DecisionNext]_allVars => DecisionInv'
<1> SUFFICES ASSUME DecisionInv, RbacInv, [DecisionNext]_allVars PROVE DecisionInv'
  OBVIOUS
<1>1. RbacTypeOK
  BY DEF RbacInv
<1>2. CASE UNCHANGED allVars
  <2>1. UNCHANGED <<rbacVars, grantStatus>> /\ req' = req /\ seen' = seen /\ began' = began
    BY <1>2 DEF allVars, reqVars
  <2>2. RequestOK' /\ SwitchesSeen' /\ KillSwitchesHold'
    BY <2>1 DEF DecisionInv, RequestOK, RefsKnown, SubjectKnown, SwitchesSeen, KillSwitchesHold,
       Granted
  <2>3. PICK r : r = req
    OBVIOUS
  <2>4. Snapshot(r)' <=> Snapshot(r)
    BY <2>1, SnapshotKept
  <2>5. writes' = writes
    BY <2>1 DEF rbacVars
  <2>6. SnapshotHeld'
    BY <2>1, <2>3, <2>4, <2>5 DEF DecisionInv, SnapshotHeld
  <2> QED BY <2>1, <2>2, <2>5, <2>6 DEF DecisionInv
<1>3. CASE /\ req.pc # "done"
           /\ \/ RbacNext /\ UNCHANGED <<grantStatus, req>>
              \/ GrantEnds
           /\ Observe
  BY <1>1, <1>3, WriteDuringNext
<1>4. CASE /\ \E q \in KnownRequests, p \in Perms :
                \/ Begin(q, NoToken, p)
                \/ \E d \in Grants : d.perms = {p} /\ Begin(q, d, p)
           /\ UNCHANGED <<rbacVars, grantStatus>>
           /\ Observe
  BY <1>1, <1>4, BeginNext
<1>5. CASE Read /\ UNCHANGED <<rbacVars, grantStatus>> /\ Observe
  <2>1. CASE ReadTenant \/ ReadApplication
    BY <1>1, <1>5, <2>1, ReadStatusNext
  <2>2. CASE ReadAgentRef
    BY <1>1, <1>5, <2>2, ReadAgentRefNext
  <2>3. CASE ReadGrant
    BY <1>1, <1>5, <2>3, ReadGrantNext
  <2>4. CASE ReadMembership \/ ReadWideMembership
    BY <1>1, <1>5, <2>4, ReadMembershipNext
  <2>5. CASE ReadAgent
    BY <1>1, <1>5, <2>5, ReadAgentNext
  <2>6. CASE ReadUserMemberships \/ ReadUserLinks \/ ReadUserOverrides \/ ReadUserPermissions
    BY <1>1, <1>5, <2>6, ReadUserNext
  <2>7. CASE ReadAgentLinks \/ ReadAgentOverrides \/ ReadAgentPermissions
    BY <1>1, <1>5, <2>7, ReadAgentRowsNext
  <2>8. CASE ReadMask
    BY <1>1, <1>5, <2>8, ReadMaskNext
  <2> QED BY <1>5, <2>1, <2>2, <2>3, <2>4, <2>5, <2>6, <2>7, <2>8 DEF Read
<1> QED BY <1>2, <1>3, <1>4, <1>5 DEF DecisionNext

\* The tables stay well formed, and what each request holds stays accounted for,
\* while requests and administrative writes interleave.
THEOREM DecisionInvCorrect == DecisionSpec => [](DecisionInv /\ RbacInv)
<1>1. DecisionInv /\ RbacInv /\ [DecisionNext]_allVars => (DecisionInv /\ RbacInv)'
  BY DecisionInvNext, DecisionTables
<1> QED BY DecisionInvInit, <1>1, PTL DEF DecisionSpec

\* A granted request found every switch on at some moment after it started,
\* however the writes of administrators fall between its reads.
THEOREM SwitchesHold == DecisionSpec => []KillSwitchesHold
<1>1. DecisionInv => KillSwitchesHold
  BY DEF DecisionInv
<1> QED BY DecisionInvCorrect, <1>1, PTL

\* A request that no write overlaps is answered as the engine answers on one
\* snapshot, reason included.
THEOREM QuietRequestsMatch == DecisionSpec => []QuietRequestsMatchEngine
<1>1. DecisionInv => QuietRequestsMatchEngine
  BY DEF DecisionInv, SnapshotHeld, Snapshot, QuietRequestsMatchEngine
<1> QED BY DecisionInvCorrect, <1>1, PTL
=============================================================================
