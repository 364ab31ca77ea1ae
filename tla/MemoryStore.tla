---------------------------- MODULE MemoryStore ----------------------------
(***************************************************************************)
(* InMemoryStore (authzkit/storage/memory.py), the second implementation of *)
(* the repositories, used by the library and its offline mode.  It walks    *)
(* dictionaries where SqlAlchemyStore joins tables, and codes role names,   *)
(* overrides and memberships on its own.                                   *)
(*                                                                         *)
(* Its reads are operators on the tables of RbacStore.  A dictionary is     *)
(* walked in the order of insertion; where the result may depend on that,   *)
(* the order is a parameter.                                               *)
(***************************************************************************)
EXTENDS RbacStore, Functions

-----------------------------------------------------------------------------
(* Roles by name *)

\* The roles that pass the other conditions of the loop of find_assignable_roles.
NamedRows(tenant, app, names) ==
  {r \in roles : r.name \in names /\ r.app = app /\ ~ Internal(r) /\ r.tenant \in {None, tenant}}

\* Mutation: an application-wide role replaces what was found before it.
KeepRoleLast(rows, j) == TRUE

\* The last condition of the loop, for the row in the j-th place: a tenant's own
\* role, or a name that is not in found, because no earlier row has it.
KeepRole(rows, j) ==
  rows[j].tenant # None \/ \A i \in DOMAIN rows : i < j => rows[i].name # rows[j].name

\* find_assignable_roles, over the roles in some order: found keeps, under each
\* name, the last role that was written there.
FindAssignableRoles(rows) ==
  {rows[j] : j \in {k \in DOMAIN rows :
     /\ KeepRole(rows, k)
     /\ \A i \in DOMAIN rows : i > k /\ KeepRole(rows, i) => rows[i].name # rows[k].name}}

\* _effective_role_ids: the override of a linked role, or the role itself.
OverrideOrSelf(tenant, r) ==
  LET overrides == {o \in roles : /\ o.tenant = tenant /\ ~ Internal(o)
                                  /\ o.app = r.app /\ o.name = r.name}
  IN  IF r.tenant = None /\ ~ Internal(r) /\ overrides # {}
      THEN CHOOSE o \in overrides : TRUE ELSE r

EffectiveRoleIds(tenant, linked) ==
  {OverrideOrSelf(tenant, r) : r \in {x \in linked : x \in roles /\ x.tenant \in {None, tenant}}}

-----------------------------------------------------------------------------
(* Permissions and statuses *)

ListRolePermissions(r) == {p \in PermRow : perms[p] # "absent" /\ p \in rolePerms[r]}

\* set_role_permissions: what a role gets, if no name is unknown.
FoundPermissions(r, names) ==
  {p \in PermRow : p.app = r.app /\ perms[p] = "active" /\ p.name \in names}

\* resolve_user_permissions: membership by membership, role by role.
MemoryUserPermissions(tenant, app, user) ==
  UNION {UNION {{p.name : p \in {x \in ListRolePermissions(r) : x.app \in {app, None} /\ perms[x] = "active"}} :
                  r \in EffectiveRoleIds(tenant, memberRoles[m])} :
           m \in {k \in MemberKey : /\ k.tenant = tenant /\ k.user = user /\ memberships[k] = "active"
                                    /\ (k.app = app \/ k.app = None)}}

\* get_agent, resolve_agent_permissions, is_agent_active
MemoryAgent(tenant, app, g) == agents[g] # "absent" /\ g.tenant = tenant /\ g.app = app

MemoryAgentPermissions(tenant, app, g) ==
  IF ~ MemoryAgent(tenant, app, g) THEN {}
  ELSE UNION {{p.name : p \in {x \in ListRolePermissions(r) : perms[x] = "active"}} :
                r \in EffectiveRoleIds(tenant, agentRoles[g])}

MemoryAgentActive(tenant, app, g) == MemoryAgent(tenant, app, g) /\ agents[g] = "active"

\* get_membership: the rows of that key, at most one here.
GetMembership(tenant, app, user) ==
  {m \in MemberKey : m.tenant = tenant /\ m.app = app /\ m.user = user /\ memberships[m] # "absent"}

\* is_user_membership_active
MemoryMembershipActive(tenant, app, user) ==
  LET own == GetMembership(tenant, app, user)
      row == IF own = {} THEN GetMembership(tenant, None, user) ELSE own
  IN  \E m \in row : memberships[m] = "active"

-----------------------------------------------------------------------------
(* Properties *)

\* In every database that administrative writes lead to, the two stores say the
\* same: what a role name assigns, whatever the order in which the dictionary
\* holds the roles; what users and agents are granted in any tenant and
\* application; who is active; and which permissions a role would get.
StoresAgree ==
  /\ \A t \in Tenants, s \in Scopes, ns \in SUBSET RoleNames :
       LET named == NamedRows(t, s, ns) IN
       \A rows \in Bijection(1..Cardinality(named), named) :
         FindAssignableRoles(rows) = AssignableRoles(t, s, ns)
  /\ \A t \in Tenants, a \in Apps, u \in Users :
       /\ MemoryUserPermissions(t, a, u) = ResolveUserPermissions(t, a, u)
       /\ MemoryMembershipActive(t, a, u) = IsUserMembershipActive(t, a, u)
  /\ \A t \in Tenants, a \in Apps, g \in AgentKey :
       /\ MemoryAgentPermissions(t, a, g) = ResolveAgentPermissions(t, a, g)
       /\ MemoryAgentActive(t, a, g) = IsAgentActive(t, a, g)
  /\ \A r \in roles, ns \in SUBSET Perms : FoundPermissions(r, ns) = ActivePermissions(r.app, ns)
=============================================================================
