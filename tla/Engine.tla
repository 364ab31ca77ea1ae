------------------------------- MODULE Engine -------------------------------
(***************************************************************************)
(* The decision algorithms: AuthorizationEngine (authzkit/rbac/checker.py),*)
(* the reference resolution and delegation match in front of it, and the   *)
(* three endpoints of authz_service/api/authorize.py.                      *)
(*                                                                         *)
(* The source codes the same decision four times: authorize, bulk_authorize, *)
(* _effective_permissions and, in the library, AgentContextResolver         *)
(* (authzkit/agents/resolver.py).  Each is an operator over the tables of   *)
(* RbacStore as one request finds them; DecisionRequest takes the same      *)
(* reads one database statement at a time.                                 *)
(***************************************************************************)
EXTENDS RbacStore

CONSTANT Unknown   \* a reference that matches no row

ASSUME UnknownAssumption == Unknown \notin Tenants \union Users \union Agents \union {None}
\* NULL is no user, no agent row, no status and no set of permissions.
ASSUME NullAssumption == /\ None \notin Users \union AgentKey \union Statuses
                         /\ \A S \in SUBSET Perms : S # None

\* A request body: tenant by id or slug; the user by id or (userRef) by identity
\* reference, which differs only when it matches nobody; the agent by id (a row)
\* or by name, never both (SubjectSchema).
Requests ==
  {q \in [tenant : Tenants \union {Unknown}, app : Apps, type : {"user", "agent", "service"},
          user : Users \union {Unknown, None}, userRef : BOOLEAN,
          agent : AgentKey \union {None}, agentName : Agents \union {Unknown, None}] :
     (q.userRef => q.user = Unknown) /\ (q.agentName # None => q.agent = None)}

\* A verified delegation grant, as stored; the agent is one of the tenant and
\* application (create_delegation).
Grants == {d \in [kind : {"grant"}, tenant : Tenants, app : Apps, user : Users,
                  agent : AgentKey, perms : SUBSET Perms] :
             d.agent.tenant = d.tenant /\ d.agent.app = d.app}

\* What X-Delegation-Token can bring: nothing, a token that fails verify(), a grant.
Tokens == [kind : {"none", "invalid"}] \union Grants

Ok == "ok"

-----------------------------------------------------------------------------
(* References and delegation *)

\* resolve_references.
NamedAgent(q) == [tenant |-> q.tenant, app |-> q.app, name |-> q.agentName]
AgentFound(q) == NamedAgent(q) \in AgentKey /\ agents[NamedAgent(q)] # "absent"

ResolveReferences(q) ==
  [tenantStatus |-> IF q.tenant \in Tenants THEN tenants[q.tenant] ELSE None,
   appStatus    |-> apps[q.app],
   user         |-> IF q.userRef /\ q.user = Unknown THEN None ELSE q.user,
   userMissing  |-> q.userRef /\ q.user = Unknown,
   agent        |-> IF q.agentName = None THEN q.agent
                    ELSE IF AgentFound(q) THEN NamedAgent(q) ELSE None,
   agentStatus  |-> IF q.agentName # None /\ AgentFound(q) THEN agents[NamedAgent(q)] ELSE None,
   agentMissing |-> q.agentName # None /\ ~ AgentFound(q)]

Complete(refs) == refs.tenantStatus # None /\ ~ refs.userMissing /\ ~ refs.agentMissing

\* The grant is for this tenant, application, user and agent.
GrantMatches(q, s, d) ==
  q.tenant = d.tenant /\ q.app = d.app /\ s.user = d.user /\ s.agent = d.agent

\* apply_delegation: the subset to apply (None: no grant) and the subject with
\* the ids an agent subject may leave to the grant, or a reason to deny.
\* required is the setting AUTHZ_DELEGATION_REQUIRED.
ApplyDelegation(q, refs, token, required) ==
  LET plain(deny) == [deny |-> deny, perms |-> None, user |-> refs.user, agent |-> refs.agent]
      filled == [plain(Ok) EXCEPT !.user = IF refs.user = None THEN token.user ELSE refs.user,
                                  !.agent = IF refs.agent = None THEN token.agent ELSE refs.agent]
  IN  CASE token.kind = "none" ->
             plain(IF required /\ q.type = "agent" THEN "delegation_required" ELSE Ok)
        [] token.kind = "invalid" -> plain("delegation_invalid")
        [] token.kind = "grant" /\ q.type # "agent" -> plain("delegation_mismatch")
        [] OTHER -> IF GrantMatches(q, filled, token) THEN [filled EXCEPT !.perms = token.perms]
                    ELSE [filled EXCEPT !.deny = "delegation_mismatch"]

-----------------------------------------------------------------------------
(* The engine.  s is the subject after delegation: s.user, s.agent, s.perms. *)

\* _inactive
Inactive(refs) ==
  IF refs.tenantStatus # "active" THEN "tenant_not_active"
  ELSE IF refs.appStatus # "active" THEN "application_not_active" ELSE Ok

\* _membership_active
MembershipActive(q, refs, s) ==
  ~ refs.userMissing /\ s.user \in Users /\ IsUserMembershipActive(q.tenant, q.app, s.user)

\* _agent_active: the status read with the name, if the agent was given by name.
AgentActive(q, refs, s) ==
  /\ ~ refs.agentMissing
  /\ IF refs.agentStatus # None /\ s.agent = refs.agent THEN refs.agentStatus = "active"
     ELSE IsAgentActive(q.tenant, q.app, s.agent)

\* _resolve_user and _resolve_agent: a reason to deny, or Ok.
SubjectReason(q, refs, s) ==
  IF q.type = "user"
  THEN IF s.user = None /\ ~ refs.userMissing THEN "invalid_subject"
       ELSE IF s.user = None \/ ~ MembershipActive(q, refs, s) THEN "no_active_membership"
       ELSE IF refs.agentMissing THEN "agent_not_active" ELSE Ok
  ELSE IF q.type = "agent"
  THEN IF \/ s.user = None /\ ~ refs.userMissing
          \/ s.agent = None /\ ~ refs.agentMissing THEN "invalid_subject"
       ELSE IF s.user = None \/ ~ MembershipActive(q, refs, s) THEN "no_active_user_membership"
       ELSE IF s.agent = None \/ ~ AgentActive(q, refs, s) THEN "agent_not_active" ELSE Ok
  ELSE "invalid_subject"

\* "An agent never gets more than the user."
SubjectPermissions(q, s) ==
  IF q.type = "user" THEN ResolveUserPermissions(q.tenant, q.app, s.user)
  ELSE ResolveUserPermissions(q.tenant, q.app, s.user)
       \intersect ResolveAgentPermissions(q.tenant, q.app, s.agent)

\* An empty tenant mask restricts nothing; a grant that covers nothing does.
Masked(permissions, tenantPermissions) ==
  IF tenantPermissions = {} THEN permissions ELSE permissions \intersect tenantPermissions

\* Mutation: an empty grant is taken for no grant.
DelegatedTruthy(permissions, subset) ==
  IF subset \in {None, {}} THEN permissions ELSE permissions \intersect subset

Delegated(permissions, subset) ==
  IF subset = None THEN permissions ELSE permissions \intersect subset

\* The reason given for a permission outside the effective set.
MissingReason(p, permissions, tenantPermissions) ==
  IF p \in Masked(permissions, tenantPermissions) THEN "not_delegated"
  ELSE IF tenantPermissions # {} /\ p \in permissions THEN "tenant_feature_disabled"
  ELSE "missing_permission"

\* The end of authorize(): reason for p; refused is the set of permissions whose
\* ABAC conditions fail on the request.
Decide(p, permissions, tenantPermissions, subset, refused) ==
  IF p \notin Delegated(Masked(permissions, tenantPermissions), subset)
  THEN MissingReason(p, permissions, tenantPermissions)
  ELSE IF p \in refused THEN "policy_condition_failed" ELSE "permission_granted"

EngineAuthorize(q, refs, s, p, refused) ==
  IF Inactive(refs) # Ok THEN Inactive(refs)
  ELSE IF SubjectReason(q, refs, s) # Ok THEN SubjectReason(q, refs, s)
  ELSE Decide(p, SubjectPermissions(q, s), ResolveTenantPermissions(q.tenant, q.app),
              s.perms, refused)

\* bulk_authorize: one pass, a subject-level reason spread over all checks.
EngineBulk(q, refs, s, checks, refused) ==
  IF Inactive(refs) # Ok THEN [p \in checks |-> Inactive(refs)]
  ELSE IF SubjectReason(q, refs, s) # Ok THEN [p \in checks |-> SubjectReason(q, refs, s)]
  ELSE LET permissions == SubjectPermissions(q, s)
           tenantPermissions == ResolveTenantPermissions(q.tenant, q.app)
           undelegated == Masked(permissions, tenantPermissions)
           effective == Delegated(undelegated, s.perms)
       IN  [p \in checks |->
              CASE p \in effective /\ p \in refused -> "policy_condition_failed"
                [] p \in effective /\ p \notin refused -> "permission_granted"
                [] p \notin effective /\ p \in undelegated -> "not_delegated"
                [] p \notin undelegated /\ tenantPermissions # {} /\ p \in permissions ->
                     "tenant_feature_disabled"
                [] OTHER -> "missing_permission"]

\* Mutation: the status of the agent is not asked for.
EngineEffectiveAnyAgent(q, refs, s) ==
  LET known == /\ Inactive(refs) = Ok
               /\ s.user # None /\ MembershipActive(q, refs, s)
               /\ q.type = "user" \/ (q.type = "agent" /\ s.agent # None)
  IN  IF ~ known THEN {}
      ELSE Delegated(Masked(SubjectPermissions(q, s),
                            ResolveTenantPermissions(q.tenant, q.app)), s.perms)

\* effective_permissions / _effective_permissions: a ladder of its own that
\* answers the empty set.
EngineEffective(q, refs, s) ==
  LET known == /\ Inactive(refs) = Ok
               /\ s.user # None /\ MembershipActive(q, refs, s)
               /\ \/ q.type = "user"
                  \/ q.type = "agent" /\ s.agent # None /\ AgentActive(q, refs, s)
  IN  IF ~ known THEN {}
      ELSE Delegated(Masked(SubjectPermissions(q, s),
                            ResolveTenantPermissions(q.tenant, q.app)), s.perms)

\* AgentContextResolver.resolve (authzkit/agents/resolver.py), the library's own
\* ladder for an agent run, by ids; what it refuses has no permissions.
AgentContext(tenant, app, user, agent) ==
  LET known == /\ tenant \in Tenants /\ tenants[tenant] = "active"
               /\ user \in Users /\ IsUserMembershipActive(tenant, app, user)
               /\ agent \in AgentKey /\ IsAgentActive(tenant, app, agent)
  IN  IF ~ known THEN {}
      ELSE Masked(ResolveUserPermissions(tenant, app, user)
                    \intersect ResolveAgentPermissions(tenant, app, agent),
                  ResolveTenantPermissions(tenant, app))

-----------------------------------------------------------------------------
(* The endpoints *)

\* _delegation_deny: an unknown reference outranks a delegation problem.
DelegationDeny(refs, s) == IF Complete(refs) THEN s.deny ELSE Ok

\* What stands in front of the engine in all three: references, then delegation.
Prepared(q, token, required) ==
  LET refs == ResolveReferences(q)
  IN  [refs |-> refs, s |-> ApplyDelegation(q, refs, token, required)]

AuthorizeEndpoint(q, pre, p, refused) ==
  IF DelegationDeny(pre.refs, pre.s) # Ok THEN pre.s.deny
  ELSE EngineAuthorize(q, pre.refs, pre.s, p, refused)

BulkEndpoint(q, pre, checks, refused) ==
  IF DelegationDeny(pre.refs, pre.s) # Ok THEN [p \in checks |-> pre.s.deny]
  ELSE EngineBulk(q, pre.refs, pre.s, checks, refused)

\* A delegation problem is a 403 here: no permission is listed.
EffectiveEndpoint(q, pre) ==
  IF ~ Complete(pre.refs) \/ pre.s.deny # Ok THEN {} ELSE EngineEffective(q, pre.refs, pre.s)

-----------------------------------------------------------------------------
(* Properties *)

\* The setting is looked at only when no token comes with the request.
Settings(token) == IF token.kind = "none" THEN BOOLEAN ELSE {FALSE}

\* authorize, bulk-authorize and effective-permissions, each coded on its own,
\* answer alike: the same reason for every check, and exactly the permissions
\* that would be granted when no ABAC condition refuses.  So does the library for
\* an agent without a grant, in an application that is active (it does not ask).
EntryPointsAgree ==
  \A q \in Requests, token \in Tokens : \A required \in Settings(token) :
    \A pre \in {Prepared(q, token, required)} :
      /\ \A refused \in SUBSET Perms :
           BulkEndpoint(q, pre, Perms, refused) =
             [p \in Perms |-> AuthorizeEndpoint(q, pre, p, refused)]
      /\ EffectiveEndpoint(q, pre) =
           {p \in Perms : AuthorizeEndpoint(q, pre, p, {}) = "permission_granted"}
      /\ /\ q.type = "agent" /\ q.agentName = None /\ ~ q.userRef
         /\ token.kind = "none" /\ ~ required /\ apps[q.app] = "active"
         => EffectiveEndpoint(q, pre) = AgentContext(q.tenant, q.app, q.user, q.agent)

\* The user or agent that a request names, as a set of rows: by id, by
\* reference, or left to the grant.
NamedUsers(q, token) ==
  IF q.user \in Users THEN {q.user}
  ELSE IF q.user = None /\ token.kind = "grant" THEN {token.user} ELSE {}

NamedAgents(q, token) ==
  IF q.agentName # None THEN {g \in AgentKey : g = NamedAgent(q) /\ agents[g] # "absent"}
  ELSE IF q.agent # None THEN {q.agent}
  ELSE IF token.kind = "grant" THEN {token.agent} ELSE {}

\* What the documentation promises of an allow, condition by condition, without
\* the order of the checks: everybody involved is known and active in this very
\* tenant and application, the user holds the permission, so does an agent that
\* acts for the user, the tenant's mask has it, and a token given is a grant for
\* exactly this tenant, application, user and agent that covers it.
Entitled(q, token, required, p) ==
  /\ q.tenant \in Tenants /\ tenants[q.tenant] = "active" /\ apps[q.app] = "active"
  /\ \E u \in NamedUsers(q, token) :
       /\ IsUserMembershipActive(q.tenant, q.app, u)
       /\ p \in ResolveUserPermissions(q.tenant, q.app, u)
       /\ \/ /\ q.type = "user" /\ token.kind = "none"
             /\ q.agentName # None => NamedAgents(q, token) # {}
          \/ \E g \in NamedAgents(q, token) :
               /\ q.type = "agent"
               /\ g.tenant = q.tenant /\ g.app = q.app /\ agents[g] = "active"
               /\ p \in ResolveAgentPermissions(q.tenant, q.app, g)
               /\ IF token.kind = "none" THEN ~ required
                  ELSE /\ token.kind = "grant" /\ p \in token.perms
                       /\ token.tenant = q.tenant /\ token.app = q.app
                       /\ token.user = u /\ token.agent = g
  /\ mask[<<q.tenant, q.app>>] # {} => p \in mask[<<q.tenant, q.app>>]

\* authorize grants exactly what the conditions entitle to.
AllowsExactlyTheEntitled ==
  \A q \in Requests, token \in Tokens, p \in Perms : \A required \in Settings(token) :
    (AuthorizeEndpoint(q, Prepared(q, token, required), p, {}) = "permission_granted")
      <=> Entitled(q, token, required, p)
=============================================================================
