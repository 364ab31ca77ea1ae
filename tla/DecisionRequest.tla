--------------------------- MODULE DecisionRequest ---------------------------
(***************************************************************************)
(* One /v1/authorize request, read by read, while administrators write.    *)
(*                                                                         *)
(* The endpoint opens a session for the references, one for the delegation *)
(* grant and one for every repository call of the engine, and each SELECT  *)
(* has a READ COMMITTED snapshot of its own (on SQLite a read starts no    *)
(* transaction that outlives it).  So each SELECT is a step, and between   *)
(* two of them any administrative write of RbacStore may commit.           *)
(***************************************************************************)
EXTENDS Engine

CONSTANT DelegationRequired  \* AUTHZ_DELEGATION_REQUIRED

ASSUME SettingAssumption == DelegationRequired \in BOOLEAN

VARIABLES grantStatus,  \* delegation_grants: the row of the grant a request may carry
          req,          \* the request in progress: where it is, what it has read
          seen,         \* history: the conditions that held at some moment of it
          began         \* history: the writes before it

reqVars == <<grantStatus, req, seen, began>>
allVars == <<rbacVars, reqVars>>

Idle == [pc |-> "idle"]

\* The request: a user, or an agent acting for a user, by id or by name.
KnownRequests ==
  {q \in Requests : /\ q.tenant \in Tenants /\ q.user \in Users /\ ~ q.userRef
                    /\ \/ q.type = "user" /\ q.agent = None /\ q.agentName = None
                       \/ q.type = "agent" /\ (q.agent # None <=> q.agentName = None)
                          /\ q.agentName # Unknown}
NoToken == [kind |-> "none"]

\* What the X-Delegation-Token verifies to at this moment (DelegationService.verify).
Verified(token) ==
  IF token.kind = "grant" /\ grantStatus # "active" THEN [kind |-> "invalid"] ELSE token

\* The conditions that one statement reads each: the switches an administrator
\* turns off to stop a subject.
RequestedAgents(r) == NamedAgents(r.q, r.token)

Conditions(r) ==
     (IF tenants[r.q.tenant] = "active" THEN {"tenant"} ELSE {})
  \union (IF apps[r.q.app] = "active" THEN {"application"} ELSE {})
  \union (IF EligibleMemberships(r.q.tenant, r.q.app, r.q.user) # {} THEN {"membership"} ELSE {})
  \union (IF r.q.type = "user" \/ \E g \in RequestedAgents(r) : agents[g] = "active"
          THEN {"agent"} ELSE {})
  \union (IF r.token.kind = "none" \/ grantStatus = "active" THEN {"grant"} ELSE {})
  \union (IF \E p \in PermRow : p.name = r.p /\ perms[p] = "active" THEN {"permission"} ELSE {})
  \union (IF r.p \in Masked({r.p}, mask[<<r.q.tenant, r.q.app>>]) THEN {"mask"} ELSE {})

AllConditions == {"tenant", "application", "membership", "agent", "grant", "permission", "mask"}

-----------------------------------------------------------------------------
\* A database in use: catalog and tenant state applied, every user a member of
\* the application or of the whole tenant, every agent and role with all
\* permissions.  RbacStore reaches it with a handful of writes.
Provisioned(scope) ==
  /\ tenants = [t \in Tenants |-> "active"] /\ apps = [a \in Apps |-> "active"]
  /\ perms = [p \in PermRow |-> IF p.app \in Apps \union {scope} THEN "active" ELSE "absent"]
  /\ roles = {DefaultRole(scope, n) : n \in RoleNames} \union {InternalRole(g) : g \in AgentKey}
  /\ rolePerms = [r \in RoleRow |-> IF r \in roles THEN [app : {r.app}, name : Perms] ELSE {}]
  /\ memberships = [m \in MemberKey |-> IF m.app = scope THEN "active" ELSE "absent"]
  /\ memberRoles = [m \in MemberKey |-> IF m.app = scope
                                        THEN {DefaultRole(scope, n) : n \in RoleNames} ELSE {}]
  /\ agents = [g \in AgentKey |-> "active"]
  /\ agentRoles = [g \in AgentKey |-> {InternalRole(g)}]
  /\ mask = [ta \in Tenants \X Apps |-> {}]
  /\ writes = 0

DecisionInit == /\ \E scope \in Scopes : Provisioned(scope)
                /\ grantStatus = "active"
                /\ req = Idle
                /\ seen = {}
                /\ began = 0

Begin(q, token, p) ==
  /\ req.pc = "idle"
  /\ req' = [pc |-> "tenant", q |-> q, token |-> token, p |-> p]

At(pc) == req.pc = pc
Go(next) == req' = [req EXCEPT !.pc = next]
Finish(reason) == req' = [pc |-> "done", q |-> req.q, token |-> req.token, p |-> req.p,
                          reason |-> reason]

\* resolve_references, one SELECT each; the agent only when given by name.
ReadTenant ==
  /\ At("tenant")
  /\ req' = [pc |-> "app", q |-> req.q, token |-> req.token, p |-> req.p,
             tenantStatus |-> tenants[req.q.tenant]]

\* Mutation: the status of the application is not read.
ReadApplicationIdOnly ==
  /\ At("app")
  /\ req' = [pc |-> "agentref", q |-> req.q, token |-> req.token, p |-> req.p,
             tenantStatus |-> req.tenantStatus, appStatus |-> "active"]

ReadApplication ==
  /\ At("app")
  /\ req' = [pc |-> "agentref", q |-> req.q, token |-> req.token, p |-> req.p,
             tenantStatus |-> req.tenantStatus, appStatus |-> apps[req.q.app]]

\* The references are complete: from here on they are passed around as refs.
ReadAgentRef ==
  /\ At("agentref")
  /\ req' = [pc |-> "grant", q |-> req.q, token |-> req.token, p |-> req.p,
             refs |-> [ResolveReferences(req.q) EXCEPT !.tenantStatus = req.tenantStatus,
                                                       !.appStatus = req.appStatus]]

\* apply_delegation reads the grant row; then _inactive costs no read.
ReadGrant ==
  LET s == ApplyDelegation(req.q, req.refs, Verified(req.token), DelegationRequired) IN
  /\ At("grant")
  /\ IF DelegationDeny(req.refs, s) # Ok THEN Finish(s.deny)
     ELSE IF Inactive(req.refs) # Ok THEN Finish(Inactive(req.refs))
     ELSE req' = [pc |-> "member", q |-> req.q, token |-> req.token, p |-> req.p,
                  refs |-> req.refs, s |-> s]

\* is_user_membership_active: the application's row, then the tenant-wide one.
MembershipDenied ==
  IF req.q.type = "user" THEN "no_active_membership" ELSE "no_active_user_membership"

AfterMembership(active) ==
  IF active THEN Go(IF req.q.type = "user" THEN "umember" ELSE "agent")
  ELSE Finish(MembershipDenied)

\* Mutation: the tenant-wide row is not asked for.
ReadMembershipOwn ==
  /\ At("member")
  /\ AfterMembership(memberships[MembershipRow(req.q.tenant, req.q.app, req.s.user)] = "active")

ReadMembership ==
  LET status == memberships[MembershipRow(req.q.tenant, req.q.app, req.s.user)] IN
  /\ At("member")
  /\ IF status = "absent" /\ None \in Scopes THEN Go("wide")
     ELSE AfterMembership(status = "active")

ReadWideMembership ==
  /\ At("wide")
  /\ AfterMembership(memberships[MembershipRow(req.q.tenant, None, req.s.user)] = "active")

\* is_agent_active, or the status read with the name; an agent name that
\* matched nothing ends here.
ReadAgent ==
  /\ At("agent")
  /\ IF req.s.agent # None /\ AgentActive(req.q, req.refs, req.s) THEN Go("umember")
     ELSE Finish("agent_not_active")

-----------------------------------------------------------------------------
(* resolve_user_permissions and resolve_agent_permissions: memberships, links,
   overrides, permissions.  req keeps the rows the previous SELECT returned.
   An early return on an empty result reads no further and answers the empty
   set, as the remaining reads of an empty set of rows do here.  A role deleted
   and created again under its name between two reads has a new id in the code
   and is the same row here, which can only add to what is granted. *)

Reading(pc, rows, user) ==
  req' = [pc |-> pc, q |-> req.q, token |-> req.token, p |-> req.p, refs |-> req.refs,
          s |-> req.s, rows |-> rows, user |-> user]

ReadUserMemberships ==
  /\ At("umember")
  /\ Reading("ulinks", EligibleMemberships(req.q.tenant, req.q.app, req.s.user), {})

ReadUserLinks ==
  /\ At("ulinks")
  /\ Reading("uoverrides", UNION {memberRoles[m] : m \in req.rows}, {})

ReadUserOverrides ==
  /\ At("uoverrides")
  /\ Reading("uperms", EffectiveRoles(req.q.tenant, req.rows), {})

ReadUserPermissions ==
  LET names == Names({p \in GrantedRows(req.rows) : p.app \in {req.q.app, None}}) IN
  /\ At("uperms")
  /\ Reading(IF req.q.type = "user" THEN "mask" ELSE "alinks", {}, names)

ReadAgentLinks ==
  /\ At("alinks")
  /\ Reading("aoverrides", agentRoles[req.s.agent], req.user)

ReadAgentOverrides ==
  /\ At("aoverrides")
  /\ Reading("aperms", EffectiveRoles(req.q.tenant, req.rows), req.user)

ReadAgentPermissions ==
  /\ At("aperms")
  /\ Reading("mask", {}, req.user \intersect Names(GrantedRows(req.rows)))

ReadMask ==
  /\ At("mask")
  /\ Finish(Decide(req.p, req.user, ResolveTenantPermissions(req.q.tenant, req.q.app),
                   req.s.perms, {}))

Read == \/ ReadTenant \/ ReadApplication \/ ReadAgentRef \/ ReadGrant
        \/ ReadMembership \/ ReadWideMembership \/ ReadAgent
        \/ ReadUserMemberships \/ ReadUserLinks \/ ReadUserOverrides \/ ReadUserPermissions
        \/ ReadAgentLinks \/ ReadAgentOverrides \/ ReadAgentPermissions \/ ReadMask

\* revoke, revoke_matching, or the expiry of the grant.
GrantEnds ==
  /\ Write
  /\ grantStatus = "active"
  /\ grantStatus' = "ended"
  /\ UNCHANGED <<tenants, apps, perms, roles, rolePerms, memberships, memberRoles,
                 agents, agentRoles, mask, req>>

\* History of the request in progress.
Observe ==
  IF req'.pc = "idle" THEN UNCHANGED <<seen, began>>
  ELSE /\ seen' = Conditions(req)' \union (IF req.pc = "idle" THEN {} ELSE seen)
       /\ began' = IF req.pc = "idle" THEN writes ELSE began

DecisionNext ==
  \/ /\ req.pc # "done"
     /\ \/ RbacNext /\ UNCHANGED <<grantStatus, req>>
        \/ GrantEnds
     /\ Observe
  \/ /\ \E q \in KnownRequests, p \in Perms :
          \/ Begin(q, NoToken, p)
          \/ \E d \in Grants : d.perms = {p} /\ Begin(q, d, p)
     /\ UNCHANGED <<rbacVars, grantStatus>>
     /\ Observe
  \/ Read /\ UNCHANGED <<rbacVars, grantStatus>> /\ Observe

DecisionSpec == DecisionInit /\ [][DecisionNext]_allVars

-----------------------------------------------------------------------------
(* Properties *)

Granted == req.pc = "done" /\ req.reason = "permission_granted"

\* Whatever is switched off before a request starts, and stays off, is honoured
\* by it: a granted request found tenant, application, membership and agent
\* active, the grant not ended, the permission not deprecated and the mask
\* permitting at some moment after it started.
KillSwitchesHold == Granted => seen = AllConditions

\* A request that no write overlaps is answered, reason included, as the engine
\* answers on one snapshot of the tables.
QuietRequestsMatchEngine ==
  req.pc = "done" /\ writes = began =>
    LET expected == AuthorizeEndpoint(
          req.q, Prepared(req.q, Verified(req.token), DelegationRequired), req.p, {})
    IN  req.reason = expected

-----------------------------------------------------------------------------
(* What makes them inductive. *)

\* Where a request is once its subject is known, once its membership was found
\* active, once its agent was, and once it reads role rows.
RowReads   == {"ulinks", "uoverrides", "uperms", "alinks", "aoverrides", "aperms", "mask"}
AgentKnown == {"umember"} \union RowReads
MemberFound == {"agent"} \union AgentKnown
SubjectSet == {"member", "wide"} \union MemberFound

\* The references of a request under way: the user is known, and an agent name
\* found nothing or a row with its status.
RefsKnown(q, refs) ==
  /\ refs.tenantStatus \in Statuses /\ refs.user = q.user /\ ~ refs.userMissing
  /\ IF q.agentName = None
     THEN refs.agent = q.agent /\ refs.agentStatus = None /\ ~ refs.agentMissing
     ELSE \/ refs.agentMissing
          \/ refs.agent = NamedAgent(q) /\ refs.agentStatus \in Statuses

\* A grant fills in nothing that the request names.
SubjectKnown(q, refs, s) ==
  s.user = q.user /\ (q.type = "agent" /\ ~ refs.agentMissing => s.agent = refs.agent)

\* What a request holds at each point.
RequestOK ==
  \/ req = Idle
  \/ /\ req.q \in KnownRequests /\ req.token \in {NoToken} \union Grants /\ req.p \in Perms
     /\ \/ req.pc \in {"tenant", "done"}
        \/ req.pc = "app" /\ req.tenantStatus \in Statuses
        \/ req.pc = "agentref" /\ req.tenantStatus \in Statuses
        \/ req.pc = "grant" /\ RefsKnown(req.q, req.refs)
        \/ /\ req.pc \in SubjectSet
           /\ RefsKnown(req.q, req.refs) /\ SubjectKnown(req.q, req.refs, req.s)
           /\ req.pc = "wide" => None \in Scopes
           /\ req.pc \notin RowReads =>
                req = [pc |-> req.pc, q |-> req.q, token |-> req.token, p |-> req.p,
                       refs |-> req.refs, s |-> req.s]

\* A switch that a request has found on was on at some moment of it.
SwitchesSeen ==
  /\ seen \subseteq AllConditions
  /\ req.pc \in {"app", "agentref"} /\ req.tenantStatus = "active" => "tenant" \in seen
  /\ req.pc = "agentref" /\ req.appStatus = "active" => "application" \in seen
  /\ req.pc = "grant" =>
       /\ req.refs.tenantStatus = "active" => "tenant" \in seen
       /\ req.refs.appStatus = "active" => "application" \in seen
  /\ req.pc \in {"grant"} \union SubjectSet =>
       (~ req.refs.agentMissing /\ req.refs.agentStatus = "active" => "agent" \in seen)
  /\ req.pc \in SubjectSet =>
       {"tenant", "application"} \subseteq seen /\ (req.refs.agentMissing \/ "grant" \in seen)
  /\ req.pc \in MemberFound => "membership" \in seen
  /\ req.pc \in AgentKnown => {"agent", "grant"} \subseteq seen
  /\ req.pc \in {"alinks", "aoverrides", "aperms", "mask"} /\ req.p \in req.user =>
       "permission" \in seen

\* A request that no write overlaps holds what one snapshot of the tables has.
Linked(q, s) == UNION {memberRoles[m] : m \in EligibleMemberships(q.tenant, q.app, s.user)}

Snapshot(r) ==
  /\ r.pc \in {"app", "agentref"} => r.tenantStatus = tenants[r.q.tenant]
  /\ r.pc = "agentref" => r.appStatus = apps[r.q.app]
  /\ r.pc \in {"grant"} \union SubjectSet => r.refs = ResolveReferences(r.q)
  /\ r.pc \in SubjectSet =>
       /\ r.s = ApplyDelegation(r.q, r.refs, Verified(r.token), DelegationRequired)
       /\ DelegationDeny(r.refs, r.s) = Ok /\ Inactive(r.refs) = Ok
  /\ r.pc = "wide" => memberships[MembershipRow(r.q.tenant, r.q.app, r.s.user)] = "absent"
  /\ r.pc = "agent" => r.q.type = "agent" /\ MembershipActive(r.q, r.refs, r.s)
  /\ r.pc \in AgentKnown => SubjectReason(r.q, r.refs, r.s) = Ok
  /\ r.pc = "ulinks" => r.rows = EligibleMemberships(r.q.tenant, r.q.app, r.s.user)
  /\ r.pc = "uoverrides" => r.rows = Linked(r.q, r.s)
  /\ r.pc = "uperms" => r.rows = EffectiveRoles(r.q.tenant, Linked(r.q, r.s))
  /\ r.pc \in {"alinks", "aoverrides", "aperms"} =>
       /\ r.q.type = "agent"
       /\ r.user = ResolveUserPermissions(r.q.tenant, r.q.app, r.s.user)
  /\ r.pc = "aoverrides" => r.rows = agentRoles[r.s.agent]
  /\ r.pc = "aperms" => r.rows = EffectiveRoles(r.q.tenant, agentRoles[r.s.agent])
  /\ r.pc = "mask" => r.user = SubjectPermissions(r.q, r.s)
  /\ r.pc = "done" =>
       r.reason = AuthorizeEndpoint(
         r.q, Prepared(r.q, Verified(r.token), DelegationRequired), r.p, {})

SnapshotHeld == writes = began => Snapshot(req)

DecisionInv ==
  /\ RequestOK /\ SwitchesSeen /\ KillSwitchesHold
  /\ SnapshotHeld
  /\ grantStatus \in {"active", "ended"} /\ began \in Nat /\ began <= writes
=============================================================================
