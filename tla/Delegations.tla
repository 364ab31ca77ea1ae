----------------------------- MODULE Delegations -----------------------------
(***************************************************************************)
(* Delegation grants: DelegationService (authzkit/security/delegations.py) *)
(* and the endpoints in front of it (authz_service/api/delegations.py).    *)
(*                                                                         *)
(* create_delegation reads agent, membership and effective permissions     *)
(* (checker.py, sqlalchemy.py), a snapshot for each SELECT, signs the      *)
(* token and then inserts the row; verify reads the published keys, the    *)
(* clock, the row and the clock again.  Administrative writes,             *)
(* revocations, key rotations and time act between any two of these.       *)
(*                                                                         *)
(* One tenant and application, and one membership row of each user (users  *)
(* with two are in DecisionRequest).  A grant is named after the request   *)
(* that issues it (its uuid is new).  Keys are what SigningKeys shows of   *)
(* them: published once, withdrawn at most once, and used for signing from *)
(* a cache that may be out of date.                                        *)
(***************************************************************************)
EXTENDS Integers, FiniteSets

CONSTANTS Users, Agents, Perms,
          Roles, Defaults,   \* Defaults: the application-wide ones, that a tenant may override
          Starts,    \* tables to start from
          Creates,   \* create_delegation requests, each made once
          Calls,     \* verifications: introspect, or a decision with a token
          Keys,      \* signing keys
          NoKey,     \* no key chosen yet
          Ttls,      \* lifetimes up to delegation_max_ttl_seconds
          Leeway,    \* leeway_seconds
          MaxClock,  \* bound on the clock
          MaxWrites  \* bound on administrative writes

Statuses == {"active", "disabled"}
Subjects == Users \union Agents
Switches == {"tenant", "application"} \union Subjects

\* What decides what an agent may do for a user.  status: of tenant, application,
\* memberships and agents; linked: roles of a membership or agent; stands: the
\* role that grants in the place of a role, its override or itself; carried:
\* active permissions of a role; unmasked: what the tenant's mask lets through.
Access == [status : [Switches -> Statuses], linked : [Subjects -> SUBSET Roles],
           stands : [Roles -> Roles], carried : [Roles -> SUBSET Perms],
           unmasked : SUBSET Perms]

ASSUME KeysAssumption == NoKey \notin Keys
ASSUME TimesAssumption == Ttls \subseteq Nat \ {0} /\ Leeway \in Nat /\ MaxClock \in Nat
ASSUME AccessAssumption == Defaults \subseteq Roles /\ Starts \subseteq Access /\ MaxWrites \in Nat

VARIABLES now,      \* the clock
          keys,     \* absent, published (active or retiring), withdrawn (revoked)
          access,   \* the tables behind effective_permissions
          writes,   \* administrative writes so far
          grants,   \* the table delegation_grants
          creates,  \* requests: where they are and what they know
          calls,    \* verifications under way
          seen      \* history: what held at some moment of each request

vars == <<now, keys, access, writes, grants, creates, calls, seen>>

NoRow   == [status |-> "absent"]
Row     == [status : {"active", "revoked"}, user : Users, agent : Agents,
            perms : SUBSET Perms, exp : Nat]
\* What effective_permissions has done, and where a request is.
Resolving == {"tenant", "application", "membership", "subject", "rows", "links", "roles", "granted"}
Running   == {"agent", "member", "available", "checked", "signed", "inserted"} \union Resolving
\* status: of the agent, as first read; turn, rows: whose roles are being read, and
\* which; perms: what was found to be available, then what is granted; kid, exp: of
\* the token.
Request == [pc : Running \union {"idle", "answered", "refused", "lost"},
            user : Users, agent : Agents, status : Statuses,
            turn : {"user", "agent"}, rows : SUBSET Roles, perms : SUBSET Perms,
            kid : Keys \union {NoKey}, exp : Nat]
\* at: when the row was read.
Call    == [pc : {"idle", "begun", "key", "decoded", "row", "done"},
            grant : Creates, at : Nat,
            outcome : {"none", "honoured", "invalid", "expired", "revoked"}]

-----------------------------------------------------------------------------
Init == /\ now = 0
        /\ keys = [k \in Keys |-> "absent"]
        /\ access \in Starts
        /\ writes = 0
        /\ grants = [c \in Creates |-> NoRow]
        /\ creates \in [Creates -> {[pc |-> "idle", user |-> u, agent |-> g, kid |-> NoKey,
                                     status |-> "disabled", turn |-> "user", rows |-> {},
                                     perms |-> {}, exp |-> 0] : u \in Users, g \in Agents}]
        /\ calls \in [Calls -> {[pc |-> "idle", grant |-> c, at |-> 0, outcome |-> "none"] :
                                c \in Creates}]
        /\ seen = [c \in Creates |-> {}]

\* What a SELECT of this moment could find.
Facts ==
  ({"on"} \X {x \in Switches : access.status[x] = "active"})
    \union {f \in {"linked"} \X Subjects \X Roles : f[3] \in access.linked[f[2]]}
    \union {f \in {"stands"} \X Roles \X Roles : f[3] = access.stands[f[2]]}
    \union {f \in {"carries"} \X Roles \X Perms : f[3] \in access.carried[f[2]]}
    \union ({"unmasked"} \X access.unmasked)

Observe ==
  seen' = [c \in Creates |-> IF creates[c].pc \in Running \/ creates'[c].pc \in Running
                             THEN seen[c] \union Facts' ELSE seen[c]]

-----------------------------------------------------------------------------
(* The surroundings *)

\* One transaction of an administrator; without a request that has yet to read
\* the tables it would be seen by nobody.
Write(a) ==
  /\ \E c \in Creates : creates[c].pc \in {"idle", "agent", "member"} \union Resolving
  /\ writes < MaxWrites /\ writes' = writes + 1
  /\ access' = a
  /\ UNCHANGED <<now, keys, grants, creates, calls>>

\* update_tenant, a catalog, create_membership, update_membership, create_agent,
\* apply_tenant_state; a missing row is refused like a disabled one.
SetStatus(x, status) == Write([access EXCEPT !.status[x] = status])

\* The roles of a membership or an agent: set_membership_roles, set_agent_roles,
\* apply_tenant_state.
SetLinks(s, roles) == Write([access EXCEPT !.linked[s] = roles])

\* Permissions of a role, or the end of a permission in the catalog.
SetCarried(r, perms) == Write([access EXCEPT !.carried[r] = perms])

\* A role of the tenant is named like an application-wide one,
AddOverride(r, o) ==
  /\ access.stands[r] = r /\ \A q \in Defaults : access.stands[q] # o
  /\ Write([access EXCEPT !.stands[r] = o])

\* and deleted, which hands its holders to that one.
DropOverride(r) ==
  LET o == access.stands[r] IN
  /\ o # r
  /\ Write([access EXCEPT
       !.stands[r] = r, !.carried[o] = {},
       !.linked = [s \in Subjects |-> IF o \in access.linked[s]
                                      THEN {r} \union (access.linked[s] \ {o})
                                      ELSE access.linked[s]]])

\* set_tenant_permission_mask: deleted and written in one transaction.
SetMask(perms) == Write([access EXCEPT !.unmasked = perms])

\* generate_if_missing and rotate.
PublishKey(k) ==
  /\ keys[k] = "absent"
  /\ keys' = [keys EXCEPT ![k] = "published"]
  /\ UNCHANGED <<now, access, writes, grants, creates, calls>>

\* prune_retiring: an active key remains.
WithdrawKey(k) ==
  /\ keys[k] = "published"
  /\ \E j \in Keys \ {k} : keys[j] = "published"
  /\ keys' = [keys EXCEPT ![k] = "withdrawn"]
  /\ UNCHANGED <<now, access, writes, grants, creates, calls>>

Tick ==
  /\ now < MaxClock
  /\ now' = now + 1
  /\ UNCHANGED <<keys, access, writes, grants, creates, calls>>

-----------------------------------------------------------------------------
(* create_delegation *)

Proceed(c, r) ==
  /\ creates' = [creates EXCEPT ![c] = r]
  /\ UNCHANGED <<now, keys, access, writes, calls>>

\* store.get_agent: its status is looked at after the membership was read.
CreateReadAgent(c) ==
  /\ creates[c].pc = "idle"
  /\ Proceed(c, [creates[c] EXCEPT !.pc = "agent", !.status = access.status[creates[c].agent]])
  /\ UNCHANGED grants

\* Mutation: the status of the agent is not looked at.
CreateReadMemberOnly(c) ==
  LET ok == access.status[creates[c].user] = "active" IN
  /\ creates[c].pc = "agent"
  /\ Proceed(c, [creates[c] EXCEPT !.pc = IF ok THEN "member" ELSE "refused"])
  /\ UNCHANGED grants

\* is_user_membership_active, then agent.status: 409 if either is not active.
CreateReadMember(c) ==
  LET ok == access.status[creates[c].user] = "active" /\ creates[c].status = "active" IN
  /\ creates[c].pc = "agent"
  /\ Proceed(c, [creates[c] EXCEPT !.pc = IF ok THEN "member" ELSE "refused"])
  /\ UNCHANGED grants

\* ttl_seconds above delegation_max_ttl_seconds: 400.
CreateTtlTooLong(c) ==
  /\ creates[c].pc = "member"
  /\ Proceed(c, [creates[c] EXCEPT !.pc = "refused"])
  /\ UNCHANGED grants

(* effective_permissions, a SELECT at a time *)

\* A switch that is off leaves nothing available.
Check(c, pc, x, next) ==
  /\ creates[c].pc = pc
  /\ Proceed(c, [creates[c] EXCEPT !.pc = IF access.status[x] = "active" THEN next
                                          ELSE "available"])
  /\ UNCHANGED grants

\* _inactive, then _membership_active and _agent_active, asked for again.
CreateReadTenant(c)      == Check(c, "member", "tenant", "tenant")
CreateReadApplication(c) == Check(c, "tenant", "application", "application")
CreateReadMembership(c)  == Check(c, "application", creates[c].user, "membership")
CreateReadSubject(c)     == Check(c, "membership", creates[c].agent, "subject")

\* resolve_user_permissions looks for active memberships first,
CreateReadRows(c)        == Check(c, "subject", creates[c].user, "rows")

\* then, like resolve_agent_permissions, at the roles of the subject,
Acting(r) == IF r.turn = "user" THEN r.user ELSE r.agent

CreateReadLinks(c) ==
  LET r == creates[c] IN
  /\ r.pc = "rows"
  /\ Proceed(c, [r EXCEPT !.pc = "links",
                          !.rows = access.linked[Acting(r)]])
  /\ UNCHANGED grants

\* their overrides in the tenant,
CreateReadOverrides(c) ==
  /\ creates[c].pc = "links"
  /\ Proceed(c, [creates[c] EXCEPT !.pc = "roles",
                                   !.rows = {access.stands[r] : r \in creates[c].rows}])
  /\ UNCHANGED grants

\* and what these grant: the user's permissions, of which the agent's are left.
CreateReadPermissions(c) ==
  LET r == creates[c]
      found == UNION {access.carried[o] : o \in r.rows}
  IN
  /\ r.pc = "roles"
  /\ Proceed(c, IF r.turn = "user"
                THEN [r EXCEPT !.pc = "rows", !.turn = "agent", !.rows = {}, !.perms = found]
                ELSE [r EXCEPT !.pc = "granted", !.rows = {}, !.perms = @ \intersect found])
  /\ UNCHANGED grants

\* resolve_tenant_permissions
CreateReadMask(c) ==
  /\ creates[c].pc = "granted"
  /\ Proceed(c, [creates[c] EXCEPT !.pc = "available", !.perms = @ \intersect access.unmasked])
  /\ UNCHANGED grants

\* The requested permissions, by default all of them, must be available: 403.
CreateAsk(c, requested) ==
  LET ok == requested \subseteq creates[c].perms IN
  /\ creates[c].pc = "available"
  /\ Proceed(c, [creates[c] EXCEPT !.pc = IF ok THEN "checked" ELSE "refused",
                                   !.perms = IF ok THEN requested ELSE {}])
  /\ UNCHANGED grants

\* issue: the clock, then _sign with the key that this process believes active.
CreateSign(c, k, ttl) ==
  /\ creates[c].pc = "checked"
  /\ keys[k] # "absent"
  /\ Proceed(c, [creates[c] EXCEPT !.pc = "signed", !.kid = k, !.exp = now + ttl])
  /\ UNCHANGED grants

\* SigningKeyError: 503, except on SQLite, where generate_if_missing
\* (PublishKey) runs and issue is called again (CreateSign).
CreateSignFails(c) ==
  /\ creates[c].pc = "checked"
  /\ \A k \in Keys : keys[k] = "absent"
  /\ Proceed(c, [creates[c] EXCEPT !.pc = "refused"])
  /\ UNCHANGED grants

RowOf(r) == [status |-> "active", user |-> r.user, agent |-> r.agent, perms |-> r.perms,
             exp |-> r.exp]

CreateInsert(c) ==
  /\ creates[c].pc = "signed"
  /\ grants' = [grants EXCEPT ![c] = RowOf(creates[c])]
  /\ Proceed(c, [creates[c] EXCEPT !.pc = "inserted"])

\* 201 with the token, which is out from here on.
CreateAnswer(c) ==
  /\ creates[c].pc = "inserted"
  /\ Proceed(c, [creates[c] EXCEPT !.pc = "answered"])
  /\ UNCHANGED grants

\* A database error or the end of the process, before or after the insert.
CreateLost(c) ==
  /\ creates[c].pc \in Running
  /\ Proceed(c, [creates[c] EXCEPT !.pc = "lost"])
  /\ UNCHANGED grants

-----------------------------------------------------------------------------
(* Revocation *)

\* revoke: reads the row, writes it unless it is revoked, which no other write
\* undoes.
Revoke(c) ==
  /\ grants[c].status # "absent"
  /\ grants' = [grants EXCEPT ![c].status = "revoked"]
  /\ UNCHANGED <<now, keys, access, writes, creates, calls>>

\* revoke_matching, the kill switch: the active grants of the tenant, of the
\* user if one is named, of the agent if one is named.
RevokeMatching(us, gs) ==
  /\ grants' = [c \in Creates |->
       IF grants[c].status = "active" /\ grants[c].user \in us /\ grants[c].agent \in gs
       THEN [grants[c] EXCEPT !.status = "revoked"] ELSE grants[c]]
  /\ UNCHANGED <<now, keys, access, writes, creates, calls>>

-----------------------------------------------------------------------------
(* verify *)

Turn(v, pc, outcome) ==
  /\ calls' = [calls EXCEPT ![v].pc = pc, ![v].outcome = outcome]
  /\ UNCHANGED <<now, keys, access, writes, grants, creates>>

Token(v) == creates[calls[v].grant]

\* The token of an answered request is presented.
VerifyBegin(v) ==
  /\ calls[v].pc = "idle"
  /\ Token(v).pc = "answered"
  /\ Turn(v, "begun", "none")

\* all_public_jwks
VerifyKey(v) ==
  /\ calls[v].pc = "begun"
  /\ IF keys[Token(v).kid] = "published" THEN Turn(v, "key", "none")
     ELSE Turn(v, "done", "invalid")

\* Mutation: the leeway shortens the lifetime.
ExpiredEarly(exp) == exp <= now + Leeway

\* jwt.decode: exp with leeway.
Expired(exp) == exp <= now - Leeway

VerifyDecode(v) ==
  /\ calls[v].pc = "key"
  /\ IF Expired(Token(v).exp) THEN Turn(v, "done", "expired") ELSE Turn(v, "decoded", "none")

\* self.get: the row, and its status.
VerifyRead(v) ==
  LET row == grants[calls[v].grant] IN
  /\ calls[v].pc = "decoded"
  /\ calls' = [calls EXCEPT ![v] =
       [grant |-> calls[v].grant, at |-> now,
        pc |-> IF row.status = "active" THEN "row" ELSE "done",
        outcome |-> CASE row.status = "absent" -> "invalid"
                      [] row.status = "revoked" -> "revoked"
                      [] OTHER -> "none"]]
  /\ UNCHANGED <<now, keys, access, writes, grants, creates>>

Matches(r, row) == r.user = row.user /\ r.agent = row.agent /\ r.perms = row.perms

\* Mutation: the row gets the leeway too.
LapsedLate(exp) == exp <= now - Leeway

\* expires_at against the clock, then the claims against the row, all of it
\* as read: only the status of a row ever changes.
Lapsed(exp) == exp <= now

VerifyRow(v) ==
  LET row == grants[calls[v].grant] IN
  /\ calls[v].pc = "row"
  /\ Turn(v, "done", IF Lapsed(row.exp) THEN "expired"
                     ELSE IF Matches(Token(v), row) THEN "honoured" ELSE "invalid")

-----------------------------------------------------------------------------
Resolve(c) ==
  \/ CreateReadTenant(c) \/ CreateReadApplication(c) \/ CreateReadMembership(c)
  \/ CreateReadSubject(c) \/ CreateReadRows(c) \/ CreateReadLinks(c)
  \/ CreateReadOverrides(c) \/ CreateReadPermissions(c) \/ CreateReadMask(c)

Create(c) ==
  \/ CreateReadAgent(c) \/ CreateReadMember(c) \/ CreateTtlTooLong(c) \/ Resolve(c)
  \/ CreateSignFails(c) \/ CreateInsert(c) \/ CreateAnswer(c) \/ CreateLost(c)
  \/ \E requested \in SUBSET Perms : CreateAsk(c, requested)
  \/ \E k \in Keys, ttl \in Ttls : CreateSign(c, k, ttl)

Verify(v) == VerifyBegin(v) \/ VerifyKey(v) \/ VerifyDecode(v) \/ VerifyRead(v) \/ VerifyRow(v)

Administration ==
  \/ \E x \in Switches, st \in Statuses : SetStatus(x, st)
  \/ \E s \in Subjects, rs \in SUBSET Roles : SetLinks(s, rs)
  \/ \E r \in Roles, ps \in SUBSET Perms : SetCarried(r, ps)
  \/ \E r \in Defaults : \E o \in Roles \ Defaults : AddOverride(r, o)
  \/ \E r \in Defaults : DropOverride(r)
  \/ \E ps \in SUBSET Perms : SetMask(ps)

Surroundings ==
  \/ Administration
  \/ \E k \in Keys : PublishKey(k) \/ WithdrawKey(k)
  \/ Tick

Revocation ==
  \/ \E c \in Creates : Revoke(c)
  \/ \E us \in {Users} \union {{u} : u \in Users}, gs \in {Agents} \union {{g} : g \in Agents} :
       RevokeMatching(us, gs)

Next == /\ \/ \E c \in Creates : Create(c)
           \/ \E v \in Calls : Verify(v)
           \/ Surroundings \/ Revocation
        /\ Observe

Spec == Init /\ [][Next]_vars

-----------------------------------------------------------------------------
(* Properties *)

TypeOK == /\ now \in Nat
          /\ keys \in [Keys -> {"absent", "published", "withdrawn"}]
          /\ access \in Access /\ writes \in Nat
          /\ grants \in [Creates -> Row \union {NoRow}]
          /\ creates \in [Creates -> Request]
          /\ calls \in [Calls -> Call]
          /\ seen = [c \in Creates |-> seen[c]]

Standing(c) == grants[c].status = "active" /\ grants[c].exp > now

\* "An inactive user or agent gets no grant", "a grant can only narrow": every
\* row is warranted by what held at moments of the request that made it.
\* Membership and agent were active, and each permission was one that a role
\* linked to the user, and a role linked to the agent, stood for and carried,
\* in a tenant and application that were active and with a mask that lets it
\* through: no order of a dozen reads and the writes between them delegates what
\* was switched off or taken away before the request and stayed so.  The moments
\* may differ, so that user and agent need never have shared the permission.
GrantedTo(facts, s, p) ==
  \E r, o \in Roles : {<<"linked", s, r>>, <<"stands", r, o>>, <<"carries", o, p>>} \subseteq facts

Warranted(facts, r, p) ==
  /\ {<<"on", "tenant">>, <<"on", "application">>, <<"unmasked", p>>} \subseteq facts
  /\ GrantedTo(facts, r.user, p) /\ GrantedTo(facts, r.agent, p)

BothOn(facts, r) == {<<"on", r.user>>, <<"on", r.agent>>} \subseteq facts

GrantsWarranted ==
  \A c \in Creates : grants[c].status # "absent" =>
    /\ BothOn(seen[c], creates[c])
    /\ \A p \in grants[c].perms : Warranted(seen[c], creates[c], p)

\* A token that was handed out is refused only if its grant is over or its key
\* withdrawn: no order of sign, insert, rotation and clock refuses it earlier.
RefusalsJustified ==
  \A v \in Calls : calls[v].outcome \in {"invalid", "expired", "revoked"} =>
    ~ Standing(calls[v].grant) \/ keys[Token(v).kid] = "withdrawn"

\* The contract of GrantContract: a grant stands while its row is active and
\* not expired, a call is confirmed by reading it standing.
StateOf(c) == IF grants[c].status = "absent" THEN "none"
              ELSE IF Standing(c) THEN "standing" ELSE "over"
UseOf(v) ==
  [grant |-> calls[v].grant,
   state |-> CASE calls[v].pc = "idle" -> "idle"
               [] calls[v].pc = "done" ->
                    IF calls[v].outcome = "honoured" THEN "honoured" ELSE "refused"
               [] calls[v].pc = "row" /\ grants[calls[v].grant].exp > calls[v].at -> "confirmed"
               [] OTHER -> "open"]

Contract == INSTANCE GrantContract WITH
              Grants <- Creates,
              standing <- [c \in Creates |-> StateOf(c)],
              uses <- [v \in Calls |-> UseOf(v)]

\* verify honours a token only if the grant stood at some moment of the call,
\* and a revoked or expired grant never stands again.
ImplementsContract == Contract!ContractSpec

(* What makes them inductive. *)

\* A row is the row its request signed the token for; the key that signed it
\* has been published; before the insert there is no row.
RowsSound ==
  \A c \in Creates :
    /\ creates[c].pc \in {"inserted", "answered"} => grants[c].status # "absent"
    /\ creates[c].pc \in {"signed", "inserted", "answered"} =>
         creates[c].kid \in Keys /\ keys[creates[c].kid] # "absent"
    /\ grants[c].status # "absent" =>
         /\ creates[c].pc \in {"inserted", "answered", "lost"}
         /\ Matches(creates[c], grants[c]) /\ grants[c].exp = creates[c].exp

\* What a request has found so far held at moments since it began.
Checked(r, facts) ==
  /\ r.pc \in {"idle", "agent", "member", "tenant", "application", "membership", "subject"} =>
       r.perms = {}
  /\ r.pc = "agent" /\ r.status = "active" => <<"on", r.agent>> \in facts
  /\ r.pc \in {"member", "available", "checked", "signed"} \union Resolving => BothOn(facts, r)
  /\ r.pc \in Resolving => <<"on", "tenant">> \in facts
  /\ r.pc \in Resolving \ {"tenant"} => <<"on", "application">> \in facts
  /\ r.pc = "links" => \A q \in r.rows : <<"linked", Acting(r), q>> \in facts
  /\ r.pc = "roles" => \A o \in r.rows : \E q \in Roles :
                         {<<"linked", Acting(r), q>>, <<"stands", q, o>>} \subseteq facts
  /\ r.pc \in {"rows", "links", "roles"} /\ r.turn = "agent" =>
       \A p \in r.perms : GrantedTo(facts, r.user, p)
  /\ r.pc = "granted" =>
       \A p \in r.perms : GrantedTo(facts, r.user, p) /\ GrantedTo(facts, r.agent, p)
  /\ r.pc \in {"available", "checked", "signed"} => \A p \in r.perms : Warranted(facts, r, p)

ChecksSeen == \A c \in Creates : Checked(creates[c], seen[c])

\* A call presents a token that was handed out, and read the row in the past.
CallsSound ==
  \A v \in Calls :
    /\ calls[v].pc # "idle" => Token(v).pc = "answered"
    /\ calls[v].pc # "done" => calls[v].outcome = "none"
    /\ calls[v].at <= now

DelegationInv == /\ TypeOK /\ RowsSound /\ ChecksSeen /\ CallsSound
                 /\ GrantsWarranted /\ RefusalsJustified
=============================================================================
