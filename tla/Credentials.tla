----------------------------- MODULE Credentials -----------------------------
(***************************************************************************)
(* API keys, OAuth clients and who a caller is: ApiKeyService (authzkit/   *)
(* security/api_keys.py), OAuthClientService (oauth_clients.py), the token  *)
(* endpoint (authz_service/api/oauth.py), require_caller and the scope and  *)
(* tenant checks behind it (authz_service/dependencies.py), JwtResolver for *)
(* tokens of this service (authzkit/security/oauth_resource.py).           *)
(*                                                                         *)
(* The scope "tenant:<id>" is written as the tenant.  Scope names contain  *)
(* no comma and no blank, so that storing and parsing a list of them loses  *)
(* nothing but order and duplicates: a set.  What a request asks for is    *)
(* chosen when it is let in; nothing looks at it before.  Session cookies  *)
(* are in AdminSessions.                                                   *)
(***************************************************************************)
EXTENDS Integers, FiniteSets

CONSTANTS Keys, Clients,   \* ids of rows, each used once
          Tenants, None,
          Workers,         \* threads, one request after the other
          Grants,          \* what administrators write: scopes and tenant
          Deadlines,       \* expires_at of new rows; None for never
          Settings,        \* [dev, env, sso]: dev mode, environment keys, OAuth or OIDC
          TokenTtl, Leeway,
          MaxSecrets, MaxTokens, MaxClock   \* bounds on secrets of a client, tokens, clock

Surfaces == {"admin", "runtime"}
Scopes == Surfaces \union {"other"} \union Tenants
Authority == [scopes : SUBSET Scopes, tenant : Tenants \union {None}]

ASSUME TenantAssumption ==
  None \notin Tenants /\ Tenants \intersect {"admin", "runtime", "other", "none", "token"} = {}
ASSUME GrantAssumption == Grants \subseteq Authority
ASSUME TimeAssumption ==
  /\ Deadlines \subseteq Nat \union {None} /\ None \notin Nat
  /\ TokenTtl \in Nat /\ Leeway \in Nat /\ MaxClock \in Nat /\ MaxSecrets \in Nat /\ MaxTokens \in Nat
ASSUME SettingsAssumption == Settings \subseteq [dev : BOOLEAN, env : BOOLEAN, sso : BOOLEAN]

VARIABLES now, settings,
          keys,      \* api_keys
          clients,   \* oauth_clients
          tokens,    \* access tokens handed out
          workers,   \* requests under way
          granted    \* every authority an administrator ever wrote down (history)

vars == <<now, settings, keys, clients, tokens, workers, granted>>

Nobody == [scopes |-> {}, tenant |-> None]
Admin == [scopes |-> {"admin"}, tenant |-> None]

Row == [status : {"none", "active", "revoked"}, who : Authority, exp : Nat \union {None}, secret : Nat]
NoRow == [status |-> "none", who |-> Nobody, exp |-> None, secret |-> 0]
NewRow(g, exp) == [status |-> "active", who |-> g, exp |-> exp, secret |-> 0]

Token == [who : Authority, exp : Nat]

Credential ==
  [kind : {"none", "env"}] \union [kind : {"key"}, key : Keys] \union
  [kind : {"secret"}, client : Clients, secret : Nat] \union [kind : {"token"}, token : Token]

\* who: the principal (while "found", what the row said); old: the key that is
\* being rotated; act: what was done, for which tenant.  History: ended, the
\* credential was over when the request came in; shut, in dev mode, there has been
\* an active API key at every moment since.
Worker ==
  [pc : {"idle", "begun", "entered", "found", "admitted", "rotating", "done"},
   cred : Credential, ended : BOOLEAN, shut : BOOLEAN, who : Authority, old : Authority,
   via : {"nothing", "bypass", "operator", "credential"},
   act : {"none", "admin", "token"} \union Tenants]

Idle ==
  [pc |-> "idle", cred |-> [kind |-> "none"], ended |-> FALSE, shut |-> FALSE,
   who |-> Nobody, old |-> Nobody, via |-> "nothing", act |-> "none"]

-----------------------------------------------------------------------------
(* Checks *)

\* expires < now
Lapsed(row) == row.exp # None /\ row.exp < now

\* find_active and authenticate, what is checked of the row
Usable(row) == row.status = "active" /\ ~ Lapsed(row)

\* The leeway of jwt.decode.
TokenLapsed(t) == t.exp + Leeway <= now

\* scope_allows, for the admin surface and for the runtime surface
AllowsAdmin(who) == "admin" \in who.scopes
AllowsRuntime(who) == "admin" \in who.scopes \/ "runtime" \in who.scopes \/ who.scopes \intersect Tenants # {}

TenantScopeMatches(who, t) == "admin" \in who.scopes \/ "runtime" \in who.scopes \/ t \in who.scopes

\* enforce_tenant_scope_binding
Bound(who, t) == who.tenant \in {None, t} /\ TenantScopeMatches(who, t)

\* Mutation: an expired key does not count.
HasAnyDbKeyFresh == \E k \in Keys : Usable(keys[k])

\* _has_any_db_key: expired keys count.
HasAnyDbKey == \E k \in Keys : keys[k].status = "active"

\* _dev_bypass_active
DevBypass == settings.dev /\ ~ settings.env /\ ~ HasAnyDbKey /\ ~ settings.sso

\* _map_scopes and _extract_tenant
MapScopes(scopes) == scopes \ {"other"}

Principal(t) ==
  [t.who EXCEPT !.scopes = IF t.who.tenant # None /\ MapScopes(@) = {}
                           THEN {t.who.tenant} ELSE MapScopes(@)]

-----------------------------------------------------------------------------
Init ==
  /\ now = 0
  /\ settings \in Settings
  /\ keys = [k \in Keys |-> NoRow]
  /\ clients = [c \in Clients |-> NoRow]
  /\ tokens = {}
  /\ workers = [w \in Workers |-> Idle]
  /\ granted = {}

Tick ==
  /\ now < MaxClock
  /\ now' = now + 1
  /\ UNCHANGED <<settings, keys, clients, tokens, workers, granted>>

-----------------------------------------------------------------------------
(* A request comes in and its caller is found *)

\* A caller presents what it was given.
Held(cred) ==
  /\ cred.kind = "env" => settings.env
  /\ cred.kind = "key" => keys[cred.key].status # "none"
  /\ cred.kind = "secret" => /\ settings.sso /\ clients[cred.client].status # "none"
                             /\ cred.secret <= clients[cred.client].secret
  /\ cred.kind = "token" => cred.token \in tokens

Over(cred) ==
  \/ cred.kind = "key" /\ ~ Usable(keys[cred.key])
  \/ /\ cred.kind = "secret"
     /\ ~ Usable(clients[cred.client]) \/ clients[cred.client].secret # cred.secret
  \/ cred.kind = "token" /\ TokenLapsed(cred.token)

Begin(w, cred) ==
  /\ workers[w].pc \in {"idle", "done"}
  /\ Held(cred)
  /\ workers' = [workers EXCEPT ![w] =
       [Idle EXCEPT !.pc = "begun", !.cred = cred, !.ended = Over(cred),
                    !.shut = settings.dev /\ \E k \in Keys : keys[k].status = "active"]]
  /\ UNCHANGED <<now, settings, keys, clients, tokens, granted>>

Admit(w, who, via) == workers' = [workers EXCEPT ![w] = [@ EXCEPT !.pc = "admitted", !.who = who, !.via = via]]
Refuse(w) == workers' = [workers EXCEPT ![w] = Idle]
Quiet == UNCHANGED <<now, settings, keys, clients, tokens, granted>>

\* require_caller: the bypass comes first, then the kind of credential.
Enter(w) ==
  /\ workers[w].pc = "begun" /\ workers[w].cred.kind # "secret"
  /\ IF DevBypass THEN Admit(w, Admin, "bypass")
     ELSE CASE workers[w].cred.kind = "none" -> Refuse(w)
            [] workers[w].cred.kind = "env"  -> Admit(w, Admin, "operator")
            [] OTHER -> workers' = [workers EXCEPT ![w].pc = "entered"]
  /\ Quiet

Find(w, row, ok) ==
  IF ok THEN workers' = [workers EXCEPT ![w] = [@ EXCEPT !.pc = "found", !.who = row.who]]
  ELSE Refuse(w)

\* ApiKeyService.find_active, the SELECT and the checks
FindKey(w) ==
  /\ workers[w].pc = "entered" /\ workers[w].cred.kind = "key"
  /\ LET row == keys[workers[w].cred.key] IN Find(w, row, Usable(row))
  /\ Quiet

\* Mutation: only the secret is compared.
AuthenticateSecretOnly(w) ==
  /\ workers[w].pc = "begun" /\ workers[w].cred.kind = "secret"
  /\ LET row == clients[workers[w].cred.client] IN Find(w, row, row.secret = workers[w].cred.secret)
  /\ Quiet

\* OAuthClientService.authenticate, the SELECT and the checks
Authenticate(w) ==
  /\ workers[w].pc = "begun" /\ workers[w].cred.kind = "secret"
  /\ LET row == clients[workers[w].cred.client]
     IN  Find(w, row, row.secret = workers[w].cred.secret /\ Usable(row))
  /\ Quiet

\* Mutation: the row is written back as it was read.
FindCommitMerge(w) ==
  /\ workers[w].pc = "found"
  /\ keys' = IF workers[w].cred.kind # "key" THEN keys
             ELSE [keys EXCEPT ![workers[w].cred.key].status = "active"]
  /\ Admit(w, workers[w].who, "credential")
  /\ UNCHANGED <<now, settings, clients, tokens, granted>>

\* Both: last_used_at, the only column that changed, is written; the record is
\* made from the row as it was read.
FindCommit(w) ==
  /\ workers[w].pc = "found"
  /\ Admit(w, workers[w].who, "credential")
  /\ Quiet

\* JwtResolver.resolve, for a token of this service whose key is published
ResolveToken(w) ==
  /\ workers[w].pc = "entered" /\ workers[w].cred.kind = "token"
  /\ IF TokenLapsed(workers[w].cred.token) THEN Refuse(w)
     ELSE Admit(w, Principal(workers[w].cred.token), "credential")
  /\ Quiet

\* A database error, a withdrawn signing key, the end of the process.
Fail(w) ==
  /\ workers[w].pc \in {"begun", "entered", "found", "admitted", "rotating"}
  /\ Refuse(w)
  /\ Quiet

-----------------------------------------------------------------------------
(* What an admitted request does.  The client of a secret is only at the token
   endpoint; everybody else is at the other ones. *)

Caller(w) == workers[w].pc = "admitted" /\ workers[w].cred.kind # "secret"

Done(w, act) ==
  [workers EXCEPT ![w] = [@ EXCEPT !.pc = "done", !.cred = Idle.cred, !.who = Nobody, !.old = Nobody, !.act = act]]

\* The four runtime endpoints: require_runtime, then the tenant of the request.
Runtime(w, t) ==
  /\ Caller(w)
  /\ IF AllowsRuntime(workers[w].who) /\ Bound(workers[w].who, t)
     THEN workers' = Done(w, t) ELSE Refuse(w)
  /\ Quiet

\* require_admin
Denied(w) ==
  /\ Caller(w) /\ ~ AllowsAdmin(workers[w].who)
  /\ Refuse(w)
  /\ Quiet

Administers(w) == Caller(w) /\ AllowsAdmin(workers[w].who)

IssueKey(w, k, g, exp) ==
  /\ Administers(w) /\ keys[k].status = "none"
  /\ keys' = [keys EXCEPT ![k] = NewRow(g, exp)]
  /\ granted' = granted \union {g}
  /\ workers' = Done(w, "admin")
  /\ UNCHANGED <<now, settings, clients, tokens>>

\* ApiKeyService.rotate: the old row, whatever its status and deadline
RotateRead(w, k) ==
  /\ Administers(w) /\ keys[k].status # "none"
  /\ workers' = [workers EXCEPT ![w] = [@ EXCEPT !.pc = "rotating", !.old = keys[k].who]]
  /\ Quiet

\* and then, in a session of its own, the new one, without a deadline
RotateIssue(w, k) ==
  /\ workers[w].pc = "rotating" /\ keys[k].status = "none"
  /\ keys' = [keys EXCEPT ![k] = NewRow(workers[w].old, None)]
  /\ workers' = Done(w, "admin")
  /\ UNCHANGED <<now, settings, clients, tokens, granted>>

\* Whether "shut" still holds for the others after the keys changed.
StillShut(ws) ==
  [w \in Workers |-> [ws[w] EXCEPT !.shut = @ /\ \E k \in Keys : keys'[k].status = "active"]]

RevokeKey(w, k) ==
  /\ Administers(w) /\ keys[k].status # "none"
  /\ keys' = [keys EXCEPT ![k].status = "revoked"]
  /\ workers' = StillShut(Done(w, "admin"))
  /\ UNCHANGED <<now, settings, clients, tokens, granted>>

\* OAuthClientService.issue, rotate_secret and revoke
Issue(c, g, exp) ==
  /\ clients[c].status = "none"
  /\ clients' = [clients EXCEPT ![c] = NewRow(g, exp)]
  /\ granted' = granted \union {g}

RotateSecret(c) ==
  /\ clients[c].status # "none" /\ clients[c].secret < MaxSecrets
  /\ clients' = [clients EXCEPT ![c].secret = @ + 1]
  /\ UNCHANGED granted

Revoke(c) ==
  /\ clients[c].status # "none"
  /\ clients' = [clients EXCEPT ![c].status = "revoked"]
  /\ UNCHANGED granted

ClientWrite(c) ==
  \/ \E g \in Grants, exp \in Deadlines : Issue(c, g, exp)
  \/ RotateSecret(c) \/ Revoke(c)

AdminClient(w, c) ==
  /\ Administers(w)
  /\ ClientWrite(c)
  /\ workers' = Done(w, "admin")
  /\ UNCHANGED <<now, settings, keys, tokens>>

\* The command line writes without asking; it gives no deadline.
CliClient(c) ==
  /\ (\E g \in Grants : Issue(c, g, None)) \/ RotateSecret(c) \/ Revoke(c)
  /\ UNCHANGED <<now, settings, keys, tokens, workers>>

-----------------------------------------------------------------------------
(* token_endpoint *)

\* _parse_scope_request: nothing asked for is everything owned.
ParseScopeRequest(scope, owned) == IF scope = {} THEN owned ELSE scope

InvalidScope(scope, who) ==
  \/ ~ scope \subseteq who.scopes
  \/ who.tenant # None /\ \E t \in ParseScopeRequest(scope, who.scopes) \intersect Tenants : t # who.tenant

\* Mutation: the claim tenant_id is left out.
ClaimsUnpinned(scope, who) ==
  [who |-> [scopes |-> ParseScopeRequest(scope, who.scopes) \union ({who.tenant} \ {None}),
            tenant |-> None],
   exp |-> now + TokenTtl]

Claims(scope, who) ==
  [who |-> [scopes |-> ParseScopeRequest(scope, who.scopes) \union ({who.tenant} \ {None}),
            tenant |-> who.tenant],
   exp |-> now + TokenTtl]

\* After authenticate; the rate limiter and the signer may refuse (Fail).
IssueToken(w, scope) ==
  /\ workers[w].pc = "admitted" /\ workers[w].cred.kind = "secret"
  /\ Cardinality(tokens) < MaxTokens
  /\ IF InvalidScope(scope, workers[w].who) THEN Refuse(w) /\ UNCHANGED tokens
     ELSE /\ tokens' = tokens \union {Claims(scope, workers[w].who)}
          /\ workers' = Done(w, "token")
  /\ UNCHANGED <<now, settings, keys, clients, granted>>

-----------------------------------------------------------------------------
Presented ==
  [kind : {"none", "env"}] \union [kind : {"key"}, key : Keys] \union
  [kind : {"secret"}, client : Clients, secret : 0 .. MaxSecrets] \union [kind : {"token"}, token : tokens]

Lookup(w) == Enter(w) \/ FindKey(w) \/ Authenticate(w) \/ FindCommit(w) \/ ResolveToken(w) \/ Fail(w)

Operate(w) ==
  \/ \E t \in Tenants : Runtime(w, t)
  \/ Denied(w)
  \/ \E k \in Keys, g \in Grants, exp \in Deadlines : IssueKey(w, k, g, exp)
  \/ \E k \in Keys : RotateRead(w, k) \/ RotateIssue(w, k) \/ RevokeKey(w, k)
  \/ \E c \in Clients : AdminClient(w, c)
  \/ \E scope \in SUBSET Scopes : IssueToken(w, scope)

Next ==
  \/ Tick
  \/ \E w \in Workers : Lookup(w) \/ Operate(w) \/ \E cred \in Presented : Begin(w, cred)
  \/ \E c \in Clients : CliClient(c)

Spec == Init /\ [][Next]_vars

-----------------------------------------------------------------------------
(* Properties *)

TypeOK ==
  /\ now \in Nat
  /\ settings \in Settings
  /\ keys \in [Keys -> Row]
  /\ clients \in [Clients -> Row]
  /\ tokens \subseteq Token
  /\ workers \in [Workers -> Worker]
  /\ granted \subseteq Authority

In(w) == workers[w].pc \in {"admitted", "rotating", "done"}

\* A request that comes in with a key, a client secret or a token that is
\* revoked, replaced or past its deadline is not let in by it, whatever the
\* requests, rotations and revocations around it do.
EndedOpensNothing ==
  \A w \in Workers : In(w) /\ workers[w].via = "credential" => ~ workers[w].ended

\* "dev mode auto-disables once a real key is provisioned": while there is an
\* active key, expired or not, nobody is let in without a credential.
BypassYields ==
  \A w \in Workers : workers[w].via = "bypass" =>
    ~ workers[w].shut /\ settings.dev /\ ~ settings.env /\ ~ settings.sso

\* What one authority may do at most: a pin holds against every scope.
Covers(g, t) == g.tenant = t \/ (g.tenant = None /\ TenantScopeMatches(g, t))

\* A request is served for a tenant, or administers, only on what some
\* administrator wrote down in so many words, or as the operator: rotations,
\* tokens, requested and implied scopes add nothing to it.
WithinGrant ==
  \A w \in Workers : workers[w].pc = "done" /\ workers[w].via = "credential" =>
    /\ \A t \in Tenants : workers[w].act = t => \E g \in granted : Covers(g, t)
    /\ workers[w].act = "admin" => \E g \in granted : "admin" \in g.scopes

\* Revoked keys and clients stay revoked, and a replaced secret does not come
\* back, although lookups commit rows they read before.
RevokedForGood ==
  [][/\ \A k \in Keys : keys[k].status = "revoked" => keys'[k].status = "revoked"
     /\ \A c \in Clients : /\ clients[c].status = "revoked" => clients'[c].status = "revoked"
                           /\ clients[c].status # "none" => clients'[c].secret >= clients[c].secret]_vars

(* What makes them inductive. *)

\* An authority that adds nothing to one an administrator wrote.
Within(who) ==
  \E g \in granted : who.tenant = g.tenant /\ who.scopes \subseteq g.scopes \union ({g.tenant} \ {None})

RowsGranted ==
  /\ \A k \in Keys : keys[k].status # "none" => keys[k].who \in granted
  /\ \A c \in Clients : clients[c].status # "none" => clients[c].who \in granted
  /\ \A t \in tokens : Within(t.who)

WorkerSound(x) ==
  /\ x.shut => \E k \in Keys : keys[k].status = "active"
  /\ x.via = "bypass" => ~ x.shut /\ settings.dev /\ ~ settings.env /\ ~ settings.sso
  /\ x.via # "nothing" => x.pc \in {"admitted", "rotating", "done"}
  /\ x.pc \notin {"idle", "done"} => Held(x.cred)
  /\ x.pc \in {"begun", "entered"} /\ x.ended => Over(x.cred)
  /\ x.pc = "found" \/ (x.pc \in {"admitted", "rotating"} /\ x.via = "credential") =>
       Within(x.who) /\ ~ x.ended
  /\ x.pc = "admitted" /\ x.cred.kind = "secret" => x.via = "credential"
  /\ x.pc = "rotating" => AllowsAdmin(x.who) /\ x.old \in granted
  /\ x.pc = "done" /\ x.via = "credential" =>
       /\ ~ x.ended
       /\ \A t \in Tenants : x.act = t => \E g \in granted : Covers(g, t)
       /\ x.act = "admin" => \E g \in granted : "admin" \in g.scopes

CredentialInv == TypeOK /\ RowsGranted /\ \A w \in Workers : WorkerSound(workers[w])
=============================================================================
