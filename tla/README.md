# A TLA+ model of authz

authz is a multi-tenant authorization service. Applications ask it over HTTP
whether a user, or an agent acting for a user, may perform an action;
administrators and applications maintain tenants, roles, permissions,
memberships, agents, invitations and delegation grants in one SQL database.
Several service processes and command-line invocations share that database.

This directory models the parts of the service whose correctness depends on the
order of things: TLC checks the models on small instances, TLAPS proves the main
invariants for instances of any size. `PROJECT.json` lists the components, the
runs, the source lines behind every definition, the hazards and the theorems.

    tlc -workers 2 -config MCSigningKeys.cfg MCSigningKeys
    tlapm KeysProofs.tla

## Inventory

| Component | State | Operations | What is hard | What must hold |
|---|---|---|---|---|
| Signing keys (`security/signing_keys.py`, `oauth_janitor.py`, `cli.py`) | `oauth_signing_keys`; a cached key per process | sign, generate, rotate, prune | processes with caches of their own, overlapping rotations, crashes | one active key; a token verifies until it expires |
| RBAC tables (`storage/sqlalchemy.py`, `storage/orm.py`, `api/*.py`) | tenants, applications, permissions, roles, memberships, agents, three link tables, masks | REST writes, catalog, tenant state, role overrides | long sequences of writes, default roles and their overrides | links stay within tenant and application; names mean the same through every link |
| Decisions (`rbac/checker.py`, `api/authorize.py`, `references.py`) | none of its own | authorize, bulk-authorize, effective-permissions, the library's agent context | four codings of one ladder; a dozen reads at different moments | they agree; kill switches hold; grants only to the entitled |
| Delegation grants (`security/delegations.py`, `api/delegations.py`) | `delegation_grants`; tokens outside | create, verify, revoke, kill switch | a grant created while its subjects are switched off | a revoked or expired grant is worth nothing |
| Invitations (`security/invitations.py`, `api/invitations.py`) | `invitations`, `memberships` | create, accept, revoke, expire | three transactions, a compensation, racing requests | a token is accepted once |
| Admin login (`security/sessions.py`, `api/oauth.py`) | login attempts, sessions | login, callback, lookup, logout, prune | two callbacks for one attempt, expiry, logout during a lookup | an attempt is used once; an ended session admits nobody |
| API keys, OAuth clients (`security/api_keys.py`, `security/oauth_clients.py`) | two tables | issue, authenticate, rotate, revoke | a use during rotation or revocation | a revoked credential opens nothing |
| Caller authentication (`dependencies.py`, `security/principal.py`, `api/oauth.py`) | access tokens outside | credential order, dev bypass, scopes, tenant binding, token endpoint | combinations of scopes and pins; the bypass beside new keys | nobody acts beyond a written grant |
| Foreign tokens (`identity/jwt_validation.py`, `security/oauth_resource.py`) | a resolver built on first use, a JWKS cache per resolver | validate, fetch, refetch | the issuer rotates; threads fetch at the same time | a withdrawn key fades; a published one is found |
| Middleware (`middleware.py`, `main.py`) | replay store, sliding windows | dispatch | lost answers, retries, requests that overlap, evictions | an answer is replayed to its own request only; the limit is exact |
| Management (`management.py`, `api/applications.py`) | `applications.managed_by` | claim, release, guard | guard read before the write | nobody takes an application from its manager |
| Users and identities (`tenancy/resolver.py`, `api/context.py`) | users, identities, mappings | resolve, provision | two first logins; a context from many transactions | one identity, one user; contexts are not made up |
| SDK (`authz_sdk/client.py`, `authz_sdk/agent_session.py`, `agents/guard.py`) | permission cache; snapshots in guards | get, put, evict, invalidate, retry, require | threads without a lock; answers that arrive after an invalidation | stale for no longer than the TTL; critical actions are asked again |
| In-memory store (`storage/memory.py`) | dictionaries | the reads of the SQL store | a second implementation of the same rules | it agrees with the SQL store |
| ABAC (`policies/`) | rules | evaluate | operators and missing attributes | a condition that cannot be evaluated refuses |
| Audit (`audit_retention.py`) | `audit_log` | write, prune | a worker beside writers | nothing younger than the retention is lost |
| UI, migrations, metrics, SDKs in other languages | | | | |

The components meet in the database. A decision reads the RBAC tables and the
grant row; the grant's token was signed by the key service; an accepted
invitation writes a membership; provisioning rewrites what the REST endpoints
wrote one row at a time. A resolved context names a user, a tenant and a membership
that the same endpoints write under the guard of the application's manager. In front
of every handler stand the caller's retries, the replay store and the rate limiter;
behind the SDK's cache stands the whole service. There are no messages between
processes and no lock above a database transaction.

## Modules

### SigningKeys, MCSigningKeys, KeysProofs

State: `keys` (the table), `cached` (`SigningKeyService._cached` of each
process), `signer` and `rotator` (what a thread inside `sign()` or `rotate()`
holds between two database accesses), `tokens` (unexpired tokens handed out) and
`now`. `sign()` is `SignCached`, or `SignLoad` followed by `SignStore`,
`SignFail` or `Generate`. `rotate()` is `RotateSelect` (the snapshot of the
`SELECT ... FOR UPDATE`), `RotateLock` (the lock and the re-check of the row that
READ COMMITTED makes), `RotateCommit` or `RotateConflict` (the partial unique
index) and `RotateClear` (the cache of this process only). `PruneRetiring` is the
janitor, `Restart` a process that stops at any point.

The key supplied through the environment is not modelled: with it no row is
ever written. All hosts read one clock.

### RbacStore, MCRbacStore, AuthorizationProofs

State: one variable per table. Rows are identified by their unique key, so a
role is `[tenant, app, name]` with `None` for NULL. Each administrative write is
one action and one transaction, as in the code; `update_membership` uses a
transaction for the status and one for the roles, and is two actions. The
section "Reads" holds the queries of the decision engine. The internal role of
an agent ("agent:<name>") is a role with the agent's name.

Left out: the `ManagementGuard` in front of the handlers (it is in `Directory`);
duplicate application-wide roles, which the unique constraints admit because NULLs
differ (duplicate memberships are in `Directory`); concurrent calls of
`_replace_links` on one row.

### MemoryStore, AuthorizationProofs

The reads of `InMemoryStore` as operators on the same tables, coded as the
dictionaries are walked: `FindAssignableRoles` is the result of the loop over the roles
in the order of insertion, which is a parameter (`KeepRole` says which rows the loop
writes under their name; the last one written there stays); `EffectiveRoleIds` looks for the override of
each linked role; permissions are collected membership by membership. `StoresAgree`,
checked in the run `rbac`, compares every read with the query of `SqlAlchemyStore` in
every database that writes lead to, role names for every order of the dictionary.

### Engine, MCEngine, AuthorizationProofs

No state of its own: the decision algorithms as operators over the tables.
`EngineAuthorize`, `EngineBulk` and `EngineEffective` follow the three ladders of
`checker.py`; `ResolveReferences`, `ApplyDelegation` and the `...Endpoint`
operators follow what stands in front of them. ABAC conditions enter as the set
of permissions they refuse. Tenant binding of the caller
(`enforce_tenant_scope_binding`) is not part of the model. `AgentContext` is the
fourth coding, the library's `AgentContextResolver`: it agrees with the service for
agents without grant in an active application, and only there, because it never looks
at the application.

### DecisionRequest, MCDecisionRequest, AuthorizationProofs

Composes `Engine` with time: one `/v1/authorize` request whose SELECTs are steps
(`ReadTenant` ... `ReadMask`), between which any write of `RbacStore`, or the end
of the grant, may commit. `seen` and `began` are history variables: which
conditions held at some moment of the request, and how many writes came before it. The database starts as provisioning leaves it
(`Provisioned`: default roles, members and agents that hold them, no overrides and no
masks; bound to an application or tenant-wide), so that all writes can fall into the
request. The service opens a session per repository
call and the databases give every statement a snapshot of its own.

### Delegations, GrantContract, MCDelegations, DelegationsProofs

State: `grants` (the table), `creates` (requests to `create_delegation`, and the
token each ends with), `calls` (verifications), `now`, and what surrounds them:
`access` (the tables behind `effective_permissions`: statuses, role links, overrides,
permissions of roles, mask) and `keys`. `create_delegation` is `CreateReadAgent`,
`CreateReadMember`, then `Resolve`, `CreateAsk` (the requested permissions against what
was found), `CreateSign`, `CreateInsert`, `CreateAnswer`, with a refusal at each check and
`CreateLost` between any two. `Resolve` is `effective_permissions` with a step for every
SELECT: tenant, application, membership, agent (`Check`: one that is off ends it with
nothing available), then for the user and again for the agent the links, their overrides
and the permissions, and last the mask. Between any two of them `Administration` may
write: a status, links, permissions of a role, an override or its end, the mask, each as
the one transaction it is in the code. `verify` is `VerifyKey`,
`VerifyDecode`, `VerifyRead`, `VerifyRow`. `Revoke` and `RevokeMatching` are one
transaction each. A grant is named after the request that issues it, because its
uuid is new. Of the key service only what `SigningKeys` establishes is used: a key
is published and withdrawn at most once each, one stays published, and a process
may sign with any key that was ever published. `seen` is a history variable: the facts
(a switch is on, a role is linked, stands for another, carries a permission, the mask lets
one through) that held at some moment of a request, from its first read on.

A user has one membership row here, in the one tenant and application; a user with two
is in `DecisionRequest`. A write after the last request has read the tables is left out,
because nobody would see it.

`GrantContract` is what the service promises, without tokens, keys, rows and clocks:
a grant stands until it is over for good, and a call is honoured only if the grant
stood at some moment of the call. `ImplementsContract` maps a row to "standing"
while it is active and not expired, and a call to "confirmed" once it has read the
row standing. A kill switch ends the grants it finds; a request already past its
checks may insert another one afterwards, which the contract admits.

### Invitations, MCInvitations, InvitationsProofs

State: `invites`, `due` (deadlines passed), `memberships` with the request that
made each, `reqs` (accept requests). `accept()` is `AcceptRead`, then
`AcceptExpire`, `AcceptClaim` (the conditional UPDATE) or `AcceptLost`, then
`AcceptCreate`, `AcceptConflict`, `AcceptError` or `AcceptAckLost`, then
`AcceptRevert` or `AcceptRevertFails`; `Crash` ends a request anywhere. `Faults`
selects what may go wrong. One tenant, one application; the user is taken as
provisioned when the request starts.

### AdminSessions, MCAdminSessions, AdminSessionsProofs

State: `attempts` and `sessions` (the tables), `codes` (what the identity provider
handed out), `callbacks`, `requests` (with a session cookie) and `now`. A login
attempt stands for what belongs to it: cookie, state, nonce and PKCE verifier; a
session is named after the callback that creates it. `oidc_login` is `Login`,
`Authorize` the provider, and the callback is `CallbackBegin`, `ConsumeSelect`
(`SELECT ... FOR UPDATE`), `ConsumeDelete`, `Exchange`, `CreateSession`, any of which
may be the last (`CallbackLost`). A request is `RequestBegin`, `LookupRead`,
`LookupDelete` or `LookupCommit`, then `Serve` or `Logout`. `Prune` is the janitor. A
code may be presented with the cookie of another login. Of the id token only the kind
of its claims matters: whether they map to the admin scope.

`RowLocks` says whether the database locks the selected row. The run and
`AttemptsAreUsedOnce` have it TRUE, as in PostgreSQL. With FALSE (SQLite: a SELECT
takes no lock, and a DELETE that finds no row is only a warning) two callbacks can
both consume an attempt; `SessionsEarned` holds either way, because the provider
redeems a code once.

### Credentials, MCCredentials, CredentialsProofs

State: `keys` and `clients` (the tables), `tokens` (access tokens handed out),
`workers` (one request after the other, with what it has read), `settings` and `now`.
A request comes in (`Begin`), meets the bypass and the kind of its credential
(`Enter`), is looked up (`FindKey` or `Authenticate` for the SELECT, `FindCommit` for
the commit of `last_used_at`; `ResolveToken`) and acts: `Runtime`, the writes of an
administrator, or `IssueToken` for the client of a secret. `rotate()` is `RotateRead`
and `RotateIssue`, two sessions. What a request asks for is chosen when it is let in;
nothing reads it earlier. The command line writes clients without asking
(`CliClient`).

The scope "tenant:<id>" is written as the tenant. History: `granted` is every
authority an administrator wrote; `ended` says that the credential was over when the
request came in; `shut` that there has been an active key ever since. Two things the
code does on purpose or not and the model shows: rotating a revoked or expired key
makes a fresh key without deadline, and when the last key is revoked in dev mode, the
bypass opens again. Signing keys that are withdrawn, rate limits and database errors
are `Fail`. Tokens of foreign issuers are in `JwksCache`.

### JwksCache, MCJwksCache, KeysProofs

State: `published` (the key set of each issuer), `resolver` (`_jwt_resolver`), `caches`
(the `_jwks_cache` of the resolver a thread built), `threads`, `monotonic`. A request is
`Begin`, `Build` when it finds no resolver (two threads may build one each, the last
assignment wins and the cache of the other is lost), `Get` (the cache entry), `Clock`,
`Fetch` (the issuer answers, or fails), `Put`, `Match` (the kid; the first miss empties
the entry and starts again) and `Decode`. `Rotate` publishes and withdraws kids.
History: `gone` (when a kid was withdrawn), `steady` (the key was published during the
whole call), `rival` (somebody else filled the cache with an older answer between the
two looks), `since` (when the cache was last consulted). Discovery is part of the
fetch; the validator of the administrators' identity provider is built and used alike.

### RequestFront, MCRequestFront, RequestPathProofs

State: `senders` (callers' threads with their attempts), `reqs` (requests as the service
sees them), `store` (`_MemoryIdempotencyStore`), `buckets` (`_SlidingWindowLimiter`),
`monotonic`. A caller sends, gives up on a lost answer and sends again, up to `max_retries`,
or is answered; what it gave up on goes on in the service. A request is `GetStored`
(replay or on), `Allow` (429 or on), `Handle` and `Store`, the order in which
`create_app` nests the middlewares: the answer of the limiter passes through the
idempotency middleware and is stored like any other answer below 500. Between two
awaits the event loop runs one request: a step. History: `admitted`, `puts`, and on
each request what was known when it came in. `Popped` is what the `popleft` loop takes
from a bucket. Of several entries that expire together the code evicts the first of the
dictionary; `Put` evicts any of them, and `Known` counts the keys put since the same
moment, so that nothing depends on the tie. The Redis backends are not modelled.

### ClientCache, MCClientCache, RequestPathProofs

State: `truth` (what the service would answer), `cache` and `order` (the `OrderedDict`),
`threads` (each with a call under way and the guard of its agent session), `now`.
Each operation on the dictionary is a step: `Lookup`, `Found` (expiry, `move_to_end`,
which raises when another thread has evicted the key), `Serve`, `Fail`, `Reject` and
`Receive` (an attempt of the request), `Insert`, `Settle` (`move_to_end`), `Size` and
`Evict` (a put and its loop: the condition, and a `popitem` that takes whatever is oldest
by then), `Invalidate` (the list of keys) and `Drop` (key by key). `Require` is `AgentGuard.require`
with or without revalidation. `Change` is the service changing its mind. History: when a
set was worked out and put, and which invalidations found an entry.

### Directory, MCDirectory, DirectoryProofs

State: `manager` and whether the application exists, `users`, `identities`, `members`
(rows with ids, so that duplicates without an application can exist), `tenants`,
`workers`, and the settings of a start (`Starts`: auto-provisioning, a tenant mapping). A
request is a sequence of transactions: the read of the guard (`FindApp`, `FindRow`), then
the conditional UPDATE of `Claim` and what follows it (`Claimed`), `Release`, or the write
of a catalog, tenant state, membership or patch (`PatchStatus`, `PatchRoles`); for a
context `FindUser`, `Upsert` and `Insert`, `FindTenant`, `FindSingle`, `FindSole`,
`FindMember`, `FindWide`, and `resolve_user_permissions` as `ReadRows` (the active rows)
and `ReadLinks` (the roles linked to them by then). `was`, `held` and `may` are history:
what held at some moment of the request. One application. The two SELECTs that follow the
links, of the overrides and of the permissions, are left out: they read no table of this
module, and `DecisionRequest` and `Delegations` take them step by step; a context
here keeps the roles that its permissions come from. So is the list of role names that an
answer carries. A tenant state is one step, its users included, as it is one transaction;
it lists one member, with the status and roles it is given, or fails with nothing changed
(an unknown name, or a row that another transaction inserted first).

## Runs

| Run | Shows |
|---|---|
| `signing_keys` | exactly one active key, grace period, lifecycle, with 2 processes, 3 keys, 4 moments |
| `rbac` | links, overrides and resolved permissions with 2 tenants, application-bound and tenant-wide rows; both stores read them alike |
| `engine` | the three endpoints and the library agree and grant exactly to the entitled, with delegation required or not |
| `decision_request` | kill switches and quiet requests, read by read |
| `delegations` | rows rest on what held during their request, read by read, refusals have a cause, and the service implements `GrantContract`, with 2 writes, 2 keys, leeway 1, 3 moments |
| `invitations` | a token is accepted once, the row names who got the membership, claims resolve, with 2 requests and all faults |
| `admin_sessions` | an attempt is used once, sessions are earned, ended sessions admit nobody and stay deleted, expired rows go, with 2 logins, 2 callbacks, 1 code |
| `credentials` | ended credentials, the bypass, grants and revocations, with 2 keys, a client with 2 secrets, 2 requests at a time |
| `jwks_cache` | withdrawn keys fade, published ones are found, with 2 threads, 2 kids, a rotation |
| `request_front` | the limit is exact, an answer that is due is not worked out again and is replayed to its own request only, with 2 callers, 3 requests, a store of 1 entry |
| `client_cache` | answers no older than the TTL, invalidations that hold, critical actions asked again, a bounded cache, with 2 threads and room for 1 entry |
| `directory` | one user per identity, contexts whose parts all held, management that is not taken over, with 2 requests at a time, 3 in all, from 5 databases |

### Bounds, and why they are enough

- Keys: 3 keys and 2 processes are what a rotation during a rotation needs (the
  old key and one new key each). A lifetime of 1 and a clock up to 3 let a key be
  demoted, outlive its grace period of 2 and be pruned.
- RBAC: `MaxWrites` bounds the number of administrative writes. 2 tenants, and
  rows with and without an application, are what a link can cross; the proofs
  cover any number of applications. A permission, role, override,
  membership and its removal fit into the bound because the catalog and the
  tenant state write several rows at once.
- Decisions: from a provisioned database, 2 writes interfere with the request: one
  that undoes a condition and one that restores it, or an override made and removed.
- Delegations: one request and one call are enough for the interleavings, because a
  call writes nothing and requests meet only in the kill switch. 2 writes between the
  reads are one that takes away and one that gives, so that user and agent hold the
  permission at different moments only, or an override made and removed; user and agent
  start with the role or without. 2 keys let one be withdrawn; a lifetime of 1 under a
  leeway of 1 and a clock up to 2 put the clock before, between and after `expires_at`
  and the last moment of the claim. 1,455,876 states. The proofs cover any number.
- Invitations: 2 requests allow a winner and a loser, or a failed attempt and its
  retry after the revert; the proofs cover any number of requests.

- Admin sessions: one code suffices, because it may belong to either login and may be
  presented by both callbacks; one request meets every write to its session.
- Credentials: one request acts while the other is being looked up; 2 keys are a key
  and its rotation; deadline 0, lifetime 0 and leeway 1 under a clock of 2 moments put
  `expires_at` in the past and a token on its last moment. The grants are an
  administrator and a credential pinned to one tenant that owns the scope of another.
  Keys and workers are symmetric. The proofs cover any number and any grants.
- Foreign tokens: 2 threads are a fetch and its rival; a TTL of 1 and a rotation put
  the withdrawal before, at and after the end of the entry; 3 calls let one fill the
  cache, one meet the unknown kid and one run beside it. A token of a second issuer with
  the same kid, and one of an issuer that is not configured, are presented too.
- Front: 3 requests are a first one, its retry and one of another credential; a store
  of 1 entry is full after the first; a limit of 1 in a window of 1, under a clock of 3
  moments, puts requests on both edges of the window.
- Client: 2 keys and room for 1 make every put of the second evict; a TTL of 2 lets an
  entry be used and reused before it ends. Threads and tenants are symmetric. 3,644,333
  states.
- Directory: the 5 databases are nothing, a bound member, a member disabled in the
  application and active in the tenant, a member of two tenants, and two tenant-wide rows;
  3 requests and a tenant switched off let two writes fall into a context, or one patch
  that disables a row and gives it a role between the two SELECTs of its permissions.
  2,182,490 states.

Where the system may stop (bounded writes, requests made once) the configuration
turns the deadlock check off.

### Fairness

`FairSpec` of `Invitations` has weak fairness on `Step(r)`: a handler thread that
has started runs to its answer. Crashes and failed reverts stay possible, and
`ClaimsResolve` excuses exactly the requests they hit. `FairSpec` of `AdminSessions`
has weak fairness on `CallbackStep(b)`, for the same reason, and on `Prune`: the loop
of the janitor catches every exception and goes on. Nothing else is assumed to happen:
not the acceptance of an invitation, not a deadline, not a logout.

## What does not hold

The models show where documents, comments or tests say more than the code does. None of
it is a property of a run; the properties are the strongest statements that do hold.

Keys and grants:

- A process signs with its cached key after another process or the command line has
  rotated (`signing_keys.py:130`), until it restarts or rotates itself; once the key is pruned, those
  tokens stop verifying, though "previously-issued tokens keep validating until they
  expire" (`signing_keys.py:15`).
- The grace period is twice the lifetime of an access token (`main.py:331`), and
  delegation tokens may live longer; "even the longest in-flight token had time to
  expire" (`signing_keys.py:303`).
- The second of two overlapping rotations fails instead of rotating the new key
  (`RotateConflict`; `signing_keys.py:252`).

Decisions:

- An override deleted between two SELECTs of a request refuses a holder who is entitled
  before, during and after it (`sqlalchemy.py:800`; `:1549`: "holders of it keep the
  default role").
- A decision put together from reads at several moments can be a grant that no single
  moment allowed (`checker.py:268` speaks of "this exact moment").
- The same goes for the grants of `create_delegation`: when the user loses a permission
  after its SELECT and the agent gains it before its own, the row carries what the agent
  could do for this user at no moment. "What the agent may do for this user right now — a
  grant can only narrow it" (`api/delegations.py:201`) is true of each fact a grant rests
  on; `GrantsWarranted` says that, and not that the facts held together.
- `revoke_matching` reaches the rows that exist: a grant that is inserted just after the
  kill switch stands.
- A context may carry a permission that was granted at no moment of the call: a row is
  active without roles when `resolve_user_permissions` selects it, one PATCH disables it
  and gives it a role, and the SELECT of links finds that role (`sqlalchemy.py:781`,
  `:795`). `ContextsHold` therefore asks that row, link and tenant each held at some moment.
- `AgentContextResolver` ignores the status of the application, which every endpoint
  checks.
- `resolve-context` gives a tenant-wide member no permissions (`rbac/resolver.py:17`),
  though the engine grants them; it ignores the status of application and user.

Invitations and logins:

- The compensation of a failed accept writes by primary key (`invitations.py:170`) and
  can reopen an invitation that was revoked meanwhile, which is then accepted
  (`tests/integration/test_invitations.py:148` expects it refused).
- An error after the membership was committed reverts the claim, and a retry buys a
  second membership with a "one-time token" (`AcceptAckLost`, `AcceptRevert`);
  `TokenSpentOnce` therefore speaks of answered requests.
- A crash between `AcceptClaim` and `AcceptCreate` leaves an accepted invitation without
  membership (`docs/rbac.md:136`: "creates the membership atomically");
  `AcceptedMeansMember` names that case.
- A disabled member who accepts runs into `AcceptConflict` and is not activated
  (`invitations.py:10`: "Creates / activates").
- Without row locks an attempt can be consumed twice (`sessions.py:139` calls that
  equivalent).

Front, caches, directory:

- A 429, like every answer below 500, is stored under the Idempotency-Key and replayed
  after its Retry-After has passed. `docs/service.md:190` names the header
  X-Idempotency-Key; the code reads Idempotency-Key.
- The token endpoint calls the limiter from threads of the pool, and `now` is read before
  the lock is taken: timestamps may enter a bucket out of order. The model has the
  middleware's calls only, which come from the event loop.
- An unknown kid empties the issuer's entry before the refetch: when that fails, good
  keys are lost until the next fetch, and a rival fetch may refill the old set
  (`RefusalsHaveCause` excuses that; `docs/identity.md:80` does not).
- `cache_invalidate` takes out the entries it finds: an answer that is under way is put
  afterwards and served for the TTL (`InvalidationHolds` speaks of the entries found).
- The SDK retries `create_delegation` after a lost answer without an Idempotency-Key, and
  a second grant is made.
- The loser of two concurrent first logins gets an error and must ask again.
- Of two first calls of a catalog, the second writes into the application that the first
  created; a guarded write may land after another caller's claim. `ManagementIsExclusive`
  therefore speaks of some moment of the call.
- Two tenant-wide memberships of one user make suspending one of them ineffective.

The properties of the passing runs are the strongest versions that do hold: for
instance `InFlightTokensVerify` restricts the promise to tokens signed at most one
lifetime after the demotion of their key and no longer-lived than an access
token, and `KillSwitchesHold` says that what was off during the whole request is
honoured.

## Proofs

Every theorem is for any values of the constants.

- `KeysProofs`, on `SigningKeys`. `KeyInv` adds to the type invariant and `ExactlyOneActive`:
  `LocksProtect` (a row locked by a rotation is active and locked by no other
  one, which is why a commit leaves exactly one active key), `GraceElapsed` (a
  revoked key has been demoted for two lifetimes) and `KeysExist` (caches, threads
  and tokens name committed rows). `GraceSuffices` follows by arithmetic: issued at
  most one lifetime after the demotion, and living at most one, a token is
  expired when its key is revoked. `KeysMoveForward` is the action property.
  On `JwksCache`, `JwksInv` says of every cache entry that the issuer published its keys
  until the entry began or later (`RowOK`), and of every thread: what it has in hand was
  published when the entry began or when the issuer answered (`Fading`), and on its
  second look a thread with a steady key finds it or an empty entry, unless a rival
  came between (`Finding`). `KeysFade` and `SteadyKeysFound` are its last cases. They
  hold for a TTL of 0 too, where a key may be accepted at the very moment of its
  withdrawal.
- `AuthorizationProofs`: the tables, the engine and the request that reads them.
  `RbacInv` is the type invariant with `LinksStayInScope`,
  which is inductive as it stands; there is a lemma per write, and lemmas on what
  `_assignable_roles`, `_active_permissions` and `_role_by_name` return.
  `UsersFollowNames` and `AgentsFollowNames` derive from it that the queries over links,
  overrides and agent roles compute the meaning of role names;
  `OverridesReleaseHolders` is the action property. `StoresReadAlike` compares the two
  stores: a name has at most the tenant's role and the application-wide one, so the loop
  ends with the former in any order (`LoopAssigns`); overrides are unique, so the first
  one found is the one the query joins (`EffectiveAsWalked`). `EntryPoints` and
  `AllowsTheEntitled` are about the ladders of `Engine` on one snapshot: the lemmas
  say rung by rung what references, grant and switches leave of a request, and that
  each ladder ends in the same condition, in every database of `RbacInv`.
  `DecisionInv` takes the ladder apart in time: `RequestOK` (what a request has
  resolved fits its references), `SwitchesSeen` (each check it has passed held at
  some moment since it began: the history `seen`), and `SnapshotHeld` (as long as no
  write came since `began`, what it has read is what the database says). `SwitchesHold`
  follows from the second, because a refusing switch that stayed off was never seen on;
  `QuietRequestsMatch` from the third with the theorems on the engine.
- `InvitationsProofs`. `InviteInv` adds `RequestsSound` (a request that holds the
  claim is the user the row names), `MakersFinished` (a row was inserted by a
  request past its insert) and `RedeemedForGood` (an invitation whose accept was
  answered with success is neither pending nor claimed). All faults are allowed:
  what an unanswered request left behind is told apart by `Answered`.
  `AcceptedAreMembers` needs `LostAreDone` besides: a request that crashed or could not
  revert stays lost, so the excuse that it gives its invitation is never taken back.
- `DelegationsProofs`. `DelegationInv` adds `RowsSound` (a row is what the token of its
  request says, and the key that signed it was published), `ChecksSeen` (what a
  request has found by each of its reads, switch, links, overrides, permissions or mask,
  held at some moment since it began: the history `seen` only grows, so no later write
  takes any of it away) and `CallsSound` (a call presents a token handed out, and read
  the row in the past). `GrantsKeepContract` is
  a simulation: each step maps to a step of the contract or a stutter, because a row
  only moves from active to revoked, `expires_at` never moves and the clock never
  runs back.

- `AdminSessionsProofs`. `LoginInv` adds `LocksHold` (a row that a callback has
  selected is locked by it alone, and still there when it deletes), `CallbacksSound`
  (who got past the attempt or the exchange did so with what belongs together) and
  `RequestsSound` (a session that is over when the request comes in stays over). Sessions
  and attempts are named once and only move forward.
- `CredentialsProofs`. `CredentialInv` adds `RowsGranted` (every row carries an
  authority somebody wrote, every token one within such an authority) and
  `WorkerSound` (what each request relies on). The argument is `Progress`: rows are
  never deleted, a status only moves to "revoked", deadlines and grants stay and the
  clock does not run back, so that what a request has read may be outdated but a
  credential that was over is over (`OverStays`), and a request that takes no step
  keeps what it relies on (`OthersKept`). One lemma per action.
- `DirectoryProofs`. `DirectoryInv` is `TablesOK` (types; the users are those of the
  identities, one each) and `WorkerOK` of every request: `Placed` (where it is fits what
  it asks for), `UserFound` (the user it has read is the one of its identity, which
  never changes once there is one), `Evidence` (tenant, membership and permissions it
  has collected were so at some moment since it began: the history `was`), `Watching`
  (who is under way has noticed what holds now) and `Guarded` (past the guard it
  managed the application, or found it free, at some moment). One lemma per action says
  what the step does to its own request, and one for all of them that requests which
  take no step keep what they rely on, because facts are only added to `was`.
  `ManagementHolds` is an action property: the UPDATE of a claim is conditional on
  `managed_by`, and a release only sets it to NULL.
- `RequestPathProofs`, on `ClientCache`. `CacheInv` adds to the types `AnswersDated` (every answer, on its
  way, in the cache or given, was so when the service worked it out or has changed
  since, and expires the TTL after it was put), `DoomedAreDue` (an entry that an
  invalidation found is still on its list), `RevalidationsHeld` (a thread that
  revalidates knows whether the permission was granted meanwhile) and `OthersFit` (each
  key has one place in the order, and without the keys being put the cache fits).
  `CacheBounded` is not inductive: a key that two threads put at once counts once in
  the cache and twice among the threads, so the invariant counts the keys that nobody
  is putting. `NextThread`, `NextCache` and `NextOrder` say what a step of a thread has
  to see to; `StepEnough` that this is enough; and there is a lemma per action.
  On `RequestFront`, `FrontInv` ties the state to the histories. `LimiterInv`: the log of
  requests let through is sorted and any two that are `Limit` apart are a window apart
  (`Logged`); a bucket is the end of that log, and what it lacks has left the window
  (`Suffix`); the wait promised to a refused request is the time until the oldest of the
  last `Limit` leaves (`Promised`). `LimiterExact` follows by counting (`WindowHolds`).
  `ReplayInv`: the store holds one entry per key and no more than it may; each entry is
  the answer of a request with its key (`Stocked`); and whatever was put is expired,
  displaced by as many keys as the store holds, or still there (`Held`). An eviction
  keeps that, because everything that stays expires no sooner, so was put no earlier
  (`EvictedDisplaced`, by the pigeonhole principle). `AnswersOnce` follows because an
  answer that is due is found (`DueIsHeld`). Where an argument needs the first or last
  place of a sequence, `LastStep` gives it: counting up within a bounded set of numbers
  must stop, again by the pigeonhole principle, which takes the place of induction.

Assumptions are the named ASSUMEs of the modules: NULL (`None`) and what no row has
(`Unknown`, an id that was never issued) are no values of a column, the clock, lifetimes
and bounds are natural numbers, role names and agent names are disjoint, a database at
the start satisfies the constraints of its schema (`StartsAssumption`), a process has
finitely many threads (`ThreadsAssumption`), tokens and operations are records of their
fields (`TokensAssumption`, `OpsAssumption`), and limit, window and size of the replay
store are positive (`LimitsAssumption`; a limit of 0 turns the limiter off). Lifetimes
may be 0.

Only model-checked: `ClaimsResolve` and `ExpiredRowsGo`, which are liveness under fairness
and beyond the prover. Every safety invariant and action property of the runs is a theorem.

The type invariants of the proved modules, `ClaimExclusive` and `PendingIsUnowned` are no
properties of runs: the proofs establish them for every instance.

## Not modelled

- ABAC (`policies/`): an interpreter of JSON expressions without state. Its result is an
  input of `Engine`, for every set of permissions it may refuse.
- Audit log and retention: inserts that the service never reads back, and one DELETE by
  age.
- Redis backends of the middleware: one script or command each, outside this code.
- Writes of the in-memory store, `authz_sdk/admin.py` and the other calls of the client:
  assignments and single requests.
- Feature flags; the race of two `_replace_links` on one row; duplicate application-wide
  roles.
- Admin UI, migrations, metrics, deployment, the SDKs in other languages.

## Plan

Proved is what the runs check. Open are three hazards without a property: an override
deleted between the two SELECTs of a resolution, the compensation of an accept after a
revocation, and two concurrent `_replace_links`. The first two are statements the code
does not keep ("What does not hold"); the third needs link rows as steps of their own in
`RbacStore`. Next in breadth would be the Redis backends and the writes of the in-memory
store.
