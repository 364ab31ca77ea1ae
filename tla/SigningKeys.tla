---------------------------- MODULE SigningKeys ----------------------------
(***************************************************************************)
(* The RSA keys of the Authorization Server: authzkit/security/            *)
(* signing_keys.py, its janitor (authz_service/oauth_janitor.py) and the   *)
(* signature check of the tokens it signs.                                 *)
(*                                                                         *)
(* Several service processes ("workers") share one oauth_signing_keys      *)
(* table.  Each has one SigningKeyService with a cached key (_cached), a   *)
(* thread that signs and a thread that rotates.  A CLI invocation is a     *)
(* worker that has just restarted.  Every database transaction is one      *)
(* step; what a thread keeps between two transactions is in signer and     *)
(* rotator.  All hosts read one clock.  The environment-supplied key       *)
(* (AUTHZ_OAUTH_SIGNING_KEY_PEM) never touches this table and is not       *)
(* modelled.                                                               *)
(***************************************************************************)
EXTENDS Integers, FiniteSets

CONSTANTS Keys,         \* the kids that _generate_rsa_keypair can return
          Workers,      \* service processes and CLI invocations
          NoKey,        \* None
          MaxTokenTtl,  \* oauth_access_token_ttl_seconds, given to the janitor
          Ttls,         \* the lifetimes tokens are signed with
          MaxTime,      \* bound on the clock
          MaxTokens     \* bound on the unexpired tokens kept at once

ASSUME KeysAssumption == NoKey \notin Keys
ASSUME TimeAssumption == /\ MaxTokenTtl \in Nat
                         /\ MaxTime \in Nat
                         /\ Ttls \subseteq Nat

VARIABLES keys,     \* the oauth_signing_keys table, one row per kid
          cached,   \* SigningKeyService._cached of each worker
          signer,   \* the thread of each worker inside sign()
          rotator,  \* the thread of each worker inside rotate()
          tokens,   \* the unexpired tokens ever handed out
          now       \* the clock

vars == <<keys, cached, signer, rotator, tokens, now>>

Times   == 0 .. MaxTime
Status  == {"absent", "active", "retiring", "revoked"}
Row     == [status : Status, rotatedAt : Times]
Token   == [kid : Keys, issued : Times, ttl : Ttls]
Rotator == [pc : {"idle", "selected", "locked", "committed", "failed"},
            key : Keys \union {NoKey}, at : Times]

IdleSigner  == [pc |-> "idle", key |-> NoKey, issued |-> 0, ttl |-> 0]
Signer      == {IdleSigner} \union [pc : {"loaded"}, key : Keys \union {NoKey},
                                    issued : Times, ttl : Ttls]
IdleRotator == [pc |-> "idle", key |-> NoKey, at |-> 0]

Expiry(t)  == t.issued + t.ttl
Expired(t) == Expiry(t) <= now

-----------------------------------------------------------------------------
(* The table *)

ActiveKeys == {k \in Keys : keys[k].status = "active"}

\* ORDER BY created_at DESC LIMIT 1 over the active rows.
LoadDbActive == IF ActiveKeys = {} THEN NoKey ELSE CHOOSE k \in ActiveKeys : TRUE

\* all_public_jwks: the kids a verifier accepts.
AllPublicJwks == {k \in Keys : keys[k].status \in {"active", "retiring"}}

\* The partial unique index on status = 'active' lets the row of k in.
InsertAllowed(k) == keys[k].status = "absent" /\ ActiveKeys = {}

-----------------------------------------------------------------------------
Init == /\ keys = [k \in Keys |-> [status |-> "absent", rotatedAt |-> 0]]
        /\ cached = [w \in Workers |-> NoKey]
        /\ signer = [w \in Workers |-> IdleSigner]
        /\ rotator = [w \in Workers |-> IdleRotator]
        /\ tokens = {}
        /\ now = 0

Emit(kid, issued, ttl) ==
  /\ Cardinality(tokens) < MaxTokens
  /\ tokens' = tokens \union {[kid |-> kid, issued |-> issued, ttl |-> ttl]}

\* sign() with a cached key: no database access.
SignCached(w, ttl) ==
  /\ signer[w].pc = "idle"
  /\ cached[w] # NoKey
  /\ Emit(cached[w], now, ttl)
  /\ UNCHANGED <<keys, cached, signer, rotator, now>>

\* sign() with an empty cache: the claims carry the time of the call; the
\* active row is read in a session of its own.
SignLoad(w, ttl) ==
  /\ signer[w].pc = "idle"
  /\ cached[w] = NoKey
  /\ signer' = [signer EXCEPT ![w] = [pc |-> "loaded", key |-> LoadDbActive,
                                      issued |-> now, ttl |-> ttl]]
  /\ UNCHANGED <<keys, cached, rotator, tokens, now>>

\* ... and the key read is cached and signs, whatever happened since.
SignStore(w) ==
  /\ signer[w].pc = "loaded"
  /\ signer[w].key # NoKey
  /\ cached' = [cached EXCEPT ![w] = signer[w].key]
  /\ Emit(signer[w].key, signer[w].issued, signer[w].ttl)
  /\ signer' = [signer EXCEPT ![w] = IdleSigner]
  /\ UNCHANGED <<keys, rotator, now>>

\* No row was active and the caller may not generate: SigningKeyError.
SignFail(w) ==
  /\ signer[w].pc = "loaded"
  /\ signer[w].key = NoKey
  /\ signer' = [signer EXCEPT ![w] = IdleSigner]
  /\ UNCHANGED <<keys, cached, rotator, tokens, now>>

\* No row was active and the caller may generate (dev mode on SQLite,
\* generate_if_missing): the INSERT succeeds and the new key is cached ...
Generate(w, k) ==
  /\ signer[w].pc = "loaded"
  /\ signer[w].key = NoKey
  /\ InsertAllowed(k)
  /\ keys' = [keys EXCEPT ![k].status = "active"]
  /\ cached' = [cached EXCEPT ![w] = k]
  /\ Emit(k, signer[w].issued, signer[w].ttl)
  /\ signer' = [signer EXCEPT ![w] = IdleSigner]
  /\ UNCHANGED <<rotator, now>>

\* ... or the unique index refuses it because another worker was faster, and
\* the request fails: for the state that is SignFail.

\* `authz oauth signing-key generate` inserts without looking first; it caches
\* nothing that outlives its process.
CliGenerate(k) ==
  /\ InsertAllowed(k)
  /\ keys' = [keys EXCEPT ![k].status = "active"]
  /\ UNCHANGED <<cached, signer, rotator, tokens, now>>

-----------------------------------------------------------------------------
(* rotate(): SELECT ... FOR UPDATE, demote, INSERT, COMMIT, clear the cache.
   The SELECT takes its READ COMMITTED snapshot when it starts, may then wait
   for the row lock, and re-checks status = 'active' once it has the lock. *)

LockHeld(k) ==
  \E w \in Workers : rotator[w].pc = "locked" /\ rotator[w].key = k /\ k # NoKey

RotateSelect(w) ==
  /\ rotator[w].pc = "idle"
  /\ rotator' = [rotator EXCEPT ![w] = [pc |-> "selected", key |-> LoadDbActive, at |-> 0]]
  /\ UNCHANGED <<keys, cached, signer, tokens, now>>

\* The row is locked and demoted in the open transaction, rotated_at = now;
\* or nothing is returned, because the row is no longer active.
RotateLock(w) ==
  LET k == rotator[w].key IN
  /\ rotator[w].pc = "selected"
  /\ ~ LockHeld(k)
  /\ rotator' = [rotator EXCEPT ![w] =
       [pc |-> "locked", key |-> IF k \in ActiveKeys THEN k ELSE NoKey, at |-> now]]
  /\ UNCHANGED <<keys, cached, signer, tokens, now>>

\* Mutation: without the partial unique index.
RotateCommitUnindexed(w, n) ==
  LET k == rotator[w].key IN
  /\ rotator[w].pc = "locked"
  /\ keys[n].status = "absent"
  /\ keys' = [x \in Keys |->
       IF x = n THEN [keys[n] EXCEPT !.status = "active"]
       ELSE IF x = k THEN [status |-> "retiring", rotatedAt |-> rotator[w].at]
       ELSE keys[x]]
  /\ rotator' = [rotator EXCEPT ![w] = [IdleRotator EXCEPT !.pc = "committed"]]
  /\ UNCHANGED <<cached, signer, tokens, now>>

\* The row of the new key n goes in and the transaction commits.
RotateCommit(w, n) ==
  LET k == rotator[w].key IN
  /\ rotator[w].pc = "locked"
  /\ keys[n].status = "absent"
  /\ ActiveKeys \subseteq {k}
  /\ keys' = [x \in Keys |->
       IF x = n THEN [keys[n] EXCEPT !.status = "active"]
       ELSE IF x = k THEN [status |-> "retiring", rotatedAt |-> rotator[w].at]
       ELSE keys[x]]
  /\ rotator' = [rotator EXCEPT ![w] = [IdleRotator EXCEPT !.pc = "committed"]]
  /\ UNCHANGED <<cached, signer, tokens, now>>

\* The unique index refuses the INSERT: the transaction rolls back and the
\* caller gets an error.
RotateConflict(w) ==
  /\ rotator[w].pc = "locked"
  /\ ~ ActiveKeys \subseteq {rotator[w].key}
  /\ rotator' = [rotator EXCEPT ![w] = [IdleRotator EXCEPT !.pc = "failed"]]
  /\ UNCHANGED <<keys, cached, signer, tokens, now>>

\* self._cached = None, in this process only.
RotateClear(w) ==
  /\ rotator[w].pc = "committed"
  /\ cached' = [cached EXCEPT ![w] = NoKey]
  /\ rotator' = [rotator EXCEPT ![w] = IdleRotator]
  /\ UNCHANGED <<keys, signer, tokens, now>>

\* The administrator sees the error and may rotate again.
RotateGiveUp(w) ==
  /\ rotator[w].pc = "failed"
  /\ rotator' = [rotator EXCEPT ![w] = IdleRotator]
  /\ UNCHANGED <<keys, cached, signer, tokens, now>>

-----------------------------------------------------------------------------
\* Mutations: one lifetime of grace only; every demoted or active key.
PrunableEarly(k) == /\ keys[k].status = "retiring"
                    /\ keys[k].rotatedAt + MaxTokenTtl <= now
PrunableActive(k) == /\ keys[k].status \in {"active", "retiring"}
                     /\ keys[k].rotatedAt + 2 * MaxTokenTtl <= now

\* prune_retiring: the janitor revokes what was demoted two lifetimes ago.
Prunable(k) == /\ keys[k].status = "retiring"
               /\ keys[k].rotatedAt + 2 * MaxTokenTtl <= now

PruneRetiring ==
  /\ \E k \in Keys : Prunable(k)
  /\ keys' = [k \in Keys |->
       IF Prunable(k) THEN [keys[k] EXCEPT !.status = "revoked"] ELSE keys[k]]
  /\ UNCHANGED <<cached, signer, rotator, tokens, now>>

\* A process stops and starts again; its open transaction rolls back.
Restart(w) ==
  /\ cached' = [cached EXCEPT ![w] = NoKey]
  /\ signer' = [signer EXCEPT ![w] = IdleSigner]
  /\ rotator' = [rotator EXCEPT ![w] = IdleRotator]
  /\ UNCHANGED <<keys, tokens, now>>

\* Time passes; expired tokens are forgotten.
Tick ==
  /\ now < MaxTime
  /\ now' = now + 1
  /\ tokens' = {t \in tokens : Expiry(t) > now + 1}
  /\ UNCHANGED <<keys, cached, signer, rotator>>

Next ==
  \/ \E w \in Workers, ttl \in Ttls : SignCached(w, ttl) \/ SignLoad(w, ttl)
  \/ \E w \in Workers : SignStore(w) \/ SignFail(w)
  \/ \E w \in Workers, k \in Keys : Generate(w, k) \/ RotateCommit(w, k)
  \/ \E k \in Keys : CliGenerate(k)
  \/ \E w \in Workers : RotateSelect(w) \/ RotateLock(w) \/ RotateConflict(w)
                        \/ RotateClear(w) \/ RotateGiveUp(w) \/ Restart(w)
  \/ PruneRetiring
  \/ Tick

Spec == Init /\ [][Next]_vars

-----------------------------------------------------------------------------
(* Properties *)

TypeOK == /\ keys \in [Keys -> Row]
          /\ cached \in [Workers -> Keys \union {NoKey}]
          /\ signer \in [Workers -> Signer]
          /\ rotator \in [Workers -> Rotator]
          /\ tokens \subseteq Token
          /\ now \in Times

\* Once the table holds a key exactly one row is active, whatever rotations,
\* bootstraps and crashes overlap: there is always a key to sign with, and
\* _load_db_active and rotate() never have to choose between two.
ExactlyOneActive ==
  (\E k \in Keys : keys[k].status # "absent") =>
     \E k \in Keys : ActiveKeys = {k}

\* The token was issued while its key was active or at most one lifetime
\* after the key was demoted, and lives no longer than an access token.
Timely(t) == /\ t.ttl <= MaxTokenTtl
             /\ \/ keys[t.kid].status = "active"
                \/ t.issued <= keys[t.kid].rotatedAt + MaxTokenTtl

\* The grace period of prune_retiring: a timely token can be verified against
\* the JWKS until the moment it expires, across any rotations and prunings.
InFlightTokensVerify ==
  \A t \in tokens : Timely(t) /\ ~ Expired(t) => t.kid \in AllPublicJwks

(* What makes the two invariants above inductive. *)

\* The SELECT FOR UPDATE lock: a row locked by a rotation stays active until
\* that rotation commits, and no other rotation has it.
LocksProtect ==
  \A v \in Workers : rotator[v].pc = "locked" /\ rotator[v].key # NoKey =>
    /\ keys[rotator[v].key].status = "active"
    /\ \A w \in Workers \ {v} :
         ~ (rotator[w].pc = "locked" /\ rotator[w].key = rotator[v].key)

\* A key is revoked only when its grace period is over.
GraceElapsed ==
  \A k \in Keys : keys[k].status = "revoked" => keys[k].rotatedAt + 2 * MaxTokenTtl <= now

\* No cache, thread or token names a key whose row was never committed.
KeysExist ==
  /\ \A w \in Workers : cached[w] # NoKey => keys[cached[w]].status # "absent"
  /\ \A w \in Workers : signer[w].key # NoKey => keys[signer[w].key].status # "absent"
  /\ \A t \in tokens : keys[t.kid].status # "absent"

KeyInv == TypeOK /\ ExactlyOneActive /\ LocksProtect /\ GraceElapsed /\ KeysExist

\* The only changes of a row: absent to active to retiring to revoked.  A
\* demoted key never signs again as the active one, and overlapping rotations
\* never move the rotated_at that its grace period is counted from.
RowStep(old, new) ==
  \/ new = old
  \/ old.status = "absent" /\ new.status = "active"
  \/ old.status = "active" /\ new.status = "retiring"
  \/ /\ old.status = "retiring" /\ new.status = "revoked"
     /\ new.rotatedAt = old.rotatedAt

KeyLifecycle == [][\A k \in Keys : RowStep(keys[k], keys'[k])]_vars
=============================================================================
