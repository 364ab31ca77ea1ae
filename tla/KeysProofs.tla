----------------------------- MODULE KeysProofs -----------------------------
(***************************************************************************)
(* Proofs about the keys that tokens are signed and validated with: the     *)
(* service's own (SigningKeys), for any number of workers and keys, any     *)
(* token lifetimes and any clock; and those of foreign issuers (JwksCache), *)
(* for any threads, issuers, kids and tokens, any TTL and any rotations.    *)
(***************************************************************************)
EXTENDS SigningKeys, JwksCache, TLAPS

USE KeysAssumption, TimeAssumption

(***************************************************************************)
(* Type correctness of the key service.                                    *)
(***************************************************************************)
\* The empty table, caches and threads of a first start are well formed.
LEMMA TypeInit == Init => TypeOK
  BY DEF Init, TypeOK, Row, Status, Times, Signer, Rotator, IdleSigner, IdleRotator

\* _load_db_active returns a row of the table or None.
LEMMA LoadDbActiveType == LoadDbActive \in Keys \union {NoKey}
  BY DEF LoadDbActive, ActiveKeys

\* No step of a worker, the CLI or the janitor leaves the types.
LEMMA TypeNext == TypeOK /\ [Next]_vars => TypeOK'
<1> SUFFICES ASSUME TypeOK, [Next]_vars PROVE TypeOK'
  OBVIOUS
<1> USE DEF TypeOK, Row, Status, Times, Token, Signer, IdleSigner
<1>1. ASSUME NEW w \in Workers, NEW ttl \in Ttls, SignCached(w, ttl) PROVE TypeOK'
  BY <1>1 DEF SignCached, Emit
<1>2. ASSUME NEW w \in Workers, NEW ttl \in Ttls, SignLoad(w, ttl) PROVE TypeOK'
  BY <1>2, LoadDbActiveType DEF SignLoad, Signer
<1>3. ASSUME NEW w \in Workers, SignStore(w) PROVE TypeOK'
  BY <1>3 DEF SignStore, Emit
<1>4. ASSUME NEW w \in Workers, SignFail(w) PROVE TypeOK'
  BY <1>4 DEF SignFail, Signer, IdleSigner
<1>5. ASSUME NEW w \in Workers, NEW k \in Keys, Generate(w, k) PROVE TypeOK'
  BY <1>5 DEF Generate, Emit, Signer, IdleSigner
<1>6. ASSUME NEW w \in Workers, NEW n \in Keys, RotateCommit(w, n) PROVE TypeOK'
  BY <1>6 DEF RotateCommit, Rotator, IdleRotator
<1>7. ASSUME NEW k \in Keys, CliGenerate(k) PROVE TypeOK'
  BY <1>7 DEF CliGenerate
<1>8. ASSUME NEW w \in Workers, RotateSelect(w) PROVE TypeOK'
  BY <1>8, LoadDbActiveType DEF RotateSelect, Rotator
<1>9. ASSUME NEW w \in Workers, RotateLock(w) PROVE TypeOK'
  BY <1>9 DEF RotateLock, Rotator
<1>10. ASSUME NEW w \in Workers, RotateConflict(w) PROVE TypeOK'
  BY <1>10 DEF RotateConflict, Rotator, IdleRotator
<1>11. ASSUME NEW w \in Workers, RotateClear(w) PROVE TypeOK'
  BY <1>11 DEF RotateClear, Rotator, IdleRotator
<1>12. ASSUME NEW w \in Workers, RotateGiveUp(w) PROVE TypeOK'
  BY <1>12 DEF RotateGiveUp, Rotator, IdleRotator
<1>13. ASSUME NEW w \in Workers, Restart(w) PROVE TypeOK'
  BY <1>13 DEF Restart, Rotator, IdleRotator, Signer, IdleSigner
<1>14. ASSUME PruneRetiring PROVE TypeOK'
  BY <1>14 DEF PruneRetiring
<1>15. ASSUME Tick PROVE TypeOK'
  BY <1>15 DEF Tick
<1>16. ASSUME UNCHANGED vars PROVE TypeOK'
  BY <1>16 DEF vars
<1> QED
  BY <1>1, <1>2, <1>3, <1>4, <1>5, <1>6, <1>7, <1>8, <1>9, <1>10, <1>11, <1>12,
     <1>13, <1>14, <1>15, <1>16 DEF Next

\* The state of the key service is always well formed: rows, caches, threads
\* and tokens only ever hold keys, times and phases that exist.
THEOREM TypeCorrect == Spec => []TypeOK
  BY TypeInit, TypeNext, PTL DEF Spec

(***************************************************************************)
(* The inductive invariant.                                                *)
(***************************************************************************)
\* The inductive invariant holds of the empty table.
LEMMA KeyInvInit == Init => KeyInv
  BY TypeInit DEF Init, KeyInv, ExactlyOneActive, LocksProtect, GraceElapsed,
     KeysExist, IdleRotator, IdleSigner

\* What a step may do to a row; KeyLifecycle and the rest follow from it.
LEMMA RowNext == KeyInv /\ [Next]_vars => \A k \in Keys : RowStep(keys[k], keys'[k])
<1> SUFFICES ASSUME KeyInv, [Next]_vars, NEW x \in Keys PROVE RowStep(keys[x], keys'[x])
  OBVIOUS
<1> USE DEF KeyInv, TypeOK, Row, Status, RowStep
<1>1. ASSUME NEW w \in Workers, NEW k \in Keys, Generate(w, k) PROVE RowStep(keys[x], keys'[x])
  BY <1>1 DEF Generate, InsertAllowed
<1>2. ASSUME NEW k \in Keys, CliGenerate(k) PROVE RowStep(keys[x], keys'[x])
  BY <1>2 DEF CliGenerate, InsertAllowed
<1>3. ASSUME NEW w \in Workers, NEW n \in Keys, RotateCommit(w, n) PROVE RowStep(keys[x], keys'[x])
  BY <1>3 DEF RotateCommit, LocksProtect
<1>4. ASSUME PruneRetiring PROVE RowStep(keys[x], keys'[x])
  BY <1>4 DEF PruneRetiring, Prunable
<1>5. ASSUME UNCHANGED keys PROVE RowStep(keys[x], keys'[x])
  BY <1>5
<1> QED
  BY <1>1, <1>2, <1>3, <1>4, <1>5 DEF Next, SignCached, SignLoad, SignStore, SignFail,
     RotateSelect, RotateLock, RotateConflict, RotateClear, RotateGiveUp, Restart, Tick, vars

\* The partial unique index and the demotion in the same transaction keep
\* exactly one row active.
LEMMA OneActiveNext == KeyInv /\ [Next]_vars => ExactlyOneActive'
<1> SUFFICES ASSUME KeyInv, [Next]_vars PROVE ExactlyOneActive'
  OBVIOUS
<1> USE DEF KeyInv, TypeOK, Row, Status, ExactlyOneActive, ActiveKeys
<1>1. ASSUME NEW w \in Workers, NEW k \in Keys, Generate(w, k) PROVE ExactlyOneActive'
  <2>1. ActiveKeys' = {k}
    BY <1>1 DEF Generate, InsertAllowed
  <2> QED BY <2>1
<1>2. ASSUME NEW k \in Keys, CliGenerate(k) PROVE ExactlyOneActive'
  <2>1. ActiveKeys' = {k}
    BY <1>2 DEF CliGenerate, InsertAllowed
  <2> QED BY <2>1
<1>3. ASSUME NEW w \in Workers, NEW n \in Keys, RotateCommit(w, n) PROVE ExactlyOneActive'
  <2>1. ActiveKeys' = {n}
    BY <1>3 DEF RotateCommit
  <2> QED BY <2>1
<1>4. ASSUME PruneRetiring PROVE ExactlyOneActive'
  <2>1. ActiveKeys' = ActiveKeys
    BY <1>4 DEF PruneRetiring, Prunable
  <2>2. \A k \in Keys : keys'[k].status # "absent" => keys[k].status # "absent"
    BY <1>4 DEF PruneRetiring, Prunable
  <2> QED BY <2>1, <2>2
<1>5. ASSUME UNCHANGED keys PROVE ExactlyOneActive'
  BY <1>5
<1> QED
  BY <1>1, <1>2, <1>3, <1>4, <1>5 DEF Next, SignCached, SignLoad, SignStore, SignFail,
     RotateSelect, RotateLock, RotateConflict, RotateClear, RotateGiveUp, Restart, Tick, vars

\* A row locked by SELECT ... FOR UPDATE stays active and has one holder until
\* that rotation commits or rolls back.
LEMMA LocksNext == KeyInv /\ [Next]_vars => LocksProtect'
<1> SUFFICES ASSUME KeyInv, [Next]_vars PROVE LocksProtect'
  OBVIOUS
<1> USE DEF KeyInv, TypeOK, Row, Status, Rotator, LocksProtect, IdleRotator
<1>1. ASSUME NEW w \in Workers, NEW k \in Keys, Generate(w, k) PROVE LocksProtect'
  BY <1>1 DEF Generate, InsertAllowed, ActiveKeys
<1>2. ASSUME NEW k \in Keys, CliGenerate(k) PROVE LocksProtect'
  BY <1>2 DEF CliGenerate, InsertAllowed, ActiveKeys
<1>3. ASSUME NEW w \in Workers, NEW n \in Keys, RotateCommit(w, n) PROVE LocksProtect'
  <2>1. \A v \in Workers \ {w} :
          rotator[v].pc = "locked" /\ rotator[v].key # NoKey => rotator[v].key # rotator[w].key
    BY <1>3 DEF RotateCommit
  <2>2. \A v \in Workers \ {w} : rotator'[v] = rotator[v]
    BY <1>3 DEF RotateCommit
  <2>3. rotator'[w].pc = "committed"
    BY <1>3 DEF RotateCommit
  \* The index leaves no row but the one w holds active, so w is alone.
  <2>4. \A v \in Workers \ {w} : ~ (rotator[v].pc = "locked" /\ rotator[v].key # NoKey)
    <3> SUFFICES ASSUME NEW v \in Workers \ {w}, rotator[v].pc = "locked",
                        rotator[v].key # NoKey
                 PROVE  FALSE
      OBVIOUS
    <3>1. rotator[v].key \in ActiveKeys
      BY DEF ActiveKeys
    <3>2. ActiveKeys \subseteq {rotator[w].key}
      BY <1>3 DEF RotateCommit
    <3> QED BY <3>1, <3>2, <2>1
  <2> QED BY <2>2, <2>3, <2>4
<1>4. ASSUME PruneRetiring PROVE LocksProtect'
  BY <1>4 DEF PruneRetiring, Prunable
<1>5. ASSUME NEW w \in Workers, RotateLock(w) PROVE LocksProtect'
  <2>1. keys' = keys /\ \A v \in Workers \ {w} : rotator'[v] = rotator[v]
    BY <1>5 DEF RotateLock
  <2>2. rotator'[w].key # NoKey => /\ rotator'[w].key = rotator[w].key
                                  /\ rotator[w].key \in ActiveKeys
    BY <1>5 DEF RotateLock
  <2>3. \A v \in Workers : ~ (/\ rotator[v].pc = "locked" /\ rotator[v].key = rotator[w].key
                             /\ rotator[w].key # NoKey)
    BY <1>5 DEF RotateLock, LockHeld
  <2> QED BY <2>1, <2>2, <2>3 DEF ActiveKeys
<1>6. ASSUME NEW w \in Workers, RotateSelect(w) PROVE LocksProtect'
  <2>1. /\ keys' = keys /\ rotator'[w].pc = "selected"
        /\ \A v \in Workers \ {w} : rotator'[v] = rotator[v]
    BY <1>6 DEF RotateSelect
  <2> QED BY <2>1
<1>7. ASSUME NEW w \in Workers, \/ RotateConflict(w) \/ RotateClear(w)
                                \/ RotateGiveUp(w) \/ Restart(w) PROVE LocksProtect'
  <2>1. /\ keys' = keys /\ rotator'[w].pc # "locked"
        /\ \A v \in Workers \ {w} : rotator'[v] = rotator[v]
    BY <1>7 DEF RotateConflict, RotateClear, RotateGiveUp, Restart
  <2> QED BY <2>1
<1>8. ASSUME UNCHANGED <<keys, rotator>> PROVE LocksProtect'
  BY <1>8
<1> QED
  BY <1>1, <1>2, <1>3, <1>4, <1>5, <1>6, <1>7, <1>8
     DEF Next, SignCached, SignLoad, SignStore, SignFail, Tick, vars

\* prune_retiring is the only step that revokes, and it waits two lifetimes.
LEMMA GraceNext == KeyInv /\ [Next]_vars => GraceElapsed'
<1> SUFFICES ASSUME KeyInv, [Next]_vars, NEW x \in Keys, keys'[x].status = "revoked"
             PROVE  keys'[x].rotatedAt + 2 * MaxTokenTtl <= now'
  BY DEF GraceElapsed
<1> USE DEF KeyInv, TypeOK, Row, Status, Times, GraceElapsed
<1>1. now <= now' /\ now' \in Nat
  BY DEF Next, SignCached, SignLoad, SignStore, SignFail, Generate, CliGenerate, RotateSelect,
     RotateLock, RotateCommit, RotateConflict, RotateClear, RotateGiveUp, Restart,
     PruneRetiring, Tick, vars
<1>2. CASE PruneRetiring
  BY <1>2, <1>1 DEF PruneRetiring, Prunable
<1>3. CASE ~ PruneRetiring
  <2>1. keys'[x] = keys[x]
    BY <1>3 DEF Next, SignCached, SignLoad, SignStore, SignFail, Generate, CliGenerate,
       RotateSelect, RotateLock, RotateCommit, RotateConflict, RotateClear, RotateGiveUp,
       Restart, Tick, vars
  <2> QED BY <1>1, <2>1
<1> QED BY <1>2, <1>3

\* What is cached, loaded or handed out is a key whose row was committed.
LEMMA KeysExistNext == KeyInv /\ [Next]_vars => KeysExist'
<1> SUFFICES ASSUME KeyInv, [Next]_vars PROVE KeysExist'
  OBVIOUS
<1> USE DEF KeyInv, TypeOK, KeysExist, Signer, IdleSigner, Token
<1>1. \A k \in Keys : keys[k].status # "absent" => keys'[k].status # "absent"
  BY RowNext DEF RowStep
<1>2. LoadDbActive # NoKey => keys[LoadDbActive].status # "absent"
  BY DEF LoadDbActive, ActiveKeys
<1>3. ASSUME NEW w \in Workers, NEW ttl \in Ttls, SignCached(w, ttl) PROVE KeysExist'
  BY <1>3 DEF SignCached, Emit
<1>4. ASSUME NEW w \in Workers, NEW ttl \in Ttls, SignLoad(w, ttl) PROVE KeysExist'
  BY <1>4, <1>2 DEF SignLoad
<1>5. ASSUME NEW w \in Workers, SignStore(w) PROVE KeysExist'
  BY <1>5 DEF SignStore, Emit
<1>6. ASSUME NEW w \in Workers, NEW k \in Keys, Generate(w, k) PROVE KeysExist'
  <2>1. keys'[k].status = "active"
    BY <1>6 DEF Generate
  <2> QED BY <1>1, <1>6, <2>1 DEF Generate, Emit
<1>7. ASSUME NEW w \in Workers, SignFail(w) \/ RotateClear(w) \/ Restart(w) PROVE KeysExist'
  BY <1>7 DEF SignFail, RotateClear, Restart
<1>8. ASSUME Tick PROVE KeysExist'
  BY <1>8 DEF Tick
<1>9. ASSUME UNCHANGED <<cached, signer, tokens>> PROVE KeysExist'
  BY <1>1, <1>9
<1> QED
  BY <1>3, <1>4, <1>5, <1>6, <1>7, <1>8, <1>9 DEF Next, CliGenerate, RotateSelect, RotateLock,
     RotateCommit, RotateConflict, RotateGiveUp, PruneRetiring, vars

\* Every step keeps the inductive invariant.
LEMMA KeyInvNext == KeyInv /\ [Next]_vars => KeyInv'
  BY TypeNext, OneActiveNext, LocksNext, GraceNext, KeysExistNext DEF KeyInv

\* In every reachable state: one active key, locked rows active and held once,
\* revoked keys past their grace period, and no name of a key without a row.
THEOREM KeyInvCorrect == Spec => []KeyInv
  BY KeyInvInit, KeyInvNext, PTL DEF Spec

(***************************************************************************)
(* The results.                                                            *)
(***************************************************************************)
\* However many workers rotate, bootstrap, sign and crash at once, a table
\* that holds a key holds exactly one active key.
THEOREM OneActiveKey == Spec => []ExactlyOneActive
<1>1. KeyInv => ExactlyOneActive
  BY DEF KeyInv
<1> QED BY KeyInvCorrect, <1>1, PTL

\* The grace period of prune_retiring is long enough for every token signed
\* while its key was active or within one lifetime of the demotion.
THEOREM GraceSuffices == Spec => []InFlightTokensVerify
<1>1. KeyInv => InFlightTokensVerify
  <2> SUFFICES ASSUME KeyInv, NEW t \in tokens, Timely(t), ~ Expired(t)
               PROVE  keys[t.kid].status \in {"active", "retiring"}
    BY DEF InFlightTokensVerify, AllPublicJwks, KeyInv, TypeOK, Token
  <2> USE DEF KeyInv, TypeOK, Row, Status, Token, Times
  <2>1. keys[t.kid].status # "absent"
    BY DEF KeysExist
  <2>2. keys[t.kid].status # "revoked"
    <3> SUFFICES ASSUME keys[t.kid].status = "revoked" PROVE FALSE
      OBVIOUS
    <3> DEFINE r == keys[t.kid].rotatedAt
    <3>1. /\ r \in Nat /\ t.issued \in Nat /\ t.ttl \in Nat /\ now \in Nat
          /\ t.kid \in Keys
      <4>1. t \in Token /\ keys[t.kid] \in Row
        OBVIOUS
      <4>2. t.kid \in Keys /\ t.issued \in 0 .. MaxTime /\ t.ttl \in Ttls
        BY <4>1
      <4>3. r \in 0 .. MaxTime
        BY <4>1
      <4>4. Ttls \subseteq Nat /\ 0 .. MaxTime \subseteq Nat
        BY TimeAssumption
      <4> HIDE DEF r
      <4> QED BY <4>2, <4>3, <4>4
    <3>2. r + 2 * MaxTokenTtl <= now
      BY <3>1 DEF GraceElapsed
    <3>3. t.ttl <= MaxTokenTtl /\ t.issued <= r + MaxTokenTtl
      BY DEF Timely
    <3>4. ~ (t.issued + t.ttl <= now)
      BY DEF Expired, Expiry
    <3> HIDE DEF r
    <3> QED BY <3>1, <3>2, <3>3, <3>4
  <2> QED BY <2>1, <2>2
<1> QED BY KeyInvCorrect, <1>1, PTL

\* A key only moves forward through its life, and its grace period is counted
\* from one moment only.
THEOREM KeysMoveForward == Spec => KeyLifecycle
<1>1. KeyInv /\ [Next]_vars => [\A k \in Keys : RowStep(keys[k], keys'[k])]_vars
  BY RowNext
<1> QED BY KeyInvCorrect, <1>1, PTL DEF Spec, KeyLifecycle

(***************************************************************************)
(* Key sets of foreign issuers.                                            *)
(***************************************************************************)
USE TokensAssumption, TimesAssumption

Flying(t) == t.pc \notin {"idle", "done"}

\* What is of its type in a thread, and when.
Shaped(t, clock) ==
  /\ t \in Thread /\ t.since <= clock /\ t.seen.exp <= clock + Ttl
  /\ Flying(t) => t.token \in Tokens /\ t.uses \in Threads /\ t.outcome = "none"
  /\ t.pc \in {"clock", "fetch", "put", "match", "decode"} => t.token.iss \in Issuers
  /\ t.pc = "build" => t.again = FALSE
  /\ t.outcome = "accepted" => t.pc = "done" /\ t.token \in Tokens /\ t.token.iss \in Issuers

\* The issuer still publishes the kid, or withdrew it no earlier than that.
Since(pub, gn, i, k, time) == k \in pub[i] \/ gn[i][k] >= time
Lasting(pub, gn, i, k, time) == Since(pub, gn, i, k, time) \/ gn[i][k] > time - Ttl

\* What a thread has in hand was published when the entry began, or lately.
Fading(t, pub, gn) ==
  LET i == t.token.iss IN
  /\ t.pc = "clock" => \A k \in t.seen.kids : Since(pub, gn, i, k, t.seen.exp - Ttl)
  /\ t.pc = "put" => \A k \in t.seen.kids : Since(pub, gn, i, k, t.since)
  /\ t.pc = "match" => \A k \in t.seen.kids : Lasting(pub, gn, i, k, t.since)
  /\ t.pc = "decode" \/ t.outcome = "accepted" => Lasting(pub, gn, i, t.token.kid, t.since)
  /\ t.outcome = "accepted" => t.token.by = i

\* On its second look a thread with a steady key finds it, or finds nothing,
\* unless another thread came between.
Finding(t, pub, cs) ==
  LET kid == t.token.kid
      row == cs[t.uses][t.token.iss]
  IN
  /\ Flying(t) /\ t.steady => t.token.iss \in Issuers /\ kid \in pub[t.token.iss]
  /\ Flying(t) /\ t.steady /\ t.again /\ ~ t.rival =>
       /\ t.pc = "get" => kid \in row.kids \/ row.exp = 0
       /\ t.pc = "clock" => kid \in t.seen.kids \/ t.seen.exp = 0
       /\ t.pc \in {"put", "match"} => kid \in t.seen.kids
  /\ t.outcome = "unmatched" /\ t.steady => t.rival

\* The entries of the caches.
RowOK(row, i, clock, pub, gn) ==
  /\ row \in Entry /\ row.exp <= clock + Ttl
  /\ \A k \in row.kids : Since(pub, gn, i, k, row.exp - Ttl)

JwksInv ==
  /\ monotonic \in Nat /\ resolver \in Threads \union {None}
  /\ published \in [Issuers -> SUBSET Kids]
  /\ gone \in [Issuers -> [Kids -> Int]]
  /\ \A i \in Issuers, k \in Kids : gone[i][k] <= monotonic
  /\ DOMAIN caches = Threads /\ caches \in [Threads -> [Issuers -> Entry]]
  /\ \A u \in Threads, i \in Issuers : RowOK(caches[u][i], i, monotonic, published, gone)
  /\ threads \in [Threads -> Thread]
  /\ \A th \in Threads : /\ Shaped(threads[th], monotonic)
                         /\ Fading(threads[th], published, gone)
                         /\ Finding(threads[th], published, caches)

-----------------------------------------------------------------------------
\* A call under way is left alone by a step that keeps the issuers' keys, lets
\* time pass and at most empties the entry it looks at.
LEMMA LeftAlone ==
  ASSUME NEW t, NEW clock \in Nat, NEW later \in Nat, clock <= later,
         NEW pub, NEW gn, NEW cs, NEW cs2,
         Shaped(t, clock), Finding(t, pub, cs),
         Flying(t) /\ t.token.iss \in Issuers =>
           cs2[t.uses][t.token.iss] \in {cs[t.uses][t.token.iss], Empty}
  PROVE  Shaped(t, later) /\ Finding(t, pub, cs2)
<1>1. t \in Thread /\ t.since \in Nat /\ t.seen.exp \in Nat
  BY DEF Shaped, Thread, Entry
<1>2. Shaped(t, later)
  BY <1>1 DEF Shaped
<1>3. Empty.exp = 0
  BY DEF Empty
<1>4. Finding(t, pub, cs2)
  BY <1>3 DEF Finding
<1> QED BY <1>2, <1>4

\* A step of one thread that touches neither keys, caches nor clock.
LEMMA OneThread ==
  ASSUME JwksInv, NEW th \in Threads, NEW n \in Thread,
         threads' = [threads EXCEPT ![th] = n],
         resolver' = resolver, monotonic' = monotonic, published' = published,
         gone' = gone, caches' = caches,
         Shaped(n, monotonic), Fading(n, published, gone), Finding(n, published, caches)
  PROVE  JwksInv'
<1>1. threads' \in [Threads -> Thread]
  BY DEF JwksInv
<1>2. ASSUME NEW o \in Threads
      PROVE  /\ Shaped(threads'[o], monotonic) /\ Fading(threads'[o], published, gone)
             /\ Finding(threads'[o], published, caches)
  BY DEF JwksInv
<1> QED BY <1>1, <1>2 DEF JwksInv

\* The end of a call leaves of it what End says.
LEMMA Ended ==
  ASSUME NEW th \in Threads, threads \in [Threads -> Thread],
         NEW outcome \in {"accepted", "unknown", "unmatched", "invalid", "unreachable"},
         threads[th].token \in Tokens, End(th, outcome)
  PROVE  \E n \in Thread :
           /\ threads' = [threads EXCEPT ![th] = n]
           /\ n.pc = "done" /\ n.outcome = outcome /\ n.seen = Empty
           /\ n.since \in {0, threads[th].since}
           /\ outcome = "accepted" => n.token = threads[th].token /\ n.since = threads[th].since
           /\ n.steady => outcome = "unmatched" /\ threads[th].steady
           /\ outcome = "unmatched" => n.rival = threads[th].rival
<1>1. PICK t \in Thread : t = threads[th]
  OBVIOUS
<1>2. PICK n : n = [Idle EXCEPT !.pc = "done", !.outcome = outcome,
                 !.token = IF outcome \in {"accepted", "unmatched"} THEN t.token ELSE NoToken,
                 !.since = IF outcome = "accepted" THEN t.since ELSE 0,
                 !.steady = outcome = "unmatched" /\ t.steady,
                 !.rival = outcome = "unmatched" /\ t.rival]
  OBVIOUS
<1>3. threads' = [threads EXCEPT ![th] = n]
  BY <1>1, <1>2 DEF End
<1>4. PICK st \in BOOLEAN, rv \in BOOLEAN :
        st = (outcome = "unmatched" /\ t.steady) /\ rv = (outcome = "unmatched" /\ t.rival)
  OBVIOUS
<1>5. PICK tk \in Tokens \union {NoToken}, sn \in Nat :
        /\ tk = IF outcome \in {"accepted", "unmatched"} THEN t.token ELSE NoToken
        /\ sn = IF outcome = "accepted" THEN t.since ELSE 0
  BY <1>1 DEF Thread
<1>6. n = [pc |-> "done", token |-> tk, uses |-> None, seen |-> Empty, since |-> sn,
           again |-> FALSE, steady |-> st, rival |-> rv, outcome |-> outcome]
  BY <1>2, <1>4, <1>5 DEF Idle
<1>7. /\ n.pc = "done" /\ n.outcome = outcome /\ n.seen = Empty
      /\ n.token = tk /\ n.since = sn /\ n.steady = st /\ n.rival = rv
  BY <1>6
<1>8. Empty \in Entry
  BY DEF Empty, Entry
<1>9. n \in Thread
  BY <1>6, <1>8 DEF Thread
<1>10. /\ n.since \in {0, t.since}
       /\ outcome = "accepted" => n.token = t.token /\ n.since = t.since
  BY <1>5, <1>7
<1>11. n.steady => outcome = "unmatched" /\ t.steady
  BY <1>4, <1>7, Zenon
<1>12. outcome = "unmatched" => n.rival = t.rival
  <2>1. t.rival \in BOOLEAN
    BY DEF Thread
  <2> QED BY <1>4, <1>7, <2>1
<1> QED BY <1>1, <1>3, <1>7, <1>9, <1>10, <1>11, <1>12, Zenon

\* An ended call that was neither accepted nor refused for its kid asks nothing.
LEMMA EndedOK ==
  ASSUME JwksInv, NEW th \in Threads, Flying(threads[th]),
         NEW outcome \in {"accepted", "unknown", "unmatched", "invalid", "unreachable"},
         End(th, outcome),
         outcome = "accepted" =>
           /\ threads[th].token.iss \in Issuers /\ threads[th].token.by = threads[th].token.iss
           /\ Lasting(published, gone, threads[th].token.iss, threads[th].token.kid, threads[th].since),
         outcome = "unmatched" /\ threads[th].steady => threads[th].rival,
         resolver' = resolver, monotonic' = monotonic, published' = published,
         gone' = gone, caches' = caches
  PROVE  JwksInv'
<1>1. /\ threads \in [Threads -> Thread] /\ monotonic \in Nat
      /\ Shaped(threads[th], monotonic)
  BY DEF JwksInv
<1>2. threads[th].token \in Tokens /\ threads[th].since \in Nat
  BY <1>1 DEF Shaped, Thread
<1>3. PICK n \in Thread :
           /\ threads' = [threads EXCEPT ![th] = n]
           /\ n.pc = "done" /\ n.outcome = outcome /\ n.seen = Empty
           /\ n.since \in {0, threads[th].since}
           /\ outcome = "accepted" => n.token = threads[th].token /\ n.since = threads[th].since
           /\ n.steady => outcome = "unmatched" /\ threads[th].steady
           /\ outcome = "unmatched" => n.rival = threads[th].rival
  BY <1>1, <1>2, Ended
<1>4. Shaped(n, monotonic)
  BY <1>1, <1>2, <1>3 DEF Shaped, Flying, Empty
<1>5. Fading(n, published, gone)
  BY <1>3 DEF Fading
<1>6. Finding(n, published, caches)
  BY <1>3, Zenon DEF Finding, Flying
<1> QED BY <1>3, <1>4, <1>5, <1>6, OneThread

\* At the start every cache is empty and nobody calls.
LEMMA JwksStart == JwksInit => JwksInv
<1> SUFFICES ASSUME JwksInit PROVE JwksInv
  OBVIOUS
<1> USE DEF JwksInit
<1>1. Empty \in Entry /\ Idle \in Thread
  BY DEF Empty, Entry, Idle, Thread
<1>2. \A u \in Threads, i \in Issuers : RowOK(caches[u][i], i, monotonic, published, gone)
  BY <1>1 DEF RowOK, Empty
<1>3. Shaped(Idle, 0)
  BY <1>1 DEF Shaped, Idle, Flying, Empty
<1>4. Fading(Idle, published, gone) /\ Finding(Idle, published, caches)
  BY DEF Fading, Finding, Idle, Flying
<1>5. 0 - Ttl \in Int /\ 0 - Ttl <= 0
  OBVIOUS
<1> QED BY <1>1, <1>2, <1>3, <1>4, <1>5 DEF JwksInv

\* A request comes in.
LEMMA BeginKeeps ==
  ASSUME JwksInv, NEW th \in Threads, NEW token \in Tokens, Begin(th, token)
  PROVE  JwksInv'
<1>1. PICK st \in BOOLEAN : st = (token.iss \in Issuers /\ token.kid \in published[token.iss])
  OBVIOUS
<1>2. PICK us \in Threads : us = IF resolver = None THEN th ELSE resolver
  BY DEF JwksInv
<1>3. PICK pc \in {"build", "get"} : pc = IF resolver = None THEN "build" ELSE "get"
  OBVIOUS
<1>4. PICK n : n = [pc |-> pc, token |-> token, uses |-> us, seen |-> Empty, since |-> 0,
           again |-> FALSE, steady |-> st, rival |-> FALSE, outcome |-> "none"]
  OBVIOUS
<1>5. threads' = [threads EXCEPT ![th] = n]
  <2>1. n = [Idle EXCEPT !.pc = pc, !.token = token, !.uses = us, !.steady = st]
    <3>1. PICK m : m = [Idle EXCEPT !.pc = pc, !.token = token, !.uses = us, !.steady = st]
      OBVIOUS
    <3>2. m = [pc |-> pc, token |-> token, uses |-> us, seen |-> Empty, since |-> 0,
               again |-> FALSE, steady |-> st, rival |-> FALSE, outcome |-> "none"]
      BY <3>1 DEF Idle
    <3> QED BY <1>4, <3>1, <3>2
  <2>2. threads' = [threads EXCEPT ![th] =
                     [Idle EXCEPT !.pc = pc, !.token = token, !.uses = us, !.steady = st]]
    BY <1>1, <1>2, <1>3, Zenon DEF Begin
  <2> QED BY <2>1, <2>2
<1>6. n \in Thread /\ n.seen = Empty /\ n.since = 0
  <2>1. Empty \in Entry
    BY DEF Empty, Entry
  <2>2. n.seen = Empty /\ n.since = 0
    BY <1>4
  <2>3. n \in Thread
    BY <1>4, <2>1 DEF Thread
  <2> QED BY <2>2, <2>3
<1>7. Shaped(n, monotonic)
  BY <1>4, <1>6 DEF Shaped, Flying, Empty, JwksInv
<1>8. Fading(n, published, gone)
  BY <1>4 DEF Fading
<1>9. Finding(n, published, caches)
  <2>1. n.steady = st /\ n.token = token /\ n.again = FALSE /\ n.outcome = "none"
    BY <1>4
  <2> QED BY <1>1, <2>1, Zenon DEF Finding
<1> QED BY <1>5, <1>6, <1>7, <1>8, <1>9, OneThread DEF Begin

\* The cache is read.
LEMMA GetKeeps ==
  ASSUME JwksInv, NEW th \in Threads, Get(th)
  PROVE  JwksInv'
<1>1. PICK t \in Thread : t = threads[th]
  BY DEF JwksInv
<1>2. /\ monotonic \in Nat /\ Shaped(t, monotonic) /\ Fading(t, published, gone)
      /\ Finding(t, published, caches) /\ t.pc = "get" /\ Flying(t)
  BY <1>1 DEF JwksInv, Get, Flying
<1>3. CASE t.token.iss \notin Issuers
  BY <1>1, <1>2, <1>3, EndedOK DEF Get
<1>4. CASE t.token.iss \in Issuers
  <2>1. PICK row : row = caches[t.uses][t.token.iss]
    OBVIOUS
  <2>2. RowOK(row, t.token.iss, monotonic, published, gone)
    BY <1>2, <1>4, <2>1 DEF JwksInv, Shaped
  <2>3. PICK n : n = [t EXCEPT !.pc = "clock", !.seen = row]
    OBVIOUS
  <2>4. threads' = [threads EXCEPT ![th] = n]
    BY <1>1, <1>4, <2>1, <2>3 DEF Get
  <2>5. /\ n \in Thread /\ n.pc = "clock" /\ n.seen = row /\ n.token = t.token
        /\ n.uses = t.uses /\ n.since = t.since /\ n.again = t.again
        /\ n.steady = t.steady /\ n.rival = t.rival /\ n.outcome = t.outcome
    BY <2>2, <2>3 DEF RowOK, Thread
  <2>6. Shaped(n, monotonic)
    BY <1>2, <1>4, <2>2, <2>5 DEF Shaped, Flying, RowOK
  <2>7. Fading(n, published, gone)
    BY <1>2, <2>2, <2>5 DEF Fading, RowOK, Shaped
  <2>8. Finding(n, published, caches)
    BY <1>2, <2>1, <2>5 DEF Finding, Flying, Shaped
  <2> QED BY <1>2, <2>4, <2>5, <2>6, <2>7, <2>8, OneThread DEF Get
<1> QED BY <1>3, <1>4

\* The clock is read.
LEMMA ClockKeeps ==
  ASSUME JwksInv, NEW th \in Threads, Clock(th)
  PROVE  JwksInv'
<1>1. PICK t \in Thread : t = threads[th]
  BY DEF JwksInv
<1>2. /\ monotonic \in Nat /\ Shaped(t, monotonic) /\ Fading(t, published, gone)
      /\ Finding(t, published, caches) /\ t.pc = "clock" /\ t.seen.exp \in Nat
      /\ t.token \in Tokens /\ t.token.iss \in Issuers
  BY <1>1 DEF JwksInv, Clock, Flying, Thread, Entry, Shaped
<1>3. PICK pc \in {"match", "fetch"} : pc = IF t.seen.exp > monotonic THEN "match" ELSE "fetch"
  OBVIOUS
<1>4. PICK n : n = [t EXCEPT !.since = monotonic, !.pc = pc]
  OBVIOUS
<1>5. threads' = [threads EXCEPT ![th] = n]
  BY <1>1, <1>3, <1>4 DEF Clock
<1>6. /\ n \in Thread /\ n.pc = pc /\ n.seen = t.seen /\ n.token = t.token
      /\ n.uses = t.uses /\ n.since = monotonic /\ n.again = t.again
      /\ n.steady = t.steady /\ n.rival = t.rival /\ n.outcome = t.outcome
  BY <1>2, <1>4 DEF Thread
<1>7. Shaped(n, monotonic)
  BY <1>2, <1>6 DEF Shaped, Flying
<1>8. Fading(n, published, gone)
  <2>1. t.outcome = "none"
    BY <1>2 DEF Shaped, Flying
  <2>2. ASSUME pc = "match", NEW k \in t.seen.kids
        PROVE  Lasting(published, gone, t.token.iss, k, monotonic)
    <3>1. Since(published, gone, t.token.iss, k, t.seen.exp - Ttl)
      BY <1>2, <2>2 DEF Fading
    <3>2. gone[t.token.iss][k] \in Int
      <4>1. k \in Kids
        BY <2>2 DEF Thread, Entry
      <4> QED BY <1>2, <4>1 DEF JwksInv
    <3> QED BY <1>2, <1>3, <2>2, <3>1, <3>2 DEF Since, Lasting
  <2> QED BY <1>6, <2>1, <2>2 DEF Fading
<1>9. Finding(n, published, caches)
  BY <1>2, <1>3, <1>6 DEF Finding, Flying
<1> QED BY <1>5, <1>6, <1>7, <1>8, <1>9, OneThread DEF Clock

\* A resolver is built; its cache is empty.
LEMMA BuildKeeps ==
  ASSUME JwksInv, NEW th \in Threads, Build(th)
  PROVE  JwksInv'
<1>1. PICK t \in Thread : t = threads[th]
  BY DEF JwksInv
<1>2. /\ monotonic \in Nat /\ Shaped(t, monotonic) /\ Fading(t, published, gone)
      /\ Finding(t, published, caches) /\ t.pc = "build" /\ t.outcome = "none"
  BY <1>1 DEF JwksInv, Build, Flying, Shaped
<1>3. PICK n : n = [t EXCEPT !.pc = "get"]
  OBVIOUS
<1>4. threads' = [threads EXCEPT ![th] = n]
  BY <1>1, <1>3 DEF Build
<1>5. /\ n \in Thread /\ n.pc = "get" /\ n.seen = t.seen /\ n.token = t.token
      /\ n.uses = t.uses /\ n.since = t.since /\ n.again = t.again
      /\ n.steady = t.steady /\ n.rival = t.rival /\ n.outcome = t.outcome
  BY <1>3 DEF Thread
<1>6. Empty \in Entry /\ Empty.exp = 0 /\ Empty.kids = {}
  BY DEF Empty, Entry
<1>7. /\ caches' \in [Threads -> [Issuers -> Entry]] /\ DOMAIN caches' = Threads
      /\ \A u \in Threads, i \in Issuers : caches'[u][i] \in {caches[u][i], Empty}
  BY <1>6 DEF Build, JwksInv
<1>8. \A u \in Threads, i \in Issuers : RowOK(caches'[u][i], i, monotonic, published, gone)
  BY <1>2, <1>6, <1>7 DEF RowOK, JwksInv
<1>9. PICK cs : cs = caches'
  OBVIOUS
<1>10. ASSUME NEW o \in Threads, o # th
       PROVE  /\ Shaped(threads[o], monotonic) /\ Fading(threads[o], published, gone)
              /\ Finding(threads[o], published, cs)
  <2>1. /\ Shaped(threads[o], monotonic) /\ Fading(threads[o], published, gone)
        /\ Finding(threads[o], published, caches)
    BY DEF JwksInv
  <2>2. ASSUME Flying(threads[o]), threads[o].token.iss \in Issuers
        PROVE  cs[threads[o].uses][threads[o].token.iss]
                 \in {caches[threads[o].uses][threads[o].token.iss], Empty}
    BY <1>7, <1>9, <2>1, <2>2 DEF Shaped
  <2> QED BY <1>2, <2>1, <2>2, LeftAlone
<1>11. Shaped(n, monotonic) /\ Fading(n, published, gone)
  BY <1>2, <1>5 DEF Shaped, Fading, Flying
<1>12. Finding(n, published, cs)
  <2>1. n.again = FALSE
    BY <1>2, <1>5 DEF Shaped
  <2> QED BY <1>2, <1>5, <2>1 DEF Finding, Flying
<1>13. threads' \in [Threads -> Thread]
  BY <1>4, <1>5 DEF JwksInv
<1>14. \A o \in Threads : /\ Shaped(threads'[o], monotonic) /\ Fading(threads'[o], published, gone)
                          /\ Finding(threads'[o], published, caches')
  BY <1>4, <1>9, <1>10, <1>11, <1>12 DEF JwksInv
<1> QED BY <1>7, <1>8, <1>13, <1>14 DEF Build, JwksInv

\* The issuer answers, or does not.
LEMMA FetchKeeps ==
  ASSUME JwksInv, NEW th \in Threads, Fetch(th)
  PROVE  JwksInv'
<1>1. PICK t \in Thread : t = threads[th]
  BY DEF JwksInv
<1>2. /\ monotonic \in Nat /\ Shaped(t, monotonic) /\ Fading(t, published, gone)
      /\ Finding(t, published, caches) /\ t.pc = "fetch" /\ Flying(t) /\ t.outcome = "none"
      /\ t.token.iss \in Issuers
  BY <1>1 DEF JwksInv, Fetch, Flying, Shaped
<1>3. CASE End(th, "unreachable")
  BY <1>1, <1>2, <1>3, EndedOK DEF Fetch
<1>4. PICK kids \in SUBSET Kids : kids = published[t.token.iss]
  BY <1>2 DEF JwksInv
<1>5. PICK row : row = [kids |-> kids, exp |-> 0]
  OBVIOUS
<1>6. row \in Entry /\ row.kids = kids /\ row.exp = 0
  BY <1>5 DEF Entry
<1>7. PICK n : n = [t EXCEPT !.pc = "put", !.seen = row]
  OBVIOUS
<1>8. /\ n \in Thread /\ n.pc = "put" /\ n.seen = row /\ n.token = t.token
      /\ n.uses = t.uses /\ n.since = t.since /\ n.again = t.again
      /\ n.steady = t.steady /\ n.rival = t.rival /\ n.outcome = t.outcome
  BY <1>6, <1>7 DEF Thread
<1>9. CASE threads' = [threads EXCEPT ![th] = n]
  <2>1. Shaped(n, monotonic)
    BY <1>2, <1>6, <1>8 DEF Shaped, Flying
  <2>2. Fading(n, published, gone)
    BY <1>2, <1>4, <1>6, <1>8 DEF Fading, Since
  <2>3. Finding(n, published, caches)
    BY <1>2, <1>4, <1>6, <1>8 DEF Finding, Flying
  <2> QED BY <1>8, <1>9, <2>1, <2>2, <2>3, OneThread DEF Fetch
<1> QED BY <1>1, <1>3, <1>4, <1>5, <1>7, <1>9 DEF Fetch

\* The signature and the claims are looked at.
LEMMA DecodeKeeps ==
  ASSUME JwksInv, NEW th \in Threads, Decode(th)
  PROVE  JwksInv'
<1>1. PICK t \in Thread : t = threads[th]
  BY DEF JwksInv
<1>2. /\ Shaped(t, monotonic) /\ Fading(t, published, gone)
      /\ t.pc = "decode" /\ Flying(t) /\ t.token.iss \in Issuers
  BY <1>1 DEF JwksInv, Decode, Flying, Shaped
<1>3. Lasting(published, gone, t.token.iss, t.token.kid, t.since)
  BY <1>2 DEF Fading
<1>4. PICK outcome \in {"accepted", "invalid"} :
        /\ End(th, outcome)
        /\ outcome = "accepted" => t.token.by = t.token.iss
  BY <1>1 DEF Decode
<1> QED BY <1>1, <1>2, <1>3, <1>4, EndedOK DEF Decode

\* Another thread fills the entry that a call looks at: either the key of the
\* call is in it, or the call is marked, or it has not looked yet.
LEMMA Overtaken ==
  ASSUME NEW t \in Thread, NEW clock, NEW pub, NEW gn, NEW cs, NEW cs2,
         NEW row \in Entry, NEW rv \in BOOLEAN, NEW n,
         Shaped(t, clock), Fading(t, pub, gn), Finding(t, pub, cs),
         n = [t EXCEPT !.rival = rv], t.rival = TRUE => rv = TRUE,
         Flying(t) /\ t.token.iss \in Issuers =>
           \/ cs2[t.uses][t.token.iss] = cs[t.uses][t.token.iss]
           \/ /\ cs2[t.uses][t.token.iss] = row
              /\ (t.again = TRUE /\ t.token.kid \notin row.kids) => rv = TRUE
  PROVE  n \in Thread /\ Shaped(n, clock) /\ Fading(n, pub, gn) /\ Finding(n, pub, cs2)
<1>1. /\ n \in Thread /\ n.pc = t.pc /\ n.seen = t.seen /\ n.token = t.token
      /\ n.uses = t.uses /\ n.since = t.since /\ n.again = t.again
      /\ n.steady = t.steady /\ n.rival = rv /\ n.outcome = t.outcome
  BY DEF Thread
<1>2. Shaped(n, clock) /\ Fading(n, pub, gn)
  BY <1>1 DEF Shaped, Fading, Flying
<1>3. t.again \in BOOLEAN /\ t.steady \in BOOLEAN /\ t.rival \in BOOLEAN
  BY DEF Thread
<1>4. Finding(n, pub, cs2)
  <2>1. Flying(n) /\ n.steady => n.token.iss \in Issuers /\ n.token.kid \in pub[n.token.iss]
    BY <1>1 DEF Finding, Flying
  <2>2. n.outcome = "unmatched" /\ n.steady => n.rival
    BY <1>1, <1>3 DEF Finding
  <2>3. ASSUME Flying(n), n.steady, n.again, ~ n.rival
        PROVE  /\ n.pc = "get" => \/ n.token.kid \in cs2[n.uses][n.token.iss].kids
                                  \/ cs2[n.uses][n.token.iss].exp = 0
               /\ n.pc = "clock" => n.token.kid \in n.seen.kids \/ n.seen.exp = 0
               /\ n.pc \in {"put", "match"} => n.token.kid \in n.seen.kids
    <3>1. Flying(t) /\ t.steady /\ t.again /\ ~ t.rival /\ t.token.iss \in Issuers
      BY <1>1, <1>3, <2>1, <2>3 DEF Flying
    <3>2. t.again = TRUE /\ rv = FALSE
      BY <1>1, <1>3, <2>3
    <3> QED BY <1>1, <3>1, <3>2 DEF Finding
  <2> QED BY <2>1, <2>2, <2>3 DEF Finding
<1> QED BY <1>1, <1>2, <1>4

\* The answer is stored.
LEMMA PutKeeps ==
  ASSUME JwksInv, NEW th \in Threads, Put(th)
  PROVE  JwksInv'
<1>1. PICK t \in Thread : t = threads[th]
  BY DEF JwksInv
<1>2. /\ monotonic \in Nat /\ Shaped(t, monotonic) /\ Fading(t, published, gone)
      /\ Finding(t, published, caches) /\ t.pc = "put" /\ Flying(t) /\ t.outcome = "none"
      /\ t.token.iss \in Issuers /\ t.uses \in Threads /\ t.since \in Nat
      /\ t.seen.kids \in SUBSET Kids
  BY <1>1 DEF JwksInv, Put, Flying, Shaped, Thread, Entry
<1>3. PICK row : row = [kids |-> t.seen.kids, exp |-> t.since + Ttl]
  OBVIOUS
<1>4. row \in Entry /\ row.kids = t.seen.kids /\ row.exp = t.since + Ttl
  BY <1>2, <1>3 DEF Entry
<1>5. PICK cs : cs = caches'
  OBVIOUS
<1>6. cs = [caches EXCEPT ![t.uses][t.token.iss] = row]
  BY <1>1, <1>3, <1>5 DEF Put
<1>7. /\ cs \in [Threads -> [Issuers -> Entry]] /\ DOMAIN cs = Threads
      /\ cs[t.uses][t.token.iss] = row
      /\ \A u \in Threads, i \in Issuers :
           ~ (u = t.uses /\ i = t.token.iss) => cs[u][i] = caches[u][i]
  BY <1>2, <1>4, <1>6 DEF JwksInv
<1>8. RowOK(row, t.token.iss, monotonic, published, gone)
  <2>1. row.exp <= monotonic + Ttl /\ row.exp - Ttl = t.since
    BY <1>2, <1>4 DEF Shaped
  <2>2. \A k \in row.kids : Since(published, gone, t.token.iss, k, t.since)
    BY <1>2, <1>4 DEF Fading
  <2> QED BY <1>4, <2>1, <2>2 DEF RowOK
<1>9. \A u \in Threads, i \in Issuers : RowOK(cs[u][i], i, monotonic, published, gone)
  BY <1>7, <1>8 DEF JwksInv
<1>10. PICK n : n = [t EXCEPT !.pc = "match"]
  OBVIOUS
<1>11. /\ n \in Thread /\ n.pc = "match" /\ n.seen = t.seen /\ n.token = t.token
       /\ n.uses = t.uses /\ n.since = t.since /\ n.again = t.again
       /\ n.steady = t.steady /\ n.rival = t.rival /\ n.outcome = t.outcome
  BY <1>10 DEF Thread
<1>12. Shaped(n, monotonic) /\ Fading(n, published, gone)
  BY <1>2, <1>11 DEF Shaped, Fading, Flying, Lasting
<1>13. Finding(n, published, cs)
  BY <1>2, <1>11 DEF Finding, Flying
<1>14. threads'[th] = n /\ DOMAIN threads' = Threads
  BY <1>1, <1>10 DEF Put
<1>15. ASSUME NEW o \in Threads, o # th
       PROVE  /\ threads'[o] \in Thread
              /\ Shaped(threads'[o], monotonic) /\ Fading(threads'[o], published, gone)
              /\ Finding(threads'[o], published, cs)
  <2>1. PICK r \in Thread : r = threads[o]
    BY DEF JwksInv
  <2>2. Shaped(r, monotonic) /\ Fading(r, published, gone) /\ Finding(r, published, caches)
    BY <2>1 DEF JwksInv
  <2>3. PICK rv \in BOOLEAN :
          rv = (\/ r.rival
                \/ /\ r.uses = t.uses /\ r.token.iss = t.token.iss
                   /\ r.again /\ r.token.kid \notin t.seen.kids)
    OBVIOUS
  <2>4. PICK m : m = [r EXCEPT !.rival = rv]
    OBVIOUS
  <2>5. threads'[o] = m
    <3>1. threads'[o] = [r EXCEPT !.rival = (\/ r.rival
                           \/ /\ r.uses = t.uses /\ r.token.iss = t.token.iss
                              /\ r.again /\ r.token.kid \notin t.seen.kids)]
      BY <1>1, <1>15, <2>1 DEF Put
    <3> QED BY <2>3, <2>4, <3>1
  <2>6. r.rival = TRUE => rv = TRUE
    BY <2>3
  <2>7. Flying(r) /\ r.token.iss \in Issuers =>
           \/ cs[r.uses][r.token.iss] = caches[r.uses][r.token.iss]
           \/ /\ cs[r.uses][r.token.iss] = row
              /\ (r.again = TRUE /\ r.token.kid \notin row.kids) => rv = TRUE
    <3>1. CASE r.uses = t.uses /\ r.token.iss = t.token.iss
      <4>1. cs[r.uses][r.token.iss] = row
        BY <1>7, <3>1
      <4>2. (r.again = TRUE /\ r.token.kid \notin row.kids) => rv = TRUE
        BY <1>4, <2>3, <3>1, Zenon
      <4> QED BY <4>1, <4>2
    <3>2. CASE ~ (r.uses = t.uses /\ r.token.iss = t.token.iss)
      BY <1>7, <2>2, <3>2 DEF Shaped
    <3> QED BY <3>1, <3>2
  <2>8. m \in Thread /\ Shaped(m, monotonic) /\ Fading(m, published, gone) /\ Finding(m, published, cs)
    BY <1>4, <2>2, <2>4, <2>6, <2>7, Overtaken, Zenon
  <2> QED BY <2>5, <2>8
<1>16. threads' \in [Threads -> Thread]
  <2>1. threads' = [o \in Threads |-> threads'[o]]
    BY DEF Put
  <2> QED BY <1>11, <1>14, <1>15, <2>1
<1>17. \A o \in Threads : /\ Shaped(threads'[o], monotonic) /\ Fading(threads'[o], published, gone)
                          /\ Finding(threads'[o], published, caches')
  BY <1>5, <1>12, <1>13, <1>14, <1>15
<1>18. /\ monotonic' = monotonic /\ published' = published /\ gone' = gone
       /\ resolver' = resolver
  BY DEF Put
<1> QED BY <1>5, <1>7, <1>9, <1>16, <1>17, <1>18 DEF JwksInv

\* The kid is looked for in the key set.
LEMMA MatchKeeps ==
  ASSUME JwksInv, NEW th \in Threads, Match(th)
  PROVE  JwksInv'
<1>1. PICK t \in Thread : t = threads[th]
  BY DEF JwksInv
<1>2. /\ monotonic \in Nat /\ Shaped(t, monotonic) /\ Fading(t, published, gone)
      /\ Finding(t, published, caches) /\ t.pc = "match" /\ Flying(t) /\ t.outcome = "none"
      /\ t.token \in Tokens /\ t.token.iss \in Issuers /\ t.uses \in Threads
  BY <1>1 DEF JwksInv, Match, Flying, Shaped
<1>3. t.again \in BOOLEAN /\ t.steady \in BOOLEAN /\ t.rival \in BOOLEAN
  BY DEF Thread
<1>4. CASE t.token.kid \in t.seen.kids
  <2>1. PICK n : n = [t EXCEPT !.pc = "decode"]
    OBVIOUS
  <2>2. threads' = [threads EXCEPT ![th] = n] /\ caches' = caches
    BY <1>1, <1>4, <2>1 DEF Match
  <2>3. /\ n \in Thread /\ n.pc = "decode" /\ n.seen = t.seen /\ n.token = t.token
        /\ n.uses = t.uses /\ n.since = t.since /\ n.again = t.again
        /\ n.steady = t.steady /\ n.rival = t.rival /\ n.outcome = t.outcome
    BY <2>1 DEF Thread
  <2>4. Shaped(n, monotonic)
    BY <1>2, <2>3 DEF Shaped, Flying
  <2>5. Fading(n, published, gone)
    BY <1>2, <1>4, <2>3 DEF Fading
  <2>6. Finding(n, published, caches)
    BY <1>2, <2>3 DEF Finding, Flying
  <2> QED BY <2>2, <2>3, <2>4, <2>5, <2>6, OneThread DEF Match
<1>5. CASE t.token.kid \notin t.seen.kids /\ t.again
  <2>1. End(th, "unmatched") /\ caches' = caches
    BY <1>1, <1>5 DEF Match
  <2>2. t.steady => t.rival
    BY <1>2, <1>5 DEF Finding
  <2> QED BY <1>1, <1>2, <2>1, <2>2, EndedOK DEF Match
<1>6. CASE t.token.kid \notin t.seen.kids /\ ~ t.again
  <2>1. PICK cs : cs = caches'
    OBVIOUS
  <2>2. cs = [caches EXCEPT ![t.uses][t.token.iss] = Empty]
    BY <1>1, <1>6, <2>1 DEF Match
  <2>3. Empty \in Entry /\ Empty.exp = 0 /\ Empty.kids = {}
    BY DEF Empty, Entry
  <2>4. /\ cs \in [Threads -> [Issuers -> Entry]] /\ DOMAIN cs = Threads
        /\ cs[t.uses][t.token.iss] = Empty
        /\ \A u \in Threads, i \in Issuers : cs[u][i] \in {caches[u][i], Empty}
    BY <1>2, <2>2, <2>3 DEF JwksInv
  <2>5. \A u \in Threads, i \in Issuers : RowOK(cs[u][i], i, monotonic, published, gone)
    <3> SUFFICES ASSUME NEW u \in Threads, NEW i \in Issuers
                 PROVE  RowOK(cs[u][i], i, monotonic, published, gone)
      OBVIOUS
    <3>1. RowOK(caches[u][i], i, monotonic, published, gone)
      BY DEF JwksInv
    <3>2. RowOK(Empty, i, monotonic, published, gone)
      BY <1>2, <2>3 DEF RowOK
    <3> QED BY <2>4, <3>1, <3>2
  <2>6. PICK n : n = [t EXCEPT !.pc = "get", !.again = TRUE, !.seen = Empty]
    OBVIOUS
  <2>7. threads' = [threads EXCEPT ![th] = n]
    BY <1>1, <1>6, <2>6 DEF Match
  <2>8. /\ n \in Thread /\ n.pc = "get" /\ n.seen = Empty /\ n.token = t.token
        /\ n.uses = t.uses /\ n.since = t.since /\ n.again = TRUE
        /\ n.steady = t.steady /\ n.rival = t.rival /\ n.outcome = t.outcome
    BY <2>3, <2>6 DEF Thread
  <2>9. Shaped(n, monotonic) /\ Fading(n, published, gone)
    BY <1>2, <2>3, <2>8 DEF Shaped, Fading, Flying
  <2>10. Finding(n, published, cs)
    BY <1>2, <2>3, <2>4, <2>8 DEF Finding, Flying
  <2>11. ASSUME NEW o \in Threads, o # th
         PROVE  /\ Shaped(threads[o], monotonic) /\ Fading(threads[o], published, gone)
                /\ Finding(threads[o], published, cs)
    <3>1. /\ Shaped(threads[o], monotonic) /\ Fading(threads[o], published, gone)
          /\ Finding(threads[o], published, caches)
      BY DEF JwksInv
    <3>2. ASSUME Flying(threads[o]), threads[o].token.iss \in Issuers
          PROVE  cs[threads[o].uses][threads[o].token.iss]
                   \in {caches[threads[o].uses][threads[o].token.iss], Empty}
      BY <2>4, <3>1, <3>2 DEF Shaped
    <3> QED BY <1>2, <3>1, <3>2, LeftAlone
  <2>12. threads' \in [Threads -> Thread]
    BY <2>7, <2>8 DEF JwksInv
  <2>13. \A o \in Threads : /\ Shaped(threads'[o], monotonic) /\ Fading(threads'[o], published, gone)
                            /\ Finding(threads'[o], published, caches')
    BY <2>1, <2>7, <2>9, <2>10, <2>11 DEF JwksInv
  <2>14. /\ monotonic' = monotonic /\ published' = published /\ gone' = gone
         /\ resolver' = resolver
    BY DEF Match
  <2> QED BY <2>1, <2>4, <2>5, <2>12, <2>13, <2>14 DEF JwksInv
<1> QED BY <1>4, <1>5, <1>6

\* Time passes.
LEMMA JwksTickKeeps == ASSUME JwksInv, JwksTick PROVE JwksInv'
<1>1. monotonic \in Nat /\ monotonic' = monotonic + 1
  BY DEF JwksInv, JwksTick
<1>2. /\ published' = published /\ gone' = gone /\ caches' = caches
      /\ threads' = threads /\ resolver' = resolver
  BY DEF JwksTick
<1>3. \A i \in Issuers, k \in Kids : gone[i][k] <= monotonic'
  BY <1>1 DEF JwksInv
<1>4. \A u \in Threads, i \in Issuers : RowOK(caches[u][i], i, monotonic', published, gone)
  <2> SUFFICES ASSUME NEW u \in Threads, NEW i \in Issuers
               PROVE  RowOK(caches[u][i], i, monotonic', published, gone)
    OBVIOUS
  <2>1. RowOK(caches[u][i], i, monotonic, published, gone)
    BY DEF JwksInv
  <2>2. caches[u][i].exp \in Nat
    BY <2>1 DEF RowOK, Entry
  <2> QED BY <1>1, <2>1, <2>2 DEF RowOK
<1>5. \A o \in Threads : /\ Shaped(threads[o], monotonic') /\ Fading(threads[o], published, gone)
                         /\ Finding(threads[o], published, caches)
  <2> SUFFICES ASSUME NEW o \in Threads
               PROVE  /\ Shaped(threads[o], monotonic') /\ Fading(threads[o], published, gone)
                      /\ Finding(threads[o], published, caches)
    OBVIOUS
  <2>1. /\ Shaped(threads[o], monotonic) /\ Fading(threads[o], published, gone)
        /\ Finding(threads[o], published, caches)
    BY DEF JwksInv
  <2>2. PICK later \in Nat : later = monotonic' /\ monotonic <= later
    BY <1>1
  <2> QED BY <1>1, <2>1, <2>2, LeftAlone
<1> QED BY <1>1, <1>2, <1>3, <1>4, <1>5 DEF JwksInv

-----------------------------------------------------------------------------
\* Whatever counts as published before a rotation does so after it.
Carried(pub, gn, pub2, gn2, clock) ==
  \A j \in Issuers, k \in Kids, time \in Int :
    time <= clock =>
      /\ Since(pub, gn, j, k, time) => Since(pub2, gn2, j, k, time)
      /\ Lasting(pub, gn, j, k, time) => Lasting(pub2, gn2, j, k, time)

\* What was published since some time or lately, was so after a rotation too.
LEMMA RotationLasts ==
  ASSUME JwksInv, NEW i \in Issuers, NEW kids \in SUBSET Kids, Rotate(i, kids)
  PROVE  /\ published' \in [Issuers -> SUBSET Kids] /\ gone' \in [Issuers -> [Kids -> Int]]
         /\ \A j \in Issuers, k \in Kids : gone'[j][k] <= monotonic
         /\ Carried(published, gone, published', gone', monotonic)
<1>1. /\ published' \in [Issuers -> SUBSET Kids] /\ gone' \in [Issuers -> [Kids -> Int]]
      /\ monotonic \in Nat
  BY DEF JwksInv, Rotate
<1>2. ASSUME NEW j \in Issuers, NEW k \in Kids
      PROVE  /\ gone'[j][k] \in Int /\ gone[j][k] \in Int /\ gone'[j][k] <= monotonic
             /\ gone[j][k] <= gone'[j][k]
             /\ k \in published[j] => k \in published'[j] \/ gone'[j][k] = monotonic
  BY DEF JwksInv, Rotate
<1>3. ASSUME NEW j \in Issuers, NEW k \in Kids, NEW time \in Int, time <= monotonic
      PROVE  /\ Since(published, gone, j, k, time) => Since(published', gone', j, k, time)
             /\ Lasting(published, gone, j, k, time) => Lasting(published', gone', j, k, time)
  BY <1>1, <1>2, <1>3 DEF Since, Lasting
<1> QED BY <1>1, <1>2, <1>3 DEF Carried

\* A call with a token of that issuer stays steady while the kid is published.
LEMMA RotatedThread ==
  ASSUME NEW r \in Thread, NEW n, NEW i \in Issuers, NEW kids \in SUBSET Kids, NEW clock \in Nat,
         NEW pub, NEW gn, NEW cs, NEW pub2, NEW gn2,
         NEW st \in BOOLEAN, st = TRUE => r.steady = TRUE,
         n = [r EXCEPT !.steady = st],
         r.token.iss = i /\ st = TRUE => r.token.kid \in pub2[i],
         r.token.iss # i => pub2[r.token.iss] = pub[r.token.iss],
         Carried(pub, gn, pub2, gn2, clock),
         Shaped(r, clock), Fading(r, pub, gn), Finding(r, pub, cs)
  PROVE  n \in Thread /\ Shaped(n, clock) /\ Fading(n, pub2, gn2) /\ Finding(n, pub2, cs)
<1>1. /\ n \in Thread /\ n.pc = r.pc /\ n.seen = r.seen /\ n.token = r.token
      /\ n.uses = r.uses /\ n.since = r.since /\ n.again = r.again
      /\ n.steady = st /\ n.rival = r.rival /\ n.outcome = r.outcome
  BY DEF Thread
<1>2. Shaped(n, clock)
  BY <1>1 DEF Shaped, Flying
<1>3. r.since \in Nat /\ r.seen.exp \in Nat /\ r.seen.kids \in SUBSET Kids
  BY DEF Thread, Entry
<1>4. /\ r.since \in Int /\ r.since <= clock
      /\ r.seen.exp - Ttl \in Int /\ r.seen.exp - Ttl <= clock
  BY <1>3 DEF Shaped
<1>5. ASSUME r.pc \in {"clock", "put", "match", "decode"} \/ r.outcome = "accepted"
      PROVE  r.token.iss \in Issuers /\ r.token.kid \in Kids
  <2>1. r.token \in Tokens /\ r.token.iss \in Issuers
    BY <1>5 DEF Shaped, Flying
  <2> QED BY <2>1, TokensAssumption
<1>6. Fading(n, pub2, gn2)
  <2>1. ASSUME r.pc = "clock", NEW k \in r.seen.kids
        PROVE  Since(pub2, gn2, r.token.iss, k, r.seen.exp - Ttl)
    BY <1>3, <1>4, <1>5, <2>1 DEF Fading, Carried
  <2>2. ASSUME r.pc = "put", NEW k \in r.seen.kids
        PROVE  Since(pub2, gn2, r.token.iss, k, r.since)
    BY <1>3, <1>4, <1>5, <2>2 DEF Fading, Carried
  <2>3. ASSUME r.pc = "match", NEW k \in r.seen.kids
        PROVE  Lasting(pub2, gn2, r.token.iss, k, r.since)
    BY <1>3, <1>4, <1>5, <2>3 DEF Fading, Carried
  <2>4. ASSUME r.pc = "decode" \/ r.outcome = "accepted"
        PROVE  Lasting(pub2, gn2, r.token.iss, r.token.kid, r.since)
    BY <1>4, <1>5, <2>4 DEF Fading, Carried
  <2>5. r.outcome = "accepted" => r.token.by = r.token.iss
    BY DEF Fading
  <2> QED BY <1>1, <2>1, <2>2, <2>3, <2>4, <2>5 DEF Fading
<1>7. Finding(n, pub2, cs)
  <2>1. r.steady \in BOOLEAN /\ r.again \in BOOLEAN /\ r.rival \in BOOLEAN
    BY DEF Thread
  <2>2. ASSUME Flying(n), n.steady PROVE n.token.iss \in Issuers /\ n.token.kid \in pub2[n.token.iss]
    <3>1. Flying(r) /\ r.steady /\ st = TRUE
      BY <1>1, <2>1, <2>2 DEF Flying
    <3>2. r.token.iss \in Issuers /\ r.token.kid \in pub[r.token.iss]
      BY <3>1 DEF Finding
    <3> QED BY <1>1, <3>1, <3>2
  <2>3. ASSUME Flying(n), n.steady, n.again, ~ n.rival
        PROVE  /\ n.pc = "get" => \/ n.token.kid \in cs[n.uses][n.token.iss].kids
                                  \/ cs[n.uses][n.token.iss].exp = 0
               /\ n.pc = "clock" => n.token.kid \in n.seen.kids \/ n.seen.exp = 0
               /\ n.pc \in {"put", "match"} => n.token.kid \in n.seen.kids
    <3>1. Flying(r) /\ r.steady /\ r.again /\ ~ r.rival
      BY <1>1, <2>1, <2>3 DEF Flying
    <3> QED BY <1>1, <3>1 DEF Finding
  <2>4. n.outcome = "unmatched" /\ n.steady => n.rival
    BY <1>1, <2>1 DEF Finding
  <2> QED BY <2>2, <2>3, <2>4 DEF Finding
<1> QED BY <1>1, <1>2, <1>6, <1>7

\* An issuer rotates its keys.
LEMMA RotateKeeps ==
  ASSUME JwksInv, NEW i \in Issuers, NEW kids \in SUBSET Kids, Rotate(i, kids)
  PROVE  JwksInv'
<1>1. PICK pub2, gn2 : pub2 = published' /\ gn2 = gone'
  OBVIOUS
<1>2. /\ pub2 = [published EXCEPT ![i] = kids]
      /\ gn2 = [gone EXCEPT ![i] = [k \in Kids |-> IF k \in published[i] \ kids THEN monotonic ELSE @[k]]]
  BY <1>1 DEF Rotate
<1>3. /\ monotonic \in Nat /\ published \in [Issuers -> SUBSET Kids]
      /\ gone \in [Issuers -> [Kids -> Int]]
      /\ \A j \in Issuers, k \in Kids : gone[j][k] <= monotonic
  BY DEF JwksInv
<1>4. /\ pub2 \in [Issuers -> SUBSET Kids] /\ gn2 \in [Issuers -> [Kids -> Int]]
      /\ \A j \in Issuers, k \in Kids : gn2[j][k] <= monotonic
      /\ Carried(published, gone, pub2, gn2, monotonic)
  <2>1. /\ published' \in [Issuers -> SUBSET Kids] /\ gone' \in [Issuers -> [Kids -> Int]]
        /\ \A j \in Issuers, k \in Kids : gone'[j][k] <= monotonic
        /\ Carried(published, gone, published', gone', monotonic)
    BY RotationLasts
  <2> QED BY <1>1, <2>1
<1>5. ASSUME NEW u \in Threads, NEW j \in Issuers
      PROVE  RowOK(caches[u][j], j, monotonic, pub2, gn2)
  <2>1. RowOK(caches[u][j], j, monotonic, published, gone)
    BY DEF JwksInv
  <2>2. caches[u][j].exp \in Nat /\ caches[u][j].kids \in SUBSET Kids
    BY <2>1 DEF RowOK, Entry
  <2>3. caches[u][j].exp - Ttl \in Int /\ caches[u][j].exp - Ttl <= monotonic
    BY <1>3, <2>1, <2>2 DEF RowOK
  <2> QED BY <1>4, <2>1, <2>2, <2>3 DEF RowOK, Carried
<1>6. ASSUME NEW o \in Threads
      PROVE  /\ threads'[o] \in Thread
             /\ Shaped(threads'[o], monotonic) /\ Fading(threads'[o], pub2, gn2)
             /\ Finding(threads'[o], pub2, caches)
  <2>1. PICK r \in Thread : r = threads[o]
    BY DEF JwksInv
  <2>2. Shaped(r, monotonic) /\ Fading(r, published, gone) /\ Finding(r, published, caches)
    BY <2>1 DEF JwksInv
  <2>3. PICK st \in BOOLEAN : st = IF r.token.iss = i THEN r.steady /\ r.token.kid \in kids
                                   ELSE r.steady
    BY DEF Thread
  <2>4. PICK n : n = [r EXCEPT !.steady = st]
    OBVIOUS
  <2>5. threads'[o] = n
    <3>1. CASE r.token.iss = i
      <4>1. threads'[o] = [r EXCEPT !.steady = r.steady /\ r.token.kid \in kids]
        BY <2>1, <3>1 DEF Rotate
      <4> QED BY <2>3, <2>4, <3>1, <4>1
    <3>2. CASE r.token.iss # i
      <4>1. threads'[o] = r /\ st = r.steady
        BY <2>1, <2>3, <3>2 DEF Rotate
      <4> QED BY <2>4, <4>1 DEF Thread
    <3> QED BY <3>1, <3>2
  <2>6. st = TRUE => r.steady = TRUE
    BY <2>3 DEF Thread
  <2>7. r.token.iss = i /\ st = TRUE => r.token.kid \in pub2[i]
    BY <1>2, <1>3, <2>3
  <2>8. r.token.iss # i => pub2[r.token.iss] = published[r.token.iss]
    BY <1>2, <1>3
  <2>9. n \in Thread /\ Shaped(n, monotonic) /\ Fading(n, pub2, gn2) /\ Finding(n, pub2, caches)
    BY <1>3, <1>4, <2>2, <2>4, <2>6, <2>7, <2>8, RotatedThread, Zenon
  <2> QED BY <2>5, <2>9
<1>7. threads' \in [Threads -> Thread]
  <2>1. threads' = [o \in Threads |-> threads'[o]]
    BY DEF Rotate
  <2> QED BY <1>6, <2>1
<1>8. monotonic' = monotonic /\ caches' = caches /\ resolver' = resolver
  BY DEF Rotate
<1> QED BY <1>1, <1>3, <1>4, <1>5, <1>6, <1>7, <1>8 DEF JwksInv

-----------------------------------------------------------------------------
\* What the caches and the calls under way hold stays so.
LEMMA JwksInvCorrect == JwksSpec => []JwksInv
<1>1. JwksInv /\ [JwksNext]_jwksVars => JwksInv'
  <2> SUFFICES ASSUME JwksInv, [JwksNext]_jwksVars PROVE JwksInv'
    OBVIOUS
  <2>1. CASE JwksTick
    BY <2>1, JwksTickKeeps
  <2>2. ASSUME NEW i \in Issuers, NEW kids \in SUBSET Kids, Rotate(i, kids) PROVE JwksInv'
    BY <2>2, RotateKeeps
  <2>3. ASSUME NEW th \in Threads, Step(th) PROVE JwksInv'
    BY <2>3, BeginKeeps, BuildKeeps, GetKeeps, ClockKeeps, FetchKeeps, PutKeeps,
       MatchKeeps, DecodeKeeps DEF Step
  <2>4. CASE UNCHANGED jwksVars
    BY <2>4 DEF jwksVars, JwksInv
  <2> QED BY <2>1, <2>2, <2>3, <2>4 DEF JwksNext
<1> QED BY JwksStart, <1>1, PTL DEF JwksSpec

\* A key that its issuer has withdrawn is accepted no longer than the entry of
\* the cache lasts, for any number of threads, resolvers and rotations.
THEOREM KeysFade == JwksSpec => []WithdrawnKeysFade
<1>1. JwksInv => WithdrawnKeysFade
  <2> SUFFICES ASSUME JwksInv PROVE WithdrawnKeysFade
    OBVIOUS
  <2>1. ASSUME NEW th \in Threads, threads[th].outcome = "accepted"
        PROVE  /\ threads[th].token.by = threads[th].token.iss
               /\ Lasting(published, gone, threads[th].token.iss, threads[th].token.kid, threads[th].since)
    BY <2>1 DEF JwksInv, Fading
  <2> QED BY <2>1 DEF WithdrawnKeysFade, JwksInv, Lasting, Since
<1> QED BY JwksInvCorrect, <1>1, PTL

\* A token whose key was published during the whole call is refused for want of
\* the key only when another thread filled the cache between the two looks.
THEOREM SteadyKeysFound == JwksSpec => []RefusalsHaveCause
<1>1. JwksInv => RefusalsHaveCause
  BY DEF JwksInv, Finding, RefusalsHaveCause
<1> QED BY JwksInvCorrect, <1>1, PTL
=============================================================================
