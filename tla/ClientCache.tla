---------------------------- MODULE ClientCache ----------------------------
(***************************************************************************)
(* The permission cache of the Python SDK (AuthzClient, authz_sdk/          *)
(* client.py) and the agent guards filled from it (authz_sdk/agent_session  *)
(* .py, authzkit/agents/guard.py), while the service changes its mind.      *)
(*                                                                         *)
(* One client is shared by the threads of an application and has no lock.  *)
(* Each step is one operation on the OrderedDict, or the moment at which   *)
(* the service handles an attempt of a request.  A key stands for tenant,  *)
(* application, subject and delegation token; what the service would       *)
(* answer for it is a set of permissions.  A thread that starts an agent   *)
(* session holds its guard.                                                *)
(***************************************************************************)
EXTENDS Integers, Sequences, FiniteSets

CONSTANTS Threads,
          Keys,          \* cache keys: records of tenant, app and subject
          Perms,
          None,
          Ttl,           \* cache_ttl_seconds
          MaxEntries,    \* cache_max_entries
          MaxRetries,    \* max_retries
          MaxClock, MaxChanges, MaxCalls   \* bounds on the clock, changes of mind, calls

ASSUME KeysAssumption ==
  \A k \in Keys : {"tenant", "app"} \subseteq DOMAIN k /\ None \notin {k.tenant, k.app}
ASSUME BoundsAssumption ==
  /\ Ttl \in Nat \ {0} /\ MaxEntries \in Nat /\ MaxRetries \in Nat
  /\ MaxClock \in Nat /\ MaxChanges \in Nat /\ MaxCalls \in Nat
ASSUME ThreadsAssumption == IsFiniteSet(Threads)

VARIABLES now,
          truth,    \* what the service grants
          changed,  \* history: when a grant last changed
          changes, calls,  \* how many there were
          cache,    \* _cache, by key
          order,    \* the keys of _cache, least recently used first
          threads

vars == <<now, truth, changed, changes, calls, cache, order, threads>>

\* exp: expires_at.  History: read, when the service worked the set out; put,
\* when it was cached; doomed, the threads whose invalidation under way or over
\* found the entry in the cache.
Entry == [perms : SUBSET Perms, exp : Nat, read : Nat, put : Nat, doomed : SUBSET Threads]
NoEntry == [perms |-> {}, exp |-> 0, read |-> 0, put |-> 0, doomed |-> {}]
Guard == [key : Keys, perms : SUBSET Perms]

\* entry: what a lookup found; got: the answer on its way or given, late: it had
\* been in the cache for the TTL; todo: keys
\* still to be dropped; want: the permission asked for, critical: with
\* revalidation, held: the service granted it at some moment since.
Thread ==
  [pc : {"idle", "lookup", "found", "ask", "served", "insert", "settle", "size", "evict",
         "drop", "done"},
   call : {"none", "get", "session", "require", "invalidate"},
   key : Keys \union {None}, entry : Entry, got : Entry, late : BOOLEAN,
   attempts : 0..MaxRetries, want : Perms \union {None}, critical : BOOLEAN, held : BOOLEAN,
   todo : SUBSET Keys, guard : Guard \union {None},
   outcome : {"none", "answer", "raised", "admitted", "denied", "over"}]

\* A key was assigned and the put is not finished.
Putting == {"settle", "size", "evict"}

Idle(guard) ==
  [pc |-> "idle", call |-> "none", key |-> None, entry |-> NoEntry, got |-> NoEntry,
   late |-> FALSE, attempts |-> 0, want |-> None,
   critical |-> FALSE, held |-> FALSE, todo |-> {}, guard |-> guard, outcome |-> "none"]

\* A free thread makes a call.
Start(th) ==
  /\ threads[th].pc \in {"idle", "done"}
  /\ calls < MaxCalls /\ calls' = calls + 1

Stored == {order[i] : i \in DOMAIN order}

\* The key is unlinked from the order, if it is there.
Without(k) ==
  IF k \notin Stored THEN order
  ELSE LET at == CHOOSE i \in DOMAIN order : order[i] = k
       IN  SubSeq(order, 1, at - 1) \o SubSeq(order, at + 1, Len(order))

Go(th, pc) == threads' = [threads EXCEPT ![th].pc = pc]
End(th, outcome) ==
  threads' = [threads EXCEPT ![th] = [Idle(@.guard) EXCEPT !.pc = "done", !.outcome = outcome,
                                      !.call = threads[th].call]]

-----------------------------------------------------------------------------
Init ==
  /\ now = 0
  /\ truth = [k \in Keys |-> Perms]
  /\ changed = [k \in Keys |-> [p \in Perms |-> 0]]
  /\ changes = 0 /\ calls = 0
  /\ cache = [k \in Keys |-> NoEntry]
  /\ order = <<>>
  /\ threads = [th \in Threads |-> Idle(None)]

Tick ==
  /\ now < MaxClock
  /\ now' = now + 1
  /\ UNCHANGED <<truth, changed, changes, calls, cache, order, threads>>

\* An administrator grants or withdraws; a request under way notices.
Change(k, perms) ==
  /\ changes < MaxChanges /\ perms # truth[k]
  /\ changes' = changes + 1
  /\ truth' = [truth EXCEPT ![k] = perms]
  /\ changed' = [changed EXCEPT ![k] =
       [p \in Perms |-> IF (p \in perms) = (p \in truth[k]) THEN @[p] ELSE now]]
  /\ threads' = [th \in Threads |->
       IF threads[th].key = k /\ threads[th].want \in perms
       THEN [threads[th] EXCEPT !.held = TRUE] ELSE threads[th]]
  /\ UNCHANGED <<now, calls, cache, order>>

-----------------------------------------------------------------------------
(* get_effective_permissions *)

\* A call, on its own or as the preload of start_agent_session; bypass_cache
\* skips the lookup.
Get(th, call, k, bypass) ==
  /\ Start(th)
  /\ call = "session" => ~ bypass
  /\ threads' = [threads EXCEPT ![th] =
       [Idle(@.guard) EXCEPT !.pc = IF bypass THEN "ask" ELSE "lookup", !.call = call, !.key = k]]
  /\ UNCHANGED <<now, truth, changed, changes, cache, order>>

\* What a call returns; a session keeps it as its guard.
Answered(t, got, late) ==
  [Idle(IF t.call = "session" THEN [key |-> t.key, perms |-> got.perms] ELSE t.guard)
     EXCEPT !.pc = "done", !.outcome = "answer", !.call = t.call, !.key = t.key,
            !.got = [got EXCEPT !.exp = 0, !.put = 0, !.doomed = {}],
            !.late = late]

\* _cache_get: self._cache.get(key)
Lookup(th) ==
  LET t == threads[th] IN
  /\ t.pc = "lookup"
  /\ threads' = [threads EXCEPT ![th] =
       IF t.key \in Stored THEN [t EXCEPT !.pc = "found", !.entry = cache[t.key]]
       ELSE [t EXCEPT !.pc = "ask"]]
  /\ UNCHANGED <<now, truth, changed, changes, calls, cache, order>>

\* Mutation: a hit starts the lifetime of the entry again.
FoundSliding(th) ==
  LET t == threads[th] IN
  /\ t.pc = "found" /\ t.entry.exp > now /\ t.key \in Stored
  /\ order' = Append(Without(t.key), t.key)
  /\ cache' = [cache EXCEPT ![t.key].exp = now + Ttl]
  /\ threads' = [threads EXCEPT ![th] = Answered(t, t.entry, now >= t.entry.put + Ttl)]
  /\ UNCHANGED <<now, truth, changed, changes, calls>>

\* _cache_get, the rest: an expired entry is dropped, whatever is stored by now;
\* move_to_end raises when another thread has dropped the key since the lookup.
Found(th) ==
  LET t == threads[th] IN
  /\ t.pc = "found"
  /\ \/ /\ t.entry.exp <= now
        /\ order' = Without(t.key)
        /\ cache' = [cache EXCEPT ![t.key] = NoEntry]
        /\ Go(th, "ask")
     \/ /\ t.entry.exp > now /\ t.key \in Stored
        /\ order' = Append(Without(t.key), t.key)
        /\ threads' = [threads EXCEPT ![th] = Answered(t, t.entry, now >= t.entry.put + Ttl)]
        /\ UNCHANGED cache
     \/ /\ t.entry.exp > now /\ t.key \notin Stored
        /\ End(th, "raised")
        /\ UNCHANGED <<cache, order>>
  /\ UNCHANGED <<now, truth, changed, changes, calls>>

-----------------------------------------------------------------------------
(* _request: attempts until one is answered *)

\* The service handles the attempt.
Serve(th) ==
  /\ threads[th].pc = "ask"
  /\ threads' = [threads EXCEPT ![th] =
       [@ EXCEPT !.pc = "served",
                 !.got = [NoEntry EXCEPT !.perms = truth[threads[th].key], !.read = now]]]
  /\ UNCHANGED <<now, truth, changed, changes, calls, cache, order>>

\* A transport error, before the service handled the attempt or after, or a 5xx:
\* again, until max_retries; then the call raises.
Fail(th) ==
  LET t == threads[th] IN
  /\ t.pc \in {"ask", "served"}
  /\ IF t.attempts < MaxRetries
     THEN threads' = [threads EXCEPT ![th] =
            [t EXCEPT !.pc = "ask", !.attempts = t.attempts + 1, !.got = NoEntry]]
     ELSE End(th, "raised")
  /\ UNCHANGED <<now, truth, changed, changes, calls, cache, order>>

\* A 4xx is raised at once.
Reject(th) ==
  /\ threads[th].pc = "ask"
  /\ End(th, "raised")
  /\ UNCHANGED <<now, truth, changed, changes, calls, cache, order>>

\* The answer arrives: a set to be cached, or the decision a guard asked for.
Receive(th) ==
  LET t == threads[th] IN
  /\ t.pc = "served"
  /\ IF t.call = "require"
     THEN threads' = [threads EXCEPT ![th] =
            [t EXCEPT !.pc = "done", !.got = NoEntry,
                      !.outcome = IF t.want \in t.got.perms THEN "admitted" ELSE "denied"]]
     ELSE Go(th, "insert")
  /\ UNCHANGED <<now, truth, changed, changes, calls, cache, order>>

\* _cache_put: the assignment; a key that is there keeps its place.
Insert(th) ==
  LET t == threads[th]
      entry == [t.got EXCEPT !.exp = now + Ttl, !.put = now]
  IN
  /\ t.pc = "insert"
  /\ cache' = [cache EXCEPT ![t.key] = entry]
  /\ order' = IF t.key \in Stored THEN order ELSE Append(order, t.key)
  /\ threads' = [threads EXCEPT ![th] = [t EXCEPT !.pc = "settle", !.got = entry]]
  /\ UNCHANGED <<now, truth, changed, changes, calls>>

\* move_to_end, which raises if the key is gone.
Settle(th) ==
  LET t == threads[th] IN
  /\ t.pc = "settle"
  /\ IF t.key \notin Stored THEN End(th, "raised") /\ UNCHANGED order
     ELSE order' = Append(Without(t.key), t.key) /\ Go(th, "size")
  /\ UNCHANGED <<now, truth, changed, changes, calls, cache>>

\* Mutation: the new key is not counted.
SizeEarly(th) ==
  LET t == threads[th] IN
  /\ t.pc = "size"
  /\ IF Len(order) > MaxEntries + 1 THEN Go(th, "evict")
     ELSE threads' = [threads EXCEPT ![th] = Answered(t, t.got, FALSE)]
  /\ UNCHANGED <<now, truth, changed, changes, calls, cache, order>>

\* The loop: the size is looked at,
Size(th) ==
  LET t == threads[th] IN
  /\ t.pc = "size"
  /\ IF Len(order) > MaxEntries THEN Go(th, "evict")
     ELSE threads' = [threads EXCEPT ![th] = Answered(t, t.got, FALSE)]
  /\ UNCHANGED <<now, truth, changed, changes, calls, cache, order>>

\* and the oldest key is dropped: popitem raises when others have dropped all.
Evict(th) ==
  /\ threads[th].pc = "evict"
  /\ IF order = <<>> THEN End(th, "raised") /\ UNCHANGED <<cache, order>>
     ELSE /\ order' = Tail(order)
          /\ cache' = [cache EXCEPT ![Head(order)] = NoEntry]
          /\ Go(th, "size")
  /\ UNCHANGED <<now, truth, changed, changes, calls>>

-----------------------------------------------------------------------------
(* cache_invalidate *)

Covers(tenant, app, k) == tenant \in {None, k.tenant} /\ app \in {None, k.app}

\* Mutation: a call without an application matches no key.
InvalidateExact(th, tenant, app) ==
  /\ Start(th)
  /\ threads' = [threads EXCEPT ![th] =
       [Idle(@.guard) EXCEPT !.pc = "drop", !.call = "invalidate",
                             !.todo = {k \in Stored : Covers(tenant, None, k) /\ app = k.app}]]
  /\ cache' = [k \in Keys |-> IF k \in Stored /\ Covers(tenant, app, k)
                              THEN [cache[k] EXCEPT !.doomed = @ \union {th}] ELSE cache[k]]
  /\ UNCHANGED <<now, truth, changed, changes, order>>

\* keys = list(self._cache.keys()), of which the matching ones are to go.
Invalidate(th, tenant, app) ==
  LET hit == {k \in Stored : Covers(tenant, app, k)} IN
  /\ Start(th)
  /\ threads' = [threads EXCEPT ![th] =
       [Idle(@.guard) EXCEPT !.pc = "drop", !.call = "invalidate", !.todo = hit]]
  /\ cache' = [k \in Keys |-> IF k \in Stored /\ Covers(tenant, app, k)
                              THEN [cache[k] EXCEPT !.doomed = @ \union {th}] ELSE cache[k]]
  /\ UNCHANGED <<now, truth, changed, changes, order>>

\* self._cache.pop(k, None), one key after the other.
Drop(th) ==
  LET t == threads[th] IN
  /\ t.pc = "drop"
  /\ \/ /\ t.todo = {}
        /\ End(th, "over")
        /\ UNCHANGED <<cache, order>>
     \/ \E k \in t.todo :
          /\ order' = Without(k)
          /\ cache' = [cache EXCEPT ![k] = NoEntry]
          /\ threads' = [threads EXCEPT ![th].todo = @ \ {k}]
  /\ UNCHANGED <<now, truth, changed, changes, calls>>

-----------------------------------------------------------------------------
(* AgentGuard.require *)

\* Mutation: the snapshot decides critical actions too.
RequireSnapshot(th, p, critical) ==
  LET t == threads[th] IN
  /\ Start(th) /\ t.guard # None
  /\ threads' = [threads EXCEPT ![th] =
       [Idle(t.guard) EXCEPT !.call = "require", !.key = t.guard.key, !.want = p,
          !.critical = critical, !.held = p \in truth[t.guard.key], !.pc = "done",
          !.outcome = IF p \in t.guard.perms THEN "admitted" ELSE "denied"]]
  /\ UNCHANGED <<now, truth, changed, changes, cache, order>>

\* The snapshot decides; a critical action is asked for again, by authorize(),
\* which is not cached.
Require(th, p, critical) ==
  LET t == threads[th] IN
  /\ Start(th) /\ t.guard # None
  /\ threads' = [threads EXCEPT ![th] =
       [Idle(t.guard) EXCEPT !.call = "require", !.key = t.guard.key, !.want = p,
          !.held = p \in truth[t.guard.key],
          !.pc = IF p \in t.guard.perms /\ critical THEN "ask" ELSE "done",
          !.critical = critical,
          !.outcome = IF p \notin t.guard.perms THEN "denied"
                      ELSE IF critical THEN "none" ELSE "admitted"]]
  /\ UNCHANGED <<now, truth, changed, changes, cache, order>>

-----------------------------------------------------------------------------
Step(th) ==
  \/ \E call \in {"get", "session"}, k \in Keys, bypass \in BOOLEAN : Get(th, call, k, bypass)
  \/ Lookup(th) \/ Found(th) \/ Serve(th) \/ Fail(th) \/ Reject(th) \/ Receive(th)
  \/ Insert(th) \/ Settle(th) \/ Size(th) \/ Evict(th)
  \/ \E k \in Keys : \/ Invalidate(th, None, None) \/ Invalidate(th, k.tenant, None)
                     \/ Invalidate(th, k.tenant, k.app)
  \/ Drop(th)
  \/ \E p \in Perms, critical \in BOOLEAN : Require(th, p, critical)

Next ==
  \/ Tick
  \/ \E k \in Keys, perms \in SUBSET Perms : Change(k, perms)
  \/ \E th \in Threads : Step(th)

Spec == Init /\ [][Next]_vars

-----------------------------------------------------------------------------
(* Properties *)

\* get_effective_permissions may answer with the past, but not with any past: what
\* it says of a permission was so when the service was asked or later, and a set
\* from the cache was put there less than the TTL before, however often it was
\* used, moved or overwritten meanwhile.
AnswersBounded ==
  \A th \in Threads :
    LET t == threads[th] IN
    t.outcome = "answer" =>
      /\ \A p \in Perms : (p \in t.got.perms) # (p \in truth[t.key])
                          => changed[t.key][p] >= t.got.read
      /\ ~ t.late

\* Once cache_invalidate has returned, no entry is left that it was called to
\* drop, though other threads kept reading, filling and evicting; what is there
\* was put since.
InvalidationHolds ==
  \A th \in Threads :
    threads[th].outcome = "over" => \A k \in Stored : th \notin cache[k].doomed

\* A critical action of an agent is admitted only if the service granted it at
\* some moment of the call, however old the snapshot of the guard and the cache
\* it came from, and whatever attempts were lost.
CriticalActionsCurrent ==
  \A th \in Threads :
    threads[th].outcome = "admitted" /\ threads[th].critical => threads[th].held

\* Every state is of its type; the cache holds at most cache_max_entries keys,
\* each once, besides those whose put is not finished.
CacheBounded ==
  /\ now \in 0..MaxClock /\ changes \in 0..MaxChanges /\ calls \in 0..MaxCalls
  /\ truth \in [Keys -> SUBSET Perms] /\ changed \in [Keys -> [Perms -> Nat]]
  /\ cache \in [Keys -> Entry] /\ order \in Seq(Keys) /\ threads \in [Threads -> Thread]
  /\ Len(order) = Cardinality(Stored)
  /\ Len(order) <= MaxEntries + Cardinality({th \in Threads : threads[th].pc \in Putting})

-----------------------------------------------------------------------------
(* What makes them inductive *)

\* Where a thread is fits the call it is in.
Placed(t) ==
  /\ t.pc \in {"lookup", "found", "insert"} \union Putting => t.call \in {"get", "session"} /\ t.key \in Keys
  /\ t.pc \in {"ask", "served"} => t.call \in {"get", "session", "require"} /\ t.key \in Keys
  /\ t.pc = "drop" => t.call = "invalidate"
  /\ t.outcome # "none" <=> t.pc = "done"
  /\ t.outcome = "answer" => t.key \in Keys

CacheTypeOK ==
  /\ now \in 0..MaxClock /\ changes \in 0..MaxChanges /\ calls \in 0..MaxCalls
  /\ truth \in [Keys -> SUBSET Perms] /\ changed \in [Keys -> [Perms -> Nat]]
  /\ cache \in [Keys -> Entry] /\ order \in Seq(Keys) /\ threads \in [Threads -> Thread]
  /\ \A th \in Threads : Placed(threads[th])

\* An answer on its way, in the cache or given: what it says of a permission was
\* so when the service worked it out, or has changed since.
Dated(e, granted, since, at) ==
  /\ e.read <= at
  /\ \A p \in Perms : (p \in e.perms) # (p \in granted) => since[p] >= e.read

\* It expires the TTL after it was put.
Timed(e) == e.exp \in {0, e.put + Ttl}

ThreadDated(t, tr, ch, at) ==
  /\ t.pc = "found" => Dated(t.entry, tr[t.key], ch[t.key], at) /\ Timed(t.entry)
  /\ t.pc \in {"served", "insert"} \union Putting => Dated(t.got, tr[t.key], ch[t.key], at)
  /\ t.outcome = "answer" => Dated(t.got, tr[t.key], ch[t.key], at) /\ ~ t.late

AnswersDated ==
  /\ \A k \in Keys : Dated(cache[k], truth[k], changed[k], now) /\ Timed(cache[k])
  /\ \A th \in Threads : ThreadDated(threads[th], truth, changed, now)

\* An entry that an invalidation found is still to be dropped by it.
DoomedAreDue ==
  /\ \A th \in Threads, k \in Keys :
       th \in cache[k].doomed => threads[th].pc = "drop" /\ k \in threads[th].todo
  /\ \A th \in Threads :
       threads[th].pc \in {"served", "insert"} \union Putting => threads[th].got.doomed = {}

\* A thread that revalidates a permission knows whether it was granted meanwhile.
Revalidated(t, tr) ==
  /\ t.call = "require" /\ t.pc \in {"ask", "served"} /\ t.want \in tr[t.key] => t.held
  /\ t.call = "require" /\ t.pc = "served" /\ t.want \in t.got.perms => t.held
  /\ t.outcome = "admitted" /\ t.critical => t.held
RevalidationsHeld ==
  \A th \in Threads : Revalidated(threads[th], truth)

\* The keys whose put is not finished: without them the cache fits.
Settling == {threads[th].key : th \in {x \in Threads : threads[x].pc \in Putting}}
OthersFit ==
  /\ \A i, j \in DOMAIN order : order[i] = order[j] => i = j
  /\ Cardinality(Stored \ Settling) <= MaxEntries

CacheInv == CacheTypeOK /\ AnswersDated /\ DoomedAreDue /\ RevalidationsHeld /\ OthersFit
=============================================================================
