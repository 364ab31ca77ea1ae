-------------------------- MODULE RequestPathProofs --------------------------
(***************************************************************************)
(* Proofs about what a request meets on its way, for any number of callers *)
(* and operations and any value of the limits: the cache of the SDK        *)
(* (ClientCache), then the retries, the replay store and the rate limiter  *)
(* (RequestFront).  The two have no variable in common.                    *)
(***************************************************************************)
EXTENDS ClientCache, RequestFront, FiniteSetTheorems, SequenceTheorems, TLAPS

USE BoundsAssumption DEF Putting

(***************************************************************************)
(* The threads that the steps make.                                        *)
(***************************************************************************)

Ended(t, o) == [Idle(t.guard) EXCEPT !.pc = "done", !.outcome = o, !.call = t.call]
Getting(g, c, k, p) == [Idle(g) EXCEPT !.pc = p, !.call = c, !.key = k]
Invalidating(g, ks) == [Idle(g) EXCEPT !.pc = "drop", !.call = "invalidate", !.todo = ks]
Requiring(g, p, critical, held, pc, o) ==
  [Idle(g) EXCEPT !.call = "require", !.key = g.key, !.want = p, !.held = held,
                  !.pc = pc, !.critical = critical, !.outcome = o]
Going(t, p) == [t EXCEPT !.pc = p]
Finding(t, e) == [t EXCEPT !.pc = "found", !.entry = e]
Asking(t, p, i, e) == [t EXCEPT !.pc = p, !.attempts = i, !.got = e]
Decided(t, o) == [t EXCEPT !.pc = "done", !.got = NoEntry, !.outcome = o]
Dropping(t, ks) == [t EXCEPT !.todo = ks]
Noticing(t) == [t EXCEPT !.held = TRUE]

LEMMA NoEntryType == NoEntry \in Entry
  BY DEF NoEntry, Entry

\* A call that is over without an answer.
LEMMA EndedFields ==
  ASSUME NEW t \in Thread, NEW o \in {"raised", "over"},
         NEW n, n = Ended(t, o)
  PROVE  n \in Thread /\ Placed(n) /\ n.pc = "done" /\ n.outcome = o
<1>1. PICK g, c : /\ g = t.guard /\ g \in Guard \union {None}
                  /\ c = t.call /\ c \in {"none", "get", "session", "require", "invalidate"}
  BY DEF Thread
<1>2. n = [pc |-> "done", call |-> c, key |-> None, entry |-> NoEntry, got |-> NoEntry,
           late |-> FALSE, attempts |-> 0, want |-> None, critical |-> FALSE, held |-> FALSE,
           todo |-> {}, guard |-> g, outcome |-> o]
  BY <1>1 DEF Idle, Ended
<1>3. g \in Guard \union {None} /\ c \in {"none", "get", "session", "require", "invalidate"}
  BY <1>1
<1>4. [pc |-> "done", call |-> c, key |-> None, entry |-> NoEntry, got |-> NoEntry,
       late |-> FALSE, attempts |-> 0, want |-> None, critical |-> FALSE, held |-> FALSE,
       todo |-> {}, guard |-> g, outcome |-> o] \in Thread
  BY <1>3, NoEntryType DEF Thread
<1>5. n \in Thread
  BY <1>2, <1>4
<1> QED
  BY <1>2, <1>5 DEF Placed

\* A call that has an answer.
LEMMA AnsweredFields ==
  ASSUME NEW t \in Thread, t.key \in Keys, t.call \in {"get", "session"},
         NEW e \in Entry, NEW late \in BOOLEAN, NEW n, n = Answered(t, e, late)
  PROVE  /\ n \in Thread /\ Placed(n) /\ n.pc = "done" /\ n.outcome = "answer" /\ n.key = t.key
         /\ n.got.perms = e.perms /\ n.got.read = e.read /\ n.late = late
<1>1. PICK g : g = IF t.call = "session" THEN [key |-> t.key, perms |-> e.perms] ELSE t.guard
  OBVIOUS
<1>2. g \in Guard \union {None}
  BY <1>1 DEF Guard, Thread, Entry
<1>3. PICK a : a = [e EXCEPT !.exp = 0, !.put = 0, !.doomed = {}]
  OBVIOUS
<1>4. a \in Entry /\ a.perms = e.perms /\ a.read = e.read
  BY <1>3 DEF Entry
<1>5. n = [Idle(g) EXCEPT !.pc = "done", !.outcome = "answer", !.call = t.call, !.key = t.key,
                          !.got = a, !.late = late]
  BY <1>1, <1>3 DEF Answered
<1>6. n = [pc |-> "done", call |-> t.call, key |-> t.key, entry |-> NoEntry, got |-> a,
           late |-> late, attempts |-> 0, want |-> None, critical |-> FALSE, held |-> FALSE,
           todo |-> {}, guard |-> g, outcome |-> "answer"]
  BY <1>5 DEF Idle
<1>7. n \in Thread
  BY <1>2, <1>4, <1>6, NoEntryType DEF Thread
<1> QED
  BY <1>4, <1>6, <1>7 DEF Placed

\* A call of get_effective_permissions, on its own or of a session.
LEMMA GetFields ==
  ASSUME NEW g \in Guard \union {None}, NEW c \in {"get", "session"}, NEW k \in Keys,
         NEW p \in {"ask", "lookup"}, NEW n, n = Getting(g, c, k, p)
  PROVE  n \in Thread /\ Placed(n) /\ n.pc = p /\ n.call = c /\ n.outcome = "none"
<1>1. n = [pc |-> p, call |-> c, key |-> k, entry |-> NoEntry, got |-> NoEntry,
           late |-> FALSE, attempts |-> 0, want |-> None, critical |-> FALSE,
           held |-> FALSE, todo |-> {}, guard |-> g, outcome |-> "none"]
  BY DEF Idle, Getting
<1>2. PICK m : m = [pc |-> p, call |-> c, key |-> k, entry |-> NoEntry, got |-> NoEntry,
                    late |-> FALSE, attempts |-> 0, want |-> None, critical |-> FALSE,
                    held |-> FALSE, todo |-> {}, guard |-> g, outcome |-> "none"]
  OBVIOUS
<1>3. n = m
  BY <1>1, <1>2
<1>4. m \in Thread
  BY <1>2, NoEntryType DEF Thread
<1>5. Placed(m) /\ m.pc = p /\ m.call = c /\ m.outcome = "none"
  BY <1>2 DEF Placed
<1> QED
  BY <1>3, <1>4, <1>5

\* A call of cache_invalidate.
LEMMA InvalidateFields ==
  ASSUME NEW g \in Guard \union {None}, NEW ks \in SUBSET Keys,
         NEW n, n = Invalidating(g, ks)
  PROVE  /\ n \in Thread /\ Placed(n) /\ n.pc = "drop" /\ n.call = "invalidate" /\ n.todo = ks
         /\ n.outcome = "none"
<1>1. n = [pc |-> "drop", call |-> "invalidate", key |-> None, entry |-> NoEntry,
           got |-> NoEntry, late |-> FALSE, attempts |-> 0, want |-> None,
           critical |-> FALSE, held |-> FALSE, todo |-> ks, guard |-> g, outcome |-> "none"]
  BY DEF Idle, Invalidating
<1>2. PICK m : m = [pc |-> "drop", call |-> "invalidate", key |-> None, entry |-> NoEntry,
                    got |-> NoEntry, late |-> FALSE, attempts |-> 0, want |-> None,
                    critical |-> FALSE, held |-> FALSE, todo |-> ks, guard |-> g, outcome |-> "none"]
  OBVIOUS
<1>3. n = m
  BY <1>1, <1>2
<1>4. m \in Thread
  BY <1>2, NoEntryType DEF Thread
<1>5. Placed(m) /\ m.pc = "drop" /\ m.call = "invalidate" /\ m.todo = ks /\ m.outcome = "none"
  BY <1>2 DEF Placed
<1> QED
  BY <1>3, <1>4, <1>5

\* A guard is asked: it has decided, or asks the service.
LEMMA RequireFields ==
  ASSUME NEW g \in Guard, NEW p \in Perms, NEW critical \in BOOLEAN, NEW held \in BOOLEAN,
         NEW pc, NEW o, (pc = "ask" /\ o = "none") \/ (pc = "done" /\ o \in {"admitted", "denied"}),
         NEW n, n = Requiring(g, p, critical, held, pc, o)
  PROVE  /\ n \in Thread /\ Placed(n) /\ n.pc = pc /\ n.call = "require" /\ n.key = g.key
         /\ n.want = p /\ n.held = held /\ n.critical = critical /\ n.outcome = o
<1>1. n = [pc |-> pc, call |-> "require", key |-> g.key, entry |-> NoEntry, got |-> NoEntry,
           late |-> FALSE, attempts |-> 0, want |-> p, critical |-> critical, held |-> held,
           todo |-> {}, guard |-> g, outcome |-> o]
  BY DEF Idle, Requiring
<1>2. PICK k \in Keys : k = g.key
  BY DEF Guard
<1>3. /\ pc \in {"idle", "lookup", "found", "ask", "served", "insert", "settle", "size", "evict",
                "drop", "done"}
      /\ o \in {"none", "answer", "raised", "admitted", "denied", "over"}
  OBVIOUS
<1>4. [pc |-> pc, call |-> "require", key |-> k, entry |-> NoEntry, got |-> NoEntry,
       late |-> FALSE, attempts |-> 0, want |-> p, critical |-> critical, held |-> held,
       todo |-> {}, guard |-> g, outcome |-> o] \in Thread
  BY <1>2, <1>3, NoEntryType DEF Thread
<1>5. n \in Thread
  BY <1>1, <1>2, <1>4
<1> QED
  BY <1>1, <1>2, <1>5 DEF Placed

\* A thread goes on with its call.
LEMMA GoFields ==
  ASSUME NEW t \in Thread, Placed(t), t.pc \in {"lookup", "found", "served"} \union Putting,
         NEW p, \/ p = "ask" \/ (p = "insert" /\ t.pc = "served" /\ t.call # "require")
                \/ p \in {"size", "evict"} /\ t.pc \in Putting,
         NEW n, n = Going(t, p)
  PROVE  /\ n \in Thread /\ Placed(n) /\ n.pc = p /\ n.call = t.call /\ n.key = t.key /\ n.got = t.got
         /\ n.want = t.want /\ n.held = t.held /\ n.outcome = "none"
<1>1. /\ n \in Thread /\ n.pc = p /\ n.call = t.call /\ n.key = t.key /\ n.got = t.got
      /\ n.want = t.want /\ n.held = t.held /\ n.outcome = t.outcome
  BY DEF Thread, Going
<1>2. t.outcome = "none"
  BY DEF Placed
<1> QED
  BY <1>1, <1>2 DEF Placed

LEMMA FoundFields ==
  ASSUME NEW t \in Thread, Placed(t), t.pc = "lookup", NEW e \in Entry,
         NEW n, n = Finding(t, e)
  PROVE  /\ n \in Thread /\ Placed(n) /\ n.pc = "found" /\ n.call = t.call /\ n.key = t.key
         /\ n.entry = e /\ n.outcome = "none"
<1>1. /\ n \in Thread /\ n.pc = "found" /\ n.call = t.call /\ n.key = t.key
      /\ n.entry = e /\ n.outcome = t.outcome
  BY DEF Thread, Finding
<1> QED
  BY <1>1 DEF Placed

LEMMA ServedFields ==
  ASSUME NEW t \in Thread, Placed(t), t.pc \in {"ask", "served", "insert"}, NEW e \in Entry,
         NEW p, (p \in {"served", "ask"} /\ t.pc # "insert") \/ (p = "settle" /\ t.pc = "insert"),
         NEW i \in 0..MaxRetries, NEW n, n = Asking(t, p, i, e)
  PROVE  /\ n \in Thread /\ Placed(n) /\ n.pc = p /\ n.call = t.call /\ n.key = t.key
         /\ n.got = e /\ n.want = t.want /\ n.held = t.held /\ n.outcome = "none"
<1>1. /\ n \in Thread /\ n.pc = p /\ n.call = t.call /\ n.key = t.key
      /\ n.got = e /\ n.want = t.want /\ n.held = t.held /\ n.outcome = t.outcome
  BY DEF Thread, Asking
<1> QED
  BY <1>1 DEF Placed

LEMMA DecidedFields ==
  ASSUME NEW t \in Thread, Placed(t), t.pc = "served", NEW o \in {"admitted", "denied"},
         NEW n, n = Decided(t, o)
  PROVE  /\ n \in Thread /\ Placed(n) /\ n.pc = "done" /\ n.held = t.held /\ n.outcome = o
<1>1. n \in Thread /\ n.pc = "done" /\ n.held = t.held /\ n.outcome = o
  BY NoEntryType DEF Thread, Decided
<1> QED
  BY <1>1 DEF Placed

LEMMA DroppedFields ==
  ASSUME NEW t \in Thread, Placed(t), t.pc = "drop", NEW ks \in SUBSET t.todo,
         NEW n, n = Dropping(t, ks)
  PROVE  /\ n \in Thread /\ Placed(n) /\ n.pc = "drop" /\ n.call = t.call /\ n.todo = ks
         /\ n.outcome = "none"
<1>1. /\ n \in Thread /\ n.pc = t.pc /\ n.call = t.call /\ n.todo = ks /\ n.outcome = t.outcome
  BY DEF Thread, Dropping
<1> QED
  BY <1>1 DEF Placed

LEMMA HeldFields ==
  ASSUME NEW t \in Thread, Placed(t), NEW n, n = Noticing(t)
  PROVE  /\ n \in Thread /\ Placed(n) /\ n.pc = t.pc /\ n.call = t.call /\ n.key = t.key
         /\ n.entry = t.entry /\ n.got = t.got /\ n.late = t.late /\ n.want = t.want
         /\ n.todo = t.todo /\ n.critical = t.critical /\ n.held = TRUE /\ n.outcome = t.outcome
<1>1. /\ n \in Thread /\ n.pc = t.pc /\ n.call = t.call /\ n.key = t.key
      /\ n.entry = t.entry /\ n.got = t.got /\ n.late = t.late /\ n.want = t.want
      /\ n.todo = t.todo /\ n.critical = t.critical /\ n.held = TRUE /\ n.outcome = t.outcome
  BY DEF Thread, Noticing
<1> QED
  BY <1>1 DEF Placed

(***************************************************************************)
(* What a step of a thread has to see to, and that it is enough.           *)
(***************************************************************************)

\* The thread after the step.
NextThread(n) ==
  /\ n \in Thread /\ Placed(n)
  /\ ThreadDated(n, truth, changed, now)
  /\ Revalidated(n, truth)
  /\ n.pc \in {"served", "insert"} \union Putting => n.got.doomed = {}

\* The cache after the step in which thread th becomes n.
NextCache(th, n) ==
  /\ cache' \in [Keys -> Entry]
  /\ \A k \in Keys : Dated(cache'[k], truth[k], changed[k], now) /\ Timed(cache'[k])
  /\ \A k \in Keys, x \in Threads :
       x \in cache'[k].doomed => IF x = th THEN n.pc = "drop" /\ k \in n.todo
                                           ELSE x \in cache[k].doomed

EachOnce(s) == \A i, j \in DOMAIN s : s[i] = s[j] => i = j
Elements(s) == {s[i] : i \in DOMAIN s}

\* Until its put is finished, a thread goes on with the key, unless that is gone.
StillPutting(th, n) ==
  threads[th].pc \in Putting =>
    threads[th].key \notin Stored \/ (n.pc \in Putting /\ n.key = threads[th].key)

\* The order after the step: it fits, or only the key that th is putting is new.
NextOrder(th, n) ==
  /\ order' \in Seq(Keys) /\ EachOnce(order')
  /\ \/ Len(order') <= MaxEntries
     \/ /\ StillPutting(th, n)
        /\ \A k \in Elements(order') : k \in Stored \/ (n.pc \in Putting /\ k = n.key)

LEMMA NoEntryDated ==
  ASSUME NEW granted, NEW since \in [Perms -> Nat], NEW at \in Nat
  PROVE  Dated(NoEntry, granted, since, at) /\ Timed(NoEntry) /\ NoEntry.doomed = {}
BY DEF NoEntry, Dated, Timed

LEMMA StoredFinite ==
  ASSUME NEW s \in Seq(Keys)
  PROVE  /\ IsFiniteSet(Elements(s)) /\ Elements(s) \subseteq Keys
         /\ Cardinality(Elements(s)) <= Len(s)
         /\ EachOnce(s) => Cardinality(Elements(s)) = Len(s)
<1>1. Len(s) \in Nat /\ DOMAIN s = 1..Len(s) /\ s \in [1..Len(s) -> Keys]
  OBVIOUS
<1>2. IsFiniteSet(1..Len(s)) /\ Cardinality(1..Len(s)) = Len(s)
  BY <1>1, FS_Interval
<1>3. Elements(s) \subseteq Keys
  BY <1>1 DEF Elements
<1>4. s \in Surjection(1..Len(s), Elements(s))
  BY <1>1 DEF Surjection, Elements
<1>5. IsFiniteSet(Elements(s)) /\ Cardinality(Elements(s)) <= Len(s)
  BY <1>2, <1>4, FS_Surjection
<1>6. ASSUME EachOnce(s) PROVE Cardinality(Elements(s)) = Len(s)
  <2>1. s \in Injection(1..Len(s), Elements(s))
    BY <1>1, <1>4, <1>6 DEF Injection, IsInjective, Surjection, EachOnce
  <2> QED
    BY <2>1, <1>2, <1>4, FS_Surjection
<1> QED
  BY <1>3, <1>5, <1>6

LEMMA StepTypes ==
  ASSUME CacheInv, NEW th \in Threads, NEW n, NextThread(n), NextCache(th, n), NextOrder(th, n),
         threads' = [threads EXCEPT ![th] = n], UNCHANGED <<now, truth, changed, changes>>,
         calls' \in 0..MaxCalls
  PROVE  CacheTypeOK'
<1>1. threads' \in [Threads -> Thread] /\ \A x \in Threads : threads'[x] = IF x = th THEN n ELSE threads[x]
  BY DEF CacheInv, CacheTypeOK, NextThread
<1>2. \A x \in Threads : Placed(threads'[x])
  BY <1>1 DEF CacheInv, CacheTypeOK, NextThread
<1> QED
  BY <1>1, <1>2 DEF CacheInv, CacheTypeOK, NextCache, NextOrder

LEMMA StepDates ==
  ASSUME CacheInv, NEW th \in Threads, NEW n, NextThread(n), NextCache(th, n),
         threads' = [threads EXCEPT ![th] = n], UNCHANGED <<now, truth, changed, changes>>
  PROVE  AnswersDated' /\ DoomedAreDue' /\ RevalidationsHeld'
<1>1. \A x \in Threads : threads'[x] = IF x = th THEN n ELSE threads[x]
  BY DEF CacheInv, CacheTypeOK
<1>2. \A k \in Keys : Dated(cache'[k], truth'[k], changed'[k], now') /\ Timed(cache'[k])
  BY DEF NextCache
<1>3. ASSUME NEW x \in Threads PROVE ThreadDated(threads'[x], truth', changed', now')
  <2>1. ThreadDated(threads'[x], truth, changed, now)
    BY <1>1 DEF CacheInv, AnswersDated, NextThread
  <2> QED
    BY <2>1
<1>4. AnswersDated'
  BY <1>2, <1>3 DEF AnswersDated
<1>5. ASSUME NEW x \in Threads, NEW k \in Keys, x \in cache'[k].doomed
      PROVE  threads'[x].pc = "drop" /\ k \in threads'[x].todo
  BY <1>1, <1>5 DEF CacheInv, DoomedAreDue, NextCache
<1>6. ASSUME NEW x \in Threads, threads'[x].pc \in {"served", "insert"} \union Putting
      PROVE  threads'[x].got.doomed = {}
  BY <1>1, <1>6 DEF CacheInv, DoomedAreDue, NextThread
<1>7. DoomedAreDue'
  BY <1>5, <1>6 DEF DoomedAreDue
<1>8. ASSUME NEW x \in Threads PROVE Revalidated(threads'[x], truth')
  <2>1. Revalidated(threads'[x], truth)
    BY <1>1 DEF CacheInv, RevalidationsHeld, NextThread
  <2> QED
    BY <2>1
<1> QED
  BY <1>4, <1>7, <1>8 DEF RevalidationsHeld

LEMMA StepFits ==
  ASSUME CacheInv, NEW th \in Threads, NEW n, NextOrder(th, n), threads' = [threads EXCEPT ![th] = n]
  PROVE  OthersFit'
<1>1. \A x \in Threads : threads'[x] = IF x = th THEN n ELSE threads[x]
  BY DEF CacheInv, CacheTypeOK
<1>2. order \in Seq(Keys) /\ order' \in Seq(Keys)
  BY DEF CacheInv, CacheTypeOK, NextOrder
<1>3. Stored = Elements(order) /\ Stored' = Elements(order')
  BY DEF Stored, Elements
<1>4. /\ IsFiniteSet(Stored) /\ IsFiniteSet(Stored')
      /\ Cardinality(Stored') <= Len(order') /\ Cardinality(Stored') \in Nat
  BY <1>2, <1>3, StoredFinite, FS_CardinalityType
<1>5. \A i, j \in DOMAIN order' : order'[i] = order'[j] => i = j
  BY DEF NextOrder, EachOnce
<1>6. CASE Len(order') <= MaxEntries
  <2>1. PICK T : T = Stored' \ Settling'
    OBVIOUS
  <2>2. Cardinality(T) <= Cardinality(Stored') /\ Cardinality(T) \in Nat
    BY <2>1, <1>4, FS_Subset, FS_CardinalityType
  <2> QED
    BY <2>1, <2>2, <1>2, <1>4, <1>5, <1>6 DEF OthersFit
<1>7. CASE /\ StillPutting(th, n)
           /\ \A k \in Elements(order') : k \in Stored \/ (n.pc \in Putting /\ k = n.key)
  <2>1. PICK S, T : S = Stored \ Settling /\ T = Stored' \ Settling'
    OBVIOUS
  <2>2. ASSUME NEW k, k \in T PROVE k \in S
    <3>1. k \in Stored' /\ k \notin Settling'
      BY <2>1, <2>2
    <3>2. k \in Stored \/ (n.pc \in Putting /\ k = n.key)
      BY <3>1, <1>3, <1>7
    <3>3. \A x \in Threads : threads'[x].pc \in Putting => threads'[x].key # k
      BY <3>1 DEF Settling
    <3>4. k \in Stored
      BY <3>2, <3>3, <1>1
    <3>5. \A x \in Threads : threads[x].pc \in Putting => threads[x].key # k
      BY <3>3, <3>4, <1>1, <1>7 DEF StillPutting
    <3> QED
      BY <2>1, <3>4, <3>5 DEF Settling
  <2>3. IsFiniteSet(S) /\ Cardinality(S) \in Nat
    BY <2>1, <1>4, FS_Subset, FS_CardinalityType
  <2>4. Cardinality(T) <= Cardinality(S) /\ Cardinality(T) \in Nat
    BY <2>2, <2>3, FS_Subset, FS_CardinalityType
  <2>5. Cardinality(S) <= MaxEntries
    BY <2>1 DEF CacheInv, OthersFit
  <2>6. Cardinality(T) <= MaxEntries
    BY <2>3, <2>4, <2>5
  <2> QED
    BY <2>1, <2>6, <1>5 DEF OthersFit
<1> QED
  BY <1>6, <1>7 DEF NextOrder

LEMMA StepEnough ==
  ASSUME CacheInv, NEW th \in Threads, NEW n, NextThread(n), NextCache(th, n), NextOrder(th, n),
         threads' = [threads EXCEPT ![th] = n], UNCHANGED <<now, truth, changed, changes>>,
         calls' \in 0..MaxCalls
  PROVE  CacheInv'
BY StepTypes, StepDates, StepFits DEF CacheInv

\* A thread that drops nothing leaves a good cache as it was.
LEMMA CacheKept ==
  ASSUME CacheInv, NEW th \in Threads, NEW n, cache' = cache,
         threads[th].pc = "drop" => threads[th].todo = {}
  PROVE  NextCache(th, n)
<1>1. cache' \in [Keys -> Entry]
  BY DEF CacheInv, CacheTypeOK
<1>2. \A k \in Keys : Dated(cache'[k], truth[k], changed[k], now) /\ Timed(cache'[k])
  BY DEF CacheInv, AnswersDated
<1>3. \A k \in Keys : th \notin cache'[k].doomed
  BY DEF CacheInv, DoomedAreDue
<1> QED
  BY <1>1, <1>2, <1>3 DEF NextCache

LEMMA OrderKept ==
  ASSUME CacheInv, NEW th \in Threads, NEW n, order' = order, StillPutting(th, n)
  PROVE  NextOrder(th, n)
<1>1. order' \in Seq(Keys)
  BY DEF CacheInv, CacheTypeOK
<1>2. EachOnce(order')
  BY DEF CacheInv, OthersFit, EachOnce
<1>3. \A k \in Elements(order') : k \in Stored
  BY DEF Elements, Stored
<1> QED
  BY <1>1, <1>2, <1>3 DEF NextOrder

(***************************************************************************)
(* The order of the cache.                                                 *)
(***************************************************************************)

LEMMA WithoutOne ==
  ASSUME order \in Seq(Keys), EachOnce(order), NEW k
  PROVE  /\ Without(k) \in Seq(Keys) /\ EachOnce(Without(k))
         /\ Elements(Without(k)) \subseteq Stored \ {k}
<1>1. CASE k \notin Stored
  BY <1>1 DEF Without, Stored, Elements
<1>2. CASE k \in Stored
  <2>1. PICK at \in DOMAIN order :
          /\ order[at] = k
          /\ Without(k) = SubSeq(order, 1, at - 1) \o SubSeq(order, at + 1, Len(order))
    BY <1>2 DEF Without, Stored
  <2>2. PICK a, b, w : /\ a = SubSeq(order, 1, at - 1) /\ b = SubSeq(order, at + 1, Len(order))
                       /\ w = a \o b
    OBVIOUS
  <2>3. PICK l \in Nat : /\ l = Len(order) /\ at \in 1..l /\ DOMAIN order = 1..l
                         /\ \A i \in 1..l : order[i] \in Keys
    OBVIOUS
  <2>4. a \in Seq(Keys) /\ Len(a) = at - 1 /\ \A i \in 1..(at - 1) : a[i] = order[i]
    <3>1. at - 1 \in Int /\ \A i \in 1..(at - 1) : order[i] \in Keys
      BY <2>3
    <3>2. /\ SubSeq(order, 1, at - 1) \in Seq(Keys)
          /\ Len(SubSeq(order, 1, at - 1)) = IF 1 <= at - 1 THEN at - 1 - 1 + 1 ELSE 0
          /\ \A i \in 1..(at - 1 - 1 + 1) : SubSeq(order, 1, at - 1)[i] = order[1 + i - 1]
      BY <3>1, SubSeqProperties
    <3> QED
      BY <3>2, <2>2, <2>3
  <2>5. b \in Seq(Keys) /\ Len(b) = l - at /\ \A i \in 1..(l - at) : b[i] = order[at + i]
    <3>1. at + 1 \in Int /\ \A i \in (at + 1)..l : order[i] \in Keys
      BY <2>3
    <3>2. /\ SubSeq(order, at + 1, l) \in Seq(Keys)
          /\ Len(SubSeq(order, at + 1, l)) = IF at + 1 <= l THEN l - (at + 1) + 1 ELSE 0
          /\ \A i \in 1..(l - (at + 1) + 1) : SubSeq(order, at + 1, l)[i] = order[(at + 1) + i - 1]
      BY <3>1, <2>3, SubSeqProperties
    <3> QED
      BY <3>2, <2>2, <2>3
  <2>6. /\ w \in Seq(Keys) /\ Len(w) = l - 1
        /\ \A i \in 1..(l - 1) : w[i] = IF i <= at - 1 THEN a[i] ELSE b[i - (at - 1)]
    <3>1. /\ a \o b \in Seq(Keys) /\ Len(a \o b) = Len(a) + Len(b)
          /\ \A i \in 1..Len(a) + Len(b) : (a \o b)[i] = IF i <= Len(a) THEN a[i] ELSE b[i - Len(a)]
      BY <2>4, <2>5, ConcatProperties
    <3>2. Len(a) = at - 1 /\ Len(b) = l - at
      BY <2>4, <2>5
    <3>3. at - 1 \in Int /\ (at - 1) + (l - at) = l - 1
      BY <2>3
    <3>4. Len(a) + Len(b) = l - 1
      BY <3>2, <3>3
    <3> QED
      BY <3>1, <3>2, <3>4, <2>2
  <2>7. ASSUME NEW i \in 1..(l - 1)
        PROVE  /\ i < at => w[i] = order[i]
               /\ ~ (i < at) => w[i] = order[i + 1]
    <3>1. CASE i < at
      BY <3>1, <2>3, <2>4, <2>6
    <3>2. CASE ~ (i < at)
      <4>1. i - (at - 1) \in 1..(l - at) /\ at + (i - (at - 1)) = i + 1
        BY <3>2, <2>3
      <4>2. w[i] = b[i - (at - 1)]
        BY <3>2, <2>3, <2>6
      <4>3. b[i - (at - 1)] = order[at + (i - (at - 1))]
        BY <4>1, <2>5
      <4> QED
        BY <3>2, <4>1, <4>2, <4>3
    <3> QED
      BY <3>1, <3>2
  <2> DEFINE was(i) == IF i < at THEN i ELSE i + 1
  <2>10. \A i \in 1..(l - 1) : was(i) \in 1..l /\ was(i) # at /\ w[i] = order[was(i)]
    BY <2>3, <2>7
  <2>11. \A i, j \in 1..(l - 1) : was(i) = was(j) => i = j
    BY <2>3
  <2>12. DOMAIN w = 1..(l - 1)
    BY <2>6
  <2> HIDE DEF was
  <2>8. EachOnce(w)
    BY <2>3, <2>10, <2>11, <2>12 DEF EachOnce
  <2>9. Elements(w) \subseteq Stored \ {k}
    <3>1. ASSUME NEW i \in 1..(l - 1) PROVE w[i] \in Stored /\ w[i] # k
      BY <2>1, <2>3, <2>10 DEF EachOnce, Stored
    <3> QED
      BY <3>1, <2>12 DEF Elements
  <2> QED
    BY <2>1, <2>2, <2>6, <2>8, <2>9
<1> QED
  BY <1>1, <1>2

\* A new key at the end.
LEMMA AppendOnce ==
  ASSUME NEW s \in Seq(Keys), EachOnce(s), NEW k \in Keys, k \notin Elements(s)
  PROVE  /\ Append(s, k) \in Seq(Keys) /\ EachOnce(Append(s, k)) /\ Len(Append(s, k)) = Len(s) + 1
         /\ Elements(Append(s, k)) \subseteq Elements(s) \union {k}
<1>1. /\ Len(s) \in Nat /\ Append(s, k) \in Seq(Keys) /\ Len(Append(s, k)) = Len(s) + 1
      /\ \A i \in 1..(Len(s) + 1) : Append(s, k)[i] = IF i <= Len(s) THEN s[i] ELSE k
  OBVIOUS
<1>2. DOMAIN Append(s, k) = 1..(Len(s) + 1) /\ DOMAIN s = 1..Len(s)
  BY <1>1
<1>3. \A i \in 1..Len(s) : s[i] # k
  BY <1>2 DEF Elements
<1>4. EachOnce(Append(s, k))
  BY <1>1, <1>2, <1>3 DEF EachOnce
<1>5. Elements(Append(s, k)) \subseteq Elements(s) \union {k}
  BY <1>1, <1>2 DEF Elements
<1> QED
  BY <1>1, <1>4, <1>5

\* An order without its first key.
LEMMA TailOnce ==
  ASSUME NEW s \in Seq(Keys), EachOnce(s), s # <<>>
  PROVE  /\ Head(s) \in Keys /\ Tail(s) \in Seq(Keys) /\ EachOnce(Tail(s))
         /\ Elements(Tail(s)) \subseteq Elements(s)
<1>1. PICK u : u = Tail(s)
  OBVIOUS
<1>2. /\ Head(s) \in Keys /\ u \in Seq(Keys) /\ Len(s) \in Nat
      /\ DOMAIN u = 1..(Len(s) - 1) /\ DOMAIN s = 1..Len(s)
      /\ \A i \in 1..(Len(s) - 1) : u[i] = s[i + 1]
  BY <1>1
<1>3. ASSUME NEW i \in DOMAIN u, NEW j \in DOMAIN u, u[i] = u[j] PROVE i = j
  <2>1. i + 1 \in 1..Len(s) /\ j + 1 \in 1..Len(s) /\ s[i + 1] = s[j + 1]
    BY <1>2, <1>3
  <2>2. i + 1 = j + 1
    BY <2>1, <1>2 DEF EachOnce
  <2> QED
    BY <2>2, <1>2
<1>4. ASSUME NEW i \in DOMAIN u PROVE u[i] \in Elements(s)
  BY <1>2 DEF Elements
<1> QED
  BY <1>1, <1>2, <1>3, <1>4 DEF EachOnce, Elements

(***************************************************************************)
(* Every step keeps the invariant.                                         *)
(***************************************************************************)

\* What the invariant says of one thread.
LEMMA OneThread ==
  ASSUME CacheInv, NEW th \in Threads
  PROVE  /\ threads[th] \in Thread /\ Placed(threads[th]) /\ now \in Nat
         /\ ThreadDated(threads[th], truth, changed, now) /\ Revalidated(threads[th], truth)
         /\ threads[th].pc \in {"served", "insert"} \union Putting => threads[th].got.doomed = {}
         /\ threads[th].guard \in Guard \union {None} /\ threads[th].entry \in Entry
         /\ threads[th].got \in Entry
<1>1. threads[th] \in Thread /\ Placed(threads[th]) /\ now \in Nat
  BY DEF CacheInv, CacheTypeOK
<1>2. ThreadDated(threads[th], truth, changed, now) /\ Revalidated(threads[th], truth)
  BY DEF CacheInv, AnswersDated, RevalidationsHeld
<1>3. threads[th].pc \in {"served", "insert"} \union Putting => threads[th].got.doomed = {}
  BY DEF CacheInv, DoomedAreDue
<1> QED
  BY <1>1, <1>2, <1>3 DEF Thread

\* A thread whose call is over without an answer.
LEMMA EndedNext ==
  ASSUME CacheInv, NEW th \in Threads, NEW o \in {"raised", "over"}, End(th, o)
  PROVE  \E n : NextThread(n) /\ threads' = [threads EXCEPT ![th] = n]
<1>1. PICK n : n = Ended(threads[th], o)
  OBVIOUS
<1>2. threads' = [threads EXCEPT ![th] = n]
  BY <1>1 DEF End, Ended, CacheInv, CacheTypeOK
<1>3. n \in Thread /\ Placed(n) /\ n.pc = "done" /\ n.outcome = o
  BY <1>1, OneThread, EndedFields
<1>4. NextThread(n)
  BY <1>3 DEF NextThread, ThreadDated, Revalidated
<1> QED
  BY <1>2, <1>4

LEMMA GetKeeps ==
  ASSUME CacheInv, NEW th \in Threads, NEW call \in {"get", "session"}, NEW k \in Keys,
         NEW bypass \in BOOLEAN, Get(th, call, k, bypass)
  PROVE  CacheInv'
<1>1. PICK p \in {"ask", "lookup"} : p = IF bypass THEN "ask" ELSE "lookup"
  OBVIOUS
<1>2. PICK g : g = threads[th].guard /\ g \in Guard \union {None}
  BY OneThread
<1>3. PICK n : n = Getting(g, call, k, p)
  OBVIOUS
<1>4. threads' = [threads EXCEPT ![th] = n]
  BY <1>1, <1>2, <1>3 DEF Get, Getting, CacheInv, CacheTypeOK
<1>5. n \in Thread /\ Placed(n) /\ n.pc = p /\ n.call = call /\ n.outcome = "none"
  BY <1>2, <1>3, GetFields
<1>6. NextThread(n)
  BY <1>5 DEF NextThread, ThreadDated, Revalidated
<1>7. /\ cache' = cache /\ order' = order /\ threads[th].pc \in {"idle", "done"}
      /\ calls' \in 0..MaxCalls /\ UNCHANGED <<now, truth, changed, changes>>
  BY DEF Get, Start, CacheInv, CacheTypeOK
<1>8. NextCache(th, n) /\ NextOrder(th, n)
  BY <1>7, CacheKept, OrderKept DEF StillPutting
<1> QED
  BY <1>4, <1>6, <1>7, <1>8, StepEnough

LEMMA LookupKeeps ==
  ASSUME CacheInv, NEW th \in Threads, Lookup(th)
  PROVE  CacheInv'
<1>1. PICK t : t = threads[th] /\ t \in Thread /\ Placed(t) /\ t.pc = "lookup"
  BY OneThread DEF Lookup
<1>2. t.key \in Keys /\ t.call \in {"get", "session"}
  BY <1>1 DEF Placed
<1>3. PICK n : /\ n = IF t.key \in Stored THEN [t EXCEPT !.pc = "found", !.entry = cache[t.key]]
                                          ELSE [t EXCEPT !.pc = "ask"]
               /\ threads' = [threads EXCEPT ![th] = n]
  BY <1>1 DEF Lookup
<1>4. NextThread(n)
  <2>1. CASE t.key \in Stored
    <3>1. PICK e \in Entry : e = cache[t.key]
      BY <1>2 DEF CacheInv, CacheTypeOK
    <3>2. Dated(e, truth[t.key], changed[t.key], now) /\ Timed(e)
      BY <1>2, <3>1 DEF CacheInv, AnswersDated
    <3>3. n = Finding(t, e)
      BY <1>3, <2>1, <3>1 DEF Finding
    <3>4. /\ n \in Thread /\ Placed(n) /\ n.pc = "found" /\ n.call = t.call /\ n.key = t.key
          /\ n.entry = e /\ n.outcome = "none"
      BY <1>1, <3>3, FoundFields
    <3> QED
      BY <1>2, <3>2, <3>4 DEF NextThread, ThreadDated, Revalidated
  <2>2. CASE t.key \notin Stored
    <3>1. n = Going(t, "ask")
      BY <1>3, <2>2 DEF Going
    <3>2. n \in Thread /\ Placed(n) /\ n.pc = "ask" /\ n.call = t.call /\ n.outcome = "none"
      BY <1>1, <3>1, GoFields
    <3> QED
      BY <1>2, <3>2 DEF NextThread, ThreadDated, Revalidated
  <2> QED
    BY <2>1, <2>2
<1>5. /\ cache' = cache /\ order' = order
      /\ calls' \in 0..MaxCalls /\ UNCHANGED <<now, truth, changed, changes>>
  BY DEF Lookup, CacheInv, CacheTypeOK
<1>6. NextCache(th, n) /\ NextOrder(th, n)
  BY <1>1, <1>5, CacheKept, OrderKept DEF StillPutting
<1> QED
  BY <1>3, <1>4, <1>5, <1>6, StepEnough

LEMMA ServeKeeps ==
  ASSUME CacheInv, NEW th \in Threads, Serve(th)
  PROVE  CacheInv'
<1>1. PICK t : t = threads[th] /\ t \in Thread /\ Placed(t) /\ Revalidated(t, truth) /\ t.pc = "ask"
  BY OneThread DEF Serve
<1>2. t.key \in Keys
  BY <1>1 DEF Placed
<1>3. PICK e : e = [NoEntry EXCEPT !.perms = truth[t.key], !.read = now]
  OBVIOUS
<1>4. now \in Nat /\ truth[t.key] \in SUBSET Perms
  BY <1>2 DEF CacheInv, CacheTypeOK
<1>5. e \in Entry /\ e.perms = truth[t.key] /\ e.read = now /\ e.doomed = {}
  BY <1>3, <1>4 DEF NoEntry, Entry
<1>6. PICK n : n = [t EXCEPT !.pc = "served", !.got = e] /\ threads' = [threads EXCEPT ![th] = n]
  BY <1>1, <1>3 DEF Serve, CacheInv, CacheTypeOK
<1>7. PICK i \in 0..MaxRetries : i = t.attempts
  BY <1>1 DEF Thread
<1>8. n = Asking(t, "served", i, e)
  BY <1>1, <1>6, <1>7 DEF Thread, Asking
<1>9. /\ n \in Thread /\ Placed(n) /\ n.pc = "served" /\ n.call = t.call /\ n.key = t.key
      /\ n.got = e /\ n.want = t.want /\ n.held = t.held /\ n.outcome = "none"
  BY <1>1, <1>5, <1>8, ServedFields
<1>10. Dated(n.got, truth[n.key], changed[n.key], now)
  BY <1>4, <1>5, <1>9 DEF Dated
<1>11. Revalidated(n, truth)
  BY <1>1, <1>5, <1>9 DEF Revalidated
<1>12. NextThread(n)
  BY <1>5, <1>9, <1>10, <1>11 DEF NextThread, ThreadDated
<1>13. /\ cache' = cache /\ order' = order
       /\ calls' \in 0..MaxCalls /\ UNCHANGED <<now, truth, changed, changes>>
  BY DEF Serve, CacheInv, CacheTypeOK
<1>14. NextCache(th, n) /\ NextOrder(th, n)
  BY <1>1, <1>13, CacheKept, OrderKept DEF StillPutting
<1> QED
  BY <1>6, <1>12, <1>13, <1>14, StepEnough

LEMMA EndedKeeps ==
  ASSUME CacheInv, NEW th \in Threads, NEW o \in {"raised", "over"}, End(th, o),
         threads[th].pc = "drop" => threads[th].todo = {},
         threads[th].pc \in Putting => threads[th].key \notin Stored,
         UNCHANGED <<now, truth, changed, changes, calls, cache, order>>
  PROVE  CacheInv'
<1>1. PICK n : NextThread(n) /\ threads' = [threads EXCEPT ![th] = n]
  BY EndedNext
<1>2. NextCache(th, n) /\ NextOrder(th, n)
  BY CacheKept, OrderKept DEF StillPutting
<1>3. calls' \in 0..MaxCalls
  BY DEF CacheInv, CacheTypeOK
<1> QED
  BY <1>1, <1>2, <1>3, StepEnough

LEMMA FailKeeps ==
  ASSUME CacheInv, NEW th \in Threads, Fail(th)
  PROVE  CacheInv'
<1>1. PICK t : /\ t = threads[th] /\ t \in Thread /\ Placed(t) /\ Revalidated(t, truth)
               /\ t.pc \in {"ask", "served"}
  BY OneThread DEF Fail
<1>2. CASE t.attempts < MaxRetries
  <2>1. PICK i \in 0..MaxRetries : i = t.attempts + 1
    BY <1>1, <1>2 DEF Thread
  <2>2. PICK n : n = Asking(t, "ask", i, NoEntry)
    OBVIOUS
  <2>3. threads' = [threads EXCEPT ![th] = n]
    <3>1. PICK m : /\ m = [t EXCEPT !.pc = "ask", !.attempts = t.attempts + 1, !.got = NoEntry]
                   /\ threads' = [threads EXCEPT ![th] = m]
      BY <1>1, <1>2 DEF Fail, CacheInv, CacheTypeOK
    <3>2. n = m
      BY <2>1, <2>2, <3>1 DEF Asking
    <3> QED
      BY <3>1, <3>2
  <2>4. /\ n \in Thread /\ Placed(n) /\ n.pc = "ask" /\ n.call = t.call /\ n.key = t.key
        /\ n.want = t.want /\ n.held = t.held /\ n.outcome = "none"
    BY <1>1, <2>2, NoEntryType, ServedFields
  <2>5. Revalidated(n, truth)
    BY <1>1, <2>4 DEF Revalidated
  <2>6. NextThread(n)
    BY <2>4, <2>5 DEF NextThread, ThreadDated
  <2>7. /\ cache' = cache /\ order' = order
        /\ calls' \in 0..MaxCalls /\ UNCHANGED <<now, truth, changed, changes>>
    BY DEF Fail, CacheInv, CacheTypeOK
  <2>8. NextCache(th, n) /\ NextOrder(th, n)
    BY <1>1, <2>7, CacheKept, OrderKept DEF StillPutting
  <2> QED
    BY <2>3, <2>6, <2>7, <2>8, StepEnough
<1>3. CASE ~ (t.attempts < MaxRetries)
  <2>1. End(th, "raised") /\ UNCHANGED <<now, truth, changed, changes, calls, cache, order>>
    BY <1>1, <1>3 DEF Fail
  <2> QED
    BY <1>1, <2>1, EndedKeeps
<1> QED
  BY <1>2, <1>3

LEMMA ReceiveKeeps ==
  ASSUME CacheInv, NEW th \in Threads, Receive(th)
  PROVE  CacheInv'
<1>1. PICK t : /\ t = threads[th] /\ t \in Thread /\ Placed(t) /\ Revalidated(t, truth)
               /\ ThreadDated(t, truth, changed, now) /\ t.pc = "served" /\ t.got.doomed = {}
  BY OneThread DEF Receive
<1>2. /\ cache' = cache /\ order' = order
      /\ calls' \in 0..MaxCalls /\ UNCHANGED <<now, truth, changed, changes>>
  BY DEF Receive, CacheInv, CacheTypeOK
<1>3. \A n : NextCache(th, n) /\ NextOrder(th, n)
  BY <1>1, <1>2, CacheKept, OrderKept DEF StillPutting
<1>4. CASE t.call = "require"
  <2>1. PICK o \in {"admitted", "denied"} : o = IF t.want \in t.got.perms THEN "admitted" ELSE "denied"
    OBVIOUS
  <2>2. PICK n : n = Decided(t, o)
    OBVIOUS
  <2>3. threads' = [threads EXCEPT ![th] = n]
    BY <1>1, <1>4, <2>1, <2>2 DEF Receive, Decided
  <2>4. n \in Thread /\ Placed(n) /\ n.pc = "done" /\ n.held = t.held /\ n.outcome = o
    BY <1>1, <2>2, DecidedFields
  <2>5. o = "admitted" => t.held
    BY <1>1, <1>4, <2>1 DEF Revalidated
  <2>6. NextThread(n)
    BY <2>4, <2>5 DEF NextThread, ThreadDated, Revalidated
  <2> QED
    BY <1>2, <1>3, <2>3, <2>6, StepEnough
<1>5. CASE t.call # "require"
  <2>1. PICK n : n = Going(t, "insert")
    OBVIOUS
  <2>2. threads' = [threads EXCEPT ![th] = n]
    BY <1>1, <1>5, <2>1 DEF Receive, Go, Going
  <2>3. /\ n \in Thread /\ Placed(n) /\ n.pc = "insert" /\ n.call = t.call /\ n.key = t.key
        /\ n.got = t.got /\ n.outcome = "none"
    BY <1>1, <1>5, <2>1, GoFields
  <2>4. NextThread(n)
    BY <1>1, <2>3 DEF NextThread, ThreadDated, Revalidated
  <2> QED
    BY <1>2, <1>3, <2>2, <2>4, StepEnough
<1> QED
  BY <1>4, <1>5

LEMMA RequireKeeps ==
  ASSUME CacheInv, NEW th \in Threads, NEW p \in Perms, NEW critical \in BOOLEAN,
         Require(th, p, critical)
  PROVE  CacheInv'
<1>1. PICK g \in Guard : g = threads[th].guard
  BY OneThread DEF Require
<1>2. PICK held \in BOOLEAN : held <=> p \in truth[g.key]
  <2>1. CASE p \in truth[g.key]
    BY <2>1
  <2>2. CASE p \notin truth[g.key]
    BY <2>2
  <2> QED
    BY <2>1, <2>2
<1>3. PICK pc, o : /\ pc = IF p \in g.perms /\ critical THEN "ask" ELSE "done"
                   /\ o = IF p \notin g.perms THEN "denied" ELSE IF critical THEN "none" ELSE "admitted"
  OBVIOUS
<1>4. (pc = "ask" /\ o = "none") \/ (pc = "done" /\ o \in {"admitted", "denied"})
  BY <1>3
<1>5. o = "admitted" => ~ critical
  BY <1>3
<1>6. PICK n : n = Requiring(g, p, critical, held, pc, o)
  OBVIOUS
<1>7. threads' = [threads EXCEPT ![th] = n]
  BY <1>1, <1>2, <1>3, <1>6 DEF Require, Requiring
<1>8. /\ n \in Thread /\ Placed(n) /\ n.pc = pc /\ n.call = "require" /\ n.key = g.key
      /\ n.want = p /\ n.held = held /\ n.critical = critical /\ n.outcome = o
  BY <1>4, <1>6, RequireFields
<1>9. Revalidated(n, truth)
  BY <1>2, <1>4, <1>5, <1>8 DEF Revalidated
<1>10. NextThread(n)
  BY <1>4, <1>8, <1>9 DEF NextThread, ThreadDated
<1>11. /\ cache' = cache /\ order' = order /\ threads[th].pc \in {"idle", "done"}
       /\ calls' \in 0..MaxCalls /\ UNCHANGED <<now, truth, changed, changes>>
  BY DEF Require, Start, CacheInv, CacheTypeOK
<1>12. NextCache(th, n) /\ NextOrder(th, n)
  BY <1>11, CacheKept, OrderKept DEF StillPutting
<1> QED
  BY <1>7, <1>10, <1>11, <1>12, StepEnough

\* The order of the invariant.
LEMMA OrderOnce ==
  ASSUME CacheInv
  PROVE  order \in Seq(Keys) /\ EachOnce(order) /\ Stored = Elements(order)
BY DEF CacheInv, CacheTypeOK, OthersFit, EachOnce, Stored, Elements

\* One key is dropped from the cache.
LEMMA KeyDropped ==
  ASSUME CacheInv, NEW th \in Threads, NEW n, NEW k \in Keys, StillPutting(th, n),
         order' \in Seq(Keys), EachOnce(order'), Elements(order') \subseteq Stored,
         cache' = [cache EXCEPT ![k] = NoEntry],
         threads[th].pc = "drop" => n.pc = "drop" /\ \A x \in threads[th].todo : x = k \/ x \in n.todo
  PROVE  NextCache(th, n) /\ NextOrder(th, n)
<1>1. /\ cache' \in [Keys -> Entry]
      /\ \A x \in Keys : cache'[x] = IF x = k THEN NoEntry ELSE cache[x]
  BY NoEntryType DEF CacheInv, CacheTypeOK
<1>2. ASSUME NEW x \in Keys PROVE Dated(cache'[x], truth[x], changed[x], now) /\ Timed(cache'[x])
  <2>1. now \in Nat /\ changed[x] \in [Perms -> Nat]
    BY DEF CacheInv, CacheTypeOK
  <2>2. Dated(NoEntry, truth[x], changed[x], now) /\ Timed(NoEntry)
    BY <2>1, NoEntryDated
  <2>3. Dated(cache[x], truth[x], changed[x], now) /\ Timed(cache[x])
    BY DEF CacheInv, AnswersDated
  <2> QED
    BY <1>1, <2>2, <2>3
<1>3. ASSUME NEW x \in Keys, NEW y \in Threads, y \in cache'[x].doomed
      PROVE  IF y = th THEN n.pc = "drop" /\ x \in n.todo ELSE y \in cache[x].doomed
  <2>1. x # k /\ y \in cache[x].doomed
    BY <1>1, <1>3 DEF NoEntry
  <2>2. y = th => threads[th].pc = "drop" /\ x \in threads[th].todo
    BY <2>1 DEF CacheInv, DoomedAreDue
  <2> QED
    BY <2>1, <2>2
<1>4. NextCache(th, n)
  BY <1>1, <1>2, <1>3 DEF NextCache
<1>5. NextOrder(th, n)
  BY DEF NextOrder
<1> QED
  BY <1>4, <1>5

\* The key that a lookup or an invalidation takes out.
LEMMA KeyPopped ==
  ASSUME CacheInv, NEW th \in Threads, NEW n, NEW k \in Keys, threads[th].pc \in {"found", "drop"},
         order' = Without(k), cache' = [cache EXCEPT ![k] = NoEntry],
         threads[th].pc = "drop" => n.pc = "drop" /\ \A x \in threads[th].todo : x = k \/ x \in n.todo
  PROVE  NextCache(th, n) /\ NextOrder(th, n)
<1>1. order' \in Seq(Keys) /\ EachOnce(order') /\ Elements(order') \subseteq Stored
  BY OrderOnce, WithoutOne
<1>2. StillPutting(th, n)
  BY DEF StillPutting
<1> QED
  BY <1>1, <1>2, KeyDropped

LEMMA DropKeeps ==
  ASSUME CacheInv, NEW th \in Threads, Drop(th)
  PROVE  CacheInv'
<1>1. PICK t : t = threads[th] /\ t \in Thread /\ Placed(t) /\ t.pc = "drop"
  BY OneThread DEF Drop
<1>2. CASE t.todo = {} /\ End(th, "over") /\ UNCHANGED <<cache, order>>
  <2>1. UNCHANGED <<now, truth, changed, changes, calls, cache, order>>
    BY <1>2 DEF Drop
  <2> QED
    BY <1>1, <1>2, <2>1, EndedKeeps
<1>3. ASSUME NEW k \in t.todo, order' = Without(k), cache' = [cache EXCEPT ![k] = NoEntry],
             threads' = [threads EXCEPT ![th].todo = @ \ {k}]
      PROVE  CacheInv'
  <2>1. k \in Keys
    BY <1>1 DEF Thread
  <2>2. PICK ks \in SUBSET t.todo : ks = t.todo \ {k}
    OBVIOUS
  <2>3. PICK n : n = Dropping(t, ks)
    OBVIOUS
  <2>4. threads' = [threads EXCEPT ![th] = n]
    BY <1>1, <1>3, <2>2, <2>3 DEF Dropping, CacheInv, CacheTypeOK
  <2>5. /\ n \in Thread /\ Placed(n) /\ n.pc = "drop" /\ n.call = t.call /\ n.todo = ks
        /\ n.outcome = "none"
    BY <1>1, <2>3, DroppedFields
  <2>6. NextThread(n)
    BY <1>1, <2>5 DEF NextThread, ThreadDated, Revalidated
  <2>7. NextCache(th, n) /\ NextOrder(th, n)
    BY <1>1, <1>3, <2>1, <2>2, <2>5, KeyPopped
  <2>8. calls' \in 0..MaxCalls /\ UNCHANGED <<now, truth, changed, changes>>
    BY DEF Drop, CacheInv, CacheTypeOK
  <2> QED
    BY <2>4, <2>6, <2>7, <2>8, StepEnough
<1> QED
  BY <1>1, <1>2, <1>3 DEF Drop

LEMMA FoundKeeps ==
  ASSUME CacheInv, NEW th \in Threads, Found(th)
  PROVE  CacheInv'
<1>1. PICK t : /\ t = threads[th] /\ t \in Thread /\ Placed(t) /\ t.pc = "found" /\ t.entry \in Entry
               /\ ThreadDated(t, truth, changed, now) /\ now \in Nat
  BY OneThread DEF Found
<1>2. t.key \in Keys /\ t.call \in {"get", "session"}
  BY <1>1 DEF Placed
<1>3. calls' \in 0..MaxCalls /\ UNCHANGED <<now, truth, changed, changes>>
  BY DEF Found, CacheInv, CacheTypeOK
<1>4. ASSUME order' = Without(t.key), cache' = [cache EXCEPT ![t.key] = NoEntry], Go(th, "ask")
      PROVE  CacheInv'
  <2>1. PICK n : n = Going(t, "ask")
    OBVIOUS
  <2>2. threads' = [threads EXCEPT ![th] = n]
    BY <1>1, <1>4, <2>1 DEF Go, Going
  <2>3. n \in Thread /\ Placed(n) /\ n.pc = "ask" /\ n.call = t.call /\ n.outcome = "none"
    BY <1>1, <2>1, GoFields
  <2>4. NextThread(n)
    BY <1>2, <2>3 DEF NextThread, ThreadDated, Revalidated
  <2>5. NextCache(th, n) /\ NextOrder(th, n)
    BY <1>1, <1>2, <1>4, KeyPopped
  <2> QED
    BY <1>3, <2>2, <2>4, <2>5, StepEnough
<1>5. ASSUME t.entry.exp > now, t.key \in Stored, order' = Append(Without(t.key), t.key),
             threads' = [threads EXCEPT ![th] = Answered(t, t.entry, now >= t.entry.put + Ttl)],
             cache' = cache
      PROVE  CacheInv'
  <2>1. Dated(t.entry, truth[t.key], changed[t.key], now) /\ Timed(t.entry)
    BY <1>1 DEF ThreadDated
  <2>2. ~ (now >= t.entry.put + Ttl)
    BY <1>1, <1>5, <2>1 DEF Timed, Entry
  <2>3. PICK late, n : /\ late \in BOOLEAN /\ threads' = [threads EXCEPT ![th] = n]
                       /\ n = Answered(t, t.entry, late) /\ ~ late
    <3>1. (now >= t.entry.put + Ttl) \in BOOLEAN
      OBVIOUS
    <3> QED
      BY <1>5, <2>2, <3>1, Zenon
  <2>4. PICK e \in Entry : e = t.entry
    BY <1>1
  <2>5. /\ n \in Thread /\ Placed(n) /\ n.pc = "done" /\ n.outcome = "answer" /\ n.key = t.key
        /\ n.got.perms = e.perms /\ n.got.read = e.read /\ n.late = late
    BY <1>1, <1>2, <2>3, <2>4, AnsweredFields
  <2>6. NextThread(n)
    BY <2>1, <2>3, <2>4, <2>5 DEF NextThread, ThreadDated, Revalidated, Dated
  <2>7. NextCache(th, n)
    BY <1>1, <1>5, CacheKept
  <2>8. /\ Without(t.key) \in Seq(Keys) /\ EachOnce(Without(t.key))
        /\ Elements(Without(t.key)) \subseteq Stored \ {t.key}
    BY OrderOnce, WithoutOne
  <2>9. /\ order' \in Seq(Keys) /\ EachOnce(order')
        /\ Elements(order') \subseteq Elements(Without(t.key)) \union {t.key}
    BY <1>2, <1>5, <2>8, AppendOnce
  <2>10. NextOrder(th, n)
    BY <1>1, <1>5, <2>8, <2>9 DEF NextOrder, StillPutting
  <2> QED
    BY <1>3, <2>3, <2>6, <2>7, <2>10, StepEnough
<1>6. ASSUME End(th, "raised"), UNCHANGED <<cache, order>> PROVE CacheInv'
  <2>1. UNCHANGED <<now, truth, changed, changes, calls, cache, order>>
    BY <1>6 DEF Found
  <2> QED
    BY <1>1, <1>6, <2>1, EndedKeeps
<1> QED
  BY <1>1, <1>4, <1>5, <1>6 DEF Found

LEMMA InsertKeeps ==
  ASSUME CacheInv, NEW th \in Threads, Insert(th)
  PROVE  CacheInv'
<1>1. PICK t : /\ t = threads[th] /\ t \in Thread /\ Placed(t) /\ t.pc = "insert" /\ t.got \in Entry
               /\ ThreadDated(t, truth, changed, now) /\ now \in Nat /\ t.got.doomed = {}
  BY OneThread DEF Insert
<1>2. t.key \in Keys /\ t.call \in {"get", "session"}
  BY <1>1 DEF Placed
<1>3. PICK e : e = [t.got EXCEPT !.exp = now + Ttl, !.put = now]
  OBVIOUS
<1>4. /\ e \in Entry /\ e.perms = t.got.perms /\ e.read = t.got.read /\ e.exp = now + Ttl
      /\ e.put = now /\ e.doomed = {}
  <2>1. PICK f \in Entry : f = t.got /\ f.doomed = {}
    BY <1>1
  <2>2. PICK x \in Nat : x = now + Ttl
    BY <1>1
  <2>3. e = [f EXCEPT !.exp = x, !.put = now]
    BY <1>3, <2>1, <2>2
  <2>4. e \in Entry /\ e.perms = f.perms /\ e.read = f.read /\ e.exp = x /\ e.put = now /\ e.doomed = {}
    BY <1>1, <2>1, <2>3 DEF Entry
  <2> QED
    BY <2>1, <2>2, <2>4
<1>5. Dated(e, truth[t.key], changed[t.key], now) /\ Timed(e)
  BY <1>1, <1>4 DEF ThreadDated, Dated, Timed
<1>6. PICK n : n = [t EXCEPT !.pc = "settle", !.got = e] /\ threads' = [threads EXCEPT ![th] = n]
  BY <1>1, <1>3 DEF Insert
<1>7. PICK i \in 0..MaxRetries : i = t.attempts
  BY <1>1 DEF Thread
<1>8. n = Asking(t, "settle", i, e)
  BY <1>1, <1>6, <1>7 DEF Thread, Asking
<1>9. /\ n \in Thread /\ Placed(n) /\ n.pc = "settle" /\ n.call = t.call /\ n.key = t.key
      /\ n.got = e /\ n.outcome = "none"
  BY <1>1, <1>4, <1>8, ServedFields
<1>10. NextThread(n)
  BY <1>2, <1>4, <1>5, <1>9 DEF NextThread, ThreadDated, Revalidated
<1>11. NextCache(th, n)
  <2>1. /\ cache' \in [Keys -> Entry]
        /\ \A x \in Keys : cache'[x] = IF x = t.key THEN e ELSE cache[x]
    BY <1>1, <1>2, <1>3, <1>4 DEF Insert, CacheInv, CacheTypeOK
  <2>2. \A x \in Keys : Dated(cache'[x], truth[x], changed[x], now) /\ Timed(cache'[x])
    BY <1>5, <2>1 DEF CacheInv, AnswersDated
  <2>3. ASSUME NEW x \in Keys, NEW y \in Threads, y \in cache'[x].doomed
        PROVE  y # th /\ y \in cache[x].doomed
    BY <1>1, <1>4, <2>1, <2>3 DEF CacheInv, DoomedAreDue
  <2> QED
    BY <2>1, <2>2, <2>3 DEF NextCache
<1>12. NextOrder(th, n)
  <2>1. order' = IF t.key \in Stored THEN order ELSE Append(order, t.key)
    BY <1>1 DEF Insert
  <2>2. /\ order' \in Seq(Keys) /\ EachOnce(order')
        /\ Elements(order') \subseteq Stored \union {t.key}
    <3>1. CASE t.key \in Stored
      BY <2>1, <3>1, OrderOnce
    <3>2. CASE t.key \notin Stored
      <4>1. order' = Append(order, t.key) /\ t.key \notin Elements(order)
        BY <2>1, <3>2, OrderOnce
      <4> QED
        BY <1>2, <4>1, OrderOnce, AppendOnce
    <3> QED
      BY <3>1, <3>2
  <2> QED
    BY <1>1, <1>9, <2>2 DEF NextOrder, StillPutting
<1>13. calls' \in 0..MaxCalls /\ UNCHANGED <<now, truth, changed, changes>>
  BY DEF Insert, CacheInv, CacheTypeOK
<1> QED
  BY <1>6, <1>10, <1>11, <1>12, <1>13, StepEnough

\* A put that goes on to its next operation.
LEMMA PuttingFields ==
  ASSUME CacheInv, NEW th \in Threads, threads[th].pc \in Putting, NEW p \in {"size", "evict"}, Go(th, p)
  PROVE  \E n : /\ NextThread(n) /\ threads' = [threads EXCEPT ![th] = n] /\ StillPutting(th, n)
               /\ n.pc \in Putting /\ n.key = threads[th].key
<1>1. PICK t : /\ t = threads[th] /\ t \in Thread /\ Placed(t) /\ t.got.doomed = {}
               /\ ThreadDated(t, truth, changed, now) /\ t.pc \in Putting
  BY OneThread
<1>2. PICK n : n = Going(t, p)
  OBVIOUS
<1>3. threads' = [threads EXCEPT ![th] = n]
  BY <1>1, <1>2 DEF Go, Going
<1>4. /\ n \in Thread /\ Placed(n) /\ n.pc = p /\ n.call = t.call /\ n.key = t.key
      /\ n.got = t.got /\ n.outcome = "none"
  BY <1>1, <1>2, GoFields
<1>5. t.call \in {"get", "session"}
  BY <1>1 DEF Placed
<1>6. NextThread(n)
  BY <1>1, <1>4, <1>5 DEF NextThread, ThreadDated, Revalidated
<1> QED
  BY <1>1, <1>3, <1>4, <1>6 DEF StillPutting

LEMMA SettleKeeps ==
  ASSUME CacheInv, NEW th \in Threads, Settle(th)
  PROVE  CacheInv'
<1>1. PICK t : t = threads[th] /\ t \in Thread /\ Placed(t) /\ t.pc = "settle"
  BY OneThread DEF Settle
<1>2. t.key \in Keys
  BY <1>1 DEF Placed
<1>3. /\ UNCHANGED <<now, truth, changed, changes, calls, cache>> /\ calls' \in 0..MaxCalls
  BY DEF Settle, CacheInv, CacheTypeOK
<1>4. CASE t.key \notin Stored
  <2>1. End(th, "raised") /\ order' = order
    BY <1>1, <1>4 DEF Settle
  <2> QED
    BY <1>1, <1>3, <1>4, <2>1, EndedKeeps
<1>5. CASE t.key \in Stored
  <2>1. order' = Append(Without(t.key), t.key) /\ Go(th, "size")
    BY <1>1, <1>5 DEF Settle
  <2>2. PICK n : /\ NextThread(n) /\ threads' = [threads EXCEPT ![th] = n] /\ StillPutting(th, n)
    BY <1>1, <2>1, PuttingFields
  <2>3. /\ Without(t.key) \in Seq(Keys) /\ EachOnce(Without(t.key))
        /\ Elements(Without(t.key)) \subseteq Stored \ {t.key}
    BY OrderOnce, WithoutOne
  <2>4. /\ order' \in Seq(Keys) /\ EachOnce(order')
        /\ Elements(order') \subseteq Elements(Without(t.key)) \union {t.key}
    BY <1>2, <2>1, <2>3, AppendOnce
  <2>5. NextOrder(th, n)
    BY <1>5, <2>2, <2>3, <2>4 DEF NextOrder
  <2>6. NextCache(th, n)
    BY <1>1, <1>3, CacheKept
  <2> QED
    BY <1>3, <2>2, <2>5, <2>6, StepEnough
<1> QED
  BY <1>4, <1>5

\* A put is finished only when the cache fits.
LEMMA SizeKeeps ==
  ASSUME CacheInv, NEW th \in Threads, Size(th)
  PROVE  CacheInv'
<1>1. PICK t : /\ t = threads[th] /\ t \in Thread /\ Placed(t) /\ t.pc = "size" /\ t.got \in Entry
               /\ ThreadDated(t, truth, changed, now)
  BY OneThread DEF Size
<1>2. t.key \in Keys /\ t.call \in {"get", "session"}
  BY <1>1 DEF Placed
<1>3. /\ UNCHANGED <<now, truth, changed, changes, calls, cache, order>> /\ calls' \in 0..MaxCalls
  BY DEF Size, CacheInv, CacheTypeOK
<1>4. \A n : NextCache(th, n)
  BY <1>1, <1>3, CacheKept
<1>5. CASE Len(order) > MaxEntries
  <2>1. Go(th, "evict")
    BY <1>5 DEF Size
  <2>2. PICK n : /\ NextThread(n) /\ threads' = [threads EXCEPT ![th] = n] /\ StillPutting(th, n)
    BY <1>1, <2>1, PuttingFields
  <2>3. NextOrder(th, n)
    BY <1>3, <2>2, OrderKept
  <2> QED
    BY <1>3, <1>4, <2>2, <2>3, StepEnough
<1>6. CASE ~ (Len(order) > MaxEntries)
  <2>1. PICK late, n : /\ late \in BOOLEAN /\ threads' = [threads EXCEPT ![th] = n]
                       /\ n = Answered(t, t.got, late) /\ ~ late
    <3>1. threads' = [threads EXCEPT ![th] = Answered(t, t.got, FALSE)]
      BY <1>1, <1>6 DEF Size
    <3> QED
      BY <3>1, Zenon
  <2>2. PICK e \in Entry : e = t.got
    BY <1>1
  <2>3. /\ n \in Thread /\ Placed(n) /\ n.pc = "done" /\ n.outcome = "answer" /\ n.key = t.key
        /\ n.got.perms = e.perms /\ n.got.read = e.read /\ n.late = late
    BY <1>1, <1>2, <2>1, <2>2, AnsweredFields
  <2>4. Dated(t.got, truth[t.key], changed[t.key], now)
    BY <1>1 DEF ThreadDated
  <2>5. NextThread(n)
    BY <2>1, <2>2, <2>3, <2>4 DEF NextThread, ThreadDated, Revalidated, Dated
  <2>6. order' \in Seq(Keys) /\ EachOnce(order') /\ Len(order') <= MaxEntries
    BY <1>3, <1>6, OrderOnce
  <2>7. NextOrder(th, n)
    BY <2>6 DEF NextOrder
  <2> QED
    BY <1>3, <1>4, <2>1, <2>5, <2>7, StepEnough
<1> QED
  BY <1>5, <1>6

LEMMA EvictKeeps ==
  ASSUME CacheInv, NEW th \in Threads, Evict(th)
  PROVE  CacheInv'
<1>1. threads[th].pc = "evict"
  BY DEF Evict
<1>2. /\ UNCHANGED <<now, truth, changed, changes, calls>> /\ calls' \in 0..MaxCalls
  BY DEF Evict, CacheInv, CacheTypeOK
<1>3. CASE order = <<>>
  <2>1. End(th, "raised") /\ UNCHANGED <<cache, order>>
    BY <1>3 DEF Evict
  <2>2. Stored = {}
    BY <1>3 DEF Stored
  <2> QED
    BY <1>1, <1>2, <2>1, <2>2, EndedKeeps
<1>4. CASE order # <<>>
  <2>1. order' = Tail(order) /\ cache' = [cache EXCEPT ![Head(order)] = NoEntry] /\ Go(th, "size")
    BY <1>4 DEF Evict
  <2>2. PICK n : /\ NextThread(n) /\ threads' = [threads EXCEPT ![th] = n] /\ StillPutting(th, n)
    BY <1>1, <2>1, PuttingFields
  <2>3. /\ Head(order) \in Keys /\ order' \in Seq(Keys) /\ EachOnce(order')
        /\ Elements(order') \subseteq Stored
    BY <1>4, <2>1, OrderOnce, TailOnce
  <2>4. NextCache(th, n) /\ NextOrder(th, n)
    BY <1>1, <2>1, <2>2, <2>3, KeyDropped
  <2> QED
    BY <1>2, <2>2, <2>4, StepEnough
<1> QED
  BY <1>3, <1>4

LEMMA InvalidateKeeps ==
  ASSUME CacheInv, NEW th \in Threads, NEW tenant, NEW app, Invalidate(th, tenant, app)
  PROVE  CacheInv'
<1>1. PICK hit : hit = {k \in Stored : Covers(tenant, app, k)}
  OBVIOUS
<1>2. hit \in SUBSET Keys
  BY <1>1, OrderOnce, StoredFinite
<1>3. PICK g : g = threads[th].guard /\ g \in Guard \union {None}
  BY OneThread
<1>4. PICK n : n = Invalidating(g, hit)
  OBVIOUS
<1>5. threads' = [threads EXCEPT ![th] = n]
  BY <1>1, <1>3, <1>4 DEF Invalidate, Invalidating, CacheInv, CacheTypeOK
<1>6. /\ n \in Thread /\ Placed(n) /\ n.pc = "drop" /\ n.call = "invalidate" /\ n.todo = hit
      /\ n.outcome = "none"
  BY <1>2, <1>3, <1>4, InvalidateFields
<1>7. NextThread(n)
  BY <1>6 DEF NextThread, ThreadDated, Revalidated
<1>8. /\ threads[th].pc \in {"idle", "done"} /\ order' = order
      /\ calls' \in 0..MaxCalls /\ UNCHANGED <<now, truth, changed, changes>>
  BY DEF Invalidate, Start, CacheInv, CacheTypeOK
<1>9. ASSUME NEW x \in Keys
      PROVE  cache'[x] = IF x \in hit THEN [cache[x] EXCEPT !.doomed = @ \union {th}] ELSE cache[x]
  BY <1>1 DEF Invalidate
<1>10. ASSUME NEW x \in Keys
       PROVE  /\ cache'[x] \in Entry /\ cache'[x].perms = cache[x].perms /\ cache'[x].read = cache[x].read
              /\ cache'[x].exp = cache[x].exp /\ cache'[x].put = cache[x].put
              /\ cache'[x].doomed = cache[x].doomed \union IF x \in hit THEN {th} ELSE {}
  <2>1. PICK e \in Entry : e = cache[x]
    BY DEF CacheInv, CacheTypeOK
  <2>2. CASE x \in hit
    <3>1. PICK f : f = [e EXCEPT !.doomed = @ \union {th}]
      OBVIOUS
    <3>2. /\ f \in Entry /\ f.perms = e.perms /\ f.read = e.read /\ f.exp = e.exp /\ f.put = e.put
          /\ f.doomed = e.doomed \union {th}
      BY <3>1 DEF Entry
    <3> QED
      BY <1>9, <2>1, <2>2, <3>1, <3>2
  <2>3. CASE x \notin hit
    BY <1>9, <2>1, <2>3
  <2> QED
    BY <2>2, <2>3
<1>11. NextCache(th, n)
  <2>1. cache' \in [Keys -> Entry]
    BY <1>10 DEF Invalidate
  <2>2. ASSUME NEW x \in Keys PROVE Dated(cache'[x], truth[x], changed[x], now) /\ Timed(cache'[x])
    BY <1>10 DEF CacheInv, AnswersDated, Dated, Timed
  <2>3. ASSUME NEW x \in Keys, NEW y \in Threads, y \in cache'[x].doomed
        PROVE  IF y = th THEN n.pc = "drop" /\ x \in n.todo ELSE y \in cache[x].doomed
    <3>1. th \notin cache[x].doomed
      BY <1>8 DEF CacheInv, DoomedAreDue
    <3> QED
      BY <1>6, <1>10, <2>3, <3>1
  <2> QED
    BY <2>1, <2>2, <2>3 DEF NextCache
<1>12. NextOrder(th, n)
  BY <1>8, OrderKept DEF StillPutting
<1> QED
  BY <1>5, <1>7, <1>8, <1>11, <1>12, StepEnough

LEMMA TickKeeps ==
  ASSUME CacheInv, Tick
  PROVE  CacheInv'
<1>1. now \in Nat /\ now' = now + 1 /\ now' \in 0..MaxClock
  BY DEF CacheInv, CacheTypeOK, Tick
<1>2. UNCHANGED <<truth, changed, changes, calls, cache, order, threads>>
  BY DEF Tick
<1>3. CacheTypeOK'
  BY <1>1, <1>2 DEF CacheInv, CacheTypeOK
<1>4. ASSUME NEW e \in Entry, NEW granted, NEW since, Dated(e, granted, since, now)
      PROVE  Dated(e, granted, since, now')
  BY <1>1, <1>4 DEF Dated, Entry
<1>5. ASSUME NEW k \in Keys PROVE Dated(cache[k], truth[k], changed[k], now') /\ Timed(cache[k])
  BY <1>4 DEF CacheInv, CacheTypeOK, AnswersDated
<1>6. ASSUME NEW x \in Threads PROVE ThreadDated(threads[x], truth, changed, now')
  BY <1>4, OneThread DEF ThreadDated
<1>7. AnswersDated'
  BY <1>2, <1>5, <1>6 DEF AnswersDated
<1>8. DoomedAreDue' /\ RevalidationsHeld' /\ OthersFit'
  BY <1>2 DEF CacheInv, DoomedAreDue, RevalidationsHeld, OthersFit, Stored, Settling
<1> QED
  BY <1>3, <1>7, <1>8 DEF CacheInv

LEMMA ChangeKeeps ==
  ASSUME CacheInv, NEW k \in Keys, NEW perms \in SUBSET Perms, Change(k, perms)
  PROVE  CacheInv'
<1>1. UNCHANGED <<now, calls, cache, order>> /\ changes' \in 0..MaxChanges /\ now \in Nat
  BY DEF Change, CacheInv, CacheTypeOK
<1>2. /\ truth' \in [Keys -> SUBSET Perms]
      /\ \A x \in Keys : truth'[x] = IF x = k THEN perms ELSE truth[x]
  BY DEF Change, CacheInv, CacheTypeOK
<1>3. PICK since : since = [p \in Perms |-> IF (p \in perms) = (p \in truth[k]) THEN changed[k][p] ELSE now]
  OBVIOUS
<1>4. changed[k] \in [Perms -> Nat]
  BY DEF CacheInv, CacheTypeOK
<1>5. since \in [Perms -> Nat]
  BY <1>1, <1>3, <1>4
<1>6. changed' = [changed EXCEPT ![k] = since]
  BY <1>3 DEF Change, CacheInv, CacheTypeOK
<1>7. /\ changed' \in [Keys -> [Perms -> Nat]]
      /\ \A x \in Keys : changed'[x] = IF x = k THEN since ELSE changed[x]
  BY <1>5, <1>6 DEF CacheInv, CacheTypeOK
<1>8. ASSUME NEW x \in Threads
      PROVE  LET t == threads[x]  n == threads'[x]
             IN  /\ n \in Thread /\ Placed(n) /\ n.pc = t.pc /\ n.call = t.call /\ n.key = t.key
                 /\ n.entry = t.entry /\ n.got = t.got /\ n.late = t.late /\ n.want = t.want
                 /\ n.todo = t.todo /\ n.critical = t.critical /\ n.outcome = t.outcome
                 /\ t.held => n.held
                 /\ t.key = k /\ t.want \in perms => n.held
  <2>1. PICK t, n : t = threads[x] /\ n = threads'[x] /\ t \in Thread /\ Placed(t)
    BY OneThread
  <2>2. CASE t.key = k /\ t.want \in perms
    <3>1. n = Noticing(t)
      BY <2>1, <2>2 DEF Change, Noticing
    <3>2. /\ n \in Thread /\ Placed(n) /\ n.pc = t.pc /\ n.call = t.call /\ n.key = t.key
          /\ n.entry = t.entry /\ n.got = t.got /\ n.late = t.late /\ n.want = t.want
          /\ n.todo = t.todo /\ n.critical = t.critical /\ n.held = TRUE /\ n.outcome = t.outcome
      BY <2>1, <3>1, HeldFields
    <3> QED
      BY <2>1, <3>2
  <2>3. CASE ~ (t.key = k /\ t.want \in perms)
    <3>1. n = t
      BY <2>1, <2>3 DEF Change
    <3> QED
      BY <2>1, <2>3, <3>1
  <2> QED
    BY <2>2, <2>3
<1>9. threads' \in [Threads -> Thread]
  BY <1>8 DEF Change
<1>10. CacheTypeOK'
  BY <1>1, <1>2, <1>7, <1>8, <1>9 DEF CacheInv, CacheTypeOK
<1>11. ASSUME NEW e \in Entry, NEW x \in Keys, Dated(e, truth[x], changed[x], now)
       PROVE  Dated(e, truth'[x], changed'[x], now)
  <2>1. CASE x = k
    <3>1. e.read \in Nat /\ e.read <= now /\ truth'[x] = perms /\ changed'[x] = since
      BY <1>2, <1>7, <1>11, <2>1 DEF Dated, Entry
    <3>2. ASSUME NEW p \in Perms, (p \in e.perms) # (p \in perms) PROVE since[p] >= e.read
      <4>1. CASE (p \in perms) = (p \in truth[k])
        <5>1. since[p] = changed[k][p]
          BY <1>3, <4>1
        <5> QED
          BY <5>1, <1>11, <2>1, <3>2, <4>1 DEF Dated
      <4>2. CASE (p \in perms) # (p \in truth[k])
        <5>1. since[p] = now
          BY <1>3, <4>2
        <5> QED
          BY <1>1, <3>1, <5>1
      <4> QED
        BY <4>1, <4>2
    <3> QED
      BY <3>1, <3>2 DEF Dated
  <2>2. CASE x # k
    BY <1>2, <1>7, <1>11, <2>2
  <2> QED
    BY <2>1, <2>2
<1>12. ASSUME NEW x \in Keys PROVE Dated(cache'[x], truth'[x], changed'[x], now') /\ Timed(cache'[x])
  BY <1>1, <1>11 DEF CacheInv, CacheTypeOK, AnswersDated
<1>13. ASSUME NEW x \in Threads PROVE ThreadDated(threads'[x], truth', changed', now')
  <2>1. PICK t, n : t = threads[x] /\ n = threads'[x]
    OBVIOUS
  <2>2. ThreadDated(t, truth, changed, now) /\ Placed(t) /\ t.entry \in Entry /\ t.got \in Entry
    BY <2>1, OneThread
  <2>3. /\ n.pc = t.pc /\ n.key = t.key /\ n.entry = t.entry /\ n.got = t.got /\ n.late = t.late
        /\ n.outcome = t.outcome
    BY <1>8, <2>1
  <2>4. t.pc \in {"found", "served", "insert"} \union Putting \/ t.outcome = "answer" => t.key \in Keys
    BY <2>2 DEF Placed
  <2>5. t.pc = "found" => Dated(t.entry, truth'[t.key], changed'[t.key], now) /\ Timed(t.entry)
    BY <2>2, <2>4, <1>11 DEF ThreadDated
  <2>6. /\ t.pc \in {"served", "insert"} \union Putting => Dated(t.got, truth'[t.key], changed'[t.key], now)
        /\ t.outcome = "answer" => Dated(t.got, truth'[t.key], changed'[t.key], now) /\ ~ t.late
    BY <2>2, <2>4, <1>11 DEF ThreadDated
  <2>7. ThreadDated(n, truth', changed', now)
    BY <2>3, <2>5, <2>6 DEF ThreadDated
  <2> QED
    BY <1>1, <2>1, <2>7
<1>14. AnswersDated'
  BY <1>12, <1>13 DEF AnswersDated
<1>15. DoomedAreDue'
  BY <1>1, <1>8 DEF CacheInv, DoomedAreDue
<1>16. ASSUME NEW x \in Threads PROVE Revalidated(threads'[x], truth')
  <2>1. PICK t, n : t = threads[x] /\ n = threads'[x]
    OBVIOUS
  <2>2. Revalidated(t, truth) /\ Placed(t)
    BY <2>1, OneThread
  <2>3. /\ n.pc = t.pc /\ n.call = t.call /\ n.key = t.key /\ n.got = t.got /\ n.want = t.want
        /\ n.critical = t.critical /\ n.outcome = t.outcome
        /\ t.held => n.held
        /\ t.key = k /\ t.want \in perms => n.held
    BY <1>8, <2>1
  <2>4. t.call = "require" /\ t.pc \in {"ask", "served"} /\ t.want \in truth'[t.key] => n.held
    BY <1>2, <2>2, <2>3 DEF Placed, Revalidated
  <2>5. Revalidated(n, truth')
    BY <2>2, <2>3, <2>4 DEF Revalidated
  <2> QED
    BY <2>1, <2>5
<1>17. RevalidationsHeld'
  BY <1>16 DEF RevalidationsHeld
<1>18. Settling' = Settling /\ Stored' = Stored
  BY <1>1, <1>8 DEF Settling, Stored
<1>19. OthersFit'
  BY <1>1, <1>18 DEF CacheInv, OthersFit
<1> QED
  BY <1>10, <1>14, <1>15, <1>17, <1>19 DEF CacheInv

LEMMA InitHolds == Init => CacheInv
<1> SUFFICES ASSUME Init PROVE CacheInv
  OBVIOUS
<1>1. /\ now = 0 /\ changes = 0 /\ calls = 0 /\ order = <<>>
      /\ truth \in [Keys -> SUBSET Perms] /\ changed \in [Keys -> [Perms -> Nat]]
      /\ cache \in [Keys -> Entry] /\ \A k \in Keys : cache[k] = NoEntry
  BY NoEntryType DEF Init
<1>2. ASSUME NEW x \in Threads
      PROVE  /\ threads[x] \in Thread /\ Placed(threads[x])
             /\ threads[x].pc = "idle" /\ threads[x].call = "none" /\ threads[x].outcome = "none"
  <2>1. PICK n : n = [pc |-> "idle", call |-> "none", key |-> None, entry |-> NoEntry,
                      got |-> NoEntry, late |-> FALSE, attempts |-> 0, want |-> None,
                      critical |-> FALSE, held |-> FALSE, todo |-> {}, guard |-> None,
                      outcome |-> "none"]
    OBVIOUS
  <2>2. threads[x] = n
    BY <2>1 DEF Init, Idle
  <2>3. n \in Thread
    BY <2>1, NoEntryType DEF Thread
  <2>4. Placed(n) /\ n.pc = "idle" /\ n.call = "none" /\ n.outcome = "none"
    BY <2>1 DEF Placed
  <2> QED
    BY <2>2, <2>3, <2>4
<1>3. CacheTypeOK
  <2>1. threads \in [Threads -> Thread]
    BY <1>2 DEF Init
  <2>2. order \in Seq(Keys)
    BY <1>1
  <2> QED
    BY <1>1, <1>2, <2>1, <2>2 DEF CacheTypeOK
<1>4. AnswersDated
  <2>1. ASSUME NEW k \in Keys PROVE Dated(cache[k], truth[k], changed[k], now) /\ Timed(cache[k])
    <3>1. PICK since \in [Perms -> Nat], at \in Nat : since = changed[k] /\ at = now
      BY <1>1
    <3>2. Dated(NoEntry, truth[k], since, at) /\ Timed(NoEntry)
      BY NoEntryDated
    <3> QED
      BY <1>1, <3>1, <3>2
  <2> QED
    BY <1>2, <2>1 DEF AnswersDated, ThreadDated
<1>5. DoomedAreDue
  BY <1>1, <1>2 DEF DoomedAreDue, NoEntry
<1>6. RevalidationsHeld
  BY <1>2 DEF RevalidationsHeld, Revalidated
<1>7. OthersFit
  <2>1. DOMAIN order = {} /\ Stored = {}
    BY <1>1 DEF Stored
  <2>2. Stored \ Settling = {}
    BY <2>1
  <2> QED
    BY <2>1, <2>2, FS_EmptySet DEF OthersFit
<1> QED
  BY <1>3, <1>4, <1>5, <1>6, <1>7 DEF CacheInv

LEMMA NextKeeps == CacheInv /\ [Next]_vars => CacheInv'
<1> SUFFICES ASSUME CacheInv, [Next]_vars PROVE CacheInv'
  OBVIOUS
<1>1. CASE UNCHANGED vars
  BY <1>1 DEF vars, CacheInv, CacheTypeOK, AnswersDated, DoomedAreDue, RevalidationsHeld, OthersFit,
              Stored, Settling
<1>2. CASE Tick
  BY <1>2, TickKeeps
<1>3. ASSUME NEW k \in Keys, NEW perms \in SUBSET Perms, Change(k, perms) PROVE CacheInv'
  BY <1>3, ChangeKeeps
<1>4. ASSUME NEW th \in Threads, Step(th) PROVE CacheInv'
  <2>1. ASSUME NEW call \in {"get", "session"}, NEW k \in Keys, NEW bypass \in BOOLEAN,
               Get(th, call, k, bypass)
        PROVE  CacheInv'
    BY <2>1, GetKeeps
  <2>2. CASE Lookup(th)
    BY <2>2, LookupKeeps
  <2>3. CASE Found(th)
    BY <2>3, FoundKeeps
  <2>4. CASE Serve(th)
    BY <2>4, ServeKeeps
  <2>5. CASE Fail(th)
    BY <2>5, FailKeeps
  <2>6. CASE Reject(th)
    <3>1. /\ End(th, "raised") /\ threads[th].pc = "ask"
          /\ UNCHANGED <<now, truth, changed, changes, calls, cache, order>>
      BY <2>6 DEF Reject
    <3> QED
      BY <3>1, EndedKeeps
  <2>7. CASE Receive(th)
    BY <2>7, ReceiveKeeps
  <2>8. CASE Insert(th)
    BY <2>8, InsertKeeps
  <2>9. CASE Settle(th) \/ Size(th) \/ Evict(th)
    BY <2>9, SettleKeeps, SizeKeeps, EvictKeeps
  <2>10. ASSUME NEW k \in Keys,
                \/ Invalidate(th, None, None) \/ Invalidate(th, k.tenant, None)
                \/ Invalidate(th, k.tenant, k.app)
         PROVE  CacheInv'
    BY <2>10, InvalidateKeeps
  <2>11. CASE Drop(th)
    BY <2>11, DropKeeps
  <2>12. ASSUME NEW p \in Perms, NEW critical \in BOOLEAN, Require(th, p, critical) PROVE CacheInv'
    BY <2>12, RequireKeeps
  <2> QED
    BY <1>4, <2>1, <2>2, <2>3, <2>4, <2>5, <2>6, <2>7, <2>8, <2>9, <2>10, <2>11, <2>12 DEF Step
<1> QED
  BY <1>1, <1>2, <1>3, <1>4 DEF Next

(***************************************************************************)
(* The theorems.                                                           *)
(***************************************************************************)

\* In every state of an AuthzClient shared by threads, CacheInv holds: where each
\* thread is, how old its answer, every entry and the guard's knowledge are, which
\* entries an invalidation has still to drop, and which keys the cache holds.
THEOREM CacheInvCorrect == Spec => []CacheInv
<1> QED
  BY InitHolds, NextKeeps, PTL DEF Spec

\* get_effective_permissions (client.py) says of a permission what was so when the
\* service was asked or later, and takes no set from the cache that is older there
\* than cache_ttl_seconds, whatever other threads do to the OrderedDict.
THEOREM AnswersAreBounded == Spec => []AnswersBounded
<1>1. CacheInv => AnswersBounded
  BY DEF CacheInv, AnswersDated, ThreadDated, Dated, AnswersBounded
<1> QED
  BY <1>1, CacheInvCorrect, PTL

\* Once cache_invalidate has returned, none of the entries it found is left.
THEOREM InvalidationsHold == Spec => []InvalidationHolds
<1>1. ASSUME CacheInv PROVE InvalidationHolds
  <2>1. Stored \subseteq Keys
    BY <1>1, OrderOnce, StoredFinite
  <2>2. \A th \in Threads : threads[th].outcome = "over" => threads[th].pc # "drop"
    BY <1>1 DEF CacheInv, CacheTypeOK, Placed
  <2> QED
    BY <1>1, <2>1, <2>2 DEF CacheInv, DoomedAreDue, InvalidationHolds
<1> QED
  BY <1>1, CacheInvCorrect, PTL

\* AgentGuard.require admits a critical action only if the service granted it at
\* some moment of the call.
THEOREM CriticalActionsAreCurrent == Spec => []CriticalActionsCurrent
<1>1. CacheInv => CriticalActionsCurrent
  BY DEF CacheInv, RevalidationsHeld, Revalidated, CriticalActionsCurrent
<1> QED
  BY <1>1, CacheInvCorrect, PTL

\* _cache_put and its evictions keep the cache within cache_max_entries, but for
\* one key for each thread that is between its assignment and its evictions.
THEOREM CacheIsBounded == Spec => []CacheBounded
<1>1. ASSUME CacheInv PROVE CacheBounded
  <2>1. PICK busy : busy = {th \in Threads : threads[th].pc \in Putting}
    OBVIOUS
  <2>2. IsFiniteSet(busy) /\ Cardinality(busy) \in Nat
    BY <2>1, ThreadsAssumption, FS_Subset, FS_CardinalityType
  <2>3. PICK f : f = [th \in busy |-> threads[th].key]
    OBVIOUS
  <2>4. f \in Surjection(busy, Settling)
    BY <2>1, <2>3 DEF Surjection, Settling
  <2>5. IsFiniteSet(Settling) /\ Cardinality(Settling) <= Cardinality(busy) /\ Cardinality(Settling) \in Nat
    BY <2>2, <2>4, FS_Surjection, FS_CardinalityType
  <2>6. IsFiniteSet(Stored) /\ Len(order) = Cardinality(Stored) /\ order \in Seq(Keys)
    BY <1>1, OrderOnce, StoredFinite
  <2>7. PICK rest, all : rest = Stored \ Settling /\ all = rest \union Settling
    OBVIOUS
  <2>8. IsFiniteSet(rest) /\ Cardinality(rest) \in Nat /\ Cardinality(rest) <= MaxEntries
    BY <1>1, <2>6, <2>7, FS_Subset, FS_CardinalityType DEF CacheInv, OthersFit
  <2>9. IsFiniteSet(all) /\ Cardinality(all) <= Cardinality(rest) + Cardinality(Settling)
    <3>1. IsFiniteSet(rest \cap Settling) /\ Cardinality(rest \cap Settling) \in Nat
      BY <2>8, FS_Subset, FS_CardinalityType
    <3>2. /\ IsFiniteSet(rest \union Settling)
          /\ Cardinality(rest \union Settling)
               = Cardinality(rest) + Cardinality(Settling) - Cardinality(rest \cap Settling)
      BY <2>5, <2>8, FS_Union
    <3> QED
      BY <2>5, <2>7, <2>8, <3>1, <3>2
  <2>10. Stored \subseteq all
    BY <2>7
  <2>11. Cardinality(Stored) <= Cardinality(all) /\ Cardinality(Stored) \in Nat /\ Cardinality(all) \in Nat
    BY <2>6, <2>9, <2>10, FS_Subset, FS_CardinalityType
  <2>12. Len(order) <= MaxEntries + Cardinality(busy)
    BY <2>2, <2>5, <2>6, <2>8, <2>9, <2>11
  <2> QED
    BY <1>1, <2>1, <2>6, <2>12 DEF CacheInv, CacheTypeOK, CacheBounded
<1> QED
  BY <1>1, CacheInvCorrect, PTL

-----------------------------------------------------------------------------
(***************************************************************************)
(* RequestFront.  The inductive invariant FrontInv says what the state has *)
(* to do with the histories: a bucket is the end of the log of requests    *)
(* let through, and what was put into the store is still there, expired or *)
(* displaced.                                                              *)
(***************************************************************************)
HIDE BoundsAssumption
USE OpsAssumption, LimitsAssumption

Status == {0, 2, 4, 5, 429}
OpKeys == {CacheKey(o) : o \in Ops}
Req ==
  [op : Ops, pc : {"lookup", "limit", "handle", "store", "answered"}, status : Status, by : Nat,
   replay : BOOLEAN, known : BOOLEAN, at : Nat, wait : Nat, ahead : Nat]
Sender == [pc : {"ready", "waiting"}, op : Ops \union {NoKey}, req : Nat, attempts : Nat]
PutRow == [key : OpKeys, by : Nat, at : Nat]
StoredAnswer == [key : OpKeys, status : Status, by : Nat, exp : Nat]

\* Only an answered request is a replay; nothing was promised to one that just
\* came in; what is to be stored is the request's
\* own answer; and no answer was due to a request that went on.
ReqOK(r, i) ==
  /\ r.pc = "lookup" => r.wait = 0
  /\ r.pc = "store" => r.by = i
  /\ r.pc # "answered" => r.replay = FALSE
  /\ r.known = FALSE

FrontTypes ==
  /\ monotonic \in Nat
  /\ senders \in [Senders -> Sender]
  /\ \A s \in Senders : senders[s].pc = "waiting" => senders[s].op \in Ops
  /\ reqs \in Seq(Req) /\ puts \in Seq(PutRow) /\ store \in SUBSET StoredAnswer
  /\ \A i \in DOMAIN reqs : ReqOK(reqs[i], i)

Logged(log, clock) ==
  /\ log \in Seq(Nat)
  /\ \A j \in DOMAIN log : log[j] <= clock
  /\ \A j, k \in DOMAIN log : j <= k => log[j] <= log[k]
  /\ \A j \in DOMAIN log : j + Limit \in DOMAIN log => log[j] + Window <= log[j + Limit]

Suffix(bucket, log, clock) ==
  \E n \in 0..Len(log) :
    /\ bucket = SubSeq(log, n + 1, Len(log)) /\ Len(log) - n <= Limit
    /\ \A j \in 1..n : log[j] + Window <= clock

Promised(r, log) ==
  r.wait > 0 =>
    /\ r.ahead \in Limit..Len(log)
    /\ r.at + r.wait = log[r.ahead - Limit + 1] + Window

LimiterInv ==
  /\ DOMAIN admitted = Creds /\ DOMAIN buckets = Creds
  /\ \A c \in Creds : Logged(admitted[c], monotonic) /\ Suffix(buckets[c], admitted[c], monotonic)
  /\ \A i \in DOMAIN reqs : Promised(reqs[i], admitted[reqs[i].op.cred])

\* The keys put since some time.  What was put is expired, displaced by as many
\* keys as the store holds, or in the store, for as long at least.
PutSince(ps, time) == {ps[n].key : n \in {n \in DOMAIN ps : ps[n].at >= time}}
Held(ps, st, clock, p) ==
  \/ p.at + KeepFor <= clock
  \/ ~ (Cardinality(PutSince(ps, p.at)) <= MaxAnswers)
  \/ \E e \in st : e.key = p.key /\ e.exp >= p.at + KeepFor

\* Request number by was answered with that status, and not from the store.
Original(rs, by, status, key) ==
  /\ by \in DOMAIN rs /\ rs[by].pc = "answered" /\ rs[by].replay = FALSE
  /\ rs[by].status = status /\ status # 5 /\ CacheKey(rs[by].op) = key

Stocked(rs, ps, e) ==
  /\ Original(rs, e.by, e.status, e.key)
  /\ \E j \in DOMAIN ps : ps[j].by = e.by /\ ps[j].key = e.key /\ e.exp = ps[j].at + KeepFor

Replayed(rs, ps, r) ==
  r.replay = TRUE =>
    /\ Original(rs, r.by, r.status, CacheKey(r.op))
    /\ \E j \in DOMAIN ps : ps[j].by = r.by /\ r.at < ps[j].at + KeepFor

ReplayInv ==
  /\ IsFiniteSet(store) /\ Cardinality(store) <= MaxAnswers
  /\ \A e1, e2 \in store : e1.key = e2.key => e1 = e2
  /\ \A e \in store : Stocked(reqs, puts, e)
  /\ \A j \in DOMAIN puts : puts[j].at <= monotonic /\ Held(puts, store, monotonic, puts[j])
  /\ \A i \in DOMAIN reqs : Replayed(reqs, puts, reqs[i])

FrontInv == FrontTypes /\ LimiterInv /\ ReplayInv

-----------------------------------------------------------------------------
(* Sequences of timestamps *)

\* Counting up from 0 inside a bounded set, one comes to a last element.
LEMMA LastStep ==
  ASSUME NEW L \in Nat, NEW S \in SUBSET (0..L), 0 \in S
  PROVE  \E n \in S : n + 1 \notin S
<1> SUFFICES ASSUME \A n \in S : n + 1 \in S PROVE FALSE
  OBVIOUS
<1>1. IsFiniteSet(S) /\ Cardinality(S) \in Nat
  <2>1. IsFiniteSet(0..L)
    BY FS_Interval
  <2> QED BY <2>1, FS_Subset, FS_CardinalityType
<1>2. PICK T : T = S \ {0}
  OBVIOUS
<1>3. IsFiniteSet(T) /\ Cardinality(T) = Cardinality(S) - 1
  BY <1>1, <1>2, FS_RemoveElement
<1>4. PICK f : f = [n \in S |-> n + 1]
  OBVIOUS
<1>5. f \in [S -> T]
  BY <1>2, <1>4
<1>6. Cardinality(T) < Cardinality(S)
  BY <1>1, <1>3
<1>7. \E x, y \in S : x # y /\ f[x] = f[y]
  BY <1>1, <1>3, <1>5, <1>6, FS_PigeonHole
<1> QED BY <1>4, <1>7

\* The loop pops what is up to the cutoff and stops at the first that is later.
LEMMA PoppedStops ==
  ASSUME NEW bucket \in Seq(Nat), NEW cutoff \in Int
  PROVE  /\ Popped(bucket, cutoff) \in 0..Len(bucket)
         /\ \A j \in 1..Popped(bucket, cutoff) : bucket[j] <= cutoff
         /\ Popped(bucket, cutoff) < Len(bucket) => bucket[Popped(bucket, cutoff) + 1] > cutoff
<1>1. Len(bucket) \in Nat /\ \A j \in 1..Len(bucket) : bucket[j] \in Nat
  BY LenProperties, ElementOfSeq
<1>2. PICK S : S = {n \in 0..Len(bucket) : \A j \in 1..n : bucket[j] <= cutoff}
  OBVIOUS
<1>3. S \in SUBSET (0..Len(bucket)) /\ 0 \in S
  BY <1>1, <1>2
<1>4. PICK n \in S : n + 1 \notin S
  BY <1>1, <1>3, LastStep
<1>5. n \in 0..Len(bucket) /\ \A j \in 1..n : bucket[j] <= cutoff
  BY <1>2, <1>4
<1>6. n < Len(bucket) => bucket[n + 1] > cutoff
  <2> SUFFICES ASSUME n < Len(bucket), bucket[n + 1] <= cutoff PROVE FALSE
    BY <1>1, <1>5
  <2>1. n + 1 \in 0..Len(bucket)
    BY <1>1, <1>5
  <2>2. \A j \in 1..(n + 1) : bucket[j] <= cutoff
    BY <1>1, <1>5
  <2> QED BY <1>2, <1>4, <2>1, <2>2
<1>7. \E m \in 0..Len(bucket) : /\ \A j \in 1..m : bucket[j] <= cutoff
                                /\ m < Len(bucket) => bucket[m + 1] > cutoff
  BY <1>5, <1>6
<1> QED BY <1>7 DEF Popped

\* What is left of a sequence when its first n elements are gone.
LEMMA RestOfSeq ==
  ASSUME NEW S, NEW seq \in Seq(S), NEW n \in 0..Len(seq)
  PROVE  /\ SubSeq(seq, n + 1, Len(seq)) \in Seq(S)
         /\ Len(SubSeq(seq, n + 1, Len(seq))) = Len(seq) - n
         /\ \A j \in 1..(Len(seq) - n) : SubSeq(seq, n + 1, Len(seq))[j] = seq[n + j]
<1>0. PICK r : r = SubSeq(seq, n + 1, Len(seq))
  OBVIOUS
<1>1. Len(seq) \in Nat /\ n \in Nat /\ n <= Len(seq)
  BY LenProperties
<1>2. n + 1 \in Int /\ Len(seq) \in Int
  BY <1>1
<1>3. \A j \in (n + 1)..Len(seq) : seq[j] \in S
  BY <1>1, ElementOfSeq
<1>4. r \in Seq(S)
  BY <1>0, <1>2, <1>3, SubSeqProperties
<1>5. Len(r) = IF n + 1 <= Len(seq) THEN Len(seq) - (n + 1) + 1 ELSE 0
  BY <1>0, <1>2, <1>3, SubSeqProperties
<1>6. \A j \in 1..(Len(seq) - (n + 1) + 1) : r[j] = seq[n + 1 + j - 1]
  BY <1>0, <1>2, <1>3, SubSeqProperties
<1>7. Len(r) = Len(seq) - n
  BY <1>1, <1>5
<1>8. ASSUME NEW j \in 1..(Len(seq) - n) PROVE r[j] = seq[n + j]
  <2>1. j \in 1..(Len(seq) - (n + 1) + 1) /\ n + 1 + j - 1 = n + j
    BY <1>1
  <2> QED BY <1>6, <2>1
<1> QED BY <1>0, <1>4, <1>7, <1>8

\* What a bucket keeps of a log of requests: the latest, those of the window.
LEMMA RecentIsSuffix ==
  ASSUME monotonic \in Nat, NEW log, Logged(log, monotonic),
         NEW bucket, Suffix(bucket, log, monotonic)
  PROVE  \E n \in 0..Len(log) :
           /\ Recent(bucket) = SubSeq(log, n + 1, Len(log)) /\ Len(log) - n <= Limit
           /\ Len(Recent(bucket)) = Len(log) - n
           /\ \A j \in 1..n : log[j] + Window <= monotonic
           /\ \A j \in (n + 1)..Len(log) : log[j] + Window > monotonic
           /\ Len(log) - n > 0 => Recent(bucket)[1] = log[n + 1]
<1>1. /\ log \in Seq(Nat) /\ Len(log) \in Nat /\ DOMAIN log = 1..Len(log)
      /\ \A j \in 1..Len(log) : log[j] \in Nat
  BY LenProperties, ElementOfSeq DEF Logged
<1>2. PICK m \in 0..Len(log) :
        /\ bucket = SubSeq(log, m + 1, Len(log)) /\ Len(log) - m <= Limit
        /\ \A j \in 1..m : log[j] + Window <= monotonic
  BY DEF Suffix
<1>3. /\ bucket \in Seq(Nat) /\ Len(bucket) = Len(log) - m
      /\ \A j \in 1..(Len(log) - m) : bucket[j] = log[m + j]
  BY <1>1, <1>2, RestOfSeq
<1>4. PICK p \in 0..Len(bucket) :
        /\ p = Popped(bucket, monotonic - Window)
        /\ \A j \in 1..p : bucket[j] <= monotonic - Window
        /\ p < Len(bucket) => bucket[p + 1] > monotonic - Window
  <2>1. monotonic - Window \in Int
    OBVIOUS
  <2> QED BY <1>3, <2>1, PoppedStops
<1>5. PICK r : r = SubSeq(bucket, p + 1, Len(bucket))
  OBVIOUS
<1>6. Recent(bucket) = r
  BY <1>4, <1>5 DEF Recent
<1>7. /\ r \in Seq(Nat) /\ Len(r) = Len(log) - (m + p)
      /\ \A j \in 1..(Len(log) - (m + p)) : r[j] = log[m + p + j]
  <2>1. Len(bucket) \in Nat /\ p \in Nat /\ m \in Nat
    BY <1>1, <1>3
  <2>2. /\ r \in Seq(Nat) /\ Len(r) = Len(bucket) - p
        /\ \A j \in 1..(Len(bucket) - p) : r[j] = bucket[p + j]
    BY <1>3, <1>5, RestOfSeq
  <2>3. Len(bucket) = Len(log) - m
    BY <1>3
  <2>4. Len(r) = Len(log) - (m + p) /\ Len(bucket) - p = Len(log) - (m + p)
    <3>1. Len(r) = Len(bucket) - p
      BY <2>2
    <3> QED BY <1>1, <2>1, <2>3, <3>1
  <2>5. ASSUME NEW j \in 1..(Len(log) - (m + p)) PROVE r[j] = log[m + p + j]
    <3>1. j \in 1..(Len(bucket) - p) /\ p + j \in 1..(Len(log) - m) /\ m + (p + j) = m + p + j
      BY <1>1, <2>1, <2>4
    <3>2. r[j] = bucket[p + j]
      BY <2>2, <3>1
    <3>3. bucket[p + j] = log[m + (p + j)]
      BY <1>3, <3>1
    <3> QED BY <3>1, <3>2, <3>3
  <2> QED BY <2>2, <2>4, <2>5
<1>8. PICK n \in 0..Len(log) : n = m + p
  BY <1>1, <1>3
<1>9. r = SubSeq(log, n + 1, Len(log))
  <2>1. PICK q : q = SubSeq(log, n + 1, Len(log))
    OBVIOUS
  <2>2. /\ q \in Seq(Nat) /\ Len(q) = Len(log) - n
        /\ \A j \in 1..(Len(log) - n) : q[j] = log[n + j]
    BY <1>1, <2>1, RestOfSeq
  <2>3. Len(r) = Len(q) /\ \A j \in 1..Len(r) : r[j] = q[j]
    BY <1>7, <1>8, <2>2
  <2>4. r = q
    BY <1>7, <2>2, <2>3, SeqEqual
  <2> QED BY <2>1, <2>4
<1>10. ASSUME NEW j \in 1..n PROVE log[j] + Window <= monotonic
  <2>1. CASE j <= m
    BY <1>2, <1>8, <2>1
  <2>2. CASE j > m
    <3>1. j - m \in 1..p /\ j - m \in 1..(Len(log) - m) /\ m + (j - m) = j
      BY <1>1, <1>3, <1>8, <2>2
    <3>2. bucket[j - m] = log[m + (j - m)] /\ bucket[j - m] <= monotonic - Window
      BY <1>3, <1>4, <3>1
    <3>3. log[j] \in Nat
      BY <1>1, <1>8
    <3>4. log[j] <= monotonic - Window
      BY <3>1, <3>2
    <3> QED BY <3>3, <3>4
  <2> QED BY <1>1, <1>8, <2>1, <2>2
<1>11. ASSUME NEW j \in (n + 1)..Len(log) PROVE log[j] + Window > monotonic
  <2>1. p < Len(bucket) /\ p + 1 \in 1..(Len(log) - m) /\ m + (p + 1) = n + 1
    BY <1>1, <1>3, <1>8
  <2>2. bucket[p + 1] = log[m + (p + 1)] /\ bucket[p + 1] > monotonic - Window
    BY <1>3, <1>4, <2>1
  <2>3. log[n + 1] > monotonic - Window
    BY <2>1, <2>2
  <2>4. n + 1 \in DOMAIN log /\ j \in DOMAIN log /\ n + 1 <= j
    BY <1>1
  <2>5. log[n + 1] <= log[j] /\ log[j] \in Nat /\ log[n + 1] \in Nat
    BY <1>1, <2>4 DEF Logged
  <2> QED BY <2>3, <2>5
<1>12. Len(r) = Len(log) - n /\ Len(log) - n <= Limit
  <2>1. Len(r) = Len(log) - (m + p) /\ Len(log) - m <= Limit
    BY <1>2, <1>7
  <2>2. Len(log) \in Nat /\ m \in Nat /\ p \in Nat /\ n = m + p
    BY <1>1, <1>3, <1>8
  <2> QED BY <2>1, <2>2
<1>13. Len(log) - n > 0 => r[1] = log[n + 1]
  <2>1. Len(log) - (m + p) > 0 => 1 \in 1..(Len(log) - (m + p))
    BY <1>1, <1>3
  <2> QED BY <1>7, <1>8, <2>1
<1> QED BY <1>6, <1>9, <1>10, <1>11, <1>12, <1>13

\* A log whose requests are spaced so lets no more than Limit of them fall into
\* one window.
LEMMA WindowHolds ==
  ASSUME NEW clock, NEW log, Logged(log, clock), NEW t \in Int
  PROVE  Cardinality({j \in DOMAIN log : t - Window < log[j] /\ log[j] <= t}) <= Limit
<1>1. /\ log \in Seq(Nat) /\ Len(log) \in Nat /\ DOMAIN log = 1..Len(log)
      /\ \A j \in 1..Len(log) : log[j] \in Nat
  BY LenProperties, ElementOfSeq DEF Logged
<1>2. PICK W : W = {j \in DOMAIN log : t - Window < log[j] /\ log[j] <= t}
  OBVIOUS
<1>3. CASE W = {}
  BY <1>2, <1>3, FS_EmptySet
<1>4. CASE W # {}
  <2>1. PICK S : S = {n \in 0..Len(log) : \A j \in 1..n : j \notin W}
    OBVIOUS
  <2>2. S \in SUBSET (0..Len(log)) /\ 0 \in S
    BY <1>1, <2>1
  <2>3. PICK n \in S : n + 1 \notin S
    BY <1>1, <2>2, LastStep
  <2>4. n \in 0..Len(log) /\ \A j \in 1..n : j \notin W
    BY <2>1, <2>3
  <2>5. n + 1 \in W
    <3>1. n + 1 \in 0..Len(log)
      <4>1. PICK w \in W : w \in 1..Len(log)
        BY <1>1, <1>2, <1>4
      <4>2. w > n
        BY <1>1, <2>4, <4>1
      <4> QED BY <1>1, <2>4, <4>1, <4>2
    <3>2. ~ \A j \in 1..(n + 1) : j \notin W
      BY <2>1, <2>3, <3>1
    <3> QED BY <2>4, <3>2
  <2>6. ASSUME NEW w \in W PROVE w \in (n + 1)..(n + Limit)
    <3>1. /\ w \in 1..Len(log) /\ n + 1 \in 1..Len(log)
          /\ t - Window < log[n + 1] /\ log[w] <= t
      BY <1>1, <1>2, <2>5
    <3>2. w >= n + 1
      BY <2>4, <3>1
    <3>3. ~ (w > n + Limit)
      <4> SUFFICES ASSUME w > n + Limit PROVE FALSE
        OBVIOUS
      <4>1. n + 1 + Limit \in 1..Len(log) /\ n + 1 + Limit <= w
        BY <1>1, <2>4, <3>1
      <4>2. log[n + 1] + Window <= log[n + 1 + Limit] /\ log[n + 1 + Limit] <= log[w]
        BY <1>1, <3>1, <4>1 DEF Logged
      <4>3. log[n + 1] \in Nat /\ log[n + 1 + Limit] \in Nat /\ log[w] \in Nat
        BY <1>1, <3>1, <4>1
      <4> QED BY <3>1, <4>2, <4>3
    <3> QED BY <2>4, <3>1, <3>2, <3>3
  <2>7. n + 1 \in Int /\ n + Limit \in Int /\ n + Limit >= n + 1 /\ n + Limit - (n + 1) + 1 = Limit
    BY <2>4
  <2>8. IsFiniteSet((n + 1)..(n + Limit)) /\ Cardinality((n + 1)..(n + Limit)) = Limit
    <3>1. PICK a, b : a = n + 1 /\ b = n + Limit
      OBVIOUS
    <3>0. n \in Nat
      BY <1>1, <2>4
    <3>2. a \in Int /\ b \in Int /\ ~ (a > b) /\ b - a + 1 = Limit
      BY <3>0, <3>1
    <3>3. IsFiniteSet(a..b) /\ Cardinality(a..b) = IF a > b THEN 0 ELSE b - a + 1
      BY <3>2, FS_Interval
    <3> QED BY <3>1, <3>2, <3>3
  <2>9. W \in SUBSET ((n + 1)..(n + Limit))
    BY <2>6
  <2> QED BY <1>2, <2>8, <2>9, FS_Subset
<1> QED BY <1>3, <1>4

\* A request is let through when the window has room: the log stays spaced and
\* the bucket its end.
LEMMA AdmitKeeps ==
  ASSUME monotonic \in Nat, NEW log, Logged(log, monotonic),
         NEW bucket, Suffix(bucket, log, monotonic), Len(Recent(bucket)) < Limit
  PROVE  /\ Logged(Append(log, monotonic), monotonic)
         /\ Suffix(Append(Recent(bucket), monotonic), Append(log, monotonic), monotonic)
<1>1. /\ log \in Seq(Nat) /\ Len(log) \in Nat /\ DOMAIN log = 1..Len(log)
      /\ \A j \in 1..Len(log) : log[j] \in Nat
  BY LenProperties, ElementOfSeq DEF Logged
<1>2. PICK n \in 0..Len(log) :
        /\ Recent(bucket) = SubSeq(log, n + 1, Len(log)) /\ Len(Recent(bucket)) = Len(log) - n
        /\ \A j \in 1..n : log[j] + Window <= monotonic
  BY RecentIsSuffix
<1>3. PICK long : long = Append(log, monotonic)
  OBVIOUS
<1>4. /\ long \in Seq(Nat) /\ Len(long) = Len(log) + 1 /\ DOMAIN long = 1..(Len(log) + 1)
      /\ long[Len(log) + 1] = monotonic
      /\ \A j \in 1..Len(log) : long[j] = log[j]
  BY <1>1, <1>3
<1>5. Len(log) - n < Limit /\ n \in Nat
  BY <1>2
<1>6. Logged(long, monotonic)
  <2>1. ASSUME NEW j \in DOMAIN long PROVE long[j] <= monotonic
    <3>1. CASE j = Len(log) + 1
      BY <1>4, <3>1
    <3>2. CASE j # Len(log) + 1
      <4>1. j \in 1..Len(log)
        BY <1>1, <1>4, <3>2
      <4> QED BY <1>1, <1>4, <4>1 DEF Logged
    <3> QED BY <3>1, <3>2
  <2>2. ASSUME NEW j \in DOMAIN long, NEW k \in DOMAIN long, j <= k PROVE long[j] <= long[k]
    <3>1. CASE k = Len(log) + 1
      BY <1>4, <2>1, <3>1
    <3>2. CASE k # Len(log) + 1
      <4>1. k \in DOMAIN log /\ j \in DOMAIN log
        BY <1>1, <1>4, <2>2, <3>2
      <4> QED BY <1>1, <1>4, <2>2, <4>1 DEF Logged
    <3> QED BY <3>1, <3>2
  <2>3. ASSUME NEW j \in DOMAIN long, j + Limit \in DOMAIN long
        PROVE  long[j] + Window <= long[j + Limit]
    <3>1. CASE j + Limit = Len(log) + 1
      <4>1. j \in 1..n /\ j \in 1..Len(log)
        BY <1>1, <1>4, <1>5, <2>3, <3>1
      <4>2. log[j] + Window <= monotonic
        BY <1>2, <4>1
      <4> QED BY <1>4, <3>1, <4>1, <4>2
    <3>2. CASE j + Limit # Len(log) + 1
      <4>1. j \in DOMAIN log /\ j + Limit \in DOMAIN log
        <5>1. /\ Len(log) \in Nat /\ DOMAIN log = 1..Len(log) /\ DOMAIN long = 1..(Len(log) + 1)
          BY <1>1, <1>4
        <5>2. j \in 1..(Len(log) + 1) /\ j + Limit \in 1..(Len(log) + 1)
          BY <2>3, <5>1
        <5>3. j \in 1..Len(log) /\ j + Limit \in 1..Len(log)
          BY <3>2, <5>1, <5>2
        <5> QED BY <5>1, <5>3
      <4>2. log[j] + Window <= log[j + Limit]
        BY <4>1 DEF Logged
      <4> QED BY <1>1, <1>4, <4>1, <4>2
    <3> QED BY <3>1, <3>2
  <2> QED BY <1>4, <2>1, <2>2, <2>3 DEF Logged
<1>7. Suffix(Append(Recent(bucket), monotonic), long, monotonic)
  <2>1. n \in 0..Len(log) /\ n \in 0..Len(long)
    BY <1>1, <1>4
  <2>2. PICK r : r = Recent(bucket)
    OBVIOUS
  <2>3. /\ r \in Seq(Nat) /\ Len(r) = Len(log) - n
        /\ \A j \in 1..(Len(log) - n) : r[j] = log[n + j]
    <3>1. r = SubSeq(log, n + 1, Len(log)) /\ log \in Seq(Nat)
      BY <1>1, <1>2, <2>2
    <3> QED BY <2>1, <3>1, RestOfSeq
  <2>4. PICK q : q = SubSeq(long, n + 1, Len(long))
    OBVIOUS
  <2>5. /\ q \in Seq(Nat) /\ Len(q) = Len(long) - n
        /\ \A j \in 1..(Len(long) - n) : q[j] = long[n + j]
    BY <1>4, <2>1, <2>4, RestOfSeq
  <2>6. PICK a : a = Append(r, monotonic)
    OBVIOUS
  <2>7. /\ a \in Seq(Nat) /\ Len(a) = Len(r) + 1 /\ a[Len(r) + 1] = monotonic
        /\ \A j \in 1..Len(r) : a[j] = r[j]
    BY <2>3, <2>6
  <2>8. Len(a) = Len(log) - n + 1 /\ Len(q) = Len(log) - n + 1
    <3>1. Len(a) = Len(r) + 1 /\ Len(r) = Len(log) - n /\ Len(q) = Len(long) - n
          /\ Len(long) = Len(log) + 1
      BY <1>4, <2>3, <2>5, <2>7
    <3> QED BY <1>1, <1>5, <3>1
  <2>9. ASSUME NEW j \in 1..Len(a) PROVE a[j] = q[j]
    <3>1. j \in 1..(Len(log) - n + 1) /\ j \in Nat /\ j \in 1..(Len(long) - n)
      BY <1>1, <1>4, <1>5, <2>8
    <3>2. CASE j = Len(log) - n + 1
      <4>1. n + j = Len(log) + 1
        BY <1>1, <1>5, <3>2
      <4>2. q[j] = monotonic
        BY <1>4, <2>5, <3>1, <4>1
      <4>3. a[j] = monotonic
        BY <2>3, <2>7, <3>2
      <4> QED BY <4>2, <4>3
    <3>3. CASE j # Len(log) - n + 1
      <4>1. j \in 1..(Len(log) - n) /\ n + j \in 1..Len(log) /\ j \in 1..Len(r)
        <5>1. Len(log) \in Nat /\ Len(r) = Len(log) - n
          BY <1>1, <2>3
        <5> QED BY <1>5, <3>1, <3>3, <5>1
      <4>2. a[j] = log[n + j]
        BY <2>3, <2>7, <4>1
      <4>3. q[j] = log[n + j]
        BY <1>4, <2>5, <3>1, <4>1
      <4> QED BY <4>2, <4>3
    <3> QED BY <3>2, <3>3
  <2>10. a = q
    BY <2>5, <2>7, <2>8, <2>9, SeqEqual
  <2>11. Len(long) - n <= Limit
    BY <1>1, <1>4, <1>5
  <2>12. \A j \in 1..n : long[j] + Window <= monotonic
    <3> SUFFICES ASSUME NEW j \in 1..n PROVE long[j] + Window <= monotonic
      OBVIOUS
    <3>1. j \in 1..Len(log)
      BY <1>1, <1>5, <2>1
    <3>2. long[j] = log[j] /\ log[j] + Window <= monotonic
      BY <1>2, <1>4, <3>1
    <3> QED BY <3>2
  <2> QED BY <2>1, <2>2, <2>4, <2>6, <2>10, <2>11, <2>12 DEF Suffix
<1> QED BY <1>3, <1>6, <1>7

-----------------------------------------------------------------------------
(* Time and growing histories *)

\* Requests are added and move on; an answered one stays as it is.
Grown(rs, rs2) ==
  \A i \in DOMAIN rs : i \in DOMAIN rs2 /\ (rs[i].pc = "answered" => rs2[i] = rs[i])

\* Nothing is taken from a history.
Longer(ps, ps2) == \A j \in DOMAIN ps : j \in DOMAIN ps2 /\ ps2[j] = ps[j]

\* What is in the store, and what was replayed, keep their origin.
LEMMA OriginsStay ==
  ASSUME NEW rs, NEW rs2, Grown(rs, rs2), NEW ps, NEW ps2, Longer(ps, ps2)
  PROVE  /\ \A e : Stocked(rs, ps, e) => Stocked(rs2, ps2, e)
         /\ \A r : Replayed(rs, ps, r) => Replayed(rs2, ps2, r)
<1>1. ASSUME NEW by, NEW status, NEW key, Original(rs, by, status, key)
      PROVE  Original(rs2, by, status, key)
  BY <1>1 DEF Original, Grown
<1>2. ASSUME NEW e, Stocked(rs, ps, e) PROVE Stocked(rs2, ps2, e)
  BY <1>1, <1>2 DEF Stocked, Longer
<1>3. ASSUME NEW r, Replayed(rs, ps, r) PROVE Replayed(rs2, ps2, r)
  BY <1>1, <1>3 DEF Replayed, Longer
<1> QED BY <1>2, <1>3

\* Time does nothing to logs, buckets and what is held.
LEMMA TimeGoesOn ==
  ASSUME NEW clock \in Nat, NEW later \in Nat, clock <= later
  PROVE  /\ \A log : Logged(log, clock) => Logged(log, later)
         /\ \A log \in Seq(Nat) : \A bucket : Suffix(bucket, log, clock) => Suffix(bucket, log, later)
         /\ \A ps, st, p : p.at \in Nat /\ Held(ps, st, clock, p) => Held(ps, st, later, p)
<1>1. ASSUME NEW log, Logged(log, clock) PROVE Logged(log, later)
  <2>1. log \in Seq(Nat) /\ \A j \in DOMAIN log : log[j] \in Nat
    BY <1>1, LenProperties, ElementOfSeq DEF Logged
  <2>2. \A j \in DOMAIN log : log[j] <= later
    BY <1>1, <2>1 DEF Logged
  <2> QED BY <1>1, <2>2 DEF Logged
<1>2. ASSUME NEW log \in Seq(Nat), NEW bucket, Suffix(bucket, log, clock)
      PROVE  Suffix(bucket, log, later)
  <2>1. Len(log) \in Nat /\ \A j \in 1..Len(log) : log[j] \in Nat
    BY LenProperties, ElementOfSeq
  <2>2. PICK n \in 0..Len(log) :
          /\ bucket = SubSeq(log, n + 1, Len(log)) /\ Len(log) - n <= Limit
          /\ \A j \in 1..n : log[j] + Window <= clock
    BY <1>2 DEF Suffix
  <2>3. ASSUME NEW j \in 1..n PROVE log[j] + Window <= later
    <3>1. log[j] \in Nat /\ log[j] + Window <= clock
      BY <2>1, <2>2
    <3> QED BY <3>1
  <2> QED BY <2>2, <2>3 DEF Suffix
<1>3. ASSUME NEW ps, NEW st, NEW p, p.at \in Nat, Held(ps, st, clock, p)
      PROVE  Held(ps, st, later, p)
  <2>1. p.at + KeepFor <= clock => p.at + KeepFor <= later
    BY <1>3
  <2> QED BY <1>3, <2>1 DEF Held
<1> QED BY <1>1, <1>2, <1>3

\* A promise made to a refused request outlives those let through later.
LEMMA PromiseStays ==
  ASSUME NEW log \in Seq(Nat), NEW x \in Nat, NEW r \in Req, Promised(r, log)
  PROVE  Promised(r, Append(log, x))
<1>1. Len(log) \in Nat /\ r.ahead \in Nat
  BY LenProperties DEF Req
<1>2. PICK long : long = Append(log, x)
  OBVIOUS
<1>3. Len(long) = Len(log) + 1 /\ \A j \in 1..Len(log) : long[j] = log[j]
  BY <1>1, <1>2
<1>4. ASSUME r.wait > 0
      PROVE  /\ r.ahead \in Limit..Len(long)
             /\ r.at + r.wait = long[r.ahead - Limit + 1] + Window
  <2>1. r.ahead \in Limit..Len(log) /\ r.at + r.wait = log[r.ahead - Limit + 1] + Window
    BY <1>4 DEF Promised
  <2>2. r.ahead - Limit + 1 \in 1..Len(log) /\ r.ahead \in Limit..(Len(log) + 1)
    BY <1>1, <2>1
  <2> QED BY <1>3, <2>1, <2>2
<1> QED BY <1>2, <1>4 DEF Promised

\* A request that is not answered yet moves on.
LEMMA ReqMoves ==
  ASSUME FrontTypes, NEW i \in DOMAIN reqs, reqs[i].pc # "answered", NEW n \in Req,
         ReqOK(n, i), reqs' = [reqs EXCEPT ![i] = n]
  PROVE  /\ reqs' \in Seq(Req) /\ DOMAIN reqs' = DOMAIN reqs /\ Grown(reqs, reqs')
         /\ reqs'[i] = n /\ \A k \in DOMAIN reqs : k # i => reqs'[k] = reqs[k]
         /\ \A k \in DOMAIN reqs' : ReqOK(reqs'[k], k)
<1>1. reqs \in Seq(Req) /\ Len(reqs) \in Nat /\ DOMAIN reqs = 1..Len(reqs)
  BY LenProperties DEF FrontTypes
<1>2. reqs' \in Seq(Req) /\ DOMAIN reqs' = DOMAIN reqs
  BY <1>1, ExceptSeq
<1>3. reqs'[i] = n /\ \A k \in DOMAIN reqs : k # i => reqs'[k] = reqs[k]
  OBVIOUS
<1>4. Grown(reqs, reqs')
  BY <1>2, <1>3 DEF Grown
<1> QED BY <1>2, <1>3, <1>4 DEF FrontTypes

-----------------------------------------------------------------------------
(* Requests move while the store, or the limiter, is left alone *)

LEMMA StoreLeftAlone ==
  ASSUME FrontInv, UNCHANGED <<monotonic, store, puts>>, Grown(reqs, reqs'),
         \A k \in DOMAIN reqs' :
           \/ k \in DOMAIN reqs /\ reqs'[k] = reqs[k]
           \/ Replayed(reqs', puts', reqs'[k])
  PROVE  ReplayInv'
<1>1. Longer(puts, puts')
  BY DEF Longer
<1>2. /\ \A e : Stocked(reqs, puts, e) => Stocked(reqs', puts', e)
      /\ \A r : Replayed(reqs, puts, r) => Replayed(reqs', puts', r)
  BY <1>1, OriginsStay
<1>3. IsFiniteSet(store') /\ Cardinality(store') <= MaxAnswers
  BY DEF FrontInv, ReplayInv
<1>4. \A e1, e2 \in store' : e1.key = e2.key => e1 = e2
  BY DEF FrontInv, ReplayInv
<1>5. \A e \in store' : Stocked(reqs', puts', e)
  BY <1>2 DEF FrontInv, ReplayInv
<1>6. \A j \in DOMAIN puts' : puts'[j].at <= monotonic' /\ Held(puts', store', monotonic', puts'[j])
  BY DEF FrontInv, ReplayInv
<1>7. \A i \in DOMAIN reqs' : Replayed(reqs', puts', reqs'[i])
  BY <1>2 DEF FrontInv, ReplayInv
<1> QED BY <1>3, <1>4, <1>5, <1>6, <1>7 DEF ReplayInv

LEMMA LimiterLeftAlone ==
  ASSUME FrontInv, UNCHANGED <<monotonic, buckets, admitted>>,
         \A k \in DOMAIN reqs' :
           \/ /\ k \in DOMAIN reqs /\ reqs'[k].op = reqs[k].op /\ reqs'[k].wait = reqs[k].wait
              /\ reqs'[k].at = reqs[k].at /\ reqs'[k].ahead = reqs[k].ahead
           \/ reqs'[k].wait = 0
  PROVE  LimiterInv'
<1>1. ASSUME NEW k \in DOMAIN reqs' PROVE Promised(reqs'[k], admitted'[reqs'[k].op.cred])
  BY DEF FrontInv, LimiterInv, Promised
<1> QED BY <1>1 DEF FrontInv, LimiterInv

LEMMA FrontStarts == FrontInit => FrontInv
<1> SUFFICES ASSUME FrontInit PROVE FrontInv
  OBVIOUS
<1>1. FrontTypes
  <2>1. Ready \in Sender /\ Ready.pc # "waiting"
    BY DEF Ready, Sender
  <2> QED BY <2>1 DEF FrontInit, FrontTypes
<1>2. ASSUME NEW c \in Creds
      PROVE  Logged(admitted[c], monotonic) /\ Suffix(buckets[c], admitted[c], monotonic)
  <2>1. admitted[c] = <<>> /\ buckets[c] = <<>>
    BY DEF FrontInit
  <2>2. <<>> \in Seq(Nat) /\ Len(<<>>) = 0 /\ DOMAIN <<>> = {}
    BY EmptySeq
  <2>3. SubSeq(<<>>, 0 + 1, 0) = <<>>
    <3>1. Len(SubSeq(<<>>, 0 + 1, Len(<<>>))) = Len(<<>>) - 0 /\ SubSeq(<<>>, 0 + 1, Len(<<>>)) \in Seq(Nat)
      BY <2>2, RestOfSeq
    <3> QED BY <2>2, <3>1, EmptySeq
  <2>4. Logged(<<>>, monotonic)
    BY <2>2 DEF Logged
  <2>5. Suffix(<<>>, <<>>, monotonic)
    BY <2>2, <2>3 DEF Suffix
  <2> QED BY <2>1, <2>4, <2>5
<1>3. LimiterInv
  BY <1>2 DEF FrontInit, LimiterInv
<1>4. ReplayInv
  BY FS_EmptySet DEF FrontInit, ReplayInv
<1> QED BY <1>1, <1>3, <1>4 DEF FrontInv

LEMMA FrontTickKeeps == FrontInv /\ FrontTick => FrontInv'
<1> SUFFICES ASSUME FrontInv, FrontTick PROVE FrontInv'
  OBVIOUS
<1>1. monotonic \in Nat /\ monotonic' \in Nat /\ monotonic <= monotonic'
  BY DEF FrontInv, FrontTypes, FrontTick
<1>2. /\ \A log : Logged(log, monotonic) => Logged(log, monotonic')
      /\ \A log \in Seq(Nat) : \A bucket : Suffix(bucket, log, monotonic) => Suffix(bucket, log, monotonic')
      /\ \A ps, st, p : p.at \in Nat /\ Held(ps, st, monotonic, p) => Held(ps, st, monotonic', p)
  BY <1>1, TimeGoesOn
<1>3. UNCHANGED <<senders, reqs, store, buckets, admitted, puts>>
  BY DEF FrontTick
<1>4. FrontTypes'
  BY <1>1, <1>3 DEF FrontInv, FrontTypes
<1>5. LimiterInv'
  <2>1. ASSUME NEW c \in Creds
        PROVE  Logged(admitted[c], monotonic') /\ Suffix(buckets[c], admitted[c], monotonic')
    <3>1. Logged(admitted[c], monotonic) /\ Suffix(buckets[c], admitted[c], monotonic)
      BY DEF FrontInv, LimiterInv
    <3>2. admitted[c] \in Seq(Nat)
      BY <3>1 DEF Logged
    <3> QED BY <1>2, <3>1, <3>2
  <2> QED BY <1>3, <2>1 DEF FrontInv, LimiterInv
<1>6. ReplayInv'
  <2>1. ASSUME NEW j \in DOMAIN puts
        PROVE  puts[j].at <= monotonic' /\ Held(puts, store, monotonic', puts[j])
    <3>1. puts[j] \in PutRow
      BY DEF FrontInv, FrontTypes
    <3>2. puts[j].at \in Nat /\ puts[j].at <= monotonic /\ Held(puts, store, monotonic, puts[j])
      BY <3>1 DEF FrontInv, ReplayInv, PutRow
    <3> QED BY <1>1, <1>2, <3>2
  <2> QED BY <1>3, <2>1 DEF FrontInv, ReplayInv
<1> QED BY <1>4, <1>5, <1>6 DEF FrontInv

\* A request comes in.
LEMMA Arrives ==
  ASSUME FrontInv, NEW o \in Ops, reqs' = Append(reqs, Request(o)),
         senders' \in [Senders -> Sender],
         \A s \in Senders : senders'[s].pc = "waiting" => senders'[s].op \in Ops,
         UNCHANGED <<monotonic, store, buckets, admitted, puts>>
  PROVE  FrontInv'
<1>1. reqs \in Seq(Req) /\ Len(reqs) \in Nat /\ DOMAIN reqs = 1..Len(reqs)
  BY LenProperties DEF FrontInv, FrontTypes
<1>2. PICK q : q = Request(o)
  OBVIOUS
<1>3. q \in Req /\ q.pc = "lookup" /\ q.wait = 0 /\ q.replay = FALSE /\ q.known = FALSE
  BY <1>2 DEF Request, Req, Status
<1>4. /\ reqs' \in Seq(Req) /\ DOMAIN reqs' = 1..(Len(reqs) + 1) /\ reqs'[Len(reqs) + 1] = q
      /\ \A k \in 1..Len(reqs) : reqs'[k] = reqs[k]
  BY <1>1, <1>2, <1>3
<1>5. ASSUME NEW k \in DOMAIN reqs' PROVE (k \in DOMAIN reqs /\ reqs'[k] = reqs[k]) \/ reqs'[k] = q
  BY <1>1, <1>4
<1>6. Grown(reqs, reqs')
  BY <1>1, <1>4 DEF Grown
<1>7. \A k : ReqOK(q, k)
  BY <1>3 DEF ReqOK
<1>8. FrontTypes'
  <2>1. \A k \in DOMAIN reqs' : ReqOK(reqs'[k], k)
    BY <1>5, <1>7 DEF FrontInv, FrontTypes
  <2> QED BY <1>4, <2>1 DEF FrontInv, FrontTypes
<1>9. Replayed(reqs', puts', q)
  BY <1>3 DEF Replayed
<1>10. ReplayInv'
  BY <1>5, <1>6, <1>9, StoreLeftAlone
<1>11. LimiterInv'
  BY <1>3, <1>5, LimiterLeftAlone
<1> QED BY <1>8, <1>10, <1>11 DEF FrontInv

\* A caller gets its answer, or gives up.
LEMMA Returns ==
  ASSUME FrontInv, NEW s \in Senders, Return(s),
         UNCHANGED <<monotonic, reqs, store, buckets, admitted, puts>>
  PROVE  FrontInv'
<1>1. Ready \in Sender /\ Ready.pc # "waiting"
  BY DEF Ready, Sender
<1>2. /\ senders' \in [Senders -> Sender]
      /\ \A x \in Senders : senders'[x].pc = "waiting" => senders'[x].op \in Ops
  BY <1>1 DEF Return, FrontInv, FrontTypes
<1>3. FrontTypes'
  BY <1>2 DEF FrontInv, FrontTypes
<1>4. LimiterInv' /\ ReplayInv'
  BY DEF FrontInv, LimiterInv, ReplayInv
<1> QED BY <1>3, <1>4 DEF FrontInv

LEMMA Sends ==
  ASSUME FrontInv, NEW s \in Senders, NEW o \in Ops, NEW n \in Nat, Send(s, o, n),
         UNCHANGED <<monotonic, store, buckets, admitted, puts>>
  PROVE  FrontInv'
<1>1. Len(reqs) \in Nat
  BY LenProperties DEF FrontInv, FrontTypes
<1>2. PICK x : x = [pc |-> "waiting", op |-> o, req |-> Len(reqs) + 1, attempts |-> n]
  OBVIOUS
<1>3. x \in Sender /\ x.op \in Ops
  BY <1>1, <1>2 DEF Sender
<1>4. senders' = [senders EXCEPT ![s] = x] /\ reqs' = Append(reqs, Request(o))
  BY <1>2 DEF Send
<1>5. /\ senders' \in [Senders -> Sender]
      /\ \A y \in Senders : senders'[y].pc = "waiting" => senders'[y].op \in Ops
  BY <1>3, <1>4 DEF FrontInv, FrontTypes
<1> QED BY <1>4, <1>5, Arrives

LEMMA TransientKeeps ==
  ASSUME FrontInv, NEW s \in Senders, senders[s].pc = "waiting", Transient(s),
         UNCHANGED <<monotonic, store, buckets, admitted, puts>>
  PROVE  FrontInv'
<1>1. senders[s].op \in Ops /\ senders[s].attempts + 1 \in Nat
  BY DEF FrontInv, FrontTypes, Sender
<1>2. \/ Send(s, senders[s].op, senders[s].attempts + 1)
      \/ Return(s) /\ UNCHANGED reqs
  BY DEF Transient
<1> QED BY <1>1, <1>2, Sends, Returns

LEMMA SendersKeep ==
  ASSUME FrontInv, NEW s \in Senders,
         Lose(s) \/ ReceiveAnswer(s) \/ \E o \in Ops : Call(s, o)
  PROVE  FrontInv'
<1>1. CASE Lose(s)
  BY <1>1, TransientKeeps DEF Lose
<1>2. CASE ReceiveAnswer(s)
  BY <1>2, TransientKeeps, Returns DEF ReceiveAnswer
<1>3. CASE \E o \in Ops : Call(s, o)
  BY <1>3, Sends DEF Call
<1> QED BY <1>1, <1>2, <1>3

-----------------------------------------------------------------------------
(* The steps of the service *)

\* An answer that is due is in the store.
LEMMA DueIsHeld ==
  ASSUME FrontInv, NEW o \in Ops, Known(o)
  PROVE  \E e \in store : e.key = CacheKey(o) /\ e.exp > monotonic
<1>1. PICK j \in DOMAIN puts :
        /\ puts[j].key = <<o.cred, o.path, o.key>> /\ monotonic < puts[j].at + KeepFor
        /\ Cardinality({puts[n].key : n \in {n \in DOMAIN puts : puts[n].at >= puts[j].at}}) <= MaxAnswers
  BY DEF Known
<1>2. puts[j] \in PutRow /\ monotonic \in Nat
  BY DEF FrontInv, FrontTypes
<1>3. puts[j].at + KeepFor \in Nat
  BY <1>2 DEF PutRow
<1>4. ~ (puts[j].at + KeepFor <= monotonic)
  BY <1>1, <1>2, <1>3
<1>5. Held(puts, store, monotonic, puts[j])
  BY DEF FrontInv, ReplayInv
<1>6. PICK e \in store : e.key = puts[j].key /\ e.exp >= puts[j].at + KeepFor
  BY <1>1, <1>4, <1>5 DEF Held, PutSince
<1>7. e \in StoredAnswer
  BY DEF FrontInv, FrontTypes
<1>8. e.exp \in Nat
  BY <1>7 DEF StoredAnswer
<1>9. e.exp > monotonic
  BY <1>1, <1>2, <1>3, <1>6, <1>8
<1> QED BY <1>1, <1>6, <1>9 DEF CacheKey

\* A request goes on to the limiter when no answer to it is due.
LEMMA GoesOn ==
  ASSUME FrontInv, NEW i \in DOMAIN reqs, reqs[i].pc = "lookup",
         Keyed(reqs[i].op) => ~ Known(reqs[i].op),
         reqs' = [reqs EXCEPT ![i] = [@ EXCEPT !.pc = "limit", !.known = Keyed(reqs[i].op) /\ Known(reqs[i].op)]],
         UNCHANGED <<monotonic, senders, buckets, admitted, puts>>
  PROVE  /\ reqs' \in Seq(Req) /\ Grown(reqs, reqs') /\ \A k \in DOMAIN reqs' : ReqOK(reqs'[k], k)
         /\ \A k \in DOMAIN reqs' : (k \in DOMAIN reqs /\ reqs'[k] = reqs[k]) \/ Replayed(reqs', puts', reqs'[k])
         /\ LimiterInv'
<1>1. reqs[i] \in Req /\ FrontTypes /\ ReqOK(reqs[i], i)
  BY DEF FrontInv, FrontTypes
<1>2. (Keyed(reqs[i].op) /\ Known(reqs[i].op)) = FALSE
  OBVIOUS
<1>3. PICK n : n = [reqs[i] EXCEPT !.pc = "limit", !.known = FALSE]
  OBVIOUS
<1>4. /\ n \in Req /\ n.pc = "limit" /\ n.known = FALSE /\ n.replay = reqs[i].replay
      /\ n.op = reqs[i].op /\ n.wait = reqs[i].wait /\ n.at = reqs[i].at /\ n.ahead = reqs[i].ahead
  BY <1>1, <1>3 DEF Req
<1>5. n.replay = FALSE /\ ReqOK(n, i)
  BY <1>1, <1>4 DEF ReqOK
<1>6. reqs' = [reqs EXCEPT ![i] = n]
  BY <1>2, <1>3
<1>7. /\ reqs' \in Seq(Req) /\ DOMAIN reqs' = DOMAIN reqs /\ Grown(reqs, reqs')
      /\ reqs'[i] = n /\ \A k \in DOMAIN reqs : k # i => reqs'[k] = reqs[k]
      /\ \A k \in DOMAIN reqs' : ReqOK(reqs'[k], k)
  BY <1>1, <1>4, <1>5, <1>6, ReqMoves
<1>8. Replayed(reqs', puts', n)
  BY <1>5 DEF Replayed
<1>9. LimiterInv'
  <2>1. \A k \in DOMAIN reqs' :
          /\ k \in DOMAIN reqs /\ reqs'[k].op = reqs[k].op /\ reqs'[k].wait = reqs[k].wait
          /\ reqs'[k].at = reqs[k].at /\ reqs'[k].ahead = reqs[k].ahead
    BY <1>4, <1>7
  <2> QED BY <2>1, LimiterLeftAlone
<1> QED BY <1>7, <1>8, <1>9

\* An expired answer is dropped: no put of its key is held to any longer.
LEMMA ExpiredDropped ==
  ASSUME FrontInv, NEW e \in store, e.exp <= monotonic, store' = Others(e.key),
         UNCHANGED <<monotonic, puts>>, Grown(reqs, reqs'),
         \A k \in DOMAIN reqs' :
           \/ k \in DOMAIN reqs /\ reqs'[k] = reqs[k]
           \/ Replayed(reqs', puts', reqs'[k])
  PROVE  ReplayInv' /\ store' \in SUBSET StoredAnswer
<1>1. Longer(puts, puts')
  BY DEF Longer
<1>2. /\ \A x : Stocked(reqs, puts, x) => Stocked(reqs', puts', x)
      /\ \A r : Replayed(reqs, puts, r) => Replayed(reqs', puts', r)
  BY <1>1, OriginsStay
<1>3. store' \in SUBSET store
  BY DEF Others
<1>4. IsFiniteSet(store') /\ Cardinality(store') <= MaxAnswers
  <2>1. IsFiniteSet(store) /\ Cardinality(store) <= MaxAnswers
    BY DEF FrontInv, ReplayInv
  <2>2. IsFiniteSet(store') /\ Cardinality(store') <= Cardinality(store)
    BY <1>3, <2>1, FS_Subset
  <2>3. Cardinality(store') \in Nat /\ Cardinality(store) \in Nat
    BY <2>1, <2>2, FS_CardinalityType
  <2> QED BY <2>1, <2>2, <2>3
<1>5. \A e1, e2 \in store' : e1.key = e2.key => e1 = e2
  BY <1>3 DEF FrontInv, ReplayInv
<1>6. \A x \in store' : Stocked(reqs', puts', x)
  BY <1>2, <1>3 DEF FrontInv, ReplayInv
<1>7. ASSUME NEW j \in DOMAIN puts
      PROVE  puts[j].at <= monotonic /\ Held(puts, store', monotonic, puts[j])
  <2>1. puts[j].at <= monotonic /\ Held(puts, store, monotonic, puts[j])
    BY DEF FrontInv, ReplayInv
  <2>2. ASSUME NEW x \in store, x.key = puts[j].key, x.exp >= puts[j].at + KeepFor
        PROVE  x \in store' \/ puts[j].at + KeepFor <= monotonic
    <3>1. CASE x.key # e.key
      BY <3>1 DEF Others
    <3>2. CASE x.key = e.key
      <4>1. x = e
        BY <3>2 DEF FrontInv, ReplayInv
      <4>2. e \in StoredAnswer /\ puts[j] \in PutRow /\ monotonic \in Nat
        BY DEF FrontInv, FrontTypes
      <4>3. e.exp \in Nat /\ puts[j].at \in Nat
        BY <4>2 DEF StoredAnswer, PutRow
      <4>4. e.exp >= puts[j].at + KeepFor
        BY <2>2, <4>1
      <4> QED BY <4>2, <4>3, <4>4
    <3> QED BY <3>1, <3>2
  <2> QED BY <2>1, <2>2 DEF Held
<1>8. \A i \in DOMAIN reqs' : Replayed(reqs', puts', reqs'[i])
  BY <1>2 DEF FrontInv, ReplayInv
<1>9. store' \in SUBSET StoredAnswer
  BY <1>3 DEF FrontInv, FrontTypes
<1> QED BY <1>4, <1>5, <1>6, <1>7, <1>8, <1>9 DEF ReplayInv

\* A fresh answer is replayed.
LEMMA Replays ==
  ASSUME FrontInv, NEW i \in DOMAIN reqs, reqs[i].pc = "lookup", NEW e \in store,
         e.key = CacheKey(reqs[i].op), e.exp > monotonic, Answer(i, e.status, e.by, TRUE),
         UNCHANGED <<monotonic, senders, store, buckets, admitted, puts>>
  PROVE  FrontInv'
<1>1. reqs[i] \in Req /\ FrontTypes /\ ReqOK(reqs[i], i) /\ e \in StoredAnswer /\ monotonic \in Nat
  BY DEF FrontInv, FrontTypes
<1>2. PICK n : n = [reqs[i] EXCEPT !.pc = "answered", !.status = e.status, !.by = e.by,
                                   !.replay = TRUE, !.at = monotonic]
  OBVIOUS
<1>3. /\ n \in Req /\ n.pc = "answered" /\ n.known = reqs[i].known /\ n.replay = TRUE
      /\ n.op = reqs[i].op /\ n.wait = reqs[i].wait /\ n.at = monotonic
      /\ n.status = e.status /\ n.by = e.by
  BY <1>1, <1>2 DEF Req, StoredAnswer
<1>4. ReqOK(n, i) /\ n.wait = 0
  BY <1>1, <1>3 DEF ReqOK
<1>5. reqs' = [reqs EXCEPT ![i] = n]
  BY <1>2 DEF Answer
<1>6. /\ reqs' \in Seq(Req) /\ DOMAIN reqs' = DOMAIN reqs /\ Grown(reqs, reqs')
      /\ reqs'[i] = n /\ \A k \in DOMAIN reqs : k # i => reqs'[k] = reqs[k]
      /\ \A k \in DOMAIN reqs' : ReqOK(reqs'[k], k)
  BY <1>1, <1>3, <1>4, <1>5, ReqMoves
<1>7. Replayed(reqs', puts', n)
  <2>1. Longer(puts, puts') /\ Stocked(reqs, puts, e)
    BY DEF Longer, FrontInv, ReplayInv
  <2>2. Stocked(reqs', puts', e)
    BY <1>6, <2>1, OriginsStay
  <2>3. PICK j \in DOMAIN puts : puts[j].by = e.by /\ e.exp = puts[j].at + KeepFor
    BY <2>2 DEF Stocked
  <2>4. n.at < puts[j].at + KeepFor
    <3>1. e.exp \in Nat
      BY <1>1 DEF StoredAnswer
    <3> QED BY <1>1, <1>3, <2>3, <3>1
  <2>5. Original(reqs', n.by, n.status, CacheKey(n.op))
    BY <1>3, <2>2 DEF Stocked
  <2> QED BY <1>3, <2>3, <2>4, <2>5 DEF Replayed
<1>8. LimiterInv'
  <2>1. \A k \in DOMAIN reqs' : (k \in DOMAIN reqs /\ reqs'[k] = reqs[k]) \/ reqs'[k].wait = 0
    BY <1>4, <1>6
  <2> QED BY <2>1, LimiterLeftAlone
<1>9. ReplayInv'
  BY <1>6, <1>7, StoreLeftAlone
<1>10. FrontTypes'
  BY <1>1, <1>6 DEF FrontTypes
<1> QED BY <1>8, <1>9, <1>10 DEF FrontInv

LEMMA GetStoredKeeps ==
  ASSUME FrontInv, NEW i, GetStored(i)
  PROVE  FrontInv'
<1>1. i \in DOMAIN reqs /\ reqs[i].pc = "lookup"
  BY DEF GetStored, At
<1>2. PICK o \in Ops : o = reqs[i].op
  <2>1. reqs[i] \in Req
    BY <1>1 DEF FrontInv, FrontTypes
  <2> QED BY <2>1 DEF Req
<1>3. UNCHANGED <<monotonic, senders, buckets, admitted, puts>>
  BY DEF GetStored
<1>4. CASE /\ ~ Keyed(o) \/ Entries(CacheKey(o)) = {}
           /\ reqs' = [reqs EXCEPT ![i] = [@ EXCEPT !.pc = "limit", !.known = Keyed(o) /\ Known(o)]]
           /\ UNCHANGED store
  <2>1. Keyed(o) => ~ Known(o)
    BY <1>4, DueIsHeld DEF Entries
  <2>2. /\ reqs' \in Seq(Req) /\ Grown(reqs, reqs') /\ \A k \in DOMAIN reqs' : ReqOK(reqs'[k], k)
        /\ \A k \in DOMAIN reqs' : (k \in DOMAIN reqs /\ reqs'[k] = reqs[k]) \/ Replayed(reqs', puts', reqs'[k])
        /\ LimiterInv'
    BY <1>1, <1>2, <1>3, <1>4, <2>1, GoesOn
  <2>3. ReplayInv'
    BY <1>3, <1>4, <2>2, StoreLeftAlone
  <2>4. FrontTypes'
    BY <1>3, <1>4, <2>2 DEF FrontInv, FrontTypes
  <2> QED BY <2>2, <2>3, <2>4 DEF FrontInv
<1>5. ASSUME Keyed(o), NEW e \in Entries(CacheKey(o)), e.exp <= monotonic, store' = Others(CacheKey(o)),
             reqs' = [reqs EXCEPT ![i] = [@ EXCEPT !.pc = "limit", !.known = Keyed(o) /\ Known(o)]]
      PROVE  FrontInv'
  <2>0. e \in store /\ e.key = CacheKey(o)
    BY DEF Entries
  <2>1. ~ Known(o)
    <3> SUFFICES ASSUME Known(o) PROVE FALSE
      OBVIOUS
    <3>1. PICK x \in store : x.key = CacheKey(o) /\ x.exp > monotonic
      BY DueIsHeld
    <3>2. x = e
      BY <2>0, <3>1 DEF FrontInv, ReplayInv
    <3>3. e \in StoredAnswer /\ monotonic \in Nat
      BY <2>0 DEF FrontInv, FrontTypes
    <3>4. e.exp \in Nat
      BY <3>3 DEF StoredAnswer
    <3> QED BY <1>5, <3>1, <3>2, <3>3, <3>4
  <2>2. /\ reqs' \in Seq(Req) /\ Grown(reqs, reqs') /\ \A k \in DOMAIN reqs' : ReqOK(reqs'[k], k)
        /\ \A k \in DOMAIN reqs' : (k \in DOMAIN reqs /\ reqs'[k] = reqs[k]) \/ Replayed(reqs', puts', reqs'[k])
        /\ LimiterInv'
    BY <1>1, <1>2, <1>3, <1>5, <2>1, GoesOn
  <2>3. ReplayInv' /\ store' \in SUBSET StoredAnswer
    BY <1>3, <1>5, <2>0, <2>2, ExpiredDropped
  <2>4. FrontTypes'
    BY <1>3, <2>2, <2>3 DEF FrontInv, FrontTypes
  <2> QED BY <2>2, <2>3, <2>4 DEF FrontInv
<1>6. ASSUME NEW e \in Entries(CacheKey(o)), e.exp > monotonic, Answer(i, e.status, e.by, TRUE),
             UNCHANGED store
      PROVE  FrontInv'
  BY <1>1, <1>2, <1>3, <1>6, Replays DEF Entries
<1> QED BY <1>2, <1>4, <1>5, <1>6 DEF GetStored

\* The bucket is full: the wait is until its oldest request leaves the window.
LEMMA Refuses ==
  ASSUME monotonic \in Nat, NEW log, Logged(log, monotonic),
         NEW bucket, Suffix(bucket, log, monotonic), Len(Recent(bucket)) >= Limit
  PROVE  /\ Suffix(Recent(bucket), log, monotonic)
         /\ Recent(bucket)[1] + Window - monotonic \in Nat
         /\ Len(log) \in Nat /\ Len(log) \in Limit..Len(log)
         /\ Recent(bucket)[1] = log[Len(log) - Limit + 1] /\ Recent(bucket)[1] \in Nat
<1>1. /\ log \in Seq(Nat) /\ Len(log) \in Nat /\ DOMAIN log = 1..Len(log)
      /\ \A j \in 1..Len(log) : log[j] \in Nat
  BY LenProperties, ElementOfSeq DEF Logged
<1>2. PICK n \in 0..Len(log) :
        /\ Recent(bucket) = SubSeq(log, n + 1, Len(log)) /\ Len(log) - n <= Limit
        /\ Len(Recent(bucket)) = Len(log) - n
        /\ \A j \in 1..n : log[j] + Window <= monotonic
        /\ \A j \in (n + 1)..Len(log) : log[j] + Window > monotonic
        /\ Len(log) - n > 0 => Recent(bucket)[1] = log[n + 1]
  BY RecentIsSuffix
<1>3. Suffix(Recent(bucket), log, monotonic)
  BY <1>2 DEF Suffix
<1>4. n \in Nat /\ Len(log) - n = Limit /\ n + 1 \in (n + 1)..Len(log) /\ n + 1 \in 1..Len(log)
  <2>1. PICK len : len = Len(log) /\ len \in Nat
    BY <1>1
  <2>2. n \in Nat /\ n <= len
    BY <2>1
  <2>3. len - n <= Limit
    BY <1>2, <2>1
  <2>4. len - n >= Limit
    <3>1. Len(Recent(bucket)) = len - n
      BY <1>2, <2>1
    <3> QED BY <3>1
  <2>5. len - n = Limit
    BY <2>1, <2>2, <2>3, <2>4
  <2>6. n + 1 \in 1..len /\ n + 1 \in (n + 1)..len
    BY <2>1, <2>2, <2>5
  <2> QED BY <2>1, <2>2, <2>5, <2>6
<1>5. n + 1 = Len(log) - Limit + 1 /\ Len(log) - n > 0 /\ Len(log) \in Limit..Len(log)
  BY <1>1, <1>4
<1>6. Recent(bucket)[1] = log[n + 1] /\ log[n + 1] + Window > monotonic /\ log[n + 1] \in Nat
  BY <1>1, <1>2, <1>4, <1>5
<1>7. log[n + 1] + Window - monotonic \in Nat
  BY <1>6
<1> QED BY <1>1, <1>3, <1>5, <1>6, <1>7

Refused(r, i, at, wait, ahead) ==
  [r EXCEPT !.pc = "store", !.status = 429, !.by = i, !.at = at, !.wait = wait, !.ahead = ahead]

LEMMA RefusedTyped ==
  ASSUME NEW r \in Req, NEW i \in Nat, NEW at \in Nat, NEW wait \in Nat, NEW ahead \in Nat
  PROVE  Refused(r, i, at, wait, ahead) \in Req
<1>1. 429 \in Status
  BY DEF Status
<1>2. PICK x : x = [r EXCEPT !.pc = "store", !.status = 429, !.by = i, !.at = at, !.wait = wait,
                             !.ahead = ahead]
  OBVIOUS
<1>3. DOMAIN x = DOMAIN r /\ x.pc = "store" /\ x.status = 429 /\ x.by = i
  BY <1>2 DEF Req
<1>4. x.op = r.op /\ x.replay = r.replay /\ x.known = r.known
  BY <1>2 DEF Req
<1>5. x.at = at /\ x.wait = wait /\ x.ahead = ahead
  BY <1>2 DEF Req
<1>6. x = [op |-> x.op, pc |-> x.pc, status |-> x.status, by |-> x.by, replay |-> x.replay,
           known |-> x.known, at |-> x.at, wait |-> x.wait, ahead |-> x.ahead]
  BY <1>2 DEF Req
<1>7. x \in Req
  BY <1>1, <1>2, <1>3, <1>4, <1>5, <1>6 DEF Req
<1> QED BY <1>2, <1>7 DEF Refused

LEMMA AllowKeeps ==
  ASSUME FrontInv, NEW i, Allow(i)
  PROVE  FrontInv'
<1>1. i \in DOMAIN reqs /\ reqs[i].pc = "limit"
  BY DEF Allow, At
<1>2. reqs[i] \in Req /\ FrontTypes /\ ReqOK(reqs[i], i) /\ monotonic \in Nat /\ reqs \in Seq(Req)
      /\ i \in Nat
  <2>1. reqs \in Seq(Req) /\ DOMAIN reqs = 1..Len(reqs) /\ Len(reqs) \in Nat
    BY LenProperties DEF FrontInv, FrontTypes
  <2>2. i \in Nat
    BY <1>1, <2>1
  <2> QED BY <1>1, <2>2 DEF FrontInv, FrontTypes
<1>3. PICK c \in Creds : c = reqs[i].op.cred
  BY <1>2 DEF Req, Creds
<1>4. Logged(admitted[c], monotonic) /\ Suffix(buckets[c], admitted[c], monotonic)
  BY DEF FrontInv, LimiterInv
<1>5. UNCHANGED <<monotonic, senders, store, puts>>
  BY DEF Allow
<1>6. \A k \in DOMAIN reqs : reqs[k] \in Req /\ Promised(reqs[k], admitted[reqs[k].op.cred])
  BY <1>2, ElementOfSeq DEF FrontInv, LimiterInv
<1>7. DOMAIN admitted = Creds /\ DOMAIN buckets = Creds
  BY DEF FrontInv, LimiterInv
<1>8. PICK bucket : bucket = Recent(buckets[c])
  OBVIOUS
<1>9. CASE /\ Len(bucket) >= Limit
           /\ buckets' = [buckets EXCEPT ![c] = bucket]
           /\ reqs' = [reqs EXCEPT ![i] = [@ EXCEPT !.pc = "store", !.status = 429, !.by = i,
                                           !.at = monotonic, !.wait = bucket[1] + Window - monotonic,
                                           !.ahead = Len(admitted[c])]]
           /\ UNCHANGED admitted
  <2>1. /\ Suffix(bucket, admitted[c], monotonic)
        /\ bucket[1] + Window - monotonic \in Nat
        /\ Len(admitted[c]) \in Nat /\ Len(admitted[c]) \in Limit..Len(admitted[c])
        /\ bucket[1] = admitted[c][Len(admitted[c]) - Limit + 1] /\ bucket[1] \in Nat
    BY <1>2, <1>4, <1>8, <1>9, Refuses
  <2>2. PICK n : n = [reqs[i] EXCEPT !.pc = "store", !.status = 429, !.by = i,
                                     !.at = monotonic, !.wait = bucket[1] + Window - monotonic,
                                     !.ahead = Len(admitted[c])]
    OBVIOUS
  <2>3. /\ n.pc = "store" /\ n.by = i /\ n.known = reqs[i].known /\ n.replay = reqs[i].replay
        /\ n.op = reqs[i].op /\ n.wait = bucket[1] + Window - monotonic /\ n.at = monotonic
        /\ n.ahead = Len(admitted[c])
    BY <1>2, <2>2 DEF Req
  <2>4. n \in Req
    <3>1. 429 \in Status
      BY DEF Status
    <3>2. PICK w, len \in Nat : w = bucket[1] + Window - monotonic /\ len = Len(admitted[c])
      BY <2>1
    <3>3. n = [reqs[i] EXCEPT !.pc = "store", !.status = 429, !.by = i, !.at = monotonic,
                              !.wait = w, !.ahead = len]
      BY <2>2, <3>2
    <3>4. w \in Nat /\ len \in Nat /\ i \in Nat /\ monotonic \in Nat /\ reqs[i] \in Req
      BY <1>2, <3>2
    <3>5. Refused(reqs[i], i, monotonic, w, len) \in Req
      BY <3>4, RefusedTyped
    <3>6. n = Refused(reqs[i], i, monotonic, w, len)
      BY <3>3 DEF Refused
    <3> QED BY <3>5, <3>6
  <2>5. ReqOK(n, i) /\ n.replay = FALSE
    BY <1>1, <1>2, <2>3 DEF ReqOK
  <2>6. reqs' = [reqs EXCEPT ![i] = n]
    BY <1>9, <2>2
  <2>7. /\ reqs' \in Seq(Req) /\ DOMAIN reqs' = DOMAIN reqs /\ Grown(reqs, reqs')
        /\ reqs'[i] = n /\ \A k \in DOMAIN reqs : k # i => reqs'[k] = reqs[k]
        /\ \A k \in DOMAIN reqs' : ReqOK(reqs'[k], k)
    BY <1>1, <1>2, <2>4, <2>5, <2>6, ReqMoves
  <2>8. FrontTypes'
    BY <1>5, <2>7 DEF FrontInv, FrontTypes
  <2>9. Replayed(reqs', puts', n)
    BY <2>5 DEF Replayed
  <2>10. ReplayInv'
    BY <1>5, <2>7, <2>9, StoreLeftAlone
  <2>11. Promised(n, admitted[c])
    <3>1. n.at + n.wait = bucket[1] + Window
      BY <1>2, <2>1, <2>3
    <3>2. n.ahead \in Limit..Len(admitted[c]) /\ bucket[1] = admitted[c][n.ahead - Limit + 1]
      BY <2>1, <2>3
    <3> QED BY <3>1, <3>2 DEF Promised
  <2>12. \A k \in DOMAIN reqs' : Promised(reqs'[k], admitted'[reqs'[k].op.cred])
    <3> SUFFICES ASSUME NEW k \in DOMAIN reqs' PROVE Promised(reqs'[k], admitted'[reqs'[k].op.cred])
      OBVIOUS
    <3>0. k \in DOMAIN reqs /\ admitted' = admitted
      BY <1>9, <2>7
    <3>1. CASE k = i
      <4>1. reqs'[k] = n /\ n.op.cred = c
        BY <1>3, <2>3, <2>7, <3>1
      <4> QED BY <2>11, <3>0, <4>1
    <3>2. CASE k # i
      <4>1. reqs'[k] = reqs[k]
        BY <2>7, <3>0, <3>2
      <4> QED BY <1>6, <3>0, <4>1
    <3> QED BY <3>1, <3>2
  <2>13. \A d \in Creds : Logged(admitted'[d], monotonic') /\ Suffix(buckets'[d], admitted'[d], monotonic')
    BY <1>5, <1>7, <1>9, <2>1 DEF FrontInv, LimiterInv
  <2>14. LimiterInv'
    BY <1>7, <1>9, <2>12, <2>13 DEF LimiterInv
  <2> QED BY <2>8, <2>10, <2>14 DEF FrontInv
<1>10. CASE /\ ~ (Len(bucket) >= Limit)
            /\ buckets' = [buckets EXCEPT ![c] = Append(bucket, monotonic)]
            /\ admitted' = [admitted EXCEPT ![c] = Append(@, monotonic)]
            /\ reqs' = [reqs EXCEPT ![i].pc = "handle"]
  <2>1. /\ Logged(Append(admitted[c], monotonic), monotonic)
        /\ Suffix(Append(bucket, monotonic), Append(admitted[c], monotonic), monotonic)
    <3>1. Len(bucket) < Limit
      <4>1. \E m \in 0..Len(admitted[c]) : Len(bucket) = Len(admitted[c]) - m
        BY <1>2, <1>4, <1>8, RecentIsSuffix
      <4>2. Len(admitted[c]) \in Nat
        BY <1>4, LenProperties DEF Logged
      <4> QED BY <1>10, <4>1, <4>2
    <3> QED BY <1>2, <1>4, <1>8, <3>1, AdmitKeeps
  <2>2. PICK n : n = [reqs[i] EXCEPT !.pc = "handle"]
    OBVIOUS
  <2>3. /\ n.pc = "handle" /\ n.known = reqs[i].known /\ n.replay = reqs[i].replay
        /\ n.op = reqs[i].op /\ n.wait = reqs[i].wait /\ n.at = reqs[i].at /\ n.ahead = reqs[i].ahead
    BY <1>2, <2>2 DEF Req
  <2>4. n \in Req
    BY <1>2, <2>2 DEF Req
  <2>5. ReqOK(n, i) /\ n.replay = FALSE
    BY <1>1, <1>2, <2>3 DEF ReqOK
  <2>6. reqs' = [reqs EXCEPT ![i] = n]
    BY <1>10, <2>2
  <2>7. /\ reqs' \in Seq(Req) /\ DOMAIN reqs' = DOMAIN reqs /\ Grown(reqs, reqs')
        /\ reqs'[i] = n /\ \A k \in DOMAIN reqs : k # i => reqs'[k] = reqs[k]
        /\ \A k \in DOMAIN reqs' : ReqOK(reqs'[k], k)
    BY <1>1, <1>2, <2>4, <2>5, <2>6, ReqMoves
  <2>8. FrontTypes'
    BY <1>5, <2>7 DEF FrontInv, FrontTypes
  <2>9. Replayed(reqs', puts', n)
    BY <2>5 DEF Replayed
  <2>10. ReplayInv'
    BY <1>5, <2>7, <2>9, StoreLeftAlone
  <2>11. ASSUME NEW k \in DOMAIN reqs PROVE Promised(reqs[k], admitted'[reqs[k].op.cred])
    <3>1. CASE reqs[k].op.cred # c
      BY <1>6, <1>10, <3>1
    <3>2. CASE reqs[k].op.cred = c
      <4>1. admitted'[c] = Append(admitted[c], monotonic)
        BY <1>7, <1>10
      <4>2. admitted[c] \in Seq(Nat)
        BY <1>4 DEF Logged
      <4>3. Promised(reqs[k], Append(admitted[c], monotonic))
        BY <1>2, <1>6, <3>2, <4>2, PromiseStays
      <4> QED BY <3>2, <4>1, <4>3
    <3> QED BY <3>1, <3>2
  <2>12. Promised(n, admitted'[n.op.cred])
    BY <1>1, <2>3, <2>11 DEF Promised
  <2>13. \A k \in DOMAIN reqs' : Promised(reqs'[k], admitted'[reqs'[k].op.cred])
    BY <2>7, <2>11, <2>12
  <2>14. \A d \in Creds : Logged(admitted'[d], monotonic') /\ Suffix(buckets'[d], admitted'[d], monotonic')
    BY <1>5, <1>7, <1>10, <2>1 DEF FrontInv, LimiterInv
  <2>15. LimiterInv'
    BY <1>7, <1>10, <2>13, <2>14 DEF LimiterInv
  <2> QED BY <2>8, <2>10, <2>15 DEF FrontInv
<1> QED BY <1>3, <1>8, <1>9, <1>10 DEF Allow

LEMMA HandleKeeps ==
  ASSUME FrontInv, NEW i, NEW status \in {2, 4, 5}, Handle(i, status)
  PROVE  FrontInv'
<1>1. i \in DOMAIN reqs /\ reqs[i].pc = "handle"
  BY DEF Handle, At
<1>2. reqs[i] \in Req /\ FrontTypes /\ ReqOK(reqs[i], i) /\ i \in Nat
  <2>1. reqs \in Seq(Req) /\ DOMAIN reqs = 1..Len(reqs) /\ Len(reqs) \in Nat
    BY LenProperties DEF FrontInv, FrontTypes
  <2>2. i \in Nat
    BY <1>1, <2>1
  <2> QED BY <1>1, <2>2 DEF FrontInv, FrontTypes
<1>3. UNCHANGED <<monotonic, senders, store, buckets, admitted, puts>>
  BY DEF Handle
<1>4. PICK n : n = [reqs[i] EXCEPT !.pc = "store", !.status = status, !.by = i]
  OBVIOUS
<1>5. /\ n.pc = "store" /\ n.by = i /\ n.known = reqs[i].known /\ n.replay = reqs[i].replay
      /\ n.op = reqs[i].op /\ n.wait = reqs[i].wait /\ n.at = reqs[i].at /\ n.ahead = reqs[i].ahead
  BY <1>2, <1>4 DEF Req
<1>6. n \in Req
  <2>1. status \in Status
    BY DEF Status
  <2> QED BY <1>2, <1>4, <2>1 DEF Req
<1>7. ReqOK(n, i) /\ n.replay = FALSE
  BY <1>1, <1>2, <1>5 DEF ReqOK
<1>8. reqs' = [reqs EXCEPT ![i] = n]
  BY <1>4 DEF Handle
<1>9. /\ reqs' \in Seq(Req) /\ DOMAIN reqs' = DOMAIN reqs /\ Grown(reqs, reqs')
      /\ reqs'[i] = n /\ \A k \in DOMAIN reqs : k # i => reqs'[k] = reqs[k]
      /\ \A k \in DOMAIN reqs' : ReqOK(reqs'[k], k)
  BY <1>1, <1>2, <1>6, <1>7, <1>8, ReqMoves
<1>10. FrontTypes'
  BY <1>3, <1>9 DEF FrontInv, FrontTypes
<1>11. Replayed(reqs', puts', n)
  BY <1>7 DEF Replayed
<1>12. ReplayInv'
  BY <1>3, <1>9, <1>11, StoreLeftAlone
<1>13. LimiterInv'
  <2>1. \A k \in DOMAIN reqs' :
          /\ k \in DOMAIN reqs /\ reqs'[k].op = reqs[k].op /\ reqs'[k].wait = reqs[k].wait
          /\ reqs'[k].at = reqs[k].at /\ reqs'[k].ahead = reqs[k].ahead
    BY <1>5, <1>9
  <2> QED BY <1>3, <2>1, LimiterLeftAlone
<1> QED BY <1>10, <1>12, <1>13 DEF FrontInv

\* The keys put since some time are finitely many.
LEMMA PutSinceFinite ==
  ASSUME NEW ps \in Seq(PutRow), NEW time
  PROVE  IsFiniteSet(PutSince(ps, time)) /\ Cardinality(PutSince(ps, time)) \in Nat
<1>1. PICK D : D = {n \in DOMAIN ps : ps[n].at >= time}
  OBVIOUS
<1>2. IsFiniteSet(D)
  <2>1. DOMAIN ps = 1..Len(ps) /\ Len(ps) \in Int
    BY LenProperties
  <2>2. IsFiniteSet(1..Len(ps))
    BY <2>1, FS_Interval
  <2> QED BY <1>1, <2>1, <2>2, FS_Subset
<1>3. PICK f : f = [n \in D |-> ps[n].key]
  OBVIOUS
<1>4. PutSince(ps, time) = {ps[n].key : n \in D}
  BY <1>1 DEF PutSince
<1>5. f \in Surjection(D, PutSince(ps, time))
  BY <1>3, <1>4 DEF Surjection
<1>6. IsFiniteSet(PutSince(ps, time))
  BY <1>2, <1>5, FS_Surjection
<1> QED BY <1>6, FS_CardinalityType

\* One more is put.
LEMMA OneMorePut ==
  ASSUME NEW ps \in Seq(PutRow), NEW x \in PutRow
  PROVE  /\ Append(ps, x) \in Seq(PutRow) /\ Longer(ps, Append(ps, x))
         /\ Len(ps) + 1 \in DOMAIN Append(ps, x) /\ Append(ps, x)[Len(ps) + 1] = x
         /\ \A j \in DOMAIN Append(ps, x) : j \in DOMAIN ps \/ Append(ps, x)[j] = x
         /\ \A time : PutSince(ps, time) \in SUBSET PutSince(Append(ps, x), time)
         /\ \A time : x.at >= time => x.key \in PutSince(Append(ps, x), time)
<1>1. Len(ps) \in Nat /\ DOMAIN ps = 1..Len(ps)
  BY LenProperties
<1>2. PICK qs : qs = Append(ps, x)
  OBVIOUS
<1>3. /\ qs \in Seq(PutRow) /\ DOMAIN qs = 1..(Len(ps) + 1) /\ qs[Len(ps) + 1] = x
      /\ \A j \in 1..Len(ps) : qs[j] = ps[j]
  BY <1>1, <1>2
<1>4. Longer(ps, qs) /\ Len(ps) + 1 \in DOMAIN qs
  BY <1>1, <1>3 DEF Longer
<1>5. \A j \in DOMAIN qs : j \in DOMAIN ps \/ qs[j] = x
  BY <1>1, <1>3
<1>6. ASSUME NEW time PROVE PutSince(ps, time) \in SUBSET PutSince(qs, time)
  <2> SUFFICES ASSUME NEW k \in PutSince(ps, time) PROVE k \in PutSince(qs, time)
    OBVIOUS
  <2>1. PICK n \in DOMAIN ps : ps[n].at >= time /\ k = ps[n].key
    BY DEF PutSince
  <2>2. n \in DOMAIN qs /\ qs[n] = ps[n]
    BY <1>4 DEF Longer
  <2> QED BY <2>1, <2>2 DEF PutSince
<1>7. ASSUME NEW time, x.at >= time PROVE x.key \in PutSince(qs, time)
  BY <1>3, <1>4, <1>7 DEF PutSince
<1> QED BY <1>2, <1>3, <1>4, <1>5, <1>6, <1>7

\* What is evicted was displaced: since it was put, and everything else in the
\* store expires no sooner, more keys were put than there is room for.
LEMMA EvictedDisplaced ==
  ASSUME FrontInv, NEW e \in StoredAnswer, NEW qs \in Seq(PutRow), NEW time \in Nat,
         Cardinality(Others(e.key)) >= MaxAnswers,
         \A o \in Others(e.key) : o.exp >= time + KeepFor,
         PutSince(puts, time) \in SUBSET PutSince(qs, time), e.key \in PutSince(qs, time)
  PROVE  ~ (Cardinality(PutSince(qs, time)) <= MaxAnswers)
<1>1. PICK T : T = PutSince(qs, time)
  OBVIOUS
<1>2. IsFiniteSet(T) /\ Cardinality(T) \in Nat
  BY <1>1, PutSinceFinite
<1>3. PICK S : S = Others(e.key) \union {e}
  OBVIOUS
<1>4. IsFiniteSet(Others(e.key)) /\ Cardinality(Others(e.key)) \in Nat
  <2>1. IsFiniteSet(store) /\ Others(e.key) \in SUBSET store
    BY DEF FrontInv, ReplayInv, Others
  <2> QED BY <2>1, FS_Subset, FS_CardinalityType
<1>5. IsFiniteSet(S) /\ Cardinality(S) = Cardinality(Others(e.key)) + 1
  <2>1. e \notin Others(e.key)
    BY DEF Others
  <2> QED BY <1>3, <1>4, <2>1, FS_AddElement
<1>6. ASSUME NEW o \in Others(e.key) PROVE o.key \in T
  <2>1. o \in store /\ Stocked(reqs, puts, o)
    BY DEF Others, FrontInv, ReplayInv
  <2>2. PICK j \in DOMAIN puts : puts[j].key = o.key /\ o.exp = puts[j].at + KeepFor
    BY <2>1 DEF Stocked
  <2>3. puts[j] \in PutRow
    BY DEF FrontInv, FrontTypes
  <2>4. puts[j].at \in Nat /\ puts[j].at + KeepFor >= time + KeepFor
    BY <2>2, <2>3 DEF PutRow
  <2>5. puts[j].at >= time
    BY <2>4
  <2> QED BY <1>1, <2>2, <2>5 DEF PutSince
<1>7. PICK f : f = [o \in S |-> o.key]
  OBVIOUS
<1>8. f \in [S -> T]
  BY <1>1, <1>3, <1>6, <1>7
<1>9. \A x, y \in S : f[x] = f[y] => x = y
  <2> SUFFICES ASSUME NEW x \in S, NEW y \in S, x.key = y.key PROVE x = y
    BY <1>7
  <2>1. \A o \in Others(e.key) : o \in store /\ o.key # e.key
    BY DEF Others
  <2> QED BY <1>3, <2>1 DEF FrontInv, ReplayInv
<1>10. ~ (Cardinality(T) < Cardinality(S))
  BY <1>2, <1>5, <1>8, <1>9, FS_PigeonHole
<1> QED BY <1>1, <1>2, <1>4, <1>5, <1>10

\* There is never more in the store than its limit, and one entry per key.
LEMMA PutFits ==
  ASSUME FrontInv, NEW e \in StoredAnswer, Put(e)
  PROVE  /\ store' \in SUBSET StoredAnswer /\ e \in store'
         /\ \A x \in store' : x \in Others(e.key) \/ x = e
         /\ IsFiniteSet(store') /\ Cardinality(store') <= MaxAnswers
         /\ \A e1, e2 \in store' : e1.key = e2.key => e1 = e2
<1>1. PICK others : others = Others(e.key)
  OBVIOUS
<1>2. others \in SUBSET store /\ \A x \in others : x.key # e.key
  BY <1>1 DEF Others
<1>3. PICK rest : /\ rest \in SUBSET others /\ store' = rest \union {e}
                  /\ \/ rest = others /\ Cardinality(others) < MaxAnswers
                     \/ \E old \in others : rest = others \ {old}
  BY <1>1 DEF Put
<1>4. IsFiniteSet(store) /\ Cardinality(store) <= MaxAnswers /\ Cardinality(store) \in Nat
  BY FS_CardinalityType DEF FrontInv, ReplayInv
<1>5. /\ IsFiniteSet(others) /\ Cardinality(others) <= Cardinality(store)
      /\ Cardinality(others) \in Nat
  BY <1>2, <1>4, FS_Subset, FS_CardinalityType
<1>6. IsFiniteSet(rest) /\ Cardinality(rest) < MaxAnswers /\ Cardinality(rest) \in Nat
  <2>1. CASE rest = others /\ Cardinality(others) < MaxAnswers
    BY <1>5, <2>1
  <2>2. CASE \E old \in others : rest = others \ {old}
    <3>1. IsFiniteSet(rest) /\ Cardinality(rest) = Cardinality(others) - 1
      BY <1>5, <2>2, FS_RemoveElement
    <3>2. Cardinality(rest) \in Nat
      BY <3>1, FS_CardinalityType
    <3> QED BY <1>4, <1>5, <3>1, <3>2
  <2> QED BY <1>3, <2>1, <2>2
<1>7. IsFiniteSet(store') /\ Cardinality(store') <= MaxAnswers
  <2>1. e \notin rest
    BY <1>2, <1>3
  <2>2. IsFiniteSet(rest \union {e}) /\ Cardinality(rest \union {e}) = Cardinality(rest) + 1
    BY <1>6, <2>1, FS_AddElement
  <2>3. Cardinality(rest) + 1 <= MaxAnswers
    BY <1>6
  <2> QED BY <1>3, <2>2, <2>3
<1>8. \A e1, e2 \in store' : e1.key = e2.key => e1 = e2
  BY <1>2, <1>3 DEF FrontInv, ReplayInv
<1>9. store' \in SUBSET StoredAnswer /\ e \in store'
  BY <1>2, <1>3 DEF FrontInv, FrontTypes
<1> QED BY <1>1, <1>3, <1>7, <1>8, <1>9

\* An answer is put into the store.
LEMMA PutKeeps ==
  ASSUME FrontInv, NEW e \in StoredAnswer, Put(e), e.exp = monotonic + KeepFor,
         NEW x \in PutRow, x.key = e.key, x.by = e.by, x.at = monotonic,
         puts' = Append(puts, x), UNCHANGED monotonic, Grown(reqs, reqs'),
         Original(reqs', e.by, e.status, e.key),
         \A k \in DOMAIN reqs' :
           \/ k \in DOMAIN reqs /\ reqs'[k] = reqs[k]
           \/ Replayed(reqs', puts', reqs'[k])
  PROVE  ReplayInv'
<1>1. monotonic \in Nat /\ puts \in Seq(PutRow)
  BY DEF FrontInv, FrontTypes
<1>2. /\ puts' \in Seq(PutRow) /\ Longer(puts, puts')
      /\ Len(puts) + 1 \in DOMAIN puts' /\ puts'[Len(puts) + 1] = x
      /\ \A j \in DOMAIN puts' : j \in DOMAIN puts \/ puts'[j] = x
      /\ \A time : PutSince(puts, time) \in SUBSET PutSince(puts', time)
      /\ \A time : x.at >= time => x.key \in PutSince(puts', time)
  BY <1>1, OneMorePut
<1>3. /\ store' \in SUBSET StoredAnswer /\ e \in store'
      /\ \A y \in store' : y \in Others(e.key) \/ y = e
      /\ IsFiniteSet(store') /\ Cardinality(store') <= MaxAnswers
      /\ \A e1, e2 \in store' : e1.key = e2.key => e1 = e2
  BY PutFits
<1>4. /\ \A y : Stocked(reqs, puts, y) => Stocked(reqs', puts', y)
      /\ \A r : Replayed(reqs, puts, r) => Replayed(reqs', puts', r)
  BY <1>2, OriginsStay
<1>5. Stocked(reqs', puts', e)
  BY <1>2 DEF Stocked
<1>6. \A y \in store' : Stocked(reqs', puts', y)
  BY <1>3, <1>4, <1>5 DEF FrontInv, ReplayInv, Others
<1>7. \A i \in DOMAIN reqs' : Replayed(reqs', puts', reqs'[i])
  BY <1>4 DEF FrontInv, ReplayInv
<1>8. ASSUME NEW p \in PutRow, p.at <= monotonic, Held(puts, store, monotonic, p)
      PROVE  Held(puts', store', monotonic, p)
  <2>1. p.at \in Nat
    BY DEF PutRow
  <2>2. CASE p.at + KeepFor <= monotonic
    BY <2>2 DEF Held
  <2>3. CASE ~ (Cardinality(PutSince(puts, p.at)) <= MaxAnswers)
    <3>1. /\ Cardinality(PutSince(puts, p.at)) \in Nat /\ Cardinality(PutSince(puts', p.at)) \in Nat
          /\ IsFiniteSet(PutSince(puts', p.at))
      BY <1>1, <1>2, PutSinceFinite
    <3>2. PutSince(puts, p.at) \in SUBSET PutSince(puts', p.at)
      BY <1>2
    <3>3. Cardinality(PutSince(puts, p.at)) <= Cardinality(PutSince(puts', p.at))
      BY <3>1, <3>2, FS_Subset
    <3>4. ~ (Cardinality(PutSince(puts', p.at)) <= MaxAnswers)
      BY <2>3, <3>1, <3>3
    <3> QED BY <3>4 DEF Held
  <2>4. ASSUME NEW y \in store, y.key = p.key, y.exp >= p.at + KeepFor
        PROVE  Held(puts', store', monotonic, p)
    <3>1. CASE y.key = e.key
      <4>1. e.exp >= p.at + KeepFor
        BY <1>1, <1>8, <2>1
      <4> QED BY <1>3, <2>4, <3>1, <4>1 DEF Held
    <3>2. CASE y.key # e.key /\ y \in store'
      BY <2>4, <3>2 DEF Held
    <3>3. CASE y.key # e.key /\ y \notin store'
      <4>1. y \in Others(e.key)
        BY <3>3 DEF Others
      <4>2. Cardinality(Others(e.key)) >= MaxAnswers /\ \A o \in Others(e.key) : y.exp <= o.exp
        BY <3>3, <4>1 DEF Put
      <4>3. ASSUME NEW o \in Others(e.key) PROVE o.exp >= p.at + KeepFor
        <5>1. o \in StoredAnswer /\ y \in StoredAnswer
          BY DEF Others, FrontInv, FrontTypes
        <5>2. o.exp \in Nat /\ y.exp \in Nat /\ y.exp <= o.exp
          BY <4>2, <5>1 DEF StoredAnswer
        <5> QED BY <2>1, <2>4, <5>2
      <4>4. /\ PutSince(puts, p.at) \in SUBSET PutSince(puts', p.at)
            /\ e.key \in PutSince(puts', p.at)
        <5>1. x.at >= p.at
          BY <1>1, <1>8, <2>1
        <5> QED BY <1>2, <5>1
      <4>5. ~ (Cardinality(PutSince(puts', p.at)) <= MaxAnswers)
        BY <1>2, <2>1, <4>2, <4>3, <4>4, EvictedDisplaced
      <4> QED BY <4>5 DEF Held
    <3> QED BY <3>1, <3>2, <3>3
  <2> QED BY <1>8, <2>2, <2>3, <2>4 DEF Held
<1>9. ASSUME NEW j \in DOMAIN puts'
      PROVE  puts'[j].at <= monotonic' /\ Held(puts', store', monotonic', puts'[j])
  <2>1. CASE j \in DOMAIN puts
    <3>1. puts'[j] = puts[j] /\ puts[j] \in PutRow
      BY <1>1, <1>2, <2>1, ElementOfSeq DEF Longer
    <3>2. puts[j].at <= monotonic /\ Held(puts, store, monotonic, puts[j])
      BY <2>1 DEF FrontInv, ReplayInv
    <3> QED BY <1>8, <3>1, <3>2
  <2>2. CASE puts'[j] = x
    <3>1. e.exp >= x.at + KeepFor /\ x.at <= monotonic
      BY <1>1
    <3>2. Held(puts', store', monotonic, x)
      BY <1>3, <3>1 DEF Held
    <3> QED BY <2>2, <3>1, <3>2
  <2> QED BY <1>2, <2>1, <2>2
<1> QED BY <1>3, <1>6, <1>7, <1>9 DEF ReplayInv

LEMMA StoreKeeps ==
  ASSUME FrontInv, NEW i, Store(i)
  PROVE  FrontInv'
<1>1. i \in DOMAIN reqs /\ reqs[i].pc = "store"
  BY DEF Store, At
<1>2. reqs[i] \in Req /\ FrontTypes /\ ReqOK(reqs[i], i) /\ i \in Nat /\ monotonic \in Nat
  <2>1. reqs \in Seq(Req) /\ DOMAIN reqs = 1..Len(reqs) /\ Len(reqs) \in Nat
    BY LenProperties DEF FrontInv, FrontTypes
  <2>2. i \in Nat
    BY <1>1, <2>1
  <2> QED BY <1>1, <2>2 DEF FrontInv, FrontTypes
<1>3. UNCHANGED <<monotonic, senders, buckets, admitted>>
  BY DEF Store
<1>4. PICK n : n = [reqs[i] EXCEPT !.pc = "answered"]
  OBVIOUS
<1>5. /\ n.pc = "answered" /\ n.by = reqs[i].by /\ n.known = reqs[i].known /\ n.replay = reqs[i].replay
      /\ n.status = reqs[i].status
      /\ n.op = reqs[i].op /\ n.wait = reqs[i].wait /\ n.at = reqs[i].at /\ n.ahead = reqs[i].ahead
  BY <1>2, <1>4 DEF Req
<1>6. n \in Req
  BY <1>2, <1>4 DEF Req
<1>7. ReqOK(n, i) /\ n.replay = FALSE /\ n.by = i
  BY <1>1, <1>2, <1>5 DEF ReqOK
<1>8. reqs' = [reqs EXCEPT ![i] = n]
  BY <1>4 DEF Store
<1>9. /\ reqs' \in Seq(Req) /\ DOMAIN reqs' = DOMAIN reqs /\ Grown(reqs, reqs')
      /\ reqs'[i] = n /\ \A k \in DOMAIN reqs : k # i => reqs'[k] = reqs[k]
      /\ \A k \in DOMAIN reqs' : ReqOK(reqs'[k], k)
  BY <1>1, <1>2, <1>6, <1>7, <1>8, ReqMoves
<1>10. LimiterInv'
  <2>1. \A k \in DOMAIN reqs' :
          /\ k \in DOMAIN reqs /\ reqs'[k].op = reqs[k].op /\ reqs'[k].wait = reqs[k].wait
          /\ reqs'[k].at = reqs[k].at /\ reqs'[k].ahead = reqs[k].ahead
    BY <1>5, <1>9
  <2> QED BY <1>3, <2>1, LimiterLeftAlone
<1>11. Replayed(reqs', puts', n)
  BY <1>7 DEF Replayed
<1>12. CASE ~ (Keyed(reqs[i].op) /\ reqs[i].status # 5)
  <2>1. UNCHANGED <<store, puts>>
    BY <1>12 DEF Store
  <2>2. ReplayInv'
    BY <1>3, <1>9, <1>11, <2>1, StoreLeftAlone
  <2>3. FrontTypes'
    BY <1>3, <1>9, <2>1 DEF FrontInv, FrontTypes
  <2> QED BY <1>10, <2>2, <2>3 DEF FrontInv
<1>13. CASE Keyed(reqs[i].op) /\ reqs[i].status # 5
  <2>1. PICK e : e = [key |-> CacheKey(reqs[i].op), status |-> reqs[i].status, by |-> reqs[i].by,
                      exp |-> monotonic + KeepFor]
    OBVIOUS
  <2>2. PICK x : x = [key |-> CacheKey(reqs[i].op), by |-> i, at |-> monotonic]
    OBVIOUS
  <2>3. Put(e) /\ puts' = Append(puts, x)
    BY <1>13, <2>1, <2>2 DEF Store, CacheKey
  <2>4. reqs[i].op \in Ops /\ reqs[i].status \in Status /\ reqs[i].by = i
    BY <1>1, <1>2, <1>5, <1>7 DEF Req
  <2>5. CacheKey(reqs[i].op) \in OpKeys /\ monotonic + KeepFor \in Nat
    BY <1>2, <2>4 DEF OpKeys
  <2>6. e \in StoredAnswer /\ x \in PutRow
    BY <1>2, <2>1, <2>2, <2>4, <2>5 DEF StoredAnswer, PutRow
  <2>7. /\ e.key = CacheKey(reqs[i].op) /\ e.by = i /\ e.status = reqs[i].status
        /\ e.exp = monotonic + KeepFor /\ x.key = e.key /\ x.by = e.by /\ x.at = monotonic
    BY <2>1, <2>2, <2>4
  <2>8. Original(reqs', e.by, e.status, e.key)
    BY <1>1, <1>5, <1>7, <1>9, <1>13, <2>7 DEF Original
  <2>9. ReplayInv'
    BY <1>3, <1>9, <1>11, <2>3, <2>6, <2>7, <2>8, PutKeeps
  <2>10. puts' \in Seq(PutRow) /\ store' \in SUBSET StoredAnswer
    BY <2>3, <2>6, OneMorePut, PutFits DEF FrontInv, FrontTypes
  <2>11. FrontTypes'
    BY <1>3, <1>9, <2>10 DEF FrontInv, FrontTypes
  <2> QED BY <1>10, <2>9, <2>11 DEF FrontInv
<1> QED BY <1>12, <1>13

-----------------------------------------------------------------------------
(* Theorems *)

\* The inductive invariant of the middleware holds in every reachable state.
THEOREM FrontInvCorrect == FrontSpec => []FrontInv
<1>1. FrontInv /\ [FrontNext]_frontVars => FrontInv'
  <2> SUFFICES ASSUME FrontInv, [FrontNext]_frontVars PROVE FrontInv'
    OBVIOUS
  <2>1. CASE FrontTick
    BY <2>1, FrontTickKeeps
  <2>2. CASE \E s \in Senders : Lose(s) \/ ReceiveAnswer(s) \/ \E o \in Ops : Call(s, o)
    BY <2>2, SendersKeep
  <2>3. CASE \E i \in 1..MaxRequests : ServeRequest(i)
    <3>1. PICK i \in 1..MaxRequests : ServeRequest(i)
      BY <2>3
    <3> QED BY <3>1, GetStoredKeeps, AllowKeeps, StoreKeeps, HandleKeeps DEF ServeRequest
  <2>4. CASE UNCHANGED frontVars
    BY <2>4 DEF frontVars, FrontInv, FrontTypes, LimiterInv, ReplayInv
  <2> QED BY <2>1, <2>2, <2>3, <2>4 DEF FrontNext
<1> QED BY <1>1, FrontStarts, PTL DEF FrontSpec

\* _SlidingWindowLimiter.allow is exact: no window of that length, wherever it
\* begins, sees more than Limit requests of a credential let through, and who
\* waits for retry_after finds room.
THEOREM LimiterExact == FrontSpec => []LimitExact
<1>1. FrontInv => LimitExact
  <2> SUFFICES ASSUME FrontInv PROVE LimitExact
    OBVIOUS
  <2>1. ASSUME NEW c \in Creds, NEW t \in 0..monotonic PROVE Through(c, t) <= Limit
    <3>1. Logged(admitted[c], monotonic) /\ t \in Int
      BY DEF FrontInv, LimiterInv
    <3> QED BY <3>1, WindowHolds DEF Through
  <2>2. ASSUME NEW i \in DOMAIN reqs, reqs[i].wait > 0,
               monotonic >= reqs[i].at + reqs[i].wait,
               Len(admitted[reqs[i].op.cred]) = reqs[i].ahead
        PROVE  Len(Recent(buckets[reqs[i].op.cred])) < Limit
    <3>1. reqs[i] \in Req /\ monotonic \in Nat
      BY DEF FrontInv, FrontTypes
    <3>2. PICK c \in Creds : c = reqs[i].op.cred
      BY <3>1 DEF Req, Creds
    <3>3. PICK log, bucket : log = admitted[c] /\ bucket = buckets[c]
      OBVIOUS
    <3>4. Logged(log, monotonic) /\ Suffix(bucket, log, monotonic)
      BY <3>3 DEF FrontInv, LimiterInv
    <3>5. Len(log) \in Nat /\ \A j \in 1..Len(log) : log[j] \in Nat
      BY <3>4, LenProperties, ElementOfSeq DEF Logged
    <3>6. PICK n \in 0..Len(log) :
            /\ Len(log) - n <= Limit /\ Len(Recent(bucket)) = Len(log) - n
            /\ \A j \in (n + 1)..Len(log) : log[j] + Window > monotonic
      BY <3>1, <3>4, RecentIsSuffix
    <3>7. /\ Len(log) \in Limit..Len(log)
          /\ monotonic >= log[Len(log) - Limit + 1] + Window
      <4>1. Promised(reqs[i], log)
        BY <3>2, <3>3 DEF FrontInv, LimiterInv
      <4> QED BY <2>2, <3>2, <3>3, <4>1 DEF Promised
    <3>8. Len(log) - n # Limit
      <4> SUFFICES ASSUME Len(log) - n = Limit PROVE FALSE
        OBVIOUS
      <4>1. n + 1 = Len(log) - Limit + 1 /\ n + 1 \in (n + 1)..Len(log) /\ n + 1 \in 1..Len(log)
        BY <3>5
      <4>2. log[n + 1] \in Nat /\ log[n + 1] + Window > monotonic /\ monotonic >= log[n + 1] + Window
        BY <3>5, <3>6, <3>7, <4>1
      <4> QED BY <3>1, <4>2
    <3>9. Len(Recent(bucket)) < Limit
      <4>1. Len(log) - n <= Limit /\ Len(Recent(bucket)) = Len(log) - n
        BY <3>6
      <4> QED BY <3>5, <3>8, <4>1
    <3> QED BY <3>2, <3>3, <3>9
  <2> QED BY <2>1, <2>2 DEF LimitExact
<1> QED BY <1>1, FrontInvCorrect, PTL

\* IdempotencyMiddleware lets no request through to its handler while an answer
\* to the same operation is due from _MemoryIdempotencyStore, whatever is lost,
\* sent again, evicted or still running.
THEOREM AnswersOnce == FrontSpec => []HandledOnce
<1>1. FrontInv => HandledOnce
  BY DEF FrontInv, FrontTypes, ReqOK, HandledOnce
<1> QED BY <1>1, FrontInvCorrect, PTL

\* IdempotencyMiddleware replays only the answer to an earlier request with the
\* same credential, path and key, less than KeepFor old and no 5xx.
THEOREM ReplaysOwn == FrontSpec => []ReplaysAreOwn
<1>1. FrontInv => ReplaysAreOwn
  <2> SUFFICES ASSUME FrontInv, NEW i \in DOMAIN reqs, reqs[i].replay
               PROVE  /\ \E j \in DOMAIN puts : puts[j].by = reqs[i].by /\ reqs[i].at < puts[j].at + KeepFor
                      /\ ~ reqs[reqs[i].by].replay
                      /\ reqs[reqs[i].by].status = reqs[i].status /\ reqs[reqs[i].by].status # 5
                      /\ reqs[reqs[i].by].op.cred = reqs[i].op.cred
                      /\ reqs[reqs[i].by].op.path = reqs[i].op.path
                      /\ reqs[reqs[i].by].op.key = reqs[i].op.key
    BY DEF ReplaysAreOwn
  <2>1. Replayed(reqs, puts, reqs[i]) /\ reqs[i] \in Req
    BY DEF FrontInv, ReplayInv, FrontTypes
  <2>2. reqs[i].replay = TRUE
    BY <2>1 DEF Req
  <2> QED BY <2>1, <2>2 DEF Replayed, Original, CacheKey
<1> QED BY <1>1, FrontInvCorrect, PTL
=============================================================================
