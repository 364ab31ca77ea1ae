---------------------------- MODULE RequestFront ----------------------------
(***************************************************************************)
(* What stands between a caller and a handler: the retries of the SDK       *)
(* (AuthzClient._request, authz_sdk/client.py), then, in the order in which *)
(* create_app nests them (authz_service/main.py), IdempotencyMiddleware and *)
(* RateLimitMiddleware with their in-memory stores (authz_service/          *)
(* middleware.py).                                                         *)
(*                                                                         *)
(* An operation is a POST: the credential it is sent with, its path and    *)
(* its Idempotency-Key (NoKey: no header; the SDK sends none, other callers *)
(* do).  The middleware never looks at the body.  A request that the caller *)
(* has given up on goes on in the service.  The middleware runs on the     *)
(* event loop: between two awaits it is one step.                          *)
(***************************************************************************)
EXTENDS Integers, Sequences, FiniteSets

CONSTANTS Senders,       \* callers' threads, one call after the other
          Ops,           \* operations: records of cred, path and key
          NoKey,
          MaxResends,    \* max_retries of the client
          Limit, Window, \* rate_limit_per_minute, 60 seconds
          KeepFor,       \* ttl_seconds of the replay store
          MaxAnswers,    \* max_entries of the replay store
          MaxRequests, MaxFrontClock   \* bounds on requests and on the clock

ASSUME OpsAssumption == \A o \in Ops : DOMAIN o = {"cred", "path", "key"}
ASSUME LimitsAssumption ==
  /\ Limit \in Nat \ {0} /\ Window \in Nat \ {0} /\ KeepFor \in Nat /\ MaxAnswers \in Nat \ {0}
  /\ MaxResends \in Nat /\ MaxRequests \in Nat /\ MaxFrontClock \in Nat

VARIABLES monotonic,
          senders,
          reqs,       \* requests as the service sees them, in the order of arrival
          store,      \* _MemoryIdempotencyStore: entries of different keys
          buckets,    \* _SlidingWindowLimiter
          admitted,   \* history: when requests of a credential were let through
          puts        \* history: what was put into the store

frontVars == <<monotonic, senders, reqs, store, buckets, admitted, puts>>

Creds == {o.cred : o \in Ops}

\* _credential_partition, path and key.  Mutation: the credential is left out.
CacheKeyShared(o) == <<o.path, o.key>>
CacheKey(o) == <<o.cred, o.path, o.key>>

Keyed(o) == o.key # NoKey

\* status: 2 for 2xx and so on, 429; by: the request that was handled; wait: the
\* retry_after of a 429; at: when that, or a replay, was answered.  History:
\* known, an answer was due from the store when the request came in; ahead, how
\* many of its credential had been let through when it was refused.
Request(o) ==
  [op |-> o, pc |-> "lookup", status |-> 0, by |-> 0, replay |-> FALSE,
   known |-> FALSE, at |-> 0, wait |-> 0, ahead |-> 0]

Ready == [pc |-> "ready", op |-> NoKey, req |-> 0, attempts |-> 0]

-----------------------------------------------------------------------------
FrontInit ==
  /\ monotonic = 0
  /\ senders = [s \in Senders |-> Ready]
  /\ reqs = <<>>
  /\ store = {}
  /\ buckets = [c \in Creds |-> <<>>]
  /\ admitted = [c \in Creds |-> <<>>]
  /\ puts = <<>>

FrontTick ==
  /\ monotonic < MaxFrontClock
  /\ monotonic' = monotonic + 1
  /\ UNCHANGED <<senders, reqs, store, buckets, admitted, puts>>

-----------------------------------------------------------------------------
(* AuthzClient._request *)

Send(s, o, attempts) ==
  /\ Len(reqs) < MaxRequests
  /\ reqs' = Append(reqs, Request(o))
  /\ senders' = [senders EXCEPT ![s] =
       [pc |-> "waiting", op |-> o, req |-> Len(reqs) + 1, attempts |-> attempts]]

Call(s, o) ==
  /\ senders[s].pc = "ready"
  /\ Send(s, o, 0)
  /\ UNCHANGED <<monotonic, store, buckets, admitted, puts>>

\* The call returns, or raises.
Return(s) == senders' = [senders EXCEPT ![s] = Ready]

\* A transport error or a 5xx: again, until max_retries.
Transient(s) ==
  IF senders[s].attempts < MaxResends THEN Send(s, senders[s].op, senders[s].attempts + 1)
  ELSE Return(s) /\ UNCHANGED reqs

\* httpx times out, or the connection breaks; the service may be at any point.
Lose(s) ==
  /\ senders[s].pc = "waiting"
  /\ Transient(s)
  /\ UNCHANGED <<monotonic, store, buckets, admitted, puts>>

ReceiveAnswer(s) ==
  LET r == reqs[senders[s].req] IN
  /\ senders[s].pc = "waiting" /\ r.pc = "answered"
  /\ IF r.status = 5 THEN Transient(s)
     ELSE Return(s) /\ UNCHANGED reqs
  /\ UNCHANGED <<monotonic, store, buckets, admitted, puts>>

-----------------------------------------------------------------------------
(* IdempotencyMiddleware, on the way in *)

At(i, pc) == i \in DOMAIN reqs /\ reqs[i].pc = pc
Entries(k) == {e \in store : e.key = k}
Others(k) == {e \in store : e.key # k}

\* An answer to the same operation was stored less than KeepFor ago, and since
\* that time answers to no more operations than the store holds.
Known(o) ==
  \E j \in DOMAIN puts :
    /\ puts[j].key = <<o.cred, o.path, o.key>> /\ monotonic < puts[j].at + KeepFor
    /\ LET since == {n \in DOMAIN puts : puts[n].at >= puts[j].at}
       IN  Cardinality({puts[n].key : n \in since}) <= MaxAnswers

Answer(i, status, by, replay) ==
  reqs' = [reqs EXCEPT ![i] = [@ EXCEPT !.pc = "answered", !.status = status, !.by = by,
                               !.replay = replay, !.at = monotonic]]

\* The store is asked: a fresh answer is replayed, an expired one dropped.
GetStored(i) ==
  LET o == reqs[i].op
      key == CacheKey(o)
      go == reqs' = [reqs EXCEPT ![i] = [@ EXCEPT !.pc = "limit", !.known = Keyed(o) /\ Known(o)]]
  IN
  /\ At(i, "lookup")
  /\ \/ /\ ~ Keyed(o) \/ Entries(key) = {}
        /\ go /\ UNCHANGED store
     \/ /\ Keyed(o)
        /\ \E e \in Entries(key) :
             \/ e.exp <= monotonic /\ go /\ store' = Others(key)
             \/ e.exp > monotonic /\ Answer(i, e.status, e.by, TRUE) /\ UNCHANGED store
  /\ UNCHANGED <<monotonic, senders, buckets, admitted, puts>>

-----------------------------------------------------------------------------
(* RateLimitMiddleware; the bucket is the X-API-Key *)

\* How many timestamps are popped from the left: those up to the cutoff, until
\* one is later.
Popped(bucket, cutoff) ==
  CHOOSE n \in 0..Len(bucket) :
    /\ \A j \in 1..n : bucket[j] <= cutoff
    /\ n < Len(bucket) => bucket[n + 1] > cutoff

\* Mutation: a request that is exactly a window old still counts.
RecentStrict(bucket) == SubSeq(bucket, Popped(bucket, monotonic - Window - 1) + 1, Len(bucket))

\* What is left of a bucket once the timestamps up to the cutoff are dropped.
Recent(bucket) == SubSeq(bucket, Popped(bucket, monotonic - Window) + 1, Len(bucket))

\* _SlidingWindowLimiter.allow
Allow(i) ==
  LET c == reqs[i].op.cred
      bucket == Recent(buckets[c])
  IN
  /\ At(i, "limit")
  /\ IF Len(bucket) >= Limit
     THEN /\ buckets' = [buckets EXCEPT ![c] = bucket]
          /\ reqs' = [reqs EXCEPT ![i] = [@ EXCEPT !.pc = "store", !.status = 429, !.by = i,
                                          !.at = monotonic, !.wait = bucket[1] + Window - monotonic,
                                          !.ahead = Len(admitted[c])]]
          /\ UNCHANGED admitted
     ELSE /\ buckets' = [buckets EXCEPT ![c] = Append(bucket, monotonic)]
          /\ admitted' = [admitted EXCEPT ![c] = Append(@, monotonic)]
          /\ reqs' = [reqs EXCEPT ![i].pc = "handle"]
  /\ UNCHANGED <<monotonic, senders, store, puts>>

-----------------------------------------------------------------------------
\* The handler succeeds, refuses, or fails.
Handle(i, status) ==
  /\ At(i, "handle")
  /\ reqs' = [reqs EXCEPT ![i] = [@ EXCEPT !.pc = "store", !.status = status, !.by = i]]
  /\ UNCHANGED <<monotonic, senders, store, buckets, admitted, puts>>

-----------------------------------------------------------------------------
(* IdempotencyMiddleware, on the way out *)

\* Mutation: when there is no room, the answer itself is not kept.
PutFull(e) ==
  store' = IF Cardinality(Others(e.key)) < MaxAnswers THEN Others(e.key) \union {e} ELSE Others(e.key)

\* _MemoryIdempotencyStore.put: one that is the soonest to expire goes when there
\* is no room (of several, the code takes the first of the dictionary, here any).
Put(e) ==
  LET others == Others(e.key) IN
  \/ /\ Cardinality(others) < MaxAnswers
     /\ store' = others \union {e}
  \/ /\ Cardinality(others) >= MaxAnswers
     /\ \E old \in others :
          /\ \A o \in others : old.exp <= o.exp
          /\ store' = (others \ {old}) \union {e}

\* Anything but a 5xx is kept, refusals and 429 too.
Store(i) ==
  LET r == reqs[i]
      keep == Keyed(r.op) /\ r.status # 5
  IN
  /\ At(i, "store")
  /\ IF keep THEN Put([key |-> CacheKey(r.op), status |-> r.status, by |-> r.by,
                       exp |-> monotonic + KeepFor]) ELSE UNCHANGED store
  /\ puts' = IF keep THEN Append(puts, [key |-> <<r.op.cred, r.op.path, r.op.key>>,
                                        by |-> i, at |-> monotonic]) ELSE puts
  /\ reqs' = [reqs EXCEPT ![i].pc = "answered"]
  /\ UNCHANGED <<monotonic, senders, buckets, admitted>>

-----------------------------------------------------------------------------
ServeRequest(i) ==
  \/ GetStored(i) \/ Allow(i) \/ Store(i)
  \/ \E status \in {2, 4, 5} : Handle(i, status)

FrontNext ==
  \/ FrontTick
  \/ \E s \in Senders : Lose(s) \/ ReceiveAnswer(s) \/ \E o \in Ops : Call(s, o)
  \/ \E i \in 1..MaxRequests : ServeRequest(i)

FrontSpec == FrontInit /\ [][FrontNext]_frontVars

-----------------------------------------------------------------------------
(* Properties *)

\* How many requests of c were let through in the window that ends at t.
Through(c, t) == Cardinality({j \in DOMAIN admitted[c] : t - Window < admitted[c][j] /\ admitted[c][j] <= t})

\* The limiter is exact: in no window of that length, wherever it begins, do more
\* than Limit requests of a credential get through; and a caller refused with
\* retry_after that waits so long, while nothing else of it gets through, finds
\* room.
LimitExact ==
  /\ \A c \in Creds, t \in 0..monotonic : Through(c, t) <= Limit
  /\ \A i \in DOMAIN reqs :
       LET c == reqs[i].op.cred IN
       /\ reqs[i].wait > 0 /\ monotonic >= reqs[i].at + reqs[i].wait
       /\ Len(admitted[c]) = reqs[i].ahead
       => Len(Recent(buckets[c])) < Limit

\* A POST sent again with its Idempotency-Key is not handled again while the
\* answer to the first is due, through lost answers, retries, evictions and
\* requests still running.
HandledOnce ==
  \A i \in DOMAIN reqs : reqs[i].by = i => ~ reqs[i].known

\* What is replayed is the answer to an earlier request with the very same
\* credential, path and key (whatever the body), given less than KeepFor ago,
\* and never a 5xx.
ReplaysAreOwn ==
  \A i \in DOMAIN reqs :
    reqs[i].replay =>
      LET first == reqs[reqs[i].by] IN
      /\ \E j \in DOMAIN puts : puts[j].by = reqs[i].by /\ reqs[i].at < puts[j].at + KeepFor
      /\ ~ first.replay /\ first.status = reqs[i].status /\ first.status # 5
      /\ first.op.cred = reqs[i].op.cred /\ first.op.path = reqs[i].op.path
      /\ first.op.key = reqs[i].op.key
=============================================================================
