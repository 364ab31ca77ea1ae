----------------------------- MODULE JwksCache -----------------------------
(***************************************************************************)
(* Tokens of foreign issuers: JWTValidator and its cache of key sets        *)
(* (authzkit/identity/jwt_validation.py), reached through the resolver that *)
(* the service builds on first use (get_jwt_resolver, authz_service/        *)
(* dependencies.py; JwtResolver, authzkit/security/oauth_resource.py) while *)
(* the issuers rotate their keys.  The validator of the administrators'     *)
(* identity provider (_admin_validator, authz_service/api/oauth.py) is      *)
(* built and used in the same way.                                         *)
(*                                                                         *)
(* Requests run on threads and nothing is locked: a step is one operation  *)
(* on the cache, one reading of the clock, or the moment at which the       *)
(* issuer answers.  A key is told by its issuer and its kid; two issuers    *)
(* may use one kid.  Tokens of this service itself are in Credentials.     *)
(***************************************************************************)
EXTENDS Integers

CONSTANTS Threads,
          Issuers,      \* the issuers that are configured
          Kids,
          Tokens,       \* [iss, kid: as they say; by: issuer of the signing key; fit: audience and algorithm; exp]
          None,
          Ttl,          \* jwks_ttl_seconds
          Leeway,       \* leeway_seconds
          MaxClock, MaxRotations, MaxCalls   \* bounds on the clock, rotations, requests

ASSUME TokensAssumption ==
  \A t \in Tokens : DOMAIN t = {"iss", "kid", "by", "fit", "exp"} /\ t.kid \in Kids
ASSUME TimesAssumption ==
  /\ Ttl \in Nat /\ Leeway \in Nat
  /\ MaxClock \in Nat /\ MaxRotations \in Nat /\ MaxCalls \in Nat

VARIABLES monotonic,
          published,    \* the kids in the key set of each issuer
          gone,         \* history: when a kid was last withdrawn
          resolver,     \* _jwt_resolver: the thread that built it, or None
          caches,       \* _jwks_cache of the resolver a thread built, by issuer
          threads,
          rotations, calls

jwksVars == <<monotonic, published, gone, resolver, caches, threads, rotations, calls>>

Empty == [kids |-> {}, exp |-> 0]
Entry == [kids : SUBSET Kids, exp : Nat]
NoToken == [iss |-> None, kid |-> None, by |-> None, fit |-> FALSE, exp |-> 0]

\* uses: whose resolver; seen: what _jwks_cache.get returned; since: when the
\* clock was read; again: the key set is looked at a second time.
\* History: steady, the issuer has published the kid throughout the call;
\* rival, another thread has put a key set without it into the cache meanwhile.
Thread ==
  [pc : {"idle", "build", "get", "clock", "fetch", "put", "match", "decode", "done"},
   token : Tokens \union {NoToken}, uses : Threads \union {None}, seen : Entry, since : Nat,
   again : BOOLEAN, steady : BOOLEAN, rival : BOOLEAN,
   outcome : {"none", "accepted", "unknown", "unmatched", "invalid", "unreachable"}]

Idle ==
  [pc |-> "idle", token |-> NoToken, uses |-> None, seen |-> Empty, since |-> 0,
   again |-> FALSE, steady |-> FALSE, rival |-> FALSE, outcome |-> "none"]

\* What is kept of a call: its token, and the history a property asks for.
End(th, outcome) ==
  threads' = [threads EXCEPT ![th] =
    [Idle EXCEPT !.pc = "done", !.outcome = outcome,
                 !.token = IF outcome \in {"accepted", "unmatched"} THEN threads[th].token ELSE NoToken,
                 !.since = IF outcome = "accepted" THEN threads[th].since ELSE 0,
                 !.steady = outcome = "unmatched" /\ threads[th].steady,
                 !.rival = outcome = "unmatched" /\ threads[th].rival]]

-----------------------------------------------------------------------------
JwksInit ==
  /\ monotonic = 0
  /\ published \in [Issuers -> SUBSET Kids]
  /\ gone = [i \in Issuers |-> [k \in Kids |-> 0 - Ttl]]
  /\ resolver = None
  /\ caches = [th \in Threads |-> [i \in Issuers |-> Empty]]
  /\ threads = [th \in Threads |-> Idle]
  /\ rotations = 0 /\ calls = 0

JwksTick ==
  /\ monotonic < MaxClock
  /\ monotonic' = monotonic + 1
  /\ UNCHANGED <<published, gone, resolver, caches, threads, rotations, calls>>

\* An issuer publishes another key set.
Rotate(i, kids) ==
  /\ rotations < MaxRotations /\ kids # published[i]
  /\ rotations' = rotations + 1
  /\ published' = [published EXCEPT ![i] = kids]
  /\ gone' = [gone EXCEPT ![i] = [k \in Kids |-> IF k \in published[i] \ kids THEN monotonic ELSE @[k]]]
  /\ threads' = [th \in Threads |->
       IF threads[th].token.iss = i
       THEN [threads[th] EXCEPT !.steady = @ /\ threads[th].token.kid \in kids]
       ELSE threads[th]]
  /\ UNCHANGED <<monotonic, resolver, caches, calls>>

-----------------------------------------------------------------------------
(* get_jwt_resolver and JwtResolver.resolve *)

\* A request with a token.  While there is no resolver, each builds one.
Begin(th, token) ==
  /\ threads[th].pc \in {"idle", "done"} /\ calls < MaxCalls
  /\ calls' = calls + 1
  /\ threads' = [threads EXCEPT ![th] =
       [Idle EXCEPT !.pc = IF resolver = None THEN "build" ELSE "get", !.token = token,
                    !.uses = IF resolver = None THEN th ELSE resolver,
                    !.steady = token.iss \in Issuers /\ token.kid \in published[token.iss]]]
  /\ UNCHANGED <<monotonic, published, gone, resolver, caches, rotations>>

\* _jwt_resolver = JwtResolver(...): the last one built stays.
Build(th) ==
  /\ threads[th].pc = "build"
  /\ resolver' = th
  /\ caches' = [caches EXCEPT ![th] = [i \in Issuers |-> Empty]]
  /\ threads' = [threads EXCEPT ![th].pc = "get"]
  /\ UNCHANGED <<monotonic, published, gone, rotations, calls>>

-----------------------------------------------------------------------------
(* JWTValidator._get_jwks *)

\* An issuer that is not configured is refused; else the cache is read.
Get(th) ==
  LET t == threads[th] IN
  /\ t.pc = "get"
  /\ IF t.token.iss \notin Issuers THEN End(th, "unknown")
     ELSE threads' = [threads EXCEPT ![th] =
            [t EXCEPT !.pc = "clock", !.seen = caches[t.uses][t.token.iss]]]
  /\ UNCHANGED <<monotonic, published, gone, resolver, caches, rotations, calls>>

\* The clock is read, once: an entry is good before its expiry.
Clock(th) ==
  LET t == threads[th] IN
  /\ t.pc = "clock"
  /\ threads' = [threads EXCEPT ![th] =
       [t EXCEPT !.since = monotonic, !.pc = IF t.seen.exp > monotonic THEN "match" ELSE "fetch"]]
  /\ UNCHANGED <<monotonic, published, gone, resolver, caches, rotations, calls>>

\* Discovery and the key set, from the issuer; what fails ends the call.
Fetch(th) ==
  LET t == threads[th] IN
  /\ t.pc = "fetch"
  /\ \/ threads' = [threads EXCEPT ![th] =
          [t EXCEPT !.pc = "put", !.seen = [kids |-> published[t.token.iss], exp |-> 0]]]
     \/ End(th, "unreachable")
  /\ UNCHANGED <<monotonic, published, gone, resolver, caches, rotations, calls>>

\* Mutation: the lifetime starts when the answer is stored.
PutLate(th) ==
  LET t == threads[th] IN
  /\ t.pc = "put"
  /\ caches' = [caches EXCEPT ![t.uses][t.token.iss] = [kids |-> t.seen.kids, exp |-> monotonic + Ttl]]
  /\ threads' = [o \in Threads |->
       IF o = th THEN [t EXCEPT !.pc = "match"]
       ELSE [threads[o] EXCEPT !.rival =
              @ \/ /\ threads[o].uses = t.uses /\ threads[o].token.iss = t.token.iss
                   /\ threads[o].again /\ threads[o].token.kid \notin t.seen.kids]]
  /\ UNCHANGED <<monotonic, published, gone, resolver, rotations, calls>>

\* The answer is stored for the TTL, from the reading of the clock before it was
\* asked for.
Put(th) ==
  LET t == threads[th] IN
  /\ t.pc = "put"
  /\ caches' = [caches EXCEPT ![t.uses][t.token.iss] = [kids |-> t.seen.kids, exp |-> t.since + Ttl]]
  /\ threads' = [o \in Threads |->
       IF o = th THEN [t EXCEPT !.pc = "match"]
       ELSE [threads[o] EXCEPT !.rival =
              @ \/ /\ threads[o].uses = t.uses /\ threads[o].token.iss = t.token.iss
                   /\ threads[o].again /\ threads[o].token.kid \notin t.seen.kids]]
  /\ UNCHANGED <<monotonic, published, gone, resolver, rotations, calls>>

-----------------------------------------------------------------------------
(* JWTValidator.validate *)

\* Mutation: the second look goes to the cache, which keeps its entry.
MatchKeeping(th) ==
  LET t == threads[th] IN
  /\ t.pc = "match"
  /\ IF t.token.kid \in t.seen.kids THEN threads' = [threads EXCEPT ![th].pc = "decode"]
     ELSE IF t.again THEN End(th, "unmatched")
     ELSE threads' = [threads EXCEPT ![th] = [t EXCEPT !.pc = "get", !.again = TRUE]]
  /\ UNCHANGED <<monotonic, published, gone, resolver, caches, rotations, calls>>

\* The key of that kid; without one the entry is dropped and all is done again,
\* once.
Match(th) ==
  LET t == threads[th] IN
  /\ t.pc = "match"
  /\ \/ /\ t.token.kid \in t.seen.kids
        /\ threads' = [threads EXCEPT ![th].pc = "decode"]
        /\ UNCHANGED caches
     \/ /\ t.token.kid \notin t.seen.kids /\ t.again
        /\ End(th, "unmatched")
        /\ UNCHANGED caches
     \/ /\ t.token.kid \notin t.seen.kids /\ ~ t.again
        /\ caches' = [caches EXCEPT ![t.uses][t.token.iss] = Empty]
        /\ threads' = [threads EXCEPT ![th] = [t EXCEPT !.pc = "get", !.again = TRUE, !.seen = Empty]]
  /\ UNCHANGED <<monotonic, published, gone, resolver, rotations, calls>>

\* jwt.decode: the signature, audience, algorithm and expiry.
Decode(th) ==
  LET token == threads[th].token IN
  /\ threads[th].pc = "decode"
  /\ End(th, IF token.by = token.iss /\ token.fit /\ token.exp > monotonic - Leeway
             THEN "accepted" ELSE "invalid")
  /\ UNCHANGED <<monotonic, published, gone, resolver, caches, rotations, calls>>

-----------------------------------------------------------------------------
Step(th) ==
  \/ \E token \in Tokens : Begin(th, token)
  \/ Build(th) \/ Get(th) \/ Clock(th) \/ Fetch(th) \/ Put(th) \/ Match(th) \/ Decode(th)

JwksNext ==
  \/ JwksTick
  \/ \E i \in Issuers, kids \in SUBSET Kids : Rotate(i, kids)
  \/ \E th \in Threads : Step(th)

JwksSpec == JwksInit /\ [][JwksNext]_jwksVars

-----------------------------------------------------------------------------
(* Properties *)

\* Every state is of its type, and a token is accepted only with a key of the
\* issuer it names, one which that issuer still published less than the TTL
\* before the cache was last consulted, or at that moment: however many
\* resolvers, fetches and refills overlapped, a withdrawn key does not outlive
\* its entry.
WithdrawnKeysFade ==
  /\ threads \in [Threads -> Thread] /\ caches \in [Threads -> [Issuers -> Entry]]
  /\ \A th \in Threads :
       LET t == threads[th] IN
       t.outcome = "accepted" =>
         /\ t.token.by = t.token.iss
         /\ \/ t.token.kid \in published[t.token.iss]
            \/ gone[t.token.iss][t.token.kid] > t.since - Ttl
            \/ gone[t.token.iss][t.token.kid] >= t.since

\* Rotation refuses nobody in vain: a token whose key its issuer published
\* during the whole call finds that key, in the cache or on the second look,
\* unless another thread, which had asked the issuer before, filled the cache
\* between the two looks.
RefusalsHaveCause ==
  \A th \in Threads :
    LET t == threads[th] IN t.outcome = "unmatched" /\ t.steady => t.rival
=============================================================================
