---------------------------- MODULE AdminSessions ----------------------------
(***************************************************************************)
(* Admin login and sessions: AdminSessionService (authzkit/security/       *)
(* sessions.py), /oauth/login, /oauth/callback and /oauth/logout           *)
(* (authz_service/api/oauth.py), the session branch of require_caller      *)
(* (authz_service/dependencies.py) and the janitor (oauth_janitor.py).     *)
(*                                                                         *)
(* A login attempt is a row named by a cookie; its state, nonce and        *)
(* verifier are as unique as the cookie and are all written as the attempt. *)
(* A session is named after the callback that makes it.  Requests with an  *)
(* API key or a bearer token never look at the cookie and are left out,    *)
(* except that they may log a session out.                                 *)
(***************************************************************************)
EXTENDS Integers, FiniteSets

CONSTANTS Attempts,    \* GET /oauth/login, each made once
          Codes,       \* authorization codes of the identity provider
          Callbacks,   \* GET /oauth/callback
          Requests,    \* requests that carry a session cookie
          AttemptTtl, SessionTtl,
          MaxClock,    \* bound on the clock
          RowLocks     \* SELECT ... FOR UPDATE locks the row (not on SQLite)

ASSUME TtlAssumption == AttemptTtl \in Nat /\ SessionTtl \in Nat /\ MaxClock \in Nat
ASSUME LockAssumption == RowLocks \in BOOLEAN

VARIABLES now,
          attempts,   \* admin_login_attempts: not yet made, there, deleted
          codes,      \* of the provider: which login it is for, whether redeemed
          callbacks,  \* callbacks under way
          sessions,   \* admin_sessions
          requests    \* requests under way

vars == <<now, attempts, codes, callbacks, sessions, requests>>

RowState == [status : {"none", "there", "deleted"}, exp : Nat]

\* What the provider says of a person: in an admin group; an address on the
\* allowlist, verified by the provider or not; nothing that matters.
Claims == {"group", "email", "unverified", "nobody"}

\* cookie: the attempt whose cookie the browser sent; state: the attempt the
\* state parameter belongs to; code: the code parameter.
Callback == [pc : {"idle", "refused", "lost"}] \union
            [pc : {"begun", "selected", "consumed", "validated", "done"},
             cookie : Attempts, state : Attempts, code : Codes, claims : Claims]

\* kind: safe method, mutating with the CSRF token of the session, mutating
\* without; ended: the session was over when the request came in (history).
Request == [pc : {"idle", "refused"}] \union
           [pc : {"begun", "live", "expired", "admitted", "done"},
            session : Callbacks, kind : {"get", "post", "forged"}, ended : BOOLEAN]

Unmade == [status |-> "none", exp |-> 0]
Deleted(row) == [row EXCEPT !.status = "deleted"]

\* expires < _now()
Expired(row) == row.exp < now

-----------------------------------------------------------------------------
Init ==
  /\ now = 0
  /\ attempts = [a \in Attempts |-> Unmade]
  /\ codes = [k \in Codes |-> [status |-> "none"]]
  /\ callbacks = [c \in Callbacks |-> [pc |-> "idle"]]
  /\ sessions = [c \in Callbacks |-> Unmade]
  /\ requests = [r \in Requests |-> [pc |-> "idle"]]

Tick ==
  /\ now < MaxClock
  /\ now' = now + 1
  /\ UNCHANGED <<attempts, codes, callbacks, sessions, requests>>

-----------------------------------------------------------------------------
(* Login *)

\* oidc_login: create_login_attempt, then the redirect with the cookie.
Login(a) ==
  /\ attempts[a].status = "none"
  /\ attempts' = [attempts EXCEPT ![a] = [status |-> "there", exp |-> now + AttemptTtl]]
  /\ UNCHANGED <<now, codes, callbacks, sessions, requests>>

\* The provider hands out a code for this login; the redirect can be followed
\* more than once.
Authorize(k, a) ==
  /\ codes[k].status = "none"
  /\ attempts[a].status # "none"
  /\ codes' = [codes EXCEPT ![k] = [status |-> "fresh", login |-> a]]
  /\ UNCHANGED <<now, attempts, callbacks, sessions, requests>>

-----------------------------------------------------------------------------
(* oidc_callback *)

Turn(c, pc) ==
  callbacks' = [callbacks EXCEPT ![c] = IF pc \in {"refused", "lost"} THEN [pc |-> pc]
                                        ELSE [@ EXCEPT !.pc = pc]]

\* A callback with cookie, state and code; without one of them it is refused
\* before anything is read.
CallbackBegin(c, cookie, state, code) ==
  /\ callbacks[c].pc = "idle"
  /\ attempts[cookie].status # "none" /\ attempts[state].status # "none"
  /\ codes[code].status # "none"
  /\ callbacks' = [callbacks EXCEPT ![c] = [pc |-> "begun", cookie |-> cookie, state |-> state,
                                            code |-> code, claims |-> "nobody"]]
  /\ UNCHANGED <<now, attempts, codes, sessions, requests>>

Locked(a) == RowLocks /\ \E c \in Callbacks : callbacks[c].pc = "selected" /\ callbacks[c].cookie = a

\* Mutation: no FOR UPDATE.
ConsumeSelectUnlocked(c) ==
  /\ callbacks[c].pc = "begun"
  /\ Turn(c, IF attempts[callbacks[c].cookie].status = "there" THEN "selected" ELSE "refused")
  /\ UNCHANGED <<now, attempts, codes, sessions, requests>>

\* consume_login_attempt, the SELECT: it waits for the transaction that has the
\* row, and then sees what that one left.
ConsumeSelect(c) ==
  /\ callbacks[c].pc = "begun"
  /\ ~ Locked(callbacks[c].cookie)
  /\ Turn(c, IF attempts[callbacks[c].cookie].status = "there" THEN "selected" ELSE "refused")
  /\ UNCHANGED <<now, attempts, codes, sessions, requests>>

\* Delete and commit, whatever the state parameter; then compare state and
\* deadline.  A row that is gone already only makes the ORM log a warning.
ConsumeDelete(c) ==
  LET a == callbacks[c].cookie IN
  /\ callbacks[c].pc = "selected"
  /\ attempts' = [attempts EXCEPT ![a] = Deleted(@)]
  /\ Turn(c, IF callbacks[c].state = a /\ ~ Expired(attempts[a]) THEN "consumed" ELSE "refused")
  /\ UNCHANGED <<now, codes, sessions, requests>>

\* _admin_scopes_from_claims
AdminScopes(claims) == claims \in {"group", "email"}

\* Mutation: the nonce is not compared.
ExchangeAnyNonce(c, claims) ==
  LET k == callbacks[c].code IN
  /\ callbacks[c].pc = "consumed"
  /\ codes[k].status = "fresh"
  /\ codes' = [codes EXCEPT ![k].status = "redeemed"]
  /\ callbacks' = [callbacks EXCEPT ![c] =
       IF AdminScopes(claims)
       THEN [@ EXCEPT !.pc = "validated", !.claims = claims] ELSE [pc |-> "refused"]]
  /\ UNCHANGED <<now, attempts, sessions, requests>>

\* Discovery, _exchange_code, _validate_admin_id_token, scopes.  The provider
\* redeems a code once; that it also checks the verifier is not relied on: the
\* nonce in the token is that of the login the code was handed out for.
Exchange(c, claims) ==
  LET k == callbacks[c].code IN
  /\ callbacks[c].pc = "consumed"
  /\ codes[k].status = "fresh"
  /\ codes' = [codes EXCEPT ![k].status = "redeemed"]
  /\ callbacks' = [callbacks EXCEPT ![c] =
       IF codes[k].login = @.cookie /\ AdminScopes(claims)
       THEN [@ EXCEPT !.pc = "validated", !.claims = claims] ELSE [pc |-> "refused"]]
  /\ UNCHANGED <<now, attempts, sessions, requests>>

\* The provider refuses the code or cannot be reached.
ExchangeFails(c) ==
  /\ callbacks[c].pc = "consumed"
  /\ Turn(c, "refused")
  /\ UNCHANGED <<now, attempts, codes, sessions, requests>>

CreateSession(c) ==
  /\ callbacks[c].pc = "validated"
  /\ sessions' = [sessions EXCEPT ![c] = [status |-> "there", exp |-> now + SessionTtl]]
  /\ Turn(c, "done")
  /\ UNCHANGED <<now, attempts, codes, requests>>

\* A database error or the end of the process; an open transaction is rolled back.
CallbackLost(c) ==
  /\ callbacks[c].pc \in {"begun", "selected", "consumed", "validated"}
  /\ Turn(c, "lost")
  /\ UNCHANGED <<now, attempts, codes, sessions, requests>>

-----------------------------------------------------------------------------
(* Requests with a session cookie *)

Answer(r, pc) ==
  requests' = [requests EXCEPT ![r] = IF pc = "refused" THEN [pc |-> pc] ELSE [@ EXCEPT !.pc = pc]]

Over(c) == sessions[c].status = "deleted" \/ Expired(sessions[c])

\* The browser has the cookie once the callback is answered.
RequestBegin(r, c, kind) ==
  /\ requests[r].pc = "idle"
  /\ sessions[c].status # "none"
  /\ requests' = [requests EXCEPT ![r] = [pc |-> "begun", session |-> c, kind |-> kind,
                                          ended |-> Over(c)]]
  /\ UNCHANGED <<now, attempts, codes, callbacks, sessions>>

\* Mutation: the deadline is not looked at.
LookupReadAnyAge(r) ==
  LET row == sessions[requests[r].session] IN
  /\ requests[r].pc = "begun"
  /\ Answer(r, IF row.status # "there" THEN "refused" ELSE "live")
  /\ UNCHANGED <<now, attempts, codes, callbacks, sessions>>

\* lookup_session: the row, and the clock.
LookupRead(r) ==
  LET row == sessions[requests[r].session] IN
  /\ requests[r].pc = "begun"
  /\ Answer(r, IF row.status # "there" THEN "refused" ELSE IF Expired(row) THEN "expired" ELSE "live")
  /\ UNCHANGED <<now, attempts, codes, callbacks, sessions>>

\* An expired row is deleted; that it may be gone makes no difference.
LookupDelete(r) ==
  /\ requests[r].pc = "expired"
  /\ sessions' = [sessions EXCEPT ![requests[r].session] = Deleted(@)]
  /\ Answer(r, "refused")
  /\ UNCHANGED <<now, attempts, codes, callbacks>>

\* _enforce_csrf
CsrfOk(r) == requests[r].kind # "forged"

\* Mutation: the row is written back as it was read.
LookupCommitMerge(r) ==
  LET c == requests[r].session IN
  /\ requests[r].pc = "live"
  /\ sessions' = [sessions EXCEPT ![c].status = "there"]
  /\ Answer(r, IF CsrfOk(r) THEN "admitted" ELSE "refused")
  /\ UNCHANGED <<now, attempts, codes, callbacks>>

\* last_seen_at is written: if the row is gone, the UPDATE finds no row and the
\* ORM raises StaleDataError.  Then _enforce_csrf.
LookupCommit(r) ==
  LET c == requests[r].session IN
  /\ requests[r].pc = "live"
  /\ Answer(r, IF sessions[c].status = "there" /\ CsrfOk(r) THEN "admitted" ELSE "refused")
  /\ UNCHANGED <<now, attempts, codes, callbacks, sessions>>

\* The handler of an admitted request that is no logout.
Serve(r) ==
  /\ requests[r].pc = "admitted"
  /\ Answer(r, "done")
  /\ UNCHANGED <<now, attempts, codes, callbacks, sessions>>

\* oidc_logout: delete_session of the principal.
Logout(r) ==
  /\ requests[r].pc = "admitted" /\ requests[r].kind = "post"
  /\ sessions' = [sessions EXCEPT ![requests[r].session] = Deleted(@)]
  /\ Answer(r, "done")
  /\ UNCHANGED <<now, attempts, codes, callbacks>>

\* oidc_logout by an API key or a token, with somebody's session cookie.
LogoutCookie(c) ==
  /\ sessions[c].status = "there"
  /\ sessions' = [sessions EXCEPT ![c] = Deleted(@)]
  /\ UNCHANGED <<now, attempts, codes, callbacks, requests>>

-----------------------------------------------------------------------------
Stale(row) == row.status = "there" /\ Expired(row)
Swept(table) == [x \in DOMAIN table |-> IF Stale(table[x]) THEN Deleted(table[x]) ELSE table[x]]

\* Mutation: login attempts are forgotten.
PruneSessionsOnly ==
  /\ \E c \in Callbacks : Stale(sessions[c])
  /\ sessions' = Swept(sessions)
  /\ UNCHANGED <<now, attempts, codes, callbacks, requests>>

\* AdminSessionJanitor: prune_expired; it waits for locked rows.
Prune ==
  /\ (\E c \in Callbacks : Stale(sessions[c])) \/ (\E a \in Attempts : Stale(attempts[a]))
  /\ \A a \in Attempts : Stale(attempts[a]) => ~ Locked(a)
  /\ sessions' = Swept(sessions) /\ attempts' = Swept(attempts)
  /\ UNCHANGED <<now, codes, callbacks, requests>>

-----------------------------------------------------------------------------
CallbackStep(c) ==
  \/ ConsumeSelect(c) \/ ConsumeDelete(c) \/ ExchangeFails(c) \/ CreateSession(c)
  \/ \E claims \in Claims : Exchange(c, claims)

RequestStep(r) ==
  LookupRead(r) \/ LookupDelete(r) \/ LookupCommit(r) \/ Serve(r) \/ Logout(r)

Next ==
  \/ Tick \/ Prune
  \/ \E a \in Attempts : Login(a)
  \/ \E k \in Codes, a \in Attempts : Authorize(k, a)
  \/ \E c \in Callbacks, a, b \in Attempts, k \in Codes : CallbackBegin(c, a, b, k)
  \/ \E c \in Callbacks : CallbackStep(c) \/ CallbackLost(c) \/ LogoutCookie(c)
  \/ \E r \in Requests, c \in Callbacks, kind \in {"get", "post", "forged"} : RequestBegin(r, c, kind)
  \/ \E r \in Requests : RequestStep(r)

Spec == Init /\ [][Next]_vars

\* The janitor thread ticks for ever and survives its exceptions; a handler
\* that has started runs on, or is lost.
FairSpec == Spec /\ WF_vars(Prune) /\ \A c \in Callbacks : WF_vars(CallbackStep(c))

-----------------------------------------------------------------------------
(* Properties *)

TypeOK ==
  /\ now \in Nat
  /\ attempts \in [Attempts -> RowState]
  /\ codes \in [Codes -> [status : {"none"}] \union
                         [status : {"fresh", "redeemed"}, login : Attempts]]
  /\ callbacks \in [Callbacks -> Callback]
  /\ sessions \in [Callbacks -> RowState]
  /\ requests \in [Requests -> Request]

\* "two parallel /oauth/callback requests for the same cookie serialize and only
\* one wins": of all callbacks with one cookie at most one gets past
\* consume_login_attempt.
Won(c) == callbacks[c].pc \in {"consumed", "validated", "done"}
AttemptUsedOnce ==
  \A c, d \in Callbacks :
    c # d /\ Won(c) /\ Won(d) => callbacks[c].cookie # callbacks[d].cookie

\* A session comes out of one login from end to end: cookie, state parameter and
\* code belong together, the attempt is gone, the code is spent on this session
\* alone, and the provider vouched for an admin.
SessionsEarned ==
  \A c \in Callbacks : sessions[c].status # "none" =>
    LET b == callbacks[c] IN
    /\ b.state = b.cookie
    /\ attempts[b.cookie].status = "deleted"
    /\ codes[b.code].status = "redeemed" /\ codes[b.code].login = b.cookie
    /\ AdminScopes(b.claims)
    /\ \A d \in Callbacks \ {c} : sessions[d].status # "none" => callbacks[d].code # b.code

\* A request that comes in when its session is logged out, swept or past its
\* deadline is not admitted, whatever the requests before it are doing.
EndedSessionsAdmitNobody ==
  \A r \in Requests : requests[r].pc \in {"admitted", "done"} => ~ requests[r].ended

\* A row deleted by logout, lookup, callback or janitor does not come back.
DeletedForGood ==
  [][/\ \A c \in Callbacks : sessions[c].status = "deleted" => sessions'[c].status = "deleted"
     /\ \A a \in Attempts : attempts[a].status = "deleted" => attempts'[a].status = "deleted"]_vars

\* "expired rows don't accumulate": every expired row is removed in the end.
ExpiredRowsGo ==
  /\ \A c \in Callbacks : Stale(sessions[c]) ~> sessions[c].status = "deleted"
  /\ \A a \in Attempts : Stale(attempts[a]) ~> attempts[a].status = "deleted"

(* What makes them inductive. *)

\* A callback that has selected the row finds it there until it deletes it, and
\* is alone with it; whoever got past it has deleted it.
LocksHold ==
  /\ \A c \in Callbacks : Won(c) => attempts[callbacks[c].cookie].status = "deleted"
  /\ RowLocks => AttemptUsedOnce
  /\ RowLocks => \A c \in Callbacks : callbacks[c].pc = "selected" =>
       /\ attempts[callbacks[c].cookie].status = "there"
       /\ \A d \in Callbacks \ {c} :
            callbacks[d].pc = "selected" => callbacks[d].cookie # callbacks[c].cookie

\* What a callback has checked stays true; a code is redeemed by one of them.
CallbacksSound ==
  \A c \in Callbacks :
    /\ Won(c) => callbacks[c].state = callbacks[c].cookie
    /\ callbacks[c].pc \in {"validated", "done"} =>
         /\ codes[callbacks[c].code].status = "redeemed"
         /\ codes[callbacks[c].code].login = callbacks[c].cookie
         /\ AdminScopes(callbacks[c].claims)
         /\ \A d \in Callbacks \ {c} :
              callbacks[d].pc \in {"validated", "done"} => callbacks[d].code # callbacks[c].code
    /\ sessions[c].status # "none" => callbacks[c].pc = "done"

\* A session that was over when a request came in is over still, and has not
\* been found alive.
RequestsSound ==
  \A r \in Requests : requests[r].pc \notin {"idle", "refused"} =>
    /\ sessions[requests[r].session].status # "none"
    /\ requests[r].ended => Over(requests[r].session)
    /\ requests[r].pc \in {"live", "admitted", "done"} => ~ requests[r].ended

LoginInv == TypeOK /\ LocksHold /\ CallbacksSound /\ RequestsSound
=============================================================================
