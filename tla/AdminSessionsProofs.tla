------------------------- MODULE AdminSessionsProofs -------------------------
(***************************************************************************)
(* AdminSessions for any number of logins, codes, callbacks and requests.  *)
(* LoginInv is inductive; the properties follow from it.                   *)
(***************************************************************************)
EXTENDS AdminSessions, TLAPS

\* A login step, code or tick moves no row backwards and leaves callbacks and
\* requests alone.
LEMMA OutsideStep ==
  ASSUME LoginInv,
         \/ Tick
         \/ \E a \in Attempts : Login(a)
         \/ \E k \in Codes, a \in Attempts : Authorize(k, a)
  PROVE  LoginInv'
<1> USE DEF LoginInv
<1>1. /\ callbacks' = callbacks /\ requests' = requests /\ sessions' = sessions
  BY DEF Tick, Login, Authorize
<1>2. now \in Nat /\ now' \in Nat /\ now' >= now
  BY DEF Tick, Login, Authorize, TypeOK
<1>3. /\ attempts' \in [Attempts -> RowState]
      /\ \A a \in Attempts : attempts[a].status # "none" => attempts'[a] = attempts[a]
  BY TtlAssumption DEF Tick, Login, Authorize, TypeOK, RowState
<1>4. /\ codes' \in [Codes -> [status : {"none"}] \union
                              [status : {"fresh", "redeemed"}, login : Attempts]]
      /\ \A k \in Codes : codes[k].status # "none" => codes'[k] = codes[k]
  BY DEF Tick, Login, Authorize, TypeOK
<1>5. TypeOK'
  BY <1>1, <1>2, <1>3, <1>4 DEF TypeOK
<1>6. \A c \in Callbacks : callbacks[c].pc \in {"selected", "consumed", "validated", "done"} =>
        callbacks[c].cookie \in Attempts /\ callbacks[c].code \in Codes
  BY DEF TypeOK, Callback
<1>7. LocksHold'
  BY <1>1, <1>3, <1>6 DEF LocksHold, AttemptUsedOnce, Won
<1>8. CallbacksSound'
  BY <1>1, <1>4, <1>6 DEF CallbacksSound, Won
<1>9. \A c \in Callbacks : sessions[c].exp \in Nat
  BY DEF TypeOK, RowState
<1>10. \A r \in Requests : requests[r].pc \notin {"idle", "refused"} => requests[r].session \in Callbacks
  BY DEF TypeOK, Request
<1>11. RequestsSound'
  BY <1>1, <1>2, <1>9, <1>10 DEF RequestsSound, Over, Expired
<1> QED BY <1>5, <1>7, <1>8, <1>11

\* A step of oidc_callback.
LEMMA CallbackStepKeeps ==
  ASSUME LoginInv, NEW c \in Callbacks,
         \/ \E a, b \in Attempts, k \in Codes : CallbackBegin(c, a, b, k)
         \/ CallbackStep(c) \/ CallbackLost(c)
  PROVE  LoginInv'
<1> USE DEF LoginInv
<1>2. /\ callbacks[c] \in Callback
      /\ \A d \in Callbacks : callbacks[d] \in Callback
      /\ \A d \in Callbacks : callbacks[d].pc \in {"begun", "selected", "consumed", "validated", "done"}
           => /\ callbacks[d].cookie \in Attempts /\ callbacks[d].state \in Attempts
              /\ callbacks[d].code \in Codes /\ callbacks[d].claims \in Claims
  BY DEF TypeOK, Callback
<1>3. \A pc \in {"selected", "consumed", "done", "refused", "lost"} :
        callbacks[c].pc \in {"begun", "selected", "consumed", "validated"} /\ Turn(c, pc) =>
          /\ callbacks' \in [Callbacks -> Callback]
          /\ callbacks'[c].pc = pc
          /\ pc \notin {"refused", "lost"} =>
               /\ callbacks'[c].cookie = callbacks[c].cookie /\ callbacks'[c].state = callbacks[c].state
               /\ callbacks'[c].code = callbacks[c].code /\ callbacks'[c].claims = callbacks[c].claims
          /\ \A d \in Callbacks \ {c} : callbacks'[d] = callbacks[d]
  <2> TAKE pc \in {"selected", "consumed", "done", "refused", "lost"}
  <2> HAVE callbacks[c].pc \in {"begun", "selected", "consumed", "validated"} /\ Turn(c, pc)
  <2>1. callbacks[c] \in [pc : {"begun", "selected", "consumed", "validated", "done"},
             cookie : Attempts, state : Attempts, code : Codes, claims : Claims]
    BY <1>2 DEF Callback
  <2> DEFINE b == IF pc \in {"refused", "lost"} THEN [pc |-> pc] ELSE [callbacks[c] EXCEPT !.pc = pc]
  <2>2. /\ b \in Callback /\ b.pc = pc
        /\ pc \notin {"refused", "lost"} =>
             /\ b.cookie = callbacks[c].cookie /\ b.state = callbacks[c].state
             /\ b.code = callbacks[c].code /\ b.claims = callbacks[c].claims
    BY <2>1 DEF Callback
  <2>3. callbacks' = [callbacks EXCEPT ![c] = b]
    BY DEF Turn
  <2> HIDE DEF b
  <2> QED BY <2>2, <2>3 DEF TypeOK
<1>4. CASE \E a, b \in Attempts, k \in Codes : CallbackBegin(c, a, b, k)
  <2> PICK a \in Attempts, b \in Attempts, k \in Codes : CallbackBegin(c, a, b, k)
    BY <1>4
  <2>1. /\ callbacks' \in [Callbacks -> Callback] /\ callbacks'[c].pc = "begun"
        /\ \A d \in Callbacks \ {c} : callbacks'[d] = callbacks[d]
        /\ callbacks[c].pc = "idle"
        /\ UNCHANGED <<now, attempts, codes, sessions, requests>>
    BY DEF CallbackBegin, TypeOK, Callback, Claims
  <2>2. TypeOK'
    BY <2>1 DEF TypeOK
  <2>3. LocksHold'
    BY <2>1 DEF LocksHold, AttemptUsedOnce, Won
  <2>4. CallbacksSound'
    BY <2>1 DEF CallbacksSound, Won
  <2>5. RequestsSound'
    BY <2>1 DEF RequestsSound, Over, Expired
  <2> QED BY <2>2, <2>3, <2>4, <2>5
<1>5. CASE ConsumeSelect(c)
  <2>1. PICK pc \in {"selected", "refused"} :
          /\ callbacks[c].pc = "begun" /\ Turn(c, pc) /\ ~ Locked(callbacks[c].cookie)
          /\ pc = "selected" => attempts[callbacks[c].cookie].status = "there"
          /\ UNCHANGED <<now, attempts, codes, sessions, requests>>
    BY <1>5 DEF ConsumeSelect
  <2>2. /\ callbacks' \in [Callbacks -> Callback] /\ callbacks'[c].pc = pc
        /\ pc = "selected" => callbacks'[c].cookie = callbacks[c].cookie
        /\ \A d \in Callbacks \ {c} : callbacks'[d] = callbacks[d]
    BY <1>3, <2>1
  <2>3. TypeOK'
    BY <2>1, <2>2 DEF TypeOK
  <2>4. LocksHold'
    BY <2>1, <2>2 DEF LocksHold, AttemptUsedOnce, Won, Locked
  <2>5. CallbacksSound'
    BY <2>1, <2>2 DEF CallbacksSound, Won
  <2>6. RequestsSound'
    BY <2>1 DEF RequestsSound, Over, Expired
  <2> QED BY <2>3, <2>4, <2>5, <2>6
<1>6. CASE ConsumeDelete(c)
  <2>1. PICK pc \in {"consumed", "refused"} :
          /\ callbacks[c].pc = "selected" /\ Turn(c, pc)
          /\ pc = "consumed" => callbacks[c].state = callbacks[c].cookie
          /\ attempts' = [attempts EXCEPT ![callbacks[c].cookie] = Deleted(@)]
          /\ UNCHANGED <<now, codes, sessions, requests>>
    BY <1>6 DEF ConsumeDelete
  <2>2. /\ callbacks' \in [Callbacks -> Callback] /\ callbacks'[c].pc = pc
        /\ pc = "consumed" => /\ callbacks'[c].cookie = callbacks[c].cookie
                              /\ callbacks'[c].state = callbacks[c].state
        /\ \A d \in Callbacks \ {c} : callbacks'[d] = callbacks[d]
    BY <1>3, <2>1
  <2>3. /\ attempts' \in [Attempts -> RowState]
        /\ attempts'[callbacks[c].cookie].status = "deleted"
        /\ \A a \in Attempts \ {callbacks[c].cookie} : attempts'[a] = attempts[a]
    BY <2>1, <1>2 DEF TypeOK, RowState, Deleted
  <2>4. TypeOK'
    BY <2>1, <2>2, <2>3 DEF TypeOK
  <2>5. LocksHold'
    BY <2>1, <2>2, <2>3, <1>2 DEF LocksHold, AttemptUsedOnce, Won
  <2>6. CallbacksSound'
    BY <2>1, <2>2 DEF CallbacksSound, Won
  <2>7. RequestsSound'
    BY <2>1 DEF RequestsSound, Over, Expired
  <2> QED BY <2>4, <2>5, <2>6, <2>7
<1>7. CASE \E claims \in Claims : Exchange(c, claims)
  <2> PICK claims \in Claims : Exchange(c, claims)
    BY <1>7
  <2> DEFINE k == callbacks[c].code
             b == IF codes[k].login = callbacks[c].cookie /\ AdminScopes(claims)
                  THEN [callbacks[c] EXCEPT !.pc = "validated", !.claims = claims]
                  ELSE [pc |-> "refused"]
  <2>1. /\ callbacks[c].pc = "consumed" /\ codes[k].status = "fresh"
        /\ codes' = [codes EXCEPT ![k].status = "redeemed"]
        /\ callbacks' = [callbacks EXCEPT ![c] = b]
        /\ UNCHANGED <<now, attempts, sessions, requests>>
    BY DEF Exchange
  <2>2. /\ k \in Codes
        /\ callbacks[c] \in [pc : {"begun", "selected", "consumed", "validated", "done"},
             cookie : Attempts, state : Attempts, code : Codes, claims : Claims]
    BY <1>2, <2>1 DEF Callback
  <2>3. /\ b \in Callback
        /\ \/ b.pc = "refused"
           \/ /\ b.pc = "validated" /\ b.cookie = callbacks[c].cookie
              /\ b.state = callbacks[c].state /\ b.code = k /\ b.claims = claims
              /\ codes[k].login = callbacks[c].cookie /\ AdminScopes(claims)
    BY <2>2 DEF Callback
  <2>4. /\ codes' \in [Codes -> [status : {"none"}] \union
                                [status : {"fresh", "redeemed"}, login : Attempts]]
        /\ codes'[k].status = "redeemed" /\ codes'[k].login = codes[k].login
        /\ \A j \in Codes \ {k} : codes'[j] = codes[j]
    <3>1. codes[k] \in [status : {"fresh", "redeemed"}, login : Attempts]
      BY <2>1, <2>2 DEF TypeOK
    <3>2. [codes[k] EXCEPT !.status = "redeemed"] \in [status : {"fresh", "redeemed"}, login : Attempts]
      BY <3>1
    <3> QED BY <2>1, <2>2, <3>1, <3>2 DEF TypeOK
  <2>5. /\ callbacks' \in [Callbacks -> Callback] /\ callbacks'[c] = b
        /\ \A d \in Callbacks \ {c} : callbacks'[d] = callbacks[d]
    BY <2>1, <2>3 DEF TypeOK
  <2> HIDE DEF b, k
  <2>6. TypeOK'
    BY <2>1, <2>4, <2>5 DEF TypeOK
  <2>7. LocksHold'
    BY <2>1, <2>3, <2>5 DEF LocksHold, AttemptUsedOnce, Won
  <2>8. \A d \in Callbacks \ {c} : callbacks[d].pc \in {"validated", "done"} => callbacks[d].code # k
    BY <2>1 DEF CallbacksSound
  <2>9. CallbacksSound'
    BY <2>1, <2>3, <2>4, <2>5, <2>8, <1>2 DEF CallbacksSound, Won
  <2>10. RequestsSound'
    BY <2>1 DEF RequestsSound, Over, Expired
  <2> QED BY <2>6, <2>7, <2>9, <2>10
<1>8. CASE ExchangeFails(c) \/ CallbackLost(c)
  <2>1. PICK pc \in {"refused", "lost"} :
          /\ callbacks[c].pc \in {"begun", "selected", "consumed", "validated"} /\ Turn(c, pc)
          /\ UNCHANGED <<now, attempts, codes, sessions, requests>>
    BY <1>8 DEF ExchangeFails, CallbackLost
  <2>2. /\ callbacks' \in [Callbacks -> Callback] /\ callbacks'[c].pc = pc
        /\ \A d \in Callbacks \ {c} : callbacks'[d] = callbacks[d]
    BY <1>3, <2>1
  <2>3. TypeOK'
    BY <2>1, <2>2 DEF TypeOK
  <2>4. LocksHold'
    BY <2>1, <2>2 DEF LocksHold, AttemptUsedOnce, Won
  <2>5. CallbacksSound'
    BY <2>1, <2>2 DEF CallbacksSound, Won
  <2>6. RequestsSound'
    BY <2>1 DEF RequestsSound, Over, Expired
  <2> QED BY <2>3, <2>4, <2>5, <2>6
<1>9. CASE CreateSession(c)
  <2>1. /\ callbacks[c].pc = "validated" /\ Turn(c, "done")
        /\ sessions' = [sessions EXCEPT ![c] = [status |-> "there", exp |-> now + SessionTtl]]
        /\ UNCHANGED <<now, attempts, codes, requests>>
    BY <1>9 DEF CreateSession
  <2>2. /\ callbacks' \in [Callbacks -> Callback] /\ callbacks'[c].pc = "done"
        /\ callbacks'[c].cookie = callbacks[c].cookie /\ callbacks'[c].state = callbacks[c].state
        /\ callbacks'[c].code = callbacks[c].code /\ callbacks'[c].claims = callbacks[c].claims
        /\ \A d \in Callbacks \ {c} : callbacks'[d] = callbacks[d]
    BY <1>3, <2>1
  <2>3. /\ sessions' \in [Callbacks -> RowState]
        /\ \A d \in Callbacks \ {c} : sessions'[d] = sessions[d]
        /\ sessions[c].status = "none"
    BY <2>1, TtlAssumption DEF TypeOK, RowState, CallbacksSound
  <2>4. TypeOK'
    BY <2>1, <2>2, <2>3 DEF TypeOK
  <2>5. LocksHold'
    BY <2>1, <2>2 DEF LocksHold, AttemptUsedOnce, Won
  <2>6. CallbacksSound'
    BY <2>1, <2>2, <2>3 DEF CallbacksSound, Won
  <2>7. \A r \in Requests : requests[r].pc \notin {"idle", "refused"} =>
          requests[r].session \in Callbacks \ {c}
    BY <2>3 DEF RequestsSound, TypeOK, Request
  <2>8. RequestsSound'
    BY <2>1, <2>3, <2>7 DEF RequestsSound, Over, Expired
  <2> QED BY <2>4, <2>5, <2>6, <2>8
<1> QED BY <1>4, <1>5, <1>6, <1>7, <1>8, <1>9 DEF CallbackStep

\* A row that delete_session, a lookup or a callback deletes stays a row, and
\* changes in its status only.
LEMMA DeletedRow ==
  ASSUME NEW row \in RowState
  PROVE  /\ Deleted(row) \in RowState
         /\ Deleted(row).status = "deleted" /\ Deleted(row).exp = row.exp
BY DEF RowState, Deleted

\* A step that only deletes rows, none of them a locked one.
OnlyDeletes ==
  /\ now' = now /\ callbacks' = callbacks /\ codes' = codes
  /\ sessions' \in [Callbacks -> RowState] /\ attempts' \in [Attempts -> RowState]
  /\ requests' \in [Requests -> Request]
  /\ \A c \in Callbacks : \/ sessions'[c] = sessions[c]
                          \/ sessions[c].status # "none" /\ sessions'[c] = Deleted(sessions[c])
  /\ \A a \in Attempts : \/ attempts'[a] = attempts[a]
                         \/ attempts'[a] = Deleted(attempts[a]) /\ ~ Locked(a)

\* Deleting rows, by whatever hand, disturbs nobody.
LEMMA DeletionKeeps ==
  ASSUME LoginInv, OnlyDeletes
  PROVE  /\ TypeOK' /\ LocksHold' /\ CallbacksSound'
         /\ \A c \in Callbacks : sessions[c].status # "none" =>
              /\ sessions'[c].status # "none" /\ sessions'[c].exp = sessions[c].exp
              /\ sessions[c].status = "deleted" => sessions'[c].status = "deleted"
<1> USE DEF LoginInv, OnlyDeletes
<1>1. TypeOK'
  BY DEF TypeOK
<1>2. \A c \in Callbacks : callbacks[c].pc \in {"selected", "consumed", "validated", "done"} =>
        callbacks[c].cookie \in Attempts
  BY DEF TypeOK, Callback
<1>3. \A a \in Attempts : attempts[a] \in RowState /\ Deleted(attempts[a]).status = "deleted"
  BY DeletedRow DEF TypeOK
<1>4. LocksHold'
  <2>1. \A c \in Callbacks : Won(c)' => attempts'[callbacks[c].cookie].status = "deleted"
    BY <1>2, <1>3 DEF LocksHold, AttemptUsedOnce, Won
  <2>2. ASSUME RowLocks, NEW c \in Callbacks, callbacks[c].pc = "selected"
        PROVE  attempts'[callbacks[c].cookie] = attempts[callbacks[c].cookie]
    BY <1>2, <2>2 DEF Locked
  <2>3. AttemptUsedOnce => AttemptUsedOnce'
    BY DEF AttemptUsedOnce, Won
  <2> QED BY <2>1, <2>2, <2>3 DEF LocksHold
<1>5. CallbacksSound'
  <2>1. \A c \in Callbacks : sessions'[c].status # "none" => sessions[c].status # "none"
    OBVIOUS
  <2> QED BY <2>1 DEF CallbacksSound, Won
<1>6. \A c \in Callbacks : /\ Deleted(sessions[c]).status = "deleted"
                            /\ Deleted(sessions[c]).exp = sessions[c].exp
  BY DeletedRow DEF TypeOK
<1>7. ASSUME NEW c \in Callbacks, sessions[c].status # "none"
      PROVE  /\ sessions'[c].status # "none" /\ sessions'[c].exp = sessions[c].exp
             /\ sessions[c].status = "deleted" => sessions'[c].status = "deleted"
  BY <1>6, <1>7
<1> QED BY <1>1, <1>4, <1>5, <1>7

\* A request is answered or goes on.
LEMMA AnswerMoves ==
  ASSUME LoginInv, NEW r \in Requests, NEW pc \in {"live", "expired", "admitted", "done", "refused"},
         requests[r].pc \in {"begun", "live", "expired", "admitted"}, Answer(r, pc)
  PROVE  /\ requests' \in [Requests -> Request]
         /\ requests'[r].pc = pc
         /\ pc # "refused" => /\ requests'[r].session = requests[r].session
                              /\ requests'[r].ended = requests[r].ended
         /\ requests[r].session \in Callbacks /\ requests[r].ended \in BOOLEAN
         /\ \A q \in Requests \ {r} : requests'[q] = requests[q]
<1>1. requests[r] \in [pc : {"begun", "live", "expired", "admitted", "done"},
                       session : Callbacks, kind : {"get", "post", "forged"}, ended : BOOLEAN]
  BY DEF LoginInv, TypeOK, Request
<1> DEFINE b == IF pc = "refused" THEN [pc |-> pc] ELSE [requests[r] EXCEPT !.pc = pc]
<1>2. /\ b \in Request /\ b.pc = pc
      /\ pc # "refused" => b.session = requests[r].session /\ b.ended = requests[r].ended
  BY <1>1 DEF Request
<1>3. requests' = [requests EXCEPT ![r] = b]
  BY DEF Answer
<1> HIDE DEF b
<1> QED BY <1>1, <1>2, <1>3 DEF LoginInv, TypeOK

\* A step of a request with a session cookie.
LEMMA RequestKeeps ==
  ASSUME LoginInv, NEW r \in Requests,
         \/ \E c \in Callbacks, kind \in {"get", "post", "forged"} : RequestBegin(r, c, kind)
         \/ RequestStep(r)
  PROVE  LoginInv'
<1>1. CASE \E c \in Callbacks, kind \in {"get", "post", "forged"} : RequestBegin(r, c, kind)
  <2> PICK c \in Callbacks, kind \in {"get", "post", "forged"} : RequestBegin(r, c, kind)
    BY <1>1
  <2> DEFINE b == [pc |-> "begun", session |-> c, kind |-> kind, ended |-> Over(c)]
  <2>1. /\ sessions[c].status # "none"
        /\ requests' = [requests EXCEPT ![r] = b]
        /\ UNCHANGED <<now, attempts, codes, callbacks, sessions>>
    BY DEF RequestBegin
  <2>2. b \in Request /\ b.pc = "begun" /\ b.session = c /\ b.ended = Over(c)
    BY DEF Request, Over, Expired
  <2> HIDE DEF b
  <2>3. /\ requests' \in [Requests -> Request] /\ requests'[r] = b
        /\ \A q \in Requests \ {r} : requests'[q] = requests[q]
    BY <2>1, <2>2 DEF LoginInv, TypeOK
  <2>4. TypeOK' /\ LocksHold' /\ CallbacksSound'
    BY <2>1, <2>3 DEF LoginInv, TypeOK, LocksHold, AttemptUsedOnce, CallbacksSound, Won
  <2>5. RequestsSound'
    BY <2>1, <2>2, <2>3 DEF LoginInv, RequestsSound, Over, Expired
  <2> QED BY <2>4, <2>5 DEF LoginInv
<1>2. ASSUME NEW pc \in {"live", "expired", "admitted", "done", "refused"},
             requests[r].pc \in {"begun", "live", "expired", "admitted"}, Answer(r, pc),
             pc \in {"live", "admitted", "done"} => ~ requests[r].ended,
             \/ sessions' = sessions
             \/ sessions' = [sessions EXCEPT ![requests[r].session] = Deleted(@)],
             UNCHANGED <<now, attempts, codes, callbacks>>
      PROVE  LoginInv'
  <2>1. /\ requests' \in [Requests -> Request]
        /\ requests'[r].pc = pc
        /\ pc # "refused" => /\ requests'[r].session = requests[r].session
                             /\ requests'[r].ended = requests[r].ended
        /\ requests[r].session \in Callbacks /\ requests[r].ended \in BOOLEAN
        /\ \A q \in Requests \ {r} : requests'[q] = requests[q]
    BY <1>2, AnswerMoves
  <2>2. /\ sessions' \in [Callbacks -> RowState]
        /\ sessions[requests[r].session].status # "none"
        /\ \A c \in Callbacks : \/ sessions'[c] = sessions[c]
                                \/ sessions[c].status # "none" /\ sessions'[c] = Deleted(sessions[c])
    BY <1>2, <2>1, DeletedRow DEF LoginInv, TypeOK, RequestsSound
  <2>3. attempts' \in [Attempts -> RowState] /\ \A a \in Attempts : attempts'[a] = attempts[a]
    BY <1>2 DEF LoginInv, TypeOK
  <2>4. /\ TypeOK' /\ LocksHold' /\ CallbacksSound'
        /\ \A c \in Callbacks : sessions[c].status # "none" =>
             /\ sessions'[c].status # "none" /\ sessions'[c].exp = sessions[c].exp
             /\ sessions[c].status = "deleted" => sessions'[c].status = "deleted"
    <3>1. OnlyDeletes
      BY <1>2, <2>1, <2>2, <2>3 DEF OnlyDeletes
    <3> QED BY <3>1, DeletionKeeps
  <2>5. \A q \in Requests : requests[q].pc \notin {"idle", "refused"} =>
          requests[q].session \in Callbacks
    BY DEF LoginInv, TypeOK, Request
  <2>6. RequestsSound'
    BY <1>2, <2>1, <2>2, <2>4, <2>5 DEF LoginInv, RequestsSound, Over, Expired
  <2> QED BY <2>4, <2>6 DEF LoginInv
<1>3. CASE LookupRead(r)
  <2> DEFINE row == sessions[requests[r].session]
             pc == IF row.status # "there" THEN "refused" ELSE IF Expired(row) THEN "expired" ELSE "live"
  <2>1. requests[r].pc = "begun" /\ Answer(r, pc) /\ UNCHANGED <<now, attempts, codes, callbacks, sessions>>
    BY <1>3 DEF LookupRead
  <2>2. pc = "live" => ~ requests[r].ended
    BY <2>1 DEF LoginInv, RequestsSound, Over
  <2>3. pc \in {"live", "expired", "refused"}
    OBVIOUS
  <2> HIDE DEF pc
  <2> QED BY <1>2, <2>1, <2>2, <2>3
<1>4. CASE LookupDelete(r)
  BY <1>2, <1>4 DEF LookupDelete
<1>5. CASE LookupCommit(r)
  <2>1. PICK pc \in {"admitted", "refused"} :
          requests[r].pc = "live" /\ Answer(r, pc) /\ UNCHANGED <<now, attempts, codes, callbacks, sessions>>
    BY <1>5 DEF LookupCommit
  <2> QED BY <1>2, <2>1 DEF LoginInv, RequestsSound
<1>6. CASE Serve(r)
  BY <1>2, <1>6 DEF Serve, LoginInv, RequestsSound
<1>7. CASE Logout(r)
  BY <1>2, <1>7 DEF Logout, LoginInv, RequestsSound
<1> QED BY <1>1, <1>3, <1>4, <1>5, <1>6, <1>7 DEF RequestStep

\* A logout with somebody's cookie, and the janitor.
LEMMA SweepKeeps ==
  ASSUME LoginInv, Prune \/ \E c \in Callbacks : LogoutCookie(c)
  PROVE  LoginInv'
<1>1. /\ now' = now /\ callbacks' = callbacks /\ codes' = codes /\ requests' = requests
  BY DEF Prune, LogoutCookie
<1>2. /\ sessions' \in [Callbacks -> RowState]
      /\ \A c \in Callbacks : \/ sessions'[c] = sessions[c]
                              \/ sessions[c].status # "none" /\ sessions'[c] = Deleted(sessions[c])
  <2>1. CASE Prune
    BY <2>1, DeletedRow DEF LoginInv, TypeOK, Prune, Swept, Stale
  <2>2. CASE \E c \in Callbacks : LogoutCookie(c)
    BY <2>2, DeletedRow DEF LoginInv, TypeOK, LogoutCookie
  <2> QED BY <2>1, <2>2
<1>3. /\ attempts' \in [Attempts -> RowState]
      /\ \A a \in Attempts : \/ attempts'[a] = attempts[a]
                             \/ attempts'[a] = Deleted(attempts[a]) /\ ~ Locked(a)
  <2>1. CASE Prune
    BY <2>1, DeletedRow DEF LoginInv, TypeOK, Prune, Swept, Stale
  <2>2. CASE \E c \in Callbacks : LogoutCookie(c)
    BY <2>2 DEF LoginInv, TypeOK, LogoutCookie
  <2> QED BY <2>1, <2>2
<1>4. requests' \in [Requests -> Request]
  BY <1>1 DEF LoginInv, TypeOK
<1>5. /\ TypeOK' /\ LocksHold' /\ CallbacksSound'
      /\ \A c \in Callbacks : sessions[c].status # "none" =>
           /\ sessions'[c].status # "none" /\ sessions'[c].exp = sessions[c].exp
           /\ sessions[c].status = "deleted" => sessions'[c].status = "deleted"
  <2>1. OnlyDeletes
    BY <1>1, <1>2, <1>3, <1>4 DEF OnlyDeletes
  <2> QED BY <2>1, DeletionKeeps
<1>6. \A q \in Requests : requests[q].pc \notin {"idle", "refused"} => requests[q].session \in Callbacks
  BY DEF LoginInv, TypeOK, Request
<1>7. RequestsSound'
  BY <1>1, <1>5, <1>6 DEF LoginInv, RequestsSound, Over, Expired
<1> QED BY <1>5, <1>7 DEF LoginInv

-----------------------------------------------------------------------------
\* The invariant of login, sessions and janitor.
THEOREM LoginInvCorrect == Spec => []LoginInv
<1>1. Init => LoginInv
  BY DEF Init, LoginInv, TypeOK, Unmade, RowState, Callback, Request, LocksHold, AttemptUsedOnce,
     CallbacksSound, RequestsSound, Won
<1>2. LoginInv /\ [Next]_vars => LoginInv'
  <2> SUFFICES ASSUME LoginInv, [Next]_vars PROVE LoginInv'
    OBVIOUS
  <2>1. CASE UNCHANGED vars
    BY <2>1 DEF vars, LoginInv, TypeOK, LocksHold, AttemptUsedOnce, CallbacksSound, RequestsSound, Won, Over, Expired
  <2>2. CASE \/ Tick \/ \E a \in Attempts : Login(a)
             \/ \E k \in Codes, a \in Attempts : Authorize(k, a)
    BY <2>2, OutsideStep
  <2>3. CASE \E c \in Callbacks : \/ \E a, b \in Attempts, k \in Codes : CallbackBegin(c, a, b, k)
                                  \/ CallbackStep(c) \/ CallbackLost(c)
    BY <2>3, CallbackStepKeeps
  <2>4. CASE \E r \in Requests :
               \/ \E c \in Callbacks, kind \in {"get", "post", "forged"} : RequestBegin(r, c, kind)
               \/ RequestStep(r)
    BY <2>4, RequestKeeps
  <2>5. CASE Prune \/ \E c \in Callbacks : LogoutCookie(c)
    BY <2>5, SweepKeeps
  <2> QED BY <2>1, <2>2, <2>3, <2>4, <2>5 DEF Next
<1> QED BY <1>1, <1>2, PTL DEF Spec

\* With row locks, of all callbacks with one cookie at most one gets past
\* consume_login_attempt.
THEOREM AttemptsAreUsedOnce ==
  ASSUME RowLocks
  PROVE  Spec => []AttemptUsedOnce
<1>1. LoginInv => AttemptUsedOnce
  BY DEF LoginInv, LocksHold
<1> QED BY <1>1, LoginInvCorrect, PTL

\* Every session is the end of one login of an admin.
THEOREM SessionsAreEarned == Spec => []SessionsEarned
<1>1. LoginInv => SessionsEarned
  BY DEF LoginInv, LocksHold, CallbacksSound, SessionsEarned, Won
<1> QED BY <1>1, LoginInvCorrect, PTL

\* lookup_session and the handlers behind it admit no request that comes in
\* after logout, sweep or deadline.
THEOREM EndedSessionsStayOut == Spec => []EndedSessionsAdmitNobody
<1>1. LoginInv => EndedSessionsAdmitNobody
  BY DEF LoginInv, RequestsSound, EndedSessionsAdmitNobody
<1> QED BY <1>1, LoginInvCorrect, PTL

\* No step brings a deleted attempt or session back.
THEOREM DeletionsAreFinal == Spec => DeletedForGood
<1> DEFINE Final == /\ \A c \in Callbacks : sessions[c].status = "deleted" => sessions'[c].status = "deleted"
                    /\ \A a \in Attempts : attempts[a].status = "deleted" => attempts'[a].status = "deleted"
<1>1. LoginInv /\ [Next]_vars => [Final]_vars
  <2> SUFFICES ASSUME LoginInv, Next PROVE Final
    OBVIOUS
  <2>1. \A c \in Callbacks : Deleted(sessions[c]).status = "deleted"
    BY DeletedRow DEF LoginInv, TypeOK
  <2>2. \A a \in Attempts : Deleted(attempts[a]).status = "deleted"
    BY DeletedRow DEF LoginInv, TypeOK
  <2>3. CASE Tick \/ (\E a \in Attempts : Login(a)) \/ (\E k \in Codes, a \in Attempts : Authorize(k, a))
    BY <2>3 DEF Tick, Login, Authorize, LoginInv, TypeOK
  <2>4. CASE \E c \in Callbacks : \/ \E a, b \in Attempts, k \in Codes : CallbackBegin(c, a, b, k)
                                  \/ CallbackStep(c) \/ CallbackLost(c)
    <3> PICK c \in Callbacks : \/ \E a, b \in Attempts, k \in Codes : CallbackBegin(c, a, b, k)
                              \/ CallbackStep(c) \/ CallbackLost(c)
      BY <2>4
    <3>1. CASE CreateSession(c)
      BY <3>1 DEF CreateSession, LoginInv, TypeOK, CallbacksSound
    <3>2. CASE ConsumeDelete(c)
      BY <3>2, <2>2 DEF ConsumeDelete, LoginInv, TypeOK
    <3> QED BY <3>1, <3>2 DEF CallbackBegin, CallbackStep, ConsumeSelect, Exchange, ExchangeFails,
               CallbackLost
  <2>5. CASE \E r \in Requests :
               \/ \E c \in Callbacks, kind \in {"get", "post", "forged"} : RequestBegin(r, c, kind)
               \/ RequestStep(r)
    BY <2>5, <2>1 DEF RequestBegin, RequestStep, LookupRead, LookupDelete, LookupCommit, Serve, Logout,
       LoginInv, TypeOK
  <2>6. CASE Prune \/ \E c \in Callbacks : LogoutCookie(c)
    BY <2>6, <2>1, <2>2 DEF Prune, LogoutCookie, Swept, LoginInv, TypeOK
  <2> QED BY <2>3, <2>4, <2>5, <2>6 DEF Next
<1> QED BY <1>1, LoginInvCorrect, PTL DEF Spec, DeletedForGood
=============================================================================
