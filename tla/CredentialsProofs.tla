-------------------------- MODULE CredentialsProofs --------------------------
(***************************************************************************)
(* CredentialInv is an invariant of Credentials; the safety properties      *)
(* follow from it.  Rows are never deleted and only move forward, so what a *)
(* request has been granted on, and that its credential is over, stays true *)
(* whatever other requests do (Progress, OthersKept).                       *)
(***************************************************************************)
EXTENDS Credentials, TLAPS

\* Issuing, rotating and revoking never take anything back but a status.
Forward(old, new) ==
  \/ old.status = "none"
  \/ /\ new.who = old.who /\ new.exp = old.exp /\ new.secret >= old.secret
     /\ new.status = old.status \/ new.status = "revoked"
     /\ old.status = "revoked" => new.status = "revoked"

Progress ==
  /\ settings' = settings /\ now' >= now
  /\ tokens \subseteq tokens' /\ granted \subseteq granted'
  /\ \A k \in Keys : Forward(keys[k], keys'[k])
  /\ \A c \in Clients : Forward(clients[c], clients'[c])

\* No row is back to "none", and a row that is over stays over.
LEMMA OverStays ==
  ASSUME TypeOK, TypeOK', Progress, NEW cred \in Credential, Held(cred)
  PROVE  Held(cred)' /\ (Over(cred) => Over(cred)')
<1> USE TimeAssumption
<1>1. CASE cred.kind \in {"none", "env"}
  BY <1>1 DEF Held, Over, Progress
<1>2. CASE cred.kind = "key"
  <2>1. cred.key \in Keys BY <1>2 DEF Credential
  <2>2. keys[cred.key] \in Row /\ keys'[cred.key] \in Row BY <2>1 DEF TypeOK
  <2>3. Forward(keys[cred.key], keys'[cred.key]) BY <2>1 DEF Progress
  <2>4. now \in Nat /\ now' \in Nat /\ now' >= now BY DEF TypeOK, Progress
  <2> QED BY <1>2, <2>2, <2>3, <2>4 DEF Held, Over, Usable, Lapsed, Forward, Row
<1>3. CASE cred.kind = "secret"
  <2>1. cred.client \in Clients /\ cred.secret \in Nat BY <1>3 DEF Credential
  <2>2. clients[cred.client] \in Row /\ clients'[cred.client] \in Row BY <2>1 DEF TypeOK
  <2>3. Forward(clients[cred.client], clients'[cred.client]) BY <2>1 DEF Progress
  <2>4. now \in Nat /\ now' \in Nat /\ now' >= now /\ settings' = settings BY DEF TypeOK, Progress
  <2> QED BY <1>3, <2>1, <2>2, <2>3, <2>4 DEF Held, Over, Usable, Lapsed, Forward, Row
<1>4. CASE cred.kind = "token"
  <2>1. cred.token \in Token BY <1>4 DEF Credential
  <2>2. now \in Nat /\ now' \in Nat /\ now' >= now /\ tokens \subseteq tokens' BY DEF TypeOK, Progress
  <2> QED BY <1>4, <2>1, <2>2 DEF Held, Over, TokenLapsed, Token
<1> QED BY <1>1, <1>2, <1>3, <1>4 DEF Credential

\* The same request, but for the history variable shut.
Same(x, y) ==
  /\ y.pc = x.pc /\ y.cred = x.cred /\ y.ended = x.ended /\ y.who = x.who /\ y.old = x.old
  /\ y.via = x.via /\ y.act = x.act /\ (y.shut => x.shut)

\* A request that takes no step keeps what it relies on.
LEMMA OthersKept ==
  ASSUME TypeOK, TypeOK', Progress, NEW x \in Worker, WorkerSound(x),
         NEW y \in Worker, Same(x, y), y.shut => \E k \in Keys : keys'[k].status = "active"
  PROVE  WorkerSound(y)'
<1>1. Same(x, y) /\ x.cred \in Credential /\ y.cred \in Credential
  BY DEF Worker
<1>2. y.pc \notin {"idle", "done"} => Held(y.cred)'
  BY <1>1, OverStays DEF WorkerSound, Same
<1>3. y.pc \in {"begun", "entered"} /\ y.ended => Over(y.cred)'
  BY <1>1, OverStays DEF WorkerSound, Same
<1>4. granted \subseteq granted' /\ settings' = settings BY DEF Progress
<1>5. Within(y.who) => Within(y.who)' BY <1>4 DEF Within
<1>6. y.old \in granted => y.old \in granted' BY <1>4
<1>7. (\E g \in granted : "admin" \in g.scopes) => \E g \in granted' : "admin" \in g.scopes BY <1>4
<1>8. \A t \in Tenants : (\E g \in granted : Covers(g, t)) => \E g \in granted' : Covers(g, t) BY <1>4
<1>9. y.shut => \E k \in Keys : keys'[k].status = "active" OBVIOUS
<1>10. y.via = "bypass" => ~ y.shut /\ settings'.dev /\ ~ settings'.env /\ ~ settings'.sso
  BY <1>1, <1>4 DEF WorkerSound, Same
<1>11. y.via # "nothing" => y.pc \in {"admitted", "rotating", "done"} BY <1>1 DEF WorkerSound, Same
<1>12. y.pc = "found" \/ (y.pc \in {"admitted", "rotating"} /\ y.via = "credential") =>
         Within(y.who)' /\ ~ y.ended
  BY <1>1, <1>5 DEF WorkerSound, Same
<1>13. y.pc = "rotating" => AllowsAdmin(y.who) /\ y.old \in granted' BY <1>1, <1>6 DEF WorkerSound, Same
<1>14. y.pc = "done" /\ y.via = "credential" =>
         /\ ~ y.ended
         /\ \A t \in Tenants : y.act = t => \E g \in granted' : Covers(g, t)
         /\ y.act = "admin" => \E g \in granted' : "admin" \in g.scopes
  BY <1>1, <1>7, <1>8 DEF WorkerSound, Same
<1>15. y.pc = "admitted" /\ y.cred.kind = "secret" => y.via = "credential" BY <1>1 DEF WorkerSound, Same
<1> QED BY <1>15, <1>2, <1>3, <1>9, <1>10, <1>11, <1>12, <1>13, <1>14 DEF WorkerSound, Same, AllowsAdmin, Covers, TenantScopeMatches

\* One request moves, the others do not.
LEMMA StepKeeps ==
  ASSUME CredentialInv, Progress, TypeOK', RowsGranted', NEW w \in Workers, WorkerSound(workers[w])',
         \A v \in Workers \ {w} : /\ Same(workers[v], workers'[v])
                                  /\ workers'[v].shut => \E k \in Keys : keys'[k].status = "active"
  PROVE  CredentialInv'
<1>1. ASSUME NEW v \in Workers \ {w} PROVE WorkerSound(workers[v])'
  <2>1. PICK x : x = workers[v] OBVIOUS
  <2>2. PICK y : y = workers'[v] OBVIOUS
  <2>3. x \in Worker /\ y \in Worker BY <2>1, <2>2 DEF TypeOK, CredentialInv
  <2>4. WorkerSound(x) BY <2>1 DEF CredentialInv
  <2>5. Same(x, y) /\ (y.shut => \E k \in Keys : keys'[k].status = "active") BY <1>1, <2>1, <2>2
  <2>6. WorkerSound(y)' BY <2>3, <2>4, <2>5, OthersKept DEF CredentialInv
  <2> QED BY <2>2, <2>6 DEF WorkerSound
<1> QED BY <1>1 DEF CredentialInv

\* Steps that write no row: the request just moves to another sound state.
LEMMA QuietKeeps ==
  ASSUME CredentialInv, Quiet, NEW w \in Workers, NEW y \in Worker, WorkerSound(y),
         workers' = [workers EXCEPT ![w] = y]
  PROVE  CredentialInv'
<1> USE DEF CredentialInv
<1>1. TypeOK' BY DEF TypeOK, Quiet
<1>2. RowsGranted' BY DEF RowsGranted, Quiet, Within
<1>3. Progress
  <2>1. now \in Nat BY DEF TypeOK
  <2>2. \A k \in Keys : Forward(keys[k], keys[k])
    BY DEF Forward, TypeOK, Row
  <2>3. \A c \in Clients : Forward(clients[c], clients[c])
    BY DEF Forward, TypeOK, Row
  <2> QED BY <2>1, <2>2, <2>3 DEF Progress, Quiet
<1>4. workers'[w] = y BY DEF TypeOK
<1>5. WorkerSound(workers[w])'
  <2>1. \A cred : (Held(cred)' <=> Held(cred)) /\ (Over(cred)' <=> Over(cred))
    BY DEF Quiet, Held, Over, Usable, Lapsed, TokenLapsed
  <2>2. \A who : Within(who)' <=> Within(who) BY DEF Quiet, Within
  <2> QED BY <1>4, <2>1, <2>2 DEF WorkerSound, Quiet
<1>6. \A v \in Workers \ {w} : /\ Same(workers[v], workers'[v])
                               /\ workers'[v].shut => \E k \in Keys : keys'[k].status = "active"
  BY DEF TypeOK, Same, WorkerSound, Quiet
<1> QED BY <1>1, <1>2, <1>3, <1>5, <1>6, StepKeeps

\* An idle worker relies on nothing.
LEMMA IdleSound ==
  ASSUME TenantAssumption
  PROVE  Idle \in Worker /\ WorkerSound(Idle)
<1>1. Idle.cred \in Credential BY DEF Idle, Credential
<1>2. Nobody \in Authority BY DEF Nobody, Authority
<1> QED BY <1>1, <1>2 DEF Idle, Worker, WorkerSound

\* A refusal.
LEMMA RefuseKeeps ==
  ASSUME CredentialInv, Quiet, NEW w \in Workers, Refuse(w)
  PROVE  CredentialInv'
BY QuietKeeps, IdleSound, TenantAssumption DEF Refuse

\* The fields of a worker's record.
LEMMA WorkerFields ==
  ASSUME TypeOK, NEW w \in Workers
  PROVE  /\ workers[w] \in Worker
         /\ workers[w].cred \in Credential /\ workers[w].who \in Authority /\ workers[w].old \in Authority
         /\ workers[w].ended \in BOOLEAN /\ workers[w].shut \in BOOLEAN
BY DEF TypeOK, Worker

\* The way in keeps the invariant.
LEMMA BeginKeeps ==
  ASSUME CredentialInv, NEW w \in Workers, NEW cred \in Credential, Begin(w, cred)
  PROVE  CredentialInv'
<1>1. PICK y : y = [Idle EXCEPT !.pc = "begun", !.cred = cred, !.ended = Over(cred),
                     !.shut = settings.dev /\ \E k \in Keys : keys[k].status = "active"]
  OBVIOUS
<1>2. settings \in [dev : BOOLEAN, env : BOOLEAN, sso : BOOLEAN]
  BY SettingsAssumption DEF CredentialInv, TypeOK
<1>3. Over(cred) \in BOOLEAN BY DEF Over
<1>4. /\ y.pc = "begun" /\ y.cred = cred /\ y.ended = Over(cred) /\ y.via = "nothing"
      /\ (y.shut => \E k \in Keys : keys[k].status = "active") /\ y \in Worker
  BY <1>1, <1>2, <1>3, IdleSound, TenantAssumption DEF Idle, Worker
<1>5. WorkerSound(y) BY <1>4 DEF WorkerSound, Begin
<1> QED BY <1>1, <1>4, <1>5, QuietKeeps DEF Begin, Quiet

\* require_caller: the bypass, the environment key, or on to the lookup.
LEMMA EnterKeeps ==
  ASSUME CredentialInv, NEW w \in Workers, Enter(w)
  PROVE  CredentialInv'
<1> DEFINE x == workers[w]
<1>1. x \in Worker /\ WorkerSound(x) /\ Quiet /\ x.pc = "begun" /\ x.cred.kind # "secret"
  BY WorkerFields DEF CredentialInv, Enter
<1>2. Admin \in Authority BY DEF Admin, Authority, Scopes, Surfaces
<1>3. CASE DevBypass
  <2>1. PICK y : y = [x EXCEPT !.pc = "admitted", !.who = Admin, !.via = "bypass"] OBVIOUS
  <2>2. /\ y \in Worker /\ y.pc = "admitted" /\ y.via = "bypass" /\ y.cred = x.cred /\ y.shut = x.shut
    BY <1>1, <1>2, <2>1 DEF Worker
  <2>3. ~ x.shut BY <1>1, <1>3 DEF DevBypass, HasAnyDbKey, WorkerSound
  <2>4. WorkerSound(y) BY <1>1, <1>3, <2>2, <2>3 DEF WorkerSound, DevBypass
  <2> QED BY <1>1, <1>3, <2>1, <2>2, <2>4, QuietKeeps DEF Enter, Admit
<1>4. CASE ~ DevBypass /\ x.cred.kind = "none"
  BY <1>1, <1>4, RefuseKeeps DEF Enter
<1>5. CASE ~ DevBypass /\ x.cred.kind = "env"
  <2>1. PICK y : y = [x EXCEPT !.pc = "admitted", !.who = Admin, !.via = "operator"] OBVIOUS
  <2>2. /\ y \in Worker /\ y.pc = "admitted" /\ y.via = "operator" /\ y.cred = x.cred /\ y.shut = x.shut
    BY <1>1, <1>2, <2>1 DEF Worker
  <2>3. WorkerSound(y) BY <1>1, <2>2 DEF WorkerSound
  <2>4. workers' = [workers EXCEPT ![w] = y] BY <1>5, <2>1 DEF Enter, Admit
  <2> QED BY <1>1, <2>2, <2>3, <2>4, QuietKeeps
<1>6. CASE ~ DevBypass /\ x.cred.kind \notin {"none", "env"}
  <2>1. PICK y : y = [x EXCEPT !.pc = "entered"] OBVIOUS
  <2>2. /\ y \in Worker /\ y.pc = "entered" /\ y.via = x.via /\ y.cred = x.cred /\ y.shut = x.shut
        /\ y.ended = x.ended
    BY <1>1, <2>1 DEF Worker
  <2>3. WorkerSound(y) BY <1>1, <2>2 DEF WorkerSound
  <2>4. workers' = [workers EXCEPT ![w] = y] BY <1>6, <2>1 DEF Enter
  <2> QED BY <1>1, <2>2, <2>3, <2>4, QuietKeeps
<1> QED BY <1>3, <1>4, <1>5, <1>6

\* An authority written by an administrator adds nothing to itself.
LEMMA GrantedWithin ==
  ASSUME NEW who \in granted
  PROVE  Within(who)
BY DEF Within

\* The lookups, once the row is found.
LEMMA FindKeeps ==
  ASSUME CredentialInv, NEW w \in Workers, workers[w].pc \in {"begun", "entered"}, Quiet,
         NEW row \in Row, NEW ok \in BOOLEAN, Find(w, row, ok),
         ok => ~ Over(workers[w].cred) /\ row.who \in granted
  PROVE  CredentialInv'
<1>1. CASE ~ ok BY <1>1, RefuseKeeps DEF Find
<1>2. CASE ok
  <2> DEFINE x == workers[w]
  <2>1. x \in Worker /\ WorkerSound(x) BY WorkerFields DEF CredentialInv
  <2>2. PICK y : y = [x EXCEPT !.pc = "found", !.who = row.who] OBVIOUS
  <2>3. row.who \in Authority BY DEF Row
  <2>4. /\ y \in Worker /\ y.pc = "found" /\ y.via = x.via /\ y.cred = x.cred /\ y.shut = x.shut
        /\ y.ended = x.ended /\ y.who = row.who
    BY <2>1, <2>2, <2>3 DEF Worker
  <2>5. Within(y.who) BY <1>2, <2>4, GrantedWithin
  <2>6. ~ y.ended BY <1>2, <2>1, <2>4 DEF WorkerSound
  <2>7. WorkerSound(y) BY <2>1, <2>4, <2>5, <2>6 DEF WorkerSound
  <2>8. workers' = [workers EXCEPT ![w] = y] BY <1>2, <2>2 DEF Find
  <2> QED BY <2>4, <2>7, <2>8, QuietKeeps
<1> QED BY <1>1, <1>2

\* find_active and authenticate admit on a row an administrator wrote.
LEMMA RowLookupKeeps ==
  ASSUME CredentialInv, NEW w \in Workers, FindKey(w) \/ Authenticate(w)
  PROVE  CredentialInv'
<1> DEFINE x == workers[w]
<1>1. x \in Worker /\ WorkerSound(x) /\ x.cred \in Credential
  BY WorkerFields DEF CredentialInv
<1>2. CASE FindKey(w)
  <2>1. x.cred.kind = "key" /\ x.cred.key \in Keys /\ x.pc = "entered" /\ Quiet
    BY <1>1, <1>2 DEF FindKey, Credential
  <2>2. PICK row : row = keys[x.cred.key] OBVIOUS
  <2>3. PICK ok \in BOOLEAN : ok = Usable(row) BY DEF Usable
  <2>4. row \in Row BY <2>1, <2>2 DEF CredentialInv, TypeOK
  <2>5. row.status # "none" BY <1>1, <2>1, <2>2 DEF WorkerSound, Held
  <2>6. row.who \in granted BY <2>1, <2>2, <2>5 DEF CredentialInv, RowsGranted
  <2>7. ok => ~ Over(x.cred) BY <2>1, <2>2, <2>3 DEF Over
  <2>8. Find(w, row, ok) BY <1>2, <2>2, <2>3 DEF FindKey
  <2> QED BY <2>1, <2>4, <2>6, <2>7, <2>8, FindKeeps
<1>3. CASE Authenticate(w)
  <2>1. x.cred.kind = "secret" /\ x.cred.client \in Clients /\ x.pc = "begun" /\ Quiet
    BY <1>1, <1>3 DEF Authenticate, Credential
  <2>2. PICK row : row = clients[x.cred.client] OBVIOUS
  <2>3. PICK ok \in BOOLEAN : ok = (row.secret = x.cred.secret /\ Usable(row)) OBVIOUS
  <2>4. row \in Row BY <2>1, <2>2 DEF CredentialInv, TypeOK
  <2>5. row.status # "none" BY <1>1, <2>1, <2>2 DEF WorkerSound, Held
  <2>6. row.who \in granted BY <2>1, <2>2, <2>5 DEF CredentialInv, RowsGranted
  <2>7. ok => ~ Over(x.cred) BY <2>1, <2>2, <2>3 DEF Over
  <2>8. Find(w, row, ok) BY <1>3, <2>2, <2>3 DEF Authenticate
  <2> QED BY <2>1, <2>4, <2>6, <2>7, <2>8, FindKeeps
<1> QED BY <1>2, <1>3

\* The second half of the lookups.
LEMMA FindCommitKeeps ==
  ASSUME CredentialInv, NEW w \in Workers, FindCommit(w)
  PROVE  CredentialInv'
<1> DEFINE x == workers[w]
<1>1. x \in Worker /\ WorkerSound(x) /\ x.pc = "found" /\ Quiet
  BY WorkerFields DEF CredentialInv, FindCommit
<1>2. PICK y : y = [x EXCEPT !.pc = "admitted", !.who = x.who, !.via = "credential"] OBVIOUS
<1>3. /\ y \in Worker /\ y.pc = "admitted" /\ y.via = "credential" /\ y.cred = x.cred
      /\ y.shut = x.shut /\ y.ended = x.ended /\ y.who = x.who
  BY <1>1, <1>2 DEF Worker
<1>4. WorkerSound(y) BY <1>1, <1>3 DEF WorkerSound
<1>5. workers' = [workers EXCEPT ![w] = y] BY <1>2 DEF FindCommit, Admit
<1> QED BY <1>1, <1>3, <1>4, <1>5, QuietKeeps

\* What JwtResolver makes of a token adds nothing to the grant behind it.
LEMMA PrincipalWithin ==
  ASSUME NEW t \in Token, Within(t.who)
  PROVE  Principal(t) \in Authority /\ Within(Principal(t))
<1>1. PICK p : p = Principal(t) OBVIOUS
<1>2. t.who \in Authority BY DEF Token
<1>3. /\ p.tenant = t.who.tenant
      /\ p.scopes = IF t.who.tenant # None /\ MapScopes(t.who.scopes) = {}
                    THEN {t.who.tenant} ELSE MapScopes(t.who.scopes)
      /\ p = [scopes |-> p.scopes, tenant |-> p.tenant]
  BY <1>1, <1>2 DEF Principal, Authority
<1>4. p \in Authority BY <1>2, <1>3 DEF Authority, Scopes, MapScopes
<1>5. PICK g \in granted : /\ t.who.tenant = g.tenant
                           /\ t.who.scopes \subseteq g.scopes \union ({g.tenant} \ {None})
  BY DEF Within
<1>6. p.scopes \subseteq g.scopes \union ({g.tenant} \ {None})
  BY <1>3, <1>5 DEF MapScopes
<1> QED BY <1>1, <1>3, <1>4, <1>5, <1>6 DEF Within

\* Tokens.
LEMMA ResolveTokenKeeps ==
  ASSUME CredentialInv, NEW w \in Workers, ResolveToken(w)
  PROVE  CredentialInv'
<1> DEFINE x == workers[w]
<1>1. /\ x \in Worker /\ WorkerSound(x) /\ x.pc = "entered" /\ Quiet /\ x.cred \in Credential
      /\ x.cred.kind = "token"
  BY WorkerFields DEF CredentialInv, ResolveToken
<1>2. PICK tok : tok = x.cred.token OBVIOUS
<1>3. tok \in Token /\ tok \in tokens BY <1>1, <1>2 DEF Credential, WorkerSound, Held
<1>4. Within(tok.who) BY <1>3 DEF CredentialInv, RowsGranted
<1>5. CASE TokenLapsed(tok) BY <1>1, <1>2, <1>5, RefuseKeeps DEF ResolveToken
<1>6. CASE ~ TokenLapsed(tok)
  <2>1. PICK p : p = Principal(tok) OBVIOUS
  <2>2. p \in Authority /\ Within(p) BY <1>3, <1>4, <2>1, PrincipalWithin
  <2>3. PICK y : y = [x EXCEPT !.pc = "admitted", !.who = p, !.via = "credential"] OBVIOUS
  <2>4. /\ y \in Worker /\ y.pc = "admitted" /\ y.via = "credential" /\ y.cred = x.cred
        /\ y.shut = x.shut /\ y.ended = x.ended /\ y.who = p
    BY <1>1, <2>2, <2>3 DEF Worker
  <2>5. ~ x.ended BY <1>1, <1>2, <1>6 DEF WorkerSound, Over
  <2>6. WorkerSound(y) BY <1>1, <2>2, <2>4, <2>5 DEF WorkerSound
  <2>7. workers' = [workers EXCEPT ![w] = y] BY <1>2, <1>6, <2>1, <2>3 DEF ResolveToken, Admit
  <2> QED BY <1>1, <2>4, <2>6, <2>7, QuietKeeps
<1> QED BY <1>5, <1>6

\* What a request may have done, by the authorities written so far.
Entitled(x, act) ==
  x.via = "credential" =>
    /\ \A t \in Tenants : act = t => \E g \in granted : Covers(g, t)
    /\ act = "admin" => \E g \in granted : "admin" \in g.scopes

\* The record of a request that is done.
LEMMA DoneRecord ==
  ASSUME TypeOK, NEW w \in Workers, NEW act \in {"admin", "token"} \union Tenants
  PROVE  /\ Done(w, act) \in [Workers -> Worker]
         /\ \A v \in Workers \ {w} : Done(w, act)[v] = workers[v]
         /\ Done(w, act)[w].pc = "done" /\ Done(w, act)[w].cred = Idle.cred
         /\ Done(w, act)[w].ended = workers[w].ended /\ Done(w, act)[w].shut = workers[w].shut
         /\ Done(w, act)[w].via = workers[w].via /\ Done(w, act)[w].act = act
<1>1. workers[w] \in Worker BY WorkerFields
<1>2. Idle.cred \in Credential /\ Nobody \in Authority
  BY DEF Idle, Credential, Nobody, Authority
<1>3. PICK y : y = [workers[w] EXCEPT !.pc = "done", !.cred = Idle.cred, !.who = Nobody,
                                      !.old = Nobody, !.act = act]
  OBVIOUS
<1>4. /\ y \in Worker /\ y.pc = "done" /\ y.cred = Idle.cred /\ y.ended = workers[w].ended
      /\ y.shut = workers[w].shut /\ y.via = workers[w].via /\ y.act = act
  BY <1>1, <1>2, <1>3 DEF Worker
<1>5. Done(w, act) = [workers EXCEPT ![w] = y] BY <1>3 DEF Done
<1> QED BY <1>4, <1>5 DEF TypeOK

\* shut after a write to the keys
LEMMA StillShutRecord ==
  ASSUME NEW ws \in [Workers -> Worker], NEW v \in Workers
  PROVE  /\ StillShut(ws) \in [Workers -> Worker]
         /\ Same(ws[v], StillShut(ws)[v])
         /\ StillShut(ws)[v].shut => \E k \in Keys : keys'[k].status = "active"
<1> DEFINE open == \E k \in Keys : keys'[k].status = "active"
<1>1. ASSUME NEW u \in Workers
      PROVE  /\ [ws[u] EXCEPT !.shut = @ /\ open] \in Worker
             /\ Same(ws[u], [ws[u] EXCEPT !.shut = @ /\ open])
             /\ [ws[u] EXCEPT !.shut = @ /\ open].shut => open
  <2>1. PICK x \in Worker : x = ws[u] BY <1>1
  <2>2. PICK b \in BOOLEAN : b = (x.shut /\ open) OBVIOUS
  <2>3. PICK y : y = [x EXCEPT !.shut = b] OBVIOUS
  <2>4. y \in Worker /\ (y.shut = b) /\ Same(x, y)
    BY <2>1, <2>2, <2>3 DEF Worker, Same
  <2>5. y = [ws[u] EXCEPT !.shut = @ /\ open] BY <2>1, <2>2, <2>3
  <2> QED BY <2>1, <2>2, <2>4, <2>5
<1> QED BY <1>1 DEF StillShut

\* A request that acts, and with that is done.
LEMMA DoneKeeps ==
  ASSUME CredentialInv, NEW w \in Workers, NEW act \in {"admin", "token"} \union Tenants,
         workers[w].pc \in {"admitted", "rotating"}, Entitled(workers[w], act),
         Progress, RowsGranted', now' \in Nat, keys' \in [Keys -> Row], clients' \in [Clients -> Row],
         tokens' \subseteq Token, granted' \subseteq Authority,
         \/ workers' = StillShut(Done(w, act))
         \/ /\ workers' = Done(w, act)
            /\ \A k \in Keys : keys[k].status = "active" => keys'[k].status = "active"
  PROVE  CredentialInv'
<1>1. TypeOK /\ WorkerSound(workers[w]) /\ \A v \in Workers : WorkerSound(workers[v])
  BY DEF CredentialInv
<1> DEFINE ws == Done(w, act)
<1>3. /\ ws \in [Workers -> Worker] /\ \A v \in Workers \ {w} : ws[v] = workers[v]
      /\ ws[w].pc = "done" /\ ws[w].ended = workers[w].ended /\ ws[w].shut = workers[w].shut
      /\ ws[w].via = workers[w].via /\ ws[w].act = act
  BY <1>1, DoneRecord
<1> HIDE DEF ws
<1>4. /\ workers' \in [Workers -> Worker]
      /\ \A v \in Workers : /\ Same(ws[v], workers'[v])
                            /\ workers'[v].shut => \E k \in Keys : keys'[k].status = "active"
  <2>1. CASE workers' = StillShut(ws) BY <1>3, <2>1, StillShutRecord
  <2>2. CASE /\ workers' = ws
             /\ \A k \in Keys : keys[k].status = "active" => keys'[k].status = "active"
    <3>1. \A v \in Workers : ws[v].shut = workers[v].shut BY <1>3
    <3>2. \A v \in Workers : workers[v].shut => \E k \in Keys : keys[k].status = "active"
      BY <1>1 DEF WorkerSound
    <3> QED BY <1>3, <2>2, <3>1, <3>2 DEF Same
  <2> QED BY <2>1, <2>2 DEF ws
<1>5. TypeOK' BY <1>1, <1>4 DEF TypeOK, Progress
<1>6. WorkerSound(workers[w])'
  <2>1. PICK y : y = workers'[w] OBVIOUS
  <2>2. /\ y.pc = "done" /\ y.ended = workers[w].ended /\ (y.shut => workers[w].shut)
        /\ y.via = workers[w].via /\ y.act = act
        /\ y.shut => \E k \in Keys : keys'[k].status = "active"
    BY <1>3, <1>4, <2>1 DEF Same
  <2>3. granted \subseteq granted' /\ settings' = settings BY DEF Progress
  <2>4. y.via = "bypass" => ~ y.shut /\ settings'.dev /\ ~ settings'.env /\ ~ settings'.sso
    BY <1>1, <2>2, <2>3 DEF WorkerSound
  <2>5. y.via = "credential" =>
          /\ ~ y.ended
          /\ \A t \in Tenants : y.act = t => \E g \in granted' : Covers(g, t)
          /\ y.act = "admin" => \E g \in granted' : "admin" \in g.scopes
    BY <1>1, <2>2, <2>3 DEF WorkerSound, Entitled
  <2>6. WorkerSound(y)' BY <2>2, <2>4, <2>5 DEF WorkerSound, Covers, TenantScopeMatches
  <2> QED BY <2>1, <2>6 DEF WorkerSound
<1>7. \A v \in Workers \ {w} : /\ Same(workers[v], workers'[v])
                               /\ workers'[v].shut => \E k \in Keys : keys'[k].status = "active"
  BY <1>3, <1>4
<1> QED BY <1>5, <1>6, <1>7, StepKeeps

\* Being let in as an administrator takes a grant that says so.
LEMMA AdminEntitled ==
  ASSUME CredentialInv, NEW w \in Workers, workers[w].pc \in {"admitted", "rotating"},
         AllowsAdmin(workers[w].who)
  PROVE  Entitled(workers[w], "admin")
<1> SUFFICES ASSUME workers[w].via = "credential"
             PROVE  \E g \in granted : "admin" \in g.scopes
  BY TenantAssumption DEF Entitled
<1>1. PICK g \in granted : workers[w].who.scopes \subseteq g.scopes \union ({g.tenant} \ {None})
  BY DEF CredentialInv, WorkerSound, Within
<1>2. g \in Authority BY DEF CredentialInv, TypeOK
<1>3. g.tenant # None => g.tenant # "admin" BY <1>2, TenantAssumption DEF Authority
<1> QED BY <1>1, <1>3 DEF AllowsAdmin

\* A tenant is served on a grant that covers it.
LEMMA RuntimeEntitled ==
  ASSUME CredentialInv, NEW w \in Workers, workers[w].pc = "admitted", NEW t \in Tenants,
         Bound(workers[w].who, t)
  PROVE  Entitled(workers[w], t)
<1> SUFFICES ASSUME workers[w].via = "credential"
             PROVE  \E g \in granted : Covers(g, t)
  BY TenantAssumption DEF Entitled
<1>1. PICK g \in granted : /\ workers[w].who.tenant = g.tenant
                           /\ workers[w].who.scopes \subseteq g.scopes \union ({g.tenant} \ {None})
  BY DEF CredentialInv, WorkerSound, Within
<1> QED BY <1>1 DEF Bound, Covers, TenantScopeMatches

\* The steps of an admitted request that write no row.
LEMMA RuntimeKeeps ==
  ASSUME CredentialInv, NEW w \in Workers, NEW t \in Tenants, Runtime(w, t)
  PROVE  CredentialInv'
<1>1. Quiet /\ workers[w].pc = "admitted" BY DEF Runtime, Caller
<1>2. CASE workers' = Done(w, t) /\ Bound(workers[w].who, t)
  <2>1. PICK y : y = Done(w, t)[w] OBVIOUS
  <2>2. TypeOK BY DEF CredentialInv
  <2>3. /\ y \in Worker /\ y.pc = "done" /\ y.ended = workers[w].ended /\ y.shut = workers[w].shut
        /\ y.via = workers[w].via /\ y.act = t
    BY <2>1, <2>2, DoneRecord
  <2>4. workers' = [workers EXCEPT ![w] = y] BY <1>2, <2>1, <2>2 DEF Done, TypeOK
  <2>5. Entitled(workers[w], t) BY <1>1, <1>2, RuntimeEntitled
  <2>6. WorkerSound(workers[w]) BY DEF CredentialInv
  <2>7. WorkerSound(y) BY <1>1, <2>3, <2>5, <2>6 DEF WorkerSound, Entitled
  <2> QED BY <1>1, <2>3, <2>4, <2>7, QuietKeeps
<1>3. CASE Refuse(w) BY <1>1, <1>3, RefuseKeeps
<1> QED BY <1>2, <1>3 DEF Runtime

\* rotate(), the read of the old key
LEMMA RotateReadKeeps ==
  ASSUME CredentialInv, NEW w \in Workers, NEW k \in Keys, RotateRead(w, k)
  PROVE  CredentialInv'
<1> DEFINE x == workers[w]
<1>1. /\ x \in Worker /\ WorkerSound(x) /\ x.pc = "admitted" /\ AllowsAdmin(x.who) /\ Quiet
      /\ keys[k] \in Row /\ keys[k].status # "none"
  BY WorkerFields DEF CredentialInv, TypeOK, RotateRead, Administers, Caller
<1>2. keys[k].who \in granted /\ keys[k].who \in Authority
  BY <1>1 DEF CredentialInv, RowsGranted, Row
<1>3. PICK y : y = [x EXCEPT !.pc = "rotating", !.old = keys[k].who] OBVIOUS
<1>4. /\ y \in Worker /\ y.pc = "rotating" /\ y.via = x.via /\ y.cred = x.cred /\ y.shut = x.shut
      /\ y.ended = x.ended /\ y.who = x.who /\ y.old = keys[k].who
  BY <1>1, <1>2, <1>3 DEF Worker
<1>5. WorkerSound(y) BY <1>1, <1>2, <1>4 DEF WorkerSound
<1>6. workers' = [workers EXCEPT ![w] = y] BY <1>3 DEF RotateRead
<1> QED BY <1>1, <1>4, <1>5, <1>6, QuietKeeps

\* A row as issue() writes it.
LEMMA NewRowType ==
  ASSUME NEW g \in Authority, NEW exp \in Nat \union {None}
  PROVE  /\ NewRow(g, exp) \in Row
         /\ NewRow(g, exp).who = g /\ NewRow(g, exp).status = "active"
BY DEF NewRow, Row

\* Nothing is taken back by what leaves a table alone.
LEMMA ForwardRefl ==
  ASSUME NEW row \in Row
  PROVE  Forward(row, row)
BY DEF Forward, Row

\* More grants never make anybody exceed them.
LEMMA WithinGrows ==
  ASSUME granted \subseteq granted', NEW who, Within(who)
  PROVE  Within(who)'
BY DEF Within

\* A new API key, issued or rotated.
LEMMA NewKeyKeeps ==
  ASSUME CredentialInv, NEW w \in Workers, workers[w].pc \in {"admitted", "rotating"},
         AllowsAdmin(workers[w].who),
         NEW k \in Keys, keys[k].status = "none", NEW g \in Authority, NEW exp \in Nat \union {None},
         keys' = [keys EXCEPT ![k] = NewRow(g, exp)],
         granted \subseteq granted', granted' \subseteq Authority, g \in granted',
         workers' = Done(w, "admin"), UNCHANGED <<now, settings, clients, tokens>>
  PROVE  CredentialInv'
<1>1. TypeOK /\ RowsGranted BY DEF CredentialInv
<1>2. PICK new : new = NewRow(g, exp) OBVIOUS
<1>3. new \in Row /\ new.who = g /\ new.status = "active" BY <1>2, NewRowType
<1>4. keys' \in [Keys -> Row] /\ keys'[k] = new /\ \A j \in Keys \ {k} : keys'[j] = keys[j]
  BY <1>1, <1>2, <1>3 DEF TypeOK
<1>5. Progress
  <2>1. \A j \in Keys : Forward(keys[j], keys'[j])
    <3>1. Forward(keys[k], keys'[k]) BY DEF Forward
    <3>2. \A j \in Keys \ {k} : Forward(keys[j], keys'[j]) BY <1>1, <1>4, ForwardRefl DEF TypeOK
    <3> QED BY <3>1, <3>2
  <2>2. \A c \in Clients : Forward(clients[c], clients'[c]) BY <1>1, ForwardRefl DEF TypeOK
  <2> QED BY <1>1, <2>1, <2>2 DEF Progress, TypeOK
<1>6. RowsGranted'
  <2>1. \A t \in tokens : Within(t.who)' BY <1>1, WithinGrows DEF RowsGranted
  <2> QED BY <1>1, <1>3, <1>4, <2>1 DEF RowsGranted
<1>7. \A j \in Keys : keys[j].status = "active" => keys'[j].status = "active" BY <1>4
<1>8. Entitled(workers[w], "admin") BY AdminEntitled
<1> QED BY <1>1, <1>4, <1>5, <1>6, <1>7, <1>8, DoneKeeps DEF TypeOK

\* create_api_key
LEMMA IssueKeyKeeps ==
  ASSUME CredentialInv, NEW w \in Workers, NEW k \in Keys, NEW g \in Grants, NEW exp \in Deadlines,
         IssueKey(w, k, g, exp)
  PROVE  CredentialInv'
<1>1. g \in Authority /\ exp \in Nat \union {None} BY GrantAssumption, TimeAssumption
<1>2. workers[w].pc \in {"admitted", "rotating"} /\ AllowsAdmin(workers[w].who)
  BY DEF IssueKey, Administers, Caller
<1>3. granted \subseteq granted' /\ granted' \subseteq Authority /\ g \in granted'
  BY <1>1 DEF IssueKey, CredentialInv, TypeOK
<1> QED BY <1>1, <1>2, <1>3, NewKeyKeeps DEF IssueKey

\* rotate(), the new key
LEMMA RotateIssueKeeps ==
  ASSUME CredentialInv, NEW w \in Workers, NEW k \in Keys, RotateIssue(w, k)
  PROVE  CredentialInv'
<1>1. workers[w].pc = "rotating" /\ WorkerSound(workers[w]) BY DEF RotateIssue, CredentialInv
<1>2. PICK g : g = workers[w].old OBVIOUS
<1>3. AllowsAdmin(workers[w].who) /\ g \in granted BY <1>1, <1>2 DEF WorkerSound
<1>4. granted \subseteq granted' /\ granted' \subseteq Authority /\ g \in granted' /\ g \in Authority
  BY <1>3 DEF RotateIssue, CredentialInv, TypeOK
<1>5. keys[k].status = "none" /\ keys' = [keys EXCEPT ![k] = NewRow(g, None)]
  BY <1>2 DEF RotateIssue
<1> QED BY <1>1, <1>3, <1>4, <1>5, NewKeyKeeps DEF RotateIssue

\* revoke_api_key
LEMMA RevokeKeyKeeps ==
  ASSUME CredentialInv, NEW w \in Workers, NEW k \in Keys, RevokeKey(w, k)
  PROVE  CredentialInv'
<1>1. TypeOK /\ RowsGranted BY DEF CredentialInv
<1>2. workers[w].pc \in {"admitted", "rotating"} /\ AllowsAdmin(workers[w].who)
  BY DEF RevokeKey, Administers, Caller
<1>3. PICK new : new = [keys[k] EXCEPT !.status = "revoked"] OBVIOUS
<1>4. keys[k] \in Row BY <1>1 DEF TypeOK
<1>5. /\ new \in Row /\ new.who = keys[k].who /\ new.status = "revoked" /\ Forward(keys[k], new)
  BY <1>3, <1>4 DEF Row, Forward
<1>6. keys' \in [Keys -> Row] /\ keys'[k] = new /\ \A j \in Keys \ {k} : keys'[j] = keys[j]
  BY <1>1, <1>3, <1>5 DEF TypeOK, RevokeKey
<1>7. Progress
  <2>1. \A j \in Keys : Forward(keys[j], keys'[j]) BY <1>1, <1>5, <1>6, ForwardRefl DEF TypeOK
  <2>2. \A c \in Clients : Forward(clients[c], clients'[c])
    BY <1>1, ForwardRefl DEF TypeOK, RevokeKey
  <2> QED BY <1>1, <2>1, <2>2 DEF Progress, TypeOK, RevokeKey
<1>8. RowsGranted'
  BY <1>1, <1>5, <1>6 DEF RowsGranted, RevokeKey, Within
<1>9. Entitled(workers[w], "admin") BY <1>2, AdminEntitled
<1> QED BY <1>1, <1>2, <1>6, <1>7, <1>8, <1>9, DoneKeeps DEF TypeOK, RevokeKey

\* issue, rotate_secret and revoke of OAuthClientService, whoever calls them
LEMMA ClientWriteSound ==
  ASSUME CredentialInv, NEW c \in Clients,
         (\E g \in Grants, exp \in Deadlines \union {None} : Issue(c, g, exp)) \/ RotateSecret(c) \/ Revoke(c),
         UNCHANGED <<now, settings, keys, tokens>>
  PROVE  /\ Progress /\ RowsGranted'
         /\ clients' \in [Clients -> Row] /\ granted' \subseteq Authority
<1>1. TypeOK /\ RowsGranted BY DEF CredentialInv
<1>2. clients[c] \in Row BY <1>1 DEF TypeOK
<1>3. PICK new \in Row : /\ clients' = [clients EXCEPT ![c] = new]
                         /\ Forward(clients[c], new)
                         /\ granted \subseteq granted' /\ granted' \subseteq Authority
                         /\ new.who \in granted'
  <2>1. CASE \E g \in Grants, exp \in Deadlines \union {None} : Issue(c, g, exp)
    <3>1. PICK g \in Grants, exp \in Deadlines \union {None} : Issue(c, g, exp) BY <2>1
    <3>2. g \in Authority /\ exp \in Nat \union {None} BY GrantAssumption, TimeAssumption
    <3>3. PICK new : new = NewRow(g, exp) OBVIOUS
    <3>4. new \in Row /\ new.who = g BY <3>2, <3>3, NewRowType
    <3>5. clients' = [clients EXCEPT ![c] = new] /\ Forward(clients[c], new)
      BY <3>1, <3>3 DEF Issue, Forward
    <3>6. granted' = granted \union {g} BY <3>1 DEF Issue
    <3> QED BY <1>1, <3>2, <3>4, <3>5, <3>6 DEF TypeOK
  <2>2. CASE RotateSecret(c)
    <3>1. PICK new : new = [clients[c] EXCEPT !.secret = clients[c].secret + 1] OBVIOUS
    <3>2. /\ new \in Row /\ new.who = clients[c].who /\ Forward(clients[c], new)
      BY <1>2, <3>1 DEF Row, Forward
    <3>3. clients' = [clients EXCEPT ![c] = new] BY <2>2, <3>1 DEF RotateSecret
    <3>4. clients[c].who \in granted BY <1>1, <2>2 DEF RotateSecret, RowsGranted
    <3> QED BY <1>1, <2>2, <3>2, <3>3, <3>4 DEF RotateSecret, TypeOK
  <2>3. CASE Revoke(c)
    <3>1. PICK new : new = [clients[c] EXCEPT !.status = "revoked"] OBVIOUS
    <3>2. /\ new \in Row /\ new.who = clients[c].who /\ Forward(clients[c], new)
      BY <1>2, <3>1 DEF Row, Forward
    <3>3. clients' = [clients EXCEPT ![c] = new] BY <2>3, <3>1 DEF Revoke
    <3>4. clients[c].who \in granted BY <1>1, <2>3 DEF Revoke, RowsGranted
    <3> QED BY <1>1, <2>3, <3>2, <3>3, <3>4 DEF Revoke, TypeOK
  <2> QED BY <2>1, <2>2, <2>3
<1>4. clients' \in [Clients -> Row] /\ clients'[c] = new /\ \A d \in Clients \ {c} : clients'[d] = clients[d]
  BY <1>1, <1>3 DEF TypeOK
<1>5. Progress
  <2>1. \A k \in Keys : Forward(keys[k], keys'[k]) BY <1>1, ForwardRefl DEF TypeOK
  <2>2. \A d \in Clients : Forward(clients[d], clients'[d])
    BY <1>1, <1>3, <1>4, ForwardRefl DEF TypeOK
  <2> QED BY <1>1, <1>3, <2>1, <2>2 DEF Progress, TypeOK
<1>6. RowsGranted'
  <2>1. \A t \in tokens : Within(t.who)' BY <1>1, <1>3, WithinGrows DEF RowsGranted
  <2> QED BY <1>1, <1>3, <1>4, <2>1 DEF RowsGranted
<1> QED BY <1>3, <1>4, <1>5, <1>6

\* The same over HTTP, by an administrator
LEMMA AdminClientKeeps ==
  ASSUME CredentialInv, NEW w \in Workers, NEW c \in Clients, AdminClient(w, c)
  PROVE  CredentialInv'
<1>1. TypeOK BY DEF CredentialInv
<1>2. workers[w].pc \in {"admitted", "rotating"} /\ AllowsAdmin(workers[w].who)
  BY DEF AdminClient, Administers, Caller
<1>3. Entitled(workers[w], "admin") BY <1>2, AdminEntitled
<1>4. UNCHANGED <<now, settings, keys, tokens>> /\ workers' = Done(w, "admin") BY DEF AdminClient
<1>5. (\E g \in Grants, exp \in Deadlines \union {None} : Issue(c, g, exp)) \/ RotateSecret(c) \/ Revoke(c)
  BY DEF AdminClient, ClientWrite
<1>6. /\ Progress /\ RowsGranted' /\ clients' \in [Clients -> Row] /\ granted' \subseteq Authority
  BY <1>4, <1>5, ClientWriteSound
<1> QED BY <1>1, <1>2, <1>3, <1>4, <1>6, DoneKeeps DEF TypeOK

\* and at the command line
LEMMA CliClientKeeps ==
  ASSUME CredentialInv, NEW c \in Clients, CliClient(c)
  PROVE  CredentialInv'
<1>1. TypeOK BY DEF CredentialInv
<1>2. UNCHANGED <<now, settings, keys, tokens>> /\ workers' = workers BY DEF CliClient
<1>3. (\E g \in Grants, exp \in Deadlines \union {None} : Issue(c, g, exp)) \/ RotateSecret(c) \/ Revoke(c)
  BY DEF CliClient
<1>4. /\ Progress /\ RowsGranted' /\ clients' \in [Clients -> Row] /\ granted' \subseteq Authority
  BY <1>2, <1>3, ClientWriteSound
<1>5. TypeOK' BY <1>1, <1>2, <1>4 DEF TypeOK
<1>6. ASSUME NEW w \in Workers PROVE WorkerSound(workers[w])'
  <2>1. PICK x : x = workers[w] OBVIOUS
  <2>2. x \in Worker /\ WorkerSound(x) BY <1>1, <2>1 DEF CredentialInv, TypeOK
  <2>3. x.shut => \E k \in Keys : keys'[k].status = "active" BY <1>2, <2>2 DEF WorkerSound
  <2>4. WorkerSound(x)' BY <1>1, <1>4, <1>5, <2>2, <2>3, OthersKept DEF Same
  <2> QED BY <1>2, <2>1, <2>4 DEF WorkerSound
<1> QED BY <1>4, <1>5, <1>6 DEF CredentialInv

\* The clock: deadlines only pass.
LEMMA TickKeeps ==
  ASSUME CredentialInv, Tick
  PROVE  CredentialInv'
<1>1. TypeOK /\ RowsGranted BY DEF CredentialInv
<1>2. /\ now' = now + 1 /\ now \in Nat
      /\ UNCHANGED <<settings, keys, clients, tokens, workers, granted>>
  BY <1>1 DEF Tick, TypeOK
<1>3. TypeOK' BY <1>1, <1>2 DEF TypeOK
<1>4. RowsGranted' BY <1>1, <1>2 DEF RowsGranted, Within
<1>5. Progress
  <2>1. \A k \in Keys : Forward(keys[k], keys'[k]) BY <1>1, <1>2, ForwardRefl DEF TypeOK
  <2>2. \A c \in Clients : Forward(clients[c], clients'[c]) BY <1>1, <1>2, ForwardRefl DEF TypeOK
  <2> QED BY <1>2, <2>1, <2>2 DEF Progress
<1>6. ASSUME NEW w \in Workers PROVE WorkerSound(workers[w])'
  <2>1. PICK x : x = workers[w] OBVIOUS
  <2>2. x \in Worker /\ WorkerSound(x) BY <1>1, <2>1 DEF CredentialInv, TypeOK
  <2>3. x.shut => \E k \in Keys : keys'[k].status = "active" BY <1>2, <2>2 DEF WorkerSound
  <2>4. WorkerSound(x)' BY <1>1, <1>3, <1>5, <2>2, <2>3, OthersKept DEF Same
  <2> QED BY <1>2, <2>1, <2>4 DEF WorkerSound
<1> QED BY <1>3, <1>4, <1>6 DEF CredentialInv

\* The claims of a token add nothing to what the client was granted.
LEMMA ClaimsWithin ==
  ASSUME now \in Nat, NEW who \in Authority, Within(who), NEW scope \in SUBSET Scopes,
         ~ InvalidScope(scope, who)
  PROVE  Claims(scope, who) \in Token /\ Within(Claims(scope, who).who)
<1>1. PICK asked : asked = ParseScopeRequest(scope, who.scopes) OBVIOUS
<1>2. asked \subseteq who.scopes /\ who.scopes \subseteq Scopes /\ who.tenant \in Tenants \union {None}
  BY <1>1 DEF InvalidScope, ParseScopeRequest, Authority
<1>3. PICK a : a = [scopes |-> asked \union ({who.tenant} \ {None}), tenant |-> who.tenant] OBVIOUS
<1>4. a \in Authority /\ a.tenant = who.tenant /\ a.scopes = asked \union ({who.tenant} \ {None})
  BY <1>2, <1>3 DEF Authority, Scopes
<1>5. Claims(scope, who) = [who |-> a, exp |-> now + TokenTtl] BY <1>1, <1>3 DEF Claims
<1>6. now + TokenTtl \in Nat BY TimeAssumption
<1>7. Within(a) BY <1>2, <1>4 DEF Within
<1> QED BY <1>4, <1>5, <1>6, <1>7 DEF Token

\* token_endpoint
LEMMA IssueTokenKeeps ==
  ASSUME CredentialInv, NEW w \in Workers, NEW scope \in SUBSET Scopes, IssueToken(w, scope)
  PROVE  CredentialInv'
<1>1. TypeOK /\ RowsGranted /\ WorkerSound(workers[w]) BY DEF CredentialInv
<1>2. workers[w].pc = "admitted" /\ workers[w].cred.kind = "secret" BY DEF IssueToken
<1>3. PICK who : who = workers[w].who OBVIOUS
<1>4. who \in Authority BY <1>1, <1>3, WorkerFields
<1>5. CASE InvalidScope(scope, who)
  BY <1>3, <1>5, RefuseKeeps DEF IssueToken, Quiet
<1>6. CASE ~ InvalidScope(scope, who)
  <2>1. Within(who) BY <1>1, <1>2, <1>3 DEF WorkerSound
  <2>2. PICK new : new = Claims(scope, who) OBVIOUS
  <2>3. new \in Token /\ Within(new.who) BY <1>1, <1>4, <1>6, <2>1, <2>2, ClaimsWithin DEF TypeOK
  <2>4. /\ tokens' = tokens \union {new} /\ workers' = Done(w, "token")
        /\ UNCHANGED <<now, settings, keys, clients, granted>>
    BY <1>3, <1>6, <2>2 DEF IssueToken
  <2>5. Progress
    <3>1. \A k \in Keys : Forward(keys[k], keys'[k]) BY <1>1, <2>4, ForwardRefl DEF TypeOK
    <3>2. \A c \in Clients : Forward(clients[c], clients'[c]) BY <1>1, <2>4, ForwardRefl DEF TypeOK
    <3> QED BY <1>1, <2>4, <3>1, <3>2 DEF Progress, TypeOK
  <2>6. RowsGranted' BY <1>1, <2>3, <2>4 DEF RowsGranted, Within
  <2>7. Entitled(workers[w], "token") BY TenantAssumption DEF Entitled
  <2>8. now' \in Nat /\ keys' \in [Keys -> Row] /\ clients' \in [Clients -> Row] /\ tokens' \subseteq Token
        /\ granted' \subseteq Authority
        /\ \A k \in Keys : keys[k].status = "active" => keys'[k].status = "active"
    BY <1>1, <2>3, <2>4 DEF TypeOK
  <2> QED BY <1>2, <2>4, <2>5, <2>6, <2>7, <2>8, DoneKeeps
<1> QED BY <1>5, <1>6

\* What callers present are credentials.
LEMMA PresentedType ==
  ASSUME TypeOK
  PROVE  Presented \subseteq Credential
<1>1. tokens \subseteq Token BY DEF TypeOK
<1>2. 0 .. MaxSecrets \subseteq Nat BY TimeAssumption
<1> QED BY <1>1, <1>2 DEF Presented, Credential

\* The strengthened invariant holds of every behaviour, for any number of keys,
\* clients, tenants, requests at a time, secrets and tokens.
THEOREM CredentialInvCorrect == Spec => []CredentialInv
<1>1. ASSUME Init PROVE CredentialInv
  <2>1. NoRow \in Row /\ NoRow.status = "none"
    BY DEF NoRow, Row, Nobody, Authority
  <2>2. Idle \in Worker /\ WorkerSound(Idle) BY IdleSound, TenantAssumption
  <2>3. TypeOK BY <1>1, <2>1, <2>2 DEF Init, TypeOK
  <2>4. RowsGranted BY <1>1, <2>1 DEF Init, RowsGranted
  <2> QED BY <1>1, <2>2, <2>3, <2>4 DEF Init, CredentialInv
<1>2. ASSUME CredentialInv, [Next]_vars PROVE CredentialInv'
  <2>1. CASE Tick BY <1>2, <2>1, TickKeeps
  <2>2. ASSUME NEW w \in Workers, Lookup(w) PROVE CredentialInv'
    <3>1. CASE Enter(w) BY <1>2, <3>1, EnterKeeps
    <3>2. CASE FindKey(w) \/ Authenticate(w) BY <1>2, <3>2, RowLookupKeeps
    <3>3. CASE FindCommit(w) BY <1>2, <3>3, FindCommitKeeps
    <3>4. CASE ResolveToken(w) BY <1>2, <3>4, ResolveTokenKeeps
    <3>5. CASE Fail(w) BY <1>2, <3>5, RefuseKeeps DEF Fail
    <3> QED BY <2>2, <3>1, <3>2, <3>3, <3>4, <3>5 DEF Lookup
  <2>3. ASSUME NEW w \in Workers, Operate(w) PROVE CredentialInv'
    <3>1. CASE \E t \in Tenants : Runtime(w, t) BY <1>2, <3>1, RuntimeKeeps
    <3>2. CASE Denied(w) BY <1>2, <3>2, RefuseKeeps DEF Denied
    <3>3. CASE \E k \in Keys, g \in Grants, exp \in Deadlines : IssueKey(w, k, g, exp)
      BY <1>2, <3>3, IssueKeyKeeps
    <3>4. CASE \E k \in Keys : RotateRead(w, k) \/ RotateIssue(w, k) \/ RevokeKey(w, k)
      BY <1>2, <3>4, RotateReadKeeps, RotateIssueKeeps, RevokeKeyKeeps
    <3>5. CASE \E c \in Clients : AdminClient(w, c) BY <1>2, <3>5, AdminClientKeeps
    <3>6. CASE \E scope \in SUBSET Scopes : IssueToken(w, scope) BY <1>2, <3>6, IssueTokenKeeps
    <3> QED BY <2>3, <3>1, <3>2, <3>3, <3>4, <3>5, <3>6 DEF Operate
  <2>4. ASSUME NEW w \in Workers, NEW cred \in Presented, Begin(w, cred) PROVE CredentialInv'
    BY <1>2, <2>4, BeginKeeps, PresentedType DEF CredentialInv
  <2>5. ASSUME NEW c \in Clients, CliClient(c) PROVE CredentialInv'
    BY <1>2, <2>5, CliClientKeeps
  <2>6. CASE UNCHANGED vars
    BY <1>2, <2>6 DEF vars, CredentialInv, TypeOK, RowsGranted, Within, WorkerSound, Held, Over,
                      Usable, Lapsed, TokenLapsed
  <2> QED BY <1>2, <2>1, <2>2, <2>3, <2>4, <2>5, <2>6 DEF Next
<1> QED BY <1>1, <1>2, PTL DEF Spec

\* A credential that is over when a request comes in does not let it in.
THEOREM EndedCredentialsOpenNothing == Spec => []EndedOpensNothing
<1>1. CredentialInv => EndedOpensNothing
  BY DEF CredentialInv, WorkerSound, EndedOpensNothing, In
<1> QED BY <1>1, CredentialInvCorrect, PTL

\* The dev bypass admits nobody while there is an active key.
THEOREM BypassGivesWay == Spec => []BypassYields
<1>1. CredentialInv => BypassYields
  BY DEF CredentialInv, WorkerSound, BypassYields
<1> QED BY <1>1, CredentialInvCorrect, PTL

\* Nobody is served beyond what an administrator wrote down.
THEOREM AuthorityIsGranted == Spec => []WithinGrant
<1>1. CredentialInv => WithinGrant
  BY DEF CredentialInv, WorkerSound, WithinGrant
<1> QED BY <1>1, CredentialInvCorrect, PTL

\* What RevokedForGood says of one step.
Final ==
  /\ \A k \in Keys : keys[k].status = "revoked" => keys'[k].status = "revoked"
  /\ \A c \in Clients : /\ clients[c].status = "revoked" => clients'[c].status = "revoked"
                        /\ clients[c].status # "none" => clients'[c].secret >= clients[c].secret

\* Writes to the keys: a new row, or a status that becomes "revoked".
LEMMA KeyWritesFinal ==
  ASSUME TypeOK, NEW k \in Keys, UNCHANGED clients,
         \/ keys[k].status = "none" /\ \E row : keys' = [keys EXCEPT ![k] = row]
         \/ keys' = [keys EXCEPT ![k].status = "revoked"]
         \/ keys' = keys
  PROVE  Final
<1>1. \A c \in Clients : clients[c].secret \in Nat BY DEF TypeOK, Row
<1>2. \A c \in Clients : clients'[c].secret >= clients[c].secret BY <1>1
<1>3. \A j \in Keys : keys[j].status = "revoked" => keys'[j].status = "revoked"
  <2>1. CASE keys[k].status = "none" /\ \E row : keys' = [keys EXCEPT ![k] = row]
    BY <2>1 DEF TypeOK
  <2>2. CASE keys' = [keys EXCEPT ![k].status = "revoked"] BY <2>2 DEF TypeOK, Row
  <2>3. CASE keys' = keys BY <2>3
  <2> QED BY <2>1, <2>2, <2>3
<1> QED BY <1>2, <1>3 DEF Final

\* Writes to the clients: likewise, and secrets are only replaced.
LEMMA ClientWritesFinal ==
  ASSUME CredentialInv, NEW c \in Clients, UNCHANGED <<now, settings, keys, tokens>>,
         (\E g \in Grants, exp \in Deadlines \union {None} : Issue(c, g, exp)) \/ RotateSecret(c) \/ Revoke(c)
  PROVE  Final
<1>1. Progress BY ClientWriteSound
<1>2. \A d \in Clients : Forward(clients[d], clients'[d]) BY <1>1 DEF Progress
<1> QED BY <1>2 DEF Forward, Final

\* Revocations and rotations of secrets are never undone.
THEOREM RevocationsAreFinal == Spec => RevokedForGood
<1>1. ASSUME CredentialInv, [Next]_vars PROVE Final \/ UNCHANGED vars
  <2>1. TypeOK BY <1>1 DEF CredentialInv
  <2>2. ASSUME keys' = keys, clients' = clients PROVE Final
    <3>1. \A c \in Clients : clients[c].secret \in Nat BY <2>1 DEF TypeOK, Row
    <3> QED BY <2>2, <3>1 DEF Final
  <2>3. ASSUME NEW w \in Workers, Operate(w) PROVE Final
    <3>1. CASE \E k \in Keys, g \in Grants, exp \in Deadlines : IssueKey(w, k, g, exp)
      BY <2>1, <3>1, KeyWritesFinal DEF IssueKey
    <3>2. CASE \E k \in Keys : RotateIssue(w, k)
      BY <2>1, <3>2, KeyWritesFinal DEF RotateIssue
    <3>3. CASE \E k \in Keys : RevokeKey(w, k)
      BY <2>1, <3>3, KeyWritesFinal DEF RevokeKey
    <3>4. CASE \E c \in Clients : AdminClient(w, c)
      BY <1>1, <3>4, ClientWritesFinal DEF AdminClient, ClientWrite
    <3>5. CASE \/ \E t \in Tenants : Runtime(w, t)
               \/ Denied(w)
               \/ \E k \in Keys : RotateRead(w, k)
               \/ \E scope \in SUBSET Scopes : IssueToken(w, scope)
      <4>1. keys' = keys /\ clients' = clients BY <3>5 DEF Runtime, Denied, RotateRead, IssueToken, Quiet
      <4> QED BY <2>2, <4>1
    <3> QED BY <2>3, <3>1, <3>2, <3>3, <3>4, <3>5 DEF Operate
  <2>4. ASSUME NEW w \in Workers, Lookup(w) PROVE Final
    <3>1. keys' = keys /\ clients' = clients
      BY <2>4 DEF Lookup, Enter, FindKey, Authenticate, FindCommit, ResolveToken, Fail, Quiet
    <3> QED BY <2>2, <3>1
  <2>5. ASSUME NEW w \in Workers, NEW cred \in Presented, Begin(w, cred) PROVE Final
    <3>1. keys' = keys /\ clients' = clients BY <2>5 DEF Begin
    <3> QED BY <2>2, <3>1
  <2>6. ASSUME NEW c \in Clients, CliClient(c) PROVE Final
    BY <1>1, <2>6, ClientWritesFinal DEF CliClient
  <2>7. CASE Tick BY <2>2, <2>7 DEF Tick
  <2> QED BY <1>1, <2>3, <2>4, <2>5, <2>6, <2>7 DEF Next
<1>2. ASSUME CredentialInv, [Next]_vars
      PROVE  [/\ \A k \in Keys : keys[k].status = "revoked" => keys'[k].status = "revoked"
              /\ \A c \in Clients :
                   /\ clients[c].status = "revoked" => clients'[c].status = "revoked"
                   /\ clients[c].status # "none" => clients'[c].secret >= clients[c].secret]_vars
  BY <1>1, <1>2 DEF Final
<1> QED BY <1>2, CredentialInvCorrect, PTL DEF Spec, RevokedForGood
=============================================================================
