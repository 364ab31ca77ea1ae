-------------------------- MODULE DelegationsProofs --------------------------
(***************************************************************************)
(* Proofs about Delegations for any number of grants, calls, keys, users   *)
(* and agents, any lifetimes and any leeway: the inductive invariant, and  *)
(* the step-by-step simulation of GrantContract.                           *)
(***************************************************************************)
EXTENDS Delegations, TLAPS

USE KeysAssumption, TimesAssumption

\* The history only grows, and holds what is true now of a request under way.
LEMMA SeenGrows ==
  ASSUME TypeOK, Observe
  PROVE  /\ seen' = [c \in Creates |-> seen'[c]]
         /\ \A c \in Creates : seen[c] \subseteq seen'[c]
         /\ \A c \in Creates : creates'[c].pc \in Running => Facts' \subseteq seen'[c]
  BY DEF TypeOK, Observe

\* What a SELECT finds is a fact of that moment.
LEMMA ReadIsFact ==
  ASSUME access \in Access
  PROVE  /\ \A x \in Switches : access.status[x] = "active" => <<"on", x>> \in Facts
         /\ \A s \in Subjects : \A r \in access.linked[s] : <<"linked", s, r>> \in Facts
         /\ \A r \in Roles : <<"stands", r, access.stands[r]>> \in Facts
         /\ \A r \in Roles : \A p \in access.carried[r] : <<"carries", r, p>> \in Facts
         /\ \A p \in access.unmasked : <<"unmasked", p>> \in Facts
<1>0. /\ access.linked \in [Subjects -> SUBSET Roles] /\ access.stands \in [Roles -> Roles]
      /\ access.carried \in [Roles -> SUBSET Perms]
  BY DEF Access
<1>1. \A x \in Switches : access.status[x] = "active" => <<"on", x>> \in Facts
  BY DEF Facts
<1>2. ASSUME NEW s \in Subjects, NEW r \in access.linked[s] PROVE <<"linked", s, r>> \in Facts
  BY <1>0 DEF Facts
<1>3. ASSUME NEW r \in Roles PROVE <<"stands", r, access.stands[r]>> \in Facts
  BY <1>0 DEF Facts
<1>4. ASSUME NEW r \in Roles, NEW p \in access.carried[r] PROVE <<"carries", r, p>> \in Facts
  BY <1>0 DEF Facts
<1>5. \A p \in access.unmasked : <<"unmasked", p>> \in Facts
  BY DEF Facts
<1> QED BY <1>1, <1>2, <1>3, <1>4, <1>5

\* What warranted a permission keeps warranting it as the history grows.
LEMMA WarrantsLast ==
  ASSUME NEW facts, NEW more, facts \subseteq more
  PROVE  /\ \A r : BothOn(facts, r) => BothOn(more, r)
         /\ \A s, p : GrantedTo(facts, s, p) => GrantedTo(more, s, p)
         /\ \A r, p : Warranted(facts, r, p) => Warranted(more, r, p)
         /\ \A r : Checked(r, facts) => Checked(r, more)
<1>1. \A r : BothOn(facts, r) => BothOn(more, r)
  BY DEF BothOn
<1>2. \A s, p : GrantedTo(facts, s, p) => GrantedTo(more, s, p)
  BY DEF GrantedTo
<1>3. \A r, p : Warranted(facts, r, p) => Warranted(more, r, p)
  BY <1>2 DEF Warranted
<1>4. ASSUME NEW r, Checked(r, facts) PROVE Checked(r, more)
  BY <1>1, <1>2, <1>3, <1>4 DEF Checked
<1> QED BY <1>1, <1>2, <1>3, <1>4

\* Administrative writes leave tables of their type and touch nothing else.
LEMMA AdministrationWrites ==
  ASSUME TypeOK, Administration
  PROVE  /\ access' \in Access /\ writes' \in Nat
         /\ UNCHANGED <<now, keys, grants, creates, calls>>
<1> USE DEF TypeOK
<1>1. ASSUME NEW a \in Access, Write(a)
      PROVE  /\ access' \in Access /\ writes' \in Nat
             /\ UNCHANGED <<now, keys, grants, creates, calls>>
  BY <1>1 DEF Write
<1>2. ASSUME NEW x \in Switches, NEW st \in Statuses, SetStatus(x, st)
      PROVE  \E a \in Access : Write(a)
  <2>1. [access EXCEPT !.status[x] = st] \in Access
    BY DEF Access
  <2> QED BY <1>2, <2>1 DEF SetStatus
<1>3. ASSUME NEW s \in Subjects, NEW rs \in SUBSET Roles, SetLinks(s, rs)
      PROVE  \E a \in Access : Write(a)
  <2>1. [access EXCEPT !.linked[s] = rs] \in Access
    BY DEF Access
  <2> QED BY <1>3, <2>1 DEF SetLinks
<1>4. ASSUME NEW r \in Roles, NEW ps \in SUBSET Perms, SetCarried(r, ps)
      PROVE  \E a \in Access : Write(a)
  <2>1. [access EXCEPT !.carried[r] = ps] \in Access
    BY DEF Access
  <2> QED BY <1>4, <2>1 DEF SetCarried
<1>5. ASSUME NEW r \in Defaults, NEW o \in Roles \ Defaults, AddOverride(r, o)
      PROVE  \E a \in Access : Write(a)
  <2>1. [access EXCEPT !.stands[r] = o] \in Access
    BY DEF Access
  <2> QED BY <1>5, <2>1 DEF AddOverride
<1>6. ASSUME NEW r \in Defaults, DropOverride(r)
      PROVE  \E a \in Access : Write(a)
  <2>1. PICK o : o = access.stands[r]
    OBVIOUS
  <2>2. PICK ls : ls = [s \in Subjects |-> IF o \in access.linked[s]
                                          THEN {r} \union (access.linked[s] \ {o})
                                          ELSE access.linked[s]]
    OBVIOUS
  <2>3. r \in Roles /\ ls \in [Subjects -> SUBSET Roles]
    BY <2>2, AccessAssumption DEF Access
  <2>4. Write([access EXCEPT !.stands[r] = r, !.carried[o] = {}, !.linked = ls])
    BY <1>6, <2>1, <2>2 DEF DropOverride
  <2>5. [access EXCEPT !.stands[r] = r, !.carried[o] = {}, !.linked = ls] \in Access
    BY <2>3 DEF Access
  <2> QED BY <2>4, <2>5
<1>7. ASSUME NEW ps \in SUBSET Perms, SetMask(ps)
      PROVE  \E a \in Access : Write(a)
  <2>1. [access EXCEPT !.unmasked = ps] \in Access
    BY DEF Access
  <2> QED BY <1>7, <2>1 DEF SetMask
<1> QED BY <1>1, <1>2, <1>3, <1>4, <1>5, <1>6, <1>7 DEF Administration

\* An unused service satisfies the inductive invariant.
LEMMA DelegationInvInit == Init => DelegationInv
<1> SUFFICES ASSUME Init PROVE DelegationInv
  OBVIOUS
<1>1. \A c \in Creates : creates[c] \in Request /\ creates[c].pc = "idle" /\ creates[c].perms = {}
  BY DEF Init, Request, Statuses, Running
<1>2. \A v \in Calls : /\ calls[v] \in Call /\ calls[v].pc = "idle" /\ calls[v].outcome = "none"
                       /\ calls[v].at = 0
  BY DEF Init, Call
<1>3. \A c \in Creates : grants[c].status = "absent"
  BY DEF Init, NoRow
<1>4. TypeOK
  BY <1>1, <1>2, AccessAssumption DEF Init, TypeOK
<1>5. ChecksSeen
  BY <1>1 DEF ChecksSeen, Checked, Resolving
<1>6. RowsSound /\ GrantsWarranted
  BY <1>1, <1>3 DEF RowsSound, GrantsWarranted
<1>7. CallsSound /\ RefusalsJustified
  BY <1>2 DEF Init, CallsSound, RefusalsJustified
<1> QED BY <1>4, <1>5, <1>6, <1>7 DEF DelegationInv

\* Switches, keys and the clock: no request, row or call changes, keys only
\* move forward and a grant that is over stays over.
LEMMA SurroundingsStep == DelegationInv /\ Surroundings /\ Observe => DelegationInv'
<1> SUFFICES ASSUME DelegationInv, Surroundings, Observe PROVE DelegationInv'
  OBVIOUS
<1> USE DEF DelegationInv
<1>1. /\ grants' = grants /\ creates' = creates /\ calls' = calls
      /\ now' \in Nat /\ now' >= now
      /\ access' \in Access /\ writes' \in Nat
      /\ keys' \in [Keys -> {"absent", "published", "withdrawn"}]
      /\ \A k \in Keys : /\ keys[k] # "absent" => keys'[k] # "absent"
                         /\ keys[k] = "withdrawn" => keys'[k] = "withdrawn"
  <2>1. CASE \E k \in Keys : PublishKey(k) \/ WithdrawKey(k)
    BY <2>1 DEF TypeOK, PublishKey, WithdrawKey
  <2>2. CASE Tick
    BY <2>2 DEF TypeOK, Tick
  <2>3. CASE Administration
    BY <2>3, AdministrationWrites DEF TypeOK
  <2> QED BY <2>1, <2>2, <2>3 DEF Surroundings
<1>2. TypeOK'
  BY <1>1, SeenGrows DEF TypeOK
<1>3. \A c \in Creates : seen[c] \subseteq seen'[c]
  BY SeenGrows
<1>4. RowsSound'
  BY <1>1 DEF RowsSound, Matches
<1>5. ChecksSeen' /\ GrantsWarranted'
  BY <1>1, <1>3, WarrantsLast DEF ChecksSeen, GrantsWarranted
<1>6. CallsSound'
  <2>1. \A v \in Calls : calls[v].at \in Nat
    BY DEF TypeOK, Call
  <2> QED BY <1>1, <2>1 DEF CallsSound, Token, TypeOK
<1>7. RefusalsJustified'
  <2> SUFFICES ASSUME NEW v \in Calls, calls'[v].outcome \in {"invalid", "expired", "revoked"}
               PROVE  ~ Standing(calls[v].grant)' \/ keys'[Token(v).kid] = "withdrawn"
    BY <1>1 DEF RefusalsJustified, Token
  <2>1. calls[v].grant \in Creates /\ calls[v].pc = "done"
    BY <1>1 DEF TypeOK, Call, CallsSound
  <2>2. Token(v).kid \in Keys /\ grants[calls[v].grant].status # "absent"
    BY <2>1 DEF CallsSound, RowsSound, Token
  <2>3. grants[calls[v].grant].exp \in Nat
    BY <2>1, <2>2 DEF TypeOK, Row, NoRow
  <2> QED BY <1>1, <2>1, <2>2, <2>3 DEF RefusalsJustified, Standing, TypeOK
<1> QED BY <1>2, <1>4, <1>5, <1>6, <1>7

\* Revocations change the status of rows and nothing else.
LEMMA RevocationStep == DelegationInv /\ Revocation /\ Observe => DelegationInv'
<1> SUFFICES ASSUME DelegationInv, Revocation, Observe PROVE DelegationInv'
  OBVIOUS
<1> USE DEF DelegationInv
<1>1. /\ creates' = creates /\ calls' = calls /\ now' = now /\ keys' = keys
      /\ access' = access /\ writes' = writes
  BY DEF Revocation, Revoke, RevokeMatching
<1>2. /\ grants' \in [Creates -> Row \union {NoRow}]
      /\ \A c \in Creates : \/ grants'[c] = grants[c]
                            \/ /\ grants[c] \in Row /\ grants'[c] \in Row
                               /\ grants'[c] = [grants[c] EXCEPT !.status = "revoked"]
  <2>1. \A c \in Creates : grants[c].status # "absent" => grants[c] \in Row
    BY DEF TypeOK, NoRow
  <2>2. \A r \in Row : [r EXCEPT !.status = "revoked"] \in Row
    BY DEF Row
  <2>3. \A c \in Creates : Revoke(c) =>
          grants' = [grants EXCEPT ![c] = [grants[c] EXCEPT !.status = "revoked"]]
    BY DEF Revoke, TypeOK
  <2> QED BY <2>1, <2>2, <2>3 DEF Revocation, Revoke, RevokeMatching, TypeOK
<1>3. \A c \in Creates :
        /\ grants'[c].status = "absent" <=> grants[c].status = "absent"
        /\ grants'[c].status = "active" => grants[c].status = "active"
        /\ grants[c].status # "absent" =>
             /\ grants'[c].user = grants[c].user /\ grants'[c].agent = grants[c].agent
             /\ grants'[c].perms = grants[c].perms /\ grants'[c].exp = grants[c].exp
  BY <1>2 DEF Row, NoRow
<1>4. TypeOK'
  BY <1>1, <1>2, SeenGrows DEF TypeOK
<1>5. \A c \in Creates : seen[c] \subseteq seen'[c]
  BY SeenGrows
<1>6. RowsSound'
  BY <1>1, <1>3 DEF RowsSound, Matches
<1>7. ChecksSeen' /\ GrantsWarranted'
  BY <1>1, <1>3, <1>5, WarrantsLast DEF ChecksSeen, GrantsWarranted
<1>8. CallsSound'
  BY <1>1 DEF CallsSound, Token
<1>9. RefusalsJustified'
  <2>1. \A v \in Calls : calls[v].grant \in Creates
    BY DEF TypeOK, Call
  <2> QED BY <1>1, <1>3, <2>1 DEF RefusalsJustified, Standing, Token
<1> QED BY <1>4, <1>6, <1>7, <1>8, <1>9

\* A step of verify moves its own call only, forward, and on the same grant.
LEMMA VerifyCalls ==
  ASSUME DelegationInv, NEW v \in Calls, Verify(v)
  PROVE  /\ calls' \in [Calls -> Call]
         /\ \A w \in Calls : w # v => calls'[w] = calls[w]
         /\ calls'[v].grant = calls[v].grant /\ calls'[v].at <= now
         /\ calls'[v].pc # "done" => calls'[v].outcome = "none"
         /\ calls'[v].pc # "idle"
<1> USE DEF DelegationInv
<1> DEFINE c == calls[v].grant
<1>0. c \in Creates /\ calls[v] \in Call /\ now \in Nat
  BY DEF TypeOK, Call
<1>1. CASE VerifyRead(v)
  BY <1>1, <1>0 DEF VerifyRead, TypeOK, Call, Row, NoRow
<1>2. CASE VerifyBegin(v) \/ VerifyKey(v) \/ VerifyDecode(v) \/ VerifyRow(v)
  <2>1. ASSUME NEW pc \in {"begun", "key", "decoded", "done"},
               NEW outcome \in {"none", "honoured", "invalid", "expired", "revoked"},
               calls' = [calls EXCEPT ![v].pc = pc, ![v].outcome = outcome]
        PROVE  /\ calls' \in [Calls -> Call]
               /\ \A w \in Calls : w # v => calls'[w] = calls[w]
               /\ calls'[v].grant = c /\ calls'[v].at = calls[v].at
               /\ calls'[v].pc = pc /\ calls'[v].outcome = outcome
    BY <2>1, <1>0 DEF TypeOK, Call
  <2>2. calls[v].at <= now
    BY DEF CallsSound
  <2> QED BY <1>2, <2>1, <2>2 DEF VerifyBegin, VerifyKey, VerifyDecode, VerifyRow, Turn
<1> QED BY <1>1, <1>2 DEF Verify

\* A step of verify: it writes nothing, and refuses for a reason.
LEMMA VerifyStep ==
  ASSUME DelegationInv, NEW v \in Calls, Verify(v), Observe
  PROVE  DelegationInv'
<1> USE DEF DelegationInv
<1> DEFINE c == calls[v].grant
<1>1. /\ creates' = creates /\ grants' = grants /\ now' = now /\ keys' = keys
      /\ access' = access /\ writes' = writes
  BY DEF Verify, VerifyBegin, VerifyKey, VerifyDecode, VerifyRead, VerifyRow, Turn
<1>2. c \in Creates /\ calls[v] \in Call /\ now \in Nat
  BY DEF TypeOK, Call
<1>3. /\ calls' \in [Calls -> Call]
      /\ \A w \in Calls : w # v => calls'[w] = calls[w]
      /\ calls'[v].grant = c /\ calls'[v].at <= now
      /\ calls'[v].pc # "done" => calls'[v].outcome = "none"
      /\ calls'[v].pc # "idle"
  BY VerifyCalls
<1>4. TypeOK'
  BY <1>1, <1>3, SeenGrows DEF TypeOK
<1>5. \A d \in Creates : seen[d] \subseteq seen'[d]
  BY SeenGrows
<1>6. RowsSound' /\ ChecksSeen' /\ GrantsWarranted'
  BY <1>1, <1>5, WarrantsLast DEF RowsSound, Matches, ChecksSeen, GrantsWarranted
<1>7. creates[c].pc = "answered"
  BY DEF Verify, VerifyBegin, VerifyKey, VerifyDecode, VerifyRead, VerifyRow, CallsSound, Token
<1>8. CallsSound'
  BY <1>1, <1>3, <1>7 DEF CallsSound, Token
<1>9. /\ grants[c] \in Row /\ grants[c].exp \in Nat /\ grants[c].exp = creates[c].exp
      /\ Matches(creates[c], grants[c])
      /\ creates[c].kid \in Keys /\ keys[creates[c].kid] # "absent"
  BY <1>2, <1>7 DEF RowsSound, TypeOK, Row, NoRow
<1>10. calls'[v].outcome \in {"invalid", "expired", "revoked"} =>
         ~ Standing(c) \/ keys[creates[c].kid] = "withdrawn"
  <2> SUFFICES ASSUME calls'[v].outcome \in {"invalid", "expired", "revoked"}
               PROVE  ~ Standing(c) \/ keys[creates[c].kid] = "withdrawn"
    OBVIOUS
  <2>0. ASSUME NEW pc, NEW outcome, Turn(v, pc, outcome) PROVE calls'[v].outcome = outcome
    BY <2>0, <1>2 DEF Turn, TypeOK, Call
  <2>1. CASE VerifyBegin(v)
    BY <2>0, <2>1 DEF VerifyBegin
  <2>2. CASE VerifyKey(v)
    BY <2>0, <2>2, <1>9 DEF VerifyKey, Token, TypeOK
  <2>3. CASE VerifyDecode(v)
    <3>1. Expired(creates[c].exp)
      BY <2>0, <2>3 DEF VerifyDecode, Token
    <3> QED BY <3>1, <1>2, <1>9 DEF Expired, Standing
  <2>4. CASE VerifyRead(v)
    BY <2>4, <1>2, <1>9 DEF VerifyRead, TypeOK, Call, Row, Standing
  <2>5. CASE VerifyRow(v)
    <3>1. Lapsed(grants[c].exp)
      BY <2>0, <2>5, <1>9 DEF VerifyRow, Token
    <3> QED BY <3>1, <1>2, <1>9 DEF Lapsed, Standing
  <2> QED BY <2>1, <2>2, <2>3, <2>4, <2>5 DEF Verify
<1>11. RefusalsJustified'
  BY <1>1, <1>3, <1>10 DEF RefusalsJustified, Standing, Token
<1> QED BY <1>4, <1>6, <1>8, <1>11

\* A step of create_delegation moves its own request only, for the same user
\* and agent.
LEMMA CreateMoves ==
  ASSUME DelegationInv, NEW c \in Creates, Create(c)
  PROVE  /\ creates' \in [Creates -> Request]
         /\ creates'[c].user = creates[c].user /\ creates'[c].agent = creates[c].agent
         /\ \A d \in Creates : d # c => creates'[d] = creates[d]
         /\ UNCHANGED <<calls, now, keys, access, writes>>
<1> USE DEF DelegationInv
<1>0. /\ creates[c] \in Request /\ access \in Access
      /\ creates[c].user \in Users /\ creates[c].agent \in Agents
  BY DEF TypeOK, Request
<1>1. ASSUME NEW r \in Request, r.user = creates[c].user, r.agent = creates[c].agent, Proceed(c, r)
      PROVE  /\ creates' \in [Creates -> Request]
             /\ creates'[c].user = creates[c].user /\ creates'[c].agent = creates[c].agent
             /\ \A d \in Creates : d # c => creates'[d] = creates[d]
             /\ UNCHANGED <<calls, now, keys, access, writes>>
  BY <1>1 DEF Proceed, TypeOK
<1>2. ASSUME NEW pc \in Running \union {"answered", "refused", "lost"}, NEW st \in Statuses,
             NEW turn \in {"user", "agent"}, NEW rows \in SUBSET Roles, NEW ps \in SUBSET Perms,
             NEW kid \in Keys \union {NoKey}, NEW exp \in Nat,
             NEW r, r = [creates[c] EXCEPT !.pc = pc, !.status = st, !.turn = turn, !.rows = rows,
                                           !.perms = ps, !.kid = kid, !.exp = exp]
      PROVE  r \in Request /\ r.user = creates[c].user /\ r.agent = creates[c].agent
  BY <1>0, <1>2 DEF Request
<1>3. PICK r \in Request : r.user = creates[c].user /\ r.agent = creates[c].agent /\ Proceed(c, r)
  <2> USE DEF Running, Resolving
  <2>1. CASE CreateReadAgent(c)
    <3>1. access.status[creates[c].agent] \in Statuses
      BY <1>0 DEF Access, Switches, Subjects
    <3> QED BY <2>1, <3>1, <1>0 DEF CreateReadAgent, Request
  <2>2. ASSUME NEW pc \in Running \union {"refused", "answered", "lost"},
               Proceed(c, [creates[c] EXCEPT !.pc = pc])
        PROVE  \E r \in Request :
                 r.user = creates[c].user /\ r.agent = creates[c].agent /\ Proceed(c, r)
    BY <2>2, <1>0 DEF Request
  <2>3. CASE \/ CreateReadMember(c) \/ CreateTtlTooLong(c) \/ CreateSignFails(c) \/ CreateInsert(c)
             \/ CreateAnswer(c) \/ CreateLost(c)
    BY <2>2, <2>3 DEF CreateReadMember, CreateTtlTooLong, CreateSignFails, CreateInsert, CreateAnswer,
       CreateLost
  <2>4. CASE \/ CreateReadTenant(c) \/ CreateReadApplication(c) \/ CreateReadMembership(c)
             \/ CreateReadSubject(c) \/ CreateReadRows(c)
    BY <2>2, <2>4 DEF CreateReadTenant, CreateReadApplication, CreateReadMembership,
       CreateReadSubject, CreateReadRows, Check
  <2>5. CASE CreateReadLinks(c)
    <3>1. access.linked[Acting(creates[c])] \in SUBSET Roles
      BY <1>0 DEF Access, Acting, Subjects
    <3> QED BY <2>5, <3>1, <1>0 DEF CreateReadLinks, Request
  <2>6. CASE CreateReadOverrides(c)
    <3>1. {access.stands[q] : q \in creates[c].rows} \in SUBSET Roles
      BY <1>0 DEF Access, Request
    <3> QED BY <2>6, <3>1, <1>0 DEF CreateReadOverrides, Request
  <2>7. CASE CreateReadPermissions(c)
    <3>1. UNION {access.carried[o] : o \in creates[c].rows} \in SUBSET Perms
      BY <1>0 DEF Access, Request
    <3> QED BY <2>7, <3>1, <1>0 DEF CreateReadPermissions, Request
  <2>8. CASE CreateReadMask(c)
    BY <2>8, <1>0 DEF CreateReadMask, Request
  <2>9. CASE \E requested \in SUBSET Perms : CreateAsk(c, requested)
    BY <2>9, <1>0 DEF CreateAsk, Request
  <2>10. ASSUME NEW k \in Keys, NEW ttl \in Ttls, CreateSign(c, k, ttl)
         PROVE  \E r \in Request :
                  r.user = creates[c].user /\ r.agent = creates[c].agent /\ Proceed(c, r)
    <3>1. now + ttl \in Nat
      BY DEF TypeOK
    <3> QED BY <2>10, <3>1, <1>0 DEF CreateSign, Request
  <2> QED BY <2>1, <2>3, <2>4, <2>5, <2>6, <2>7, <2>8, <2>9, <2>10 DEF Create, Resolve
<1> QED BY <1>1, <1>3

\* Each read finds what holds, and the request remembers no more than that.
LEMMA CreateChecks ==
  ASSUME DelegationInv, NEW c \in Creates, Create(c), Observe
  PROVE  Checked(creates'[c], seen'[c])
<1> USE DEF DelegationInv
<1>1. /\ creates[c] \in Request /\ access \in Access
      /\ creates[c].user \in Users /\ creates[c].agent \in Agents
  BY DEF TypeOK, Request
<1>2. access' = access
  BY CreateMoves
<1>3. PICK now1 : now1 = seen'[c]
  OBVIOUS
<1>4. creates'[c].pc \in Running => Facts \subseteq now1
  BY <1>2, <1>3, SeenGrows DEF Facts
<1>5. Checked(creates[c], now1)
  BY <1>3, SeenGrows, WarrantsLast DEF ChecksSeen
<1>6. PICK r : r = creates[c]
  OBVIOUS
<1>7. \A n : Proceed(c, n) => creates'[c] = n
  BY DEF Proceed, TypeOK
<1>8. SUFFICES Checked(creates'[c], now1)
  BY <1>3
<1> USE DEF Running, Resolving
\* A switch is read.
<1>9. ASSUME NEW x \in Switches, NEW pc, NEW next, Check(c, pc, x, next)
      PROVE  /\ r.pc = pc
             /\ creates'[c] = [r EXCEPT !.pc = IF access.status[x] = "active" THEN next ELSE "available"]
             /\ next \in Running /\ access.status[x] = "active" => <<"on", x>> \in now1
  <2>1. /\ r.pc = pc
        /\ creates'[c] = [r EXCEPT !.pc = IF access.status[x] = "active" THEN next ELSE "available"]
    BY <1>6, <1>7, <1>9 DEF Check
  <2>2. access.status[x] = "active" => creates'[c].pc = next
    BY <2>1, <1>1, <1>6 DEF Request
  <2> QED BY <2>1, <2>2, <1>1, <1>4, ReadIsFact
<1>10. CASE CreateReadAgent(c)
  <2>1. creates'[c] = [r EXCEPT !.pc = "agent", !.status = access.status[r.agent]] /\ r.pc = "idle"
    BY <1>6, <1>7, <1>10 DEF CreateReadAgent
  <2>2. Facts \subseteq now1
    BY <2>1, <1>1, <1>4, <1>6 DEF Request
  <2>3. access.status[r.agent] = "active" => <<"on", r.agent>> \in now1
    BY <2>2, <1>1, <1>6, ReadIsFact DEF Switches, Subjects
  <2> QED BY <2>1, <2>3, <1>1, <1>5, <1>6 DEF Request, Checked
<1>11. CASE CreateReadMember(c)
  <2>1. /\ creates'[c] = [r EXCEPT !.pc = IF access.status[r.user] = "active" /\ r.status = "active"
                                         THEN "member" ELSE "refused"]
        /\ r.pc = "agent"
    BY <1>6, <1>7, <1>11 DEF CreateReadMember
  <2>2. CASE access.status[r.user] = "active" /\ r.status = "active"
    <3>1. Facts \subseteq now1
      BY <2>1, <2>2, <1>1, <1>4, <1>6 DEF Request
    <3>2. <<"on", r.user>> \in now1
      BY <2>2, <3>1, <1>1, <1>6, ReadIsFact DEF Switches, Subjects
    <3> QED BY <2>1, <2>2, <3>2, <1>1, <1>5, <1>6 DEF Request, Checked, BothOn
  <2>3. CASE ~ (access.status[r.user] = "active" /\ r.status = "active")
    BY <2>1, <2>3, <1>1, <1>6 DEF Request, Checked
  <2> QED BY <2>2, <2>3
<1>12. CASE \/ CreateReadTenant(c) \/ CreateReadApplication(c) \/ CreateReadMembership(c)
            \/ CreateReadSubject(c) \/ CreateReadRows(c)
  <2>1. /\ r.pc \in {"member", "tenant", "application", "membership", "subject"}
        /\ \/ creates'[c] = [r EXCEPT !.pc = "available"]
           \/ /\ creates'[c] = [r EXCEPT !.pc = "tenant"]
              /\ r.pc = "member" /\ <<"on", "tenant">> \in now1
           \/ /\ creates'[c] = [r EXCEPT !.pc = "application"]
              /\ r.pc = "tenant" /\ <<"on", "application">> \in now1
           \/ creates'[c] = [r EXCEPT !.pc = "membership"] /\ r.pc = "application"
           \/ creates'[c] = [r EXCEPT !.pc = "subject"] /\ r.pc = "membership"
           \/ creates'[c] = [r EXCEPT !.pc = "rows"] /\ r.pc = "subject"
    <3>0. r.user \in Switches /\ r.agent \in Switches /\ {"tenant", "application"} \subseteq Switches
      BY <1>1, <1>6 DEF Switches, Subjects
    <3>1. ASSUME NEW x \in Switches, NEW pc, NEW next \in Resolving, Check(c, pc, x, next)
          PROVE  /\ r.pc = pc
                 /\ \/ creates'[c] = [r EXCEPT !.pc = "available"]
                    \/ creates'[c] = [r EXCEPT !.pc = next] /\ <<"on", x>> \in now1
      BY <1>9, <3>1
    <3>2. CASE CreateReadTenant(c)
      BY <3>0, <3>1, <3>2 DEF CreateReadTenant
    <3>3. CASE CreateReadApplication(c)
      BY <3>0, <3>1, <3>3 DEF CreateReadApplication
    <3>4. CASE CreateReadMembership(c)
      BY <3>0, <3>1, <3>4, <1>6 DEF CreateReadMembership
    <3>5. CASE CreateReadSubject(c)
      BY <3>0, <3>1, <3>5, <1>6 DEF CreateReadSubject
    <3>6. CASE CreateReadRows(c)
      BY <3>0, <3>1, <3>6, <1>6 DEF CreateReadRows
    <3> QED BY <1>12, <3>2, <3>3, <3>4, <3>5, <3>6
  <2>2. r.perms = {} /\ BothOn(now1, r)
    BY <2>1, <1>5, <1>6 DEF Checked
  <2>3. r.pc \in Resolving \ {"tenant"} => {<<"on", "tenant">>, <<"on", "application">>} \subseteq now1
    BY <1>5, <1>6 DEF Checked
  <2>4. r.pc = "tenant" => <<"on", "tenant">> \in now1
    BY <1>5, <1>6 DEF Checked
  <2> QED BY <2>1, <2>2, <2>3, <2>4, <1>1, <1>6 DEF Request, Checked, BothOn
\* Roles and permissions are read.
<1>13. CASE CreateReadLinks(c) \/ CreateReadOverrides(c) \/ CreateReadPermissions(c) \/ CreateReadMask(c)
  <2>0. /\ r.pc \in {"rows", "links", "roles", "granted"}
        /\ r.user \in Subjects /\ r.agent \in Subjects /\ Acting(r) \in Subjects
        /\ r.rows \subseteq Roles
    BY <1>1, <1>6, <1>13 DEF CreateReadLinks, CreateReadOverrides, CreateReadPermissions,
       CreateReadMask, Request, Subjects, Acting
  <2>1. /\ BothOn(now1, r) /\ {<<"on", "tenant">>, <<"on", "application">>} \subseteq now1
        /\ r.pc \in {"rows", "links", "roles"} /\ r.turn = "agent" =>
             \A p \in r.perms : GrantedTo(now1, r.user, p)
    BY <2>0, <1>5, <1>6 DEF Checked
  <2>2. CASE CreateReadLinks(c)
    <3>1. creates'[c] = [r EXCEPT !.pc = "links", !.rows = access.linked[Acting(r)]] /\ r.pc = "rows"
      BY <1>6, <1>7, <2>2 DEF CreateReadLinks
    <3>2. Facts \subseteq now1
      BY <3>1, <1>1, <1>4, <1>6 DEF Request
    <3>3. \A q \in access.linked[Acting(r)] : <<"linked", Acting(r), q>> \in now1
      BY <3>2, <2>0, <1>1, ReadIsFact
    <3> QED BY <3>1, <3>3, <2>1, <1>1, <1>6 DEF Request, Checked, Acting, BothOn
  <2>3. CASE CreateReadOverrides(c)
    <3>1. /\ creates'[c] = [r EXCEPT !.pc = "roles", !.rows = {access.stands[q] : q \in r.rows}]
          /\ r.pc = "links"
      BY <1>6, <1>7, <2>3 DEF CreateReadOverrides
    <3>2. Facts \subseteq now1
      BY <3>1, <1>1, <1>4, <1>6 DEF Request
    <3>3. \A q \in r.rows : /\ q \in Roles /\ <<"linked", Acting(r), q>> \in now1
                            /\ <<"stands", q, access.stands[q]>> \in now1
      BY <3>1, <3>2, <2>0, <1>1, <1>5, <1>6, ReadIsFact DEF Checked
    <3>4. \A o \in {access.stands[q] : q \in r.rows} : \E q \in Roles :
            {<<"linked", Acting(r), q>>, <<"stands", q, o>>} \subseteq now1
      BY <3>3
    <3>5. PICK rows : rows = {access.stands[q] : q \in r.rows}
      OBVIOUS
    <3>6. creates'[c] = [r EXCEPT !.pc = "roles", !.rows = rows]
      BY <3>1, <3>5
    <3>7. \A o \in rows : \E q \in Roles :
            {<<"linked", Acting(r), q>>, <<"stands", q, o>>} \subseteq now1
      BY <3>4, <3>5
    <3>8. PICK n : n = creates'[c]
      OBVIOUS
    <3>9. /\ n.pc = "roles" /\ n.rows = rows /\ n.user = r.user /\ n.agent = r.agent
          /\ n.turn = r.turn /\ n.perms = r.perms
      BY <3>6, <3>8, <1>1, <1>6 DEF Request
    <3>10. Checked(n, now1)
      BY <3>1, <3>7, <3>9, <2>1 DEF Checked, Acting, BothOn
    <3> QED BY <3>8, <3>10
  <2>4. CASE CreateReadPermissions(c)
    <3>1. PICK found : found = UNION {access.carried[o] : o \in r.rows}
      OBVIOUS
    <3>2. /\ r.pc = "roles"
          /\ creates'[c] = IF r.turn = "user"
               THEN [r EXCEPT !.pc = "rows", !.turn = "agent", !.rows = {}, !.perms = found]
               ELSE [r EXCEPT !.pc = "granted", !.rows = {}, !.perms = r.perms \intersect found]
      BY <1>6, <1>7, <2>4, <3>1 DEF CreateReadPermissions
    <3>3. Facts \subseteq now1
      BY <3>2, <1>1, <1>4, <1>6 DEF Request
    <3>4. ASSUME NEW p \in found PROVE GrantedTo(now1, Acting(r), p)
      <4>1. PICK o \in r.rows : p \in access.carried[o]
        BY <3>1
      <4>2. PICK q \in Roles : {<<"linked", Acting(r), q>>, <<"stands", q, o>>} \subseteq now1
        BY <3>2, <1>5, <1>6 DEF Checked
      <4>3. o \in Roles /\ <<"carries", o, p>> \in now1
        BY <1>1, <2>0, <3>3, <4>1, ReadIsFact DEF Access
      <4> QED BY <4>2, <4>3 DEF GrantedTo
    <3>5. CASE r.turn = "user"
      BY <3>2, <3>4, <3>5, <2>1, <1>1, <1>6 DEF Request, Checked, Acting, BothOn
    <3>6. CASE r.turn = "agent"
      BY <3>2, <3>4, <3>6, <2>1, <1>1, <1>6 DEF Request, Checked, Acting, BothOn
    <3> QED BY <3>5, <3>6, <1>1, <1>6 DEF Request
  <2>5. CASE CreateReadMask(c)
    <3>1. /\ creates'[c] = [r EXCEPT !.pc = "available", !.perms = r.perms \intersect access.unmasked]
          /\ r.pc = "granted"
      BY <1>6, <1>7, <2>5 DEF CreateReadMask
    <3>2. Facts \subseteq now1
      BY <3>1, <1>1, <1>4, <1>6 DEF Request
    <3>3. \A p \in r.perms \intersect access.unmasked : Warranted(now1, r, p)
      BY <3>1, <3>2, <2>1, <1>1, <1>5, <1>6, ReadIsFact DEF Checked, Warranted
    <3> QED BY <3>1, <3>3, <2>1, <1>1, <1>6 DEF Request, Checked, BothOn, Warranted
  <2> QED BY <1>13, <2>2, <2>3, <2>4, <2>5
<1>14. CASE \E requested \in SUBSET Perms : CreateAsk(c, requested)
  <2>1. PICK requested \in SUBSET Perms : CreateAsk(c, requested)
    BY <1>14
  <2>2. /\ r.pc = "available"
        /\ creates'[c] = [r EXCEPT !.pc = IF requested \subseteq r.perms THEN "checked" ELSE "refused",
                                   !.perms = IF requested \subseteq r.perms THEN requested ELSE {}]
    BY <1>6, <1>7, <2>1 DEF CreateAsk
  <2> QED BY <2>2, <1>1, <1>5, <1>6 DEF Request, Checked, BothOn, Warranted
<1>15. CASE \E k \in Keys, ttl \in Ttls : CreateSign(c, k, ttl)
  <2>1. PICK k, exp : creates'[c] = [r EXCEPT !.pc = "signed", !.kid = k, !.exp = exp]
    BY <1>6, <1>7, <1>15 DEF CreateSign
  <2>2. r.pc = "checked"
    BY <1>6, <1>15 DEF CreateSign
  <2> QED BY <2>1, <2>2, <1>1, <1>5, <1>6 DEF Request, Checked, BothOn, Warranted
<1>16. CASE \/ CreateSignFails(c) \/ CreateTtlTooLong(c) \/ CreateInsert(c) \/ CreateAnswer(c)
            \/ CreateLost(c)
  <2>1. PICK pc \in {"refused", "inserted", "answered", "lost"} : creates'[c] = [r EXCEPT !.pc = pc]
    BY <1>6, <1>7, <1>16 DEF CreateSignFails, CreateTtlTooLong, CreateInsert, CreateAnswer, CreateLost
  <2> QED BY <2>1, <1>1, <1>6 DEF Request, Checked
<1> QED BY <1>10, <1>11, <1>12, <1>13, <1>14, <1>15, <1>16 DEF Create, Resolve

\* A step of create_delegation: each check is justified by the state it read,
\* and the row is the one the token was signed for.
LEMMA CreateStep ==
  ASSUME DelegationInv, NEW c \in Creates, Create(c), Observe
  PROVE  DelegationInv'
<1> USE DEF DelegationInv
<1>1. calls' = calls /\ now' = now /\ keys' = keys /\ access' = access /\ writes' = writes
  BY CreateMoves
<1>2. /\ creates[c] \in Request /\ now \in Nat
      /\ creates[c].user \in Users /\ creates[c].agent \in Agents
  BY DEF TypeOK, Request
<1>3. /\ creates' \in [Creates -> Request]
      /\ creates'[c].user = creates[c].user /\ creates'[c].agent = creates[c].agent
      /\ \A d \in Creates : d # c => creates'[d] = creates[d]
  BY CreateMoves
<1>4. /\ grants' \in [Creates -> Row \union {NoRow}]
      /\ \A d \in Creates : d # c => grants'[d] = grants[d]
      /\ \/ grants'[c] = grants[c]
         \/ CreateInsert(c) /\ grants'[c] = RowOf(creates[c])
  <2>1. CreateInsert(c) => RowOf(creates[c]) \in Row
    BY <1>2 DEF RowOf, Row, Request
  <2> QED BY <2>1 DEF Create, CreateReadAgent, CreateReadMember, CreateTtlTooLong, CreateSignFails,
             CreateInsert, CreateAnswer, CreateLost, CreateReadTenant, CreateReadApplication,
     CreateReadMembership, CreateReadSubject, CreateReadRows, CreateReadLinks, CreateReadOverrides,
     CreateReadPermissions, CreateReadMask, Check, Resolve, CreateAsk, CreateSign, TypeOK
<1>5. TypeOK'
  BY <1>1, <1>3, <1>4, SeenGrows DEF TypeOK
<1>6. \A d \in Creates : seen[d] \subseteq seen'[d]
  BY SeenGrows
\* The request itself.
<1>7. /\ creates'[c].pc \in {"inserted", "answered"} => grants'[c].status # "absent"
      /\ creates'[c].pc \in {"signed", "inserted", "answered"} =>
           creates'[c].kid \in Keys /\ keys[creates'[c].kid] # "absent"
      /\ grants'[c].status # "absent" =>
           /\ creates'[c].pc \in {"inserted", "answered", "lost"}
           /\ Matches(creates'[c], grants'[c]) /\ grants'[c].exp = creates'[c].exp
  <2>1. CASE CreateReadAgent(c)
    BY <2>1, <1>2 DEF CreateReadAgent, Proceed, TypeOK, RowsSound
  <2>2. CASE CreateReadMember(c)
    BY <2>2, <1>2 DEF CreateReadMember, Proceed, TypeOK, RowsSound
  <2>3. CASE \E requested \in SUBSET Perms : CreateAsk(c, requested)
    BY <2>3, <1>2 DEF CreateAsk, Proceed, TypeOK, RowsSound
  <2>9. CASE Resolve(c)
    <3>1. PICK r : r.pc \in Resolving \union {"available"} /\ Proceed(c, r) /\ grants' = grants
      <4>1. CASE CreateReadLinks(c)
        BY <4>1, <1>2 DEF CreateReadLinks, Request, Resolving
      <4>2. CASE CreateReadOverrides(c)
        BY <4>2, <1>2 DEF CreateReadOverrides, Request, Resolving
      <4>3. CASE CreateReadPermissions(c) \/ CreateReadMask(c)
        BY <4>3, <1>2 DEF CreateReadPermissions, CreateReadMask, Request, Resolving
      <4>4. ASSUME NEW pc, NEW x, NEW next \in Resolving, Check(c, pc, x, next)
            PROVE  \E r : r.pc \in Resolving \union {"available"} /\ Proceed(c, r) /\ grants' = grants
        BY <4>4, <1>2 DEF Check, Request
      <4> QED BY <2>9, <4>1, <4>2, <4>3, <4>4 DEF Resolve, CreateReadTenant, CreateReadApplication,
              CreateReadMembership, CreateReadSubject, CreateReadRows, Resolving
    <3>2. creates'[c].pc \in Resolving \union {"available"}
      BY <3>1, <1>2 DEF Proceed, TypeOK
    <3>3. grants[c].status = "absent"
      <4>1. creates[c].pc \in Resolving \union {"member"}
        BY <2>9 DEF CreateReadTenant, CreateReadApplication,
           CreateReadMembership, CreateReadSubject, CreateReadRows, CreateReadLinks, CreateReadOverrides,
           CreateReadPermissions, CreateReadMask, Check, Resolve, Resolving
      <4> QED BY <4>1 DEF RowsSound, Resolving
    <3> QED BY <3>1, <3>2, <3>3 DEF Resolving
  <2>4. CASE \E k \in Keys, ttl \in Ttls : CreateSign(c, k, ttl)
    BY <2>4, <1>2 DEF CreateSign, Proceed, TypeOK, RowsSound, Request
  <2>5. CASE CreateSignFails(c)
    BY <2>5, <1>2 DEF CreateSignFails, Proceed, TypeOK, RowsSound
  <2>8. CASE CreateTtlTooLong(c)
    BY <2>8, <1>2 DEF CreateTtlTooLong, Proceed, TypeOK, RowsSound
  <2>6. CASE CreateInsert(c)
    BY <2>6, <1>2 DEF CreateInsert, Proceed, TypeOK, RowsSound, Request, RowOf, Matches
  <2>7. CASE CreateAnswer(c) \/ CreateLost(c)
    BY <2>7, <1>2 DEF CreateAnswer, CreateLost, Proceed, TypeOK, RowsSound, Request, Matches, Running
  <2> QED BY <2>1, <2>2, <2>3, <2>4, <2>5, <2>6, <2>7, <2>8, <2>9 DEF Create
<1>8. Checked(creates'[c], seen'[c])
  BY CreateChecks
<1>9. grants'[c].status # "absent" =>
        /\ BothOn(seen'[c], creates'[c])
        /\ \A p \in grants'[c].perms : Warranted(seen'[c], creates'[c], p)
  <2>1. grants'[c].status # "absent" =>
          /\ BothOn(seen'[c], creates[c])
          /\ \A p \in grants'[c].perms : Warranted(seen'[c], creates[c], p)
    <3>1. CASE grants'[c] = grants[c]
      BY <3>1, <1>6, WarrantsLast DEF GrantsWarranted
    <3>2. CASE CreateInsert(c) /\ grants'[c] = RowOf(creates[c])
      <4>1. Checked(creates[c], seen'[c])
        BY <1>6, WarrantsLast DEF ChecksSeen
      <4> QED BY <3>2, <4>1 DEF CreateInsert, RowOf, Checked
    <3> QED BY <3>1, <3>2, <1>4
  <2> QED BY <2>1, <1>3 DEF BothOn, Warranted
\* The others.
<1>10. RowsSound'
  BY <1>1, <1>3, <1>4, <1>7 DEF RowsSound, Matches
<1>11. ChecksSeen'
  <2>1. \A d \in Creates : Checked(creates[d], seen'[d])
    BY <1>6, WarrantsLast DEF ChecksSeen
  <2> QED BY <2>1, <1>3, <1>8 DEF ChecksSeen
<1>12. GrantsWarranted'
  <2>1. \A d \in Creates : grants[d].status # "absent" =>
          /\ BothOn(seen'[d], creates[d])
          /\ \A p \in grants[d].perms : Warranted(seen'[d], creates[d], p)
    BY <1>6, WarrantsLast DEF GrantsWarranted
  <2> QED BY <2>1, <1>3, <1>4, <1>9 DEF GrantsWarranted
<1>13. \A v \in Calls : calls[v].grant = c => calls[v].pc = "idle" \/ creates[c].pc = "answered"
  BY DEF CallsSound, Token
<1>14. creates[c].pc # "answered"
  <2>1. Resolve(c) => creates[c].pc \in Resolving \union {"member"}
    BY DEF CreateReadTenant, CreateReadApplication, CreateReadMembership, CreateReadSubject,
       CreateReadRows, CreateReadLinks, CreateReadOverrides, CreateReadPermissions, CreateReadMask,
       Check, Resolve, Resolving
  <2> QED BY <2>1 DEF Create, CreateReadAgent, CreateReadMember, CreateTtlTooLong, CreateSignFails,
          CreateInsert, CreateAnswer, CreateLost, CreateAsk, CreateSign, Running, Resolving
<1>a. \A v \in Calls : calls[v].grant \in Creates
  BY DEF TypeOK, Call
<1>15. CallsSound'
  BY <1>1, <1>3, <1>13, <1>14, <1>a DEF CallsSound, Token
<1>16. RefusalsJustified'
  <2>2. \A v \in Calls : calls[v].outcome # "none" => calls[v].grant # c
    BY <1>13, <1>14 DEF CallsSound
  <2> QED BY <1>1, <1>3, <1>4, <1>a, <2>2 DEF RefusalsJustified, Standing, Token
<1> QED BY <1>5, <1>10, <1>11, <1>12, <1>15, <1>16

\* Every step keeps the inductive invariant.
LEMMA DelegationInvNext == DelegationInv /\ [Next]_vars => DelegationInv'
<1> SUFFICES ASSUME DelegationInv, [Next]_vars PROVE DelegationInv'
  OBVIOUS
<1>1. CASE UNCHANGED vars
  BY <1>1 DEF vars, DelegationInv, TypeOK, RowsSound, ChecksSeen, CallsSound, GrantsWarranted,
     RefusalsJustified, Matches, Token, Standing
<1>2. CASE Next
  BY <1>2, SurroundingsStep, RevocationStep, VerifyStep, CreateStep DEF Next
<1> QED BY <1>1, <1>2

\* The inductive invariant holds in every reachable state.
THEOREM DelegationInvCorrect == Spec => []DelegationInv
  BY DelegationInvInit, DelegationInvNext, PTL DEF Spec

\* create_delegation writes no row that the tables never warranted: membership
\* and agent were active, and everything that each delegated permission takes was
\* so, each at some moment of the request; these moments may differ.
THEOREM GrantsAreWarranted == Spec => []GrantsWarranted
<1>1. DelegationInv => GrantsWarranted
  BY DEF DelegationInv
<1> QED BY DelegationInvCorrect, <1>1, PTL

\* verify refuses a token it issued only when the grant is over or the key gone.
THEOREM RefusalsAreJustified == Spec => []RefusalsJustified
<1>1. DelegationInv => RefusalsJustified
  BY DEF DelegationInv
<1> QED BY DelegationInvCorrect, <1>1, PTL

-----------------------------------------------------------------------------
(* Delegations implements GrantContract *)

\* An unused service has no grants and no calls.
LEMMA ContractInitially == Init => Contract!ContractInit
<1> SUFFICES ASSUME Init PROVE Contract!ContractInit
  OBVIOUS
<1>1. [c \in Creates |-> StateOf(c)] = [c \in Creates |-> "none"]
  BY DEF Init, StateOf, NoRow
<1>2. \A v \in Calls : calls[v].grant \in Creates /\ calls[v].pc = "idle"
  BY DEF Init
<1> DEFINE g == [v \in Calls |-> calls[v].grant]
<1>3. g \in [Calls -> Creates]
  BY <1>2
<1>4. [v \in Calls |-> UseOf(v)] = [v \in Calls |-> [grant |-> g[v], state |-> "idle"]]
  BY <1>2 DEF UseOf
<1> QED BY <1>1, <1>3, <1>4 DEF Contract!ContractInit

\* As long as no call moves, whatever happens to grants is a Change.
LEMMA ChangeStep ==
  ASSUME calls' = calls,
         \A c \in Creates : /\ StateOf(c) = "over" => StateOf(c)' = "over"
                            /\ StateOf(c) = "standing" => StateOf(c)' # "none",
         \A v \in Calls : UseOf(v)' = UseOf(v)
  PROVE  Contract!Change
<1>1. \A c \in Creates : StateOf(c)' \in {"none", "standing", "over"}
  BY DEF StateOf
<1>2. [v \in Calls |-> UseOf(v)]' = [v \in Calls |-> UseOf(v)]
  OBVIOUS
<1> QED BY <1>1, <1>2 DEF Contract!Change

\* Steps that are not of verify.
LEMMA OtherStepsChange ==
  ASSUME DelegationInv,
         Surroundings \/ Revocation \/ \E c \in Creates : Create(c)
  PROVE  Contract!Change
<1> USE DEF DelegationInv
<1>1. calls' = calls /\ now' \in Nat /\ now' >= now /\ now \in Nat
  <2>0. now \in Nat
    BY DEF TypeOK
  <2>1. CASE Surroundings
    <3>1. CASE Tick
      BY <2>0, <3>1 DEF Tick
    <3>2. CASE ~ Tick
      <4>1. UNCHANGED <<now, calls>>
        BY <2>1, <3>2 DEF Surroundings, Administration, SetStatus, SetLinks, SetCarried,
           AddOverride, DropOverride, SetMask, Write, PublishKey,
           WithdrawKey
      <4> QED BY <2>0, <4>1
    <3> QED BY <3>1, <3>2
  <2>2. CASE Revocation
    BY <2>0, <2>2 DEF Revocation, Revoke, RevokeMatching
  <2>3. CASE \E c \in Creates : Create(c)
    <3>1. UNCHANGED <<now, calls>>
      BY <2>3 DEF Create, CreateReadAgent, CreateReadMember, CreateTtlTooLong, CreateSignFails,
         CreateInsert, CreateAnswer, CreateLost, CreateReadTenant, CreateReadApplication,
     CreateReadMembership, CreateReadSubject, CreateReadRows, CreateReadLinks, CreateReadOverrides,
     CreateReadPermissions, CreateReadMask, Check, Resolve, CreateAsk, CreateSign, Proceed
    <3> QED BY <2>0, <3>1
  <2> QED BY <2>1, <2>2, <2>3
<1>2. \A c \in Creates : grants[c].status # "absent" =>
        /\ grants[c].exp \in Nat /\ grants'[c].exp = grants[c].exp
        /\ grants'[c].status # "absent"
        /\ grants'[c].status = "active" => grants[c].status = "active"
  <2>1. \A c \in Creates : grants[c].status # "absent" => grants[c] \in Row
    BY DEF TypeOK, NoRow
  <2>2. CASE Surroundings
    BY <2>1, <2>2 DEF Surroundings, Administration, SetStatus, SetLinks, SetCarried,
           AddOverride, DropOverride, SetMask, Write, PublishKey,
       WithdrawKey, Tick, Row
  <2>3. CASE Revocation
    BY <2>1, <2>3 DEF Revocation, Revoke, RevokeMatching, TypeOK, Row
  <2>4. ASSUME NEW c \in Creates, Create(c)
        PROVE  grants' = grants \/ (CreateInsert(c) /\ grants' = [grants EXCEPT ![c] = RowOf(creates[c])])
    BY <2>4 DEF Create, CreateReadAgent, CreateReadMember, CreateTtlTooLong, CreateSignFails,
       CreateInsert, CreateAnswer, CreateLost, CreateReadTenant, CreateReadApplication,
     CreateReadMembership, CreateReadSubject, CreateReadRows, CreateReadLinks, CreateReadOverrides,
     CreateReadPermissions, CreateReadMask, Check, Resolve, CreateAsk, CreateSign
  <2>5. ASSUME NEW c \in Creates, CreateInsert(c) PROVE grants[c].status = "absent"
    BY <2>5 DEF CreateInsert, RowsSound
  <2> QED BY <2>1, <2>2, <2>3, <2>4, <2>5 DEF Row, TypeOK
<1>3. \A c \in Creates : /\ StateOf(c) = "over" => StateOf(c)' = "over"
                         /\ StateOf(c) = "standing" => StateOf(c)' # "none"
  BY <1>1, <1>2 DEF StateOf, Standing
<1>4. \A v \in Calls : UseOf(v)' = UseOf(v)
  <2>1. \A v \in Calls : calls[v].pc = "row" => grants[calls[v].grant].status # "absent"
    BY DEF CallsSound, RowsSound, Token, TypeOK, Call
  <2>2. \A v \in Calls : calls[v].grant \in Creates
    BY DEF TypeOK, Call
  <2> QED BY <1>1, <1>2, <2>1, <2>2 DEF UseOf
<1> QED BY <1>1, <1>3, <1>4, ChangeStep

\* verify simulates a use: reading the row confirms it, the last check answers.
LEMMA VerifySimulates ==
  ASSUME DelegationInv, NEW v \in Calls, Verify(v)
  PROVE  \/ Contract!Ask(v) \/ Contract!Confirm(v) \/ Contract!Honour(v) \/ Contract!Refuse(v)
         \/ UNCHANGED Contract!contractVars
<1> USE DEF DelegationInv
<1> DEFINE c == calls[v].grant
<1>1. /\ c \in Creates /\ calls[v] \in Call /\ now \in Nat /\ calls[v].at \in Nat
      /\ calls[v].at <= now
  BY DEF TypeOK, Call, CallsSound
<1>2. grants' = grants /\ now' = now
  BY DEF Verify, VerifyBegin, VerifyKey, VerifyDecode, VerifyRead, VerifyRow, Turn
<1>3. [d \in Creates |-> StateOf(d)]' = [d \in Creates |-> StateOf(d)]
  BY <1>2 DEF StateOf, Standing
<1>4. /\ \A w \in Calls : w # v => calls'[w] = calls[w]
      /\ calls' \in [Calls -> Call] /\ calls'[v].grant = c
  BY VerifyCalls
<1>5. \A w \in Calls : w # v => UseOf(w)' = UseOf(w)
  BY <1>2, <1>4 DEF UseOf
<1>6. UseOf(v).grant = c /\ UseOf(v)'.grant = c
  BY <1>4 DEF UseOf
<1> DEFINE U == [w \in Calls |-> UseOf(w)]
<1>7. ASSUME NEW s, UseOf(v)' = [grant |-> c, state |-> s] PROVE Contract!Move(v, s)
  <2>1. U' = [U EXCEPT ![v] = [grant |-> U[v].grant, state |-> s]]
    BY <1>5, <1>6, <1>7
  <2> QED BY <2>1, <1>3 DEF Contract!Move
<1>8. ASSUME UseOf(v)' = UseOf(v) PROVE UNCHANGED Contract!contractVars
  BY <1>3, <1>5, <1>8 DEF Contract!contractVars
<1>9. calls[v].pc # "idle" => /\ creates[c].pc = "answered"
                              /\ grants[c] \in Row /\ grants[c].exp \in Nat
  BY <1>1 DEF CallsSound, RowsSound, Token, TypeOK, Row, NoRow
<1>a. ASSUME NEW pc, NEW outcome, Turn(v, pc, outcome)
      PROVE  calls'[v].pc = pc /\ calls'[v].outcome = outcome /\ calls'[v].at = calls[v].at
  BY <1>a, <1>1 DEF Turn, TypeOK, Call
<1>b. CASE VerifyBegin(v)
  <2>1. UseOf(v).state = "idle" /\ UseOf(v)' = [grant |-> c, state |-> "open"]
    BY <1>a, <1>b, <1>4 DEF VerifyBegin, UseOf
  <2> QED BY <2>1, <1>7 DEF Contract!Ask
\* A refusal before the row is looked at, or one step closer to it.
<1>c. CASE VerifyKey(v) \/ VerifyDecode(v)
  <2>1. UseOf(v) = [grant |-> c, state |-> "open"]
    BY <1>c DEF VerifyKey, VerifyDecode, UseOf
  <2>2. \/ UseOf(v)' = UseOf(v)
        \/ UseOf(v)' = [grant |-> c, state |-> "refused"]
    BY <1>a, <1>c, <1>4, <2>1 DEF VerifyKey, VerifyDecode, UseOf
  <2> QED BY <2>1, <2>2, <1>7, <1>8 DEF Contract!Refuse
<1>d. CASE VerifyRead(v)
  <2>1. UseOf(v) = [grant |-> c, state |-> "open"]
    BY <1>d DEF VerifyRead, UseOf
  <2>2. /\ calls'[v].at = now
        /\ calls'[v].pc = IF grants[c].status = "active" THEN "row" ELSE "done"
        /\ calls'[v].outcome # "honoured"
    BY <1>d, <1>1 DEF VerifyRead, TypeOK
  <2>3. CASE grants[c].status = "active" /\ grants[c].exp > now
    <3>1. UseOf(v)' = [grant |-> c, state |-> "confirmed"]
      BY <2>2, <2>3, <1>2, <1>4 DEF UseOf
    <3>2. StateOf(c) = "standing"
      BY <2>3 DEF StateOf, Standing
    <3> QED BY <2>1, <3>1, <3>2, <1>1, <1>7 DEF Contract!Confirm
  <2>4. CASE grants[c].status = "active" /\ ~ (grants[c].exp > now)
    BY <2>1, <2>2, <2>4, <1>2, <1>4, <1>8 DEF UseOf
  <2>5. CASE grants[c].status # "active"
    <3>1. UseOf(v)' = [grant |-> c, state |-> "refused"]
      BY <2>2, <2>5, <1>4 DEF UseOf
    <3> QED BY <2>1, <3>1, <1>7 DEF Contract!Refuse
  <2> QED BY <2>3, <2>4, <2>5
<1>e. CASE VerifyRow(v)
  <2>1. UseOf(v) = [grant |-> c, state |-> IF grants[c].exp > calls[v].at THEN "confirmed" ELSE "open"]
    BY <1>e DEF VerifyRow, UseOf
  <2>2. CASE Lapsed(grants[c].exp) \/ ~ Matches(Token(v), grants[c])
    <3>1. UseOf(v)' = [grant |-> c, state |-> "refused"]
      BY <1>a, <1>e, <2>2, <1>4 DEF VerifyRow, UseOf
    <3> QED BY <2>1, <3>1, <1>7 DEF Contract!Refuse
  <2>3. CASE ~ Lapsed(grants[c].exp) /\ Matches(Token(v), grants[c])
    <3>1. UseOf(v)' = [grant |-> c, state |-> "honoured"]
      BY <1>a, <1>e, <2>3, <1>4 DEF VerifyRow, UseOf
    <3>2. grants[c].exp > calls[v].at
      BY <1>e, <2>3, <1>1, <1>9 DEF VerifyRow, Lapsed
    <3> QED BY <2>1, <3>1, <3>2, <1>7 DEF Contract!Honour
  <2> QED BY <2>2, <2>3
<1> QED BY <1>b, <1>c, <1>d, <1>e DEF Verify

\* The service keeps the contract: a token is honoured only if its grant stood
\* at some moment of the call, and no revoked or expired grant comes back.
THEOREM GrantsKeepContract == Spec => ImplementsContract
<1>1. DelegationInv /\ [Next]_vars => [Contract!ContractNext]_(Contract!contractVars)
  <2> SUFFICES ASSUME DelegationInv, [Next]_vars
               PROVE  Contract!ContractNext \/ UNCHANGED Contract!contractVars
    OBVIOUS
  <2>1. CASE UNCHANGED vars
    BY <2>1 DEF vars, Contract!contractVars, StateOf, Standing, UseOf
  <2>2. CASE Next
    BY <2>2, OtherStepsChange, VerifySimulates DEF Next, Contract!ContractNext
  <2> QED BY <2>1, <2>2
<1> QED BY ContractInitially, DelegationInvCorrect, <1>1, PTL
           DEF Spec, ImplementsContract, Contract!ContractSpec
=============================================================================
