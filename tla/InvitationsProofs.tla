-------------------------- MODULE InvitationsProofs --------------------------
(***************************************************************************)
(* Proofs about Invitations for any number of invitations, users and       *)
(* concurrent accept requests, and any of the faults: database errors,     *)
(* commits whose acknowledgement is lost, failing reverts, crashes.        *)
(***************************************************************************)
EXTENDS Invitations, TLAPS

USE FaultsAssumption, NoUserAssumption, AdminAssumption

\* What one request does leaves every other request as it is.
LEMMA OtherRequests ==
  ASSUME TypeOK, NEW r \in Accepts, NEW pc, NEW outcome,
         Move(r, pc, outcome)
  PROVE  /\ \A q \in Accepts \ {r} : reqs'[q] = reqs[q]
         /\ \A q \in Accepts : reqs'[q].invite = reqs[q].invite /\ reqs'[q].user = reqs[q].user
         /\ reqs'[r].pc = pc /\ reqs'[r].outcome = outcome
  BY DEF TypeOK, Request, Move

\* ... and a request that moves stays well formed.
LEMMA MoveType ==
  ASSUME TypeOK, NEW r \in Accepts, NEW pc \in {"revert", "claimed", "done"},
         NEW outcome \in {"none", "accepted", "not_pending", "expired",
                          "conflict", "error", "stuck", "crashed"},
         Move(r, pc, outcome)
  PROVE  reqs' \in [Accepts -> Request]
<1>1. [reqs[r] EXCEPT !.pc = pc, !.outcome = outcome] \in Request
  <2>1. reqs[r] \in Request
    BY DEF TypeOK
  <2> QED BY <2>1 DEF Request
<1>2. reqs' = [reqs EXCEPT ![r] = [reqs[r] EXCEPT !.pc = pc, !.outcome = outcome]]
  BY DEF Move, TypeOK
<1> QED BY <1>1, <1>2 DEF TypeOK

\* A request under way that does not answer with success changes nothing about
\* which rows were answered for.
LEMMA AnsweredKept ==
  ASSUME TypeOK, RedeemedForGood, NEW r \in Accepts, reqs[r].pc # "done",
         \A q \in Accepts \ {r} : reqs'[q] = reqs[q],
         reqs'[r].outcome # "accepted" \/ reqs'[r].outcome = reqs[r].outcome
  PROVE  \A m \in memberships : Answered(m)' <=> Answered(m)
<1> SUFFICES ASSUME NEW m \in memberships, m.via # "admin"
             PROVE  Answered(m)' <=> Answered(m)
  BY DEF Answered
<1>1. m.via \in Accepts
  BY DEF TypeOK, Member
<1>2. CASE m.via # r
  BY <1>1, <1>2 DEF Answered
<1>3. CASE m.via = r
  BY <1>3 DEF Answered, RedeemedForGood
<1> QED BY <1>2, <1>3

\* An empty service satisfies the inductive invariant.
LEMMA InviteInvInit == Init => InviteInv
<1> SUFFICES ASSUME Init PROVE InviteInv
  OBVIOUS
<1>1. \A r \in Accepts : /\ reqs[r] \in Request /\ reqs[r].pc = "idle"
  BY DEF Init, Request
<1>2. TypeOK
  BY <1>1 DEF Init, TypeOK, Invite, Member
<1> QED
  BY <1>1, <1>2 DEF Init, InviteInv, PendingIsUnowned, ClaimExclusive, TokenSpentOnce,
     MemberIsRecorded, RequestsSound, MakersFinished, RedeemedForGood, Answered, Claiming

\* No administrative write disturbs the inductive invariant.
LEMMA AdminNext ==
  ASSUME InviteInv,
         \/ \E i \in Invites, wide \in BOOLEAN : Create(i, wide)
         \/ \E i \in Invites : Revoke(i) \/ Deadline(i)
         \/ \E u \in Users, wide \in BOOLEAN : AdminCreate(u, wide)
         \/ \E m \in memberships : Disable(m)
  PROVE  InviteInv'
<1> USE DEF InviteInv
<1>1. ASSUME NEW i \in Invites, NEW wide \in BOOLEAN, Create(i, wide) PROVE InviteInv'
  <2>1. TypeOK'
    BY <1>1 DEF Create, TypeOK, Invite
  <2>2. /\ reqs' = reqs /\ memberships' = memberships
        /\ \A j \in Invites : j # i => invites'[j] = invites[j]
        /\ invites'[i].status = "pending" /\ invites'[i].by = NoUser
        /\ invites[i].status = "absent"
    BY <1>1 DEF Create, TypeOK, Invite
  <2>3. \A r \in Accepts : reqs[r].invite = i => reqs[r].pc = "idle"
    BY <2>2 DEF RequestsSound
  <2>4. \A r \in Accepts : reqs[r].invite \in Invites
    BY DEF TypeOK, Request
  <2>5. \A m \in memberships : m.via # "admin" => m.via \in Accepts
    BY DEF TypeOK, Member
  <2>6. PendingIsUnowned'
    BY <2>2 DEF PendingIsUnowned
  <2>7. ClaimExclusive'
    BY <2>2, <2>3, <2>4 DEF ClaimExclusive, Claiming
  <2>8. TokenSpentOnce'
    BY <2>2 DEF TokenSpentOnce, Answered
  <2>9. MemberIsRecorded' /\ MakersFinished' /\ RedeemedForGood'
    BY <2>2, <2>3, <2>4, <2>5 DEF MemberIsRecorded, MakersFinished, RedeemedForGood, Answered,
       Claiming
  <2>10. RequestsSound'
    BY <2>2, <2>3, <2>4 DEF RequestsSound, Claiming
  <2> QED BY <2>1, <2>6, <2>7, <2>8, <2>9, <2>10
<1>2. ASSUME NEW i \in Invites, Revoke(i) \/ Deadline(i) PROVE InviteInv'
  <2>1. TypeOK'
    BY <1>2 DEF Revoke, Deadline, TypeOK, Invite
  <2>2. /\ reqs' = reqs /\ memberships' = memberships
        /\ \A j \in Invites : /\ invites'[j].by = invites[j].by
                              /\ \/ invites'[j].status = invites[j].status
                                 \/ invites'[j].status = "revoked"
    BY <1>2 DEF Revoke, Deadline, TypeOK, Invite
  <2>3. \A r \in Accepts : reqs[r].invite \in Invites
    BY DEF TypeOK, Request
  <2>4. \A m \in memberships : m.via # "admin" => m.via \in Accepts
    BY DEF TypeOK, Member
  <2>5. PendingIsUnowned' /\ TokenSpentOnce'
    BY <2>2 DEF PendingIsUnowned, TokenSpentOnce, Answered
  <2>6. ClaimExclusive'
    BY <2>2, <2>3 DEF ClaimExclusive, Claiming
  <2>7. MemberIsRecorded' /\ MakersFinished' /\ RedeemedForGood'
    BY <2>2, <2>3, <2>4 DEF MemberIsRecorded, MakersFinished, RedeemedForGood, Answered,
       Claiming
  <2>8. RequestsSound'
    BY <2>2, <2>3 DEF RequestsSound, Claiming
  <2> QED BY <2>1, <2>5, <2>6, <2>7, <2>8
<1>3. ASSUME NEW u \in Users, NEW wide \in BOOLEAN, AdminCreate(u, wide) PROVE InviteInv'
  <2>1. TypeOK'
    BY <1>3 DEF AdminCreate, TypeOK, Member
  <2>2. /\ reqs' = reqs /\ invites' = invites
        /\ \A m \in memberships' : m.via = "admin" \/ m \in memberships
    BY <1>3 DEF AdminCreate
  <2> QED BY <2>1, <2>2 DEF PendingIsUnowned, ClaimExclusive, TokenSpentOnce,
             MemberIsRecorded, RequestsSound, MakersFinished, RedeemedForGood, Answered, Claiming
<1>4. ASSUME NEW m \in memberships, Disable(m) PROVE InviteInv'
  <2>1. TypeOK'
    BY <1>4 DEF Disable, TypeOK, Member
  <2>2. /\ reqs' = reqs /\ invites' = invites
        /\ \A n \in memberships' : \E o \in memberships : n.via = o.via /\ n.user = o.user
    BY <1>4 DEF Disable, TypeOK, Member
  <2> QED BY <2>1, <2>2 DEF PendingIsUnowned, ClaimExclusive, TokenSpentOnce,
             MemberIsRecorded, RequestsSound, MakersFinished, RedeemedForGood, Answered, Claiming
<1> QED BY <1>1, <1>2, <1>3, <1>4

\* No step of an accept request disturbs it, faults included, also when
\* create_membership commits and reports an error.
LEMMA AcceptNext ==
  ASSUME InviteInv, NEW r \in Accepts,
         \/ \E u \in Users : AcceptRead(r, u)
         \/ Step(r) \/ Fault(r)
  PROVE  InviteInv'
<1> USE DEF InviteInv
<1>a. \A q \in Accepts : reqs[q].invite \in Invites /\ reqs[q] \in Request
  BY DEF TypeOK, Request
<1>b. \A m \in memberships : m.via # "admin" => m.via \in Accepts
  BY DEF TypeOK, Member
<1>c. \A m \in memberships : Answered(m) => m.via # "admin" /\ m.via \in Accepts
  BY <1>b DEF Answered
<1>1. ASSUME NEW u \in Users, AcceptRead(r, u) PROVE InviteInv'
  <2>1. /\ \A q \in Accepts \ {r} : reqs'[q] = reqs[q]
        /\ \A q \in Accepts : reqs'[q].invite = reqs[q].invite
        /\ reqs[r].pc = "idle" /\ reqs'[r].user = u
        /\ reqs'[r].pc \in {"done", "read", "expiring"} /\ reqs'[r].outcome # "accepted"
        /\ invites[reqs[r].invite].status # "absent"
        /\ invites' = invites /\ memberships' = memberships
    BY <1>1, <1>a DEF AcceptRead, TypeOK, Request
  <2>2. TypeOK'
    BY <1>1, <1>a DEF AcceptRead, TypeOK, Request
  <2>k. \A m \in memberships : Answered(m)' <=> Answered(m)
    BY <2>1, AnsweredKept
  <2>3. \A m \in memberships : m.via # "admin" => m.via # r
    BY <2>1 DEF MakersFinished
  <2>4. \A q \in Accepts : Claiming(q)' => Claiming(q) /\ q # r
    BY <2>1 DEF Claiming
  <2>5. PendingIsUnowned' /\ TokenSpentOnce'
    BY <2>1, <2>k, <1>c DEF PendingIsUnowned, TokenSpentOnce
  <2>6. ClaimExclusive'
    BY <2>1, <2>4 DEF ClaimExclusive
  <2>7. MemberIsRecorded' /\ MakersFinished' /\ RedeemedForGood'
    BY <2>1, <2>3, <2>4, <2>k, <1>b, <1>c DEF MemberIsRecorded, MakersFinished, RedeemedForGood
  <2>8. RequestsSound'
    BY <2>1, <2>4 DEF RequestsSound
  <2> QED BY <2>2, <2>5, <2>6, <2>7, <2>8
<1>2. ASSUME AcceptExpire(r) PROVE InviteInv'
  <2>1. /\ \A q \in Accepts \ {r} : reqs'[q] = reqs[q]
        /\ \A q \in Accepts : reqs'[q].invite = reqs[q].invite /\ reqs'[q].user = reqs[q].user
        /\ reqs[r].pc = "expiring" /\ reqs'[r].pc = "done" /\ reqs'[r].outcome = "expired"
        /\ memberships' = memberships
    BY <1>2, OtherRequests DEF Finish, AcceptExpire
  <2>k. \A m \in memberships : Answered(m)' <=> Answered(m)
    BY <2>1, AnsweredKept
  <2>2. \A j \in Invites : /\ invites'[j].by = invites[j].by
                           /\ \/ invites'[j].status = invites[j].status
                              \/ invites'[j].status = "expired"
    BY <1>2 DEF AcceptExpire, TypeOK, Invite
  <2>3. TypeOK'
    <3>1. reqs' \in [Accepts -> Request]
      BY <1>2, MoveType DEF AcceptExpire, Finish
    <3>2. invites' \in [Invites -> Invite]
      BY <1>2, <1>a DEF AcceptExpire, TypeOK, Invite
    <3> QED BY <1>2, <3>1, <3>2 DEF AcceptExpire, TypeOK
  <2>4. \A q \in Accepts : Claiming(q)' => Claiming(q) /\ q # r
    BY <2>1 DEF Claiming
  <2>5. PendingIsUnowned' /\ TokenSpentOnce'
    BY <2>1, <2>2, <2>k, <1>c DEF PendingIsUnowned, TokenSpentOnce
  <2>6. ClaimExclusive'
    BY <2>1, <2>2, <2>4, <1>a DEF ClaimExclusive
  <2>7. MemberIsRecorded' /\ MakersFinished' /\ RedeemedForGood'
    BY <2>1, <2>2, <2>4, <2>k, <1>a, <1>b, <1>c DEF MemberIsRecorded, MakersFinished, RedeemedForGood
  <2>8. RequestsSound'
    BY <2>1, <2>2, <2>4, <1>a DEF RequestsSound
  <2> QED BY <2>3, <2>5, <2>6, <2>7, <2>8
<1>3. ASSUME AcceptClaim(r) PROVE InviteInv'
  <2> DEFINE i == reqs[r].invite
  <2>1. /\ \A q \in Accepts \ {r} : reqs'[q] = reqs[q]
        /\ \A q \in Accepts : reqs'[q].invite = reqs[q].invite /\ reqs'[q].user = reqs[q].user
        /\ reqs[r].pc = "read" /\ reqs'[r].pc = "claimed" /\ reqs'[r].outcome = "none"
        /\ memberships' = memberships
    BY <1>3, OtherRequests DEF Finish, AcceptClaim
  <2>k. \A m \in memberships : Answered(m)' <=> Answered(m)
    BY <2>1, AnsweredKept
  <2>2. /\ \A j \in Invites : j # i => invites'[j] = invites[j]
        /\ invites[i].status = "pending"
        /\ invites'[i].status = "accepted" /\ invites'[i].by = reqs[r].user
    BY <1>3, <1>a DEF AcceptClaim, TypeOK, Invite
  <2>3. reqs[r].user \in Users
    BY <2>1 DEF RequestsSound
  <2>4. TypeOK'
    <3>1. reqs' \in [Accepts -> Request]
      BY <1>3, MoveType DEF AcceptClaim
    <3>2. invites' \in [Invites -> Invite]
      BY <1>3, <1>a, <2>3 DEF AcceptClaim, TypeOK, Invite
    <3> QED BY <1>3, <3>1, <3>2 DEF AcceptClaim, TypeOK
  <2>5. \A q \in Accepts : Claiming(q)' => Claiming(q) \/ q = r
    BY <2>1 DEF Claiming
  <2>6. \A q \in Accepts : Claiming(q) => reqs[q].invite # i
    BY <2>2 DEF ClaimExclusive
  <2>7. /\ \A m \in memberships : Answered(m) => reqs[m.via].invite # i
        /\ \A m \in memberships : m.via # "admin" => m.via # r
    BY <2>1, <2>2 DEF RedeemedForGood, MakersFinished
  <2> HIDE DEF i
  <2>8. PendingIsUnowned' /\ TokenSpentOnce'
    BY <2>1, <2>2, <2>k, <1>c DEF PendingIsUnowned, TokenSpentOnce
  <2>9. ClaimExclusive'
    <3>1. \A q \in Accepts : Claiming(q)' => invites'[reqs'[q].invite].status # "pending"
      BY <2>1, <2>2, <2>5, <1>a DEF ClaimExclusive, i
    <3>2. \A p, q \in Accepts :
            Claiming(p)' /\ Claiming(q)' /\ reqs'[p].invite = reqs'[q].invite => p = q
      BY <2>1, <2>5, <2>6 DEF ClaimExclusive, i
    <3> QED BY <3>1, <3>2 DEF ClaimExclusive
  <2>10. MemberIsRecorded'
    BY <2>1, <2>2, <2>7, <2>k, <1>a, <1>c DEF MemberIsRecorded
  <2>11. RedeemedForGood' /\ MakersFinished'
    BY <2>1, <2>2, <2>5, <2>7, <2>k, <1>a, <1>b, <1>c DEF RedeemedForGood, MakersFinished, i
  <2>12. RequestsSound'
    BY <2>1, <2>2, <2>3, <2>5, <2>6, <1>a DEF RequestsSound, i
  <2> QED BY <2>4, <2>8, <2>9, <2>10, <2>11, <2>12
<1>4. ASSUME AcceptCreate(r) PROVE InviteInv'
  <2>1. /\ \A q \in Accepts \ {r} : reqs'[q] = reqs[q]
        /\ \A q \in Accepts : reqs'[q].invite = reqs[q].invite /\ reqs'[q].user = reqs[q].user
        /\ reqs[r].pc = "claimed" /\ reqs'[r].pc = "done" /\ invites' = invites
        /\ reqs'[r].outcome = "accepted"
    BY <1>4, OtherRequests DEF Finish, AcceptCreate
  <2>2. Claiming(r) /\ reqs[r].user \in Users /\ invites[reqs[r].invite].by = reqs[r].user
    BY <2>1 DEF RequestsSound, Claiming
  <2>3. /\ memberships' = memberships \union {NewRow(r)}
        /\ NewRow(r).via = r /\ NewRow(r).user = reqs[r].user /\ NewRow(r) \in Member
    BY <1>4, <1>a, <2>2 DEF AcceptCreate, NewRow, Member, TypeOK, Invite
  <2>4. TypeOK'
    <3>1. reqs' \in [Accepts -> Request]
      BY <1>4, MoveType DEF AcceptCreate, Finish
    <3> QED BY <1>4, <2>3, <3>1 DEF AcceptCreate, TypeOK
  <2>5. \A q \in Accepts : Claiming(q)' => Claiming(q) /\ q # r
    BY <2>1 DEF Claiming
  <2>6. /\ \A m \in memberships : Answered(m) => reqs[m.via].invite # reqs[r].invite
        /\ \A m \in memberships : m.via # "admin" => m.via # r
        /\ \A m \in memberships : Answered(m)' <=> Answered(m)
    BY <2>2, <2>1, <1>b DEF RedeemedForGood, MakersFinished, Answered
  <2>7. PendingIsUnowned' /\ ClaimExclusive'
    BY <2>1, <2>5 DEF PendingIsUnowned, ClaimExclusive
  <2>8. TokenSpentOnce'
    BY <2>1, <2>3, <2>6, <1>c DEF TokenSpentOnce
  <2>9. MemberIsRecorded'
    BY <2>1, <2>2, <2>3, <2>6, <1>c DEF MemberIsRecorded
  <2>10. RedeemedForGood' /\ MakersFinished'
    BY <2>1, <2>2, <2>3, <2>5, <2>6, <1>b, <1>c DEF RedeemedForGood, ClaimExclusive, MakersFinished
  <2>11. RequestsSound'
    BY <2>1, <2>5 DEF RequestsSound
  <2> QED BY <2>4, <2>7, <2>8, <2>9, <2>10, <2>11
<1>5. ASSUME AcceptRevert(r) PROVE InviteInv'
  <2> DEFINE i == reqs[r].invite
  <2>1. /\ \A q \in Accepts \ {r} : reqs'[q] = reqs[q]
        /\ \A q \in Accepts : reqs'[q].invite = reqs[q].invite /\ reqs'[q].user = reqs[q].user
        /\ reqs[r].pc = "revert" /\ reqs'[r].pc = "done" /\ memberships' = memberships
        /\ reqs'[r].outcome = reqs[r].outcome
    BY <1>5, OtherRequests DEF Finish, AcceptRevert
  <2>k. \A m \in memberships : Answered(m)' <=> Answered(m)
    BY <2>1, AnsweredKept
  <2>2. /\ \A j \in Invites : j # i => invites'[j] = invites[j]
        /\ invites'[i].status = "pending" /\ invites'[i].by = NoUser
    BY <1>5, <1>a DEF AcceptRevert, TypeOK, Invite
  <2>3. TypeOK'
    <3>1. reqs' \in [Accepts -> Request]
      BY <1>5, <1>a, MoveType DEF AcceptRevert, Finish, Request
    <3>2. invites' \in [Invites -> Invite]
      BY <1>5, <1>a DEF AcceptRevert, TypeOK, Invite
    <3> QED BY <1>5, <3>1, <3>2 DEF AcceptRevert, TypeOK
  <2>4. \A q \in Accepts : Claiming(q)' => Claiming(q) /\ q # r
    BY <2>1 DEF Claiming
  <2>5. \A q \in Accepts : Claiming(q) /\ q # r => reqs[q].invite # i
    BY <2>1 DEF ClaimExclusive, Claiming
  <2>6. \A m \in memberships : Answered(m) => reqs[m.via].invite # i /\ m.via # r
    BY <2>1 DEF RedeemedForGood, Claiming
  <2> HIDE DEF i
  <2>7. PendingIsUnowned' /\ TokenSpentOnce'
    BY <2>1, <2>2, <2>k, <1>c DEF PendingIsUnowned, TokenSpentOnce
  <2>8. ClaimExclusive'
    BY <2>1, <2>2, <2>4, <2>5, <1>a DEF ClaimExclusive
  <2>9. MemberIsRecorded' /\ MakersFinished' /\ RedeemedForGood'
    BY <2>1, <2>2, <2>4, <2>6, <2>k, <1>a, <1>b, <1>c DEF MemberIsRecorded, MakersFinished, RedeemedForGood
  <2>10. RequestsSound'
    BY <2>1, <2>2, <2>4, <2>5, <1>a DEF RequestsSound
  <2> QED BY <2>3, <2>7, <2>8, <2>9, <2>10
\* The steps that only move the request: no new claim, and no other change.
<1>6. ASSUME \/ AcceptLost(r) \/ AcceptConflict(r) \/ AcceptError(r)
             \/ AcceptRevertFails(r) \/ Crash(r)
      PROVE  InviteInv'
  <2>1. /\ \A q \in Accepts \ {r} : reqs'[q] = reqs[q]
        /\ \A q \in Accepts : reqs'[q].invite = reqs[q].invite /\ reqs'[q].user = reqs[q].user
        /\ invites' = invites /\ memberships' = memberships /\ due' = due
    BY <1>6, OtherRequests DEF Finish, AcceptLost, AcceptConflict, AcceptError, AcceptRevertFails, Crash
  <2>2. /\ reqs[r].pc \notin {"idle", "done"}
        /\ \/ reqs'[r].pc = "done"
           \/ reqs'[r].pc = "revert" /\ reqs[r].pc = "claimed"
        /\ reqs'[r].outcome # "accepted"
    BY <1>6, OtherRequests DEF Finish, AcceptLost, AcceptConflict, AcceptError, AcceptRevertFails,
       Crash
  <2>k. \A m \in memberships : Answered(m)' <=> Answered(m)
    BY <2>1, <2>2, AnsweredKept
  <2>3. TypeOK'
    BY <1>6, <1>a DEF AcceptLost, AcceptConflict, AcceptError, AcceptRevertFails, Crash,
       Finish, Move, TypeOK, Request
  <2>4. \A q \in Accepts : Claiming(q)' => Claiming(q)
    BY <2>1, <2>2 DEF Claiming
  <2>5. PendingIsUnowned' /\ TokenSpentOnce'
    BY <2>1, <2>k, <1>c DEF PendingIsUnowned, TokenSpentOnce
  <2>6. ClaimExclusive'
    BY <2>1, <2>4 DEF ClaimExclusive
  <2>7. MemberIsRecorded' /\ MakersFinished' /\ RedeemedForGood'
    BY <2>1, <2>2, <2>4, <2>k, <1>b, <1>c DEF MemberIsRecorded, MakersFinished, RedeemedForGood
  <2>8. RequestsSound'
    BY <2>1, <2>2, <2>4 DEF RequestsSound
  <2> QED BY <2>3, <2>5, <2>6, <2>7, <2>8
\* The row is there, and the request does not know it.
<1>7. ASSUME AcceptAckLost(r) PROVE InviteInv'
  <2>1. /\ \A q \in Accepts \ {r} : reqs'[q] = reqs[q]
        /\ \A q \in Accepts : reqs'[q].invite = reqs[q].invite /\ reqs'[q].user = reqs[q].user
        /\ reqs[r].pc = "claimed" /\ reqs'[r].pc = "revert" /\ reqs'[r].outcome = "error"
        /\ invites' = invites
    BY <1>7, OtherRequests DEF AcceptAckLost
  <2>2. Claiming(r) /\ reqs[r].user \in Users
    BY <2>1 DEF RequestsSound, Claiming
  <2>3. /\ memberships' = memberships \union {NewRow(r)}
        /\ NewRow(r).via = r /\ NewRow(r) \in Member
    BY <1>7, <1>a, <2>2 DEF AcceptAckLost, NewRow, Member, TypeOK, Invite
  <2>4. TypeOK'
    <3>1. reqs' \in [Accepts -> Request]
      BY <1>7, MoveType DEF AcceptAckLost
    <3> QED BY <1>7, <2>3, <3>1 DEF AcceptAckLost, TypeOK
  <2>k. \A m \in memberships : Answered(m)' <=> Answered(m)
    BY <2>1, AnsweredKept
  <2>5. \A m \in memberships' : Answered(m)' => m \in memberships /\ Answered(m)
    BY <2>1, <2>3, <2>k DEF Answered
  <2>6. \A q \in Accepts : Claiming(q)' => Claiming(q)
    BY <2>1 DEF Claiming
  <2>7. PendingIsUnowned' /\ ClaimExclusive'
    BY <2>1, <2>6 DEF PendingIsUnowned, ClaimExclusive
  <2>8. TokenSpentOnce' /\ MemberIsRecorded'
    BY <2>1, <2>5, <1>c DEF TokenSpentOnce, MemberIsRecorded
  <2>9. RedeemedForGood' /\ MakersFinished'
    <3>1. \A m \in memberships : Answered(m) => m.via # r
      BY <2>1 DEF RedeemedForGood
    <3> QED BY <2>1, <2>3, <2>5, <2>6, <3>1, <1>b, <1>c DEF RedeemedForGood, MakersFinished
  <2>10. RequestsSound'
    BY <2>1, <2>6 DEF RequestsSound
  <2> QED BY <2>4, <2>7, <2>8, <2>9, <2>10
<1> QED BY <1>1, <1>2, <1>3, <1>4, <1>5, <1>6, <1>7 DEF Step, Fault

\* Every step of the service keeps the inductive invariant.
LEMMA InviteInvNext == InviteInv /\ [Next]_vars => InviteInv'
<1> SUFFICES ASSUME InviteInv, [Next]_vars PROVE InviteInv'
  OBVIOUS
<1>1. CASE UNCHANGED vars
  BY <1>1 DEF vars, InviteInv, TypeOK, PendingIsUnowned, ClaimExclusive, TokenSpentOnce,
     MemberIsRecorded, RequestsSound, MakersFinished, RedeemedForGood, Answered, Claiming
<1> QED BY <1>1, AdminNext, AcceptNext DEF Next

\* The inductive invariant holds in every reachable state.
THEOREM InviteInvCorrect == Spec => []InviteInv
  BY InviteInvInit, InviteInvNext, PTL DEF Spec

\* One token is accepted once, however many requests carry it and whatever
\* fails, is revoked, expires or crashes in between.
THEOREM TokensAreSpentOnce == Spec => []TokenSpentOnce
<1>1. InviteInv => TokenSpentOnce
  BY DEF InviteInv
<1> QED BY InviteInvCorrect, <1>1, PTL

\* The conditional UPDATE of accept() excludes every other claim.
THEOREM ClaimsExclude == Spec => []ClaimExclusive
<1>1. InviteInv => ClaimExclusive
  BY DEF InviteInv
<1> QED BY InviteInvCorrect, <1>1, PTL

\* accepted_by_user_id names the user who holds the membership.
THEOREM MembersAreRecorded == Spec => []MemberIsRecorded
<1>1. InviteInv => MemberIsRecorded
  BY DEF InviteInv
<1> QED BY InviteInvCorrect, <1>1, PTL

(***************************************************************************)
(* Accepted invitations have their membership.                             *)
(***************************************************************************)

\* What redeems, holds or has lost an accepted invitation is still there after a
\* step that changes only requests of other invitations, unfinished requests that
\* hold no claim, and rows.
LEMMA AccountedKept ==
  ASSUME NEW i, Redeemed(i) # {} \/ Claimants(i) # {}
                \/ \E q \in Accepts : reqs[q].invite = i /\ reqs[q].outcome \in {"crashed", "stuck"},
         \A m \in memberships : m.via \in Accepts \union {"admin"},
         \A q \in Accepts : reqs[q].invite = i =>
           /\ reqs'[q].invite = i
           /\ Claiming(q) => Claiming(q)' \/ reqs'[q].outcome \in {"crashed", "stuck"}
           /\ reqs[q].outcome \in {"accepted", "crashed", "stuck"} =>
                reqs'[q].outcome = reqs[q].outcome,
         \A m \in memberships : \E n \in memberships' : n.via = m.via
  PROVE  \/ Redeemed(i)' # {} \/ Claimants(i)' # {}
         \/ \E q \in Accepts : reqs'[q].invite = i /\ reqs'[q].outcome \in {"crashed", "stuck"}
<1>1. CASE Redeemed(i) # {}
  <2>1. PICK m \in memberships : Answered(m) /\ reqs[m.via].invite = i
    BY <1>1 DEF Redeemed
  <2>2. PICK n \in memberships' : n.via = m.via
    OBVIOUS
  <2>3. m.via \in Accepts /\ n.via # "admin" /\ reqs'[n.via].outcome = "accepted"
        /\ reqs'[n.via].invite = i
    BY <2>1, <2>2 DEF Answered
  <2> QED BY <2>3 DEF Redeemed, Answered
<1>2. CASE Claimants(i) # {}
  BY <1>2 DEF Claimants
<1>3. CASE \E q \in Accepts : reqs[q].invite = i /\ reqs[q].outcome \in {"crashed", "stuck"}
  BY <1>3
<1> QED BY <1>1, <1>2, <1>3

\* Every step keeps the membership of an accepted invitation accounted for.
LEMMA AcceptedNext ==
  ASSUME InviteInv, LostAreDone, AcceptedMeansMember, [Next]_vars
  PROVE  LostAreDone' /\ AcceptedMeansMember'
<1> USE DEF InviteInv
<1>a. \A q \in Accepts : reqs[q].invite \in Invites /\ reqs[q] \in Request
  BY DEF TypeOK, Request
<1>b. \A m \in memberships : m.via \in Accepts \union {"admin"}
  BY DEF TypeOK, Member
<1>c. \A q \in Accepts : reqs[q].outcome \in {"crashed", "stuck"} => reqs[q].pc = "done"
  BY DEF LostAreDone
<1>1. CASE UNCHANGED vars
  BY <1>1 DEF vars, LostAreDone, AcceptedMeansMember, Redeemed, Claimants, Answered, Claiming
\* The administrators move no request.
<1>2. CASE \/ \E i \in Invites, wide \in BOOLEAN : Create(i, wide)
           \/ \E i \in Invites : Revoke(i) \/ Deadline(i)
           \/ \E u \in Users, wide \in BOOLEAN : AdminCreate(u, wide)
           \/ \E m \in memberships : Disable(m)
  <2>1. reqs' = reqs
    BY <1>2 DEF Create, Revoke, Deadline, AdminCreate, Disable
  <2>2. \A i \in Invites : invites'[i].status = "accepted" => invites[i].status = "accepted"
    BY <1>2 DEF Create, Revoke, Deadline, AdminCreate, Disable, TypeOK, Invite
  <2>3. \A m \in memberships : \E n \in memberships' : n.via = m.via
    <3>1. CASE \E m \in memberships : Disable(m)
      <4>1. PICK d \in memberships : Disable(d)
        BY <3>1
      <4>2. [d EXCEPT !.status = "disabled"].via = d.via
        BY DEF TypeOK, Member
      <4> QED BY <4>1, <4>2 DEF Disable
    <3> QED BY <1>2, <3>1 DEF Create, Revoke, Deadline, AdminCreate
  <2>4. \A q \in Accepts : Claiming(q) => Claiming(q)'
    BY <2>1 DEF Claiming
  <2>5. LostAreDone'
    BY <2>1 DEF LostAreDone
  <2>6. AcceptedMeansMember'
    BY <2>1, <2>2, <2>3, <2>4, <1>b, AccountedKept DEF AcceptedMeansMember
  <2> QED BY <2>5, <2>6
<1>3. ASSUME NEW r \in Accepts,
             \/ \E u \in Users : AcceptRead(r, u)
             \/ Step(r) \/ Fault(r)
      PROVE  LostAreDone' /\ AcceptedMeansMember'
  <2>i. PICK i \in Invites : i = reqs[r].invite
    BY <1>a
  <2>1. /\ \A q \in Accepts \ {r} : reqs'[q] = reqs[q]
        /\ reqs'[r].invite = i /\ reqs[r].pc # "done"
    <3>1. CASE \E u \in Users : AcceptRead(r, u)
      BY <3>1, <1>a, <2>i DEF AcceptRead, TypeOK, Request
    <3>2. CASE Step(r) \/ Fault(r)
      BY <3>2, <2>i, OtherRequests DEF Step, Fault, Finish, AcceptExpire, AcceptClaim, AcceptLost,
         AcceptCreate, AcceptConflict, AcceptRevert, AcceptError, AcceptAckLost,
         AcceptRevertFails, Crash
    <3> QED BY <1>3, <3>1, <3>2
  <2>2. reqs[r].outcome \notin {"crashed", "stuck"}
    BY <1>c, <2>1
  <2>3. \A j \in Invites : j # i => invites'[j] = invites[j]
    BY <1>3, <1>a, <2>i DEF Step, Fault, AcceptRead, AcceptExpire, AcceptClaim, AcceptLost,
       AcceptCreate, AcceptConflict, AcceptRevert, AcceptError, AcceptAckLost,
       AcceptRevertFails, Crash, TypeOK
  <2>4. \A m \in memberships : \E n \in memberships' : n.via = m.via
    BY <1>3 DEF Step, Fault, AcceptRead, AcceptExpire, AcceptClaim, AcceptLost,
       AcceptCreate, AcceptConflict, AcceptRevert, AcceptError, AcceptAckLost,
       AcceptRevertFails, Crash
  <2>5. LostAreDone'
    <3>1. reqs'[r].outcome \in {"crashed", "stuck"} => reqs'[r].pc = "done"
      <4>1. CASE \E u \in Users : AcceptRead(r, u)
        BY <4>1, <1>a DEF AcceptRead, TypeOK, Request
      <4>2. CASE Step(r) \/ Fault(r)
        BY <4>2, OtherRequests DEF Step, Fault, Finish, AcceptExpire, AcceptClaim, AcceptLost,
           AcceptCreate, AcceptConflict, AcceptRevert, AcceptError, AcceptAckLost,
           AcceptRevertFails, Crash
      <4> QED BY <1>3, <4>1, <4>2
    <3> QED BY <2>1, <3>1, <1>c DEF LostAreDone
  \* The invitations of other requests.
  <2>6. \A q \in Accepts \ {r} : Claiming(q) => Claiming(q)'
    BY <2>1 DEF Claiming
  <2>7. ASSUME NEW j \in Invites, invites'[j].status = "accepted", j # i
        PROVE  \/ Redeemed(j)' # {} \/ Claimants(j)' # {}
               \/ \E q \in Accepts : reqs'[q].invite = j /\ reqs'[q].outcome \in {"crashed", "stuck"}
    <3>1. invites[j].status = "accepted"
      BY <2>3, <2>7
    <3>2. \A q \in Accepts : reqs[q].invite = j => q # r /\ reqs'[q] = reqs[q]
      BY <2>1, <2>7, <2>i
    <3> QED BY <3>1, <3>2, <2>4, <2>6, <1>b, AccountedKept DEF AcceptedMeansMember
  \* Its own.
  <2>8. ASSUME invites'[i].status = "accepted"
        PROVE  \/ Redeemed(i)' # {} \/ Claimants(i)' # {}
               \/ \E q \in Accepts : reqs'[q].invite = i /\ reqs'[q].outcome \in {"crashed", "stuck"}
    <3>1. CASE AcceptExpire(r) \/ AcceptRevert(r)
      BY <3>1, <2>8, <1>a, <2>i DEF AcceptExpire, AcceptRevert, TypeOK, Invite
    <3>2. CASE AcceptCreate(r)
      <4>1. /\ NewRow(r) \in memberships' /\ NewRow(r).via = r
            /\ reqs'[r].outcome = "accepted" /\ reqs'[r].invite = i
        BY <3>2, <2>1, OtherRequests DEF AcceptCreate, Finish, NewRow
      <4> QED BY <4>1 DEF Redeemed, Answered
    <3>3. CASE AcceptRevertFails(r) \/ Crash(r)
      <4>1. reqs'[r].outcome \in {"crashed", "stuck"} /\ reqs'[r].invite = i
        BY <3>3, <2>1, OtherRequests DEF AcceptRevertFails, Crash, Finish
      <4> QED BY <4>1
    <3>4. CASE AcceptClaim(r) \/ AcceptConflict(r) \/ AcceptError(r) \/ AcceptAckLost(r)
      <4>1. reqs'[r].pc \in {"claimed", "revert"} /\ reqs'[r].invite = i
        BY <3>4, <2>1, OtherRequests DEF AcceptClaim, AcceptConflict, AcceptError, AcceptAckLost
      <4> QED BY <4>1 DEF Claimants, Claiming
    \* The steps of a request without a claim.
    <3>5. CASE \/ AcceptLost(r)
               \/ \E u \in Users : AcceptRead(r, u)
      <4>1. ~ Claiming(r) /\ reqs[r].pc \in {"idle", "read"}
            /\ invites' = invites /\ memberships' = memberships
        BY <3>5 DEF AcceptLost, AcceptRead, Claiming
      <4>2. \A m \in memberships : m.via # r
        BY <4>1, <1>b DEF MakersFinished
      <4>3. invites[i].status = "accepted"
        BY <4>1, <2>8
      <4>4. \A q \in Claimants(i) : q # r /\ q \in Claimants(i)'
        BY <4>1, <2>1, <2>6, <2>i DEF Claimants
      <4>5. \A m \in Redeemed(i) : m \in Redeemed(i)'
        BY <4>1, <4>2, <2>1, <1>b DEF Redeemed, Answered
      <4> QED BY <4>3, <4>4, <4>5, <2>1, <2>2, <1>a, <2>i DEF AcceptedMeansMember
    <3> QED BY <1>3, <3>1, <3>2, <3>3, <3>4, <3>5 DEF Step, Fault
  <2>9. AcceptedMeansMember'
    <3> SUFFICES ASSUME NEW j \in Invites, invites'[j].status = "accepted"
        PROVE  \/ Redeemed(j)' # {} \/ Claimants(j)' # {}
               \/ \E q \in Accepts : reqs'[q].invite = j /\ reqs'[q].outcome \in {"crashed", "stuck"}
      BY DEF AcceptedMeansMember
    <3>1. CASE j = i
      BY <3>1, <2>8
    <3>2. CASE j # i
      BY <3>2, <2>7
    <3> QED BY <3>1, <3>2
  <2> QED BY <2>5, <2>9
<1> QED BY <1>1, <1>2, <1>3 DEF Next

\* An accepted invitation has its membership, unless a request is still at it or
\* was lost to a crash or a failed revert.
THEOREM AcceptedAreMembers == Spec => []AcceptedMeansMember
<1> DEFINE AcceptedInv == InviteInv /\ LostAreDone /\ AcceptedMeansMember
<1>1. Init => AcceptedInv
  <2> SUFFICES ASSUME Init PROVE LostAreDone /\ AcceptedMeansMember
    BY InviteInvInit
  <2>1. \A r \in Accepts : reqs[r].outcome = "none"
    BY DEF Init
  <2>2. \A i \in Invites : invites[i].status = "absent"
    BY DEF Init
  <2> QED BY <2>1, <2>2 DEF LostAreDone, AcceptedMeansMember
<1>2. AcceptedInv /\ [Next]_vars => AcceptedInv'
  BY InviteInvNext, AcceptedNext
<1> QED BY <1>1, <1>2, PTL DEF Spec
=============================================================================
