----------------------------- MODULE Invitations -----------------------------
(***************************************************************************)
(* Invitation tokens that turn into memberships: InvitationService         *)
(* (authzkit/security/invitations.py), its endpoints                       *)
(* (authz_service/api/invitations.py) and the membership insert they end   *)
(* in (SqlAlchemyStore.create_membership).                                 *)
(*                                                                         *)
(* accept() runs in up to three transactions: claim the invitation, create *)
(* the membership, and, if that raised, put the invitation back.  Each     *)
(* statement that other requests can interleave with is a step.  One       *)
(* tenant and one application; an invitation is to the application or to   *)
(* the whole tenant (application_id NULL).  Tokens are not guessed, so a   *)
(* request names the invitation it has the token of, or an unknown one.    *)
(***************************************************************************)
EXTENDS Integers, FiniteSets

CONSTANTS Invites,   \* invitation ids, each with its token
          Users,     \* users accepting them
          Accepts,   \* accept requests, each made once
          NoUser,    \* NULL
          Faults     \* what goes wrong: "error", "ackLost", "crash"

ASSUME FaultsAssumption == Faults \subseteq {"error", "ackLost", "crash"}
ASSUME NoUserAssumption == NoUser \notin Users
ASSUME AdminAssumption == "admin" \notin Accepts

VARIABLES invites,      \* the invitations table
          due,          \* invitations whose expires_at has passed
          memberships,  \* the memberships table, a row per creator
          reqs          \* accept requests: where they are, what they know

vars == <<invites, due, memberships, reqs>>

Invite  == [status : {"absent", "pending", "accepted", "expired", "revoked"},
            wide : BOOLEAN, by : Users \union {NoUser}]
\* via: the accept request, or the administrator, that inserted the row.
Member  == [user : Users, wide : BOOLEAN, via : Accepts \union {"admin"},
            status : {"active", "disabled"}]
Request == [pc : {"idle", "expiring", "read", "claimed", "revert", "done"},
            invite : Invites, user : Users \union {NoUser},
            outcome : {"none", "accepted", "not_pending", "expired",
                       "conflict", "error", "stuck", "crashed"}]

\* UNIQUE (tenant_id, application_id, user_id): NULLs never conflict.
InsertAllowed(u, wide) == wide \/ ~ \E m \in memberships : m.user = u /\ ~ m.wide

Move(r, pc, outcome) == reqs' = [reqs EXCEPT ![r].pc = pc, ![r].outcome = outcome]
Finish(r, outcome) == Move(r, "done", outcome)

-----------------------------------------------------------------------------
Init == /\ invites = [i \in Invites |-> [status |-> "absent", wide |-> FALSE, by |-> NoUser]]
        /\ due = {}
        /\ memberships = {}
        /\ reqs \in [Accepts -> {[pc |-> "idle", invite |-> i, user |-> NoUser,
                                  outcome |-> "none"] : i \in Invites}]

(* Administrators *)

\* create_invitation: ttl_days is at least 1, so the deadline is ahead.
Create(i, wide) ==
  /\ invites[i].status = "absent"
  /\ invites' = [invites EXCEPT ![i] = [status |-> "pending", wide |-> wide, by |-> NoUser]]
  /\ UNCHANGED <<due, memberships, reqs>>

\* revoke: whatever the status is.  The row is read first and not written when
\* it is revoked already, which is as if this step came before what undid it.
Revoke(i) ==
  /\ invites[i].status # "absent"
  /\ invites' = [invites EXCEPT ![i].status = "revoked"]
  /\ UNCHANGED <<due, memberships, reqs>>

\* create_membership through the REST API, once per user and scope here.
AdminCreate(u, wide) ==
  /\ InsertAllowed(u, wide)
  /\ ~ \E m \in memberships : m.user = u /\ m.wide = wide /\ m.via = "admin"
  /\ memberships' = memberships \union
       {[user |-> u, wide |-> wide, via |-> "admin", status |-> "active"]}
  /\ UNCHANGED <<invites, due, reqs>>

\* update_membership
Disable(m) ==
  /\ m.status = "active"
  /\ memberships' = (memberships \ {m}) \union {[m EXCEPT !.status = "disabled"]}
  /\ UNCHANGED <<invites, due, reqs>>

\* Time passes the deadline of i.
Deadline(i) ==
  /\ i \notin due
  /\ invites[i].status # "absent"
  /\ due' = due \union {i}
  /\ UNCHANGED <<invites, memberships, reqs>>

-----------------------------------------------------------------------------
(* accept *)

\* SELECT the row, check status, then the deadline.  (The user is resolved or
\* provisioned before.)
AcceptRead(r, u) ==
  LET i == reqs[r].invite IN
  /\ reqs[r].pc = "idle"
  /\ invites[i].status # "absent"
  /\ reqs' = [reqs EXCEPT ![r] =
       [invite |-> i, user |-> u,
        pc |-> IF invites[i].status # "pending" THEN "done"
               ELSE IF i \in due THEN "expiring" ELSE "read",
        outcome |-> IF invites[i].status # "pending" THEN "not_pending" ELSE "none"]]
  /\ UNCHANGED <<invites, due, memberships>>

\* row.status = EXPIRED; commit: an UPDATE by primary key.
AcceptExpire(r) ==
  /\ reqs[r].pc = "expiring"
  /\ invites' = [invites EXCEPT ![reqs[r].invite].status = "expired"]
  /\ Finish(r, "expired")
  /\ UNCHANGED <<due, memberships>>

\* Mutation: UPDATE without "WHERE status = 'pending'".
AcceptClaimUnchecked(r) ==
  LET i == reqs[r].invite IN
  /\ reqs[r].pc = "read"
  /\ invites' = [invites EXCEPT ![i].status = "accepted", ![i].by = reqs[r].user]
  /\ Move(r, "claimed", "none")
  /\ UNCHANGED <<due, memberships>>

\* UPDATE ... WHERE status = 'pending'; COMMIT.
AcceptClaim(r) ==
  LET i == reqs[r].invite IN
  /\ reqs[r].pc = "read"
  /\ invites[i].status = "pending"
  /\ invites' = [invites EXCEPT ![i].status = "accepted", ![i].by = reqs[r].user]
  /\ Move(r, "claimed", "none")
  /\ UNCHANGED <<due, memberships>>

\* ... or rowcount 0: another request or an administrator was faster.
AcceptLost(r) ==
  /\ reqs[r].pc = "read"
  /\ invites[reqs[r].invite].status # "pending"
  /\ Finish(r, "not_pending")
  /\ UNCHANGED <<invites, due, memberships>>

NewRow(r) == [user |-> reqs[r].user, wide |-> invites[reqs[r].invite].wide,
              via |-> r, status |-> "active"]

\* create_membership: its own session, the row and its role links commit.
AcceptCreate(r) ==
  /\ reqs[r].pc = "claimed"
  /\ InsertAllowed(reqs[r].user, invites[reqs[r].invite].wide)
  /\ memberships' = memberships \union {NewRow(r)}
  /\ Finish(r, "accepted")
  /\ UNCHANGED <<invites, due>>

\* Mutation: the exception is not caught.
AcceptConflictUncaught(r) ==
  /\ reqs[r].pc = "claimed"
  /\ ~ InsertAllowed(reqs[r].user, invites[reqs[r].invite].wide)
  /\ Finish(r, "conflict")
  /\ UNCHANGED <<invites, due, memberships>>

\* The unique constraint refuses the row: the user is a member already.
AcceptConflict(r) ==
  /\ reqs[r].pc = "claimed"
  /\ ~ InsertAllowed(reqs[r].user, invites[reqs[r].invite].wide)
  /\ Move(r, "revert", "conflict")
  /\ UNCHANGED <<invites, due, memberships>>

\* The database fails before the insert is committed ...
AcceptError(r) ==
  /\ "error" \in Faults
  /\ reqs[r].pc = "claimed"
  /\ Move(r, "revert", "error")
  /\ UNCHANGED <<invites, due, memberships>>

\* ... or after: the acknowledgement of the COMMIT is lost, or the SELECT of
\* the role names behind it raises.
AcceptAckLost(r) ==
  /\ "ackLost" \in Faults
  /\ reqs[r].pc = "claimed"
  /\ InsertAllowed(reqs[r].user, invites[reqs[r].invite].wide)
  /\ memberships' = memberships \union {NewRow(r)}
  /\ Move(r, "revert", "error")
  /\ UNCHANGED <<invites, due>>

\* Mutation: nothing is put back.
AcceptRevertDropped(r) ==
  /\ reqs[r].pc = "revert"
  /\ Finish(r, reqs[r].outcome)
  /\ UNCHANGED <<invites, due, memberships>>

\* "Best-effort revert so the operator can retry": by primary key, whatever
\* the status has become.
AcceptRevert(r) ==
  LET i == reqs[r].invite IN
  /\ reqs[r].pc = "revert"
  /\ invites' = [invites EXCEPT ![i].status = "pending", ![i].by = NoUser]
  /\ Finish(r, reqs[r].outcome)
  /\ UNCHANGED <<due, memberships>>

\* The revert fails too: logged, "needs manual repair".
AcceptRevertFails(r) ==
  /\ "error" \in Faults
  /\ reqs[r].pc = "revert"
  /\ Finish(r, "stuck")
  /\ UNCHANGED <<invites, due, memberships>>

\* The process dies: what it committed stays, the rest is gone.
Crash(r) ==
  /\ "crash" \in Faults
  /\ reqs[r].pc \notin {"idle", "done"}
  /\ Finish(r, "crashed")
  /\ UNCHANGED <<invites, due, memberships>>

Step(r) == \/ AcceptExpire(r) \/ AcceptClaim(r) \/ AcceptLost(r) \/ AcceptCreate(r)
           \/ AcceptConflict(r) \/ AcceptRevert(r)

Fault(r) == AcceptError(r) \/ AcceptAckLost(r) \/ AcceptRevertFails(r) \/ Crash(r)

Next ==
  \/ \E i \in Invites, wide \in BOOLEAN : Create(i, wide)
  \/ \E i \in Invites : Revoke(i) \/ Deadline(i)
  \/ \E u \in Users, wide \in BOOLEAN : AdminCreate(u, wide)
  \/ \E m \in memberships : Disable(m)
  \/ \E r \in Accepts, u \in Users : AcceptRead(r, u)
  \/ \E r \in Accepts : Step(r) \/ Fault(r)

Spec == Init /\ [][Next]_vars

\* A handler thread runs until it answers.
FairSpec == Spec /\ \A r \in Accepts : WF_vars(Step(r))

-----------------------------------------------------------------------------
(* Properties *)

TypeOK == /\ invites \in [Invites -> Invite]
          /\ due \subseteq Invites
          /\ memberships \subseteq Member
          /\ reqs \in [Accepts -> Request]

\* An invitation offered again carries no trace of who had claimed it.
PendingIsUnowned == \A i \in Invites : invites[i].status = "pending" => invites[i].by = NoUser

\* The requests that hold the claim on invitation i: between the conditional
\* UPDATE and the end of the revert.
Claiming(r) == reqs[r].pc \in {"claimed", "revert"}
Claimants(i) == {r \in Accepts : reqs[r].invite = i /\ Claiming(r)}
\* The membership of an accept whose request was answered with success.
Answered(m) == m.via # "admin" /\ reqs[m.via].outcome = "accepted"
Redeemed(i) == {m \in memberships : Answered(m) /\ reqs[m.via].invite = i}

\* The conditional UPDATE is a lock: no two requests ever create or undo for
\* the same invitation at once, and an invitation that can be claimed has
\* nobody still working on it, across revokes, expiries and reverts.
ClaimExclusive ==
  /\ \A r \in Accepts : Claiming(r) => invites[reqs[r].invite].status # "pending"
  /\ \A q, r \in Accepts :
       Claiming(q) /\ Claiming(r) /\ reqs[q].invite = reqs[r].invite => q = r

\* One token is accepted once: however many requests carry it, and although
\* an error puts the invitation back.
TokenSpentOnce ==
  \A m, n \in memberships :
    Answered(m) /\ Answered(n) /\ reqs[m.via].invite = reqs[n.via].invite => m.via = n.via

\* accepted_by_user_id is the user who got the membership, whatever was done to
\* the invitation since.
MemberIsRecorded ==
  \A m \in memberships : Answered(m) => invites[reqs[m.via].invite].by = m.user

\* An accepted invitation has its membership, unless a request is still at it
\* or one was lost to a crash or a failed revert.
AcceptedMeansMember ==
  \A i \in Invites :
    invites[i].status = "accepted" =>
      \/ Redeemed(i) # {} \/ Claimants(i) # {}
      \/ \E r \in Accepts : reqs[r].invite = i /\ reqs[r].outcome \in {"crashed", "stuck"}

\* "so the operator can retry": an invitation claimed and not redeemed is
\* redeemed, offered again or ended, unless its request was lost.
ClaimsResolve ==
  \A i \in Invites :
    (invites[i].status = "accepted" /\ Redeemed(i) = {}) ~>
      \/ Redeemed(i) # {} \/ invites[i].status # "accepted"
      \/ \E r \in Accepts : reqs[r].invite = i /\ reqs[r].outcome \in {"crashed", "stuck"}

(* What makes them inductive. *)

\* A request past its first read knows its user and an existing invitation;
\* while it holds the claim, the invitation names its user.
RequestsSound ==
  \A r \in Accepts : reqs[r].pc # "idle" =>
    /\ reqs[r].user \in Users
    /\ invites[reqs[r].invite].status # "absent"
    /\ Claiming(r) => invites[reqs[r].invite].by = reqs[r].user

\* A row is the work of a request past its insert.
MakersFinished ==
  \A m \in memberships : m.via # "admin" => reqs[m.via].pc \in {"revert", "done"}

\* An invitation redeemed by an answered request is neither pending nor
\* claimed any more.
RedeemedForGood ==
  \A m \in memberships : Answered(m) =>
    /\ reqs[m.via].pc = "done"
    /\ invites[reqs[m.via].invite].status # "pending"
    /\ \A r \in Accepts : Claiming(r) => reqs[r].invite # reqs[m.via].invite

\* A request lost to a crash or a failed revert does nothing more.
LostAreDone ==
  \A r \in Accepts : reqs[r].outcome \in {"crashed", "stuck"} => reqs[r].pc = "done"

InviteInv == /\ TypeOK /\ PendingIsUnowned /\ ClaimExclusive /\ TokenSpentOnce
             /\ MemberIsRecorded /\ RequestsSound /\ MakersFinished /\ RedeemedForGood
=============================================================================
