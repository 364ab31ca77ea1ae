---------------------------- MODULE GrantContract ----------------------------
(***************************************************************************)
(* What the service promises about delegation grants, without tokens,      *)
(* keys, rows or clocks: a grant stands from some moment on until it is    *)
(* over, for good; a call that presents a grant is honoured only if the    *)
(* grant stood at some moment of the call.  Refusing is always permitted.  *)
(***************************************************************************)
CONSTANTS Grants, Calls

VARIABLES standing,  \* "none", "standing" or "over", of each grant
          uses       \* the calls: the grant presented and how far the call is

contractVars == <<standing, uses>>

ContractInit == /\ standing = [g \in Grants |-> "none"]
                /\ \E g \in [Calls -> Grants] :
                     uses = [v \in Calls |-> [grant |-> g[v], state |-> "idle"]]

\* Grants come and end, several at once when time passes or the kill switch is
\* used; one may be over before it ever stood.  Nothing brings one back.
Change ==
  /\ standing' \in [Grants -> {"none", "standing", "over"}]
  /\ \A g \in Grants :
       /\ standing[g] = "over" => standing'[g] = "over"
       /\ standing[g] = "standing" => standing'[g] # "none"
  /\ UNCHANGED uses

Move(v, state) ==
  /\ uses' = [uses EXCEPT ![v] = [grant |-> uses[v].grant, state |-> state]]
  /\ UNCHANGED standing

Ask(v) == uses[v].state = "idle" /\ Move(v, "open")

\* The moment of the call at which the grant is found standing.
Confirm(v) ==
  /\ uses[v].state = "open"
  /\ standing[uses[v].grant] = "standing"
  /\ Move(v, "confirmed")

Honour(v) == uses[v].state = "confirmed" /\ Move(v, "honoured")

Refuse(v) == uses[v].state \in {"open", "confirmed"} /\ Move(v, "refused")

ContractNext == Change \/ \E v \in Calls : Ask(v) \/ Confirm(v) \/ Honour(v) \/ Refuse(v)

ContractSpec == ContractInit /\ [][ContractNext]_contractVars
=============================================================================
