---------------------------- MODULE ApprovalGrants ----------------------------
(***************************************************************************)
(* Approval grants (approvals.py, InMemoryApprovalProvider): an approver   *)
(* issues a grant under an approval id, bound to one exact action, and     *)
(* consume spends it at most once before it expires.  Both run under the   *)
(* provider's lock.  The binding (task, tool, proposal and action hash) is *)
(* one value, the fingerprint of the action.                               *)
(*                                                                         *)
(* issue overwrites whatever grant the id named before: reissuing makes a  *)
(* spent id spendable again.  MaxIssues bounds how often an id is issued.  *)
(***************************************************************************)
EXTENDS Integers, Proposals

CONSTANT MaxIssues   \* bound: how often an approver issues one id

ASSUME IssuesAreBounded == MaxIssues \in Nat

VARIABLE grants     \* [Grants -> the grant the id names]

GrantRecords ==
    [issues: 0..MaxIssues, binding: Fingerprints \cup {None}, used: BOOLEAN, lapsed: BOOLEAN]

GrantsTypeOK == grants \in [Grants -> GrantRecords]

NoGrantYet == [issues |-> 0, binding |-> None, used |-> FALSE, lapsed |-> FALSE]

GrantsInit == grants = [g \in Grants |-> NoGrantYet]

\* consume finds an unused, unexpired grant bound to exactly this action.
Consumable(g, action) ==
    /\ grants[g].issues > 0
    /\ ~grants[g].used
    /\ ~grants[g].lapsed
    /\ grants[g].binding = action

ConsumedGrants(g) == [grants EXCEPT ![g].used = TRUE]

\* Mutant of GrantsAfterConsume: the grant is not marked as used.
GrantsUnspent(g, action) == grants

\* The grants and the outcome a call of consume leaves behind.
GrantsAfterConsume(g, action) ==
    IF Consumable(g, action) THEN ConsumedGrants(g) ELSE grants

ConsumeOutcome(g, action) ==
    IF Consumable(g, action) THEN "consumed" ELSE "not_consumed"

-----------------------------------------------------------------------------
(* Environment: approvers issue grants, and grants expire. *)

Issue(g, action) ==
    /\ grants[g].issues < MaxIssues
    /\ grants' = [grants EXCEPT ![g] =
                    [issues |-> @.issues + 1, binding |-> action,
                     used |-> FALSE, lapsed |-> FALSE]]

Lapse(g) ==
    /\ grants[g].issues > 0
    /\ ~grants[g].lapsed
    /\ grants' = [grants EXCEPT ![g].lapsed = TRUE]
=============================================================================
