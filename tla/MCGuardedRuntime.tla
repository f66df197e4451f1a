--------------------------- MODULE MCGuardedRuntime ---------------------------
(***************************************************************************)
(* Small instances of GuardedRuntime: a configuration picks the calls, and *)
(* from the definitions below the tool, key, action and approval id of     *)
(* each.                                                                   *)
(***************************************************************************)
EXTENDS GuardedRuntimeInvariants, TLC

CONSTANTS c1, c2, c3, r1, r2, k1, g1, f1, f2

Plain ==
    [known |-> TRUE, approval |-> FALSE, idem |-> FALSE, credential |-> FALSE,
     reconciles |-> FALSE, cost |-> 1]

Idempotent == [Plain EXCEPT !.idem = TRUE]

\* Processes
OneProcess == [c \in Calls |-> r1]
TwoProcesses == [c \in Calls |-> IF c = c2 THEN r2 ELSE r1]

\* Tools
PlainTools == [c \in Calls |-> Plain]
ReconciledAndPlain == [c \in Calls |-> [Plain EXCEPT !.reconciles = c = c1]]
IdempotentTools == [c \in Calls |-> Idempotent]
ReconciledIdempotent == [c \in Calls |-> [Idempotent EXCEPT !.reconciles = c = c1]]
ApprovedTools == [c \in Calls |-> [Plain EXCEPT !.approval = TRUE, !.credential = c = c1]]

\* Operation keys
NoKeys == [c \in Calls |-> None]
OneKey == [c \in Calls |-> k1]
KeyForgotten == [c \in Calls |-> IF c = c1 THEN k1 ELSE None]

\* Actions
OneAction == [c \in Calls |-> f1]
TwoActions == [c \in Calls |-> IF c = c3 THEN f2 ELSE f1]

\* Approval ids
NoGrants == [c \in Calls |-> None]
OneGrant == [c \in Calls |-> g1]

AllOps == Ops
StopTimeouts == {"handler", "reconcile", "failureAudit", "audit"}
=============================================================================
