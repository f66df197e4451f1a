----------------------------- MODULE ActionBudget -----------------------------
(***************************************************************************)
(* The two accounts that bound the work of one GuardedRuntime:             *)
(*                                                                         *)
(*   - BudgetState (budgets.py), the task budget: attempts, concurrent     *)
(*     actions, fan-out and cost, with the one-shot ActionBudgetLease      *)
(*     (components.py) through which an admitted action gives its slot     *)
(*     back;                                                               *)
(*   - BoundedOperationTracker (components.py), the account of worker      *)
(*     threads, which a worker that outlived its caller's wait keeps       *)
(*     charged until it exits.                                             *)
(*                                                                         *)
(* The operators are the values the accounts take; GuardedRuntime says who *)
(* calls them and when.  Every one of them runs under the lock of its own  *)
(* object in the code, so each is one atomic step.                         *)
(*                                                                         *)
(* Left out: the sliding one-second window of max_actions_per_second,      *)
(* whose refusal has the effect of any other refusal of acquire (see       *)
(* "rate" in GuardedRuntime).                                              *)
(***************************************************************************)
EXTENDS Integers, Proposals

CONSTANTS
    MaxActions,     \* Budget.max_actions
    MaxConcurrent,  \* Budget.max_concurrent
    MaxFanOut,      \* Budget.max_fan_out
    MaxCost,        \* Budget.max_cost_units
    MaxWorkers      \* RuntimeConfig.max_timed_out_workers

\* BudgetState.__init__, BoundedOperationTracker.__init__: limits are positive.
ASSUME LimitsArePositive ==
    {MaxActions, MaxConcurrent, MaxFanOut, MaxCost, MaxWorkers} \subseteq Nat \ {0}

VARIABLES
    budget,   \* [Runtimes -> the counters of BudgetState]
    lease,    \* [Calls -> ActionBudgetLease]
    tracker   \* [Runtimes -> the counters of BoundedOperationTracker]

accountVars == <<budget, lease, tracker>>

Counters == [actions: Nat, active: Nat, fanOut: Nat, cost: Nat]

\* taken: the call holds a slot it acquired (the lease object is reachable).
Leases == [taken: BOOLEAN, deferred: BOOLEAN, released: BOOLEAN]

Account == [bounded: Nat, timedOut: Nat]

AccountTypeOK ==
    /\ budget \in [Runtimes -> Counters]
    /\ lease \in [Calls -> Leases]
    /\ tracker \in [Runtimes -> Account]

FreshBudget == [actions |-> 0, active |-> 0, fanOut |-> 0, cost |-> 0]
FreshLease == [taken |-> FALSE, deferred |-> FALSE, released |-> FALSE]
TakenLease == [taken |-> TRUE, deferred |-> FALSE, released |-> FALSE]
FreshAccount == [bounded |-> 0, timedOut |-> 0]

AccountInit ==
    /\ budget = [r \in Runtimes |-> FreshBudget]
    /\ lease = [c \in Calls |-> FreshLease]
    /\ tracker = [r \in Runtimes |-> FreshAccount]

-----------------------------------------------------------------------------
(* BudgetState *)

\* acquire: every limit leaves room for one more action of this cost.
CanAcquire(b, units) ==
    /\ b.actions < MaxActions
    /\ b.active < MaxConcurrent
    /\ b.fanOut < MaxFanOut
    /\ b.cost + units <= MaxCost

Acquired(b, units) ==
    [actions |-> b.actions + 1, active |-> b.active + 1,
     fanOut |-> b.fanOut + 1, cost |-> b.cost + units]

\* release: a duplicate release leaves the counters alone.
Released(b) ==
    IF b.active > 0 /\ b.fanOut > 0
    THEN [b EXCEPT !.active = @ - 1, !.fanOut = @ - 1]
    ELSE b

-----------------------------------------------------------------------------
(* ActionBudgetLease *)

\* Mutant of Deferred: a timeout does not mark the lease.
NotDeferred(l) == l

Deferred(l) == [l EXCEPT !.deferred = l.taken]

\* release_once releases the budget only the first time it is called, and
\* only for a call that holds a lease.
Releases(l) == l.taken /\ ~l.released

ReleasedOnce(l) == [l EXCEPT !.released = l.taken]

\* Mutant of BudgetAfterRelease: every callback releases.
BudgetReleasedEachTime(b, l) == IF l.taken THEN Released(b) ELSE b

BudgetAfterRelease(b, l) == IF Releases(l) THEN Released(b) ELSE b

-----------------------------------------------------------------------------
(* BoundedOperationTracker and BoundedOperationLease *)

CanAdmit(t) == t.bounded < MaxWorkers

Admitted(t) == [t EXCEPT !.bounded = @ + 1]

\* mark_timeout: the worker keeps its slot.
MarkedTimeout(t) == [t EXCEPT !.timedOut = @ + 1]

\* Mutant of Completed: the timeout mark is never taken back.
CompletedKeepsMark(t, wasLate) == [t EXCEPT !.bounded = @ - 1]

\* complete: the worker is gone, and with it its timeout mark if it has one.
Completed(t, wasLate) ==
    [bounded |-> t.bounded - 1,
     timedOut |-> IF wasLate THEN t.timedOut - 1 ELSE t.timedOut]
=============================================================================
