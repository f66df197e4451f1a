---------------------------- MODULE GuardedRuntime ----------------------------
(***************************************************************************)
(* GuardedRuntime.execute (runtime.py) with the components it drives: the  *)
(* permit gate, the bounded executor and the terminal recorder             *)
(* (components.py), the task budget (ActionBudget), the idempotency store  *)
(* (IdempotencyStore) and the approval provider (ApprovalGrants).          *)
(*                                                                         *)
(* A call is one thread inside execute(); pc says where it is.  Every      *)
(* provider (policy, approval, credential, handler, reconciliation, audit) *)
(* runs in a worker thread of its own, and the caller waits for it for a   *)
(* bounded time only: a worker that outlives the wait is "late" and goes   *)
(* on running beside a caller that has given up on it.  Several calls of   *)
(* one runtime share its stop flag, budget and worker account; all         *)
(* runtimes share the idempotency store and the approval provider, and a   *)
(* runtime may crash and restart with its volatile state lost.             *)
(*                                                                         *)
(* The caller's steps between two accesses to shared state are one action. *)
(* A worker other than the handler's takes effect when it returns, or, if  *)
(* late, when it exits; the handler's worker takes its steps one by one.   *)
(***************************************************************************)
EXTENDS ActionBudget, IdempotencyStore, ApprovalGrants

CONSTANTS
    Decisions,    \* what policies answer in this instance
    TimeoutOps,   \* operations whose wait may expire
    Faults,       \* providers that may fail
    MaxCrashes    \* bound on crashes of runtimes

ASSUME EnvironmentIsTyped ==
    /\ Decisions \subseteq {"allow", "deny", "approval_required"}
    /\ MaxCrashes \in Nat

VARIABLES
    pc,           \* where the call's thread is
    outcome,      \* the ExecutionResult under construction
    decision,     \* policy_result.decision
    approval,     \* approval_result.outcome
    minted,       \* a credential in scope is in the handler context
    started,      \* the handler was called
    effect,       \* the handler's side effect took place
    completion,   \* the completion Event of _run_handler
    settled,      \* history: the call's completed record was written
    returned,     \* how the handler's operation ended
    observed,     \* what the reconciliation worker saw
    logged,       \* the event of the call's outcome is in the audit sink
    worker,       \* the worker threads of the call
    late,         \* the operations whose worker outlived the wait
    stopped,      \* _stopped
    registered,   \* calls with a token in _active_tokens
    cancelled,    \* the call's CancellationToken
    idemLock,     \* holder of _idempotency_lock
    crashes

evidenceVars == <<decision, approval, minted>>
handlerVars  == <<started, effect, completion, returned>>
workerVars   == <<worker, late>>
hostVars     == <<stopped, registered, cancelled, idemLock>>
serviceVars  == <<store, grants, settled>>

vars ==
    <<pc, outcome, observed, logged, evidenceVars, handlerVars, workerVars,
      hostVars, serviceVars, accountVars, crashes>>

\* The bounded operations of one call; "failureAudit" writes the
\* reconciliation_failed event and "audit" the event of the outcome.
Ops == {"policy", "approval", "credential", "handler", "reconcile", "failureAudit", "audit"}

\* "cleared": the lifecycle gate has found the stop flag down and is about to
\* call the handler.  "exited": the handler's operation has ended, and its
\* future waits for the caller or for the done callback.
WorkerStates == {"none", "queued", "cleared", "running", "exited"}

Places ==
    {"idle", "register", "prepare", "policy", "replay", "claim", "approve", "approval",
     "mint", "credential", "invoke", "handler", "timedOut", "reconcile", "reportFailure",
     "failureAudit", "record", "audit", "store", "finish", "done"}

Statuses ==
    {"none", "denied", "approval_required", "executed", "executed_unrecorded",
     "executed_result_rejected", "timed_out", "cancelled", "failed", "lost"}

ReconciliationStates ==
    {"none", "unknown", "confirmed_complete", "confirmed_absent", "still_running", "failed"}

Outcomes ==
    [status: Statuses, recon: ReconciliationStates, audited: BOOLEAN, stored: BOOLEAN]

Endings == {"none", "ok", "bad_output", "raised", "blocked", "cancelled", "timeout_error"}

CallTypeOK ==
    /\ pc \in [Calls -> Places]
    /\ outcome \in [Calls -> Outcomes]

EvidenceTypeOK ==
    /\ decision \in [Calls -> {"none", "allow", "deny", "approval_required"}]
    /\ approval \in [Calls -> {"none", "consumed", "not_consumed", "unknown"}]
    /\ minted \in [Calls -> BOOLEAN]

HandlerTypeOK ==
    /\ {started, effect, completion} \subseteq [Calls -> BOOLEAN]
    /\ returned \in [Calls -> Endings]

WorkerTypeOK ==
    /\ worker \in [Calls -> [Ops -> WorkerStates]]
    /\ late \in [Calls -> SUBSET Ops]

HostTypeOK ==
    /\ stopped \in [Runtimes -> BOOLEAN]
    /\ registered \in [Runtimes -> SUBSET Calls]
    /\ cancelled \in [Calls -> BOOLEAN]
    /\ idemLock \in [Runtimes -> Calls \cup {None}]

HistoryTypeOK ==
    /\ {settled, logged} \subseteq [Calls -> BOOLEAN]
    /\ observed \in [Calls -> ReconciliationStates]
    /\ crashes \in 0..MaxCrashes

TypeOK ==
    /\ AccountTypeOK /\ StoreTypeOK /\ GrantsTypeOK
    /\ CallTypeOK /\ EvidenceTypeOK /\ HandlerTypeOK
    /\ WorkerTypeOK /\ HostTypeOK /\ HistoryTypeOK

FreshOutcome == [status |-> "none", recon |-> "none", audited |-> TRUE, stored |-> TRUE]

Init ==
    /\ AccountInit /\ StoreInit /\ GrantsInit
    /\ pc = [c \in Calls |-> "idle"]
    /\ outcome = [c \in Calls |-> FreshOutcome]
    /\ decision = [c \in Calls |-> "none"]
    /\ approval = [c \in Calls |-> "none"]
    /\ returned = [c \in Calls |-> "none"]
    /\ observed = [c \in Calls |-> "none"]
    /\ minted = [c \in Calls |-> FALSE]
    /\ started = [c \in Calls |-> FALSE]
    /\ effect = [c \in Calls |-> FALSE]
    /\ completion = [c \in Calls |-> FALSE]
    /\ settled = [c \in Calls |-> FALSE]
    /\ logged = [c \in Calls |-> FALSE]
    /\ cancelled = [c \in Calls |-> FALSE]
    /\ worker = [c \in Calls |-> [op \in Ops |-> "none"]]
    /\ late = [c \in Calls |-> {}]
    /\ stopped = [r \in Runtimes |-> FALSE]
    /\ registered = [r \in Runtimes |-> {}]
    /\ idemLock = [r \in Runtimes |-> None]
    /\ crashes = 0

-----------------------------------------------------------------------------
(* The caller's moves *)

Rt(c) == RuntimeOf[c]
Stopped(c) == stopped[Rt(c)]

Goto(c, place) == pc' = [pc EXCEPT ![c] = place]

Continue(c, place) == Goto(c, place) /\ UNCHANGED outcome

Answer(c, status, place) ==
    /\ outcome' = [outcome EXCEPT ![c].status = status]
    /\ Goto(c, place)

\* _deny: the answer is fixed, and its event has still to be recorded.
Deny(c) == Answer(c, "denied", "record")

\* BoundedOperationExecutor.run, up to the wait: admission, then submit.
Dispatch(c, op) ==
    /\ CanAdmit(tracker[Rt(c)])
    /\ tracker' = [tracker EXCEPT ![Rt(c)] = Admitted(@)]
    /\ worker' = [worker EXCEPT ![c][op] = IF op = "handler" THEN "queued" ELSE "running"]

\* WorkerCapacityError: the worker account is full and nothing is submitted.
NoCapacity(c) == ~CanAdmit(tracker[Rt(c)]) /\ UNCHANGED <<tracker, worker>>

NoDispatch == UNCHANGED <<tracker, worker>>

\* The worker ended within the wait: complete, and join its thread.
Collect(c, op) ==
    /\ worker' = [worker EXCEPT ![c][op] = "none"]
    /\ tracker' = [tracker EXCEPT ![Rt(c)] = Completed(@, FALSE)]

\* Mutant of ReleaseLease: the callback of a late worker releases nothing.
LeaseForgotten(c) ==
    /\ lease' = [lease EXCEPT ![c] = Deferred(@)]
    /\ UNCHANGED budget

\* The lease and the budget when a worker marked as timed out is gone.
ReleaseLease(c) ==
    /\ lease' = [lease EXCEPT ![c] = ReleasedOnce(Deferred(@))]
    /\ budget' = [budget EXCEPT ![Rt(c)] = BudgetAfterRelease(@, lease[c])]

-----------------------------------------------------------------------------
(* Admission *)

\* execute takes the idempotency lock of its runtime for a tool that requires
\* idempotency, and _execute_unlocked passes the first stop check and the
\* budget, or is denied without a lease.
Admit(c) ==
    /\ pc[c] = "idle"
    /\ Serialised(c) => idemLock[Rt(c)] = None
    /\ idemLock' = IF Serialised(c) THEN [idemLock EXCEPT ![Rt(c)] = c] ELSE idemLock
    /\ \/ /\ ~ToolOf[c].known \/ Stopped(c) \/ "rate" \in Faults
             \/ ~CanAcquire(budget[Rt(c)], ToolOf[c].cost)
          /\ Deny(c)
          /\ UNCHANGED <<budget, lease>>
       \/ /\ ToolOf[c].known /\ ~Stopped(c)
          /\ CanAcquire(budget[Rt(c)], ToolOf[c].cost)
          /\ budget' = [budget EXCEPT ![Rt(c)] = Acquired(@, ToolOf[c].cost)]
          /\ lease' = [lease EXCEPT ![c] = TakenLease]
          /\ Continue(c, "register")
    /\ UNCHANGED <<stopped, registered, cancelled, tracker, evidenceVars, handlerVars,
                   workerVars, serviceVars, observed, logged, crashes>>

\* The second stop check and the registration of the cancellation token, both
\* under _stop_lock.
Register(c) ==
    /\ pc[c] = "register"
    /\ \/ /\ Stopped(c)
          /\ budget' = [budget EXCEPT ![Rt(c)] = Released(@)]
          /\ lease' = [lease EXCEPT ![c] = FreshLease]
          /\ Deny(c)
          /\ UNCHANGED registered
       \/ /\ ~Stopped(c)
          /\ registered' = [registered EXCEPT ![Rt(c)] = @ \cup {c}]
          /\ Continue(c, "prepare")
          /\ UNCHANGED <<budget, lease>>
    /\ UNCHANGED <<stopped, cancelled, idemLock, tracker, evidenceVars, handlerVars,
                   workerVars, serviceVars, observed, logged, crashes>>

\* Arguments, resources, identity and isolation are validated, the stop flag
\* is read again, and the policy is asked.
Prepare(c) ==
    /\ pc[c] = "prepare"
    /\ \/ ("invalid" \in Faults \/ Stopped(c)) /\ Deny(c) /\ NoDispatch
       \/ NoCapacity(c) /\ Deny(c)
       \/ ~Stopped(c) /\ Dispatch(c, "policy") /\ Continue(c, "policy")
    /\ UNCHANGED <<hostVars, budget, lease, late, evidenceVars, handlerVars, serviceVars,
                   observed, logged, crashes>>

\* apply_tool_approval_requirement
Required(c, d) == IF ToolOf[c].approval /\ d = "allow" THEN "approval_required" ELSE d

PolicyReturns(c) ==
    /\ pc[c] = "policy"
    /\ Collect(c, "policy")
    /\ \/ /\ "policy" \in Faults \/ Stopped(c)
          /\ Deny(c)
          /\ UNCHANGED decision
       \/ /\ ~Stopped(c)
          /\ \E d \in Decisions : decision' = [decision EXCEPT ![c] = Required(c, d)]
          /\ Continue(c, IF Keyed(c) THEN "replay" ELSE "claim")
    /\ UNCHANGED <<hostVars, budget, lease, late, approval, minted, handlerVars, serviceVars,
                   observed, logged, crashes>>

-----------------------------------------------------------------------------
(* Idempotency *)

\* The stored result is returned as it is, and nothing more is recorded.
AnswerFrom(c, rec) == Answer(c, rec.result, "finish")

\* Mutant of Replay: the identity of the record is not compared.
ReplayAnyAction(c) ==
    /\ pc[c] = "replay" /\ Keyed(c)
    /\ store' = LookedUpStore(KeyOf[c])
    /\ IF Found(KeyOf[c]).state = "completed"
       THEN AnswerFrom(c, Found(KeyOf[c]))
       ELSE Continue(c, "claim")
    /\ UNCHANGED <<hostVars, accountVars, workerVars, evidenceVars, handlerVars, grants,
                   settled, observed, logged, crashes>>

\* replay_completed: a completed result of the same action is the answer, a
\* record of another action is a conflict.
Replay(c) ==
    LET rec == Found(KeyOf[c]) IN
    /\ pc[c] = "replay" /\ Keyed(c)
    /\ \/ /\ "store" \in Faults
          /\ Deny(c)
          /\ UNCHANGED store
       \/ /\ store' = LookedUpStore(KeyOf[c])
          /\ \/ rec.state # "absent" /\ rec.fp # FingerprintOf[c] /\ Deny(c)
             \/ rec.state = "completed" /\ rec.fp = FingerprintOf[c] /\ AnswerFrom(c, rec)
             \/ /\ rec.state = "absent"
                   \/ (rec.state # "completed" /\ rec.fp = FingerprintOf[c])
                /\ Continue(c, "claim")
    /\ UNCHANGED <<hostVars, accountVars, workerVars, evidenceVars, handlerVars, grants,
                   settled, observed, logged, crashes>>

NeedsGrant(c) == decision[c] = "approval_required"

\* After the claim a denying policy is obeyed, and a required approval sought.
AfterClaim(c) ==
    \/ decision[c] = "deny" /\ Deny(c)
    \/ NeedsGrant(c) /\ Continue(c, "approve")
    \/ decision[c] = "allow" /\ Continue(c, "mint")

\* A required approval without an approval id ends the call; an idempotent
\* tool needs a key, and claims it.  A store that fails may have written.
Claim(c) ==
    LET k == KeyOf[c]
        status == ClaimStatus(store[k], FingerprintOf[c]) IN
    /\ pc[c] = "claim"
    /\ \/ /\ NeedsGrant(c) /\ GrantOf[c] = None
          /\ Answer(c, "approval_required", "record")
          /\ UNCHANGED store
       \/ /\ ~(NeedsGrant(c) /\ GrantOf[c] = None)
          /\ \/ ToolOf[c].idem /\ ~Keyed(c) /\ Deny(c) /\ UNCHANGED store
             \/ ~ToolOf[c].idem /\ AfterClaim(c) /\ UNCHANGED store
             \/ /\ Keyed(c)
                /\ store' = ClaimedStore(k, c, FingerprintOf[c])
                /\ \/ status = "claimed" /\ AfterClaim(c)
                   \/ /\ status = "existing" /\ store[k].state = "completed"
                      /\ AnswerFrom(c, store[k])
                   \/ /\ \/ status \in {"conflict", "expired"}
                         \/ status = "existing" /\ store[k].state # "completed"
                      /\ Deny(c)
             \/ /\ Keyed(c) /\ "store" \in Faults
                /\ store' \in {store, ClaimedStore(k, c, FingerprintOf[c])}
                /\ Deny(c)
    /\ UNCHANGED <<hostVars, accountVars, workerVars, evidenceVars, handlerVars, grants,
                   settled, observed, logged, crashes>>

-----------------------------------------------------------------------------
(* Approval and credential *)

\* _consume_approval_bounded: a stop that precedes the call is NOT_CONSUMED, a
\* full worker account UNKNOWN; either way the call is denied.
Approve(c) ==
    /\ pc[c] = "approve"
    /\ \/ /\ Stopped(c) /\ NoDispatch
          /\ approval' = [approval EXCEPT ![c] = "not_consumed"]
          /\ Deny(c)
       \/ /\ ~Stopped(c) /\ NoCapacity(c)
          /\ approval' = [approval EXCEPT ![c] = "unknown"]
          /\ Deny(c)
       \/ /\ ~Stopped(c) /\ Dispatch(c, "approval")
          /\ Continue(c, "approval")
          /\ UNCHANGED approval
    /\ UNCHANGED <<hostVars, budget, lease, late, decision, minted, handlerVars, serviceVars,
                   observed, logged, crashes>>

\* A provider that fails, or answers with no valid outcome, may have spent the
\* grant.  Only a consumed approval, with the stop flag down, goes on.
ApprovalReturns(c) ==
    /\ pc[c] = "approval"
    /\ Collect(c, "approval")
    /\ \/ /\ grants' = GrantsAfterConsume(GrantOf[c], FingerprintOf[c])
          /\ approval' =
                [approval EXCEPT ![c] = ConsumeOutcome(GrantOf[c], FingerprintOf[c])]
       \/ /\ "approval" \in Faults
          /\ grants' \in {grants, GrantsAfterConsume(GrantOf[c], FingerprintOf[c])}
          /\ approval' = [approval EXCEPT ![c] = "unknown"]
    /\ IF approval'[c] = "consumed" /\ ~Stopped(c) THEN Continue(c, "mint") ELSE Deny(c)
    /\ UNCHANGED <<hostVars, budget, lease, late, decision, minted, handlerVars, store,
                   settled, observed, logged, crashes>>

\* The stop check before a credential is minted, and the request for one.
Mint(c) ==
    /\ pc[c] = "mint"
    /\ \/ Stopped(c) /\ Deny(c) /\ NoDispatch
       \/ /\ ~Stopped(c) /\ ~ToolOf[c].credential
          /\ Continue(c, "invoke") /\ NoDispatch
       \/ /\ ~Stopped(c) /\ ToolOf[c].credential
          /\ \/ "credential" \in Faults /\ Deny(c) /\ NoDispatch
             \/ NoCapacity(c) /\ Deny(c)
             \/ Dispatch(c, "credential") /\ Continue(c, "credential")
    /\ UNCHANGED <<hostVars, budget, lease, late, evidenceVars, handlerVars, serviceVars,
                   observed, logged, crashes>>

CredentialReturns(c) ==
    /\ pc[c] = "credential"
    /\ Collect(c, "credential")
    /\ \/ /\ "credential" \in Faults \/ Stopped(c)
          /\ Deny(c)
          /\ UNCHANGED minted
       \/ /\ ~Stopped(c)
          /\ minted' = [minted EXCEPT ![c] = TRUE]
          /\ Continue(c, "invoke")
    /\ UNCHANGED <<hostVars, budget, lease, late, decision, approval, handlerVars, serviceVars,
                   observed, logged, crashes>>

-----------------------------------------------------------------------------
(* The handler *)

\* issue_permit refuses to turn incomplete evidence into a permit.
Permitted(c) ==
    /\ decision[c] # "deny"
    /\ NeedsGrant(c) => approval[c] = "consumed"
    /\ ToolOf[c].credential => minted[c]

\* The permit is issued and the handler's operation submitted.
Invoke(c) ==
    /\ pc[c] = "invoke"
    /\ \/ ~Permitted(c) /\ Deny(c) /\ NoDispatch
       \/ Permitted(c) /\ NoCapacity(c) /\ Deny(c)
       \/ Permitted(c) /\ Dispatch(c, "handler") /\ Continue(c, "handler")
    /\ UNCHANGED <<hostVars, budget, lease, late, evidenceVars, handlerVars, serviceVars,
                   observed, logged, crashes>>

HandlerAt(c, state) == worker[c]["handler"] = state

HandlerMoves(c, state) == worker' = [worker EXCEPT ![c]["handler"] = state]

\* The operation of _run_handler ends, and sets the completion event.
OperationEnds(c, how) ==
    /\ HandlerMoves(c, "exited")
    /\ returned' = [returned EXCEPT ![c] = how]
    /\ completion' = [completion EXCEPT ![c] = TRUE]

\* invoke_handler reads the stop flag, in the worker's thread ...
HandlerChecks(c) ==
    /\ HandlerAt(c, "queued")
    /\ \/ Stopped(c) /\ OperationEnds(c, "blocked")
       \/ ~Stopped(c) /\ HandlerMoves(c, "cleared") /\ UNCHANGED <<returned, completion>>
    /\ UNCHANGED <<pc, outcome, hostVars, accountVars, late, evidenceVars, started, effect,
                   serviceVars, observed, logged, crashes>>

\* ... and then calls the handler,
HandlerStarts(c) ==
    /\ HandlerAt(c, "cleared")
    /\ HandlerMoves(c, "running")
    /\ started' = [started EXCEPT ![c] = TRUE]
    /\ UNCHANGED <<pc, outcome, hostVars, accountVars, late, evidenceVars, effect, completion,
                   returned, serviceVars, observed, logged, crashes>>

\* whose side effect takes place at some moment
HandlerCommits(c) ==
    /\ HandlerAt(c, "running")
    /\ ~effect[c]
    /\ effect' = [effect EXCEPT ![c] = TRUE]
    /\ UNCHANGED <<pc, outcome, hostVars, accountVars, workerVars, evidenceVars, started,
                   completion, returned, serviceVars, observed, logged, crashes>>

\* before it returns.  A handler that raises, or observes its cancelled token,
\* may leave with or without its effect.
HandlerExits(c) ==
    /\ HandlerAt(c, "running")
    /\ \/ effect[c] /\ OperationEnds(c, "ok")
       \/ effect[c] /\ "output" \in Faults /\ OperationEnds(c, "bad_output")
       \/ cancelled[c] /\ OperationEnds(c, "cancelled")
       \/ "handler" \in Faults /\ \E how \in {"raised", "timeout_error"} : OperationEnds(c, how)
    /\ UNCHANGED <<pc, outcome, hostVars, accountVars, late, evidenceVars, started, effect,
                   serviceVars, observed, logged, crashes>>

StatusOf(how) ==
    CASE how = "ok"                      -> "executed"
      [] how = "bad_output"              -> "executed_result_rejected"
      [] how = "cancelled"               -> "cancelled"
      [] OTHER                           -> "failed"

\* The handler's operation ended within the wait.
HandlerReturns(c) ==
    /\ pc[c] = "handler"
    /\ HandlerAt(c, "exited")
    /\ returned[c] # "timeout_error"
    /\ Collect(c, "handler")
    /\ Answer(c, StatusOf(returned[c]), "record")
    /\ UNCHANGED <<hostVars, budget, lease, late, evidenceVars, handlerVars, serviceVars,
                   observed, logged, crashes>>

-----------------------------------------------------------------------------
(* Audit, terminal record and exit *)

\* A denial has no terminal record.
AfterAudit(c) ==
    IF outcome[c].status \in {"denied", "approval_required"} THEN "finish" ELSE "store"

\* Mutant of AuditLost: the status does not change.
AuditLostQuietly(c) ==
    /\ outcome' = [outcome EXCEPT ![c].audited = FALSE]
    /\ Goto(c, AfterAudit(c))

\* The event was not stored: an execution becomes executed_unrecorded.
AuditLost(c) ==
    /\ outcome' = [outcome EXCEPT
                     ![c].audited = FALSE,
                     ![c].status = IF @ = "executed" THEN "executed_unrecorded" ELSE @]
    /\ Goto(c, AfterAudit(c))

\* _record, up to the wait.
Record(c) ==
    /\ pc[c] = "record"
    /\ \/ NoCapacity(c) /\ AuditLost(c)
       \/ Dispatch(c, "audit") /\ Continue(c, "audit")
    /\ UNCHANGED <<hostVars, budget, lease, late, evidenceVars, handlerVars, serviceVars,
                   observed, logged, crashes>>

AuditReturns(c) ==
    /\ pc[c] = "audit"
    /\ Collect(c, "audit")
    /\ \/ logged' = [logged EXCEPT ![c] = TRUE] /\ Continue(c, AfterAudit(c))
       \/ "audit" \in Faults /\ AuditLost(c) /\ UNCHANGED logged
    /\ UNCHANGED <<hostVars, budget, lease, late, evidenceVars, handlerVars, serviceVars,
                   observed, crashes>>

\* _store_terminal failed: an execution is no longer reported as recorded.
Unstored(o) ==
    IF o.status \in {"executed", "executed_unrecorded", "executed_result_rejected"}
    THEN [o EXCEPT !.status = "executed_unrecorded", !.audited = FALSE, !.stored = FALSE]
    ELSE [o EXCEPT !.stored = FALSE]

TerminalState(o) ==
    IF o.status \in {"executed", "executed_unrecorded"} THEN "completed" ELSE "uncertain"

\* TerminalRecorder.record: complete or mark_uncertain.  A store that fails may
\* have written.
StoreTerminal(c) ==
    LET state == TerminalState(outcome[c])
        written == UpdatedStore(KeyOf[c], state, outcome[c].status)
        Writes == store' = written
                    /\ settled' = [settled EXCEPT ![c] = state = "completed"]
        WritesNothing == UNCHANGED <<store, settled>> IN
    /\ pc[c] = "store"
    /\ Goto(c, "finish")
    /\ \/ ~Keyed(c) /\ WritesNothing /\ UNCHANGED outcome
       \/ Keyed(c) /\ CanUpdate(KeyOf[c]) /\ Writes /\ UNCHANGED outcome
       \/ /\ Keyed(c) /\ (~CanUpdate(KeyOf[c]) \/ "store" \in Faults)
          /\ WritesNothing \/ (CanUpdate(KeyOf[c]) /\ Writes)
          /\ outcome' = [outcome EXCEPT ![c] = Unstored(@)]
    /\ UNCHANGED <<hostVars, accountVars, workerVars, evidenceVars, handlerVars, grants,
                   observed, logged, crashes>>

\* Mutant of Finish: the idempotency lock is not given back.
FinishKeepsLock(c) ==
    /\ pc[c] = "finish"
    /\ Continue(c, "done")
    /\ registered' = [registered EXCEPT ![Rt(c)] = @ \ {c}]
    /\ UNCHANGED <<idemLock, stopped, cancelled, accountVars, workerVars, evidenceVars,
                   handlerVars, serviceVars, observed, logged, crashes>>

\* The finally clause, and the end of execute(): the token is forgotten, the
\* lease is released unless it was deferred, and the lock is given back.
Finish(c) ==
    /\ pc[c] = "finish"
    /\ Continue(c, "done")
    /\ registered' = [registered EXCEPT ![Rt(c)] = @ \ {c}]
    /\ idemLock' = [idemLock EXCEPT ![Rt(c)] = IF @ = c THEN None ELSE @]
    /\ IF lease[c].deferred
       THEN UNCHANGED <<budget, lease>>
       ELSE /\ lease' = [lease EXCEPT ![c] = ReleasedOnce(@)]
            /\ budget' = [budget EXCEPT ![Rt(c)] = BudgetAfterRelease(@, lease[c])]
    /\ UNCHANGED <<stopped, cancelled, tracker, workerVars, evidenceVars, handlerVars,
                   serviceVars, observed, logged, crashes>>

-----------------------------------------------------------------------------
(* Timeouts, late workers and reconciliation *)

\* Mutant of AfterTimeout: every expired wait is a denial.
AfterTimeoutDenied(c, op) == op \in Ops /\ Deny(c) /\ UNCHANGED cancelled

\* Where a caller goes on whose wait for op expired.
AfterTimeout(c, op) ==
    \/ /\ op \in {"policy", "approval", "credential"}
       /\ Deny(c)
       /\ UNCHANGED cancelled
    \/ /\ op = "handler"
       /\ cancelled' = [cancelled EXCEPT ![c] = TRUE]
       /\ outcome' = [outcome EXCEPT ![c].status = "timed_out", ![c].recon = "still_running"]
       /\ Goto(c, IF ToolOf[c].reconciles THEN "timedOut" ELSE "record")
    \/ /\ op = "reconcile"
       /\ outcome' = [outcome EXCEPT ![c].recon = "failed"]
       /\ Goto(c, "reportFailure")
       /\ UNCHANGED cancelled
    \/ /\ op = "failureAudit"
       /\ Continue(c, "record")
       /\ UNCHANGED cancelled
    \/ /\ op = "audit"
       /\ AuditLost(c)
       /\ UNCHANGED cancelled

\* What a worker does to the services the model keeps, if it gets that far.
WorkerEffect(c, op) ==
    \/ UNCHANGED <<grants, logged>>
    \/ /\ op = "approval"
       /\ grants' = GrantsAfterConsume(GrantOf[c], FingerprintOf[c])
       /\ UNCHANGED logged
    \/ /\ op = "audit"
       /\ logged' = [logged EXCEPT ![c] = TRUE]
       /\ UNCHANGED grants

\* The wait expires while the worker runs (one of the handler perhaps before it
\* has read the stop flag): the worker keeps its slot, and the release of the
\* lease is left to it.
Outlives(c, op) ==
    /\ pc[c] = op /\ op \in TimeoutOps
    /\ worker[c][op] \in {"queued", "cleared", "running"}
    /\ late' = [late EXCEPT ![c] = @ \cup {op}]
    /\ tracker' = [tracker EXCEPT ![Rt(c)] = MarkedTimeout(@)]
    /\ lease' = [lease EXCEPT ![c] = Deferred(@)]
    /\ AfterTimeout(c, op)
    /\ UNCHANGED <<stopped, registered, idemLock, budget, worker, evidenceVars, handlerVars,
                   serviceVars, observed, logged, crashes>>

\* The wait expires before the worker starts and its future is cancelled, or
\* the operation itself raised TimeoutError: the worker is already gone.
Drops(c, op) ==
    /\ pc[c] = op
    /\ \/ op \in TimeoutOps /\ (op = "handler" => HandlerAt(c, "queued"))
       \/ op = "handler" /\ HandlerAt(c, "exited") /\ returned[c] = "timeout_error"
    /\ worker' = [worker EXCEPT ![c][op] = "none"]
    /\ tracker' = [tracker EXCEPT ![Rt(c)] = Completed(MarkedTimeout(@), TRUE)]
    /\ ReleaseLease(c)
    /\ WorkerEffect(c, op)
    /\ AfterTimeout(c, op)
    /\ UNCHANGED <<stopped, registered, idemLock, late, evidenceVars, handlerVars, store,
                   settled, observed, crashes>>

\* on_done of a late worker: its slot and, if no other worker did, the lease.
LateExits(c, op) ==
    /\ op \in late[c]
    /\ worker[c][op] = IF op = "handler" THEN "exited" ELSE "running"
    /\ late' = [late EXCEPT ![c] = @ \ {op}]
    /\ worker' = [worker EXCEPT ![c][op] = "none"]
    /\ tracker' = [tracker EXCEPT ![Rt(c)] = Completed(@, TRUE)]
    /\ ReleaseLease(c)
    /\ WorkerEffect(c, op)
    /\ UNCHANGED <<pc, outcome, hostVars, evidenceVars, handlerVars, store, settled, observed,
                   crashes>>

\* After a handler's timeout the tool's reconciliation callback is asked.
Reconcile(c) ==
    /\ pc[c] = "timedOut"
    /\ \/ /\ NoCapacity(c)
          /\ outcome' = [outcome EXCEPT ![c].recon = "failed"]
          /\ Goto(c, "reportFailure")
       \/ Dispatch(c, "reconcile") /\ Continue(c, "reconcile")
    /\ UNCHANGED <<hostVars, budget, lease, late, evidenceVars, handlerVars, serviceVars,
                   observed, logged, crashes>>

\* The callback looks for the side effect; it reports what it sees, or that
\* it cannot tell.
Observes(c) ==
    /\ pc[c] = "reconcile"
    /\ observed[c] = "none"
    /\ \E seen \in {IF effect[c] THEN "confirmed_complete" ELSE "confirmed_absent", "unknown"} :
         observed' = [observed EXCEPT ![c] = seen]
    /\ UNCHANGED <<pc, outcome, hostVars, accountVars, workerVars, evidenceVars, handlerVars,
                   serviceVars, logged, crashes>>

\* Mutant of ReconciliationReturns: the completion event is not looked at.
ReconciliationTrusted(c) ==
    /\ pc[c] = "reconcile"
    /\ observed[c] # "none"
    /\ Collect(c, "reconcile")
    /\ outcome' = [outcome EXCEPT ![c].recon = observed[c]]
    /\ Goto(c, "record")
    /\ UNCHANGED <<hostVars, budget, lease, late, evidenceVars, handlerVars, serviceVars,
                   observed, logged, crashes>>

\* The evidence counts if the handler's worker has ended by now.
ReconciliationReturns(c) ==
    /\ pc[c] = "reconcile"
    /\ Collect(c, "reconcile")
    /\ \/ /\ observed[c] # "none"
          /\ outcome' = [outcome EXCEPT ![c].recon =
                           IF completion[c] THEN observed[c] ELSE "still_running"]
          /\ Goto(c, "record")
       \/ /\ "reconcile" \in Faults
          /\ outcome' = [outcome EXCEPT ![c].recon = "failed"]
          /\ Goto(c, "reportFailure")
    /\ UNCHANGED <<hostVars, budget, lease, late, evidenceVars, handlerVars, serviceVars,
                   observed, logged, crashes>>

\* _record of reconciliation_failed, whose result is not looked at.
ReportFailure(c) ==
    /\ pc[c] = "reportFailure"
    /\ \/ NoCapacity(c) /\ Continue(c, "record")
       \/ Dispatch(c, "failureAudit") /\ Continue(c, "failureAudit")
    /\ UNCHANGED <<hostVars, budget, lease, late, evidenceVars, handlerVars, serviceVars,
                   observed, logged, crashes>>

FailureAuditReturns(c) ==
    /\ pc[c] = "failureAudit"
    /\ Collect(c, "failureAudit")
    /\ Continue(c, "record")
    /\ UNCHANGED <<hostVars, budget, lease, late, evidenceVars, handlerVars, serviceVars,
                   observed, logged, crashes>>

-----------------------------------------------------------------------------
(* The host and its environment *)

\* Mutant of Stop: in-flight actions are not told.
StopSilently(r) ==
    /\ ~stopped[r]
    /\ stopped' = [stopped EXCEPT ![r] = TRUE]
    /\ UNCHANGED <<pc, outcome, registered, cancelled, idemLock, accountVars, workerVars,
                   evidenceVars, handlerVars, serviceVars, observed, logged, crashes>>

\* stop: the flag goes up and every registered token is cancelled, under
\* _stop_lock.
Stop(r) ==
    /\ ~stopped[r]
    /\ stopped' = [stopped EXCEPT ![r] = TRUE]
    /\ cancelled' = [c \in Calls |-> cancelled[c] \/ c \in registered[r]]
    /\ UNCHANGED <<pc, outcome, registered, idemLock, accountVars, workerVars, evidenceVars,
                   handlerVars, serviceVars, observed, logged, crashes>>

\* A process dies with its threads and restarts with a fresh runtime; what the
\* services hold survives, and the calls in flight never return.
Crash(r) ==
    /\ crashes < MaxCrashes
    /\ crashes' = crashes + 1
    /\ \E c \in CallsOf(r) : pc[c] \notin {"idle", "done"} \/ late[c] # {}
    /\ LET lost == {c \in CallsOf(r) : pc[c] \notin {"idle", "done"}} IN
       /\ pc' = [c \in Calls |-> IF c \in lost THEN "done" ELSE pc[c]]
       /\ outcome' = [c \in Calls |->
                        IF c \in lost THEN [outcome[c] EXCEPT !.status = "lost"] ELSE outcome[c]]
    /\ worker' = [c \in Calls |-> IF Rt(c) = r THEN [op \in Ops |-> "none"] ELSE worker[c]]
    /\ late' = [c \in Calls |-> IF Rt(c) = r THEN {} ELSE late[c]]
    /\ lease' = [c \in Calls |-> IF Rt(c) = r THEN FreshLease ELSE lease[c]]
    /\ budget' = [budget EXCEPT ![r] = FreshBudget]
    /\ tracker' = [tracker EXCEPT ![r] = FreshAccount]
    /\ stopped' = [stopped EXCEPT ![r] = FALSE]
    /\ registered' = [registered EXCEPT ![r] = {}]
    /\ idemLock' = [idemLock EXCEPT ![r] = None]
    /\ UNCHANGED <<cancelled, evidenceVars, handlerVars, serviceVars, observed, logged>>

StoreEnv == (Gc \/ \E k \in Keys : Expire(k))

GrantEnv == \E g \in Grants : Lapse(g) \/ \E f \in Fingerprints : Issue(g, f)

Environment ==
    \/ /\ StoreEnv
       /\ UNCHANGED <<pc, outcome, hostVars, accountVars, workerVars, evidenceVars,
                      handlerVars, grants, settled, observed, logged, crashes>>
    \/ /\ GrantEnv
       /\ UNCHANGED <<pc, outcome, hostVars, accountVars, workerVars, evidenceVars,
                      handlerVars, store, settled, observed, logged, crashes>>

-----------------------------------------------------------------------------
Caller(c) ==
    \/ Admit(c) \/ Register(c) \/ Prepare(c) \/ PolicyReturns(c) \/ Replay(c) \/ Claim(c)
    \/ Approve(c) \/ ApprovalReturns(c) \/ Mint(c) \/ CredentialReturns(c) \/ Invoke(c)
    \/ HandlerReturns(c) \/ Reconcile(c) \/ ReconciliationReturns(c) \/ ReportFailure(c)
    \/ FailureAuditReturns(c) \/ Record(c) \/ AuditReturns(c) \/ StoreTerminal(c) \/ Finish(c)
    \/ \E op \in Ops : Outlives(c, op) \/ Drops(c, op)

Worker(c) ==
    \/ HandlerChecks(c) \/ HandlerStarts(c) \/ HandlerCommits(c) \/ HandlerExits(c)
    \/ Observes(c)
    \/ \E op \in Ops : LateExits(c, op)

\* Every call has returned and every worker is gone.
Quiescent == \A c \in Calls : pc[c] = "done" /\ late[c] = {}

Next ==
    \/ \E c \in Calls : Caller(c) \/ Worker(c)
    \/ \E r \in Runtimes : Stop(r) \/ Crash(r)
    \/ Environment
    \/ Quiescent /\ UNCHANGED vars

Spec == Init /\ [][Next]_vars
=============================================================================
