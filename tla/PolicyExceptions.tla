--------------------------- MODULE PolicyExceptions ---------------------------
(***************************************************************************)
(* Temporary exceptions of one agent from the policy of its group          *)
(* (handler.py), beside the governance of that policy.  A request on an    *)
(* exception first reconciles it: it reads the agent and its groups, then  *)
(* the policy's row, and ends an exception that expired or whose bindings  *)
(* changed.  Each write is conditional on the state that was read, so what *)
(* was read before it may no longer hold.                                  *)
(*                                                                         *)
(* The agent's enrolment and the group's policy are one fact here, bound:  *)
(* the agent is active and in exactly one group, which has this policy.    *)
(***************************************************************************)
EXTENDS PolicyGovernance

CONSTANTS ExceptionIds   \* bound on the exceptions of the agent

ASSUME ExceptionAssumption == None \notin ExceptionIds

VARIABLES
    exception,   \* the POLICY_EXCEPTION items
    slot,        \* the agent's POLICY_EXCEPTION_SLOT item
    due,         \* the exceptions whose expires_at has passed
    bound,       \* the agent is bound to this policy
    task,        \* what each request does on an exception
    since        \* history: what was so since the request read the slot

exceptions == <<exception, slot, due, bound, task, since>>

OpenStates == {"draft", "review", "approved", "active"}
TerminalStates == {"rejected", "revoked", "expired", "invalidated"}

NoException == [NoRecord EXCEPT !.state = "absent"]

Tasks ==
    [op : {"create", "submit", "decide", "activate", "revoke", "view", "serve", "none"},
     at : {"idle", "scope", "base", "slot", "expire", "invalidate", "commit", "served", "missing"},
     checking : BOOLEAN,                  \* scope is read to reconcile
     exc : ExceptionIds \cup {None},      \* the exception it reads or changes
     state : OpenStates \cup TerminalStates \cup {"absent"},  \* as it was read
     base : 0 .. MaxVersion]              \* the base of the one it creates

NoTask ==
    [op |-> "none", at |-> "idle", checking |-> FALSE, exc |-> None,
     state |-> "absent", base |-> 0]

\* active and expired tell of the slot's exception when it was read.
NoSince ==
    [active |-> FALSE, expired |-> FALSE, bound |-> FALSE, bases |-> {}, activated |-> {}]

IsOpen(e) == exception[e].state \in OpenStates

ExceptionInit ==
    /\ Init
    /\ exception = [e \in ExceptionIds |-> NoException]
    /\ slot = None
    /\ due = {}
    /\ bound \in BOOLEAN
    /\ task = [r \in Requests |-> NoTask]
    /\ since = [r \in Requests |-> NoSince]

Unoccupied(r) == task[r].at = "idle" /\ request[r].at = "idle"

Continue(r, t) == task' = [task EXCEPT ![r] = t]

Finish(r) ==
    /\ Continue(r, NoTask)
    /\ since' = [since EXCEPT ![r] = NoSince]

(***************************************************************************)
(* Reconciling the exception that was read.                                *)
(***************************************************************************)
\* An open exception is checked; an expired one is not looked at further.
Reconciling(t, e) ==
    [t EXCEPT !.at = IF e \in due THEN "expire" ELSE "scope",
              !.checking = TRUE, !.exc = e, !.state = exception[e].state]

Begin(r, op, e) ==
    /\ Unoccupied(r)
    /\ op \in {"submit", "decide", "activate", "revoke", "view"}
    /\ IsOpen(e)
    /\ Continue(r, Reconciling([NoTask EXCEPT !.op = op], e))
    /\ UNCHANGED <<governance, exception, slot, due, bound, since>>

\* The effective policy: the slot, then its exception, if there is one.
BeginServe(r) ==
    /\ Unoccupied(r)
    /\ slot # None
    /\ \/ /\ IsOpen(slot)
          /\ Continue(r, Reconciling([NoTask EXCEPT !.op = "serve"], slot))
       \/ /\ exception[slot] = NoException
          /\ Continue(r, [NoTask EXCEPT !.op = "serve", !.at = "missing"])
    /\ since' = [since EXCEPT ![r] =
          [active |-> exception[slot].state = "active", expired |-> slot \in due,
           bound |-> bound, bases |-> {row.version}, activated |-> {}]]
    /\ UNCHANGED <<governance, exception, slot, due, bound>>

BeginCreate(r) ==
    /\ Unoccupied(r)
    /\ Continue(r, [NoTask EXCEPT !.op = "create", !.at = "scope"])
    /\ UNCHANGED <<governance, exception, slot, due, bound, since>>

\* Mutant: neither the agent's state nor its groups are looked at.
ReadScopeAnyway(r) ==
    /\ task[r].at = "scope"
    /\ Continue(r, [task[r] EXCEPT !.at = "base"])
    /\ UNCHANGED <<governance, exception, slot, due, bound, since>>

\* _policy_exception_scope: the agent and its groups ...
ReadScope(r) ==
    /\ task[r].at = "scope"
    /\ \/ /\ bound
          /\ Continue(r, [task[r] EXCEPT !.at = "base"])
       \/ /\ ~ bound
          /\ task[r].checking
          /\ Continue(r, [task[r] EXCEPT !.at = "invalidate"])
    /\ UNCHANGED <<governance, exception, slot, due, bound, since>>

\* ... and the policy's row, which is migrated first if that is still to do.
ReadLegacyRow(r) ==
    /\ task[r].at = "base"
    /\ request[r].at = "idle"
    /\ row # NoRow
    /\ row.schema = 0
    /\ Reading(r, "scope", row, "commit")
    /\ UNCHANGED <<row, replica, ledger, overwritten, exceptions>>

\* The policy's version as the request reads it, or as it migrated it.
ReadBase(r, version) ==
    /\ task[r].at = "base"
    /\ \/ /\ request[r].at = "idle"
          /\ row.schema = 1
          /\ version = row.version
          /\ UNCHANGED request
       \/ /\ request[r].at = "commit"
          /\ version = request[r].row.version
          /\ request' = [request EXCEPT ![r] = IdleRequest]

(***************************************************************************)
(* What each operation does with an exception in the state it knows.       *)
(***************************************************************************)
From ==
    [create |-> TerminalStates, submit |-> {"draft"}, decide |-> {"review"},
     activate |-> {"approved"}, revoke |-> OpenStates, serve |-> {"active"}, view |-> {}]

\* After reconciliation, which left the exception in state s.
Proceed(r, s) ==
    IF s \in From[task[r].op]
    THEN /\ Continue(r, [task[r] EXCEPT
               !.state = s,
               !.checking = FALSE,
               !.at = CASE task[r].op = "activate" -> "scope"
                        [] task[r].op = "serve" -> "served"
                        [] OTHER -> "commit"])
         /\ UNCHANGED since
    ELSE Finish(r)

\* The bindings are compared with the row, or the base is remembered.
Compare(r, version) ==
    LET t == task[r]
        matches == t.exc # None => exception[t.exc].base = version IN
    /\ ReadBase(r, version)
    /\ \/ /\ t.checking
          /\ matches
          /\ Proceed(r, t.state)
       \/ /\ t.checking
          /\ ~ matches
          /\ Continue(r, [t EXCEPT !.at = "invalidate"])
          /\ UNCHANGED since
       \/ /\ t.op = "activate" /\ ~ t.checking
          /\ matches
          /\ t.exc \notin due
          /\ Continue(r, [t EXCEPT !.at = "commit"])
          /\ UNCHANGED since
       \/ /\ t.op = "create" /\ ~ t.checking
          /\ version # 0
          /\ Continue(r, [t EXCEPT !.at = "slot", !.base = version])
          /\ UNCHANGED since
    /\ UNCHANGED <<row, replica, ledger, overwritten, exception, slot, due, bound>>

\* A previous exception in the slot has to be over; one that is missing, or
\* still open once reconciled, refuses the request.
ReadSlot(r) ==
    LET t == task[r] IN
    /\ t.at = "slot"
    /\ \/ /\ slot = None
          /\ Continue(r, [t EXCEPT !.at = "commit"])
       \/ /\ slot # None
          /\ IsOpen(slot)
          /\ Continue(r, Reconciling(t, slot))
       \/ /\ slot # None
          /\ exception[slot].state \in TerminalStates
          /\ Continue(r, [t EXCEPT !.at = "commit", !.exc = slot])
    /\ UNCHANGED <<governance, exception, slot, due, bound, since>>

\* Ends the exception if it is still in the state that was read, else reads it
\* again and goes on with what it is now.
Settle(r) ==
    LET e == task[r].exc
        ended == IF task[r].at = "expire" THEN "expired" ELSE "invalidated" IN
    /\ task[r].at \in {"expire", "invalidate"}
    /\ IF exception[e].state = task[r].state
       THEN /\ exception' = [exception EXCEPT ![e].state = ended]
            /\ Proceed(r, ended)
       ELSE /\ Proceed(r, exception[e].state)
            /\ UNCHANGED exception
    /\ UNCHANGED <<governance, slot, due, bound>>

(***************************************************************************)
(* The writes of the operations, each on the state it knows.               *)
(***************************************************************************)
\* Mutant: the slot is written without a condition.
CommitCreateAnySlot(r, e, author) ==
    LET t == task[r] IN
    /\ t.at = "commit"
    /\ t.op = "create"
    /\ exception[e] = NoException
    /\ exception' = [exception EXCEPT ![e] =
          [state |-> "draft", base |-> t.base, author |-> author, decider |-> None]]
    /\ slot' = e
    /\ due' = due \ {e}
    /\ Finish(r)
    /\ UNCHANGED <<governance, bound>>

CommitCreate(r, e, author) ==
    LET t == task[r] IN
    /\ t.at = "commit"
    /\ t.op = "create"
    /\ exception[e] = NoException
    /\ slot = t.exc
    /\ exception' = [exception EXCEPT ![e] =
          [state |-> "draft", base |-> t.base, author |-> author, decider |-> None]]
    /\ slot' = e
    /\ due' = due \ {e}
    /\ Finish(r)
    /\ UNCHANGED <<governance, bound>>

To ==
    [create |-> {}, submit |-> {"review"}, decide |-> {"approved", "rejected"},
     activate |-> {"active"}, revoke |-> {"revoked"}, serve |-> {}, view |-> {}]

CommitTransition(r, actor, to) ==
    LET e == task[r].exc
        op == task[r].op IN
    /\ task[r].at = "commit"
    /\ to \in To[op]
    /\ exception[e].state = task[r].state
    /\ to = "approved" => exception[e].author # actor
    /\ op = "activate" => Independent(exception[e])
    /\ exception' = [exception EXCEPT ![e].state = to,
          ![e].decider = IF op = "decide" THEN actor ELSE @]
    /\ Continue(r, NoTask)
    /\ since' = [p \in Requests |->
          IF p # r /\ task[p].op = "serve" /\ to = "active"
          THEN [since[p] EXCEPT !.activated = @ \cup {e}]
          ELSE since[p]]
    /\ UNCHANGED <<governance, slot, due, bound>>

\* The answer is sent, a condition fails or the process ends.
Return(r) ==
    /\ task[r].at # "idle"
    /\ request' = [request EXCEPT ![r] = IdleRequest]
    /\ Finish(r)
    /\ UNCHANGED <<row, replica, ledger, overwritten, exception, slot, due, bound>>

(***************************************************************************)
(* The clock, the table's expiry, and the agent's own lifecycle.           *)
(***************************************************************************)
Expire(e) ==
    /\ exception[e] # NoException
    /\ due' = due \cup {e}
    /\ UNCHANGED <<governance, exception, slot, bound, task, since>>

\* Thirty days after expires_at no request of before is still at work.  The
\* slot has no time to live.
TtlDelete(e) ==
    /\ e \in due
    /\ exception[e] # NoException
    /\ \A r \in Requests : task[r].at = "idle"
    /\ exception' = [exception EXCEPT ![e] = NoException]
    /\ due' = due \ {e}
    /\ UNCHANGED <<governance, slot, bound, task, since>>

Rebind ==
    /\ bound' = ~ bound
    /\ since' = [r \in Requests |->
          IF task[r].op = "serve" THEN [since[r] EXCEPT !.bound = TRUE] ELSE since[r]]
    /\ UNCHANGED <<governance, exception, slot, due, task>>

\* A step on the policy itself; a request reading the row for an exception only
\* migrates it.
PolicyStep ==
    /\ \/ \E r \in Requests : task[r].at = "idle" /\ RequestStep(r)
       \/ \E r \in Requests : MigrateRecord(r) \/ MigrateRow(r)
       \/ \E v \in Versions : Review(v)
       \/ CatchUp
    /\ since' = [r \in Requests |->
          IF task[r].op = "serve"
          THEN [since[r] EXCEPT !.bases = @ \cup {row'.version}] ELSE since[r]]
    /\ UNCHANGED <<exception, slot, due, bound, task>>

ExceptionStep(r) ==
    \/ \E e \in ExceptionIds :
          \E op \in {"submit", "decide", "activate", "revoke", "view"} : Begin(r, op, e)
    \/ BeginCreate(r)
    \/ BeginServe(r)
    \/ ReadScope(r)
    \/ ReadLegacyRow(r)
    \/ \E version \in 0 .. MaxVersion : Compare(r, version)
    \/ ReadSlot(r)
    \/ Settle(r)
    \/ \E u \in Operators :
          \/ \E e \in ExceptionIds : CommitCreate(r, e, u)
          \/ \E to \in OpenStates \cup TerminalStates : CommitTransition(r, u, to)
    \/ Return(r)

ExceptionNext ==
    \/ PolicyStep
    \/ \E r \in Requests : ExceptionStep(r)
    \/ \E e \in ExceptionIds : Expire(e) \/ TtlDelete(e)
    \/ Rebind

ExceptionSpec == ExceptionInit /\ [][ExceptionNext]_<<governance, exceptions>>

(***************************************************************************)
(* Properties.                                                             *)
(***************************************************************************)
\* The types of the variables.
ExceptionTypeOK ==
    /\ TypeOK
    /\ exception \in [ExceptionIds ->
          [state : OpenStates \cup TerminalStates \cup {"absent"}, base : 0 .. MaxVersion,
           author : Operators \cup {None}, decider : Operators \cup {None}]]
    /\ slot \in ExceptionIds \cup {None}
    /\ due \subseteq ExceptionIds
    /\ bound \in BOOLEAN
    /\ task \in [Requests -> Tasks]
    /\ since \in [Requests ->
          [active : BOOLEAN, expired : BOOLEAN, bound : BOOLEAN,
           bases : SUBSET (0 .. MaxVersion), activated : SUBSET ExceptionIds]]

\* However creations, reconciliations and activations interleave, an exception
\* that is not over is the one in the agent's slot, so there is one at most.
OneOpenException == \A e \in ExceptionIds : IsOpen(e) => slot = e

\* An exception that was active when its request read the slot is served only if
\* it had not expired then, and if the agent was bound to the policy, and its base
\* the policy's version, at some moment since; another one only if it was
\* activated meanwhile.  Of that one nothing else is known, not even that it has
\* not expired: the request that found it over and lost the put that ends it to
\* the activation serves what it reads again (_reconcile_policy_exception).
ServedExceptionInForce ==
    \A r \in Requests : task[r].at = "served" =>
        LET e == task[r].exc
            h == since[r] IN
        IF h.active THEN ~ h.expired /\ h.bound /\ exception[e].base \in h.bases
                    ELSE e \in h.activated

\* "Any mismatch fails back to the normal secure bundle"
\* (docs/time-limited-policy-exceptions-design.md): an agent whose exception is
\* no longer there is served the policy.
RefreshFallsBack == \A r \in Requests : task[r].at # "missing"
=============================================================================
