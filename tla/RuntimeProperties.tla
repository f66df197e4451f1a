-------------------------- MODULE RuntimeProperties --------------------------
(***************************************************************************)
(* What GuardedRuntime promises, and what the documents of the repository  *)
(* say of it.                                                              *)
(***************************************************************************)
EXTENDS GuardedRuntime

Live(c) == HandlerAt(c, "cleared") \/ HandlerAt(c, "running")

-----------------------------------------------------------------------------
(* Accounts *)

\* The calls that hold a slot of the budget, the worker threads that exist, and
\* those that outlived their caller's wait.
Held(r) == {c \in CallsOf(r) : Releases(lease[c])}
WorkersOf(r) == {p \in CallsOf(r) \X Ops : worker[p[1]][p[2]] # "none"}
LateOf(r) == {p \in CallsOf(r) \X Ops : p[2] \in late[p[1]]}

\* The active and fan-out counts of a runtime are exactly the leases taken and
\* not yet released, whatever callbacks of late workers race with the finally
\* clause: no slot is released twice and none is counted twice.
BudgetExact ==
    \A r \in Runtimes :
        /\ budget[r].active = Cardinality(Held(r))
        /\ budget[r].fanOut = Cardinality(Held(r))

\* The worker account of a runtime is exactly its worker threads, and its
\* timed-out count exactly the workers that outlived their caller's wait.
TrackerExact ==
    \A r \in Runtimes :
        /\ tracker[r].bounded = Cardinality(WorkersOf(r))
        /\ tracker[r].timedOut = Cardinality(LateOf(r))

\* A call that has returned and whose workers are gone holds no slot: deferring
\* the release to a worker never loses it.
NoSlotLeak ==
    \A c \in Calls : pc[c] = "done" /\ late[c] = {} => ~Releases(lease[c])

\* A timed-out handler keeps its concurrency slot until its worker exits.
SlotCoversHandler ==
    \A c \in Calls : Live(c) => Releases(lease[c])

-----------------------------------------------------------------------------
(* Emergency stop *)

\* Whenever the stop flag is up, every handler that runs or is about to be
\* called has a cancelled token: the ones registered when stop() came, and the
\* ones whose call had timed out and was already gone from _active_tokens.
StopCancels ==
    \A c \in Calls : Stopped(c) /\ Live(c) => cancelled[c]

-----------------------------------------------------------------------------
(* Operation keys *)

\* A keyed call that has passed its claim and not yet stored its result owns
\* the record of its key, in progress: no other call, of any runtime, and no
\* expiry or garbage collection takes the key away from under it.
ClaimHeld ==
    \A c \in Calls :
        Keyed(c) /\ pc[c] \in {"approve", "approval", "mint", "credential", "invoke", "handler",
                               "timedOut", "reconcile", "reportFailure", "failureAudit", "store"}
        => store[KeyOf[c]].owner = c /\ store[KeyOf[c]].state = "in_progress"

\* While the outcome of a started call is not settled (its handler runs, it
\* timed out or failed, its process died), the record of the key stays with
\* it, and no other call of the key can claim it, ever.
UnsettledKeepsKey ==
    \A c \in Calls :
        Keyed(c) /\ started[c] /\ ~settled[c]
        => store[KeyOf[c]].owner = c /\ store[KeyOf[c]].state \in {"in_progress", "uncertain"}

\* An answer EXECUTED that a call returns without having started a handler is
\* the result of another call, of the same key and the same action, whose side
\* effect did take place.
ReplayIsTrue ==
    \A c \in Calls :
        outcome[c].status \in {"executed", "executed_unrecorded"} /\ ~started[c]
        => \E d \in Calls : /\ KeyOf[d] = KeyOf[c] /\ FingerprintOf[d] = FingerprintOf[c]
                            /\ effect[d]

\* EXECUTED is returned by the call that ran the handler only with the effect
\* done, its audit event stored, and its record not left open.
ExecutedIsDurable ==
    \A c \in Calls :
        outcome[c].status = "executed" /\ started[c] /\ pc[c] \in {"finish", "done"}
        => /\ effect[c] /\ logged[c]
           /\ Keyed(c) /\ store[KeyOf[c]].owner = c => store[KeyOf[c]].state = "completed"

-----------------------------------------------------------------------------
(* Authorization and results *)

\* One issue of a grant authorizes at most one handler call, whichever calls
\* present the approval id, and whenever late consumers spend it.
GrantSpentOnce ==
    \A g \in Grants :
        Cardinality({c \in Calls : GrantOf[c] = g /\ NeedsGrant(c) /\ started[c]})
            <= grants[g].issues

\* DENIED and APPROVAL_REQUIRED mean that the handler was not and will not be
\* called.
DeniedNeverStarts ==
    \A c \in Calls :
        outcome[c].status \in {"denied", "approval_required"} => ~started[c] /\ ~Live(c)

\* A confirmed reconciliation state is never reported while the worker of the
\* handler may still commit.
ConfirmedIsFinal ==
    \A c \in Calls :
        outcome[c].recon \in {"confirmed_complete", "confirmed_absent"} => ~Live(c)

\* CONFIRMED_ABSENT means that the side effect did not take place.
AbsentIsAbsent ==
    \A c \in Calls : outcome[c].recon = "confirmed_absent" => ~effect[c]

-----------------------------------------------------------------------------
(* Progress *)

\* A caller's thread goes on, and its bounded waits end, by themselves; the
\* workers are foreign code and may never return.
CallersProgress == \A c \in Calls : WF_vars(Caller(c))

BoundedWaits == Spec /\ CallersProgress

\* Every call of execute() returns, though handlers and providers hang.
EveryCallReturns == \A c \in Calls : <>(pc[c] = "done")

\* If the workers that hung do return in the end, all capacity is free again.
CapacityReturns ==
    (\A c \in Calls : WF_vars(Worker(c)))
        => <>[](\A r \in Runtimes : budget[r].active = 0 /\ tracker[r] = FreshAccount)

-----------------------------------------------------------------------------
(* The runtimes together implement the ledger of side effects. *)

LedgerPhase(rec) ==
    CASE rec.state = "absent"                       -> "free"
      [] rec.state \in {"in_progress", "uncertain"} -> "open"
      [] rec.state = "completed" /\ ~rec.expired    -> "settled"
      [] rec.state = "completed" /\ rec.expired     -> "lapsed"

LedgerEntry(rec) ==
    [phase |-> LedgerPhase(rec), holder |-> rec.owner,
     begun |-> rec.owner # None /\ started[rec.owner]]

LedgerOfStore == [k \in Keys |-> LedgerEntry(store[k])]

Ledger == INSTANCE SideEffectLedger WITH ledger <- LedgerOfStore

\* Every behaviour of the runtimes is one of SideEffectLedger.
LedgerSpec == Ledger!Spec
=============================================================================
