----------------------- MODULE GuardedRuntimeInvariants -----------------------
(***************************************************************************)
(* The inductive invariants behind the properties of RuntimeProperties:    *)
(* where the workers of a call are, what its lease is, and whom the stop   *)
(* flag has reached.                                                       *)
(***************************************************************************)
EXTENDS RuntimeProperties

\* The places of a call up to the end of its wait for op.
UpTo(op) ==
    CASE op = "policy" -> {"idle", "register", "prepare", "policy"}
      [] op = "approval" ->
            {"idle", "register", "prepare", "policy", "replay", "claim", "approve", "approval"}
      [] op = "credential" ->
            {"idle", "register", "prepare", "policy", "replay", "claim", "approve", "approval",
             "mint", "credential"}
      [] op = "handler" ->
            {"idle", "register", "prepare", "policy", "replay", "claim", "approve", "approval",
             "mint", "credential", "invoke", "handler"}
      [] op = "reconcile" ->
            {"idle", "register", "prepare", "policy", "replay", "claim", "approve", "approval",
             "mint", "credential", "invoke", "handler", "timedOut", "reconcile"}
      [] op = "failureAudit" ->
            {"idle", "register", "prepare", "policy", "replay", "claim", "approve", "approval",
             "mint", "credential", "invoke", "handler", "timedOut", "reconcile",
             "reportFailure", "failureAudit"}
      [] op = "audit" -> Places \ {"store", "finish", "done"}

\* A worker exists exactly while its caller waits for it or after it outlived
\* that wait, and it is late only once the caller has gone on.
WorkersPlaced ==
    \A c \in Calls, op \in Ops :
        /\ worker[c][op] # "none" <=> pc[c] = op \/ op \in late[c]
        /\ op \in late[c] => pc[c] \notin UpTo(op)

\* A call has no lease before it is admitted, and a plain one until it is
\* registered.  A deferred lease that is still held waits for a late worker,
\* and a call that has returned holds no other.
LeasesPlaced ==
    \A c \in Calls :
        /\ pc[c] = "idle" => lease[c] = FreshLease
        /\ pc[c] = "register" => Releases(lease[c])
        /\ Releases(lease[c]) /\ lease[c].deferred => late[c] # {}
        /\ pc[c] = "done" /\ Releases(lease[c]) => lease[c].deferred

\* Only a crash loses an answer, and only an answer that a record can hold is
\* stored: a denial goes past the store.
AnswersPlaced ==
    \A c \in Calls :
        /\ outcome[c].status = "lost" => pc[c] = "done"
        /\ pc[c] = "store" => outcome[c].status \notin {"denied", "approval_required"}

AccountsInv ==
    TypeOK /\ WorkersPlaced /\ LeasesPlaced /\ AnswersPlaced /\ TrackerExact /\ BudgetExact

\* From its registration until its handler is behind it a call has its token
\* where stop() finds it; after that a live handler is a cancelled one.
StopReaches ==
    /\ \A c \in Calls :
          /\ pc[c] \in UpTo("handler") \ {"idle", "register"} => c \in registered[Rt(c)]
          /\ "handler" \in late[c] => cancelled[c]
    /\ \A r \in Runtimes : stopped[r] => \A c \in registered[r] \cap CallsOf(r) : cancelled[c]

\* Up to its handler a call has no late worker and, once admitted, a slot; a handler
\* that outlived its caller's wait is the only worker that is late, and the slot's
\* release is left to it.
SlotsHeld ==
    \A c \in Calls :
        /\ pc[c] \in UpTo("handler") => late[c] = {} /\ (pc[c] = "idle" \/ Releases(lease[c]))
        /\ "handler" \in late[c] =>
              late[c] = {"handler"} /\ Releases(lease[c]) /\ lease[c].deferred

-----------------------------------------------------------------------------
(* What a call knows of its handler, its key and its grant. *)

\* The places before the handler is submitted, and those between its timeout
\* and the answer.
Before == UpTo("handler") \ {"handler"}
Reconciling == {"timedOut", "reconcile", "reportFailure", "failureAudit"}

\* The answers that mean no handler call, and those that mean a side effect.
Refusals == {"denied", "approval_required"}
Executions == {"executed", "executed_unrecorded", "executed_result_rejected"}

\* A handler is called once, has its effect while it runs, and has ended before
\* its completion event is set.
HandlerPlaced(c) ==
    /\ pc[c] \in Before => ~started[c] /\ ~completion[c]
    /\ worker[c]["handler"] \in {"queued", "cleared"} => ~started[c] /\ ~completion[c]
    /\ worker[c]["handler"] = "running" => started[c] /\ ~completion[c]
    /\ effect[c] => started[c]
    /\ returned[c] \in {"ok", "bad_output"} => effect[c]

\* What a call may answer at each place.
AnswerPlaced(c) ==
    /\ pc[c] \in UpTo("handler") => outcome[c].status = "none"
    /\ pc[c] \in Reconciling \/ "handler" \in late[c] => outcome[c].status \in {"timed_out", "lost"}
    /\ outcome[c].status \in Refusals => ~started[c] /\ worker[c]["handler"] = "none"
    /\ outcome[c].status \in Executions /\ pc[c] \in {"record", "audit", "store"} => effect[c]
    /\ outcome[c].status = "executed" /\ started[c] => effect[c]
    /\ outcome[c].status = "executed" /\ started[c] /\ pc[c] \in {"store", "finish", "done"}
          => logged[c]
    /\ outcome[c].recon \in {"confirmed_complete", "confirmed_absent"} => completion[c]
    /\ settled[c] => pc[c] \in {"finish", "done"} /\ "handler" \notin late[c]

\* A record belongs to the call that claimed its key, for the action of that
\* call, and a completed one tells of an effect.
RecordOwned(k) ==
    LET rec == store[k] IN
    /\ rec.state = "absent" => rec = NoRecord
    /\ rec.state # "absent" =>
          /\ rec.owner \in Calls /\ Keyed(rec.owner)
          /\ KeyOf[rec.owner] = k /\ FingerprintOf[rec.owner] = rec.fp
    /\ rec.state = "completed" =>
          rec.result \in {"executed", "executed_unrecorded"} /\ effect[rec.owner]

\* From its claim to its terminal record a call that is not refused owns its
\* key; one whose handler was submitted does so until its outcome is settled.
KeyHeld(c) ==
    Keyed(c) =>
        /\ \/ pc[c] \in {"approve", "approval", "mint", "credential", "invoke", "handler", "store"}
           \/ pc[c] \in Reconciling
           \/ pc[c] \in {"record", "audit"} /\ outcome[c].status \notin Refusals
           => store[KeyOf[c]].owner = c /\ store[KeyOf[c]].state = "in_progress"
        /\ (started[c] \/ worker[c]["handler"] # "none") /\ ~settled[c] =>
              store[KeyOf[c]].owner = c /\ store[KeyOf[c]].state \in {"in_progress", "uncertain"}
        /\ /\ outcome[c].status = "executed" /\ started[c] /\ pc[c] \in {"finish", "done"}
           /\ store[KeyOf[c]].owner = c
           => store[KeyOf[c]].state = "completed"

\* Some call of the same key and action had the effect.
EffectKnown(c) ==
    \E d \in Calls : KeyOf[d] = KeyOf[c] /\ FingerprintOf[d] = FingerprintOf[c] /\ effect[d]

\* Who is told that an action was executed is told the truth.
KeysInv ==
    /\ \A c \in Calls :
          /\ HandlerPlaced(c) /\ AnswerPlaced(c) /\ KeyHeld(c)
          /\ outcome[c].status \in Executions => EffectKnown(c)
    /\ \A k \in Keys : RecordOwned(k)

\* The calls to which an issue of a grant has answered CONSUMED.
Spenders(g) == {c \in Calls : GrantOf[c] = g /\ approval[c] = "consumed"}

\* A grant that is not used has an issue to spare.
GrantsCounted ==
    \A g \in Grants :
        /\ grants[g].issues > 0 /\ ~grants[g].used => Cardinality(Spenders(g)) < grants[g].issues
        /\ Cardinality(Spenders(g)) <= grants[g].issues

\* A call whose policy wanted an approval has its handler submitted only after
\* it was consumed, and its decision stands by then.
GrantBehind(c) ==
    (started[c] \/ worker[c]["handler"] # "none") /\ NeedsGrant(c) => approval[c] = "consumed"

GrantsInv == GrantsCounted /\ \A c \in Calls : GrantBehind(c)
=============================================================================
