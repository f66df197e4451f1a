--------------------------- MODULE IdempotencyStore ---------------------------
(***************************************************************************)
(* The idempotency records of idempotency.py (InMemoryIdempotencyStore),   *)
(* one per operation key, shared by every runtime.  claim, lookup, _update *)
(* and gc each run under the store's lock, so each is one atomic step.     *)
(*                                                                         *)
(* Time is abstracted to one flag per record: "expired" turns true when    *)
(* expires_at passes, and only then does the store behave differently.     *)
(* The identity tuple compared by claim (fingerprint, tenant, principal,   *)
(* tool, resources) is one value, the fingerprint.  "owner" is a history   *)
(* field: the call whose claim created the record.  The code does not keep *)
(* it, and no operation of the store reads it.                             *)
(***************************************************************************)
EXTENDS Proposals

VARIABLE store      \* [Keys -> Records]

RecordStates == {"absent", "in_progress", "completed", "uncertain"}

\* The result a record holds is the status of the ExecutionResult stored.
Results ==
    {"none", "executed", "executed_unrecorded", "executed_result_rejected",
     "timed_out", "cancelled", "failed"}

Records ==
    [state: RecordStates, fp: Fingerprints \cup {None}, owner: Calls \cup {None},
     result: Results, expired: BOOLEAN]

StoreTypeOK == store \in [Keys -> Records]

NoRecord ==
    [state |-> "absent", fp |-> None, owner |-> None,
     result |-> "none", expired |-> FALSE]

\* new_record: a live claim.
NewRecord(c, fp) ==
    [state |-> "in_progress", fp |-> fp, owner |-> c,
     result |-> "none", expired |-> FALSE]

StoreInit == store = [k \in Keys |-> NoRecord]

ExpiredCompleted(rec) == rec.state = "completed" /\ rec.expired

\* Mutant of ClaimStatus: an expired uncertain outcome counts as completed.
ClaimStatusForgetful(rec, fp) ==
    CASE rec.state = "absent"                                     -> "claimed"
      [] rec.state \in {"completed", "uncertain"} /\ rec.expired  -> "claimed"
      [] rec.state = "in_progress" /\ rec.expired                 -> "expired"
      [] rec.state # "absent" /\ ~rec.expired /\ rec.fp # fp      -> "conflict"
      [] rec.state # "absent" /\ ~rec.expired /\ rec.fp = fp      -> "existing"

\* What claim answers for a record, in the order its branches test it.
ClaimStatus(rec, fp) ==
    CASE rec.state = "absent" \/ ExpiredCompleted(rec)           -> "claimed"
      [] rec.state \in {"in_progress", "uncertain"} /\ rec.expired -> "expired"
      [] rec.state # "absent" /\ ~rec.expired /\ rec.fp # fp      -> "conflict"
      [] rec.state # "absent" /\ ~rec.expired /\ rec.fp = fp      -> "existing"

\* claim: only the answer "claimed" writes.
ClaimedStore(k, c, fp) ==
    IF ClaimStatus(store[k], fp) = "claimed"
    THEN [store EXCEPT ![k] = NewRecord(c, fp)]
    ELSE store

\* Mutant of Found: lookup and gc drop every expired record.
FoundUnexpired(k) == IF store[k].expired THEN NoRecord ELSE store[k]

\* lookup deletes an expired completed record, and then finds nothing.
Found(k) == IF ExpiredCompleted(store[k]) THEN NoRecord ELSE store[k]

LookedUpStore(k) == [store EXCEPT ![k] = Found(k)]

\* _update, for complete ("completed") and mark_uncertain ("uncertain"): it
\* asks only that the record exists.
CanUpdate(k) == store[k].state # "absent"

UpdatedStore(k, state, result) ==
    [store EXCEPT ![k].state = state, ![k].result = result]

-----------------------------------------------------------------------------
(* Environment: time passes, and the operator collects garbage. *)

\* expires_at of a record passes.
Expire(k) ==
    /\ store[k].state # "absent"
    /\ ~store[k].expired
    /\ store' = [store EXCEPT ![k].expired = TRUE]

\* Mutant of Gc: claims that ran out are collected too.
GcEverythingExpired == store' = [k \in Keys |-> IF store[k].expired THEN NoRecord ELSE store[k]]

\* gc removes expired completed records and no others.
Gc ==
    /\ \E k \in Keys : ExpiredCompleted(store[k])
    /\ store' = [k \in Keys |-> Found(k)]
=============================================================================
