-------------------------- MODULE DynamoIdempotency --------------------------
(***************************************************************************)
(* DynamoDbIdempotencyStore (aws.py): the idempotency records in a         *)
(* DynamoDB table.  The table executes one conditional request at a time,  *)
(* so that is the atomic step here; claim, complete, mark_uncertain and gc *)
(* take several, and other processes come in between.                      *)
(*                                                                         *)
(* A client is one call of the runtime: it claims its key and, if it won,  *)
(* calls the handler and stores the result.  It may die at any step.  A    *)
(* request that fails may have been executed; when the transport repeats a *)
(* conditional put that had been executed, the condition fails on the      *)
(* client's own item.  Repeating a terminal write is one write here: the   *)
(* transport gives up long before an item's time to live is over.          *)
(*                                                                         *)
(* An item's identity and expires_at are those of the client that claimed  *)
(* it, and no write changes them, so the item names its owner instead.     *)
(* All clients and gc passes read one clock.                               *)
(***************************************************************************)
CONSTANTS
    Keys,
    Clients,
    Fingerprints,   \* the identity tuples compared by claim
    None,           \* no owner
    KeyOf,          \* [Clients -> Keys]
    FingerprintOf   \* [Clients -> Fingerprints]

ASSUME ClientsAreTyped ==
    /\ KeyOf \in [Clients -> Keys]
    /\ FingerprintOf \in [Clients -> Fingerprints]
    /\ None \notin Clients

VARIABLES
    expires,   \* the table deletes items by their "ttl": set for good when deployed
    item,      \* [Keys -> Items], the table
    lapsed,    \* [Clients -> BOOLEAN], expires_at of the client's record has passed
    pc,        \* where the client is
    seen,      \* the item its last get_item returned
    answer,    \* the status claim returned
    begun,     \* the client's handler was called
    settled,   \* history: its terminal result was written
    scanned    \* the keys that a gc pass has still to delete

vars == <<expires, item, lapsed, pc, seen, answer, begun, settled, scanned>>

Records == [state: {"in_progress", "completed", "uncertain"}, owner: Clients]

NoItem == [state |-> "absent", owner |-> None]

Items == Records \cup {NoItem}

Claiming == {"put", "get", "replace", "reread"}
Working == {"claimed", "running", "write"}

\* "answered": the claim was refused.  "raised": a request failed and the
\* exception reached the caller.  "gone": the process died.
Places == Claiming \cup Working \cup {"answered", "raised", "stored", "gone"}

Answers == {"none", "claimed", "existing", "replay", "conflict", "expired"}

\* The types of the variables; a refusal carries the record it was refused for.
TypeOK ==
    /\ expires \in BOOLEAN
    /\ item \in [Keys -> Items]
    /\ lapsed \in [Clients -> BOOLEAN]
    /\ begun \in [Clients -> BOOLEAN]
    /\ settled \in [Clients -> BOOLEAN]
    /\ pc \in [Clients -> Places]
    /\ seen \in [Clients -> Items]
    /\ answer \in [Clients -> Answers]
    /\ scanned \subseteq Keys
    /\ \A c \in Clients : pc[c] = "answered" => seen[c] \in Records

Init ==
    /\ expires \in BOOLEAN
    /\ item = [k \in Keys |-> NoItem]
    /\ lapsed = [c \in Clients |-> FALSE]
    /\ pc = [c \in Clients |-> "put"]
    /\ seen = [c \in Clients |-> NoItem]
    /\ answer = [c \in Clients |-> "none"]
    /\ begun = [c \in Clients |-> FALSE]
    /\ settled = [c \in Clients |-> FALSE]
    /\ scanned = {}

Item(c) == item[KeyOf[c]]

\* Mutant of ExpiredCompleted: expiry alone decides.
ExpiredWhateverState(i) == i # NoItem /\ lapsed[i.owner]

\* The condition "#state = :completed AND #expires_at <= :now".
ExpiredCompleted(i) == i.state = "completed" /\ lapsed[i.owner]

Goto(c, place) == pc' = [pc EXCEPT ![c] = place]

Claimed(c) == item' = [item EXCEPT ![KeyOf[c]] = [state |-> "in_progress", owner |-> c]]

Wins(c) == Goto(c, "claimed") /\ answer' = [answer EXCEPT ![c] = "claimed"]

Fails(c) == Goto(c, "raised") /\ UNCHANGED answer

\* A write of a claim: it succeeds, or was executed and fails (or is repeated
\* by the transport, which then meets its own item), or fails unexecuted.
Writes(c, next) ==
    \/ Claimed(c) /\ Wins(c)
    \/ Claimed(c) /\ Goto(c, next) /\ UNCHANGED answer
    \/ Fails(c) /\ (Claimed(c) \/ UNCHANGED item)

-----------------------------------------------------------------------------
(* claim *)

\* put_item with attribute_not_exists(pk)
ClaimPut(c) ==
    /\ pc[c] = "put"
    /\ \/ Item(c) = NoItem /\ Writes(c, "get")
       \/ Item(c) # NoItem /\ Goto(c, "get") /\ UNCHANGED <<item, answer>>
       \/ Fails(c) /\ UNCHANGED item
    /\ UNCHANGED <<expires, lapsed, seen, begun, settled, scanned>>

\* Mutant of Compared: the identity is not compared.
ComparedNot(c, i) == IF i.state = "completed" THEN "replay" ELSE "existing"

\* The status for a record that is there; "replay" is EXISTING with a record
\* whose result the runtime returns.
Compared(c, i) ==
    CASE FingerprintOf[i.owner] # FingerprintOf[c]                          -> "conflict"
      [] FingerprintOf[i.owner] = FingerprintOf[c] /\ i.state = "completed" -> "replay"
      [] FingerprintOf[i.owner] = FingerprintOf[c] /\ i.state # "completed" -> "existing"

Refused(c, i, status) ==
    /\ seen' = [seen EXCEPT ![c] = i]
    /\ answer' = [answer EXCEPT ![c] = status]
    /\ Goto(c, "answered")

\* Mutant of ClaimGet: an item that has vanished is read again, and again.
ClaimGetSpins(c) ==
    /\ pc[c] = "get"
    /\ \/ Item(c) = NoItem /\ UNCHANGED <<pc, seen, answer>>
       \/ Item(c) # NoItem /\ Refused(c, Item(c), Compared(c, Item(c)))
    /\ UNCHANGED <<expires, item, lapsed, begun, settled, scanned>>

\* The conditional failure is reconciled by a read: an item that has vanished
\* is claimed again, an expired completed one is replaced.
ClaimGet(c) ==
    /\ pc[c] = "get"
    /\ \/ /\ Item(c) = NoItem
          /\ Goto(c, "put")
          /\ UNCHANGED <<seen, answer>>
       \/ /\ ExpiredCompleted(Item(c))
          /\ seen' = [seen EXCEPT ![c] = Item(c)]
          /\ Goto(c, "replace")
          /\ UNCHANGED answer
       \/ /\ Item(c) # NoItem /\ ~ExpiredCompleted(Item(c))
          /\ Refused(c, Item(c), Compared(c, Item(c)))
       \/ Fails(c) /\ UNCHANGED seen
    /\ UNCHANGED <<expires, item, lapsed, begun, settled, scanned>>

\* Mutant of Replaceable: the state that was read is not tested again.
ReplaceableByExpiry(i) == i # NoItem /\ lapsed[i.owner]

Replaceable(i) == ExpiredCompleted(i)

ClaimReplace(c) ==
    /\ pc[c] = "replace"
    /\ \/ Replaceable(Item(c)) /\ Writes(c, "reread")
       \/ ~Replaceable(Item(c)) /\ Goto(c, "reread") /\ UNCHANGED <<item, answer>>
       \/ Fails(c) /\ UNCHANGED item
    /\ UNCHANGED <<expires, lapsed, seen, begun, settled, scanned>>

\* Another process was faster: its record decides, or, if that has vanished
\* too, the one that was read before.
ClaimReread(c) ==
    LET i == IF Item(c) = NoItem THEN seen[c] ELSE Item(c) IN
    /\ pc[c] = "reread"
    /\ \/ Refused(c, i, IF ExpiredCompleted(i) THEN "expired" ELSE Compared(c, i))
       \/ Fails(c) /\ UNCHANGED seen
    /\ UNCHANGED <<expires, item, lapsed, begun, settled, scanned>>

-----------------------------------------------------------------------------
(* complete and mark_uncertain *)

\* The runtime calls the handler of the call that won the claim.
Begin(c) ==
    /\ pc[c] = "claimed"
    /\ Goto(c, "running")
    /\ begun' = [begun EXCEPT ![c] = TRUE]
    /\ UNCHANGED <<expires, item, lapsed, seen, answer, settled, scanned>>

\* _update reads the current item; without one it raises KeyError.
UpdateGet(c) ==
    /\ pc[c] = "running"
    /\ \/ /\ Item(c) # NoItem
          /\ seen' = [seen EXCEPT ![c] = Item(c)]
          /\ Goto(c, "write")
       \/ Goto(c, "raised") /\ UNCHANGED seen
    /\ UNCHANGED <<expires, item, lapsed, answer, begun, settled, scanned>>

\* The condition of the terminal write.
SameIdentity(c) ==
    /\ Item(c) # NoItem
    /\ FingerprintOf[Item(c).owner] = FingerprintOf[seen[c].owner]

\* ... and writes the whole item it read, with the new state.
UpdatePut(c) ==
    /\ pc[c] = "write"
    /\ \/ /\ SameIdentity(c)
          /\ \E state \in {"completed", "uncertain"} :
                /\ item' = [item EXCEPT ![KeyOf[c]] = [state |-> state, owner |-> seen[c].owner]]
                /\ settled' = [settled EXCEPT ![c] = state = "completed"]
          /\ \E place \in {"stored", "raised"} : Goto(c, place)
       \/ Goto(c, "raised") /\ UNCHANGED <<item, settled>>
    /\ UNCHANGED <<expires, lapsed, seen, answer, begun, scanned>>

\* The process dies, or the runtime denies the call before its handler.
Dies(c) ==
    /\ pc[c] \in Claiming \cup Working
    /\ Goto(c, "gone")
    /\ UNCHANGED <<expires, item, lapsed, seen, answer, begun, settled, scanned>>

-----------------------------------------------------------------------------
(* gc, time and the table's own expiry *)

\* gc reads the first page of the scan only.
GcScan ==
    /\ scanned = {}
    /\ \E page \in SUBSET Keys :
          /\ scanned' = {k \in page : ExpiredCompleted(item[k])}
          /\ scanned' # {}
    /\ UNCHANGED <<expires, item, lapsed, pc, seen, answer, begun, settled>>

\* Mutant of GcDelete: the delete has no condition.
GcDeleteScanned(k) ==
    /\ k \in scanned
    /\ item' = [item EXCEPT ![k] = NoItem]
    /\ scanned' = scanned \ {k}
    /\ UNCHANGED <<expires, lapsed, pc, seen, answer, begun, settled>>

\* delete_item under the same condition as the replacement; a request that
\* fails ends the pass, executed or not.
GcDelete(k) ==
    /\ k \in scanned
    /\ \/ /\ ExpiredCompleted(item[k])
          /\ item' = [item EXCEPT ![k] = NoItem]
          /\ scanned' \in {scanned \ {k}, {}}
       \/ scanned' = {} /\ UNCHANGED item
    /\ UNCHANGED <<expires, lapsed, pc, seen, answer, begun, settled>>

\* expires_at of the client's record passes.  Where the table expires items, a
\* call is taken to be over by then.
Lapse(c) ==
    /\ ~lapsed[c]
    /\ expires => pc[c] \notin Claiming \cup Working
    /\ lapsed' = [lapsed EXCEPT ![c] = TRUE]
    /\ UNCHANGED <<expires, item, pc, seen, answer, begun, settled, scanned>>

\* DynamoDB deletes an item some time after its "ttl", whatever its state.
TtlDelete(k) ==
    /\ expires
    /\ item[k] # NoItem /\ lapsed[item[k].owner]
    /\ item' = [item EXCEPT ![k] = NoItem]
    /\ UNCHANGED <<expires, lapsed, pc, seen, answer, begun, settled, scanned>>

Claims(c) == ClaimPut(c) \/ ClaimGet(c) \/ ClaimReplace(c) \/ ClaimReread(c)

Updates(c) == UpdateGet(c) \/ UpdatePut(c)

Next ==
    \/ \E c \in Clients : Claims(c) \/ Begin(c) \/ Updates(c) \/ Dies(c) \/ Lapse(c)
    \/ GcScan
    \/ \E k \in Keys : GcDelete(k) \/ TtlDelete(k)

Spec == Init /\ [][Next]_vars

\* The thread that called claim goes on.
FairSpec == Spec /\ \A c \in Clients : WF_vars(Claims(c))

-----------------------------------------------------------------------------
(* Properties *)

\* One process at a time works on a key: between claim and the terminal write
\* of a client, no other client of the key has won a claim, although claim is
\* up to four requests and the terminal write only compares the fingerprint.
OneWorker ==
    \A c, d \in Clients :
        /\ KeyOf[c] = KeyOf[d]
        /\ {pc[c], pc[d]} \subseteq Working
        => c = d

\* Once a handler was called and its result was not stored as completed, the
\* table says so, whatever claims, gc passes and crashes follow, until the
\* record expires; and for good in a table that does not expire items.
UnsettledKept ==
    \A c \in Clients :
        begun[c] /\ ~settled[c] /\ ~(expires /\ lapsed[c]) =>
            Item(c).owner = c /\ Item(c).state \in {"in_progress", "uncertain"}

\* docs/api.md: in-progress and uncertain records are retained, expired or
\* not.  Once a handler was called and its result was not stored as completed,
\* the key has a record.
UnsettledRetained ==
    \A c \in Clients : begun[c] /\ ~settled[c] => Item(c) # NoItem

\* The result that the runtime returns in place of an execution was stored as
\* completed, for this very action, by the client that claimed it.
ReplayIsSettled ==
    \A c \in Clients :
        answer[c] = "replay" =>
            /\ settled[seen[c].owner]
            /\ KeyOf[seen[c].owner] = KeyOf[c]
            /\ FingerprintOf[seen[c].owner] = FingerprintOf[c]

Phase(i) ==
    CASE i = NoItem                                -> "free"
      [] i.state \in {"in_progress", "uncertain"}  -> "open"
      [] i.state = "completed" /\ ~lapsed[i.owner] -> "settled"
      [] ExpiredCompleted(i)                       -> "lapsed"

Entry(i) ==
    [phase  |-> Phase(i), holder |-> i.owner, begun |-> i # NoItem /\ begun[i.owner]]

\* The ledger of a table that expires items is left at its start.
LedgerOfTable ==
    [k \in Keys |-> IF expires THEN Entry(NoItem) ELSE Entry(item[k])]

Ledger == INSTANCE SideEffectLedger WITH Calls <- Clients, ledger <- LedgerOfTable

\* A table that does not expire items keeps the promise of idempotency, step
\* for step: a handler is called at most once in a life of its key, and a new
\* life begins only when the result of the old one was stored and has expired.
\* Nothing is said of a table that does expire them.
LedgerSpec == Ledger!Spec

\* claim calls itself when the item it lost against has vanished; it returns
\* all the same, since an item vanishes only after its client has settled.
ClaimReturns == \A c \in Clients : <>(pc[c] \notin Claiming)
=============================================================================
