------------------------- MODULE WebhookDestinations --------------------------
(***************************************************************************)
(* A webhook destination of the control plane and its signing keys         *)
(* (handler.py): a key is made in Secrets Manager, becomes authority when  *)
(* the destination's record names it, and is disclosed once, in the        *)
(* response.  A request may end anywhere, with its response lost.          *)
(***************************************************************************)
EXTENDS Naturals

CONSTANTS
    Operators,     \* bound on the requests in flight
    Keys,          \* bound on the signing keys
    MaxChanges,    \* bound on the destination's revision
    NoKey

ASSUME KeyAssumption == NoKey \notin Keys /\ MaxChanges \in Nat

VARIABLES
    destination,   \* the WEBHOOK item
    secret,        \* its secret: the versions made, and whether it is deleted
    change,        \* what each operator's request does and remembers
    disclosed,     \* history: the keys some response disclosed
    covered        \* history: the active key was disclosed as the overlap began

destinations == <<destination, secret, change, disclosed, covered>>

\* overlap: previous_key_valid_until is in the future.
DestinationRecords ==
    [status : {"absent", "active", "paused", "retired"}, revision : 0 .. MaxChanges,
     active : Keys \cup {NoKey}, previous : Keys \cup {NoKey}, overlap : BOOLEAN,
     cleaned : BOOLEAN]

NoDestination ==
    [status |-> "absent", revision |-> 0, active |-> NoKey, previous |-> NoKey,
     overlap |-> FALSE, cleaned |-> FALSE]

Created(k) == [NoDestination EXCEPT !.status = "active", !.revision = 1, !.active = k]

NoChange == [at |-> "idle", key |-> NoKey, seen |-> NoDestination]

DestinationInit ==
    /\ destination = NoDestination
    /\ secret = [made |-> {}, deleted |-> FALSE]
    /\ change = [o \in Operators |-> NoChange]
    /\ disclosed = {}
    /\ covered = FALSE

Continue(o, c) == change' = [change EXCEPT ![o] = c]

\* The request makes a version of the secret.
MakeKey(o, k, at) ==
    /\ change[o].at = "idle"
    /\ k \notin secret.made
    /\ ~ secret.deleted
    /\ secret' = [secret EXCEPT !.made = @ \cup {k}]
    /\ Continue(o, [at |-> at, key |-> k, seen |-> destination])

\* Each create makes a destination and a secret of its own; this is the one.
BeginCreate(o, k) ==
    /\ secret.made = {}
    /\ MakeKey(o, k, "create")
    /\ UNCHANGED <<destination, disclosed, covered>>

CommitCreate(o) ==
    /\ change[o].at = "create"
    /\ destination' = Created(change[o].key)
    /\ Continue(o, [change[o] EXCEPT !.at = "respond"])
    /\ UNCHANGED <<secret, disclosed, covered>>

\* The put of the record fails, or its answer is lost and the retry of the put
\* finds the record there: the secret is deleted in both cases.
AbandonCreate(o) ==
    /\ change[o].at = "create"
    /\ destination' \in {destination, Created(change[o].key)}
    /\ secret' = [secret EXCEPT !.deleted = TRUE]
    /\ Continue(o, NoChange)
    /\ UNCHANGED <<disclosed, covered>>

BeginRotate(o, k) ==
    /\ destination.status \in {"active", "paused"}
    /\ MakeKey(o, k, "rotate")
    /\ UNCHANGED <<destination, disclosed, covered>>

\* The revision still holds, and is below the bound.
Current(o) ==
    /\ destination.revision = change[o].seen.revision
    /\ destination.revision < MaxChanges

\* Mutant: the previous key is always the one that was active.
RotateAway(o) ==
    /\ change[o].at = "rotate"
    /\ Current(o)
    /\ destination' = [destination EXCEPT
          !.revision = @ + 1, !.active = change[o].key,
          !.previous = destination.active, !.overlap = TRUE]
    /\ covered' = IF destination.overlap THEN covered ELSE destination.active \in disclosed
    /\ Continue(o, [change[o] EXCEPT !.at = "respond"])
    /\ UNCHANGED <<secret, disclosed>>

\* Within an overlap the previous key stays, and the overlap is prolonged.
CommitRotate(o) ==
    /\ change[o].at = "rotate"
    /\ Current(o)
    /\ destination' = [destination EXCEPT
          !.revision = @ + 1, !.active = change[o].key,
          !.previous = IF destination.overlap THEN @ ELSE destination.active,
          !.overlap = TRUE]
    /\ covered' = IF destination.overlap THEN covered ELSE destination.active \in disclosed
    /\ Continue(o, [change[o] EXCEPT !.at = "respond"])
    /\ UNCHANGED <<secret, disclosed>>

\* The response reaches the administrator, who gives the key to the receiver.
Disclose(o) ==
    /\ change[o].at = "respond"
    /\ disclosed' = disclosed \cup {change[o].key}
    /\ Continue(o, NoChange)
    /\ UNCHANGED <<destination, secret, covered>>

EndOverlap ==
    /\ destination.overlap
    /\ destination' = [destination EXCEPT !.overlap = FALSE]
    /\ UNCHANGED <<secret, change, disclosed, covered>>

\* The operator names the revision, and the put is conditional on it.
SetStatus(o, status) ==
    /\ change[o].at = "idle"
    /\ destination.status \in {"active", "paused"}
    /\ destination.revision < MaxChanges
    /\ destination' = [destination EXCEPT !.status = status, !.revision = @ + 1]
    /\ Continue(o, IF status = "retired"
                   THEN [NoChange EXCEPT !.at = "delete", !.seen = destination'] ELSE NoChange)
    /\ UNCHANGED <<secret, disclosed, covered>>

\* The retirement is asked for again, when the first one got no further.
RetireAgain(o) ==
    /\ change[o].at = "idle"
    /\ destination.status = "retired"
    /\ ~ destination.cleaned
    /\ Continue(o, [NoChange EXCEPT !.at = "delete", !.seen = destination])
    /\ UNCHANGED <<destination, secret, disclosed, covered>>

DeleteSecret(o) ==
    /\ change[o].at = "delete"
    /\ secret' = [secret EXCEPT !.deleted = TRUE]
    /\ Continue(o, [change[o] EXCEPT !.at = "clean"])
    /\ UNCHANGED <<destination, disclosed, covered>>

MarkCleaned(o) ==
    /\ change[o].at = "clean"
    /\ destination.revision = change[o].seen.revision
    /\ destination' = [change[o].seen EXCEPT !.cleaned = TRUE]
    /\ Continue(o, NoChange)
    /\ UNCHANGED <<secret, disclosed, covered>>

\* A request ends early, or its response is lost.
EndChange(o) ==
    /\ change[o].at # "idle"
    /\ Continue(o, NoChange)
    /\ UNCHANGED <<destination, secret, disclosed, covered>>

DestinationNext ==
    \/ EndOverlap
    \/ \E o \in Operators :
        \/ \E k \in Keys : BeginCreate(o, k) \/ BeginRotate(o, k)
        \/ CommitCreate(o)
        \/ AbandonCreate(o)
        \/ CommitRotate(o)
        \/ Disclose(o)
        \/ \E status \in {"active", "paused", "retired"} : SetStatus(o, status)
        \/ RetireAgain(o)
        \/ DeleteSecret(o)
        \/ MarkCleaned(o)
        \/ EndChange(o)

(***************************************************************************)
(* Properties.                                                             *)
(***************************************************************************)
\* While a rotation's overlap lasts, a receiver that was given the key in use when
\* the overlap began was given one of the keys that sign, however many rotations
\* follow and whichever of their responses were lost (_rotate_webhook_destination).
KnownKeySigns ==
    destination.overlap /\ covered
        => \E k \in {destination.active, destination.previous} : k \in disclosed
=============================================================================
