---------------------------- MODULE WebhookDelivery ----------------------------
(***************************************************************************)
(* Deliveries of one tenant to a webhook destination: an outbox in the     *)
(* control table (handler.py), the FIFO queue of the tenant, and the       *)
(* worker that signs and posts each event (webhook_worker.py).             *)
(*                                                                         *)
(* A sender is a request that enqueues a delivery, or the scheduled cycle, *)
(* which dispatches one entry of the outbox index after the other.  It     *)
(* visits every registered tenant, and raises at the first with too many   *)
(* entries: whether it gets as far as this tenant is the environment's.    *)
(* A sender or the worker may stop at any step; what it sent or wrote      *)
(* stays.                                                                  *)
(***************************************************************************)
EXTENDS WebhookDestinations, WorkQueue, FiniteSets

CONSTANTS
    Deliveries,    \* bound on the deliveries
    Senders,       \* bound on the senders at a time
    OutboxBound,   \* the entries of a tenant that the cycle accepts
    MaxMishaps,    \* bound on the failed calls, the stops and the forgotten ids
    NoDelivery

ASSUME DeliveryAssumption == NoDelivery \notin Deliveries /\ OutboxBound \in Nat \ {0}

VARIABLES
    delivery,      \* the WEBHOOK_DELIVERY items
    outbox,        \* the outbox index, which may lag behind the items
    reached,       \* the cycle gets as far as this tenant
    queue,         \* the tenant's messages
    recent,        \* deduplication ids of the last five minutes
    dead,          \* the dead letters
    sender,        \* what each sender does
    worker,        \* what the worker does
    audit,         \* the last object put under each delivery's audit key
    posts,         \* history: the times each event was posted
    mishaps        \* bounds the environment

deliveries ==
    <<delivery, outbox, reached, queue, recent, dead, sender, worker, audit, posts, mishaps>>

Terminal == {"delivered", "failed"}

DeliveryRecords ==
    [status : {"absent", "pending", "queued", "retrying"} \cup Terminal,
     attempts : 0 .. MaxReceives, indexed : BOOLEAN]

NoRecord == [status |-> "absent", attempts |-> 0, indexed |-> FALSE]

\* left: the entries that the cycle has yet to dispatch.
Sending(d, left) == [at |-> "send", work |-> d, left |-> left]

IdleSender == [at |-> "idle", work |-> NoDelivery, left |-> {}]

\* seen: the item it read; outcome: the status it will record.
IdleWorker ==
    [at |-> "idle", work |-> NoDelivery, attempt |-> 0, seen |-> NoRecord, outcome |-> "none",
     raises |-> FALSE]

DeliveryInit ==
    /\ delivery = [d \in Deliveries |-> NoRecord]
    /\ outbox = {}
    /\ reached \in BOOLEAN
    /\ queue = <<>>
    /\ recent = {}
    /\ dead = {}
    /\ sender = [s \in Senders |-> IdleSender]
    /\ worker = IdleWorker
    /\ audit = [d \in Deliveries |-> "none"]
    /\ posts = [d \in Deliveries |-> 0]
    /\ mishaps = 0

Ended(d) == delivery[d].status \in Terminal

(***************************************************************************)
(* The outbox.                                                             *)
(***************************************************************************)
\* Mutant: the item is put as queued, and the outbox does not have it.
EnqueueQueued(s, d) ==
    /\ sender[s].at = "idle"
    /\ delivery[d].status = "absent"
    /\ destination.status = "active"
    /\ delivery' = [delivery EXCEPT ![d].status = "queued"]
    /\ sender' = [sender EXCEPT ![s] = Sending(d, {})]
    /\ UNCHANGED <<destinations, outbox, reached, queue, recent, dead, worker, audit, posts, mishaps>>

Enqueue(s, d) ==
    /\ sender[s].at = "idle"
    /\ delivery[d].status = "absent"
    /\ destination.status = "active"
    /\ delivery' = [delivery EXCEPT ![d] = [NoRecord EXCEPT !.status = "pending", !.indexed = TRUE]]
    /\ sender' = [sender EXCEPT ![s] = Sending(d, {})]
    /\ UNCHANGED <<destinations, outbox, reached, queue, recent, dead, worker, audit, posts, mishaps>>

RefreshIndex ==
    /\ outbox' = {d \in Deliveries : delivery[d].indexed}
    /\ outbox' # outbox
    /\ UNCHANGED <<destinations, delivery, reached, queue, recent, dead, sender, worker, audit, posts, mishaps>>

\* The tenant is registered, or an earlier one has too many entries or no longer.
ReachChanges ==
    /\ reached' = ~ reached
    /\ UNCHANGED <<destinations, delivery, outbox, queue, recent, dead, sender, worker, audit, posts, mishaps>>

\* The scheduled cycle reads the tenant's entries; with too many it raises, and
\* dispatches none.
Cycle(s) ==
    /\ sender[s].at = "idle"
    /\ reached
    /\ Cardinality(outbox) <= OutboxBound
    /\ \E d \in outbox : sender' = [sender EXCEPT ![s] = Sending(d, outbox \ {d})]
    /\ UNCHANGED <<destinations, delivery, outbox, reached, queue, recent, dead, worker, audit, posts, mishaps>>

\* SQS has the message.
Submit(s) ==
    /\ queue' = Sent(queue, recent, sender[s].work)
    /\ recent' = recent \cup {sender[s].work}

Send(s) ==
    /\ sender[s].at = "send"
    /\ Submit(s)
    /\ sender' = [sender EXCEPT ![s].at = "mark"]
    /\ UNCHANGED <<destinations, delivery, outbox, reached, dead, worker, audit, posts, mishaps>>

\* With an entry dispatched, whatever came of it, the cycle turns to the next.
GoOn(s) ==
    \/ /\ sender[s].left = {}
       /\ sender' = [sender EXCEPT ![s] = IdleSender]
    \/ \E d \in sender[s].left :
          sender' = [sender EXCEPT ![s] = Sending(d, sender[s].left \ {d})]

\* Mutant: the put is unconditional.
MarkAnyStatus(s) ==
    LET d == sender[s].work IN
    /\ sender[s].at = "mark"
    /\ delivery' = [delivery EXCEPT ![d] = [NoRecord EXCEPT !.status = "queued"]]
    /\ GoOn(s)
    /\ UNCHANGED <<destinations, outbox, reached, queue, recent, dead, worker, audit, posts, mishaps>>

\* The put on the condition that the item is pending; a conflict is ignored.
MarkQueued(s) ==
    LET d == sender[s].work IN
    /\ sender[s].at = "mark"
    /\ delivery' = IF delivery[d].status = "pending"
                   THEN [delivery EXCEPT ![d] = [NoRecord EXCEPT !.status = "queued"]]
                   ELSE delivery
    /\ GoOn(s)
    /\ UNCHANGED <<destinations, outbox, reached, queue, recent, dead, worker, audit, posts, mishaps>>

(***************************************************************************)
(* The worker.                                                             *)
(***************************************************************************)
Receive ==
    /\ worker.at = "idle"
    /\ queue # <<>>
    /\ ~ Exhausted(queue)
    /\ queue' = Received(queue)
    /\ worker' = [IdleWorker EXCEPT !.at = "load", !.work = Head(queue).work,
                                    !.attempt = Head(queue').receives]
    /\ UNCHANGED <<destinations, delivery, outbox, reached, recent, dead, sender, audit, posts, mishaps>>

\* An ended delivery has its health item repaired, and nothing is sent.
Load ==
    LET item == delivery[worker.work] IN
    /\ worker.at = "load"
    /\ worker' = IF item.status \in Terminal
                 THEN [worker EXCEPT !.at = "finish"]
                 ELSE [worker EXCEPT !.at = "target", !.seen = item]
    /\ UNCHANGED <<destinations, delivery, outbox, reached, queue, recent, dead, sender, audit, posts, mishaps>>

\* An attempt that fails is final when it is the last; it raises in any case.
Failing(w) ==
    IF w.attempt = MaxReceives
    THEN [w EXCEPT !.at = "audit", !.outcome = "failed", !.raises = TRUE]
    ELSE [w EXCEPT !.at = "record", !.outcome = "retrying", !.raises = TRUE]

\* Reads the destination and its keys.
ReadTarget ==
    /\ worker.at = "target"
    /\ worker' = CASE destination.status # "active" ->
                        [worker EXCEPT !.at = "audit", !.outcome = "failed"]
                   [] destination.status = "active" /\ secret.deleted -> Failing(worker)
                   [] OTHER -> [worker EXCEPT !.at = "post"]
    /\ UNCHANGED <<destinations, delivery, outbox, reached, queue, recent, dead, sender, audit, posts, mishaps>>

Posted(answer) ==
    /\ worker.at = "post"
    /\ posts' = [posts EXCEPT ![worker.work] = @ + 1]
    /\ worker' = answer
    /\ UNCHANGED <<destinations, delivery, outbox, reached, queue, recent, dead, sender, audit, mishaps>>

\* Mutant: the last attempt is recorded like the others, without an audit.
PostUnaudited ==
    \/ Posted([worker EXCEPT !.at = "audit", !.outcome = "delivered"])
    \/ Posted([Failing(worker) EXCEPT !.at = "record"])

\* The receiver may have the event whatever the answer is.
Post ==
    \/ Posted([worker EXCEPT !.at = "audit", !.outcome = "delivered"])
    \/ Posted(Failing(worker))

WriteAudit ==
    /\ worker.at = "audit"
    /\ audit' = [audit EXCEPT ![worker.work] = worker.outcome]
    /\ worker' = [worker EXCEPT !.at = "record"]
    /\ UNCHANGED <<destinations, delivery, outbox, reached, queue, recent, dead, sender, posts, mishaps>>

\* Conditional on the status and the attempts that were read; a conflict raises.
Record ==
    LET d == worker.work
        held == /\ delivery[d].status = worker.seen.status
                /\ delivery[d].attempts = worker.seen.attempts IN
    /\ worker.at = "record"
    /\ delivery' = IF held
                   THEN [delivery EXCEPT ![d] =
                        [status |-> worker.outcome, attempts |-> worker.attempt, indexed |-> FALSE]]
                   ELSE delivery
    /\ worker' = [worker EXCEPT !.at = IF held /\ ~ worker.raises THEN "finish" ELSE "raise"]
    /\ UNCHANGED <<destinations, outbox, reached, queue, recent, dead, sender, audit, posts, mishaps>>

\* The health item is put and the message deleted.
Finish ==
    /\ worker.at = "finish"
    /\ queue' = Tail(queue)
    /\ worker' = IdleWorker
    /\ UNCHANGED <<destinations, delivery, outbox, reached, recent, dead, sender, audit, posts, mishaps>>

GiveBack ==
    /\ queue' = Returned(queue)
    /\ dead' = IF Exhausted(queue) THEN dead \cup {worker.work} ELSE dead
    /\ worker' = IdleWorker
    /\ UNCHANGED <<destinations, delivery, outbox, reached, recent, sender, audit, posts>>

Raise == worker.at = "raise" /\ GiveBack /\ UNCHANGED mishaps

(***************************************************************************)
(* Mishaps.                                                                *)
(***************************************************************************)
Mishap == mishaps < MaxMishaps /\ mishaps' = mishaps + 1

WorkerStops == Mishap /\ worker.at \notin {"idle", "raise"} /\ GiveBack

\* The call to SQS fails, the message sent or not, or the put that follows it:
\* what _dispatch_webhook_delivery catches.
DispatchFails(s) ==
    /\ Mishap
    /\ sender[s].at # "idle"
    /\ \/ sender[s].at = "send" /\ Submit(s)
       \/ UNCHANGED <<queue, recent>>
    /\ GoOn(s)
    /\ UNCHANGED <<destinations, delivery, outbox, reached, dead, worker, audit, posts>>

\* The sender's process stops.
SenderStops(s) ==
    /\ Mishap
    /\ sender[s].at # "idle"
    /\ sender' = [sender EXCEPT ![s] = IdleSender]
    /\ UNCHANGED <<destinations, delivery, outbox, reached, queue, recent, dead, worker, audit, posts>>

\* Five minutes have passed since the message was sent.
ForgetId(d) ==
    /\ Mishap
    /\ d \in recent
    /\ recent' = recent \ {d}
    /\ UNCHANGED <<destinations, delivery, outbox, reached, queue, dead, sender, worker, audit, posts>>

WorkerStep ==
    \/ Receive \/ Load \/ ReadTarget \/ Post \/ WriteAudit \/ Record \/ Finish \/ Raise

SenderStep(s) ==
    \/ \E d \in Deliveries : Enqueue(s, d)
    \/ Cycle(s)
    \/ Send(s)
    \/ MarkQueued(s)

DeliveryNext ==
    \/ RefreshIndex
    \/ ReachChanges
    \/ \E s \in Senders : SenderStep(s) \/ DispatchFails(s) \/ SenderStops(s)
    \/ WorkerStep
    \/ WorkerStops
    \/ \E d \in Deliveries : ForgetId(d)

\* The destination's requests and its deliveries; what reads the other's state
\* changes nothing of it.
WebhookInit == DestinationInit /\ DeliveryInit

WebhookNext == DeliveryNext \/ (DestinationNext /\ UNCHANGED deliveries)

WebhookSpec == WebhookInit /\ [][WebhookNext]_<<destinations, deliveries>>

\* SQS invokes the worker while there are messages, a process that does not stop
\* goes on, an index catches up, and the cycle is called every minute.  Nothing
\* is said of how far it gets.
DeliveryFairness ==
    /\ WF_deliveries(WorkerStep)
    /\ WF_deliveries(RefreshIndex)
    /\ \A s \in Senders : WF_deliveries(Send(s) \/ MarkQueued(s))
    /\ WF_deliveries(\E s \in Senders : Cycle(s))

(***************************************************************************)
(* Properties.                                                             *)
(***************************************************************************)
\* An ended delivery and its immutable audit tell the same outcome, whatever
\* attempts were made before (_terminal_attempt: the audit first).
AuditMatchesState == \A d \in Deliveries : Ended(d) => audit[d] = delivery[d].status

\* An ended delivery is not changed, and its event not posted again, by a message
\* sent twice, a stale entry of the outbox index or a late put of a sender.
EndedIsFinal ==
    [][\A d \in Deliveries :
        Ended(d) => delivery'[d] = delivery[d] /\ posts'[d] = posts[d]]_deliveries

\* If the cycle reaches the tenant from some moment on, and finds no more entries
\* than it accepts, each delivery ends or is a dead letter, whatever was refused,
\* stopped or lost before (_webhook_dispatch_cycle, the worker's retries and the
\* queue's dead letters).  Without that it may not: what SQS refused stays in the
\* outbox for as long as the cycle raises before it comes to dispatch it.
DeliveryEnds ==
    <>[](reached /\ Cardinality(outbox) <= OutboxBound) =>
        <>[]\A d \in Deliveries : delivery[d].status # "absent" => Ended(d) \/ d \in dead
=============================================================================
