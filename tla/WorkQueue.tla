------------------------------- MODULE WorkQueue -------------------------------
(***************************************************************************)
(* One message group of an SQS FIFO queue with a dead-letter queue, as the *)
(* control plane's workers use it.  Messages are received in order, and    *)
(* none of the group while one is with a worker: the visibility timeout of *)
(* each queue is longer than its worker's Lambda may run.                  *)
(***************************************************************************)
EXTENDS Naturals, Sequences

CONSTANT MaxReceives   \* maxReceiveCount of the queue

ASSUME QueueAssumption == MaxReceives \in Nat \ {0}

\* A send whose deduplication id was sent in the last five minutes is dropped.
Sent(queue, recent, work) ==
    IF work \in recent THEN queue ELSE Append(queue, [work |-> work, receives |-> 0])

\* The head is received once more.
Received(queue) == [queue EXCEPT ![1].receives = @ + 1]

\* The head was received as often as the queue allows.
Exhausted(queue) == Head(queue).receives = MaxReceives

\* A receive failed: the head is visible again, or a dead letter.
Returned(queue) == IF Exhausted(queue) THEN Tail(queue) ELSE queue
=============================================================================
