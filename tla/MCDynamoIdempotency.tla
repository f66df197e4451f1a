-------------------------- MODULE MCDynamoIdempotency --------------------------
(* Instances of DynamoIdempotency for TLC. *)
EXTENDS DynamoIdempotency

CONSTANTS c1, c2, c3, k1, f1, f2

OneKey == [c \in Clients |-> k1]

\* The third client asks for another action under the same key.
TwoActions == [c \in Clients |-> IF c = c3 THEN f2 ELSE f1]
=============================================================================
