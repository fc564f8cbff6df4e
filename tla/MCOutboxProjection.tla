------------------------- MODULE MCOutboxProjection -------------------------
(* Instances of OutboxProjection for TLC. *)
EXTENDS OutboxProjection, TLC

CONSTANTS w1, w2
=============================================================================
