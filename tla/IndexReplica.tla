---------------------------- MODULE IndexReplica ----------------------------
(***************************************************************************)
(* What the outbox promises about one entry of a derived index: the source *)
(* changes, the index follows by writes that may be wrong or late, and may *)
(* at some time be declared settled.  It is settled only when it agrees    *)
(* with the source, and then stays as it is until the source changes.      *)
(*                                                                         *)
(* OutboxProjection with one worker implements this specification.         *)
(***************************************************************************)
CONSTANT Values, None

VARIABLES
  source,   \* what the index should hold
  index,    \* what it holds
  settled   \* whether somebody was told so

vars == <<source, index, settled>>

Init == source = None /\ index = None /\ settled = FALSE

\* The source changes, also to what it was; nothing is settled any more.
Change ==
  /\ source' \in Values
  /\ settled' = FALSE
  /\ UNCHANGED index

\* The index is written, or found to be right, while it is not settled.
Follow ==
  /\ ~settled
  /\ index' \in Values
  /\ settled' => index' = source
  /\ settled' \in BOOLEAN
  /\ UNCHANGED source

Next == Change \/ Follow

Spec == Init /\ [][Next]_vars
=============================================================================
