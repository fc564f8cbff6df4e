------------------------ MODULE MCProcessLifecycle ------------------------
(* The instance of ProcessLifecycle for TLC: it has no constants. *)
EXTENDS ProcessLifecycle
=============================================================================
