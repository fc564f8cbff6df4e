-------------------------- MODULE SessionRegister --------------------------
(***************************************************************************)
(* What the gateway promises about the end of one session, whatever runs   *)
(* behind it: the working memory is reclaimed, in one mode or another and  *)
(* perhaps more than once, and the session is closed once and for all, in  *)
(* a mode in which it has been reclaimed by then.                          *)
(*                                                                         *)
(* SessionLifecycle implements this specification.                         *)
(***************************************************************************)
CONSTANT Modes

\* The outcome of a session that is open; not a mode.
Open == ""

VARIABLES
  outcome,   \* the mode in which the session was closed, or Open
  reclaimed  \* the modes in which its working memory was reclaimed

vars == <<outcome, reclaimed>>

Init == outcome = Open /\ reclaimed = {}

Reclaim(m) ==
  /\ reclaimed' = reclaimed \cup {m}
  /\ UNCHANGED outcome

Close(m) ==
  /\ outcome = Open /\ m \in reclaimed
  /\ outcome' = m
  /\ UNCHANGED reclaimed

Next == \E m \in Modes : Reclaim(m) \/ Close(m)

Spec == Init /\ [][Next]_vars
=============================================================================
