--------------------------- MODULE MCWorkingClose ---------------------------
(* Instances of WorkingClose for TLC. *)
EXTENDS WorkingClose, TLC

CONSTANTS a, b, c1, c2, w1

\* One record is eligible for promotion, the other is not.
SomeEligible == {<<a, 1>>, <<a, 2>>}

=============================================================================
