---------------------------- MODULE MCTelemetry ----------------------------
(* The instance of Telemetry for TLC: requests whose tenants share a bucket. *)
EXTENDS Telemetry, TLC

CONSTANTS r1, r2, b1

OneBucket == [r \in {r1, r2} |-> b1]
Perms == Permutations({r1, r2})
=============================================================================
