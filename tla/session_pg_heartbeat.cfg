\* One replica over the Postgres store, no faults.
SPECIFICATION Spec
CONSTANTS
  p1 = p1
  p2 = p2
  p3 = p3
  r1 = r1
  r2 = r2
  Procs = {p1, p2}
  Replicas = {r1}
  home <- HomeOne
  SessionIdleTTL = 1
  MaxTime = 2
  ScanNullFails = TRUE
  Faults = FALSE
PROPERTIES HeartbeatAnswered
