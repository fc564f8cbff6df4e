\* The production wiring: two replicas over the Postgres session store.
SPECIFICATION Spec
CONSTANTS
  p1 = p1
  p2 = p2
  p3 = p3
  r1 = r1
  r2 = r2
  Procs = {p1, p2, p3}
  Replicas = {r1, r2}
  home <- HomeTwo
  SessionIdleTTL = 0
  MaxTime = 2
  ScanNullFails = TRUE
  Faults = TRUE
SYMMETRY Perms
INVARIANTS TypeOK ClosedCopiesExact AdmittedOnlyIfOpenAtStart
PROPERTIES ClosedRowFrozen ImplementsRegister
