\* Two replicas, nothing fails.
SPECIFICATION Spec
CONSTANTS
  w1 = w1
  w2 = w2
  Workers = {w1, w2}
  MaxVersion = 2
  MaxAttempts = 2
  Faults = FALSE
  Crashes = FALSE
INVARIANTS SettledInSync
CHECK_DEADLOCK FALSE
