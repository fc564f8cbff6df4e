\* One relay worker: errors, crashes, redelivery in any order, under fairness of the poll.
SPECIFICATION FairSpec
CONSTANTS
  w1 = w1
  w2 = w2
  Workers = {w1}
  MaxVersion = 3
  MaxAttempts = 2
  Faults = TRUE
  Crashes = TRUE
INVARIANTS TypeOK SettledInSync DrainedInSync
PROPERTIES EventsSettle ImplementsReplica
CHECK_DEADLOCK FALSE
