\* Two closes at once, of clients or of a client and the reaper; calls may fail;
\* under fairness.
SPECIFICATION FairSpec
CONSTANTS
  a = a
  b = b
  c1 = c1
  c2 = c2
  w1 = w1
  Records = {a, b}
  Eligible <- SomeEligible
  Clients = {c1, c2}
  Reapers = {c2}
  Writers = {w1}
  MaxVersion = 2
  Patched = {a}
  Faults = TRUE
INVARIANTS TypeOK PromotedSurvive ReclaimComplete CountedOnce
PROPERTIES IdleReclaimed
