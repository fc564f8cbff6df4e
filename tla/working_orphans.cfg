\* Only the reaper closes; nothing fails.
SPECIFICATION FairSpec
CONSTANTS
  a = a
  b = b
  c1 = c1
  c2 = c2
  w1 = w1
  Records = {a, b}
  Eligible <- SomeEligible
  Clients = {}
  Reapers = {c2}
  Writers = {w1}
  MaxVersion = 2
  Patched = {a, b}
  Faults = FALSE
PROPERTIES OrphansReclaimed
CHECK_DEADLOCK FALSE
