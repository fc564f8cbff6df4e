\* Two concurrent clients, retries, failing backend calls, and the GC.
SPECIFICATION Spec
CONSTANTS
  p1 = p1
  p2 = p2
  k1 = k1
  x = x
  y = y
  Procs = {p1, p2}
  Keys = {k1}
  NoKey = NoKey
  Payloads = {x, y}
  MaxVersion = 3
  Faults = TRUE
  GCEnabled = TRUE
SYMMETRY Perms
INVARIANTS TypeOK SuccessTruthful DeletedIsFinal KeyedPatchOnce DeleteReplayAnswered
