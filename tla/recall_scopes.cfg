\* A recall in one replica, mutations through another one: two scopes that see each other, two records, either scope named.
SPECIFICATION Spec
CONSTANTS
  a = a
  b = b
  sess = sess
  wide = wide
  r1 = r1
  r2 = r2
  q1 = q1
  q2 = q2
  w1 = w1
  w2 = w2
  Records = {a, b}
  Scopes = {sess, wide}
  RecordScope <- MCRecordScope
  Sees <- MCSees
  Keys <- KeyStale
  Replicas = {r1, r2}
  Readers = {q1}
  Writers = {w2}
  home <- MCHome
  BoundedTTL = 1
  EventualTTL = 0
  MaxTime = 1
  MaxVersion = 2
  Faults = TRUE
INVARIANTS TypeOK EntriesReflectTheirTag AnswersReflectToken HitsNotOlderThanRequest
