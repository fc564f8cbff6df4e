--------------------------- MODULE MCRecallCache ---------------------------
EXTENDS RecallCache, TLC

CONSTANTS a, b, sess, wide, r1, r2, q1, q2, w1, w2

\* a belongs to a session; b was written without one.  A recall in the session
\* sees both, and so does one that names no session.
MCRecordScope == a :> sess @@ b :> wide
MCSees == {<<sess, sess>>, <<sess, wide>>, <<wide, sess>>, <<wide, wide>>}
MCHome == q1 :> r1 @@ q2 :> r2 @@ w1 :> r1 @@ w2 :> r2

\* One key, with allow_stale_cache: it only adds to what Lookup serves.
KeyStale == {[scope |-> sess, allowStale |-> TRUE]}
============================================================================
