------------------------ MODULE MCSessionLifecycle ------------------------
EXTENDS SessionLifecycle, TLC

CONSTANTS p1, p2, p3, r1, r2

\* Two requests in one replica and one in another.
HomeTwo == p1 :> r1 @@ p2 :> r1 @@ p3 :> r2

\* Two requests in a single replica.
HomeOne == p1 :> r1 @@ p2 :> r1

\* p1 and p2 run in the same replica and are interchangeable.
Perms == Permutations({p1, p2})
===========================================================================
