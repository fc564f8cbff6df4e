---------------------- MODULE ProcessLifecycleProofs ----------------------
(***************************************************************************)
(* Theorems about ProcessLifecycle: whatever fails in buildHandler, and    *)
(* whenever the process is told to end, the order in which the cleanup     *)
(* functions are registered keeps what is shared until its users are gone. *)
(***************************************************************************)
EXTENDS ProcessLifecycle, SequenceTheorems, TLAPS

ProcessInv == TypeOK /\ OrderInv /\ StopInv

Loops == {"off", "select", "tick", "session", "drain", "gone"}

LEMMA RankValues ==
  /\ Rank["pool"] = 2 /\ Rank["sink"] = 8 /\ Rank["storage"] = 10 /\ Rank["vecpool"] = 12
  /\ Rank["reaper"] = 16 /\ Rank["gc"] = 18 /\ Rank["release"] = 20 /\ Rank["worker"] = 21
  /\ \A f \in CleanupFns : Rank[f] \in Nat
<1>1. \A f \in CleanupFns : Rank[f] =
        CASE f = "pool" -> 2 [] f = "sink" -> 8 [] f = "storage" -> 10 [] f = "vecpool" -> 12
          [] f = "reaper" -> 16 [] f = "gc" -> 18 [] f = "release" -> 20 [] f = "worker" -> 21
  BY DEF Rank
<1> QED BY <1>1 DEF CleanupFns, Crons, Pools

\* Where the build is when it works on a step.
LEMMA StepOf ==
  ASSUME TypeOK
  PROVE  /\ step \in 1..11
         /\ Building("pool") => step = 1
         /\ Building("migrate") => step = 2
         /\ Building("store") => step = 3
         /\ Building("sink") => step = 4
         /\ Building("storage") => step = 5
         /\ Building("vector") => step = 6
         /\ Building("service") => step = 7
         /\ Building("reaper") => step = 8
         /\ Building("gc") => step = 9
         /\ Building("relay") => step = 10
         /\ Building("listen") => step = 11
BY DEF TypeOK, Building, BuildSteps

\* The cleanup functions are cleanup functions, and each has a rank.
LEMMA Registered ==
  ASSUME TypeOK, NEW i \in 1..Len(fns)
  PROVE  fns[i] \in CleanupFns /\ Rank[fns[i]] \in Nat
<1>1. fns[i] \in CleanupFns
  BY DEF TypeOK
<1> QED BY <1>1, RankValues

-----------------------------------------------------------------------------
(* The goroutines. *)

LEMMA SetFacts ==
  /\ Goroutines \subseteq Users /\ "relay" \in Goroutines /\ "relay" \notin Crons
  /\ "reaper" \in Crons /\ "sink" \in Crons /\ Crons \subseteq Goroutines
  /\ "request" \in Users /\ "request" \notin Goroutines
  /\ Crons \subseteq CleanupFns /\ Pools \subseteq CleanupFns /\ "none" \notin CleanupFns
  /\ \A g \in Goroutines : StopOf(g) \in CleanupFns /\ StopOf(g) \notin Pools \cup {"release"}
  /\ \A g \in Goroutines : StopOf(g) \in Crons => StopOf(g) = g
  /\ \A g \in Goroutines : StopOf(g) = "worker" => g = "relay"
BY DEF Users, Goroutines, Crons, Pools, CleanupFns, StopOf

\* A goroutine that has no connection goes on in its loop.
LEMMA MoveStep ==
  ASSUME ProcessInv, NEW g \in Users, NEW l \in Loops, Move(g, l), conn[g] = "none",
         l \notin {"off", "gone"} => IsRunning(g) \/ g = "request"
  PROVE  ProcessInv'
<1>1. /\ UNCHANGED <<phase, cfg, step, fns, cur, open, conn, stop, cancelled, gaveUp,
                     leased, released>>
      /\ loop' = [loop EXCEPT ![g] = l]
  BY DEF Move, main, signals, lease
<1>2. TypeOK'
  BY <1>1 DEF ProcessInv, TypeOK, Loops
<1>3. OrderInv'
  BY <1>1 DEF ProcessInv, OrderInv
<1>4. loop'[g] = l /\ \A h \in Users \ {g} : loop'[h] = loop[h]
  BY <1>1 DEF ProcessInv, TypeOK
<1>5. \A f : Pending(f)' = Pending(f)
  BY <1>1 DEF Pending
<1>6. ASSUME NEW h \in Goroutines, IsRunning(h)'
      PROVE  IsRunning(h)
  BY <1>4, <1>6, SetFacts DEF IsRunning
<1>7. ASSUME NEW h \in Users, conn[h] # "none"
      PROVE  Busy(h)'
  BY <1>4, <1>7 DEF ProcessInv, StopInv, Busy
<1>8. StopInv'
  BY <1>1, <1>5, <1>6, <1>7, SetFacts DEF ProcessInv, StopInv
<1> QED BY <1>2, <1>3, <1>8 DEF ProcessInv

\* A statement begins or ends.
LEMMA StatementStep ==
  ASSUME ProcessInv, NEW g \in Users, (\E p \in Pools : Acquire(g, p)) \/ EndStatement(g)
  PROVE  ProcessInv'
<1>1. UNCHANGED <<phase, cfg, step, fns, cur, open, loop, stop, cancelled, gaveUp, released>>
  BY DEF Acquire, EndStatement, main, signals, lease
<1>2. /\ conn' \in [Users -> Pools \cup {"none"}] /\ leased' \in BOOLEAN
      /\ \A h \in Users : conn'[h] # "none" => Busy(h)
  <2>1. CASE \E p \in Pools : Acquire(g, p)
    BY <2>1 DEF ProcessInv, TypeOK, StopInv, Acquire, lease
  <2>2. CASE EndStatement(g)
    BY <2>2 DEF ProcessInv, TypeOK, StopInv, EndStatement
  <2> QED BY <2>1, <2>2
<1>3. TypeOK'
  BY <1>1, <1>2 DEF ProcessInv, TypeOK
<1>4. OrderInv'
  BY <1>1 DEF ProcessInv, OrderInv
<1>5. \A f : Pending(f)' = Pending(f)
  BY <1>1 DEF Pending
<1>6. StopInv'
  BY <1>1, <1>2, <1>5 DEF ProcessInv, StopInv, IsRunning, Busy
<1> QED BY <1>3, <1>4, <1>6 DEF ProcessInv

LEMMA LoopStep ==
  ASSUME ProcessInv,
         \/ Accept \/ ReapNext \/ ReapDone \/ EndDrain
         \/ \E g \in Goroutines : Tick(g) \/ Leave(g)
         \/ \E g \in Users : EndTick(g)
  PROVE  ProcessInv'
<1>1. \A g \in Users : loop[g] \in {"off", "select"} => conn[g] = "none"
  BY DEF ProcessInv, StopInv, Busy
<1>2. CASE Accept
  BY <1>1, <1>2, MoveStep, SetFacts DEF Accept, Loops
<1>3. CASE ReapNext \/ ReapDone
  BY <1>3, MoveStep, SetFacts DEF ReapNext, ReapDone, Loops, IsRunning
<1>4. CASE EndDrain
  BY <1>4, MoveStep, SetFacts DEF EndDrain, Loops
<1>5. ASSUME NEW g \in Goroutines, Tick(g)
      PROVE  ProcessInv'
  BY <1>1, <1>5, MoveStep, SetFacts DEF Tick, Loops, IsRunning
<1>6. ASSUME NEW g \in Goroutines, Leave(g)
      PROVE  ProcessInv'
  <2> DEFINE l == IF g = "sink" THEN "drain" ELSE "gone"
  <2>1. l \in Loops /\ Move(g, l) /\ conn[g] = "none" /\ IsRunning(g) /\ g \in Users
    BY <1>1, <1>6, SetFacts DEF Leave, Loops, IsRunning
  <2> HIDE DEF l
  <2> QED BY <2>1, MoveStep
<1>7. ASSUME NEW g \in Users, EndTick(g)
      PROVE  ProcessInv'
  <2> DEFINE l == IF g = "request" THEN "off" ELSE "select"
  <2>1. l \in Loops /\ Move(g, l) /\ conn[g] = "none" /\ IsRunning(g)
    BY <1>7 DEF EndTick, Loops, IsRunning
  <2> HIDE DEF l
  <2> QED BY <2>1, MoveStep
<1> QED BY <1>2, <1>3, <1>4, <1>5, <1>6, <1>7

-----------------------------------------------------------------------------
(* The build. *)

LEMMA LoadStep ==
  ASSUME ProcessInv, LoadFromEnv
  PROVE  ProcessInv'
<1>1. /\ UNCHANGED <<step, fns, cur, open, loop, conn, stop, cancelled, gaveUp, leased, released>>
      /\ phase = "load" /\ phase' \in {"exited", "build"}
  BY DEF LoadFromEnv, signals, lease
<1>2. cfg' \in [reaper : BOOLEAN, gc : BOOLEAN, vector : BOOLEAN, poll : Nat \ {0}]
  <2>1. PICK e \in Env :
          IF Refused(e)
          THEN phase' = "exited" /\ UNCHANGED cfg
          ELSE /\ phase' = "build"
               /\ cfg' = [reaper |-> BoolOr(e.reaper, TRUE), gc |-> BoolOr(e.gc, FALSE),
                          vector |-> BoolOr(e.vector, FALSE),
                          poll |-> IF e.poll = "nonpositive" THEN 0 ELSE 1]
    BY DEF LoadFromEnv
  <2>2. CASE Refused(e)
    BY <2>1, <2>2 DEF ProcessInv, TypeOK
  <2>3. CASE ~Refused(e)
    <3>1. e.poll # "nonpositive"
      BY <2>3 DEF Refused, BadInterval
    <3>2. \A v, d : d \in BOOLEAN => BoolOr(v, d) \in BOOLEAN
      BY DEF BoolOr
    <3>3. cfg' = [reaper |-> BoolOr(e.reaper, TRUE), gc |-> BoolOr(e.gc, FALSE),
                  vector |-> BoolOr(e.vector, FALSE), poll |-> 1]
      BY <2>1, <2>3, <3>1
    <3>4. ASSUME NEW a \in BOOLEAN, NEW b \in BOOLEAN, NEW c \in BOOLEAN
          PROVE  [reaper |-> a, gc |-> b, vector |-> c, poll |-> 1]
                   \in [reaper : BOOLEAN, gc : BOOLEAN, vector : BOOLEAN, poll : Nat \ {0}]
      OBVIOUS
    <3>5. /\ BoolOr(e.reaper, TRUE) \in BOOLEAN /\ BoolOr(e.gc, FALSE) \in BOOLEAN
          /\ BoolOr(e.vector, FALSE) \in BOOLEAN
      BY <3>2
    <3> QED BY <3>3, <3>4, <3>5
  <2> QED BY <2>2, <2>3
<1>3. TypeOK'
  BY <1>1, <1>2 DEF ProcessInv, TypeOK
<1>4. fns = <<>> /\ cur = "none"
  BY <1>1 DEF ProcessInv, OrderInv
<1>5. OrderInv'
  BY <1>1, <1>4 DEF OrderInv
<1>6. \A f : Pending(f)' = Pending(f)
  BY <1>1 DEF Pending
<1>7. StopInv'
  BY <1>1, <1>6 DEF ProcessInv, StopInv, IsRunning, Busy
<1> QED BY <1>3, <1>5, <1>7 DEF ProcessInv

\* A step that succeeds registers functions of its own rank, and a stop for
\* every goroutine it starts.
LEMMA BuiltStep ==
  ASSUME ProcessInv, phase = "build", step \in 1..10,
         NEW new \in Seq(CleanupFns), NEW started \in SUBSET Goroutines,
         Built(new, started), open' \subseteq Pools,
         \A i \in 1..Len(new) : 2 * step <= Rank[new[i]] /\ Rank[new[i]] < 2 * step + 2,
         \A i, j \in 1..Len(new) : i < j => Rank[new[i]] < Rank[new[j]],
         \A g \in started : \E i \in 1..Len(new) : new[i] = StopOf(g)
  PROVE  ProcessInv'
<1>1. /\ UNCHANGED <<phase, cfg, cur, conn, stop, cancelled, gaveUp, leased, released>>
      /\ step' = step + 1 /\ fns' = fns \o new
      /\ cur = "none" /\ stop = {} /\ gaveUp = {} /\ released = "no"
  BY DEF Built, signals, lease, ProcessInv, OrderInv, StopInv
<1>2. /\ \A g \in Users \ started : loop'[g] = loop[g]
      /\ \A g \in started : loop'[g] \in {"tick", "select"}
      /\ loop' \in [Users -> Loops]
  BY SetFacts DEF Built, ProcessInv, TypeOK, Loops
<1>3. /\ fns \in Seq(CleanupFns) /\ fns' \in Seq(CleanupFns)
      /\ Len(fns) \in Nat /\ Len(new) \in Nat /\ Len(fns') = Len(fns) + Len(new)
      /\ \A i \in 1..Len(fns) : fns'[i] = fns[i]
      /\ \A i \in 1..Len(new) : fns'[Len(fns) + i] = new[i]
      /\ \A i \in 1..Len(fns') : i \in 1..Len(fns) \/ i - Len(fns) \in 1..Len(new)
      /\ \A i \in 1..Len(fns') : i > Len(fns) => fns'[i] = new[i - Len(fns)]
  BY <1>1 DEF ProcessInv, TypeOK
<1>4. TypeOK'
  <2>1. step' \in 1..Len(BuildSteps)
    BY <1>1 DEF BuildSteps
  <2> QED BY <1>1, <1>2, <1>3, <2>1 DEF ProcessInv, TypeOK, Loops
<1>5. \A i \in 1..Len(fns) : Rank[fns[i]] \in Nat /\ Rank[fns[i]] < 2 * step
  BY Registered DEF ProcessInv, OrderInv
<1>6. \A i \in 1..Len(new) : Rank[new[i]] \in Nat
  BY RankValues
<1>7. \A i \in 1..Len(fns') : Rank[fns'[i]] < 2 * step'
  <2>1. ASSUME NEW i \in 1..Len(fns')
        PROVE  Rank[fns'[i]] < 2 * step'
    <3>1. CASE i \in 1..Len(fns)
      <4>1. fns'[i] = fns[i] /\ Rank[fns[i]] \in Nat /\ Rank[fns[i]] < 2 * step
        BY <1>3, <1>5, <3>1
      <4> QED BY <1>1, <4>1
    <3>2. CASE i \notin 1..Len(fns)
      <4>1. i - Len(fns) \in 1..Len(new) /\ fns'[i] = new[i - Len(fns)]
        BY <1>3, <3>2
      <4>2. Rank[fns'[i]] \in Nat /\ Rank[fns'[i]] < 2 * step + 2
        BY <1>6, <4>1
      <4> QED BY <1>1, <4>2
    <3> QED BY <3>1, <3>2
  <2> QED BY <2>1
<1>8. ASSUME NEW i \in 1..Len(fns'), NEW j \in 1..Len(fns'), i < j
      PROVE  Rank[fns'[i]] < Rank[fns'[j]]
  <2>1. CASE j \in 1..Len(fns)
    BY <1>3, <1>8, <2>1 DEF ProcessInv, OrderInv
  <2>2. CASE j \notin 1..Len(fns) /\ i \in 1..Len(fns)
    <3>1. fns'[i] = fns[i] /\ Rank[fns[i]] \in Nat /\ Rank[fns[i]] < 2 * step
      BY <1>3, <1>5, <2>2
    <3>2. j - Len(fns) \in 1..Len(new) /\ fns'[j] = new[j - Len(fns)]
      BY <1>3, <2>2
    <3>3. Rank[fns'[j]] \in Nat /\ 2 * step <= Rank[fns'[j]]
      BY <1>6, <3>2
    <3> QED BY <3>1, <3>3
  <2>3. CASE j \notin 1..Len(fns) /\ i \notin 1..Len(fns)
    <3>1. /\ i - Len(fns) \in 1..Len(new) /\ fns'[i] = new[i - Len(fns)]
          /\ j - Len(fns) \in 1..Len(new) /\ fns'[j] = new[j - Len(fns)]
      BY <1>3, <2>3
    <3>2. i - Len(fns) < j - Len(fns)
      BY <1>3, <1>8
    <3> QED BY <3>1, <3>2
  <2> QED BY <2>1, <2>2, <2>3
<1>9. OrderInv'
  BY <1>1, <1>7, <1>8 DEF OrderInv
<1>10. ASSUME NEW f, Pending(f)
       PROVE  Pending(f)'
  BY <1>1, <1>3, <1>10, SetFacts DEF Pending, ProcessInv, TypeOK
<1>11. ASSUME NEW g \in started
       PROVE  Pending(StopOf(g))' /\ ~IsRunning(g)
  <2>1. PICK i \in 1..Len(new) : new[i] = StopOf(g)
    OBVIOUS
  <2>2. fns'[Len(fns) + i] = StopOf(g) /\ Len(fns) + i \in 1..Len(fns')
    BY <1>3, <2>1
  <2>3. ~Pending(StopOf(g))
    BY <1>1, <1>5, <1>6, <2>1, SetFacts DEF Pending
  <2> QED BY <1>1, <2>2, <2>3 DEF Pending, ProcessInv, StopInv
<1>12. ASSUME NEW g \in Goroutines, IsRunning(g)'
       PROVE  Pending(StopOf(g))'
  <2>1. CASE g \in started
    BY <1>11, <2>1
  <2>2. CASE g \notin started
    BY <1>1, <1>2, <1>10, <1>12, <2>2, SetFacts DEF ProcessInv, StopInv, IsRunning
  <2> QED BY <2>1, <2>2
<1>13. ASSUME NEW g \in Users, conn[g] # "none"
       PROVE  Busy(g)'
  <2>1. Busy(g)
    BY <1>13 DEF ProcessInv, StopInv
  <2>2. g \notin started
    BY <1>11, <2>1 DEF Busy, IsRunning
  <2> QED BY <1>2, <2>1, <2>2 DEF Busy
<1>14. StopInv'
  BY <1>1, <1>12, <1>13 DEF StopInv
<1> QED BY <1>4, <1>9, <1>14 DEF ProcessInv

\* A step that registers nothing, and one that registers one function.
LEMMA BuiltNothing ==
  ASSUME ProcessInv, phase = "build", step \in 1..10, Built(<<>>, {}), open' \subseteq Pools
  PROVE  ProcessInv'
<1>1. <<>> \in Seq(CleanupFns) /\ Len(<<>>) = 0 /\ 1..Len(<<>>) = {}
  OBVIOUS
<1> QED BY <1>1, BuiltStep

LEMMA BuiltOne ==
  ASSUME ProcessInv, phase = "build", step \in 1..10, NEW f \in CleanupFns,
         NEW started \in SUBSET Goroutines, Built(<<f>>, started), open' \subseteq Pools,
         Rank[f] = 2 * step, \A g \in started : StopOf(g) = f
  PROVE  ProcessInv'
<1> DEFINE new == <<f>>
<1>1. new \in Seq(CleanupFns) /\ 1..Len(new) = {1} /\ new[1] = f
  OBVIOUS
<1>2. Built(new, started)
  OBVIOUS
<1>3. /\ \A i \in 1..Len(new) : 2 * step <= Rank[new[i]] /\ Rank[new[i]] < 2 * step + 2
      /\ \A i, j \in 1..Len(new) : i < j => Rank[new[i]] < Rank[new[j]]
      /\ \A g \in started : \E i \in 1..Len(new) : new[i] = StopOf(g)
  BY <1>1
<1> HIDE DEF new
<1> QED BY <1>1, <1>2, <1>3, BuiltStep

LEMMA BuiltRelay ==
  ASSUME ProcessInv, phase = "build", step = 10,
         Built(<<"release", "worker">>, {"relay"}), open' \subseteq Pools
  PROVE  ProcessInv'
<1> DEFINE new == <<"release", "worker">>
<1>1. /\ new \in Seq(CleanupFns) /\ 1..Len(new) = {1, 2} /\ new[1] = "release" /\ new[2] = "worker"
      /\ StopOf("relay") = "worker" /\ {"relay"} \in SUBSET Goroutines
  BY DEF CleanupFns, StopOf, Goroutines
<1>2. Built(new, {"relay"})
  OBVIOUS
<1>3. /\ \A i \in 1..Len(new) : 2 * step <= Rank[new[i]] /\ Rank[new[i]] < 2 * step + 2
      /\ \A i, j \in 1..Len(new) : i < j => Rank[new[i]] < Rank[new[j]]
      /\ \A g \in {"relay"} : \E i \in 1..Len(new) : new[i] = StopOf(g)
  BY <1>1, RankValues
<1> HIDE DEF new
<1> QED BY <1>1, <1>2, <1>3, BuiltStep

\* The phase changes and nothing else: a step fails, the server begins or ends,
\* or the cleanup is over.
LEMMA PhaseStep ==
  ASSUME ProcessInv, \/ BuildFails /\ phase = "build"
                     \/ Listen \/ ListenReturns \/ Exit
  PROVE  ProcessInv'
<1>1. /\ UNCHANGED <<cfg, step, fns, cur, loop, conn, stop, cancelled, gaveUp, open,
                     leased, released>>
      /\ phase' \in {"serve", "cleanup", "exited"}
      /\ phase' = "serve" => phase = "build" /\ cur = "none"
      /\ phase' = "exited" => fns = <<>> /\ cur = "none"
  BY DEF BuildFails, Listen, Building, ListenReturns, Exit, signals, lease,
         ProcessInv, OrderInv
<1>2. TypeOK' /\ OrderInv'
  BY <1>1 DEF ProcessInv, TypeOK, OrderInv
<1>3. \A f : Pending(f)' = Pending(f)
  BY <1>1 DEF Pending
<1>4. StopInv'
  BY <1>1, <1>3 DEF ProcessInv, StopInv, IsRunning, Busy
<1> QED BY <1>2, <1>4 DEF ProcessInv

\* An early return: no goroutine runs yet.
LEMMA ReturnStep ==
  ASSUME ProcessInv, phase = "build", step \in 1..3, BuildReturns
  PROVE  ProcessInv'
<1>1. /\ UNCHANGED <<cfg, step, cur, loop, conn, stop, cancelled, gaveUp, leased, released>>
      /\ phase' = "exited" /\ fns' = <<>> /\ open' = {} /\ cur = "none" /\ stop = {}
      /\ gaveUp = {} /\ released = "no"
  BY DEF BuildReturns, signals, lease, ProcessInv, OrderInv, StopInv
<1>2. TypeOK' /\ OrderInv'
  BY <1>1 DEF ProcessInv, TypeOK, OrderInv
<1>3. ASSUME NEW g \in Goroutines
      PROVE  ~IsRunning(g)
  <2>1. StopOf(g) \in CleanupFns /\ Rank[StopOf(g)] >= 8
    BY RankValues DEF StopOf, Goroutines, Crons, CleanupFns
  <2>2. ASSUME NEW i \in 1..Len(fns), fns[i] = StopOf(g)
        PROVE  FALSE
    <3>1. Rank[fns[i]] \in Nat /\ Rank[fns[i]] < 2 * step
      BY Registered DEF ProcessInv, OrderInv
    <3> QED BY <2>1, <2>2, <3>1
  <2>3. ~Pending(StopOf(g))
    BY <1>1, <2>1, <2>2, SetFacts DEF Pending
  <2> QED BY <1>1, <2>3 DEF ProcessInv, StopInv
<1>4. StopInv'
  BY <1>1, <1>3 DEF ProcessInv, StopInv, IsRunning, Busy
<1> QED BY <1>2, <1>4 DEF ProcessInv

LEMMA BuildStep ==
  ASSUME ProcessInv, Build
  PROVE  ProcessInv'
<1>1. TypeOK /\ open \subseteq Pools /\ Pools = {"pool", "vecpool"}
  BY DEF ProcessInv, TypeOK, Pools
<1>2. CASE BuildPool
  <2>1. phase = "build" /\ step = 1
    BY <1>1, <1>2, StepOf DEF BuildPool, Building
  <2>2. CASE Built(<<"pool">>, {}) /\ open' = open \cup {"pool"}
    BY <1>1, <2>1, <2>2, BuiltOne, RankValues DEF CleanupFns
  <2>3. CASE BuildReturns
    BY <2>1, <2>3, ReturnStep
  <2> QED BY <1>2, <2>2, <2>3 DEF BuildPool
<1>3. CASE PrepareStore
  <2>1. phase = "build" /\ step \in 2..3
    BY <1>1, <1>3, StepOf DEF PrepareStore, Building
  <2>2. CASE Built(<<>>, {}) /\ UNCHANGED open
    BY <1>1, <2>1, <2>2, BuiltNothing
  <2>3. CASE BuildReturns
    BY <2>1, <2>3, ReturnStep
  <2> QED BY <1>3, <2>2, <2>3 DEF PrepareStore
<1>4. CASE BuildVector
  <2>1. phase = "build" /\ step = 6
    BY <1>1, <1>4, StepOf DEF BuildVector, Building
  <2>2. CASE Built(<<"vecpool">>, {}) /\ open' = open \cup {"vecpool"}
    BY <1>1, <2>1, <2>2, BuiltOne, RankValues DEF CleanupFns
  <2>3. CASE Built(<<>>, {}) /\ UNCHANGED open
    BY <1>1, <2>1, <2>3, BuiltNothing
  <2>4. CASE BuildFails
    BY <2>1, <2>4, PhaseStep
  <2> QED BY <1>4, <2>2, <2>3, <2>4 DEF BuildVector
<1>5. CASE NewService
  <2>1. phase = "build" /\ step = 7
    BY <1>1, <1>5, StepOf DEF NewService, Building
  <2>2. CASE Built(<<>>, {}) /\ UNCHANGED open
    BY <1>1, <2>1, <2>2, BuiltNothing
  <2>3. CASE BuildFails
    BY <2>1, <2>3, PhaseStep
  <2> QED BY <1>5, <2>2, <2>3 DEF NewService
<1>6. CASE BuildRelay
  <2>1. phase = "build" /\ step = 10
    BY <1>1, <1>6, StepOf DEF BuildRelay, Building
  <2>2. CASE Built(<<"release", "worker">>, {"relay"}) /\ UNCHANGED open
    BY <1>1, <2>1, <2>2, BuiltRelay
  <2>3. CASE Built(<<>>, {}) /\ UNCHANGED open
    BY <1>1, <2>1, <2>3, BuiltNothing
  <2>4. CASE BuildFails
    BY <2>1, <2>4, PhaseStep
  <2> QED BY <1>6, <2>2, <2>3, <2>4 DEF BuildRelay
<1>7. ASSUME NEW g \in Crons, StartCron(g)
      PROVE  ProcessInv'
  <2>1. /\ phase = "build" /\ step \in 1..10 /\ Rank[g] = 2 * step
        /\ UNCHANGED open
    BY <1>1, <1>7, StepOf, RankValues DEF StartCron, Building, Crons
  <2>2. {g} \in SUBSET Goroutines /\ StopOf(g) = g /\ g \in CleanupFns
    BY DEF Goroutines, Crons, StopOf, CleanupFns
  <2>3. CASE Built(<<g>>, {g})
    BY <1>1, <2>1, <2>2, <2>3, BuiltOne
  <2>4. CASE Built(<<>>, {})
    BY <1>1, <2>1, <2>4, BuiltNothing
  <2> QED BY <1>7, <2>3, <2>4 DEF StartCron
<1> QED BY <1>2, <1>3, <1>4, <1>5, <1>6, <1>7 DEF Build

LEMMA KillStep ==
  ASSUME ProcessInv, Kill
  PROVE  ProcessInv'
<1>1. /\ phase' = "killed" /\ fns' = <<>> /\ cur' = "none" /\ open' = {}
      /\ stop' = {} /\ cancelled' = {} /\ gaveUp' = {}
      /\ loop' = [g \in Users |-> "off"] /\ conn' = [g \in Users |-> "none"]
      /\ UNCHANGED <<cfg, step, leased, released>>
  BY DEF Kill, lease
<1>2. TypeOK' /\ OrderInv'
  BY <1>1 DEF ProcessInv, TypeOK, OrderInv
<1>3. StopInv'
  BY <1>1, SetFacts DEF StopInv, IsRunning
<1> QED BY <1>2, <1>3 DEF ProcessInv

-----------------------------------------------------------------------------
(* The cleanup. *)

\* The last function begins: what is pending stays pending.
LEMMA BeginStep ==
  ASSUME ProcessInv, BeginLast
  PROVE  ProcessInv'
<1> DEFINE n == Len(fns)
           f == fns[n]
<1>1. /\ fns \in Seq(CleanupFns) /\ n \in Nat \ {0} /\ n \in 1..n /\ f \in CleanupFns
      /\ cur = "none" /\ phase = "cleanup"
  BY DEF ProcessInv, TypeOK, BeginLast
<1>2. /\ cur' = f /\ fns' = SubSeq(fns, 1, n - 1) /\ open' = open \ {f}
      /\ stop' = IF f \in Crons THEN stop \cup {f} ELSE stop
      /\ cancelled' = IF f = "worker" THEN cancelled \cup {"relay"} ELSE cancelled
      /\ UNCHANGED <<phase, cfg, step, loop, conn, gaveUp, leased, released>>
  BY DEF BeginLast, Begin, Last, Front, lease
<1>3. /\ fns' \in Seq(CleanupFns) /\ Len(fns') = n - 1
      /\ \A i \in 1..(n - 1) : fns'[i] = fns[i] /\ i \in 1..n /\ i < n
  <2> HIDE DEF n
  <2>1. /\ 1 \in Int /\ n - 1 \in Int
        /\ \A i \in 1..(n - 1) : i \in 1..n /\ i < n
        /\ \A i \in 1..n : fns[i] \in CleanupFns
    BY <1>1 DEF n
  <2>2. /\ SubSeq(fns, 1, n - 1) \in Seq(CleanupFns)
        /\ Len(SubSeq(fns, 1, n - 1)) = IF 1 <= n - 1 THEN n - 1 - 1 + 1 ELSE 0
        /\ \A i \in 1..(n - 1 - 1 + 1) : SubSeq(fns, 1, n - 1)[i] = fns[1 + i - 1]
    BY <2>1, SubSeqProperties
  <2>3. n - 1 - 1 + 1 = n - 1 /\ \A i \in 1..(n - 1) : 1 + i - 1 = i
    BY <1>1
  <2> QED BY <1>1, <1>2, <2>1, <2>2, <2>3
<1>4. \A i \in 1..n : i = n \/ i \in 1..(n - 1)
  BY <1>1
<1> HIDE DEF n, f
<1>5. TypeOK'
  BY <1>1, <1>2, <1>3, SetFacts DEF ProcessInv, TypeOK
<1>6. f # "none" /\ \A i \in 1..Len(fns') : Rank[fns'[i]] < Rank[f]
  <2>1. f # "none"
    BY <1>1, SetFacts
  <2>2. ASSUME NEW i \in 1..(n - 1)
        PROVE  Rank[fns'[i]] < Rank[f]
    BY <1>1, <1>3 DEF ProcessInv, OrderInv, n, f
  <2> QED BY <1>3, <2>1, <2>2
<1>7. OrderInv'
  <2>1. ASSUME NEW i \in 1..(n - 1), NEW j \in 1..(n - 1), i < j
        PROVE  Rank[fns'[i]] < Rank[fns'[j]]
    BY <1>3, <2>1 DEF ProcessInv, OrderInv, n
  <2> QED BY <1>1, <1>2, <1>3, <1>6, <2>1 DEF OrderInv
<1>8. ASSUME NEW h \in CleanupFns
      PROVE  Pending(h)' <=> Pending(h)
  <2>1. h # "none"
    BY SetFacts
  <2>2. (\E i \in 1..n : fns[i] = h) <=> f = h \/ \E i \in 1..(n - 1) : fns'[i] = h
    BY <1>1, <1>3, <1>4 DEF f
  <2>3. Pending(h) <=> \E i \in 1..n : fns[i] = h
    BY <1>1, <2>1 DEF Pending, n
  <2>4. Pending(h)' <=> f = h \/ \E i \in 1..(n - 1) : fns'[i] = h
    BY <1>2, <1>3 DEF Pending
  <2> QED BY <2>2, <2>3, <2>4
<1>9. ASSUME "sink" \in stop', NEW h \in CleanupFns, Pending(h)'
      PROVE  Rank[h] <= Rank["sink"]
  <2>1. CASE "sink" \in stop
    BY <1>8, <1>9, <2>1 DEF ProcessInv, StopInv
  <2>2. CASE "sink" \notin stop
    <3>1. f = "sink"
      BY <1>2, <1>9, <2>2
    <3>2. h = f \/ \E i \in 1..Len(fns') : fns'[i] = h
      BY <1>2, <1>9 DEF Pending
    <3>3. Rank[h] \in Nat /\ Rank[f] \in Nat
      BY <1>1, RankValues
    <3> QED BY <1>6, <3>1, <3>2, <3>3
  <2> QED BY <2>1, <2>2
<1>10. StopInv'
  <2>1. \A g \in Goroutines : IsRunning(g)' /\ g \notin gaveUp' => Pending(StopOf(g))'
    BY <1>2, <1>8, SetFacts DEF ProcessInv, StopInv, IsRunning
  <2>2. /\ \A g \in Users : conn'[g] # "none" => Busy(g)'
        /\ released' # "no" => ~IsRunning("relay")'
    BY <1>2 DEF ProcessInv, StopInv, IsRunning, Busy
  <2> QED BY <1>1, <1>2, <1>9, <2>1, <2>2 DEF StopInv
<1> QED BY <1>5, <1>7, <1>10 DEF ProcessInv

\* A function returns: whom it stops is gone, or given up.
LEMMA DoneStep ==
  ASSUME ProcessInv, phase = "cleanup", cur # "none", Done, UNCHANGED <<loop, conn, stop>>,
         gaveUp \subseteq gaveUp', gaveUp' \subseteq Crons, cancelled' \subseteq Goroutines,
         leased' \in BOOLEAN, released' \in {"no", "ok", "failed"},
         \A g \in Goroutines : StopOf(g) = cur /\ IsRunning(g) => g \in gaveUp',
         released' = released \/ ~IsRunning("relay")
  PROVE  ProcessInv'
<1>1. cur' = "none" /\ UNCHANGED <<phase, cfg, step, fns, open, loop, conn, stop>>
  BY DEF Done
<1>2. TypeOK' /\ OrderInv'
  BY <1>1 DEF ProcessInv, TypeOK, OrderInv
<1>3. \A f \in CleanupFns : Pending(f)' => Pending(f)
  BY <1>1, SetFacts DEF Pending
<1>4. \A f \in CleanupFns : Pending(f) /\ f # cur => Pending(f)'
  BY <1>1 DEF Pending
<1>5. ASSUME NEW g \in Goroutines, IsRunning(g)', g \notin gaveUp'
      PROVE  Pending(StopOf(g))'
  <2>1. IsRunning(g) /\ g \notin gaveUp /\ StopOf(g) # cur /\ StopOf(g) \in CleanupFns
    BY <1>1, <1>5, SetFacts DEF IsRunning
  <2> QED BY <1>4, <2>1 DEF ProcessInv, StopInv
<1>6. StopInv'
  BY <1>1, <1>3, <1>5 DEF ProcessInv, StopInv, IsRunning, Busy
<1> QED BY <1>2, <1>6 DEF ProcessInv

\* When something is running that was registered before the worker, the worker's
\* stop has returned: the relay's goroutine is gone.
LEMMA RelayGone ==
  ASSUME ProcessInv, cur \in CleanupFns \ {"worker"} \/ phase = "exited",
         cur \in CleanupFns => Rank[cur] < Rank["worker"]
  PROVE  ~IsRunning("relay")
<1>1. "relay" \notin gaveUp /\ StopOf("relay") = "worker" /\ "worker" \in CleanupFns
  BY SetFacts DEF ProcessInv, TypeOK, StopOf, CleanupFns
<1>2. ASSUME NEW i \in 1..Len(fns), fns[i] = "worker"
      PROVE  FALSE
  <2>1. CASE cur \in CleanupFns
    <3>1. Rank["worker"] < Rank[cur] /\ Rank[cur] < Rank["worker"]
      BY <1>2, <2>1, SetFacts DEF ProcessInv, OrderInv
    <3> QED BY <2>1, <3>1, RankValues
  <2>2. CASE phase = "exited"
    BY <1>2, <2>2 DEF ProcessInv, OrderInv
  <2> QED BY <2>1, <2>2
<1>3. cur # "worker"
  BY RankValues, SetFacts, <1>1
<1>4. ~Pending("worker")
  BY <1>2, <1>3 DEF Pending
<1> QED BY <1>1, <1>4, SetFacts DEF ProcessInv, StopInv

LEMMA CleanupStep ==
  ASSUME ProcessInv, Cleanup
  PROVE  ProcessInv'
<1>1. /\ gaveUp \subseteq Crons /\ cancelled \subseteq Goroutines /\ leased \in BOOLEAN
      /\ released \in {"no", "ok", "failed"}
  BY DEF ProcessInv, TypeOK
<1>2. ASSUME NEW g \in Crons, StopReturns(g)
      PROVE  ProcessInv'
  <2>1. /\ phase = "cleanup" /\ cur = g /\ cur # "none" /\ Done
        /\ cancelled' = cancelled \cup {g}
        /\ gaveUp' = IF loop[g] = "gone" THEN gaveUp ELSE gaveUp \cup {g}
        /\ UNCHANGED <<loop, conn, stop, leased, released>>
    BY <1>2, SetFacts DEF StopReturns, Running, lease
  <2>2. /\ gaveUp \subseteq gaveUp' /\ gaveUp' \subseteq Crons /\ cancelled' \subseteq Goroutines
        /\ \A h \in Goroutines : StopOf(h) = cur /\ IsRunning(h) => h \in gaveUp'
    BY <1>1, <2>1, SetFacts DEF IsRunning
  <2> QED BY <1>1, <2>1, <2>2, DoneStep
<1>3. CASE WorkerStopped
  <2>1. /\ phase = "cleanup" /\ cur = "worker" /\ Done /\ ~IsRunning("relay")
        /\ UNCHANGED <<loop, conn, stop, cancelled, gaveUp, leased, released>>
    BY <1>3 DEF WorkerStopped, Running, lease, signals, IsRunning
  <2> QED BY <1>1, <2>1, SetFacts, DoneStep
<1>4. CASE Release
  <2>1. /\ phase = "cleanup" /\ cur = "release" /\ Done
        /\ leased' \in BOOLEAN /\ released' \in {"no", "ok", "failed"}
        /\ UNCHANGED <<loop, conn, stop, cancelled, gaveUp>>
    BY <1>1, <1>4 DEF Release, Running, signals
  <2>2. ~IsRunning("relay")
    BY <2>1, RelayGone, RankValues DEF CleanupFns
  <2> QED BY <1>1, <2>1, <2>2, SetFacts, DoneStep
<1>5. ASSUME NEW p \in Pools, PoolClosed(p)
      PROVE  ProcessInv'
  <2>1. /\ phase = "cleanup" /\ cur = p /\ cur # "none" /\ Done
        /\ UNCHANGED <<loop, conn, stop, cancelled, gaveUp, leased, released>>
    BY <1>5, SetFacts DEF PoolClosed, Running, lease, signals
  <2> QED BY <1>1, <2>1, SetFacts, DoneStep
<1> QED BY <1>2, <1>3, <1>4, <1>5, BeginStep, PhaseStep DEF Cleanup

-----------------------------------------------------------------------------
(* The invariant. *)

LEMMA ProcessInitial ==
  ASSUME Init
  PROVE  ProcessInv
<1>1. TypeOK
  <2>1. cfg \in [reaper : BOOLEAN, gc : BOOLEAN, vector : BOOLEAN, poll : Nat \ {0}]
    <3>1. ASSUME NEW a \in BOOLEAN, NEW b \in BOOLEAN, NEW c \in BOOLEAN
          PROVE  [reaper |-> a, gc |-> b, vector |-> c, poll |-> 1]
                   \in [reaper : BOOLEAN, gc : BOOLEAN, vector : BOOLEAN, poll : Nat \ {0}]
      OBVIOUS
    <3>2. cfg = [reaper |-> TRUE, gc |-> FALSE, vector |-> FALSE, poll |-> 1]
      BY DEF Init
    <3> QED BY <3>1, <3>2
  <2>2. step \in 1..Len(BuildSteps)
    BY DEF Init, BuildSteps
  <2>3. loop \in [Users -> Loops] /\ conn \in [Users -> Pools \cup {"none"}]
    BY DEF Init, Loops
  <2>4. leased \in BOOLEAN /\ released \in {"no", "ok", "failed"}
    BY DEF Init
  <2>5. fns \in Seq(CleanupFns) /\ cur \in CleanupFns \cup {"none"}
    BY DEF Init
  <2>6. /\ phase \in {"load", "build", "serve", "cleanup", "exited", "killed"}
        /\ stop \subseteq Crons /\ cancelled \subseteq Goroutines /\ gaveUp \subseteq Crons
        /\ open \subseteq Pools
    BY DEF Init
  <2> QED BY <2>1, <2>2, <2>3, <2>4, <2>5, <2>6 DEF TypeOK, Loops
<1>2. OrderInv
  BY DEF Init, OrderInv
<1>3. StopInv
  BY SetFacts DEF Init, StopInv, IsRunning
<1> QED BY <1>1, <1>2, <1>3 DEF ProcessInv

LEMMA ProcessStep ==
  ASSUME ProcessInv, [Next]_vars
  PROVE  ProcessInv'
<1>1. CASE Next
  BY <1>1, LoadStep, BuildStep, PhaseStep, KillStep, CleanupStep, LoopStep, StatementStep
     DEF Next
<1>2. CASE UNCHANGED vars
  <2>1. UNCHANGED <<phase, cfg, step, fns, cur, loop, conn, stop, cancelled, gaveUp, open,
                    leased, released>>
    BY <1>2 DEF vars
  <2>2. \A f : Pending(f)' = Pending(f)
    BY <2>1 DEF Pending
  <2>3. TypeOK' /\ OrderInv'
    BY <2>1 DEF ProcessInv, TypeOK, OrderInv
  <2>4. StopInv'
    BY <2>1, <2>2 DEF ProcessInv, StopInv, IsRunning, Busy
  <2> QED BY <2>3, <2>4 DEF ProcessInv
<1> QED BY <1>1, <1>2

LEMMA ProcessInvariant == Spec => []ProcessInv
BY ProcessInitial, ProcessStep, PTL DEF Spec

\* What is shared outlives its users, by the ranks of the cleanup functions.
LEMMA SharedSafe ==
  ASSUME ProcessInv
  PROVE  SharedOutliveUsers
<1>1. ASSUME cur = "pool" \/ phase = "exited", NEW g \in Goroutines, IsRunning(g)
      PROVE  g \in gaveUp
  <2>1. StopOf(g) \in CleanupFns /\ StopOf(g) \notin Pools /\ "pool" \in Pools
    BY SetFacts DEF Pools
  <2>2. fns = <<>>
    <3>1. CASE cur = "pool"
      <4>1. ASSUME NEW i \in 1..Len(fns)
            PROVE  FALSE
        <5>1. fns[i] \in CleanupFns /\ Rank[fns[i]] < 2
          BY <3>1, RankValues, Registered, SetFacts DEF ProcessInv, OrderInv
        <5> QED BY <5>1, RankValues DEF CleanupFns, Crons, Pools
      <4> QED BY <4>1 DEF ProcessInv, TypeOK
    <3>2. CASE phase = "exited"
      BY <3>2 DEF ProcessInv, OrderInv
    <3> QED BY <1>1, <3>1, <3>2
  <2>3. cur # StopOf(g)
    BY <1>1, <2>1, SetFacts DEF ProcessInv, OrderInv
  <2>4. ~Pending(StopOf(g))
    BY <2>2, <2>3 DEF Pending
  <2> QED BY <1>1, <2>4 DEF ProcessInv, StopInv
<1>2. cur = "vecpool" => ~IsRunning("relay")
  BY RelayGone, RankValues DEF CleanupFns, Pools
<1>3. ASSUME "sink" \in stop, IsRunning("reaper")
      PROVE  "reaper" \in gaveUp
  <2>1. ~Pending("reaper")
    BY <1>3, RankValues DEF ProcessInv, StopInv, CleanupFns, Crons
  <2> QED BY <1>3, <2>1 DEF ProcessInv, StopInv, StopOf, Goroutines, Crons
<1> QED BY <1>1, <1>2, <1>3 DEF SharedOutliveUsers
-----------------------------------------------------------------------------
(* The theorems. *)

\* The state of the process always has its type; in particular no poll interval
\* that is not positive gets past LoadFromEnv.
THEOREM TypeCorrect == Spec => []TypeOK
<1>1. ProcessInv => TypeOK
  BY DEF ProcessInv
<1> QED BY <1>1, ProcessInvariant, PTL

\* The pools and the sink are taken away only from goroutines that are gone or
\* that Stop gave up on, whatever build step has failed (the order in which
\* buildHandler appends to cleanupFns).
THEOREM SharedOutlive == Spec => []SharedOutliveUsers
BY ProcessInvariant, SharedSafe, PTL

\* A relay that has released its leases claims none again: its worker is gone
\* by then, and only a statement of the worker leases.  That released and the
\* leases agree is an invariant of its own, preserved because of ProcessInv.
THEOREM Released == Spec => []LeasesReleased
<1>1. Init => LeasesReleased
  BY DEF Init, LeasesReleased
<1>2. ASSUME ProcessInv, LeasesReleased, [Next]_vars
      PROVE  LeasesReleased'
  <2>1. CASE Release
    BY <1>2, <2>1 DEF Release, LeasesReleased
  <2>2. CASE EndStatement("relay")
    <3>1. released = "no" /\ UNCHANGED released
      BY <1>2, <2>2, SetFacts DEF ProcessInv, StopInv, EndStatement, Busy, IsRunning
    <3> QED BY <3>1 DEF LeasesReleased
  <2>3. CASE ~Release /\ ~EndStatement("relay")
    <3>1. UNCHANGED <<leased, released>>
      BY <1>2, <2>3 DEF Next, vars, LoadFromEnv, Build, BuildPool, PrepareStore, StartCron,
         BuildVector, NewService, BuildRelay, Built, BuildFails, BuildReturns, Listen,
         ListenReturns, Kill, Cleanup, BeginLast, Begin, StopReturns, WorkerStopped,
         PoolClosed, Exit, Accept, ReapNext, ReapDone, EndDrain, Tick, Leave, EndTick,
         EndStatement, Acquire, Move, lease
    <3> QED BY <1>2, <3>1 DEF LeasesReleased
  <2> QED BY <2>1, <2>2, <2>3
<1> QED BY <1>1, <1>2, ProcessInvariant, PTL DEF Spec

-----------------------------------------------------------------------------
(* Every exit is clean. *)

\* A step that succeeds leaves every open pool registered.
LEMMA BuiltOpen ==
  ASSUME TypeOK, OpenInv, NEW new \in Seq(CleanupFns), NEW started, Built(new, started),
         \A p \in open' \ open : \E i \in 1..Len(new) : new[i] = p
  PROVE  OpenInv'
<1>1. fns \in Seq(CleanupFns) /\ fns' = fns \o new /\ UNCHANGED <<cancelled, gaveUp>>
  BY DEF TypeOK, Built, signals
<1>2. /\ Len(fns) \in Nat /\ Len(new) \in Nat /\ Len(fns') = Len(fns) + Len(new)
      /\ \A i \in 1..Len(fns) : fns'[i] = fns[i] /\ i \in 1..Len(fns')
      /\ \A i \in 1..Len(new) : fns'[Len(fns) + i] = new[i] /\ Len(fns) + i \in 1..Len(fns')
  BY <1>1
<1>3. ASSUME NEW p \in open'
      PROVE  \E i \in 1..Len(fns') : fns'[i] = p
  <2>1. CASE p \in open
    <3>1. PICK i \in 1..Len(fns) : fns[i] = p
      BY <2>1 DEF OpenInv
    <3> QED BY <1>2, <3>1
  <2>2. CASE p \notin open
    <3>1. PICK i \in 1..Len(new) : new[i] = p
      BY <2>2
    <3> QED BY <1>2, <3>1
  <2> QED BY <2>1, <2>2
<1> QED BY <1>1, <1>3 DEF OpenInv

LEMMA OpenBuild ==
  ASSUME TypeOK, OpenInv, Build
  PROVE  OpenInv'
<1>1. CASE BuildFails
  BY <1>1 DEF BuildFails, OpenInv, signals
<1>2. CASE BuildReturns
  BY <1>2 DEF BuildReturns, OpenInv, signals
<1>3. ASSUME Built(<<>>, {}), UNCHANGED open
      PROVE  OpenInv'
  <2>1. <<>> \in Seq(CleanupFns)
    OBVIOUS
  <2> QED BY <1>3, <2>1, BuiltOpen
<1>4. ASSUME NEW p \in Pools, Built(<<p>>, {}), open' = open \cup {p}
      PROVE  OpenInv'
  <2> DEFINE new == <<p>>
  <2>1. new \in Seq(CleanupFns) /\ 1 \in 1..Len(new) /\ new[1] = p /\ Built(new, {})
    BY <1>4, SetFacts
  <2> HIDE DEF new
  <2> QED BY <1>4, <2>1, BuiltOpen
<1>5. ASSUME Built(<<"release", "worker">>, {"relay"}), UNCHANGED open
      PROVE  OpenInv'
  <2>1. <<"release", "worker">> \in Seq(CleanupFns)
    BY DEF CleanupFns
  <2> QED BY <1>5, <2>1, BuiltOpen
<1>6. ASSUME NEW g \in Crons, Built(<<g>>, {g}), UNCHANGED open
      PROVE  OpenInv'
  <2>1. <<g>> \in Seq(CleanupFns)
    BY SetFacts
  <2> QED BY <1>6, <2>1, BuiltOpen
<1>7. CASE BuildPool \/ BuildVector
  BY <1>1, <1>2, <1>3, <1>4, <1>7 DEF BuildPool, BuildVector, Pools
<1>8. CASE PrepareStore \/ NewService \/ BuildRelay
  BY <1>1, <1>2, <1>3, <1>5, <1>8 DEF PrepareStore, NewService, BuildRelay
<1>9. CASE \E g \in Crons : StartCron(g)
  BY <1>3, <1>6, <1>9 DEF StartCron
<1> QED BY <1>7, <1>8, <1>9 DEF Build

LEMMA OpenStep ==
  ASSUME TypeOK, OpenInv, [Next]_vars
  PROVE  OpenInv'
<1>1. CASE Build
  BY <1>1, OpenBuild
<1>2. CASE Kill
  BY <1>2 DEF Kill, OpenInv
<1>3. CASE BeginLast
  <2> DEFINE n == Len(fns)
  <2>1. /\ fns \in Seq(CleanupFns) /\ n \in Nat \ {0}
        /\ fns' = SubSeq(fns, 1, n - 1) /\ open' = open \ {fns[n]}
        /\ gaveUp' = gaveUp /\ cancelled \subseteq cancelled'
    BY <1>3 DEF TypeOK, BeginLast, Begin, Last, Front
  <2> HIDE DEF n
  <2>2. /\ \A i \in 1..n : i = n \/ i \in 1..(n - 1)
        /\ \A i \in 1..(n - 1) : fns[i] \in CleanupFns
        /\ 1 \in Int /\ n - 1 \in Int
    BY <2>1 DEF n
  <2>3. /\ Len(SubSeq(fns, 1, n - 1)) = IF 1 <= n - 1 THEN n - 1 - 1 + 1 ELSE 0
        /\ \A i \in 1..(n - 1 - 1 + 1) : SubSeq(fns, 1, n - 1)[i] = fns[1 + i - 1]
    BY <2>2, SubSeqProperties
  <2>4. Len(fns') = n - 1 /\ \A i \in 1..(n - 1) : fns'[i] = fns[i]
    <3>1. n - 1 - 1 + 1 = n - 1 /\ \A i \in 1..(n - 1) : 1 + i - 1 = i
      BY <2>1
    <3> QED BY <2>1, <2>3, <3>1
  <2>5. ASSUME NEW p \in open'
        PROVE  \E i \in 1..Len(fns') : fns'[i] = p
    <3>1. PICK i \in 1..n : fns[i] = p
      BY <2>1 DEF OpenInv, n
    <3>2. i \in 1..(n - 1)
      BY <2>1, <2>2, <3>1
    <3> QED BY <2>4, <3>1, <3>2
  <2> QED BY <2>1, <2>5 DEF OpenInv
<1>4. CASE \E g \in Crons : StopReturns(g)
  BY <1>4 DEF StopReturns, Done, OpenInv
<1>5. CASE ~Build /\ ~Kill /\ ~BeginLast /\ ~(\E g \in Crons : StopReturns(g))
  <2>1. UNCHANGED <<fns, open, gaveUp, cancelled>>
    BY <1>5 DEF Next, vars, LoadFromEnv, Listen, ListenReturns, Cleanup, WorkerStopped,
       Release, PoolClosed, Done, Exit, Accept, ReapNext, ReapDone, EndDrain, Tick, Leave,
       EndTick, EndStatement, Acquire, Move, main, signals
  <2> QED BY <2>1 DEF OpenInv
<1> QED BY <1>1, <1>2, <1>3, <1>4, <1>5

\* However far the build had got and whatever failed, a process that exits by
\* itself has closed its pools and told every goroutine to stop (the cleanup on
\* the error paths of buildHandler, and the deferred one of run).
THEOREM ExitsClean == Spec => [](phase = "exited" => CleanExit)
<1>1. Init => OpenInv
  BY DEF Init, OpenInv
<1>2. ASSUME ProcessInv, OpenInv
      PROVE  phase = "exited" => CleanExit
  <2>1. SUFFICES ASSUME phase = "exited" PROVE CleanExit
    OBVIOUS
  <2>2. fns = <<>>
    BY <1>2, <2>1 DEF ProcessInv, OrderInv
  <2>3. open = {}
    BY <1>2, <2>2 DEF OpenInv
  <2>4. \A g \in Goroutines : IsRunning(g) => g \in cancelled
    BY <1>2, <2>1, SharedSafe DEF SharedOutliveUsers, OpenInv
  <2> QED BY <2>1, <2>3, <2>4 DEF CleanExit
<1>3. ProcessInv => TypeOK
  BY DEF ProcessInv
<1> QED BY <1>1, <1>2, <1>3, OpenStep, ProcessInvariant, PTL DEF Spec
=============================================================================
