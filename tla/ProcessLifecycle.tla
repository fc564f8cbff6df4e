-------------------------- MODULE ProcessLifecycle --------------------------
(***************************************************************************)
(* One gateway process (cmd/memory-gateway/main.go): LoadFromEnv,          *)
(* buildHandler with the cleanup functions it collects, the background     *)
(* goroutines it starts, ListenAndServe, and the cleanup that runs the     *)
(* functions last to first.                                                *)
(*                                                                         *)
(* The goroutines are the writer of the trace sink, the three crons        *)
(* (storage_metrics_cron.go, session_reaper_cron.go,                       *)
(* hard_delete_gc_cron.go) and the outbox relay worker.  Each waits in a   *)
(* select and runs a tick, which uses connections of a pool.  The crons    *)
(* and the sink are stopped with a deadline, the relay worker without one; *)
(* nobody waits for HTTP requests.  The pools and the relay are external.  *)
(***************************************************************************)
EXTENDS Integers, SequencesExt

Crons == {"sink", "storage", "reaper", "gc"}
Goroutines == Crons \cup {"relay"}
Users == Goroutines \cup {"request"}
Pools == {"pool", "vecpool"}

\* The cleanup functions: a cron's stops that cron, a pool's closes the pool.
CleanupFns == Crons \cup Pools \cup {"release", "worker"}

\* The order of buildHandler.
BuildSteps == <<"pool", "migrate", "store", "sink", "storage", "vector",
                "service", "reaper", "gc", "relay", "listen">>

\* What the environment may say: of a flag, and of an interval.
Flag == {"unset", "true", "false", "garbage"}
Interval == {"unset", "positive", "nonpositive", "garbage"}
Env == [url : {"unset", "set"}, reaper : Flag, gc : Flag, vector : Flag, poll : Interval]

VARIABLES
  phase,      \* "load", "build", "serve", "cleanup", "exited" or "killed"
  cfg,        \* the configuration, as far as it decides what runs
  step,       \* the build step that is next
  fns,        \* cleanupFns, as far as they have not been run
  cur,        \* the cleanup function that is running, or "none"
  loop,       \* where each goroutine is
  conn,       \* the pool whose connection each user of the pools holds
  stop,       \* the goroutines whose stop channel is closed
  cancelled,  \* the goroutines whose context is cancelled
  gaveUp,     \* the goroutines that Stop did not wait for to the end
  open,       \* the pools that are open
  leased,     \* whether the relay of this process holds leases
  released    \* the outcome of Relay.Release

vars == <<phase, cfg, step, fns, cur, loop, conn, stop, cancelled, gaveUp, open,
          leased, released>>
main == <<phase, cfg, step, fns, cur, open>>
signals == <<stop, cancelled, gaveUp>>
lease == <<leased, released>>

Init ==
  /\ phase = "load"
  /\ cfg = [reaper |-> TRUE, gc |-> FALSE, vector |-> FALSE, poll |-> 1]
  /\ step = 1 /\ fns = <<>> /\ cur = "none"
  /\ loop = [g \in Users |-> "off"]
  /\ conn = [g \in Users |-> "none"]
  /\ stop = {} /\ cancelled = {} /\ gaveUp = {}
  /\ open = {}
  /\ leased = FALSE /\ released = "no"

-----------------------------------------------------------------------------
(* LoadFromEnv. *)

BoolOr(value, default) == IF value = "unset" THEN default ELSE value = "true"

\* MUTANT: the poll interval only has to parse.
BadInterval_parseOnly(value) == value = "garbage"

\* A flag must parse, an interval must be positive too.
BadFlag(value) == value = "garbage"
BadInterval(value) == value \in {"garbage", "nonpositive"}

\* Any other variable that is out of its range ends the process in the same way.
Refused(e) ==
  \/ e.url = "unset"
  \/ BadFlag(e.reaper) \/ BadFlag(e.gc) \/ BadFlag(e.vector)
  \/ BadInterval(e.poll)

LoadFromEnv ==
  /\ phase = "load"
  /\ \E e \in Env :
       IF Refused(e)
       THEN phase' = "exited" /\ UNCHANGED cfg
       ELSE /\ phase' = "build"
            /\ cfg' = [reaper |-> BoolOr(e.reaper, TRUE), gc |-> BoolOr(e.gc, FALSE),
                       vector |-> BoolOr(e.vector, FALSE),
                       poll |-> IF e.poll = "nonpositive" THEN 0 ELSE 1]
  /\ UNCHANGED <<step, fns, cur, loop, conn, signals, open, lease>>

-----------------------------------------------------------------------------
(* buildHandler. *)

Building(s) == phase = "build" /\ BuildSteps[step] = s

\* The step succeeds, registers cleanup functions and starts goroutines.
Built(newFns, started) ==
  /\ step' = step + 1
  /\ fns' = fns \o newFns
  /\ loop' = [g \in Users |-> IF g \in started
                              THEN (IF g = "relay" THEN "tick" ELSE "select")
                              ELSE loop[g]]
  /\ UNCHANGED <<phase, cfg, cur, conn, signals, lease>>

\* The step fails: what has been registered so far is run.
BuildFails ==
  /\ phase' = "cleanup"
  /\ UNCHANGED <<cfg, step, fns, cur, loop, conn, signals, open, lease>>

\* Nothing to clean up, or nothing but the pool, which is closed on the spot.
BuildReturns ==
  /\ phase' = "exited"
  /\ open' = {} /\ fns' = <<>>
  /\ UNCHANGED <<cfg, step, cur, loop, conn, signals, lease>>

BuildPool ==
  /\ Building("pool")
  /\ \/ Built(<<"pool">>, {}) /\ open' = open \cup {"pool"}
     \/ BuildReturns

\* runMigrations, and pgmemory.New.
PrepareStore ==
  /\ Building("migrate") \/ Building("store")
  /\ (Built(<<>>, {}) /\ UNCHANGED open) \/ BuildReturns

\* The sink and the crons cannot fail to start; reaper and GC can be off.
StartCron(g) ==
  /\ Building(g)
  /\ IF (g = "reaper" => cfg.reaper) /\ (g = "gc" => cfg.gc)
     THEN Built(<<g>>, {g})
     ELSE Built(<<>>, {})
  /\ UNCHANGED open

\* buildVectorCandidateSource closes its own pool when it fails half way.
BuildVector ==
  /\ Building("vector")
  /\ \/ cfg.vector /\ Built(<<"vecpool">>, {}) /\ open' = open \cup {"vecpool"}
     \/ ~cfg.vector /\ Built(<<>>, {}) /\ UNCHANGED open
     \/ cfg.vector /\ BuildFails

\* MUTANT: a failing service.New returns without the cleanup.
NewService_leaks ==
  /\ Building("service")
  /\ \/ Built(<<>>, {}) /\ UNCHANGED open
     \/ phase' = "exited" /\ UNCHANGED <<cfg, step, fns, cur, loop, conn, signals, open, lease>>

NewService ==
  /\ Building("service")
  /\ (Built(<<>>, {}) /\ UNCHANGED open) \/ BuildFails

\* MUTANT: the release of the leases is registered after the worker's stop.
BuildRelay_swapped ==
  /\ Building("relay")
  /\ \/ cfg.vector /\ Built(<<"worker", "release">>, {"relay"}) /\ UNCHANGED open
     \/ ~cfg.vector /\ Built(<<>>, {}) /\ UNCHANGED open
     \/ cfg.vector /\ BuildFails

\* NewRelay, the release of its leases, and startOutboxRelayWorker, whose
\* goroutine calls RunOnce before it waits for the first time.
BuildRelay ==
  /\ Building("relay")
  /\ \/ cfg.vector /\ Built(<<"release", "worker">>, {"relay"}) /\ UNCHANGED open
     \/ ~cfg.vector /\ Built(<<>>, {}) /\ UNCHANGED open
     \/ cfg.vector /\ BuildFails

Build ==
  \/ BuildPool \/ PrepareStore \/ BuildVector \/ NewService \/ BuildRelay
  \/ \E g \in Crons : StartCron(g)

\* run: ListenAndServe.
Listen ==
  /\ Building("listen")
  /\ phase' = "serve"
  /\ UNCHANGED <<cfg, step, fns, cur, loop, conn, signals, open, lease>>

\* ListenAndServe returns, always with an error; the deferred cleanup begins.
ListenReturns ==
  /\ phase = "serve"
  /\ phase' = "cleanup"
  /\ UNCHANGED <<cfg, step, fns, cur, loop, conn, signals, open, lease>>

\* SIGTERM or a crash: no signal is handled, nothing is cleaned up.  The memory
\* of the process is gone, its leases in the outbox stay.
Kill ==
  /\ phase \in {"build", "serve", "cleanup"}
  /\ phase' = "killed"
  /\ fns' = <<>> /\ cur' = "none" /\ open' = {}
  /\ loop' = [g \in Users |-> "off"] /\ conn' = [g \in Users |-> "none"]
  /\ stop' = {} /\ cancelled' = {} /\ gaveUp' = {}
  /\ UNCHANGED <<cfg, step, lease>>

-----------------------------------------------------------------------------
(* The goroutines, as long as the process lives. *)

Alive == phase \in {"build", "serve", "cleanup"}

Move(g, l) ==
  /\ loop' = [loop EXCEPT ![g] = l]
  /\ UNCHANGED <<main, conn, signals, lease>>

\* The ticker fires (for the sink: or a row arrives).  A select that could as
\* well see the stop channel or the context may take this branch.
Tick(g) == Alive /\ loop[g] = "select" /\ Move(g, "tick")

\* The server hands a request to a goroutine of its own.
Accept == phase = "serve" /\ loop["request"] = "off" /\ Move("request", "tick")

\* runOnce of the reaper looks at its stop channel and its context, and closes
\* the next session of its list.
ReapNext ==
  /\ Alive /\ loop["reaper"] = "tick" /\ conn["reaper"] = "none"
  /\ "reaper" \notin stop \cup cancelled
  /\ Move("reaper", "session")

\* ReapIdleSession is over, with or without an error.
ReapDone ==
  /\ Alive /\ loop["reaper"] = "session" /\ conn["reaper"] = "none"
  /\ Move("reaper", "tick")

Busy(g) == loop[g] \in {"tick", "session", "drain"}

\* A statement begins: a pool that is closed, or a context that is cancelled,
\* refuses.  The drain of the sink has a context of its own; the vector store
\* is used by the relay and by recalls.
Acquire(g, p) ==
  /\ Alive /\ Busy(g) /\ conn[g] = "none"
  /\ p \in open /\ (p = "vecpool" => g \in {"relay", "request"})
  /\ g \in cancelled => loop[g] = "drain"
  /\ conn' = [conn EXCEPT ![g] = p]
  /\ UNCHANGED <<main, loop, signals, lease>>

\* A statement ends.  One of the relay may have leased events, or settled the
\* last one.
EndStatement(g) ==
  /\ Alive /\ conn[g] # "none"
  /\ conn' = [conn EXCEPT ![g] = "none"]
  /\ leased' \in (IF g = "relay" /\ conn[g] = "pool" THEN BOOLEAN ELSE {leased})
  /\ UNCHANGED <<main, loop, signals, released>>

\* The tick is over, or the request answered.
EndTick(g) ==
  /\ Alive /\ loop[g] = "tick" /\ conn[g] = "none"
  /\ Move(g, IF g = "request" THEN "off" ELSE "select")

\* The select sees the stop channel or the context.  The sink drains first.
Leave(g) ==
  /\ Alive /\ loop[g] = "select" /\ g \in stop \cup cancelled
  /\ Move(g, IF g = "sink" THEN "drain" ELSE "gone")

EndDrain ==
  /\ Alive /\ loop["sink"] = "drain" /\ conn["sink"] = "none"
  /\ Move("sink", "gone")

-----------------------------------------------------------------------------
(* The cleanup. *)

\* What a cleanup function does first: Stop closes the stop channel, the
\* worker's stop cancels its context, a pool is closed to new statements.
Begin(f) ==
  /\ cur' = f
  /\ stop' = IF f \in Crons THEN stop \cup {f} ELSE stop
  /\ cancelled' = IF f = "worker" THEN cancelled \cup {"relay"} ELSE cancelled
  /\ open' = open \ {f}
  /\ UNCHANGED <<phase, cfg, step, loop, conn, gaveUp, lease>>

\* MUTANT: the cleanup functions run in the order of their registration.
BeginLast_fifo ==
  /\ phase = "cleanup" /\ cur = "none" /\ fns # <<>>
  /\ Begin(Head(fns)) /\ fns' = Tail(fns)

BeginLast ==
  /\ phase = "cleanup" /\ cur = "none" /\ fns # <<>>
  /\ Begin(Last(fns)) /\ fns' = Front(fns)

Running(f) == phase = "cleanup" /\ cur = f
Done == cur' = "none" /\ UNCHANGED <<phase, cfg, step, fns, open>>

\* Stop has seen the goroutine end, or its deadline pass; either way the
\* context is cancelled next.
StopReturns(g) ==
  /\ Running(g) /\ Done
  /\ cancelled' = cancelled \cup {g}
  /\ gaveUp' = IF loop[g] = "gone" THEN gaveUp ELSE gaveUp \cup {g}
  /\ UNCHANGED <<loop, conn, stop, lease>>

WorkerStopped ==
  /\ Running("worker") /\ loop["relay"] = "gone" /\ Done
  /\ UNCHANGED <<loop, conn, signals, lease>>

\* Relay.Release gives the leases back, or fails within its five seconds,
\* perhaps after the statement took effect.
Release ==
  /\ Running("release") /\ Done
  /\ \/ leased' = FALSE /\ released' = "ok"
     \/ leased' \in {leased, FALSE} /\ released' = "failed"
  /\ UNCHANGED <<loop, conn, signals>>

\* Close returns when every connection has been handed back.
PoolClosed(p) ==
  /\ Running(p) /\ \A g \in Users : conn[g] # p
  /\ Done
  /\ UNCHANGED <<loop, conn, signals, lease>>

\* The cleanup is over: run returns its error and the process exits.
Exit ==
  /\ phase = "cleanup" /\ cur = "none" /\ fns = <<>>
  /\ phase' = "exited"
  /\ UNCHANGED <<cfg, step, fns, cur, loop, conn, signals, open, lease>>

Cleanup ==
  \/ BeginLast \/ WorkerStopped \/ Release \/ Exit
  \/ \E g \in Crons : StopReturns(g)
  \/ \E p \in Pools : PoolClosed(p)

Next ==
  \/ LoadFromEnv \/ Build \/ Listen \/ ListenReturns \/ Kill \/ Cleanup
  \/ Accept \/ ReapNext \/ ReapDone \/ EndDrain
  \/ \E g \in Goroutines : Tick(g) \/ Leave(g)
  \/ \E g \in Users : EndStatement(g) \/ EndTick(g) \/ \E p \in Pools : Acquire(g, p)

Spec == Init /\ [][Next]_vars

\* The cleanup runs on, statements end (by themselves or by their context), and
\* so does a tick of the relay.  Its select leaves some day when it may: Go
\* chooses among the ready branches at random.  Nothing is asked of the crons:
\* their Stop has a deadline.
FairSpec ==
  /\ Spec /\ WF_vars(Cleanup)
  /\ \A g \in Users : WF_vars(EndStatement(g))
  /\ WF_vars(EndTick("relay")) /\ SF_vars(Leave("relay"))

-----------------------------------------------------------------------------
(* Properties. *)

\* The poll interval is positive: time.NewTicker of the worker panics otherwise.
TypeOK ==
  /\ phase \in {"load", "build", "serve", "cleanup", "exited", "killed"}
  /\ cfg \in [reaper : BOOLEAN, gc : BOOLEAN, vector : BOOLEAN, poll : Nat \ {0}]
  /\ step \in 1..Len(BuildSteps)
  /\ fns \in Seq(CleanupFns) /\ cur \in CleanupFns \cup {"none"}
  /\ loop \in [Users -> {"off", "select", "tick", "session", "drain", "gone"}]
  /\ conn \in [Users -> Pools \cup {"none"}]
  /\ stop \subseteq Crons /\ cancelled \subseteq Goroutines /\ gaveUp \subseteq Crons
  /\ open \subseteq Pools
  /\ leased \in BOOLEAN /\ released \in {"no", "ok", "failed"}

\* Once Release has succeeded this process holds no lease again: the worker's
\* goroutine is gone before, so no RunOnce can claim behind it (main.go:236,
\* "Lease release MUST run before pool.Close").
LeasesReleased == released = "ok" => ~leased

IsRunning(g) == loop[g] \notin {"off", "gone"}

\* What goroutines share is taken away only after they are gone, but for those
\* Stop gave up on: the pool after all of them, the vector pool after the relay
\* worker (whose stop does not give up), the trace sink after the reaper, which
\* records rows.  Requests are nobody's to wait for.
SharedOutliveUsers ==
  /\ cur = "pool" \/ phase = "exited" => \A g \in Goroutines : IsRunning(g) => g \in gaveUp
  /\ cur = "vecpool" => ~IsRunning("relay")
  /\ "sink" \in stop => (IsRunning("reaper") => "reaper" \in gaveUp)

\* An exit that leaves no pool open and every goroutine told to stop.
CleanExit ==
  phase = "exited" /\ open = {} /\ \A g \in Goroutines : IsRunning(g) => g \in cancelled

\* Whatever fails, and however far the build had got: a cleanup gets to its end,
\* and the process exits clean unless it is killed.
CleansUp == phase \in {"cleanup", "exited"} ~> CleanExit \/ phase = "killed"

-----------------------------------------------------------------------------
(* The inductive invariant behind the safety properties. *)

\* The place of a cleanup function: twice its build step; the worker's stop
\* comes with the release and after it.
Rank == [f \in CleanupFns |->
  CASE f = "pool" -> 2 [] f = "sink" -> 8 [] f = "storage" -> 10 [] f = "vecpool" -> 12
    [] f = "reaper" -> 16 [] f = "gc" -> 18 [] f = "release" -> 20 [] f = "worker" -> 21]

\* The cleanup functions that remain are in the order of the build and come
\* before the one that runs.
OrderInv ==
  /\ \A i, j \in 1..Len(fns) : i < j => Rank[fns[i]] < Rank[fns[j]]
  /\ cur # "none" => \A i \in 1..Len(fns) : Rank[fns[i]] < Rank[cur]
  /\ phase = "build" => \A i \in 1..Len(fns) : Rank[fns[i]] < 2 * step
  /\ phase # "cleanup" => cur = "none"
  /\ phase \notin {"build", "serve", "cleanup"} => fns = <<>>

\* The function has been registered and has not returned.
Pending(f) == cur = f \/ \E i \in 1..Len(fns) : fns[i] = f

StopOf(g) == IF g = "relay" THEN "worker" ELSE g

\* Who runs will be stopped, or Stop gave up; only who runs has a connection;
\* nothing is stopped or released before the cleanup, and after that the
\* functions that were registered later have returned.
StopInv ==
  /\ \A g \in Goroutines : IsRunning(g) /\ g \notin gaveUp => Pending(StopOf(g))
  /\ \A g \in Users : conn[g] # "none" => Busy(g)
  /\ phase \in {"load", "build", "serve"} => stop = {} /\ gaveUp = {} /\ released = "no"
  /\ "sink" \in stop => \A f \in CleanupFns : Pending(f) => Rank[f] <= Rank["sink"]
  /\ released # "no" => ~IsRunning("relay")

\* A pool that is open will be closed, and whom Stop gave up on has been told.
OpenInv ==
  /\ \A p \in open : \E i \in 1..Len(fns) : fns[i] = p
  /\ gaveUp \subseteq cancelled
=============================================================================
