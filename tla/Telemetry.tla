------------------------------ MODULE Telemetry ------------------------------
(***************************************************************************)
(* What the gateway reports about itself: the metrics registry with its    *)
(* per-bucket counters (internal/observability/metrics.go), the counting   *)
(* of embedding calls (rag_vector_candidate_source.go) and of recalls, and *)
(* the trace of a recall response, which a cached response shares with     *)
(* everyone it is served to (service.go, transport/recall_handler.go).     *)
(*                                                                         *)
(* A counter of a bucket is a heap cell the map points to.  addBucket looks*)
(* the pointer up, inserts a cell if there is none, and adds after it has  *)
(* let go of the lock: three steps.  Snapshot holds the read lock and loads*)
(* one cell after the other while adds go on.                              *)
(*                                                                         *)
(* The counters that are not per bucket exist from the start and are added *)
(* to in one atomic step: they are left out.                               *)
(***************************************************************************)
EXTENDS Integers

CONSTANTS
  Recalls,       \* recall requests
  Buckets,       \* tenant buckets
  bucketOf,      \* tenantBucket of each request's tenant
  None,
  MaxReturned    \* bound on the records a recall returns

ASSUME ConstantsAssumption ==
  /\ bucketOf \in [Recalls -> Buckets] /\ None \notin Recalls
  /\ MaxReturned \in Nat

\* embeddingRequest, embeddingApplied (tokens and cost are counted with it),
\* recallReturned and recallSelected.
Maps == {"request", "applied", "returned", "selected"}
Levels == {"strong", "bounded", "eventual"}
CacheLevels == {"origin", "l1_hit", "l2_hit"}

\* RecallTraceResponse; level "torn" for a string read while it is written.
Trace == [level : Levels \cup {"torn"}, cache : CacheLevels]
FreshTrace == [level |-> "strong", cache |-> "origin"]

Stages == {"idle", "lookup", "embed", "search", "trace", "mark", "marking",
           "respond", "answered", "traceless"}

\* A request: its stage, and the increments it has to make before it goes on.
Request ==
  [stage : Stages, level : Levels,
   todo : SUBSET [map : Maps, n : Nat \ {0}],
   adding : {"no", "insert", "add"},  \* where it is in addBucket
   map : Maps, cell : Recalls \cup {None},
   trace : Recalls \cup {None},       \* the Trace pointer of its response
   reported : Trace]

Idle == [stage |-> "idle", level |-> "strong", todo |-> {}, adding |-> "no",
         map |-> "request", cell |-> None, trace |-> None, reported |-> FreshTrace]

VARIABLES
  rq,       \* the requests
  cell,     \* the maps: which cell each bucket points to, named by its maker
  value,    \* the cells
  counted,  \* ghost: the increments that were made
  entry,    \* the trace pointer of the cached response
  trace,    \* the traces, named by the request that made them
  scrape    \* the Snapshot under way, or the last one

counters == <<cell, value, counted>>
recalls == <<rq, entry, trace>>
vars == <<counters, recalls, scrape>>

Init ==
  /\ rq = [p \in Recalls |-> Idle]
  /\ cell = [m \in Maps |-> [b \in Buckets |-> None]]
  /\ value = [m \in Maps |-> [b \in Buckets |-> [p \in Recalls |-> 0]]]
  /\ counted = [m \in Maps |-> [b \in Buckets |-> 0]]
  /\ entry = None /\ trace = [p \in Recalls |-> FreshTrace]
  /\ scrape = [pc |-> "none", map |-> "request", left |-> {},
               lo |-> [b \in Buckets |-> 0], val |-> [b \in Buckets |-> 0]]

\* A Snapshot holds the read lock.
Locked == scrape.pc = "locked"

-----------------------------------------------------------------------------
(* addBucket. *)

\* Under the read lock: the pointer, or none yet.
Find(p) ==
  /\ rq[p].adding = "no"
  /\ \E t \in rq[p].todo :
       LET c == cell[t.map][bucketOf[p]] IN
       rq' = [rq EXCEPT ![p].adding = IF c = None THEN "insert" ELSE "add",
                        ![p].map = t.map, ![p].cell = c]
  /\ UNCHANGED <<counters, entry, trace, scrape>>

\* MUTANT: no second look under the write lock.
Insert_noRecheck(p) ==
  /\ rq[p].adding = "insert" /\ ~Locked
  /\ cell' = [cell EXCEPT ![rq[p].map][bucketOf[p]] = p]
  /\ rq' = [rq EXCEPT ![p].adding = "add", ![p].cell = p]
  /\ UNCHANGED <<value, counted, entry, trace, scrape>>

\* Under the write lock, which waits for a Snapshot: the cell another request
\* inserted meanwhile, or a new one.
Insert(p) ==
  /\ rq[p].adding = "insert" /\ ~Locked
  /\ LET c == cell[rq[p].map][bucketOf[p]]
         made == IF c = None THEN p ELSE c IN
       /\ cell' = [cell EXCEPT ![rq[p].map][bucketOf[p]] = made]
       /\ rq' = [rq EXCEPT ![p].adding = "add", ![p].cell = made]
  /\ UNCHANGED <<value, counted, entry, trace, scrape>>

\* Without a lock: the atomic add.
Add(p) ==
  /\ rq[p].adding = "add"
  /\ \E t \in {x \in rq[p].todo : x.map = rq[p].map} :
       /\ value' = [value EXCEPT ![t.map][bucketOf[p]][rq[p].cell] = @ + t.n]
       /\ counted' = [counted EXCEPT ![t.map][bucketOf[p]] = @ + t.n]
       /\ rq' = [rq EXCEPT ![p].adding = "no", ![p].map = Idle.map, ![p].cell = None,
                        ![p].todo = @ \ {t}]
  /\ UNCHANGED <<cell, entry, trace, scrape>>

-----------------------------------------------------------------------------
(* A recall. *)

\* The request is at a stage, with nothing left to count.
At(p, s) == rq[p].stage = s /\ rq[p].todo = {}
Goto(p, s) == rq' = [rq EXCEPT ![p].stage = s]
Count(p, s, adds) == rq' = [rq EXCEPT ![p].stage = s, ![p].todo = adds]
One(m) == [map |-> m, n |-> 1]

Start(p, l) ==
  /\ At(p, "idle")
  /\ rq' = [rq EXCEPT ![p].stage = "lookup", ![p].level = l]
  /\ UNCHANGED <<counters, entry, trace, scrape>>

\* The cache serves its entry, unless it is out of date (RecallCache says when)
\* or the request is strong; or the origin is asked, and the query embedded if
\* there is a vector source; or a store of sessions, versions or records fails.
Lookup(p) ==
  /\ At(p, "lookup")
  /\ \/ /\ rq[p].level # "strong" /\ entry # None
        /\ rq' = [rq EXCEPT ![p].stage = "mark", ![p].trace = entry]
     \/ Count(p, "embed", {One("request")}) \/ Goto(p, "search")
     \/ Goto(p, "traceless")
  /\ UNCHANGED <<counters, entry, trace, scrape>>

\* A failing embedder leaves its request counted and nothing else.
Embed(p) ==
  /\ At(p, "embed")
  /\ Count(p, "search", {One("applied")}) \/ Goto(p, "traceless")
  /\ UNCHANGED <<counters, entry, trace, scrape>>

\* MUTANT: a count of zero touches its bucket all the same.
Search_countsZero(p) ==
  /\ At(p, "search")
  /\ \/ \E r \in 1..MaxReturned : \E s \in 0..r :
          Count(p, "trace", {[map |-> "returned", n |-> r], [map |-> "selected", n |-> s]})
     \/ Goto(p, "traceless")
  /\ UNCHANGED <<counters, entry, trace, scrape>>

\* The records are found and filtered by the budget; ObserveRecall counts them,
\* leaving out what is zero.  Or nothing is found, or a backend call fails: the
\* response has no trace and is not cached.
Search(p) ==
  /\ At(p, "search")
  /\ \/ \E r \in 1..MaxReturned : \E s \in 0..r :
          Count(p, "trace", {x \in {[map |-> "returned", n |-> r],
                                    [map |-> "selected", n |-> s]} : x.n > 0})
     \/ Goto(p, "traceless")
  /\ UNCHANGED <<counters, entry, trace, scrape>>

\* MUTANT: a strong response is cached too.
MakeTrace_always(p) ==
  /\ At(p, "trace")
  /\ trace' = [trace EXCEPT ![p] = [level |-> rq[p].level, cache |-> "origin"]]
  /\ entry' = p
  /\ rq' = [rq EXCEPT ![p].stage = "respond", ![p].trace = p]
  /\ UNCHANGED <<counters, scrape>>

\* A response of the origin gets a trace of its own; unless it is strong the
\* cache keeps the response, pointer and all.
MakeTrace(p) ==
  /\ At(p, "trace")
  /\ trace' = [trace EXCEPT ![p] = [level |-> rq[p].level, cache |-> "origin"]]
  /\ entry' = IF rq[p].level = "strong" THEN entry ELSE p
  /\ rq' = [rq EXCEPT ![p].stage = "respond", ![p].trace = p]
  /\ UNCHANGED <<counters, scrape>>

\* What a hit writes into the trace it was handed.
Mark(p) == [level |-> rq[p].level,
            cache |-> IF rq[p].level = "bounded" THEN "l2_hit" ELSE "l1_hit"]

\* The write is not synchronised with anything: it begins and it ends.
MarkBegin(p) ==
  /\ At(p, "mark") /\ Goto(p, "marking")
  /\ UNCHANGED <<counters, entry, trace, scrape>>

MarkEnd(p) ==
  /\ At(p, "marking") /\ Goto(p, "respond")
  /\ trace' = [trace EXCEPT ![rq[p].trace] = Mark(p)]
  /\ UNCHANGED <<counters, entry, scrape>>

\* What a reader of a trace may see: what is there and, while others write it,
\* any of what they write, field by field, or a torn string.
Seen(c) ==
  LET W == {q \in Recalls : rq[q].stage = "marking" /\ rq[q].trace = c} IN
  [level : {trace[c].level} \cup {Mark(q).level : q \in W}
           \cup (IF W = {} THEN {} ELSE {"torn"}),
   cache : {trace[c].cache} \cup {Mark(q).cache : q \in W}]

\* The handler reads the trace for the header and the body.
Respond(p) ==
  /\ At(p, "respond")
  /\ \E t \in Seen(rq[p].trace) :
       rq' = [rq EXCEPT ![p].stage = "answered", ![p].reported = t]
  /\ UNCHANGED <<counters, entry, trace, scrape>>

\* A mutation invalidates the entry.
Invalidate ==
  /\ entry # None /\ entry' = None
  /\ UNCHANGED <<counters, rq, trace, scrape>>

-----------------------------------------------------------------------------
(* Snapshot. *)

\* The read lock is taken.  The snapshot copies every map; one is followed.
ScrapeBegin(m) ==
  /\ scrape.pc \in {"none", "done"}
  /\ scrape' = [pc |-> "locked", map |-> m, left |-> Buckets,
                lo |-> counted[m], val |-> [b \in Buckets |-> 0]]
  /\ UNCHANGED <<counters, recalls>>

\* copyBuckets loads one cell after the other; a bucket without one is not shown.
ScrapeLoad(b) ==
  /\ scrape.pc = "locked" /\ b \in scrape.left
  /\ LET c == cell[scrape.map][b] IN
       scrape' = [scrape EXCEPT !.left = @ \ {b},
                    !.val[b] = IF c = None THEN 0 ELSE value[scrape.map][b][c]]
  /\ UNCHANGED <<counters, recalls>>

ScrapeEnd ==
  /\ scrape.pc = "locked" /\ scrape.left = {}
  /\ scrape' = [scrape EXCEPT !.pc = "done"]
  /\ UNCHANGED <<counters, recalls>>

RecallStep(p) ==
  \/ Find(p) \/ Insert(p) \/ Add(p)
  \/ Lookup(p) \/ Embed(p) \/ Search(p) \/ MakeTrace(p)
  \/ MarkBegin(p) \/ MarkEnd(p) \/ Respond(p)

Next ==
  \/ \E p \in Recalls : RecallStep(p) \/ \E l \in Levels : Start(p, l)
  \/ Invalidate
  \/ (\E m \in Maps : ScrapeBegin(m)) \/ (\E b \in Buckets : ScrapeLoad(b)) \/ ScrapeEnd

Spec == Init /\ [][Next]_vars

-----------------------------------------------------------------------------
(* Properties. *)

Scrape == [pc : {"none", "locked", "done"}, map : Maps, left : SUBSET Buckets,
           lo : [Buckets -> Nat], val : [Buckets -> Nat]]

TypeOK ==
  /\ rq \in [Recalls -> Request]
  /\ cell \in [Maps -> [Buckets -> Recalls \cup {None}]]
  /\ value \in [Maps -> [Buckets -> [Recalls -> Nat]]]
  /\ counted \in [Maps -> [Buckets -> Nat]]
  /\ entry \in Recalls \cup {None} /\ trace \in [Recalls -> Trace]
  /\ scrape \in Scrape

\* A scrape shows at least what had been counted when it began and at most what
\* has been counted by now: no increment is lost when several requests touch a
\* bucket for the first time at once, and no counter goes back from one scrape
\* to the next (metrics.go:214, the re-check under the write lock).
ScrapeExact ==
  scrape.pc = "done" => \A b \in Buckets :
    scrape.lo[b] <= scrape.val[b] /\ scrape.val[b] <= counted[scrape.map][b]

\* The response of p reports its own level and cache level.
OwnTrace(p) ==
  rq[p].reported \in {Mark(p), [level |-> rq[p].level, cache |-> "origin"]}

\* A strong response always reports itself, and so does every response whose
\* trace was handed to nobody else; the cache shares the other traces, and with
\* them what is written there (service.go:145).
TraceNotMixedUp ==
  \A p \in Recalls : rq[p].stage = "answered" /\ ~OwnTrace(p) =>
    /\ rq[p].level # "strong"
    /\ \E q \in Recalls \ {p} : rq[q].trace = rq[p].trace

-----------------------------------------------------------------------------
(* The inductive invariants behind the two properties. *)

\* A cell that a map points to holds what was counted; where there is none,
\* nothing was.  Who is about to add has the cell of the map.
CounterInv ==
  /\ \A m \in Maps, b \in Buckets :
       /\ cell[m][b] # None => value[m][b][cell[m][b]] = counted[m][b]
       /\ cell[m][b] = None =>
            counted[m][b] = 0 /\ \A p \in Recalls : value[m][b][p] = 0
  /\ \A p \in Recalls : rq[p].adding = "add" =>
       rq[p].cell # None /\ rq[p].cell = cell[rq[p].map][bucketOf[p]]

\* The scrape has seen the counter of b.
Loaded(b) == scrape.pc = "done" \/ (scrape.pc = "locked" /\ b \notin scrape.left)

\* What a scrape has seen lies between its beginning and now.
ScrapeInv ==
  \A b \in Buckets :
    /\ scrape.lo[b] <= counted[scrape.map][b]
    /\ Loaded(b) =>
         scrape.lo[b] <= scrape.val[b] /\ scrape.val[b] <= counted[scrape.map][b]

\* Another response has the same trace.
Shared(p) == \E q \in Recalls \ {p} : rq[q].trace = rq[p].trace

\* A trace has been handed to its maker for good, and to others only if the
\* maker was not strong; until somebody else has it, it is as it was made.
TraceOK(p) ==
  /\ rq[p].trace = None <=> rq[p].stage \notin {"mark", "marking", "respond", "answered"}
  /\ rq[p].trace = p => rq[p].stage \in {"respond", "answered"}
  /\ rq[p].trace # None => rq[rq[p].trace].trace = rq[p].trace
  /\ rq[p].trace \notin {None, p} =>
       rq[p].level # "strong" /\ rq[rq[p].trace].level # "strong"
  /\ rq[p].trace = p => trace[p] = [level |-> rq[p].level, cache |-> "origin"] \/ Shared(p)
  /\ rq[p].stage = "answered" /\ ~OwnTrace(p) => rq[p].level # "strong" /\ Shared(p)

TraceInv ==
  /\ entry # None => rq[entry].trace = entry /\ rq[entry].level # "strong"
  /\ \A p \in Recalls : TraceOK(p)
=============================================================================
