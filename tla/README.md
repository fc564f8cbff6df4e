# A verification of the memory gateway

The gateway (`cmd/memory-gateway`, `internal/`) is an HTTP service in front of a
durable memory store. It keeps little state of its own, but what it keeps is
shared by concurrent requests, by background jobs and by replicas of the process.
This project models that state and the steps that touch it in TLA+, checks small
instances with TLC, and proves the safety properties of all nine components, and two
refinements, with TLAPS for every size of the instance.

## 1. The system

| Component | State | Operations | Interacts with |
|---|---|---|---|
| Session registry (`session_registry.go`, `postgres_session_store.go`) | one row per session scope; a cache of rows in each replica, filled on read, never re-read | `Get`, `Close`, `Heartbeat` | every request that names a session, the reaper |
| Recall cache and scope versions (`recall_cache.go`, `*scope_version_store.go`) | per replica: response, fill time and scope version of each query; shared: a counter per scope | `Lookup`, `Set`, `InvalidateScope`, `CurrentScopeVersion`, `BumpScopeVersion` | `RecallUnified` reads and fills, every mutation and close invalidates and bumps |
| Recall pipeline (`hybrid_recaller.go`, `postgres_recall_store.go`, `rag_vector_candidate_source.go`, `recall_selection.go`, `token_budget.go`, `authz/scope.go`) | none | authorise, query two sources, fuse, rank, hydrate, select, mark access | store, vector store, cache |
| Record mutations (`service.go`) | none; record and idempotency key live in the store | patch, pin, unpin, disable, enable, delete | store, session check, cache |
| Session closer (`durable_session_closer.go`) | none; counts per run | list, promote, dedupe, expire, observe | `CloseSession`, store, metrics |
| Reaper, hard-delete GC (`session_reaper_cron.go`, `hard_delete_gc_cron.go`) | a ticker | list idle and close; purge | closer, registry, store |
| Trace sink (`trace_sink_postgres.go`) | a bounded channel, a batch, three drop counters | `Record`, `Run`, `Stop` | request goroutines, database, shutdown |
| Outbox publisher and projector (`outbox_vector_publisher.go`, `vector_projector.go`, relay worker in `main.go`) | none; the outbox and the vector store are shared | `Publish`, `ProjectUpsert`, `ProjectRemove` | relay, truth source, vector store |
| Metrics registry (`observability/metrics.go`) | maps from tenant bucket to an atomic counter | `addBucket`, `Snapshot` | every recall, scrapes |
| Process (`main.go`, `config.go`) | pools, goroutines, cleanup functions | `LoadFromEnv`, `buildHandler`, `ListenAndServe`, cleanup | all of them |
| HTTP decoding, migrations | none | | |

What is hard here:

- *Check, then act.* Session check and commit; idempotency lookup and patch; version
  check and vector write; idle list and close; candidate query and hydration. Each
  pair is two round trips with nothing held in between.
- *Copies.* Each replica caches rows and responses; invalidation reaches one replica
  and one scope, and the shared counter that covers the others may fail to move. A
  cached response shares its trace with everyone it is served to.
- *Partial failure.* A call may commit and still report an error (the heartbeat does
  so by itself, see 4); a closer may stop half way; a bump is best effort; a build
  step of the process may fail when goroutines already run.
- *Shutdown.* The writer, `Stop` and the request goroutines all use one channel; the
  crons, the relay and the requests all use the pools.

`PROJECT.json` lists the hazards line by line, with the properties that watch them.

## 2. Modules

Each component module has its state as variables, one action per step between two
lock acquisitions or store calls, and its properties at the end. `MC*` modules give
model values and symmetry sets; `*Proofs` modules hold the theorems. Definitions
marked `MUTANT` are plausible bugs of the definition below them; nothing uses them,
they show that a property can fail.

**SessionLifecycle.** `row` is the stored row, `cache` the registry's map in each
replica, `rq` the requests. `Get` is `GetCached`, `Load`, `GetFill`; `Close` and
`Heartbeat` are a save followed by a cache write; `Check` is `validateSessionState`
(`Refused` is the weaker test that a close makes); `RunCloser` stands for the whole
of WorkingClose; `Finish` is the admitted work itself. `ScanNullFails` selects the
store: TRUE is Postgres, which cannot scan the NULL `closed_at` of an active row back
into a `time.Time`; FALSE is the in-memory store. `Restart` empties a replica.

**SessionRegister** is what SessionLifecycle promises about the end of a session:
reclaimed in some modes, closed once, in one of those. The mapping takes the mode of
the closed row for the outcome and the modes in which a closer completed for
`reclaimed`; everything else (caches, requests, heartbeats, restarts) is a stutter.

**RecallCache.** `version` and `hidden` are the truth source, `scopeVersion` the
tokens, `entries` the caches. A recall is `StartRecall` (reads the token), `Lookup`,
`Validate` per hit when bounded, `Candidates`, `Hydrate` per record, `Fill`. A mutation
is `Commit`, `Invalidate` (own replica, named scope), `Bump` (may be lost). The ghost
`published` remembers what each bump announced. One query is modelled, which every
record matches; top_k and the token budget drop nothing.

**RecallPipeline** is the other half of a recall: one request at the origin, with
what RecallCache leaves out. `Start` is authorisation and the checks of the request;
`QueryLexical` and `QueryVector` are the queries of the two sources, whose ties are
broken any way; `Rank` is the fusion's order and its cut to `topK`; `Hydrate` reads one record;
`BuildRecallCandidates` and `Select` are the score, the sort and the budget loop, one
candidate per step, with `totalEstimate` as in the code. The two sorts are stated by
what they return (`Sorted`). `Mutate` hides, shows, pins or unpins a record in between. The
vector store is a column of the record (`chunk`) that mutations do not touch, so it is
as stale as the projection allows. Importance is any number of quarters: the gateway
passes on what the writer sends. The score of the selection, which adds 1/tokens, is an
exact fraction, compared by cross-multiplication; the code's `float64` rounds it, which
may break a tie the other way.

**Telemetry** has two things that requests share through pointers. A counter of a
bucket is a cell on the heap: `Find`, `Insert` and `Add` are the three steps of
`addBucket`, `ScrapeBegin`, `ScrapeLoad` and `ScrapeEnd` those of `Snapshot`. The trace
of a cached response is written by each hit (`MarkBegin`, `MarkEnd`: nothing orders
the write) and read by the handlers (`Respond`), who may see any mixture, or a torn
string, while it is written.

**RecordMutations.** One record, its flags and version; `idem` is the idempotency
store. A request is `Start`, then `LoadKey`, `Mutate`, `SaveKey` for a keyed patch, and
`Read` (the short-circuits), `Mutate` for the others. The backend is external: it
commits a mutation of the stored version and refuses the rest. `history` (ghost) keeps
the flags of every version so that an answer can be compared with what was ever true.

**WorkingClose.** The working records of one session, the closers (client requests
and the reaper) and the writers. `ClientClose` and `ListIdle`, the reaper's query, begin a
close, which is a replay if the session is closed (for the reaper at `CheckOpen`);
`ListSessionWorking` is the closer's list, then one of `PassOver`, `ExpireWorking`,
`Promote`, `PromoteReplayed`, `Collide` per record, `Observe`, `Save`; `Abort` is a failing
call. `keys` are the idempotency keys of committed promotions: a second `Promote` with the
same key may be stale or, as a replay, succeed once more, and the closer counts every
success. The store is external, so both answers are there. Resolving the dedupe and
promoting are one step: without a collision the first changes nothing; with one,
`Collide` lets it collapse any live records of the session. `MarkAccess` is what a recall
does to the records' activity. The ghosts `expiredBy` and `promotedBy` say on whose account
the deletion of a record, or a closer's promotion of it, is: the closer's, until it reports
its counts or fails with them; `replayed` are the promotions that repeated another's.

**TraceSink.** Counts of rows in the channel, the batch, the database and the three
drop counters; `writer` is the program counter of `Run`, `tryInsert` and
`drainOnShutdown`; `stopper` is cleanup's call of `Stop` and `sinkCancel`.

**OutboxProjection.** One record, the events of its versions, the version in the
vector store and the publication each worker is in. `Claim`, `Ack` and `Nack` are the
external relay as the gateway uses it; `ReadTruth` and `ProjectUpsert`/`ProjectRemove`
are the two halves of `Publish`; `Crash` may leave a vector write applied.

**IndexReplica** is what OutboxProjection with one worker promises: the index may be
wrong or late, but once an event of the newest version has been acknowledged it
agrees with the source, and is not touched until the source changes. The mapping
takes the version that should be in the vector store for the source and "an event of
the current version is acknowledged" for `settled`.

**ProcessLifecycle.** `phase` and `step` follow `run` and `buildHandler`, whose steps may
each fail; `fns` are the collected cleanup functions and `cur` the one that runs. Each
goroutine waits in its select or works on a tick, and takes and returns connections;
the reaper looks at its stop channel between two sessions; a request is one more user
of the pools that nobody stops. `StopReturns` is a cron's `Stop`, which may give up,
followed by the cancelled context; `WorkerStopped` waits without a deadline. `Kill` is a
signal or crash at any time. `LoadFromEnv` keeps of the environment what decides
whether something runs: the database URL, three flags and the poll interval.

The modules meet at these points, each modelled on both sides: the session check
(SessionLifecycle decides, WorkingClose and RecordMutations assume an admitted
request), the closer (one step in SessionLifecycle, detailed in WorkingClose),
`invalidateScopeState` (after every mutation of RecordMutations, detailed in
RecallCache), the origin of a recall (three steps in RecallCache, detailed in
RecallPipeline, counted in Telemetry), and the stop of the sink (one cleanup function
in ProcessLifecycle, detailed in TraceSink).

## 3. What the passing runs show

| Run | Instance | Shows |
|---|---|---|
| `session_pg` | 3 requests, 2 replicas, Postgres store, faults, restarts | `ClosedRowFrozen`: the first close is final. `ClosedCopiesExact`: every copy of a closed row is the row. `AdmittedOnlyIfOpenAtStart`: nothing that starts after a close is let through. `ImplementsRegister`: the refinement of SessionRegister |
| `recall_scopes` | a recall in one replica, a writer in another, 2 overlapping scopes, 2 records, lost bumps, time | `EntriesReflectTheirTag`: an entry tagged with a scope version reflects all mutations announced up to it. `AnswersReflectToken`: a bounded or strong answer misses no mutation announced in its scope before it began. `HitsNotOlderThanRequest`: no hit of such an answer is older than its record was at the start |
| `recall_pipeline` | 3 records, each of any of 7 kinds, any headers and claims, 5 values of top_k, 2 budgets, 1 mutation | `RankedTopK`: what is hydrated are the best of all that either source named, by the better score. `MatchesInSight`: a match is selected or `topK` others are ahead of it, and neither similarity, of stale chunks either, nor an importance less than 100 higher costs the user a pinned or saved one. `BudgetUsedWell`: the hits fit, what was dropped did not fit where it stood, and without a budget nothing is dropped. `HitsInScope`: no hit from outside the headers' scope, or hidden all along |
| `telemetry` | 2 recalls, 1 bucket, at most 1 record | `ScrapeExact`: no increment is lost and no counter goes back. `TraceNotMixedUp`: strong answers, and those whose trace nobody shares, report themselves |
| `mutations` | 2 clients, a key, 2 bodies, 3 versions, faults, GC | `SuccessTruthful`: a success was true of some version, and of one the caller was not ahead of. `DeletedIsFinal`. `KeyedPatchOnce`: a key and body commit once. `DeleteReplayAnswered`: a repeated delete is recognised unless a call failed or the row was purged |
| `working_close` | 2 closers for clients, one of them for the reaper too, a writer, 2 records, one of them patched and eligible, faults, fair | `PromotedSurvive`: no overlapping close expires what another promoted. `ReclaimComplete`: a close that stops half way leaves the session open. `CountedOnce`: every deletion is counted once, and a promotion again only by a close that got a replayed success. `IdleReclaimed`: the records of a session that stays idle do not stay |
| `trace_sink` | channel 2, batch 2, 2 attempts, 6 rows, fair | `Conserved`: each row is in one place. `RetryBudgetHonoured`: db_error only after the attempts. `StopTerminates`: cleanup and the writer end |
| `outbox_worker` | 1 worker, 3 versions, 2 attempts, errors and crashes, fair | `SettledInSync`: an acknowledged current event left the vector store in step. `DrainedInSync`: so did a drained outbox, but for promotions. `EventsSettle`: every event is settled. `ImplementsReplica`: the refinement of IndexReplica |
| `process` | every environment, every failing step, a kill at any time, fair | `LeasesReleased`: no lease is taken behind the release. `SharedOutliveUsers`: pools and sink outlive the goroutines that use them, but for those `Stop` gave up on. `CleansUp`: a cleanup gets to its end and leaves nothing open. `TypeOK` here includes that no environment yields a poll interval that makes `time.NewTicker` panic |

Bounds. Two replicas show every effect of a cache that another replica does not see;
a third would repeat the second. Two records and two overlapping scopes let a
mutation go through a scope other than the record's own. Clocks only have to pass a
TTL once: `SessionIdleTTL` and the cache TTLs are 0 or 1 tick (0: shorter than a tick)
and `MaxTime` at most 2. `MaxVersion` lets a record be created, changed and hidden
(2), and an outbox event be overtaken twice (3). A channel and a batch of
two rows can be empty, partly full and full, and six rows fill both and overflow.
The one recall key allows stale answers, which only adds to what `Lookup` may serve.
The seven kinds of record in `recall_pipeline` differ in what the code tells apart:
pinned, saved, unmatched but similar, hidden but still in the vector store, another
user's, plain, and plain but important enough to outbid a saved one; three of them with a top_k of 1 or 2 are cut, with the default of 8 they
are not, and -1 and 51 are the values next to the accepted ones. Their token costs (0, 1,
2, 3 and 4) meet the budget of 3 exactly, fall short of it and exceed it alone. In
`working_close` two closers that may both promote the same version of a record reach a
replayed promotion, and so a promotion that is counted twice. One record there is
eligible: that one promoted record is collapsed by the dedupe of another takes two, which
is too large an instance to check with liveness and is left to `PromotionsSurvive`. In
`telemetry` two requests are enough to race for a bucket and to share a trace; the
buckets do not meet. `process` has no constants: it is the whole of its model.
The theorems remove these bounds for the properties of section 5: they hold over
either session store, and for any number of recalls and writers in any replicas.

Fairness. `trace_sink`: the writer and cleanup are scheduled, `insertFunc` returns (its
context ends) and deadlines pass; nobody has to record rows or call `Stop`.
`outbox_worker`: the ticker of `startOutboxRelayWorker` calls `RunOnce` again and again
and its calls return; `EventsSettle` is claimed for behaviours in which crashes end,
since a worker that crashes for ever settles nothing. `working_close`: the reaper
ticks, started closes and admitted writes run on and time passes; clients need not
close, write or recall. `IdleReclaimed` is claimed for behaviours that calm down: the
session stays idle from some time on and the closers' calls stop failing. `process`:
the cleanup runs on, statements end, a tick of the relay ends, and its select, which Go
resolves at random among the ready branches, sees the cancelled context some day
although the ticker may be ready each time (strong fairness of `Leave`). Nothing is
asked of the crons, whose `Stop` has a deadline, and nothing makes the server return.
`CHECK_DEADLOCK FALSE` stands where the instance really may stop: the process or its
cleanup is over, the session is closed, or the last version is settled.

## 4. Where code and text disagree

Each of these runs checks one sentence of the repository and is expected to fail;
`PROJECT.json` quotes the sentence under `findings`.

| Run | The sentence | What happens |
|---|---|---|
| `session_pg_heartbeat` | a heartbeat marks an active session | over Postgres the row is written and the request fails on the NULL `closed_at`; so does every later read of the active row |
| `working_orphans` | the reaper reclaims idle sessions | a write behind the list stays in a closed session, which each tick passes over |
| `outbox_replicas` | an event is only applied at the current version | the version moves between check and write, and the other replica was faster |

The models also contain these behaviours, which no run is about:

- A write that was admitted before a close commits after it; the comment at
  `service.go:879-880` says that a closed session accepts no further writes. Nothing is
  held between the check (`service.go:296` and its like) and the commit.
- Over the in-memory store (`ScanNullFails` FALSE) a `Get` that loaded the active row
  before a close writes it over the closed cache entry after it, and the replica serves
  the closed session from then on (`AdmittedOnlyIfOpenAtStart` fails; the repository's
  README, line 150, says such a recall is rejected). Over Postgres the first row of the
  table prevents it: no active row can be read back, so none can be cached, and
  `AdmittedOnlyIfOpenAtStart` holds (`session_pg`, `AdmissionSound`). A fix of the scan
  alone would bring the stale copies to production.
- A promotion that commits before `memory_created` is published makes that event stale
  and is itself only observed, so the record is never projected; the comment at
  `outbox_vector_publisher.go:53-57` says it was. This is the exception of
  `DrainedInSync`.
- The retry of a delete is answered with 404 once the GC has purged the row;
  `hard_delete_gc_cron.go:10-11` says that the GC never changes behaviour. This is the
  exception of `DeleteReplayAnswered`.
- No signal is handled, so a SIGTERM ends the process without its cleanup, with rows in
  the trace sink and with its leases in the outbox (`Kill`); the repository's README,
  lines 266-268, counts the release as part of normal SIGTERM shutdown.
- Two patches with one key and two bodies, the second expecting the version the first
  produces, both find the key unknown and both commit; `patch_idempotency_test.go:123`
  expects a 409 for the second when they come one after the other.
- A session that becomes active after the reaper listed it is closed all the same;
  `session_reaper_cron.go:45-47` says it stays alive.
- A row recorded after the writer's last look at the channel stays there, neither
  inserted nor counted; the repository's README, lines 225-226, says that rows left
  over are counted as shutdown drops.
- Answers that share a cached response share its trace: since a cache key does not say
  the consistency level, an answer may carry the level, in `X-Consistency-Level` too, of
  another request that was served at the same time.
- The cut to `topK` comes before the records are read, so chunks of hidden records may
  take the places of plain lexical matches (`MatchesInSight` says that they cannot take
  those of pinned and saved ones). Importance is part of the same score, next to 1000 for
  a pinned and 100 for a saved record, and nothing bounds it (`service.go:313`, 411-412): a
  plain record that is 100 more important than a saved one takes its place, and a saved
  record with an importance below -99 can lose to a similarity.
- The promotion of a record by two overlapping closes is counted by both if the store
  answers the second as a replay of its idempotency key; the comment at
  `durable_session_closer.go:93-97` counts a promotion when a `Promote` succeeded. This is
  the exception of `CountedOnce`.
- `Stop` of a cron gives up after its deadline and the pool is closed under the tick that
  goes on. This is the exception of `SharedOutliveUsers`.
- The lexical query finds records without a project from every project, the filter of
  the vector query does not.

## 5. What is proved

All proofs are for arbitrary constants that satisfy the `ASSUME`s of the module, with
every interleaving, fault, crash and restart of the model. Sets of requests, replicas
or keys may be infinite; only WorkingClose counts records and needs finitely many. Every
inductive invariant stands at the end of the component's module (or above the theorem
that uses it) and has been checked by TLC on the instance of the run.

- `SessionLifecycleProofs`. `TypeCorrect`; `ClosedRowStable`, since a step changes the
  row only through one of the two saves, which both keep a closed row; `ClosedCorrect`,
  from an inductive invariant that adds the rows requests carry: a closed copy equals
  the row, and a request about to save a close has its mode among those a closer
  completed; `AdmissionSound`, which assumes the Postgres store (`ScanNullFails`) and uses
  `AdmissionInv`: caches hold nothing or a closed row, and a request whose session was
  closed at its start holds a closed row once it reaches the check;
  `RegisterImplemented`, the refinement of SessionRegister over either store, where the
  same invariant gives that a close finds its mode among the reclaimed ones.
- `RecallCacheProofs`. `TypeCorrect`; `EntriesSound` and `AnswersSound` from `TokenInv`:
  what a bump announced is committed and not numbered above the counter, a recall's
  token is not ahead of the counter, its hits reflect everything up to its token or the
  missing record is still to be hydrated, and entries satisfy `EntriesReflectTheirTag`.
  The point of the argument is that the token is read before any record. `HitsFresh`
  from a second invariant about the ghost `base`.
- `RecordMutationsProofs`. `TypeCorrect`, `SuccessesTrue`, `DeletionFinal`, `KeyedOnce` and
  `DeleteReplays` from `MutationsInv`. None of the four properties is inductive alone:
  they speak of answers, and what makes an answer right is known while the request is
  under way. `StoreInv` ties the ghosts to the store (deletion comes last in `history`,
  a keyed commit has the version after the one its body expects, the idempotency store
  knows commits only); `UnderWay`, `Truthful` and `Recognised` say what a request relies
  on, what its success says, and when a repeated delete may get past the short-circuit.
  That a key commits once follows from the version check, not from the lookup of the
  key: both commits would have the same version.
- `WorkingCloseProofs`. `TypeCorrect`, `PromotionsSurvive`, `Reclaimed` and `CountsExact`
  from `WorkingInv`. `CloserOK` says what a closer with an old list may believe: its list
  is not ahead of the records, and each record it has passed is gone, has changed since
  it was listed, or was kept. `GhostInv` gives that expired and promoted exclude each
  other: what was promoted, or has the key of a promotion, is settled, so a second
  promotion of a record can only be a replay. The counts are compared with the sizes of
  the accounts, so that no sum over closers is needed: reporting moves an account as a
  whole.
- `TelemetryProofs`. `TypeCorrect`; `ScrapesExact` from `CounterInv` and `ScrapeInv`: a cell
  that a map points to holds what was counted, where there is none nothing was, and who
  is about to add has the map's cell (the re-check under the write lock gives this);
  `TracesOwn` from `TraceInv`: a maker keeps its trace for good, only traces of requests
  that are not strong reach the cache, and a trace is as it was made until somebody
  else points to it. Pointers are never taken back, so what is shared stays shared. The
  same module holds the theorems about TraceSink, the other collector of telemetry:
  `SinkTypeCorrect`, `RowsConserved` and `BudgetHonoured` from `WriterInv`: the writer waits
  for rows only with room in its batch, backs off only with an attempt left, and leaves
  with an empty batch.
- `ProcessLifecycleProofs`. `TypeCorrect`, `SharedOutlive` and `Released` from `OrderInv`
  (the remaining cleanup functions are in the order of the build, `Rank`, and before the
  one that runs) and `StopInv` (a goroutine that runs has its stop pending, or `Stop` gave
  up on it; only a busy one has a connection). When the pool's function runs nothing is
  pending, when the release runs the worker's stop has returned: the theorems are
  comparisons of ranks. `ExitsClean` adds `OpenInv` (an open pool is still registered) and
  is the safety half of `CleansUp`: no exit leaves anything open. The model is finite,
  so these proofs add the reason rather than reach.
- `OutboxProjectionProofs`. `TypeCorrect` for any number of workers, from `OutboxInv`;
  `Converged` for a single worker, from `ProjectionInv`: what a publication under way may
  still write is either the current version or concerns a version of which nothing is
  settled. `Drained` adds `Announced`: the current version has an event, and not only that
  of a collapse. `ReplicaImplemented`, from `ProjectionInv` again: a step that writes the
  vector store is taken while nothing is settled, or writes what is there. All three need
  the single worker, as `outbox_replicas` shows.

- `RecallPipelineProofs`. `TypeCorrect`, `RanksBest`, `MatchesStayInSight`, `BudgetGreedy`
  and `HitsBelong` from `RecallInv`, which has one part per stage of the request.
  `CandidatesInv`: the map holds what the sources named, each with the best score it got.
  `RankedInv`: the ids to hydrate are the first of the map in the order of the scores, all
  of it unless they are `topK`. `LexicalInv` counts: a match that is not in the map was
  crowded out of it by `topK` others, and one whose lexical score no similarity reaches by
  `topK` others with a score as high (`AtLeast`). The vector query adds nothing to that set,
  since a similarity is at most 1.0, and a place in `ranked` for a record outside it would
  leave fewer than `topK` for those in it (`Crowd`). A score above the similarities is the
  record's lexical score unless it was mutated, so what `KeptAbove` says of lexical scores,
  that only an importance 100 higher makes up for not being kept, holds of what is ranked. `HydratedInv`: a ranked record that hydration has come to and that
  nobody mutated is in the selection. `SelectionInv`: what was hydrated is in sight, the
  hits come from the part of the selection the loop has passed, and the selection is in
  strict order. `BudgetInv` carries the running totals of the hits: the function that
  `BudgetUsedWell` asks for is built by the loop, one value per hit, so that no sum over
  a sequence is needed. A dropped record did not fit in with the hits of that moment, and
  the order keeps later hits behind it. `ScopeInv` and `PhaseInv` give the rest.

Only model-checked: the liveness properties `StopTerminates`, `EventsSettle`,
`IdleReclaimed` and `CleansUp`, for the prover has neither fairness nor ENABLED, and that
a recall is never stuck (the deadlock check of `recall_pipeline`). The latter includes that
what has to be sorted can be: `Sorted` says what a sort returns, any strictly ordered
listing of the set (there is at most one); that there is one for every finite set is an
induction over the data.

## 6. Not modelled

The store, the relay, pgx and the vector store are external and modelled from their
use. Payloads, the fields of traces that nobody shares, and the text of metrics and
errors are abstracted away. In RecallCache a close counts as no mutation (its closer
commits several records under one bump), and in TraceSink an insert that reports an
error has stored nothing. Of the metrics registry, gauges (`setBucket` has the shape of
`addBucket`; the gauge of a bucket whose tenants are gone keeps its last value), the
storage cron's sums and the counters without a bucket are left out: each is one
assignment or one atomic add. HTTP decoding, request ids, headers and the mapping of
errors keep no state; migrations are DDL that runs once and may fail, which
ProcessLifecycle has. The idempotency of `WriteMemory` is the external store's.
`PROJECT.json` gives the status of every component.

## 7. Plan

Done: nine component modules, in the order sessions, recall cache, trace sink, outbox,
mutations, working records, process, telemetry and recall pipeline; the abstract
SessionRegister and IndexReplica with their refinements; eight proof modules, which
state every safety property of the passing runs.

Worth adding to the proofs:

1. An abstract specification of a keyed patch, committed at most once, with
   RecordMutations shown to implement it.
2. TraceSink: the balance of rows step by step, as a refinement of a lossy queue.
