----------------------------- MODULE RecallCache -----------------------------
(***************************************************************************)
(* The recall result cache (internal/service/recall_cache.go), the shared  *)
(* scope version tokens (scope_version_store.go and its Postgres twin) and *)
(* the two kinds of request that use them: RecallUnified, and mutations,   *)
(* which end in invalidateScopeState (service.go).                         *)
(*                                                                         *)
(* Each replica has its own cache; records and scope versions are shared.  *)
(* A recall is a sequence of store reads with no lock over them: version   *)
(* token, cache lookup, candidates, one read per record, fill.  A mutation *)
(* commits, then empties the cache of its own replica, then bumps the      *)
(* token of the scope the caller named.  All of these interleave.          *)
(*                                                                         *)
(* One query is modelled, one that matches every record and whose limits   *)
(* (top_k, token budget) drop none.                                        *)
(***************************************************************************)
EXTENDS Integers

CONSTANTS
  Records, Scopes,
  RecordScope,  \* the scope a record is created in
  Sees,         \* <<s, t>>: a recall in scope s sees records of scope t
  Keys,         \* cache keys: scope and allow_stale_cache of the one query; the
                \* consistency level is not part of the key
  Replicas, Readers, Writers,
  home,         \* the replica a request runs in
  BoundedTTL,   \* boundedCacheTTL, in clock ticks
  EventualTTL,  \* eventualCacheTTL
  MaxTime,      \* bound on the clock
  MaxVersion,   \* bound on a record's version
  Faults        \* whether store calls may fail

ASSUME ConstantsAssumption ==
  /\ Scopes # {} /\ Keys # {} /\ Records # {}
  /\ \A m \in Records : RecordScope[m] \in Scopes
  /\ Sees \subseteq Scopes \X Scopes
  /\ Keys \subseteq [scope : Scopes, allowStale : BOOLEAN]
  /\ \A p \in Readers \cup Writers : home[p] \in Replicas
  /\ BoundedTTL \in Nat /\ EventualTTL \in Nat
  /\ MaxTime \in Nat /\ MaxVersion \in Nat
  /\ Faults \in BOOLEAN

\* "other" is any value RecallUnified does not know: it is not validated.
Levels == {"strong", "bounded", "eventual", "other"}

\* The hits of a response: the version of each record, 0 for a record that is
\* not among them.
Hits == [Records -> Nat]
NoHits == [m \in Records |-> 0]

Entry == [hits : Hits, cachedAt : Nat, tag : Int]
NoEntry == [hits |-> NoHits, cachedAt |-> 0, tag |-> -1]

Reader ==
  [pc : {"idle", "lookup", "validate", "candidates", "hydrate", "fill", "done"},
   key : Keys, level : Levels,
   tag : Nat,              \* the scope version read at the start
   todo : SUBSET Records,  \* hits to re-validate, or candidates to hydrate
   hits : Hits,
   source : {"", "l1_hit", "l2_hit", "origin"},
   base : Hits]            \* ghost: the records' versions at the start

Writer == [pc : {"idle", "invalidate", "bump"}, scope : Scopes,
           m : Records, v : Nat]

VARIABLES
  version,        \* the truth source: a record's version (0: not created) ...
  hidden,         \* ... and the last version at which it was not visible
  scopeVersion,   \* the shared scope version tokens
  published,      \* ghost: bump n of scope s announced version v of record m
  entries,        \* each replica's cache
  clock,
  rd, wr          \* recalls and mutations in progress

vars == <<version, hidden, scopeVersion, published, entries, clock, rd, wr>>

IdleReader ==
  [pc |-> "idle", key |-> CHOOSE k \in Keys : TRUE,
   level |-> "strong", tag |-> 0, todo |-> {}, hits |-> NoHits, source |-> "",
   base |-> NoHits]

IdleWriter == [pc |-> "idle", scope |-> CHOOSE s \in Scopes : TRUE,
               m |-> CHOOSE m \in Records : TRUE, v |-> 0]

Init ==
  /\ version = NoHits
  /\ hidden = NoHits
  /\ scopeVersion = [s \in Scopes |-> 0]
  /\ published = {}
  /\ entries = [r \in Replicas |-> [k \in Keys |-> NoEntry]]
  /\ clock = 0
  /\ rd = [p \in Readers |-> IdleReader]
  /\ wr = [p \in Writers |-> IdleWriter]

-----------------------------------------------------------------------------
(* Mutations. *)

\* The backend commits a new version of the record: a write creates it, a
\* patch, pin, unpin or enable leaves it visible, a disable or delete hides
\* it.  Backend mutations are addressed by tenant and id, so the scope a later
\* mutation names need not be the one the record was created in.
Commit(p, m, s, visible) ==
  /\ wr[p].pc = "idle"
  /\ version[m] < MaxVersion
  /\ version[m] = 0 => visible /\ s = RecordScope[m]
  /\ version' = [version EXCEPT ![m] = @ + 1]
  /\ hidden' = [hidden EXCEPT ![m] = IF visible THEN @ ELSE version[m] + 1]
  /\ wr' = [wr EXCEPT ![p] = [pc |-> "invalidate", scope |-> s, m |-> m,
                              v |-> version[m] + 1]]
  /\ UNCHANGED <<scopeVersion, published, entries, clock, rd>>

\* invalidateScopeState, first half: recallCache.InvalidateScope empties the
\* entries of the named scope in this replica.
Invalidate(p) ==
  /\ wr[p].pc = "invalidate"
  /\ entries' = [entries EXCEPT ![home[p]] =
                   [k \in Keys |-> IF k.scope = wr[p].scope THEN NoEntry ELSE @[k]]]
  /\ wr' = [wr EXCEPT ![p].pc = "bump"]
  /\ UNCHANGED <<version, hidden, scopeVersion, published, clock, rd>>

\* invalidateScopeState, second half.  An error of BumpScopeVersion is
\* discarded and the mutation is acknowledged all the same.
Bump(p) ==
  /\ wr[p].pc = "bump"
  /\ LET s == wr[p].scope IN
       \/ /\ scopeVersion' = [scopeVersion EXCEPT ![s] = @ + 1]
          /\ published' = published \cup
               {[s |-> s, n |-> scopeVersion[s] + 1, m |-> wr[p].m, v |-> wr[p].v]}
       \/ Faults /\ UNCHANGED <<scopeVersion, published>>
  /\ wr' = [wr EXCEPT ![p] = IdleWriter]
  /\ UNCHANGED <<version, hidden, entries, clock, rd>>

-----------------------------------------------------------------------------
(* Recalls. *)

\* Disabled and deleted records are invisible to GetRecord and to the queries.
Visible(m) == version[m] # hidden[m]
InScope(m, s) == <<s, RecordScope[m]>> \in Sees

\* The request passed the session check; CurrentScopeVersion reads the token.
StartRecall(p, k, lvl) ==
  /\ rd[p].pc = "idle"
  /\ rd' = [rd EXCEPT ![p] = [IdleReader EXCEPT !.pc = "lookup", !.key = k,
                                !.level = lvl, !.tag = scopeVersion[k.scope],
                                !.base = version]]
  /\ UNCHANGED <<version, hidden, scopeVersion, published, entries, clock, wr>>

\* MUTANT: bounded only looks at the age of the entry.
Usable_ignoresToken(e, lvl, allowStale, tag) ==
  /\ e.tag # -1
  /\ \/ lvl = "bounded" /\ clock - e.cachedAt <= BoundedTTL
     \/ lvl = "eventual" /\ (clock - e.cachedAt <= EventualTTL \/ allowStale)
     \/ lvl = "other"

\* recallCache.Lookup.  Strong bypasses the cache; an unknown level takes the
\* default branch, which serves an entry of any age.
Usable(e, lvl, allowStale, tag) ==
  /\ e.tag # -1
  /\ \/ lvl = "bounded" /\ e.tag = tag /\ clock - e.cachedAt <= BoundedTTL
     \/ lvl = "eventual" /\ (clock - e.cachedAt <= EventualTTL \/ allowStale)
     \/ lvl = "other"

Lookup(p) ==
  /\ rd[p].pc = "lookup"
  /\ LET e == entries[home[p]][rd[p].key] IN
       \/ /\ Usable(e, rd[p].level, rd[p].key.allowStale, rd[p].tag)
          /\ rd[p].level = "bounded"
          /\ rd' = [rd EXCEPT ![p].pc = "validate", ![p].hits = e.hits,
                              ![p].todo = {m \in Records : e.hits[m] # 0}]
       \/ /\ Usable(e, rd[p].level, rd[p].key.allowStale, rd[p].tag)
          /\ rd[p].level # "bounded"
          /\ rd' = [rd EXCEPT ![p].pc = "done", ![p].hits = e.hits,
                              ![p].source = "l1_hit"]
       \/ /\ ~Usable(e, rd[p].level, rd[p].key.allowStale, rd[p].tag)
          /\ rd' = [rd EXCEPT ![p].pc = "candidates"]
  /\ UNCHANGED <<version, hidden, scopeVersion, published, entries, clock, wr>>

\* MUTANT: a cached hit is accepted whenever its record is still visible.
Current_visibleOnly(m, v) == Visible(m)

Current(m, v) == Visible(m) /\ version[m] = v

\* validateBoundedCachedResponse re-reads one cached hit; a record that is
\* gone or has moved on sends the request to the origin.
Validate(p, m) ==
  /\ rd[p].pc = "validate" /\ m \in rd[p].todo
  /\ \/ /\ Current(m, rd[p].hits[m])
        /\ rd' = [rd EXCEPT ![p].todo = @ \ {m}]
     \/ /\ ~Current(m, rd[p].hits[m])
        /\ rd' = [rd EXCEPT ![p].pc = "candidates", ![p].hits = NoHits, ![p].todo = {}]
  /\ UNCHANGED <<version, hidden, scopeVersion, published, entries, clock, wr>>

ValidateDone(p) ==
  /\ rd[p].pc = "validate" /\ rd[p].todo = {}
  /\ rd' = [rd EXCEPT ![p].pc = "done", ![p].source = "l2_hit"]
  /\ UNCHANGED <<version, hidden, scopeVersion, published, entries, clock, wr>>

\* recaller.Recall: the candidate query ...
Candidates(p) ==
  /\ rd[p].pc = "candidates"
  /\ rd' = [rd EXCEPT ![p].pc = "hydrate",
              ![p].todo = {m \in Records : Visible(m) /\ InScope(m, rd[p].key.scope)}]
  /\ UNCHANGED <<version, hidden, scopeVersion, published, entries, clock, wr>>

\* ... and HydrateRecords, one GetRecord per candidate.
Hydrate(p, m) ==
  /\ rd[p].pc = "hydrate" /\ m \in rd[p].todo
  /\ rd' = [rd EXCEPT ![p].todo = @ \ {m},
              ![p].hits[m] = IF Visible(m) THEN version[m] ELSE 0]
  /\ UNCHANGED <<version, hidden, scopeVersion, published, entries, clock, wr>>

\* No record left is ErrNotFound: an empty answer, which is not cached.
HydrateDone(p) ==
  /\ rd[p].pc = "hydrate" /\ rd[p].todo = {}
  /\ rd' = [rd EXCEPT ![p].source = "origin",
              ![p].pc = IF rd[p].hits = NoHits THEN "done" ELSE "fill"]
  /\ UNCHANGED <<version, hidden, scopeVersion, published, entries, clock, wr>>

\* MUTANT: the entry is tagged with the scope version at the time of the fill.
FillTag_late(p) == scopeVersion[rd[p].key.scope]

\* The entry carries the scope version read before the records were.
FillTag(p) == rd[p].tag

\* MUTANT: the entry is dated before the recall.
Fill_backdated(p) ==
  /\ rd[p].pc = "fill"
  /\ rd' = [rd EXCEPT ![p].pc = "done"]
  /\ IF rd[p].level = "strong"
     THEN UNCHANGED entries
     ELSE entries' = [entries EXCEPT ![home[p]][rd[p].key] =
                        [hits |-> rd[p].hits, cachedAt |-> clock - 1, tag |-> FillTag(p)]]
  /\ UNCHANGED <<version, hidden, scopeVersion, published, clock, wr>>

\* MarkAccess, then recallCache.Set unless the level is strong.
Fill(p) ==
  /\ rd[p].pc = "fill"
  /\ rd' = [rd EXCEPT ![p].pc = "done"]
  /\ IF rd[p].level = "strong"
     THEN UNCHANGED entries
     ELSE entries' = [entries EXCEPT ![home[p]][rd[p].key] =
                        [hits |-> rd[p].hits, cachedAt |-> clock, tag |-> FillTag(p)]]
  /\ UNCHANGED <<version, hidden, scopeVersion, published, clock, wr>>

\* The answer is sent.
Respond(p) ==
  /\ rd[p].pc = "done"
  /\ rd' = [rd EXCEPT ![p] = IdleReader]
  /\ UNCHANGED <<version, hidden, scopeVersion, published, entries, clock, wr>>

\* A store read or MarkAccess fails: 503, nothing cached.
Fail(p) ==
  /\ Faults
  /\ rd[p].pc \in {"validate", "candidates", "hydrate", "fill"}
  /\ rd' = [rd EXCEPT ![p] = IdleReader]
  /\ UNCHANGED <<version, hidden, scopeVersion, published, entries, clock, wr>>

Tick ==
  /\ clock < MaxTime
  /\ clock' = clock + 1
  /\ UNCHANGED <<version, hidden, scopeVersion, published, entries, rd, wr>>

ReaderStep(p) ==
  \/ Lookup(p) \/ ValidateDone(p) \/ Candidates(p) \/ HydrateDone(p)
  \/ Fill(p) \/ Respond(p) \/ Fail(p)
  \/ \E m \in Records : Validate(p, m) \/ Hydrate(p, m)

Next ==
  \/ \E p \in Writers, m \in Records, s \in Scopes, visible \in BOOLEAN :
       Commit(p, m, s, visible)
  \/ \E p \in Writers : Invalidate(p) \/ Bump(p)
  \/ \E p \in Readers, k \in Keys, lvl \in Levels : StartRecall(p, k, lvl)
  \/ \E p \in Readers : ReaderStep(p)
  \/ Tick

Spec == Init /\ [][Next]_vars

-----------------------------------------------------------------------------
(* Properties. *)

TypeOK ==
  /\ version \in Hits /\ hidden \in Hits
  /\ scopeVersion \in [Scopes -> Nat]
  /\ published \subseteq [s : Scopes, n : Nat, m : Records, v : Nat]
  /\ entries \in [Replicas -> [Keys -> Entry]]
  /\ clock \in 0..MaxTime
  /\ rd \in [Readers -> Reader]
  /\ wr \in [Writers -> Writer]

\* The hits take version v of record m into account: they hold that version or
\* a later one, or leave the record out and it was hidden at v or later.
Reflects(hits, m, v) ==
  hits[m] >= v \/ (hits[m] = 0 /\ hidden[m] >= v)

\* The hits take into account every mutation announced in scope s up to bump n.
ReflectsUpTo(hits, s, n) ==
  \A b \in published :
    b.s = s /\ b.n <= n /\ InScope(b.m, s) => Reflects(hits, b.m, b.v)

\* A cached entry tagged with scope version n, in any replica, takes into
\* account every mutation of its scope up to bump n, whatever mutations and
\* invalidations overtook the recall that filled it.
EntriesReflectTheirTag ==
  \A r \in Replicas, k \in Keys :
    ReflectsUpTo(entries[r][k].hits, k.scope, entries[r][k].tag)

\* A bounded or strong answer takes into account every mutation announced in
\* its scope when it read the token: in particular it is not missing a record
\* written in that scope, by whatever replica, before the recall began.
AnswersReflectToken ==
  \A p \in Readers :
    rd[p].pc = "done" /\ rd[p].level \in {"bounded", "strong"}
      => ReflectsUpTo(rd[p].hits, rd[p].key.scope, rd[p].tag)

\* No hit of a bounded or strong answer is older than the record was when the
\* recall began, even when it comes from the cache, the record was changed
\* through another scope, or the bump of the scope version was lost.
HitsNotOlderThanRequest ==
  \A p \in Readers, m \in Records :
    /\ rd[p].pc = "done" /\ rd[p].level \in {"bounded", "strong"}
    /\ rd[p].hits[m] # 0
    => rd[p].hits[m] >= rd[p].base[m]
=============================================================================
