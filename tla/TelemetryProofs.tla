-------------------------- MODULE TelemetryProofs --------------------------
(***************************************************************************)
(* Theorems about the two ways the gateway reports on itself.  Telemetry,  *)
(* for any number of requests, buckets and returned records: the counters  *)
(* lose nothing, and a trace is mixed up only where the cache has shared   *)
(* it.  TraceSink: no row of a decision trace is lost without a count.     *)
(***************************************************************************)
EXTENDS Telemetry, TraceSink, TLAPS

TelemetryInv == TypeOK /\ CounterInv /\ ScrapeInv /\ TraceInv

Traced == {"mark", "marking", "respond", "answered"}

\* The fields of a request, and those of a request that has changed.
LEMMA RequestType ==
  ASSUME TypeOK, NEW p \in Recalls
  PROVE  /\ rq[p] \in Request
         /\ rq[p].level \in Levels /\ rq[p].map \in Maps
         /\ rq[p].trace \in Recalls \cup {None}
         /\ rq[p].cell \in Recalls \cup {None}
         /\ \A t \in rq[p].todo : t.map \in Maps /\ t.n \in Nat \ {0}
<1>1. rq[p] \in Request
  BY DEF TypeOK
<1> QED BY <1>1 DEF Request

LEMMA Changed ==
  ASSUME TypeOK, NEW p \in Recalls, NEW q, rq' = [rq EXCEPT ![p] = q]
  PROVE  rq'[p] = q /\ \A x \in Recalls \ {p} : rq'[x] = rq[x]
BY DEF TypeOK

-----------------------------------------------------------------------------
(* The traces. *)

\* Pointers to a trace stay where they are, so what is shared stays shared.
LEMMA StaysShared ==
  ASSUME TypeOK, NEW p \in Recalls, NEW q, rq' = [rq EXCEPT ![p] = q],
         rq[p].trace # None => q.trace = rq[p].trace,
         NEW x \in Recalls, rq[x].trace # None, Shared(x)
  PROVE  Shared(x)'
<1>1. PICK y \in Recalls \ {x} : rq[y].trace = rq[x].trace
  BY DEF Shared
<1>2. rq'[x].trace = rq[x].trace /\ rq'[y].trace = rq[y].trace
  BY <1>1, Changed
<1> QED BY <1>1, <1>2 DEF Shared

\* What holds of the trace of a request is not disturbed by another one, which
\* writes at most where a trace is shared.
LEMMA OtherTrace ==
  ASSUME TypeOK, TraceInv, NEW p \in Recalls, NEW q, rq' = [rq EXCEPT ![p] = q],
         rq[p].trace # None => q.trace = rq[p].trace /\ q.level = rq[p].level,
         NEW x \in Recalls \ {p},
         rq[x].trace = x => trace'[x] = trace[x] \/ Shared(x)
  PROVE  TraceOK(x)'
<1>1. TraceOK(x) /\ rq'[x] = rq[x]
  BY Changed DEF TraceInv
<1>2. rq[x].trace \in Recalls \cup {None}
  BY RequestType
<1>3. rq[x].trace # None /\ Shared(x) => Shared(x)'
  BY StaysShared
<1>4. rq[x].trace # None =>
        /\ rq'[rq[x].trace].trace = rq[x].trace
        /\ rq'[rq[x].trace].level = rq[rq[x].trace].level
  <2>1. SUFFICES ASSUME rq[x].trace # None
                 PROVE  /\ rq'[rq[x].trace].trace = rq[x].trace
                        /\ rq'[rq[x].trace].level = rq[rq[x].trace].level
    OBVIOUS
  <2>2. rq[x].trace \in Recalls /\ rq[rq[x].trace].trace = rq[x].trace
    BY <1>1, <1>2, <2>1 DEF TraceOK
  <2> QED BY <2>1, <2>2, Changed
<1>5. x # None
  BY ConstantsAssumption
<1>6. OwnTrace(x)' = OwnTrace(x)
  BY <1>1 DEF OwnTrace, Mark
<1> QED BY <1>1, <1>3, <1>4, <1>5, <1>6 DEF TraceOK

\* Before a request has a trace, nobody points to a trace of its own.
LEMMA NotYetMade ==
  ASSUME TypeOK, TraceInv, NEW p \in Recalls, rq[p].trace = None
  PROVE  entry # p /\ \A x \in Recalls : rq[x].trace # p
BY ConstantsAssumption DEF TraceInv, TraceOK

\* A step of one request that leaves the counters and a scrape alone.
LEMMA RequestStep ==
  ASSUME TelemetryInv, NEW p \in Recalls, NEW q \in Request,
         rq' = [rq EXCEPT ![p] = q], UNCHANGED <<counters, scrape>>,
         q.adding = "add" => q.cell # None /\ q.cell = cell[q.map][bucketOf[p]],
         rq[p].trace # None => q.trace = rq[p].trace /\ q.level = rq[p].level,
         entry' \in Recalls \cup {None}, trace' \in [Recalls -> Trace],
         \A x \in Recalls \ {p} : rq[x].trace = x => trace'[x] = trace[x] \/ Shared(x),
         entry' # None => rq'[entry'].trace = entry' /\ rq'[entry'].level # "strong",
         TraceOK(p)'
  PROVE  TelemetryInv'
<1> USE DEF TelemetryInv
<1>1. TypeOK'
  BY DEF TypeOK, counters
<1>2. CounterInv'
  <2>1. UNCHANGED <<cell, value, counted>>
    BY DEF counters
  <2>2. ASSUME NEW x \in Recalls, rq'[x].adding = "add"
        PROVE  rq'[x].cell # None /\ rq'[x].cell = cell[rq'[x].map][bucketOf[x]]
    BY <2>2, Changed DEF CounterInv
  <2> QED BY <2>1, <2>2 DEF CounterInv
<1>3. ScrapeInv'
  BY DEF ScrapeInv, Loaded, counters
<1>4. ASSUME NEW x \in Recalls
      PROVE  TraceOK(x)'
  BY OtherTrace
<1>5. TraceInv'
  BY <1>4 DEF TraceInv
<1> QED BY <1>1, <1>2, <1>3, <1>5

\* In particular one that says nothing of a trace.
LEMMA QuietStep ==
  ASSUME TelemetryInv, NEW p \in Recalls, NEW q \in Request,
         rq' = [rq EXCEPT ![p] = q], UNCHANGED <<counters, entry, trace, scrape>>,
         q.adding = "add" => q.cell # None /\ q.cell = cell[q.map][bucketOf[p]],
         q.trace = rq[p].trace, q.reported = rq[p].reported,
         rq[p].trace # None => q.level = rq[p].level,
         q.stage = rq[p].stage \/ (rq[p].stage = "mark" /\ q.stage = "marking")
           \/ (rq[p].stage \notin Traced /\ q.stage \notin Traced)
  PROVE  TelemetryInv'
<1> USE DEF TelemetryInv
<1>1. rq'[p] = q /\ TraceOK(p) /\ p # None /\ rq[p].trace \in Recalls \cup {None}
  BY Changed, RequestType, ConstantsAssumption DEF TraceInv
<1>2. entry' # None => rq'[entry'].trace = entry' /\ rq'[entry'].level # "strong"
  <2>1. CASE entry = p
    BY <1>1, <2>1 DEF TraceInv
  <2>2. CASE entry # p
    BY <2>2, Changed DEF TypeOK, TraceInv
  <2> QED BY <2>1, <2>2
<1>3. rq[p].trace # None /\ Shared(p) => Shared(p)'
  BY StaysShared
<1>4. rq[p].trace # None => rq'[rq[p].trace].trace = rq[p].trace
  BY <1>1, Changed DEF TraceOK
<1>5. rq[p].trace \notin {None, p} => rq'[rq[p].trace].level = rq[rq[p].trace].level
  BY <1>1, Changed
<1>6. q.stage = "answered" => OwnTrace(p)' = OwnTrace(p)
  BY <1>1 DEF OwnTrace, Mark, Traced, TraceOK
<1>7. TraceOK(p)'
  <2>1. (rq[p].trace = None <=> rq[p].stage \notin Traced)
    BY <1>1 DEF TraceOK, Traced
  <2>2. (rq[p].trace = None <=> q.stage \notin Traced)
    BY <2>1 DEF Traced
  <2>3. /\ rq'[p].trace = None <=> rq'[p].stage \notin Traced
        /\ rq'[p].trace = p => rq'[p].stage \in {"respond", "answered"}
    BY <1>1, <2>2 DEF TraceOK, Traced
  <2>4. /\ rq'[p].trace # None => rq'[rq'[p].trace].trace = rq'[p].trace
        /\ rq'[p].trace \notin {None, p} =>
             rq'[p].level # "strong" /\ rq'[rq'[p].trace].level # "strong"
    BY <1>1, <1>4, <1>5 DEF TraceOK
  <2>5. rq'[p].trace = p =>
          trace'[p] = [level |-> rq'[p].level, cache |-> "origin"] \/ Shared(p)'
    BY <1>1, <1>3 DEF TraceOK
  <2>6. rq'[p].stage = "answered" /\ ~OwnTrace(p)' => rq'[p].level # "strong" /\ Shared(p)'
    BY <1>1, <1>3, <1>6, <2>1 DEF TraceOK, Traced
  <2> QED BY <2>3, <2>4, <2>5, <2>6 DEF TraceOK, Traced
<1>8. entry' \in Recalls \cup {None} /\ trace' \in [Recalls -> Trace]
  BY DEF TypeOK
<1> QED BY <1>2, <1>7, <1>8, RequestStep

-----------------------------------------------------------------------------
(* The steps of addBucket. *)

LEMMA FindStep ==
  ASSUME TelemetryInv, NEW p \in Recalls, Find(p)
  PROVE  TelemetryInv'
<1> USE DEF TelemetryInv
<1>1. PICK t \in rq[p].todo :
        LET c == cell[t.map][bucketOf[p]] IN
        rq' = [rq EXCEPT ![p].adding = IF c = None THEN "insert" ELSE "add",
                         ![p].map = t.map, ![p].cell = c]
  BY DEF Find
<1> DEFINE c == cell[t.map][bucketOf[p]]
           q == [rq[p] EXCEPT !.adding = IF c = None THEN "insert" ELSE "add",
                              !.map = t.map, !.cell = c]
<1>2. t.map \in Maps /\ bucketOf[p] \in Buckets /\ c \in Recalls \cup {None}
  BY RequestType, ConstantsAssumption DEF TypeOK
<1>3. rq' = [rq EXCEPT ![p] = q]
  BY <1>1
<1>4. /\ q \in Request
      /\ q.adding = "add" => q.cell # None /\ q.cell = cell[q.map][bucketOf[p]]
      /\ q.trace = rq[p].trace /\ q.reported = rq[p].reported
      /\ q.level = rq[p].level /\ q.stage = rq[p].stage
  BY <1>2, RequestType DEF Request
<1>5. UNCHANGED <<counters, entry, trace, scrape>>
  BY DEF Find
<1> HIDE DEF q, TelemetryInv
<1> QED BY <1>3, <1>4, <1>5, QuietStep

\* A step that counts, or gives a counter its cell, keeps what is said of traces.
LEMMA CountingStep ==
  ASSUME TelemetryInv, NEW p \in Recalls, NEW q \in Request,
         rq' = [rq EXCEPT ![p] = q], UNCHANGED <<entry, trace>>,
         q.trace = rq[p].trace, q.reported = rq[p].reported,
         q.level = rq[p].level, q.stage = rq[p].stage
  PROVE  TraceInv'
<1> USE DEF TelemetryInv
<1>1. ASSUME NEW x \in Recalls
      PROVE  /\ rq'[x].trace = rq[x].trace /\ rq'[x].reported = rq[x].reported
             /\ rq'[x].level = rq[x].level /\ rq'[x].stage = rq[x].stage
  BY Changed
<1>2. ASSUME NEW x \in Recalls
      PROVE  TraceOK(x)'
  <2>1. Shared(x)' = Shared(x) /\ OwnTrace(x)' = OwnTrace(x)
    BY <1>1 DEF Shared, OwnTrace, Mark
  <2>2. TraceOK(x) /\ rq[x].trace \in Recalls \cup {None}
    BY RequestType DEF TraceInv
  <2> QED BY <1>1, <2>1, <2>2 DEF TraceOK
<1> QED BY <1>1, <1>2 DEF TraceInv, TypeOK

LEMMA InsertStep ==
  ASSUME TelemetryInv, NEW p \in Recalls, Insert(p)
  PROVE  TelemetryInv'
<1> USE DEF TelemetryInv
<1> DEFINE m == rq[p].map
           b == bucketOf[p]
           made == IF cell[m][b] = None THEN p ELSE cell[m][b]
           q == [rq[p] EXCEPT !.adding = "add", !.cell = made]
<1>1. m \in Maps /\ b \in Buckets /\ made \in Recalls /\ made # None
  BY RequestType, ConstantsAssumption DEF TypeOK
<1>2. /\ rq' = [rq EXCEPT ![p] = q] /\ cell' = [cell EXCEPT ![m][b] = made]
      /\ UNCHANGED <<value, counted, entry, trace, scrape>>
  BY DEF Insert
<1>3. /\ q \in Request /\ q.adding = "add" /\ q.map = m /\ q.cell = made
      /\ q.trace = rq[p].trace /\ q.reported = rq[p].reported
      /\ q.level = rq[p].level /\ q.stage = rq[p].stage
  BY <1>1, RequestType DEF Request
<1>4. /\ cell' \in [Maps -> [Buckets -> Recalls \cup {None}]] /\ cell'[m][b] = made
      /\ \A n \in Maps, d \in Buckets : cell[n][d] # None => cell'[n][d] = cell[n][d]
      /\ \A n \in Maps, d \in Buckets : <<n, d>> # <<m, b>> => cell'[n][d] = cell[n][d]
  BY <1>1, <1>2 DEF TypeOK
<1> HIDE DEF q, made, m, b
<1>5. TypeOK'
  BY <1>2, <1>3, <1>4 DEF TypeOK
<1>6. TraceInv'
  BY <1>2, <1>3, CountingStep
<1>7. CounterInv'
  <2>1. ASSUME NEW n \in Maps, NEW d \in Buckets
        PROVE  /\ cell'[n][d] # None => value[n][d][cell'[n][d]] = counted[n][d]
               /\ cell'[n][d] = None =>
                    counted[n][d] = 0 /\ \A x \in Recalls : value[n][d][x] = 0
    <3>1. CASE <<n, d>> = <<m, b>>
      BY <1>1, <1>4, <3>1 DEF CounterInv, made
    <3>2. CASE <<n, d>> # <<m, b>>
      BY <1>4, <3>2 DEF CounterInv
    <3> QED BY <3>1, <3>2
  <2>2. ASSUME NEW x \in Recalls, rq'[x].adding = "add"
        PROVE  rq'[x].cell # None /\ rq'[x].cell = cell'[rq'[x].map][bucketOf[x]]
    <3>1. CASE x = p
      <4>1. rq'[x] = q
        BY <1>2, <3>1, Changed
      <4> QED BY <1>1, <1>3, <1>4, <3>1, <4>1 DEF b
    <3>2. CASE x # p
      <4>1. rq'[x] = rq[x] /\ rq[x].map \in Maps /\ bucketOf[x] \in Buckets
        BY <1>2, <3>2, Changed, RequestType, ConstantsAssumption
      <4> QED BY <2>2, <4>1, <1>4 DEF CounterInv
    <3> QED BY <3>1, <3>2
  <2> QED BY <1>2, <2>1, <2>2 DEF CounterInv
<1>8. ScrapeInv'
  BY <1>2 DEF ScrapeInv, Loaded
<1> QED BY <1>5, <1>6, <1>7, <1>8

LEMMA AddStep ==
  ASSUME TelemetryInv, NEW p \in Recalls, Add(p)
  PROVE  TelemetryInv'
<1> USE DEF TelemetryInv
<1>1. PICK t \in {x \in rq[p].todo : x.map = rq[p].map} :
        /\ value' = [value EXCEPT ![t.map][bucketOf[p]][rq[p].cell] = @ + t.n]
        /\ counted' = [counted EXCEPT ![t.map][bucketOf[p]] = @ + t.n]
        /\ rq' = [rq EXCEPT ![p].adding = "no", ![p].map = Idle.map, ![p].cell = None,
                            ![p].todo = @ \ {t}]
  BY DEF Add
<1> DEFINE m == rq[p].map
           b == bucketOf[p]
           c == rq[p].cell
           q == [rq[p] EXCEPT !.adding = "no", !.map = Idle.map, !.cell = None,
                              !.todo = @ \ {t}]
<1>2. /\ m \in Maps /\ b \in Buckets /\ t.map = m /\ t.n \in Nat \ {0}
      /\ c \in Recalls /\ c = cell[m][b] /\ c # None
  BY RequestType, ConstantsAssumption DEF CounterInv, Add
<1>3. /\ rq' = [rq EXCEPT ![p] = q] /\ UNCHANGED <<cell, entry, trace, scrape>>
  BY <1>1 DEF Add
<1>4. /\ q \in Request /\ q.adding = "no"
      /\ q.trace = rq[p].trace /\ q.reported = rq[p].reported
      /\ q.level = rq[p].level /\ q.stage = rq[p].stage
  BY RequestType DEF Request, Idle, Maps
<1>5. /\ counted' \in [Maps -> [Buckets -> Nat]]
      /\ counted'[m][b] = counted[m][b] + t.n
      /\ \A n \in Maps, d \in Buckets : <<n, d>> # <<m, b>> => counted'[n][d] = counted[n][d]
  BY <1>1, <1>2 DEF TypeOK
<1>6. /\ value' \in [Maps -> [Buckets -> [Recalls -> Nat]]]
      /\ value'[m][b][c] = value[m][b][c] + t.n
      /\ \A n \in Maps, d \in Buckets : <<n, d>> # <<m, b>> => value'[n][d] = value[n][d]
  <2> DEFINE w == [value[m][b] EXCEPT ![c] = @ + t.n]
  <2>1. value' = [value EXCEPT ![m][b] = w]
    BY <1>1, <1>2
  <2>2. w \in [Recalls -> Nat] /\ w[c] = value[m][b][c] + t.n
    BY <1>2 DEF TypeOK
  <2> HIDE DEF w, m, b, c
  <2> QED BY <1>2, <2>1, <2>2 DEF TypeOK
<1> HIDE DEF q, m, b, c
<1>7. TypeOK'
  BY <1>3, <1>4, <1>5, <1>6 DEF TypeOK
<1>8. TraceInv'
  BY <1>3, <1>4, CountingStep
<1>9. CounterInv'
  <2>1. ASSUME NEW n \in Maps, NEW d \in Buckets
        PROVE  /\ cell[n][d] # None => value'[n][d][cell[n][d]] = counted'[n][d]
               /\ cell[n][d] = None =>
                    counted'[n][d] = 0 /\ \A x \in Recalls : value'[n][d][x] = 0
    <3>1. CASE <<n, d>> = <<m, b>>
      BY <1>2, <1>5, <1>6, <3>1 DEF CounterInv
    <3>2. CASE <<n, d>> # <<m, b>>
      <4>1. value'[n][d] = value[n][d] /\ counted'[n][d] = counted[n][d]
        BY <1>5, <1>6, <3>2
      <4> QED BY <4>1 DEF CounterInv
    <3> QED BY <3>1, <3>2
  <2>2. ASSUME NEW x \in Recalls, rq'[x].adding = "add"
        PROVE  rq'[x].cell # None /\ rq'[x].cell = cell[rq'[x].map][bucketOf[x]]
    BY <1>3, <1>4, <2>2, Changed DEF CounterInv
  <2> QED BY <1>3, <2>1, <2>2 DEF CounterInv
<1>10. ScrapeInv'
  <2>1. ASSUME NEW n \in Maps, NEW d \in Buckets
        PROVE  counted[n][d] \in Nat /\ counted'[n][d] \in Nat /\ counted[n][d] <= counted'[n][d]
    <3>1. CASE <<n, d>> = <<m, b>>
      BY <1>2, <1>5, <3>1 DEF TypeOK
    <3>2. CASE <<n, d>> # <<m, b>>
      BY <1>5, <3>2 DEF TypeOK
    <3> QED BY <3>1, <3>2
  <2>2. ASSUME NEW d \in Buckets
        PROVE  scrape.map \in Maps /\ scrape.lo[d] \in Nat /\ scrape.val[d] \in Nat
    BY DEF TypeOK, Scrape
  <2>3. ASSUME NEW d \in Buckets
        PROVE  /\ scrape.lo[d] <= counted'[scrape.map][d]
               /\ Loaded(d) =>
                    scrape.lo[d] <= scrape.val[d] /\ scrape.val[d] <= counted'[scrape.map][d]
    <3>1. scrape.map \in Maps /\ scrape.lo[d] \in Nat /\ scrape.val[d] \in Nat
      BY <2>2
    <3>2. /\ counted[scrape.map][d] \in Nat /\ counted'[scrape.map][d] \in Nat
          /\ counted[scrape.map][d] <= counted'[scrape.map][d]
      BY <2>1, <3>1
    <3> QED BY <3>1, <3>2 DEF ScrapeInv
  <2> QED BY <1>3, <2>3 DEF ScrapeInv, Loaded
<1> QED BY <1>7, <1>8, <1>9, <1>10

-----------------------------------------------------------------------------
(* The steps of a recall. *)

\* A step to another stage, with more to count or at another level.
LEMMA Proceed ==
  ASSUME TelemetryInv, NEW p \in Recalls, NEW s \in Stages, NEW l \in Levels,
         NEW adds \in SUBSET [map : Maps, n : Nat \ {0}],
         rq' = [rq EXCEPT ![p] = [rq[p] EXCEPT !.stage = s, !.level = l, !.todo = adds]],
         UNCHANGED <<counters, entry, trace, scrape>>,
         rq[p].trace # None => l = rq[p].level,
         (rq[p].stage = "mark" /\ s = "marking") \/ (rq[p].stage \notin Traced /\ s \notin Traced)
  PROVE  TelemetryInv'
<1> DEFINE q == [rq[p] EXCEPT !.stage = s, !.level = l, !.todo = adds]
<1>1. rq[p] \in Request
  BY DEF TelemetryInv, TypeOK
<1>2. /\ q \in Request /\ q.stage = s /\ q.level = l
      /\ q.adding = rq[p].adding /\ q.cell = rq[p].cell /\ q.map = rq[p].map
      /\ q.trace = rq[p].trace /\ q.reported = rq[p].reported
  BY <1>1 DEF Request
<1>3. rq' = [rq EXCEPT ![p] = q]
  OBVIOUS
<1> HIDE DEF q
<1>4. q.adding = "add" => q.cell # None /\ q.cell = cell[q.map][bucketOf[p]]
  BY <1>2 DEF TelemetryInv, CounterInv
<1> QED BY <1>2, <1>3, <1>4, QuietStep

\* Count and Goto are such steps.
LEMMA CountStep ==
  ASSUME TelemetryInv, NEW p \in Recalls, NEW s \in Stages,
         NEW adds \in SUBSET [map : Maps, n : Nat \ {0}],
         Count(p, s, adds) \/ (Goto(p, s) /\ adds = rq[p].todo),
         UNCHANGED <<counters, entry, trace, scrape>>,
         (rq[p].stage = "mark" /\ s = "marking") \/ (rq[p].stage \notin Traced /\ s \notin Traced)
  PROVE  TelemetryInv'
<1>1. rq[p] \in Request /\ rq[p].level \in Levels
  BY RequestType DEF TelemetryInv
<1>2. rq' = [rq EXCEPT ![p] = [rq[p] EXCEPT !.stage = s, !.level = rq[p].level, !.todo = adds]]
  <2>1. CASE Count(p, s, adds)
    <3>1. rq' = [rq EXCEPT ![p] = [rq[p] EXCEPT !.stage = s, !.todo = adds]]
      BY <2>1 DEF Count
    <3>2. [rq[p] EXCEPT !.stage = s, !.todo = adds]
            = [rq[p] EXCEPT !.stage = s, !.level = rq[p].level, !.todo = adds]
      BY <1>1 DEF Request
    <3> QED BY <3>1, <3>2
  <2>2. CASE Goto(p, s) /\ adds = rq[p].todo
    <3>1. rq' = [rq EXCEPT ![p] = [rq[p] EXCEPT !.stage = s]]
      BY <2>2 DEF Goto
    <3>2. [rq[p] EXCEPT !.stage = s]
            = [rq[p] EXCEPT !.stage = s, !.level = rq[p].level, !.todo = adds]
      BY <1>1, <2>2 DEF Request
    <3> QED BY <3>1, <3>2
  <2> QED BY <2>1, <2>2
<1> QED BY <1>1, <1>2, Proceed

LEMMA StartStep ==
  ASSUME TelemetryInv, NEW p \in Recalls, NEW l \in Levels, Start(p, l)
  PROVE  TelemetryInv'
<1>1. rq[p] \in Request /\ rq[p].todo = {} /\ rq[p].stage = "idle" /\ rq[p].trace = None
  BY RequestType DEF TelemetryInv, TraceInv, TraceOK, Start, At
<1>2. rq' = [rq EXCEPT ![p] = [rq[p] EXCEPT !.stage = "lookup", !.level = l, !.todo = {}]]
  <2>1. rq' = [rq EXCEPT ![p] = [rq[p] EXCEPT !.stage = "lookup", !.level = l]]
    BY DEF Start
  <2>2. [rq[p] EXCEPT !.stage = "lookup", !.level = l]
          = [rq[p] EXCEPT !.stage = "lookup", !.level = l, !.todo = {}]
    BY <1>1 DEF Request
  <2> QED BY <2>1, <2>2
<1>3. "lookup" \in Stages /\ {} \in SUBSET [map : Maps, n : Nat \ {0}]
  BY DEF Stages
<1>4. UNCHANGED <<counters, entry, trace, scrape>>
  BY DEF Start
<1> QED BY <1>1, <1>2, <1>3, <1>4, Proceed DEF Traced

\* A hit takes the trace of the entry, which its maker keeps.
LEMMA HitStep ==
  ASSUME TelemetryInv, NEW p \in Recalls, At(p, "lookup"),
         rq[p].level # "strong", entry # None,
         rq' = [rq EXCEPT ![p].stage = "mark", ![p].trace = entry],
         UNCHANGED <<counters, entry, trace, scrape>>
  PROVE  TelemetryInv'
<1> USE DEF TelemetryInv
<1> DEFINE q == [rq[p] EXCEPT !.stage = "mark", !.trace = entry]
<1>1. /\ rq[p] \in Request /\ rq[p].trace = None /\ p # None
      /\ entry \in Recalls /\ rq[entry].trace = entry /\ rq[entry].level # "strong"
  BY RequestType, ConstantsAssumption DEF TypeOK, TraceInv, TraceOK, At
<1>2. /\ q \in Request /\ q.stage = "mark" /\ q.trace = entry /\ q.level = rq[p].level
      /\ q.adding = rq[p].adding /\ q.cell = rq[p].cell /\ q.map = rq[p].map
  BY <1>1 DEF Request, Stages
<1>3. rq' = [rq EXCEPT ![p] = q]
  OBVIOUS
<1> HIDE DEF q
<1>4. rq'[p] = q /\ entry # p /\ rq'[entry] = rq[entry]
  BY <1>1, <1>3, Changed
<1>5. TraceOK(p)'
  BY <1>1, <1>2, <1>4 DEF TraceOK
<1>6. q.adding = "add" => q.cell # None /\ q.cell = cell[q.map][bucketOf[p]]
  BY <1>2 DEF CounterInv
<1>7. trace' \in [Recalls -> Trace] /\ entry' \in Recalls \cup {None}
  BY DEF TypeOK
<1>8. /\ rq[p].trace # None => q.trace = rq[p].trace /\ q.level = rq[p].level
      /\ \A x \in Recalls \ {p} : rq[x].trace = x => trace'[x] = trace[x] \/ Shared(x)
      /\ entry' # None => rq'[entry'].trace = entry' /\ rq'[entry'].level # "strong"
      /\ UNCHANGED <<counters, scrape>>
  BY <1>1, <1>4
<1> HIDE DEF TelemetryInv
<1> QED BY <1>2, <1>3, <1>5, <1>6, <1>7, <1>8, RequestStep

LEMMA LookupStep ==
  ASSUME TelemetryInv, NEW p \in Recalls, Lookup(p)
  PROVE  TelemetryInv'
<1>1. /\ At(p, "lookup") /\ UNCHANGED <<counters, entry, trace, scrape>>
      /\ {One("request")} \in SUBSET [map : Maps, n : Nat \ {0}]
      /\ rq[p].todo \in SUBSET [map : Maps, n : Nat \ {0}]
      /\ "embed" \in Stages /\ "search" \in Stages /\ "traceless" \in Stages
  BY RequestType DEF Lookup, One, Maps, Stages, TelemetryInv, At
<1>2. CASE rq[p].level # "strong" /\ entry # None
             /\ rq' = [rq EXCEPT ![p].stage = "mark", ![p].trace = entry]
  BY <1>1, <1>2, HitStep
<1>3. CASE Count(p, "embed", {One("request")})
  BY <1>1, <1>3, CountStep DEF At, Traced
<1>4. CASE Goto(p, "traceless")
  BY <1>1, <1>4, CountStep DEF At, Traced
<1>5. CASE Goto(p, "search")
  BY <1>1, <1>5, CountStep DEF At, Traced
<1> QED BY <1>2, <1>3, <1>4, <1>5 DEF Lookup

LEMMA EmbedStep ==
  ASSUME TelemetryInv, NEW p \in Recalls, Embed(p)
  PROVE  TelemetryInv'
<1>1. /\ At(p, "embed") /\ UNCHANGED <<counters, entry, trace, scrape>>
      /\ {One("applied")} \in SUBSET [map : Maps, n : Nat \ {0}]
      /\ rq[p].todo \in SUBSET [map : Maps, n : Nat \ {0}]
      /\ "search" \in Stages /\ "traceless" \in Stages
  BY DEF Embed, One, Maps, Stages, At
<1>2. CASE Count(p, "search", {One("applied")})
  BY <1>1, <1>2, CountStep DEF At, Traced
<1>3. CASE Goto(p, "traceless")
  BY <1>1, <1>3, CountStep DEF At, Traced
<1> QED BY <1>2, <1>3 DEF Embed

LEMMA SearchStep ==
  ASSUME TelemetryInv, NEW p \in Recalls, Search(p)
  PROVE  TelemetryInv'
<1>1. /\ At(p, "search") /\ UNCHANGED <<counters, entry, trace, scrape>>
      /\ rq[p].todo \in SUBSET [map : Maps, n : Nat \ {0}]
      /\ "trace" \in Stages /\ "traceless" \in Stages
  BY DEF Search, Stages, At
<1>2. ASSUME NEW r \in 1..MaxReturned, NEW s \in 0..r,
             Count(p, "trace", {x \in {[map |-> "returned", n |-> r],
                                       [map |-> "selected", n |-> s]} : x.n > 0})
      PROVE  TelemetryInv'
  <2> DEFINE adds == {x \in {[map |-> "returned", n |-> r],
                             [map |-> "selected", n |-> s]} : x.n > 0}
  <2>1. adds \in SUBSET [map : Maps, n : Nat \ {0}]
    BY ConstantsAssumption DEF Maps
  <2> HIDE DEF adds
  <2> QED BY <1>1, <1>2, <2>1, CountStep DEF At, Traced, adds
<1>3. CASE Goto(p, "traceless")
  BY <1>1, <1>3, CountStep DEF At, Traced
<1> QED BY <1>2, <1>3 DEF Search

LEMMA MarkBeginStep ==
  ASSUME TelemetryInv, NEW p \in Recalls, MarkBegin(p)
  PROVE  TelemetryInv'
<1>1. /\ At(p, "mark") /\ Goto(p, "marking") /\ UNCHANGED <<counters, entry, trace, scrape>>
      /\ rq[p].todo \in SUBSET [map : Maps, n : Nat \ {0}] /\ "marking" \in Stages
  BY DEF MarkBegin, Stages, At
<1> QED BY <1>1, CountStep DEF At

\* Nobody points to the trace a request makes before it is made.
LEMMA MakeTraceStep ==
  ASSUME TelemetryInv, NEW p \in Recalls, MakeTrace(p)
  PROVE  TelemetryInv'
<1> USE DEF TelemetryInv
<1> DEFINE q == [rq[p] EXCEPT !.stage = "respond", !.trace = p]
           made == [level |-> rq[p].level, cache |-> "origin"]
<1>1. /\ rq[p] \in Request /\ rq[p].level \in Levels /\ rq[p].trace = None /\ p # None
      /\ rq[p].stage = "trace"
  BY RequestType, ConstantsAssumption DEF TypeOK, TraceInv, TraceOK, MakeTrace, At
<1>2. /\ q \in Request /\ q.stage = "respond" /\ q.trace = p /\ q.level = rq[p].level
      /\ q.adding = rq[p].adding /\ q.cell = rq[p].cell /\ q.map = rq[p].map
  BY <1>1 DEF Request, Stages
<1>3. /\ rq' = [rq EXCEPT ![p] = q] /\ UNCHANGED <<counters, scrape>>
      /\ trace' = [trace EXCEPT ![p] = made]
      /\ entry' = IF rq[p].level = "strong" THEN entry ELSE p
  BY DEF MakeTrace
<1>4. made \in Trace
  BY <1>1 DEF Trace, CacheLevels
<1> HIDE DEF q
<1>5. /\ trace' \in [Recalls -> Trace] /\ trace'[p] = made
      /\ \A x \in Recalls \ {p} : trace'[x] = trace[x]
  BY <1>3, <1>4 DEF TypeOK
<1>6. rq'[p] = q /\ \A x \in Recalls \ {p} : rq'[x] = rq[x]
  BY <1>3, Changed
<1>7. TraceOK(p)'
  BY <1>1, <1>2, <1>5, <1>6 DEF TraceOK
<1>8. q.adding = "add" => q.cell # None /\ q.cell = cell[q.map][bucketOf[p]]
  BY <1>2 DEF CounterInv
<1>9. /\ entry' \in Recalls \cup {None}
      /\ entry' # None => rq'[entry'].trace = entry' /\ rq'[entry'].level # "strong"
  <2>1. CASE rq[p].level = "strong"
    <3>1. entry' = entry /\ entry # p /\ entry \in Recalls \cup {None}
      BY <1>1, <1>3, <2>1, NotYetMade DEF TypeOK
    <3> QED BY <1>6, <3>1 DEF TraceInv
  <2>2. CASE rq[p].level # "strong"
    BY <1>2, <1>3, <1>6, <2>2
  <2> QED BY <2>1, <2>2
<1>10. /\ rq[p].trace # None => q.trace = rq[p].trace /\ q.level = rq[p].level
       /\ \A x \in Recalls \ {p} : rq[x].trace = x => trace'[x] = trace[x] \/ Shared(x)
  BY <1>1, <1>5
<1> HIDE DEF TelemetryInv
<1> QED BY <1>2, <1>3, <1>5, <1>7, <1>8, <1>9, <1>10, RequestStep

\* A hit writes into a trace that its maker has as well.
LEMMA MarkEndStep ==
  ASSUME TelemetryInv, NEW p \in Recalls, MarkEnd(p)
  PROVE  TelemetryInv'
<1> USE DEF TelemetryInv
<1> DEFINE q == [rq[p] EXCEPT !.stage = "respond"]
           c == rq[p].trace
<1>1. /\ rq[p] \in Request /\ rq[p].level \in Levels /\ rq[p].stage = "marking"
      /\ c \in Recalls \cup {None} /\ TraceOK(p) /\ p # None
  BY RequestType, ConstantsAssumption DEF TypeOK, TraceInv, MarkEnd, At
<1>2. /\ c \in Recalls /\ c # p /\ c # None /\ rq[c].trace = c
      /\ rq[p].level # "strong" /\ rq[c].level # "strong"
  BY <1>1 DEF TraceOK
<1>3. /\ q \in Request /\ q.stage = "respond" /\ q.trace = c /\ q.level = rq[p].level
      /\ q.adding = rq[p].adding /\ q.cell = rq[p].cell /\ q.map = rq[p].map
  BY <1>1 DEF Request, Stages
<1>4. /\ rq' = [rq EXCEPT ![p] = q] /\ UNCHANGED <<counters, entry, scrape>>
      /\ trace' = [trace EXCEPT ![c] = Mark(p)]
  BY DEF MarkEnd, Goto
<1>5. Mark(p) \in Trace
  BY <1>1 DEF Mark, Trace, CacheLevels
<1> HIDE DEF q, c
<1>6. /\ trace' \in [Recalls -> Trace] /\ \A x \in Recalls \ {c} : trace'[x] = trace[x]
  BY <1>2, <1>4, <1>5 DEF TypeOK
<1>7. rq'[p] = q /\ \A x \in Recalls \ {p} : rq'[x] = rq[x]
  BY <1>4, Changed
<1>8. TraceOK(p)'
  BY <1>1, <1>2, <1>3, <1>7 DEF TraceOK
<1>9. q.adding = "add" => q.cell # None /\ q.cell = cell[q.map][bucketOf[p]]
  BY <1>3 DEF CounterInv
<1>10. /\ entry' \in Recalls \cup {None}
       /\ entry' # None => rq'[entry'].trace = entry' /\ rq'[entry'].level # "strong"
  <2>1. entry' = entry /\ entry \in Recalls \cup {None}
    BY <1>4 DEF TypeOK
  <2>2. entry # p
    BY <1>1, <1>2 DEF TraceInv, c
  <2> QED BY <1>7, <2>1, <2>2 DEF TraceInv
<1>11. Shared(c)
  BY <1>2 DEF Shared, c
<1>12. /\ rq[p].trace # None => q.trace = rq[p].trace /\ q.level = rq[p].level
       /\ \A x \in Recalls \ {p} : rq[x].trace = x => trace'[x] = trace[x] \/ Shared(x)
  BY <1>3, <1>6, <1>11 DEF c
<1> HIDE DEF TelemetryInv
<1> QED BY <1>3, <1>4, <1>6, <1>8, <1>9, <1>10, <1>12, RequestStep

\* What is read from a trace is a trace; while nobody else has it, it is the
\* trace its maker made, since only others write it.
LEMMA SeenTrace ==
  ASSUME TypeOK, TraceInv, NEW p \in Recalls, rq[p].stage = "respond",
         NEW t \in Seen(rq[p].trace)
  PROVE  /\ t \in Trace
         /\ t = [level |-> rq[p].level, cache |-> "origin"]
              \/ (rq[p].level # "strong" /\ Shared(p))
<1> DEFINE c == rq[p].trace
           W == {x \in Recalls : rq[x].stage = "marking" /\ rq[x].trace = c}
<1>1. TraceOK(p) /\ p # None /\ c \in Recalls \cup {None}
  BY RequestType, ConstantsAssumption DEF TraceInv
<1>2. c \in Recalls /\ c # None /\ rq[c].trace = c /\ trace[c] \in Trace
  BY <1>1 DEF TraceOK, TypeOK
<1>3. t \in [level : {trace[c].level} \cup {Mark(x).level : x \in W}
                     \cup (IF W = {} THEN {} ELSE {"torn"}),
             cache : {trace[c].cache} \cup {Mark(x).cache : x \in W}]
  BY DEF Seen
<1>4. \A x \in Recalls : Mark(x) \in Trace
  BY RequestType DEF Mark, Trace, CacheLevels
<1>5. trace[c].level \in Levels \cup {"torn"} /\ trace[c].cache \in CacheLevels
  BY <1>2 DEF Trace
<1>6. \A x \in Recalls : Mark(x).level \in Levels \cup {"torn"} /\ Mark(x).cache \in CacheLevels
  BY <1>4 DEF Trace
<1>7. t \in Trace
  <2> HIDE DEF c
  <2> QED BY <1>3, <1>5, <1>6 DEF Trace
<1>8. CASE c # p
  <2>1. rq[p].level # "strong" /\ Shared(p)
    BY <1>1, <1>2, <1>8 DEF TraceOK, Shared
  <2> QED BY <1>7, <2>1
<1>9. CASE c = p /\ Shared(p)
  <2>1. PICK x \in Recalls \ {p} : rq[x].trace = c
    BY <1>9 DEF Shared
  <2>2. rq[p].level # "strong"
    BY <1>1, <1>9, <2>1 DEF TraceInv, TraceOK
  <2> QED BY <1>7, <1>9, <2>2
<1>10. CASE c = p /\ ~Shared(p)
  <2>1. W = {}
    BY <1>10 DEF Shared
  <2>2. trace[p] = [level |-> rq[p].level, cache |-> "origin"]
    BY <1>1, <1>10 DEF TraceOK
  <2>3. t \in [level : {rq[p].level}, cache : {"origin"}]
    <3>1. {Mark(x).level : x \in W} = {} /\ {Mark(x).cache : x \in W} = {}
      BY <2>1
    <3>2. trace[c].level = rq[p].level /\ trace[c].cache = "origin"
      BY <1>10, <2>2
    <3> HIDE DEF c
    <3> QED BY <1>3, <2>1, <3>1, <3>2
  <2>4. t = [level |-> rq[p].level, cache |-> "origin"]
    BY <2>3
  <2> QED BY <1>7, <2>4
<1> QED BY <1>8, <1>9, <1>10

LEMMA RespondStep ==
  ASSUME TelemetryInv, NEW p \in Recalls, Respond(p)
  PROVE  TelemetryInv'
<1> USE DEF TelemetryInv
<1>1. PICK t \in Seen(rq[p].trace) :
        rq' = [rq EXCEPT ![p].stage = "answered", ![p].reported = t]
  BY DEF Respond
<1> DEFINE q == [rq[p] EXCEPT !.stage = "answered", !.reported = t]
<1>2. /\ rq[p] \in Request /\ rq[p].stage = "respond" /\ TraceOK(p) /\ p # None
      /\ rq[p].trace \in Recalls \cup {None}
  BY RequestType, ConstantsAssumption DEF TraceInv, Respond, At
<1>3. /\ t \in Trace
      /\ t = [level |-> rq[p].level, cache |-> "origin"]
           \/ (rq[p].level # "strong" /\ Shared(p))
  BY <1>2, SeenTrace
<1>4. /\ q \in Request /\ q.stage = "answered" /\ q.trace = rq[p].trace
      /\ q.level = rq[p].level /\ q.reported = t
      /\ q.adding = rq[p].adding /\ q.cell = rq[p].cell /\ q.map = rq[p].map
  BY <1>2, <1>3 DEF Request, Stages
<1>5. rq' = [rq EXCEPT ![p] = q] /\ UNCHANGED <<counters, entry, trace, scrape>>
  BY <1>1 DEF Respond
<1> HIDE DEF q
<1>6. rq'[p] = q /\ \A x \in Recalls \ {p} : rq'[x] = rq[x]
  BY <1>5, Changed
<1>7. rq[p].trace \in Recalls /\ rq[p].trace # None
  BY <1>2 DEF TraceOK
<1>8. Shared(p) => Shared(p)'
  BY <1>4, <1>5, <1>7, StaysShared
<1>9. OwnTrace(p)' \/ (rq[p].level # "strong" /\ Shared(p)')
  BY <1>3, <1>4, <1>6, <1>8 DEF OwnTrace
<1>10. rq'[rq[p].trace].trace = rq[p].trace /\ rq'[rq[p].trace].level = rq[rq[p].trace].level
  BY <1>2, <1>4, <1>6, <1>7 DEF TraceOK
<1>11. rq'[p].trace = p =>
         trace'[p] = [level |-> rq'[p].level, cache |-> "origin"] \/ Shared(p)'
  BY <1>2, <1>4, <1>5, <1>6, <1>8 DEF TraceOK
<1>12. TraceOK(p)'
  <2>1. rq'[p].trace \notin {None, p} =>
          rq'[p].level # "strong" /\ rq'[rq'[p].trace].level # "strong"
    BY <1>2, <1>4, <1>6, <1>10 DEF TraceOK
  <2> QED BY <1>4, <1>6, <1>7, <1>9, <1>10, <1>11, <2>1 DEF TraceOK
<1>13. q.adding = "add" => q.cell # None /\ q.cell = cell[q.map][bucketOf[p]]
  BY <1>4 DEF CounterInv
<1>14. /\ entry' \in Recalls \cup {None} /\ trace' \in [Recalls -> Trace]
       /\ entry' # None => rq'[entry'].trace = entry' /\ rq'[entry'].level # "strong"
  BY <1>4, <1>5, <1>6 DEF TypeOK, TraceInv
<1>15. /\ rq[p].trace # None => q.trace = rq[p].trace /\ q.level = rq[p].level
       /\ \A x \in Recalls \ {p} : rq[x].trace = x => trace'[x] = trace[x] \/ Shared(x)
       /\ UNCHANGED <<counters, scrape>>
  BY <1>4, <1>5
<1> HIDE DEF TelemetryInv
<1> QED BY <1>4, <1>5, <1>12, <1>13, <1>14, <1>15, RequestStep

-----------------------------------------------------------------------------
(* The steps of a scrape, and of a mutation. *)

LEMMA InvalidateStep ==
  ASSUME TelemetryInv, Invalidate
  PROVE  TelemetryInv'
<1> USE DEF TelemetryInv
<1>1. UNCHANGED <<cell, value, counted, rq, trace, scrape>> /\ entry' = None
  BY DEF Invalidate, counters
<1>2. TypeOK' /\ CounterInv' /\ ScrapeInv'
  BY <1>1 DEF TypeOK, CounterInv, ScrapeInv, Loaded
<1>3. ASSUME NEW x \in Recalls
      PROVE  TraceOK(x)'
  BY <1>1 DEF TraceInv, TraceOK, Shared, OwnTrace, Mark
<1> QED BY <1>1, <1>2, <1>3 DEF TraceInv

\* What is loaded is what has been counted so far, and not less than at the
\* beginning.
LEMMA ScrapeStep ==
  ASSUME TelemetryInv, \/ \E m \in Maps : ScrapeBegin(m)
                       \/ \E b \in Buckets : ScrapeLoad(b)
                       \/ ScrapeEnd
  PROVE  TelemetryInv'
<1> USE DEF TelemetryInv
<1>1. UNCHANGED <<cell, value, counted, rq, entry, trace>>
  BY DEF ScrapeBegin, ScrapeLoad, ScrapeEnd, counters, recalls
<1>2. CounterInv'
  BY <1>1 DEF CounterInv
<1>3. ASSUME NEW x \in Recalls
      PROVE  TraceOK(x)'
  BY <1>1 DEF TraceInv, TraceOK, Shared, OwnTrace, Mark
<1>4. TraceInv'
  BY <1>1, <1>3 DEF TraceInv
<1>5. \A n \in Maps, b \in Buckets : counted[n][b] \in Nat
  BY DEF TypeOK
<1>6. ASSUME NEW m \in Maps, ScrapeBegin(m)
      PROVE  TypeOK' /\ ScrapeInv'
  <2>1. /\ scrape'.pc = "locked" /\ scrape'.map = m /\ scrape'.lo = counted[m]
        /\ scrape'.left = Buckets /\ scrape' \in Scrape
    BY <1>6 DEF ScrapeBegin, TypeOK, Scrape
  <2>2. TypeOK'
    BY <1>1, <2>1 DEF TypeOK
  <2>3. ScrapeInv'
    BY <1>1, <1>5, <2>1 DEF ScrapeInv, Loaded
  <2> QED BY <2>2, <2>3
<1>7. ASSUME NEW b \in Buckets, ScrapeLoad(b)
      PROVE  TypeOK' /\ ScrapeInv'
  <2>1. /\ scrape.map \in Maps /\ scrape.lo \in [Buckets -> Nat]
        /\ scrape.val \in [Buckets -> Nat] /\ scrape.left \subseteq Buckets
        /\ scrape.pc = "locked" /\ scrape \in Scrape
    BY <1>7 DEF TypeOK, Scrape, ScrapeLoad
  <2> DEFINE n == counted[scrape.map][b]
  <2>2. n \in Nat /\ scrape' = [scrape EXCEPT !.left = @ \ {b}, !.val[b] = n]
    BY <1>5, <1>7, <2>1 DEF ScrapeLoad, CounterInv
  <2> HIDE DEF n
  <2>3. /\ scrape'.pc = "locked" /\ scrape'.map = scrape.map /\ scrape'.lo = scrape.lo
        /\ scrape'.left = scrape.left \ {b} /\ scrape' \in Scrape
        /\ scrape'.val = [scrape.val EXCEPT ![b] = n]
    BY <2>1, <2>2 DEF Scrape
  <2>4. TypeOK'
    BY <1>1, <2>3 DEF TypeOK
  <2>5. ASSUME NEW d \in Buckets
        PROVE  /\ scrape.lo[d] <= counted[scrape.map][d]
               /\ d \notin scrape.left \ {b} =>
                    /\ scrape.lo[d] <= scrape'.val[d]
                    /\ scrape'.val[d] <= counted[scrape.map][d]
    <3>1. CASE d = b
      BY <1>5, <2>1, <2>2, <2>3, <3>1 DEF ScrapeInv, n
    <3>2. CASE d # b
      <4>1. scrape'.val[d] = scrape.val[d]
        BY <2>1, <2>3, <3>2
      <4> QED BY <2>1, <3>2, <4>1 DEF ScrapeInv, Loaded
    <3> QED BY <3>1, <3>2
  <2>6. ScrapeInv'
    BY <1>1, <2>3, <2>5 DEF ScrapeInv, Loaded
  <2> QED BY <2>4, <2>6
<1>8. CASE ScrapeEnd
  <2>1. /\ scrape.pc = "locked" /\ scrape.left = {} /\ scrape'.pc = "done"
        /\ scrape'.map = scrape.map /\ scrape'.lo = scrape.lo /\ scrape'.val = scrape.val
        /\ scrape' \in Scrape
    BY <1>8 DEF ScrapeEnd, TypeOK, Scrape
  <2>2. TypeOK' /\ ScrapeInv'
    BY <1>1, <2>1 DEF TypeOK, ScrapeInv, Loaded
  <2> QED BY <1>2, <1>4, <2>2
<1> QED BY <1>2, <1>4, <1>6, <1>7, <1>8

-----------------------------------------------------------------------------
(* The invariant. *)

LEMMA TelemetryInitial ==
  ASSUME Init
  PROVE  TelemetryInv
<1>1. Idle \in Request /\ FreshTrace \in Trace
  BY DEF Idle, Request, Stages, Levels, Maps, FreshTrace, Trace, CacheLevels
<1>2. \A p \in Recalls : rq[p] = Idle
  BY DEF Init
<1>3. Idle.stage = "idle" /\ Idle.adding = "no" /\ Idle.trace = None
  BY DEF Idle
<1>4. "request" \in Maps
  BY DEF Maps
<1>5. TypeOK
  <2>1. rq \in [Recalls -> Request] /\ trace \in [Recalls -> Trace] /\ entry \in Recalls \cup {None}
    BY <1>1 DEF Init
  <2>2. /\ cell \in [Maps -> [Buckets -> Recalls \cup {None}]]
        /\ value \in [Maps -> [Buckets -> [Recalls -> Nat]]]
        /\ counted \in [Maps -> [Buckets -> Nat]]
    BY DEF Init
  <2>3. scrape \in Scrape
    BY <1>4 DEF Init, Scrape
  <2> QED BY <2>1, <2>2, <2>3 DEF TypeOK
<1>6. CounterInv
  <2>1. ASSUME NEW m \in Maps, NEW b \in Buckets
        PROVE  /\ cell[m][b] = None /\ counted[m][b] = 0
               /\ \A p \in Recalls : value[m][b][p] = 0
    BY DEF Init
  <2> QED BY <1>2, <1>3, <2>1 DEF CounterInv
<1>7. ScrapeInv
  <2>1. /\ scrape.pc = "none" /\ scrape.map \in Maps
        /\ \A b \in Buckets : scrape.lo[b] = 0
        /\ \A m \in Maps, b \in Buckets : counted[m][b] = 0
    BY <1>4 DEF Init
  <2> QED BY <2>1 DEF ScrapeInv, Loaded
<1>8. TraceInv
  <2>1. ASSUME NEW p \in Recalls
        PROVE  TraceOK(p)
    BY <1>2, <1>3, ConstantsAssumption DEF TraceOK
  <2> QED BY <2>1 DEF TraceInv, Init
<1> QED BY <1>5, <1>6, <1>7, <1>8 DEF TelemetryInv

LEMMA TelemetryStep ==
  ASSUME TelemetryInv, [Next]_vars
  PROVE  TelemetryInv'
<1>1. CASE Next
  <2>1. ASSUME NEW p \in Recalls, RecallStep(p)
        PROVE  TelemetryInv'
    BY <2>1, FindStep, InsertStep, AddStep, LookupStep, EmbedStep, SearchStep,
       MakeTraceStep, MarkBeginStep, MarkEndStep, RespondStep DEF RecallStep
  <2> QED BY <1>1, <2>1, StartStep, InvalidateStep, ScrapeStep DEF Next
<1>2. CASE UNCHANGED vars
  <2>1. UNCHANGED <<cell, value, counted, rq, entry, trace, scrape>>
    BY <1>2 DEF vars, counters, recalls
  <2>2. TypeOK' /\ CounterInv' /\ ScrapeInv'
    BY <2>1 DEF TelemetryInv, TypeOK, CounterInv, ScrapeInv, Loaded
  <2>3. ASSUME NEW x \in Recalls
        PROVE  TraceOK(x)'
    BY <2>1 DEF TelemetryInv, TraceInv, TraceOK, Shared, OwnTrace, Mark
  <2> QED BY <2>1, <2>2, <2>3 DEF TelemetryInv, TraceInv
<1> QED BY <1>1, <1>2

LEMMA TelemetryInvariant == Spec => []TelemetryInv
BY TelemetryInitial, TelemetryStep, PTL DEF Spec

-----------------------------------------------------------------------------
(* The theorems. *)

\* The state of the registry and of the recalls always has its type.
THEOREM TypeCorrect == Spec => []TypeOK
<1>1. TelemetryInv => TypeOK
  BY DEF TelemetryInv
<1> QED BY <1>1, TelemetryInvariant, PTL

\* Whatever the number of requests that touch a bucket for the first time, a
\* scrape lies between what was counted when it began and what is counted now
\* (addBucket and copyBuckets of metrics.go).
THEOREM ScrapesExact == Spec => []ScrapeExact
<1>1. TelemetryInv => ScrapeExact
  BY DEF TelemetryInv, ScrapeInv, Loaded, ScrapeExact
<1> QED BY <1>1, TelemetryInvariant, PTL

\* Only the response of a request that is not strong can report another's level
\* or cache level, and only if the cache has handed its trace to another request
\* as well (service.go, the hit that writes into the response it was handed).
THEOREM TracesOwn == Spec => []TraceNotMixedUp
<1>1. TelemetryInv => TraceNotMixedUp
  BY DEF TelemetryInv, TraceInv, TraceOK, TraceNotMixedUp, Shared
<1> QED BY <1>1, TelemetryInvariant, PTL

-----------------------------------------------------------------------------
(* The sink of decision traces: theorems about TraceSink, for every buffer,  *)
(* batch and retry budget and any number of rows.                            *)

\* Every step of the requests, the writer and cleanup keeps the types, the
\* balance of rows and what is known of the writer.
LEMMA SinkStep ==
  ASSUME SinkTypeOK, WriterInv, Conserved, [SinkNext]_sinkVars
  PROVE  SinkTypeOK' /\ WriterInv' /\ Conserved'
<1> USE SinkAssumption DEF SinkTypeOK, WriterInv, ExitsEmptyHanded, Conserved, drops
<1>1. CASE Record
  BY <1>1 DEF Record
<1>2. CASE Take
  <2>1. CASE batch + 1 >= BatchSize
    BY <1>2, <2>1 DEF Take, Receive, FlushThen
  <2>2. CASE ~(batch + 1 >= BatchSize)
    BY <1>2, <2>2 DEF Take, Receive
  <2> QED BY <2>1, <2>2
<1>3. CASE FlushTick
  BY <1>3 DEF FlushTick, FlushThen
<1>4. CASE BeginDrain
  BY <1>4 DEF BeginDrain
<1>5. CASE InsertOK
  BY <1>5 DEF InsertOK
<1>6. CASE InsertFail
  <2>1. CASE attempt < Attempts
    BY <1>6, <2>1 DEF InsertFail
  <2>2. CASE ~(attempt < Attempts)
    <3>1. CASE drainCtx = "expired"
      BY <1>6, <2>2, <3>1 DEF InsertFail, DropBatch
    <3>2. CASE drainCtx # "expired"
      BY <1>6, <2>2, <3>2 DEF InsertFail, DropBatch
    <3> QED BY <3>1, <3>2
  <2> QED BY <2>1, <2>2
<1>7. CASE Retry
  BY <1>7 DEF Retry
<1>8. CASE GiveUp
  <2>1. CASE drainCtx = "expired"
    BY <1>8, <2>1 DEF GiveUp, DropBatch
  <2>2. CASE drainCtx # "expired"
    BY <1>8, <2>2 DEF GiveUp, DropBatch
  <2> QED BY <2>1, <2>2
<1>9. CASE DrainTake
  <2>1. CASE batch + 1 >= BatchSize
    BY <1>9, <2>1 DEF DrainTake, Receive, FlushThen
  <2>2. CASE ~(batch + 1 >= BatchSize)
    BY <1>9, <2>2 DEF DrainTake, Receive
  <2> QED BY <2>1, <2>2
<1>10. CASE DrainEmpty
  <2>1. CASE batch > 0
    BY <1>10, <2>1 DEF DrainEmpty, FlushThen
  <2>2. CASE ~(batch > 0)
    BY <1>10, <2>2 DEF DrainEmpty
  <2> QED BY <2>1, <2>2
<1>11. CASE DrainLate
  BY <1>11 DEF DrainLate
<1>12. CASE CountWriter
  <2>1. CASE ch > 0
    BY <1>12, <2>1 DEF CountWriter, CountOne
  <2>2. CASE ch = 0
    BY <1>12, <2>2 DEF CountWriter, CountOne
  <2> QED BY <2>1, <2>2
<1>13. CASE DrainExpires
  BY <1>13 DEF DrainExpires
<1>14. CASE Stop
  BY <1>14 DEF Stop
<1>15. CASE StopWaited
  BY <1>15 DEF StopWaited
<1>16. CASE StopCount
  BY <1>16 DEF StopCount, CountOne
<1>17. CASE SinkCancel
  BY <1>17 DEF SinkCancel
<1>18. CASE UNCHANGED sinkVars
  BY <1>18 DEF sinkVars
<1> QED
  BY <1>1, <1>2, <1>3, <1>4, <1>5, <1>6, <1>7, <1>8, <1>9, <1>10, <1>11, <1>12,
     <1>13, <1>14, <1>15, <1>16, <1>17, <1>18 DEF SinkNext, Writer, Stopper

\* The invariants hold at the start.
LEMMA SinkInitial == SinkInit => SinkTypeOK /\ WriterInv /\ Conserved
BY SinkAssumption DEF SinkInit, SinkTypeOK, WriterInv, ExitsEmptyHanded, Conserved

\* Type correctness: in particular the channel and the batch keep within their
\* capacities and the writer within its attempts.
THEOREM SinkTypeCorrect == SinkSpec => []SinkTypeOK
BY SinkInitial, SinkStep, PTL DEF SinkSpec

\* No row is lost or counted twice between Record, the writer, its drain and
\* Stop's own emptying of the channel.
THEOREM RowsConserved == SinkSpec => [](Conserved /\ ExitsEmptyHanded)
<1>1. WriterInv => ExitsEmptyHanded
  BY DEF WriterInv
<1> QED BY <1>1, SinkInitial, SinkStep, PTL DEF SinkSpec

\* tryInsert writes a batch off as a database loss only when its attempts are
\* used up, or when cleanup has cancelled the sink.
THEOREM BudgetHonoured == SinkSpec => RetryBudgetHonoured
<1>1. ASSUME SinkTypeOK, [SinkNext]_sinkVars
      PROVE  [dbError' > dbError => attempt = Attempts \/ sinkCtx = "cancelled"]_sinkVars
  <2> USE <1>1, SinkAssumption DEF SinkTypeOK, drops
  <2>1. CASE InsertFail
    <3>1. CASE attempt < Attempts
      BY <2>1, <3>1 DEF InsertFail
    <3>2. CASE ~(attempt < Attempts)
      BY <3>2
    <3> QED BY <3>1, <3>2
  <2>2. CASE GiveUp
    <3>1. CASE drainCtx = "none"
      BY <2>2, <3>1 DEF GiveUp, CtxOver
    <3>2. CASE drainCtx # "none"
      BY <2>2, <3>2 DEF GiveUp, CtxOver, DropBatch
    <3> QED BY <3>1, <3>2
  <2>3. CASE ~InsertFail /\ ~GiveUp
    <3>1. dbError' = dbError
      BY <2>3
      DEF SinkNext, Writer, Stopper, Record, Take, FlushTick, BeginDrain, InsertOK, Retry,
          DrainTake, DrainEmpty, DrainLate, CountWriter, DrainExpires, Stop, StopWaited,
          StopCount, SinkCancel, sinkVars
    <3> QED BY <3>1
  <2> QED BY <2>1, <2>2, <2>3
<1>2. SinkSpec => []SinkTypeOK
  BY SinkTypeCorrect
<1> QED BY <1>1, <1>2, PTL DEF SinkSpec, RetryBudgetHonoured
=============================================================================
