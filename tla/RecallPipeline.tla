--------------------------- MODULE RecallPipeline ---------------------------
(***************************************************************************)
(* A recall at the origin: authorisation of the scope (internal/authz),    *)
(* the checks of RecallUnified (service.go), the candidates of the lexical *)
(* and the vector source (postgres_recall_store.go,                        *)
(* rag_vector_candidate_source.go), their fusion and ranking               *)
(* (hybrid_recaller.go), hydration, and selection under a token budget     *)
(* (recall_selection.go, token_budget.go).                                 *)
(*                                                                         *)
(* One request is followed: requests do not meet here (the cache they      *)
(* share is RecallCache).  Mutations of records run between its backend    *)
(* calls, and the vector store may lag behind: it may hold chunks of       *)
(* records that are hidden and lack chunks of others.                      *)
(*                                                                         *)
(* A record is a number, its place in the order of memory ids.  A user     *)
(* stands for tenant and user; a project for project and session, which    *)
(* the code treats alike.                                                  *)
(***************************************************************************)
EXTENDS Integers, FiniteSetsExt, SequencesExt

CONSTANTS
  NumRecords,
  Profiles,      \* what a record may be
  Users, Projects,
  TopKs,         \* values of top_k in a request
  Budgets,       \* values of memory_token_budget
  MaxMutations   \* bound on the mutations during the recall

\* The empty string of a header or a column.
Empty == ""

Records == 1..NumRecords

\* Scores are in quarters: a cosine is at most 1.0; the lexical query adds 1000 for
\* a pinned record and 100 for a saved one.
MaxSimilarity == 4
PinnedScore == 4000
SavedScore == 400

\* A row of memory_record, whether the query matches it, and the similarity of
\* its chunk in the vector store (0: none).  The gateway passes on any importance.
Record == [user : Users, project : Projects \cup {Empty}, pinned : BOOLEAN,
           saved : BOOLEAN, importance : Int, runes : Nat, matches : BOOLEAN,
           hidden : BOOLEAN, chunk : 0..MaxSimilarity]

Scope == [user : Users \cup {Empty}, project : Projects \cup {Empty}]

ASSUME ConstantsAssumption ==
  /\ NumRecords \in Nat \ {0} /\ MaxMutations \in Nat
  /\ Empty \notin Users \cup Projects
  /\ Profiles \subseteq Record
  /\ TopKs \subseteq Int /\ Budgets \subseteq Int

VARIABLES
  rec,       \* memory_record
  mutated,   \* ghost: the records mutated since the request began
  pc,        \* where the request is
  auth,      \* the scope of its headers
  scope, topK, budget,
  found,     \* ghost: what each source returned, as pairs of id and score
  candidates,\* the map of scores by id
  ranked,    \* the ids, in the order of their scores
  next,      \* the position of the loop in ranked, then in selection
  selection, \* the hydrated records with their estimates and scores, sorted
  hits,
  totalEstimate  \* the tokens of the hits

request == <<auth, scope, topK, budget>>
vars == <<rec, mutated, pc, request, found, candidates, ranked, next, selection, hits,
          totalEstimate>>

NoScope == [user |-> Empty, project |-> Empty]

Init ==
  /\ rec \in [Records -> Profiles] /\ mutated = {} /\ pc = "idle"
  /\ auth = NoScope /\ scope = NoScope /\ topK = 1 /\ budget = 0
  /\ found = {} /\ candidates = <<>> /\ ranked = <<>> /\ next = 1
  /\ selection = <<>> /\ hits = <<>> /\ totalEstimate = 0

-----------------------------------------------------------------------------
(* Authorisation and the checks of the request. *)

\* MUTANT: the project the request claims comes first.
MergeAuthoritativeScope_claimedFirst(a, c) ==
  [user |-> a.user, project |-> IF c.project = Empty THEN a.project ELSE c.project]

\* The headers decide; a claim only narrows what they leave open.
MergeAuthoritativeScope(a, c) ==
  [user |-> a.user, project |-> IF a.project = Empty THEN c.project ELSE a.project]

\* MUTANT: one too many.
TopKAccepted_offByOne(k) == k >= 0 /\ k <= 51

TopKAccepted(k) == k >= 0 /\ k <= 50

\* ScopeFromHeaders refuses an anonymous request, RecallUnified a bad top_k (and
\* an empty query, in the same way).
Start(a, c, k, b) ==
  /\ pc = "idle"
  /\ auth' = a
  /\ \/ /\ a.user = Empty /\ pc' = "unauthorized"
        /\ UNCHANGED <<scope, topK, budget>>
     \/ /\ a.user # Empty /\ ~TopKAccepted(k) /\ pc' = "bad_request"
        /\ UNCHANGED <<scope, topK, budget>>
     \/ /\ a.user # Empty /\ TopKAccepted(k) /\ pc' = "lexical"
        /\ scope' = MergeAuthoritativeScope(a, c)
        /\ topK' = IF k = 0 THEN 8 ELSE k
        /\ budget' = b
  /\ UNCHANGED <<rec, mutated, found, candidates, ranked, next, selection, hits,
                 totalEstimate>>

-----------------------------------------------------------------------------
(* Candidates. *)

\* MUTANT: pinned and saved records compete by importance alone.
LexicalScore_flat(r) == rec[r].importance

LexicalScore(r) ==
  (IF rec[r].pinned THEN PinnedScore ELSE 0) + (IF rec[r].saved THEN SavedScore ELSE 0)
    + rec[r].importance

\* The WHERE clause: rows without a project belong to every project.
LexicalMatches ==
  {r \in Records : /\ rec[r].user = scope.user /\ ~rec[r].hidden /\ rec[r].matches
                   /\ \/ scope.project = Empty
                      \/ rec[r].project \in {scope.project, Empty}}

\* vectorSecurityFilters: the metadata of a chunk equals the scope where the
\* scope says something, so a chunk without a project is not found from one.
VectorMatches ==
  {r \in Records : /\ rec[r].chunk > 0 /\ rec[r].user = scope.user
                   /\ scope.project \in {Empty, rec[r].project}}

\* What ORDER BY score DESC LIMIT k may return of S: k of its best.  Ties are
\* broken by updated_at, which is not modelled: any way.
Best(S, score, k) ==
  {T \in SUBSET S : /\ Cardinality(T) = Min({Cardinality(S), k})
                    /\ \A t \in T, u \in S \ T : score[t] >= score[u]}

\* MUTANT: the last source to name a record decides its score.
Merge_lastWins(T, score) ==
  [r \in DOMAIN candidates \cup T |-> IF r \in T THEN score[r] ELSE candidates[r]]

\* The records T of a source go into the map; the higher score stays.
Merge(T, score) ==
  [r \in DOMAIN candidates \cup T |->
     IF r \in T /\ (r \in DOMAIN candidates => score[r] > candidates[r])
     THEN score[r] ELSE candidates[r]]

\* The answer of a source that names the records T.
Scored(T, score) == {<<r, score[r]>> : r \in T}

\* A source has answered, with nothing (ErrNotFound) or something.
Take(T, score, goto) ==
  /\ found' = found \cup Scored(T, score)
  /\ candidates' = Merge(T, score)
  /\ pc' = goto
  /\ UNCHANGED <<rec, mutated, request, ranked, next, selection, hits, totalEstimate>>

QueryLexical ==
  /\ pc = "lexical"
  /\ LET score == [r \in Records |-> LexicalScore(r)] IN
       \E T \in Best(LexicalMatches, score, topK) :
         Take(T, score, "vector")

\* In lexical mode, or with vectors disabled, nothing has a chunk.
QueryVector ==
  /\ pc = "vector"
  /\ LET similarity == [r \in Records |-> rec[r].chunk] IN
       \E T \in Best(VectorMatches, similarity, topK) :
         Take(T, similarity, "rank")

\* What sorting S by the strict total order Above returns.
Sorted(S, Above(_, _)) ==
  {s \in [1..Cardinality(S) -> S] :
     /\ \A x \in S : \E i \in DOMAIN s : s[i] = x
     /\ \A i, j \in DOMAIN s : i < j => Above(s[i], s[j])}

Ahead(r, s) ==
  \/ candidates[r] > candidates[s]
  \/ candidates[r] = candidates[s] /\ r < s

\* rankedCandidateIDs: by score, then by id, at most topK.  Without candidates
\* the response is empty.
Rank ==
  /\ pc = "rank"
  /\ \E sorted \in Sorted(DOMAIN candidates, Ahead) :
       ranked' = SubSeq(sorted, 1, Min({Len(sorted), topK}))
  /\ pc' = IF DOMAIN candidates = {} THEN "answered" ELSE "hydrate"
  /\ UNCHANGED <<rec, mutated, request, found, candidates, next, selection, hits,
                 totalEstimate>>

-----------------------------------------------------------------------------
(* Hydration and selection. *)

EstimateTokenCost(runes) == (runes + 3) \div 4

\* A fraction, as its numerator in quarters and its denominator: 1/tokens is part
\* of the score.
RecallCandidateScore(r, tokens) ==
  LET base == (IF rec[r].importance = 0 THEN 2 ELSE rec[r].importance)
                + (IF rec[r].pinned THEN 8 ELSE 0) + (IF rec[r].saved THEN 4 ELSE 0) IN
    IF tokens > 0 THEN <<base * tokens + 4, tokens>> ELSE <<base, 1>>

\* Of two such fractions.
Greater(x, y) == x[1] * y[2] > y[1] * x[2]
Equal(x, y) == x[1] * y[2] = y[1] * x[2]

RecordBelongsToScope(r) ==
  /\ rec[r].user = scope.user
  /\ scope.project = Empty \/ rec[r].project \in {scope.project, Empty}

\* One GetRecord per id, which does not find what is hidden by now.
Hydrate ==
  /\ pc = "hydrate" /\ next <= Len(ranked)
  /\ LET r == ranked[next]
         tokens == EstimateTokenCost(rec[r].runes) IN
       selection' = IF rec[r].hidden \/ ~RecordBelongsToScope(r) THEN selection
                    ELSE Append(selection, [id |-> r, tokens |-> tokens,
                                            score |-> RecallCandidateScore(r, tokens)])
  /\ next' = next + 1
  /\ UNCHANGED <<rec, mutated, pc, request, found, candidates, ranked, hits, totalEstimate>>

\* The sort of buildRecallCandidates: score, then tokens, then id.
Before(c, d) ==
  \/ Greater(c.score, d.score)
  \/ Equal(c.score, d.score) /\ c.tokens < d.tokens
  \/ Equal(c.score, d.score) /\ c.tokens = d.tokens /\ c.id < d.id

BuildRecallCandidates ==
  /\ pc = "hydrate" /\ next > Len(ranked)
  /\ selection' \in Sorted(ToSet(selection), Before)
  /\ pc' = IF selection = <<>> THEN "answered" ELSE "select"
  /\ next' = 1
  /\ UNCHANGED <<rec, mutated, request, found, candidates, ranked, hits, totalEstimate>>

Fits(c) == budget <= 0 \/ totalEstimate + c.tokens <= budget

\* MUTANT: the loop ends at the first record that does not fit.
Select_break ==
  /\ pc = "select" /\ next <= Len(selection)
  /\ LET c == selection[next] IN
       \/ /\ Fits(c)
          /\ totalEstimate' = totalEstimate + c.tokens
          /\ hits' = Append(hits, c)
          /\ next' = next + 1
       \/ ~Fits(c) /\ next' = Len(selection) + 1 /\ UNCHANGED <<hits, totalEstimate>>
  /\ UNCHANGED <<rec, mutated, pc, request, found, candidates, ranked, selection>>

\* A record that does not fit is dropped, the loop goes on.
Select ==
  /\ pc = "select" /\ next <= Len(selection)
  /\ LET c == selection[next] IN
       \/ /\ Fits(c)
          /\ totalEstimate' = totalEstimate + c.tokens
          /\ hits' = Append(hits, c)
       \/ ~Fits(c) /\ UNCHANGED <<hits, totalEstimate>>
  /\ next' = next + 1
  /\ UNCHANGED <<rec, mutated, pc, request, found, candidates, ranked, selection>>

\* MarkAccess for the hits; then the response.
Respond ==
  /\ pc = "select" /\ next > Len(selection)
  /\ pc' = "answered"
  /\ UNCHANGED <<rec, mutated, request, found, candidates, ranked, next, selection, hits,
                 totalEstimate>>

\* Any backend call may fail, MarkAccess of at least one hit included; the
\* request fails with it.
Fail ==
  /\ \/ pc \in {"lexical", "vector"}
     \/ pc = "hydrate" /\ next <= Len(ranked)
     \/ pc = "select" /\ next > Len(selection) /\ hits # <<>>
  /\ pc' = "failed"
  /\ UNCHANGED <<rec, mutated, request, found, candidates, ranked, next, selection, hits,
                 totalEstimate>>

\* Another request deletes, disables, enables, pins or unpins a record.  Once
\* the records are read a mutation does not reach the request any more.
Mutate(r) ==
  /\ pc \in {"lexical", "vector", "hydrate"}
  /\ Cardinality(mutated) < MaxMutations
  /\ \/ rec' = [rec EXCEPT ![r].hidden = ~@]
     \/ rec' = [rec EXCEPT ![r].pinned = ~@]
  /\ mutated' = mutated \cup {r}
  /\ UNCHANGED <<pc, request, found, candidates, ranked, next, selection, hits,
                 totalEstimate>>

\* The answer is out.  Every other state has a step: no stage waits for anything,
\* and what has to be sorted can be.
Ended ==
  /\ pc \in {"answered", "unauthorized", "bad_request", "failed"}
  /\ UNCHANGED vars

Step ==
  \/ QueryLexical \/ QueryVector \/ Rank \/ Hydrate \/ BuildRecallCandidates
  \/ Select \/ Respond \/ Fail

Next ==
  \/ \E a, c \in Scope, k \in TopKs, b \in Budgets : Start(a, c, k, b)
  \/ Step
  \/ \E r \in Records : Mutate(r)
  \/ Ended

Spec == Init /\ [][Next]_vars

-----------------------------------------------------------------------------
(* Properties. *)

Pair == Records \X Int
Hit == [id : Records, tokens : Nat, score : Int \X (Nat \ {0})]

TypeOK ==
  /\ rec \in [Records -> Record] /\ mutated \subseteq Records
  /\ pc \in {"idle", "lexical", "vector", "rank", "hydrate", "select", "answered",
             "unauthorized", "bad_request", "failed"}
  /\ auth \in Scope /\ scope \in Scope /\ topK \in 1..50 /\ budget \in Int
  /\ found \subseteq Pair
  /\ DOMAIN candidates \subseteq Records
  /\ \A r \in DOMAIN candidates : candidates[r] \in Int
  /\ ranked \in Seq(Records) /\ next \in 1..(NumRecords + 1)
  /\ selection \in Seq(Hit) /\ hits \in Seq(Hit) /\ totalEstimate \in Nat

\* The best score a source gave r.
BestScore(r) == Max({p[2] : p \in {q \in found : q[1] = r}})

\* The ids that are hydrated are the topK best of all that the sources named,
\* each judged by its best score, in order and without a repetition: neither
\* the order of the sources nor a second mention of a record makes a difference
\* (hybrid_recaller.go:73, the merge, and rankedCandidateIDs).
RankedTopK ==
  pc \in {"hydrate", "select", "answered"} =>
    LET named == {p[1] : p \in found}
        Beats(r, s) == \/ BestScore(r) > BestScore(s)
                       \/ BestScore(r) = BestScore(s) /\ r < s IN
      /\ Len(ranked) = Min({Cardinality(named), topK})
      /\ \A i, j \in DOMAIN ranked : i < j => Beats(ranked[i], ranked[j])
      /\ \A r \in named \ ToSet(ranked), s \in ToSet(ranked) : Beats(s, r)

Kept(r) == rec[r].pinned \/ rec[r].saved

\* A record that matches the query and belongs to the scope is not lost on the
\* way: it is selected, or topK others were ahead of it.  If the user pinned or
\* saved it then those are pinned or saved too, or were when they were found, or
\* are more important by 100 at least, as the gateway bounds no importance.
\* Similarity in the vector store, chunks of hidden records included, cannot
\* outbid it (hybrid_recaller.go:108 cuts to topK before the records are read),
\* unless its writer gave it a negative importance.
MatchesInSight ==
  pc \in {"hydrate", "select", "answered"} =>
    \A r \in LexicalMatches \ mutated :
      IF r \in ToSet(ranked)
      THEN pc # "hydrate" => \E c \in ToSet(selection) : c.id = r
      ELSE /\ Len(ranked) = topK
           /\ Kept(r) /\ rec[r].importance >= 0 =>
                \A s \in ToSet(ranked) :
                  \/ Kept(s) \/ s \in mutated
                  \/ rec[s].importance >= rec[r].importance + SavedScore

\* t[n] is what the first n of the hits cost.
RunningTotal(t, n) ==
  t[0] = 0 /\ \A i \in 1..n : t[i] = t[i - 1] + hits[i].tokens

\* c did not fit in with the hits that are Before it, the first n of them.
DidNotFit(c, t) ==
  \E n \in 0..Len(hits) :
    /\ \A i \in 1..Len(hits) : Before(hits[i], c) <=> i <= n
    /\ t[n] + c.tokens > budget

\* The selection is used greedily: the hits are within the budget, and a record
\* that was dropped did not fit in with the hits ahead of it, however many that
\* fit come after it (service.go:185, the continue of the budget loop).  Without
\* a budget nothing is dropped.
BudgetUsedWell ==
  pc = "answered" =>
    IF budget > 0
    THEN \E t \in [0..Len(hits) -> 0..budget] :
           /\ RunningTotal(t, Len(hits))
           /\ \A c \in ToSet(selection) \ ToSet(hits) : DidNotFit(c, t)
    ELSE ToSet(selection) \subseteq ToSet(hits)

\* Whatever the request claims and the vector store holds, a hit belongs to the
\* user and the project of the headers, and was not hidden before the request
\* began (scope.go:38, postgres_recall_store.go:116).
HitsInScope ==
  \A h \in ToSet(hits) :
    /\ rec[h.id].user = auth.user
    /\ auth.project = Empty \/ rec[h.id].project \in {auth.project, Empty}
    /\ rec[h.id].hidden => h.id \in mutated
=============================================================================
