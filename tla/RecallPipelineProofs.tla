------------------------ MODULE RecallPipelineProofs ------------------------
(***************************************************************************)
(* Theorems about RecallPipeline, for any records, scopes, top_k, budget   *)
(* and number of mutations during the recall.                              *)
(***************************************************************************)
EXTENDS RecallPipeline, FiniteSetTheorems, SequenceTheorems, TLAPS

Rejected == {"idle", "unauthorized", "bad_request"}

\* What the stages of the request have left behind, and where the loops are.
PhaseInv ==
  /\ pc \in {"idle", "lexical"} => found = {} /\ DOMAIN candidates = {}
  /\ pc \in Rejected \cup {"lexical", "vector", "rank"} =>
       next = 1 /\ selection = <<>> /\ hits = <<>> /\ totalEstimate = 0
  /\ pc = "hydrate" =>
       next <= Len(ranked) + 1 /\ Len(selection) < next /\ hits = <<>> /\ totalEstimate = 0
  /\ pc = "select" => next <= Len(selection) + 1
  /\ pc = "answered" => next > Len(selection)
  /\ Len(ranked) <= NumRecords /\ Len(selection) <= NumRecords

\* The scope of the recall is that of the headers, narrowed at most.
ScopeInv ==
  pc \notin Rejected =>
    /\ scope.user = auth.user
    /\ auth.project = Empty \/ scope.project = auth.project

\* No source gave r more than m.
AtMost(r, m) == \A p \in found : p[1] = r => p[2] <= m

\* The map holds the records that were found, with the best score of each.
NamedInv == DOMAIN candidates = {p[1] : p \in found}

BestInv ==
  \A r \in DOMAIN candidates :
    <<r, candidates[r]>> \in found /\ AtMost(r, candidates[r])

CandidatesInv == NamedInv /\ BestInv

\* The ids to hydrate are the best of the map, all of them unless they are topK.
RankedInv ==
  pc \in {"hydrate", "select", "answered"} =>
    /\ \A i \in 1..Len(ranked) : ranked[i] \in DOMAIN candidates
    /\ Len(ranked) = Min({Cardinality(DOMAIN candidates), topK})
    /\ \A i, j \in 1..Len(ranked) : i < j => Ahead(ranked[i], ranked[j])
    /\ \A r \in DOMAIN candidates :
         \/ \E i \in 1..Len(ranked) : ranked[i] = r
         \/ Len(ranked) = topK /\ \A i \in 1..Len(ranked) : Ahead(ranked[i], r)

\* The records of the map with a score of m or more.
AtLeast(m) == {s \in DOMAIN candidates : candidates[s] >= m}

\* No similarity reaches the lexical score of r.
AboveVectors(r) == LexicalScore(r) > MaxSimilarity

\* A record that matches is in the map or topK others are; if it is above the
\* vectors, with its lexical score, or topK others with one as high; and a score
\* above the vectors is the lexical one.
LexicalInv ==
  pc \in {"vector", "rank", "hydrate", "select", "answered"} =>
    /\ \A r \in LexicalMatches \ mutated :
         /\ r \in DOMAIN candidates \/ Cardinality(DOMAIN candidates) >= topK
         /\ AboveVectors(r) => \/ r \in AtLeast(LexicalScore(r))
                               \/ Cardinality(AtLeast(LexicalScore(r))) >= topK
    /\ \A s \in DOMAIN candidates :
         candidates[s] > MaxSimilarity => candidates[s] = LexicalScore(s) \/ s \in mutated

\* What hydration has come to and finds in sight is in the selection.
Selected(r) ==
  r \notin mutated /\ ~rec[r].hidden /\ RecordBelongsToScope(r) =>
    \E i \in 1..Len(selection) : selection[i].id = r

HydratedInv ==
  pc \in {"hydrate", "select", "answered"} =>
    \A k \in 1..Len(ranked) : k < next \/ pc # "hydrate" => Selected(ranked[k])

\* A hydrated record belongs to the scope and was visible when it was read.
InSight(r) == RecordBelongsToScope(r) /\ (rec[r].hidden => r \in mutated)

SelectionInv ==
  /\ \A i \in 1..Len(selection) : InSight(selection[i].id)
  /\ \A i \in 1..Len(hits) : \E k \in 1..Len(selection) : k < next /\ hits[i] = selection[k]
  /\ pc \in {"select", "answered"} =>
       \A i, j \in 1..Len(selection) : i < j => Before(selection[i], selection[j])

\* What the loop has dropped so far did not fit in with the hits ahead of it.
Used(t) ==
  /\ RunningTotal(t, Len(hits)) /\ t[Len(hits)] = totalEstimate
  /\ budget > 0 => \A i \in 0..Len(hits) : t[i] <= budget
  /\ \A k \in 1..Len(selection) :
       k < next => \/ \E i \in 1..Len(hits) : hits[i] = selection[k]
                   \/ budget > 0 /\ DidNotFit(selection[k], t)

BudgetInv ==
  pc \in {"select", "answered"} => \E t \in [0..Len(hits) -> Nat] : Used(t)

RecallInv ==
  /\ TypeOK /\ PhaseInv /\ ScopeInv /\ CandidatesInv /\ RankedInv
  /\ LexicalInv /\ HydratedInv /\ SelectionInv /\ BudgetInv

-----------------------------------------------------------------------------
(* The operators. *)

\* The smaller of two numbers.
LEMMA MinOfTwo ==
  ASSUME NEW a \in Int, NEW b \in Int
  PROVE  Min({a, b}) = IF a <= b THEN a ELSE b
<1> DEFINE m == IF a <= b THEN a ELSE b
<1>1. m \in {a, b} /\ \A y \in {a, b} : m <= y
  OBVIOUS
<1>2. \A x \in {a, b} : (\A y \in {a, b} : x <= y) => x = m
  OBVIOUS
<1>3. Min({a, b}) \in {a, b} /\ \A y \in {a, b} : Min({a, b}) <= y
  BY <1>1 DEF Min
<1> QED BY <1>2, <1>3

\* The greatest element of a set is its Max.
LEMMA MaxIsGreatest ==
  ASSUME NEW S \in SUBSET Int, NEW m \in S, \A y \in S : y <= m
  PROVE  Max(S) = m
<1>1. Max(S) \in S /\ \A y \in S : Max(S) >= y
  BY DEF Max
<1>2. Max(S) \in Int /\ m \in Int /\ Max(S) <= m /\ Max(S) >= m
  BY <1>1
<1> QED BY <1>2

\* Sets of records are finite.
LEMMA SomeRecords ==
  ASSUME NEW S \in SUBSET Records
  PROVE  IsFiniteSet(S) /\ Cardinality(S) \in Nat /\ Cardinality(S) <= NumRecords
<1>1. IsFiniteSet(Records) /\ Cardinality(Records) = NumRecords
  BY FS_Interval, ConstantsAssumption DEF Records
<1> QED BY <1>1, FS_Subset, FS_CardinalityType

\* A sequence has at least as many places as elements.
LEMMA ElementsOfSeq ==
  ASSUME NEW S, NEW s \in Seq(S)
  PROVE  /\ IsFiniteSet(ToSet(s)) /\ Cardinality(ToSet(s)) \in Nat
         /\ Cardinality(ToSet(s)) <= Len(s)
         /\ ToSet(s) \subseteq S
<1>1. Len(s) \in Nat /\ DOMAIN s = 1..Len(s) /\ s \in [1..Len(s) -> ToSet(s)]
  BY LenProperties DEF ToSet
<1>2. s \in Surjection(1..Len(s), ToSet(s))
  BY <1>1 DEF Surjection, ToSet
<1>3. IsFiniteSet(1..Len(s)) /\ Cardinality(1..Len(s)) = Len(s)
  BY <1>1, FS_Interval
<1>4. IsFiniteSet(ToSet(s)) /\ Cardinality(ToSet(s)) <= Cardinality(1..Len(s))
  BY <1>2, <1>3, FS_Surjection
<1> QED BY <1>1, <1>3, <1>4, FS_CardinalityType DEF ToSet

\* The cost of a record, and its score in the selection.
LEMMA EstimateType ==
  ASSUME NEW n \in Nat
  PROVE  EstimateTokenCost(n) \in Nat
BY DEF EstimateTokenCost

\* The columns of a row.
LEMMA Columns ==
  ASSUME TypeOK, NEW r \in Records
  PROVE  /\ rec[r] \in Record
         /\ rec[r].user \in Users /\ rec[r].project \in Projects \cup {Empty}
         /\ rec[r].importance \in Int /\ rec[r].runes \in Nat
         /\ rec[r].chunk \in 0..MaxSimilarity
BY DEF TypeOK, Record

LEMMA ScoreType ==
  ASSUME TypeOK, NEW r \in Records, NEW n \in Nat
  PROVE  RecallCandidateScore(r, n) \in Int \X (Nat \ {0})
<1> DEFINE a == IF rec[r].importance = 0 THEN 2 ELSE rec[r].importance
           b == IF rec[r].pinned THEN 8 ELSE 0
           c == IF rec[r].saved THEN 4 ELSE 0
           base == a + b + c
<1>1. a \in Int
  BY Columns
<1>2. b \in Int /\ c \in Int
  OBVIOUS
<1>3. RecallCandidateScore(r, n) = IF n > 0 THEN <<base * n + 4, n>> ELSE <<base, 1>>
  BY DEF RecallCandidateScore
<1> HIDE DEF a, b, c
<1>4. base \in Int
  BY <1>1, <1>2
<1> HIDE DEF base
<1>5. base * n + 4 \in Int
  BY <1>4
<1> QED BY <1>3, <1>4, <1>5

LEMMA LexicalScoreType ==
  ASSUME TypeOK, NEW r \in Records
  PROVE  LexicalScore(r) \in Int
<1> DEFINE b == IF rec[r].pinned THEN PinnedScore ELSE 0
           c == IF rec[r].saved THEN SavedScore ELSE 0
<1>1. LexicalScore(r) = b + c + rec[r].importance
  BY DEF LexicalScore
<1>2. b \in Int /\ c \in Int /\ rec[r].importance \in Int
  BY Columns DEF PinnedScore, SavedScore
<1> HIDE DEF b, c
<1> QED BY <1>1, <1>2

\* A kept record is above the vectors, and only great importance makes up for not
\* being kept.
LEMMA KeptAbove ==
  ASSUME TypeOK, NEW r \in Records, Kept(r), rec[r].importance >= 0
  PROVE  /\ AboveVectors(r)
         /\ \A s \in Records :
              LexicalScore(s) >= LexicalScore(r) =>
                Kept(s) \/ rec[s].importance >= rec[r].importance + SavedScore
<1> DEFINE b(x) == IF rec[x].pinned THEN PinnedScore ELSE 0
           c(x) == IF rec[x].saved THEN SavedScore ELSE 0
<1>1. \A x \in Records : LexicalScore(x) = b(x) + c(x) + rec[x].importance
  BY DEF LexicalScore
<1>2. \A x \in Records : /\ b(x) \in {0, 4000} /\ c(x) \in {0, 400}
                         /\ Kept(x) <=> b(x) = 4000 \/ c(x) = 400
  BY DEF Kept, PinnedScore, SavedScore
<1>3. \A x \in Records : rec[x].importance \in Int
  BY Columns
<1> HIDE DEF b, c
<1>4. LexicalScore(r) \in Int /\ LexicalScore(r) >= 400 + rec[r].importance
  BY <1>1, <1>2, <1>3
<1>5. AboveVectors(r)
  BY <1>3, <1>4 DEF AboveVectors, MaxSimilarity
<1>6. ASSUME NEW s \in Records, LexicalScore(s) >= LexicalScore(r), ~Kept(s)
      PROVE  rec[s].importance >= rec[r].importance + SavedScore
  <2>1. LexicalScore(s) = rec[s].importance
    BY <1>1, <1>2, <1>3, <1>6
  <2> QED BY <1>3, <1>4, <1>6, <2>1 DEF SavedScore
<1> QED BY <1>5, <1>6

\* A mutation shows or hides, pins or unpins one record and leaves the rest of it.
LEMMA MutateColumns ==
  ASSUME TypeOK, NEW r \in Records, Mutate(r)
  PROVE  /\ rec' \in [Records -> Record]
         /\ \A s \in Records : /\ rec'[s].user = rec[s].user
                               /\ rec'[s].project = rec[s].project
                               /\ s # r => rec'[s] = rec[s]
<1>0. rec \in [Records -> Record]
  BY DEF TypeOK
<1>1. CASE rec' = [rec EXCEPT ![r].hidden = ~@]
  BY <1>0, <1>1 DEF Record
<1>2. CASE rec' = [rec EXCEPT ![r].pinned = ~@]
  BY <1>0, <1>2 DEF Record
<1> QED BY <1>1, <1>2 DEF Mutate

-----------------------------------------------------------------------------
(* The start of a request. *)

LEMMA RecallInitial == Init => RecallInv
<1> SUFFICES ASSUME Init PROVE RecallInv
  OBVIOUS
<1>1. TypeOK
  <2>1. rec \in [Records -> Record]
    BY ConstantsAssumption DEF Init
  <2>2. NoScope \in Scope
    BY DEF NoScope, Scope
  <2>3. DOMAIN candidates = {} /\ ranked \in Seq(Records) /\ selection \in Seq(Hit)
        /\ hits \in Seq(Hit)
    BY EmptySeq DEF Init
  <2>4. next \in 1..(NumRecords + 1)
    BY ConstantsAssumption DEF Init
  <2> QED BY <2>1, <2>2, <2>3, <2>4 DEF Init, TypeOK
<1>2. PhaseInv
  BY ConstantsAssumption DEF Init, PhaseInv, Rejected
<1>3. ScopeInv /\ RankedInv /\ LexicalInv /\ HydratedInv /\ BudgetInv
  BY DEF Init, ScopeInv, RankedInv, LexicalInv, HydratedInv, BudgetInv, Rejected
<1>4. CandidatesInv
  BY DEF Init, CandidatesInv, NamedInv, BestInv
<1>5. SelectionInv
  BY DEF Init, SelectionInv
<1> QED BY <1>1, <1>2, <1>3, <1>4, <1>5 DEF RecallInv

LEMMA StartStep ==
  ASSUME RecallInv, NEW a \in Scope, NEW c \in Scope, NEW k \in TopKs, NEW b \in Budgets,
         Start(a, c, k, b)
  PROVE  RecallInv'
<1>0. /\ pc = "idle" /\ auth' = a
      /\ UNCHANGED <<rec, mutated, found, candidates, ranked, next, selection, hits,
                     totalEstimate>>
      /\ \/ /\ pc' \in {"unauthorized", "bad_request"} /\ UNCHANGED <<scope, topK, budget>>
         \/ /\ pc' = "lexical" /\ TopKAccepted(k) /\ scope' = MergeAuthoritativeScope(a, c)
            /\ topK' = (IF k = 0 THEN 8 ELSE k) /\ budget' = b
  BY DEF Start
<1>1. TypeOK /\ PhaseInv /\ CandidatesInv /\ SelectionInv
  BY DEF RecallInv
<1>2. MergeAuthoritativeScope(a, c) \in Scope
  BY DEF MergeAuthoritativeScope, Scope
<1>3. k \in Int /\ b \in Int
  BY ConstantsAssumption
<1>4. scope' \in Scope /\ topK' \in 1..50 /\ budget' \in Int
  <2>1. TopKAccepted(k) => (IF k = 0 THEN 8 ELSE k) \in 1..50
    BY <1>3 DEF TopKAccepted
  <2>2. scope \in Scope /\ topK \in 1..50 /\ budget \in Int
    BY <1>1 DEF TypeOK
  <2> QED BY <1>0, <1>2, <1>3, <2>1, <2>2
<1>5. TypeOK'
  BY <1>0, <1>1, <1>4 DEF TypeOK
<1>6. PhaseInv'
  BY <1>0, <1>1 DEF PhaseInv, Rejected
<1>7. ScopeInv'
  BY <1>0 DEF ScopeInv, MergeAuthoritativeScope, Rejected
<1>8. RankedInv' /\ LexicalInv' /\ HydratedInv' /\ BudgetInv'
  BY <1>0 DEF RankedInv, LexicalInv, HydratedInv, BudgetInv
<1>9. CandidatesInv'
  BY <1>0, <1>1 DEF CandidatesInv, NamedInv, BestInv, AtMost
<1>10. SelectionInv'
  BY <1>0, <1>1 DEF SelectionInv, PhaseInv, Rejected
<1> QED BY <1>5, <1>6, <1>7, <1>8, <1>9, <1>10 DEF RecallInv

-----------------------------------------------------------------------------
(* The candidates. *)

\* What a source's answer makes of the map.
Merged(T, score) ==
  /\ DOMAIN candidates' = DOMAIN candidates \cup T
  /\ \A r \in DOMAIN candidates' :
       /\ r \in Records /\ candidates'[r] \in Int
       /\ \/ r \in T /\ candidates'[r] = score[r]
          \/ r \in DOMAIN candidates /\ candidates'[r] = candidates[r]
       /\ r \in T => candidates'[r] >= score[r]
       /\ r \in DOMAIN candidates => candidates'[r] >= candidates[r]

LEMMA MergeStep ==
  ASSUME TypeOK, CandidatesInv, NEW T \in SUBSET Records, NEW score \in [Records -> Int],
         found' = found \cup Scored(T, score), candidates' = Merge(T, score)
  PROVE  found' \subseteq Pair /\ CandidatesInv' /\ Merged(T, score)
<1>1. /\ found \subseteq Pair /\ DOMAIN candidates \subseteq Records
      /\ \A r \in DOMAIN candidates : candidates[r] \in Int
  BY DEF TypeOK
<1>2. \A r \in T : score[r] \in Int
  OBVIOUS
<1>3. found' \subseteq Pair
  BY <1>1, <1>2 DEF Pair, Scored
<1>4. /\ DOMAIN candidates' = DOMAIN candidates \cup T
      /\ \A r \in DOMAIN candidates' :
           candidates'[r] =
             IF r \in T /\ (r \in DOMAIN candidates => score[r] > candidates[r])
             THEN score[r] ELSE candidates[r]
  BY DEF Merge
<1>5. ASSUME NEW r \in DOMAIN candidates'
      PROVE  /\ r \in Records /\ candidates'[r] \in Int
             /\ \/ r \in T /\ candidates'[r] = score[r]
                \/ r \in DOMAIN candidates /\ candidates'[r] = candidates[r]
             /\ r \in T => candidates'[r] >= score[r]
             /\ r \in DOMAIN candidates => candidates'[r] >= candidates[r]
  <2>1. CASE r \in T /\ (r \in DOMAIN candidates => score[r] > candidates[r])
    BY <1>1, <1>2, <1>4, <2>1
  <2>2. CASE ~(r \in T /\ (r \in DOMAIN candidates => score[r] > candidates[r]))
    <3>1. r \in DOMAIN candidates /\ candidates'[r] = candidates[r]
      BY <1>4, <2>2
    <3>2. r \in T => score[r] <= candidates[r]
      BY <1>1, <1>2, <2>2
    <3> QED BY <1>1, <3>1, <3>2
  <2> QED BY <2>1, <2>2
<1>6. CandidatesInv'
  <2>0. \A x \in DOMAIN candidates : AtMost(x, candidates[x])
    BY DEF CandidatesInv, BestInv
  <2>1. DOMAIN candidates' = {p[1] : p \in found'}
    <3>1. \A r \in T : <<r, score[r]>> \in Scored(T, score) /\ <<r, score[r]>>[1] = r
      BY DEF Scored
    <3>2. \A p \in Scored(T, score) : p[1] \in T
      BY DEF Scored
    <3>3. \A x \in {p[1] : p \in found'} : x \in {p[1] : p \in found} \cup T
      BY <3>2
    <3>4. \A x \in {p[1] : p \in found} : x \in {p[1] : p \in found'}
      OBVIOUS
    <3>5. ASSUME NEW x \in T
          PROVE  x \in {p[1] : p \in found'}
      <4>1. <<x, score[x]>> \in found' /\ <<x, score[x]>>[1] = x
        BY <3>1
      <4> QED BY <4>1
    <3> QED BY <3>3, <3>4, <3>5, <1>4 DEF CandidatesInv, NamedInv
  <2>2. ASSUME NEW r \in DOMAIN candidates'
        PROVE  <<r, candidates'[r]>> \in found'
    BY <1>5 DEF CandidatesInv, BestInv, Scored
  <2>3. ASSUME NEW r \in DOMAIN candidates', NEW p \in found', p[1] = r
        PROVE  p[2] <= candidates'[r]
    <3>1. CASE p \in found
      <4>1. r \in DOMAIN candidates
        BY <3>1, <2>3 DEF CandidatesInv, NamedInv
      <4>2. p[2] <= candidates[r]
        BY <3>1, <2>0, <2>3, <4>1 DEF AtMost
      <4>3. p[2] \in Int
        BY <3>1, <1>1 DEF Pair
      <4>4. candidates[r] \in Int /\ candidates'[r] \in Int /\ candidates[r] <= candidates'[r]
        BY <4>1, <1>1, <1>5
      <4> QED BY <4>2, <4>3, <4>4
    <3>2. CASE p \in Scored(T, score)
      <4>1. r \in T /\ p[2] = score[r]
        BY <3>2, <2>3 DEF Scored
      <4> QED BY <4>1, <1>2, <1>5
    <3> QED BY <3>1, <3>2
  <2>4. \A r \in DOMAIN candidates' : AtMost(r, candidates[r])'
    BY <2>3 DEF AtMost
  <2> QED BY <2>1, <2>2, <2>4 DEF CandidatesInv, NamedInv, BestInv
<1> QED BY <1>3, <1>4, <1>5, <1>6 DEF Merged

\* What the two queries have in common.
LEMMA TakeStep ==
  ASSUME RecallInv, NEW T \in SUBSET Records, NEW score \in [Records -> Int], NEW goto,
         pc \in {"lexical", "vector"}, goto \in {"vector", "rank"}, Take(T, score, goto)
  PROVE  /\ TypeOK' /\ PhaseInv' /\ ScopeInv' /\ CandidatesInv' /\ RankedInv'
         /\ HydratedInv' /\ SelectionInv' /\ BudgetInv'
<1>1. /\ TypeOK /\ PhaseInv /\ ScopeInv /\ CandidatesInv /\ SelectionInv
  BY DEF RecallInv
<1>2. /\ pc' = goto
      /\ UNCHANGED <<rec, mutated, auth, scope, topK, budget, ranked, next, selection, hits,
                     totalEstimate>>
  BY DEF Take, request
<1>3. /\ found' \subseteq Pair /\ CandidatesInv' /\ DOMAIN candidates' \subseteq Records
      /\ \A r \in DOMAIN candidates' : candidates'[r] \in Int
  <2>1. found' = found \cup Scored(T, score) /\ candidates' = Merge(T, score)
    BY DEF Take
  <2> QED BY <1>1, <2>1, MergeStep DEF Merged
<1>4. TypeOK'
  BY <1>1, <1>2, <1>3 DEF TypeOK
<1>5. PhaseInv' /\ ScopeInv'
  BY <1>1, <1>2 DEF PhaseInv, ScopeInv, Rejected
<1>6. RankedInv' /\ HydratedInv' /\ BudgetInv'
  BY <1>2 DEF RankedInv, HydratedInv, BudgetInv
<1>7. SelectionInv'
  BY <1>1, <1>2 DEF SelectionInv, PhaseInv, Rejected
<1> QED BY <1>3, <1>4, <1>5, <1>6, <1>7

LEMMA QueryLexicalStep ==
  ASSUME RecallInv, QueryLexical
  PROVE  RecallInv'
<1>1. TypeOK /\ PhaseInv /\ CandidatesInv /\ pc = "lexical"
  BY DEF RecallInv, QueryLexical
<1> DEFINE score == [r \in Records |-> LexicalScore(r)]
<1>2. score \in [Records -> Int] /\ \A r \in Records : score[r] = LexicalScore(r)
  BY <1>1, LexicalScoreType
<1>3. PICK T \in Best(LexicalMatches, score, topK) : Take(T, score, "vector")
  BY DEF QueryLexical
<1> HIDE DEF score
<1>4. /\ T \subseteq LexicalMatches /\ LexicalMatches \subseteq Records
      /\ Cardinality(T) = Min({Cardinality(LexicalMatches), topK})
      /\ \A t \in T, u \in LexicalMatches \ T : score[t] >= score[u]
  BY <1>3 DEF Best, LexicalMatches
<1>5. /\ TypeOK' /\ PhaseInv' /\ ScopeInv' /\ CandidatesInv' /\ RankedInv'
      /\ HydratedInv' /\ SelectionInv' /\ BudgetInv'
  BY <1>1, <1>2, <1>3, <1>4, TakeStep
<1>6. /\ rec' = rec /\ mutated' = mutated /\ scope' = scope /\ topK' = topK
      /\ candidates' = Merge(T, score)
  BY <1>3 DEF Take, request
<1>7. DOMAIN candidates' = T /\ \A r \in T : candidates'[r] = score[r]
  BY <1>1, <1>6 DEF Merge, PhaseInv
<1>9. topK \in Int
  BY <1>1 DEF TypeOK
<1>10. ASSUME NEW r \in LexicalMatches, r \notin T
       PROVE  Cardinality(T) = topK
  <2>1. IsFiniteSet(LexicalMatches) /\ Cardinality(LexicalMatches) \in Nat
    BY <1>4, SomeRecords
  <2>2. Cardinality(T) # Cardinality(LexicalMatches)
    BY <2>1, <1>4, <1>10, FS_Subset
  <2> QED BY <2>1, <2>2, <1>4, <1>9, MinOfTwo
<1>11. ASSUME NEW r \in LexicalMatches
       PROVE  \/ r \in AtLeast(LexicalScore(r))'
              \/ Cardinality(AtLeast(LexicalScore(r))') >= topK
  <2>1. LexicalScore(r)' = LexicalScore(r) /\ LexicalScore(r) = score[r]
    BY <1>2, <1>4, <1>6 DEF LexicalScore
  <2>2. AtLeast(LexicalScore(r))' = {s \in T : score[s] >= score[r]}
    BY <1>7, <2>1 DEF AtLeast
  <2>3. CASE r \in T
    BY <1>2, <1>4, <2>2, <2>3
  <2>4. CASE r \notin T
    <3>1. AtLeast(LexicalScore(r))' = T
      BY <1>4, <2>2, <2>4
    <3> QED BY <1>9, <1>10, <2>4, <3>1
  <2> QED BY <2>3, <2>4
<1>12. LexicalMatches' = LexicalMatches /\ \A r : LexicalScore(r)' = LexicalScore(r)
  BY <1>6 DEF LexicalMatches, LexicalScore
<1>13. \A s \in DOMAIN candidates' : candidates'[s] = LexicalScore(s)'
  BY <1>2, <1>4, <1>7, <1>12
<1>14. LexicalInv'
  <2>1. \A r \in LexicalMatches : r \in DOMAIN candidates' \/ Cardinality(DOMAIN candidates') >= topK
    BY <1>7, <1>9, <1>10
  <2> QED BY <1>6, <1>11, <1>12, <1>13, <2>1 DEF LexicalInv
<1> QED BY <1>5, <1>14 DEF RecallInv

LEMMA QueryVectorStep ==
  ASSUME RecallInv, QueryVector
  PROVE  RecallInv'
<1>1. TypeOK /\ CandidatesInv /\ LexicalInv /\ pc = "vector"
  BY DEF RecallInv, QueryVector
<1> DEFINE score == [r \in Records |-> rec[r].chunk]
<1>2. \A r \in Records : rec[r].chunk \in 0..MaxSimilarity
  BY <1>1, Columns
<1>3. score \in [Records -> Int] /\ \A r \in Records : score[r] <= MaxSimilarity
  BY <1>2 DEF MaxSimilarity
<1>4. PICK T \in Best(VectorMatches, score, topK) : Take(T, score, "rank")
  BY DEF QueryVector
<1> HIDE DEF score
<1>5. T \subseteq Records
  BY <1>4 DEF Best, VectorMatches
<1>6. /\ TypeOK' /\ PhaseInv' /\ ScopeInv' /\ CandidatesInv' /\ RankedInv'
      /\ HydratedInv' /\ SelectionInv' /\ BudgetInv'
  BY <1>1, <1>3, <1>4, <1>5, TakeStep
<1>7. /\ rec' = rec /\ mutated' = mutated /\ scope' = scope /\ topK' = topK
      /\ found' = found \cup Scored(T, score) /\ candidates' = Merge(T, score)
  BY <1>4 DEF Take, request
<1>8. Merged(T, score)
  BY <1>1, <1>3, <1>5, <1>7, MergeStep
<1>9. \A r \in DOMAIN candidates : candidates[r] \in Int
  BY <1>1 DEF TypeOK
<1>10. ASSUME NEW r \in DOMAIN candidates', candidates'[r] > MaxSimilarity
       PROVE  r \in DOMAIN candidates /\ candidates'[r] = candidates[r]
  <2>1. ~(r \in T /\ candidates'[r] = score[r])
    BY <1>3, <1>5, <1>10 DEF MaxSimilarity
  <2> QED BY <2>1, <1>8 DEF Merged
<1>11. /\ LexicalMatches' = LexicalMatches
       /\ \A r : /\ LexicalScore(r)' = LexicalScore(r)
                 /\ AboveVectors(r)' <=> AboveVectors(r)
  BY <1>7 DEF LexicalMatches, LexicalScore, AboveVectors
<1>12. ASSUME NEW r \in LexicalMatches \ mutated
       PROVE  r \in DOMAIN candidates' \/ Cardinality(DOMAIN candidates') >= topK
  <2>1. r \in DOMAIN candidates \/ Cardinality(DOMAIN candidates) >= topK
    BY <1>1 DEF LexicalInv
  <2>2. DOMAIN candidates \subseteq DOMAIN candidates' /\ DOMAIN candidates' \subseteq Records
    BY <1>8 DEF Merged
  <2>3. Cardinality(DOMAIN candidates) <= Cardinality(DOMAIN candidates')
    BY <2>2, SomeRecords, FS_Subset
  <2>4. /\ Cardinality(DOMAIN candidates) \in Nat /\ Cardinality(DOMAIN candidates') \in Nat
        /\ topK \in Int
    BY <1>1, <2>2, SomeRecords DEF TypeOK
  <2> QED BY <2>1, <2>2, <2>3, <2>4
<1>13. ASSUME NEW r \in LexicalMatches \ mutated, AboveVectors(r)
       PROVE  AtLeast(LexicalScore(r))' = AtLeast(LexicalScore(r))
  <2>1. PICK m \in Int : m = LexicalScore(r)
    BY <1>1, LexicalScoreType DEF LexicalMatches
  <2>2. m > MaxSimilarity /\ MaxSimilarity \in Int
    BY <1>13, <2>1 DEF AboveVectors, MaxSimilarity
  <2>3. ASSUME NEW s \in DOMAIN candidates, candidates[s] >= m
        PROVE  s \in DOMAIN candidates' /\ candidates'[s] >= m
    BY <1>8, <1>9, <2>3 DEF Merged
  <2>4. ASSUME NEW s \in DOMAIN candidates', candidates'[s] >= m
        PROVE  s \in DOMAIN candidates /\ candidates[s] >= m
    <3>1. candidates'[s] \in Int
      BY <1>8 DEF Merged
    <3>2. candidates'[s] > MaxSimilarity
      BY <2>2, <2>4, <3>1
    <3> QED BY <1>10, <2>4, <3>2
  <2>5. AtLeast(m)' = AtLeast(m)
    BY <2>3, <2>4 DEF AtLeast
  <2> QED BY <1>11, <2>1, <2>5 DEF AtLeast
<1>14. LexicalInv'
  BY <1>1, <1>7, <1>10, <1>11, <1>12, <1>13 DEF LexicalInv
<1> QED BY <1>6, <1>14 DEF RecallInv

\* The map and the records are left alone.
LEMMA SameLexical ==
  ASSUME LexicalInv, UNCHANGED <<rec, mutated, scope, topK, candidates>>,
         pc' \in {"vector", "rank", "hydrate", "select", "answered"} =>
           pc \in {"vector", "rank", "hydrate", "select", "answered"}
  PROVE  LexicalInv'
<1>1. /\ LexicalMatches' = LexicalMatches
      /\ \A r : /\ LexicalScore(r)' = LexicalScore(r)
                /\ AboveVectors(r)' <=> AboveVectors(r)
  BY DEF LexicalMatches, LexicalScore, AboveVectors
<1>2. \A r : AtLeast(LexicalScore(r))' = AtLeast(LexicalScore(r))
  BY <1>1 DEF AtLeast
<1> QED BY <1>1, <1>2 DEF LexicalInv

\* Before the loop begins the budget is used well: nothing is spent.
LEMMA NothingUsed ==
  ASSUME hits' = <<>>, totalEstimate' = 0, next' = 1, budget' \in Int,
         selection' \in Seq(Hit)
  PROVE  BudgetInv'
<1> DEFINE t == [i \in 0..0 |-> 0]
<1>1. Len(hits') = 0 /\ Len(selection') \in Nat
  BY LenProperties
<1>2. t \in [0..0 -> Nat] /\ t[0] = 0
  OBVIOUS
<1> HIDE DEF t
<1>3. RunningTotal(t, Len(hits))'
  BY <1>1, <1>2 DEF RunningTotal
<1>4. Used(t)'
  BY <1>1, <1>2, <1>3 DEF Used
<1> QED BY <1>1, <1>2, <1>4 DEF BudgetInv

\* The first m of a sorted sequence are the best m of its elements.
LEMMA RankStep ==
  ASSUME RecallInv, Rank
  PROVE  RecallInv'
<1>1. /\ TypeOK /\ PhaseInv /\ ScopeInv /\ CandidatesInv /\ LexicalInv /\ SelectionInv
      /\ pc = "rank"
  BY DEF RecallInv, Rank
<1>2. /\ UNCHANGED <<rec, mutated, auth, scope, topK, budget, found, candidates, next,
                     selection, hits, totalEstimate>>
      /\ pc' \in {"answered", "hydrate"}
  BY DEF Rank, request
<1> DEFINE D == DOMAIN candidates
           n == Cardinality(D)
           m == Min({n, topK})
<1>3. PICK sorted \in [1..n -> D] :
        /\ \A x \in D : \E i \in DOMAIN sorted : sorted[i] = x
        /\ \A i, j \in DOMAIN sorted : i < j => Ahead(sorted[i], sorted[j])
        /\ ranked' = SubSeq(sorted, 1, Min({Len(sorted), topK}))
  BY DEF Rank, Sorted
<1>4. n \in Nat /\ n <= NumRecords /\ D \subseteq Records
  BY <1>1, SomeRecords DEF TypeOK
<1>5. topK \in 1..50
  BY <1>1 DEF TypeOK
<1> HIDE DEF D, n, m
<1>6. m \in Nat /\ m <= n /\ m <= topK /\ (m = n \/ m = topK)
  BY <1>4, <1>5, MinOfTwo DEF m
<1>7. Len(sorted) = n /\ DOMAIN sorted = 1..n
  BY <1>3, <1>4
<1>8. \A i \in 1..m : sorted[i] \in D
  BY <1>3, <1>4, <1>6
<1>9. ranked' \in Seq(D) /\ Len(ranked') = m /\ \A i \in 1..m : ranked'[i] = sorted[i]
  <2>1. ranked' = SubSeq(sorted, 1, m)
    BY <1>3, <1>7 DEF m
  <2>2. /\ SubSeq(sorted, 1, m) \in Seq(D)
        /\ Len(SubSeq(sorted, 1, m)) = IF 1 <= m THEN m - 1 + 1 ELSE 0
        /\ \A i \in 1..(m - 1 + 1) : SubSeq(sorted, 1, m)[i] = sorted[1 + i - 1]
    BY <1>6, <1>8, SubSeqProperties
  <2> QED BY <1>6, <2>1, <2>2
<1>10. ranked' \in Seq(Records)
  BY <1>4, <1>9, SeqMonotonic
<1>11. TypeOK'
  BY <1>1, <1>2, <1>10 DEF TypeOK
<1>12. PhaseInv'
  <2>1. Len(selection) = 0 /\ next = 1 /\ hits = <<>> /\ totalEstimate = 0
    BY <1>1 DEF PhaseInv, Rejected
  <2> QED BY <1>2, <1>4, <1>6, <1>9, <2>1, ConstantsAssumption DEF PhaseInv, Rejected
<1>13. ScopeInv' /\ CandidatesInv'
  BY <1>1, <1>2 DEF ScopeInv, CandidatesInv, NamedInv, BestInv, AtMost, Rejected
<1>14. RankedInv'
  <2>1. ASSUME NEW i \in 1..m, NEW j \in 1..m, i < j
        PROVE  Ahead(ranked[i], ranked[j])'
    <3>1. Ahead(sorted[i], sorted[j])
      BY <1>3, <1>4, <1>6, <1>7, <2>1
    <3> QED BY <1>2, <1>9, <3>1 DEF Ahead
  <2>2. ASSUME NEW r \in D
        PROVE  \/ \E i \in 1..m : ranked'[i] = r
               \/ m = topK /\ \A i \in 1..m : Ahead(ranked[i], r)'
    <3>1. PICK j \in 1..n : sorted[j] = r
      BY <1>3, <1>7
    <3>2. CASE j <= m
      BY <1>6, <1>9, <3>1, <3>2
    <3>3. CASE ~(j <= m)
      <4>1. m = topK
        BY <1>4, <1>6, <3>3
      <4>2. ASSUME NEW i \in 1..m
            PROVE  Ahead(ranked[i], r)'
        <5>1. Ahead(sorted[i], sorted[j])
          BY <1>3, <1>4, <1>6, <1>7, <3>3
        <5> QED BY <1>2, <1>9, <3>1, <5>1 DEF Ahead
      <4> QED BY <4>1, <4>2
    <3> QED BY <3>2, <3>3
  <2>3. \A i \in 1..m : ranked'[i] \in D
    BY <1>8, <1>9
  <2>4. m = Min({Cardinality(DOMAIN candidates), topK}) /\ D = DOMAIN candidates
    BY DEF m, n, D
  <2> QED BY <1>2, <1>9, <2>1, <2>2, <2>3, <2>4 DEF RankedInv
<1>15. LexicalInv'
  BY <1>1, <1>2, SameLexical
<1>16. SelectionInv'
  BY <1>1, <1>2 DEF SelectionInv, PhaseInv, Rejected
<1>17. BudgetInv'
  BY <1>1, <1>2, <1>11, NothingUsed DEF PhaseInv, Rejected, TypeOK
<1>18. HydratedInv'
  <2>1. CASE pc' = "answered"
    <3>1. D = {}
      BY <2>1 DEF Rank, D
    <3>2. m = 0
      BY <1>4, <1>6, <3>1, FS_EmptySet DEF n
    <3> QED BY <1>9, <3>2 DEF HydratedInv
  <2>2. CASE pc' = "hydrate"
    <3>1. next' = 1
      BY <1>1, <1>2 DEF PhaseInv, Rejected
    <3> QED BY <1>6, <1>9, <2>2, <3>1 DEF HydratedInv
  <2> QED BY <1>2, <2>1, <2>2
<1> QED BY <1>11, <1>12, <1>13, <1>14, <1>15, <1>16, <1>17, <1>18 DEF RecallInv

-----------------------------------------------------------------------------
(* Hydration and selection. *)

\* The parts that hydration and selection leave alone.
LEMMA SameMap ==
  ASSUME RecallInv,
         UNCHANGED <<rec, mutated, auth, scope, topK, found, candidates, ranked>>,
         pc \in {"hydrate", "select"}
  PROVE  ScopeInv' /\ CandidatesInv' /\ RankedInv' /\ LexicalInv'
<1>1. ScopeInv /\ CandidatesInv /\ RankedInv /\ LexicalInv
  BY DEF RecallInv
<1>3. LexicalInv'
  BY <1>1, SameLexical
<1>4. \A r, s : Ahead(r, s)' <=> Ahead(r, s)
  BY DEF Ahead
<1>5. RankedInv'
  BY <1>1, <1>4 DEF RankedInv
<1>6. ScopeInv' /\ CandidatesInv'
  BY <1>1 DEF ScopeInv, CandidatesInv, NamedInv, BestInv, AtMost, Rejected
<1> QED BY <1>3, <1>5, <1>6

\* Once the selection is sorted it is not touched any more.
LEMMA SameSelection ==
  ASSUME RecallInv, UNCHANGED <<rec, mutated, scope, ranked, selection>>, pc = "select"
  PROVE  HydratedInv'
<1>1. \A k \in 1..Len(ranked) : Selected(ranked[k])
  BY DEF RecallInv, HydratedInv
<1>2. \A r : Selected(r)' <=> Selected(r)
  BY DEF Selected, RecordBelongsToScope
<1> QED BY <1>1, <1>2 DEF HydratedInv

LEMMA HydrateStep ==
  ASSUME RecallInv, Hydrate
  PROVE  RecallInv'
<1>1. TypeOK /\ PhaseInv /\ SelectionInv /\ pc = "hydrate" /\ next <= Len(ranked)
  BY DEF RecallInv, Hydrate
<1>2. /\ UNCHANGED <<rec, mutated, pc, auth, scope, topK, budget, found, candidates, ranked,
                     hits, totalEstimate>>
      /\ next' = next + 1
  BY DEF Hydrate, request
<1> DEFINE r == ranked[next]
           tokens == EstimateTokenCost(rec[r].runes)
           c == [id |-> r, tokens |-> tokens, score |-> RecallCandidateScore(r, tokens)]
<1>3. /\ Len(ranked) \in Nat /\ Len(selection) \in Nat /\ next \in Nat /\ next >= 1
      /\ NumRecords \in Nat
  BY <1>1, LenProperties, ConstantsAssumption DEF TypeOK
<1>4. r \in Records
  BY <1>1, <1>3, ElementOfSeq DEF TypeOK
<1>5. tokens \in Nat
  BY <1>1, <1>4, Columns, EstimateType
<1>6. RecallCandidateScore(r, tokens) \in Int \X (Nat \ {0})
  BY <1>1, <1>4, <1>5, ScoreType
<1>7. \/ selection' = selection
      \/ selection' = Append(selection, c) /\ ~rec[r].hidden /\ RecordBelongsToScope(r)
  BY DEF Hydrate
<1> HIDE DEF r, tokens
<1>8. c \in Hit /\ c.id = r
  BY <1>4, <1>5, <1>6 DEF Hit
<1> HIDE DEF c
<1>9. selection \in Seq(Hit)
  BY <1>1 DEF TypeOK
<1>10. selection' \in Seq(Hit) /\ Len(selection') \in Nat /\ Len(selection') <= Len(selection) + 1
  BY <1>3, <1>7, <1>8, <1>9
<1>11. PhaseInv'
  BY <1>1, <1>2, <1>3, <1>10 DEF PhaseInv, Rejected
<1>12. next' \in 1..(NumRecords + 1)
  BY <1>1, <1>2, <1>3 DEF PhaseInv
<1>13. TypeOK'
  BY <1>1, <1>2, <1>10, <1>12 DEF TypeOK
<1>14. \A i \in 1..Len(selection') : InSight(selection'[i].id)
  <2>1. CASE selection' = selection
    BY <1>1, <2>1 DEF SelectionInv
  <2>2. CASE selection' = Append(selection, c) /\ ~rec[r].hidden /\ RecordBelongsToScope(r)
    <3>1. InSight(r)
      BY <2>2 DEF InSight
    <3>2. /\ Len(selection') = Len(selection) + 1
          /\ \A i \in 1..Len(selection) : selection'[i] = selection[i]
          /\ selection'[Len(selection) + 1] = c
      BY <1>3, <1>8, <1>9, <2>2
    <3>3. \A i \in 1..(Len(selection) + 1) : i \in 1..Len(selection) \/ i = Len(selection) + 1
      BY <1>3
    <3> QED BY <1>1, <1>8, <3>1, <3>2, <3>3 DEF SelectionInv
  <2> QED BY <1>7, <2>1, <2>2
<1>15. \A x : InSight(x)' <=> InSight(x)
  BY <1>2 DEF InSight, RecordBelongsToScope
<1>16. SelectionInv'
  <2>1. hits' = <<>> /\ Len(hits') = 0
    BY <1>1, <1>2 DEF PhaseInv
  <2> QED BY <1>1, <1>2, <1>14, <1>15, <2>1 DEF SelectionInv
<1>17. ScopeInv' /\ CandidatesInv' /\ RankedInv' /\ LexicalInv'
  BY <1>1, <1>2, SameMap
<1>18. BudgetInv'
  BY <1>1, <1>2 DEF BudgetInv
<1>19. ASSUME NEW k \in 1..Len(ranked), k < next + 1
       PROVE  Selected(ranked[k])'
  <2>1. PICK x : x = ranked[k]
    OBVIOUS
  <2>2. SUFFICES ASSUME x \notin mutated, ~rec[x].hidden, RecordBelongsToScope(x)
                 PROVE  \E i \in 1..Len(selection') : selection'[i].id = x
    BY <1>2, <2>1 DEF Selected, RecordBelongsToScope
  <2>3. CASE k = next
    <3>1. x = r
      BY <2>1, <2>3 DEF r
    <3>2. selection' = Append(selection, c)
      BY <2>2, <3>1 DEF Hydrate, r, c, tokens
    <3>3. Len(selection') = Len(selection) + 1 /\ selection'[Len(selection) + 1] = c
      BY <1>8, <1>9, <3>2
    <3> QED BY <1>3, <1>8, <3>1, <3>3
  <2>4. CASE k # next
    <3>1. k < next
      BY <1>3, <1>19, <2>4
    <3>2. HydratedInv
      BY DEF RecallInv
    <3>3. PICK i \in 1..Len(selection) : selection[i].id = x
      BY <1>1, <2>1, <2>2, <3>1, <3>2 DEF HydratedInv, Selected
    <3>4. i \in 1..Len(selection') /\ selection'[i] = selection[i]
      BY <1>3, <1>7, <1>8, <1>9
    <3> QED BY <3>3, <3>4
  <2> QED BY <2>3, <2>4
<1>20. HydratedInv'
  BY <1>1, <1>2, <1>19 DEF HydratedInv
<1> QED BY <1>11, <1>13, <1>16, <1>17, <1>18, <1>20 DEF RecallInv

LEMMA BuildStep ==
  ASSUME RecallInv, BuildRecallCandidates
  PROVE  RecallInv'
<1>1. TypeOK /\ PhaseInv /\ SelectionInv /\ pc = "hydrate"
  BY DEF RecallInv, BuildRecallCandidates
<1>2. /\ UNCHANGED <<rec, mutated, auth, scope, topK, budget, found, candidates, ranked,
                     hits, totalEstimate>>
      /\ next' = 1 /\ pc' = IF selection = <<>> THEN "answered" ELSE "select"
  BY DEF BuildRecallCandidates, request
<1> DEFINE S == ToSet(selection)
           n == Cardinality(S)
<1>3. /\ selection' \in [1..n -> S]
      /\ \A x \in S : \E i \in DOMAIN selection' : selection'[i] = x
      /\ \A i, j \in DOMAIN selection' : i < j => Before(selection'[i], selection'[j])
  BY DEF BuildRecallCandidates, Sorted
<1>4. selection \in Seq(Hit)
  BY <1>1 DEF TypeOK
<1>5. IsFiniteSet(S) /\ n \in Nat /\ n <= Len(selection) /\ S \subseteq Hit
  BY <1>4, ElementsOfSeq
<1>6. \A x \in S : \E i \in 1..Len(selection) : x = selection[i]
  BY <1>4, LenProperties DEF ToSet
<1> HIDE DEF S, n
<1>7. selection' \in Seq(Hit) /\ Len(selection') = n /\ DOMAIN selection' = 1..n
  BY <1>3, <1>5
<1>8. Len(selection) \in Nat /\ (selection = <<>> => Len(selection) = 0)
  BY <1>4, LenProperties
<1>9. NumRecords \in Nat /\ Len(selection) <= NumRecords /\ hits = <<>> /\ totalEstimate = 0
  BY <1>1, ConstantsAssumption DEF PhaseInv
<1>10. TypeOK'
  <2>1. next' \in 1..(NumRecords + 1)
    BY <1>2, <1>9
  <2> QED BY <1>1, <1>2, <1>7, <2>1 DEF TypeOK
<1>11. PhaseInv'
  BY <1>1, <1>2, <1>5, <1>7, <1>8, <1>9 DEF PhaseInv, Rejected
<1>12. ASSUME NEW i \in 1..n
       PROVE  InSight(selection[i].id)'
  <2>1. selection'[i] \in S
    BY <1>3
  <2>2. PICK k \in 1..Len(selection) : selection'[i] = selection[k]
    BY <1>6, <2>1
  <2>3. InSight(selection[k].id)
    BY <1>1 DEF SelectionInv
  <2> QED BY <1>2, <2>2, <2>3 DEF InSight, RecordBelongsToScope
<1>13. SelectionInv'
  <2>1. Len(hits') = 0
    BY <1>2, <1>9
  <2>2. \A i, j \in 1..n : i < j => Before(selection[i], selection[j])'
    BY <1>3, <1>7 DEF Before
  <2> QED BY <1>7, <1>12, <2>1, <2>2 DEF SelectionInv
<1>14. ScopeInv' /\ CandidatesInv' /\ RankedInv' /\ LexicalInv'
  BY <1>1, <1>2, SameMap
<1>15. BudgetInv'
  BY <1>2, <1>7, <1>9, <1>10, NothingUsed DEF TypeOK
<1>16. ASSUME NEW k \in 1..Len(ranked)
       PROVE  Selected(ranked[k])'
  <2>1. PICK r : r = ranked[k]
    OBVIOUS
  <2>2. SUFFICES ASSUME r \notin mutated, ~rec[r].hidden, RecordBelongsToScope(r)
                 PROVE  \E i \in 1..n : selection'[i].id = r
    BY <1>2, <1>7, <2>1 DEF Selected, RecordBelongsToScope
  <2>3. k < next
    <3>1. next > Len(ranked) /\ next \in Int /\ Len(ranked) \in Nat
      BY <1>1, LenProperties DEF BuildRecallCandidates, TypeOK
    <3> QED BY <3>1
  <2>4. HydratedInv
    BY DEF RecallInv
  <2>5. PICK i \in 1..Len(selection) : selection[i].id = r
    BY <1>1, <2>1, <2>2, <2>3, <2>4 DEF HydratedInv, Selected
  <2>6. selection[i] \in S
    BY <1>4, LenProperties DEF S, ToSet
  <2> QED BY <1>3, <1>7, <2>5, <2>6
<1>17. HydratedInv'
  BY <1>2, <1>16 DEF HydratedInv
<1> QED BY <1>10, <1>11, <1>13, <1>14, <1>15, <1>17 DEF RecallInv

\* The order of the selection is strict.
LEMMA BeforeIsStrict ==
  ASSUME NEW c \in Hit, NEW d \in Hit, Before(c, d)
  PROVE  ~Before(d, c)
<1>1. /\ c.tokens \in Int /\ d.tokens \in Int /\ c.id \in Int /\ d.id \in Int
  BY DEF Hit, Records
<1>2. /\ c.score[1] \in Int /\ c.score[2] \in Int /\ d.score[1] \in Int /\ d.score[2] \in Int
  BY DEF Hit
<1>3. PICK p, q : p = c.score[1] * d.score[2] /\ q = d.score[1] * c.score[2]
  OBVIOUS
<1>4. p \in Int /\ q \in Int
  BY <1>2, <1>3
<1>5. /\ Greater(c.score, d.score) <=> p > q
      /\ Greater(d.score, c.score) <=> q > p
      /\ Equal(c.score, d.score) <=> p = q
      /\ Equal(d.score, c.score) <=> q = p
  BY <1>3 DEF Greater, Equal
<1> QED BY <1>1, <1>4, <1>5 DEF Before

\* The loop takes a record that fits.
LEMMA TakesHit ==
  ASSUME TypeOK, SelectionInv, BudgetInv, pc = "select", next <= Len(selection),
         Fits(selection[next]),
         totalEstimate' = totalEstimate + selection[next].tokens,
         hits' = Append(hits, selection[next]), next' = next + 1,
         UNCHANGED <<pc, budget, selection>>
  PROVE  BudgetInv'
<1> DEFINE c == selection[next]
           L == Len(hits)
<1>1. PICK t \in [0..L -> Nat] : Used(t)
  BY DEF BudgetInv
<1>2. /\ selection \in Seq(Hit) /\ hits \in Seq(Hit) /\ totalEstimate \in Nat
      /\ next \in Nat /\ next >= 1 /\ budget \in Int
  BY ConstantsAssumption DEF TypeOK
<1>3. L \in Nat /\ Len(selection) \in Nat /\ \A k \in 1..Len(selection) : selection[k] \in Hit
  BY <1>2, LenProperties, ElementOfSeq
<1>4. c \in Hit /\ c.tokens \in Nat
  BY <1>2, <1>3 DEF Hit
<1>5. Len(hits') = L + 1 /\ hits'[L + 1] = c /\ \A i \in 1..L : hits'[i] = hits[i]
  BY <1>2, <1>3, <1>4
<1>6. \A i \in 1..L : hits[i].tokens \in Nat
  <2>1. \A i \in 1..L : hits[i] \in Hit
    BY <1>2, ElementOfSeq
  <2> QED BY <2>1 DEF Hit
<1>7. /\ t[0] = 0 /\ t[L] = totalEstimate
      /\ \A i \in 1..L : t[i] = t[i - 1] + hits[i].tokens
      /\ budget > 0 => \A i \in 0..L : t[i] <= budget
  BY <1>1 DEF Used, RunningTotal
<1> HIDE DEF c, L
<1>8. PICK u \in [0..(L + 1) -> Nat] :
        u[L + 1] = totalEstimate + c.tokens /\ \A i \in 0..L : u[i] = t[i]
  <2> DEFINE v == [i \in 0..(L + 1) |-> IF i = L + 1 THEN totalEstimate + c.tokens ELSE t[i]]
  <2>1. v \in [0..(L + 1) -> Nat]
    BY <1>1, <1>2, <1>3, <1>4
  <2>2. v[L + 1] = totalEstimate + c.tokens /\ \A i \in 0..L : v[i] = t[i]
    BY <1>3
  <2> QED BY <2>1, <2>2
<1>9. RunningTotal(u, Len(hits))'
  <2>1. u[0] = 0
    BY <1>3, <1>7, <1>8
  <2>2. ASSUME NEW i \in 1..(L + 1)
        PROVE  u[i] = u[i - 1] + hits'[i].tokens
    <3>1. CASE i = L + 1
      <4>1. i - 1 = L /\ L \in 0..L
        BY <1>3, <3>1
      <4> QED BY <1>5, <1>7, <1>8, <3>1, <4>1
    <3>2. CASE i # L + 1
      <4>1. i \in 1..L /\ i \in 0..L /\ i - 1 \in 0..L
        BY <1>3, <3>2
      <4> QED BY <1>5, <1>7, <1>8, <4>1
    <3> QED BY <3>1, <3>2
  <2> QED BY <1>5, <2>1, <2>2 DEF RunningTotal
<1>10. budget > 0 => \A i \in 0..(L + 1) : u[i] <= budget
  <2>1. budget > 0 => totalEstimate + c.tokens <= budget
    BY <1>2 DEF Fits, c
  <2>2. \A i \in 0..(L + 1) : i \in 0..L \/ i = L + 1
    BY <1>3
  <2> QED BY <1>7, <1>8, <2>1, <2>2
<1>11. ASSUME NEW k \in 1..Len(selection), k < next + 1
       PROVE  \/ \E i \in 1..(L + 1) : hits'[i] = selection[k]
              \/ budget > 0 /\ DidNotFit(selection[k], u)'
  <2>1. CASE k = next
    <3>1. L + 1 \in 1..(L + 1) /\ selection[k] = c
      BY <1>3, <2>1 DEF c
    <3> QED BY <1>5, <3>1
  <2>2. CASE k # next
    <3>0. k < next
      BY <1>2, <1>11, <2>2
    <3>1. \/ \E i \in 1..L : hits[i] = selection[k]
          \/ budget > 0 /\ DidNotFit(selection[k], t)
      BY <1>1, <3>0 DEF Used, L
    <3>2. CASE \E i \in 1..L : hits[i] = selection[k]
      BY <1>3, <1>5, <3>2
    <3>3. CASE budget > 0 /\ DidNotFit(selection[k], t)
      <4>1. PICK n \in 0..L : /\ \A i \in 1..L : Before(hits[i], selection[k]) <=> i <= n
                              /\ t[n] + selection[k].tokens > budget
        BY <3>3 DEF DidNotFit, L
      <4>2. Before(selection[k], c)
        BY <1>2, <1>3, <3>0 DEF SelectionInv, c
      <4>3. ~Before(c, selection[k])
        BY <1>3, <1>4, <4>2, BeforeIsStrict
      <4>4. ASSUME NEW i \in 1..(L + 1)
            PROVE  Before(hits'[i], selection[k]) <=> i <= n
        <5>1. CASE i = L + 1
          BY <1>3, <1>5, <4>1, <4>3, <5>1
        <5>2. CASE i # L + 1
          <6>1. i \in 1..L
            BY <1>3, <5>2
          <6> QED BY <1>5, <4>1, <6>1
        <5> QED BY <5>1, <5>2
      <4>5. n \in 0..(L + 1) /\ u[n] + selection[k].tokens > budget
        BY <1>3, <1>8, <4>1
      <4>6. DidNotFit(selection[k], u)'
        BY <1>5, <4>4, <4>5 DEF DidNotFit, Before
      <4> QED BY <3>3, <4>6
    <3> QED BY <3>1, <3>2, <3>3
  <2> QED BY <2>1, <2>2
<1>12. Used(u)'
  BY <1>5, <1>8, <1>9, <1>10, <1>11 DEF Used
<1> QED BY <1>5, <1>8, <1>12 DEF BudgetInv

\* The loop drops a record that does not.
LEMMA DropsHit ==
  ASSUME TypeOK, SelectionInv, BudgetInv, pc = "select", next <= Len(selection),
         ~Fits(selection[next]), next' = next + 1,
         UNCHANGED <<pc, budget, selection, hits, totalEstimate>>
  PROVE  BudgetInv'
<1> DEFINE c == selection[next]
           L == Len(hits)
<1>1. PICK t \in [0..L -> Nat] : Used(t)
  BY DEF BudgetInv
<1>2. /\ selection \in Seq(Hit) /\ hits \in Seq(Hit) /\ totalEstimate \in Nat
      /\ next \in Nat /\ next >= 1 /\ budget \in Int
  BY ConstantsAssumption DEF TypeOK
<1>3. L \in Nat /\ Len(selection) \in Nat /\ next \in 1..Len(selection)
  BY <1>2, LenProperties
<1>4. c.tokens \in Nat
  <2>1. c \in Hit
    BY <1>2, <1>3, ElementOfSeq
  <2> QED BY <2>1 DEF Hit
<1>5. t[L] = totalEstimate
  BY <1>1 DEF Used
<1>6. budget > 0 /\ totalEstimate + c.tokens > budget
  BY <1>2, <1>4 DEF Fits
<1>7. ASSUME NEW i \in 1..L
      PROVE  Before(hits[i], c)
  <2>1. PICK k \in 1..Len(selection) : k < next /\ hits[i] = selection[k]
    BY DEF SelectionInv
  <2> QED BY <1>3, <2>1 DEF SelectionInv
<1>8. DidNotFit(c, t)
  <2>1. L \in 0..L /\ \A i \in 1..L : Before(hits[i], c) <=> i <= L
    BY <1>3, <1>7
  <2>2. t[L] + c.tokens > budget
    BY <1>5, <1>6
  <2> QED BY <2>1, <2>2 DEF DidNotFit
<1> HIDE DEF c
<1>9. ASSUME NEW k \in 1..Len(selection), k < next + 1
      PROVE  \/ \E i \in 1..L : hits[i] = selection[k]
             \/ budget > 0 /\ DidNotFit(selection[k], t)
  <2>1. CASE k = next
    BY <1>6, <1>8, <2>1 DEF c
  <2>2. CASE k # next
    <3>1. k < next
      BY <1>2, <1>9, <2>2
    <3> QED BY <1>1, <3>1 DEF Used
  <2> QED BY <2>1, <2>2
<1>10. \A d : DidNotFit(d, t)' <=> DidNotFit(d, t)
  BY DEF DidNotFit, Before
<1>11. Used(t)'
  <2>1. RunningTotal(t, Len(hits))' /\ t[L] = totalEstimate'
    BY <1>1, <1>5 DEF Used, RunningTotal
  <2>2. budget > 0 => \A i \in 0..L : t[i] <= budget
    BY <1>1 DEF Used
  <2> QED BY <1>9, <1>10, <2>1, <2>2 DEF Used
<1> QED BY <1>1, <1>11 DEF BudgetInv

LEMMA SelectStep ==
  ASSUME RecallInv, Select
  PROVE  RecallInv'
<1>1. /\ TypeOK /\ PhaseInv /\ SelectionInv /\ BudgetInv /\ pc = "select"
      /\ next <= Len(selection)
  BY DEF RecallInv, Select
<1>2. /\ UNCHANGED <<rec, mutated, pc, auth, scope, topK, budget, found, candidates, ranked,
                     selection>>
      /\ next' = next + 1
  BY DEF Select, request
<1> DEFINE c == selection[next]
<1>3. \/ /\ Fits(c) /\ totalEstimate' = totalEstimate + c.tokens /\ hits' = Append(hits, c)
      \/ ~Fits(c) /\ hits' = hits /\ totalEstimate' = totalEstimate
  BY DEF Select
<1>4. /\ selection \in Seq(Hit) /\ hits \in Seq(Hit) /\ totalEstimate \in Nat
      /\ next \in Nat /\ next >= 1 /\ NumRecords \in Nat
  BY <1>1, ConstantsAssumption DEF TypeOK
<1>5. Len(selection) \in Nat /\ Len(hits) \in Nat /\ next \in 1..Len(selection)
  BY <1>1, <1>4, LenProperties
<1>6. c \in Hit
  BY <1>4, <1>5, ElementOfSeq
<1>7. c.tokens \in Nat
  BY <1>6 DEF Hit
<1>8. BudgetInv'
  BY <1>1, <1>2, <1>3, TakesHit, DropsHit
<1> HIDE DEF c
<1>9. hits' \in Seq(Hit) /\ totalEstimate' \in Nat
  <2>1. Append(hits, c) \in Seq(Hit) /\ totalEstimate + c.tokens \in Nat
    BY <1>4, <1>6, <1>7
  <2> QED BY <1>3, <1>4, <2>1
<1>10. next' \in 1..(NumRecords + 1)
  BY <1>1, <1>2, <1>4, <1>5 DEF PhaseInv
<1>11. TypeOK'
  BY <1>1, <1>2, <1>9, <1>10 DEF TypeOK
<1>12. PhaseInv'
  BY <1>1, <1>2, <1>4, <1>5 DEF PhaseInv, Rejected
<1>13. ASSUME NEW i \in 1..Len(hits')
       PROVE  \E k \in 1..Len(selection) : k < next + 1 /\ hits'[i] = selection[k]
  <2>1. CASE i \in 1..Len(hits) /\ hits'[i] = hits[i]
    <3>1. PICK k \in 1..Len(selection) : k < next /\ hits[i] = selection[k]
      BY <1>1, <2>1 DEF SelectionInv
    <3>2. k < next + 1
      BY <1>4, <3>1
    <3> QED BY <2>1, <3>1, <3>2
  <2>2. CASE hits'[i] = c
    BY <1>4, <1>5, <2>2 DEF c
  <2>3. (i \in 1..Len(hits) /\ hits'[i] = hits[i]) \/ hits'[i] = c
    BY <1>3, <1>4, <1>5, <1>6
  <2> QED BY <2>1, <2>2, <2>3
<1>14. \A x : InSight(x)' <=> InSight(x)
  BY <1>2 DEF InSight, RecordBelongsToScope
<1>15. \A x, y : Before(x, y)' <=> Before(x, y)
  BY DEF Before
<1>16. SelectionInv'
  BY <1>1, <1>2, <1>13, <1>14, <1>15 DEF SelectionInv
<1>17. ScopeInv' /\ CandidatesInv' /\ RankedInv' /\ LexicalInv'
  BY <1>1, <1>2, SameMap
<1>18. HydratedInv'
  BY <1>1, <1>2, SameSelection
<1> QED BY <1>8, <1>11, <1>12, <1>16, <1>17, <1>18 DEF RecallInv

-----------------------------------------------------------------------------
(* The end of a request, and mutations during it. *)

\* The parts that do not look at the stage of the request, or not closely.
LEMMA EndStep ==
  ASSUME RecallInv, Respond \/ Fail
  PROVE  RecallInv'
<1>1. /\ TypeOK /\ PhaseInv /\ ScopeInv /\ CandidatesInv /\ SelectionInv /\ BudgetInv
  BY DEF RecallInv
<1>2. UNCHANGED <<rec, mutated, auth, scope, topK, budget, found, candidates, ranked, next,
                  selection, hits, totalEstimate>>
  BY DEF Respond, Fail, request
<1>3. \/ pc = "select" /\ next > Len(selection) /\ pc' = "answered"
      \/ pc \notin Rejected /\ pc' = "failed"
  BY DEF Respond, Fail, Rejected
<1>4. TypeOK' /\ PhaseInv' /\ ScopeInv'
  BY <1>1, <1>2, <1>3 DEF TypeOK, PhaseInv, ScopeInv, Rejected
<1>5. CandidatesInv' /\ RankedInv' /\ LexicalInv' /\ HydratedInv'
  <2>1. CASE pc = "select"
    BY <1>2, <2>1, SameMap, SameSelection
  <2>2. CASE pc' = "failed"
    BY <1>1, <1>2, <2>2
       DEF CandidatesInv, NamedInv, BestInv, AtMost, RankedInv, LexicalInv, HydratedInv
  <2> QED BY <1>3, <2>1, <2>2
<1>6. SelectionInv'
  BY <1>1, <1>2, <1>3 DEF SelectionInv, InSight, RecordBelongsToScope, Before
<1>7. BudgetInv'
  <2>1. \A t : Used(t)' <=> Used(t)
    BY <1>2 DEF Used, RunningTotal, DidNotFit, Before
  <2> QED BY <1>1, <1>2, <1>3, <2>1 DEF BudgetInv
<1> QED BY <1>4, <1>5, <1>6, <1>7 DEF RecallInv

LEMMA MutateStep ==
  ASSUME RecallInv, NEW r \in Records, Mutate(r)
  PROVE  RecallInv'
<1>1. /\ TypeOK /\ PhaseInv /\ ScopeInv /\ CandidatesInv /\ RankedInv /\ LexicalInv
      /\ SelectionInv
  BY DEF RecallInv
<1>2. /\ UNCHANGED <<pc, auth, scope, topK, budget, found, candidates, ranked, next,
                     selection, hits, totalEstimate>>
      /\ mutated' = mutated \cup {r} /\ pc \in {"lexical", "vector", "hydrate"}
  BY DEF Mutate, request
<1>3. /\ rec' \in [Records -> Record]
      /\ \A s \in Records : /\ rec'[s].user = rec[s].user
                            /\ rec'[s].project = rec[s].project
                            /\ s # r => rec'[s] = rec[s]
  BY <1>1, MutateColumns
<1>4. TypeOK'
  BY <1>1, <1>2, <1>3 DEF TypeOK
<1>5. PhaseInv' /\ ScopeInv'
  BY <1>1, <1>2 DEF PhaseInv, ScopeInv, Rejected
<1>6. CandidatesInv' /\ RankedInv'
  <2>1. \A x, y : Ahead(x, y)' <=> Ahead(x, y)
    BY <1>2 DEF Ahead
  <2>2. RankedInv'
    BY <1>1, <1>2, <2>1 DEF RankedInv
  <2>3. CandidatesInv'
    BY <1>1, <1>2 DEF CandidatesInv, NamedInv, BestInv, AtMost
  <2> QED BY <2>2, <2>3
<1>7. \A m : AtLeast(m)' = AtLeast(m)
  BY <1>2 DEF AtLeast
<1>8. ASSUME NEW s \in Records, s # r
      PROVE  /\ LexicalScore(s)' = LexicalScore(s) /\ (AboveVectors(s)' <=> AboveVectors(s))
             /\ AtLeast(LexicalScore(s))' = AtLeast(LexicalScore(s))
             /\ s \in LexicalMatches' => s \in LexicalMatches
  <2>1. rec'[s] = rec[s]
    BY <1>3, <1>8
  <2>2. LexicalScore(s)' = LexicalScore(s)
    BY <2>1 DEF LexicalScore
  <2> QED BY <1>2, <1>7, <2>1, <2>2 DEF LexicalMatches, AboveVectors, AtLeast
<1>9. LexicalInv'
  <2>1. ASSUME NEW s \in LexicalMatches' \ mutated', pc # "lexical"
        PROVE  /\ s \in DOMAIN candidates' \/ Cardinality(DOMAIN candidates') >= topK'
               /\ AboveVectors(s)' => \/ s \in AtLeast(LexicalScore(s))'
                                      \/ Cardinality(AtLeast(LexicalScore(s))') >= topK'
    <3>1. s \in Records /\ s # r /\ s \notin mutated
      BY <1>2 DEF LexicalMatches
    <3> QED BY <1>1, <1>2, <1>8, <2>1, <3>1 DEF LexicalInv
  <2>2. ASSUME NEW s \in DOMAIN candidates', candidates'[s] > MaxSimilarity, pc # "lexical"
        PROVE  candidates'[s] = LexicalScore(s)' \/ s \in mutated'
    <3>1. s \in Records /\ (candidates[s] = LexicalScore(s) \/ s \in mutated)
      BY <1>1, <1>2, <2>2 DEF LexicalInv, TypeOK
    <3> QED BY <1>2, <1>8, <3>1
  <2> QED BY <1>2, <2>1, <2>2 DEF LexicalInv
<1>10. ASSUME NEW i \in 1..Len(selection)
       PROVE  InSight(selection[i].id)'
  <2>1. selection[i] \in Hit
    BY <1>1, ElementOfSeq DEF TypeOK
  <2>2. PICK s \in Records : s = selection[i].id
    BY <2>1 DEF Hit
  <2>3. InSight(s)
    BY <1>1, <2>2 DEF SelectionInv
  <2>4. selection'[i].id = s
    BY <1>2, <2>2
  <2>5. RecordBelongsToScope(s)'
    BY <1>2, <1>3, <2>2, <2>3 DEF InSight, RecordBelongsToScope
  <2>6. rec'[s].hidden => s \in mutated'
    <3>1. CASE s = r
      BY <1>2, <3>1
    <3>2. CASE s # r
      BY <1>2, <1>3, <2>2, <2>3, <3>2 DEF InSight
    <3> QED BY <3>1, <3>2
  <2> QED BY <2>4, <2>5, <2>6 DEF InSight
<1>11. SelectionInv'
  BY <1>1, <1>2, <1>10 DEF SelectionInv
<1>12. BudgetInv'
  BY <1>2 DEF BudgetInv
<1>13. ASSUME NEW k \in 1..Len(ranked), Selected(ranked[k])
       PROVE  Selected(ranked[k])'
  <2>1. PICK s \in Records : s = ranked[k]
    BY <1>1, ElementOfSeq DEF TypeOK
  <2>2. CASE s = r
    BY <1>2, <2>1, <2>2 DEF Selected
  <2>3. CASE s # r
    <3>1. rec'[s] = rec[s]
      BY <1>3, <2>3
    <3>2. Selected(s)
      BY <1>13, <2>1
    <3>3. Selected(s)'
      BY <1>2, <3>1, <3>2 DEF Selected, RecordBelongsToScope
    <3> QED BY <1>2, <2>1, <3>3
  <2> QED BY <2>2, <2>3
<1>14. HydratedInv'
  <2>1. HydratedInv
    BY DEF RecallInv
  <2> QED BY <1>2, <1>13, <2>1 DEF HydratedInv
<1> QED BY <1>4, <1>5, <1>6, <1>9, <1>11, <1>12, <1>14 DEF RecallInv

-----------------------------------------------------------------------------
(* The theorems. *)

LEMMA RecallStep == RecallInv /\ [Next]_vars => RecallInv'
<1> SUFFICES ASSUME RecallInv, [Next]_vars
             PROVE  RecallInv'
  OBVIOUS
<1>1. CASE Next /\ ~UNCHANGED vars
  BY <1>1, StartStep, QueryLexicalStep, QueryVectorStep, RankStep, HydrateStep, BuildStep,
     SelectStep, EndStep, MutateStep DEF Next, Step, Ended
<1>2. CASE UNCHANGED vars
  <2>1. UNCHANGED <<rec, mutated, pc, auth, scope, topK, budget, found, candidates, ranked,
                    next, selection, hits, totalEstimate>>
    BY <1>2 DEF vars, request
  <2>2. TypeOK' /\ PhaseInv' /\ ScopeInv'
    BY <2>1 DEF RecallInv, TypeOK, PhaseInv, ScopeInv
  <2>3. CandidatesInv' /\ RankedInv'
    <3>1. CandidatesInv'
      BY <2>1 DEF RecallInv, CandidatesInv, NamedInv, BestInv, AtMost
    <3>2. \A x, y : Ahead(x, y)' <=> Ahead(x, y)
      BY <2>1 DEF Ahead
    <3>3. RankedInv'
      BY <2>1, <3>2 DEF RecallInv, RankedInv
    <3> QED BY <3>1, <3>3
  <2>4. LexicalInv' /\ HydratedInv'
    <3>2. \A r : Selected(r)' <=> Selected(r)
      BY <2>1 DEF Selected, RecordBelongsToScope
    <3>3. LexicalInv'
      BY <2>1, SameLexical DEF RecallInv
    <3>4. HydratedInv'
      BY <2>1, <3>2 DEF RecallInv, HydratedInv
    <3> QED BY <3>3, <3>4
  <2>5. SelectionInv'
    BY <2>1 DEF RecallInv, SelectionInv, InSight, RecordBelongsToScope, Before
  <2>6. BudgetInv'
    <3>1. \A t : Used(t)' <=> Used(t)
      BY <2>1 DEF Used, RunningTotal, DidNotFit, Before
    <3> QED BY <2>1, <3>1 DEF RecallInv, BudgetInv
  <2> QED BY <2>2, <2>3, <2>4, <2>5, <2>6 DEF RecallInv
<1> QED BY <1>1, <1>2

LEMMA RecallInvariant == Spec => []RecallInv
BY RecallInitial, RecallStep, PTL DEF Spec

\* The request and the records always have their types: in particular the loops
\* stay within what they run over, and top_k within 1..50.
THEOREM TypeCorrect == Spec => []TypeOK
<1>1. RecallInv => TypeOK
  BY DEF RecallInv
<1> QED BY <1>1, RecallInvariant, PTL

\* What the map holds for a record is the best score a source gave it.
LEMMA BestScoreInMap ==
  ASSUME TypeOK, CandidatesInv, NEW r \in DOMAIN candidates
  PROVE  BestScore(r) = candidates[r]
<1> DEFINE S == {p[2] : p \in {q \in found : q[1] = r}}
<1>1. <<r, candidates[r]>> \in found /\ AtMost(r, candidates[r])
  BY DEF CandidatesInv, BestInv
<1>2. candidates[r] \in S
  BY <1>1
<1>3. \A y \in S : y \in Int /\ y <= candidates[r]
  <2>1. ASSUME NEW p \in found, p[1] = r
        PROVE  p[2] \in Int /\ p[2] <= candidates[r]
    BY <1>1, <2>1 DEF AtMost, TypeOK, Pair
  <2> QED BY <2>1
<1> HIDE DEF S
<1>4. Max(S) = candidates[r]
  BY <1>2, <1>3, MaxIsGreatest
<1> QED BY <1>4 DEF BestScore, S

\* Whatever the sources answer, the ids to hydrate are the topK best of all that
\* they named, each by its best score (hybrid_recaller.go: the merge of Recall,
\* and rankedCandidateIDs).
THEOREM RanksBest == Spec => []RankedTopK
<1>1. ASSUME RecallInv, pc \in {"hydrate", "select", "answered"}
      PROVE  RankedTopK
  <2> DEFINE named == {p[1] : p \in found}
             Beats(r, s) == \/ BestScore(r) > BestScore(s)
                            \/ BestScore(r) = BestScore(s) /\ r < s
  <2>1. TypeOK /\ CandidatesInv /\ RankedInv
    BY <1>1 DEF RecallInv
  <2>2. named = DOMAIN candidates
    BY <2>1 DEF CandidatesInv, NamedInv
  <2>3. \A r, s \in named : Ahead(r, s) => Beats(r, s)
    BY <2>1, <2>2, BestScoreInMap DEF Ahead
  <2>4. DOMAIN ranked = 1..Len(ranked)
    BY <2>1, LenProperties DEF TypeOK
  <2>5. /\ \A i \in 1..Len(ranked) : ranked[i] \in named
        /\ Len(ranked) = Min({Cardinality(named), topK})
        /\ \A i, j \in 1..Len(ranked) : i < j => Ahead(ranked[i], ranked[j])
        /\ \A r \in named :
             \/ \E i \in 1..Len(ranked) : ranked[i] = r
             \/ Len(ranked) = topK /\ \A i \in 1..Len(ranked) : Ahead(ranked[i], r)
    BY <1>1, <2>1, <2>2 DEF RankedInv
  <2> HIDE DEF named, Beats
  <2>6. \A i, j \in DOMAIN ranked : i < j => Beats(ranked[i], ranked[j])
    BY <2>3, <2>4, <2>5
  <2>7. ASSUME NEW r \in named \ ToSet(ranked), NEW s \in ToSet(ranked)
        PROVE  Beats(s, r)
    <3>1. PICK j \in 1..Len(ranked) : ranked[j] = s
      BY <2>4, <2>7 DEF ToSet
    <3>2. ~\E i \in 1..Len(ranked) : ranked[i] = r
      BY <2>4, <2>7 DEF ToSet
    <3> QED BY <2>3, <2>5, <2>7, <3>1, <3>2
  <2> QED BY <2>5, <2>6, <2>7 DEF RankedTopK, named, Beats
<1>2. RecallInv => RankedTopK
  BY <1>1 DEF RankedTopK
<1> QED BY <1>2, RecallInvariant, PTL

\* If topK records are in the map with a score of m or more, then all that are
\* hydrated have one.
LEMMA Crowd ==
  ASSUME RecallInv, pc \in {"hydrate", "select", "answered"}, NEW m \in Int,
         Cardinality(AtLeast(m)) >= topK
  PROVE  ToSet(ranked) \subseteq AtLeast(m)
<1>1. TypeOK /\ RankedInv
  BY DEF RecallInv
<1>2. /\ ranked \in Seq(Records) /\ DOMAIN ranked = 1..Len(ranked) /\ Len(ranked) \in Nat
      /\ topK \in Nat /\ topK >= 1 /\ DOMAIN candidates \subseteq Records
      /\ \A x \in DOMAIN candidates : candidates[x] \in Int
  BY <1>1, LenProperties DEF TypeOK
<1>3. /\ \A i \in 1..Len(ranked) : ranked[i] \in DOMAIN candidates
      /\ Len(ranked) = Min({Cardinality(DOMAIN candidates), topK})
      /\ \A x \in DOMAIN candidates :
           \/ \E i \in 1..Len(ranked) : ranked[i] = x
           \/ Len(ranked) = topK /\ \A i \in 1..Len(ranked) : Ahead(ranked[i], x)
  BY <1>1 DEF RankedInv
<1>4. \A x : x \in ToSet(ranked) <=> \E i \in 1..Len(ranked) : ranked[i] = x
  BY <1>2 DEF ToSet
<1>5. /\ AtLeast(m) \subseteq DOMAIN candidates
      /\ \A x \in DOMAIN candidates : x \in AtLeast(m) <=> candidates[x] >= m
  BY DEF AtLeast
<1>6. /\ IsFiniteSet(DOMAIN candidates) /\ Cardinality(DOMAIN candidates) \in Nat
      /\ IsFiniteSet(AtLeast(m)) /\ Cardinality(AtLeast(m)) \in Nat
  BY <1>2, <1>5, SomeRecords
<1>7. Cardinality(AtLeast(m)) <= Cardinality(DOMAIN candidates)
  BY <1>5, <1>6, FS_Subset
<1>8. Len(ranked) = topK
  BY <1>2, <1>3, <1>6, <1>7, MinOfTwo
<1>9. ASSUME NEW s \in ToSet(ranked), s \notin AtLeast(m)
      PROVE  FALSE
  <2>0. PICK j \in 1..Len(ranked) : ranked[j] = s
    BY <1>4, <1>9
  <2>1. s \in DOMAIN candidates /\ candidates[s] < m
    <3>1. s \in DOMAIN candidates
      BY <1>3, <2>0
    <3>2. ~(candidates[s] >= m) /\ candidates[s] \in Int
      BY <1>2, <1>5, <1>9, <3>1
    <3> QED BY <3>1, <3>2
  <2>2. ASSUME NEW x \in AtLeast(m)
        PROVE  x \in ToSet(ranked)
    <3>1. ~Ahead(s, x)
      BY <1>2, <1>5, <2>1 DEF Ahead
    <3>2. x \in DOMAIN candidates
      BY <1>5
    <3>3. \E i \in 1..Len(ranked) : ranked[i] = x
      BY <1>3, <2>0, <3>1, <3>2
    <3> QED BY <1>4, <3>3
  <2>3. AtLeast(m) \subseteq ToSet(ranked) \ {s}
    BY <1>9, <2>2
  <2>4. /\ IsFiniteSet(ToSet(ranked)) /\ Cardinality(ToSet(ranked)) \in Nat
        /\ Cardinality(ToSet(ranked)) <= Len(ranked)
    BY <1>2, ElementsOfSeq
  <2>5. /\ IsFiniteSet(ToSet(ranked) \ {s})
        /\ Cardinality(ToSet(ranked) \ {s}) = Cardinality(ToSet(ranked)) - 1
    BY <1>9, <2>4, FS_RemoveElement
  <2>6. Cardinality(AtLeast(m)) <= Cardinality(ToSet(ranked) \ {s})
    BY <2>3, <2>5, FS_Subset
  <2> QED BY <1>2, <1>6, <1>8, <2>4, <2>5, <2>6
<1> QED BY <1>9

\* A record that is not hydrated was crowded out by topK others, and one that is
\* pinned or saved by others that are so too or far more important.
LEMMA CrowdedOut ==
  ASSUME RecallInv, pc \in {"hydrate", "select", "answered"},
         NEW r \in LexicalMatches \ (mutated \cup ToSet(ranked))
  PROVE  /\ Len(ranked) = topK
         /\ Kept(r) /\ rec[r].importance >= 0 =>
              \A s \in ToSet(ranked) :
                \/ Kept(s) \/ s \in mutated
                \/ rec[s].importance >= rec[r].importance + SavedScore
<1>1. TypeOK /\ RankedInv /\ LexicalInv
  BY DEF RecallInv
<1>2. /\ r \in DOMAIN candidates \/ Cardinality(DOMAIN candidates) >= topK
      /\ AboveVectors(r) => \/ r \in AtLeast(LexicalScore(r))
                            \/ Cardinality(AtLeast(LexicalScore(r))) >= topK
      /\ \A s \in DOMAIN candidates :
           candidates[s] > MaxSimilarity => candidates[s] = LexicalScore(s) \/ s \in mutated
  BY <1>1 DEF LexicalInv
<1>3. /\ ranked \in Seq(Records) /\ DOMAIN ranked = 1..Len(ranked) /\ Len(ranked) \in Nat
      /\ topK \in Nat /\ topK >= 1 /\ DOMAIN candidates \subseteq Records
      /\ \A x \in DOMAIN candidates : candidates[x] \in Int
  BY <1>1, LenProperties DEF TypeOK
<1>4. /\ \A i \in 1..Len(ranked) : ranked[i] \in DOMAIN candidates
      /\ Len(ranked) = Min({Cardinality(DOMAIN candidates), topK})
      /\ \A x \in DOMAIN candidates :
           \/ \E i \in 1..Len(ranked) : ranked[i] = x
           \/ Len(ranked) = topK /\ \A i \in 1..Len(ranked) : Ahead(ranked[i], x)
  BY <1>1 DEF RankedInv
<1>5. \A x : x \in ToSet(ranked) <=> \E i \in 1..Len(ranked) : ranked[i] = x
  BY <1>3 DEF ToSet
<1>6. Len(ranked) = topK
  <2>1. CASE r \in DOMAIN candidates
    BY <1>4, <1>5, <2>1
  <2>2. CASE Cardinality(DOMAIN candidates) >= topK
    <3>1. Cardinality(DOMAIN candidates) \in Nat
      BY <1>3, SomeRecords
    <3> QED BY <1>3, <1>4, <2>2, <3>1, MinOfTwo
  <2> QED BY <1>2, <2>1, <2>2
<1>7. r \in Records
  BY DEF LexicalMatches
<1>8. PICK m \in Int : m = LexicalScore(r)
  BY <1>1, <1>7, LexicalScoreType
<1>9. ASSUME AboveVectors(r), NEW s \in ToSet(ranked)
      PROVE  s \in AtLeast(m)
  <2>1. CASE r \in AtLeast(m)
    <3>1. r \in DOMAIN candidates /\ candidates[r] >= m
      BY <2>1 DEF AtLeast
    <3>2. s \in DOMAIN candidates /\ Ahead(s, r)
      BY <1>4, <1>5, <1>9, <3>1
    <3>3. candidates[s] >= candidates[r]
      BY <1>3, <3>1, <3>2 DEF Ahead
    <3>4. candidates[s] >= m
      BY <1>3, <3>1, <3>2, <3>3
    <3> QED BY <3>2, <3>4 DEF AtLeast
  <2>2. CASE Cardinality(AtLeast(m)) >= topK
    BY <1>9, <2>2, Crowd
  <2> QED BY <1>2, <1>8, <1>9, <2>1, <2>2
<1>10. ASSUME Kept(r), rec[r].importance >= 0, NEW s \in ToSet(ranked), s \notin mutated
       PROVE  Kept(s) \/ rec[s].importance >= rec[r].importance + SavedScore
  <2>1. AboveVectors(r)
    BY <1>1, <1>7, <1>10, KeptAbove
  <2>2. s \in DOMAIN candidates /\ candidates[s] >= m
    BY <1>9, <1>10, <2>1 DEF AtLeast
  <2>3. candidates[s] > MaxSimilarity
    BY <1>3, <1>8, <2>1, <2>2 DEF AboveVectors, MaxSimilarity
  <2>4. s \in Records /\ LexicalScore(s) >= LexicalScore(r)
    BY <1>2, <1>3, <1>8, <1>10, <2>2, <2>3
  <2> QED BY <1>1, <1>7, <1>10, <2>4, KeptAbove
<1> QED BY <1>6, <1>10

\* A record that matches is selected unless topK others are ahead of it, and one
\* that is pinned or saved is never crowded out by similarity: those ahead of it
\* are kept too, or at least 100 more important (hybrid_recaller.go: the cut to
\* topK before hydration; service.go: the loop that hydrates).
THEOREM MatchesStayInSight == Spec => []MatchesInSight
<1>1. ASSUME RecallInv, pc \in {"select", "answered"},
             NEW r \in LexicalMatches \ mutated, r \in ToSet(ranked)
      PROVE  \E c \in ToSet(selection) : c.id = r
  <2>1. TypeOK /\ HydratedInv
    BY <1>1 DEF RecallInv
  <2>2. /\ DOMAIN ranked = 1..Len(ranked)
        /\ DOMAIN selection = 1..Len(selection)
    BY <2>1, LenProperties DEF TypeOK
  <2>3. PICK k \in 1..Len(ranked) : ranked[k] = r
    BY <1>1, <2>2 DEF ToSet
  <2>4. ~rec[r].hidden /\ RecordBelongsToScope(r)
    BY <1>1 DEF LexicalMatches, RecordBelongsToScope
  <2>5. PICK i \in 1..Len(selection) : selection[i].id = r
    BY <1>1, <2>1, <2>3, <2>4 DEF HydratedInv, Selected
  <2> QED BY <2>2, <2>5 DEF ToSet
<1>2. RecallInv => MatchesInSight
  BY <1>1, CrowdedOut DEF MatchesInSight
<1> QED BY <1>2, RecallInvariant, PTL

\* Whatever the records cost, the hits are within the budget, and what was dropped
\* did not fit in with the hits ahead of it; without a budget nothing is dropped
\* (service.go: the budget loop).
THEOREM BudgetGreedy == Spec => []BudgetUsedWell
<1>1. ASSUME RecallInv, pc = "answered", budget > 0
      PROVE  \E t \in [0..Len(hits) -> 0..budget] :
               /\ RunningTotal(t, Len(hits))
               /\ \A c \in ToSet(selection) \ ToSet(hits) : DidNotFit(c, t)
  <2>1. TypeOK /\ PhaseInv /\ BudgetInv
    BY <1>1 DEF RecallInv
  <2>2. PICK t \in [0..Len(hits) -> Nat] : Used(t)
    BY <1>1, <2>1 DEF BudgetInv
  <2>3. t \in [0..Len(hits) -> 0..budget]
    <3>1. budget \in Int /\ \A i \in 0..Len(hits) : t[i] \in Nat /\ t[i] <= budget
      BY <1>1, <2>1, <2>2 DEF Used, TypeOK
    <3> QED BY <2>2, <3>1
  <2>4. /\ DOMAIN selection = 1..Len(selection) /\ DOMAIN hits = 1..Len(hits)
        /\ Len(selection) \in Nat /\ next \in Nat
    BY <2>1, LenProperties, ConstantsAssumption DEF TypeOK
  <2>5. \A k \in 1..Len(selection) : k < next
    BY <1>1, <2>1, <2>4 DEF PhaseInv
  <2>6. ASSUME NEW c \in ToSet(selection) \ ToSet(hits)
        PROVE  DidNotFit(c, t)
    <3>1. PICK k \in 1..Len(selection) : selection[k] = c
      BY <2>4, <2>6 DEF ToSet
    <3>2. ~\E i \in 1..Len(hits) : hits[i] = selection[k]
      BY <2>4, <2>6, <3>1 DEF ToSet
    <3> QED BY <2>2, <2>5, <3>1, <3>2 DEF Used
  <2>7. RunningTotal(t, Len(hits))
    BY <2>2 DEF Used
  <2> QED BY <2>3, <2>6, <2>7
<1>2. ASSUME RecallInv, pc = "answered", ~(budget > 0)
      PROVE  ToSet(selection) \subseteq ToSet(hits)
  <2>1. TypeOK /\ PhaseInv /\ BudgetInv
    BY <1>2 DEF RecallInv
  <2>2. PICK t \in [0..Len(hits) -> Nat] : Used(t)
    BY <1>2, <2>1 DEF BudgetInv
  <2>3. /\ DOMAIN selection = 1..Len(selection) /\ DOMAIN hits = 1..Len(hits)
        /\ Len(selection) \in Nat /\ next \in Nat
    BY <2>1, LenProperties, ConstantsAssumption DEF TypeOK
  <2>4. \A k \in 1..Len(selection) : k < next
    BY <1>2, <2>1, <2>3 DEF PhaseInv
  <2>5. \A k \in 1..Len(selection) : \E i \in 1..Len(hits) : hits[i] = selection[k]
    BY <1>2, <2>2, <2>4 DEF Used
  <2> QED BY <2>3, <2>5 DEF ToSet
<1>3. RecallInv => BudgetUsedWell
  BY <1>1, <1>2 DEF BudgetUsedWell
<1> QED BY <1>3, RecallInvariant, PTL

\* A hit belongs to the user and the project of the headers and was visible when
\* the request began, whatever the request claims, the vector store holds and
\* others do meanwhile (scope.go, postgres_recall_store.go).
THEOREM HitsBelong == Spec => []HitsInScope
<1>1. ASSUME RecallInv, NEW h \in ToSet(hits)
      PROVE  /\ rec[h.id].user = auth.user
             /\ auth.project = Empty \/ rec[h.id].project \in {auth.project, Empty}
             /\ rec[h.id].hidden => h.id \in mutated
  <2>1. TypeOK /\ PhaseInv /\ ScopeInv /\ SelectionInv
    BY <1>1 DEF RecallInv
  <2>2. DOMAIN hits = 1..Len(hits)
    BY <2>1, LenProperties DEF TypeOK
  <2>3. PICK i \in 1..Len(hits) : h = hits[i]
    BY <2>2 DEF ToSet
  <2>4. PICK k \in 1..Len(selection) : h = selection[k]
    BY <2>1, <2>3 DEF SelectionInv
  <2>5. InSight(h.id)
    BY <2>1, <2>4 DEF SelectionInv
  <2>6. pc \notin Rejected
    BY <2>1, <2>3 DEF PhaseInv
  <2>7. /\ scope.user = auth.user
        /\ auth.project = Empty \/ scope.project = auth.project
    BY <2>1, <2>6 DEF ScopeInv
  <2> QED BY <2>5, <2>7 DEF InSight, RecordBelongsToScope
<1>2. RecallInv => HitsInScope
  BY <1>1 DEF HitsInScope
<1> QED BY <1>2, RecallInvariant, PTL
=============================================================================
