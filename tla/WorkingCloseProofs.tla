------------------------- MODULE WorkingCloseProofs -------------------------
(***************************************************************************)
(* Theorems about WorkingClose, for every finite set of records and any    *)
(* number of closers, reapers and writers; calls fail and are replayed.    *)
(***************************************************************************)
EXTENDS WorkingClose, FiniteSetTheorems, TLAPS

-----------------------------------------------------------------------------
(* Accounts. *)

\* What is on an account can be counted.
LEMMA OnFinite ==
  ASSUME NEW f, IsFiniteSet(DOMAIN f), NEW a
  PROVE  IsFiniteSet(On(f, a)) /\ Cardinality(On(f, a)) \in Nat
<1>1. On(f, a) \in SUBSET DOMAIN f
  BY DEF On
<1>2. IsFiniteSet(On(f, a))
  BY <1>1, FS_Subset
<1> QED BY <1>2, FS_CardinalityType

\* f says on whose account something is.
Books(f) == IsFiniteSet(DOMAIN f) /\ f \in [DOMAIN f -> Closers \cup Accounts]

\* From f to g, the closer's account has one more and the others are the same.
OneMore(f, g, c) ==
  /\ Cardinality(On(g, c)) = Cardinality(On(f, c)) + 1
  /\ \A a : a # c /\ a # "none" => On(g, a) = On(f, a)

\* From f to g, what was on the closer's account is on account a, and the other
\* accounts are the same.
Moved(f, g, c, a) ==
  /\ Cardinality(On(g, a)) = Cardinality(On(f, a)) + Cardinality(On(f, c))
  /\ Cardinality(On(g, c)) = 0
  /\ \A b : b # a /\ b # c => On(g, b) = On(f, b)
  /\ g \in [DOMAIN f -> Closers \cup Accounts]
  /\ \A x \in DOMAIN f : g[x] = "none" <=> f[x] = "none"

\* Counting what nobody has counted adds one to the closer's account and nothing
\* to the others.
LEMMA OnAdd ==
  ASSUME NEW f, Books(f), NEW r \in DOMAIN f, f[r] = "none", NEW c \in Closers,
         NEW g, g = [f EXCEPT ![r] = c]
  PROVE  OneMore(f, g, c)
<1>1. c # "none"
  BY ConstantsAssumption DEF Accounts
<1>2. On(g, c) = On(f, c) \cup {r} /\ r \notin On(f, c)
  BY <1>1 DEF On, Books
<1>3. Cardinality(On(f, c) \cup {r}) = Cardinality(On(f, c)) + 1
  BY <1>2, OnFinite, FS_AddElement DEF Books
<1>4. ASSUME NEW a, a # c, a # "none"
      PROVE  On(g, a) = On(f, a)
  BY <1>4 DEF On, Books
<1> QED BY <1>2, <1>3, <1>4 DEF OneMore

\* A transfer moves the closer's count to the account and leaves the others.
LEMMA OnTransfer ==
  ASSUME NEW f, Books(f), NEW c \in Closers, NEW a \in {"reported", "lost"}
  PROVE  Moved(f, Transfer(f, c, a), c, a)
<1>1. a # c /\ a \in Accounts /\ c # "none" /\ a # "none"
  BY ConstantsAssumption DEF Accounts
<1>2. On(Transfer(f, c, a), a) = On(f, a) \cup On(f, c) /\ On(f, a) \cap On(f, c) = {}
  BY <1>1 DEF On, Transfer, Books
<1>3. Cardinality(On(f, a) \cup On(f, c)) = Cardinality(On(f, a)) + Cardinality(On(f, c))
  <2>1. Cardinality(On(f, a) \cup On(f, c))
          = Cardinality(On(f, a)) + Cardinality(On(f, c)) - Cardinality(On(f, a) \cap On(f, c))
    BY OnFinite, FS_Union DEF Books
  <2>2. Cardinality(On(f, a) \cap On(f, c)) = 0
    BY <1>2, FS_EmptySet
  <2>3. Cardinality(On(f, a)) \in Nat /\ Cardinality(On(f, c)) \in Nat
    BY OnFinite DEF Books
  <2> QED BY <2>1, <2>2, <2>3
<1>4. On(Transfer(f, c, a), c) = {}
  BY <1>1 DEF On, Transfer, Books
<1>5. ASSUME NEW b, b # a, b # c
      PROVE  On(Transfer(f, c, a), b) = On(f, b)
  BY <1>5 DEF On, Transfer, Books
<1>6. /\ Transfer(f, c, a) \in [DOMAIN f -> Closers \cup Accounts]
      /\ \A x \in DOMAIN f : Transfer(f, c, a)[x] = "none" <=> f[x] = "none"
  BY <1>1 DEF Transfer, Books
<1> QED BY <1>2, <1>3, <1>4, <1>5, <1>6, FS_EmptySet DEF Moved

\* The accounts of deletions and of promotions are finite.
LEMMA AccountsFinite ==
  ASSUME TypeOK
  PROVE  /\ Books(expiredBy) /\ DOMAIN expiredBy = Records
         /\ Books(promotedBy) /\ DOMAIN promotedBy = Records \X Closers
<1>1. IsFiniteSet(Records) /\ IsFiniteSet(Records \X Closers)
  BY ConstantsAssumption, FS_Product
<1>2. /\ DOMAIN expiredBy = Records /\ DOMAIN promotedBy = Records \X Closers
      /\ expiredBy \in [Records -> Closers \cup Accounts]
      /\ promotedBy \in [Records \X Closers -> Closers \cup Accounts]
  BY DEF TypeOK
<1> QED BY <1>1, <1>2 DEF Books

-----------------------------------------------------------------------------
(* Steps. *)

\* The fields of a record and of a closer.
LEMMA FieldTypes ==
  ASSUME TypeOK
  PROVE  /\ \A r \in Records : /\ rec[r].state \in {"none", "working", "episodic", "deleted"}
                               /\ rec[r].version \in 0..MaxVersion /\ rec[r].version \in Nat
         /\ \A c \in Closers :
              /\ cl[c] \in Closer /\ cl[c].mode \in Modes /\ cl[c].listed \in Listing
              /\ cl[c].todo \in SUBSET Records
              /\ cl[c].expired \in Nat /\ cl[c].promoted \in Nat
              /\ \A r \in Records : cl[c].listed[r] \in Nat
              /\ \A r \in cl[c].todo : cl[c].listed[r] > 0
         /\ \A r \in Records : reclaimedFrom[r] \in Nat
BY ConstantsAssumption DEF TypeOK, Record, Closer, Listing

\* The idle closer has its type.
LEMMA IdleCloserType ==
  /\ IdleCloser \in Closer /\ NoListing \in Listing
  /\ IdleCloser.pc = "idle" /\ IdleCloser.expired = 0 /\ IdleCloser.promoted = 0
  /\ IdleCloser.listed = NoListing /\ IdleCloser.todo = {}
BY ConstantsAssumption DEF IdleCloser, NoListing, Listing, Closer, Modes

\* How records change: a working record is new, rewritten or what it was.
Advance ==
  /\ rec' \in [Records -> Record] /\ kept \subseteq kept'
  /\ \A r \in Records :
       /\ rec[r].version <= rec'[r].version
       /\ rec'[r].state = "working" =>
            rec'[r] = rec[r] \/ rec[r].version < rec'[r].version

\* What is dealt with stays so.
LEMMA DealtStays ==
  ASSUME TypeOK, Advance, NEW L \in Listing,
         \A r \in Records : L[r] <= rec[r].version
  PROVE  /\ \A r \in Records : L[r] <= rec'[r].version
         /\ \A r \in Records : Dealt(L, r) =>
              (rec'[r].state = "working" => rec'[r].version > L[r] \/ r \in kept')
<1>1. \A r \in Records : L[r] \in Nat /\ rec[r].version \in Nat /\ rec'[r].version \in Nat
  BY FieldTypes, ConstantsAssumption DEF Listing, Advance, Record
<1> QED BY <1>1 DEF Advance, Dealt

\* A closer that takes no step is in order after a step.
LEMMA CloserStays ==
  ASSUME TypeOK, Advance, NEW c \in Closers, CloserOK(cl[c]), cl'[c] = cl[c]
  PROVE  CloserOK(cl[c])'
<1>1. cl[c].listed \in Listing
  BY FieldTypes
<1>2. \A r \in Records : cl[c].listed[r] <= rec[r].version
  BY DEF CloserOK
<1>3. /\ \A r \in Records : cl[c].listed[r] <= rec'[r].version
      /\ \A r \in Records : Dealt(cl[c].listed, r) =>
           (rec'[r].state = "working" => rec'[r].version > cl[c].listed[r] \/ r \in kept')
  BY <1>1, <1>2, DealtStays
<1> QED BY <1>3 DEF CloserOK, Dealt

\* A step of one closer, or of none, that does not close the session.
LEMMA CloserStepInv ==
  ASSUME TypeOK, CloserInv, Advance, closed' = closed, reclaimedFrom' = reclaimedFrom,
         NEW c, \A d \in Closers : d # c => cl'[d] = cl[d],
         c \in Closers => CloserOK(cl[c])'
  PROVE  CloserInv'
<1>1. \A r \in Records : rec'[r].state = "working" => rec'[r].version > 0
  <2>1. \A r \in Records : rec[r].version \in Nat /\ rec'[r].version \in Nat
    BY FieldTypes, ConstantsAssumption DEF Advance, Record
  <2> QED BY <2>1 DEF CloserInv, Advance
<1>2. reclaimedFrom \in Listing
  BY DEF TypeOK
<1>3. /\ \A r \in Records : reclaimedFrom[r] <= rec'[r].version
      /\ \A r \in Records : Dealt(reclaimedFrom, r) =>
           (rec'[r].state = "working" => rec'[r].version > reclaimedFrom[r] \/ r \in kept')
  BY <1>2, DealtStays DEF CloserInv
<1>4. ASSUME NEW d \in Closers PROVE CloserOK(cl[d])'
  BY CloserStays DEF CloserInv
<1> QED BY <1>1, <1>3, <1>4 DEF CloserInv, Dealt

\* Counts that nobody touches.
LEMMA SameCounts ==
  ASSUME CountedOnce, UNCHANGED <<totals, expiredBy, promotedBy, replayed>>,
         \A d \in Closers : cl'[d].expired = cl[d].expired /\ cl'[d].promoted = cl[d].promoted
  PROVE  CountedOnce'
BY DEF CountedOnce, On, totals

\* Nothing of what the invariant speaks of changes.
LEMMA SameInv ==
  ASSUME WorkingInv, UNCHANGED <<store, closed, cl, totals, ghosts, reclaimedFrom>>
  PROVE  WorkingInv'
<1>1. GhostInv'
  BY DEF WorkingInv, GhostInv, Settled, store, ghosts
<1>2. CloserInv'
  BY DEF WorkingInv, CloserInv, CloserOK, Dealt, store, ghosts
<1>3. CountedOnce'
  BY SameCounts DEF WorkingInv, ghosts
<1> QED BY <1>1, <1>2, <1>3 DEF WorkingInv

\* A closer steps, no record does: it has not counted what it is yet to handle.
LEMMA SameGhosts ==
  ASSUME WorkingInv, UNCHANGED <<store, ghosts>>, NEW c,
         \A d \in Closers : d # c => cl'[d] = cl[d],
         c \in Closers => \A r \in cl'[c].todo : promotedBy[<<r, c>>] = "none"
  PROVE  GhostInv'
BY DEF WorkingInv, GhostInv, Settled, store, ghosts

\* Nothing happens to the records.
LEMMA NoAdvance ==
  ASSUME TypeOK, rec' = rec, kept \subseteq kept'
  PROVE  Advance
BY FieldTypes DEF Advance, TypeOK

\* One record of a closer's list is dealt with by a backend call.
LEMMA HandledOK ==
  ASSUME TypeOK, WorkingInv, Advance, NEW c \in Closers, cl[c].pc = "loop", NEW r \in cl[c].todo,
         cl'[c].listed = cl[c].listed, cl'[c].pc = "loop", cl'[c].todo = cl[c].todo \ {r},
         rec'[r].state = "working" => rec'[r].version > cl[c].listed[r] \/ r \in kept'
  PROVE  CloserOK(cl[c])'
<1>1. CloserOK(cl[c]) /\ cl[c].listed \in Listing
  BY FieldTypes DEF WorkingInv, CloserInv
<1>2. /\ \A x \in Records : cl[c].listed[x] <= rec'[x].version
      /\ \A x \in Records : Dealt(cl[c].listed, x) =>
           (rec'[x].state = "working" => rec'[x].version > cl[c].listed[x] \/ x \in kept')
  BY <1>1, DealtStays DEF CloserOK
<1> QED BY <1>1, <1>2 DEF CloserOK, Dealt

-----------------------------------------------------------------------------
(* The actions. *)

LEMMA WriterStep ==
  ASSUME TypeOK, WorkingInv, NEW w \in Writers,
         Admit(w) \/ WriteFails(w) \/ \E r \in Records : Write(w, r)
  PROVE  TypeOK' /\ WorkingInv'
<1>1. CASE Admit(w) \/ WriteFails(w)
  <2>1. UNCHANGED <<store, closed, active, cl, totals, ghosts, reclaimedFrom>>
    BY <1>1 DEF Admit, WriteFails
  <2>2. TypeOK'
    BY <1>1, <2>1 DEF Admit, WriteFails, TypeOK, store, totals, ghosts
  <2>3. WorkingInv'
    BY <2>1, SameInv DEF WorkingInv
  <2> QED BY <2>2, <2>3
<1>2. ASSUME NEW r \in Records, Write(w, r)
      PROVE  TypeOK' /\ WorkingInv'
  <2>1. /\ rec[r].state \in {"none", "working"} /\ rec[r].version + 1 \in 0..MaxVersion
        /\ rec' = [rec EXCEPT ![r] = [state |-> "working", version |-> @.version + 1]]
        /\ UNCHANGED <<keys, closed, cl, totals, ghosts, reclaimedFrom>>
    BY <1>2, FieldTypes, ConstantsAssumption DEF Write
  <2>2. rec' \in [Records -> Record]
    BY <2>1 DEF TypeOK, Record
  <2>3. TypeOK'
    BY <1>2, <2>1, <2>2 DEF Write, TypeOK, totals, ghosts
  <2>4. Advance
    BY <2>1, <2>2, FieldTypes DEF Advance, TypeOK, ghosts
  <2>5. GhostInv'
    BY <2>1, <2>2 DEF WorkingInv, GhostInv, Settled, ghosts, TypeOK
  <2>6. CloserInv'
    <3>1. \A d \in Closers : CloserOK(cl[d])'
      BY <2>1, <2>4, CloserStays DEF WorkingInv, CloserInv
    <3> QED BY <2>1, <2>4, <3>1, CloserStepInv DEF WorkingInv
  <2>7. CountedOnce'
    BY <2>1, SameCounts DEF WorkingInv, ghosts
  <2> QED BY <2>3, <2>5, <2>6, <2>7 DEF WorkingInv
<1> QED BY <1>1, <1>2

\* The steps of a closer before its loop.
LEMMA BeginStep ==
  ASSUME TypeOK, WorkingInv, NEW c \in Closers,
         \/ ListIdle(c) \/ CheckOpen(c) \/ ListSessionWorking(c)
         \/ \E m \in Modes : ClientClose(c, m)
  PROVE  TypeOK' /\ WorkingInv'
<1> DEFINE Lists(k) == \A r \in k.todo : k.listed[r] > 0 /\ promotedBy[<<r, c>>] = "none"
           Begun(q) == /\ cl' = [cl EXCEPT ![c] = q] /\ CloserOK(q) /\ Lists(q)
                       /\ q.expired = 0 /\ q.promoted = 0 /\ cl[c].pc # "loop"
<1>0. UNCHANGED <<store, closed, active, wr, totals, ghosts, reclaimedFrom>>
  BY DEF ListIdle, CheckOpen, ListSessionWorking, ClientClose
<1>a. CloserOK(cl[c]) /\ cl[c] \in Closer
  BY FieldTypes DEF WorkingInv, CloserInv
<1>n. \A r \in Records : NoListing[r] <= rec[r].version
  BY FieldTypes DEF NoListing
<1>i. ASSUME NEW k \in Closer, k.listed = NoListing, k.expired = 0, k.promoted = 0,
             k.todo = {}, k.pc \in {"idle", "check", "list"}
      PROVE  CloserOK(k) /\ Lists(k)
  BY <1>i, <1>n DEF CloserOK
<1>1. CASE cl' = cl
  BY <1>0, <1>1, SameInv DEF TypeOK, store, totals, ghosts
<1>2. SUFFICES ASSUME cl' # cl PROVE TypeOK' /\ WorkingInv'
  BY <1>1
<1>3. \E q \in Closer : Begun(q)
  <2>1. CASE ListIdle(c)
    <3> DEFINE q == [IdleCloser EXCEPT !.pc = "check"]
    <3>1. /\ q \in Closer /\ q.listed = NoListing /\ q.expired = 0 /\ q.promoted = 0
          /\ q.pc = "check" /\ q.todo = {}
      BY IdleCloserType DEF Closer
    <3> QED BY <2>1, <3>1, <1>i DEF ListIdle
  <2>2. ASSUME NEW m \in Modes, ClientClose(c, m)
        PROVE  \E q \in Closer : Begun(q)
    <3> DEFINE q == [IdleCloser EXCEPT !.pc = "list", !.mode = m]
    <3>1. /\ q \in Closer /\ q.listed = NoListing /\ q.expired = 0 /\ q.promoted = 0
          /\ q.pc = "list" /\ q.todo = {}
      BY IdleCloserType DEF Closer
    <3>2. cl' = [cl EXCEPT ![c] = q] /\ cl[c].pc = "idle"
      BY <1>2, <2>2 DEF ClientClose
    <3> QED BY <3>1, <3>2, <1>i
  <2>3. CASE CheckOpen(c)
    <3>1. cl[c].pc = "check" /\ cl[c].expired = 0 /\ cl[c].promoted = 0 /\ cl[c].todo = {}
      BY <2>3, <1>a DEF CheckOpen, CloserOK
    <3>2. CASE closed
      <4>1. cl' = [cl EXCEPT ![c] = IdleCloser]
        BY <2>3, <3>2 DEF CheckOpen
      <4> QED BY <3>1, <4>1, IdleCloserType, <1>i
    <3>3. CASE ~closed
      <4> DEFINE q == [cl[c] EXCEPT !.pc = "list"]
      <4>1. cl' = [cl EXCEPT ![c] = q]
        BY <2>3, <3>3 DEF CheckOpen
      <4>2. /\ q \in Closer /\ q.listed = cl[c].listed /\ q.pc = "list" /\ q.todo = {}
            /\ q.expired = 0 /\ q.promoted = 0
        BY <1>a, <3>1 DEF Closer
      <4> HIDE DEF q
      <4>3. CloserOK(q) /\ Lists(q)
        BY <1>a, <4>2 DEF CloserOK
      <4> QED BY <3>1, <4>1, <4>2, <4>3
    <3> QED BY <3>2, <3>3
  <2>4. CASE ListSessionWorking(c)
    <3> DEFINE L == [r \in Records |-> IF r \in Live THEN rec[r].version ELSE 0]
               q == [cl[c] EXCEPT !.pc = "loop", !.todo = Live, !.listed = L]
    <3>1. cl[c].pc = "list" /\ cl[c].expired = 0 /\ cl[c].promoted = 0
      BY <2>4, <1>a DEF ListSessionWorking, CloserOK
    <3>2. L \in Listing /\ \A r \in Records : L[r] <= rec[r].version
      BY FieldTypes, ConstantsAssumption DEF Listing
    <3>3. cl' = [cl EXCEPT ![c] = q]
      BY <2>4 DEF ListSessionWorking
    <3> HIDE DEF L
    <3>4. Live \in SUBSET Records
      BY DEF Live
    <3>5. /\ q \in Closer /\ q.listed = L /\ q.pc = "loop" /\ q.todo = Live
          /\ q.expired = 0 /\ q.promoted = 0
      BY <1>a, <3>1, <3>2, <3>4 DEF Closer
    <3> HIDE DEF q
    <3>6. CloserOK(q)
      BY <3>2, <3>5 DEF CloserOK, Dealt, Live
    <3>7. ASSUME NEW r \in Live PROVE L[r] > 0 /\ promotedBy[<<r, c>>] = "none"
      <4>1. r \in Records /\ rec[r].state = "working" /\ L[r] = rec[r].version
        BY DEF Live, L
      <4> QED BY <4>1 DEF WorkingInv, CloserInv, GhostInv, Settled
    <3>8. Lists(q)
      BY <3>5, <3>7
    <3> QED BY <3>1, <3>3, <3>5, <3>6, <3>8
  <2> QED BY <2>1, <2>2, <2>3, <2>4
<1>4. PICK q \in Closer : Begun(q)
  BY <1>3
<1>5. cl'[c] = q /\ \A d \in Closers : d # c => cl'[d] = cl[d]
  BY <1>4 DEF TypeOK
<1>6. TypeOK'
  <2>1. \A d \in Closers : \A r \in cl'[d].todo : cl'[d].listed[r] > 0
    BY <1>4, <1>5, FieldTypes
  <2> QED BY <1>0, <1>4, <2>1 DEF TypeOK, store, totals, ghosts
<1>7. CloserOK(cl[c])'
  BY <1>0, <1>4, <1>5 DEF CloserOK, Dealt, store, ghosts
<1>8. cl'[c].expired = cl[c].expired /\ cl'[c].promoted = cl[c].promoted
  BY <1>4, <1>5, <1>a DEF CloserOK
<1>9. Advance
  BY <1>0, NoAdvance DEF store, ghosts
<1>10. CloserInv'
  BY <1>0, <1>5, <1>7, <1>9, CloserStepInv DEF WorkingInv
<1>11. CountedOnce'
  BY <1>0, <1>5, <1>8, SameCounts DEF WorkingInv, ghosts
<1>12. GhostInv'
  <2>1. \A r \in cl'[c].todo : promotedBy[<<r, c>>] = "none"
    BY <1>4, <1>5
  <2> QED BY <1>0, <1>5, <2>1, SameGhosts
<1> QED BY <1>6, <1>10, <1>11, <1>12 DEF WorkingInv

\* The closers after one of them is done with a record.
LEMMA HandledFields ==
  ASSUME TypeOK, NEW c \in Closers, NEW r \in Records
  PROVE  /\ Handled(c, r) \in [Closers -> Closer]
         /\ Handled(c, r)[c].pc = cl[c].pc /\ Handled(c, r)[c].listed = cl[c].listed
         /\ Handled(c, r)[c].todo = cl[c].todo \ {r}
         /\ Handled(c, r)[c].expired = cl[c].expired
         /\ Handled(c, r)[c].promoted = cl[c].promoted
         /\ \A d \in Closers : d # c => Handled(c, r)[d] = cl[d]
<1> DEFINE q == [cl[c] EXCEPT !.todo = cl[c].todo \ {r}]
<1>1. cl[c] \in Closer
  BY DEF TypeOK
<1>2. /\ q \in Closer /\ q.pc = cl[c].pc /\ q.listed = cl[c].listed
      /\ q.todo = cl[c].todo \ {r} /\ q.expired = cl[c].expired /\ q.promoted = cl[c].promoted
  BY <1>1 DEF Closer
<1>3. Handled(c, r) = [cl EXCEPT ![c] = q]
  BY DEF Handled
<1> HIDE DEF q
<1> QED BY <1>2, <1>3 DEF TypeOK

\* What is left to handle then.
LEMMA HandledTodo ==
  ASSUME TypeOK, NEW c \in Closers, NEW r \in Records,
         cl'[c].listed = cl[c].listed, cl'[c].todo = cl[c].todo \ {r},
         \A d \in Closers : d # c => cl'[d] = cl[d]
  PROVE  \A d \in Closers : \A x \in cl'[d].todo :
           cl'[d].listed[x] > 0 /\ x \in cl[d].todo /\ x \in Records /\ (d = c => x # r)
BY FieldTypes

\* What the closer has counted is its own, and the other accounts are the same.
PromotionCounted(c, r) ==
  /\ cl' \in [Closers -> Closer] /\ cl'[c].pc = "loop"
  /\ cl'[c].listed = cl[c].listed /\ cl'[c].todo = cl[c].todo \ {r}
  /\ cl'[c].expired = cl[c].expired /\ cl'[c].promoted = cl[c].promoted + 1
  /\ \A d \in Closers : d # c => cl'[d] = cl[d]
  /\ promotedBy' \in [Records \X Closers -> Closers \cup Accounts]
  /\ promotedBy'[<<r, c>>] = c /\ c # "none"
  /\ \A x \in Records, d \in Closers :
       <<x, d>> # <<r, c>> => promotedBy'[<<x, d>>] = promotedBy[<<x, d>>]
  /\ Cardinality(On(promotedBy', c)) = Cardinality(On(promotedBy, c)) + 1
  /\ \A a : a # c /\ a # "none" => On(promotedBy', a) = On(promotedBy, a)

\* The closer counts a promotion, of its own or replayed.
LEMMA PromotedFields ==
  ASSUME TypeOK, WorkingInv, NEW c \in Closers, NEW r \in Records, cl[c].pc = "loop",
         r \in cl[c].todo, Promoted(c, r)
  PROVE  PromotionCounted(c, r)
<1> DEFINE k == Handled(c, r)
           q == [k[c] EXCEPT !.promoted = @ + 1]
<1>1. cl' = [k EXCEPT ![c] = q] /\ promotedBy' = [promotedBy EXCEPT ![<<r, c>>] = c]
  BY DEF Promoted
<1>2. /\ k \in [Closers -> Closer] /\ k[c].pc = "loop" /\ k[c].listed = cl[c].listed
      /\ k[c].todo = cl[c].todo \ {r} /\ k[c].expired = cl[c].expired
      /\ k[c].promoted = cl[c].promoted /\ \A d \in Closers : d # c => k[d] = cl[d]
  BY HandledFields
<1> HIDE DEF k
<1>3. /\ q \in Closer /\ q.pc = k[c].pc /\ q.listed = k[c].listed /\ q.todo = k[c].todo
      /\ q.expired = k[c].expired /\ q.promoted = k[c].promoted + 1
  BY <1>2 DEF Closer
<1> HIDE DEF q
<1>4. /\ cl' \in [Closers -> Closer] /\ cl'[c].pc = "loop"
      /\ cl'[c].listed = cl[c].listed /\ cl'[c].todo = cl[c].todo \ {r}
      /\ cl'[c].expired = cl[c].expired /\ cl'[c].promoted = cl[c].promoted + 1
      /\ \A d \in Closers : d # c => cl'[d] = cl[d]
  BY <1>1, <1>2, <1>3
<1> DEFINE p == <<r, c>>
<1>5. /\ promotedBy \in [Records \X Closers -> Closers \cup Accounts]
      /\ p \in Records \X Closers /\ promotedBy[p] = "none"
  BY DEF TypeOK, WorkingInv, GhostInv
<1>6. /\ Cardinality(On(promotedBy', c)) = Cardinality(On(promotedBy, c)) + 1
      /\ \A a : a # c /\ a # "none" => On(promotedBy', a) = On(promotedBy, a)
  <2>1. Books(promotedBy) /\ p \in DOMAIN promotedBy
    BY <1>5, AccountsFinite
  <2>2. promotedBy[p] = "none" /\ promotedBy' = [promotedBy EXCEPT ![p] = c]
    BY <1>1, <1>5
  <2> HIDE DEF p
  <2>3. OneMore(promotedBy, promotedBy', c)
    BY <2>1, <2>2, OnAdd
  <2> QED BY <2>3 DEF OneMore
<1>7. c # "none"
  BY ConstantsAssumption DEF Accounts
<1>8. /\ promotedBy' \in [Records \X Closers -> Closers \cup Accounts]
      /\ promotedBy'[<<r, c>>] = c
      /\ \A x \in Records, d \in Closers :
           <<x, d>> # <<r, c>> => promotedBy'[<<x, d>>] = promotedBy[<<x, d>>]
  BY <1>1, <1>5
<1> QED BY <1>4, <1>6, <1>7, <1>8 DEF PromotionCounted

\* The closer handles one record of its list.
LEMMA RecordStep ==
  ASSUME TypeOK, WorkingInv, NEW c \in Closers, NEW r \in Records,
         \/ PassOver(c, r) \/ ExpireWorking(c, r)
         \/ Promote(c, r) \/ PromoteReplayed(c, r) \/ Collide(c, r)
  PROVE  TypeOK' /\ WorkingInv'
<1>0. /\ cl[c].pc = "loop" /\ r \in cl[c].todo
      /\ UNCHANGED <<closed, active, wr, totals, reclaimedFrom>>
  BY DEF PassOver, ExpireWorking, Promote, PromoteReplayed, Collide
<1>a. CloserOK(cl[c]) /\ cl[c] \in Closer /\ cl[c].listed \in Listing
  BY FieldTypes DEF WorkingInv, CloserInv
<1>b. rec[r].version \in Nat /\ cl[c].listed[r] \in Nat /\ cl[c].listed[r] <= rec[r].version
  BY <1>a, FieldTypes DEF CloserOK
<1>s. ASSUME NEW s \in {"deleted", "episodic"}, rec[r].state = "working",
             rec' = [rec EXCEPT ![r].state = s], kept' = kept
      PROVE  /\ Advance /\ rec'[r].state = s
             /\ \A x \in Records : x # r => rec'[x] = rec[x]
  <2> DEFINE x == [rec[r] EXCEPT !.state = s]
  <2>1. rec[r] \in Record
    BY DEF TypeOK
  <2>2. x \in Record /\ x.state = s /\ x.version = rec[r].version
    BY <2>1 DEF Record
  <2>3. rec' = [rec EXCEPT ![r] = x]
    BY <1>s
  <2> HIDE DEF x
  <2>4. s # "working"
    OBVIOUS
  <2>5. /\ rec' \in [Records -> Record] /\ rec'[r] = x
        /\ \A y \in Records : y # r => rec'[y] = rec[y]
    BY <2>2, <2>3 DEF TypeOK
  <2> QED BY <1>s, <2>2, <2>4, <2>5, FieldTypes DEF Advance
<1>g. rec[r].state = "working" =>
        expiredBy[r] = "none" /\ \A d \in Closers : promotedBy[<<r, d>>] = "none"
  BY DEF WorkingInv, GhostInv, Settled
<1>1. CASE PassOver(c, r)
  <2>1. UNCHANGED <<store, ghosts>> /\ Stale(c, r)
    BY <1>1 DEF PassOver
  <2>q. /\ cl' \in [Closers -> Closer] /\ cl'[c].pc = "loop"
        /\ cl'[c].listed = cl[c].listed /\ cl'[c].todo = cl[c].todo \ {r}
        /\ cl'[c].expired = cl[c].expired /\ cl'[c].promoted = cl[c].promoted
        /\ \A d \in Closers : d # c => cl'[d] = cl[d]
    BY <1>0, <1>1, HandledFields DEF PassOver
  <2>t. \A d \in Closers : \A x \in cl'[d].todo :
          cl'[d].listed[x] > 0 /\ x \in cl[d].todo /\ x \in Records /\ (d = c => x # r)
    BY <2>q, HandledTodo
  <2>3. Advance
    BY <2>1, NoAdvance DEF store, ghosts
  <2>4. rec'[r].state = "working" => rec'[r].version > cl[c].listed[r] \/ r \in kept'
    BY <2>1, <1>b DEF Stale, store
  <2>5. CloserOK(cl[c])'
    BY <1>0, <2>q, <2>3, <2>4, HandledOK
  <2>6. CloserInv'
    BY <1>0, <2>q, <2>3, <2>5, CloserStepInv DEF WorkingInv
  <2>7. CountedOnce'
    BY <1>0, <2>q, <2>1, SameCounts DEF WorkingInv, ghosts
  <2>8. GhostInv'
    <3>1. \A x \in cl'[c].todo : promotedBy[<<x, c>>] = "none"
      BY <2>t DEF WorkingInv, GhostInv
    <3> QED BY <2>1, <2>q, <3>1, SameGhosts
  <2>9. TypeOK'
    BY <1>0, <2>q, <2>1, <2>t DEF store, ghosts, totals, TypeOK
  <2> QED BY <2>6, <2>7, <2>8, <2>9 DEF WorkingInv
<1>2. CASE ExpireWorking(c, r)
  <2>1. /\ rec[r].state = "working" /\ rec' = [rec EXCEPT ![r].state = "deleted"]
        /\ expiredBy' = [expiredBy EXCEPT ![r] = c]
        /\ UNCHANGED <<keys, promotedBy, replayed, kept, collapsed>>
    BY <1>2 DEF ExpireWorking, Stale
  <2>3. /\ Advance /\ rec'[r].state = "deleted"
        /\ \A x \in Records : x # r => rec'[x] = rec[x]
    BY <1>s, <2>1
  <2>q. /\ cl' \in [Closers -> Closer] /\ cl'[c].pc = "loop"
        /\ cl'[c].listed = cl[c].listed /\ cl'[c].todo = cl[c].todo \ {r}
        /\ cl'[c].expired = cl[c].expired + 1 /\ cl'[c].promoted = cl[c].promoted
        /\ \A d \in Closers : d # c => cl'[d] = cl[d]
    <3> DEFINE k == Handled(c, r)
               q == [k[c] EXCEPT !.expired = @ + 1]
    <3>1. cl' = [k EXCEPT ![c] = q]
      BY <1>2 DEF ExpireWorking
    <3>2. /\ k \in [Closers -> Closer] /\ k[c].pc = "loop" /\ k[c].listed = cl[c].listed
          /\ k[c].todo = cl[c].todo \ {r} /\ k[c].expired = cl[c].expired
          /\ k[c].promoted = cl[c].promoted /\ \A d \in Closers : d # c => k[d] = cl[d]
      BY <1>0, HandledFields
    <3> HIDE DEF k
    <3>3. /\ q \in Closer /\ q.pc = k[c].pc /\ q.listed = k[c].listed /\ q.todo = k[c].todo
          /\ q.expired = k[c].expired + 1
          /\ q.promoted = k[c].promoted
      BY <3>2 DEF Closer
    <3> HIDE DEF q
    <3> QED BY <3>1, <3>2, <3>3
  <2>t. \A d \in Closers : \A x \in cl'[d].todo :
          cl'[d].listed[x] > 0 /\ x \in cl[d].todo /\ x \in Records /\ (d = c => x # r)
    BY <2>q, HandledTodo
  <2>5. CloserOK(cl[c])'
    BY <1>0, <2>q, <2>3, HandledOK
  <2>6. CloserInv'
    BY <1>0, <2>q, <2>3, <2>5, CloserStepInv DEF WorkingInv
  <2>7. CountedOnce'
    <3>1. expiredBy \in [Records -> Closers \cup Accounts] /\ expiredBy[r] = "none"
      BY <1>g, <2>1 DEF TypeOK
    <3>2. /\ Cardinality(On(expiredBy', c)) = Cardinality(On(expiredBy, c)) + 1
          /\ \A a : a # c /\ a # "none" => On(expiredBy', a) = On(expiredBy, a)
      <4>1. Books(expiredBy) /\ r \in DOMAIN expiredBy
        BY AccountsFinite
      <4>2. OneMore(expiredBy, expiredBy', c)
        BY <2>1, <3>1, <4>1, OnAdd
      <4> QED BY <4>2 DEF OneMore
    <3>3. \A d \in Closers : d # "none" /\ d # "reported"
      BY ConstantsAssumption DEF Accounts
    <3>4. On(promotedBy', "reported") = On(promotedBy, "reported")
          /\ \A d \in Closers : On(promotedBy', d) = On(promotedBy, d)
      BY <2>1
    <3> QED BY <1>0, <2>1, <2>q, <3>2, <3>3, <3>4 DEF WorkingInv, CountedOnce, totals
  <2>8. GhostInv'
    <3>1. \A x \in Records : Settled(x) => x # r /\ Settled(x)'
      BY <2>1, <2>3 DEF Settled, TypeOK
    <3>2. \A x \in Records : expiredBy'[x] # "none" => rec'[x].state = "deleted"
      BY <2>1, <2>3 DEF WorkingInv, GhostInv, TypeOK
    <3> QED BY <2>1, <2>t, <3>1, <3>2 DEF WorkingInv, GhostInv
  <2>9. TypeOK'
    BY <1>0, <2>1, <2>3, <2>q, <2>t DEF TypeOK, totals, Advance
  <2> QED BY <2>6, <2>7, <2>8, <2>9 DEF WorkingInv
<1>3. CASE Promote(c, r)
  <2>1. /\ rec[r].state = "working" /\ rec' = [rec EXCEPT ![r].state = "episodic"]
        /\ keys' = keys \cup {<<r, cl[c].listed[r]>>} /\ Promoted(c, r)
        /\ UNCHANGED <<expiredBy, replayed, kept, collapsed>>
    BY <1>3 DEF Promote, Stale
  <2>o. PromotionCounted(c, r)
    BY <1>0, <2>1, PromotedFields
  <2>3. /\ Advance /\ rec'[r].state = "episodic"
        /\ \A x \in Records : x # r => rec'[x] = rec[x]
    BY <1>s, <2>1
  <2>q. /\ cl' \in [Closers -> Closer] /\ cl'[c].pc = "loop"
        /\ cl'[c].listed = cl[c].listed /\ cl'[c].todo = cl[c].todo \ {r}
        /\ cl'[c].expired = cl[c].expired /\ cl'[c].promoted = cl[c].promoted + 1
        /\ \A d \in Closers : d # c => cl'[d] = cl[d]
    BY <2>o DEF PromotionCounted
  <2>p. /\ promotedBy' \in [Records \X Closers -> Closers \cup Accounts]
        /\ promotedBy'[<<r, c>>] = c /\ c # "none"
        /\ \A x \in Records, d \in Closers :
             <<x, d>> # <<r, c>> => promotedBy'[<<x, d>>] = promotedBy[<<x, d>>]
        /\ Cardinality(On(promotedBy', c)) = Cardinality(On(promotedBy, c)) + 1
        /\ \A a : a # c /\ a # "none" => On(promotedBy', a) = On(promotedBy, a)
    BY <2>o DEF PromotionCounted
  <2>t. \A d \in Closers : \A x \in cl'[d].todo :
          cl'[d].listed[x] > 0 /\ x \in cl[d].todo /\ x \in Records /\ (d = c => x # r)
    BY <2>q, HandledTodo
  <2>5. CloserOK(cl[c])'
    BY <1>0, <2>q, <2>3, HandledOK
  <2>6. CloserInv'
    BY <1>0, <2>q, <2>3, <2>5, CloserStepInv DEF WorkingInv
  <2>7. CountedOnce'
    <3>1. \A d \in Closers : d # "none" /\ d # "reported"
      BY ConstantsAssumption DEF Accounts
    <3>2. /\ On(expiredBy', "reported") = On(expiredBy, "reported")
          /\ \A d \in Closers : On(expiredBy', d) = On(expiredBy, d)
          /\ On(promotedBy', "reported") = On(promotedBy, "reported")
          /\ \A d \in Closers : d # c => On(promotedBy', d) = On(promotedBy, d)
      BY <2>1, <2>p, <3>1
    <3>3. /\ expiredTotal' = Cardinality(On(expiredBy', "reported"))
          /\ promotedTotal' = Cardinality(On(promotedBy', "reported"))
          /\ \A d \in Closers : /\ cl'[d].expired = Cardinality(On(expiredBy', d))
                                /\ cl'[d].promoted = Cardinality(On(promotedBy', d))
      BY <1>0, <2>q, <2>p, <3>2 DEF WorkingInv, CountedOnce, totals
    <3>4. ASSUME NEW x \in Records, NEW d \in Closers, NEW e \in Closers,
                 promotedBy'[<<x, d>>] # "none", promotedBy'[<<x, e>>] # "none",
                 {<<x, d>>, <<x, e>>} \cap replayed' = {}
          PROVE  d = e
      <4>1. CASE x = r
        BY <1>g, <2>1, <2>p, <3>4, <4>1
      <4>2. CASE x # r
        BY <2>1, <2>p, <3>4, <4>2 DEF WorkingInv, CountedOnce
      <4> QED BY <4>1, <4>2
    <3> QED BY <3>3, <3>4 DEF CountedOnce
  <2>8. GhostInv'
    <3>1. Settled(r)' /\ \A x \in Records : Settled(x) => Settled(x)'
      BY <1>g, <2>1, <2>3 DEF Settled
    <3>2. \A x \in Records : expiredBy'[x] # "none" => rec'[x].state = "deleted"
      BY <1>g, <2>1, <2>3 DEF WorkingInv, GhostInv
    <3>3. \A x \in Records : \A v \in 0..MaxVersion : <<x, v>> \in keys' => Settled(x)'
      BY <2>1, <3>1 DEF WorkingInv, GhostInv
    <3>4. \A x \in Records : \A d \in Closers : promotedBy'[<<x, d>>] # "none" => Settled(x)'
      BY <2>p, <3>1 DEF WorkingInv, GhostInv
    <3>5. \A d \in Closers : \A x \in cl'[d].todo : promotedBy'[<<x, d>>] = "none"
      BY <2>p, <2>t DEF WorkingInv, GhostInv
    <3> QED BY <3>2, <3>3, <3>4, <3>5 DEF GhostInv
  <2>9. TypeOK'
    <3>1. keys' \subseteq Key
      BY <1>a, <2>1 DEF TypeOK, Key, Listing
    <3> QED BY <1>0, <2>1, <2>3, <2>q, <2>p, <2>t, <3>1 DEF TypeOK, totals, Advance
  <2> QED BY <2>6, <2>7, <2>8, <2>9 DEF WorkingInv
<1>4. CASE PromoteReplayed(c, r)
  <2>0. Promoted(c, r)
    BY <1>4 DEF PromoteReplayed
  <2>o. PromotionCounted(c, r)
    BY <1>0, <2>0, PromotedFields
  <2>1. /\ <<r, cl[c].listed[r]>> \in keys
        /\ replayed' = replayed \cup {<<r, c>>}
        /\ UNCHANGED <<store, expiredBy, kept, collapsed>>
    BY <1>4 DEF PromoteReplayed
  <2>2. Settled(r) /\ rec[r].state # "working"
    BY <1>a, <2>1 DEF WorkingInv, GhostInv, Settled, Listing
  <2>3. Advance
    BY <2>1, NoAdvance DEF store
  <2>q. /\ cl' \in [Closers -> Closer] /\ cl'[c].pc = "loop"
        /\ cl'[c].listed = cl[c].listed /\ cl'[c].todo = cl[c].todo \ {r}
        /\ cl'[c].expired = cl[c].expired /\ cl'[c].promoted = cl[c].promoted + 1
        /\ \A d \in Closers : d # c => cl'[d] = cl[d]
    BY <2>o DEF PromotionCounted
  <2>p. /\ promotedBy' \in [Records \X Closers -> Closers \cup Accounts]
        /\ promotedBy'[<<r, c>>] = c /\ c # "none"
        /\ \A x \in Records, d \in Closers :
             <<x, d>> # <<r, c>> => promotedBy'[<<x, d>>] = promotedBy[<<x, d>>]
        /\ Cardinality(On(promotedBy', c)) = Cardinality(On(promotedBy, c)) + 1
        /\ \A a : a # c /\ a # "none" => On(promotedBy', a) = On(promotedBy, a)
    BY <2>o DEF PromotionCounted
  <2>t. \A d \in Closers : \A x \in cl'[d].todo :
          cl'[d].listed[x] > 0 /\ x \in cl[d].todo /\ x \in Records /\ (d = c => x # r)
    BY <2>q, HandledTodo
  <2>5. CloserOK(cl[c])'
    BY <1>0, <2>1, <2>2, <2>q, <2>3, HandledOK DEF store
  <2>6. CloserInv'
    BY <1>0, <2>q, <2>3, <2>5, CloserStepInv DEF WorkingInv
  <2>7. CountedOnce'
    <3>1. \A d \in Closers : d # "none" /\ d # "reported"
      BY ConstantsAssumption DEF Accounts
    <3>2. /\ On(expiredBy', "reported") = On(expiredBy, "reported")
          /\ \A d \in Closers : On(expiredBy', d) = On(expiredBy, d)
          /\ On(promotedBy', "reported") = On(promotedBy, "reported")
          /\ \A d \in Closers : d # c => On(promotedBy', d) = On(promotedBy, d)
      BY <2>1, <2>p, <3>1
    <3>3. /\ expiredTotal' = Cardinality(On(expiredBy', "reported"))
          /\ promotedTotal' = Cardinality(On(promotedBy', "reported"))
          /\ \A d \in Closers : /\ cl'[d].expired = Cardinality(On(expiredBy', d))
                                /\ cl'[d].promoted = Cardinality(On(promotedBy', d))
      BY <1>0, <2>q, <2>p, <3>2 DEF WorkingInv, CountedOnce, totals
    <3>4. ASSUME NEW x \in Records, NEW d \in Closers, NEW e \in Closers,
                 promotedBy'[<<x, d>>] # "none", promotedBy'[<<x, e>>] # "none",
                 {<<x, d>>, <<x, e>>} \cap replayed' = {}
          PROVE  d = e
      <4>1. <<x, d>> # <<r, c>> /\ <<x, e>> # <<r, c>>
        BY <2>1, <3>4
      <4>2. /\ promotedBy[<<x, d>>] # "none" /\ promotedBy[<<x, e>>] # "none"
            /\ {<<x, d>>, <<x, e>>} \cap replayed = {}
        BY <2>1, <2>p, <3>4, <4>1
      <4> QED BY <4>2 DEF WorkingInv, CountedOnce
    <3> QED BY <3>3, <3>4 DEF CountedOnce
  <2>8. GhostInv'
    <3>1. \A x \in Records : Settled(x) => Settled(x)'
      BY <2>1 DEF Settled, store
    <3>2. \A x \in Records : \A d \in Closers : promotedBy'[<<x, d>>] # "none" => Settled(x)'
      BY <2>2, <2>p, <3>1 DEF WorkingInv, GhostInv
    <3>3. \A d \in Closers : \A x \in cl'[d].todo : promotedBy'[<<x, d>>] = "none"
      BY <2>p, <2>t DEF WorkingInv, GhostInv
    <3> QED BY <2>1, <3>1, <3>2, <3>3 DEF WorkingInv, GhostInv, store
  <2>9. TypeOK'
    <3>1. replayed' \subseteq Records \X Closers
      BY <2>1 DEF TypeOK
    <3> QED BY <1>0, <2>1, <2>q, <2>p, <2>t, <3>1 DEF TypeOK, totals, store
  <2> QED BY <2>6, <2>7, <2>8, <2>9 DEF WorkingInv
<1>5. CASE Collide(c, r)
  <2>0. PICK losers \in SUBSET {x \in Records : rec[x].state \in {"working", "episodic"}} :
          /\ rec' = [x \in Records |->
                      IF x \in losers THEN [rec[x] EXCEPT !.state = "deleted"] ELSE rec[x]]
          /\ collapsed' = collapsed \cup losers
          /\ kept' = kept \cup ({r} \ losers)
    BY <1>5 DEF Collide
  <2>1. UNCHANGED <<keys, expiredBy, promotedBy, replayed>>
    BY <1>5 DEF Collide
  <2>2. \A x \in Records :
          /\ rec'[x] \in Record /\ rec'[x].version = rec[x].version
          /\ x \notin losers => rec'[x] = rec[x]
          /\ x \in losers => rec'[x].state = "deleted"
    <3> SUFFICES ASSUME NEW x \in Records
                 PROVE  /\ rec'[x] \in Record /\ rec'[x].version = rec[x].version
                        /\ x \notin losers => rec'[x] = rec[x]
                        /\ x \in losers => rec'[x].state = "deleted"
      OBVIOUS
    <3>1. rec[x] \in Record
      BY DEF TypeOK
    <3>2. CASE x \in losers
      <4>1. rec'[x] = [rec[x] EXCEPT !.state = "deleted"]
        BY <2>0, <3>2
      <4> QED BY <3>1, <3>2, <4>1 DEF Record
    <3>3. CASE x \notin losers
      BY <2>0, <3>1, <3>3
    <3> QED BY <3>2, <3>3
  <2>3. Advance /\ kept' \subseteq Records /\ collapsed' \subseteq Records
    <3>1. rec' \in [Records -> Record]
      BY <2>0, <2>2
    <3> QED BY <2>0, <2>2, <3>1, FieldTypes DEF Advance, TypeOK
  <2>4. rec'[r].state = "working" => r \in kept'
    BY <2>0, <2>2
  <2>q. /\ cl' \in [Closers -> Closer] /\ cl'[c].pc = "loop"
        /\ cl'[c].listed = cl[c].listed /\ cl'[c].todo = cl[c].todo \ {r}
        /\ cl'[c].expired = cl[c].expired /\ cl'[c].promoted = cl[c].promoted
        /\ \A d \in Closers : d # c => cl'[d] = cl[d]
    BY <1>0, <1>5, HandledFields DEF Collide
  <2>t. \A d \in Closers : \A x \in cl'[d].todo :
          cl'[d].listed[x] > 0 /\ x \in cl[d].todo /\ x \in Records /\ (d = c => x # r)
    BY <2>q, HandledTodo
  <2>5. CloserOK(cl[c])'
    BY <1>0, <2>q, <2>3, <2>4, HandledOK
  <2>6. CloserInv'
    BY <1>0, <2>q, <2>3, <2>5, CloserStepInv DEF WorkingInv
  <2>7. CountedOnce'
    BY <1>0, <2>1, <2>q, SameCounts DEF WorkingInv
  <2>8. GhostInv'
    <3>1. \A x \in Records : Settled(x) => Settled(x)'
      BY <2>0, <2>1, <2>2 DEF Settled
    <3>2. \A x \in Records : expiredBy'[x] # "none" => rec'[x].state = "deleted"
      BY <2>1, <2>2 DEF WorkingInv, GhostInv
    <3> QED BY <2>1, <2>t, <3>1, <3>2 DEF WorkingInv, GhostInv
  <2>9. TypeOK'
    BY <1>0, <2>1, <2>3, <2>q, <2>t DEF TypeOK, totals, Advance
  <2> QED BY <2>6, <2>7, <2>8, <2>9 DEF WorkingInv
<1> QED BY <1>1, <1>2, <1>3, <1>4, <1>5

\* Accounts change hands: who has counted a thing changes, not whether.
LEMMA BooksStay ==
  ASSUME WorkingInv, UNCHANGED <<store, collapsed>>,
         \A r \in Records : expiredBy'[r] = "none" <=> expiredBy[r] = "none",
         \A r \in Records, d \in Closers :
           promotedBy'[<<r, d>>] = "none" <=> promotedBy[<<r, d>>] = "none",
         \A d \in Closers : \A r \in cl'[d].todo : r \in Records /\ r \in cl[d].todo
  PROVE  GhostInv'
<1>1. \A r \in Records : Settled(r) => Settled(r)'
  BY DEF Settled, store
<1> QED BY <1>1 DEF WorkingInv, GhostInv, store

\* The observer is told.
LEMMA ObserveStep ==
  ASSUME TypeOK, WorkingInv, NEW c \in Closers, Observe(c)
  PROVE  TypeOK' /\ WorkingInv'
<1> DEFINE q == [cl[c] EXCEPT !.pc = "save", !.expired = 0, !.promoted = 0]
<1>1. /\ cl[c].pc = "loop" /\ cl[c].todo = {} /\ cl' = [cl EXCEPT ![c] = q]
      /\ expiredTotal' = expiredTotal + cl[c].expired
      /\ promotedTotal' = promotedTotal + cl[c].promoted
      /\ expiredBy' = Transfer(expiredBy, c, "reported")
      /\ promotedBy' = Transfer(promotedBy, c, "reported")
      /\ UNCHANGED <<store, closed, active, wr, replayed, kept, collapsed, reclaimedFrom>>
  BY DEF Observe
<1>a. CloserOK(cl[c]) /\ cl[c] \in Closer
  BY FieldTypes DEF WorkingInv, CloserInv
<1>2. /\ q \in Closer /\ q.pc = "save" /\ q.expired = 0 /\ q.promoted = 0
      /\ q.listed = cl[c].listed /\ q.todo = {}
  BY <1>1, <1>a DEF Closer
<1> HIDE DEF q
<1>3. cl'[c] = q /\ \A d \in Closers : d # c => cl'[d] = cl[d]
  BY <1>1 DEF TypeOK
<1>4. /\ Books(expiredBy) /\ DOMAIN expiredBy = Records
      /\ Books(promotedBy) /\ DOMAIN promotedBy = Records \X Closers
      /\ expiredTotal \in Nat /\ promotedTotal \in Nat
      /\ cl[c].expired \in Nat /\ cl[c].promoted \in Nat
  BY FieldTypes, AccountsFinite DEF TypeOK
<1>5. /\ Cardinality(On(expiredBy', "reported"))
           = Cardinality(On(expiredBy, "reported")) + Cardinality(On(expiredBy, c))
      /\ Cardinality(On(expiredBy', c)) = 0
      /\ \A b : b # "reported" /\ b # c => On(expiredBy', b) = On(expiredBy, b)
      /\ expiredBy' \in [Records -> Closers \cup Accounts]
      /\ \A r \in Records : expiredBy'[r] = "none" <=> expiredBy[r] = "none"
  <2>1. Moved(expiredBy, expiredBy', c, "reported")
    BY <1>1, <1>4, OnTransfer
  <2> QED BY <1>4, <2>1 DEF Moved
<1>6. /\ Cardinality(On(promotedBy', "reported"))
           = Cardinality(On(promotedBy, "reported")) + Cardinality(On(promotedBy, c))
      /\ Cardinality(On(promotedBy', c)) = 0
      /\ \A b : b # "reported" /\ b # c => On(promotedBy', b) = On(promotedBy, b)
      /\ promotedBy' \in [Records \X Closers -> Closers \cup Accounts]
      /\ \A r \in Records, d \in Closers :
           promotedBy'[<<r, d>>] = "none" <=> promotedBy[<<r, d>>] = "none"
  <2>1. Moved(promotedBy, promotedBy', c, "reported")
    BY <1>1, <1>4, OnTransfer
  <2> QED BY <1>4, <2>1 DEF Moved
<1>7. TypeOK'
  <2>1. \A d \in Closers : \A r \in cl'[d].todo : cl'[d].listed[r] > 0
    BY <1>2, <1>3, FieldTypes
  <2> QED BY <1>1, <1>2, <1>4, <1>5, <1>6, <2>1 DEF TypeOK, store
<1>8. CloserOK(cl[c])'
  BY <1>1, <1>2, <1>3, <1>a DEF CloserOK, Dealt, store
<1>9. Advance
  BY <1>1, NoAdvance DEF store
<1>10. CloserInv'
  BY <1>1, <1>3, <1>8, <1>9, CloserStepInv DEF WorkingInv
<1>11. CountedOnce'
  <2>1. \A d \in Closers : d # "reported"
    BY ConstantsAssumption DEF Accounts
  <2>2. CountedOnce
    BY DEF WorkingInv
  <2>3. \A d \in Closers : /\ cl'[d].expired = Cardinality(On(expiredBy', d))
                           /\ cl'[d].promoted = Cardinality(On(promotedBy', d))
    BY <1>2, <1>3, <1>5, <1>6, <2>1, <2>2 DEF CountedOnce
  <2>4. \A r \in Records : \A d, e \in Closers :
          /\ promotedBy'[<<r, d>>] # "none" /\ promotedBy'[<<r, e>>] # "none"
          /\ {<<r, d>>, <<r, e>>} \cap replayed' = {}
          => d = e
    BY <1>1, <1>6, <2>2 DEF CountedOnce
  <2>5. /\ expiredTotal' = Cardinality(On(expiredBy', "reported"))
        /\ promotedTotal' = Cardinality(On(promotedBy', "reported"))
    BY <1>1, <1>5, <1>6, <2>2 DEF CountedOnce
  <2> QED BY <2>3, <2>4, <2>5 DEF CountedOnce
<1>12. GhostInv'
  <2>1. \A d \in Closers : \A r \in cl'[d].todo : r \in Records /\ r \in cl[d].todo
    BY <1>2, <1>3, FieldTypes
  <2> QED BY <1>1, <1>5, <1>6, <2>1, BooksStay
<1> QED BY <1>7, <1>10, <1>11, <1>12 DEF WorkingInv

\* A call fails, and with it the close.
LEMMA AbortStep ==
  ASSUME TypeOK, WorkingInv, NEW c \in Closers, Abort(c)
  PROVE  TypeOK' /\ WorkingInv'
<1>1. /\ cl' = [cl EXCEPT ![c] = IdleCloser]
      /\ expiredBy' = Transfer(expiredBy, c, "lost")
      /\ promotedBy' = Transfer(promotedBy, c, "lost")
      /\ UNCHANGED <<store, closed, active, wr, totals, replayed, kept, collapsed, reclaimedFrom>>
  BY DEF Abort
<1>2. cl'[c] = IdleCloser /\ \A d \in Closers : d # c => cl'[d] = cl[d]
  BY <1>1 DEF TypeOK
<1>3. /\ Books(expiredBy) /\ DOMAIN expiredBy = Records
      /\ Books(promotedBy) /\ DOMAIN promotedBy = Records \X Closers
  BY AccountsFinite
<1>4. /\ Cardinality(On(expiredBy', c)) = 0
      /\ \A b : b # "lost" /\ b # c => On(expiredBy', b) = On(expiredBy, b)
      /\ expiredBy' \in [Records -> Closers \cup Accounts]
      /\ \A r \in Records : expiredBy'[r] = "none" <=> expiredBy[r] = "none"
  <2>1. Moved(expiredBy, expiredBy', c, "lost")
    BY <1>1, <1>3, OnTransfer
  <2> QED BY <1>3, <2>1 DEF Moved
<1>5. /\ Cardinality(On(promotedBy', c)) = 0
      /\ \A b : b # "lost" /\ b # c => On(promotedBy', b) = On(promotedBy, b)
      /\ promotedBy' \in [Records \X Closers -> Closers \cup Accounts]
      /\ \A r \in Records, d \in Closers :
           promotedBy'[<<r, d>>] = "none" <=> promotedBy[<<r, d>>] = "none"
  <2>1. Moved(promotedBy, promotedBy', c, "lost")
    BY <1>1, <1>3, OnTransfer
  <2> QED BY <1>3, <2>1 DEF Moved
<1>t. \A d \in Closers : \A r \in cl'[d].todo :
        cl'[d].listed[r] > 0 /\ r \in Records /\ r \in cl[d].todo
  BY <1>2, IdleCloserType, FieldTypes
<1>6. TypeOK'
  BY <1>1, <1>4, <1>5, <1>t, IdleCloserType DEF TypeOK, totals, store
<1>7. CloserOK(cl[c])'
  BY <1>1, <1>2, IdleCloserType, FieldTypes DEF CloserOK, NoListing, store
<1>8. Advance
  BY <1>1, NoAdvance DEF store
<1>9. CloserInv'
  BY <1>1, <1>2, <1>7, <1>8, CloserStepInv DEF WorkingInv
<1>10. CountedOnce'
  <2>1. "reported" # "lost" /\ \A d \in Closers : d # "reported" /\ d # "lost"
    BY ConstantsAssumption DEF Accounts
  <2>2. CountedOnce
    BY DEF WorkingInv
  <2>3. \A d \in Closers : /\ cl'[d].expired = Cardinality(On(expiredBy', d))
                           /\ cl'[d].promoted = Cardinality(On(promotedBy', d))
    BY <1>2, <1>4, <1>5, <2>1, <2>2, IdleCloserType DEF CountedOnce
  <2>4. On(expiredBy', "reported") = On(expiredBy, "reported")
        /\ On(promotedBy', "reported") = On(promotedBy, "reported")
    BY <1>4, <1>5, <2>1
  <2>5. \A r \in Records : \A d, e \in Closers :
          /\ promotedBy'[<<r, d>>] # "none" /\ promotedBy'[<<r, e>>] # "none"
          /\ {<<r, d>>, <<r, e>>} \cap replayed' = {}
          => d = e
    BY <1>1, <1>5, <2>2 DEF CountedOnce
  <2> QED BY <1>1, <2>2, <2>3, <2>4, <2>5 DEF CountedOnce, totals
<1>11. GhostInv'
  BY <1>1, <1>4, <1>5, <1>t, BooksStay
<1> QED BY <1>6, <1>9, <1>10, <1>11 DEF WorkingInv

\* The session's row is written.
LEMMA SaveStep ==
  ASSUME TypeOK, WorkingInv, NEW c \in Closers, Save(c)
  PROVE  TypeOK' /\ WorkingInv'
<1>1. /\ cl[c].pc = "save" /\ closed' = TRUE
      /\ reclaimedFrom' = IF closed THEN reclaimedFrom ELSE cl[c].listed
      /\ cl' = [cl EXCEPT ![c] = IdleCloser]
      /\ UNCHANGED <<store, active, wr, totals, ghosts>>
  BY DEF Save
<1>2. cl'[c] = IdleCloser /\ \A d \in Closers : d # c => cl'[d] = cl[d]
  BY <1>1 DEF TypeOK
<1>a. CloserOK(cl[c]) /\ CloserInv
  BY DEF WorkingInv, CloserInv
<1>3. cl[c].expired = 0 /\ cl[c].promoted = 0 /\ cl[c].todo = {}
  BY <1>1, <1>a DEF CloserOK
<1>4. TypeOK'
  <2>1. reclaimedFrom' \in Listing
    BY <1>1, FieldTypes DEF TypeOK
  <2>2. \A d \in Closers : \A r \in cl'[d].todo : cl'[d].listed[r] > 0
    BY <1>2, IdleCloserType, FieldTypes
  <2> QED BY <1>1, <2>1, <2>2, IdleCloserType DEF TypeOK, totals, store, ghosts
<1>5. CountedOnce'
  <2>1. \A d \in Closers : cl'[d].expired = cl[d].expired /\ cl'[d].promoted = cl[d].promoted
    BY <1>2, <1>3, IdleCloserType
  <2> QED BY <1>1, <2>1, SameCounts DEF WorkingInv, ghosts
<1>6. CloserInv'
  <2>1. \A d \in Closers : CloserOK(cl[d])'
    <3>1. CloserOK(cl[c])'
      BY <1>1, <1>2, IdleCloserType, FieldTypes DEF CloserOK, NoListing, store
    <3>2. ASSUME NEW d \in Closers, d # c PROVE CloserOK(cl[d])'
      <4>1. CloserOK(cl[d])
        BY <1>a DEF CloserInv
      <4> QED BY <1>1, <1>2, <3>2, <4>1 DEF CloserOK, Dealt, store, ghosts
    <3> QED BY <3>1, <3>2
  <2>2. \A r \in Records : reclaimedFrom'[r] <= rec[r].version /\ Dealt(reclaimedFrom', r)
    <3>1. CASE closed
      BY <1>1, <1>a, <3>1 DEF CloserInv
    <3>2. CASE ~closed
      BY <1>1, <1>3, <1>a, <3>2 DEF CloserOK
    <3> QED BY <3>1, <3>2
  <2> QED BY <1>1, <1>a, <2>1, <2>2 DEF CloserInv, Dealt, store, ghosts
<1>7. GhostInv'
  BY <1>1, <1>2, IdleCloserType, SameGhosts
<1> QED BY <1>4, <1>5, <1>6, <1>7 DEF WorkingInv

-----------------------------------------------------------------------------
(* Theorems. *)

LEMMA WorkingInitial == Init => TypeOK /\ WorkingInv
<1> SUFFICES ASSUME Init PROVE TypeOK /\ WorkingInv
  OBVIOUS
<1>1. TypeOK
  <2>1. [state |-> "none", version |-> 0] \in Record
    BY ConstantsAssumption DEF Record
  <2>2. rec \in [Records -> Record] /\ cl \in [Closers -> Closer] /\ reclaimedFrom \in Listing
    BY <2>1, IdleCloserType DEF Init
  <2>3. /\ expiredBy \in [Records -> Closers \cup Accounts]
        /\ promotedBy \in [Records \X Closers -> Closers \cup Accounts]
    BY DEF Init, Accounts
  <2> QED BY <2>2, <2>3, IdleCloserType DEF Init, TypeOK
<1>2. GhostInv
  BY IdleCloserType DEF Init, GhostInv
<1>3. CloserInv
  BY IdleCloserType DEF Init, CloserInv, CloserOK, NoListing, Dealt
<1>4. CountedOnce
  <2>1. \A c \in Closers : c # "none"
    BY ConstantsAssumption DEF Accounts
  <2>2. \A a : a # "none" => On(expiredBy, a) = {} /\ On(promotedBy, a) = {}
    BY DEF Init, On
  <2>3. Cardinality({}) = 0
    BY FS_EmptySet
  <2> QED BY <2>1, <2>2, <2>3, IdleCloserType DEF Init, CountedOnce
<1> QED BY <1>1, <1>2, <1>3, <1>4 DEF WorkingInv

LEMMA WorkingStep ==
  ASSUME TypeOK, WorkingInv, [Next]_vars
  PROVE  TypeOK' /\ WorkingInv'
<1>1. ASSUME MarkAccess \/ Age
      PROVE  TypeOK' /\ WorkingInv'
  <2>1. UNCHANGED <<store, closed, cl, wr, totals, ghosts, reclaimedFrom>> /\ active' \in BOOLEAN
    BY <1>1 DEF MarkAccess, Age
  <2>2. TypeOK'
    BY <2>1 DEF TypeOK, store, totals, ghosts
  <2>3. WorkingInv'
    BY <2>1, SameInv
  <2> QED BY <2>2, <2>3
<1>2. CASE UNCHANGED vars
  <2>1. TypeOK'
    BY <1>2 DEF vars, TypeOK
  <2>2. WorkingInv'
    BY <1>2, SameInv DEF vars, store, totals, ghosts
  <2> QED BY <2>1, <2>2
<1> QED BY <1>1, <1>2, WriterStep, BeginStep, RecordStep, ObserveStep, SaveStep, AbortStep
        DEF Next, CloserStep

\* The invariant, on which the theorems below rest.
LEMMA WorkingInvariant == Spec => [](TypeOK /\ WorkingInv)
<1>1. TypeOK /\ WorkingInv /\ [Next]_vars => (TypeOK /\ WorkingInv)'
  BY WorkingStep
<1> QED BY <1>1, WorkingInitial, PTL DEF Spec

\* Records, lists and counts are well-formed.
THEOREM TypeCorrect == Spec => []TypeOK
BY WorkingInvariant, PTL

\* What a close promoted stays: no other close, of a client or of the reaper, in
\* whatever mode and with however old a list, deletes it; a dedupe may collapse it.
THEOREM PromotionsSurvive == Spec => []PromotedSurvive
<1>1. TypeOK /\ WorkingInv => PromotedSurvive
  BY DEF WorkingInv, GhostInv, Settled, PromotedSurvive
<1> QED BY <1>1, WorkingInvariant, PTL

\* A session is closed only when every working record that the closer listed is
\* gone, changed or kept: a close that fails half way leaves it open.
THEOREM Reclaimed == Spec => []ReclaimComplete
<1>1. TypeOK /\ WorkingInv => ReclaimComplete
  BY DEF WorkingInv, CloserInv, Dealt, ReclaimComplete, Live
<1> QED BY <1>1, WorkingInvariant, PTL

\* The metrics are exact for any number of closes at once: every deletion is
\* counted once, every promotion once by the close that made it and by others only
\* when the backend replayed its answer to them.
THEOREM CountsExact == Spec => []CountedOnce
<1>1. TypeOK /\ WorkingInv => CountedOnce
  BY DEF WorkingInv
<1> QED BY <1>1, WorkingInvariant, PTL
=============================================================================
