-------------------------- MODULE RecallCacheProofs --------------------------
(***************************************************************************)
(* Proofs about RecallCache, for every number of records, scopes, replicas *)
(* and requests, every visibility between scopes, and with or without      *)
(* faults.                                                                 *)
(***************************************************************************)
EXTENDS RecallCache, TLAPS

\* Every request runs in one of the replicas.
LEMMA HomeType == \A p \in Readers \cup Writers : home[p] \in Replicas
  BY ConstantsAssumption

\* The initial entry, recall and mutation have their types.
LEMMA IdleTypes ==
  /\ NoHits \in Hits
  /\ NoEntry \in Entry
  /\ IdleReader \in Reader
  /\ IdleWriter \in Writer
<1>1. NoHits \in Hits
  BY DEF NoHits, Hits
<1>2. NoEntry \in Entry
  BY <1>1 DEF NoEntry, Entry
<1>3. (CHOOSE k \in Keys : TRUE) \in Keys
  BY ConstantsAssumption
<1>4. IdleReader \in Reader
  BY <1>1, <1>3 DEF IdleReader, Reader, Levels
<1>5. /\ (CHOOSE s \in Scopes : TRUE) \in Scopes
      /\ (CHOOSE m \in Records : TRUE) \in Records
  BY ConstantsAssumption
<1>6. IdleWriter \in Writer
  BY <1>5 DEF IdleWriter, Writer
<1> QED BY <1>1, <1>2, <1>4, <1>6

\* Every step of recalls and mutations keeps the types.
THEOREM TypeCorrect == Spec => []TypeOK
<1>1. Init => TypeOK
  BY IdleTypes, ConstantsAssumption DEF Init, TypeOK, NoHits, Hits
<1>2. TypeOK /\ [Next]_vars => TypeOK'
  <2> SUFFICES ASSUME TypeOK, [Next]_vars PROVE TypeOK'
    OBVIOUS
  <2> USE ConstantsAssumption, IdleTypes DEF TypeOK
  <2>1. ASSUME NEW p \in Writers, NEW m \in Records, NEW s \in Scopes,
               NEW visible \in BOOLEAN, Commit(p, m, s, visible)
        PROVE  TypeOK'
    BY <2>1 DEF Commit, Hits, Writer
  <2>2. ASSUME NEW p \in Writers, Invalidate(p) PROVE TypeOK'
    BY <2>2 DEF Invalidate, Writer
  <2>3. ASSUME NEW p \in Writers, Bump(p) PROVE TypeOK'
    BY <2>3 DEF Bump, Writer
  <2>4. ASSUME NEW p \in Readers, NEW k \in Keys, NEW lvl \in Levels,
               StartRecall(p, k, lvl)
        PROVE  TypeOK'
    BY <2>4 DEF StartRecall, Reader
  <2>5. ASSUME NEW p \in Readers, Lookup(p) PROVE TypeOK'
    <3> DEFINE e == entries[home[p]][rd[p].key]
    <3>0. UNCHANGED <<version, hidden, scopeVersion, published, entries, clock, wr>>
      BY <2>5 DEF Lookup
    <3>1. e.hits \in Hits
      <4>1. e \in Entry
        BY HomeType DEF Reader
      <4> QED BY <4>1 DEF Entry
    <3> HIDE DEF e
    <3>2. CASE rd' = [rd EXCEPT ![p].pc = "validate", ![p].hits = e.hits,
                               ![p].todo = {m \in Records : e.hits[m] # 0}]
      <4> DEFINE todo == {m \in Records : e.hits[m] # 0}
      <4>1. todo \in SUBSET Records
        OBVIOUS
      <4>2. rd' = [rd EXCEPT ![p] = [rd[p] EXCEPT !.pc = "validate", !.hits = e.hits,
                                                 !.todo = todo]]
        BY <3>2
      <4> HIDE DEF todo
      <4>3. [rd[p] EXCEPT !.pc = "validate", !.hits = e.hits, !.todo = todo] \in Reader
        BY <3>1, <4>1 DEF Reader
      <4> QED BY <3>0, <4>2, <4>3
    <3>3. CASE rd' = [rd EXCEPT ![p].pc = "done", ![p].hits = e.hits,
                               ![p].source = "l1_hit"]
      <4>1. [rd[p] EXCEPT !.pc = "done", !.hits = e.hits, !.source = "l1_hit"] \in Reader
        BY <3>1 DEF Reader
      <4>2. rd' = [rd EXCEPT ![p] = [rd[p] EXCEPT !.pc = "done", !.hits = e.hits,
                                                 !.source = "l1_hit"]]
        BY <3>3
      <4> QED BY <3>0, <4>1, <4>2
    <3>4. CASE rd' = [rd EXCEPT ![p].pc = "candidates"]
      BY <3>0, <3>4 DEF Reader
    <3> QED BY <2>5, <3>2, <3>3, <3>4 DEF Lookup, e
  <2>6. ASSUME NEW p \in Readers, NEW m \in Records, Validate(p, m) PROVE TypeOK'
    <3>0. UNCHANGED <<version, hidden, scopeVersion, published, entries, clock, wr>>
      BY <2>6 DEF Validate
    <3>1. CASE rd' = [rd EXCEPT ![p].todo = @ \ {m}]
      BY <3>0, <3>1 DEF Reader
    <3>2. CASE rd' = [rd EXCEPT ![p].pc = "candidates", ![p].hits = NoHits,
                               ![p].todo = {}]
      BY <3>0, <3>2 DEF Reader
    <3> QED BY <2>6, <3>1, <3>2 DEF Validate
  <2>7. ASSUME NEW p \in Readers, ValidateDone(p) PROVE TypeOK'
    BY <2>7 DEF ValidateDone, Reader
  <2>8. ASSUME NEW p \in Readers, Candidates(p) PROVE TypeOK'
    BY <2>8 DEF Candidates, Reader
  <2>9. ASSUME NEW p \in Readers, NEW m \in Records, Hydrate(p, m) PROVE TypeOK'
    <3> DEFINE h == [rd[p].hits EXCEPT ![m] = IF Visible(m) THEN version[m] ELSE 0]
    <3>1. h \in Hits
      BY DEF Hits, Reader
    <3>2. rd' = [rd EXCEPT ![p] = [rd[p] EXCEPT !.todo = @ \ {m}, !.hits = h]]
      BY <2>9 DEF Hydrate
    <3> HIDE DEF h
    <3>3. [rd[p] EXCEPT !.todo = @ \ {m}, !.hits = h] \in Reader
      BY <3>1 DEF Reader
    <3> QED BY <2>9, <3>2, <3>3 DEF Hydrate
  <2>10. ASSUME NEW p \in Readers, HydrateDone(p) PROVE TypeOK'
    BY <2>10 DEF HydrateDone, Reader
  <2>11. ASSUME NEW p \in Readers, Fill(p) PROVE TypeOK'
    <3> DEFINE e == [hits |-> rd[p].hits, cachedAt |-> clock, tag |-> rd[p].tag]
    <3>0. rd[p] \in Reader /\ clock \in Nat /\ home[p] \in Replicas
      BY HomeType
    <3>1. e \in Entry /\ rd[p].key \in Keys
      <4>1. rd[p].hits \in Hits /\ rd[p].tag \in Nat /\ rd[p].key \in Keys
        BY <3>0 DEF Reader
      <4> QED BY <3>0, <4>1 DEF Entry
    <3>2. rd' \in [Readers -> Reader]
      BY <2>11 DEF Fill, Reader
    <3>3. \/ entries' = entries
          \/ entries' = [entries EXCEPT ![home[p]][rd[p].key] = e]
      BY <2>11 DEF Fill, FillTag
    <3> HIDE DEF e
    <3>4. entries' \in [Replicas -> [Keys -> Entry]]
      <4> DEFINE f == [entries[home[p]] EXCEPT ![rd[p].key] = e]
      <4>1. f \in [Keys -> Entry]
        BY <3>0, <3>1
      <4>2. entries' = entries \/ entries' = [entries EXCEPT ![home[p]] = f]
        BY <3>3
      <4> HIDE DEF f
      <4> QED BY <3>0, <4>1, <4>2
    <3> QED BY <2>11, <3>2, <3>4 DEF Fill
  <2>12. ASSUME NEW p \in Readers, Respond(p) \/ Fail(p) PROVE TypeOK'
    BY <2>12 DEF Respond, Fail
  <2>13. CASE Tick
    BY <2>13 DEF Tick
  <2>14. CASE UNCHANGED vars
    BY <2>14 DEF vars
  <2> QED
    BY <2>1, <2>2, <2>3, <2>4, <2>5, <2>6, <2>7, <2>8, <2>9, <2>10, <2>11,
       <2>12, <2>13, <2>14 DEF Next, ReaderStep
<1> QED BY <1>1, <1>2, PTL DEF Spec

-----------------------------------------------------------------------------
\* What holds of the truth source and of the announcements: a version is
\* announced after it was committed, and under a token value already handed out.
TruthInv ==
  /\ \A m \in Records : hidden[m] <= version[m]
  /\ \A p \in Writers : wr[p].pc # "idle" => wr[p].v >= 1 /\ wr[p].v <= version[wr[p].m]
  /\ \A b \in published : /\ b.n <= scopeVersion[b.s]
                          /\ b.v >= 1 /\ b.v <= version[b.m]

\* What holds of a recall on its way: the token it read was handed out, its
\* cached hits reflect that token, and each record announced under it is
\* either reflected already or still to be hydrated.
ReaderOK(q) ==
  /\ q.tag <= scopeVersion[q.key.scope]
  /\ q.pc \in {"lookup", "candidates"} => q.hits = NoHits
  /\ \/ q.pc \in {"validate", "fill"}
     \/ q.pc = "done" /\ q.level \in {"bounded", "strong"}
     => ReflectsUpTo(q.hits, q.key.scope, q.tag)
  /\ q.pc = "hydrate"
     => \A b \in published :
          b.s = q.key.scope /\ b.n <= q.tag /\ InScope(b.m, q.key.scope)
            => b.m \in q.todo \/ Reflects(q.hits, b.m, b.v)

ReadersOK == \A p \in Readers : ReaderOK(rd[p])

\* An entry's tag is a token value already handed out.
EntryTagInv ==
  \A r \in Replicas, k \in Keys : entries[r][k].tag <= scopeVersion[k.scope]

TokenInv == TruthInv /\ ReadersOK /\ EntryTagInv /\ EntriesReflectTheirTag

\* A step of one recall that writes nothing shared.
LEMMA ReaderFrame ==
  ASSUME TypeOK, TokenInv, NEW p \in Readers, NEW q \in Reader, ReaderOK(q),
         rd' = [rd EXCEPT ![p] = q],
         UNCHANGED <<version, hidden, scopeVersion, published, entries, clock, wr>>
  PROVE  TokenInv'
<1>1. TruthInv' /\ EntryTagInv' /\ EntriesReflectTheirTag'
  BY DEF TokenInv, TruthInv, EntryTagInv, EntriesReflectTheirTag, ReflectsUpTo,
         Reflects, InScope
<1>2. ASSUME NEW o \in Readers PROVE ReaderOK(rd[o])'
  <2>1. rd'[o] = IF o = p THEN q ELSE rd[o]
    BY DEF TypeOK
  <2>2. ReaderOK(rd'[o])
    BY <2>1 DEF TokenInv, ReadersOK
  <2> QED BY <2>2 DEF ReaderOK, ReflectsUpTo, Reflects, InScope
<1> QED BY <1>1, <1>2 DEF TokenInv, ReadersOK

\* A recall that has not begun owes nothing to anybody.
LEMMA IdleReaderOK == ASSUME TypeOK PROVE ReaderOK(IdleReader)
<1>1. IdleReader.pc = "idle" /\ IdleReader.tag = 0 /\ IdleReader.key.scope \in Scopes
  BY IdleTypes, ConstantsAssumption DEF IdleReader, Reader
<1> QED BY <1>1 DEF ReaderOK, TypeOK

\* Recalls keep the invariant.
LEMMA RecallStep ==
  ASSUME TypeOK, TokenInv, NEW p \in Readers,
         \/ ReaderStep(p)
         \/ \E k \in Keys, lvl \in Levels : StartRecall(p, k, lvl)
  PROVE  TokenInv'
<1> USE ConstantsAssumption
<1>0. rd[p] \in Reader /\ ReaderOK(rd[p]) /\ home[p] \in Replicas
  BY HomeType DEF TypeOK, TokenInv, ReadersOK
<1>1. ASSUME NEW k \in Keys, NEW lvl \in Levels, StartRecall(p, k, lvl)
      PROVE  TokenInv'
  <2> DEFINE q == [IdleReader EXCEPT !.pc = "lookup", !.key = k, !.level = lvl,
                                     !.tag = scopeVersion[k.scope], !.base = version]
  <2>1. /\ q \in Reader /\ q.pc = "lookup" /\ q.tag = scopeVersion[q.key.scope]
        /\ q.hits = NoHits
    BY IdleTypes DEF Reader, TypeOK, IdleReader
  <2>2. /\ rd' = [rd EXCEPT ![p] = q]
        /\ UNCHANGED <<version, hidden, scopeVersion, published, entries, clock, wr>>
    BY <1>1 DEF StartRecall
  <2> HIDE DEF q
  <2>3. ReaderOK(q)
    <3>1. q.tag \in Nat
      BY <2>1 DEF Reader
    <3> QED BY <2>1, <3>1 DEF ReaderOK
  <2> QED BY <2>1, <2>2, <2>3, ReaderFrame
<1>2. CASE Lookup(p)
  <2> DEFINE e == entries[home[p]][rd[p].key]
  <2>0. UNCHANGED <<version, hidden, scopeVersion, published, entries, clock, wr>>
    BY <1>2 DEF Lookup
  <2>1. e.hits \in Hits /\ ReflectsUpTo(e.hits, rd[p].key.scope, e.tag)
    <3>1. e \in Entry /\ rd[p].key \in Keys
      BY <1>0 DEF TypeOK, Reader
    <3> QED BY <1>0, <3>1 DEF Entry, TokenInv, EntriesReflectTheirTag
  <2> HIDE DEF e
  <2>2. CASE /\ e.tag = rd[p].tag
             /\ rd' = [rd EXCEPT ![p].pc = "validate", ![p].hits = e.hits,
                                 ![p].todo = {m \in Records : e.hits[m] # 0}]
    <3> DEFINE todo == {m \in Records : e.hits[m] # 0}
    <3> DEFINE q == [rd[p] EXCEPT !.pc = "validate", !.hits = e.hits, !.todo = todo]
    <3>1. todo \in SUBSET Records
      OBVIOUS
    <3>2. rd' = [rd EXCEPT ![p] = q]
      BY <2>2
    <3> HIDE DEF todo
    <3>3. /\ q \in Reader /\ q.pc = "validate" /\ q.hits = e.hits
          /\ q.tag = rd[p].tag /\ q.key = rd[p].key
      BY <1>0, <2>1, <3>1 DEF Reader
    <3> HIDE DEF q
    <3>4. ReaderOK(q)
      BY <1>0, <2>1, <2>2, <3>3 DEF ReaderOK
    <3> QED BY <2>0, <3>2, <3>3, <3>4, ReaderFrame
  <2>3. CASE /\ rd[p].level \notin {"bounded", "strong"}
             /\ rd' = [rd EXCEPT ![p].pc = "done", ![p].hits = e.hits,
                                 ![p].source = "l1_hit"]
    <3> DEFINE q == [rd[p] EXCEPT !.pc = "done", !.hits = e.hits, !.source = "l1_hit"]
    <3>2. rd' = [rd EXCEPT ![p] = q]
      BY <2>3
    <3>3. /\ q \in Reader /\ q.pc = "done" /\ q.level = rd[p].level
          /\ q.tag = rd[p].tag /\ q.key = rd[p].key
      BY <1>0, <2>1 DEF Reader
    <3> HIDE DEF q
    <3>4. ReaderOK(q)
      BY <1>0, <2>3, <3>3 DEF ReaderOK
    <3> QED BY <2>0, <3>2, <3>3, <3>4, ReaderFrame
  <2>4. CASE rd' = [rd EXCEPT ![p].pc = "candidates"]
    <3> DEFINE q == [rd[p] EXCEPT !.pc = "candidates"]
    <3>2. rd' = [rd EXCEPT ![p] = q]
      BY <2>4
    <3>3. /\ q \in Reader /\ q.pc = "candidates" /\ q.hits = rd[p].hits
          /\ q.tag = rd[p].tag /\ q.key = rd[p].key
      BY <1>0 DEF Reader
    <3> HIDE DEF q
    <3>4. ReaderOK(q)
      BY <1>0, <1>2, <3>3 DEF ReaderOK, Lookup
    <3> QED BY <2>0, <3>2, <3>3, <3>4, ReaderFrame
  <2> QED BY <1>2, <2>2, <2>3, <2>4 DEF Lookup, Usable, e
<1>3. ASSUME NEW m \in Records, Validate(p, m) PROVE TokenInv'
  <2>0. UNCHANGED <<version, hidden, scopeVersion, published, entries, clock, wr>>
    BY <1>3 DEF Validate
  <2>1. CASE rd' = [rd EXCEPT ![p].todo = @ \ {m}]
    <3> DEFINE q == [rd[p] EXCEPT !.todo = @ \ {m}]
    <3>2. rd' = [rd EXCEPT ![p] = q]
      BY <2>1
    <3>3. /\ q \in Reader /\ q.pc = rd[p].pc /\ q.hits = rd[p].hits
          /\ q.tag = rd[p].tag /\ q.key = rd[p].key
      BY <1>0 DEF Reader
    <3> HIDE DEF q
    <3>4. ReaderOK(q)
      BY <1>0, <1>3, <3>3 DEF ReaderOK, Validate
    <3> QED BY <2>0, <3>2, <3>3, <3>4, ReaderFrame
  <2>2. CASE rd' = [rd EXCEPT ![p].pc = "candidates", ![p].hits = NoHits, ![p].todo = {}]
    <3> DEFINE q == [rd[p] EXCEPT !.pc = "candidates", !.hits = NoHits, !.todo = {}]
    <3>2. rd' = [rd EXCEPT ![p] = q]
      BY <2>2
    <3>3. /\ q \in Reader /\ q.pc = "candidates" /\ q.hits = NoHits
          /\ q.tag = rd[p].tag /\ q.key = rd[p].key
      BY <1>0, IdleTypes DEF Reader
    <3> HIDE DEF q
    <3>4. ReaderOK(q)
      BY <1>0, <3>3 DEF ReaderOK
    <3> QED BY <2>0, <3>2, <3>3, <3>4, ReaderFrame
  <2> QED BY <1>3, <2>1, <2>2 DEF Validate
<1>4. CASE ValidateDone(p)
  <2> DEFINE q == [rd[p] EXCEPT !.pc = "done", !.source = "l2_hit"]
  <2>1. /\ rd' = [rd EXCEPT ![p] = q]
        /\ UNCHANGED <<version, hidden, scopeVersion, published, entries, clock, wr>>
    BY <1>4 DEF ValidateDone
  <2>2. /\ q \in Reader /\ q.pc = "done" /\ q.hits = rd[p].hits
        /\ q.tag = rd[p].tag /\ q.key = rd[p].key
    BY <1>0 DEF Reader
  <2> HIDE DEF q
  <2>3. ReaderOK(q)
    BY <1>0, <1>4, <2>2 DEF ReaderOK, ValidateDone
  <2> QED BY <2>1, <2>2, <2>3, ReaderFrame
<1>5. CASE Candidates(p)
  <2> DEFINE todo == {m \in Records : Visible(m) /\ InScope(m, rd[p].key.scope)}
  <2> DEFINE q == [rd[p] EXCEPT !.pc = "hydrate", !.todo = todo]
  <2>1. /\ rd' = [rd EXCEPT ![p] = q]
        /\ UNCHANGED <<version, hidden, scopeVersion, published, entries, clock, wr>>
    BY <1>5 DEF Candidates
  <2>2. todo \in SUBSET Records
    OBVIOUS
  <2>3. \A b \in published :
          /\ b.s = rd[p].key.scope /\ b.n <= rd[p].tag
          /\ InScope(b.m, rd[p].key.scope)
          => b.m \in todo \/ Reflects(NoHits, b.m, b.v)
    BY DEF TokenInv, TruthInv, TypeOK, Visible, Reflects, NoHits, Hits
  <2> HIDE DEF todo
  <2>4. /\ q \in Reader /\ q.pc = "hydrate" /\ q.hits = rd[p].hits
        /\ q.todo = todo /\ q.tag = rd[p].tag /\ q.key = rd[p].key
    BY <1>0, <2>2 DEF Reader
  <2>5. rd[p].hits = NoHits
    BY <1>0, <1>5 DEF ReaderOK, Candidates
  <2> HIDE DEF q
  <2>6. ReaderOK(q)
    BY <1>0, <2>3, <2>4, <2>5 DEF ReaderOK
  <2> QED BY <2>1, <2>4, <2>6, ReaderFrame
<1>6. ASSUME NEW m \in Records, Hydrate(p, m) PROVE TokenInv'
  <2> DEFINE h == [rd[p].hits EXCEPT ![m] = IF Visible(m) THEN version[m] ELSE 0]
  <2> DEFINE q == [rd[p] EXCEPT !.todo = @ \ {m}, !.hits = h]
  <2>1. /\ rd' = [rd EXCEPT ![p] = q]
        /\ UNCHANGED <<version, hidden, scopeVersion, published, entries, clock, wr>>
    BY <1>6 DEF Hydrate
  <2>2. /\ h \in Hits
        /\ \A o \in Records \ {m} : h[o] = rd[p].hits[o]
        /\ h[m] = IF Visible(m) THEN version[m] ELSE 0
    BY <1>0 DEF Reader, Hits, TypeOK
  <2> HIDE DEF h
  <2>3. \A v \in Nat : 1 <= v /\ v <= version[m] => Reflects(h, m, v)
    BY <2>2 DEF Reflects, Visible, TypeOK, Hits
  <2>4. /\ q \in Reader /\ q.pc = rd[p].pc /\ q.hits = h
        /\ q.todo = rd[p].todo \ {m} /\ q.tag = rd[p].tag /\ q.key = rd[p].key
    BY <1>0, <2>2 DEF Reader
  <2> HIDE DEF q
  <2>5. ASSUME NEW b \in published, b.s = rd[p].key.scope, b.n <= rd[p].tag,
               InScope(b.m, rd[p].key.scope)
        PROVE  b.m \in q.todo \/ Reflects(q.hits, b.m, b.v)
    <3>1. b.m \in Records /\ b.v \in Nat /\ 1 <= b.v /\ b.v <= version[b.m]
      BY DEF TypeOK, TokenInv, TruthInv
    <3>2. b.m \in rd[p].todo \/ Reflects(rd[p].hits, b.m, b.v)
      BY <1>0, <1>6, <2>5 DEF ReaderOK, Hydrate
    <3>3. CASE b.m = m
      BY <2>3, <2>4, <3>1, <3>3
    <3>4. CASE b.m # m
      BY <2>2, <2>4, <3>1, <3>2, <3>4 DEF Reflects
    <3> QED BY <3>3, <3>4
  <2>6. ReaderOK(q)
    BY <1>0, <1>6, <2>4, <2>5 DEF ReaderOK, Hydrate
  <2> QED BY <2>1, <2>4, <2>6, ReaderFrame
<1>7. CASE HydrateDone(p)
  <2> DEFINE l == IF rd[p].hits = NoHits THEN "done" ELSE "fill"
  <2> DEFINE q == [rd[p] EXCEPT !.source = "origin", !.pc = l]
  <2>1. /\ rd' = [rd EXCEPT ![p] = q]
        /\ UNCHANGED <<version, hidden, scopeVersion, published, entries, clock, wr>>
    BY <1>7 DEF HydrateDone
  <2>2. l \in {"done", "fill"}
    OBVIOUS
  <2> HIDE DEF l
  <2>3. /\ q \in Reader /\ q.pc = l /\ q.hits = rd[p].hits
        /\ q.tag = rd[p].tag /\ q.key = rd[p].key
    BY <1>0, <2>2 DEF Reader
  <2> HIDE DEF q
  <2>4. ReflectsUpTo(rd[p].hits, rd[p].key.scope, rd[p].tag)
    BY <1>0, <1>7 DEF ReaderOK, HydrateDone, ReflectsUpTo
  <2>5. ReaderOK(q)
    BY <1>0, <2>2, <2>3, <2>4 DEF ReaderOK
  <2> QED BY <2>1, <2>3, <2>5, ReaderFrame
<1>8. CASE Respond(p) \/ Fail(p)
  BY <1>8, IdleTypes, IdleReaderOK, ReaderFrame DEF Respond, Fail
<1>9. CASE Fill(p)
  <2> DEFINE e == [hits |-> rd[p].hits, cachedAt |-> clock, tag |-> rd[p].tag]
  <2>1. \/ entries' = entries
        \/ entries' = [entries EXCEPT ![home[p]][rd[p].key] = e]
    BY <1>9 DEF Fill, FillTag
  <2>2. /\ rd[p].key \in Keys
        /\ ReflectsUpTo(e.hits, rd[p].key.scope, e.tag)
        /\ e.tag <= scopeVersion[rd[p].key.scope]
    BY <1>0, <1>9 DEF Reader, ReaderOK, Fill
  <2> HIDE DEF e
  <2>3. \A r \in Replicas, k \in Keys :
          entries'[r][k] = entries[r][k] \/ (k = rd[p].key /\ entries'[r][k] = e)
    BY <1>0, <2>1, <2>2 DEF TypeOK
  <2>4. /\ rd' = [rd EXCEPT ![p].pc = "done"]
        /\ UNCHANGED <<version, hidden, scopeVersion, published, clock, wr>>
    BY <1>9 DEF Fill
  <2>5. TruthInv' /\ EntryTagInv'
    BY <2>2, <2>3, <2>4 DEF TokenInv, TruthInv, EntryTagInv
  <2>6. EntriesReflectTheirTag'
    BY <2>2, <2>3, <2>4
       DEF TokenInv, EntriesReflectTheirTag, ReflectsUpTo, Reflects, InScope
  <2>7. ASSUME NEW o \in Readers PROVE ReaderOK(rd[o])'
    <3>1. ReaderOK(rd'[o])
      <4>1. CASE o # p
        BY <2>4, <4>1 DEF TypeOK, TokenInv, ReadersOK
      <4>2. CASE o = p
        <5>1. /\ rd'[p].pc = "done" /\ rd'[p].hits = rd[p].hits
              /\ rd'[p].tag = rd[p].tag /\ rd'[p].key = rd[p].key
          BY <1>0, <2>4 DEF TypeOK, Reader
        <5> QED BY <1>0, <1>9, <4>2, <5>1 DEF ReaderOK, Fill
      <4> QED BY <4>1, <4>2
    <3> QED BY <2>4, <3>1 DEF ReaderOK, ReflectsUpTo, Reflects, InScope
  <2> QED BY <2>5, <2>6, <2>7 DEF TokenInv, ReadersOK
<1> QED
  BY <1>1, <1>2, <1>3, <1>4, <1>5, <1>6, <1>7, <1>8, <1>9 DEF ReaderStep

\* Mutations keep the invariant.
LEMMA MutationStep ==
  ASSUME TypeOK, TokenInv, NEW p \in Writers,
         \/ \E m \in Records, s \in Scopes, visible \in BOOLEAN :
              Commit(p, m, s, visible)
         \/ Invalidate(p)
         \/ Bump(p)
  PROVE  TokenInv'
<1> USE ConstantsAssumption
<1>0. wr[p] \in Writer /\ home[p] \in Replicas
  BY HomeType DEF TypeOK
<1>1. ASSUME NEW m \in Records, NEW s \in Scopes, NEW visible \in BOOLEAN,
             Commit(p, m, s, visible)
      PROVE  TokenInv'
  <2>1. /\ UNCHANGED <<scopeVersion, published, entries, clock, rd>>
        /\ version' = [version EXCEPT ![m] = @ + 1]
        /\ hidden' = [hidden EXCEPT ![m] = IF visible THEN @ ELSE version[m] + 1]
        /\ wr' = [wr EXCEPT ![p] = [pc |-> "invalidate", scope |-> s, m |-> m,
                                    v |-> version[m] + 1]]
    BY <1>1 DEF Commit
  <2>2. \A o \in Records : /\ hidden'[o] >= hidden[o] /\ hidden'[o] \in Nat
                            /\ version'[o] >= version[o] /\ version'[o] \in Nat
                            /\ hidden'[o] <= version'[o]
    BY <2>1 DEF TypeOK, Hits, TokenInv, TruthInv
  <2>3. \A o \in Writers : wr'[o].pc # "idle" => wr'[o].v >= 1 /\ wr'[o].v <= version'[wr'[o].m]
    BY <2>1, <2>2 DEF TypeOK, Hits, Writer, TokenInv, TruthInv
  <2>4. TruthInv' /\ EntryTagInv'
    BY <2>1, <2>2, <2>3 DEF TokenInv, TruthInv, EntryTagInv, TypeOK, Hits
  <2>5. ASSUME NEW h, NEW b \in published, Reflects(h, b.m, b.v)
        PROVE  h[b.m] >= b.v \/ (h[b.m] = 0 /\ hidden'[b.m] >= b.v)
    <3>1. b.m \in Records /\ b.v \in Nat /\ hidden[b.m] \in Nat
      BY DEF TypeOK, Hits
    <3> QED BY <2>2, <2>5, <3>1 DEF Reflects
  <2>6. EntriesReflectTheirTag'
    <3> SUFFICES ASSUME NEW r \in Replicas, NEW k \in Keys, NEW b \in published,
                        b.s = k.scope, b.n <= entries[r][k].tag, InScope(b.m, k.scope)
                 PROVE  \/ entries[r][k].hits[b.m] >= b.v
                        \/ entries[r][k].hits[b.m] = 0 /\ hidden'[b.m] >= b.v
      BY <2>1 DEF EntriesReflectTheirTag, ReflectsUpTo, Reflects, InScope
    <3>1. Reflects(entries[r][k].hits, b.m, b.v)
      BY DEF TokenInv, EntriesReflectTheirTag, ReflectsUpTo
    <3> QED BY <2>5, <3>1
  <2>7. ASSUME NEW o \in Readers PROVE ReaderOK(rd[o])'
    <3>1. ReaderOK(rd[o])
      BY DEF TokenInv, ReadersOK
    <3>2. ASSUME ReflectsUpTo(rd[o].hits, rd[o].key.scope, rd[o].tag)
          PROVE  ReflectsUpTo(rd[o].hits, rd[o].key.scope, rd[o].tag)'
      BY <2>1, <2>5, <3>2 DEF ReflectsUpTo, Reflects, InScope
    <3>3. ASSUME NEW b \in published, Reflects(rd[o].hits, b.m, b.v)
          PROVE  Reflects(rd[o].hits, b.m, b.v)'
      BY <2>1, <2>5, <3>3 DEF Reflects
    <3> QED BY <2>1, <3>1, <3>2, <3>3 DEF ReaderOK, InScope
  <2> QED BY <2>4, <2>6, <2>7 DEF TokenInv, ReadersOK
<1>2. CASE Invalidate(p)
  <2>1. /\ UNCHANGED <<version, hidden, scopeVersion, published, clock, rd>>
        /\ wr' = [wr EXCEPT ![p].pc = "bump"]
        /\ wr[p].pc = "invalidate"
    BY <1>2 DEF Invalidate
  <2>2. \A r \in Replicas, k \in Keys :
          entries'[r][k] = entries[r][k] \/ entries'[r][k] = NoEntry
    BY <1>0, <1>2 DEF Invalidate, TypeOK
  <2>3. NoEntry.tag = -1 /\ NoEntry.hits = NoHits
    BY DEF NoEntry
  <2>4. TruthInv'
    BY <1>0, <2>1 DEF TokenInv, TruthInv, TypeOK, Writer
  <2>5. EntryTagInv'
    BY <2>1, <2>2, <2>3 DEF TokenInv, EntryTagInv, TypeOK
  <2>6. EntriesReflectTheirTag'
    BY <2>1, <2>2, <2>3
       DEF TokenInv, EntriesReflectTheirTag, ReflectsUpTo, Reflects, InScope, TypeOK
  <2>7. ReadersOK'
    BY <2>1 DEF TokenInv, ReadersOK, ReaderOK, ReflectsUpTo, Reflects, InScope
  <2> QED BY <2>4, <2>5, <2>6, <2>7 DEF TokenInv
<1>3. CASE Bump(p)
  <2> DEFINE b0 == [s |-> wr[p].scope, n |-> scopeVersion[wr[p].scope] + 1,
                    m |-> wr[p].m, v |-> wr[p].v]
  <2>1. /\ UNCHANGED <<version, hidden, entries, clock, rd>>
        /\ wr' = [wr EXCEPT ![p] = IdleWriter]
        /\ wr[p].pc = "bump"
    BY <1>3 DEF Bump
  <2>2. \/ UNCHANGED <<scopeVersion, published>>
        \/ /\ scopeVersion' = [scopeVersion EXCEPT ![wr[p].scope] = @ + 1]
           /\ published' = published \cup {b0}
    BY <1>3 DEF Bump
  <2>3. /\ b0.s \in Scopes /\ b0.n = scopeVersion[b0.s] + 1
        /\ b0.s = wr[p].scope /\ b0.v >= 1 /\ b0.v <= version[b0.m]
    BY <1>0, <2>1 DEF TokenInv, TruthInv, Writer
  <2> HIDE DEF b0
  <2>4. \A s \in Scopes : scopeVersion'[s] >= scopeVersion[s] /\ scopeVersion'[s] \in Nat
    BY <1>0, <2>2 DEF TypeOK, Writer
  <2>5. \A b \in published' : b \in published \/
          (b = b0 /\ b.n = scopeVersion[b.s] + 1 /\ scopeVersion'[b.s] = b.n)
    BY <2>2, <2>3 DEF TypeOK
  <2>6. TruthInv'
    <3>1. IdleWriter.pc = "idle"
      BY DEF IdleWriter
    <3> QED BY <2>1, <2>3, <2>4, <2>5, <3>1 DEF TokenInv, TruthInv, TypeOK
  <2>7. EntryTagInv'
    BY <2>1, <2>4 DEF TokenInv, EntryTagInv, TypeOK, Entry
  <2>8. EntriesReflectTheirTag'
    BY <2>1, <2>3, <2>5
       DEF TokenInv, EntryTagInv, EntriesReflectTheirTag, ReflectsUpTo, Reflects,
           InScope, TypeOK, Entry
  <2>9. ASSUME NEW o \in Readers PROVE ReaderOK(rd[o])'
    <3>0. rd[o].tag \in Nat /\ rd[o].key \in Keys
      BY DEF TypeOK, Reader
    <3>1. ReaderOK(rd[o]) /\ rd[o].tag \in Nat /\ rd[o].key.scope \in Scopes
      BY <3>0 DEF TokenInv, ReadersOK
    <3>2. \A b \in published' : b.s = rd[o].key.scope /\ b.n <= rd[o].tag => b \in published
      BY <2>3, <2>5, <3>1 DEF ReaderOK, TypeOK
    <3>3. rd[o].tag <= scopeVersion'[rd[o].key.scope]
      BY <2>4, <3>1 DEF ReaderOK, TypeOK
    <3> QED
      BY <2>1, <3>1, <3>2, <3>3 DEF ReaderOK, ReflectsUpTo, Reflects, InScope
  <2> QED BY <2>6, <2>7, <2>8, <2>9 DEF TokenInv, ReadersOK
<1> QED BY <1>1, <1>2, <1>3

\* The invariant holds from the start and is kept by every step.
LEMMA TokenInvariant == Spec => []TokenInv
<1>1. Init => TokenInv
  <2> SUFFICES ASSUME Init PROVE TokenInv
    OBVIOUS
  <2>1. TypeOK
    BY IdleTypes, ConstantsAssumption DEF Init, TypeOK, NoHits, Hits
  <2>2. ReadersOK
    BY <2>1, IdleReaderOK DEF Init, ReadersOK
  <2>3. IdleWriter.pc = "idle" /\ NoEntry.tag = -1
    BY DEF IdleWriter, NoEntry
  <2>4. TruthInv
    BY <2>3 DEF Init, TruthInv, NoHits
  <2>5. EntryTagInv
    BY <2>3, ConstantsAssumption DEF Init, EntryTagInv
  <2>6. EntriesReflectTheirTag
    BY DEF Init, EntriesReflectTheirTag, ReflectsUpTo
  <2> QED BY <2>2, <2>4, <2>5, <2>6 DEF TokenInv
<1>2. TypeOK /\ TokenInv /\ [Next]_vars => TokenInv'
  <2> SUFFICES ASSUME TypeOK, TokenInv, [Next]_vars PROVE TokenInv'
    OBVIOUS
  <2>1. CASE Tick \/ UNCHANGED vars
    BY <2>1 DEF Tick, vars, TokenInv, TruthInv, ReadersOK, ReaderOK, EntryTagInv,
                EntriesReflectTheirTag, ReflectsUpTo, Reflects, InScope
  <2> QED BY <2>1, RecallStep, MutationStep DEF Next
<1> QED BY <1>1, <1>2, TypeCorrect, PTL DEF Spec

\* However recalls, mutations and invalidations of all replicas interleave, and
\* whatever fails, a cached entry takes into account every mutation announced
\* up to the scope version it is tagged with.
THEOREM EntriesSound == Spec => []EntriesReflectTheirTag
<1>1. TokenInv => EntriesReflectTheirTag
  BY DEF TokenInv
<1> QED BY <1>1, TokenInvariant, PTL

\* A bounded or strong answer takes into account every mutation announced under
\* the token it was made from, whether it comes from the origin or the cache.
THEOREM AnswersSound == Spec => []AnswersReflectToken
<1>1. TokenInv => AnswersReflectToken
  BY DEF TokenInv, ReadersOK, ReaderOK, AnswersReflectToken
<1> QED BY <1>1, TokenInvariant, PTL

-----------------------------------------------------------------------------
(* Hits are not older than the request. *)

\* What makes it inductive: the hits a recall has confirmed so far, by
\* re-validating a cached version or by hydrating the record, are not older
\* than the request, and records only move forward.
FreshOK(q, m) ==
  /\ q.base[m] <= version[m]
  /\ /\ q.pc \in {"validate", "hydrate", "fill", "done"}
     /\ q.level \in {"bounded", "strong"}
     /\ q.hits[m] # 0
     /\ q.pc = "validate" => m \notin q.todo
     => q.hits[m] >= q.base[m]

FreshInv == \A p \in Readers, m \in Records : FreshOK(rd[p], m)

\* A recall that has not begun holds no hit.
LEMMA IdleFresh ==
  ASSUME NEW m \in Records, version[m] \in Nat PROVE FreshOK(IdleReader, m)
<1>1. IdleReader.pc = "idle" /\ IdleReader.base = NoHits
  BY DEF IdleReader
<1>2. NoHits[m] = 0
  BY DEF NoHits
<1> QED BY <1>1, <1>2 DEF FreshOK

\* Every step keeps what is known of the age of the hits a recall holds.
LEMMA FreshStep ==
  ASSUME TypeOK, TokenInv, FreshInv, [Next]_vars PROVE FreshInv'
<1> SUFFICES ASSUME NEW o \in Readers, NEW n \in Records PROVE FreshOK(rd[o], n)'
  BY DEF FreshInv
<1> USE ConstantsAssumption
<1>0. /\ rd[o] \in Reader /\ FreshOK(rd[o], n) /\ ReaderOK(rd[o])
      /\ version[n] \in Nat /\ rd[o].base[n] \in Nat
  <2>1. rd[o] \in Reader /\ FreshOK(rd[o], n) /\ ReaderOK(rd[o])
    BY DEF TypeOK, FreshInv, TokenInv, ReadersOK
  <2>2. rd[o].base \in Hits /\ version \in Hits
    BY <2>1 DEF Reader, TypeOK
  <2> QED BY <2>1, <2>2 DEF Hits
<1>1. CASE rd'[o] = rd[o] /\ version'[n] \in Nat /\ version'[n] >= version[n]
  BY <1>0, <1>1 DEF FreshOK
<1>2. CASE rd'[o] = IdleReader /\ version' = version
  <2>1. FreshOK(IdleReader, n)
    BY <1>0, IdleFresh
  <2> QED BY <1>2, <2>1 DEF FreshOK
<1>3. ASSUME NEW p \in Writers, NEW m \in Records, NEW s \in Scopes,
             NEW visible \in BOOLEAN, Commit(p, m, s, visible)
      PROVE  FreshOK(rd[o], n)'
  BY <1>1, <1>3 DEF Commit, TypeOK, Hits
<1>4. CASE version' = version /\ rd' = rd
  BY <1>0, <1>1, <1>4
<1>6. ASSUME NEW k \in Keys, NEW lvl \in Levels, StartRecall(o, k, lvl)
      PROVE  FreshOK(rd[o], n)'
  <2>1. /\ version' = version /\ rd'[o].base = version /\ rd'[o].pc = "lookup"
    BY <1>6, IdleTypes DEF StartRecall, TypeOK, Reader
  <2> QED BY <1>0, <2>1 DEF FreshOK
<1>7. CASE Lookup(o)
  <2>1. /\ version' = version /\ rd'[o].base = rd[o].base /\ rd'[o].level = rd[o].level
        /\ \/ rd'[o].pc = "candidates"
           \/ rd'[o].pc = "done" /\ rd[o].level \notin {"bounded", "strong"}
           \/ rd'[o].pc = "validate" /\ (rd'[o].hits[n] # 0 => n \in rd'[o].todo)
    <3> DEFINE h == entries[home[o]][rd[o].key].hits
    <3>1. CASE rd' = [rd EXCEPT ![o].pc = "validate", ![o].hits = h,
                               ![o].todo = {m \in Records : h[m] # 0}]
      <4>1. version' = version
        BY <1>7 DEF Lookup
      <4> HIDE DEF h
      <4> QED BY <1>0, <3>1, <4>1 DEF TypeOK, Reader
    <3>2. CASE /\ rd[o].level \notin {"bounded", "strong"}
               /\ rd' = [rd EXCEPT ![o].pc = "done", ![o].hits = h, ![o].source = "l1_hit"]
      BY <1>0, <1>7, <3>2 DEF Lookup, TypeOK, Reader
    <3>3. CASE rd' = [rd EXCEPT ![o].pc = "candidates"]
      BY <1>0, <1>7, <3>3 DEF Lookup, TypeOK, Reader
    <3> QED BY <1>7, <3>1, <3>2, <3>3 DEF Lookup, Usable
  <2> QED BY <1>0, <2>1 DEF FreshOK
<1>8. ASSUME NEW m \in Records, Validate(o, m) PROVE FreshOK(rd[o], n)'
  <2>1. /\ version' = version /\ rd'[o].base = rd[o].base /\ rd'[o].level = rd[o].level
        /\ \/ rd'[o].pc = "candidates"
           \/ /\ rd'[o].pc = "validate" /\ rd[o].pc = "validate"
              /\ rd'[o].hits = rd[o].hits /\ rd'[o].todo = rd[o].todo \ {m}
              /\ Current(m, rd[o].hits[m])
    <3>0. version' = version /\ rd[o].pc = "validate"
      BY <1>8 DEF Validate
    <3>1. CASE Current(m, rd[o].hits[m]) /\ rd' = [rd EXCEPT ![o].todo = @ \ {m}]
      BY <1>0, <3>0, <3>1 DEF TypeOK, Reader
    <3>2. CASE rd' = [rd EXCEPT ![o].pc = "candidates", ![o].hits = NoHits, ![o].todo = {}]
      BY <1>0, <3>0, <3>2 DEF TypeOK, Reader
    <3> QED BY <1>8, <3>1, <3>2 DEF Validate
  <2> QED BY <1>0, <2>1 DEF FreshOK, Current
<1>9. CASE ValidateDone(o) \/ HydrateDone(o) \/ Fill(o)
  <2>1. /\ version' = version /\ rd'[o].base = rd[o].base /\ rd'[o].level = rd[o].level
        /\ rd'[o].hits = rd[o].hits /\ rd'[o].pc \in {"fill", "done"}
        /\ \/ rd[o].pc \in {"hydrate", "fill"}
           \/ rd[o].pc = "validate" /\ rd[o].todo = {}
    <3>1. CASE ValidateDone(o)
      BY <1>0, <3>1 DEF ValidateDone, TypeOK, Reader
    <3>2. CASE HydrateDone(o)
      BY <1>0, <3>2 DEF HydrateDone, TypeOK, Reader
    <3>3. CASE Fill(o)
      <4>1. rd' = [rd EXCEPT ![o].pc = "done"] /\ version' = version /\ rd[o].pc = "fill"
        BY <3>3 DEF Fill
      <4> QED BY <1>0, <4>1 DEF TypeOK, Reader
    <3> QED BY <1>9, <3>1, <3>2, <3>3
  <2> QED BY <1>0, <2>1 DEF FreshOK
<1>10. CASE Candidates(o)
  <2>1. /\ version' = version /\ rd'[o].base = rd[o].base /\ rd'[o].hits = NoHits
    BY <1>0, <1>10 DEF Candidates, TypeOK, Reader, ReaderOK
  <2> QED BY <1>0, <2>1 DEF FreshOK, NoHits
<1>11. ASSUME NEW m \in Records, Hydrate(o, m) PROVE FreshOK(rd[o], n)'
  <2>1. /\ version' = version /\ rd'[o].base = rd[o].base /\ rd'[o].level = rd[o].level
        /\ rd'[o].pc = "hydrate" /\ rd[o].pc = "hydrate"
        /\ rd'[o].hits[n] \in {0, version[n], rd[o].hits[n]}
    BY <1>0, <1>11 DEF Hydrate, TypeOK, Reader, Hits
  <2> QED BY <1>0, <2>1 DEF FreshOK
<1>12. ASSUME NEW p \in Readers, p # o,
              \/ ReaderStep(p)
              \/ \E k \in Keys, lvl \in Levels : StartRecall(p, k, lvl)
       PROVE  FreshOK(rd[o], n)'
  <2>1. rd'[o] = rd[o] /\ version' = version
    BY <1>12 DEF ReaderStep, StartRecall, Lookup, Validate, ValidateDone, Candidates,
                 Hydrate, HydrateDone, Fill, Respond, Fail, TypeOK
  <2> QED BY <1>0, <1>1, <2>1
<1>13. CASE Respond(o) \/ Fail(o)
  BY <1>2, <1>13 DEF Respond, Fail, TypeOK
<1>14. ASSUME NEW p \in Writers, Invalidate(p) \/ Bump(p) PROVE FreshOK(rd[o], n)'
  BY <1>4, <1>14 DEF Invalidate, Bump
<1>15. CASE Tick \/ UNCHANGED vars
  BY <1>4, <1>15 DEF Tick, vars
<1>16. ASSUME NEW p \in Readers,
              \/ ReaderStep(p)
              \/ \E k \in Keys, lvl \in Levels : StartRecall(p, k, lvl)
       PROVE  FreshOK(rd[o], n)'
  <2>1. CASE p = o
    BY <1>6, <1>7, <1>8, <1>9, <1>10, <1>11, <1>13, <1>16, <2>1 DEF ReaderStep
  <2> QED BY <1>12, <1>16, <2>1
<1> QED BY <1>3, <1>14, <1>15, <1>16 DEF Next

\* Bounded and strong answers never return a record at a version older than
\* the one it had when the recall began.
THEOREM HitsFresh == Spec => []HitsNotOlderThanRequest
<1>1. Init => FreshInv
  <2> SUFFICES ASSUME Init, NEW p \in Readers, NEW m \in Records
               PROVE  FreshOK(rd[p], m)
    BY DEF FreshInv
  <2>1. rd[p] = IdleReader /\ version[m] \in Nat
    BY DEF Init, NoHits
  <2> QED BY <2>1, IdleFresh
<1>2. TypeOK /\ TokenInv /\ FreshInv /\ [Next]_vars => FreshInv'
  BY FreshStep
<1>3. FreshInv => HitsNotOlderThanRequest
  BY DEF FreshInv, FreshOK, HitsNotOlderThanRequest
<1> QED BY <1>1, <1>2, <1>3, TypeCorrect, TokenInvariant, PTL DEF Spec
=============================================================================
