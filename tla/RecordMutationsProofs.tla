----------------------- MODULE RecordMutationsProofs -----------------------
(***************************************************************************)
(* Theorems about RecordMutations, for every number of requests, keys,     *)
(* payloads and versions, with failing calls, retries and the GC.          *)
(***************************************************************************)
EXTENDS RecordMutations, TLAPS

\* The constants of the model have their types.
LEMMA IdleType ==
  /\ AnyBody \in Body /\ Idle \in Request
  /\ Idle.pc = "idle" /\ Idle.op = "patch" /\ Idle.code = 0
  /\ \A b \in Body : b.expected \in 1..(MaxVersion - 1)
<1>1. \E b \in Body : TRUE
  <2>1. PICK x \in Payloads : TRUE
    BY ConstantsAssumption
  <2>2. [expected |-> 1, payload |-> x] \in Body
    BY ConstantsAssumption DEF Body
  <2> QED BY <2>2
<1>2. AnyBody \in Body
  BY <1>1 DEF AnyBody
<1> QED BY <1>2, ConstantsAssumption DEF Idle, Request, Ops, Codes, Body

\* The fields of a request.
LEMMA RequestType ==
  ASSUME TypeOK, NEW p \in Procs
  PROVE  /\ rq[p] \in Request
         /\ rq[p].op \in Ops /\ rq[p].body \in Body /\ rq[p].key \in Keys \cup {NoKey}
         /\ rq[p].body.expected \in 1..(MaxVersion - 1)
         /\ rq[p].v \in 0..MaxVersion /\ rq[p].base \in 0..MaxVersion
<1>1. rq[p] \in Request
  BY DEF TypeOK
<1> QED BY <1>1, IdleType DEF Request

\* The request an answer leads to.
LEMMA AnswerRequest ==
  ASSUME TypeOK, NEW p \in Procs, NEW c \in Codes, NEW v \in 0..MaxVersion, Answer(p, c, v)
  PROVE  \E q \in Request :
           /\ rq' = [rq EXCEPT ![p] = q]
           /\ q.pc = "done" /\ q.code = c /\ q.v = v
           /\ q.op = rq[p].op /\ q.body = rq[p].body /\ q.key = rq[p].key
           /\ q.base = rq[p].base /\ q.failed = rq[p].failed
<1> DEFINE q == [rq[p] EXCEPT !.pc = "done", !.code = c, !.v = v]
<1>1. rq[p] \in Request
  BY DEF TypeOK
<1>2. q \in Request
  BY <1>1 DEF Request
<1>3. /\ q.pc = "done" /\ q.code = c /\ q.v = v
      /\ q.op = rq[p].op /\ q.body = rq[p].body /\ q.key = rq[p].key
      /\ q.base = rq[p].base /\ q.failed = rq[p].failed
  BY <1>1 DEF Request
<1>4. rq' = [rq EXCEPT ![p] = q]
  BY DEF Answer
<1> QED BY <1>2, <1>3, <1>4

\* The flags after a mutation are flags.
LEMMA EffectType ==
  ASSUME TypeOK, NEW o \in Ops
  PROVE  /\ Effect(o) \in Flags
         /\ o # "delete" => Effect(o).deleted = flags.deleted
         /\ ~flags.deleted /\ o # "patch" => Desired(o, Effect(o))
BY DEF TypeOK, Flags, Ops, Effect, Desired

-----------------------------------------------------------------------------
(* Steps. *)

\* A step of one request that leaves the record alone, if what it leaves in the
\* idempotency store is known, and the request is as it should be.
LEMMA RequestStep ==
  ASSUME TypeOK, MutationsInv, NEW p \in Procs, NEW q \in Request,
         rq' = [rq EXCEPT ![p] = q], UNCHANGED store, idem' \in [Keys -> Entry],
         \A k \in Keys : idem'[k].v # 0 =>
           [key |-> k, body |-> idem'[k].body, v |-> idem'[k].v] \in applied,
         UnderWay(q), Truthful(q), Recognised(q)
  PROVE  TypeOK' /\ MutationsInv'
<1>1. TypeOK'
  BY DEF TypeOK, store
<1>2. StoreInv'
  BY DEF MutationsInv, StoreInv, store
<1>3. ASSUME NEW x \in Procs
      PROVE  (UnderWay(rq[x]) /\ Truthful(rq[x]) /\ Recognised(rq[x]))'
  <2>1. UNCHANGED <<version, purged, history, applied>>
    BY DEF store
  <2>2. CASE x = p
    <3>1. rq'[x] = q
      BY <2>2 DEF TypeOK
    <3> QED BY <2>1, <3>1 DEF UnderWay, Truthful, Recognised, Known
  <2>3. CASE x # p
    <3>1. rq'[x] = rq[x]
      BY <2>3 DEF TypeOK
    <3>2. UnderWay(rq[x]) /\ Truthful(rq[x]) /\ Recognised(rq[x])
      BY DEF MutationsInv
    <3> QED BY <2>1, <3>1, <3>2 DEF UnderWay, Truthful, Recognised, Known
  <2> QED BY <2>2, <2>3
<1> QED BY <1>1, <1>2, <1>3 DEF MutationsInv

\* In particular a step that changes nothing but the request.
LEMMA LocalStep ==
  ASSUME TypeOK, MutationsInv, NEW p \in Procs, NEW q \in Request,
         rq' = [rq EXCEPT ![p] = q], UNCHANGED <<store, idem>>,
         UnderWay(q), Truthful(q), Recognised(q)
  PROVE  TypeOK' /\ MutationsInv'
<1>1. /\ idem' \in [Keys -> Entry]
      /\ \A k \in Keys : idem'[k].v # 0 =>
           [key |-> k, body |-> idem'[k].body, v |-> idem'[k].v] \in applied
  BY DEF TypeOK, MutationsInv, StoreInv
<1> QED BY <1>1, RequestStep

\* What was deleted when a request began is deleted still, and its version is
\* the last one.
LEMMA DeletedStays ==
  ASSUME TypeOK, StoreInv, NEW v \in 1..version, history[v].deleted
  PROVE  v = version /\ flags.deleted
BY DEF TypeOK, StoreInv

\* A commit keeps what the store promises.
LEMMA CommitStore ==
  ASSUME TypeOK, MutationsInv, NEW p \in Procs, Accepts(p), Commit(p)
  PROVE  /\ StoreInv'
         /\ version' = version + 1 /\ version + 1 \in 1..MaxVersion
         /\ purged' = purged /\ idem' = idem /\ flags' \in Flags
         /\ history' \in [1..MaxVersion -> Flags]
         /\ history'[version + 1] = Effect(rq[p].op)
         /\ \A v \in 1..version : history'[v] = history[v]
         /\ applied' \subseteq [key : Keys, body : Body, v : 1..MaxVersion]
         /\ applied \subseteq applied'
         /\ rq[p].key # NoKey =>
              [key |-> rq[p].key, body |-> rq[p].body, v |-> version + 1] \in applied'
<1>1. version \in 1..MaxVersion /\ version + 1 \in 1..MaxVersion /\ version' = version + 1
  BY RequestType, ConstantsAssumption DEF TypeOK, Accepts, Commit
<1>2. Effect(rq[p].op) \in Flags
  BY RequestType, EffectType
<1>3. /\ flags' \in Flags /\ history' \in [1..MaxVersion -> Flags]
      /\ flags' = Effect(rq[p].op) /\ history'[version + 1] = Effect(rq[p].op)
      /\ \A v \in 1..version : history'[v] = history[v]
      /\ purged' = purged /\ idem' = idem
  BY <1>1, <1>2 DEF Commit, TypeOK
<1>4. /\ applied' \subseteq [key : Keys, body : Body, v : 1..MaxVersion]
      /\ applied \subseteq applied'
      /\ rq[p].key # NoKey =>
           [key |-> rq[p].key, body |-> rq[p].body, v |-> version + 1] \in applied'
  BY <1>1, RequestType DEF Commit, TypeOK
<1>5. \A v \in 1..(version' - 1) : ~history'[v].deleted
  <2>1. ~flags.deleted /\ history[version] = flags
    BY DEF Accepts, MutationsInv, StoreInv
  <2>2. \A v \in 1..version : ~history[v].deleted
    BY <1>1, <2>1 DEF MutationsInv, StoreInv
  <2> QED BY <1>1, <1>3, <2>2
<1>6. \A a \in applied' : a.v = a.body.expected + 1 /\ a.v <= version'
  <2>1. \A a \in applied : a.v = a.body.expected + 1 /\ a.v <= version /\ a.v \in Nat
    BY DEF MutationsInv, StoreInv, TypeOK
  <2>2. rq[p].body.expected = version
    BY DEF Accepts
  <2>3. \A a \in applied' : a \in applied \/ a = [key |-> rq[p].key, body |-> rq[p].body, v |-> version + 1]
    BY DEF Commit
  <2>4. version < version + 1
    BY <1>1
  <2> QED BY <1>1, <2>1, <2>2, <2>3, <2>4
<1>7. \A k \in Keys : idem'[k].v # 0 =>
        [key |-> k, body |-> idem'[k].body, v |-> idem'[k].v] \in applied'
  BY <1>3, <1>4 DEF MutationsInv, StoreInv
<1>8. StoreInv'
  BY <1>1, <1>3, <1>5, <1>6, <1>7 DEF StoreInv
<1> QED BY <1>1, <1>3, <1>4, <1>8

\* A commit by p, if the request it leads to is as it should be.
LEMMA CommitStep ==
  ASSUME TypeOK, MutationsInv, NEW p \in Procs, Accepts(p), Commit(p),
         NEW q \in Request, rq' = [rq EXCEPT ![p] = q],
         q.op = rq[p].op, q.body = rq[p].body, q.key = rq[p].key, q.base = rq[p].base,
         At(p, "mutate"),
         \/ q.pc = "done" /\ q.code = 200 /\ q.v = version + 1 /\ q.key = NoKey
         \/ q.pc = "done" /\ q.code = 503
         \/ q.pc = "saveKey" /\ q.v = version + 1 /\ q.key # NoKey
  PROVE  TypeOK' /\ MutationsInv'
<1>0. version \in 1..MaxVersion
  BY DEF TypeOK
<1>c. /\ StoreInv'
      /\ version' = version + 1 /\ version + 1 \in 1..MaxVersion
      /\ purged' = purged
      /\ history'[version + 1] = Effect(rq[p].op)
      /\ \A v \in 1..version : history'[v] = history[v]
      /\ applied \subseteq applied'
      /\ rq[p].key # NoKey =>
           [key |-> rq[p].key, body |-> rq[p].body, v |-> version + 1] \in applied'
  BY CommitStore
<1>1. TypeOK'
  BY CommitStore DEF TypeOK
<1>2. ASSUME NEW x \in Procs, x # p
      PROVE  (UnderWay(rq[x]) /\ Truthful(rq[x]) /\ Recognised(rq[x]))'
  <2>1. rq'[x] = rq[x]
    BY <1>2 DEF TypeOK
  <2>2. rq[x].pc # "idle" => rq[x].base \in 1..version /\ history'[rq[x].base] = history[rq[x].base]
    BY <1>c DEF MutationsInv, UnderWay
  <2>3. UnderWay(rq[x])'
    BY <1>0, <2>1, <1>c DEF MutationsInv, UnderWay, Known
  <2>4. Truthful(rq[x])'
    BY <1>0, <2>1, <2>2, <1>c DEF MutationsInv, Truthful, Known
  <2>5. Recognised(rq[x])'
    BY <2>1, <2>2, <1>c DEF MutationsInv, Recognised
  <2> QED BY <2>3, <2>4, <2>5
<1>3. (UnderWay(rq[p]) /\ Truthful(rq[p]) /\ Recognised(rq[p]))'
  <2>1. rq'[p] = q
    BY DEF TypeOK
  <2>2. rq[p].base \in 1..version /\ (rq[p].op # "patch" => rq[p].key = NoKey)
    BY DEF MutationsInv, UnderWay, At
  <2>3. ~history'[q.base].deleted
    <3>1. ~history[rq[p].base].deleted
      BY <2>2, DeletedStays DEF MutationsInv, Accepts
    <3> QED BY <2>2, <3>1, <1>c
  <2>4. UnderWay(rq[p])'
    BY <1>0, <2>1, <2>2, <1>c DEF UnderWay, Known
  <2>5. Truthful(rq[p])'
    <3>1. q.op # "patch" => Desired(q.op, Effect(q.op))
      BY EffectType, RequestType DEF Accepts
    <3>2. rq[p].body.expected = version
      BY DEF Accepts
    <3> QED BY <1>0, <2>1, <2>2, <2>3, <3>1, <3>2, <1>c DEF Truthful
  <2>6. Recognised(rq[p])'
    BY <2>1, <2>3 DEF Recognised
  <2> QED BY <2>4, <2>5, <2>6
<1> QED BY <1>1, <1>2, <1>3, <1>c DEF MutationsInv

\* Every step keeps the type and the invariant.
LEMMA MutationsStep ==
  ASSUME TypeOK, MutationsInv, [Next]_vars
  PROVE  TypeOK' /\ MutationsInv'
<1>0. version \in 1..MaxVersion /\ StoreInv
  BY DEF TypeOK, MutationsInv
<1>r. \A p \in Procs : UnderWay(rq[p]) /\ Truthful(rq[p]) /\ Recognised(rq[p])
  BY DEF MutationsInv
<1>1. ASSUME NEW p \in Procs, NEW o \in Ops, NEW b \in Body,
             NEW k \in Keys \cup {NoKey}, Start(p, o, b, k)
      PROVE  TypeOK' /\ MutationsInv'
  <2> DEFINE q == [Idle EXCEPT !.pc = IF o # "patch" THEN "read"
                                      ELSE IF k = NoKey THEN "mutate" ELSE "loadKey",
                               !.op = o, !.body = b, !.key = k, !.base = version]
  <2>1. /\ q \in Request /\ q.op = o /\ q.key = k /\ q.base = version
        /\ q.pc = IF o # "patch" THEN "read" ELSE IF k = NoKey THEN "mutate" ELSE "loadKey"
    <3>1. q \in Request
      <4>1. version \in 0..MaxVersion /\ Idle \in Request
        BY <1>0, ConstantsAssumption, IdleType
      <4>2. CASE o # "patch"
        BY <4>1, <4>2 DEF Request
      <4>3. CASE o = "patch" /\ k = NoKey
        BY <4>1, <4>3 DEF Request
      <4>4. CASE o = "patch" /\ k # NoKey
        BY <4>1, <4>4 DEF Request
      <4> QED BY <4>2, <4>3, <4>4
    <3> QED BY <3>1, IdleType DEF Request
  <2>2. o # "patch" => k = NoKey
    BY <1>1 DEF Start
  <2>3. rq' = [rq EXCEPT ![p] = q] /\ UNCHANGED <<store, idem>>
    BY <1>1 DEF Start
  <2> HIDE DEF q
  <2>4. UnderWay(q) /\ Truthful(q) /\ Recognised(q)
    BY <1>0, <2>1, <2>2 DEF UnderWay, Truthful, Recognised
  <2> QED BY <2>1, <2>3, <2>4, LocalStep
<1>2. ASSUME NEW p \in Procs, LoadKey(p)
      PROVE  TypeOK' /\ MutationsInv'
  <2> DEFINE e == idem[rq[p].key]
  <2>1. /\ rq[p].pc = "loadKey" /\ rq[p].key \in Keys /\ rq[p].op = "patch"
        /\ rq[p].base \in 1..version
    BY <1>2, <1>r, RequestType DEF LoadKey, At, UnderWay
  <2>2. e \in Entry /\ e.v \in 0..MaxVersion
    BY <2>1 DEF TypeOK, Entry
  <2>3. UNCHANGED <<store, idem>>
    BY <1>2 DEF LoadKey
  <2>4. CASE Goto(p, "mutate")
    <3> DEFINE q == [rq[p] EXCEPT !.pc = "mutate"]
    <3>1. q \in Request /\ rq' = [rq EXCEPT ![p] = q]
      BY <2>4, RequestType DEF Goto, Request, TypeOK
    <3>2. UnderWay(q) /\ Truthful(q) /\ Recognised(q)
      BY <1>r, <2>1, RequestType DEF UnderWay, Truthful, Recognised, Request
    <3> QED BY <2>3, <3>1, <3>2, LocalStep
  <2>5. CASE e.v # 0 /\ e.body = rq[p].body /\ Answer(p, 200, e.v)
    <3>1. PICK q \in Request :
           /\ rq' = [rq EXCEPT ![p] = q]
           /\ q.pc = "done" /\ q.code = 200 /\ q.v = e.v
           /\ q.op = rq[p].op /\ q.body = rq[p].body /\ q.key = rq[p].key
           /\ q.base = rq[p].base /\ q.failed = rq[p].failed
      BY <2>1, <2>2, <2>5, AnswerRequest DEF Codes
    <3>2. [key |-> q.key, body |-> q.body, v |-> q.v] \in applied
      BY <1>0, <2>1, <2>5, <3>1 DEF StoreInv
    <3>3. q.v = q.body.expected + 1 /\ q.v <= version
      BY <1>0, <3>2 DEF StoreInv
    <3>4. q.v \in 1..version /\ q.body.expected <= q.v
      BY <1>0, <2>2, <2>5, <3>1, <3>3, RequestType
    <3>5. q.key # NoKey
      BY <2>1, <3>1, ConstantsAssumption
    <3>6. UnderWay(q) /\ Truthful(q) /\ Recognised(q)
      BY <2>1, <3>1, <3>2, <3>4, <3>5 DEF UnderWay, Truthful, Recognised, Known
    <3> QED BY <2>3, <3>1, <3>6, LocalStep
  <2>6. ASSUME NEW c \in {409, 503}, Answer(p, c, 0)
        PROVE  TypeOK' /\ MutationsInv'
    <3>1. PICK q \in Request :
           /\ rq' = [rq EXCEPT ![p] = q]
           /\ q.pc = "done" /\ q.code = c /\ q.v = 0
           /\ q.op = rq[p].op /\ q.body = rq[p].body /\ q.key = rq[p].key
           /\ q.base = rq[p].base /\ q.failed = rq[p].failed
      BY <2>1, <2>6, AnswerRequest, ConstantsAssumption DEF Codes
    <3>2. UnderWay(q) /\ Truthful(q) /\ Recognised(q)
      BY <2>1, <2>6, <3>1 DEF UnderWay, Truthful, Recognised
    <3> QED BY <2>3, <3>1, <3>2, LocalStep
  <2> QED BY <1>2, <2>4, <2>5, <2>6 DEF LoadKey
<1>3. ASSUME NEW p \in Procs, Read(p)
      PROVE  TypeOK' /\ MutationsInv'
  <2>1. /\ rq[p].pc = "read" /\ rq[p].base \in 1..version
        /\ rq[p].op # "patch" => rq[p].key = NoKey
    BY <1>3, <1>r DEF Read, At, UnderWay
  <2>2. UNCHANGED <<store, idem>>
    BY <1>3 DEF Read
  <2>d. history[rq[p].base].deleted => rq[p].base = version /\ flags.deleted
    BY <1>0, <2>1, DeletedStays
  <2>3. CASE ShortCircuits(p) /\ Answer(p, 200, version)
    <3>1. PICK q \in Request :
           /\ rq' = [rq EXCEPT ![p] = q]
           /\ q.pc = "done" /\ q.code = 200 /\ q.v = version
           /\ q.op = rq[p].op /\ q.body = rq[p].body /\ q.key = rq[p].key
           /\ q.base = rq[p].base /\ q.failed = rq[p].failed
      BY <1>0, <2>3, AnswerRequest, ConstantsAssumption DEF Codes
    <3>2. Desired(q.op, history[version]) /\ q.body.expected <= version
      BY <1>0, <2>3, <3>1 DEF ShortCircuits, StoreInv
    <3>3. flags.deleted => q.op = "delete"
      BY <2>3, <3>1 DEF ShortCircuits, Found, Desired
    <3>4. q.op # "patch"
      BY <3>2 DEF Desired
    <3>5. UnderWay(q) /\ Truthful(q) /\ Recognised(q)
      BY <1>0, <2>1, <2>d, <3>1, <3>2, <3>3, <3>4 DEF UnderWay, Truthful, Recognised
    <3> QED BY <2>2, <3>1, <3>5, LocalStep
  <2>4. CASE ~ShortCircuits(p) /\ Goto(p, "mutate")
    <3> DEFINE q == [rq[p] EXCEPT !.pc = "mutate"]
    <3>1. /\ q \in Request /\ rq' = [rq EXCEPT ![p] = q]
          /\ q.pc = "mutate" /\ q.op = rq[p].op
          /\ q.key = rq[p].key /\ q.body = rq[p].body /\ q.base = rq[p].base
      BY <2>4, RequestType DEF Goto, Request, TypeOK
    <3>2. rq[p].op = "delete" /\ history[rq[p].base].deleted /\ rq[p].body.expected <= rq[p].base
          => purged
      BY <2>4, <2>d DEF ShortCircuits, Found, Desired
    <3> HIDE DEF q
    <3>3. UnderWay(q) /\ Truthful(q) /\ Recognised(q)
      BY <2>1, <3>1, <3>2 DEF UnderWay, Truthful, Recognised
    <3> QED BY <2>2, <3>1, <3>3, LocalStep
  <2>5. CASE rq' = [rq EXCEPT ![p].pc = "mutate", ![p].failed = TRUE]
    <3> DEFINE q == [rq[p] EXCEPT !.pc = "mutate", !.failed = TRUE]
    <3>1. /\ q \in Request /\ rq' = [rq EXCEPT ![p] = q]
          /\ q.pc = "mutate" /\ q.op = rq[p].op /\ q.failed
          /\ q.key = rq[p].key /\ q.body = rq[p].body /\ q.base = rq[p].base
      BY <2>5, RequestType DEF Request, TypeOK
    <3> HIDE DEF q
    <3>2. UnderWay(q) /\ Truthful(q) /\ Recognised(q)
      BY <2>1, <3>1 DEF UnderWay, Truthful, Recognised
    <3> QED BY <2>2, <3>1, <3>2, LocalStep
  <2> QED BY <1>3, <2>3, <2>4, <2>5 DEF Read
<1>4. ASSUME NEW p \in Procs, Mutate(p)
      PROVE  TypeOK' /\ MutationsInv'
  <2>1. /\ rq[p].pc = "mutate" /\ At(p, "mutate") /\ rq[p].base \in 1..version
        /\ rq[p].op # "patch" => rq[p].key = NoKey
    BY <1>4, <1>r DEF Mutate, At, UnderWay
  <2>2. CASE Accepts(p) /\ Commit(p)
    <3>1. version + 1 \in 0..MaxVersion
      BY <1>0, <2>2, RequestType, ConstantsAssumption DEF Accepts
    <3>2. CASE rq[p].key = NoKey /\ Answer(p, 200, version + 1)
      <4>1. PICK q \in Request :
             /\ rq' = [rq EXCEPT ![p] = q]
             /\ q.pc = "done" /\ q.code = 200 /\ q.v = version + 1
             /\ q.op = rq[p].op /\ q.body = rq[p].body /\ q.key = rq[p].key
             /\ q.base = rq[p].base /\ q.failed = rq[p].failed
        BY <3>1, <3>2, AnswerRequest DEF Codes
      <4> QED BY <2>1, <2>2, <3>2, <4>1, CommitStep
    <3>3. CASE rq[p].key # NoKey /\ rq' = [rq EXCEPT ![p].pc = "saveKey", ![p].v = version + 1]
      <4> DEFINE q == [rq[p] EXCEPT !.pc = "saveKey", !.v = version + 1]
      <4>1. /\ q \in Request /\ rq' = [rq EXCEPT ![p] = q]
            /\ q.pc = "saveKey" /\ q.v = version + 1 /\ q.op = rq[p].op
            /\ q.key = rq[p].key /\ q.body = rq[p].body /\ q.base = rq[p].base
        BY <3>1, <3>3, RequestType DEF Request, TypeOK
      <4> HIDE DEF q
      <4> QED BY <2>1, <2>2, <3>3, <4>1, CommitStep
    <3>4. CASE Answer(p, 503, 0)
      <4>1. PICK q \in Request :
             /\ rq' = [rq EXCEPT ![p] = q]
             /\ q.pc = "done" /\ q.code = 503 /\ q.v = 0
             /\ q.op = rq[p].op /\ q.body = rq[p].body /\ q.key = rq[p].key
             /\ q.base = rq[p].base /\ q.failed = rq[p].failed
        BY <3>4, AnswerRequest, ConstantsAssumption DEF Codes
      <4> QED BY <2>1, <2>2, <4>1, CommitStep
    <3> QED BY <1>4, <2>2, <3>2, <3>3, <3>4 DEF Mutate
  <2>3. ASSUME NEW c \in {404, 409, 503}, Answer(p, c, 0), UNCHANGED <<store, idem>>
        PROVE  TypeOK' /\ MutationsInv'
    <3>1. PICK q \in Request :
           /\ rq' = [rq EXCEPT ![p] = q]
           /\ q.pc = "done" /\ q.code = c /\ q.v = 0
           /\ q.op = rq[p].op /\ q.body = rq[p].body /\ q.key = rq[p].key
           /\ q.base = rq[p].base /\ q.failed = rq[p].failed
      BY <2>3, AnswerRequest, ConstantsAssumption DEF Codes
    <3>2. UnderWay(q) /\ Truthful(q) /\ Recognised(q)
      BY <1>r, <2>1, <2>3, <3>1 DEF UnderWay, Truthful, Recognised
    <3> QED BY <2>3, <3>1, <3>2, LocalStep
  <2> QED BY <1>4, <2>2, <2>3 DEF Mutate, Commit
<1>5. ASSUME NEW p \in Procs, SaveKey(p)
      PROVE  TypeOK' /\ MutationsInv'
  <2>1. /\ rq[p].pc = "saveKey" /\ rq[p].key # NoKey /\ rq[p].base \in 1..version
        /\ rq[p].op = "patch" /\ Known(rq[p])
    BY <1>5, <1>r DEF SaveKey, At, UnderWay
  <2>2. UNCHANGED store /\ Answer(p, 200, rq[p].v)
    BY <1>5 DEF SaveKey
  <2>3. PICK q \in Request :
         /\ rq' = [rq EXCEPT ![p] = q]
         /\ q.pc = "done" /\ q.code = 200 /\ q.v = rq[p].v
         /\ q.op = rq[p].op /\ q.body = rq[p].body /\ q.key = rq[p].key
         /\ q.base = rq[p].base /\ q.failed = rq[p].failed
    BY <2>2, RequestType, AnswerRequest DEF Codes
  <2>4. q.v = q.body.expected + 1 /\ q.v <= version
    BY <1>0, <2>1, <2>3 DEF StoreInv, Known
  <2>5. q.v \in 1..version /\ q.body.expected <= q.v
    BY <1>0, <2>3, <2>4, RequestType
  <2>6. UnderWay(q) /\ Truthful(q) /\ Recognised(q)
    BY <2>1, <2>3, <2>5 DEF UnderWay, Truthful, Recognised, Known
  <2>7. CASE UNCHANGED idem
    BY <2>2, <2>3, <2>6, <2>7, LocalStep
  <2>8. CASE idem' = [idem EXCEPT ![rq[p].key] = [body |-> rq[p].body, v |-> rq[p].v]]
    <3>1. [body |-> rq[p].body, v |-> rq[p].v] \in Entry /\ rq[p].key \in Keys
      BY <2>1, RequestType DEF Entry
    <3>2. idem' \in [Keys -> Entry]
      BY <2>8, <3>1 DEF TypeOK
    <3>3. \A k \in Keys : idem'[k].v # 0 =>
            [key |-> k, body |-> idem'[k].body, v |-> idem'[k].v] \in applied
      BY <1>0, <2>1, <2>8, <3>1 DEF TypeOK, StoreInv, Known
    <3> QED BY <2>2, <2>3, <2>6, <3>2, <3>3, RequestStep
  <2> QED BY <1>5, <2>7, <2>8 DEF SaveKey
<1>6. ASSUME NEW p \in Procs, Respond(p)
      PROVE  TypeOK' /\ MutationsInv'
  <2>1. UnderWay(Idle) /\ Truthful(Idle) /\ Recognised(Idle)
    BY IdleType DEF UnderWay, Truthful, Recognised
  <2> QED BY <1>6, <2>1, IdleType, LocalStep DEF Respond
<1>7. ASSUME Purge
      PROVE  TypeOK' /\ MutationsInv'
  BY <1>7 DEF Purge, TypeOK, MutationsInv, StoreInv, UnderWay, Truthful, Recognised, Known
<1>8. CASE UNCHANGED vars
  BY <1>8 DEF vars, TypeOK, MutationsInv, StoreInv, UnderWay, Truthful, Recognised, Known
<1> QED BY <1>1, <1>2, <1>3, <1>4, <1>5, <1>6, <1>7, <1>8 DEF Next

-----------------------------------------------------------------------------
(* Theorems. *)

LEMMA MutationsInitial == Init => TypeOK /\ MutationsInv
<1> SUFFICES ASSUME Init PROVE TypeOK /\ MutationsInv
  OBVIOUS
<1>1. 1 \in 1..MaxVersion /\ 0 \in 0..MaxVersion /\ NewFlags \in Flags
  BY ConstantsAssumption DEF NewFlags, Flags
<1>2. TypeOK
  BY <1>1, IdleType DEF Init, TypeOK, Entry
<1>3. StoreInv
  BY <1>1 DEF Init, StoreInv
<1>4. \A p \in Procs : UnderWay(rq[p]) /\ Truthful(rq[p]) /\ Recognised(rq[p])
  BY IdleType DEF Init, UnderWay, Truthful, Recognised
<1> QED BY <1>2, <1>3, <1>4 DEF MutationsInv

\* The invariant, on which the theorems below rest.
LEMMA MutationsInvariant == Spec => [](TypeOK /\ MutationsInv)
<1>1. TypeOK /\ MutationsInv /\ [Next]_vars => (TypeOK /\ MutationsInv)'
  BY MutationsStep
<1> QED BY <1>1, MutationsInitial, PTL DEF Spec

\* Records, idempotency entries and requests are well-formed: no commit exceeds
\* the version after the one that was expected.
THEOREM TypeCorrect == Spec => []TypeOK
BY MutationsInvariant, PTL

\* Every success of a patch, pin, unpin, disable, enable or delete was true of
\* the version it reports, whatever other requests, retries, failing calls and
\* the GC did between the handler's read and its call of the backend.
THEOREM SuccessesTrue == Spec => []SuccessTruthful
<1>1. TypeOK /\ MutationsInv => SuccessTruthful
  BY RequestType DEF TypeOK, MutationsInv, UnderWay, Truthful, SuccessTruthful, Succeeded, At
<1> QED BY <1>1, MutationsInvariant, PTL

\* Nothing but a delete succeeds on a record that was deleted when the request
\* began, and a deleted record never changes again.
THEOREM DeletionFinal == Spec => []DeletedIsFinal
<1>1. TypeOK /\ MutationsInv => DeletedIsFinal
  BY DEF MutationsInv, StoreInv, Truthful, DeletedIsFinal, Succeeded, At
<1> QED BY <1>1, MutationsInvariant, PTL

\* A keyed patch is committed once however often and however concurrently it is
\* retried: the three calls that look the key up, patch and save the key are not
\* atomic, but the version that the body expects is accepted once.
THEOREM KeyedOnce == Spec => []KeyedPatchOnce
<1>1. TypeOK /\ MutationsInv => KeyedPatchOnce
  BY DEF MutationsInv, StoreInv, Truthful, Known, KeyedPatchOnce, Succeeded, At
<1> QED BY <1>1, MutationsInvariant, PTL

\* A repeated delete is recognised unless its read failed, the backend was
\* unavailable, or the GC had removed the row.
THEOREM DeleteReplays == Spec => []DeleteReplayAnswered
<1>1. TypeOK /\ MutationsInv => DeleteReplayAnswered
  BY DEF MutationsInv, Recognised, DeleteReplayAnswered, At
<1> QED BY <1>1, MutationsInvariant, PTL
=============================================================================
