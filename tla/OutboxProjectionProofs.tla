----------------------- MODULE OutboxProjectionProofs -----------------------
(***************************************************************************)
(* Theorems about OutboxProjection, for every number of versions and       *)
(* attempts, with faults, crashes and redelivery in any order.             *)
(***************************************************************************)
EXTENDS OutboxProjection, TLAPS

\* An idle worker, and every event, has its type.
LEMMA IdleType ==
  /\ Idle \in Worker /\ Idle.pc = "idle"
  /\ \A e \in Event : e.v \in 1..MaxVersion
BY ConstantsAssumption DEF Idle, Worker, Event, UpsertTypes

\* Acknowledging or refusing an event leaves the truth alone, idles the
\* worker, and settles at most that event.
LEMMA Settle ==
  ASSUME TypeOK, OutboxInv, NEW w \in Workers, Ack(w) \/ Nack(w),
         worker[w].pc # "idle"
  PROVE  /\ status' \in [Event -> {"none", "pending", "done", "dead"}]
         /\ attempts' \in [Event -> 0..MaxAttempts]
         /\ worker' \in [Workers -> Worker]
         /\ version' = version /\ state' = state
         /\ OutboxInv'
<1> DEFINE e == worker[w].ev
<1>1. e \in Event
  BY DEF TypeOK, Worker
<1>2. e.v <= version /\ e.v \in Nat /\ version \in Nat
  BY <1>1, IdleType DEF TypeOK, OutboxInv
<1>3. worker' = [worker EXCEPT ![w] = Idle] /\ version' = version /\ state' = state
  BY DEF Ack, Nack, truth
<1>w. \A x \in Workers : worker[x] \in Worker /\ worker[x].ev \in Event
  BY DEF TypeOK, Worker
<1>4. CASE Ack(w)
  <2>1. status' = [status EXCEPT ![e] = "done"] /\ attempts' = attempts
    BY <1>4 DEF Ack
  <2> HIDE DEF e
  <2> QED BY <1>1, <1>2, <1>3, <1>w, <2>1, IdleType DEF TypeOK, OutboxInv
<1>5. CASE Nack(w)
  <2>1. CASE status[e] = "pending"
    <3>1. /\ attempts' = [attempts EXCEPT ![e] = @ + 1]
          /\ status' = [status EXCEPT ![e] = IF attempts[e] + 1 >= MaxAttempts
                                             THEN "dead" ELSE @]
      BY <1>5, <2>1 DEF Nack
    <3> HIDE DEF e
    <3>2. attempts[e] < MaxAttempts /\ attempts[e] \in Nat
      BY <1>1, <2>1, ConstantsAssumption DEF TypeOK, OutboxInv
    <3>3. CASE attempts[e] + 1 >= MaxAttempts
      <4>1. status' = [status EXCEPT ![e] = "dead"]
        BY <3>1, <3>3
      <4> QED
        BY <1>1, <1>2, <1>3, <1>w, <3>1, <3>2, <4>1, IdleType, ConstantsAssumption DEF TypeOK, OutboxInv
    <3>4. CASE ~(attempts[e] + 1 >= MaxAttempts)
      <4>1. status' = status
        BY <1>1, <3>1, <3>4 DEF TypeOK
      <4> QED
        BY <1>1, <1>2, <1>3, <1>w, <3>1, <3>2, <3>4, <4>1, IdleType, ConstantsAssumption DEF TypeOK, OutboxInv
    <3> QED BY <3>3, <3>4
  <2>2. CASE status[e] # "pending"
    <3>1. status' = status /\ attempts' = attempts
      BY <1>5, <2>2 DEF Nack
    <3> QED BY <1>3, <1>w, <3>1, IdleType DEF TypeOK, OutboxInv
  <2> QED BY <2>1, <2>2
<1> QED BY <1>4, <1>5

\* A mutation of the truth source announces versions nobody has seen.
LEMMA CommitStep ==
  ASSUME TypeOK, OutboxInv, NEW ev \in SUBSET Event, version < MaxVersion,
         \A e \in ev : e.v = version + 1,
         version' = version + 1, state' \in {"visible", "disabled", "deleted"},
         status' = [e \in Event |-> IF e \in ev THEN "pending" ELSE status[e]],
         UNCHANGED <<attempts, vector, worker>>
  PROVE  TypeOK' /\ OutboxInv'
<1>1. \A x \in Workers : worker[x] \in Worker /\ worker[x].ev \in Event
  BY DEF TypeOK, Worker
<1>2. version \in Nat /\ version + 1 \in 0..MaxVersion /\ \A e \in Event : e.v \in Nat
  BY IdleType, ConstantsAssumption DEF TypeOK
<1>3. TypeOK'
  BY <1>2 DEF TypeOK
<1>4. OutboxInv'
  BY <1>1, <1>2 DEF OutboxInv
<1> QED BY <1>3, <1>4

\* A mutation of a request is such a step ...
LEMMA MutateCommits ==
  ASSUME TypeOK, NEW t \in UpsertTypes \cup RemoveTypes \cup {"promoted"}, Mutate(t)
  PROVE  /\ [type |-> t, v |-> version + 1] \in Event
         /\ status' = [e \in Event |-> IF e \in {[type |-> t, v |-> version + 1]}
                                       THEN "pending" ELSE status[e]]
         /\ state' \in {"visible", "disabled", "deleted"}
<1>1. [type |-> t, v |-> version + 1] \in Event
  BY ConstantsAssumption DEF Mutate, TypeOK, Event, ObservedTypes
<1>2. status' = [e \in Event |-> IF e \in {[type |-> t, v |-> version + 1]}
                                 THEN "pending" ELSE status[e]]
  BY <1>1 DEF Mutate, TypeOK
<1>3. state' \in {"visible", "disabled", "deleted"}
  BY DEF Mutate, NewState, RemoveTypes, TypeOK
<1> QED BY <1>1, <1>2, <1>3

\* ... and so is the deletion of the loser of a dedupe.
LEMMA CollapseCommits ==
  ASSUME TypeOK, Collapse
  PROVE  /\ {[type |-> "dedupe_collapsed", v |-> version + 1],
             [type |-> "deleted", v |-> version + 1]} \subseteq Event
         /\ status' = [e \in Event |->
                         IF e \in {[type |-> "dedupe_collapsed", v |-> version + 1],
                                   [type |-> "deleted", v |-> version + 1]}
                         THEN "pending" ELSE status[e]]
<1>1. {[type |-> "dedupe_collapsed", v |-> version + 1],
       [type |-> "deleted", v |-> version + 1]} \subseteq Event
  BY ConstantsAssumption DEF Collapse, TypeOK, Event, ObservedTypes, RemoveTypes
<1>2. status' = [e \in Event |->
                   IF e \in {[type |-> "dedupe_collapsed", v |-> version + 1],
                             [type |-> "deleted", v |-> version + 1]}
                   THEN "pending" ELSE status[e]]
  BY <1>1 DEF Collapse, TypeOK
<1> QED BY <1>1, <1>2

\* Every step keeps TypeOK and OutboxInv, whatever the number of workers.
LEMMA OutboxStep ==
  ASSUME TypeOK, OutboxInv, [Next]_vars
  PROVE  TypeOK' /\ OutboxInv'
<1>0. \A x \in Workers : /\ worker[x] \in Worker /\ worker[x].ev \in Event
                         /\ worker[x].current \in 0..MaxVersion
  BY DEF TypeOK, Worker
<1>1. ASSUME NEW t \in UpsertTypes \cup RemoveTypes \cup {"promoted"}, Mutate(t)
      PROVE  TypeOK' /\ OutboxInv'
  <2> DEFINE ev == {[type |-> t, v |-> version + 1]}
  <2>1. ev \in SUBSET Event /\ \A e \in ev : e.v = version + 1
    BY <1>1, MutateCommits
  <2>2. status' = [e \in Event |-> IF e \in ev THEN "pending" ELSE status[e]]
    BY <1>1, MutateCommits
  <2>3. /\ version < MaxVersion /\ version' = version + 1
        /\ state' \in {"visible", "disabled", "deleted"} /\ UNCHANGED <<attempts, vector, worker>>
    BY <1>1, MutateCommits DEF Mutate
  <2> HIDE DEF ev
  <2> QED BY <2>1, <2>2, <2>3, CommitStep
<1>2. ASSUME Collapse PROVE TypeOK' /\ OutboxInv'
  <2> DEFINE ev == {[type |-> "dedupe_collapsed", v |-> version + 1],
                    [type |-> "deleted", v |-> version + 1]}
  <2>1. ev \in SUBSET Event /\ \A e \in ev : e.v = version + 1
    BY <1>2, CollapseCommits
  <2>2. status' = [e \in Event |-> IF e \in ev THEN "pending" ELSE status[e]]
    BY <1>2, CollapseCommits
  <2>3. /\ version < MaxVersion /\ version' = version + 1
        /\ state' \in {"visible", "disabled", "deleted"} /\ UNCHANGED <<attempts, vector, worker>>
    BY <1>2, ConstantsAssumption DEF Collapse, TypeOK
  <2> HIDE DEF ev
  <2> QED BY <2>1, <2>2, <2>3, CommitStep
<1>3. ASSUME NEW w \in Workers, NEW e \in Event, Claim(w, e)
      PROVE  TypeOK' /\ OutboxInv'
  <2>1. [pc |-> "read", ev |-> e, current |-> 0] \in Worker
    BY ConstantsAssumption DEF Worker
  <2>2. worker' = [worker EXCEPT ![w] = [pc |-> "read", ev |-> e, current |-> 0]]
    BY <1>3 DEF Claim
  <2>3. TypeOK'
    BY <1>3, <2>1, <2>2 DEF Claim, TypeOK, truth
  <2>4. OutboxInv'
    BY <1>0, <1>3, <2>2 DEF Claim, OutboxInv, TypeOK, truth
  <2> QED BY <2>3, <2>4
<1>4. ASSUME NEW w \in Workers, Ack(w) \/ Nack(w), worker[w].pc # "idle",
             vector' \in 0..MaxVersion
      PROVE  TypeOK' /\ OutboxInv'
  BY <1>4, Settle DEF TypeOK
<1>5. ASSUME NEW w \in Workers, Observe(w) PROVE TypeOK' /\ OutboxInv'
  BY <1>4, <1>5 DEF Observe, TypeOK
<1>6. ASSUME NEW w \in Workers, ReadTruth(w) PROVE TypeOK' /\ OutboxInv'
  <2>1. CASE Ack(w) \/ Nack(w)
    BY <1>4, <1>6, <2>1 DEF ReadTruth, TypeOK
  <2>2. CASE ~(Ack(w) \/ Nack(w))
    <3> DEFINE q == [worker[w] EXCEPT
             !.pc = IF worker[w].ev.type \in UpsertTypes THEN "upsert" ELSE "remove",
             !.current = version]
    <3>1. worker' = [worker EXCEPT ![w] = q]
      BY <1>6, <2>2 DEF ReadTruth, TypeOK
    <3>2. q \in Worker /\ q.ev = worker[w].ev
      BY <1>0 DEF TypeOK, Worker
    <3>3. UNCHANGED <<version, state, status, attempts, vector>> /\ worker[w].pc # "idle"
      BY <1>6, <2>2 DEF ReadTruth, truth
    <3> HIDE DEF q
    <3>4. TypeOK'
      BY <3>1, <3>2, <3>3 DEF TypeOK
    <3>5. OutboxInv'
      BY <1>0, <3>1, <3>2, <3>3 DEF OutboxInv, TypeOK
    <3> QED BY <3>4, <3>5
  <2> QED BY <2>1, <2>2
<1>7. ASSUME NEW w \in Workers, ProjectUpsert(w) \/ ProjectRemove(w)
      PROVE  TypeOK' /\ OutboxInv'
  <2>1. Ack(w) \/ Nack(w)
    BY <1>7 DEF ProjectUpsert, ProjectRemove, Project
  <2>2. worker[w].pc # "idle"
    BY <1>7 DEF ProjectUpsert, ProjectRemove
  <2>3. vector' \in 0..MaxVersion
    BY <1>0, <1>7, ConstantsAssumption DEF ProjectUpsert, ProjectRemove, Project, TypeOK
  <2> QED BY <1>4, <2>1, <2>2, <2>3
<1>8. ASSUME NEW w \in Workers, Crash(w) PROVE TypeOK' /\ OutboxInv'
  <2>1. vector' \in 0..MaxVersion
    BY <1>0, <1>8, ConstantsAssumption DEF Crash, TypeOK
  <2>2. UNCHANGED <<version, state, status, attempts>> /\ worker' = [worker EXCEPT ![w] = Idle]
    BY <1>8 DEF Crash, truth
  <2>3. TypeOK'
    BY <2>1, <2>2, IdleType DEF TypeOK
  <2>4. OutboxInv'
    BY <1>0, <2>2, IdleType DEF OutboxInv, TypeOK
  <2> QED BY <2>3, <2>4
<1>9. ASSUME UNCHANGED vars PROVE TypeOK' /\ OutboxInv'
  BY <1>9 DEF vars, TypeOK, OutboxInv
<1> QED
  BY <1>1, <1>2, <1>3, <1>5, <1>6, <1>7, <1>8, <1>9 DEF Next, Work, Publish

\* Type correctness of the projection: in particular no event is published
\* more often than its budget of attempts allows.
THEOREM TypeCorrect == Spec => []TypeOK
<1>1. Init => TypeOK /\ OutboxInv
  BY IdleType, ConstantsAssumption DEF Init, TypeOK, OutboxInv
<1>2. TypeOK /\ OutboxInv /\ [Next]_vars => (TypeOK /\ OutboxInv)'
  BY OutboxStep
<1> QED BY <1>1, <1>2, PTL DEF Spec

\* One relay worker: the gateway is deployed as a single replica.
SingleWorker == \A x, y \in Workers : x = y

\* Claiming an event, reading the truth or crashing without a write settles
\* nothing: only the worker's own part of the invariant has to be shown again.
LEMMA WorkerFrame ==
  ASSUME SingleWorker, TypeOK, ProjectionInv, NEW w \in Workers, NEW q \in Worker,
         worker' = [worker EXCEPT ![w] = q],
         UNCHANGED <<version, state, status, vector>>,
         q.pc # "idle" => status[q.ev] = "pending",
         q.pc = "upsert" => /\ q.ev.type \in UpsertTypes /\ q.current = q.ev.v
                            /\ q.ev.v = version \/ NoneSettled,
         q.pc = "remove" => /\ q.ev.type \in RemoveTypes
                            /\ state # "visible" \/ NoneSettled
  PROVE  ProjectionInv'
<1>1. NoneSettled <=> NoneSettled'
  BY DEF NoneSettled
<1>2. SettledInSync'
  BY DEF ProjectionInv, SettledInSync, Expected
<1>3. \A x \in Workers : worker'[x] = q
  BY DEF SingleWorker, TypeOK
<1> QED BY <1>1, <1>2, <1>3 DEF ProjectionInv

\* The worker is done with its event and idle again; the vector store may have
\* been written.  What is left to show is SettledInSync.
LEMMA IdleFrame ==
  ASSUME SingleWorker, TypeOK, ProjectionInv, NEW w \in Workers,
         worker' = [worker EXCEPT ![w] = Idle], UNCHANGED <<version, state>>,
         \A e \in Event : status'[e] # "none" => status[e] # "none",
         SettledInSync'
  PROVE  ProjectionInv'
<1>1. \A x \in Workers : worker'[x] = Idle
  BY DEF SingleWorker, TypeOK
<1> QED BY <1>1, IdleType DEF ProjectionInv

\* A commit makes the current version one of which nothing is settled.
LEMMA FreshFrame ==
  ASSUME SingleWorker, TypeOK, OutboxInv, ProjectionInv, NEW ev \in SUBSET Event,
         \A e \in ev : /\ e.v = version + 1
                       /\ e.type \in UpsertTypes => state' = "visible"
                       /\ e.type \in RemoveTypes => state' # "visible",
         version' = version + 1,
         status' = [e \in Event |-> IF e \in ev THEN "pending" ELSE status[e]],
         UNCHANGED <<vector, worker>>
  PROVE  ProjectionInv'
<1>1. version \in Nat /\ \A e \in Event : e.v \in Nat
  BY IdleType DEF TypeOK
<1>2. \A e \in Event : e.v = version' => status[e] = "none"
  BY <1>1 DEF OutboxInv
<1>3. \A e \in Event : e.v = version' => status'[e] # "done"
  BY <1>2
<1>4. NoneSettled' /\ SettledInSync'
  BY <1>3 DEF NoneSettled, SettledInSync
<1>5. \A e \in Event : status'[e] # "none" /\ e.v = version' => e \in ev
  BY <1>2
<1>6. \A x \in Workers : worker[x].ev \in Event
  BY DEF TypeOK, Worker
<1>7. \A x \in Workers : worker[x].pc # "idle" => status'[worker[x].ev] = "pending"
  BY <1>6 DEF ProjectionInv
<1> QED BY <1>4, <1>5, <1>7 DEF ProjectionInv

\* Every step of a single worker, and every mutation, keeps ProjectionInv.
LEMMA ProjectionStep ==
  ASSUME SingleWorker, TypeOK, OutboxInv, ProjectionInv, [Next]_vars
  PROVE  ProjectionInv'
<1>0. \A x \in Workers : /\ worker[x] \in Worker /\ worker[x].ev \in Event
                         /\ worker[x].current \in 0..MaxVersion
  BY DEF TypeOK, Worker
<1>1. ASSUME NEW t \in UpsertTypes \cup RemoveTypes \cup {"promoted"}, Mutate(t)
      PROVE  ProjectionInv'
  <2> DEFINE ev == {[type |-> t, v |-> version + 1]}
  <2>1. ev \in SUBSET Event /\ status' = [e \in Event |-> IF e \in ev THEN "pending" ELSE status[e]]
    BY <1>1, MutateCommits
  <2>2. /\ t \in UpsertTypes => state' = "visible"
        /\ t \in RemoveTypes => state' # "visible"
    BY <1>1 DEF Mutate, NewState, UpsertTypes, RemoveTypes, TypeOK
  <2>3. version' = version + 1 /\ UNCHANGED <<vector, worker>>
    BY <1>1 DEF Mutate
  <2>4. \A e \in ev : /\ e.v = version + 1
                      /\ e.type \in UpsertTypes => state' = "visible"
                      /\ e.type \in RemoveTypes => state' # "visible"
    BY <2>2
  <2> HIDE DEF ev
  <2> QED BY <2>1, <2>3, <2>4, FreshFrame
<1>2. ASSUME Collapse PROVE ProjectionInv'
  <2> DEFINE ev == {[type |-> "dedupe_collapsed", v |-> version + 1],
                    [type |-> "deleted", v |-> version + 1]}
  <2>1. ev \in SUBSET Event /\ status' = [e \in Event |-> IF e \in ev THEN "pending" ELSE status[e]]
    BY <1>2, CollapseCommits
  <2>2. version' = version + 1 /\ state' = "deleted" /\ UNCHANGED <<vector, worker>>
    BY <1>2 DEF Collapse
  <2>3. \A e \in ev : /\ e.v = version + 1
                      /\ e.type \in UpsertTypes => state' = "visible"
                      /\ e.type \in RemoveTypes => state' # "visible"
    BY <2>2 DEF UpsertTypes
  <2> HIDE DEF ev
  <2> QED BY <2>1, <2>2, <2>3, FreshFrame
<1>3. ASSUME NEW w \in Workers, NEW e \in Event, Claim(w, e) PROVE ProjectionInv'
  <2> DEFINE q == [pc |-> "read", ev |-> e, current |-> 0]
  <2>1. q \in Worker /\ q.pc = "read" /\ q.ev = e
    BY ConstantsAssumption DEF Worker
  <2>2. /\ worker' = [worker EXCEPT ![w] = q] /\ UNCHANGED <<version, state, status, vector>>
        /\ status[e] = "pending"
    BY <1>3 DEF Claim, truth
  <2> HIDE DEF q
  <2> QED BY <2>1, <2>2, WorkerFrame
<1>4. ASSUME NEW w \in Workers, worker[w].pc # "idle", Nack(w), vector' = vector
      PROVE  ProjectionInv'
  <2>1. /\ worker' = [worker EXCEPT ![w] = Idle] /\ UNCHANGED <<version, state>>
        /\ \A e \in Event : status'[e] # "none" => status[e] # "none"
        /\ \A e \in Event : status'[e] = "done" => status[e] = "done"
    BY <1>0, <1>4 DEF Nack, truth, TypeOK
  <2>2. SettledInSync'
    BY <1>4, <2>1 DEF ProjectionInv, SettledInSync, Expected
  <2> QED BY <2>1, <2>2, IdleFrame
<1>5. ASSUME NEW w \in Workers, worker[w].pc # "idle", Ack(w), vector' = vector,
             worker[w].ev.v = version => worker[w].ev.type \in ObservedTypes
      PROVE  ProjectionInv'
  <2>1. /\ worker' = [worker EXCEPT ![w] = Idle] /\ UNCHANGED <<version, state>>
        /\ status' = [status EXCEPT ![worker[w].ev] = "done"]
        /\ status[worker[w].ev] # "none"
    BY <1>5 DEF Ack, truth, OutboxInv
  <2>2. SettledInSync'
    BY <1>0, <1>5, <2>1 DEF ProjectionInv, SettledInSync, Expected, TypeOK
  <2>3. \A e \in Event : status'[e] # "none" => status[e] # "none"
    BY <1>0, <2>1 DEF TypeOK
  <2> QED BY <2>1, <2>2, <2>3, IdleFrame
<1>6. ASSUME NEW w \in Workers, Observe(w) PROVE ProjectionInv'
  BY <1>5, <1>6 DEF Observe
<1>7. ASSUME NEW w \in Workers, ReadTruth(w) PROVE ProjectionInv'
  <2> DEFINE e == worker[w].ev
  <2>0. /\ e \in Event /\ status[e] = "pending" /\ worker[w].pc # "idle" /\ vector' = vector
        /\ e.type \in UpsertTypes \cup RemoveTypes
    BY <1>0, <1>7 DEF ReadTruth, ProjectionInv, Event
  <2>1. CASE Stale(e) /\ Ack(w)
    <3>1. e.v = version => ~Stale(e)
      BY <2>0 DEF Stale, ProjectionInv
    <3> QED BY <1>5, <2>0, <2>1, <3>1
  <2>2. CASE Nack(w)
    BY <1>4, <2>0, <2>2
  <2>3. CASE ~Stale(e) /\ ~Nack(w)
    <3> DEFINE q == [worker[w] EXCEPT
             !.pc = IF e.type \in UpsertTypes THEN "upsert" ELSE "remove",
             !.current = version]
    <3>1. worker' = [worker EXCEPT ![w] = q] /\ UNCHANGED <<version, state, status, vector>>
      BY <1>7, <2>3 DEF ReadTruth, TypeOK, truth
    <3>2. q \in Worker /\ q.ev = e /\ q.current = version
      BY <1>0 DEF TypeOK, Worker
    <3>3. q.pc = IF e.type \in UpsertTypes THEN "upsert" ELSE "remove"
      BY <1>0 DEF Worker
    <3>4. q.pc = "upsert" => e.type \in UpsertTypes /\ version = e.v
      BY <2>3, <3>3 DEF Stale
    <3>5. q.pc = "remove" => e.type \in RemoveTypes /\ state # "visible"
      BY <2>0, <2>3, <3>3 DEF Stale, ProjectionInv
    <3> HIDE DEF q, e
    <3> QED BY <2>0, <3>1, <3>2, <3>4, <3>5, WorkerFrame
  <2> QED BY <1>7, <2>1, <2>2, <2>3 DEF ReadTruth
<1>8. ASSUME NEW w \in Workers, ProjectUpsert(w) \/ ProjectRemove(w) PROVE ProjectionInv'
  <2> DEFINE e == worker[w].ev
             new == IF worker[w].pc = "upsert" THEN worker[w].current ELSE 0
  <2>0. /\ e \in Event /\ status[e] = "pending" /\ worker[w].pc # "idle"
        /\ vector' = new \/ (vector' = vector /\ Nack(w))
        /\ Ack(w) \/ Nack(w)
    BY <1>0, <1>8 DEF ProjectUpsert, ProjectRemove, Project, ProjectionInv
  <2>1. new = Expected \/ (NoneSettled /\ e.v # version)
    <3>1. status[e] # "none"
      BY <2>0
    <3>2. CASE worker[w].pc = "upsert"
      BY <2>0, <3>1, <3>2 DEF ProjectionInv, Expected
    <3>3. CASE worker[w].pc = "remove"
      BY <2>0, <3>1, <3>3 DEF ProjectionInv, Expected
    <3> QED BY <1>8, <3>2, <3>3 DEF ProjectUpsert, ProjectRemove
  <2>2. /\ worker' = [worker EXCEPT ![w] = Idle] /\ UNCHANGED <<version, state>>
        /\ \A x \in Event : status'[x] # "none" => status[x] # "none"
        /\ \A x \in Event : status'[x] = "done" => status[x] = "done" \/ x = e
    BY <1>0, <2>0 DEF Ack, Nack, truth, TypeOK
  <2>3. CASE vector' = new
    <3> HIDE DEF new, e
    <3>1. SettledInSync'
      BY <2>1, <2>2, <2>3 DEF SettledInSync, NoneSettled, Expected
    <3> QED BY <2>2, <3>1, IdleFrame
  <2>4. CASE vector' = vector /\ Nack(w)
    BY <1>4, <2>0, <2>4
  <2> QED BY <2>0, <2>3, <2>4
<1>9. ASSUME NEW w \in Workers, Crash(w) PROVE ProjectionInv'
  <2> DEFINE e == worker[w].ev
  <2>0. /\ e \in Event /\ status[e] = "pending"
        /\ worker' = [worker EXCEPT ![w] = Idle] /\ UNCHANGED <<version, state, status>>
    BY <1>0, <1>9 DEF Crash, ProjectionInv, truth
  <2>1. vector' = vector \/ vector' = Expected \/ NoneSettled
    BY <1>9, <2>0 DEF Crash, ProjectionInv, Expected
  <2> HIDE DEF e
  <2>2. SettledInSync'
    BY <2>0, <2>1 DEF ProjectionInv, SettledInSync, NoneSettled, Expected
  <2> QED BY <2>0, <2>2, IdleFrame
<1>10. ASSUME UNCHANGED vars PROVE ProjectionInv'
  BY <1>10 DEF vars, ProjectionInv, SettledInSync, NoneSettled, Expected
<1> QED
  BY <1>1, <1>2, <1>3, <1>6, <1>7, <1>8, <1>9, <1>10 DEF Next, Work, Publish

\* With a single relay worker the projection never goes back: the vector store
\* agrees with the truth source as soon as the event of the current version is
\* acknowledged, and from then on until the next mutation, through errors,
\* crashes, retries and events delivered in any order.
THEOREM Converged == ASSUME SingleWorker PROVE Spec => []SettledInSync
<1>1. Init => TypeOK /\ OutboxInv /\ ProjectionInv
  BY IdleType, ConstantsAssumption
  DEF Init, TypeOK, OutboxInv, ProjectionInv, SettledInSync
<1>2. TypeOK /\ OutboxInv /\ ProjectionInv /\ [Next]_vars
        => (TypeOK /\ OutboxInv /\ ProjectionInv)'
  BY OutboxStep, ProjectionStep
<1>3. ProjectionInv => SettledInSync
  BY DEF ProjectionInv
<1> QED BY <1>1, <1>2, <1>3, PTL DEF Spec

-----------------------------------------------------------------------------
(* An empty outbox. *)

\* A worker that is busy has an event of a version that exists.
LEMMA BusyVersion ==
  ASSUME TypeOK, OutboxInv, NEW w \in Workers, worker[w].pc # "idle"
  PROVE  worker[w].ev \in Event /\ version > 0
<1>1. worker[w].ev \in Event
  BY DEF TypeOK, Worker
<1>2. worker[w].ev.v \in 1..MaxVersion /\ version \in Nat
  BY <1>1, IdleType, ConstantsAssumption DEF TypeOK
<1> QED BY <1>1, <1>2 DEF OutboxInv

\* A step of the relay takes no announcement back.
LEMMA AnnouncedFrame ==
  ASSUME TypeOK, Announced, UNCHANGED version, version = 0 => vector' = vector,
         \A e \in Event : status[e] # "none" => status'[e] # "none"
  PROVE  Announced'
BY DEF Announced

LEMMA AnnouncedStep ==
  ASSUME TypeOK, OutboxInv, Announced, [Next]_vars
  PROVE  Announced'
<1>1. version \in Nat
  BY ConstantsAssumption DEF TypeOK
<1>2. ASSUME NEW t \in UpsertTypes \cup RemoveTypes \cup {"promoted"}, Mutate(t)
      PROVE  Announced'
  <2> DEFINE e == [type |-> t, v |-> version + 1]
  <2>1. e \in Event /\ status'[e] = "pending" /\ version' = version + 1
    BY <1>2, MutateCommits DEF Mutate
  <2>2. e.v = version + 1 /\ e.type # "dedupe_collapsed"
    BY DEF UpsertTypes, RemoveTypes
  <2> HIDE DEF e
  <2> QED BY <1>1, <2>1, <2>2 DEF Announced
<1>3. ASSUME Collapse PROVE Announced'
  <2> DEFINE e == [type |-> "deleted", v |-> version + 1]
  <2>1. e \in Event /\ status'[e] = "pending" /\ version' = version + 1
    BY <1>3, CollapseCommits DEF Collapse
  <2>2. e.v = version + 1 /\ e.type # "dedupe_collapsed"
    OBVIOUS
  <2> HIDE DEF e
  <2> QED BY <1>1, <2>1, <2>2 DEF Announced
<1>4. ASSUME NEW w \in Workers, NEW e \in Event, Claim(w, e) PROVE Announced'
  BY <1>4, AnnouncedFrame DEF Claim, truth
<1>5. ASSUME NEW w \in Workers, Ack(w) \/ Nack(w), worker[w].pc # "idle" PROVE Announced'
  <2>1. worker[w].ev \in Event /\ version > 0 /\ UNCHANGED version
    BY <1>5, BusyVersion DEF Ack, Nack, truth
  <2>2. \A e \in Event : status[e] # "none" => status'[e] # "none"
    BY <1>5, <2>1 DEF Ack, Nack, TypeOK
  <2> QED BY <1>1, <2>1, <2>2, AnnouncedFrame
<1>6. ASSUME NEW w \in Workers, Publish(w) PROVE Announced'
  <2>1. worker[w].pc # "idle"
    BY <1>6 DEF Publish, Observe, ReadTruth, ProjectUpsert, ProjectRemove
  <2>2. CASE Ack(w) \/ Nack(w)
    BY <1>5, <2>1, <2>2
  <2>3. CASE ~(Ack(w) \/ Nack(w))
    <3>1. UNCHANGED <<version, status, vector>>
      BY <1>6, <2>3 DEF Publish, Observe, ReadTruth, ProjectUpsert, ProjectRemove, Project, truth
    <3> QED BY <3>1, AnnouncedFrame
  <2> QED BY <2>2, <2>3
<1>7. ASSUME NEW w \in Workers, Crash(w) PROVE Announced'
  <2>1. version > 0 /\ UNCHANGED <<version, status>>
    BY <1>7, BusyVersion DEF Crash, truth
  <2> QED BY <1>1, <2>1, AnnouncedFrame
<1>8. ASSUME UNCHANGED vars PROVE Announced'
  BY <1>8 DEF vars, Announced
<1> QED BY <1>2, <1>3, <1>4, <1>6, <1>7, <1>8 DEF Next, Work

\* With a single relay worker an outbox whose events have all been published
\* leaves the vector store in step with the truth source, unless the newest
\* version is a promotion, which Publish only observes.
THEOREM Drained == ASSUME SingleWorker PROVE Spec => []DrainedInSync
<1>1. Init => TypeOK /\ OutboxInv /\ ProjectionInv /\ Announced
  BY IdleType, ConstantsAssumption
  DEF Init, TypeOK, OutboxInv, ProjectionInv, SettledInSync, Announced
<1>2. TypeOK /\ OutboxInv /\ ProjectionInv /\ Announced /\ [Next]_vars
        => (TypeOK /\ OutboxInv /\ ProjectionInv /\ Announced)'
  BY OutboxStep, ProjectionStep, AnnouncedStep
<1>3. ASSUME TypeOK, ProjectionInv, Announced PROVE DrainedInSync
  <2>1. SUFFICES ASSUME \A e \in Event : status[e] \in {"none", "done"}
                 PROVE  vector = Expected \/ status[[type |-> "promoted", v |-> version]] = "done"
    BY DEF DrainedInSync
  <2>2. CASE version = 0
    BY <1>3, <2>2 DEF Announced, Expected
  <2>3. CASE version # 0
    <3>1. PICK e \in Event :
            e.v = version /\ e.type # "dedupe_collapsed" /\ status[e] # "none"
      BY <1>3, <2>3, ConstantsAssumption DEF Announced, TypeOK
    <3>2. status[e] = "done"
      BY <2>1, <3>1
    <3>3. CASE e.type \in ObservedTypes
      <4>1. e = [type |-> "promoted", v |-> version]
        BY <3>1, <3>3 DEF Event, ObservedTypes
      <4> QED BY <3>2, <4>1
    <3>4. CASE e.type \notin ObservedTypes
      BY <1>3, <3>1, <3>2, <3>4 DEF ProjectionInv, SettledInSync
    <3> QED BY <3>3, <3>4
  <2> QED BY <2>2, <2>3
<1> QED BY <1>1, <1>2, <1>3, PTL DEF Spec

-----------------------------------------------------------------------------
(* The refinement of IndexReplica. *)

\* A step that leaves the truth source alone and takes no acknowledgement back
\* follows, or is a stutter of the replica.
LEMMA ReplicaFrame ==
  ASSUME TypeOK', SettledInSync, SettledInSync', UNCHANGED <<version, state>>,
         \A e \in Event : status[e] = "done" => status'[e] = "done"
  PROVE  [Replica!Next]_(Replica!vars)
<1>1. Expected' = Expected
  BY DEF Expected
<1>2. ~NoneSettled' => vector' = Expected
  BY <1>1 DEF NoneSettled, SettledInSync
<1>3. CASE NoneSettled
  <2>1. Replica!Follow
    BY <1>1, <1>2, <1>3 DEF Replica!Follow, TypeOK
  <2> QED BY <2>1 DEF Replica!Next
<1>4. CASE ~NoneSettled
  <2>1. ~NoneSettled'
    BY <1>4 DEF NoneSettled
  <2>2. vector = Expected
    BY <1>4 DEF NoneSettled, SettledInSync
  <2> QED BY <1>1, <1>2, <1>4, <2>1, <2>2 DEF Replica!vars
<1> QED BY <1>3, <1>4

\* Every step of the outbox is a step or a stutter of the replica.
LEMMA ReplicaStep ==
  ASSUME TypeOK, TypeOK', OutboxInv, SettledInSync, SettledInSync', [Next]_vars
  PROVE  [Replica!Next]_(Replica!vars)
<1>1. ASSUME version' = version + 1, vector' = vector,
             \A e \in Event : status'[e] = "done" => status[e] = "done"
      PROVE  Replica!Next
  <2>1. NoneSettled'
    BY <1>1 DEF NoneSettled, OutboxInv, TypeOK, Event
  <2>2. Expected' \in 0..MaxVersion
    BY ConstantsAssumption DEF Expected, TypeOK
  <2>3. Replica!Change
    BY <1>1, <2>1, <2>2 DEF Replica!Change
  <2> QED BY <2>3 DEF Replica!Next
<1>2. ASSUME NEW t \in UpsertTypes \cup RemoveTypes \cup {"promoted"}, Mutate(t)
      PROVE  Replica!Next
  BY <1>1, <1>2 DEF Mutate, TypeOK
<1>3. ASSUME Collapse PROVE Replica!Next
  BY <1>1, <1>3 DEF Collapse, TypeOK
<1>4. ASSUME NEW w \in Workers, Work(w) \/ Crash(w)
      PROVE  /\ UNCHANGED <<version, state>>
             /\ \A e \in Event : status[e] = "done" => status'[e] = "done"
  BY <1>4 DEF Work, Claim, Publish, Observe, ReadTruth, ProjectUpsert, ProjectRemove, Project,
              Ack, Nack, Crash, truth, TypeOK
<1>5. ASSUME UNCHANGED vars PROVE UNCHANGED Replica!vars
  BY <1>5 DEF vars, Replica!vars, Expected, NoneSettled
<1> QED BY <1>2, <1>3, <1>4, <1>5, ReplicaFrame DEF Next

\* With a single relay worker, whatever fails, crashes or is redelivered, the
\* outbox implements IndexReplica for the chunk of a record.
THEOREM ReplicaImplemented == ASSUME SingleWorker PROVE Spec => ImplementsReplica
<1>1. Init => TypeOK /\ OutboxInv /\ ProjectionInv
  BY IdleType, ConstantsAssumption
  DEF Init, TypeOK, OutboxInv, ProjectionInv, SettledInSync
<1>2. TypeOK /\ OutboxInv /\ ProjectionInv /\ [Next]_vars
        => (TypeOK /\ OutboxInv /\ ProjectionInv)'
  BY OutboxStep, ProjectionStep
<1>3. Init => Replica!Init
  BY DEF Init, Replica!Init, Expected, NoneSettled
<1>4. /\ TypeOK /\ OutboxInv /\ ProjectionInv /\ [Next]_vars
      /\ (TypeOK /\ OutboxInv /\ ProjectionInv)'
      => [Replica!Next]_(Replica!vars)
  BY ReplicaStep DEF ProjectionInv
<1> QED BY <1>1, <1>2, <1>3, <1>4, PTL DEF Spec, ImplementsReplica, Replica!Spec
=============================================================================
