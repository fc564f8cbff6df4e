-------------------------- MODULE OutboxProjection --------------------------
(***************************************************************************)
(* The projection of durable records into the vector store: the publisher  *)
(* (internal/service/outbox_vector_publisher.go), the projector            *)
(* (vector_projector.go) and the relay worker that drives them             *)
(* (cmd/memory-gateway/main.go).                                           *)
(*                                                                         *)
(* One record is followed: records do not share projection state.  The     *)
(* truth source and the outbox relay are external; they are modelled as    *)
(* the gateway uses them: a mutation commits its outbox event with the new *)
(* version, the relay hands pending events to Publish in any order, hands  *)
(* an event out again after an error, a crash or the end of its lease, and *)
(* gives it up after MaxAttempts errors.                                   *)
(*                                                                         *)
(* Publish reads the truth source and then writes the vector store: two    *)
(* steps, with nothing held between them.                                  *)
(***************************************************************************)
EXTENDS Integers

CONSTANTS
  Workers,      \* relay workers, one in each replica
  MaxVersion,   \* bound on the record's version
  MaxAttempts,  \* RelayMaxAttempts
  Faults,       \* whether the truth source and the vector store may fail
  Crashes       \* whether workers may crash, and leases run out

ASSUME ConstantsAssumption ==
  /\ MaxVersion \in Nat \ {0} /\ MaxAttempts \in Nat \ {0}
  /\ Faults \in BOOLEAN /\ Crashes \in BOOLEAN

\* "updated" stands for memory_updated, memory_pinned and memory_unpinned.
UpsertTypes == {"created", "updated", "enabled"}
RemoveTypes == {"disabled", "deleted"}
ObservedTypes == {"promoted", "dedupe_collapsed"}

Event == [type : UpsertTypes \cup RemoveTypes \cup ObservedTypes, v : 1..MaxVersion]

VARIABLES
  version,   \* the record's version, 0 before it is created
  state,     \* "visible", "disabled" or "deleted"
  status,    \* the outbox: what became of each event
  attempts,  \* failed publications of each event
  vector,    \* the version in the vector store, 0 for none
  worker     \* the publication each worker is in

vars == <<version, state, status, attempts, vector, worker>>
truth == <<version, state>>

Idle == [pc |-> "idle", ev |-> [type |-> "created", v |-> 1], current |-> 0]

Init ==
  /\ version = 0 /\ state = "visible"
  /\ status = [e \in Event |-> "none"]
  /\ attempts = [e \in Event |-> 0]
  /\ vector = 0
  /\ worker = [w \in Workers |-> Idle]

-----------------------------------------------------------------------------
(* The truth source. *)

\* What a mutation of the given kind leaves of the record.
NewState(t) ==
  IF t = "enabled" THEN "visible" ELSE IF t \in RemoveTypes THEN t ELSE state

\* A mutation commits: a new version, and its event in the outbox.  Only
\* enable and delete apply to a disabled record, none to a deleted one.
Mutate(t) ==
  /\ version < MaxVersion
  /\ (version = 0) <=> (t = "created")
  /\ state = "disabled" => t \in {"enabled", "deleted"}
  /\ t = "enabled" => state = "disabled"
  /\ state # "deleted"
  /\ version' = version + 1
  /\ state' = NewState(t)
  /\ status' = [status EXCEPT ![[type |-> t, v |-> version + 1]] = "pending"]
  /\ UNCHANGED <<attempts, vector, worker>>

\* The loser of a dedupe: the collapse is announced together with a deletion.
Collapse ==
  /\ version \in 1..(MaxVersion - 1) /\ state = "visible"
  /\ version' = version + 1
  /\ state' = "deleted"
  /\ status' = [status EXCEPT
                  ![[type |-> "dedupe_collapsed", v |-> version + 1]] = "pending",
                  ![[type |-> "deleted", v |-> version + 1]] = "pending"]
  /\ UNCHANGED <<attempts, vector, worker>>

-----------------------------------------------------------------------------
(* The relay. *)

\* MUTANT: an event that failed once is not handed out again.
Claim_freshOnly(w, e) ==
  /\ worker[w].pc = "idle" /\ status[e] = "pending" /\ attempts[e] = 0
  /\ Crashes \/ \A x \in Workers : worker[x].pc = "idle" \/ worker[x].ev # e
  /\ worker' = [worker EXCEPT ![w] = [pc |-> "read", ev |-> e, current |-> 0]]
  /\ UNCHANGED <<truth, status, attempts, vector>>

\* The relay leases a pending event to a worker.  An event that another worker
\* is still busy with can be leased again when its lease ran out.
Claim(w, e) ==
  /\ worker[w].pc = "idle" /\ status[e] = "pending"
  /\ Crashes \/ \A x \in Workers : worker[x].pc = "idle" \/ worker[x].ev # e
  /\ worker' = [worker EXCEPT ![w] = [pc |-> "read", ev |-> e, current |-> 0]]
  /\ UNCHANGED <<truth, status, attempts, vector>>

\* Publish returned nil: the event is done.
Ack(w) ==
  /\ status' = [status EXCEPT ![worker[w].ev] = "done"]
  /\ worker' = [worker EXCEPT ![w] = Idle]
  /\ UNCHANGED <<truth, attempts>>

\* MUTANT: the budget of attempts is exceeded by one.
Nack_offByOne(w) ==
  LET e == worker[w].ev IN
    /\ status[e] = "pending"
    /\ attempts' = [attempts EXCEPT ![e] = @ + 1]
    /\ status' = [status EXCEPT ![e] = IF attempts[e] + 1 > MaxAttempts THEN "dead" ELSE @]
    /\ worker' = [worker EXCEPT ![w] = Idle]
    /\ UNCHANGED truth

\* Publish returned an error: the event is retried, MaxAttempts times.  An
\* event that another worker settled meanwhile stays settled.
Nack(w) ==
  LET e == worker[w].ev IN
    /\ IF status[e] = "pending"
       THEN /\ attempts' = [attempts EXCEPT ![e] = @ + 1]
            /\ status' = [status EXCEPT
                            ![e] = IF attempts[e] + 1 >= MaxAttempts THEN "dead" ELSE @]
       ELSE UNCHANGED <<attempts, status>>
    /\ worker' = [worker EXCEPT ![w] = Idle]
    /\ UNCHANGED truth

\* The worker is cancelled, or its process dies; the event is claimed again,
\* and a write to the vector store that was under way may have been applied.
Crash(w) ==
  /\ Crashes /\ worker[w].pc # "idle"
  /\ worker' = [worker EXCEPT ![w] = Idle]
  /\ \/ UNCHANGED vector
     \/ worker[w].pc = "upsert" /\ vector' = worker[w].current
     \/ worker[w].pc = "remove" /\ vector' = 0
  /\ UNCHANGED <<truth, status, attempts>>

-----------------------------------------------------------------------------
(* Publish. *)

\* MUTANT: a removal is not compared with the current version.
Stale_upsertsOnly(e) ==
  e.type \in UpsertTypes /\ (state # "visible" \/ version # e.v)

\* currentRecord and the checks after it.  GetRecord does not find a disabled
\* or deleted record: that makes an upsert stale, and lets a removal through.
Stale(e) ==
  \/ e.type \in UpsertTypes /\ (state # "visible" \/ version # e.v)
  \/ e.type \in RemoveTypes /\ state = "visible" /\ version # e.v

\* MUTANT: a disabled record is only observed too.
Observe_disabled(w) ==
  /\ worker[w].pc = "read" /\ worker[w].ev.type \in ObservedTypes \cup {"disabled"}
  /\ Ack(w) /\ UNCHANGED vector

\* Promotion and dedupe collapse are only observed.
Observe(w) ==
  /\ worker[w].pc = "read" /\ worker[w].ev.type \in ObservedTypes
  /\ Ack(w) /\ UNCHANGED vector

\* The truth source is read: the event is stale, or its projection begins.
ReadTruth(w) ==
  /\ worker[w].pc = "read" /\ worker[w].ev.type \notin ObservedTypes
  /\ \/ Stale(worker[w].ev) /\ Ack(w)
     \/ /\ ~Stale(worker[w].ev)
        /\ worker' = [worker EXCEPT
             ![w].pc = IF worker[w].ev.type \in UpsertTypes THEN "upsert" ELSE "remove",
             ![w].current = version]
        /\ UNCHANGED <<truth, status, attempts>>
     \/ Faults /\ Nack(w)
  /\ UNCHANGED vector

\* MUTANT: an error of the vector store is swallowed.
Project_swallows(w, new) ==
  \/ vector' = new /\ Ack(w)
  \/ Faults /\ vector' \in {vector, new} /\ Ack(w)

\* The vector store takes a write and the event is acknowledged; a failed
\* write may have been applied all the same.
Project(w, new) ==
  \/ vector' = new /\ Ack(w)
  \/ Faults /\ vector' \in {vector, new} /\ Nack(w)

\* ProjectUpsert embeds and stores the record that was read.
ProjectUpsert(w) == worker[w].pc = "upsert" /\ Project(w, worker[w].current)

\* ProjectRemove treats a missing chunk as removed.
ProjectRemove(w) == worker[w].pc = "remove" /\ Project(w, 0)

Publish(w) == Observe(w) \/ ReadTruth(w) \/ ProjectUpsert(w) \/ ProjectRemove(w)

\* startOutboxRelayWorker calls RunOnce again and again.
Work(w) == (\E e \in Event : Claim(w, e)) \/ Publish(w)

Next ==
  \/ \E t \in UpsertTypes \cup RemoveTypes \cup {"promoted"} : Mutate(t)
  \/ Collapse
  \/ \E w \in Workers : Work(w) \/ Crash(w)

Spec == Init /\ [][Next]_vars

\* The ticker keeps every worker going; nobody has to mutate the record.
FairSpec == Spec /\ \A w \in Workers : WF_vars(Work(w))

-----------------------------------------------------------------------------
(* Properties. *)

Worker == [pc : {"idle", "read", "upsert", "remove"}, ev : Event, current : 0..MaxVersion]

TypeOK ==
  /\ version \in 0..MaxVersion
  /\ state \in {"visible", "disabled", "deleted"}
  /\ status \in [Event -> {"none", "pending", "done", "dead"}]
  /\ attempts \in [Event -> 0..MaxAttempts]
  /\ vector \in 0..MaxVersion
  /\ worker \in [Workers -> Worker]

\* What the vector store should hold.
Expected == IF state = "visible" THEN version ELSE 0

\* Once the event of the current version is acknowledged the vector store holds
\* that version, or nothing when the record is hidden: no older event, retried
\* or delivered late, overwrites it or brings a hidden record back.
SettledInSync ==
  \A e \in Event :
    status[e] = "done" /\ e.v = version /\ e.type \notin ObservedTypes
      => vector = Expected

\* What makes TypeOK inductive: an event is new when its version is, one that
\* may still be published has attempts left, and only events of the outbox are
\* published.
OutboxInv ==
  /\ \A e \in Event :
       /\ e.v > version => status[e] = "none"
       /\ status[e] \in {"none", "pending"} => attempts[e] < MaxAttempts
  /\ \A w \in Workers : worker[w].pc # "idle" => status[worker[w].ev] # "none"

\* No event of the current version has been projected.
NoneSettled ==
  \A e \in Event : status[e] = "done" /\ e.v = version => e.type \in ObservedTypes

\* The inductive strengthening of SettledInSync for a single worker: what the
\* outbox says of the current version, and what a publication under way may
\* still do to the vector store.
ProjectionInv ==
  /\ \A e \in Event :
       status[e] # "none" /\ e.v = version =>
         /\ e.type \in UpsertTypes => state = "visible"
         /\ e.type \in RemoveTypes => state # "visible"
  /\ \A w \in Workers :
       /\ worker[w].pc # "idle" => status[worker[w].ev] = "pending"
       /\ worker[w].pc = "upsert" =>
            /\ worker[w].ev.type \in UpsertTypes
            /\ worker[w].current = worker[w].ev.v
            /\ worker[w].ev.v = version \/ NoneSettled
       /\ worker[w].pc = "remove" =>
            /\ worker[w].ev.type \in RemoveTypes
            /\ state # "visible" \/ NoneSettled
  /\ SettledInSync

\* Every event is settled in the end, unless workers crash for ever: published,
\* found stale, or given up after MaxAttempts errors.
EventsSettle ==
  <>[][\A w \in Workers : ~Crash(w)]_vars
    => \A e \in Event : status[e] = "pending" ~> status[e] \in {"done", "dead"}

\* When everything in the outbox has been published the vector store is in step
\* with the truth source, also if the events came late, twice or in any order,
\* with one exception: promotions are only observed, so a record whose newest
\* version is a promotion may still be there as it was before or not at all
\* (outbox_vector_publisher.go:57).
DrainedInSync ==
  (\A e \in Event : status[e] \in {"none", "done"}) =>
    vector = Expected \/ status[[type |-> "promoted", v |-> version]] = "done"

\* What DrainedInSync needs besides: the current version was announced, and not
\* by a collapse alone; before the first version there is nothing to remove.
Announced ==
  /\ version = 0 => vector = 0
  /\ version > 0 => \E e \in Event :
       e.v = version /\ e.type # "dedupe_collapsed" /\ status[e] # "none"

\* The relay, the publisher and the projector keep the promise of IndexReplica
\* for the chunk of the record: the acknowledgement of the newest version is the
\* settlement, and nothing that is redelivered after it touches the chunk.
Replica == INSTANCE IndexReplica
  WITH Values <- 0..MaxVersion, None <- 0,
       source <- Expected, index <- vector, settled <- ~NoneSettled

ImplementsReplica == Replica!Spec
=============================================================================
