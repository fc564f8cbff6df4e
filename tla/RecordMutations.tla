--------------------------- MODULE RecordMutations ---------------------------
(***************************************************************************)
(* The mutations of a stored record (internal/service/service.go): patch   *)
(* with its idempotency key, pin and unpin, disable and enable, delete,    *)
(* each retried by clients that may have missed the first answer, and the  *)
(* hard-delete GC (hard_delete_gc_cron.go).  The session check before and  *)
(* the invalidation after a mutation are in SessionLifecycle and           *)
(* RecallCache.                                                            *)
(*                                                                         *)
(* Every handler is check-then-act: it reads the record (or the key), and  *)
(* only then calls the backend.  The backend is external: it commits a     *)
(* mutation whose expected_version is the stored version and refuses every *)
(* other one.                                                              *)
(***************************************************************************)
EXTENDS Integers

CONSTANTS
  Procs,       \* request goroutines, in any replica
  Keys,        \* idempotency keys
  NoKey,       \* a patch without one
  Payloads,    \* bodies of a patch
  MaxVersion,  \* bound on the record's version
  Faults,      \* whether backend calls may fail
  GCEnabled    \* HardDeleteGCEnabled

ASSUME ConstantsAssumption ==
  /\ MaxVersion \in Nat \ {0, 1} /\ Payloads # {} /\ NoKey \notin Keys
  /\ Faults \in BOOLEAN /\ GCEnabled \in BOOLEAN

Ops == {"patch", "pin", "unpin", "disable", "enable", "delete"}

\* The flags of a record.
Flags == [pinned : BOOLEAN, disabled : BOOLEAN, deleted : BOOLEAN]
NewFlags == [pinned |-> FALSE, disabled |-> FALSE, deleted |-> FALSE]

\* A request body: expected_version and payload, which hashPatchRequest hashes.
\* Nobody expects MaxVersion, so that no commit exceeds it.
Body == [expected : 1..(MaxVersion - 1), payload : Payloads]

\* An idempotency entry, or none (version 0).
Entry == [body : Body, v : 0..MaxVersion]

\* HTTP status: 0 while the request is running.
Codes == {0, 200, 404, 409, 503}

Request ==
  [pc : {"idle", "loadKey", "read", "mutate", "saveKey", "done"},
   op : Ops, body : Body, key : Keys \cup {NoKey},
   code : Codes, v : 0..MaxVersion,  \* the answer
   base : 0..MaxVersion,             \* ghost: the stored version at the start
   failed : BOOLEAN]                 \* ghost: its read of the record failed

VARIABLES
  version,  \* the stored version; the record exists from version 1 on ...
  purged,   \* ... until the GC removes the row
  flags,
  idem,     \* the idempotency store
  history,  \* ghost: the flags of every version
  applied,  \* ghost: the keyed patches that were committed
  rq        \* the requests

vars == <<version, purged, flags, idem, history, applied, rq>>
store == <<version, purged, flags, history, applied>>

AnyBody == CHOOSE b \in Body : TRUE

Idle == [pc |-> "idle", op |-> "patch", body |-> AnyBody, key |-> NoKey,
         code |-> 0, v |-> 0, base |-> 0, failed |-> FALSE]

\* The record was written before: WriteMemory leaves version 1.
Init ==
  /\ version = 1 /\ purged = FALSE /\ flags = NewFlags
  /\ idem = [k \in Keys |-> [body |-> AnyBody, v |-> 0]]
  /\ history = [v \in 1..MaxVersion |-> NewFlags]
  /\ applied = {}
  /\ rq = [p \in Procs |-> Idle]

-----------------------------------------------------------------------------
(* Requests. *)

At(p, l) == rq[p].pc = l
Goto(p, l) == rq' = [rq EXCEPT ![p].pc = l]
Answer(p, c, v) == rq' = [rq EXCEPT ![p].pc = "done", ![p].code = c, ![p].v = v]

\* A request passes validation and the session check.  A retry is a request
\* like any other; only a patch has a payload and may have a key.
Start(p, o, b, k) ==
  /\ At(p, "idle")
  /\ o # "patch" => k = NoKey /\ b.payload = AnyBody.payload
  /\ rq' = [rq EXCEPT ![p] =
       [Idle EXCEPT !.pc = IF o # "patch" THEN "read"
                           ELSE IF k = NoKey THEN "mutate" ELSE "loadKey",
                    !.op = o, !.body = b, !.key = k, !.base = version]]
  /\ UNCHANGED <<store, idem>>

\* MUTANT: a known key is replayed whatever the body.
LoadKey_anyBody(p) ==
  /\ At(p, "loadKey")
  /\ LET e == idem[rq[p].key] IN
       IF e.v = 0 THEN Goto(p, "mutate") ELSE Answer(p, 200, e.v)
  /\ UNCHANGED <<store, idem>>

\* PatchMemory looks its key up: replay, conflict, or go on.
LoadKey(p) ==
  /\ At(p, "loadKey")
  /\ LET e == idem[rq[p].key] IN
       \/ e.v = 0 /\ Goto(p, "mutate")
       \/ e.v # 0 /\ e.body = rq[p].body /\ Answer(p, 200, e.v)
       \/ e.v # 0 /\ e.body # rq[p].body /\ Answer(p, 409, 0)
       \/ Faults /\ Answer(p, 503, 0)
  /\ UNCHANGED <<store, idem>>

\* MUTANT: a deleted record counts as disabled when it was.
Desired_disableDeleted(o, f) ==
  \/ o = "pin" /\ f.pinned
  \/ o = "unpin" /\ ~f.pinned
  \/ o = "enable" /\ ~f.disabled
  \/ o = "disable" /\ f.disabled
  \/ o = "delete" /\ f.deleted

\* The state each handler looks for.
Desired(o, f) ==
  \/ o = "pin" /\ f.pinned
  \/ o = "unpin" /\ ~f.pinned
  \/ o = "enable" /\ ~f.disabled
  \/ o = "disable" /\ f.disabled /\ ~f.deleted
  \/ o = "delete" /\ f.deleted

\* MUTANT: every handler looks at visible records only.
Found_visibleOnly(o) == ~flags.disabled /\ ~flags.deleted

\* terminalStateShortCircuit (GetRecord: visible records only) and
\* terminalHiddenStateShortCircuit (GetRecordIncludingHidden).
Found(o) ==
  IF o \in {"disable", "delete"} THEN ~purged
                                 ELSE ~flags.disabled /\ ~flags.deleted

\* MUTANT: a caller that is ahead of the stored version is answered too.
ShortCircuits_anyVersion(p) == Found(rq[p].op) /\ Desired(rq[p].op, flags)

ShortCircuits(p) ==
  /\ Found(rq[p].op)
  /\ Desired(rq[p].op, flags)
  /\ rq[p].body.expected <= version

\* The handler reads the record: already as desired is a success; anything
\* else, an error included, goes on to the backend.
Read(p) ==
  /\ At(p, "read")
  /\ \/ ShortCircuits(p) /\ Answer(p, 200, version)
     \/ ~ShortCircuits(p) /\ Goto(p, "mutate")
     \/ Faults /\ rq' = [rq EXCEPT ![p].pc = "mutate", ![p].failed = TRUE]
  /\ UNCHANGED <<store, idem>>

\* MUTANT: the backend does not compare versions.
Accepts_anyVersion(p) ==
  /\ ~flags.deleted
  /\ flags.disabled => rq[p].op \in {"disable", "enable", "delete"}

\* The backend takes a mutation of the stored version only, none of a deleted
\* record, and of a disabled one only what can be said of it.
Accepts(p) ==
  /\ ~flags.deleted
  /\ flags.disabled => rq[p].op \in {"disable", "enable", "delete"}
  /\ rq[p].body.expected = version

\* The flags after a mutation.
Effect(o) ==
  CASE o = "pin" -> [flags EXCEPT !.pinned = TRUE]
    [] o = "unpin" -> [flags EXCEPT !.pinned = FALSE]
    [] o = "disable" -> [flags EXCEPT !.disabled = TRUE]
    [] o = "enable" -> [flags EXCEPT !.disabled = FALSE]
    [] o = "delete" -> [flags EXCEPT !.deleted = TRUE]
    [] o = "patch" -> flags

\* PatchRecord, PinRecord, DisableRecord and DeleteRecord commit ...
Commit(p) ==
  /\ version' = version + 1
  /\ flags' = Effect(rq[p].op)
  /\ history' = [history EXCEPT ![version + 1] = Effect(rq[p].op)]
  /\ applied' = IF rq[p].key = NoKey THEN applied
                ELSE applied \cup {[key |-> rq[p].key, body |-> rq[p].body, v |-> version + 1]}
  /\ UNCHANGED <<purged, idem>>

\* ... and the handler goes on with the result; or the backend refuses; or the
\* call fails, before or after the commit.
Mutate(p) ==
  /\ At(p, "mutate")
  /\ \/ /\ Accepts(p)
        /\ Commit(p)
        /\ \/ rq[p].key = NoKey /\ Answer(p, 200, version + 1)
           \/ rq[p].key # NoKey /\ rq' = [rq EXCEPT ![p].pc = "saveKey", ![p].v = version + 1]
           \/ Faults /\ Answer(p, 503, 0)
     \/ /\ ~Accepts(p)
        /\ Answer(p, IF purged \/ rq[p].body.expected = version THEN 404 ELSE 409, 0)
        /\ UNCHANGED <<store, idem>>
     \/ Faults /\ Answer(p, 503, 0) /\ UNCHANGED <<store, idem>>

\* PatchMemory saves its answer under the key; an error is ignored.  What the
\* store does with a key it already has is not the gateway's: either.
SaveKey(p) ==
  /\ At(p, "saveKey")
  /\ \/ idem' = [idem EXCEPT ![rq[p].key] = [body |-> rq[p].body, v |-> rq[p].v]]
     \/ (Faults \/ idem[rq[p].key].v # 0) /\ UNCHANGED idem
  /\ Answer(p, 200, rq[p].v)
  /\ UNCHANGED store

Respond(p) ==
  /\ At(p, "done")
  /\ rq' = [rq EXCEPT ![p] = Idle]
  /\ UNCHANGED <<store, idem>>

\* HardDeleteGCCron: a record deleted longer ago than Retention is removed.
Purge ==
  /\ GCEnabled /\ flags.deleted /\ ~purged
  /\ purged' = TRUE
  /\ UNCHANGED <<version, flags, history, applied, idem, rq>>

Next ==
  \/ \E p \in Procs, o \in Ops, b \in Body, k \in Keys \cup {NoKey} : Start(p, o, b, k)
  \/ \E p \in Procs :
       LoadKey(p) \/ Read(p) \/ Mutate(p) \/ SaveKey(p) \/ Respond(p)
  \/ Purge

Spec == Init /\ [][Next]_vars

-----------------------------------------------------------------------------
(* Properties. *)

TypeOK ==
  /\ version \in 1..MaxVersion /\ purged \in BOOLEAN /\ flags \in Flags
  /\ idem \in [Keys -> Entry]
  /\ history \in [1..MaxVersion -> Flags]
  /\ applied \subseteq [key : Keys, body : Body, v : 1..MaxVersion]
  /\ rq \in [Procs -> Request]

Succeeded(p) == At(p, "done") /\ rq[p].code = 200

\* A success tells the truth: at the version it reports the record was in the
\* state asked for, and (a replayed patch apart) that version was the stored
\* one at some time while the request ran; a short-circuit never answers with
\* what was true before.  Nor is a caller that is ahead of the stored version
\* told that it succeeded: the version reported is at least the expected one.
SuccessTruthful ==
  \A p \in Procs : Succeeded(p) =>
    /\ rq[p].op # "patch" => Desired(rq[p].op, history[rq[p].v])
    /\ rq[p].key = NoKey => rq[p].v \in rq[p].base..version
    /\ rq[p].body.expected <= rq[p].v

\* Nothing but a delete succeeds on a record that was deleted when the request
\* began, and a deleted record never changes again.
DeletedIsFinal ==
  /\ \A p \in Procs :
       Succeeded(p) /\ history[rq[p].base].deleted
         => rq[p].op = "delete" \/ rq[p].key # NoKey
  /\ \A v \in 1..(version - 1) : ~history[v].deleted

\* A keyed patch is committed once however often and however concurrently it is
\* retried, and every success is told the version of that one commit.
KeyedPatchOnce ==
  /\ \A a, b \in applied : a.key = b.key /\ a.body = b.body => a.v = b.v
  /\ \A p \in Procs : Succeeded(p) /\ rq[p].key # NoKey =>
       [key |-> rq[p].key, body |-> rq[p].body, v |-> rq[p].v] \in applied

\* A delete repeated by a caller that is not ahead succeeds whatever version it
\* expects, so the client of a lost answer need not know whether it got through;
\* except when the backend is unavailable, the read that would recognise the
\* repetition fails, or the GC has removed the row (service.go:616).
DeleteReplayAnswered ==
  \A p \in Procs :
    /\ At(p, "done") /\ rq[p].op = "delete"
    /\ history[rq[p].base].deleted /\ rq[p].body.expected <= rq[p].base
    => rq[p].code \in {200, 503} \/ rq[p].failed \/ purged

-----------------------------------------------------------------------------
(* The inductive invariant behind the four properties. *)

\* The store: the ghost history is the record's, deletion comes last, a keyed
\* commit has the version after the one its body expects, and the idempotency
\* store knows commits only.
StoreInv ==
  /\ history[version] = flags
  /\ \A v \in 1..(version - 1) : ~history[v].deleted
  /\ \A a \in applied : a.v = a.body.expected + 1 /\ a.v <= version
  /\ \A k \in Keys : idem[k].v # 0 =>
       [key |-> k, body |-> idem[k].body, v |-> idem[k].v] \in applied

\* The commit a keyed request knows of.
Known(q) == [key |-> q.key, body |-> q.body, v |-> q.v] \in applied

\* What a request on its way may rely on.
UnderWay(q) ==
  /\ q.pc # "idle" => q.base \in 1..version
  /\ q.op # "patch" => q.key = NoKey
  /\ q.pc \in {"loadKey", "saveKey"} => q.key # NoKey
  /\ q.pc = "saveKey" => Known(q)

\* What a success says.
Truthful(q) ==
  q.pc = "done" /\ q.code = 200 =>
    /\ q.v \in 1..version /\ q.body.expected <= q.v
    /\ q.op # "patch" => Desired(q.op, history[q.v])
    /\ q.key = NoKey => q.base <= q.v
    /\ q.key # NoKey => Known(q)
    /\ history[q.base].deleted => q.op = "delete" \/ q.key # NoKey

\* A repeated delete reaches the backend only if it was not recognised.
Recognised(q) ==
  /\ q.op = "delete" /\ history[q.base].deleted /\ q.body.expected <= q.base
  /\ q.pc \in {"mutate", "done"}
  => q.failed \/ purged \/ (q.pc = "done" /\ q.code \in {200, 503})

MutationsInv ==
  /\ StoreInv
  /\ \A p \in Procs : UnderWay(rq[p]) /\ Truthful(rq[p]) /\ Recognised(rq[p])
=============================================================================
