-------------------------- MODULE SessionLifecycle --------------------------
(***************************************************************************)
(* The session lifecycle registry of the gateway                           *)
(* (internal/service/session_registry.go), its two backing stores          *)
(* (the in-memory store of the same file and postgres_session_store.go)    *)
(* and the requests of service.go that consult it.  One session scope is   *)
(* modelled: scopes share no registry state.                               *)
(*                                                                         *)
(* A request is a goroutine (a member of Procs) of one gateway replica.    *)
(* Each step between two lock acquisitions or store round trips is an      *)
(* action of its own, so that requests interleave exactly where the code   *)
(* lets them: Get releases its read lock before it loads and loads before  *)
(* it fills the cache; Close and Heartbeat write the store before they     *)
(* write the cache; the session check is over when the mutation commits.   *)
(***************************************************************************)
EXTENDS Integers

CONSTANTS
  Procs,          \* request goroutines, the reaper's included
  Replicas,       \* gateway processes sharing the session store
  home,           \* the replica each request runs in
  SessionIdleTTL, \* Config.SessionIdleTTL, in whole clock ticks (0: below one tick)
  MaxTime,        \* bound on the clock
  ScanNullFails,  \* TRUE: the Postgres store, whose Scan of a NULL closed_at
                  \* into a time.Time fails; FALSE: the in-memory store
  Faults          \* whether store and closer calls may fail on their own

ASSUME ConstantsAssumption ==
  /\ home \in [Procs -> Replicas]
  /\ SessionIdleTTL \in Nat
  /\ MaxTime \in Nat \ {0}
  /\ ScanNullFails \in BOOLEAN
  /\ Faults \in BOOLEAN

Modes == {"expire_working", "promote_and_expire"}
Ops == {"recall", "mutate", "unpin", "heartbeat", "close"}

\* Time 0 is Go's zero time.Time (and the SQL NULL of last_heartbeat_at).
Time == 0..MaxTime

SessionState ==
  [status : {"none", "active", "closed"}, mode : Modes \cup {""},
   closedAt : Time, hb : Time]

\* No row (LoadSessionState returns ok=false), or no cache entry.
Absent == [status |-> "none", mode |-> "", closedAt |-> 0, hb |-> 0]

PCs == {"idle", "get", "load", "fill", "check", "serve", "commit",
        "hbSave", "hbCache", "closer", "closeSave", "closeCache"}

\* The local variables of a request: where it is, what it was asked to do,
\* the time.Now() it passes to the store, the SessionState it holds, and
\* (ghost) the status of the row when it started.
Request == [pc : PCs, op : Ops, mode : Modes, now : Time,
            got : SessionState, rowAtStart : {"none", "active", "closed"}]

\* A goroutine between two requests.
Idle == [pc |-> "idle", op |-> "recall", mode |-> "expire_working", now |-> 0,
         got |-> Absent, rowAtStart |-> "none"]

VARIABLES
  row,        \* the row of memory_gateway_session (or the memory store entry)
  cache,      \* sessionRegistry.cache of each replica
  clock,
  rq,         \* the requests
  closerDone  \* ghost: the modes in which a closer ran to its end

vars == <<row, cache, clock, rq, closerDone>>

Init ==
  /\ row = Absent
  /\ cache = [r \in Replicas |-> Absent]
  /\ clock = 1
  /\ rq = [p \in Procs |-> Idle]
  /\ closerDone = {}

-----------------------------------------------------------------------------
(* The stores.  Both implement the same transition on the row. *)

\* MUTANT: the closed row does not win over a later heartbeat.
SaveHeartbeat_reopens(s, t) ==
  [status |-> "active", mode |-> "", closedAt |-> 0, hb |-> t]

SaveHeartbeat(s, t) ==
  IF s.status = "closed"
  THEN s
  ELSE [status |-> "active", mode |-> "", closedAt |-> 0, hb |-> t]

\* MUTANT: a second close overwrites the mode and the time of the first.
SaveClosedSession_lastWins(s, m, t) ==
  [status |-> "closed", mode |-> m, closedAt |-> t, hb |-> s.hb]

\* MUTANT: closed_at is the first instant at which the session counts as expired.
SaveClosedSession_deadline(s, m, t) ==
  IF s.status = "closed"
  THEN s
  ELSE [status |-> "closed", mode |-> m, closedAt |-> t + SessionIdleTTL + 1,
        hb |-> s.hb]

SaveClosedSession(s, m, t) ==
  IF s.status = "closed"
  THEN s
  ELSE [status |-> "closed", mode |-> m, closedAt |-> t, hb |-> s.hb]

\* Reading a row back: closed_at of an active row is NULL, and the Postgres
\* store scans it into a time.Time, which pgx refuses.
Readable(s) == ~(ScanNullFails /\ s.status = "active")

\* validateSessionState and isSessionExpired.
Expired(s, t) == s.status = "active" /\ s.hb # 0 /\ t - s.hb > SessionIdleTTL

\* MUTANT: only expiry is checked.
Rejected_expiryOnly(s, t) == Expired(s, t)

Rejected(s, t) == s.status = "closed" \/ Expired(s, t)

-----------------------------------------------------------------------------
(* Requests. *)

At(p, l) == rq[p].pc = l
Goto(p, l) == rq' = [rq EXCEPT ![p].pc = l]
GotoWith(p, l, s) == rq' = [rq EXCEPT ![p].pc = l, ![p].got = s]

\* The request answers: with its result, with a 403, or with a 503 when the
\* store failed.
End(p) == rq' = [rq EXCEPT ![p] = Idle]

\* A request passes its validation and reaches the session check.  Unpin and
\* Enable have none: they go straight to the backend.
Start(p, o, m) ==
  /\ At(p, "idle")
  /\ (o # "close") => (m = "expire_working")
  /\ rq' = [rq EXCEPT ![p] =
              [Idle EXCEPT !.pc = IF o = "unpin" THEN "commit" ELSE "get",
                           !.op = o, !.mode = m,
                           !.rowAtStart = row.status]]
  /\ UNCHANGED <<row, cache, clock, closerDone>>

\* sessionRegistry.Get, first half: look the key up under the read lock.
GetCached(p) ==
  /\ At(p, "get")
  /\ IF cache[home[p]] # Absent THEN GotoWith(p, "check", cache[home[p]])
                                ELSE Goto(p, "load")
  /\ UNCHANGED <<row, cache, clock, closerDone>>

\* sessionRegistry.Get, second half: load the row, no lock held.
Load(p) ==
  /\ At(p, "load")
  /\ \/ (Faults \/ ~Readable(row)) /\ End(p)
     \/ /\ Readable(row)
        /\ GotoWith(p, IF row = Absent THEN "check" ELSE "fill", row)
  /\ UNCHANGED <<row, cache, clock, closerDone>>

\* The registry writes what it holds into its cache, whatever is there by now.
FillCache(p) == cache' = [cache EXCEPT ![home[p]] = rq[p].got]

GetFill(p) ==
  /\ At(p, "fill")
  /\ FillCache(p)
  /\ Goto(p, "check")
  /\ UNCHANGED <<row, clock, closerDone>>

\* A close only looks at the status: an expired session can be closed, and a
\* closed one is an idempotent replay that skips the closer.
Refused(p) == IF rq[p].op = "close" THEN rq[p].got.status = "closed"
                                    ELSE Rejected(rq[p].got, clock)

\* The session check.  The heartbeat reads the clock again right after it; the
\* check's value stands for both.
Check(p) ==
  /\ At(p, "check")
  /\ \/ Refused(p) /\ End(p)
     \/ ~Refused(p) /\ rq[p].op = "recall" /\ Goto(p, "serve")
     \/ ~Refused(p) /\ rq[p].op = "mutate" /\ Goto(p, "commit")
     \/ ~Refused(p) /\ rq[p].op = "close" /\ Goto(p, "closer")
     \/ /\ ~Refused(p) /\ rq[p].op = "heartbeat"
        /\ rq' = [rq EXCEPT ![p].pc = "hbSave", ![p].now = clock]
  /\ UNCHANGED <<row, cache, clock, closerDone>>

\* The admitted recall reads and answers; the admitted mutation commits (or
\* fails) in the durable store.
Finish(p) ==
  /\ At(p, "serve") \/ At(p, "commit")
  /\ End(p)
  /\ UNCHANGED <<row, cache, clock, closerDone>>

\* sessionRegistry.Heartbeat: the store commits, then its RETURNING row is
\* scanned; an error there leaves the row changed and the cache alone.
HeartbeatSave(p) ==
  /\ At(p, "hbSave")
  /\ LET s == SaveHeartbeat(row, rq[p].now) IN
       \/ row' = s /\ Readable(s) /\ GotoWith(p, "hbCache", s)
       \/ row' = s /\ (Faults \/ ~Readable(s)) /\ End(p)
       \/ row' = row /\ Faults /\ End(p)
  /\ UNCHANGED <<cache, clock, closerDone>>

HeartbeatCache(p) ==
  /\ At(p, "hbCache")
  /\ FillCache(p)
  /\ End(p)
  /\ UNCHANGED <<row, clock, closerDone>>

\* MUTANT: a failing closer is ignored and the session is closed all the same.
RunCloser_ignoresError(p) ==
  /\ At(p, "closer")
  /\ closerDone' \in {closerDone, closerDone \cup {rq[p].mode}}
  /\ rq' = [rq EXCEPT ![p].pc = "closeSave", ![p].now = clock]
  /\ UNCHANGED <<row, cache, clock>>

\* sessionCloser.CloseSession expires or promotes the working records (module
\* WorkingClose); an error leaves the session open.
RunCloser(p) ==
  /\ At(p, "closer")
  /\ \/ /\ closerDone' = closerDone \cup {rq[p].mode}
        /\ rq' = [rq EXCEPT ![p].pc = "closeSave", ![p].now = clock]
     \/ Faults /\ End(p) /\ UNCHANGED closerDone
  /\ UNCHANGED <<row, cache, clock>>

\* sessionRegistry.Close.
CloseSave(p) ==
  /\ At(p, "closeSave")
  /\ LET s == SaveClosedSession(row, rq[p].mode, rq[p].now) IN
       \/ row' = s /\ GotoWith(p, "closeCache", s)
       \/ row' \in {row, s} /\ Faults /\ End(p)
  /\ UNCHANGED <<cache, clock, closerDone>>

CloseCache(p) ==
  /\ At(p, "closeCache")
  /\ FillCache(p)
  /\ End(p)
  /\ UNCHANGED <<row, clock, closerDone>>

\* A replica is restarted: its cache and its requests are gone.
Restart(r) ==
  /\ Faults
  /\ cache' = [cache EXCEPT ![r] = Absent]
  /\ rq' = [p \in Procs |-> IF home[p] = r THEN Idle ELSE rq[p]]
  /\ UNCHANGED <<row, clock, closerDone>>

Tick ==
  /\ clock < MaxTime
  /\ clock' = clock + 1
  /\ UNCHANGED <<row, cache, rq, closerDone>>

\* The steps of a started request.
Step(p) ==
  \/ GetCached(p) \/ Load(p) \/ GetFill(p) \/ Check(p) \/ Finish(p)
  \/ HeartbeatSave(p) \/ HeartbeatCache(p)
  \/ RunCloser(p) \/ CloseSave(p) \/ CloseCache(p)

Next ==
  \/ \E p \in Procs, o \in Ops, m \in Modes : Start(p, o, m)
  \/ \E p \in Procs : Step(p)
  \/ \E r \in Replicas : Restart(r)
  \/ Tick

Spec == Init /\ [][Next]_vars

-----------------------------------------------------------------------------
(* Properties. *)

TypeOK ==
  /\ row \in SessionState
  /\ cache \in [Replicas -> SessionState]
  /\ clock \in Time
  /\ rq \in [Procs -> Request]
  /\ closerDone \in SUBSET Modes

\* A closed session never changes again: a late heartbeat, a second close in
\* another mode, or a retry in another replica leaves the row as the first
\* close wrote it (the CASE arms of both upserts).
ClosedRowFrozen == [][row.status = "closed" => row' = row]_vars

\* What any replica or request believes about a closed session is exactly
\* what the store holds: mode, time and last heartbeat of the first close.
\* The 403 and the idempotent replay of CloseSession are built from it.
ClosedCopiesExact ==
  /\ \A r \in Replicas : cache[r].status = "closed" => cache[r] = row
  /\ \A p \in Procs : rq[p].got.status = "closed" => rq[p].got = row

\* A session is closed only after a closer ran to its end in the very mode
\* the row records: a closer that fails leaves the session open for a retry.
ClosedImpliesReclaimed == row.status = "closed" => row.mode \in closerDone

\* A request that starts when the session is already closed is not let
\* through by the session check, in any replica: no mutation (other than the
\* unchecked unpin and enable), no heartbeat, no recall, no second closer run.
AdmittedOnlyIfOpenAtStart ==
  \A p \in Procs :
    /\ rq[p].pc \in {"serve", "commit", "hbSave", "closer", "closeSave"}
    /\ rq[p].op # "unpin"
    => rq[p].rowAtStart # "closed"

\* The inductive strengthening of AdmittedOnlyIfOpenAtStart over the Postgres
\* store: as no active row can be read back, caches and requests only ever
\* hold closed rows, and a request that starts late can only be handed one.
AdmissionInv ==
  /\ row.status = "none" => row = Absent
  /\ \A r \in Replicas : cache[r] = Absent \/ cache[r].status = "closed"
  /\ \A p \in Procs :
       /\ rq[p].rowAtStart = "closed" => row.status = "closed"
       /\ rq[p].pc \in {"fill", "hbCache", "closeCache"}
            => rq[p].got.status = "closed"
       /\ rq[p].pc = "check"
            => \/ rq[p].got.status = "closed"
               \/ rq[p].got = Absent /\ rq[p].rowAtStart # "closed"
  /\ AdmittedOnlyIfOpenAtStart

\* A request that wrote an active row is answered with success: README.md:159,
\* "marks or refreshes an active session lifecycle record".
HeartbeatAnswered ==
  [][\A p \in Procs :
       At(p, "hbSave") /\ row' # row /\ rq'[p] # rq[p]
         => rq'[p].pc = "hbCache"]_vars

\* The registry, its stores and the requests of all replicas together keep the
\* promise of SessionRegister: only a close whose closer succeeded ends the
\* session, the first one decides its mode, and no heartbeat, retry, restart or
\* second close in another mode ever opens it again or rewrites it.
Register == INSTANCE SessionRegister
  WITH outcome <- IF row.status = "closed" THEN row.mode ELSE "",
       reclaimed <- closerDone

ImplementsRegister == Register!Spec
=============================================================================
