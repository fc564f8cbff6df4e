---------------------------- MODULE WorkingClose ----------------------------
(***************************************************************************)
(* The reclamation of a session's working records: DurableSessionCloser    *)
(* (internal/service/durable_session_closer.go), run by CloseSession       *)
(* (service.go) for a client, or for the reaper of idle sessions           *)
(* (session_reaper_cron.go and its query in cmd/memory-gateway/main.go).   *)
(*                                                                         *)
(* One session is modelled.  A closer lists the live working records and   *)
(* then works through that list, one guarded backend call per record,      *)
(* while requests go on writing and other closers, of other requests and   *)
(* replicas, do the same.  The session's row is written at the end.        *)
(*                                                                         *)
(* The backend is external: DeleteRecord and Promote commit when the       *)
(* expected version is the stored one and fail as stale otherwise.  A      *)
(* second Promote with the idempotency key of a committed one may be       *)
(* answered as stale or, as a replay, with success.                        *)
(***************************************************************************)
EXTENDS Integers, FiniteSets

CONSTANTS
  Records,
  Eligible,      \* the versions of records that PromotionEligible accepts and that
                 \* have an event
  Clients,       \* goroutines that may run a close for a client
  Reapers,       \* goroutines that may run one for the reaper
  Writers,       \* goroutines that run a write or a patch
  MaxVersion,    \* bound on a record's version
  Patched,       \* bound: the records that are written more than once
  Faults         \* whether backend and store calls may fail

\* A goroutine in both sets runs one close at a time, for either.
Closers == Clients \cup Reapers

\* Where the count of a record is, when no closer has it.
Accounts == {"none", "reported", "lost"}

ASSUME ConstantsAssumption ==
  /\ IsFiniteSet(Records) /\ IsFiniteSet(Closers) /\ Closers \cap Accounts = {}
  /\ Eligible \subseteq Records \X Nat
  /\ MaxVersion \in Nat \ {0} /\ Faults \in BOOLEAN

Modes == {"expire_working", "promote_and_expire"}

VARIABLES
  rec,       \* the session's records
  keys,      \* the idempotency keys of committed promotions
  closed,    \* the session's row says closed
  active,    \* the newest activity of the working records is within IdleTTL
  cl,        \* the closers
  wr,        \* the writers
  expiredTotal, promotedTotal,  \* working_expired_total, working_promoted_total
  expiredBy,     \* ghost: who counts the deletion of a record: a closer, or
                 \* its observer, or nobody any more
  promotedBy,    \* ghost: the same for a closer's promotion of a record
  replayed,      \* ghost: the promotions that were replays of another's
  kept,          \* ghost: the records kept as the winner of a dedupe
  collapsed,     \* ghost: the records that a dedupe collapsed into another
  reclaimedFrom  \* ghost: the versions listed by the closer that closed the session

vars == <<rec, keys, closed, active, cl, wr, expiredTotal, promotedTotal, expiredBy,
          promotedBy, replayed, kept, collapsed, reclaimedFrom>>
store == <<rec, keys>>
ghosts == <<expiredBy, promotedBy, replayed, kept, collapsed>>
totals == <<expiredTotal, promotedTotal>>

\* "none": not written yet.  The version that a promotion or a deletion adds is
\* left out: the new state tells it.
Record == [state : {"none", "working", "episodic", "deleted"}, version : 0..MaxVersion]

\* sessionClosePromotionKey: the record and its latest event when it was listed,
\* which the version stands for.
Key == Records \X (0..MaxVersion)

Listing == [Records -> 0..MaxVersion]  \* 0: not listed
NoListing == [r \in Records |-> 0]

Closer == [pc : {"idle", "check", "list", "loop", "save"}, mode : Modes,
           listed : Listing, todo : SUBSET Records, expired : Nat, promoted : Nat]

IdleCloser == [pc |-> "idle", mode |-> "expire_working", listed |-> NoListing,
               todo |-> {}, expired |-> 0, promoted |-> 0]

Init ==
  /\ rec = [r \in Records |-> [state |-> "none", version |-> 0]]
  /\ keys = {} /\ closed = FALSE /\ active = FALSE
  /\ cl = [c \in Closers |-> IdleCloser]
  /\ wr = [w \in Writers |-> "idle"]
  /\ expiredTotal = 0 /\ promotedTotal = 0
  /\ expiredBy = [r \in Records |-> "none"]
  /\ promotedBy = [p \in Records \X Closers |-> "none"] /\ replayed = {}
  /\ kept = {} /\ collapsed = {}
  /\ reclaimedFrom = NoListing

Live == {r \in Records : rec[r].state = "working"}

-----------------------------------------------------------------------------
(* Writes. *)

\* ensureSessionOpen lets the write through ...
Admit(w) ==
  /\ wr[w] = "idle" /\ ~closed
  /\ wr' = [wr EXCEPT ![w] = "admitted"]
  /\ UNCHANGED <<store, closed, active, cl, totals, ghosts, reclaimedFrom>>

\* ... and it commits: a new working record, or a new version of one.
Write(w, r) ==
  /\ wr[w] = "admitted"
  /\ rec[r].state \in {"none", "working"} /\ rec[r].version < MaxVersion
  /\ r \in Patched \/ rec[r].state = "none"
  /\ rec' = [rec EXCEPT ![r] = [state |-> "working", version |-> @.version + 1]]
  /\ active' = TRUE
  /\ wr' = [wr EXCEPT ![w] = "idle"]
  /\ UNCHANGED <<keys, closed, cl, totals, ghosts, reclaimedFrom>>

\* The write fails, or conflicts.
WriteFails(w) ==
  /\ wr[w] = "admitted"
  /\ wr' = [wr EXCEPT ![w] = "idle"]
  /\ UNCHANGED <<store, closed, active, cl, totals, ghosts, reclaimedFrom>>

\* A recall that reaches the origin marks the records it returns as accessed:
\* their last_access_at moves on, their version does not.
MarkAccess ==
  /\ Live # {} /\ ~active
  /\ active' = TRUE
  /\ UNCHANGED <<store, closed, cl, wr, totals, ghosts, reclaimedFrom>>

\* IdleTTL passes without activity.
Age ==
  /\ active
  /\ active' = FALSE
  /\ UNCHANGED <<store, closed, cl, wr, totals, ghosts, reclaimedFrom>>

-----------------------------------------------------------------------------
(* Closing. *)

\* A client calls CloseSession: of a closed session it is a replay, the closer is
\* not run.
ClientClose(c, m) ==
  /\ c \in Clients /\ cl[c].pc = "idle"
  /\ cl' = IF closed THEN cl
           ELSE [cl EXCEPT ![c] = [IdleCloser EXCEPT !.pc = "list", !.mode = m]]
  /\ UNCHANGED <<store, closed, active, wr, totals, ghosts, reclaimedFrom>>

\* MUTANT: the reaper looks for sessions that have a row.
ListIdle_registered(c) ==
  /\ c \in Reapers /\ cl[c].pc = "idle"
  /\ Live # {} /\ ~active /\ closed
  /\ cl' = [cl EXCEPT ![c] = [IdleCloser EXCEPT !.pc = "check"]]
  /\ UNCHANGED <<store, closed, active, wr, totals, ghosts, reclaimedFrom>>

\* The reaper's query lists the session: it has live working records and none
\* of them was active within IdleTTL.  ReapIdleSession closes it later on.
ListIdle(c) ==
  /\ c \in Reapers /\ cl[c].pc = "idle"
  /\ Live # {} /\ ~active
  /\ cl' = [cl EXCEPT ![c] = [IdleCloser EXCEPT !.pc = "check"]]
  /\ UNCHANGED <<store, closed, active, wr, totals, ghosts, reclaimedFrom>>

\* CloseSession, for the reaper: a closed session is a replay here too.
CheckOpen(c) ==
  /\ cl[c].pc = "check"
  /\ cl' = [cl EXCEPT ![c] = IF closed THEN IdleCloser ELSE [@ EXCEPT !.pc = "list"]]
  /\ UNCHANGED <<store, closed, active, wr, totals, ghosts, reclaimedFrom>>

\* MUTANT: the conversion of the rows loses their versions.
ListSessionWorking_unversioned(c) ==
  /\ cl[c].pc = "list"
  /\ cl' = [cl EXCEPT ![c].pc = "loop", ![c].todo = Live, ![c].listed = NoListing]
  /\ UNCHANGED <<store, closed, active, wr, totals, ghosts, reclaimedFrom>>

\* The live rows are listed, each with its version.
ListSessionWorking(c) ==
  /\ cl[c].pc = "list"
  /\ cl' = [cl EXCEPT ![c].pc = "loop", ![c].todo = Live,
              ![c].listed = [r \in Records |-> IF r \in Live THEN rec[r].version ELSE 0]]
  /\ UNCHANGED <<store, closed, active, wr, totals, ghosts, reclaimedFrom>>

\* The record goes through the promote path.
PromotePath(c, r) == cl[c].mode = "promote_and_expire" /\ <<r, cl[c].listed[r]>> \in Eligible

\* MUTANT: the guarded calls do not compare versions.
Stale_never(c, r) == rec[r].state \in {"none", "deleted"}

\* The backend call for r is stale: the record changed since it was listed.
Stale(c, r) == rec[r].version # cl[c].listed[r] \/ rec[r].state # "working"

\* The closer goes on to the next record.
Handled(c, r) == [cl EXCEPT ![c].todo = @ \ {r}]

\* MUTANT: a stale record is counted as expired.
PassOver_counts(c, r) ==
  /\ cl[c].pc = "loop" /\ r \in cl[c].todo /\ Stale(c, r)
  /\ cl' = [Handled(c, r) EXCEPT ![c].expired = @ + 1]
  /\ UNCHANGED <<store, closed, active, wr, totals, ghosts, reclaimedFrom>>

\* A stale record is passed over: neither expired nor promoted.
PassOver(c, r) ==
  /\ cl[c].pc = "loop" /\ r \in cl[c].todo /\ Stale(c, r)
  /\ cl' = Handled(c, r)
  /\ UNCHANGED <<store, closed, active, wr, totals, ghosts, reclaimedFrom>>

\* expireWorking deletes the record.
ExpireWorking(c, r) ==
  /\ cl[c].pc = "loop" /\ r \in cl[c].todo
  /\ ~PromotePath(c, r) /\ ~Stale(c, r)
  /\ rec' = [rec EXCEPT ![r].state = "deleted"]
  /\ expiredBy' = [expiredBy EXCEPT ![r] = c]
  /\ cl' = [Handled(c, r) EXCEPT ![c].expired = @ + 1]
  /\ UNCHANGED <<keys, closed, active, wr, totals, promotedBy, replayed, kept, collapsed,
                 reclaimedFrom>>

\* Promote answers with success, and the closer counts it.
Promoted(c, r) ==
  /\ promotedBy' = [promotedBy EXCEPT ![<<r, c>>] = c]
  /\ cl' = [Handled(c, r) EXCEPT ![c].promoted = @ + 1]

\* promoteIfEligible: no collision, and Promote makes the record episodic.
Promote(c, r) ==
  /\ cl[c].pc = "loop" /\ r \in cl[c].todo
  /\ PromotePath(c, r) /\ ~Stale(c, r)
  /\ rec' = [rec EXCEPT ![r].state = "episodic"]
  /\ keys' = keys \cup {<<r, cl[c].listed[r]>>}
  /\ Promoted(c, r)
  /\ UNCHANGED <<closed, active, wr, totals, expiredBy, replayed, kept, collapsed, reclaimedFrom>>

\* promoteIfEligible again, of another close that listed the same event: the
\* backend knows the key and repeats its answer.
PromoteReplayed(c, r) ==
  /\ cl[c].pc = "loop" /\ r \in cl[c].todo
  /\ PromotePath(c, r) /\ <<r, cl[c].listed[r]>> \in keys
  /\ Promoted(c, r)
  /\ replayed' = replayed \cup {<<r, c>>}
  /\ UNCHANGED <<store, closed, active, wr, totals, expiredBy, kept, collapsed, reclaimedFrom>>

\* ResolveDedupe reports a collision: it collapsed the record into another, or
\* others into it.  Either way the closer leaves the record alone.
Collide(c, r) ==
  /\ cl[c].pc = "loop" /\ r \in cl[c].todo
  /\ PromotePath(c, r) /\ ~Stale(c, r)
  /\ \E losers \in SUBSET {x \in Records : rec[x].state \in {"working", "episodic"}} :
       /\ rec' = [x \in Records |->
                   IF x \in losers THEN [rec[x] EXCEPT !.state = "deleted"] ELSE rec[x]]
       /\ collapsed' = collapsed \cup losers
       /\ kept' = kept \cup ({r} \ losers)
  /\ cl' = Handled(c, r)
  /\ UNCHANGED <<keys, closed, active, wr, totals, expiredBy, promotedBy, replayed, reclaimedFrom>>

\* What c has counted is on account a from now on.
Transfer(f, c, a) == [x \in DOMAIN f |-> IF f[x] = c THEN a ELSE f[x]]

\* The list is done: the observer is told, unless there is nothing to tell.
Observe(c) ==
  /\ cl[c].pc = "loop" /\ cl[c].todo = {}
  /\ expiredTotal' = expiredTotal + cl[c].expired
  /\ promotedTotal' = promotedTotal + cl[c].promoted
  /\ cl' = [cl EXCEPT ![c].pc = "save", ![c].expired = 0, ![c].promoted = 0]
  /\ expiredBy' = Transfer(expiredBy, c, "reported")
  /\ promotedBy' = Transfer(promotedBy, c, "reported")
  /\ UNCHANGED <<store, closed, active, wr, replayed, kept, collapsed, reclaimedFrom>>

\* sessionRegistry.Close: the first close wins.
Save(c) ==
  /\ cl[c].pc = "save"
  /\ closed' = TRUE
  /\ reclaimedFrom' = IF closed THEN reclaimedFrom ELSE cl[c].listed
  /\ cl' = [cl EXCEPT ![c] = IdleCloser]
  /\ UNCHANGED <<store, active, wr, totals, ghosts>>

\* MUTANT: an error in the middle of the list is passed over.
Abort_goesOn(c) ==
  /\ Faults /\ cl[c].pc \in {"check", "list", "loop", "save"}
  /\ cl' = [cl EXCEPT ![c] = IF @.pc = "loop" THEN [@ EXCEPT !.todo = {}] ELSE IdleCloser]
  /\ UNCHANGED <<store, closed, active, wr, totals, ghosts, reclaimedFrom>>

\* A call fails: the close fails and the session stays open.  What was deleted
\* or promoted stays so, and is not observed.
Abort(c) ==
  /\ Faults /\ cl[c].pc \in {"check", "list", "loop", "save"}
  /\ cl' = [cl EXCEPT ![c] = IdleCloser]
  /\ expiredBy' = Transfer(expiredBy, c, "lost")
  /\ promotedBy' = Transfer(promotedBy, c, "lost")
  /\ UNCHANGED <<store, closed, active, wr, totals, replayed, kept, collapsed, reclaimedFrom>>

CloserStep(c) ==
  \/ CheckOpen(c) \/ ListSessionWorking(c) \/ Observe(c) \/ Save(c)
  \/ \E r \in Records : \/ PassOver(c, r) \/ ExpireWorking(c, r)
                        \/ Promote(c, r) \/ PromoteReplayed(c, r) \/ Collide(c, r)

Next ==
  \/ \E w \in Writers : Admit(w) \/ WriteFails(w) \/ \E r \in Records : Write(w, r)
  \/ MarkAccess \/ Age
  \/ \E c \in Closers : ListIdle(c) \/ CloserStep(c) \/ Abort(c)
                        \/ \E m \in Modes : ClientClose(c, m)

Spec == Init /\ [][Next]_vars

\* The reaper ticks, started closes and writes run on, and time passes.
FairSpec ==
  /\ Spec /\ WF_vars(Age)
  /\ \A c \in Closers : WF_vars(ListIdle(c)) /\ WF_vars(CloserStep(c))
  /\ \A w \in Writers : WF_vars(WriteFails(w) \/ \E r \in Records : Write(w, r))

-----------------------------------------------------------------------------
(* Properties. *)

\* A closer's list has the version of every record it is to handle: without it
\* the guarded calls would be made for no version.
TypeOK ==
  /\ rec \in [Records -> Record] /\ keys \subseteq Key
  /\ closed \in BOOLEAN /\ active \in BOOLEAN
  /\ cl \in [Closers -> Closer]
  /\ \A c \in Closers : \A r \in cl[c].todo : cl[c].listed[r] > 0
  /\ wr \in [Writers -> {"idle", "admitted"}]
  /\ expiredTotal \in Nat /\ promotedTotal \in Nat
  /\ expiredBy \in [Records -> Closers \cup Accounts]
  /\ promotedBy \in [Records \X Closers -> Closers \cup Accounts]
  /\ replayed \subseteq Records \X Closers
  /\ kept \subseteq Records /\ collapsed \subseteq Records
  /\ reclaimedFrom \in Listing

\* A promoted record survives every other close that is under way with an older
\* list, in whatever mode: nothing but a dedupe takes it away.
PromotedSurvive ==
  \A r \in Records : (\E c \in Closers : promotedBy[<<r, c>>] # "none") =>
    /\ rec[r].state = "episodic" \/ r \in collapsed
    /\ expiredBy[r] = "none"

\* The session is closed only when its working records are gone, but for those
\* that changed after the closer listed them and those a dedupe kept: an error
\* half way through the list leaves the session open.
ReclaimComplete ==
  closed => \A r \in Live : rec[r].version > reclaimedFrom[r] \/ r \in kept

\* What is on account a.
On(f, a) == {x \in DOMAIN f : f[x] = a}

\* Closes that run at the same time count every deletion once, and a promotion
\* again only when the backend replayed its answer: the metrics are exactly what
\* the closes that got as far as the observer deleted and promoted, what a running
\* close has counted is what it did itself, and of the closes that count the
\* promotion of one record all but one were told of a replay.
CountedOnce ==
  /\ expiredTotal = Cardinality(On(expiredBy, "reported"))
  /\ promotedTotal = Cardinality(On(promotedBy, "reported"))
  /\ \A c \in Closers : /\ cl[c].expired = Cardinality(On(expiredBy, c))
                        /\ cl[c].promoted = Cardinality(On(promotedBy, c))
  /\ \A r \in Records : \A c, d \in Closers :
       /\ promotedBy[<<r, c>>] # "none" /\ promotedBy[<<r, d>>] # "none"
       /\ {<<r, c>>, <<r, d>>} \cap replayed = {}
       => c = d

\* From some time on the session is neither written nor recalled, and calls of
\* closers do not fail.
CalmsDown == <>[]~active /\ <>[][\A c \in Closers : ~Abort(c)]_vars

\* Working records of a session that went idle do not stay for ever: they are
\* reclaimed or the session is closed, even if no client ever calls close.
IdleReclaimed == CalmsDown => (Live # {} ~> (Live = {} \/ closed))

\* CHANGELOG.md:107: the reaper "periodically reclaims the working memory of
\* sessions that went idle": every working record of such a session is gone some
\* day.
OrphansReclaimed == CalmsDown => (Live # {} ~> Live = {})

-----------------------------------------------------------------------------
(* The inductive invariant behind the three invariants above. *)

\* The record was promoted and is not deleted by a closer.
Settled(r) ==
  /\ \/ rec[r].state = "episodic"
     \/ rec[r].state = "deleted" /\ r \in collapsed
  /\ expiredBy[r] = "none"

\* What a closer deleted is deleted; what it promoted, or has the key of a
\* promotion, is settled.  A closer has not counted what it is yet to handle.
GhostInv ==
  /\ \A r \in Records : expiredBy[r] # "none" => rec[r].state = "deleted"
  /\ \A r \in Records : \A v \in 0..MaxVersion : <<r, v>> \in keys => Settled(r)
  /\ \A r \in Records : \A c \in Closers : promotedBy[<<r, c>>] # "none" => Settled(r)
  /\ \A c \in Closers : \A r \in cl[c].todo : promotedBy[<<r, c>>] = "none"

\* r is not a working record that was left behind: it has changed since it was
\* listed, or it was kept.
Dealt(listed, r) ==
  rec[r].state = "working" => rec[r].version > listed[r] \/ r \in kept

\* A list is never ahead of the records, and a closer is done with what is not on
\* its list any more; only one that is in its loop has counted anything.
CloserOK(k) ==
  /\ \A r \in Records : k.listed[r] <= rec[r].version
  /\ k.pc # "loop" => k.todo = {}
  /\ k.pc # "loop" => k.expired = 0 /\ k.promoted = 0
  /\ k.pc \in {"loop", "save"} => \A r \in Records \ k.todo : Dealt(k.listed, r)

CloserInv ==
  /\ \A r \in Records : rec[r].state = "working" => rec[r].version > 0
  /\ \A r \in Records : reclaimedFrom[r] <= rec[r].version
  /\ closed => \A r \in Records : Dealt(reclaimedFrom, r)
  /\ \A c \in Closers : CloserOK(cl[c])

WorkingInv == GhostInv /\ CloserInv /\ CountedOnce
=============================================================================
