------------------------------ MODULE TraceSink ------------------------------
(***************************************************************************)
(* The asynchronous decision-trace sink                                    *)
(* (internal/service/trace_sink_postgres.go) with the part of              *)
(* cmd/memory-gateway/main.go that stops it.                               *)
(*                                                                         *)
(* Request goroutines Record rows into a bounded channel; one writer       *)
(* goroutine collects batches and inserts them with retries; cleanup calls *)
(* Stop, which waits for the writer up to its budget and otherwise empties *)
(* the channel itself, concurrently with the writer.  Rows carry no        *)
(* identity here: the model keeps the numbers the code keeps.              *)
(***************************************************************************)
EXTENDS Integers

CONSTANTS
  BufferSize,  \* capacity of the channel
  BatchSize,   \* rows per insert
  Attempts,    \* len(RetryBackoff)
  MaxRows      \* bound on the rows recorded

ASSUME SinkAssumption ==
  /\ BufferSize \in Nat \ {0} /\ BatchSize \in Nat \ {0} /\ Attempts \in Nat \ {0}
  /\ MaxRows \in Nat

VARIABLES
  recorded,                     \* ghost: calls of Record
  ch, batch,                    \* rows in the channel and in the writer's batch
  inserted,                     \* ghost: rows the database took
  bufferFull, dbError, shutdown,  \* the three drop counters
  writer,                       \* where the writer is
  attempt,                      \* the insert attempt under way
  after,                        \* where the writer goes after a flush
  drainCtx,                     \* the shutdown budget of drainOnShutdown
  stopper,                      \* where cleanup's call of Stop is
  sinkCtx                       \* the context sinkCancel cancels

drops == <<bufferFull, dbError, shutdown>>
sinkVars == <<recorded, ch, batch, inserted, bufferFull, dbError, shutdown, writer,
          attempt, after, drainCtx, stopper, sinkCtx>>

SinkInit ==
  /\ recorded = 0 /\ ch = 0 /\ batch = 0 /\ inserted = 0
  /\ bufferFull = 0 /\ dbError = 0 /\ shutdown = 0
  /\ writer = "loop" /\ attempt = 0 /\ after = "loop"
  /\ drainCtx = "none" /\ stopper = "up" /\ sinkCtx = "live"

-----------------------------------------------------------------------------
(* Request path. *)

\* MUTANT: the channel takes one row too many.
Record_offByOne ==
  /\ recorded < MaxRows
  /\ recorded' = recorded + 1
  /\ IF ch <= BufferSize THEN ch' = ch + 1 /\ UNCHANGED bufferFull
                         ELSE bufferFull' = bufferFull + 1 /\ UNCHANGED ch
  /\ UNCHANGED <<batch, inserted, dbError, shutdown, writer, attempt, after,
                 drainCtx, stopper, sinkCtx>>

\* Record never blocks: a full channel drops the row.
Record ==
  /\ recorded < MaxRows
  /\ recorded' = recorded + 1
  /\ IF ch < BufferSize THEN ch' = ch + 1 /\ UNCHANGED bufferFull
                        ELSE bufferFull' = bufferFull + 1 /\ UNCHANGED ch
  /\ UNCHANGED <<batch, inserted, dbError, shutdown, writer, attempt, after,
                 drainCtx, stopper, sinkCtx>>

-----------------------------------------------------------------------------
(* The writer. *)

\* A flush of the batch begins: tryInsert, then on to l.
FlushThen(l) == writer' = "insert" /\ attempt' = 1 /\ after' = l

\* One row from the channel; a full batch is flushed.  The writer's select
\* and the drain loop both do this, and go on where they were.
Receive(l) ==
  /\ ch > 0
  /\ ch' = ch - 1
  /\ batch' = batch + 1
  /\ IF batch + 1 >= BatchSize THEN FlushThen(l)
                               ELSE writer' = l /\ UNCHANGED <<attempt, after>>

Take ==
  /\ writer = "loop"
  /\ Receive("loop")
  /\ UNCHANGED <<recorded, inserted, drops, drainCtx, stopper, sinkCtx>>

\* The ticker flushes a partial batch.
FlushTick ==
  /\ writer = "loop" /\ batch > 0
  /\ FlushThen("loop")
  /\ UNCHANGED <<recorded, ch, batch, inserted, drops, drainCtx, stopper, sinkCtx>>

\* The select sees the closed stop channel, or the cancelled context.
BeginDrain ==
  /\ writer = "loop" /\ (stopper # "up" \/ sinkCtx = "cancelled")
  /\ writer' = "drain" /\ drainCtx' = "live"
  /\ UNCHANGED <<recorded, ch, batch, inserted, drops, attempt, after, stopper, sinkCtx>>

\* insertFunc succeeds.
InsertOK ==
  /\ writer = "insert"
  /\ inserted' = inserted + batch
  /\ batch' = 0
  /\ writer' = after
  /\ UNCHANGED <<recorded, ch, drops, attempt, after, drainCtx, stopper, sinkCtx>>

\* The context tryInsert was given is over.
CtxOver == IF drainCtx = "none" THEN sinkCtx = "cancelled" ELSE drainCtx = "expired"

\* tryInsert returned false: the batch is a database loss, unless the drain's
\* budget is over.
DropBatch ==
  /\ IF drainCtx = "expired"
     THEN shutdown' = shutdown + batch /\ UNCHANGED dbError
     ELSE dbError' = dbError + batch /\ UNCHANGED shutdown
  /\ batch' = 0
  /\ writer' = after

\* MUTANT: the first failure is final.
InsertFail_noRetry ==
  /\ writer = "insert"
  /\ DropBatch
  /\ UNCHANGED <<recorded, ch, inserted, bufferFull, attempt, after, drainCtx, stopper, sinkCtx>>

\* insertFunc fails: back off, or give up after the last attempt.
InsertFail ==
  /\ writer = "insert"
  /\ IF attempt < Attempts
     THEN writer' = "backoff" /\ UNCHANGED <<batch, dbError, shutdown>>
     ELSE DropBatch
  /\ UNCHANGED <<recorded, ch, inserted, bufferFull, attempt, after, drainCtx, stopper, sinkCtx>>

\* MUTANT: attempts are not counted.
Retry_uncounted ==
  /\ writer = "backoff"
  /\ writer' = "insert"
  /\ UNCHANGED <<recorded, ch, batch, inserted, drops, attempt, after, drainCtx, stopper, sinkCtx>>

Retry ==
  /\ writer = "backoff"
  /\ writer' = "insert" /\ attempt' = attempt + 1
  /\ UNCHANGED <<recorded, ch, batch, inserted, drops, after, drainCtx, stopper, sinkCtx>>

\* The context ends during the backoff sleep.
GiveUp ==
  /\ writer = "backoff" /\ CtxOver
  /\ DropBatch
  /\ UNCHANGED <<recorded, ch, inserted, bufferFull, attempt, after, drainCtx, stopper, sinkCtx>>

\* drainOnShutdown, within its budget: take everything that is queued, ...
DrainTake ==
  /\ writer = "drain" /\ drainCtx = "live"
  /\ Receive("drain")
  /\ UNCHANGED <<recorded, inserted, drops, drainCtx, stopper, sinkCtx>>

\* ... flush the rest when the channel is found empty, ...
DrainEmpty ==
  /\ writer = "drain" /\ drainCtx = "live" /\ ch = 0
  /\ IF batch > 0 THEN FlushThen("count")
                  ELSE writer' = "count" /\ UNCHANGED <<attempt, after>>
  /\ UNCHANGED <<recorded, ch, batch, inserted, drops, drainCtx, stopper, sinkCtx>>

\* MUTANT: the batch in hand is forgotten when the budget is over.
DrainLate_forgets ==
  /\ writer = "drain" /\ drainCtx = "expired"
  /\ batch' = 0
  /\ writer' = "count"
  /\ UNCHANGED <<recorded, ch, inserted, drops, attempt, after, drainCtx, stopper, sinkCtx>>

\* ... and past the budget count the batch as lost.
DrainLate ==
  /\ writer = "drain" /\ drainCtx = "expired"
  /\ shutdown' = shutdown + batch
  /\ batch' = 0
  /\ writer' = "count"
  /\ UNCHANGED <<recorded, ch, inserted, bufferFull, dbError, attempt, after,
                 drainCtx, stopper, sinkCtx>>

\* countRemainingAsShutdownDrops, one row.
CountOne == ch > 0 /\ ch' = ch - 1 /\ shutdown' = shutdown + 1

CountWriter ==
  /\ writer = "count"
  /\ \/ CountOne /\ UNCHANGED writer
     \/ ch = 0 /\ writer' = "exited" /\ UNCHANGED <<ch, shutdown>>
  /\ UNCHANGED <<recorded, batch, inserted, bufferFull, dbError, attempt, after,
                 drainCtx, stopper, sinkCtx>>

DrainExpires ==
  /\ drainCtx = "live"
  /\ drainCtx' = "expired"
  /\ UNCHANGED <<recorded, ch, batch, inserted, drops, writer, attempt, after,
                 stopper, sinkCtx>>

-----------------------------------------------------------------------------
(* Cleanup: Stop, then sinkCancel. *)

Stop ==
  /\ stopper = "up"
  /\ stopper' = "waiting"
  /\ UNCHANGED <<recorded, ch, batch, inserted, drops, writer, attempt, after,
                 drainCtx, sinkCtx>>

\* The writer is done, or the budget of Stop is over.
StopWaited ==
  /\ stopper = "waiting"
  /\ stopper' \in (IF writer = "exited" THEN {"stopped", "counting"} ELSE {"counting"})
  /\ UNCHANGED <<recorded, ch, batch, inserted, drops, writer, attempt, after,
                 drainCtx, sinkCtx>>

StopCount ==
  /\ stopper = "counting"
  /\ \/ CountOne /\ UNCHANGED stopper
     \/ ch = 0 /\ stopper' = "stopped" /\ UNCHANGED <<ch, shutdown>>
  /\ UNCHANGED <<recorded, batch, inserted, bufferFull, dbError, writer, attempt,
                 after, drainCtx, sinkCtx>>

SinkCancel ==
  /\ stopper = "stopped" /\ sinkCtx = "live"
  /\ sinkCtx' = "cancelled"
  /\ UNCHANGED <<recorded, ch, batch, inserted, drops, writer, attempt, after,
                 drainCtx, stopper>>

Writer ==
  \/ Take \/ FlushTick \/ BeginDrain \/ InsertOK \/ InsertFail \/ Retry \/ GiveUp
  \/ DrainTake \/ DrainEmpty \/ DrainLate \/ CountWriter

Stopper == StopWaited \/ StopCount \/ SinkCancel

SinkNext == Record \/ Writer \/ DrainExpires \/ Stop \/ Stopper

SinkSpec == SinkInit /\ [][SinkNext]_sinkVars

\* The writer and cleanup are scheduled, insertFunc returns, and budgets end.
\* Nobody has to record rows or call Stop.
SinkFairSpec ==
  SinkSpec /\ WF_sinkVars(Writer) /\ WF_sinkVars(Stopper) /\ WF_sinkVars(DrainExpires)

-----------------------------------------------------------------------------
(* Properties. *)

SinkTypeOK ==
  /\ recorded \in Nat /\ inserted \in Nat
  /\ ch \in 0..BufferSize /\ batch \in 0..BatchSize
  /\ bufferFull \in Nat /\ dbError \in Nat /\ shutdown \in Nat
  /\ writer \in {"loop", "insert", "backoff", "drain", "count", "exited"}
  /\ attempt \in 0..Attempts
  /\ after \in {"loop", "drain", "count"}
  /\ drainCtx \in {"none", "live", "expired"}
  /\ stopper \in {"up", "waiting", "counting", "stopped"}
  /\ sinkCtx \in {"live", "cancelled"}

\* Every recorded row is in exactly one place: waiting in the channel or in the
\* batch, in the database, or in one of the three drop counters ("a row is
\* counted in exactly one bucket"), also while Stop and the writer empty the
\* channel at the same time.
Conserved ==
  recorded = ch + batch + inserted + bufferFull + dbError + shutdown

\* The writer's exit leaves no row behind in its hands.
ExitsEmptyHanded == writer \in {"count", "exited"} => batch = 0

\* The inductive strengthening: the writer only waits for rows with room left in
\* its batch, and only backs off when an attempt is left.
WriterInv ==
  /\ writer \in {"loop", "drain"} => batch < BatchSize
  /\ writer = "backoff" => attempt < Attempts
  /\ ExitsEmptyHanded

\* A row is only written off as db_error after every attempt failed, or when
\* cleanup had already given up on the writer.
RetryBudgetHonoured ==
  [][dbError' > dbError => attempt = Attempts \/ sinkCtx = "cancelled"]_sinkVars

\* Once Stop has been called cleanup gets through, and the writer exits.
StopTerminates == stopper = "waiting" ~> (sinkCtx = "cancelled" /\ writer = "exited")

=============================================================================
