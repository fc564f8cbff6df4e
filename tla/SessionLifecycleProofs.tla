----------------------- MODULE SessionLifecycleProofs -----------------------
(***************************************************************************)
(* Proofs about SessionLifecycle, for every set of requests and replicas,  *)
(* every placement of requests and every bound on the clock.               *)
(***************************************************************************)
EXTENDS SessionLifecycle, TLAPS

\* The zero time and the first reading of the clock are times.
LEMMA ZeroTime == 0 \in Time /\ 1 \in Time
  BY ConstantsAssumption DEF Time

\* A missing row is a well-formed SessionState.
LEMMA AbsentType == Absent \in SessionState
  BY ZeroTime DEF SessionState, Absent

\* The stores return well-formed rows.
LEMMA StoreTypes ==
  ASSUME NEW s \in SessionState, NEW t \in Time, NEW m \in Modes
  PROVE  /\ SaveHeartbeat(s, t) \in SessionState
         /\ SaveClosedSession(s, m, t) \in SessionState
<1>1. SaveHeartbeat(s, t) \in SessionState
  BY ZeroTime DEF SaveHeartbeat, SessionState
<1>2. SaveClosedSession(s, m, t) \in SessionState
  BY ZeroTime DEF SaveClosedSession, SessionState
<1> QED BY <1>1, <1>2

\* A goroutine between two requests is a well-formed request.
LEMMA IdleType == Idle \in Request
  BY ZeroTime, AbsentType DEF Idle, Request, PCs, Ops, Modes

\* A goroutine between two requests holds no row and is nowhere.
LEMMA IdleFields ==
  /\ Idle.pc = "idle"
  /\ Idle.got = Absent
  /\ Idle.rowAtStart = "none"
  /\ Absent.status = "none"
  BY DEF Idle, Absent

\* Every step of the registry and of its requests keeps the types: rows,
\* cached rows and the rows requests hold are well-formed SessionStates.
THEOREM TypeCorrect == Spec => []TypeOK
<1>1. Init => TypeOK
  BY IdleType, AbsentType, ZeroTime DEF Init, TypeOK
<1>2. TypeOK /\ [Next]_vars => TypeOK'
  <2> SUFFICES ASSUME TypeOK, [Next]_vars PROVE TypeOK'
    OBVIOUS
  <2> USE ConstantsAssumption, IdleType DEF TypeOK
  <2>1. ASSUME NEW p \in Procs, NEW o \in Ops, NEW m \in Modes, Start(p, o, m)
        PROVE  TypeOK'
    <3> DEFINE q == [Idle EXCEPT !.pc = IF o = "unpin" THEN "commit" ELSE "get",
                                 !.op = o, !.mode = m,
                                 !.rowAtStart = row.status]
    <3>1. q \in Request
      BY ZeroTime, AbsentType DEF Idle, Request, PCs, SessionState
    <3>2. rq' = [rq EXCEPT ![p] = q] /\ UNCHANGED <<row, cache, clock, closerDone>>
      BY <2>1 DEF Start
    <3> HIDE DEF q
    <3> QED BY <3>1, <3>2
  <2>2. ASSUME NEW p \in Procs, GetCached(p) PROVE TypeOK'
    BY <2>2 DEF GetCached, Goto, GotoWith, Request, PCs
  <2>3. ASSUME NEW p \in Procs, Load(p) PROVE TypeOK'
    BY <2>3 DEF Load, GotoWith, End, Request, PCs
  <2>4. ASSUME NEW p \in Procs, GetFill(p) PROVE TypeOK'
    BY <2>4 DEF GetFill, FillCache, Goto, Request, PCs
  <2>5. ASSUME NEW p \in Procs, Check(p) PROVE TypeOK'
    BY <2>5 DEF Check, Goto, End, Request, PCs
  <2>6. ASSUME NEW p \in Procs, Finish(p) PROVE TypeOK'
    BY <2>6 DEF Finish, End
  <2>7. ASSUME NEW p \in Procs, HeartbeatSave(p) PROVE TypeOK'
    <3>1. SaveHeartbeat(row, rq[p].now) \in SessionState
      BY StoreTypes DEF Request, Modes
    <3> QED BY <2>7, <3>1 DEF HeartbeatSave, GotoWith, End, Request, PCs
  <2>8. ASSUME NEW p \in Procs, HeartbeatCache(p) PROVE TypeOK'
    BY <2>8 DEF HeartbeatCache, FillCache, End, Request
  <2>9. ASSUME NEW p \in Procs, RunCloser(p) PROVE TypeOK'
    BY <2>9 DEF RunCloser, End, Request, PCs
  <2>10. ASSUME NEW p \in Procs, CloseSave(p) PROVE TypeOK'
    <3>1. SaveClosedSession(row, rq[p].mode, rq[p].now) \in SessionState
      BY StoreTypes DEF Request
    <3> QED BY <2>10, <3>1 DEF CloseSave, GotoWith, End, Request, PCs
  <2>11. ASSUME NEW p \in Procs, CloseCache(p) PROVE TypeOK'
    BY <2>11 DEF CloseCache, FillCache, End, Request
  <2>12. ASSUME NEW r \in Replicas, Restart(r) PROVE TypeOK'
    BY <2>12, AbsentType DEF Restart
  <2>13. CASE Tick
    BY <2>13 DEF Tick, Time
  <2>14. CASE UNCHANGED vars
    BY <2>14 DEF vars
  <2> QED
    BY <2>1, <2>2, <2>3, <2>4, <2>5, <2>6, <2>7, <2>8, <2>9, <2>10, <2>11,
       <2>12, <2>13, <2>14 DEF Next, Step
<1> QED BY <1>1, <1>2, PTL DEF Spec

-----------------------------------------------------------------------------
(* Closed rows. *)

\* A step changes the row only through one of the two saves.
LEMMA RowSteps ==
  ASSUME Next
  PROVE  \/ row' = row
         \/ \E t \in {rq[p].now : p \in Procs} : row' = SaveHeartbeat(row, t)
         \/ \E p \in Procs :
              /\ At(p, "closeSave")
              /\ row' = SaveClosedSession(row, rq[p].mode, rq[p].now)
  BY DEF Next, Step, Start, GetCached, Load, GetFill, Check, Finish,
         HeartbeatSave, HeartbeatCache, RunCloser, CloseSave, CloseCache,
         Restart, Tick

\* The row of a closed session is what its first close wrote: no heartbeat,
\* close, restart or store fault of any replica changes it again.
THEOREM ClosedRowStable == Spec => ClosedRowFrozen
<1>1. [Next]_vars => [row.status = "closed" => row' = row]_vars
  <2> SUFFICES ASSUME Next, row.status = "closed" PROVE row' = row
    BY DEF vars
  <2> QED BY RowSteps DEF SaveHeartbeat, SaveClosedSession
<1> QED BY <1>1, PTL DEF Spec, ClosedRowFrozen

\* The inductive strengthening: a request about to record a close has run its
\* closer in the mode it will record.
ClosedInv ==
  /\ ClosedCopiesExact
  /\ ClosedImpliesReclaimed
  /\ \A p \in Procs : At(p, "closeSave") => rq[p].mode \in closerDone

\* A heartbeat neither closes a row nor changes a closed one.
LEMMA HeartbeatRow ==
  ASSUME NEW p \in Procs, HeartbeatSave(p)
  PROVE  row' = row \/ (row.status # "closed" /\ row'.status = "active")
<1>1. row' = SaveHeartbeat(row, rq[p].now) \/ row' = row
  BY DEF HeartbeatSave
<1>2. CASE row.status = "closed"
  BY <1>1, <1>2 DEF SaveHeartbeat
<1>3. CASE row.status # "closed" /\ row' # row
  <2>1. row' = [status |-> "active", mode |-> "", closedAt |-> 0, hb |-> rq[p].now]
    BY <1>1, <1>3 DEF SaveHeartbeat
  <2> QED BY <1>3, <2>1
<1> QED BY <1>2, <1>3

\* Every step keeps the copies of a closed row exact, and its mode reclaimed.
LEMMA ClosedInvStep == ASSUME TypeOK, ClosedInv, [Next]_vars PROVE ClosedInv'
<1> USE ConstantsAssumption, IdleType, IdleFields
      DEF TypeOK, ClosedInv, ClosedCopiesExact, ClosedImpliesReclaimed, Request, At
<1>1. ASSUME NEW p \in Procs, NEW o \in Ops, NEW m \in Modes, Start(p, o, m)
      PROVE  ClosedInv'
  BY <1>1 DEF Start, Idle
<1>2. ASSUME NEW p \in Procs, GetCached(p) PROVE ClosedInv'
  BY <1>2 DEF GetCached, Goto, GotoWith
<1>3. ASSUME NEW p \in Procs, Load(p) PROVE ClosedInv'
  <2>1. CASE End(p)
    BY <1>3, <2>1 DEF Load, End
  <2>2. CASE \E l \in {"check", "fill"} : GotoWith(p, l, row)
    BY <1>3, <2>2 DEF Load, GotoWith
  <2> QED BY <1>3, <2>1, <2>2 DEF Load
<1>4. ASSUME NEW p \in Procs, GetFill(p) PROVE ClosedInv'
  BY <1>4 DEF GetFill, FillCache, Goto
<1>5. ASSUME NEW p \in Procs, Check(p) PROVE ClosedInv'
  BY <1>5 DEF Check, Goto, End
<1>6. ASSUME NEW p \in Procs, Finish(p) PROVE ClosedInv'
  BY <1>6 DEF Finish, End
<1>7. ASSUME NEW p \in Procs, HeartbeatSave(p) PROVE ClosedInv'
  <2>1. row' = row \/ (row.status # "closed" /\ row'.status = "active")
    BY <1>7, HeartbeatRow
  <2>2. CASE End(p)
    BY <1>7, <2>1, <2>2 DEF HeartbeatSave, End
  <2>3. CASE GotoWith(p, "hbCache", row')
    BY <1>7, <2>1, <2>3 DEF HeartbeatSave, GotoWith
  <2> QED BY <1>7, <2>2, <2>3 DEF HeartbeatSave
<1>8. ASSUME NEW p \in Procs, HeartbeatCache(p) PROVE ClosedInv'
  BY <1>8 DEF HeartbeatCache, FillCache, End
<1>9. ASSUME NEW p \in Procs, RunCloser(p) PROVE ClosedInv'
  <2>1. CASE End(p) /\ UNCHANGED closerDone
    BY <1>9, <2>1 DEF RunCloser, End
  <2>2. CASE /\ closerDone' = closerDone \cup {rq[p].mode}
             /\ rq' = [rq EXCEPT ![p].pc = "closeSave", ![p].now = clock]
    BY <1>9, <2>2 DEF RunCloser
  <2> QED BY <1>9, <2>1, <2>2 DEF RunCloser
<1>10. ASSUME NEW p \in Procs, CloseSave(p) PROVE ClosedInv'
  <2>1. \/ row' = row
        \/ /\ row.status # "closed"
           /\ row'.mode = rq[p].mode /\ rq[p].mode \in closerDone
    BY <1>10 DEF CloseSave, SaveClosedSession
  <2>2. CASE End(p)
    BY <1>10, <2>1, <2>2 DEF CloseSave, End
  <2>3. CASE GotoWith(p, "closeCache", row')
    BY <1>10, <2>1, <2>3 DEF CloseSave, GotoWith
  <2> QED BY <1>10, <2>2, <2>3 DEF CloseSave
<1>11. ASSUME NEW p \in Procs, CloseCache(p) PROVE ClosedInv'
  BY <1>11 DEF CloseCache, FillCache, End
<1>12. ASSUME NEW r \in Replicas, Restart(r) PROVE ClosedInv'
  BY <1>12 DEF Restart
<1>13. CASE Tick
  BY <1>13 DEF Tick
<1>14. CASE UNCHANGED vars
  BY <1>14 DEF vars
<1> QED
  BY <1>1, <1>2, <1>3, <1>4, <1>5, <1>6, <1>7, <1>8, <1>9, <1>10, <1>11,
     <1>12, <1>13, <1>14 DEF Next, Step

\* The closed state a replica has cached, or a request is answering from, is
\* the stored row itself, and a closed row's mode is one in which a closer ran
\* to its end.
THEOREM ClosedCorrect == Spec => [](ClosedCopiesExact /\ ClosedImpliesReclaimed)
<1>1. Init => ClosedInv
  BY IdleFields DEF Init, ClosedInv, ClosedCopiesExact, ClosedImpliesReclaimed, At
<1>2. TypeOK /\ ClosedInv /\ [Next]_vars => ClosedInv'
  BY ClosedInvStep
<1>3. ClosedInv => ClosedCopiesExact /\ ClosedImpliesReclaimed
  BY DEF ClosedInv
<1> QED BY <1>1, <1>2, <1>3, TypeCorrect, PTL DEF Spec

-----------------------------------------------------------------------------
(* The refinement of SessionRegister. *)

\* A step that leaves the row and the closers' record alone is a stutter of the
\* register.
LEMMA RegisterFrame ==
  ASSUME UNCHANGED <<row, closerDone>>
  PROVE  UNCHANGED Register!vars
BY DEF Register!vars

\* Every step closes the register, reclaims, or is a stutter of it.
LEMMA RegisterStep ==
  ASSUME TypeOK, ClosedInv, [Next]_vars
  PROVE  [Register!Next]_(Register!vars)
<1> DEFINE Goal == [Register!Next]_(Register!vars)
<1>1. ASSUME NEW p \in Procs, HeartbeatSave(p) PROVE Goal
  <2>1. row' = row \/ (row.status # "closed" /\ row'.status = "active")
    BY <1>1, HeartbeatRow
  <2>2. closerDone' = closerDone
    BY <1>1 DEF HeartbeatSave
  <2> QED BY <2>1, <2>2 DEF Register!vars
<1>2. ASSUME NEW p \in Procs, RunCloser(p) PROVE Goal
  <2>1. row' = row /\ rq[p].mode \in Modes
    BY <1>2 DEF RunCloser, TypeOK, Request
  <2>2. CASE closerDone' = closerDone
    BY <2>1, <2>2, RegisterFrame
  <2>3. CASE closerDone' = closerDone \cup {rq[p].mode}
    <3>1. Register!Reclaim(rq[p].mode)
      BY <2>1, <2>3 DEF Register!Reclaim
    <3> QED BY <2>1, <3>1 DEF Register!Next
  <2> QED BY <1>2, <2>2, <2>3 DEF RunCloser
<1>3. ASSUME NEW p \in Procs, CloseSave(p) PROVE Goal
  <2>1. closerDone' = closerDone /\ rq[p].mode \in Modes /\ rq[p].mode \in closerDone
    BY <1>3 DEF CloseSave, TypeOK, Request, ClosedInv, At
  <2>2. \/ row' = row
        \/ row.status # "closed" /\ row'.status = "closed" /\ row'.mode = rq[p].mode
    BY <1>3 DEF CloseSave, SaveClosedSession
  <2>3. CASE row' = row
    BY <2>1, <2>3, RegisterFrame
  <2>4. CASE row.status # "closed" /\ row'.status = "closed" /\ row'.mode = rq[p].mode
    <3>1. Register!Close(rq[p].mode)
      BY <2>1, <2>4 DEF Register!Close, Register!Open
    <3> QED BY <2>1, <3>1 DEF Register!Next
  <2> QED BY <2>2, <2>3, <2>4
<1>4. ASSUME \/ \E p \in Procs, o \in Ops, m \in Modes : Start(p, o, m)
             \/ \E p \in Procs : \/ GetCached(p) \/ Load(p) \/ GetFill(p) \/ Check(p)
                                 \/ Finish(p) \/ HeartbeatCache(p) \/ CloseCache(p)
             \/ \E r \in Replicas : Restart(r)
             \/ Tick \/ UNCHANGED vars
      PROVE  Goal
  <2>1. UNCHANGED <<row, closerDone>>
    BY <1>4 DEF Start, GetCached, Load, GetFill, Check, Finish, HeartbeatCache, CloseCache,
                Restart, Tick, vars
  <2> QED BY <2>1, RegisterFrame
<1> QED BY <1>1, <1>2, <1>3, <1>4 DEF Next, Step

\* For any number of replicas and requests, over either store and through faults
\* and restarts, the session registry implements SessionRegister.
THEOREM RegisterImplemented == Spec => ImplementsRegister
<1>1. Init => ClosedInv
  BY IdleFields DEF Init, ClosedInv, ClosedCopiesExact, ClosedImpliesReclaimed, At
<1>2. TypeOK /\ ClosedInv /\ [Next]_vars => ClosedInv'
  BY ClosedInvStep
<1>3. Init => Register!Init
  <2>1. Init => row.status = "none" /\ closerDone = {}
    BY IdleFields DEF Init
  <2> QED BY <2>1 DEF Register!Init, Register!Open
<1>4. TypeOK /\ ClosedInv /\ [Next]_vars => [Register!Next]_(Register!vars)
  BY RegisterStep
<1> QED BY <1>1, <1>2, <1>3, <1>4, TypeCorrect, PTL DEF Spec, ImplementsRegister, Register!Spec

-----------------------------------------------------------------------------
(* Admission over the Postgres store. *)

\* Every step over the Postgres store keeps AdmissionInv.
LEMMA AdmissionStep ==
  ASSUME ScanNullFails, TypeOK, AdmissionInv, [Next]_vars
  PROVE  AdmissionInv'
<1> USE ConstantsAssumption, IdleType, IdleFields
      DEF TypeOK, AdmissionInv, AdmittedOnlyIfOpenAtStart, Request, At
<1>1. ASSUME NEW p \in Procs, NEW o \in Ops, NEW m \in Modes, Start(p, o, m)
      PROVE  AdmissionInv'
  BY <1>1 DEF Start, Idle
<1>2. ASSUME NEW p \in Procs, GetCached(p) PROVE AdmissionInv'
  <2>1. CASE cache[home[p]] # Absent /\ GotoWith(p, "check", cache[home[p]])
    BY <1>2, <2>1 DEF GetCached, GotoWith
  <2>2. CASE Goto(p, "load")
    BY <1>2, <2>2 DEF GetCached, Goto
  <2> QED BY <1>2, <2>1, <2>2 DEF GetCached
<1>3. ASSUME NEW p \in Procs, Load(p) PROVE AdmissionInv'
  <2>1. CASE End(p)
    BY <1>3, <2>1 DEF Load, End
  <2>2. CASE row = Absent /\ GotoWith(p, "check", row)
    BY <1>3, <2>2 DEF Load, GotoWith
  <2>3. CASE row # Absent /\ Readable(row) /\ GotoWith(p, "fill", row)
    <3>1. row.status = "closed"
      BY <2>3 DEF Readable, SessionState
    <3> QED BY <1>3, <2>3, <3>1 DEF Load, GotoWith
  <2> QED BY <1>3, <2>1, <2>2, <2>3 DEF Load
<1>4. ASSUME NEW p \in Procs, GetFill(p) PROVE AdmissionInv'
  BY <1>4 DEF GetFill, FillCache, Goto
<1>5. ASSUME NEW p \in Procs, Check(p) PROVE AdmissionInv'
  BY <1>5 DEF Check, Refused, Rejected, Goto, End
<1>6. ASSUME NEW p \in Procs, Finish(p) PROVE AdmissionInv'
  BY <1>6 DEF Finish, End
<1>7. ASSUME NEW p \in Procs, HeartbeatSave(p) PROVE AdmissionInv'
  <2>1. row' = row \/ (row.status # "closed" /\ row'.status = "active")
    BY <1>7, HeartbeatRow
  <2>2. CASE End(p)
    BY <1>7, <2>1, <2>2 DEF HeartbeatSave, End
  <2>3. CASE Readable(row') /\ GotoWith(p, "hbCache", row')
    <3>1. row'.status = "closed"
      <4>1. row' = SaveHeartbeat(row, rq[p].now)
        BY <1>7, <2>3, IdleFields DEF HeartbeatSave, GotoWith, End
      <4> QED BY <2>3, <4>1 DEF SaveHeartbeat, Readable
    <3> QED BY <1>7, <2>1, <2>3, <3>1 DEF HeartbeatSave, GotoWith
  <2> QED BY <1>7, <2>2, <2>3 DEF HeartbeatSave
<1>8. ASSUME NEW p \in Procs, HeartbeatCache(p) PROVE AdmissionInv'
  BY <1>8 DEF HeartbeatCache, FillCache, End
<1>9. ASSUME NEW p \in Procs, RunCloser(p) PROVE AdmissionInv'
  <2>1. CASE End(p)
    BY <1>9, <2>1 DEF RunCloser, End
  <2>2. CASE rq' = [rq EXCEPT ![p].pc = "closeSave", ![p].now = clock]
    BY <1>9, <2>2 DEF RunCloser
  <2> QED BY <1>9, <2>1, <2>2 DEF RunCloser
<1>10. ASSUME NEW p \in Procs, CloseSave(p) PROVE AdmissionInv'
  BY <1>10 DEF CloseSave, SaveClosedSession, GotoWith, End
<1>11. ASSUME NEW p \in Procs, CloseCache(p) PROVE AdmissionInv'
  BY <1>11 DEF CloseCache, FillCache, End
<1>12. ASSUME NEW r \in Replicas, Restart(r) PROVE AdmissionInv'
  BY <1>12 DEF Restart
<1>13. CASE Tick
  BY <1>13 DEF Tick
<1>14. CASE UNCHANGED vars
  BY <1>14 DEF vars
<1> QED
  BY <1>1, <1>2, <1>3, <1>4, <1>5, <1>6, <1>7, <1>8, <1>9, <1>10, <1>11,
     <1>12, <1>13, <1>14 DEF Next, Step

\* Over the Postgres store the session check is sound for every number of
\* replicas and requests: what starts after the close committed is refused.
THEOREM AdmissionSound ==
  ASSUME ScanNullFails PROVE Spec => []AdmittedOnlyIfOpenAtStart
<1>1. Init => AdmissionInv
  BY IdleFields DEF Init, AdmissionInv, AdmittedOnlyIfOpenAtStart
<1>2. TypeOK /\ AdmissionInv /\ [Next]_vars => AdmissionInv'
  BY AdmissionStep
<1>3. AdmissionInv => AdmittedOnlyIfOpenAtStart
  BY DEF AdmissionInv
<1> QED BY <1>1, <1>2, <1>3, TypeCorrect, PTL DEF Spec
=============================================================================
