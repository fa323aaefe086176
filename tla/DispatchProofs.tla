--------------------------- MODULE DispatchProofs ---------------------------
(***************************************************************************)
(* Proofs about the dispatch core, for any number of handlers, units,      *)
(* incidents and dispatches and any mix of requests.                       *)
(*                                                                         *)
(* NoDoubleBooking is not inductive: a commit makes an inserted row        *)
(* visible, so the invariant must say of the rows in flight what the       *)
(* unique index saw when they were inserted (IndexOK), who may have them   *)
(* in flight (RowsOK), and what each handler's locals mean at each         *)
(* statement (LocalsOK).                                                   *)
(***************************************************************************)
EXTENDS Dispatch, TLAPS

Inserting == {"reserve", "optimistic", "reroute", "preempt"}

\* A row that is inserted and not yet committed.
Pending(d) == dStatus[d] = "none" /\ dNew[d] # Clean

\* What a handler's locals are worth at each of its statements.
LocalsOf(p) ==
  /\ req[p].kind \in Inserting => req[p].new \in Dispatches /\ req[p].inc \in Incidents
  /\ req[p].kind = "advance" => req[p].disp \in Dispatches
  /\ pc[p] = "patch" => req[p].to \in IncidentStatuses
  /\ pc[p] \in {"cas", "read"} => req[p].kind = "optimistic"
  /\ pc[p] = "read" => req[p].attempt < maxOptimisticRetries
  /\ pc[p] = "attempt" => Reassigning(p)
  /\ pc[p] \in {"incident", "first", "second", "cas", "read", "insert"} =>
       req[p].kind \in Inserting /\ req[p].unit \in Units
  /\ pc[p] \in {"first", "second"} => Reassigning(p)
  /\ pc[p] \in {"incident", "first", "second"} /\ Reassigning(p) =>
       /\ req[p].disp \in Dispatches
       /\ dLock[req[p].disp] = p
       /\ IsActiveDispatch(dStatus[req[p].disp])
LocalsOK == \A p \in Procs : LocalsOf(p)

\* The statements between a handler's INSERT and its COMMIT.
InFlight == {"mark", "count", "settle", "commit"}

\* A dispatch row and the write in flight on it.
RowOK(d) ==
  /\ dStatus[d] # "none" \/ dNew[d] # Clean => dUnit[d] \in Units /\ dInc[d] \in Incidents
  /\ dNew[d] # Clean => dLock[d] \in Procs
  /\ dLock[d] \in Procs /\ dStatus[d] = "none" => dNew[d] # Clean
  /\ Pending(d) => /\ dNew[d] = "reserved"
                   /\ req[dLock[d]].new = d
                   /\ pc[dLock[d]] \in InFlight
  /\ dStatus[d] # "none" /\ dNew[d] # Clean => CanTransitionDispatch(dStatus[d], dNew[d])

\* The ids the handlers are to insert are unused and distinct.
NewIdsOK ==
  /\ \A p \in Procs : req[p].new # None => dStatus[req[p].new] = "none"
  /\ \A p, q \in Procs : p # q /\ req[p].new # None => req[p].new # req[q].new

RowsOK == (\A d \in Dispatches : RowOK(d)) /\ NewIdsOK

\* The partial unique index, over committed rows and rows in flight: at most one
\* insert in flight per unit, and every committed active dispatch of its unit is
\* ended by the same transaction.
IndexOK ==
  /\ \A d, e \in Dispatches : Pending(d) /\ Pending(e) /\ dUnit[d] = dUnit[e] => d = e
  /\ \A d, e \in Dispatches :
       Pending(d) /\ IsActiveDispatch(dStatus[e]) /\ dUnit[d] = dUnit[e] =>
         /\ dLock[e] = dLock[d]
         /\ dNew[e] \in {"completed", "cancelled"}

IInv == TypeOK /\ LocalsOK /\ RowsOK /\ IndexOK /\ NoDoubleBooking

-----------------------------------------------------------------------------
(* Types.                                                                   *)

RowTypes ==
  /\ unitStatus \in [Units -> UnitStatuses]
  /\ unitVersion \in [Units -> Nat]
  /\ unitLock \in [Units -> Procs \cup {None}]
  /\ unitNew \in [Units -> UnitStatuses \cup {Clean}]
  /\ incStatus \in [Incidents -> IncidentStatuses]
  /\ incLock \in [Incidents -> Procs \cup {None}]
  /\ incNew \in [Incidents -> IncidentStatuses \cup {Clean}]
  /\ dStatus \in [Dispatches -> DispatchStatuses \cup {"none"}]
  /\ dUnit \in [Dispatches -> Units \cup {None}]
  /\ dInc \in [Dispatches -> Incidents \cup {None}]
  /\ dLock \in [Dispatches -> Procs \cup {None}]
  /\ dNew \in [Dispatches -> DispatchStatuses \cup {Clean}]
HandlerTypes ==
  /\ outbox \subseteq [type : EventTypes, disp : Dispatches, replaced : Dispatches \cup {None}]
  /\ pc \in [Procs -> Steps]
  /\ req \in [Procs -> Requests]
  /\ manual \in 0 .. MaxManual

\* An idle handler's locals have their types.
LEMMA NoReqType == NoReq \in Requests
  BY DEF NoReq, Requests, Kinds, maxOptimisticRetries

\* A handler's locals have their types.
LEMMA LocalTypes ==
  ASSUME NEW p \in Procs, TypeOK
  PROVE  req[p] \in Requests /\ req[p].todo \in SUBSET (Dispatches \X Units)
<1>1. req[p] \in Requests
  BY DEF TypeOK
<1>2. QED
  BY <1>1 DEF Requests

\* Choosing what a reassignment tries keeps the locals' types.
LEMMA TargetTypes ==
  ASSUME NEW r \in Requests, NEW t \in SUBSET (Dispatches \X Units),
         NEW d \in Dispatches \cup {None}, NEW u \in Units \cup {None}
  PROVE  /\ [r EXCEPT !.todo = t, !.disp = d, !.unit = u] \in Requests
         /\ [r EXCEPT !.disp = d, !.unit = u, !.todo = t] \in Requests
  BY DEF Requests

\* Moving on to the next candidate keeps the handlers' types.
LEMMA NextAttemptTypes ==
  ASSUME NEW p \in Procs, TypeOK, NEW rest \in SUBSET (Dispatches \X Units),
         NextAttempt(p, rest)
  PROVE  pc' \in [Procs -> Steps] /\ req' \in [Procs -> Requests]
<1>1. [req[p] EXCEPT !.todo = rest, !.disp = None, !.unit = None] \in Requests
  BY LocalTypes, TargetTypes
<1>2. req' = [req EXCEPT ![p] = [req[p] EXCEPT !.todo = rest, !.disp = None, !.unit = None]]
  BY DEF NextAttempt
<1>3. QED
  BY <1>1, <1>2 DEF NextAttempt, TypeOK, Goto, Steps

\* Dropping a transaction's locks and uncommitted writes keeps the rows' types.
LEMMA RollbackTypes ==
  ASSUME NEW p \in Procs, TypeOK, Rollback(p)
  PROVE  RowTypes'
  BY DEF TypeOK, RowTypes, Rollback, ReleaseLocks, Freed, Clear, Withdraw

\* Ending a request keeps the handlers' types.
LEMMA EndTypes ==
  ASSUME NEW p \in Procs, TypeOK, End(p)
  PROVE  pc' \in [Procs -> Steps] /\ req' \in [Procs -> Requests]
  BY NoReqType DEF TypeOK, End, Goto, Steps

\* Failing, with or without a further candidate, keeps the types.
LEMMA FailTypes ==
  ASSUME NEW p \in Procs, TypeOK, NEW err, Fail(p, err)
  PROVE  TypeOK'
<1>1. RowTypes'
  BY RollbackTypes DEF Fail
<1>2. pc' \in [Procs -> Steps] /\ req' \in [Procs -> Requests]
  <2>1. CASE End(p)
    BY <2>1, EndTypes
  <2>2. CASE NextAttempt(p, req[p].todo)
    BY <2>2, LocalTypes, NextAttemptTypes DEF TypeOK
  <2>3. QED
    BY <2>1, <2>2 DEF Fail
<1>3. QED
  BY <1>1, <1>2 DEF RowTypes, TypeOK, Fail, Rollback

\* Every step of an arriving request keeps the types.
LEMMA ArriveTypes ==
  ASSUME TypeOK, RowsOK, NEW p \in Procs, Arrive(p), DispatchAssumption
  PROVE  TypeOK'
<1> USE DEF unitVars, incVars, dispVars
<1>1. ASSUME NEW u \in Units, NEW i \in Incidents, LockForReserve(p, u, i)
      PROVE  TypeOK'
  <2>1. PICK d \in Dispatches :
          req' = [req EXCEPT ![p] = [NoReq EXCEPT !.kind = "reserve", !.inc = i,
                                                  !.unit = u, !.new = d]]
    BY <1>1 DEF LockForReserve, UnusedIds
  <2>2. [NoReq EXCEPT !.kind = "reserve", !.inc = i, !.unit = u, !.new = d] \in Requests
    BY NoReqType DEF Requests, Kinds, maxOptimisticRetries
  <2>3. req' \in [Procs -> Requests]
    BY <2>1, <2>2 DEF TypeOK
  <2>4. QED
    BY <1>1, <2>3 DEF LockForReserve, Begin, Goto, TypeOK, Steps
<1>2. ASSUME NEW u \in Units, NEW i \in Incidents, ReadVersion(p, u, i)
      PROVE  TypeOK'
  <2>1. PICK d \in Dispatches :
          req' = [req EXCEPT ![p] = [NoReq EXCEPT !.kind = "optimistic", !.inc = i,
                                       !.unit = u, !.new = d, !.attempt = 1,
                                       !.version = unitVersion[u]]]
    BY <1>2 DEF ReadVersion, UnusedIds
  <2>2. unitVersion[u] \in Nat
    BY DEF TypeOK
  <2>3. [NoReq EXCEPT !.kind = "optimistic", !.inc = i, !.unit = u, !.new = d,
                      !.attempt = 1, !.version = unitVersion[u]] \in Requests
    <3>1. 1 \in 0 .. maxOptimisticRetries /\ "optimistic" \in Kinds
      BY DEF maxOptimisticRetries, Kinds
    <3>2. ASSUME NEW r \in Requests, NEW v \in Nat
          PROVE  [r EXCEPT !.kind = "optimistic", !.inc = i, !.unit = u, !.new = d,
                           !.attempt = 1, !.version = v] \in Requests
      BY <3>1 DEF Requests
    <3>3. QED
      BY <2>2, <3>2, NoReqType
  <2>4. req' \in [Procs -> Requests]
    BY <2>1, <2>3 DEF TypeOK
  <2>5. QED
    BY <1>2, <2>4 DEF ReadVersion, Begin, Goto, TypeOK, Steps
<1>3. ASSUME NEW d \in Dispatches, NEW to \in DispatchStatuses, AdvanceStatus(p, d, to)
      PROVE  TypeOK'
  <2>1. [NoReq EXCEPT !.kind = "advance", !.disp = d, !.to = to] \in Requests
    BY NoReqType DEF Requests, Kinds, maxOptimisticRetries
  <2>2. req' \in [Procs -> Requests]
    BY <1>3, <2>1 DEF AdvanceStatus, TypeOK
  <2>3. QED
    BY <1>3, <2>2 DEF AdvanceStatus, Begin, Goto, TypeOK, Steps
<1>4. ASSUME NEW kind \in {"reroute", "preempt"}, NEW i \in Incidents,
             NEW pairs \in SUBSET (Dispatches \X Units), StartReassign(p, kind, i, pairs)
      PROVE  TypeOK'
  <2>1. PICK d \in Dispatches :
          req' = [req EXCEPT ![p] = [NoReq EXCEPT !.kind = kind, !.inc = i,
                                                  !.new = d, !.todo = pairs]]
    BY <1>4 DEF StartReassign, UnusedIds
  <2>2. [NoReq EXCEPT !.kind = kind, !.inc = i, !.new = d, !.todo = pairs] \in Requests
    BY NoReqType DEF Requests, Kinds, maxOptimisticRetries
  <2>3. req' \in [Procs -> Requests]
    BY <2>1, <2>2 DEF TypeOK
  <2>4. QED
    BY <1>4, <2>3 DEF StartReassign, Goto, TypeOK, Steps
<1>5. ASSUME NEW d \in Dispatches, Reroute(p, d)
      PROVE  TypeOK'
  <2>1. PICK us \in SUBSET Units : StartReassign(p, "reroute", dInc[d], {d} \X us)
    BY <1>5 DEF Reroute
  <2>2. dInc[d] \in Incidents
    BY <1>5 DEF Reroute, RowsOK, RowOK, NewIdsOK, InFlight, IsActiveDispatch, ActiveStatuses
  <2>3. {d} \X us \in SUBSET (Dispatches \X Units)
    OBVIOUS
  <2>4. QED
    BY <1>4, <2>1, <2>2, <2>3
<1>6. ASSUME NEW i \in Incidents, Preempt(p, i)
      PROVE  TypeOK'
  <2>1. PICK ds \in SUBSET {d \in Dispatches : IsActiveDispatch(dStatus[d])} :
          StartReassign(p, "preempt", i, {<<d, dUnit[d]>> : d \in ds})
    BY <1>6 DEF Preempt
  <2>2. \A d \in ds : d \in Dispatches /\ dUnit[d] \in Units
    BY DEF RowsOK, RowOK, NewIdsOK, InFlight, IsActiveDispatch, ActiveStatuses
  <2>3. {<<d, dUnit[d]>> : d \in ds} \in SUBSET (Dispatches \X Units)
    BY <2>2
  <2>4. QED
    BY <1>4, <2>1, <2>3
<1>7. ASSUME NEW i \in Incidents, NEW to \in IncidentStatuses, CheckTransition(p, i, to)
      PROVE  TypeOK'
  <2>1. [NoReq EXCEPT !.kind = "patch", !.inc = i, !.to = to] \in Requests
    BY NoReqType DEF Requests, Kinds, maxOptimisticRetries
  <2>2. req' \in [Procs -> Requests]
    BY <1>7, <2>1 DEF CheckTransition, TypeOK
  <2>3. QED
    BY <1>7, <2>2 DEF CheckTransition, Begin, Goto, TypeOK, Steps, DispatchAssumption
<1>8. QED
  BY <1>1, <1>2, <1>3, <1>5, <1>6, <1>7 DEF Arrive

\* Every further statement of a request keeps the types.
LEMMA StepTypes ==
  ASSUME TypeOK, LocalsOK, NEW p \in Procs, Step(p)
  PROVE  TypeOK'
<1> USE DEF unitVars, incVars, dispVars
<1>1. CASE RereadVersion(p)
  <2>1. CASE End(p)
    BY <1>1, <2>1, EndTypes DEF RereadVersion, TypeOK
  <2>2. CASE ~End(p)
    <3>1. req[p].unit \in Units /\ req[p].attempt + 1 \in 0 .. maxOptimisticRetries
      BY <1>1, LocalTypes DEF RereadVersion, LocalsOK, LocalsOf, Requests, maxOptimisticRetries
    <3>2. unitVersion[req[p].unit] \in Nat
      BY <3>1 DEF TypeOK
    <3>3. ASSUME NEW r \in Requests, NEW a \in 0 .. maxOptimisticRetries, NEW v \in Nat
          PROVE  [r EXCEPT !.attempt = a, !.version = v] \in Requests
      BY DEF Requests
    <3>4. [req[p] EXCEPT !.attempt = req[p].attempt + 1,
                         !.version = unitVersion[req[p].unit]] \in Requests
      BY <3>1, <3>2, <3>3, LocalTypes
    <3>5. req' = [req EXCEPT ![p] = [req[p] EXCEPT !.attempt = req[p].attempt + 1,
                                                   !.version = unitVersion[req[p].unit]]]
      BY <1>1, <2>2 DEF RereadVersion
    <3>6. req' \in [Procs -> Requests]
      BY <3>4, <3>5 DEF TypeOK
    <3>7. QED
      BY <1>1, <2>2, <3>6 DEF RereadVersion, TypeOK, Goto, Steps
  <2>3. QED
    BY <2>1, <2>2
<1>2. CASE IncidentClosed(p)
  BY <1>2, FailTypes DEF IncidentClosed
<1>3. CASE LostCAS(p)
  <2>1. CASE End(p)
    BY <1>3, <2>1, EndTypes DEF LostCAS, TypeOK
  <2>2. CASE ~End(p)
    BY <1>3, <2>2 DEF LostCAS, TypeOK, Goto, Steps
  <2>3. QED
    BY <2>1, <2>2
<1>4. CASE InsertConflict(p) \/ UnitTaken(p)
  BY <1>4, FailTypes DEF InsertConflict, UnitTaken
<1>5. CASE LockOld(p)
  <2>1. PICK a \in req[p].todo :
          /\ dLock' = [dLock EXCEPT ![a[1]] = p]
          /\ req' = [req EXCEPT ![p] = [req[p] EXCEPT !.disp = a[1], !.unit = a[2],
                                                      !.todo = req[p].todo \ {a}]]
    BY <1>5 DEF LockOld
  <2>2. a[1] \in Dispatches /\ a[2] \in Units
    BY LocalTypes
  <2>3. req[p].todo \ {a} \in SUBSET (Dispatches \X Units)
    BY LocalTypes
  <2>4. [req[p] EXCEPT !.disp = a[1], !.unit = a[2], !.todo = req[p].todo \ {a}] \in Requests
    BY <2>2, <2>3, LocalTypes, TargetTypes
  <2>5. req' \in [Procs -> Requests]
    BY <2>1, <2>4 DEF TypeOK
  <2>6. dLock' \in [Dispatches -> Procs \cup {None}]
    BY <2>1 DEF TypeOK
  <2>7. QED
    BY <1>5, <2>5, <2>6 DEF LockOld, TypeOK, Goto, Steps
<1>6. CASE OldEnded(p)
  <2>1. pc' \in [Procs -> Steps] /\ req' \in [Procs -> Requests]
    <3>1. CASE End(p)
      BY <3>1, EndTypes
    <3>2. ASSUME NEW a \in req[p].todo, NextAttempt(p, req[p].todo \ {a})
          PROVE  pc' \in [Procs -> Steps] /\ req' \in [Procs -> Requests]
      <4>1. req[p].todo \ {a} \in SUBSET (Dispatches \X Units)
        BY LocalTypes
      <4>2. QED
        BY <3>2, <4>1, NextAttemptTypes
    <3>3. QED
      BY <1>6, <3>1, <3>2 DEF OldEnded
  <2>2. QED
    BY <1>6, <2>1 DEF OldEnded, TypeOK
<1>7. CASE UpdateIncident(p)
  <2>1. req[p].to \in IncidentStatuses
    BY <1>7 DEF UpdateIncident, LocalsOK, LocalsOf
  <2>2. QED
    BY <1>7, <2>1, EndTypes DEF UpdateIncident, TypeOK
<1>8. CASE Commit(p)
  <2>1. EventsOf(p) \subseteq [type : EventTypes, disp : Dispatches,
                               replaced : Dispatches \cup {None}]
    BY LocalTypes DEF EventsOf, EventTypes, Reassigning, LocalsOK, LocalsOf, Inserting, Requests
  <2>2. RowTypes'
    BY <1>8 DEF Commit, TypeOK, RowTypes, Written, ReleaseLocks, Freed, Clear
  <2>3. QED
    BY <1>8, <2>1, <2>2, EndTypes DEF Commit, TypeOK, RowTypes
<1>9. CASE MarkReserved(p)
  BY <1>9, LocalTypes DEF MarkReserved, TypeOK, Goto, Steps, Requests,
    UnitStatuses, IncidentStatuses, DispatchStatuses, ActiveStatuses
<1>10. CASE IncidentOpen(p)
  BY <1>10, LocalTypes DEF IncidentOpen, TypeOK, Goto, Steps, Requests,
    UnitStatuses, IncidentStatuses, DispatchStatuses, ActiveStatuses
<1>11. CASE MarkReservedCAS(p)
  BY <1>11, LocalTypes DEF MarkReservedCAS, TypeOK, Goto, Steps, Requests,
    UnitStatuses, IncidentStatuses, DispatchStatuses, ActiveStatuses
<1>12. CASE InsertDispatch(p)
  BY <1>12, LocalTypes DEF InsertDispatch, TypeOK, Goto, Steps, Requests,
    UnitStatuses, IncidentStatuses, DispatchStatuses, ActiveStatuses
<1>13. CASE MarkDispatched(p)
  <2>1. incLock' \in [Incidents -> Procs \cup {None}]
        /\ incNew' \in [Incidents -> IncidentStatuses \cup {Clean}]
    BY <1>13 DEF MarkDispatched, GuardedUpdate, TypeOK, IncidentStatuses
  <2>2. pc' \in [Procs -> Steps]
    BY <1>13 DEF MarkDispatched, TypeOK, Goto, Steps
  <2>3. QED
    BY <1>13, <2>1, <2>2 DEF MarkDispatched, TypeOK
<1>14. CASE CountActive(p)
  BY <1>14, LocalTypes DEF CountActive, TypeOK, Goto, Steps, Requests,
    UnitStatuses, IncidentStatuses, DispatchStatuses, ActiveStatuses
<1>15. CASE SettleIncident(p)
  <2>1. incLock' \in [Incidents -> Procs \cup {None}]
        /\ incNew' \in [Incidents -> IncidentStatuses \cup {Clean}]
    BY <1>15 DEF SettleIncident, GuardedUpdate, TypeOK, IncidentStatuses
  <2>2. pc' \in [Procs -> Steps]
    BY <1>15 DEF SettleIncident, TypeOK, Goto, Steps
  <2>3. QED
    BY <1>15, <2>1, <2>2 DEF SettleIncident, TypeOK
<1>16. CASE SyncUnit(p)
  BY <1>16, LocalTypes DEF SyncUnit, UnitStatusForDispatch, IsActiveDispatch, ActiveStatuses, TypeOK, Goto, Steps, Requests,
    UnitStatuses, IncidentStatuses, DispatchStatuses, ActiveStatuses
<1>17. CASE LockFirst(p)
  BY <1>17, LocalTypes DEF LockFirst, TypeOK, Goto, Steps, Requests,
    UnitStatuses, IncidentStatuses, DispatchStatuses, ActiveStatuses
<1>18. CASE LockSecond(p)
  BY <1>18, LocalTypes DEF LockSecond, TypeOK, Goto, Steps, Requests,
    UnitStatuses, IncidentStatuses, DispatchStatuses, ActiveStatuses
<1>19. CASE CancelOld(p)
  BY <1>19, LocalTypes DEF CancelOld, MoveUnits, TypeOK, Goto, Steps, Requests,
    UnitStatuses, IncidentStatuses, DispatchStatuses, ActiveStatuses
<1>20. QED
  BY <1>1, <1>2, <1>3, <1>4, <1>5, <1>6, <1>7, <1>8, <1>9, <1>10, <1>11, <1>12, <1>13, <1>14, <1>15, <1>16, <1>17, <1>18, <1>19 DEF Step

\* Every step keeps the types.
LEMMA NextTypes ==
  ASSUME TypeOK, LocalsOK, RowsOK, DispatchAssumption, [Next]_vars
  PROVE  TypeOK'
<1> USE DEF unitVars, incVars, dispVars
<1>1. ASSUME NEW p \in Procs, Rollback(p), End(p)
      PROVE  TypeOK'
  BY <1>1, RollbackTypes, EndTypes DEF TypeOK, RowTypes, Rollback
<1>2. ASSUME NEW u \in Units, NEW status \in UnitStatuses, OverrideUnit(u, status)
      PROVE  TypeOK'
  BY <1>2 DEF OverrideUnit, TypeOK, DispatchAssumption
<1>3. CASE UNCHANGED vars
  BY <1>3 DEF vars, TypeOK
<1>4. QED
  BY <1>1, <1>2, <1>3, ArriveTypes, StepTypes DEF Next, DeadlockVictim, Crash

-----------------------------------------------------------------------------
(* What a handler's step leaves alone: the other handlers, and the dispatch *)
(* rows the others have locked.                                             *)

RowUnchanged(d) ==
  /\ dStatus'[d] = dStatus[d] /\ dUnit'[d] = dUnit[d] /\ dInc'[d] = dInc[d]
  /\ dLock'[d] = dLock[d] /\ dNew'[d] = dNew[d]

Frame(p) ==
  /\ \A q \in Procs : q # p => pc'[q] = pc[q] /\ req'[q] = req[q]
  /\ \A d \in Dispatches : dLock[d] \notin {None, p} => RowUnchanged(d)

\* An arriving request touches no other handler and no row locked by another.
LEMMA ArriveFrame ==
  ASSUME TypeOK, NEW p \in Procs, Arrive(p)
  PROVE  Frame(p)
<1> USE DEF unitVars, incVars, dispVars, TypeOK, Frame, RowUnchanged, Goto
<1>1. ASSUME NEW u \in Units, NEW i \in Incidents, LockForReserve(p, u, i) \/ ReadVersion(p, u, i)
      PROVE  Frame(p)
  BY <1>1 DEF LockForReserve, ReadVersion
<1>2. ASSUME NEW d \in Dispatches, NEW to \in DispatchStatuses, AdvanceStatus(p, d, to)
      PROVE  Frame(p)
  BY <1>2 DEF AdvanceStatus
<1>3. ASSUME NEW kind, NEW i, NEW pairs, StartReassign(p, kind, i, pairs)
      PROVE  Frame(p)
  BY <1>3 DEF StartReassign
<1>4. ASSUME NEW i \in Incidents, NEW to \in IncidentStatuses, CheckTransition(p, i, to)
      PROVE  Frame(p)
  BY <1>4 DEF CheckTransition
<1>5. QED
  BY <1>1, <1>2, <1>3, <1>4 DEF Arrive, Reroute, Preempt

\* Neither does a rollback, ending or going on to the next candidate.
LEMMA RollbackFrame ==
  ASSUME TypeOK, NEW p \in Procs, Rollback(p),
         End(p) \/ \E rest : NextAttempt(p, rest)
  PROVE  Frame(p)
  BY DEF TypeOK, Frame, RowUnchanged, Goto, End, NextAttempt, Rollback, ReleaseLocks,
         Freed, Clear, Withdraw

\* The id a handler is about to insert is nobody's row.
LEMMA NewRowFree ==
  ASSUME TypeOK, LocalsOK, RowsOK, DispatchAssumption, NEW p \in Procs, pc[p] = "insert"
  PROVE  /\ req[p].new \in Dispatches
         /\ dStatus[req[p].new] = "none"
         /\ dLock[req[p].new] = None
         /\ ~Pending(req[p].new)
<1>1. req[p].new \in Dispatches /\ req[p].new # None
  BY DEF LocalsOK, LocalsOf, DispatchAssumption
<1>2. dStatus[req[p].new] = "none"
  BY <1>1 DEF RowsOK, RowOK, NewIdsOK, InFlight
<1>3. ~Pending(req[p].new)
  <2>1. SUFFICES ASSUME Pending(req[p].new) PROVE FALSE
    OBVIOUS
  <2>2. PICK q \in Procs : /\ req[q].new = req[p].new
                          /\ pc[q] \in {"mark", "count", "settle", "commit"}
    BY <1>1, <2>1 DEF RowsOK, RowOK, NewIdsOK, InFlight, Pending
  <2>3. q # p
    BY <2>2
  <2>4. QED
    BY <1>1, <2>2, <2>3 DEF RowsOK, RowOK, NewIdsOK, InFlight
<1>4. QED
  BY <1>1, <1>2, <1>3 DEF RowsOK, RowOK, NewIdsOK, InFlight, TypeOK, Pending

\* Neither does any further statement of a request.
LEMMA StepFrame ==
  ASSUME TypeOK, LocalsOK, RowsOK, DispatchAssumption, NEW p \in Procs, Step(p)
  PROVE  Frame(p)
<1> USE DEF unitVars, incVars, dispVars, TypeOK, Frame, RowUnchanged, Goto
<1>1. CASE RereadVersion(p) \/ LostCAS(p) \/ UpdateIncident(p)
  BY <1>1 DEF RereadVersion, LostCAS, UpdateIncident, End
<1>2. CASE OldEnded(p)
  BY <1>2 DEF OldEnded, End, NextAttempt
<1>3. CASE IncidentClosed(p) \/ InsertConflict(p) \/ UnitTaken(p)
  BY <1>3, RollbackFrame DEF IncidentClosed, InsertConflict, UnitTaken, Fail
<1>4. CASE MarkReserved(p) \/ IncidentOpen(p) \/ MarkReservedCAS(p) \/ MarkDispatched(p)
           \/ CountActive(p) \/ SettleIncident(p) \/ SyncUnit(p) \/ LockFirst(p) \/ LockSecond(p)
  BY <1>4 DEF MarkReserved, IncidentOpen, MarkReservedCAS, MarkDispatched, CountActive,
              SettleIncident, SyncUnit, LockFirst, LockSecond
<1>5. CASE InsertDispatch(p)
  BY <1>5, NewRowFree DEF InsertDispatch
<1>6. CASE LockOld(p)
  BY <1>6 DEF LockOld
<1>7. CASE CancelOld(p)
  <2>1. dLock[req[p].disp] = p
    BY <1>7 DEF CancelOld, LocalsOK, LocalsOf
  <2>2. QED
    BY <1>7, <2>1 DEF CancelOld
<1>8. CASE Commit(p)
  BY <1>8 DEF Commit, Written, ReleaseLocks, Freed, Clear, End
<1>9. QED
  BY <1>1, <1>2, <1>3, <1>4, <1>5, <1>6, <1>7, <1>8 DEF Step

-----------------------------------------------------------------------------
(* The locals.                                                              *)

\* What p does leaves the meaning of the other handlers' locals alone.
LEMMA OthersLocals ==
  ASSUME LocalsOK, DispatchAssumption, NEW p \in Procs, Frame(p), NEW q \in Procs, q # p
  PROVE  LocalsOf(q)'
<1>1. pc'[q] = pc[q] /\ req'[q] = req[q] /\ LocalsOf(q)
  BY DEF Frame, LocalsOK
<1>2. ASSUME req[q].disp \in Dispatches, dLock[req[q].disp] = q
      PROVE  RowUnchanged(req[q].disp)
  BY <1>2 DEF Frame, DispatchAssumption
<1>3. QED
  BY <1>1, <1>2 DEF LocalsOf, Reassigning, RowUnchanged

\* Ending leaves no locals.
LEMMA EndLocals ==
  ASSUME TypeOK, NEW p \in Procs, End(p)
  PROVE  LocalsOf(p)'
<1>1. pc'[p] = "idle" /\ req'[p] = NoReq
  BY DEF End, Goto, TypeOK
<1>2. QED
  BY <1>1 DEF LocalsOf, NoReq, Inserting, Reassigning

\* Only a reassignment goes on to a next candidate, with the same insert.
LEMMA NextAttemptLocals ==
  ASSUME TypeOK, LocalsOK, NEW p \in Procs, Reassigning(p), NEW rest, NextAttempt(p, rest)
  PROVE  LocalsOf(p)' /\ req'[p].new = req[p].new
<1>1. /\ pc'[p] = "attempt"
      /\ req'[p] = [req[p] EXCEPT !.todo = rest, !.disp = None, !.unit = None]
  BY DEF NextAttempt, Goto, TypeOK
<1>2. req'[p].kind = req[p].kind /\ req'[p].new = req[p].new /\ req'[p].inc = req[p].inc
  BY <1>1, LocalTypes DEF Requests
<1>3. LocalsOf(p)
  BY DEF LocalsOK
<1>4. QED
  BY <1>1, <1>2, <1>3 DEF LocalsOf, Inserting, Reassigning

\* The id p is to insert is kept, given up, or newly drawn.
KeepsNew(p) == req'[p].new \in {None, req[p].new} \cup UnusedIds

\* An arriving request's locals are in order.
LEMMA ArriveLocals ==
  ASSUME TypeOK, RowsOK, NEW p \in Procs, Arrive(p)
  PROVE  LocalsOf(p)' /\ KeepsNew(p)
<1> USE DEF LocalsOf, KeepsNew, Inserting, Reassigning, Goto
<1>1. ASSUME NEW u \in Units, NEW i \in Incidents, LockForReserve(p, u, i)
      PROVE  LocalsOf(p)' /\ KeepsNew(p)
  <2>1. PICK d \in UnusedIds :
          req'[p] = [NoReq EXCEPT !.kind = "reserve", !.inc = i, !.unit = u, !.new = d]
    BY <1>1 DEF LockForReserve, TypeOK
  <2>2. req'[p].kind = "reserve" /\ req'[p].inc = i /\ req'[p].unit = u /\ req'[p].new = d
    BY <2>1 DEF NoReq
  <2>3. pc'[p] = "incident" /\ d \in Dispatches
    BY <1>1 DEF LockForReserve, TypeOK, UnusedIds
  <2>4. QED
    BY <2>2, <2>3
<1>2. ASSUME NEW u \in Units, NEW i \in Incidents, ReadVersion(p, u, i)
      PROVE  LocalsOf(p)' /\ KeepsNew(p)
  <2>1. PICK d \in UnusedIds :
          req'[p] = [NoReq EXCEPT !.kind = "optimistic", !.inc = i, !.unit = u, !.new = d,
                                  !.attempt = 1, !.version = unitVersion[u]]
    BY <1>2 DEF ReadVersion, TypeOK
  <2>2. req'[p].kind = "optimistic" /\ req'[p].inc = i /\ req'[p].unit = u /\ req'[p].new = d
    BY <2>1 DEF NoReq
  <2>3. pc'[p] = "incident" /\ d \in Dispatches
    BY <1>2 DEF ReadVersion, TypeOK, UnusedIds
  <2>4. QED
    BY <2>2, <2>3
<1>3. ASSUME NEW d \in Dispatches, NEW to \in DispatchStatuses, AdvanceStatus(p, d, to)
      PROVE  LocalsOf(p)' /\ KeepsNew(p)
  <2>1. pc'[p] = "sync" /\ req'[p] = [NoReq EXCEPT !.kind = "advance", !.disp = d, !.to = to]
    BY <1>3 DEF AdvanceStatus, TypeOK
  <2>2. req'[p].kind = "advance" /\ req'[p].disp = d /\ req'[p].new = None
    BY <2>1 DEF NoReq
  <2>3. QED
    BY <2>1, <2>2
<1>4. ASSUME NEW kind \in {"reroute", "preempt"}, NEW i \in Incidents, NEW pairs,
             StartReassign(p, kind, i, pairs)
      PROVE  LocalsOf(p)' /\ KeepsNew(p)
  <2>1. PICK d \in UnusedIds :
          req'[p] = [NoReq EXCEPT !.kind = kind, !.inc = i, !.new = d, !.todo = pairs]
    BY <1>4 DEF StartReassign, TypeOK
  <2>2. req'[p].kind = kind /\ req'[p].inc = i /\ req'[p].new = d
    BY <2>1 DEF NoReq
  <2>3. pc'[p] = "attempt" /\ d \in Dispatches
    BY <1>4 DEF StartReassign, TypeOK, UnusedIds
  <2>4. QED
    BY <2>2, <2>3
<1>5. ASSUME NEW d \in Dispatches, Reroute(p, d)
      PROVE  LocalsOf(p)' /\ KeepsNew(p)
  <2>1. dInc[d] \in Incidents
    BY <1>5 DEF Reroute, RowsOK, RowOK, NewIdsOK, InFlight, IsActiveDispatch, ActiveStatuses
  <2>2. PICK pairs : StartReassign(p, "reroute", dInc[d], pairs)
    BY <1>5 DEF Reroute
  <2>3. QED
    BY <1>4, <2>1, <2>2
<1>6. ASSUME NEW i \in Incidents, Preempt(p, i)
      PROVE  LocalsOf(p)' /\ KeepsNew(p)
  <2>1. PICK pairs : StartReassign(p, "preempt", i, pairs)
    BY <1>6 DEF Preempt
  <2>2. QED
    BY <1>4, <2>1
<1>7. ASSUME NEW i \in Incidents, NEW to \in IncidentStatuses, CheckTransition(p, i, to)
      PROVE  LocalsOf(p)' /\ KeepsNew(p)
  <2>1. pc'[p] = "patch" /\ req'[p] = [NoReq EXCEPT !.kind = "patch", !.inc = i, !.to = to]
    BY <1>7 DEF CheckTransition, TypeOK
  <2>2. req'[p].kind = "patch" /\ req'[p].to = to /\ req'[p].new = None
    BY <2>1 DEF NoReq
  <2>3. QED
    BY <2>1, <2>2
<1>8. QED
  BY <1>1, <1>2, <1>3, <1>5, <1>6, <1>7 DEF Arrive

\* A failed transaction leaves the locals in order.
LEMMA FailLocals ==
  ASSUME TypeOK, LocalsOK, NEW p \in Procs, NEW err, Fail(p, err)
  PROVE  LocalsOf(p)' /\ KeepsNew(p)
<1>1. CASE End(p)
  <2>1. req'[p].new = None
    BY <1>1 DEF End, TypeOK, NoReq
  <2>2. QED
    BY <1>1, <2>1, EndLocals DEF KeepsNew
<1>2. CASE ~End(p)
  <2>1. Reassigning(p) /\ NextAttempt(p, req[p].todo)
    BY <1>2 DEF Fail, TriesNext, Reassigning
  <2>2. QED
    BY <2>1, NextAttemptLocals DEF KeepsNew
<1>3. QED
  BY <1>1, <1>2

\* Every further statement of a request leaves its locals in order.
LEMMA StepLocals ==
  ASSUME TypeOK, LocalsOK, RowsOK, DispatchAssumption, NEW p \in Procs, Step(p)
  PROVE  LocalsOf(p)' /\ KeepsNew(p)
<1> USE DEF Goto
<1>0. LocalsOf(p)
  BY DEF LocalsOK
<1>a. ASSUME End(p) PROVE LocalsOf(p)' /\ KeepsNew(p)
  <2>1. req'[p].new = None
    BY <1>a DEF End, TypeOK, NoReq
  <2>2. QED
    BY <1>a, <2>1, EndLocals DEF KeepsNew
<1>1. CASE RereadVersion(p)
  <2>1. CASE ~End(p)
    <3>1. /\ pc'[p] = "incident"
          /\ req'[p] = [req[p] EXCEPT !.attempt = req[p].attempt + 1,
                                      !.version = unitVersion[req[p].unit]]
      BY <1>1, <2>1 DEF RereadVersion, TypeOK
    <3>2. /\ req'[p].kind = req[p].kind /\ req'[p].new = req[p].new
          /\ req'[p].inc = req[p].inc /\ req'[p].unit = req[p].unit
      BY <3>1, LocalTypes DEF Requests
    <3>3. pc[p] = "read"
      BY <1>1 DEF RereadVersion
    <3>4. QED
      BY <1>0, <3>1, <3>2, <3>3 DEF LocalsOf, KeepsNew, Inserting, Reassigning
  <2>2. QED
    BY <1>a, <2>1
<1>2. CASE IncidentClosed(p) \/ InsertConflict(p) \/ UnitTaken(p)
  BY <1>2, FailLocals DEF IncidentClosed, InsertConflict, UnitTaken
<1>3. CASE LostCAS(p)
  <2>1. CASE ~End(p)
    <3>1. pc'[p] = "read" /\ req'[p] = req[p] /\ pc[p] = "cas"
          /\ req[p].attempt < maxOptimisticRetries
      BY <1>3, <2>1 DEF LostCAS, TypeOK
    <3>2. QED
      BY <1>0, <3>1 DEF LocalsOf, KeepsNew, Reassigning
  <2>2. QED
    BY <1>a, <2>1
<1>4. CASE OldEnded(p)
  <2>1. CASE ~End(p)
    <3>1. Reassigning(p) /\ \E rest : NextAttempt(p, rest)
      BY <1>4, <2>1 DEF OldEnded, TriesNext, Reassigning
    <3>2. QED
      BY <3>1, NextAttemptLocals DEF KeepsNew
  <2>2. QED
    BY <1>a, <2>1
<1>5. CASE UpdateIncident(p) \/ Commit(p)
  BY <1>5, <1>a DEF UpdateIncident, Commit
<1>6. CASE LockOld(p)
  <2>1. PICK a \in req[p].todo :
          /\ StillActive(a[1])
          /\ dLock' = [dLock EXCEPT ![a[1]] = p]
          /\ req' = [req EXCEPT ![p] = [req[p] EXCEPT !.disp = a[1], !.unit = a[2],
                                                      !.todo = req[p].todo \ {a}]]
    BY <1>6 DEF LockOld
  <2>2. a[1] \in Dispatches /\ a[2] \in Units
    BY LocalTypes
  <2>3. req'[p] = [req[p] EXCEPT !.disp = a[1], !.unit = a[2], !.todo = req[p].todo \ {a}]
    BY <2>1 DEF TypeOK
  <2>4. /\ req'[p].kind = req[p].kind /\ req'[p].new = req[p].new
        /\ req'[p].inc = req[p].inc /\ req'[p].unit = a[2] /\ req'[p].disp = a[1]
    BY <2>3, LocalTypes DEF Requests
  <2>5. dLock'[a[1]] = p /\ IsActiveDispatch(dStatus'[a[1]])
    BY <1>6, <2>1, <2>2 DEF LockOld, StillActive, TypeOK
  <2>6. pc[p] = "attempt" /\ pc'[p] = "first"
    BY <1>6 DEF LockOld, TypeOK
  <2>7. QED
    BY <1>0, <2>2, <2>4, <2>5, <2>6 DEF LocalsOf, KeepsNew, Inserting, Reassigning
<1>7. CASE MarkReserved(p) \/ IncidentOpen(p) \/ MarkReservedCAS(p) \/ LockFirst(p)
           \/ LockSecond(p)
  <2>1. req' = req /\ dLock' = dLock /\ dStatus' = dStatus
    BY <1>7 DEF MarkReserved, IncidentOpen, MarkReservedCAS, LockFirst, LockSecond, dispVars
  <2>2. \/ pc[p] = "incident" /\ pc'[p] = "insert"
        \/ pc[p] = "incident" /\ req[p].kind = "optimistic" /\ pc'[p] = "cas"
        \/ pc[p] = "cas" /\ pc'[p] = "insert"
        \/ pc[p] \in {"first", "second"} /\ pc'[p] \in {"second", "incident"}
    BY <1>7 DEF MarkReserved, IncidentOpen, MarkReservedCAS, LockFirst, LockSecond, TypeOK
  <2>3. QED
    BY <1>0, <2>1, <2>2 DEF LocalsOf, KeepsNew, Reassigning, Inserting
<1>8. CASE CancelOld(p)
  <2>1. req' = req /\ pc[p] = "incident" /\ pc'[p] = "insert"
    BY <1>8 DEF CancelOld, TypeOK
  <2>2. QED
    BY <1>0, <2>1 DEF LocalsOf, KeepsNew, Reassigning, Inserting
<1>9. CASE InsertDispatch(p) \/ MarkDispatched(p) \/ CountActive(p) \/ SettleIncident(p)
           \/ SyncUnit(p)
  <2>1. req' = req /\ pc'[p] \in {"mark", "count", "settle", "commit"}
    BY <1>9 DEF InsertDispatch, MarkDispatched, CountActive, SettleIncident, SyncUnit, TypeOK
  <2>2. QED
    BY <1>0, <2>1 DEF LocalsOf, KeepsNew, Reassigning
<1>10. QED
  BY <1>1, <1>2, <1>3, <1>4, <1>5, <1>6, <1>7, <1>8, <1>9 DEF Step

-----------------------------------------------------------------------------
(* The rows.                                                                *)

\* Ids to insert stay unused and distinct while no row changes its committed status.
LEMMA KeptIds ==
  ASSUME TypeOK, RowsOK, NEW p \in Procs, Frame(p), KeepsNew(p), dStatus' = dStatus
  PROVE  NewIdsOK'
<1>1. \A q \in Procs : q # p => req'[q] = req[q]
  BY DEF Frame
<1>2. NewIdsOK
  BY DEF RowsOK
<1>3. CASE req'[p].new \in {None, req[p].new}
  BY <1>1, <1>2, <1>3 DEF NewIdsOK
<1>4. CASE req'[p].new \in UnusedIds
  BY <1>1, <1>2, <1>4 DEF NewIdsOK, UnusedIds
<1>5. QED
  BY <1>3, <1>4 DEF KeepsNew

\* A row locked by another handler stays as it should be.
LEMMA OthersRows ==
  ASSUME RowsOK, DispatchAssumption, NEW p \in Procs, Frame(p),
         NEW d \in Dispatches, dLock[d] \in Procs \ {p}
  PROVE  RowOK(d)'
<1>1. RowUnchanged(d) /\ RowOK(d)
  BY DEF RowsOK, Frame, DispatchAssumption
<1>2. pc'[dLock[d]] = pc[dLock[d]] /\ req'[dLock[d]] = req[dLock[d]]
  BY DEF Frame
<1>3. QED
  BY <1>1, <1>2 DEF RowOK, RowUnchanged, Pending

\* A step that writes no dispatch row keeps the rows, the index and the booking.
LEMMA QuietRows ==
  ASSUME TypeOK, RowsOK, IndexOK, NoDoubleBooking, DispatchAssumption,
         NEW p \in Procs, Frame(p), KeepsNew(p), UNCHANGED dispVars,
         pc[p] \in InFlight => pc'[p] \in InFlight /\ req'[p].new = req[p].new
  PROVE  RowsOK' /\ IndexOK' /\ NoDoubleBooking'
<1> USE DEF dispVars
<1>1. NewIdsOK'
  BY KeptIds
<1>2. ASSUME NEW d \in Dispatches
      PROVE  RowOK(d)'
  <2>1. RowOK(d)
    BY DEF RowsOK
  <2>2. CASE dLock[d] = p
    BY <2>1, <2>2 DEF RowOK, Pending
  <2>3. CASE dLock[d] = None
    BY <2>1, <2>3 DEF RowOK, Pending, DispatchAssumption
  <2>4. QED
    BY <2>2, <2>3, OthersRows DEF TypeOK
<1>3. RowsOK'
  BY <1>1, <1>2 DEF RowsOK
<1>4. QED
  BY <1>3 DEF IndexOK, Pending, NoDoubleBooking, Holds

\* A rollback withdraws the handler's rows and nothing else.
LEMMA RollbackRows ==
  ASSUME TypeOK, RowsOK, IndexOK, NoDoubleBooking, DispatchAssumption,
         NEW p \in Procs, Frame(p), KeepsNew(p), Rollback(p)
  PROVE  RowsOK' /\ IndexOK' /\ NoDoubleBooking'
<1>1. NewIdsOK'
  BY KeptIds DEF Rollback
<1>2. ASSUME NEW d \in Dispatches, dLock[d] \in {None, p}
      PROVE  /\ dStatus'[d] = dStatus[d] /\ dNew'[d] = Clean /\ dLock'[d] = None
             /\ dStatus[d] # "none" => dUnit'[d] = dUnit[d] /\ dInc'[d] = dInc[d]
  <2>1. dLock[d] = None => dNew[d] = Clean
    BY DEF RowsOK, RowOK, DispatchAssumption
  <2>2. QED
    BY <1>2, <2>1 DEF Rollback, ReleaseLocks, Freed, Clear, Withdraw, TypeOK, DispatchAssumption
<1>3. ASSUME NEW d \in Dispatches
      PROVE  RowOK(d)'
  <2>1. CASE dLock[d] \in {None, p}
    <3>1. RowOK(d)
      BY DEF RowsOK
    <3>2. QED
      BY <1>2, <2>1, <3>1 DEF RowOK, Pending, DispatchAssumption
  <2>2. QED
    BY <2>1, OthersRows DEF TypeOK
<1>4. RowsOK'
  BY <1>1, <1>3 DEF RowsOK
<1>5. \A d \in Dispatches : Pending(d)' => dLock[d] \notin {None, p} /\ Pending(d)
  BY <1>2 DEF Pending, Frame, RowUnchanged
<1>6. \A d \in Dispatches : dStatus[d] # "none" \/ Pending(d)' => dUnit'[d] = dUnit[d]
  BY <1>2, <1>5 DEF Frame, RowUnchanged
<1>7. dStatus' = dStatus
  BY DEF Rollback
<1>8. NoDoubleBooking'
  BY <1>6, <1>7 DEF NoDoubleBooking, Holds, IsActiveDispatch, ActiveStatuses
<1>9. ASSUME NEW d \in Dispatches, NEW e \in Dispatches, Pending(d)', Pending(e)',
             dUnit'[d] = dUnit'[e]
      PROVE  d = e
  BY <1>5, <1>6, <1>9 DEF IndexOK
<1>10. ASSUME NEW d \in Dispatches, NEW e \in Dispatches, Pending(d)',
              IsActiveDispatch(dStatus'[e]), dUnit'[d] = dUnit'[e]
       PROVE  dLock'[e] = dLock'[d] /\ dNew'[e] \in {"completed", "cancelled"}
  <2>1. /\ dLock[e] = dLock[d]
        /\ dNew[e] \in {"completed", "cancelled"}
    BY <1>5, <1>6, <1>7, <1>10 DEF IndexOK, IsActiveDispatch, ActiveStatuses
  <2>2. QED
    BY <1>5, <1>10, <2>1 DEF Frame, RowUnchanged
<1>11. QED
  BY <1>4, <1>8, <1>9, <1>10 DEF IndexOK

\* Locking or ending a committed row: the other rows, the committed columns and
\* the set of pending rows stay, so the index and the booking do.
LEMMA OneRow ==
  ASSUME TypeOK, RowsOK, IndexOK, NoDoubleBooking, DispatchAssumption,
         NEW p \in Procs, Frame(p), KeepsNew(p), pc[p] \notin InFlight,
         UNCHANGED <<dStatus, dUnit, dInc>>,
         NEW d \in Dispatches, dStatus[d] # "none", dLock[d] \in {None, p},
         dLock'[d] = p,
         dNew'[d] # Clean => CanTransitionDispatch(dStatus[d], dNew'[d]),
         dLock[d] = None \/ dNew'[d] = "cancelled",
         \A e \in Dispatches : e # d => RowUnchanged(e)
  PROVE  RowsOK' /\ IndexOK' /\ NoDoubleBooking'
<1>1. NewIdsOK'
  BY KeptIds
<1>2. ASSUME NEW e \in Dispatches
      PROVE  RowOK(e)'
  <2>1. RowOK(e)
    BY DEF RowsOK
  <2>2. CASE e = d
    BY <2>1, <2>2 DEF RowOK, Pending
  <2>3. CASE e # d /\ dLock[e] \in {None, p}
    BY <2>1, <2>3 DEF RowOK, Pending, RowUnchanged, DispatchAssumption
  <2>4. QED
    BY <2>2, <2>3, OthersRows DEF TypeOK
<1>3. RowsOK'
  BY <1>1, <1>2 DEF RowsOK
<1>4. \A e \in Dispatches : Pending(e)' => Pending(e) /\ e # d
  BY DEF Pending, RowUnchanged
<1>5. NoDoubleBooking'
  BY DEF NoDoubleBooking, Holds
<1>6. ASSUME NEW e \in Dispatches, NEW f \in Dispatches, Pending(e)',
             IsActiveDispatch(dStatus'[f]), dUnit'[e] = dUnit'[f]
      PROVE  dLock'[f] = dLock'[e] /\ dNew'[f] \in {"completed", "cancelled"}
  <2>1. dLock[f] = dLock[e] /\ dNew[f] \in {"completed", "cancelled"}
    BY <1>4, <1>6 DEF IndexOK
  <2>2. dLock[e] \in Procs
    BY <1>4, <1>6 DEF RowsOK, RowOK, Pending
  <2>3. dLock'[e] = dLock[e]
    BY <1>4, <1>6 DEF RowUnchanged
  <2>4. CASE f = d
    BY <2>1, <2>2, <2>3, <2>4 DEF DispatchAssumption
  <2>5. CASE f # d
    BY <2>1, <2>3, <2>5 DEF RowUnchanged
  <2>6. QED
    BY <2>4, <2>5
<1>7. QED
  BY <1>3, <1>4, <1>5, <1>6 DEF IndexOK

\* The INSERT: the unique index saw no rival, so the new row in flight is the
\* only one of its unit and its own transaction ends the row it replaces.
LEMMA InsertRows ==
  ASSUME TypeOK, LocalsOK, RowsOK, IndexOK, NoDoubleBooking, DispatchAssumption,
         NEW p \in Procs, Frame(p), KeepsNew(p), InsertDispatch(p)
  PROVE  RowsOK' /\ IndexOK' /\ NoDoubleBooking'
<1> DEFINE n == req[p].new
<1>0. /\ pc[p] = "insert" /\ n \in Dispatches /\ dStatus[n] = "none" /\ dLock[n] = None
      /\ ~Pending(n)
  BY NewRowFree DEF InsertDispatch
<1>1. /\ req' = req /\ dStatus' = dStatus /\ pc'[p] = "mark"
      /\ dUnit'[n] = req[p].unit /\ dInc'[n] = req[p].inc /\ dLock'[n] = p
      /\ dNew'[n] = "reserved"
      /\ \A d \in Dispatches : d # n => RowUnchanged(d)
  BY <1>0 DEF InsertDispatch, Goto, TypeOK, RowUnchanged
<1>2. req[p].unit \in Units /\ req[p].inc \in Incidents
  BY <1>0 DEF LocalsOK, LocalsOf
<1> HIDE DEF n
<1>3. ASSUME NEW d \in Dispatches
      PROVE  RowOK(d)'
  <2>1. RowOK(d)
    BY DEF RowsOK
  <2>2. CASE d = n
    BY <1>0, <1>1, <1>2, <2>2 DEF RowOK, Pending, n, InFlight, Clean
  <2>3. CASE d # n /\ dLock[d] \in {None, p}
    BY <1>0, <1>1, <2>1, <2>3 DEF RowOK, Pending, RowUnchanged, DispatchAssumption, InFlight
  <2>4. QED
    BY <2>2, <2>3, OthersRows DEF TypeOK
<1>4. RowsOK'
  BY <1>1, <1>3, KeptIds DEF RowsOK
<1>5. NoDoubleBooking'
  <2>1. \A d \in Dispatches : IsActiveDispatch(dStatus[d]) => dUnit'[d] = dUnit[d]
    BY <1>0, <1>1 DEF IsActiveDispatch, ActiveStatuses, RowUnchanged
  <2>2. QED
    BY <1>1, <2>1 DEF NoDoubleBooking, Holds
<1>6. \A d \in Dispatches : Pending(d)' => d = n \/ Pending(d)
  BY <1>1 DEF Pending, RowUnchanged
<1>7. ASSUME NEW d \in Dispatches, Pending(d), d # n
      PROVE  dUnit'[d] # dUnit'[n]
  <2>1. dLock[d] # p /\ dNew[d] = "reserved"
    BY <1>0, <1>7 DEF RowsOK, RowOK, InFlight
  <2>2. ~Rival(p, d)
    BY DEF InsertDispatch
  <2>3. QED
    BY <1>1, <1>7, <2>1, <2>2 DEF Rival, IsActiveDispatch, ActiveStatuses, RowUnchanged
<1>8. ASSUME NEW e \in Dispatches, IsActiveDispatch(dStatus[e]), dUnit'[e] = dUnit'[n]
      PROVE  dLock'[e] = p /\ dNew'[e] \in {"completed", "cancelled"}
  <2>1. e # n
    BY <1>0, <1>8 DEF IsActiveDispatch, ActiveStatuses
  <2>2. ~Rival(p, e) /\ dUnit[e] = req[p].unit
    BY <1>1, <1>8, <2>1 DEF InsertDispatch, RowUnchanged
  <2>3. dLock[e] = p /\ dNew[e] # Clean /\ ~IsActiveDispatch(dNew[e])
    BY <1>8, <2>2 DEF Rival, Seen
  <2>4. dNew[e] \in {"completed", "cancelled"}
    BY <2>3 DEF TypeOK, DispatchStatuses, IsActiveDispatch
  <2>5. QED
    BY <1>1, <2>1, <2>3, <2>4 DEF RowUnchanged
<1>9. ASSUME NEW d \in Dispatches, NEW e \in Dispatches, Pending(d)', Pending(e)',
             dUnit'[d] = dUnit'[e]
      PROVE  d = e
  <2>1. CASE d # n /\ e # n
    BY <1>1, <1>6, <1>9, <2>1 DEF IndexOK, RowUnchanged
  <2>2. CASE d = n \/ e = n
    BY <1>6, <1>7, <1>9, <2>2
  <2>3. QED
    BY <2>1, <2>2
<1>10. ASSUME NEW d \in Dispatches, NEW e \in Dispatches, Pending(d)',
              IsActiveDispatch(dStatus'[e]), dUnit'[d] = dUnit'[e]
       PROVE  dLock'[e] = dLock'[d] /\ dNew'[e] \in {"completed", "cancelled"}
  <2>1. CASE d = n
    BY <1>1, <1>8, <1>10, <2>1
  <2>2. CASE d # n
    <3>1. e # n
      BY <1>0, <1>1, <1>10 DEF IsActiveDispatch, ActiveStatuses
    <3>2. QED
      BY <1>1, <1>6, <1>10, <2>2, <3>1 DEF IndexOK, RowUnchanged
  <2>3. QED
    BY <2>1, <2>2
<1>11. QED
  BY <1>4, <1>5, <1>9, <1>10 DEF IndexOK

\* What a commit does to a row.
LEMMA CommitRow ==
  ASSUME TypeOK, RowsOK, DispatchAssumption, NEW p \in Procs, Commit(p), NEW d \in Dispatches
  PROVE  /\ dUnit'[d] = dUnit[d] /\ dInc'[d] = dInc[d]
         /\ dLock[d] = p /\ dNew[d] # Clean => dStatus'[d] = dNew[d]
         /\ ~(dLock[d] = p /\ dNew[d] # Clean) => dStatus'[d] = dStatus[d]
         /\ dLock[d] \in {None, p} => dLock'[d] = None /\ dNew'[d] = Clean
<1>1. dLock[d] = None => dNew[d] = Clean
  BY DEF RowsOK, RowOK, DispatchAssumption
<1>2. QED
  BY <1>1 DEF Commit, Written, ReleaseLocks, Freed, Clear, TypeOK, DispatchAssumption

\* The commit: the rows that become visible are the ones the index let through.
LEMMA CommitRows ==
  ASSUME TypeOK, RowsOK, IndexOK, NoDoubleBooking, DispatchAssumption,
         NEW p \in Procs, Frame(p), Commit(p)
  PROVE  RowsOK' /\ IndexOK' /\ NoDoubleBooking'
<1>1. ASSUME NEW d \in Dispatches
      PROVE  RowOK(d)'
  <2>1. CASE dLock[d] \in {None, p}
    <3>1. RowOK(d)
      BY DEF RowsOK
    <3>2. QED
      BY <2>1, <3>1, CommitRow DEF RowOK, Pending, DispatchAssumption
  <2>2. QED
    BY <2>1, OthersRows DEF TypeOK
<1>2. NewIdsOK'
  <2>1. req'[p].new = None /\ \A q \in Procs : q # p => req'[q] = req[q]
    BY DEF Commit, End, TypeOK, NoReq, Frame
  <2>2. ASSUME NEW q \in Procs, q # p, req[q].new # None
        PROVE  dStatus'[req[q].new] = "none"
    <3>1. req[q].new \in Dispatches
      BY <2>2, LocalTypes DEF Requests
    <3>2. dStatus[req[q].new] = "none" /\ req[q].new # req[p].new
      BY <2>2 DEF RowsOK, NewIdsOK
    <3>3. ~(dLock[req[q].new] = p /\ dNew[req[q].new] # Clean)
      BY <3>1, <3>2 DEF RowsOK, RowOK, Pending
    <3>4. QED
      BY <3>1, <3>2, <3>3, CommitRow
  <2>3. QED
    BY <2>1, <2>2 DEF NewIdsOK, RowsOK
<1>3. \A d \in Dispatches : Pending(d)' => Pending(d) /\ dLock[d] \notin {None, p}
                                           /\ RowUnchanged(d)
  BY CommitRow DEF Pending, Frame, RowUnchanged
<1>4. ASSUME NEW d \in Dispatches, IsActiveDispatch(dStatus'[d])
      PROVE  \/ IsActiveDispatch(dStatus[d]) /\ ~(dLock[d] = p /\ dNew[d] \in {"completed", "cancelled"})
             \/ Pending(d) /\ dLock[d] = p
  <2>1. CASE dLock[d] = p /\ dNew[d] # Clean
    <3>1. dStatus'[d] = dNew[d] /\ RowOK(d)
      BY <2>1, CommitRow DEF RowsOK
    <3>2. CASE dStatus[d] # "none"
      BY <1>4, <2>1, <3>1, <3>2 DEF RowOK, CanTransitionDispatch, allowedDispatchTransitions,
                                    IsActiveDispatch, ActiveStatuses
    <3>3. QED
      BY <2>1, <3>2 DEF Pending
  <2>2. CASE ~(dLock[d] = p /\ dNew[d] # Clean)
    BY <1>4, <2>2, CommitRow DEF Clean
  <2>3. QED
    BY <2>1, <2>2
<1>5. NoDoubleBooking'
  <2>1. SUFFICES ASSUME NEW d \in Dispatches, NEW e \in Dispatches, NEW u \in Units,
                        Holds(d, u)', Holds(e, u)'
                 PROVE  d = e
    BY DEF NoDoubleBooking
  <2>2. dUnit[d] = u /\ dUnit[e] = u
    BY <2>1, CommitRow DEF Holds
  <2>3. IsActiveDispatch(dStatus'[d]) /\ IsActiveDispatch(dStatus'[e])
    BY <2>1 DEF Holds
  <2>4. CASE IsActiveDispatch(dStatus[d]) /\ IsActiveDispatch(dStatus[e])
    BY <2>2, <2>4 DEF NoDoubleBooking, Holds
  <2>5. CASE Pending(d) /\ Pending(e)
    BY <2>2, <2>5 DEF IndexOK
  <2>6. QED
    BY <1>4, <2>2, <2>3, <2>4, <2>5 DEF IndexOK
<1>6. ASSUME NEW d \in Dispatches, NEW e \in Dispatches, Pending(d)',
             IsActiveDispatch(dStatus'[e]), dUnit'[d] = dUnit'[e]
      PROVE  dLock'[e] = dLock'[d] /\ dNew'[e] \in {"completed", "cancelled"}
  <2>1. Pending(d) /\ dLock[d] \notin {None, p} /\ RowUnchanged(d) /\ dUnit[d] = dUnit[e]
    BY <1>3, <1>6, CommitRow
  <2>2. IsActiveDispatch(dStatus[e])
    BY <1>4, <1>6, <2>1 DEF IndexOK
  <2>3. dLock[e] = dLock[d] /\ dNew[e] \in {"completed", "cancelled"}
    BY <2>1, <2>2 DEF IndexOK
  <2>4. RowUnchanged(e)
    BY <2>1, <2>3 DEF Frame
  <2>5. QED
    BY <2>1, <2>3, <2>4 DEF RowUnchanged
<1>7. ASSUME NEW d \in Dispatches, NEW e \in Dispatches, Pending(d)', Pending(e)',
             dUnit'[d] = dUnit'[e]
      PROVE  d = e
  BY <1>3, <1>7, CommitRow DEF IndexOK
<1>8. QED
  BY <1>1, <1>2, <1>5, <1>6, <1>7 DEF RowsOK, IndexOK

-----------------------------------------------------------------------------
(* The inductive invariant.                                                 *)

\* The handler's part of an arriving request or a further statement.
LEMMA HandlerStep ==
  ASSUME IInv, DispatchAssumption, NEW p \in Procs, Arrive(p) \/ Step(p)
  PROVE  LocalsOK' /\ Frame(p) /\ KeepsNew(p)
<1>1. Frame(p)
  BY ArriveFrame, StepFrame DEF IInv
<1>2. LocalsOf(p)' /\ KeepsNew(p)
  BY ArriveLocals, StepLocals DEF IInv
<1>3. LocalsOK'
  BY <1>1, <1>2, OthersLocals DEF IInv, LocalsOK
<1>4. QED
  BY <1>1, <1>2, <1>3

\* An arriving request keeps the rows, the index and the booking.
LEMMA ArriveRows ==
  ASSUME IInv, DispatchAssumption, NEW p \in Procs, Arrive(p)
  PROVE  RowsOK' /\ IndexOK' /\ NoDoubleBooking'
<1>1. Frame(p) /\ KeepsNew(p)
  BY HandlerStep
<1>2. pc[p] \notin InFlight
  BY DEF Arrive, LockForReserve, ReadVersion, AdvanceStatus, Reroute, Preempt, CheckTransition,
         Begin, InFlight
<1>3. ASSUME NEW d \in Dispatches, NEW to \in DispatchStatuses, AdvanceStatus(p, d, to)
      PROVE  RowsOK' /\ IndexOK' /\ NoDoubleBooking'
  <2>1. dStatus[d] # "none" /\ dLock[d] = None
    BY <1>3 DEF AdvanceStatus, CanTransitionDispatch, allowedDispatchTransitions
  <2>2. /\ UNCHANGED <<dStatus, dUnit, dInc>>
        /\ dLock'[d] = p /\ CanTransitionDispatch(dStatus[d], dNew'[d])
        /\ \A e \in Dispatches : e # d => RowUnchanged(e)
    BY <1>3 DEF AdvanceStatus, IInv, TypeOK, RowUnchanged
  <2>3. QED
    BY <1>1, <1>2, <2>1, <2>2, OneRow DEF IInv
<1>4. CASE UNCHANGED dispVars
  BY <1>1, <1>2, <1>4, QuietRows DEF IInv
<1>5. QED
  BY <1>3, <1>4 DEF Arrive, LockForReserve, ReadVersion, Reroute, Preempt, StartReassign,
                    CheckTransition

\* Every further statement keeps the rows, the index and the booking.
LEMMA StepRows ==
  ASSUME IInv, DispatchAssumption, NEW p \in Procs, Step(p)
  PROVE  RowsOK' /\ IndexOK' /\ NoDoubleBooking'
<1>1. Frame(p) /\ KeepsNew(p)
  BY HandlerStep
<1>2. CASE RereadVersion(p) \/ MarkReserved(p) \/ IncidentOpen(p) \/ MarkReservedCAS(p)
           \/ LostCAS(p) \/ SyncUnit(p) \/ OldEnded(p) \/ LockFirst(p) \/ LockSecond(p)
           \/ UpdateIncident(p)
  <2>1. pc[p] \notin InFlight /\ UNCHANGED dispVars
    BY <1>2 DEF RereadVersion, MarkReserved, IncidentOpen, MarkReservedCAS, LostCAS, SyncUnit,
                OldEnded, LockFirst, LockSecond, UpdateIncident, InFlight
  <2>2. QED
    BY <1>1, <2>1, QuietRows DEF IInv
<1>3. CASE MarkDispatched(p) \/ CountActive(p) \/ SettleIncident(p)
  <2>1. pc'[p] \in InFlight /\ req' = req /\ UNCHANGED dispVars
    BY <1>3 DEF MarkDispatched, CountActive, SettleIncident, Goto, IInv, TypeOK, InFlight
  <2>2. QED
    BY <1>1, <2>1, QuietRows DEF IInv
<1>4. CASE IncidentClosed(p) \/ InsertConflict(p) \/ UnitTaken(p)
  BY <1>1, <1>4, RollbackRows DEF IInv, IncidentClosed, InsertConflict, UnitTaken, Fail
<1>5. CASE InsertDispatch(p)
  BY <1>1, <1>5, InsertRows DEF IInv
<1>6. CASE LockOld(p)
  <2>1. PICK a \in req[p].todo : /\ dLock[a[1]] = None
                                 /\ StillActive(a[1])
                                 /\ dLock' = [dLock EXCEPT ![a[1]] = p]
    BY <1>6 DEF LockOld
  <2>2. a[1] \in Dispatches
    BY LocalTypes DEF IInv
  <2>3. dStatus[a[1]] # "none" /\ pc[p] \notin InFlight
    BY <1>6, <2>1 DEF LockOld, StillActive, IsActiveDispatch, ActiveStatuses, InFlight
  <2>4. dNew'[a[1]] = Clean
    BY <1>6, <2>1, <2>2 DEF LockOld, IInv, RowsOK, RowOK, DispatchAssumption
  <2>5. /\ UNCHANGED <<dStatus, dUnit, dInc>> /\ dLock'[a[1]] = p
        /\ \A e \in Dispatches : e # a[1] => RowUnchanged(e)
    BY <1>6, <2>1, <2>2 DEF LockOld, IInv, TypeOK, RowUnchanged
  <2>6. QED
    BY <1>1, <2>1, <2>2, <2>3, <2>4, <2>5, OneRow DEF IInv
<1>7. CASE CancelOld(p)
  <2>1. /\ req[p].disp \in Dispatches /\ dLock[req[p].disp] = p
        /\ IsActiveDispatch(dStatus[req[p].disp]) /\ pc[p] = "incident"
    BY <1>7 DEF CancelOld, IInv, LocalsOK, LocalsOf
  <2>2. /\ UNCHANGED <<dStatus, dUnit, dInc>> /\ dLock'[req[p].disp] = p
        /\ dNew'[req[p].disp] = "cancelled"
        /\ \A e \in Dispatches : e # req[p].disp => RowUnchanged(e)
    BY <1>7, <2>1 DEF CancelOld, IInv, TypeOK, RowUnchanged
  <2>3. CanTransitionDispatch(dStatus[req[p].disp], "cancelled") /\ pc[p] \notin InFlight
        /\ dStatus[req[p].disp] # "none"
    BY <2>1 DEF IsActiveDispatch, ActiveStatuses, CanTransitionDispatch,
                allowedDispatchTransitions, InFlight
  <2>4. QED
    BY <1>1, <2>1, <2>2, <2>3, OneRow DEF IInv
<1>8. CASE Commit(p)
  BY <1>1, <1>8, CommitRows DEF IInv
<1>9. QED
  BY <1>2, <1>3, <1>4, <1>5, <1>6, <1>7, <1>8 DEF Step

\* The invariant holds of the initial states.
LEMMA InitInv ==
  ASSUME Init, DispatchAssumption
  PROVE  IInv
<1>1. \A p \in Procs : pc[p] = "idle" /\ req[p] = NoReq
  BY DEF Init
<1>2. TypeOK
  BY NoReqType DEF Init, TypeOK, UnitStatuses, IncidentStatuses, Steps, DispatchAssumption
<1>3. LocalsOK
  BY <1>1 DEF LocalsOK, LocalsOf, NoReq, Inserting, Reassigning
<1>4. RowsOK
  BY <1>1 DEF Init, RowsOK, RowOK, NewIdsOK, NoReq, Pending, DispatchAssumption
<1>5. IndexOK /\ NoDoubleBooking
  BY DEF Init, IndexOK, Pending, NoDoubleBooking, Holds, IsActiveDispatch, ActiveStatuses
<1>6. QED
  BY <1>2, <1>3, <1>4, <1>5 DEF IInv

\* Every step keeps the invariant.
LEMMA NextInv ==
  ASSUME IInv, DispatchAssumption, [Next]_vars
  PROVE  IInv'
<1>1. TypeOK'
  BY NextTypes DEF IInv
<1>2. ASSUME NEW p \in Procs, Arrive(p) \/ Step(p)
      PROVE  LocalsOK' /\ RowsOK' /\ IndexOK' /\ NoDoubleBooking'
  BY <1>2, HandlerStep, ArriveRows, StepRows
<1>3. ASSUME NEW p \in Procs, Rollback(p), End(p)
      PROVE  LocalsOK' /\ RowsOK' /\ IndexOK' /\ NoDoubleBooking'
  <2>1. Frame(p)
    BY <1>3, RollbackFrame DEF IInv
  <2>2. KeepsNew(p)
    BY <1>3 DEF KeepsNew, End, IInv, TypeOK, NoReq
  <2>3. LocalsOK'
    BY <1>3, <2>1, EndLocals, OthersLocals DEF IInv, LocalsOK
  <2>4. QED
    BY <1>3, <2>1, <2>2, <2>3, RollbackRows DEF IInv
<1>4. CASE UNCHANGED <<dispVars, pc, req>>
  BY <1>1, <1>4 DEF IInv, dispVars, LocalsOK, LocalsOf, Reassigning, RowsOK, RowOK, NewIdsOK, Pending,
              IndexOK, NoDoubleBooking, Holds
<1>5. ASSUME NEW u \in Units, NEW status \in UnitStatuses, OverrideUnit(u, status)
      PROVE  UNCHANGED <<dispVars, pc, req>>
  BY <1>5 DEF OverrideUnit
<1>6. CASE Next
  BY <1>1, <1>2, <1>3, <1>4, <1>5, <1>6 DEF Next, IInv, DeadlockVictim, Crash
<1>7. CASE UNCHANGED vars
  BY <1>1, <1>4, <1>7 DEF vars, IInv
<1>8. QED
  BY <1>6, <1>7

\* Every reachable state satisfies the invariant.
LEMMA Invariance == Spec => []IInv
  BY InitInv, NextInv, DispatchAssumption, PTL DEF Spec

-----------------------------------------------------------------------------
(* The theorems.                                                            *)

\* Columns, locks and locals keep their types, whatever requests interleave,
\* time out, crash or are chosen as deadlock victims.
THEOREM TypeCorrect == Spec => []TypeOK
<1>1. IInv => TypeOK
  BY DEF IInv
<1>2. QED
  BY <1>1, Invariance, PTL

\* No unit is ever committed to two active dispatches: Reserve,
\* ReserveOptimistic, Reroute and Preempt exclude each other, for any number of
\* handlers and in spite of admin overrides of the units' status.
THEOREM NeverDoubleBooked == Spec => []NoDoubleBooking
<1>1. IInv => NoDoubleBooking
  BY DEF IInv
<1>2. QED
  BY <1>1, Invariance, PTL

\* Only a commit changes a dispatch's status, and only along the state machine.
LEMMA StatusStep ==
  ASSUME IInv, DispatchAssumption, [Next]_vars
  PROVE  \A d \in Dispatches : dStatus'[d] # dStatus[d] =>
           <<dStatus[d], dStatus'[d]>> \in allowedDispatchTransitions
                                           \cup {<<"none", "reserved">>}
<1>1. ASSUME NEW p \in Procs, Commit(p), NEW d \in Dispatches, dStatus'[d] # dStatus[d]
      PROVE  <<dStatus[d], dStatus'[d]>> \in allowedDispatchTransitions
                                             \cup {<<"none", "reserved">>}
  <2>1. dLock[d] = p /\ dNew[d] # Clean /\ dStatus'[d] = dNew[d]
    BY <1>1, CommitRow DEF IInv
  <2>2. RowOK(d)
    BY DEF IInv, RowsOK
  <2>3. QED
    BY <2>1, <2>2 DEF RowOK, Pending, CanTransitionDispatch
<1>2. ASSUME NEW p \in Procs, Step(p)
      PROVE  Commit(p) \/ dStatus' = dStatus
  BY <1>2 DEF Step, RereadVersion, IncidentClosed, MarkReserved, IncidentOpen, MarkReservedCAS,
              LostCAS, InsertDispatch, InsertConflict, MarkDispatched, CountActive,
              SettleIncident, SyncUnit, LockOld, OldEnded, LockFirst, LockSecond, UnitTaken,
              CancelOld, UpdateIncident, Fail, Rollback, dispVars
<1>3. ASSUME NEW p \in Procs, Arrive(p)
      PROVE  dStatus' = dStatus
  BY <1>3 DEF Arrive, LockForReserve, ReadVersion, AdvanceStatus, Reroute, Preempt,
              StartReassign, CheckTransition, dispVars
<1>4. QED
  BY <1>1, <1>2, <1>3 DEF Next, vars, dispVars, DeadlockVictim, Crash, OverrideUnit, Rollback

\* A dispatch goes through its phases in order or is cancelled while active; a
\* finished one is final, even when a reassignment that found it active races
\* with the update that finishes it.
THEOREM LifecycleFollowed == Spec => Lifecycle
<1>1. IInv /\ [Next]_vars =>
        [\A d \in Dispatches : dStatus'[d] # dStatus[d] =>
           <<dStatus[d], dStatus'[d]>> \in allowedDispatchTransitions
                                           \cup {<<"none", "reserved">>}]_vars
  BY StatusStep, DispatchAssumption
<1>2. QED
  BY <1>1, Invariance, PTL DEF Spec, Lifecycle

=============================================================================
