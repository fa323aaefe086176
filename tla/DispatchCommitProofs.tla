------------------------ MODULE DispatchCommitProofs ------------------------
(***************************************************************************)
(* What one commit of the dispatch core makes visible: the rows and units  *)
(* it takes, the events it announces, and the step of the fleet allocation *)
(* it is.                                                                  *)
(*                                                                         *)
(* The invariant of DispatchProofs says what a row in flight may look      *)
(* like.  This one adds, handler by handler, which rows it has in flight   *)
(* (WritesOf), what it is replacing (TargetsOf) and why the unit it takes  *)
(* is still free when it commits (UnitsOf).                                *)
(***************************************************************************)
EXTENDS DispatchProofs

\* The rows p has locked, and what it has written into them.
WritesOf(p) ==
  /\ pc[p] \in {"idle", "attempt", "patch", "cas", "read"} => req[p].disp = None
  /\ req[p].disp # None => Reassigning(p) \/ req[p].kind = "advance"
  /\ \A d \in Dispatches : dLock[d] = p =>
       \/ d = req[p].disp
       \/ d = req[p].new /\ pc[p] \in InFlight /\ req[p].kind \in Inserting
  /\ pc[p] \in InFlight => req[p].kind \in Inserting \cup {"advance"}
  /\ pc[p] = "sync" => req[p].kind = "advance"
  /\ req[p].kind = "advance" =>
       /\ dLock[req[p].disp] = p
       /\ dNew[req[p].disp] = req[p].to
       /\ CanTransitionDispatch(dStatus[req[p].disp], req[p].to)
  /\ req[p].kind \in Inserting /\ pc[p] \in InFlight =>
       /\ dLock[req[p].new] = p
       /\ Pending(req[p].new)
       /\ dUnit[req[p].new] = req[p].unit
       /\ dInc[req[p].new] = req[p].inc
  /\ Reassigning(p) /\ pc[p] \in InFlight \cup {"insert"} =>
       /\ req[p].disp \in Dispatches
       /\ dLock[req[p].disp] = p
       /\ IsActiveDispatch(dStatus[req[p].disp])
       /\ dNew[req[p].disp] = "cancelled"

\* A reroute takes another unit for the same incident, a preemption the same unit
\* for a more severe one.
TargetOK(r, d, u) ==
  /\ dStatus[d] # "none"
  /\ r.kind = "reroute" => u # dUnit[d] /\ dInc[d] = r.inc
  /\ r.kind = "preempt" => u = dUnit[d] /\ LessSevere(dInc[d], r.inc)

TargetsOf(p) ==
  Reassigning(p) =>
    /\ \A a \in req[p].todo : TargetOK(req[p], a[1], a[2])
    /\ req[p].disp # None => TargetOK(req[p], req[p].disp, req[p].unit)

\* p holds the lock of the unit it takes, and the unit is free.
Taken(p) == unitLock[req[p].unit] = p /\ unitStatus[req[p].unit] = "available"

UnitsOf(p) ==
  /\ req[p].kind = "reserve" /\ pc[p] \in InFlight \cup {"incident", "insert"} => Taken(p)
  /\ req[p].kind = "optimistic" /\ pc[p] \in InFlight \cup {"insert"} => Taken(p)
  /\ req[p].kind = "optimistic" /\ pc[p] \in {"incident", "cas"} =>
       /\ req[p].version <= unitVersion[req[p].unit]
       /\ VersionUnchanged(p) => unitStatus[req[p].unit] = "available"
  /\ req[p].kind = "reroute" /\ pc[p] = "second" => unitLock[FirstUnit(p)] = p
  /\ req[p].kind = "reroute" /\ pc[p] \in InFlight \cup {"incident", "insert"} => Taken(p)

HandlerOK(p) == WritesOf(p) /\ TargetsOf(p) /\ UnitsOf(p)
HandlersOK == \A p \in Procs : HandlerOK(p)

CInv == IInv /\ HandlersOK

-----------------------------------------------------------------------------
(* What a step of p leaves alone, besides Frame.                            *)

\* A committed dispatch keeps its unit and its incident.
CommittedKept ==
  \A d \in Dispatches : dStatus[d] # "none" =>
    dStatus'[d] # "none" /\ dUnit'[d] = dUnit[d] /\ dInc'[d] = dInc[d]

\* Whoever changes a unit's status raises its version.
VersionsGrow ==
  \A u \in Units :
    /\ unitVersion'[u] \in Nat /\ unitVersion[u] <= unitVersion'[u]
    /\ unitVersion'[u] = unitVersion[u] => unitStatus'[u] = unitStatus[u]

\* p takes no lock for another handler, and only writes units it may lock.
LocksKept(p) ==
  /\ \A d \in Dispatches : dLock'[d] \in {None, p, dLock[d]}
  /\ \A u \in Units : unitLock[u] \notin {None, p} =>
       unitLock'[u] = unitLock[u] /\ unitStatus'[u] = unitStatus[u]

Keeps(p) == CommittedKept /\ VersionsGrow /\ LocksKept(p)

\* A step that writes no dispatch row and no committed unit.
LEMMA QuietKeeps ==
  ASSUME TypeOK, NEW p \in Procs, UNCHANGED <<dStatus, dUnit, dInc, unitStatus, unitVersion>>,
         \A d \in Dispatches : dLock'[d] \in {None, p, dLock[d]},
         \A u \in Units : unitLock[u] \notin {None, p} => unitLock'[u] = unitLock[u]
  PROVE  Keeps(p)
  BY DEF TypeOK, Keeps, CommittedKept, VersionsGrow, LocksKept

\* An arriving request takes free locks only.
LEMMA ArriveKeeps ==
  ASSUME TypeOK, NEW p \in Procs, Arrive(p)
  PROVE  Keeps(p)
<1> USE DEF unitVars, incVars, dispVars, TypeOK
<1>1. ASSUME NEW u \in Units, NEW i \in Incidents, LockForReserve(p, u, i) \/ ReadVersion(p, u, i)
      PROVE  Keeps(p)
  BY <1>1, QuietKeeps DEF LockForReserve, ReadVersion
<1>2. ASSUME NEW d \in Dispatches, NEW to \in DispatchStatuses, AdvanceStatus(p, d, to)
      PROVE  Keeps(p)
  BY <1>2, QuietKeeps DEF AdvanceStatus
<1>3. ASSUME NEW kind, NEW i, NEW pairs, StartReassign(p, kind, i, pairs)
      PROVE  Keeps(p)
  BY <1>3, QuietKeeps DEF StartReassign
<1>4. ASSUME NEW i \in Incidents, NEW to \in IncidentStatuses, CheckTransition(p, i, to)
      PROVE  Keeps(p)
  BY <1>4, QuietKeeps DEF CheckTransition
<1>5. QED
  BY <1>1, <1>2, <1>3, <1>4 DEF Arrive, Reroute, Preempt

\* A rollback frees the handler's locks, and withdraws only rows not committed.
LEMMA RollbackKeeps ==
  ASSUME TypeOK, DispatchAssumption, NEW p \in Procs, Rollback(p)
  PROVE  Keeps(p) /\ \A d \in Dispatches : dLock'[d] # p
  BY DEF DispatchAssumption, TypeOK, Rollback, ReleaseLocks, Freed, Clear, Withdraw, Keeps, CommittedKept,
         VersionsGrow, LocksKept

\* A commit writes the units it has locked, and raises their version.
LEMMA CommitKeeps ==
  ASSUME TypeOK, RowsOK, DispatchAssumption, NEW p \in Procs, Commit(p)
  PROVE  Keeps(p) /\ \A d \in Dispatches : dLock'[d] # p
<1>1. \A d \in Dispatches : dLock'[d] \in {None, dLock[d]} /\ dLock'[d] # p
  BY DEF Commit, ReleaseLocks, Freed, TypeOK, DispatchAssumption
<1>2. CommittedKept
  <2>1. SUFFICES ASSUME NEW d \in Dispatches, dStatus[d] # "none" PROVE dStatus'[d] # "none"
    BY CommitRow DEF CommittedKept
  <2>2. RowOK(d)
    BY DEF RowsOK
  <2>3. QED
    BY <2>1, <2>2, CommitRow DEF RowOK, CanTransitionDispatch, allowedDispatchTransitions
<1>3. VersionsGrow
  BY DEF Commit, Written, TypeOK, VersionsGrow
<1>4. LocksKept(p)
  BY <1>1 DEF Commit, Written, ReleaseLocks, Freed, TypeOK, LocksKept
<1>5. QED
  BY <1>1, <1>2, <1>3, <1>4 DEF Keeps

\* Any further statement of a request.
LEMMA StepKeeps ==
  ASSUME TypeOK, LocalsOK, RowsOK, DispatchAssumption, NEW p \in Procs, Step(p)
  PROVE  Keeps(p)
<1> USE DEF unitVars, incVars, dispVars, TypeOK
<1>1. CASE RereadVersion(p) \/ LostCAS(p) \/ UpdateIncident(p) \/ OldEnded(p)
  BY <1>1, QuietKeeps DEF RereadVersion, LostCAS, UpdateIncident, OldEnded
<1>2. CASE IncidentClosed(p) \/ InsertConflict(p) \/ UnitTaken(p)
  BY <1>2, RollbackKeeps DEF IncidentClosed, InsertConflict, UnitTaken, Fail
<1>3. CASE MarkReserved(p) \/ IncidentOpen(p) \/ MarkReservedCAS(p) \/ MarkDispatched(p)
           \/ CountActive(p) \/ SettleIncident(p)
  BY <1>3, QuietKeeps DEF MarkReserved, IncidentOpen, MarkReservedCAS, MarkDispatched,
                          CountActive, SettleIncident
<1>4. CASE SyncUnit(p) \/ LockFirst(p) \/ LockSecond(p)
  BY <1>4, QuietKeeps DEF SyncUnit, LockFirst, LockSecond
<1>5. CASE InsertDispatch(p)
  BY <1>5, NewRowFree DEF InsertDispatch, Keeps, CommittedKept, VersionsGrow, LocksKept
<1>6. CASE LockOld(p) \/ CancelOld(p)
  BY <1>6, QuietKeeps DEF LockOld, CancelOld
<1>7. CASE Commit(p)
  BY <1>7, CommitKeeps
<1>8. QED
  BY <1>1, <1>2, <1>3, <1>4, <1>5, <1>6, <1>7 DEF Step

\* What keeps the meaning of q's locals: its locals, its rows, its units.
Undisturbed(q) ==
  /\ pc'[q] = pc[q] /\ req'[q] = req[q]
  /\ \A d \in Dispatches : dLock'[d] = q <=> dLock[d] = q
  /\ \A d \in Dispatches : dLock[d] = q => RowUnchanged(d)
  /\ \A u \in Units : unitLock[u] = q => unitLock'[u] = q /\ unitStatus'[u] = unitStatus[u]

\* The other handlers are undisturbed by p.
LEMMA OthersUndisturbed ==
  ASSUME DispatchAssumption, NEW p \in Procs, Frame(p), Keeps(p), NEW q \in Procs, q # p
  PROVE  Undisturbed(q)
<1>1. q # None
  BY DEF DispatchAssumption
<1>2. QED
  BY <1>1 DEF Frame, Keeps, LocksKept, Undisturbed, RowUnchanged

-----------------------------------------------------------------------------
(* The handlers.                                                            *)

\* A reservation knows its unit.
LEMMA BookedUnit ==
  ASSUME IInv, NEW p \in Procs, WritesOf(p)
  PROVE  /\ pc[p] \in {"incident", "cas", "insert", "first", "second"} => req[p].unit \in Units
         /\ req[p].kind \in Inserting /\ pc[p] \in InFlight => req[p].unit \in Units
<1>1. pc[p] \in {"incident", "cas", "insert", "first", "second"} => req[p].unit \in Units
  BY DEF IInv, LocalsOK, LocalsOf
<1>2. ASSUME req[p].kind \in Inserting, pc[p] \in InFlight
      PROVE  req[p].unit \in Units
  <2>1. /\ req[p].new \in Dispatches /\ Pending(req[p].new)
        /\ dUnit[req[p].new] = req[p].unit
    BY <1>2 DEF IInv, LocalsOK, LocalsOf, WritesOf
  <2>2. QED
    BY <2>1 DEF IInv, RowsOK, RowOK, Pending
<1>3. QED
  BY <1>1, <1>2

\* An undisturbed handler's locals keep their meaning.
LEMMA Others ==
  ASSUME IInv, DispatchAssumption, CommittedKept, VersionsGrow, NEW q \in Procs,
         Undisturbed(q), HandlerOK(q)
  PROVE  HandlerOK(q)'
<1>1. req[q] \in Requests /\ req[q].disp \in Dispatches \cup {None}
      /\ req[q].unit \in Units \cup {None} /\ req[q].new \in Dispatches \cup {None}
      /\ \A a \in req[q].todo : a[1] \in Dispatches
  BY LocalTypes DEF IInv, Requests
<1>2. \A d \in Dispatches : dLock[d] = q => RowUnchanged(d)
  BY DEF Undisturbed
<1>3. req'[q] = req[q] /\ pc'[q] = pc[q]
  BY DEF Undisturbed
<1>4. None \notin Procs
  BY DEF DispatchAssumption
<1>5. WritesOf(q)'
  <2>1. req[q].kind \in Inserting => req[q].new \in Dispatches
    BY DEF IInv, LocalsOK, LocalsOf
  <2>2. req[q].kind = "advance" => req[q].disp \in Dispatches
    BY DEF IInv, LocalsOK, LocalsOf
  <2>3. QED
    BY <1>1, <1>2, <1>3, <2>1, <2>2 DEF HandlerOK, WritesOf, Undisturbed, RowUnchanged,
       Reassigning, Pending
<1>6. TargetsOf(q)'
  <2>1. \A d \in Dispatches : \A u : TargetOK(req[q], d, u) => TargetOK(req[q], d, u)'
    BY <1>3 DEF TargetOK, CommittedKept
  <2>2. QED
    BY <1>1, <1>3, <2>1 DEF HandlerOK, TargetsOf, Reassigning
<1>7. UnitsOf(q)'
  <2>1. /\ pc[q] \in {"incident", "cas", "insert", "second"} => req[q].unit \in Units
        /\ req[q].kind \in Inserting /\ pc[q] \in InFlight => req[q].unit \in Units
    BY BookedUnit DEF HandlerOK
  <2>2. \A u \in Units :
          /\ unitLock[u] = q => unitLock'[u] = q /\ unitStatus'[u] = unitStatus[u]
          /\ unitVersion[u] \in Nat /\ unitVersion'[u] \in Nat
          /\ unitVersion[u] <= unitVersion'[u]
          /\ unitVersion'[u] = unitVersion[u] => unitStatus'[u] = unitStatus[u]
    BY DEF Undisturbed, VersionsGrow, IInv, TypeOK
  <2>3. pc[q] = "second" => FirstUnit(q) \in Units /\ FirstUnit(q)' = FirstUnit(q)
    <3>1. SUFFICES ASSUME pc[q] = "second"
                   PROVE  /\ req[q].disp \in Dispatches /\ dLock[req[q].disp] = q
                          /\ dUnit[req[q].disp] \in Units /\ req[q].unit \in Units
      BY <1>2, <1>3 DEF FirstUnit, RowUnchanged
    <3>2. /\ req[q].disp \in Dispatches /\ dLock[req[q].disp] = q /\ req[q].unit \in Units
          /\ IsActiveDispatch(dStatus[req[q].disp])
      BY <3>1 DEF IInv, LocalsOK, LocalsOf
    <3>3. QED
      BY <3>2 DEF IInv, RowsOK, RowOK, IsActiveDispatch, ActiveStatuses
  <2>4. Taken(q) /\ req[q].unit \in Units => Taken(q)'
    BY <1>3, <2>2 DEF Taken
  <2>5. ASSUME req[q].kind = "optimistic", pc[q] \in {"incident", "cas"}
        PROVE  /\ req[q].version <= unitVersion'[req[q].unit]
               /\ VersionUnchanged(q)' => unitStatus'[req[q].unit] = "available"
    <3>1. req[q].version \in Nat /\ req[q].unit \in Units
      BY <2>1, <2>5, LocalTypes DEF IInv, Requests
    <3>2. /\ req[q].version <= unitVersion[req[q].unit]
          /\ VersionUnchanged(q) => unitStatus[req[q].unit] = "available"
      BY <2>5 DEF HandlerOK, UnitsOf
    <3>3. /\ unitVersion[req[q].unit] \in Nat /\ unitVersion'[req[q].unit] \in Nat
          /\ unitVersion[req[q].unit] <= unitVersion'[req[q].unit]
          /\ unitVersion'[req[q].unit] = unitVersion[req[q].unit] =>
               unitStatus'[req[q].unit] = unitStatus[req[q].unit]
      BY <2>2, <3>1
    <3>4. VersionUnchanged(q)' <=> unitVersion'[req[q].unit] = req[q].version
      BY <1>3 DEF VersionUnchanged
    <3>5. VersionUnchanged(q) <=> unitVersion[req[q].unit] = req[q].version
      BY DEF VersionUnchanged
    <3>6. QED
      BY <3>1, <3>2, <3>3, <3>4, <3>5
  <2>6. ASSUME Taken(q), req[q].kind \in Inserting, pc[q] \in InFlight \cup {"incident", "insert"}
        PROVE  Taken(q)'
    BY <2>1, <2>4, <2>6
  <2>7. unitLock[FirstUnit(q)] = q /\ pc[q] = "second" => (unitLock[FirstUnit(q)] = q)'
    BY <2>2, <2>3
  <2>8. UnitsOf(q)
    BY DEF HandlerOK
  <2>9. QED
    BY <1>3, <2>5, <2>6, <2>7, <2>8 DEF UnitsOf, Inserting
<1>8. QED
  BY <1>5, <1>6, <1>7 DEF HandlerOK

\* A handler between transactions has no row locked.
LEMMA NoLocks ==
  ASSUME DispatchAssumption, NEW p \in Procs, WritesOf(p),
         pc[p] \in {"idle", "attempt", "patch", "cas", "read"}
  PROVE  \A d \in Dispatches : dLock[d] # p
  BY DEF WritesOf, DispatchAssumption, InFlight

\* A request that has ended leaves nothing behind.
LEMMA EndHandler ==
  ASSUME TypeOK, NEW p \in Procs, End(p), \A d \in Dispatches : dLock'[d] # p
  PROVE  HandlerOK(p)'
<1>1. pc'[p] = "idle" /\ req'[p] = NoReq
  BY DEF End, Goto, TypeOK
<1>2. QED
  BY <1>1 DEF HandlerOK, WritesOf, TargetsOf, UnitsOf, NoReq, Inserting, Reassigning, InFlight

\* The next candidate is one of those chosen at the start.
LEMMA NextAttemptHandler ==
  ASSUME TypeOK, CommittedKept, NEW p \in Procs, HandlerOK(p), Reassigning(p),
         NEW rest \in SUBSET req[p].todo, NextAttempt(p, rest),
         \A d \in Dispatches : dLock'[d] # p
  PROVE  HandlerOK(p)'
<1>1. /\ pc'[p] = "attempt"
      /\ req'[p] = [req[p] EXCEPT !.todo = rest, !.disp = None, !.unit = None]
  BY DEF NextAttempt, Goto, TypeOK
<1>2. /\ req'[p].kind = req[p].kind /\ req'[p].inc = req[p].inc
      /\ req'[p].todo = rest /\ req'[p].disp = None
  BY <1>1, LocalTypes DEF Requests
<1>3. TargetsOf(p)'
  <2>1. \A d \in Dispatches : \A u : TargetOK(req[p], d, u) => TargetOK(req[p], d, u)'
    BY <1>2 DEF TargetOK, CommittedKept
  <2>2. \A a \in rest : a[1] \in Dispatches
    BY LocalTypes
  <2>3. QED
    BY <1>2, <2>1, <2>2 DEF HandlerOK, TargetsOf, Reassigning
<1>4. QED
  BY <1>1, <1>2, <1>3 DEF HandlerOK, WritesOf, UnitsOf, Reassigning, Inserting, InFlight

\* An arriving request has written at most the dispatch it advances, and chosen
\* its targets among committed rows.
LEMMA ArriveHandler ==
  ASSUME IInv, DispatchAssumption, NEW p \in Procs, HandlerOK(p), Arrive(p)
  PROVE  HandlerOK(p)'
<1> USE DEF Goto
<1>0. pc[p] = "idle" /\ \A d \in Dispatches : dLock[d] # p
  <2>1. pc[p] = "idle"
    BY DEF Arrive, LockForReserve, ReadVersion, AdvanceStatus, Reroute, Preempt,
           CheckTransition, Begin
  <2>2. QED
    BY <2>1, NoLocks DEF HandlerOK
<1>1. ASSUME NEW u \in Units, NEW i \in Incidents, LockForReserve(p, u, i)
      PROVE  HandlerOK(p)'
  <2>1. /\ pc'[p] = "incident" /\ req'[p].kind = "reserve" /\ req'[p].unit = u
        /\ req'[p].disp = None
        /\ unitLock'[u] = p /\ unitStatus'[u] = "available" /\ dLock' = dLock
    BY <1>1 DEF LockForReserve, IInv, TypeOK, NoReq, dispVars
  <2>2. QED
    BY <1>0, <2>1 DEF HandlerOK, WritesOf, TargetsOf, UnitsOf, Taken, Reassigning, Inserting, InFlight
<1>2. ASSUME NEW u \in Units, NEW i \in Incidents, ReadVersion(p, u, i)
      PROVE  HandlerOK(p)'
  <2>1. /\ pc'[p] = "incident" /\ req'[p].kind = "optimistic" /\ req'[p].unit = u
        /\ req'[p].disp = None /\ req'[p].version = unitVersion[u]
        /\ unitStatus[u] = "available" /\ UNCHANGED <<dLock, unitStatus, unitVersion>>
    BY <1>2 DEF ReadVersion, IInv, TypeOK, NoReq, dispVars, unitVars
  <2>2. unitVersion[u] \in Nat
    BY DEF IInv, TypeOK
  <2>3. QED
    BY <1>0, <2>1, <2>2 DEF HandlerOK, WritesOf, TargetsOf, UnitsOf, Taken, Reassigning, Inserting,
                            InFlight, VersionUnchanged
<1>3. ASSUME NEW d \in Dispatches, NEW to \in DispatchStatuses, AdvanceStatus(p, d, to)
      PROVE  HandlerOK(p)'
  <2>1. /\ pc'[p] = "sync" /\ req'[p].kind = "advance" /\ req'[p].disp = d /\ req'[p].to = to
        /\ dLock'[d] = p /\ dNew'[d] = to /\ CanTransitionDispatch(dStatus'[d], to)
        /\ \A e \in Dispatches : e # d => dLock'[e] = dLock[e]
    BY <1>3 DEF AdvanceStatus, IInv, TypeOK, NoReq
  <2>2. QED
    BY <1>0, <2>1 DEF HandlerOK, WritesOf, TargetsOf, UnitsOf, Reassigning, Inserting, InFlight
<1>4. ASSUME NEW kind \in {"reroute", "preempt"}, NEW i, NEW pairs, StartReassign(p, kind, i, pairs),
             \A a \in pairs : /\ dStatus[a[1]] # "none"
                              /\ kind = "reroute" => a[2] # dUnit[a[1]] /\ dInc[a[1]] = i
                              /\ kind = "preempt" => a[2] = dUnit[a[1]] /\ LessSevere(dInc[a[1]], i)
      PROVE  HandlerOK(p)'
  <2>1. /\ pc'[p] = "attempt" /\ req'[p].kind = kind /\ req'[p].inc = i /\ req'[p].todo = pairs
        /\ req'[p].disp = None /\ UNCHANGED <<dLock, dStatus, dUnit, dInc>>
    BY <1>4 DEF StartReassign, IInv, TypeOK, NoReq, dispVars
  <2>2. QED
    BY <1>0, <1>4, <2>1 DEF HandlerOK, WritesOf, TargetsOf, TargetOK, UnitsOf, Reassigning, Inserting,
                            InFlight
<1>5. ASSUME NEW d \in Dispatches, Reroute(p, d)
      PROVE  HandlerOK(p)'
  <2>1. PICK us \in SUBSET (Units \ {dUnit[d]}) : StartReassign(p, "reroute", dInc[d], {d} \X us)
    BY <1>5 DEF Reroute
  <2>2. dStatus[d] # "none"
    BY <1>5 DEF Reroute, IsActiveDispatch, ActiveStatuses
  <2>3. \A a \in {d} \X us : /\ dStatus[a[1]] # "none"
                            /\ a[2] # dUnit[a[1]] /\ dInc[a[1]] = dInc[d]
    BY <2>2
  <2>4. QED
    BY <1>4, <2>1, <2>3
<1>6. ASSUME NEW i \in Incidents, Preempt(p, i)
      PROVE  HandlerOK(p)'
  <2>1. PICK ds \in SUBSET {d \in Dispatches : IsActiveDispatch(dStatus[d]) /\ LessSevere(dInc[d], i)} :
          StartReassign(p, "preempt", i, {<<d, dUnit[d]>> : d \in ds})
    BY <1>6 DEF Preempt
  <2>2. \A d \in ds : dStatus[d] # "none" /\ LessSevere(dInc[d], i)
    BY <2>1 DEF IsActiveDispatch, ActiveStatuses
  <2>3. QED
    BY <1>4, <2>1, <2>2
<1>7. ASSUME NEW i \in Incidents, NEW to \in IncidentStatuses, CheckTransition(p, i, to)
      PROVE  HandlerOK(p)'
  <2>1. /\ pc'[p] = "patch" /\ req'[p].kind = "patch" /\ req'[p].disp = None /\ dLock' = dLock
    BY <1>7 DEF CheckTransition, IInv, TypeOK, NoReq, dispVars
  <2>2. QED
    BY <1>0, <2>1 DEF HandlerOK, WritesOf, TargetsOf, UnitsOf, Reassigning, Inserting, InFlight
<1>8. QED
  BY <1>1, <1>2, <1>3, <1>5, <1>6, <1>7 DEF Arrive

\* A transaction that fails leaves no lock, and maybe further candidates.
LEMMA FailHandler ==
  ASSUME IInv, DispatchAssumption, NEW p \in Procs, HandlerOK(p), NEW err, Fail(p, err)
  PROVE  HandlerOK(p)'
<1>1. CommittedKept /\ \A d \in Dispatches : dLock'[d] # p
  BY RollbackKeeps DEF Fail, IInv, Keeps
<1>2. CASE End(p)
  BY <1>1, <1>2, EndHandler DEF IInv
<1>3. CASE ~End(p)
  <2>1. Reassigning(p) /\ NextAttempt(p, req[p].todo)
    BY <1>3 DEF Fail, TriesNext, Reassigning
  <2>2. QED
    BY <1>1, <2>1, NextAttemptHandler DEF IInv
<1>4. QED
  BY <1>2, <1>3

\* A transaction that ends without having locked a dispatch.
LEMMA UnlockedEndHandler ==
  ASSUME IInv, DispatchAssumption, NEW p \in Procs, HandlerOK(p), Keeps(p),
         RereadVersion(p) \/ LostCAS(p) \/ UpdateIncident(p) \/ OldEnded(p)
  PROVE  HandlerOK(p)'
<1> USE DEF Goto
<1>1. pc[p] \in {"read", "cas", "patch", "attempt"} /\ dLock' = dLock
  BY DEF RereadVersion, LostCAS, UpdateIncident, OldEnded, dispVars
<1>2. \A d \in Dispatches : dLock'[d] # p
  BY <1>1, NoLocks DEF HandlerOK
<1>3. CASE End(p)
  BY <1>2, <1>3, EndHandler DEF IInv
<1>4. CASE RereadVersion(p) /\ ~End(p)
  <2>1. /\ pc[p] = "read" /\ pc'[p] = "incident"
        /\ req'[p] = [req[p] EXCEPT !.attempt = req[p].attempt + 1,
                                    !.version = unitVersion[req[p].unit]]
        /\ unitStatus'[req[p].unit] = "available" /\ unitVersion' = unitVersion
    BY <1>4 DEF RereadVersion, unitVars, IInv, TypeOK
  <2>2. req[p].kind = "optimistic" /\ req[p].disp = None /\ req[p].unit \in Units
    BY <2>1 DEF IInv, LocalsOK, LocalsOf, HandlerOK, WritesOf
  <2>3. /\ req'[p].kind = "optimistic" /\ req'[p].disp = None /\ req'[p].unit = req[p].unit
        /\ req'[p].version = unitVersion[req[p].unit]
    BY <2>1, <2>2, LocalTypes DEF IInv, Requests
  <2>4. unitVersion[req[p].unit] \in Nat
    BY <2>2 DEF IInv, TypeOK
  <2>5. QED
    BY <1>2, <2>1, <2>3, <2>4 DEF HandlerOK, WritesOf, TargetsOf, UnitsOf, VersionUnchanged,
                                  Reassigning, Inserting, InFlight
<1>5. CASE LostCAS(p) /\ ~End(p)
  <2>1. pc[p] = "cas" /\ pc'[p] = "read" /\ req'[p] = req[p]
    BY <1>5 DEF LostCAS, IInv, TypeOK
  <2>2. req[p].kind = "optimistic" /\ req[p].disp = None
    BY <2>1 DEF IInv, LocalsOK, LocalsOf, HandlerOK, WritesOf
  <2>3. QED
    BY <1>2, <2>1, <2>2 DEF HandlerOK, WritesOf, TargetsOf, UnitsOf, Reassigning, Inserting, InFlight
<1>6. CASE OldEnded(p) /\ ~End(p)
  <2>1. Reassigning(p) /\ \E rest \in SUBSET req[p].todo : NextAttempt(p, rest)
    BY <1>6 DEF OldEnded, TriesNext, Reassigning
  <2>2. QED
    BY <1>2, <2>1, NextAttemptHandler DEF IInv, Keeps
<1>7. QED
  BY <1>3, <1>4, <1>5, <1>6 DEF UpdateIncident

\* The statements that only move on.
LEMMA MovesOn ==
  ASSUME IInv, DispatchAssumption, NEW p \in Procs, HandlerOK(p),
         UNCHANGED <<dispVars, req, unitStatus, unitLock>>,
         \/ pc[p] \in InFlight /\ pc'[p] \in InFlight
         \/ pc[p] = "incident" /\ req[p].kind = "reserve" /\ pc'[p] = "insert"
  PROVE  HandlerOK(p)'
<1>1. WritesOf(p)'
  BY DEF dispVars, HandlerOK, WritesOf, Reassigning, Pending, InFlight, Inserting
<1>2. TargetsOf(p)'
  BY DEF dispVars, HandlerOK, TargetsOf, TargetOK, Reassigning
<1>3. UnitsOf(p)'
  BY DEF HandlerOK, UnitsOf, Taken, InFlight
<1>4. QED
  BY <1>1, <1>2, <1>3 DEF HandlerOK

\* The optimistic path: what it read is what the compare-and-swap takes.
LEMMA OptimisticHandler ==
  ASSUME IInv, DispatchAssumption, NEW p \in Procs, HandlerOK(p),
         IncidentOpen(p) \/ MarkReservedCAS(p)
  PROVE  HandlerOK(p)'
<1>1. /\ req[p].kind = "optimistic" /\ req[p].unit \in Units /\ pc[p] \in {"incident", "cas"}
      /\ req' = req /\ UNCHANGED <<dispVars, unitStatus, unitVersion>>
  BY DEF IncidentOpen, MarkReservedCAS, IInv, LocalsOK, LocalsOf, unitVars
<1>2. req[p].disp = None
  BY <1>1 DEF HandlerOK, WritesOf, Reassigning
<1>3. /\ IncidentOpen(p) => pc[p] = "incident" /\ pc'[p] = "cas"
      /\ MarkReservedCAS(p) => pc'[p] = "insert" /\ unitLock'[req[p].unit] = p /\ pc[p] = "cas"
                               /\ VersionUnchanged(p)
  BY <1>1 DEF IncidentOpen, MarkReservedCAS, Goto, IInv, TypeOK
<1>4. WritesOf(p)'
  BY <1>1, <1>2, <1>3 DEF HandlerOK, WritesOf, dispVars, Reassigning, Inserting, InFlight
<1>5. UnitsOf(p)'
  BY <1>1, <1>3 DEF HandlerOK, UnitsOf, Taken, VersionUnchanged, InFlight
<1>6. QED
  BY <1>1, <1>4, <1>5 DEF HandlerOK, TargetsOf, Reassigning

\* The insert puts the booking's row in flight.
LEMMA InsertHandler ==
  ASSUME IInv, DispatchAssumption, NEW p \in Procs, HandlerOK(p), Keeps(p), InsertDispatch(p)
  PROVE  HandlerOK(p)'
<1>1. PICK n \in Dispatches :
        n = req[p].new /\ pc[p] = "insert" /\ dStatus[n] = "none" /\ dLock[n] = None
  BY NewRowFree DEF InsertDispatch, IInv
<1>2. /\ pc'[p] = "mark" /\ req' = req /\ UNCHANGED <<dStatus, unitStatus, unitLock>>
      /\ dUnit'[n] = req[p].unit /\ dInc'[n] = req[p].inc /\ dLock'[n] = p /\ dNew'[n] = "reserved"
      /\ \A d \in Dispatches : d # n => RowUnchanged(d)
  BY <1>1 DEF InsertDispatch, IInv, TypeOK, Goto, unitVars, RowUnchanged
<1>3. req[p].kind \in Inserting
  BY <1>1 DEF IInv, LocalsOK, LocalsOf
<1>4. WritesOf(p)
  BY DEF HandlerOK
<1>5. Reassigning(p) => /\ req[p].disp \in Dispatches /\ dLock[req[p].disp] = p
                        /\ IsActiveDispatch(dStatus[req[p].disp]) /\ dNew[req[p].disp] = "cancelled"
                        /\ req[p].disp # n
  BY <1>1, <1>4 DEF WritesOf, IsActiveDispatch, ActiveStatuses
<1>6. WritesOf(p)'
  <2>1. Pending(n)'
    BY <1>1, <1>2 DEF Pending, Clean
  <2>2. \A d \in Dispatches : dLock'[d] = p => d = n \/ d = req[p].disp
    BY <1>1, <1>2, <1>4 DEF RowUnchanged, WritesOf, InFlight
  <2>3. Reassigning(p) => RowUnchanged(req[p].disp)
    BY <1>2, <1>5
  <2>4. pc'[p] \in InFlight /\ req'[p] = req[p] /\ n = req[p].new
    BY <1>1, <1>2 DEF InFlight
  <2>5. ~(req[p].kind = "advance")
    BY <1>3 DEF Inserting
  <2>6. req[p].disp # None => Reassigning(p)
    BY <1>4, <2>5 DEF WritesOf
  <2>7. Reassigning(p)' = Reassigning(p)
    BY <2>4 DEF Reassigning
  <2>8. QED
    BY <1>2, <1>3, <1>5, <2>1, <2>2, <2>3, <2>4, <2>5, <2>6, <2>7
       DEF WritesOf, RowUnchanged, InFlight
<1>7. TargetsOf(p)'
  <2>1. \A d \in Dispatches : \A u : TargetOK(req[p], d, u) => TargetOK(req[p], d, u)'
    BY <1>2 DEF Keeps, CommittedKept, TargetOK
  <2>2. /\ \A a \in req[p].todo : a[1] \in Dispatches
        /\ req[p].disp \in Dispatches \cup {None}
    BY LocalTypes DEF IInv, Requests
  <2>3. QED
    BY <1>2, <2>1, <2>2 DEF HandlerOK, TargetsOf, Reassigning
<1>8. UnitsOf(p)'
  BY <1>1, <1>2 DEF HandlerOK, UnitsOf, Taken, InFlight
<1>9. QED
  BY <1>6, <1>7, <1>8 DEF HandlerOK

\* Locking the dispatch to replace.
LEMMA LockOldHandler ==
  ASSUME IInv, DispatchAssumption, NEW p \in Procs, HandlerOK(p), LockOld(p)
  PROVE  HandlerOK(p)'
<1>1. PICK a \in req[p].todo :
        /\ StillActive(a[1])
        /\ dLock' = [dLock EXCEPT ![a[1]] = p]
        /\ req' = [req EXCEPT ![p] = [req[p] EXCEPT !.disp = a[1], !.unit = a[2],
                                                    !.todo = req[p].todo \ {a}]]
  BY DEF LockOld
<1>2. a[1] \in Dispatches /\ a[2] \in Units /\ a[1] # None
  BY LocalTypes DEF IInv, DispatchAssumption
<1>3. req'[p] = [req[p] EXCEPT !.disp = a[1], !.unit = a[2], !.todo = req[p].todo \ {a}]
  BY <1>1 DEF IInv, TypeOK
<1>4. /\ req'[p].kind = req[p].kind /\ req'[p].inc = req[p].inc /\ req'[p].unit = a[2]
      /\ req'[p].disp = a[1] /\ req'[p].todo = req[p].todo \ {a}
  BY <1>3, LocalTypes DEF IInv, Requests
<1>5. pc[p] = "attempt" /\ pc'[p] = "first" /\ UNCHANGED <<dStatus, dUnit, dInc>>
  BY DEF LockOld, Goto, IInv, TypeOK
<1>6. Reassigning(p) /\ \A d \in Dispatches : dLock[d] # p
  BY <1>5, NoLocks DEF IInv, LocalsOK, LocalsOf, HandlerOK
<1>7. WritesOf(p)'
  <2>1. \A d \in Dispatches : dLock'[d] = p => d = a[1]
    BY <1>1, <1>6 DEF IInv, TypeOK
  <2>2. QED
    BY <1>4, <1>5, <1>6, <2>1 DEF WritesOf, Reassigning, InFlight
<1>8. TargetsOf(p)'
  <2>1. \A d, u : TargetOK(req[p], d, u) => TargetOK(req[p], d, u)'
    BY <1>4, <1>5 DEF TargetOK
  <2>2. QED
    BY <1>4, <1>6, <2>1 DEF HandlerOK, TargetsOf, Reassigning
<1>9. UnitsOf(p)'
  BY <1>4, <1>5, <1>6 DEF UnitsOf, Reassigning, InFlight
<1>10. QED
  BY <1>7, <1>8, <1>9 DEF HandlerOK

\* An advance has only its dispatch, before and after it mirrors the phase.
LEMMA SyncHandler ==
  ASSUME IInv, NEW p \in Procs, HandlerOK(p), SyncUnit(p)
  PROVE  HandlerOK(p)'
<1>1. /\ pc[p] = "sync" /\ pc'[p] \in InFlight /\ pc'[p] # "sync"
      /\ UNCHANGED <<req, dStatus, dLock, dNew>>
  BY DEF SyncUnit, Goto, IInv, TypeOK, InFlight, dispVars
<1>2. req[p].kind = "advance"
  BY <1>1 DEF HandlerOK, WritesOf
<1>3. QED
  BY <1>1, <1>2 DEF HandlerOK, WritesOf, TargetsOf, UnitsOf, Reassigning, Inserting, InFlight

\* What a reassignment has before it writes anything.
LEMMA BeforeCancel ==
  ASSUME IInv, DispatchAssumption, NEW p \in Procs, HandlerOK(p), Reassigning(p),
         pc[p] \in {"first", "second", "incident"}
  PROVE  /\ req[p].unit \in Units /\ req[p].disp \in Dispatches /\ req[p].disp # None
         /\ dUnit[req[p].disp] \in Units /\ dLock[req[p].disp] = p
         /\ IsActiveDispatch(dStatus[req[p].disp])
         /\ TargetOK(req[p], req[p].disp, req[p].unit)
         /\ FirstUnit(p) \in Units /\ SecondUnit(p) \in Units
<1>1. /\ req[p].unit \in Units /\ req[p].disp \in Dispatches /\ req[p].disp # None
      /\ dLock[req[p].disp] = p /\ IsActiveDispatch(dStatus[req[p].disp])
  BY DEF IInv, LocalsOK, LocalsOf, DispatchAssumption
<1>2. dUnit[req[p].disp] \in Units
  BY <1>1 DEF IInv, RowsOK, RowOK, IsActiveDispatch, ActiveStatuses
<1>3. TargetOK(req[p], req[p].disp, req[p].unit)
  BY <1>1 DEF HandlerOK, TargetsOf
<1>4. QED
  BY <1>1, <1>2, <1>3 DEF FirstUnit, SecondUnit

\* Locking the units in order: a reroute ends with the lock of the unit it takes.
LEMMA LockUnitsHandler ==
  ASSUME IInv, DispatchAssumption, NEW p \in Procs, HandlerOK(p), LockFirst(p) \/ LockSecond(p)
  PROVE  HandlerOK(p)'
<1>1. /\ pc[p] \in {"first", "second"} /\ pc'[p] \in {"second", "incident"}
      /\ UNCHANGED <<req, dStatus, dUnit, dInc, dLock, dNew, unitStatus>>
  BY DEF LockFirst, LockSecond, Goto, IInv, TypeOK, dispVars
<1>2. Reassigning(p)
  BY <1>1 DEF IInv, LocalsOK, LocalsOf
<1>3. /\ FirstUnit(p) \in Units /\ SecondUnit(p) \in Units
      /\ req[p].kind = "reroute" => ~SameUnit(p)
  BY <1>1, <1>2, BeforeCancel DEF TargetOK, SameUnit
<1>4. WritesOf(p)'
  BY <1>1, <1>2 DEF HandlerOK, WritesOf, Reassigning, InFlight
<1>5. TargetsOf(p)'
  BY <1>1 DEF HandlerOK, TargetsOf, TargetOK, Reassigning
<1>6. UnitsOf(p)'
  <2>1. CASE LockFirst(p)
    <3>1. unitLock'[FirstUnit(p)] = p /\ FirstUnit(p)' = FirstUnit(p)
          /\ (req[p].kind = "reroute" => pc'[p] = "second")
      BY <1>1, <1>3, <2>1 DEF LockFirst, Goto, IInv, TypeOK, FirstUnit
    <3>2. QED
      BY <1>1, <1>2, <3>1 DEF UnitsOf, Reassigning, InFlight
  <2>2. CASE LockSecond(p)
    <3>1. /\ pc[p] = "second" /\ pc'[p] = "incident" /\ StillAvailable(p)
          /\ unitLock' = [unitLock EXCEPT ![SecondUnit(p)] = p]
      BY <2>2 DEF LockSecond, Goto, IInv, TypeOK
    <3>2. req[p].kind = "reroute" => unitLock[FirstUnit(p)] = p
      BY <3>1 DEF HandlerOK, UnitsOf
    <3>3. req[p].kind = "reroute" => req[p].unit \in {FirstUnit(p), SecondUnit(p)}
      BY DEF FirstUnit, SecondUnit
    <3>4. req[p].kind = "reroute" => Taken(p)'
      BY <1>1, <1>3, <3>1, <3>2, <3>3 DEF Taken, StillAvailable, IInv, TypeOK
    <3>5. QED
      BY <1>1, <1>2, <3>1, <3>4 DEF UnitsOf, Reassigning, InFlight
  <2>3. QED
    BY <2>1, <2>2
<1>7. QED
  BY <1>4, <1>5, <1>6 DEF HandlerOK

\* Ending the old dispatch and moving the units.
LEMMA CancelHandler ==
  ASSUME IInv, DispatchAssumption, NEW p \in Procs, HandlerOK(p), CancelOld(p)
  PROVE  HandlerOK(p)'
<1>1. /\ pc[p] = "incident" /\ pc'[p] = "insert" /\ Reassigning(p)
      /\ UNCHANGED <<req, dStatus, dUnit, dInc, dLock, unitStatus, unitLock>>
      /\ dNew' = [dNew EXCEPT ![req[p].disp] = "cancelled"]
  BY DEF CancelOld, Goto, IInv, TypeOK, unitVars
<1>2. /\ req[p].disp \in Dispatches /\ dLock[req[p].disp] = p
      /\ IsActiveDispatch(dStatus[req[p].disp])
  BY <1>1, BeforeCancel
<1>3. dNew'[req[p].disp] = "cancelled"
  BY <1>1, <1>2 DEF IInv, TypeOK
<1>4. WritesOf(p)'
  BY <1>1, <1>2, <1>3 DEF HandlerOK, WritesOf, Reassigning, InFlight
<1>5. TargetsOf(p)'
  BY <1>1 DEF HandlerOK, TargetsOf, TargetOK, Reassigning
<1>6. UnitsOf(p)'
  BY <1>1 DEF HandlerOK, UnitsOf, Taken, Reassigning, InFlight
<1>7. QED
  BY <1>4, <1>5, <1>6 DEF HandlerOK

\* Every further statement of a request.
LEMMA StepHandler ==
  ASSUME IInv, DispatchAssumption, NEW p \in Procs, HandlerOK(p), Step(p)
  PROVE  HandlerOK(p)'
<1>1. Keeps(p)
  BY StepKeeps DEF IInv
<1>2. CASE RereadVersion(p) \/ LostCAS(p) \/ UpdateIncident(p) \/ OldEnded(p)
  BY <1>1, <1>2, UnlockedEndHandler
<1>3. CASE IncidentClosed(p) \/ InsertConflict(p) \/ UnitTaken(p)
  BY <1>3, FailHandler DEF IncidentClosed, InsertConflict, UnitTaken
<1>4. CASE IncidentOpen(p) \/ MarkReservedCAS(p)
  BY <1>4, OptimisticHandler
<1>5. CASE MarkReserved(p) \/ MarkDispatched(p) \/ CountActive(p) \/ SettleIncident(p)
  <2>1. /\ UNCHANGED <<dispVars, req, unitStatus, unitLock>>
        /\ \/ pc[p] \in InFlight /\ pc'[p] \in InFlight
           \/ pc[p] = "incident" /\ req[p].kind = "reserve" /\ pc'[p] = "insert"
    BY <1>5 DEF MarkReserved, MarkDispatched, CountActive, SettleIncident, Goto, IInv, TypeOK,
                InFlight, unitVars
  <2>2. QED
    BY <2>1, MovesOn
<1>6. CASE InsertDispatch(p)
  BY <1>1, <1>6, InsertHandler
<1>7. CASE LockOld(p)
  BY <1>7, LockOldHandler
<1>8. CASE LockFirst(p) \/ LockSecond(p)
  BY <1>8, LockUnitsHandler
<1>9. CASE SyncUnit(p) \/ CancelOld(p)
  BY <1>9, SyncHandler, CancelHandler
<1>10. CASE Commit(p)
  <2>1. End(p) /\ \A d \in Dispatches : dLock'[d] # p
    BY <1>10, CommitKeeps DEF Commit, IInv
  <2>2. QED
    BY <2>1, EndHandler DEF IInv
<1>11. QED
  BY <1>2, <1>3, <1>4, <1>5, <1>6, <1>7, <1>8, <1>9, <1>10 DEF Step

-----------------------------------------------------------------------------
(* The inductive invariant.                                                 *)

\* Initially no handler has anything in flight.
LEMMA InitHandlers ==
  ASSUME Init, DispatchAssumption
  PROVE  HandlersOK
<1>1. \A p \in Procs : pc[p] = "idle" /\ req[p] = NoReq /\ \A d \in Dispatches : dLock[d] # p
  BY DEF Init, DispatchAssumption
<1>2. QED
  BY <1>1 DEF HandlersOK, HandlerOK, WritesOf, TargetsOf, UnitsOf, NoReq, Inserting, Reassigning,
              InFlight

\* A handler's own step and the steps of the others keep what its locals mean.
LEMMA NextHandlers ==
  ASSUME CInv, DispatchAssumption, [Next]_vars
  PROVE  HandlersOK'
<1>1. IInv /\ TypeOK /\ HandlersOK
  BY DEF CInv, IInv
<1>2. ASSUME NEW p \in Procs, Frame(p), Keeps(p), HandlerOK(p)'
      PROVE  HandlersOK'
  <2>1. \A q \in Procs : q # p => Undisturbed(q)
    BY <1>2, OthersUndisturbed
  <2>2. \A q \in Procs : q # p => HandlerOK(q)'
    BY <1>1, <1>2, <2>1, Others DEF Keeps, HandlersOK
  <2>3. QED
    BY <1>2, <2>2 DEF HandlersOK
<1>3. ASSUME NEW p \in Procs, Arrive(p) \/ Step(p)
      PROVE  HandlersOK'
  <2>1. Frame(p) /\ Keeps(p)
    BY <1>1, <1>3, HandlerStep, ArriveKeeps, StepKeeps DEF IInv
  <2>2. HandlerOK(p)'
    BY <1>1, <1>3, ArriveHandler, StepHandler DEF HandlersOK
  <2>3. QED
    BY <1>2, <2>1, <2>2
<1>4. ASSUME NEW p \in Procs, Rollback(p), End(p)
      PROVE  HandlersOK'
  <2>1. Frame(p) /\ Keeps(p) /\ \A d \in Dispatches : dLock'[d] # p
    BY <1>1, <1>4, RollbackFrame, RollbackKeeps
  <2>2. HandlerOK(p)'
    BY <1>1, <1>4, <2>1, EndHandler
  <2>3. QED
    BY <1>2, <2>1, <2>2
<1>5. ASSUME CommittedKept, VersionsGrow, \A q \in Procs : Undisturbed(q)
      PROVE  HandlersOK'
  BY <1>1, <1>5, Others DEF HandlersOK
<1>6. ASSUME NEW u \in Units, NEW status \in UnitStatuses, OverrideUnit(u, status)
      PROVE  HandlersOK'
  <2>1. CommittedKept /\ VersionsGrow
    BY <1>1, <1>6 DEF OverrideUnit, CommittedKept, VersionsGrow, TypeOK, dispVars
  <2>2. \A q \in Procs : Undisturbed(q)
    BY <1>1, <1>6 DEF OverrideUnit, Undisturbed, RowUnchanged, TypeOK, dispVars, DispatchAssumption
  <2>3. QED
    BY <1>5, <2>1, <2>2
<1>7. CASE UNCHANGED vars
  <2>1. CommittedKept /\ VersionsGrow /\ \A q \in Procs : Undisturbed(q)
    BY <1>1, <1>7 DEF vars, unitVars, dispVars, CommittedKept, VersionsGrow, Undisturbed,
                      RowUnchanged, TypeOK
  <2>2. QED
    BY <1>5, <2>1
<1>8. QED
  BY <1>3, <1>4, <1>6, <1>7 DEF Next, DeadlockVictim, Crash

\* Every reachable state satisfies the invariant.
LEMMA CommitInvariance == Spec => []CInv
<1>1. Init => CInv
  BY InitInv, InitHandlers, DispatchAssumption DEF CInv
<1>2. CInv /\ [Next]_vars => CInv'
  BY NextInv, NextHandlers, DispatchAssumption DEF CInv
<1>3. QED
  BY <1>1, <1>2, PTL DEF Spec

-----------------------------------------------------------------------------
(* What a commit makes visible.                                             *)

Inserts(p) ==
  /\ req[p].new \in Dispatches /\ req[p].unit \in Units /\ req[p].inc \in Incidents
  /\ dStatus[req[p].new] = "none" /\ dStatus'[req[p].new] = "reserved"
  /\ dUnit[req[p].new] = req[p].unit /\ dInc[req[p].new] = req[p].inc
  /\ Pending(req[p].new) /\ dLock[req[p].new] = p

Books(p) ==
  /\ req[p].kind \in {"reserve", "optimistic"} /\ Inserts(p)
  /\ \A d \in Dispatches : d # req[p].new => dStatus'[d] = dStatus[d] /\ dLock[d] # p

Replaces(p) ==
  /\ Reassigning(p) /\ Inserts(p)
  /\ req[p].disp \in Dispatches /\ IsActiveDispatch(dStatus[req[p].disp])
  /\ TargetOK(req[p], req[p].disp, req[p].unit)
  /\ dStatus'[req[p].disp] = "cancelled"
  /\ \A d \in Dispatches : d \notin {req[p].new, req[p].disp} =>
       dStatus'[d] = dStatus[d] /\ dLock[d] # p

Advances(p) ==
  /\ req[p].kind = "advance" /\ req[p].disp \in Dispatches
  /\ CanTransitionDispatch(dStatus[req[p].disp], req[p].to)
  /\ dStatus'[req[p].disp] = req[p].to
  /\ \A d \in Dispatches : d # req[p].disp => dStatus'[d] = dStatus[d] /\ dLock[d] # p

\* A commit books a unit, replaces a dispatch or advances one, and does no more.
LEMMA CommitCases ==
  ASSUME CInv, DispatchAssumption, NEW p \in Procs, Commit(p)
  PROVE  Books(p) \/ Replaces(p) \/ Advances(p)
<1>1. /\ pc[p] = "commit" /\ pc[p] \in InFlight /\ WritesOf(p) /\ TargetsOf(p)
      /\ req[p].kind \in Inserting \cup {"advance"}
  BY DEF Commit, InFlight, CInv, HandlersOK, HandlerOK, WritesOf
<1>2. \A d \in Dispatches :
        /\ dLock[d] = p /\ dNew[d] # Clean => dStatus'[d] = dNew[d]
        /\ dLock[d] # p => dStatus'[d] = dStatus[d]
  BY CommitRow DEF CInv, IInv
<1>3. None \notin Dispatches
  BY DEF DispatchAssumption
<1>4. ASSUME req[p].kind \in Inserting
      PROVE  Inserts(p)
  <2>1. /\ req[p].new \in Dispatches /\ req[p].inc \in Incidents
        /\ Pending(req[p].new) /\ dLock[req[p].new] = p
        /\ dUnit[req[p].new] = req[p].unit /\ dInc[req[p].new] = req[p].inc
    BY <1>1, <1>4 DEF CInv, IInv, LocalsOK, LocalsOf, WritesOf
  <2>2. req[p].unit \in Units
    BY <1>1, <1>4, BookedUnit DEF CInv
  <2>3. dNew[req[p].new] = "reserved" /\ dStatus[req[p].new] = "none"
    BY <2>1 DEF CInv, IInv, RowsOK, RowOK, Pending
  <2>4. QED
    BY <1>2, <2>1, <2>2, <2>3 DEF Inserts, Clean
<1>5. CASE req[p].kind \in {"reserve", "optimistic"}
  <2>1. req[p].kind \in Inserting
    BY <1>5 DEF Inserting
  <2>2. req[p].disp \notin Dispatches
    BY <1>1, <1>3, <1>5 DEF WritesOf, Reassigning
  <2>3. QED
    BY <1>1, <1>2, <1>4, <1>5, <2>1, <2>2 DEF Books, WritesOf
<1>6. CASE Reassigning(p)
  <2>1. req[p].kind \in Inserting
    BY <1>6 DEF Inserting, Reassigning
  <2>2. /\ req[p].disp \in Dispatches /\ dLock[req[p].disp] = p
        /\ IsActiveDispatch(dStatus[req[p].disp]) /\ dNew[req[p].disp] = "cancelled"
    BY <1>1, <1>6 DEF WritesOf
  <2>3. dStatus'[req[p].disp] = "cancelled"
    BY <1>2, <2>2 DEF Clean
  <2>4. TargetOK(req[p], req[p].disp, req[p].unit)
    BY <1>1, <1>3, <1>6, <2>2 DEF TargetsOf
  <2>5. QED
    BY <1>1, <1>2, <1>4, <1>6, <2>1, <2>2, <2>3, <2>4 DEF Replaces, WritesOf
<1>7. CASE req[p].kind = "advance"
  <2>1. req[p].disp \in Dispatches
    BY <1>7 DEF CInv, IInv, LocalsOK, LocalsOf
  <2>2. /\ dLock[req[p].disp] = p /\ dNew[req[p].disp] = req[p].to
        /\ CanTransitionDispatch(dStatus[req[p].disp], req[p].to)
    BY <1>1, <1>7 DEF WritesOf
  <2>3. req[p].to # Clean
    BY <2>2 DEF CanTransitionDispatch, allowedDispatchTransitions, Clean
  <2>4. QED
    BY <1>1, <1>2, <1>7, <2>1, <2>2, <2>3 DEF Advances, WritesOf, Inserting
<1>8. QED
  BY <1>1, <1>5, <1>6, <1>7 DEF Inserting, Reassigning

\* Nothing else changes a committed dispatch or announces anything.
LEMMA OnlyCommits ==
  ASSUME CInv, DispatchAssumption, [Next]_vars
  PROVE  CommittedKept /\ (UNCHANGED <<dStatus, outbox>> \/ \E p \in Procs : Commit(p))
<1>1. IInv
  BY DEF CInv
<1>2. ASSUME NEW p \in Procs, Step(p)
      PROVE  CommittedKept /\ (UNCHANGED <<dStatus, outbox>> \/ Commit(p))
  <2>1. CommittedKept
    BY <1>1, <1>2, StepKeeps DEF IInv, Keeps
  <2>2. UNCHANGED <<dStatus, outbox>> \/ Commit(p)
    BY <1>2 DEF Step, RereadVersion, IncidentClosed, MarkReserved, IncidentOpen, MarkReservedCAS,
              LostCAS, InsertDispatch, InsertConflict, MarkDispatched, CountActive,
              SettleIncident, SyncUnit, LockOld, OldEnded, LockFirst, LockSecond, UnitTaken,
              CancelOld, UpdateIncident, Fail, Rollback, dispVars
  <2>3. QED
    BY <2>1, <2>2
<1>3. ASSUME NEW p \in Procs, Arrive(p)
      PROVE  CommittedKept /\ UNCHANGED <<dStatus, outbox>>
  <2>1. CommittedKept
    BY <1>1, <1>3, ArriveKeeps DEF IInv, Keeps
  <2>2. UNCHANGED <<dStatus, outbox>>
    BY <1>3 DEF Arrive, LockForReserve, ReadVersion, AdvanceStatus, Reroute, Preempt,
              StartReassign, CheckTransition, dispVars
  <2>3. QED
    BY <2>1, <2>2
<1>4. ASSUME NEW p \in Procs, Rollback(p)
      PROVE  CommittedKept /\ UNCHANGED <<dStatus, outbox>>
  BY <1>1, <1>4, RollbackKeeps DEF IInv, Keeps, Rollback
<1>5. ASSUME NEW u \in Units, NEW status \in UnitStatuses, OverrideUnit(u, status)
      PROVE  CommittedKept /\ UNCHANGED <<dStatus, outbox>>
  BY <1>5 DEF OverrideUnit, dispVars, CommittedKept
<1>6. CASE UNCHANGED vars
  BY <1>6 DEF vars, dispVars, CommittedKept
<1>7. QED
  BY <1>2, <1>3, <1>4, <1>5, <1>6 DEF Next, DeadlockVictim, Crash

\* Every unit a dispatch takes is free at the commit, or handed over by the dispatch the
\* commit cancels: the row lock, the compare-and-swap and the re-check under both unit
\* locks each protect what was read before.
THEOREM TakesAreFresh == Spec => TakesOnlyAvailable
<1> DEFINE Fresh ==
      \A d \in Dispatches : dStatus[d] = "none" /\ dStatus'[d] # "none" =>
        \/ unitStatus[dUnit[d]] = "available"
        \/ \E e \in Dispatches : Holds(e, dUnit[d]) /\ dStatus'[e] = "cancelled"
<1>1. ASSUME CInv, NEW p \in Procs, Commit(p)
      PROVE  Fresh
  <2>1. UnitsOf(p) /\ pc[p] \in InFlight
    BY <1>1 DEF Commit, InFlight, CInv, HandlersOK, HandlerOK
  <2>2. CASE Books(p)
    BY <2>1, <2>2 DEF Books, Inserts, UnitsOf, Taken
  <2>3. CASE Replaces(p) /\ req[p].kind = "reroute"
    BY <2>1, <2>3 DEF Replaces, Inserts, UnitsOf, Taken, IsActiveDispatch, ActiveStatuses
  <2>4. CASE Replaces(p) /\ req[p].kind = "preempt"
    BY <2>4 DEF Replaces, Inserts, TargetOK, Holds, IsActiveDispatch, ActiveStatuses
  <2>5. CASE Advances(p)
    BY <2>5 DEF Advances, CanTransitionDispatch, allowedDispatchTransitions
  <2>6. QED
    BY <1>1, <2>2, <2>3, <2>4, <2>5, CommitCases, DispatchAssumption DEF Replaces, Reassigning
<1>2. CInv /\ [Next]_vars => [Fresh]_vars
  BY <1>1, OnlyCommits, DispatchAssumption
<1>3. QED
  BY <1>2, CommitInvariance, PTL DEF Spec, TakesOnlyAvailable

-----------------------------------------------------------------------------
(* The outbox.                                                              *)

Created(p) ==
  [type |-> IF Reassigning(p) THEN req[p].kind ELSE "created", disp |-> req[p].new,
   replaced |-> IF Reassigning(p) THEN req[p].disp ELSE None]
Completed(p) == [type |-> "completed", disp |-> req[p].disp, replaced |-> None]

\* A commit announces the row it inserts or the completion it stores.
LEMMA Announces ==
  ASSUME NEW p \in Procs, Commit(p)
  PROVE  /\ Books(p) \/ Replaces(p) => outbox' = outbox \cup {Created(p)}
         /\ Advances(p) => outbox' = outbox \cup
                            (IF req[p].to = "completed" THEN {Completed(p)} ELSE {})
<1>1. outbox' = outbox \cup EventsOf(p)
  BY DEF Commit
<1>2. CASE Books(p)
  <2>1. EventsOf(p) = {Created(p)}
    BY <1>2 DEF Books, EventsOf, Created, Reassigning
  <2>2. QED
    BY <1>1, <1>2, <2>1 DEF Books, Advances
<1>3. CASE Replaces(p)
  <2>1. EventsOf(p) = {Created(p)}
    BY <1>3 DEF Replaces, EventsOf, Created, Reassigning
  <2>2. QED
    BY <1>1, <1>3, <2>1 DEF Replaces, Reassigning, Advances
<1>4. CASE Advances(p)
  <2>1. EventsOf(p) = IF req[p].to = "completed" THEN {Completed(p)} ELSE {}
    BY <1>4 DEF Advances, EventsOf, Completed, Reassigning
  <2>2. QED
    BY <1>1, <1>4, <2>1 DEF Advances, Books, Replaces, Reassigning
<1>5. QED
  BY <1>2, <1>3, <1>4

\* A new row and its event.
LEMMA BirthAgrees ==
  ASSUME OutboxAgrees, outbox \subseteq [type : EventTypes, disp : Dispatches,
                                        replaced : Dispatches \cup {None}],
         NEW n \in Dispatches, dStatus[n] = "none", dStatus'[n] = "reserved",
         NEW ev, ev.disp = n, Birth(ev), outbox' = outbox \cup {ev},
         \/ /\ ev.replaced = None
            /\ \A d \in Dispatches : d # n => dStatus'[d] = dStatus[d]
         \/ /\ ev.replaced \in Dispatches /\ ev.replaced # n
            /\ IsActiveDispatch(dStatus[ev.replaced])
            /\ dStatus'[ev.replaced] = "cancelled"
            /\ \A d \in Dispatches : d \notin {n, ev.replaced} => dStatus'[d] = dStatus[d]
  PROVE  OutboxAgrees'
<1>1. \A e \in outbox : e.disp \in Dispatches /\ e.disp # n
  BY DEF OutboxAgrees
<1>2. \A d \in Dispatches : d # n => \/ dStatus'[d] = dStatus[d]
                                     \/ /\ d = ev.replaced /\ dStatus'[d] = "cancelled"
                                        /\ IsActiveDispatch(dStatus[d])
  OBVIOUS
<1>3. \A e \in outbox' : dStatus'[e.disp] # "none"
  BY <1>1, <1>2 DEF OutboxAgrees
<1>4. \A d \in Dispatches : dStatus'[d] # "none" => \E e \in outbox' : e.disp = d /\ Birth(e)
  BY <1>2 DEF OutboxAgrees, IsActiveDispatch, ActiveStatuses
<1>5. \A e, f \in outbox' : e.disp = f.disp /\ (Birth(e) <=> Birth(f)) => e = f
  BY <1>1 DEF OutboxAgrees
<1>6. ASSUME NEW d \in Dispatches
      PROVE  dStatus'[d] = "completed" <=> \E e \in outbox' : e.disp = d /\ ~Birth(e)
  <2>1. CASE d = n
    BY <1>1, <2>1
  <2>2. CASE d # n
    <3>1. dStatus[d] = "completed" <=> \E e \in outbox' : e.disp = d /\ ~Birth(e)
      BY <2>2 DEF OutboxAgrees
    <3>2. dStatus'[d] = "completed" <=> dStatus[d] = "completed"
      BY <1>2, <2>2 DEF IsActiveDispatch, ActiveStatuses
    <3>3. QED
      BY <3>1, <3>2
  <2>3. QED
    BY <2>1, <2>2
<1>7. \A e \in outbox : e.replaced # None => /\ dStatus[e.replaced] = "cancelled"
                                             /\ e.replaced \in Dispatches
  BY DEF OutboxAgrees
<1>8. \A e \in outbox' : e.replaced # None => dStatus'[e.replaced] = "cancelled"
  BY <1>2, <1>7
<1>9. \A e, f \in outbox' : e.replaced = f.replaced /\ e.replaced # None => e = f
  BY <1>7 DEF OutboxAgrees, IsActiveDispatch, ActiveStatuses
<1>10. QED
  BY <1>3, <1>4, <1>5, <1>6, <1>8, <1>9 DEF OutboxAgrees, Birth

\* A dispatch that advances, and the event of its completion.
LEMMA AdvanceAgrees ==
  ASSUME OutboxAgrees, outbox \subseteq [type : EventTypes, disp : Dispatches,
                                        replaced : Dispatches \cup {None}],
         NEW d \in Dispatches, NEW to, CanTransitionDispatch(dStatus[d], to), dStatus'[d] = to,
         \A e \in Dispatches : e # d => dStatus'[e] = dStatus[e],
         NEW ev, ev.disp = d, ~Birth(ev), ev.replaced = None,
         outbox' = outbox \cup (IF to = "completed" THEN {ev} ELSE {})
  PROVE  OutboxAgrees'
<1>1. to # "none" /\ dStatus[d] \notin {"none", "completed", "cancelled"}
  BY DEF CanTransitionDispatch, allowedDispatchTransitions
<1>2. \A e \in outbox : /\ e.disp \in Dispatches
                        /\ e.replaced # None => e.replaced \in Dispatches /\ e.replaced # d
  BY <1>1 DEF OutboxAgrees
<1>3. \A e \in outbox : e.disp = d => Birth(e)
  BY <1>1 DEF OutboxAgrees
<1>4. (\A e \in outbox' : dStatus'[e.disp] # "none")
  BY <1>1, <1>2 DEF OutboxAgrees
<1>5. \A x \in Dispatches : dStatus'[x] # "none" => \E e \in outbox' : e.disp = x /\ Birth(e)
  BY <1>1 DEF OutboxAgrees
<1>6. \A e, f \in outbox' : e.disp = f.disp /\ (Birth(e) <=> Birth(f)) => e = f
  BY <1>3 DEF OutboxAgrees
<1>7. ASSUME NEW x \in Dispatches
      PROVE  dStatus'[x] = "completed" <=> \E e \in outbox' : e.disp = x /\ ~Birth(e)
  <2>1. CASE x = d
    BY <1>3, <2>1
  <2>2. CASE x # d
    BY <2>2 DEF OutboxAgrees
  <2>3. QED
    BY <2>1, <2>2
<1>8. \A e \in outbox' : e.replaced # None => dStatus'[e.replaced] = "cancelled"
  BY <1>2 DEF OutboxAgrees
<1>9. \A e, f \in outbox' : e.replaced = f.replaced /\ e.replaced # None => e = f
  BY DEF OutboxAgrees
<1>10. QED
  BY <1>4, <1>5, <1>6, <1>7, <1>8, <1>9 DEF OutboxAgrees, Birth

\* The outbox tells exactly what has been committed: every dispatch is announced once,
\* every completion once, a replacement only of a dispatch it cancelled, and nothing of
\* a transaction that rolled back.
THEOREM OutboxIsExact == Spec => []OutboxAgrees
<1>1. Init => OutboxAgrees
  BY DEF Init, OutboxAgrees
<1>2. ASSUME CInv, OutboxAgrees, NEW p \in Procs, Commit(p)
      PROVE  OutboxAgrees'
  <2>0. outbox \subseteq [type : EventTypes, disp : Dispatches, replaced : Dispatches \cup {None}]
    BY <1>2 DEF CInv, IInv, TypeOK
  <2>1. CASE Books(p)
    <3>1. PICK n \in Dispatches, ev \in {Created(p)} : n = req[p].new /\ ev = Created(p)
      BY <2>1 DEF Books, Inserts
    <3>2. ev.disp = n /\ Birth(ev) /\ ev.replaced = None /\ outbox' = outbox \cup {ev}
      BY <1>2, <2>1, <3>1, Announces DEF Books, Created, Birth, Reassigning
    <3>3. /\ dStatus[n] = "none" /\ dStatus'[n] = "reserved"
          /\ \A d \in Dispatches : d # n => dStatus'[d] = dStatus[d]
      BY <2>1, <3>1 DEF Books, Inserts
    <3>4. QED
      BY <1>2, <2>0, <3>2, <3>3, BirthAgrees
  <2>2. CASE Replaces(p)
    <3>1. PICK n \in Dispatches, ev \in {Created(p)} : n = req[p].new /\ ev = Created(p)
      BY <2>2 DEF Replaces, Inserts
    <3>2. ev.disp = n /\ Birth(ev) /\ ev.replaced = req[p].disp /\ outbox' = outbox \cup {ev}
      BY <1>2, <2>2, <3>1, Announces DEF Replaces, Created, Birth, Reassigning
    <3>3. /\ dStatus[n] = "none" /\ dStatus'[n] = "reserved" /\ ev.replaced \in Dispatches
          /\ ev.replaced # n /\ IsActiveDispatch(dStatus[ev.replaced])
          /\ dStatus'[ev.replaced] = "cancelled"
          /\ \A d \in Dispatches : d \notin {n, ev.replaced} => dStatus'[d] = dStatus[d]
      BY <2>2, <3>1, <3>2 DEF Replaces, Inserts, IsActiveDispatch, ActiveStatuses
    <3>4. QED
      BY <1>2, <2>0, <3>2, <3>3, BirthAgrees
  <2>3. CASE Advances(p)
    <3>1. PICK d \in Dispatches, to \in {req[p].to}, ev \in {Completed(p)} :
            d = req[p].disp /\ to = req[p].to /\ ev = Completed(p)
      BY <2>3 DEF Advances
    <3>2. /\ ev.disp = d /\ ~Birth(ev) /\ ev.replaced = None
          /\ outbox' = outbox \cup (IF to = "completed" THEN {ev} ELSE {})
      BY <1>2, <2>3, <3>1, Announces DEF Completed, Birth
    <3>3. /\ CanTransitionDispatch(dStatus[d], to) /\ dStatus'[d] = to
          /\ \A e \in Dispatches : e # d => dStatus'[e] = dStatus[e]
      BY <2>3, <3>1 DEF Advances
    <3>4. QED
      BY <1>2, <2>0, <3>2, <3>3, AdvanceAgrees
  <2>4. QED
    BY <1>2, <2>1, <2>2, <2>3, CommitCases, DispatchAssumption
<1>3. CInv /\ OutboxAgrees /\ [Next]_vars => OutboxAgrees'
  <2>1. UNCHANGED <<dStatus, outbox>> /\ OutboxAgrees => OutboxAgrees'
    BY DEF OutboxAgrees, Birth
  <2>2. QED
    BY <1>2, <2>1, OnlyCommits, DispatchAssumption
<1>4. QED
  BY <1>1, <1>3, CommitInvariance, PTL DEF Spec

-----------------------------------------------------------------------------
(* The fleet allocation.                                                    *)

\* The incident a unit serves is its holder's.
LEMMA ServingHeld ==
  ASSUME NoDoubleBooking, NEW u \in Units, NEW d \in Dispatches, Holds(d, u)
  PROVE  serving[u] = dInc[d]
<1>1. PICK c : c = CHOOSE e \in Dispatches : Holds(e, u)
  OBVIOUS
<1>2. c \in Dispatches /\ Holds(c, u)
  BY <1>1
<1>3. c = d
  BY <1>2 DEF NoDoubleBooking
<1>4. QED
  BY <1>1, <1>3 DEF serving

\* The same of the state a step leads to.
LEMMA ServingHeldNext ==
  ASSUME NoDoubleBooking', NEW u \in Units, NEW d \in Dispatches, Holds(d, u)'
  PROVE  serving'[u] = dInc'[d]
<1>1. PICK c : c = CHOOSE e \in Dispatches : Holds(e, u)'
  OBVIOUS
<1>2. c \in Dispatches /\ Holds(c, u)'
  BY <1>1
<1>3. c = d
  BY <1>2 DEF NoDoubleBooking
<1>4. QED
  BY <1>1, <1>3 DEF serving

\* A unit nobody holds serves nobody.
LEMMA ServingFree ==
  ASSUME NEW u \in Units
  PROVE  /\ (\A d \in Dispatches : ~Holds(d, u)) => serving[u] = None
         /\ (\A d \in Dispatches : ~Holds(d, u)') => serving'[u] = None
  BY DEF serving

\* A unit whose holders stay serves the incident it served.
LEMMA ServingKept ==
  ASSUME NoDoubleBooking, NoDoubleBooking', CommittedKept, NEW u \in Units,
         \A d \in Dispatches : Holds(d, u)' <=> Holds(d, u)
  PROVE  serving'[u] = serving[u]
<1>1. ASSUME NEW d \in Dispatches, Holds(d, u)
      PROVE  serving'[u] = serving[u]
  <2>1. dInc'[d] = dInc[d]
    BY <1>1 DEF CommittedKept, Holds, IsActiveDispatch, ActiveStatuses
  <2>2. QED
    BY <1>1, <2>1, ServingHeld, ServingHeldNext
<1>2. CASE \A d \in Dispatches : ~Holds(d, u)
  BY <1>2, ServingFree
<1>3. QED
  BY <1>1, <1>2

\* The assignment is a function on the units.
LEMMA ServingFunction ==
  serving = [u \in Units |-> serving[u]] /\ serving' = [u \in Units |-> serving'[u]]
  BY DEF serving

\* A commit that books a unit assigns it.
LEMMA BookStep ==
  ASSUME CInv, IInv', DispatchAssumption, CommittedKept, NEW p \in Procs, Commit(p), Books(p)
  PROVE  Fleet!Next
<1>1. PICK n \in Dispatches, u \in Units, i \in Incidents :
        n = req[p].new /\ u = req[p].unit /\ i = req[p].inc
  BY DEF Books, Inserts
<1>2. /\ dStatus[n] = "none" /\ dStatus'[n] = "reserved" /\ Pending(n) /\ dLock[n] = p
      /\ dUnit[n] = u /\ dInc[n] = i
      /\ \A d \in Dispatches : d # n => dStatus'[d] = dStatus[d] /\ dLock[d] # p
  BY <1>1 DEF Books, Inserts
<1>3. \A d \in Dispatches : dUnit'[d] = dUnit[d] /\ dInc'[d] = dInc[d]
  BY CommitRow DEF CInv, IInv
<1>4. NoDoubleBooking /\ NoDoubleBooking' /\ IndexOK
  BY DEF CInv, IInv
<1>5. serving[u] = None
  <2>1. \A d \in Dispatches : ~Holds(d, u)
    BY <1>2, <1>4 DEF IndexOK, Holds, IsActiveDispatch, ActiveStatuses
  <2>2. QED
    BY <2>1, ServingFree
<1>6. serving'[u] = i
  <2>1. Holds(n, u)'
    BY <1>2, <1>3 DEF Holds, IsActiveDispatch, ActiveStatuses
  <2>2. QED
    BY <1>2, <1>3, <1>4, <2>1, ServingHeldNext
<1>7. ASSUME NEW v \in Units, v # u
      PROVE  serving'[v] = serving[v]
  <2>1. \A d \in Dispatches : Holds(d, v)' <=> Holds(d, v)
    BY <1>2, <1>3, <1>7 DEF Holds
  <2>2. QED
    BY <1>4, <2>1, ServingKept
<1>8. serving' = [serving EXCEPT ![u] = i]
  BY <1>6, <1>7, ServingFunction
<1>9. Fleet!Assign(u, i)
  BY <1>5, <1>8 DEF Fleet!Assign
<1>10. QED
  BY <1>9 DEF Fleet!Next

\* A commit that replaces a dispatch moves the incident to another unit, or the unit to
\* a more severe incident.
LEMMA ReplaceStep ==
  ASSUME CInv, IInv', DispatchAssumption, CommittedKept, NEW p \in Procs, Commit(p), Replaces(p)
  PROVE  Fleet!Next
<1>1. PICK n \in Dispatches, o \in Dispatches, u \in Units, i \in Incidents :
        n = req[p].new /\ o = req[p].disp /\ u = req[p].unit /\ i = req[p].inc
  BY DEF Replaces, Inserts
<1>2. /\ dStatus[n] = "none" /\ dStatus'[n] = "reserved" /\ Pending(n) /\ dLock[n] = p
      /\ dUnit[n] = u /\ dInc[n] = i
      /\ IsActiveDispatch(dStatus[o]) /\ dStatus'[o] = "cancelled" /\ o # n
      /\ \A d \in Dispatches : d \notin {n, o} => dStatus'[d] = dStatus[d] /\ dLock[d] # p
  BY <1>1 DEF Replaces, Inserts, IsActiveDispatch, ActiveStatuses
<1>3. \A d \in Dispatches : dUnit'[d] = dUnit[d] /\ dInc'[d] = dInc[d]
  BY CommitRow DEF CInv, IInv
<1>4. NoDoubleBooking /\ NoDoubleBooking' /\ IndexOK
  BY DEF CInv, IInv
<1>5. PICK v \in Units : v = dUnit[o] /\ dInc[o] \in Incidents
  BY <1>2 DEF CInv, IInv, RowsOK, RowOK, IsActiveDispatch, ActiveStatuses
<1>6. serving[v] = dInc[o] /\ dInc[o] # None
  <2>1. Holds(o, v)
    BY <1>2, <1>5 DEF Holds
  <2>2. QED
    BY <1>4, <1>5, <2>1, ServingHeld DEF DispatchAssumption
<1>7. serving'[u] = i
  <2>1. Holds(n, u)'
    BY <1>2, <1>3 DEF Holds, IsActiveDispatch, ActiveStatuses
  <2>2. QED
    BY <1>2, <1>3, <1>4, <2>1, ServingHeldNext
<1>8. ASSUME NEW w \in Units, w \notin {u, v}
      PROVE  serving'[w] = serving[w]
  <2>1. \A d \in Dispatches : Holds(d, w)' <=> Holds(d, w)
    BY <1>2, <1>3, <1>5, <1>8 DEF Holds
  <2>2. QED
    BY <1>4, <2>1, ServingKept
<1>9. CASE req[p].kind = "reroute"
  <2>1. u # v /\ i = dInc[o]
    BY <1>1, <1>5, <1>9 DEF Replaces, TargetOK
  <2>2. serving[u] = None
    <3>1. \A d \in Dispatches : ~Holds(d, u)
      BY <1>2, <1>4, <1>5, <2>1 DEF IndexOK, Holds, IsActiveDispatch, ActiveStatuses
    <3>2. QED
      BY <3>1, ServingFree
  <2>3. serving'[v] = None
    <3>1. \A d \in Dispatches : ~Holds(d, v)'
      <4>1. SUFFICES ASSUME NEW d \in Dispatches, Holds(d, v)' PROVE FALSE
        OBVIOUS
      <4>2. d # o /\ d # n
        BY <1>2, <1>3, <2>1, <4>1 DEF Holds, IsActiveDispatch, ActiveStatuses
      <4>3. Holds(d, v) /\ Holds(o, v)
        BY <1>2, <1>3, <1>5, <4>1, <4>2 DEF Holds
      <4>4. QED
        BY <1>4, <4>2, <4>3 DEF NoDoubleBooking
    <3>2. QED
      BY <3>1, ServingFree
  <2>4. serving' = [serving EXCEPT ![v] = None, ![u] = serving[v]]
    BY <1>6, <1>7, <1>8, <2>1, <2>3, ServingFunction
  <2>5. Fleet!Replace(v, u)
    BY <1>6, <2>2, <2>4 DEF Fleet!Replace
  <2>6. QED
    BY <2>5 DEF Fleet!Next
<1>10. CASE req[p].kind = "preempt"
  <2>1. u = v /\ Severity[dInc[o]] < Severity[i]
    BY <1>1, <1>5, <1>10 DEF Replaces, TargetOK, LessSevere
  <2>2. serving' = [serving EXCEPT ![u] = i]
    BY <1>7, <1>8, <2>1, ServingFunction
  <2>3. Fleet!Preempt(u, i)
    BY <1>6, <2>1, <2>2 DEF Fleet!Preempt
  <2>4. QED
    BY <2>3 DEF Fleet!Next
<1>11. QED
  BY <1>9, <1>10 DEF Replaces, Reassigning

\* A commit that advances a dispatch releases its unit at the end and nothing before.
LEMMA AdvanceStep ==
  ASSUME CInv, IInv', DispatchAssumption, CommittedKept, NEW p \in Procs, Commit(p), Advances(p)
  PROVE  Fleet!Next \/ serving' = serving
<1>1. PICK o \in Dispatches, to \in {req[p].to} : o = req[p].disp /\ to = req[p].to
  BY DEF Advances
<1>2. /\ CanTransitionDispatch(dStatus[o], to) /\ dStatus'[o] = to
      /\ \A d \in Dispatches : d # o => dStatus'[d] = dStatus[d]
  BY <1>1 DEF Advances
<1>3. \A d \in Dispatches : dUnit'[d] = dUnit[d] /\ dInc'[d] = dInc[d]
  BY CommitRow DEF CInv, IInv
<1>4. NoDoubleBooking /\ NoDoubleBooking'
  BY DEF CInv, IInv
<1>5. IsActiveDispatch(dStatus[o])
  BY <1>2 DEF CanTransitionDispatch, allowedDispatchTransitions, IsActiveDispatch, ActiveStatuses
<1>6. PICK v \in Units : v = dUnit[o] /\ dInc[o] \in Incidents
  BY <1>5 DEF CInv, IInv, RowsOK, RowOK, IsActiveDispatch, ActiveStatuses
<1>7. CASE IsActiveDispatch(to)
  <2>1. \A w \in Units : \A d \in Dispatches : Holds(d, w)' <=> Holds(d, w)
    BY <1>2, <1>3, <1>5, <1>7 DEF Holds
  <2>2. \A w \in Units : serving'[w] = serving[w]
    BY <1>4, <2>1, ServingKept
  <2>3. QED
    BY <2>2, ServingFunction
<1>8. CASE ~IsActiveDispatch(to)
  <2>1. Holds(o, v)
    BY <1>5, <1>6 DEF Holds
  <2>2. serving[v] # None
    BY <1>4, <1>6, <2>1, ServingHeld DEF DispatchAssumption
  <2>3. serving'[v] = None
    <3>1. \A d \in Dispatches : ~Holds(d, v)'
      BY <1>2, <1>3, <1>4, <1>8, <2>1 DEF NoDoubleBooking, Holds
    <3>2. QED
      BY <3>1, ServingFree
  <2>4. ASSUME NEW w \in Units, w # v
        PROVE  serving'[w] = serving[w]
    <3>1. \A d \in Dispatches : Holds(d, w)' <=> Holds(d, w)
      BY <1>2, <1>3, <1>6, <2>4 DEF Holds
    <3>2. QED
      BY <1>4, <3>1, ServingKept
  <2>5. serving' = [serving EXCEPT ![v] = None]
    BY <2>3, <2>4, ServingFunction
  <2>6. Fleet!Release(v)
    BY <2>2, <2>5 DEF Fleet!Release
  <2>7. QED
    BY <2>6 DEF Fleet!Next
<1>9. QED
  BY <1>7, <1>8

\* The dispatch core implements the fleet allocation: whatever its transactions do between
\* their commits, units change hands only by being reserved, released, swapped for a free
\* one on the same incident, or preempted for a more severe one.
THEOREM DispatchImplementsFleet == Spec => ImplementsFleet
<1>1. Init => Fleet!Init
  BY DEF Init, Fleet!Init, serving, Holds, IsActiveDispatch, ActiveStatuses
<1>2. CInv /\ [Next]_vars => [Fleet!Next]_serving
  <2>1. SUFFICES ASSUME CInv, [Next]_vars
                 PROVE  Fleet!Next \/ serving' = serving
    OBVIOUS
  <2>2. IInv' /\ CommittedKept
    BY <2>1, NextInv, OnlyCommits, DispatchAssumption DEF CInv
  <2>3. CASE UNCHANGED <<dStatus, outbox>>
    <3>1. \A u \in Units, d \in Dispatches : Holds(d, u)' <=> Holds(d, u)
      BY <2>2, <2>3 DEF CommittedKept, Holds, IsActiveDispatch, ActiveStatuses
    <3>2. \A u \in Units : serving'[u] = serving[u]
      BY <2>1, <2>2, <3>1, ServingKept DEF CInv, IInv
    <3>3. QED
      BY <3>2, ServingFunction
  <2>4. ASSUME NEW p \in Procs, Commit(p)
        PROVE  Fleet!Next \/ serving' = serving
    BY <2>1, <2>2, <2>4, CommitCases, BookStep, ReplaceStep, AdvanceStep, DispatchAssumption
  <2>5. QED
    BY <2>1, <2>3, <2>4, OnlyCommits, DispatchAssumption
<1>3. QED
  BY <1>1, <1>2, CommitInvariance, PTL DEF Spec, ImplementsFleet, Fleet!Spec

=============================================================================
