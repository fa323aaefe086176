------------------------ MODULE DispatchStatusProofs ------------------------
(***************************************************************************)
(* What the statuses of units and incidents tell, in a system where nobody *)
(* writes them behind the dispatches' back: the admin's override of a      *)
(* unit is excluded for the units, the PATCH of an incident for the        *)
(* incidents.                                                              *)
(*                                                                         *)
(* The invariant says of each transaction which units it has locked and    *)
(* what it has written into them (UnitRowsOf), and of each incident that   *)
(* only an open one has a write in flight (IncidentsOpen).  From the same  *)
(* facts follows that no transactions wait for each other in a cycle, that *)
(* a statement only ever waits for a request that is under way, and which  *)
(* race alone can forget an incident.  At the end, with no writes          *)
(* excluded: each request is short.                                        *)
(***************************************************************************)
EXTENDS DispatchCommitProofs, FiniteSetTheorems, WellFoundedInduction

-----------------------------------------------------------------------------
(* Incidents.                                                               *)

\* Without PATCHes, a write in flight is on an incident that is not terminal.
IncidentsOpen ==
  /\ \A i \in Incidents : incNew[i] # Clean => incLock[i] # None /\ incStatus[i] \notin TerminalIncident
  /\ \A p \in Procs : pc[p] # "patch"

\* A guarded UPDATE writes an open incident.
LEMMA GuardedOpen ==
  ASSUME TypeOK, DispatchAssumption, IncidentsOpen, NEW p \in Procs, NEW i, NEW from, NEW to,
         from \cap TerminalIncident = {}, GuardedUpdate(p, i, from, to), incStatus' = incStatus,
         NEW step, step # "patch", Goto(p, step)
  PROVE  IncidentsOpen'
<1>1. None \notin Procs
  BY DEF DispatchAssumption
<1>2. \A q \in Procs : pc'[q] # "patch"
  BY DEF Goto, TypeOK, IncidentsOpen
<1>3. CASE incStatus[i] \in from
  BY <1>1, <1>2, <1>3 DEF GuardedUpdate, IncidentsOpen, TypeOK
<1>4. CASE incStatus[i] \notin from
  BY <1>2, <1>4 DEF GuardedUpdate, IncidentsOpen
<1>5. QED
  BY <1>3, <1>4

\* Dropping a handler's locks keeps the others' writes on open incidents.
LEMMA DroppedOpen ==
  ASSUME TypeOK, DispatchAssumption, IncidentsOpen, NEW p \in Procs, ReleaseLocks(p),
         \A i \in Incidents : incLock[i] # p => incStatus'[i] = incStatus[i],
         \A q \in Procs : pc'[q] # "patch"
  PROVE  IncidentsOpen'
  BY DEF TypeOK, ReleaseLocks, Freed, Clear, IncidentsOpen, DispatchAssumption

\* No step writes a closed incident.
LEMMA NextOpen ==
  ASSUME CInv, DispatchAssumption, IncidentsOpen, "patch" \notin Ops, [Next]_vars
  PROVE  /\ IncidentsOpen'
         /\ \A i \in Incidents : incStatus[i] \in TerminalIncident => incStatus'[i] = incStatus[i]
<1> DEFINE Stays == \A i \in Incidents :
             incStatus[i] \in TerminalIncident => incStatus'[i] = incStatus[i]
<1>1. TypeOK
  BY DEF CInv, IInv
<1>2. ASSUME NEW p \in Procs, NEW step, step # "patch", Goto(p, step), UNCHANGED incVars
      PROVE  IncidentsOpen' /\ Stays
  BY <1>1, <1>2 DEF Goto, TypeOK, incVars, IncidentsOpen
<1>3. ASSUME NEW p \in Procs, Arrive(p)
      PROVE  IncidentsOpen' /\ Stays
  <2>1. UNCHANGED incVars /\ \E step : step # "patch" /\ Goto(p, step)
    BY <1>3 DEF Arrive, LockForReserve, ReadVersion, AdvanceStatus, Reroute, Preempt, StartReassign,
                CheckTransition, Begin
  <2>2. QED
    BY <1>2, <2>1
<1>4. ASSUME NEW p \in Procs, Rollback(p), \E step : step # "patch" /\ Goto(p, step)
      PROVE  IncidentsOpen' /\ Stays
  <2>1. \A q \in Procs : pc'[q] # "patch"
    BY <1>1, <1>4 DEF Goto, TypeOK, IncidentsOpen
  <2>2. incStatus' = incStatus /\ ReleaseLocks(p)
    BY <1>4 DEF Rollback
  <2>3. QED
    BY <1>1, <2>1, <2>2, DroppedOpen
<1>5. ASSUME NEW p \in Procs, Commit(p)
      PROVE  IncidentsOpen' /\ Stays
  <2>1. \A q \in Procs : pc'[q] # "patch"
    BY <1>1, <1>5 DEF Commit, End, Goto, TypeOK, IncidentsOpen
  <2>2. /\ ReleaseLocks(p)
        /\ \A i \in Incidents : incLock[i] # p \/ incNew[i] = Clean => incStatus'[i] = incStatus[i]
    BY <1>1, <1>5 DEF Commit, Written, TypeOK
  <2>3. IncidentsOpen'
    BY <1>1, <2>1, <2>2, DroppedOpen
  <2>4. QED
    BY <2>2, <2>3 DEF IncidentsOpen
<1>6. ASSUME NEW p \in Procs, MarkDispatched(p) \/ SettleIncident(p)
      PROVE  IncidentsOpen' /\ Stays
  <2>1. PICK i, from, to, step :
          /\ from \cap TerminalIncident = {} /\ GuardedUpdate(p, i, from, to)
          /\ step # "patch" /\ Goto(p, step) /\ incStatus' = incStatus
    BY <1>6 DEF MarkDispatched, SettleIncident, TerminalIncident
  <2>2. QED
    BY <1>1, <2>1, GuardedOpen
<1>7. ASSUME NEW p \in Procs, Step(p)
      PROVE  IncidentsOpen' /\ Stays
  <2>1. CASE IncidentClosed(p) \/ InsertConflict(p) \/ UnitTaken(p)
    BY <1>4, <2>1 DEF IncidentClosed, InsertConflict, UnitTaken, Fail, End, NextAttempt
  <2>2. CASE RereadVersion(p) \/ LostCAS(p) \/ OldEnded(p)
    <3>1. UNCHANGED incVars /\ \E step : step # "patch" /\ Goto(p, step)
      BY <2>2 DEF RereadVersion, LostCAS, OldEnded, End, NextAttempt
    <3>2. QED
      BY <1>2, <3>1
  <2>3. CASE MarkReserved(p) \/ IncidentOpen(p) \/ MarkReservedCAS(p) \/ InsertDispatch(p)
             \/ CountActive(p) \/ SyncUnit(p) \/ LockOld(p) \/ LockFirst(p) \/ LockSecond(p)
             \/ CancelOld(p)
    <3>1. UNCHANGED incVars /\ \E step : step # "patch" /\ Goto(p, step)
      BY <2>3 DEF MarkReserved, IncidentOpen, MarkReservedCAS, InsertDispatch, CountActive, SyncUnit,
                  LockOld, LockFirst, LockSecond, CancelOld
    <3>2. QED
      BY <1>2, <3>1
  <2>4. ~UpdateIncident(p)
    BY DEF UpdateIncident, IncidentsOpen
  <2>5. QED
    BY <1>5, <1>6, <1>7, <2>1, <2>2, <2>3, <2>4 DEF Step
<1>8. CASE UNCHANGED <<incVars, pc>>
  BY <1>8 DEF incVars, IncidentsOpen
<1>9. QED
  BY <1>3, <1>4, <1>7, <1>8 DEF Next, DeadlockVictim, Crash, End, OverrideUnit, vars

\* A resolved or cancelled incident stays closed, whatever dispatches are still booked,
\* completed or rerouted for it: every cascade is guarded by the status it starts from.
THEOREM ClosedIncidentsStay ==
  ASSUME "patch" \notin Ops
  PROVE  Spec => TerminalStays
<1>1. Init => IncidentsOpen
  BY DEF Init, IncidentsOpen
<1>2. CInv /\ IncidentsOpen /\ [Next]_vars => IncidentsOpen'
  BY NextOpen, DispatchAssumption
<1>3. CInv /\ IncidentsOpen /\ [Next]_vars =>
        [\A i \in Incidents :
           incStatus[i] \in TerminalIncident => incStatus'[i] = incStatus[i]]_vars
  BY NextOpen, DispatchAssumption
<1>4. QED
  BY <1>1, <1>2, <1>3, CommitInvariance, PTL DEF Spec, TerminalStays

-----------------------------------------------------------------------------
(* Units.                                                                   *)

\* The unit of the dispatch p advances or replaces.
Old(p) == dUnit[req[p].disp]

Writing == InFlight \cup {"insert"}

\* The units p has locked, and what it has written into them.
UnitRowsOf(p) ==
  /\ \A u \in Units : unitLock[u] = p =>
       /\ pc[p] \in Writing \cup {"incident", "second"}
       /\ req[p].kind = "optimistic" => pc[p] \in Writing
       /\ \/ req[p].kind \in Inserting /\ u = req[p].unit
          \/ req[p].kind \in {"reroute", "preempt", "advance"} /\ u = Old(p)
  /\ pc[p] \notin Writing \/ req[p].kind = "preempt" =>
       \A u \in Units : unitLock[u] = p => unitNew[u] = Clean
  /\ req[p].kind \in {"reserve", "optimistic"} /\ pc[p] \in Writing =>
       unitNew[req[p].unit] = "reserved"
  /\ req[p].kind = "reroute" /\ pc[p] \in Writing \cup {"incident"} => unitLock[Old(p)] = p
  /\ req[p].kind = "reroute" /\ pc[p] \in Writing =>
       unitNew[req[p].unit] = "reserved" /\ unitNew[Old(p)] = "available"
  /\ req[p].kind = "advance" /\ pc[p] \in InFlight =>
       unitLock[Old(p)] = p /\ unitNew[Old(p)] = UnitStatusForDispatch(req[p].to)

UnitRowsOK ==
  /\ \A u \in Units : unitLock[u] = None => unitNew[u] = Clean
  /\ \A p \in Procs : UnitRowsOf(p)

\* A step of another handler leaves q's units alone.
UnitsKept(p) ==
  /\ \A u \in Units : unitLock'[u] \in {None, p, unitLock[u]}
  /\ \A u \in Units : unitLock[u] \notin {None, p} =>
       unitLock'[u] = unitLock[u] /\ unitNew'[u] = unitNew[u]

\* The unit of a dispatch that is advanced or replaced.
LEMMA OldUnit ==
  ASSUME CInv, DispatchAssumption, NEW p \in Procs,
         req[p].kind = "advance" \/ (Reassigning(p) /\ req[p].disp # None)
  PROVE  req[p].disp \in Dispatches /\ dStatus[req[p].disp] # "none" /\ Old(p) \in Units
<1>1. WritesOf(p) /\ TargetsOf(p) /\ req[p].disp \in Dispatches \cup {None}
  BY LocalTypes DEF CInv, HandlersOK, HandlerOK, IInv, Requests
<1>2. req[p].kind = "advance" => req[p].disp \in Dispatches
  BY DEF CInv, IInv, LocalsOK, LocalsOf
<1>3. dStatus[req[p].disp] # "none"
  BY <1>1 DEF WritesOf, TargetsOf, TargetOK, CanTransitionDispatch, allowedDispatchTransitions
<1>4. QED
  BY <1>1, <1>2, <1>3 DEF Old, CInv, IInv, RowsOK, RowOK

\* What a handler with units locked knows of them.
LEMMA HandlerUnits ==
  ASSUME CInv, DispatchAssumption, NEW p \in Procs, pc[p] \in Writing \cup {"incident", "second"}
  PROVE  /\ Reassigning(p) => req[p].disp # None
         /\ req[p].kind \in Inserting => req[p].unit \in Units
         /\ req[p].kind \in {"reserve", "optimistic", "reroute"} /\ pc[p] \in Writing =>
              unitLock[req[p].unit] = p
<1>1. WritesOf(p) /\ UnitsOf(p) /\ LocalsOf(p) /\ None \notin Dispatches
  BY DEF CInv, HandlersOK, HandlerOK, IInv, LocalsOK, DispatchAssumption
<1>2. Reassigning(p) => req[p].disp # None
  BY <1>1 DEF WritesOf, LocalsOf, Writing
<1>3. req[p].kind \in Inserting => req[p].unit \in Units
  BY <1>1, BookedUnit DEF CInv, Writing
<1>4. QED
  BY <1>1, <1>2, <1>3 DEF UnitsOf, Taken, Writing

\* What p does to units leaves the other handlers' units alone.
LEMMA OthersUnitRows ==
  ASSUME CInv, DispatchAssumption, CommittedKept, NEW p \in Procs, Frame(p), UnitsKept(p),
         NEW q \in Procs, q # p, UnitRowsOf(q)
  PROVE  UnitRowsOf(q)'
<1>1. pc'[q] = pc[q] /\ req'[q] = req[q] /\ q # None
  BY DEF Frame, DispatchAssumption
<1>2. \A u \in Units : /\ unitLock'[u] = q <=> unitLock[u] = q
                       /\ unitLock[u] = q => unitNew'[u] = unitNew[u]
  BY <1>1 DEF UnitsKept
<1>3. req[q].kind = "advance" \/ (Reassigning(q) /\ req[q].disp # None) =>
        Old(q)' = Old(q) /\ Old(q) \in Units
  BY <1>1, OldUnit DEF Old, CommittedKept
<1>4. pc[q] \in Writing \cup {"incident", "second"} =>
        /\ Reassigning(q) => req[q].disp # None
        /\ req[q].kind \in Inserting => req[q].unit \in Units
        /\ req[q].kind \in {"reserve", "optimistic", "reroute"} /\ pc[q] \in Writing =>
             unitLock[req[q].unit] = q
  BY HandlerUnits
<1>5. \A u \in Units : unitLock'[u] = q =>
        /\ pc[q] \in Writing \cup {"incident", "second"}
        /\ req[q].kind = "optimistic" => pc[q] \in Writing
        /\ \/ req[q].kind \in Inserting /\ u = req[q].unit
           \/ req[q].kind \in {"reroute", "preempt", "advance"} /\ u = Old(q)'
  BY <1>2, <1>3, <1>4 DEF UnitRowsOf, Reassigning
<1>6. pc[q] \notin Writing \/ req[q].kind = "preempt" =>
        \A u \in Units : unitLock'[u] = q => unitNew'[u] = Clean
  BY <1>2 DEF UnitRowsOf
<1>7. req[q].kind \in {"reserve", "optimistic"} /\ pc[q] \in Writing =>
        unitNew'[req[q].unit] = "reserved"
  BY <1>2, <1>4 DEF UnitRowsOf, Inserting
<1>8. req[q].kind = "reroute" /\ pc[q] \in Writing \cup {"incident"} =>
        /\ unitLock'[Old(q)'] = q
        /\ pc[q] \in Writing => unitNew'[req[q].unit] = "reserved" /\ unitNew'[Old(q)'] = "available"
  BY <1>2, <1>3, <1>4 DEF UnitRowsOf, Inserting, Reassigning
<1>9. req[q].kind = "advance" /\ pc[q] \in InFlight =>
        unitLock'[Old(q)'] = q /\ unitNew'[Old(q)'] = UnitStatusForDispatch(req[q].to)
  BY <1>2, <1>3 DEF UnitRowsOf
<1>10. QED
  BY <1>1, <1>5, <1>6, <1>7, <1>8, <1>9 DEF UnitRowsOf

UnlockedClean == \A u \in Units : unitLock[u] = None => unitNew[u] = Clean
Own(p) == UnitRowsOf(p)' /\ UnitsKept(p) /\ UnlockedClean'

\* A handler that has no unit locked after its step.
LEMMA NoUnits ==
  ASSUME TypeOK, UnlockedClean, NEW p \in Procs,
         UNCHANGED <<unitLock, unitNew>> \/ ReleaseLocks(p),
         \A u \in Units : unitLock'[u] # p, pc'[p] \notin Writing,
         pc'[p] = "incident" => req'[p].kind # "reroute"
  PROVE  Own(p)
<1>1. UnitRowsOf(p)'
  BY DEF UnitRowsOf, Writing, InFlight
<1>2. UnitsKept(p) /\ UnlockedClean'
  BY DEF TypeOK, UnlockedClean, UnitsKept, ReleaseLocks, Freed, Clear
<1>3. QED
  BY <1>1, <1>2 DEF Own

\* Releasing its locks leaves a handler none.
LEMMA ReleasedUnits ==
  ASSUME TypeOK, DispatchAssumption, NEW p \in Procs, ReleaseLocks(p)
  PROVE  \A u \in Units : unitLock'[u] # p
  BY DEF TypeOK, ReleaseLocks, Freed, DispatchAssumption

\* An arriving request has locked at most the unit it reserves.
LEMMA ArriveUnits ==
  ASSUME CInv, DispatchAssumption, UnitRowsOK, NEW p \in Procs, Arrive(p)
  PROVE  Own(p)
<1>1. TypeOK /\ UnlockedClean /\ UnitRowsOf(p) /\ None \notin Procs
  BY DEF CInv, IInv, UnitRowsOK, UnlockedClean, DispatchAssumption
<1>2. pc[p] = "idle"
  BY DEF Arrive, LockForReserve, ReadVersion, AdvanceStatus, Reroute, Preempt, CheckTransition, Begin
<1>3. \A u \in Units : unitLock[u] # p
  BY <1>1, <1>2 DEF UnitRowsOf, Writing, InFlight
<1>4. ASSUME NEW u \in Units, NEW i \in Incidents, LockForReserve(p, u, i)
      PROVE  Own(p)
  <2>1. /\ pc'[p] = "incident" /\ req'[p].kind = "reserve" /\ req'[p].unit = u
        /\ unitLock[u] = None /\ unitLock' = [unitLock EXCEPT ![u] = p] /\ unitNew' = unitNew
    BY <1>1, <1>4 DEF LockForReserve, Goto, TypeOK, NoReq
  <2>2. UnitRowsOf(p)'
    BY <1>1, <1>3, <2>1 DEF UnitRowsOf, UnlockedClean, TypeOK, Writing, InFlight, Inserting
  <2>3. UnitsKept(p) /\ UnlockedClean'
    BY <1>1, <2>1 DEF UnitsKept, UnlockedClean, TypeOK
  <2>4. QED
    BY <2>2, <2>3 DEF Own
<1>5. ASSUME UNCHANGED <<unitLock, unitNew>>, pc'[p] \in {"incident", "sync", "attempt", "patch"},
             pc'[p] = "incident" => req'[p].kind = "optimistic"
      PROVE  Own(p)
  BY <1>1, <1>3, <1>5, NoUnits DEF Writing, InFlight
<1>6. ASSUME NEW u \in Units, NEW i \in Incidents, ReadVersion(p, u, i)
      PROVE  Own(p)
  BY <1>1, <1>5, <1>6 DEF ReadVersion, Goto, TypeOK, NoReq, unitVars
<1>7. ASSUME NEW kind, NEW i, NEW pairs, StartReassign(p, kind, i, pairs)
      PROVE  Own(p)
  BY <1>1, <1>5, <1>7 DEF StartReassign, Goto, TypeOK, unitVars
<1>8. ASSUME NEW d \in Dispatches, NEW to \in DispatchStatuses, AdvanceStatus(p, d, to)
      PROVE  Own(p)
  BY <1>1, <1>5, <1>8 DEF AdvanceStatus, Goto, TypeOK, unitVars
<1>9. ASSUME NEW i \in Incidents, NEW to \in IncidentStatuses, CheckTransition(p, i, to)
      PROVE  Own(p)
  BY <1>1, <1>5, <1>9 DEF CheckTransition, Goto, TypeOK, unitVars
<1>10. QED
  BY <1>4, <1>6, <1>7, <1>8, <1>9 DEF Arrive, Reroute, Preempt

\* A statement outside the units' critical section.
LEMMA FreeUnits ==
  ASSUME CInv, DispatchAssumption, UnitRowsOK, NEW p \in Procs,
         \/ RereadVersion(p) \/ LostCAS(p) \/ UpdateIncident(p) \/ OldEnded(p) \/ LockOld(p)
         \/ IncidentOpen(p)
  PROVE  Own(p)
<1>1. TypeOK /\ UnlockedClean /\ UnitRowsOf(p) /\ None \notin Procs
  BY DEF CInv, IInv, UnitRowsOK, UnlockedClean, DispatchAssumption
<1>2. /\ UNCHANGED <<unitLock, unitNew>>
      /\ pc[p] \in {"read", "cas", "patch", "attempt", "incident"}
      /\ pc[p] = "incident" => req[p].kind = "optimistic"
      /\ pc'[p] \notin Writing
  BY <1>1 DEF RereadVersion, LostCAS, UpdateIncident, OldEnded, LockOld, IncidentOpen, End, NextAttempt,
         Goto, TypeOK, unitVars, Writing, InFlight
<1>3. \A u \in Units : unitLock'[u] # p
  BY <1>1, <1>2 DEF UnitRowsOf, Writing, InFlight
<1>4. pc'[p] = "incident" => req'[p].kind = "optimistic"
  <2>1. ASSUME pc'[p] = "incident"
        PROVE  /\ pc[p] = "read"
               /\ req'[p] = [req[p] EXCEPT !.attempt = req[p].attempt + 1,
                                          !.version = unitVersion[req[p].unit]]
    BY <1>1, <2>1 DEF RereadVersion, LostCAS, UpdateIncident, OldEnded, LockOld, IncidentOpen, End,
       NextAttempt, Goto, TypeOK
  <2>2. pc[p] = "read" => req[p].kind = "optimistic"
    BY DEF CInv, IInv, LocalsOK, LocalsOf
  <2>3. QED
    BY <1>1, <2>1, <2>2, LocalTypes DEF Requests
<1>5. QED
  BY <1>1, <1>2, <1>3, <1>4, NoUnits

\* The statements that write the unit a reservation takes.
LEMMA MarkUnits ==
  ASSUME CInv, DispatchAssumption, UnitRowsOK, NEW p \in Procs, MarkReserved(p) \/ MarkReservedCAS(p)
  PROVE  Own(p)
<1>1. TypeOK /\ UnlockedClean /\ UnitRowsOf(p) /\ None \notin Procs /\ LocalsOf(p) /\ UnitsOf(p)
  BY DEF CInv, IInv, UnitRowsOK, UnlockedClean, DispatchAssumption, LocalsOK, HandlersOK, HandlerOK
<1>2. PICK u \in Units : u = req[p].unit /\ req[p].kind \in {"reserve", "optimistic"}
  BY <1>1 DEF MarkReserved, MarkReservedCAS, LocalsOf
<1>3. /\ pc'[p] = "insert" /\ req' = req /\ unitLock[u] \in {None, p}
      /\ unitLock' = [unitLock EXCEPT ![u] = p] /\ unitNew' = [unitNew EXCEPT ![u] = "reserved"]
  <2>1. CASE MarkReserved(p)
    <3>1. unitLock[u] = p
      BY <1>1, <1>2, <2>1 DEF MarkReserved, UnitsOf, Taken
    <3>2. QED
      BY <1>1, <1>2, <2>1, <3>1 DEF MarkReserved, Goto, TypeOK
  <2>2. CASE MarkReservedCAS(p)
    BY <1>1, <1>2, <2>2 DEF MarkReservedCAS, Goto, TypeOK
  <2>3. QED
    BY <2>1, <2>2
<1>4. \A v \in Units : unitLock[v] = p => v = u
  BY <1>1, <1>2 DEF UnitRowsOf, Inserting
<1>5. \A v \in Units : unitLock'[v] = p => v = u
  BY <1>1, <1>3, <1>4 DEF TypeOK
<1>6. unitNew'[u] = "reserved"
  BY <1>1, <1>3 DEF TypeOK
<1>7. UnitRowsOf(p)'
  BY <1>2, <1>3, <1>5, <1>6 DEF UnitRowsOf, Writing, InFlight, Inserting
<1>8. UnitsKept(p) /\ UnlockedClean'
  BY <1>1, <1>3 DEF UnitsKept, UnlockedClean, TypeOK
<1>9. QED
  BY <1>7, <1>8 DEF Own

\* The statements after the units have been written.
LEMMA LaterUnits ==
  ASSUME CInv, DispatchAssumption, UnitRowsOK, CommittedKept, NEW p \in Procs,
         InsertDispatch(p) \/ MarkDispatched(p) \/ CountActive(p) \/ SettleIncident(p)
  PROVE  Own(p)
<1>1. TypeOK /\ UnlockedClean /\ UnitRowsOf(p) /\ None \notin Procs /\ WritesOf(p) /\ LocalsOf(p)
  BY DEF CInv, IInv, UnitRowsOK, UnlockedClean, DispatchAssumption, HandlersOK, HandlerOK, LocalsOK
<1>2. /\ UNCHANGED <<unitLock, unitNew, req>> /\ pc[p] \in Writing /\ pc'[p] \in InFlight
      /\ pc[p] \in InFlight \/ req[p].kind \in Inserting
  BY <1>1 DEF InsertDispatch, MarkDispatched, CountActive, SettleIncident, Goto, TypeOK, unitVars,
              Writing, InFlight, LocalsOf
<1>3. req[p].kind \in {"reroute", "preempt", "advance"} => Old(p)' = Old(p)
  <2>1. Reassigning(p) => req[p].disp # None
    BY <1>2, HandlerUnits
  <2>2. QED
    BY <1>2, <2>1, OldUnit DEF Old, CommittedKept, Reassigning
<1>4. UnitRowsOf(p)'
  BY <1>1, <1>2, <1>3 DEF UnitRowsOf, Writing, Inserting
<1>5. UnitsKept(p) /\ UnlockedClean'
  BY <1>1, <1>2 DEF UnitsKept, UnlockedClean
<1>6. QED
  BY <1>4, <1>5 DEF Own

\* Mirroring the phase onto the unit.
LEMMA SyncUnits ==
  ASSUME CInv, DispatchAssumption, UnitRowsOK, NEW p \in Procs, SyncUnit(p)
  PROVE  Own(p)
<1>1. TypeOK /\ UnlockedClean /\ UnitRowsOf(p) /\ None \notin Procs /\ WritesOf(p)
  BY DEF CInv, IInv, UnitRowsOK, UnlockedClean, DispatchAssumption, HandlersOK, HandlerOK
<1>2. pc[p] = "sync" /\ req[p].kind = "advance"
  BY <1>1 DEF SyncUnit, WritesOf
<1>3. PICK u \in Units : u = Old(p)
  BY <1>2, OldUnit
<1>4. /\ pc'[p] \in InFlight /\ req' = req /\ Old(p)' = u
      /\ unitLock[u] = None /\ unitLock' = [unitLock EXCEPT ![u] = p]
      /\ unitNew' = [unitNew EXCEPT ![u] = UnitStatusForDispatch(req[p].to)]
  BY <1>1, <1>3 DEF SyncUnit, Goto, TypeOK, Old, dispVars, InFlight
<1>5. \A v \in Units : unitLock'[v] = p => v = u
  BY <1>1, <1>2, <1>4 DEF TypeOK, UnitRowsOf, Writing, InFlight
<1>6. unitLock'[u] = p /\ unitNew'[u] = UnitStatusForDispatch(req[p].to)
  BY <1>1, <1>4 DEF TypeOK
<1>7. UnitRowsOf(p)'
  BY <1>2, <1>4, <1>5, <1>6 DEF UnitRowsOf, Writing, InFlight, Inserting
<1>8. UnitsKept(p) /\ UnlockedClean'
  BY <1>1, <1>4 DEF UnitsKept, UnlockedClean, TypeOK
<1>9. QED
  BY <1>7, <1>8 DEF Own

\* Locking the units of a reassignment.
LEMMA LockUnits ==
  ASSUME CInv, DispatchAssumption, UnitRowsOK, NEW p \in Procs, LockFirst(p) \/ LockSecond(p)
  PROVE  Own(p)
<1>1. TypeOK /\ UnlockedClean /\ UnitRowsOf(p) /\ None \notin Procs /\ LocalsOf(p) /\ UnitsOf(p)
  BY DEF CInv, IInv, UnitRowsOK, UnlockedClean, DispatchAssumption, LocalsOK, HandlersOK, HandlerOK
<1>2. Reassigning(p) /\ pc[p] \in {"first", "second"}
  BY <1>1 DEF LockFirst, LockSecond, LocalsOf
<1>3. /\ FirstUnit(p) \in Units /\ SecondUnit(p) \in Units
      /\ req[p].kind = "reroute" => ~SameUnit(p)
  BY <1>2, BeforeCancel DEF TargetOK, SameUnit, CInv, HandlersOK
<1>4. PICK w \in Units :
        /\ w = IF LockFirst(p) THEN FirstUnit(p) ELSE SecondUnit(p)
        /\ unitLock[w] = None /\ unitLock' = [unitLock EXCEPT ![w] = p] /\ unitNew' = unitNew
        /\ req' = req /\ Old(p)' = Old(p) /\ pc'[p] \in {"second", "incident"}
        /\ w \in {req[p].unit, Old(p)}
  BY <1>1, <1>3 DEF LockFirst, LockSecond, Goto, TypeOK, Old, dispVars, FirstUnit, SecondUnit
<1>5. unitNew[w] = Clean
  BY <1>1, <1>4 DEF UnlockedClean
<1>6. \A u \in Units : unitLock'[u] = p => u \in {req[p].unit, Old(p)} /\ unitNew'[u] = Clean
  BY <1>1, <1>2, <1>4, <1>5 DEF UnitRowsOf, TypeOK, Writing, InFlight
<1>7. req[p].kind = "reroute" /\ pc'[p] = "incident" => unitLock'[Old(p)] = p
  <2>1. SUFFICES ASSUME req[p].kind = "reroute", pc'[p] = "incident"
                 PROVE  unitLock'[Old(p)] = p
    OBVIOUS
  <2>2. LockSecond(p) /\ pc[p] = "second"
    BY <1>1, <1>3, <2>1 DEF LockFirst, LockSecond, Goto, TypeOK
  <2>3. w = SecondUnit(p) /\ unitLock[FirstUnit(p)] = p
    BY <1>1, <1>4, <2>1, <2>2 DEF LockFirst, UnitsOf
  <2>4. Old(p) \in {FirstUnit(p), SecondUnit(p)}
    BY DEF Old, FirstUnit, SecondUnit
  <2>5. QED
    BY <1>1, <1>3, <1>4, <2>3, <2>4 DEF TypeOK
<1>8. UnitRowsOf(p)'
  BY <1>2, <1>4, <1>6, <1>7 DEF UnitRowsOf, Reassigning, Writing, InFlight, Inserting
<1>9. UnitsKept(p) /\ UnlockedClean'
  BY <1>1, <1>4 DEF UnitsKept, UnlockedClean, TypeOK
<1>10. QED
  BY <1>8, <1>9 DEF Own

\* Freeing the old unit and reserving the new one.
LEMMA MoveUnitRows ==
  ASSUME CInv, DispatchAssumption, UnitRowsOK, NEW p \in Procs, CancelOld(p)
  PROVE  Own(p)
<1>1. TypeOK /\ UnlockedClean /\ UnitRowsOf(p) /\ None \notin Procs /\ UnitsOf(p)
  BY DEF CInv, IInv, UnitRowsOK, UnlockedClean, DispatchAssumption, HandlersOK, HandlerOK
<1>2. /\ pc[p] = "incident" /\ pc'[p] = "insert" /\ Reassigning(p) /\ Reassigning(p)'
      /\ UNCHANGED <<req, unitLock>> /\ Old(p)' = Old(p) /\ unitNew' = MoveUnits(p)
  BY <1>1 DEF CancelOld, Goto, TypeOK, Old, Reassigning
<1>3. /\ req[p].unit \in Units /\ Old(p) \in Units
      /\ req[p].kind = "reroute" => req[p].unit # Old(p)
      /\ req[p].kind = "preempt" => req[p].unit = Old(p)
  BY <1>2, BeforeCancel DEF TargetOK, Old, CInv, HandlersOK
<1>4. CASE req[p].kind = "reroute"
  <2>1. unitNew' = [unitNew EXCEPT ![Old(p)] = "available", ![req[p].unit] = "reserved"]
    BY <1>2, <1>3, <1>4 DEF MoveUnits, SameUnit, Old
  <2>2. unitNew'[req[p].unit] = "reserved" /\ unitNew'[Old(p)] = "available"
    BY <1>1, <1>3, <1>4, <2>1 DEF TypeOK
  <2>3. unitLock[req[p].unit] = p /\ unitLock[Old(p)] = p
    BY <1>1, <1>2, <1>4 DEF UnitsOf, Taken, UnitRowsOf
  <2>4. UnitRowsOf(p)'
    BY <1>1, <1>2, <1>4, <2>2, <2>3 DEF UnitRowsOf, Writing, InFlight, Inserting
  <2>5. UnitsKept(p) /\ UnlockedClean'
    BY <1>1, <1>2, <1>3, <2>1, <2>3 DEF UnitsKept, UnlockedClean, TypeOK
  <2>6. QED
    BY <2>4, <2>5 DEF Own
<1>5. CASE req[p].kind = "preempt"
  <2>1. unitNew' = unitNew
    BY <1>2, <1>3, <1>5 DEF MoveUnits, SameUnit, Old
  <2>2. UnitRowsOf(p)'
    BY <1>1, <1>2, <1>5, <2>1 DEF UnitRowsOf, Writing, InFlight, Inserting
  <2>3. QED
    BY <1>1, <1>2, <2>1, <2>2 DEF Own, UnitsKept, UnlockedClean
<1>6. QED
  BY <1>2, <1>4, <1>5 DEF Reassigning

\* Every further statement of a request.
LEMMA StepUnits ==
  ASSUME CInv, DispatchAssumption, UnitRowsOK, CommittedKept, NEW p \in Procs, Step(p)
  PROVE  Own(p)
<1>1. TypeOK /\ UnlockedClean
  BY DEF CInv, IInv, UnitRowsOK, UnlockedClean
<1>2. ASSUME ReleaseLocks(p), pc'[p] \in {"idle", "attempt"}
      PROVE  Own(p)
  BY <1>1, <1>2, ReleasedUnits, NoUnits DEF Writing, InFlight
<1>3. CASE IncidentClosed(p) \/ InsertConflict(p) \/ UnitTaken(p)
  BY <1>1, <1>2, <1>3 DEF IncidentClosed, InsertConflict, UnitTaken, Fail, Rollback, End,
                          NextAttempt, Goto, TypeOK
<1>4. CASE Commit(p)
  BY <1>1, <1>2, <1>4 DEF Commit, End, Goto, TypeOK
<1>5. QED
  BY <1>3, <1>4, FreeUnits, MarkUnits, LaterUnits, SyncUnits, LockUnits, MoveUnitRows DEF Step

\* Every step keeps what the handlers know of the units.
LEMMA NextUnits ==
  ASSUME CInv, DispatchAssumption, UnitRowsOK, [Next]_vars
  PROVE  UnitRowsOK'
<1>1. /\ IInv /\ TypeOK /\ UnlockedClean /\ CommittedKept
      /\ \A p \in Procs : UnitRowsOf(p)
  BY OnlyCommits DEF CInv, IInv, UnitRowsOK, UnlockedClean
<1>2. ASSUME NEW p \in Procs, Frame(p), Own(p)
      PROVE  UnitRowsOK'
  <2>1. \A q \in Procs : q # p => UnitRowsOf(q)'
    BY <1>1, <1>2, OthersUnitRows DEF Own
  <2>2. QED
    BY <1>2, <2>1 DEF Own, UnitRowsOK, UnlockedClean
<1>3. ASSUME NEW p \in Procs, Arrive(p) \/ Step(p)
      PROVE  UnitRowsOK'
  <2>1. Frame(p)
    BY <1>1, <1>3, HandlerStep
  <2>2. Own(p)
    BY <1>1, <1>3, ArriveUnits, StepUnits
  <2>3. QED
    BY <1>2, <2>1, <2>2
<1>4. ASSUME NEW p \in Procs, Rollback(p), End(p)
      PROVE  UnitRowsOK'
  <2>1. Frame(p)
    BY <1>1, <1>4, RollbackFrame
  <2>2. ReleaseLocks(p) /\ pc'[p] = "idle"
    BY <1>1, <1>4 DEF Rollback, End, Goto, TypeOK
  <2>3. Own(p)
    BY <1>1, <2>2, ReleasedUnits, NoUnits DEF Writing, InFlight
  <2>4. QED
    BY <1>2, <2>1, <2>3
<1>5. CASE UNCHANGED <<unitLock, unitNew, dispVars, pc, req>>
  BY <1>1, <1>5 DEF UnitRowsOK, UnlockedClean, UnitRowsOf, Old, dispVars
<1>6. ASSUME NEW u \in Units, NEW status \in UnitStatuses, OverrideUnit(u, status)
      PROVE  UnitRowsOK'
  BY <1>5, <1>6 DEF OverrideUnit
<1>7. CASE UNCHANGED vars
  BY <1>5, <1>7 DEF vars, unitVars
<1>8. QED
  BY <1>3, <1>4, <1>6, <1>7 DEF Next, DeadlockVictim, Crash

UInv == CInv /\ UnitRowsOK

\* Every reachable state satisfies the invariant.
LEMMA UnitInvariance == Spec => []UInv
<1>1. Init => UInv
  <2>1. Init => CInv
    BY InitInv, InitHandlers, DispatchAssumption DEF CInv
  <2>2. Init => UnitRowsOK
    BY DispatchAssumption DEF Init, UnitRowsOK, UnitRowsOf, NoReq, Writing, InFlight, DispatchAssumption
  <2>3. QED
    BY <2>1, <2>2 DEF UInv
<1>2. UInv /\ [Next]_vars => UInv'
  <2>1. CInv /\ [Next]_vars => CInv'
    BY NextInv, NextHandlers, DispatchAssumption DEF CInv
  <2>2. QED
    BY <2>1, NextUnits, DispatchAssumption DEF UInv
<1>3. QED
  BY <1>1, <1>2, PTL DEF Spec

-----------------------------------------------------------------------------
(* The statuses.                                                            *)

\* What a commit does to the units.
LEMMA CommitUnits ==
  ASSUME UInv, DispatchAssumption, NEW p \in Procs, Commit(p), NEW u \in Units
  PROVE  /\ Books(p) => unitStatus'[u] = IF u = req[p].unit THEN "reserved" ELSE unitStatus[u]
         /\ Replaces(p) /\ req[p].kind = "reroute" =>
              unitStatus'[u] = CASE u = req[p].unit -> "reserved"
                                 [] u # req[p].unit /\ u = Old(p) -> "available"
                                 [] OTHER -> unitStatus[u]
         /\ Replaces(p) /\ req[p].kind = "preempt" => unitStatus'[u] = unitStatus[u]
         /\ Advances(p) =>
              unitStatus'[u] = IF u = Old(p) THEN UnitStatusForDispatch(req[p].to) ELSE unitStatus[u]
<1>1. /\ TypeOK /\ UnitRowsOf(p) /\ UnitsOf(p) /\ pc[p] \in InFlight /\ pc[p] \in Writing
  BY DEF UInv, CInv, IInv, UnitRowsOK, HandlersOK, HandlerOK, Commit, InFlight, Writing
<1>2. unitStatus'[u] = IF unitLock[u] = p /\ unitNew[u] # Clean THEN unitNew[u] ELSE unitStatus[u]
  BY <1>1 DEF Commit, Written, TypeOK
<1>3. ASSUME Books(p)
      PROVE  unitStatus'[u] = IF u = req[p].unit THEN "reserved" ELSE unitStatus[u]
  <2>1. /\ req[p].kind \in {"reserve", "optimistic"} /\ unitLock[req[p].unit] = p
        /\ unitNew[req[p].unit] = "reserved"
    BY <1>1, <1>3 DEF Books, UnitsOf, Taken, UnitRowsOf
  <2>2. unitLock[u] = p => u = req[p].unit
    BY <1>1, <2>1 DEF UnitRowsOf
  <2>3. QED
    BY <1>2, <2>1, <2>2 DEF Clean
<1>4. ASSUME Replaces(p), req[p].kind = "reroute"
      PROVE  unitStatus'[u] = CASE u = req[p].unit -> "reserved"
                                [] u # req[p].unit /\ u = Old(p) -> "available"
                                [] OTHER -> unitStatus[u]
  <2>1. /\ unitLock[req[p].unit] = p /\ unitNew[req[p].unit] = "reserved"
        /\ unitLock[Old(p)] = p /\ unitNew[Old(p)] = "available"
    BY <1>1, <1>4 DEF UnitsOf, Taken, UnitRowsOf
  <2>2. unitLock[u] = p => u \in {req[p].unit, Old(p)}
    BY <1>1, <1>4 DEF UnitRowsOf
  <2>3. QED
    BY <1>2, <2>1, <2>2 DEF Clean
<1>5. ASSUME Replaces(p), req[p].kind = "preempt"
      PROVE  unitStatus'[u] = unitStatus[u]
  BY <1>1, <1>2, <1>5 DEF UnitRowsOf
<1>6. ASSUME Advances(p)
      PROVE  unitStatus'[u] = IF u = Old(p) THEN UnitStatusForDispatch(req[p].to) ELSE unitStatus[u]
  <2>1. /\ req[p].kind = "advance" /\ unitLock[Old(p)] = p
        /\ unitNew[Old(p)] = UnitStatusForDispatch(req[p].to)
    BY <1>1, <1>6 DEF Advances, UnitRowsOf
  <2>2. unitLock[u] = p => u = Old(p)
    BY <1>1, <2>1 DEF UnitRowsOf, Inserting
  <2>3. UnitStatusForDispatch(req[p].to) # Clean
    BY DEF UnitStatusForDispatch, IsActiveDispatch, ActiveStatuses, Clean
  <2>4. QED
    BY <1>2, <2>1, <2>2, <2>3
<1>7. QED
  BY <1>3, <1>4, <1>5, <1>6

\* Without overrides, only commits change what a unit or a dispatch shows.
LEMMA QuietStatuses ==
  ASSUME CInv, DispatchAssumption, "override" \notin Ops, [Next]_vars
  PROVE  \/ UNCHANGED <<unitStatus, dStatus, outbox>>
         \/ \E p \in Procs : Commit(p)
<1>1. ASSUME NEW p \in Procs, Step(p)
      PROVE  UNCHANGED unitStatus \/ Commit(p)
  BY <1>1 DEF Step, RereadVersion, IncidentClosed, MarkReserved, IncidentOpen, MarkReservedCAS,
              LostCAS, InsertDispatch, InsertConflict, MarkDispatched, CountActive,
              SettleIncident, SyncUnit, LockOld, OldEnded, LockFirst, LockSecond, UnitTaken,
              CancelOld, UpdateIncident, Fail, Rollback, unitVars
<1>2. ASSUME NEW p \in Procs, Arrive(p)
      PROVE  UNCHANGED unitStatus
  BY <1>2 DEF Arrive, LockForReserve, ReadVersion, AdvanceStatus, Reroute, Preempt,
              StartReassign, CheckTransition, unitVars
<1>3. UNCHANGED unitStatus \/ \E p \in Procs : Commit(p)
  BY <1>1, <1>2 DEF Next, vars, unitVars, DeadlockVictim, Crash, OverrideUnit, Rollback
<1>4. QED
  BY <1>3, OnlyCommits

\* Who holds which unit after a commit.
LEMMA CommitHolders ==
  ASSUME CInv, DispatchAssumption, NEW p \in Procs, Commit(p), NEW d \in Dispatches, NEW u \in Units
  PROVE  /\ Books(p) => (Holds(d, u)' <=> Holds(d, u) \/ (d = req[p].new /\ u = req[p].unit))
         /\ Replaces(p) =>
             (Holds(d, u)' <=> (Holds(d, u) /\ d # req[p].disp) \/ (d = req[p].new /\ u = req[p].unit))
         /\ Advances(p) => (Holds(d, u)' <=>
                             Holds(d, u) /\ (d = req[p].disp => IsActiveDispatch(req[p].to)))
<1>1. dUnit'[d] = dUnit[d]
  BY CommitRow DEF CInv, IInv
<1>2. /\ ~IsActiveDispatch("none") /\ ~IsActiveDispatch("cancelled") /\ IsActiveDispatch("reserved")
      /\ \A from, to : CanTransitionDispatch(from, to) => IsActiveDispatch(from)
  BY DEF IsActiveDispatch, ActiveStatuses, CanTransitionDispatch, allowedDispatchTransitions
<1>3. ASSUME Books(p)
      PROVE  Holds(d, u)' <=> Holds(d, u) \/ (d = req[p].new /\ u = req[p].unit)
  BY <1>1, <1>2, <1>3 DEF Books, Inserts, Holds
<1>4. ASSUME Replaces(p)
      PROVE  Holds(d, u)' <=> (Holds(d, u) /\ d # req[p].disp) \/ (d = req[p].new /\ u = req[p].unit)
  BY <1>1, <1>2, <1>4 DEF Replaces, Inserts, Holds
<1>5. ASSUME Advances(p)
      PROVE  Holds(d, u)' <=> Holds(d, u) /\ (d = req[p].disp => IsActiveDispatch(req[p].to))
  BY <1>1, <1>2, <1>5 DEF Advances, Holds
<1>6. QED
  BY <1>3, <1>4, <1>5

\* The dispatch a transaction replaces or advances holds its unit until the commit.
LEMMA OldHolds ==
  ASSUME CInv, DispatchAssumption, NEW p \in Procs, Replaces(p) \/ Advances(p)
  PROVE  req[p].disp \in Dispatches /\ Old(p) \in Units /\ Holds(req[p].disp, Old(p))
<1>1. req[p].disp \in Dispatches /\ IsActiveDispatch(dStatus[req[p].disp])
  BY DEF Replaces, Advances, CanTransitionDispatch, allowedDispatchTransitions, IsActiveDispatch,
         ActiveStatuses
<1>2. QED
  BY <1>1 DEF Old, Holds, CInv, IInv, RowsOK, RowOK, IsActiveDispatch, ActiveStatuses

\* A commit frees and takes units together with their dispatches.
LEMMA CommitAvailable ==
  ASSUME UInv, IInv', DispatchAssumption, AvailableIffUnheld, NEW p \in Procs, Commit(p)
  PROVE  AvailableIffUnheld'
<1>1. CInv /\ NoDoubleBooking /\ NoDoubleBooking'
  BY DEF UInv, CInv, IInv
<1>2. SUFFICES ASSUME NEW u \in Units
               PROVE  unitStatus'[u] = "available" <=> \A d \in Dispatches : ~Holds(d, u)'
  BY DEF AvailableIffUnheld
<1>3. unitStatus[u] = "available" <=> \A d \in Dispatches : ~Holds(d, u)
  BY DEF AvailableIffUnheld
<1>4. CASE Books(p)
  <2>1. /\ unitStatus'[u] = IF u = req[p].unit THEN "reserved" ELSE unitStatus[u]
        /\ \A d \in Dispatches :
             Holds(d, u)' <=> Holds(d, u) \/ (d = req[p].new /\ u = req[p].unit)
        /\ req[p].new \in Dispatches
    BY <1>1, <1>4, CommitUnits, CommitHolders DEF Books, Inserts
  <2>2. QED
    BY <1>3, <2>1
<1>5. CASE Replaces(p)
  <2>1. /\ \A d \in Dispatches :
             Holds(d, u)' <=> (Holds(d, u) /\ d # req[p].disp) \/ (d = req[p].new /\ u = req[p].unit)
        /\ req[p].new \in Dispatches
    BY <1>1, <1>5, CommitHolders DEF Replaces, Inserts
  <2>2. /\ req[p].disp \in Dispatches /\ Old(p) \in Units /\ Holds(req[p].disp, Old(p))
        /\ \A d \in Dispatches : Holds(d, Old(p)) => d = req[p].disp
        /\ \A v \in Units : Holds(req[p].disp, v) => v = Old(p)
    BY <1>1, <1>5, OldHolds DEF NoDoubleBooking, Holds
  <2>3. CASE req[p].kind = "reroute"
    <3>1. /\ unitStatus'[u] = CASE u = req[p].unit -> "reserved"
                                 [] u # req[p].unit /\ u = Old(p) -> "available"
                                 [] OTHER -> unitStatus[u]
      BY <1>5, <2>3, CommitUnits
    <3>2. CASE u = req[p].unit
      BY <2>1, <3>1, <3>2
    <3>3. CASE u # req[p].unit /\ u = Old(p)
      BY <2>1, <2>2, <3>1, <3>3
    <3>4. CASE u # req[p].unit /\ u # Old(p)
      BY <1>3, <2>1, <2>2, <3>1, <3>4
    <3>5. QED
      BY <3>2, <3>3, <3>4
  <2>4. CASE req[p].kind = "preempt"
    <3>1. unitStatus'[u] = unitStatus[u] /\ req[p].unit = Old(p)
      BY <1>5, <2>4, CommitUnits DEF Replaces, TargetOK, Old
    <3>2. QED
      BY <1>3, <2>1, <2>2, <3>1
  <2>5. QED
    BY <1>5, <2>3, <2>4 DEF Replaces, Reassigning
<1>6. CASE Advances(p)
  <2>1. /\ unitStatus'[u] = IF u = Old(p) THEN UnitStatusForDispatch(req[p].to) ELSE unitStatus[u]
        /\ \A d \in Dispatches : Holds(d, u)' <=>
             Holds(d, u) /\ (d = req[p].disp => IsActiveDispatch(req[p].to))
    BY <1>1, <1>6, CommitUnits, CommitHolders
  <2>2. /\ req[p].disp \in Dispatches /\ Old(p) \in Units /\ Holds(req[p].disp, Old(p))
        /\ \A d \in Dispatches : Holds(d, Old(p)) => d = req[p].disp
        /\ \A v \in Units : Holds(req[p].disp, v) => v = Old(p)
    BY <1>1, <1>6, OldHolds DEF NoDoubleBooking, Holds
  <2>3. UnitStatusForDispatch(req[p].to) = "available" <=> ~IsActiveDispatch(req[p].to)
    BY DEF UnitStatusForDispatch, IsActiveDispatch, ActiveStatuses
  <2>4. QED
    BY <1>3, <2>1, <2>2, <2>3
<1>7. QED
  BY <1>1, <1>4, <1>5, <1>6, CommitCases

\* A unit is available exactly when no dispatch holds it: reservations, reroutes,
\* preemptions, completions and cancellations write the unit in the transaction that
\* writes the dispatch, and no stale write comes in between.
THEOREM AvailabilityIsExact ==
  ASSUME "override" \notin Ops
  PROVE  Spec => []AvailableIffUnheld
<1>1. Init => AvailableIffUnheld
  BY DEF Init, AvailableIffUnheld, Holds, IsActiveDispatch, ActiveStatuses
<1>2. UInv /\ AvailableIffUnheld /\ [Next]_vars => AvailableIffUnheld'
  <2>1. SUFFICES ASSUME UInv, AvailableIffUnheld, [Next]_vars
                 PROVE  AvailableIffUnheld'
    OBVIOUS
  <2>2. CInv /\ IInv' /\ CommittedKept
    BY <2>1, NextInv, OnlyCommits, DispatchAssumption DEF UInv, CInv
  <2>3. CASE UNCHANGED <<unitStatus, dStatus, outbox>>
    <3>1. \A u \in Units, d \in Dispatches : Holds(d, u)' <=> Holds(d, u)
      BY <2>2, <2>3 DEF CommittedKept, Holds, IsActiveDispatch, ActiveStatuses
    <3>2. QED
      BY <2>1, <2>3, <3>1 DEF AvailableIffUnheld
  <2>4. QED
    BY <2>1, <2>2, <2>3, CommitAvailable, QuietStatuses, DispatchAssumption
<1>3. QED
  BY <1>1, <1>2, UnitInvariance, PTL DEF Spec

\* The unit of a dispatch shows its phase, or the dispatch preempted a unit under way,
\* which is ahead of it until it is advanced itself.
Mirrored(d) ==
  \/ unitStatus[dUnit[d]] = UnitStatusForDispatch(dStatus[d])
  \/ /\ dStatus[d] = "reserved"
     /\ unitStatus[dUnit[d]] \in {"en_route", "on_scene"}
     /\ \E e \in outbox : e.type = "preempt" /\ e.disp = d
MirroredUnlessPreempted == \A d \in Dispatches : IsActiveDispatch(dStatus[d]) => Mirrored(d)

\* A dispatch whose unit the commit leaves alone is mirrored as before.
LEMMA StaysMirrored ==
  ASSUME CInv, DispatchAssumption, NEW p \in Procs, Commit(p), NEW d \in Dispatches,
         Mirrored(d), dStatus'[d] = dStatus[d], unitStatus'[dUnit[d]] = unitStatus[dUnit[d]]
  PROVE  Mirrored(d)'
<1>1. dUnit'[d] = dUnit[d] /\ outbox \subseteq outbox'
  BY DEF Commit
<1>2. QED
  BY <1>1 DEF Mirrored

\* A commit writes the unit of the dispatch it books, moves or advances, unless it preempts.
LEMMA CommitMirrored ==
  ASSUME UInv, IInv', DispatchAssumption, MirroredUnlessPreempted, NEW p \in Procs, Commit(p),
         NEW d \in Dispatches, IsActiveDispatch(dStatus'[d])
  PROVE  Mirrored(d)'
<1>1. CInv /\ NoDoubleBooking /\ NoDoubleBooking' /\ dUnit' = dUnit
  BY DEF UInv, CInv, IInv, Commit
<1>2. /\ dUnit[d] \in Units /\ Holds(d, dUnit[d])'
      /\ \A e \in Dispatches : Holds(e, dUnit[d])' => e = d
  <2>1. Holds(d, dUnit[d])'
    BY <1>1 DEF Holds, IsActiveDispatch, ActiveStatuses
  <2>2. dUnit'[d] \in Units
    BY DEF IInv, RowsOK, RowOK, IsActiveDispatch, ActiveStatuses
  <2>3. QED
    BY <1>1, <2>1, <2>2 DEF NoDoubleBooking
<1>3. ASSUME dStatus'[d] = dStatus[d]
      PROVE  /\ Mirrored(d) /\ Holds(d, dUnit[d])
             /\ \A e \in Dispatches : Holds(e, dUnit[d]) => e = d
  <2>1. IsActiveDispatch(dStatus[d])
    BY <1>3
  <2>2. Mirrored(d) /\ Holds(d, dUnit[d])
    BY <2>1 DEF MirroredUnlessPreempted, Mirrored, Holds
  <2>3. QED
    BY <1>1, <1>2, <2>2 DEF NoDoubleBooking
<1>4. ASSUME Inserts(p), d = req[p].new
      PROVE  dUnit[d] = req[p].unit /\ dStatus'[d] = "reserved"
             /\ UnitStatusForDispatch(dStatus'[d]) = "reserved"
  BY <1>4 DEF Inserts, UnitStatusForDispatch, IsActiveDispatch, ActiveStatuses
<1>5. ASSUME Inserts(p), d # req[p].new
      PROVE  dUnit[d] # req[p].unit
  <2>1. PICK e \in Dispatches : e = req[p].new
    BY <1>5 DEF Inserts
  <2>2. dUnit[d] = dUnit[e] => Holds(e, dUnit[d])'
    BY <1>1, <1>5, <2>1 DEF Inserts, Holds, IsActiveDispatch, ActiveStatuses
  <2>3. QED
    BY <1>2, <1>5, <2>1, <2>2 DEF Inserts
<1>6. CASE Books(p)
  <2>1. unitStatus'[dUnit[d]] =
          IF dUnit[d] = req[p].unit THEN "reserved" ELSE unitStatus[dUnit[d]]
    BY <1>2, <1>6, CommitUnits
  <2>2. CASE d = req[p].new
    BY <1>1, <1>4, <1>6, <2>1, <2>2 DEF Books, Mirrored
  <2>3. CASE d # req[p].new
    BY <1>1, <1>3, <1>5, <1>6, <2>1, <2>3, StaysMirrored DEF Books
  <2>4. QED
    BY <2>2, <2>3
<1>7. CASE Replaces(p)
  <2>1. /\ Inserts(p) /\ d # req[p].disp
        /\ d # req[p].new => dStatus'[d] = dStatus[d]
    BY <1>7 DEF Replaces, IsActiveDispatch, ActiveStatuses
  <2>2. req[p].disp \in Dispatches /\ Old(p) \in Units /\ Holds(req[p].disp, Old(p))
    BY <1>1, <1>7, OldHolds
  <2>3. CASE req[p].kind = "reroute"
    <3>1. unitStatus'[dUnit[d]] = CASE dUnit[d] = req[p].unit -> "reserved"
                                    [] dUnit[d] # req[p].unit /\ dUnit[d] = Old(p) -> "available"
                                    [] OTHER -> unitStatus[dUnit[d]]
      BY <1>2, <1>7, <2>3, CommitUnits
    <3>2. CASE d = req[p].new
      BY <1>1, <1>4, <2>1, <3>1, <3>2 DEF Mirrored
    <3>3. CASE d # req[p].new
      <4>1. dUnit[d] # req[p].unit /\ dUnit[d] # Old(p)
        BY <1>3, <1>5, <2>1, <2>2, <3>3
      <4>2. unitStatus'[dUnit[d]] = unitStatus[dUnit[d]]
        BY <3>1, <4>1
      <4>3. QED
        BY <1>1, <1>3, <2>1, <3>3, <4>2, StaysMirrored
    <3>4. QED
      BY <3>2, <3>3
  <2>4. CASE req[p].kind = "preempt"
    <3>1. unitStatus'[dUnit[d]] = unitStatus[dUnit[d]] /\ req[p].unit = Old(p)
      BY <1>2, <1>7, <2>4, CommitUnits DEF Replaces, TargetOK, Old
    <3>2. CASE d = req[p].new
      <4>1. /\ Mirrored(req[p].disp) /\ IsActiveDispatch(dStatus[req[p].disp])
            /\ dUnit[d] = dUnit[req[p].disp]
        BY <1>4, <2>1, <2>2, <3>1, <3>2 DEF MirroredUnlessPreempted, Mirrored, Holds, Old
      <4>2. unitStatus[dUnit[d]] \in {"reserved", "en_route", "on_scene"}
        BY <4>1 DEF Mirrored, UnitStatusForDispatch, IsActiveDispatch, ActiveStatuses
      <4>3. Created(p) \in outbox' /\ Created(p).type = "preempt" /\ Created(p).disp = d
        BY <1>7, <2>4, <3>2, Announces DEF Created, Reassigning
      <4>4. QED
        BY <1>1, <1>4, <2>1, <3>1, <3>2, <4>2, <4>3 DEF Mirrored
    <3>3. CASE d # req[p].new
      BY <1>1, <1>3, <2>1, <3>1, <3>3, StaysMirrored
    <3>4. QED
      BY <3>2, <3>3
  <2>5. QED
    BY <1>7, <2>3, <2>4 DEF Replaces, Reassigning
<1>8. CASE Advances(p)
  <2>1. unitStatus'[dUnit[d]] =
          IF dUnit[d] = Old(p) THEN UnitStatusForDispatch(req[p].to) ELSE unitStatus[dUnit[d]]
    BY <1>2, <1>8, CommitUnits
  <2>2. req[p].disp \in Dispatches /\ Holds(req[p].disp, Old(p))
    BY <1>1, <1>8, OldHolds
  <2>3. CASE d = req[p].disp
    BY <1>1, <1>8, <2>1, <2>3 DEF Mirrored, Old, Advances
  <2>4. CASE d # req[p].disp
    <3>1. dStatus'[d] = dStatus[d]
      BY <1>8, <2>4 DEF Advances
    <3>2. dUnit[d] # Old(p)
      BY <1>3, <2>2, <2>4, <3>1
    <3>3. QED
      BY <1>1, <1>3, <2>1, <3>1, <3>2, StaysMirrored
  <2>5. QED
    BY <2>3, <2>4
<1>9. QED
  BY <1>1, <1>6, <1>7, <1>8, CommitCases

\* The unit of an active dispatch shows its phase, except that a dispatch which
\* preempted a unit under way may find it ahead until it is advanced itself: Reassign
\* leaves the row of a preempted unit alone (reassign.go, step 5).
THEOREM OnlyPreemptedAhead ==
  ASSUME "override" \notin Ops
  PROVE  Spec => []MirroredUnlessPreempted
<1>1. Init => MirroredUnlessPreempted
  BY DEF Init, MirroredUnlessPreempted, IsActiveDispatch, ActiveStatuses
<1>2. UInv /\ MirroredUnlessPreempted /\ [Next]_vars => MirroredUnlessPreempted'
  <2>1. SUFFICES ASSUME UInv, MirroredUnlessPreempted, [Next]_vars,
                        NEW d \in Dispatches, IsActiveDispatch(dStatus'[d])
                 PROVE  Mirrored(d)'
    BY DEF MirroredUnlessPreempted, Mirrored, IsActiveDispatch
  <2>2. CInv /\ IInv' /\ CommittedKept
    BY <2>1, NextInv, OnlyCommits, DispatchAssumption DEF UInv, CInv
  <2>3. CASE UNCHANGED <<unitStatus, dStatus, outbox>>
    <3>1. IsActiveDispatch(dStatus[d]) /\ Mirrored(d)
      BY <2>1, <2>3 DEF MirroredUnlessPreempted, Mirrored
    <3>2. dUnit'[d] = dUnit[d]
      BY <2>2, <3>1 DEF CommittedKept, IsActiveDispatch, ActiveStatuses
    <3>3. QED
      BY <2>3, <3>1, <3>2 DEF Mirrored
  <2>4. QED
    BY <2>1, <2>2, <2>3, CommitMirrored, QuietStatuses, DispatchAssumption
<1>3. QED
  BY <1>1, <1>2, UnitInvariance, PTL DEF Spec

\* No dispatch is announced as a preemption, and no request under way is one.
NoPreemption == (\A e \in outbox : e.type # "preempt") /\ \A p \in Procs : req[p].kind # "preempt"

\* A request is what it arrived as.
LEMMA KindsKept ==
  ASSUME TypeOK, DispatchAssumption, "preempt" \notin Ops, [Next]_vars,
         NEW q \in Procs, req[q].kind # "preempt"
  PROVE  req'[q].kind # "preempt"
<1>0. req \in [Procs -> Requests]
  BY DEF TypeOK
<1>a. ASSUME NEW p \in Procs, NEW r, r.kind # "preempt", req' = [req EXCEPT ![p] = r]
      PROVE  req'[q].kind # "preempt"
  BY <1>0, <1>a
<1>b. ASSUME NEW r \in Requests, r.kind # "preempt", NEW x, NEW y, NEW z
      PROVE  /\ [r EXCEPT !.todo = x, !.disp = y, !.unit = z].kind # "preempt"
             /\ [r EXCEPT !.disp = y, !.unit = z, !.todo = x].kind # "preempt"
             /\ [r EXCEPT !.attempt = x, !.version = y].kind # "preempt"
  BY <1>b DEF Requests
<1>1. ASSUME NEW p \in Procs, Arrive(p) PROVE req'[q].kind # "preempt"
  <2>1. ASSUME NEW u \in Units, NEW i \in Incidents, LockForReserve(p, u, i) \/ ReadVersion(p, u, i)
        PROVE  req'[q].kind # "preempt"
    <3>1. CASE LockForReserve(p, u, i)
      BY <1>a, <3>1 DEF LockForReserve, NoReq
    <3>2. CASE ReadVersion(p, u, i)
      BY <1>a, <3>2 DEF ReadVersion, NoReq
    <3>3. QED
      BY <2>1, <3>1, <3>2
  <2>2. ASSUME NEW d \in Dispatches, NEW to \in DispatchStatuses, AdvanceStatus(p, d, to)
        PROVE  req'[q].kind # "preempt"
    BY <1>a, <2>2 DEF AdvanceStatus, NoReq
  <2>3. ASSUME NEW d \in Dispatches, Reroute(p, d) PROVE req'[q].kind # "preempt"
    <3>1. PICK i, pairs : StartReassign(p, "reroute", i, pairs)
      BY <2>3 DEF Reroute
    <3>2. QED
      BY <1>a, <3>1 DEF StartReassign, NoReq
  <2>4. ASSUME NEW i \in Incidents, NEW to \in IncidentStatuses, CheckTransition(p, i, to)
        PROVE  req'[q].kind # "preempt"
    BY <1>a, <2>4 DEF CheckTransition, NoReq
  <2>5. \A i \in Incidents : ~Preempt(p, i)
    BY DEF Preempt, Begin
  <2>6. QED
    BY <1>1, <2>1, <2>2, <2>3, <2>4, <2>5 DEF Arrive
<1>2. ASSUME NEW p \in Procs, End(p) \/ \E rest : NextAttempt(p, rest)
      PROVE  req'[q].kind # "preempt"
  <2>1. CASE End(p)
    BY <1>a, <2>1 DEF End, NoReq
  <2>2. CASE \E rest : NextAttempt(p, rest)
    <3>1. CASE p = q
      BY <1>0, <1>a, <1>b, <2>2, <3>1 DEF NextAttempt
    <3>2. CASE p # q
      BY <1>0, <2>2, <3>2 DEF NextAttempt
    <3>3. QED
      BY <3>1, <3>2
  <2>3. QED
    BY <1>2, <2>1, <2>2
<1>3. ASSUME NEW p \in Procs, Step(p) PROVE req'[q].kind # "preempt"
  <2>1. CASE IncidentClosed(p) \/ InsertConflict(p) \/ UnitTaken(p)
    BY <1>2, <2>1 DEF IncidentClosed, InsertConflict, UnitTaken, Fail
  <2>2. CASE LostCAS(p) \/ OldEnded(p) \/ UpdateIncident(p) \/ Commit(p)
    BY <1>2, <2>2 DEF LostCAS, OldEnded, UpdateIncident, Commit
  <2>3. CASE RereadVersion(p) \/ LockOld(p)
    <3>1. PICK x, y, z :
            \/ req' = [req EXCEPT ![p] = [req[p] EXCEPT !.attempt = x, !.version = y]]
            \/ req' = [req EXCEPT ![p] = [req[p] EXCEPT !.disp = y, !.unit = z, !.todo = x]]
            \/ End(p)
      BY <2>3 DEF RereadVersion, LockOld
    <3>2. CASE p = q
      <4>1. /\ [req[p] EXCEPT !.attempt = x, !.version = y].kind # "preempt"
            /\ [req[p] EXCEPT !.disp = y, !.unit = z, !.todo = x].kind # "preempt"
        BY <1>0, <1>b, <3>2
      <4>2. QED
        BY <1>2, <1>a, <3>1, <4>1
    <3>3. CASE p # q
      BY <1>0, <1>2, <3>1, <3>3
    <3>4. QED
      BY <3>2, <3>3
  <2>4. CASE UNCHANGED req
    BY <2>4
  <2>5. QED
    BY <1>3, <2>1, <2>2, <2>3, <2>4
    DEF Step, MarkReserved, IncidentOpen, MarkReservedCAS, InsertDispatch, MarkDispatched,
        CountActive, SettleIncident, SyncUnit, LockFirst, LockSecond, CancelOld
<1>4. ASSUME NEW p \in Procs, DeadlockVictim(p) \/ Crash(p) PROVE req'[q].kind # "preempt"
  BY <1>2, <1>4 DEF DeadlockVictim, Crash
<1>5. ASSUME NEW u \in Units, NEW status \in UnitStatuses, OverrideUnit(u, status)
      PROVE  req'[q].kind # "preempt"
  BY <1>5 DEF OverrideUnit
<1>6. CASE UNCHANGED vars
  BY <1>6 DEF vars
<1>7. QED
  BY <1>1, <1>3, <1>4, <1>5, <1>6 DEF Next

\* Where nothing is preempted the unit of an active dispatch shows its phase, through all
\* races of reservations, advances and reroutes.
THEOREM PhasesAreMirrored ==
  ASSUME "override" \notin Ops, "preempt" \notin Ops
  PROVE  Spec => []PhaseMirrored
<1>1. Init => NoPreemption
  BY DEF Init, NoPreemption, NoReq
<1>2. UInv /\ NoPreemption /\ [Next]_vars => NoPreemption'
  <2>1. SUFFICES ASSUME UInv, NoPreemption, [Next]_vars PROVE NoPreemption'
    OBVIOUS
  <2>2. CInv /\ TypeOK
    BY <2>1 DEF UInv, CInv, IInv
  <2>3. \A q \in Procs : req'[q].kind # "preempt"
    BY <2>1, <2>2, KindsKept, DispatchAssumption DEF NoPreemption
  <2>4. ASSUME NEW p \in Procs, Commit(p)
        PROVE  \A e \in outbox' : e.type # "preempt"
    <3>1. \A e \in EventsOf(p) : e.type # "preempt"
      BY <2>1 DEF EventsOf, Reassigning, NoPreemption
    <3>2. QED
      BY <2>1, <2>4, <3>1 DEF Commit, NoPreemption
  <2>5. QED
    BY <2>1, <2>2, <2>3, <2>4, OnlyCommits, DispatchAssumption DEF NoPreemption
<1>3. MirroredUnlessPreempted /\ NoPreemption => PhaseMirrored
  BY DEF MirroredUnlessPreempted, Mirrored, NoPreemption, PhaseMirrored
<1>4. QED
  BY <1>1, <1>2, <1>3, UnitInvariance, OnlyPreemptedAhead, PTL DEF Spec

-----------------------------------------------------------------------------
(* Waiting.  Who waits for whom is settled by what each handler can have    *)
(* locked: nobody waits at the INSERT, a chain of waits for incidents       *)
(* descends in severity, and a chain of waits for units ascends in unit id. *)

\* Before its last statement a handler has at most one incident locked: the one it
\* preempts for; only a completion or a reassignment settles an incident.
IncRowsOf(p) ==
  /\ \A i \in Incidents : incLock[i] = p =>
       /\ pc[p] \in {"count", "settle", "commit"}
       /\ pc[p] # "commit" => i = req[p].inc /\ req[p].kind = "preempt"
  /\ pc[p] \in {"count", "settle"} => req[p].kind \in {"advance", "reroute", "preempt"}
  /\ pc[p] = "mark" => req[p].kind \in Inserting
  /\ pc[p] = "patch" => req[p].inc \in Incidents

\* The handlers that serve a request now.
Serving == {p \in Procs : pc[p] # "idle"}

WInv == (\A p \in Procs : IncRowsOf(p)) /\ IsFiniteSet(Serving)

\* A step of another handler leaves q's incidents alone.
IncidentsKept(p) ==
  /\ \A i \in Incidents : incLock'[i] \in {None, p, incLock[i]}
  /\ \A i \in Incidents : incLock[i] \notin {None, p} => incLock'[i] = incLock[i]

\* Releasing its locks leaves a handler no incident.
LEMMA ReleasedIncidents ==
  ASSUME TypeOK, DispatchAssumption, NEW p \in Procs, ReleaseLocks(p)
  PROVE  /\ pc'[p] \notin {"count", "settle", "mark", "patch"} => IncRowsOf(p)'
         /\ IncidentsKept(p)
<1>1. \A i \in Incidents : incLock'[i] = IF incLock[i] = p THEN None ELSE incLock[i]
  BY DEF TypeOK, ReleaseLocks, Freed
<1>2. QED
  BY <1>1 DEF IncRowsOf, IncidentsKept, DispatchAssumption

\* A statement that changes no lock of an incident, before the first is taken.
LEMMA NoIncidents ==
  ASSUME NEW p \in Procs, IncRowsOf(p), pc[p] \notin {"count", "settle", "commit"},
         UNCHANGED incLock,
         pc'[p] = "count" => req'[p].kind = "advance", pc'[p] # "settle",
         pc'[p] = "mark" => req'[p].kind \in Inserting,
         pc'[p] = "patch" => req'[p].inc \in Incidents
  PROVE  IncRowsOf(p)' /\ IncidentsKept(p)
  BY DEF IncRowsOf, IncidentsKept

\* The cascade into the incidents: only a preemption goes on after MarkDispatchedTx.
LEMMA CascadeIncidents ==
  ASSUME CInv, DispatchAssumption, NEW p \in Procs, IncRowsOf(p),
         MarkDispatched(p) \/ CountActive(p) \/ SettleIncident(p)
  PROVE  IncRowsOf(p)' /\ IncidentsKept(p)
<1>1. TypeOK /\ WritesOf(p) /\ TargetsOf(p) /\ None \notin Procs /\ None \notin Dispatches
  BY DEF CInv, IInv, HandlersOK, HandlerOK, DispatchAssumption
<1>2. CASE MarkDispatched(p)
  <2>1. /\ pc[p] = "mark" /\ req' = req
        /\ pc'[p] = IF Reassigning(p) /\ OldIncident(p) # req[p].inc THEN "count" ELSE "commit"
        /\ GuardedUpdate(p, req[p].inc, {"reported", "verified"}, "dispatched")
    BY <1>1, <1>2 DEF MarkDispatched, Goto, TypeOK
  <2>2. Reassigning(p) /\ OldIncident(p) # req[p].inc => req[p].kind = "preempt"
    <3>1. Reassigning(p) => TargetOK(req[p], req[p].disp, req[p].unit)
      BY <1>1, <2>1 DEF WritesOf, TargetsOf, InFlight
    <3>2. QED
      BY <3>1 DEF TargetOK, Reassigning, OldIncident
  <2>3. \A i \in Incidents : incLock[i] # p
    BY <2>1 DEF IncRowsOf
  <2>4. \A i \in Incidents :
          \/ incLock'[i] = incLock[i]
          \/ i = req[p].inc /\ incLock[i] = None /\ incLock'[i] = p
    BY <1>1, <2>1 DEF GuardedUpdate, TypeOK
  <2>5. IncRowsOf(p)'
    BY <2>1, <2>2, <2>3, <2>4 DEF IncRowsOf, Reassigning
  <2>6. QED
    BY <2>4, <2>5 DEF IncidentsKept
<1>3. CASE CountActive(p)
  <2>1. UNCHANGED <<incLock, req>> /\ pc[p] = "count" /\ pc'[p] \in {"settle", "commit"}
    BY <1>1, <1>3 DEF CountActive, Goto, TypeOK, incVars
  <2>2. QED
    BY <2>1 DEF IncRowsOf, IncidentsKept
<1>4. CASE SettleIncident(p)
  <2>1. pc'[p] = "commit" /\ \A i \in Incidents :
          incLock'[i] = incLock[i] \/ (incLock[i] = None /\ incLock'[i] = p)
    BY <1>1, <1>4 DEF SettleIncident, GuardedUpdate, Goto, TypeOK
  <2>2. QED
    BY <2>1 DEF IncRowsOf, IncidentsKept
<1>5. QED
  BY <1>2, <1>3, <1>4

\* Every further statement of a request.
LEMMA StepIncidents ==
  ASSUME CInv, DispatchAssumption, NEW p \in Procs, IncRowsOf(p), Step(p)
  PROVE  IncRowsOf(p)' /\ IncidentsKept(p)
<1>1. TypeOK
  BY DEF CInv, IInv
<1>2. CASE IncidentClosed(p) \/ InsertConflict(p) \/ UnitTaken(p) \/ Commit(p)
  <2>1. ReleaseLocks(p) /\ pc'[p] \in {"idle", "attempt"}
    BY <1>1, <1>2 DEF IncidentClosed, InsertConflict, UnitTaken, Commit, Fail, Rollback, End,
                      NextAttempt, Goto, TypeOK
  <2>2. QED
    BY <1>1, <2>1, ReleasedIncidents
<1>3. CASE RereadVersion(p) \/ LostCAS(p) \/ OldEnded(p) \/ MarkReserved(p) \/ IncidentOpen(p)
           \/ MarkReservedCAS(p) \/ InsertDispatch(p) \/ SyncUnit(p) \/ LockOld(p)
           \/ LockFirst(p) \/ LockSecond(p) \/ CancelOld(p) \/ UpdateIncident(p)
  <2>1. UNCHANGED incLock /\ pc[p] \notin {"count", "settle", "commit"}
    BY <1>3 DEF RereadVersion, LostCAS, OldEnded, MarkReserved, IncidentOpen, MarkReservedCAS,
       InsertDispatch, SyncUnit, LockOld, LockFirst, LockSecond, CancelOld, UpdateIncident, incVars
  <2>2. CASE SyncUnit(p)
    <3>1. WritesOf(p) /\ pc[p] = "sync" /\ req' = req
      BY <2>2 DEF CInv, HandlersOK, HandlerOK, SyncUnit
    <3>2. req'[p].kind = "advance" /\ pc'[p] \notin {"settle", "mark", "patch"}
      BY <1>1, <2>2, <3>1 DEF WritesOf, SyncUnit, Goto, TypeOK
    <3>3. QED
      BY <2>1, <3>2, NoIncidents
  <2>3. CASE InsertDispatch(p)
    <3>1. req' = req /\ pc'[p] = "mark" /\ req[p].kind \in Inserting
      BY <1>1, <2>3 DEF InsertDispatch, Goto, TypeOK, CInv, IInv, LocalsOK, LocalsOf
    <3>2. QED
      BY <2>1, <3>1, NoIncidents
  <2>4. CASE ~SyncUnit(p) /\ ~InsertDispatch(p)
    <3>1. pc'[p] \notin {"count", "settle", "mark", "patch"}
      BY <1>1, <1>3, <2>4 DEF RereadVersion, LostCAS, OldEnded, MarkReserved, IncidentOpen,
         MarkReservedCAS, LockOld, LockFirst, LockSecond, CancelOld,
         UpdateIncident, End, NextAttempt, Goto, TypeOK
    <3>2. QED
      BY <2>1, <3>1, NoIncidents
  <2>5. QED
    BY <2>2, <2>3, <2>4
<1>4. QED
  BY <1>2, <1>3, CascadeIncidents DEF Step

\* Every step keeps what the handlers have locked of the incidents, and starts at
\* most one request.
LEMMA NextWaits ==
  ASSUME CInv, DispatchAssumption, WInv, [Next]_vars
  PROVE  WInv'
<1>1. IInv /\ TypeOK /\ None \notin Procs
  BY DEF CInv, IInv, DispatchAssumption
<1>2. ASSUME NEW p \in Procs, Frame(p), IncRowsOf(p)', IncidentsKept(p)
      PROVE  WInv'
  <2>1. ASSUME NEW q \in Procs, q # p PROVE IncRowsOf(q)'
    <3>1. pc'[q] = pc[q] /\ req'[q] = req[q] /\ q # None
      BY <1>1, <1>2, <2>1 DEF Frame
    <3>2. \A i \in Incidents : incLock'[i] = q => incLock[i] = q
      BY <1>2, <2>1, <3>1 DEF IncidentsKept
    <3>3. QED
      BY <3>1, <3>2 DEF WInv, IncRowsOf
  <2>2. IsFiniteSet(Serving \cup {p})
    BY FS_AddElement DEF WInv
  <2>3. Serving' \subseteq Serving \cup {p}
    BY <1>2 DEF Serving, Frame
  <2>4. IsFiniteSet(Serving')
    BY <2>2, <2>3, FS_Subset
  <2>5. QED
    BY <1>2, <2>1, <2>4 DEF WInv
<1>3. ASSUME NEW p \in Procs, Arrive(p)
      PROVE  WInv'
  <2>1. /\ UNCHANGED incLock /\ pc[p] = "idle" /\ pc'[p] \notin {"count", "settle", "mark"}
        /\ pc'[p] = "patch" => \E i \in Incidents, to \in IncidentStatuses : CheckTransition(p, i, to)
    BY <1>1, <1>3 DEF Arrive, LockForReserve, ReadVersion, AdvanceStatus, Reroute, Preempt,
                      StartReassign, CheckTransition, Begin, Goto, TypeOK, incVars
  <2>2. \A i \in Incidents : \A to : CheckTransition(p, i, to) => req'[p].inc = i
    BY <1>1 DEF CheckTransition, TypeOK, NoReq
  <2>3. QED
    BY <1>1, <1>2, <1>3, <2>1, <2>2, HandlerStep, NoIncidents DEF WInv
<1>4. ASSUME NEW p \in Procs, Step(p)
      PROVE  WInv'
  BY <1>1, <1>2, <1>4, HandlerStep, StepIncidents DEF WInv
<1>5. ASSUME NEW p \in Procs, Rollback(p), End(p)
      PROVE  WInv'
  <2>1. ReleaseLocks(p) /\ pc'[p] = "idle" /\ Frame(p)
    BY <1>1, <1>5, RollbackFrame DEF Rollback, End, Goto, TypeOK
  <2>2. QED
    BY <1>1, <1>2, <2>1, ReleasedIncidents
<1>6. CASE UNCHANGED <<incLock, pc, req>>
  BY <1>6 DEF WInv, IncRowsOf, Serving
<1>7. QED
  BY <1>3, <1>4, <1>5, <1>6 DEF Next, DeadlockVictim, Crash, OverrideUnit, vars, incVars

-----------------------------------------------------------------------------
(* Wait cycles.                                                             *)

\* No finite set of naturals grows for ever.
LEMMA NoEndlessAscent ==
  ASSUME NEW R, IsFiniteSet(R), NEW w \in [R -> Nat],
         \A p \in R : \E q \in R : w[p] < w[q]
  PROVE  R = {}
<1> DEFINE Above(p) == {q \in R : w[p] < w[q]}
           height == [p \in R |-> Cardinality(Above(p))]
           C == {height[p] : p \in R}
           less == OpToRel(<, Nat)
<1>1. \A p \in R : IsFiniteSet(Above(p)) /\ height[p] \in Nat
  BY FS_Subset, FS_CardinalityType
<1>2. SUFFICES ASSUME R # {} PROVE FALSE
  OBVIOUS
<1>3. C \subseteq Nat /\ C # {}
  BY <1>1, <1>2
<1>4. PICK n \in C : \A m \in C : ~(<<m, n>> \in less)
  BY <1>3, NatLessThanWellFounded, WFMin
<1>5. PICK p \in R, q \in R : n = height[p] /\ w[p] < w[q]
  OBVIOUS
<1>6. Above(q) \subseteq Above(p) /\ q \in Above(p) /\ q \notin Above(q)
  BY <1>5
<1>7. height[q] < height[p]
  <2>1. Cardinality(Above(q)) <= Cardinality(Above(p)) /\ Cardinality(Above(q)) # Cardinality(Above(p))
    BY <1>1, <1>6, FS_Subset
  <2>2. Cardinality(Above(q)) \in Nat /\ Cardinality(Above(p)) \in Nat
    BY <1>1, FS_CardinalityType
  <2>3. QED
    BY <2>1, <2>2
<1>8. <<height[q], height[p]>> \in less
  BY <1>1, <1>7 DEF OpToRel
<1>9. QED
  BY <1>4, <1>5, <1>8

\* Nobody waits at the INSERT: whoever could have a row of the unit in doubt holds
\* the unit, or the dispatch that does, and so does the inserting handler.
LEMMA NobodyWaitsToInsert ==
  ASSUME UInv, DispatchAssumption, AvailableIffUnheld, NEW p \in Procs, NEW q \in Procs,
         WaitsFor(p, q)
  PROVE  pc[p] # "insert"
<1>1. SUFFICES ASSUME pc[p] = "insert" PROVE FALSE
  OBVIOUS
<1>2. /\ IInv /\ TypeOK /\ IndexOK /\ NoDoubleBooking /\ None \notin Dispatches
      /\ LocalsOf(p) /\ WritesOf(p) /\ TargetsOf(p) /\ UnitsOf(p)
      /\ LocalsOf(q) /\ WritesOf(q) /\ TargetsOf(q) /\ UnitsOf(q)
  BY DEF UInv, CInv, IInv, LocalsOK, HandlersOK, HandlerOK, DispatchAssumption
<1>3. PICK d \in Dispatches : Rival(p, d) /\ dLock[d] = q /\ dNew[d] # Clean /\ p # q
  BY <1>1 DEF WaitsFor, InDoubt
<1>4. PICK u \in Units : u = req[p].unit /\ dUnit[d] = u
  BY <1>1, <1>2, <1>3 DEF LocalsOf, Rival
<1>5. IsActiveDispatch(dStatus[d]) \/ IsActiveDispatch(dNew[d])
  BY <1>3 DEF Rival
<1>6. req[p].kind \in Inserting
  BY <1>1, <1>2 DEF LocalsOf
<1>7. RowOK(d)
  BY <1>2 DEF IInv, RowsOK
<1>8. ~Holds(d, u) => Pending(d)
  BY <1>3, <1>4, <1>5, <1>7 DEF RowOK, Pending, Holds, CanTransitionDispatch,
     allowedDispatchTransitions, IsActiveDispatch, ActiveStatuses
<1>9. ASSUME Pending(d)
      PROVE  req[q].kind \in Inserting /\ pc[q] \in InFlight /\ req[q].unit = u
  <2>1. d # req[q].disp
    BY <1>2, <1>3, <1>9 DEF Pending, WritesOf, TargetsOf, TargetOK, CanTransitionDispatch,
       allowedDispatchTransitions
  <2>2. QED
    BY <1>2, <1>3, <1>4, <2>1 DEF WritesOf
<1>10. CASE req[p].kind = "preempt"
  <2>1. PICK e \in Dispatches : e = req[p].disp /\ dLock[e] = p /\ IsActiveDispatch(dStatus[e])
    BY <1>1, <1>2, <1>10 DEF WritesOf, Reassigning
  <2>2. dUnit[e] = u
    BY <1>2, <1>4, <1>10, <2>1 DEF TargetsOf, TargetOK, Reassigning
  <2>3. ~Holds(d, u)
    BY <1>2, <1>3, <2>1, <2>2 DEF NoDoubleBooking, Holds
  <2>4. QED
    BY <1>2, <1>3, <1>4, <1>8, <2>1, <2>2, <2>3 DEF IndexOK
<1>11. CASE req[p].kind # "preempt"
  <2>1. unitLock[u] = p /\ unitStatus[u] = "available"
    BY <1>1, <1>2, <1>4, <1>6, <1>11 DEF UnitsOf, Taken, Inserting
  <2>2. \A e \in Dispatches : ~Holds(e, u)
    BY <2>1 DEF AvailableIffUnheld
  <2>3. req[q].kind \in Inserting /\ pc[q] \in InFlight /\ req[q].unit = u
    BY <1>8, <1>9, <2>2
  <2>4. CASE req[q].kind = "preempt"
    <3>1. PICK e \in Dispatches : e = req[q].disp /\ IsActiveDispatch(dStatus[e])
      BY <1>2, <2>3, <2>4 DEF WritesOf, Reassigning
    <3>2. dUnit[e] = u
      BY <1>2, <2>3, <2>4, <3>1 DEF TargetsOf, TargetOK, Reassigning
    <3>3. QED
      BY <2>2, <3>1, <3>2 DEF Holds
  <2>5. CASE req[q].kind # "preempt"
    BY <1>2, <1>3, <2>1, <2>3, <2>5 DEF UnitsOf, Taken, Inserting
  <2>6. QED
    BY <2>4, <2>5
<1>12. QED
  BY <1>10, <1>11

Waiting(p) == pc[p] \in {"first", "second", "sync", "cas", "insert", "mark", "settle", "patch"}

\* The incident a preemption settles is less severe than the one it serves.
LEMMA SettlesLessSevere ==
  ASSUME CInv, WInv, DispatchAssumption, NEW p \in Procs, pc[p] = "settle"
  PROVE  /\ OldIncident(p) \in Incidents
         /\ req[p].kind = "preempt" =>
              Severity[OldIncident(p)] < Severity[req[p].inc] /\ req[p].inc \in Incidents
<1>1. /\ LocalsOf(p) /\ WritesOf(p) /\ TargetsOf(p) /\ None \notin Dispatches /\ RowsOK
  BY DEF CInv, IInv, LocalsOK, HandlersOK, HandlerOK, DispatchAssumption
<1>2. /\ req[p].disp \in Dispatches /\ dStatus[req[p].disp] # "none"
      /\ req[p].kind \in {"advance", "reroute", "preempt"}
  BY <1>1 DEF WInv, IncRowsOf, Reassigning, WritesOf, LocalsOf, InFlight,
     CanTransitionDispatch, allowedDispatchTransitions, IsActiveDispatch, ActiveStatuses
<1>3. QED
  BY <1>1, <1>2 DEF TargetsOf, TargetOK, Reassigning, LessSevere, RowsOK, RowOK, OldIncident,
     LocalsOf, Inserting

\* A wait for a unit is for one locked by a handler that waits for its second unit, or
\* for an incident or an insert.
LEMMA UnitWait ==
  ASSUME UInv, DispatchAssumption, NEW p \in Procs, NEW q \in Procs, WaitsFor(p, q), Waiting(q),
         pc[p] \in {"first", "second", "sync", "cas"}
  PROVE  pc[q] \in {"second", "insert", "mark", "settle"}
<1>1. PICK u : unitLock[u] = q /\ u \in Units
  <2>1. CInv /\ IInv /\ HandlerOK(p) /\ LocalsOf(p) /\ WritesOf(p)
    BY DEF UInv, CInv, IInv, HandlersOK, HandlerOK, LocalsOK
  <2>2. CASE pc[p] \in {"first", "second"}
    BY <2>1, <2>2, BeforeCancel DEF WaitsFor, LocalsOf
  <2>3. CASE pc[p] = "sync"
    BY <2>1, <2>3, OldUnit DEF WaitsFor, WritesOf, Old
  <2>4. CASE pc[p] = "cas"
    BY <2>1, <2>4 DEF WaitsFor, LocalsOf
  <2>5. QED
    BY <2>2, <2>3, <2>4
<1>2. QED
  BY <1>1 DEF UInv, UnitRowsOK, UnitRowsOf, Waiting, Writing, InFlight

\* Two handlers in a row that wait for their second unit: the later waits for the unit
\* of the higher id, since each has locked its lower one.
LEMMA AscendingUnits ==
  ASSUME UInv, DispatchAssumption, NEW p \in Procs, NEW q \in Procs, NEW r \in Procs,
         pc[p] = "second", pc[q] = "second", WaitsFor(p, q), WaitsFor(q, r)
  PROVE  SecondUnit(p) < SecondUnit(q)
<1>1. CInv /\ IInv /\ HandlerOK(p) /\ HandlerOK(q) /\ LocalsOf(p) /\ LocalsOf(q) /\ UnitRowsOf(q)
  BY DEF UInv, CInv, IInv, HandlersOK, LocalsOK, UnitRowsOK
<1>2. /\ SecondUnit(p) \in Units /\ FirstUnit(q) \in Units /\ SecondUnit(q) \in Units
      /\ Old(q) \in Units /\ req[q].unit \in Units
  BY <1>1, BeforeCancel DEF LocalsOf, Old
<1>3. unitLock[SecondUnit(p)] = q /\ unitLock[SecondUnit(q)] = r /\ q # r
  BY DEF WaitsFor
<1>4. SecondUnit(p) \in {Old(q), req[q].unit}
  BY <1>1, <1>2, <1>3 DEF UnitRowsOf
<1>5. {Old(q), req[q].unit} = {FirstUnit(q), SecondUnit(q)}
  BY DEF FirstUnit, SecondUnit, Old
<1>6. SecondUnit(p) = FirstUnit(q) /\ FirstUnit(q) # SecondUnit(q)
  BY <1>3, <1>4, <1>5
<1>7. Old(q) \in Nat /\ req[q].unit \in Nat
  BY <1>2 DEF DispatchAssumption
<1>8. FirstUnit(q) <= SecondUnit(q)
  BY <1>7 DEF FirstUnit, SecondUnit, Old
<1>9. FirstUnit(q) \in Nat /\ SecondUnit(q) \in Nat
  BY <1>7 DEF FirstUnit, SecondUnit, Old
<1>10. QED
  BY <1>6, <1>8, <1>9

\* A handler that writes an incident has one.
LEMMA RequestIncident ==
  ASSUME CInv, WInv, DispatchAssumption, NEW p \in Procs, pc[p] \in {"mark", "patch"}
  PROVE  req[p].inc \in Incidents
  BY DEF CInv, IInv, LocalsOK, LocalsOf, WInv, IncRowsOf

\* In a wait cycle nobody settles an incident: each preemption in it would wait for
\* one that serves a less severe incident.
LEMMA NobodySettles ==
  ASSUME UInv, WInv, DispatchAssumption, NEW S \in SUBSET Procs, WaitCycle(S), NEW p \in S
  PROVE  pc[p] # "settle"
<1>1. CInv /\ TypeOK /\ \A q \in S : Waiting(q)
  BY DEF UInv, CInv, IInv, WaitCycle, WaitsFor, Waiting
<1>2. ASSUME NEW q \in S, pc[q] = "settle"
      PROVE  \E r \in S : /\ pc[r] = "settle" /\ req[r].kind = "preempt"
                          /\ req[r].inc = OldIncident(q)
  <2>1. PICK r \in S : WaitsFor(q, r)
    BY DEF WaitCycle
  <2>2. incLock[OldIncident(q)] = r /\ OldIncident(q) \in Incidents
    BY <1>1, <1>2, <2>1, SettlesLessSevere DEF WaitsFor
  <2>3. IncRowsOf(r) /\ Waiting(r)
    BY <1>1, <2>1 DEF WInv
  <2>4. QED
    BY <2>2, <2>3 DEF IncRowsOf, Waiting
<1> DEFINE At(n) == \E q \in S : pc[q] = "settle" /\ req[q].kind = "preempt"
                                 /\ req[q].inc \in Incidents /\ Severity[req[q].inc] = n
<1>3. ASSUME NEW n \in 1 .. 4, At(n) PROVE \E m \in 1 .. 4 : m < n /\ At(m)
  <2>1. PICK q \in S : /\ pc[q] = "settle" /\ req[q].kind = "preempt"
                       /\ req[q].inc \in Incidents /\ Severity[req[q].inc] = n
    BY <1>3
  <2>2. Severity[OldIncident(q)] < n /\ OldIncident(q) \in Incidents
    BY <1>1, <2>1, SettlesLessSevere
  <2>3. At(Severity[OldIncident(q)])
    BY <1>2, <2>1, <2>2
  <2>4. Severity[OldIncident(q)] \in 1 .. 4
    BY <2>2 DEF DispatchAssumption
  <2>5. QED
    BY <2>2, <2>3, <2>4
<1> HIDE DEF At
<1>4. ~At(1)
  BY <1>3
<1>5. ~At(2)
  BY <1>3, <1>4
<1>6. ~At(3)
  BY <1>3, <1>4, <1>5
<1>7. ~At(4)
  BY <1>3, <1>4, <1>5, <1>6
<1>8. SUFFICES ASSUME pc[p] = "settle" PROVE FALSE
  OBVIOUS
<1>9. PICK r \in S : pc[r] = "settle" /\ req[r].kind = "preempt"
  BY <1>2, <1>8
<1>10. req[r].inc \in Incidents
  BY <1>1, <1>9, SettlesLessSevere
<1>11. Severity[req[r].inc] \in 1 .. 4 /\ At(Severity[req[r].inc])
  BY <1>9, <1>10 DEF At, DispatchAssumption
<1>12. QED
  BY <1>4, <1>5, <1>6, <1>7, <1>11

\* No wait cycle: its members would all wait for units, hence each for a handler that
\* waits for its second unit, which ascend for ever.
LEMMA NoCycle ==
  ASSUME UInv, WInv, AvailableIffUnheld, DispatchAssumption
  PROVE  NoWaitCycle
<1>1. SUFFICES ASSUME NEW S \in SUBSET Procs, WaitCycle(S) PROVE FALSE
  BY DEF NoWaitCycle
<1>2. /\ CInv /\ TypeOK /\ LocalsOK /\ S # {}
      /\ \A p \in S : Waiting(p) /\ \E q \in S : WaitsFor(p, q)
  BY <1>1 DEF UInv, CInv, IInv, WaitCycle, WaitsFor, Waiting
<1>3. \A p \in S : pc[p] \notin {"insert", "settle"}
  BY <1>1, <1>2, NobodyWaitsToInsert, NobodySettles
<1>4. ASSUME NEW p \in S PROVE pc[p] \notin {"mark", "patch"}
  <2>1. SUFFICES ASSUME pc[p] \in {"mark", "patch"} PROVE FALSE
    OBVIOUS
  <2>2. PICK q \in S : WaitsFor(p, q)
    BY <1>2
  <2>3. incLock[req[p].inc] = q /\ q \in Procs /\ None \notin Procs
    BY <2>1, <2>2 DEF WaitsFor, DispatchAssumption
  <2>4. req[p].inc \in Incidents
    BY <1>2, <2>1, RequestIncident
  <2>5. pc[q] = "settle"
    BY <1>2, <2>3, <2>4 DEF WInv, IncRowsOf, Waiting
  <2>6. QED
    BY <1>3, <2>5
<1>5. \A p \in S : pc[p] \in {"first", "second", "sync", "cas"}
  BY <1>2, <1>3, <1>4 DEF Waiting
<1>6. \A p, q \in S : WaitsFor(p, q) => pc[q] = "second"
  BY <1>2, <1>3, <1>4, <1>5, UnitWait
<1> DEFINE R == {p \in S : pc[p] = "second"}
           w == [p \in R |-> SecondUnit(p)]
<1>7. R # {}
  BY <1>2, <1>6
<1>8. IsFiniteSet(R)
  <2>1. R \subseteq Serving
    BY DEF Serving
  <2>2. QED
    BY <2>1, FS_Subset DEF WInv
<1>9. w \in [R -> Nat]
  <2>1. ASSUME NEW p \in R PROVE SecondUnit(p) \in Nat
    <3>1. p \in Procs /\ HandlerOK(p) /\ LocalsOf(p) /\ IInv
      BY <1>2 DEF CInv, IInv, HandlersOK, LocalsOK
    <3>2. QED
      BY <3>1, BeforeCancel DEF LocalsOf, DispatchAssumption
  <2>2. QED
    BY <2>1
<1>10. ASSUME NEW p \in R PROVE \E q \in R : w[p] < w[q]
  <2>1. PICK q \in S, r \in S : WaitsFor(p, q) /\ WaitsFor(q, r)
    BY <1>2
  <2>2. q \in R
    BY <1>6, <2>1
  <2>3. SecondUnit(p) < SecondUnit(q)
    BY <2>1, <2>2, AscendingUnits
  <2>4. QED
    BY <2>2, <2>3
<1> HIDE DEF R, w
<1>11. QED
  BY <1>7, <1>8, <1>9, <1>10, NoEndlessAscent

\* What the handlers have locked of the incidents, in every reachable state.
LEMMA WaitInvariance == Spec => []WInv
<1>1. Init => WInv
  <2>1. Init => Serving = {}
    BY DEF Init, Serving
  <2>2. Init => \A p \in Procs : IncRowsOf(p)
    BY DispatchAssumption DEF Init, IncRowsOf, DispatchAssumption
  <2>3. QED
    BY <2>1, <2>2, FS_EmptySet DEF WInv
<1>2. CInv /\ WInv /\ [Next]_vars => WInv'
  BY NextWaits, DispatchAssumption
<1>3. UInv => CInv
  BY DEF UInv
<1>4. QED
  BY <1>1, <1>2, <1>3, UnitInvariance, PTL DEF Spec

\* No transactions ever wait for each other in a cycle, however many requests run at
\* once: units are locked in ascending order (Reassign), the insert never waits, and
\* the cascades into two incidents go from the more to the less severe one.
THEOREM NeverDeadlocked ==
  ASSUME "override" \notin Ops
  PROVE  Spec => []NoWaitCycle
<1>1. UInv /\ WInv /\ AvailableIffUnheld => NoWaitCycle
  BY NoCycle, DispatchAssumption
<1>2. Spec => []AvailableIffUnheld
  BY AvailabilityIsExact
<1>3. QED
  BY <1>1, <1>2, UnitInvariance, WaitInvariance, PTL

-----------------------------------------------------------------------------
(* Waiting is never for nothing.  The guards of p's next statement, read    *)
(* off the actions; a reassignment may have any of its candidates next.     *)

Ready(p) ==
  \/ pc[p] \in {"read", "incident", "count", "commit"}
  \/ pc[p] = "attempt" /\ req[p].todo # {} /\ \A a \in req[p].todo : dLock[a[1]] = None
  \/ pc[p] = "first" /\ unitLock[FirstUnit(p)] = None
  \/ pc[p] = "second" /\ unitLock[SecondUnit(p)] = None
  \/ pc[p] = "sync" /\ unitLock[Old(p)] = None
  \/ pc[p] = "cas" /\ (VersionUnchanged(p) => unitLock[req[p].unit] = None)
  \/ pc[p] = "insert" /\ \A d \in Dispatches : Rival(p, d) /\ InDoubt(p, d) =>
                           \E e \in Dispatches : Rival(p, e) /\ ~InDoubt(p, e)
  \/ pc[p] = "mark" /\ (incStatus[req[p].inc] \in {"reported", "verified"} =>
                          incLock[req[p].inc] = None)
  \/ pc[p] = "settle" /\ (incStatus[OldIncident(p)] = "dispatched" =>
                            incLock[OldIncident(p)] = None)
  \/ pc[p] = "patch" /\ incLock[req[p].inc] = None

\* p, which has nothing locked, queues for a dispatch q has locked.
Queues(p, q) == pc[p] = "attempt" /\ \E a \in req[p].todo : dLock[a[1]] = q

\* A request under way can go on, or it waits for another request that is under way.
WaitsExplained ==
  \A p \in Serving : Ready(p) \/ \E q \in Serving : WaitsFor(p, q) \/ Queues(p, q)

\* As long as requests are under way one of them can go on, or the deadlock detector
\* has a cycle to break.
SomeoneMoves == Serving # {} => (\E p \in Serving : Ready(p)) \/ ~NoWaitCycle

\* A reassignment that tries has candidates, and one that waits for its second unit
\* has not locked it yet.
Poised(p) ==
  /\ pc[p] = "attempt" => req[p].todo # {}
  /\ pc[p] = "second" => req[p].kind = "reroute" /\ unitLock[SecondUnit(p)] # p

\* The handler's own statements.
LEMMA StepPoised ==
  ASSUME UInv, DispatchAssumption, NEW p \in Procs, Poised(p), Arrive(p) \/ Step(p)
  PROVE  Poised(p)'
<1>1. /\ CInv /\ IInv /\ TypeOK /\ HandlerOK(p) /\ LocalsOf(p) /\ UnitRowsOf(p)
  BY DEF UInv, CInv, IInv, HandlersOK, LocalsOK, UnitRowsOK
<1>2. CASE Arrive(p)
  <2>1. pc'[p] # "second"
    BY <1>1, <1>2 DEF Arrive, LockForReserve, ReadVersion, AdvanceStatus, Reroute, Preempt,
                      StartReassign, CheckTransition, Goto, TypeOK
  <2>2. ASSUME NEW kind, NEW i, NEW pairs, StartReassign(p, kind, i, pairs)
        PROVE  req'[p].todo # {}
    BY <1>1, <2>2 DEF StartReassign, NoReq, TypeOK
  <2>3. pc'[p] = "attempt" =>
          \E kind, i, pairs : StartReassign(p, kind, i, pairs)
    BY <1>1, <1>2 DEF Arrive, LockForReserve, ReadVersion, AdvanceStatus, Reroute, Preempt,
                      CheckTransition, Goto, TypeOK
  <2>4. QED
    BY <2>1, <2>2, <2>3 DEF Poised
<1>3. CASE LockFirst(p)
  <2>1. /\ pc[p] = "first" /\ Reassigning(p) /\ UNCHANGED <<req, dUnit>>
        /\ unitLock' = [unitLock EXCEPT ![FirstUnit(p)] = p]
        /\ pc'[p] = IF SameUnit(p) THEN "incident" ELSE "second"
    BY <1>1, <1>3 DEF LockFirst, Goto, TypeOK, dispVars, LocalsOf
  <2>2. /\ SecondUnit(p) \in Units /\ FirstUnit(p) \in Units
        /\ TargetOK(req[p], req[p].disp, req[p].unit)
    BY <1>1, <2>1, BeforeCancel
  <2>3. unitLock[SecondUnit(p)] # p
    BY <1>1, <2>1, <2>2 DEF UnitRowsOf, Writing, InFlight
  <2>4. ~SameUnit(p) => /\ SecondUnit(p) # FirstUnit(p)
                        /\ req[p].kind = "reroute"
    BY <2>1, <2>2 DEF SameUnit, SecondUnit, FirstUnit, TargetOK, Reassigning
  <2>5. SecondUnit(p)' = SecondUnit(p)
    BY <2>1 DEF SecondUnit, FirstUnit
  <2>6. ~SameUnit(p) => unitLock'[SecondUnit(p)] # p
    BY <1>1, <2>1, <2>2, <2>3, <2>4 DEF TypeOK
  <2>7. QED
    BY <2>1, <2>4, <2>5, <2>6 DEF Poised
<1>4. ASSUME NEW err, Fail(p, err) PROVE Poised(p)'
  <2>1. pc'[p] # "second" /\ (pc'[p] = "attempt" => req'[p].todo # {})
    <3>1. End(p) => pc'[p] = "idle"
      BY <1>1 DEF End, Goto, TypeOK
    <3>2. NextAttempt(p, req[p].todo) => pc'[p] = "attempt" /\ req'[p].todo = req[p].todo
      BY <1>1, LocalTypes DEF NextAttempt, Goto, TypeOK, Requests
    <3>3. QED
      BY <1>4, <3>1, <3>2 DEF Fail
  <2>2. QED
    BY <2>1 DEF Poised
<1>5. CASE OldEnded(p)
  <2>1. ASSUME NEW a \in req[p].todo, req[p].todo # {a}, NextAttempt(p, req[p].todo \ {a})
        PROVE  pc'[p] = "attempt" /\ req'[p].todo # {}
    <3>1. req'[p].todo = req[p].todo \ {a} /\ pc'[p] = "attempt"
      BY <1>1, <2>1 DEF NextAttempt, Goto, TypeOK, Requests
    <3>2. QED
      BY <2>1, <3>1
  <2>2. End(p) => pc'[p] = "idle"
    BY <1>1 DEF End, Goto, TypeOK
  <2>3. QED
    BY <1>5, <2>1, <2>2 DEF OldEnded, Poised
<1>6. CASE pc'[p] \notin {"attempt", "second"}
  BY <1>6 DEF Poised
<1>7. CASE IncidentClosed(p) \/ InsertConflict(p) \/ UnitTaken(p)
  BY <1>4, <1>7 DEF IncidentClosed, InsertConflict, UnitTaken
<1>8. CASE RereadVersion(p) \/ MarkReserved(p) \/ IncidentOpen(p) \/ MarkReservedCAS(p)
           \/ LostCAS(p) \/ InsertDispatch(p) \/ MarkDispatched(p) \/ CountActive(p)
           \/ SettleIncident(p) \/ SyncUnit(p) \/ LockOld(p) \/ LockSecond(p) \/ CancelOld(p)
           \/ UpdateIncident(p) \/ Commit(p)
  <2>1. pc'[p] \notin {"attempt", "second"}
    BY <1>1, <1>8 DEF RereadVersion, MarkReserved, IncidentOpen, MarkReservedCAS, LostCAS,
       InsertDispatch, MarkDispatched, CountActive, SettleIncident, SyncUnit, LockOld,
       LockSecond, CancelOld, UpdateIncident, Commit, End, Goto, TypeOK
  <2>2. QED
    BY <1>6, <2>1
<1>9. QED
  BY <1>2, <1>3, <1>5, <1>7, <1>8 DEF Step

\* A step of p leaves the others poised.
LEMMA OthersPoised ==
  ASSUME UInv, DispatchAssumption, NEW p \in Procs, Frame(p), UnitsKept(p), CommittedKept,
         NEW q \in Procs, q # p, Poised(q)
  PROVE  Poised(q)'
<1>1. pc'[q] = pc[q] /\ req'[q] = req[q] /\ q # None
  BY DEF Frame, DispatchAssumption
<1>2. CASE pc[q] # "second"
  BY <1>1, <1>2 DEF Poised
<1>3. CASE pc[q] = "second"
  <2>1. CInv /\ IInv /\ HandlerOK(q) /\ Reassigning(q)
    BY <1>3 DEF UInv, CInv, IInv, HandlersOK, LocalsOK, LocalsOf
  <2>2. /\ req[q].disp \in Dispatches /\ SecondUnit(q) \in Units
        /\ dStatus[req[q].disp] # "none"
    BY <1>3, <2>1, BeforeCancel DEF TargetOK
  <2>3. SecondUnit(q)' = SecondUnit(q)
    BY <1>1, <2>2 DEF CommittedKept, SecondUnit, FirstUnit
  <2>4. unitLock'[SecondUnit(q)] # q
    BY <1>1, <1>3, <2>2 DEF Poised, UnitsKept
  <2>5. QED
    BY <1>1, <1>3, <2>3, <2>4 DEF Poised
<1>4. QED
  BY <1>2, <1>3

\* Every step keeps every handler poised.
LEMMA NextPoised ==
  ASSUME UInv, DispatchAssumption, \A p \in Procs : Poised(p), [Next]_vars
  PROVE  \A p \in Procs : Poised(p)'
<1>1. /\ CInv /\ IInv /\ TypeOK /\ UnitRowsOK /\ UnlockedClean /\ CommittedKept
      /\ \A p \in Procs : UnitRowsOf(p)
  BY OnlyCommits DEF UInv, CInv, IInv, UnitRowsOK, UnlockedClean
<1>2. ASSUME NEW p \in Procs, Frame(p), UnitsKept(p), Poised(p)'
      PROVE  \A q \in Procs : Poised(q)'
  BY <1>1, <1>2, OthersPoised
<1>3. ASSUME NEW p \in Procs, Arrive(p) \/ Step(p)
      PROVE  \A q \in Procs : Poised(q)'
  <2>1. Frame(p)
    BY <1>1, <1>3, HandlerStep
  <2>2. UnitsKept(p)
    BY <1>1, <1>3, ArriveUnits, StepUnits DEF Own
  <2>3. QED
    BY <1>2, <1>3, <2>1, <2>2, StepPoised
<1>4. ASSUME NEW p \in Procs, Rollback(p), End(p)
      PROVE  \A q \in Procs : Poised(q)'
  <2>1. Frame(p)
    BY <1>1, <1>4, RollbackFrame
  <2>2. ReleaseLocks(p) /\ pc'[p] = "idle"
    BY <1>1, <1>4 DEF Rollback, End, Goto, TypeOK
  <2>3. UnitsKept(p)
    BY <1>1, <2>2, ReleasedUnits, NoUnits DEF Own, Writing, InFlight
  <2>4. QED
    BY <1>2, <2>1, <2>2, <2>3 DEF Poised
<1>5. CASE UNCHANGED <<unitLock, dUnit, pc, req>>
  BY <1>5 DEF Poised, SecondUnit, FirstUnit
<1>6. QED
  BY <1>3, <1>4, <1>5 DEF Next, DeadlockVictim, Crash, OverrideUnit, vars, unitVars, dispVars

\* Whoever has a row locked is under way, and not looking for a dispatch to replace.
LEMMA HoldersServe ==
  ASSUME UInv, WInv, DispatchAssumption, NEW q \in Procs,
         \/ \E u \in Units : unitLock[u] = q
         \/ \E i \in Incidents : incLock[i] = q
         \/ \E d \in Dispatches : dLock[d] = q
  PROVE  q \in Serving /\ pc[q] # "attempt"
<1>1. /\ UnitRowsOf(q) /\ IncRowsOf(q) /\ WritesOf(q) /\ None \notin Dispatches
  BY DEF UInv, CInv, HandlersOK, HandlerOK, UnitRowsOK, WInv, DispatchAssumption
<1>2. ASSUME NEW u \in Units, unitLock[u] = q PROVE pc[q] \notin {"idle", "attempt"}
  BY <1>1, <1>2 DEF UnitRowsOf, Writing, InFlight
<1>3. ASSUME NEW i \in Incidents, incLock[i] = q PROVE pc[q] \notin {"idle", "attempt"}
  BY <1>1, <1>3 DEF IncRowsOf
<1>4. ASSUME NEW d \in Dispatches, dLock[d] = q PROVE pc[q] \notin {"idle", "attempt"}
  BY <1>1, <1>4 DEF WritesOf, InFlight
<1>5. QED
  BY <1>2, <1>3, <1>4 DEF Serving

\* A request whose statement has to wait finds the row locked by another request: never
\* by itself, and never by one that has ended.
LEMMA WaitsForHolder ==
  ASSUME UInv, WInv, DispatchAssumption, NEW p \in Procs, Poised(p), pc[p] # "idle", ~Ready(p)
  PROVE  \E q \in Serving : pc[q] # "attempt" /\ (WaitsFor(p, q) \/ Queues(p, q))
<1>1. /\ CInv /\ IInv /\ TypeOK /\ HandlerOK(p) /\ LocalsOf(p) /\ WritesOf(p) /\ TargetsOf(p)
      /\ UnitRowsOf(p) /\ IncRowsOf(p) /\ None \notin Procs
  BY DEF UInv, CInv, IInv, HandlersOK, HandlerOK, LocalsOK, UnitRowsOK, WInv, DispatchAssumption
<1>2. ASSUME NEW u \in Units, unitLock[u] \notin {None, p},
             unitLock[u] # p => WaitsFor(p, unitLock[u])
      PROVE  \E q \in Serving : pc[q] # "attempt" /\ WaitsFor(p, q)
  <2>1. unitLock[u] \in Procs
    BY <1>1, <1>2 DEF TypeOK
  <2>2. QED
    BY <1>2, <2>1, HoldersServe
<1>3. ASSUME NEW i \in Incidents, incLock[i] \notin {None, p},
             incLock[i] # p => WaitsFor(p, incLock[i])
      PROVE  \E q \in Serving : pc[q] # "attempt" /\ WaitsFor(p, q)
  <2>1. incLock[i] \in Procs
    BY <1>1, <1>3 DEF TypeOK
  <2>2. QED
    BY <1>3, <2>1, HoldersServe
<1>4. CASE pc[p] = "attempt"
  <2>1. PICK a \in req[p].todo : dLock[a[1]] # None
    BY <1>4 DEF Ready, Poised
  <2>2. a[1] \in Dispatches /\ dLock[a[1]] \in Procs
    BY <1>1, <2>1, LocalTypes DEF TypeOK, Requests
  <2>3. QED
    BY <1>4, <2>1, <2>2, HoldersServe DEF Queues
<1>5. CASE pc[p] = "first"
  <2>1. FirstUnit(p) \in Units
    BY <1>1, <1>5, BeforeCancel DEF LocalsOf
  <2>2. unitLock[FirstUnit(p)] \notin {None, p}
    BY <1>1, <1>5, <2>1 DEF Ready, UnitRowsOf, Writing, InFlight
  <2>3. QED
    BY <1>2, <1>5, <2>1, <2>2 DEF WaitsFor
<1>6. CASE pc[p] = "second"
  <2>1. SecondUnit(p) \in Units
    BY <1>1, <1>6, BeforeCancel DEF LocalsOf
  <2>2. unitLock[SecondUnit(p)] \notin {None, p}
    BY <1>6 DEF Ready, Poised
  <2>3. QED
    BY <1>2, <1>6, <2>1, <2>2 DEF WaitsFor
<1>7. CASE pc[p] = "sync"
  <2>1. Old(p) \in Units
    BY <1>1, <1>7, OldUnit DEF WritesOf
  <2>2. unitLock[Old(p)] \notin {None, p}
    BY <1>1, <1>7, <2>1 DEF Ready, UnitRowsOf, Writing, InFlight
  <2>3. QED
    BY <1>2, <1>7, <2>1, <2>2 DEF WaitsFor, Old
<1>8. CASE pc[p] = "cas"
  <2>1. req[p].unit \in Units
    BY <1>1, <1>8 DEF LocalsOf
  <2>2. VersionUnchanged(p) /\ unitLock[req[p].unit] \notin {None, p}
    BY <1>1, <1>8, <2>1 DEF Ready, UnitRowsOf, Writing, InFlight
  <2>3. QED
    BY <1>2, <1>8, <2>1, <2>2 DEF WaitsFor
<1>9. CASE pc[p] = "insert"
  <2>1. PICK d \in Dispatches : Rival(p, d) /\ InDoubt(p, d)
    BY <1>9 DEF Ready
  <2>2. dLock[d] \in Procs /\ dLock[d] # p
    BY <1>1, <2>1 DEF InDoubt, TypeOK
  <2>3. WaitsFor(p, dLock[d])
    BY <1>9, <2>1, <2>2 DEF WaitsFor
  <2>4. QED
    BY <2>2, <2>3, HoldersServe
<1>10. CASE pc[p] \in {"mark", "patch"}
  <2>1. req[p].inc \in Incidents
    BY <1>1, <1>10, RequestIncident
  <2>2. incLock[req[p].inc] \notin {None, p}
    BY <1>1, <1>10, <2>1 DEF Ready, IncRowsOf
  <2>3. WaitsFor(p, incLock[req[p].inc])
    BY <1>10, <2>2 DEF WaitsFor, Ready
  <2>4. QED
    BY <1>3, <2>1, <2>2, <2>3
<1>11. CASE pc[p] = "settle"
  <2>1. /\ OldIncident(p) \in Incidents
        /\ req[p].kind = "preempt" =>
             Severity[OldIncident(p)] < Severity[req[p].inc] /\ req[p].inc \in Incidents
    BY <1>1, <1>11, SettlesLessSevere
  <2>2. incLock[OldIncident(p)] # p
    <3>1. SUFFICES ASSUME incLock[OldIncident(p)] = p PROVE FALSE
      OBVIOUS
    <3>2. OldIncident(p) = req[p].inc /\ req[p].kind = "preempt"
      BY <1>1, <1>11, <2>1, <3>1 DEF IncRowsOf
    <3>3. Severity[req[p].inc] \in 1 .. 4 /\ Severity[req[p].inc] < Severity[req[p].inc]
      BY <2>1, <3>2 DEF DispatchAssumption
    <3>4. QED
      BY <3>3
  <2>3. incStatus[OldIncident(p)] = "dispatched" /\ incLock[OldIncident(p)] # None
    BY <1>11 DEF Ready
  <2>4. QED
    BY <1>3, <1>11, <2>1, <2>2, <2>3 DEF WaitsFor
<1>12. QED
  BY <1>1, <1>4, <1>5, <1>6, <1>7, <1>8, <1>9, <1>10, <1>11 DEF Ready, TypeOK, Steps

\* If nobody can go on, the requests that hold locks wait for each other.
LEMMA NobodyReadyCycle ==
  ASSUME UInv, WInv, DispatchAssumption, \A p \in Procs : Poised(p)
  PROVE  WaitsExplained /\ SomeoneMoves
<1>1. \A p \in Serving : ~Ready(p) =>
        \E q \in Serving : pc[q] # "attempt" /\ (WaitsFor(p, q) \/ Queues(p, q))
  BY WaitsForHolder DEF Serving
<1>2. SUFFICES ASSUME Serving # {}, \A p \in Serving : ~Ready(p) PROVE ~NoWaitCycle
  BY <1>1 DEF WaitsExplained, SomeoneMoves
<1> DEFINE S == {p \in Serving : pc[p] # "attempt"}
<1>3. S # {} /\ S \in SUBSET Procs
  BY <1>1, <1>2 DEF Serving
<1>4. \A p \in S : \E q \in S : WaitsFor(p, q)
  BY <1>1, <1>2 DEF Queues
<1>5. WaitCycle(S)
  BY <1>3, <1>4 DEF WaitCycle
<1> HIDE DEF S
<1>6. QED
  BY <1>3, <1>5 DEF NoWaitCycle

\* What the handlers know of the rows they wait for, in every reachable state.
LEMMA PoisedInvariance == Spec => [](UInv /\ WInv /\ \A p \in Procs : Poised(p))
<1>1. Init => \A p \in Procs : Poised(p)
  BY DEF Init, Poised
<1>2. UInv /\ (\A p \in Procs : Poised(p)) /\ [Next]_vars => \A p \in Procs : Poised(p)'
  BY NextPoised, DispatchAssumption
<1> DEFINE Q == \A p \in Procs : Poised(p)
<1>3. (Init => Q) /\ (UInv /\ Q /\ [Next]_vars => Q')
  BY <1>1, <1>2
<1> HIDE DEF Q
<1>4. Spec => []Q
  BY <1>3, UnitInvariance, PTL DEF Spec
<1>5. Spec => [](UInv /\ WInv /\ Q)
  BY <1>4, UnitInvariance, WaitInvariance, PTL
<1>6. QED
  BY <1>5 DEF Q

\* Whatever requests, PATCHes, overrides and crashes meet: a statement waits only for a
\* row another live request has locked, and as long as requests are under way one can
\* go on or Postgres' deadlock detector finds a cycle.  No lock is left behind and no
\* handler waits for itself.
THEOREM NothingHangs == Spec => [](WaitsExplained /\ SomeoneMoves)
<1>1. UInv /\ WInv /\ (\A p \in Procs : Poised(p)) => WaitsExplained /\ SomeoneMoves
  BY NobodyReadyCycle, DispatchAssumption
<1>2. QED
  BY <1>1, PoisedInvariance, PTL

\* Without overrides the detector is never needed: while any request is under way, one
\* of them can execute its next statement.
THEOREM SomeoneAlwaysReady ==
  ASSUME "override" \notin Ops
  PROVE  Spec => [](Serving # {} => \E p \in Serving : Ready(p))
<1>1. SomeoneMoves /\ NoWaitCycle => (Serving # {} => \E p \in Serving : Ready(p))
  BY DEF SomeoneMoves
<1>2. QED
  BY <1>1, NothingHangs, NeverDeadlocked, PTL

-----------------------------------------------------------------------------
(* Forgotten incidents.  The count of an incident's active dispatches is    *)
(* right as long as no other request ends a dispatch of the same incident   *)
(* meanwhile; what is lost otherwise is the write skew of the run           *)
(* dispatch_skew.                                                           *)

\* p ends a dispatch and then looks whether its incident has another one.
Closing(p) ==
  /\ req[p].disp # None
  /\ \/ req[p].kind = "advance" /\ req[p].to = "completed"
     \/ req[p].kind = "preempt"

\* No two requests that do so are under way for the same incident.
NoSkew == \A p, q \in Procs : p # q /\ Closing(p) /\ Closing(q) => OldIncident(p) # OldIncident(q)

\* A dispatch that keeps its incident from being forgotten.
Accounted(d) ==
  \/ IsActiveDispatch(dStatus[d])
  \/ dStatus[d] = "cancelled" /\ \A e \in outbox : e.replaced # d

\* What p has written into incidents, and, when it is about to commit the end of a
\* dispatch, why that leaves the incident in order.
Spared(p) ==
  /\ \A i \in Incidents : incLock[i] = p =>
       \/ incNew[i] = "dispatched" /\ i = req[p].inc /\ req[p].kind \in Inserting
       \/ incNew[i] \in {"resolved", "verified"}
  /\ pc[p] = "commit" /\ Closing(p) =>
       \/ \E d \in Dispatches : d # req[p].disp /\ dInc[d] = OldIncident(p) /\ Accounted(d)
       \/ incStatus[OldIncident(p)] # "dispatched"
       \/ /\ incLock[OldIncident(p)] = p
          /\ incNew[OldIncident(p)] \in {"resolved", "verified"}

\* A request that ends a dispatch has found it, and in a preemption takes its unit to
\* another incident.
LEMMA ClosingOld ==
  ASSUME CInv, DispatchAssumption, NEW p \in Procs, Closing(p)
  PROVE  /\ req[p].disp \in Dispatches /\ dStatus[req[p].disp] # "none"
         /\ OldIncident(p) \in Incidents
         /\ req[p].kind = "preempt" /\ pc[p] \in InFlight => OldIncident(p) # req[p].inc
<1>1. req[p].disp \in Dispatches /\ dStatus[req[p].disp] # "none"
  BY OldUnit DEF Closing, Reassigning
<1>2. OldIncident(p) \in Incidents
  BY <1>1 DEF CInv, IInv, RowsOK, RowOK, OldIncident
<1>3. ASSUME req[p].kind = "preempt", pc[p] \in InFlight PROVE OldIncident(p) # req[p].inc
  <2>1. LessSevere(OldIncident(p), req[p].inc) /\ req[p].inc \in Incidents
    BY <1>3 DEF CInv, IInv, HandlersOK, HandlerOK, TargetsOf, TargetOK, Closing, Reassigning,
                OldIncident, LocalsOK, LocalsOf, Inserting
  <2>2. Severity[req[p].inc] \in 1 .. 4
    BY <2>1 DEF DispatchAssumption
  <2>3. QED
    BY <2>1, <2>2 DEF LessSevere
<1>4. QED
  BY <1>1, <1>2, <1>3

\* A handler's step and the other handlers' incidents; only a commit changes a status.
LEMMA IncidentWrites ==
  ASSUME CInv, DispatchAssumption, IncidentsOpen, NEW q \in Procs,
         Arrive(q) \/ Step(q) \/ Rollback(q)
  PROVE  /\ \A i \in Incidents :
              /\ incLock'[i] \in {None, q, incLock[i]}
              /\ incLock[i] \notin {None, q} =>
                   incLock'[i] = incLock[i] /\ incNew'[i] = incNew[i]
         /\ \/ incStatus' = incStatus
            \/ /\ Commit(q)
               /\ \A i \in Incidents :
                    incStatus'[i] = IF incLock[i] = q /\ incNew[i] # Clean THEN incNew[i]
                                    ELSE incStatus[i]
<1>1. TypeOK
  BY DEF CInv, IInv
<1>2. CASE UNCHANGED incVars
  BY <1>2 DEF incVars
<1>3. CASE Rollback(q)
  BY <1>1, <1>3 DEF Rollback, ReleaseLocks, Freed, Clear, TypeOK
<1>4. CASE Commit(q)
  BY <1>1, <1>4 DEF Commit, ReleaseLocks, Freed, Clear, Written, TypeOK
<1>5. ASSUME NEW i, NEW from, NEW to, GuardedUpdate(q, i, from, to), UNCHANGED incStatus
      PROVE  \A j \in Incidents :
               /\ incLock'[j] \in {None, q, incLock[j]}
               /\ incLock[j] \notin {None, q} =>
                    incLock'[j] = incLock[j] /\ incNew'[j] = incNew[j]
  BY <1>1, <1>5 DEF GuardedUpdate, TypeOK
<1>6. CASE MarkDispatched(q) \/ SettleIncident(q)
  BY <1>5, <1>6 DEF MarkDispatched, SettleIncident
<1>7. CASE Arrive(q)
  <2>1. UNCHANGED incVars
    BY <1>7 DEF Arrive, LockForReserve, ReadVersion, AdvanceStatus, Reroute, Preempt, StartReassign,
                CheckTransition
  <2>2. QED
    BY <1>2, <2>1
<1>8. CASE Step(q)
  <2>1. ~UpdateIncident(q)
    BY DEF UpdateIncident, IncidentsOpen
  <2>2. CASE IncidentClosed(q) \/ InsertConflict(q) \/ UnitTaken(q)
    BY <1>3, <2>2 DEF IncidentClosed, InsertConflict, UnitTaken, Fail
  <2>3. CASE RereadVersion(q) \/ LostCAS(q) \/ OldEnded(q) \/ MarkReserved(q) \/ IncidentOpen(q)
             \/ MarkReservedCAS(q) \/ InsertDispatch(q) \/ CountActive(q) \/ SyncUnit(q)
             \/ LockOld(q) \/ LockFirst(q) \/ LockSecond(q) \/ CancelOld(q)
    <3>1. UNCHANGED incVars
      BY <2>3 DEF RereadVersion, LostCAS, OldEnded, MarkReserved, IncidentOpen, MarkReservedCAS,
                  InsertDispatch, CountActive, SyncUnit, LockOld, LockFirst, LockSecond, CancelOld
    <3>2. QED
      BY <1>2, <3>1
  <2>4. QED
    BY <1>4, <1>6, <1>8, <2>1, <2>2, <2>3 DEF Step
<1>9. QED
  BY <1>3, <1>7, <1>8

\* The handler's own statements: the count, and the settling after it, spare the
\* incident of the dispatch that ends.
LEMMA StepSpared ==
  ASSUME CInv, WInv, DispatchAssumption, IncidentsOpen, NEW p \in Procs, Spared(p),
         Arrive(p) \/ Step(p)
  PROVE  Spared(p)'
<1>1. /\ TypeOK /\ LocalsOf(p) /\ WritesOf(p) /\ TargetsOf(p) /\ IncRowsOf(p) /\ None \notin Procs
  BY DEF CInv, IInv, LocalsOK, HandlersOK, HandlerOK, WInv, DispatchAssumption
<1>2. ASSUME \A i \in Incidents : incLock'[i] # p, pc'[p] # "commit" PROVE Spared(p)'
  BY <1>2 DEF Spared
<1>3. ASSUME ReleaseLocks(p), pc'[p] \in {"idle", "attempt"} PROVE Spared(p)'
  <2>1. \A i \in Incidents : incLock'[i] # p
    BY <1>1, <1>3 DEF ReleaseLocks, Freed, TypeOK
  <2>2. QED
    BY <1>2, <1>3, <2>1
<1>4. CASE IncidentClosed(p) \/ InsertConflict(p) \/ UnitTaken(p) \/ Commit(p)
  <2>1. ReleaseLocks(p) /\ pc'[p] \in {"idle", "attempt"}
    BY <1>1, <1>4 DEF IncidentClosed, InsertConflict, UnitTaken, Commit, Fail, Rollback, End,
                      NextAttempt, Goto, TypeOK
  <2>2. QED
    BY <1>3, <2>1
<1>5. ASSUME UNCHANGED incVars, pc[p] \notin {"count", "settle", "commit"}, pc'[p] # "commit"
      PROVE  Spared(p)'
  BY <1>1, <1>2, <1>5 DEF IncRowsOf, incVars
<1>6. CASE Arrive(p)
  <2>1. UNCHANGED incVars /\ pc[p] = "idle" /\ pc'[p] # "commit"
    BY <1>1, <1>6 DEF Arrive, LockForReserve, ReadVersion, AdvanceStatus, Reroute, Preempt,
                      StartReassign, CheckTransition, Begin, Goto, TypeOK
  <2>2. QED
    BY <1>5, <2>1
<1>7. CASE RereadVersion(p) \/ LostCAS(p) \/ OldEnded(p) \/ MarkReserved(p) \/ IncidentOpen(p)
           \/ MarkReservedCAS(p) \/ InsertDispatch(p) \/ LockOld(p) \/ LockFirst(p)
           \/ LockSecond(p) \/ CancelOld(p)
  <2>1. /\ UNCHANGED incVars /\ pc[p] \notin {"count", "settle", "commit"}
        /\ pc'[p] # "commit"
    BY <1>1, <1>7 DEF RereadVersion, LostCAS, OldEnded, MarkReserved, IncidentOpen,
       MarkReservedCAS, InsertDispatch, LockOld, LockFirst, LockSecond, CancelOld, End,
       NextAttempt, Goto, TypeOK
  <2>2. QED
    BY <1>5, <2>1
<1>8. CASE SyncUnit(p)
  <2>1. /\ UNCHANGED <<incVars, req>> /\ pc[p] = "sync" /\ req[p].kind = "advance"
        /\ pc'[p] = "commit" => req[p].to # "completed"
    BY <1>1, <1>8 DEF SyncUnit, Goto, TypeOK, WritesOf
  <2>2. \A i \in Incidents : incLock'[i] # p
    BY <1>1, <2>1 DEF IncRowsOf, incVars
  <2>3. pc'[p] = "commit" => ~Closing(p)'
    BY <2>1 DEF Closing
  <2>4. QED
    BY <2>2, <2>3 DEF Spared
<1>9. CASE MarkDispatched(p)
  <2>1. /\ pc[p] = "mark" /\ UNCHANGED <<req, dInc>> /\ req[p].kind \in Inserting
        /\ pc'[p] = IF Reassigning(p) /\ OldIncident(p) # req[p].inc THEN "count" ELSE "commit"
        /\ GuardedUpdate(p, req[p].inc, {"reported", "verified"}, "dispatched")
    BY <1>1, <1>9 DEF MarkDispatched, Goto, TypeOK, dispVars, IncRowsOf
  <2>2. \A i \in Incidents : incLock'[i] = p => i = req[p].inc /\ incNew'[i] = "dispatched"
    BY <1>1, <2>1 DEF GuardedUpdate, TypeOK, IncRowsOf
  <2>3. ~(pc'[p] = "commit" /\ Closing(p)')
    <3>1. SUFFICES ASSUME pc'[p] = "commit", Closing(p)' PROVE FALSE
      OBVIOUS
    <3>2. Closing(p) /\ req[p].kind = "preempt"
      BY <2>1, <3>1 DEF Closing, Inserting
    <3>3. OldIncident(p) # req[p].inc
      BY <2>1, <3>2, ClosingOld DEF InFlight
    <3>4. QED
      BY <2>1, <3>1, <3>2, <3>3 DEF Reassigning
  <2>4. QED
    BY <2>1, <2>2, <2>3 DEF Spared
<1>10. CASE CountActive(p)
  <2>1. /\ pc[p] = "count" /\ pc[p] \in InFlight
        /\ UNCHANGED <<incStatus, incLock, incNew, req, dStatus, dInc, outbox>>
        /\ pc'[p] = "commit" =>
             \E d \in Dispatches : dInc[d] = OldIncident(p) /\ IsActiveDispatch(Seen(p, d))
    BY <1>1, <1>10 DEF CountActive, Goto, TypeOK, incVars, dispVars, InFlight
  <2>2. ASSUME pc'[p] = "commit", Closing(p)
        PROVE  \E d \in Dispatches : d # req[p].disp /\ dInc[d] = OldIncident(p) /\ Accounted(d)
    <3>1. PICK d \in Dispatches : dInc[d] = OldIncident(p) /\ IsActiveDispatch(Seen(p, d))
      BY <2>1, <2>2
    <3>2. req[p].disp \in Dispatches /\ (req[p].kind = "preempt" => OldIncident(p) # req[p].inc)
      BY <2>1, <2>2, ClosingOld
    <3>3. dLock[req[p].disp] = p /\ dNew[req[p].disp] \in {"completed", "cancelled"}
      BY <1>1, <2>1, <2>2 DEF Closing, WritesOf, Reassigning
    <3>4. d # req[p].disp
      BY <3>1, <3>3 DEF Seen, IsActiveDispatch, ActiveStatuses, Clean
    <3>5. dLock[d] # p
      BY <1>1, <2>1, <2>2, <3>1, <3>2, <3>4 DEF WritesOf, Closing, Inserting
    <3>6. QED
      BY <3>1, <3>4, <3>5 DEF Seen, Accounted
  <2>3. QED
    BY <2>1, <2>2 DEF Spared, Closing, Accounted, OldIncident
<1>11. CASE SettleIncident(p)
  <2>1. /\ pc[p] = "settle" /\ UNCHANGED <<req, dInc, incStatus>>
        /\ GuardedUpdate(p, OldIncident(p), {"dispatched"},
                         IF Reassigning(p) THEN "verified" ELSE "resolved")
    BY <1>11 DEF SettleIncident, dispVars
  <2>2. OldIncident(p) \in Incidents /\ OldIncident(p)' = OldIncident(p)
    BY <2>1, SettlesLessSevere DEF OldIncident
  <2>3. CASE incStatus[OldIncident(p)] = "dispatched"
    <3>1. /\ incLock' = [incLock EXCEPT ![OldIncident(p)] = p]
          /\ \E s \in {"resolved", "verified"} : incNew' = [incNew EXCEPT ![OldIncident(p)] = s]
      BY <2>1, <2>3 DEF GuardedUpdate
    <3>2. /\ incLock'[OldIncident(p)] = p /\ incNew'[OldIncident(p)] \in {"resolved", "verified"}
          /\ \A i \in Incidents \ {OldIncident(p)} :
               incLock'[i] = incLock[i] /\ incNew'[i] = incNew[i]
      BY <1>1, <2>2, <3>1 DEF TypeOK
    <3>3. QED
      BY <2>1, <2>2, <3>2 DEF Spared
  <2>4. CASE incStatus[OldIncident(p)] # "dispatched"
    BY <2>1, <2>2, <2>4 DEF GuardedUpdate, Spared
  <2>5. QED
    BY <2>3, <2>4
<1>12. ~UpdateIncident(p)
  BY DEF UpdateIncident, IncidentsOpen
<1>13. QED
  BY <1>4, <1>6, <1>7, <1>8, <1>9, <1>10, <1>11, <1>12 DEF Step

\* A commit takes away no accounted dispatch but the one it ends for good; a reroute
\* puts another in its place.
LEMMA CommitAccounts ==
  ASSUME CInv, OutboxAgrees, DispatchAssumption, NEW q \in Procs, Commit(q),
         NEW d \in Dispatches, Accounted(d), ~(Closing(q) /\ d = req[q].disp)
  PROVE  \E e \in Dispatches : /\ e = d \/ dStatus[e] = "none"
                               /\ dInc'[e] = dInc[d] /\ Accounted(e)'
<1>1. dInc' = dInc /\ None \notin Dispatches
  BY DEF Commit, DispatchAssumption
<1>2. \A e \in outbox : e.replaced # None => dStatus[e.replaced] = "cancelled"
  BY DEF OutboxAgrees
<1>3. CASE Books(q)
  <2>1. d # req[q].new /\ outbox' = outbox \cup {Created(q)} /\ Created(q).replaced = None
    BY <1>3, Announces DEF Books, Inserts, Created, Reassigning, Accounted, IsActiveDispatch,
                           ActiveStatuses
  <2>2. dStatus'[d] = dStatus[d]
    BY <1>3, <2>1 DEF Books
  <2>3. Accounted(d)'
    BY <1>1, <2>1, <2>2 DEF Accounted
  <2>4. QED
    BY <1>1, <2>3
<1>4. CASE Replaces(q)
  <2>1. d # req[q].new /\ outbox' = outbox \cup {Created(q)} /\ Created(q).replaced = req[q].disp
    BY <1>4, Announces DEF Replaces, Inserts, Created, Accounted, IsActiveDispatch,
                           ActiveStatuses
  <2>2. CASE d # req[q].disp
    <3>1. dStatus'[d] = dStatus[d]
      BY <1>4, <2>1, <2>2 DEF Replaces
    <3>2. Accounted(d)'
      BY <2>1, <2>2, <3>1 DEF Accounted
    <3>3. QED
      BY <1>1, <3>2
  <2>3. CASE d = req[q].disp
    <3>1. req[q].kind = "reroute"
      BY <1>1, <1>4, <2>3 DEF Closing, Replaces, Reassigning
    <3>2. /\ req[q].new \in Dispatches /\ dStatus[req[q].new] = "none"
          /\ dInc[req[q].new] = dInc[d] /\ dStatus'[req[q].new] = "reserved"
      BY <1>4, <2>3, <3>1 DEF Replaces, Inserts, TargetOK
    <3>3. \A e \in Dispatches : dStatus'[e] = "reserved" => Accounted(e)'
      BY DEF Accounted, IsActiveDispatch, ActiveStatuses
    <3>4. QED
      BY <1>1, <3>2, <3>3
  <2>4. QED
    BY <2>2, <2>3
<1>5. CASE Advances(q)
  <2>1. /\ \A e \in outbox' : e \in outbox \/ e.replaced = None
        /\ req[q].to # "completed" => outbox' = outbox
    BY <1>5, Announces DEF Completed
  <2>2. CASE d # req[q].disp
    <3>1. dStatus'[d] = dStatus[d]
      BY <1>5, <2>2 DEF Advances
    <3>2. Accounted(d)'
      BY <1>1, <2>1, <3>1 DEF Accounted
    <3>3. QED
      BY <1>1, <3>2
  <2>3. CASE d = req[q].disp
    <3>1. req[q].to # "completed" /\ outbox' = outbox
      BY <1>1, <1>5, <2>1, <2>3 DEF Closing, Advances
    <3>2. dStatus[d] # "cancelled" /\ dStatus'[d] = req[q].to
          /\ (IsActiveDispatch(req[q].to) \/ req[q].to = "cancelled")
      BY <1>5, <2>3, <3>1 DEF Advances, CanTransitionDispatch, allowedDispatchTransitions,
                              IsActiveDispatch, ActiveStatuses
    <3>3. Accounted(d)'
      BY <1>1, <1>2, <3>1, <3>2 DEF Accounted
    <3>4. QED
      BY <1>1, <3>3
  <2>4. QED
    BY <2>2, <2>3
<1>6. QED
  BY <1>3, <1>4, <1>5, CommitCases

\* A commit that makes an incident 'dispatched', or inserts a dispatch for it, leaves it
\* an accounted one.
LEMMA CommitDispatches ==
  ASSUME CInv, DispatchAssumption, NEW q \in Procs, Commit(q), Spared(q), NEW i \in Incidents,
         \/ incLock[i] = q /\ incNew[i] = "dispatched"
         \/ \E d \in Dispatches : dInc[d] = i /\ dStatus[d] = "none" /\ dStatus'[d] # "none"
  PROVE  \E e \in Dispatches : dStatus[e] = "none" /\ dInc'[e] = i /\ Accounted(e)'
<1>1. dInc' = dInc
  BY DEF Commit
<1>2. \A e \in Dispatches : dStatus'[e] = "reserved" => Accounted(e)'
  BY DEF Accounted, IsActiveDispatch, ActiveStatuses
<1>3. Books(q) \/ Replaces(q) \/ Advances(q)
  BY CommitCases
<1>4. CASE incLock[i] = q /\ incNew[i] = "dispatched"
  <2>1. i = req[q].inc /\ req[q].kind \in Inserting
    BY <1>4 DEF Spared
  <2>2. Inserts(q)
    BY <1>3, <2>1 DEF Books, Replaces, Advances, Inserting
  <2>3. QED
    BY <1>1, <1>2, <2>1, <2>2 DEF Inserts
<1>5. ASSUME NEW d \in Dispatches, dInc[d] = i, dStatus[d] = "none", dStatus'[d] # "none"
      PROVE  \E e \in Dispatches : dStatus[e] = "none" /\ dInc'[e] = i /\ Accounted(e)'
  <2>1. d = req[q].new /\ Inserts(q)
    BY <1>3, <1>5 DEF Books, Replaces, Advances, Inserts, CanTransitionDispatch,
       allowedDispatchTransitions, IsActiveDispatch, ActiveStatuses
  <2>2. QED
    BY <1>1, <1>2, <1>5, <2>1 DEF Inserts
<1>6. QED
  BY <1>4, <1>5

\* The incidents in order, in one formula.
LEMMA ForgottenOrNot ==
  NobodyForgotten <=>
    \A i \in Incidents :
      incStatus[i] = "dispatched" /\ (\E d \in Dispatches : dInc[d] = i /\ dStatus[d] # "none") =>
        \E d \in Dispatches : dInc[d] = i /\ Accounted(d)
  BY DEF NobodyForgotten, Accounted, IsActiveDispatch, ActiveStatuses

\* A commit forgets no incident.
LEMMA CommitForgetsNone ==
  ASSUME CInv, OutboxAgrees, DispatchAssumption, IncidentsOpen, NobodyForgotten, NEW q \in Procs,
         Commit(q), Spared(q)
  PROVE  NobodyForgotten'
<1>1. dInc' = dInc
  BY DEF Commit
<1>2. \A i \in Incidents :
        incStatus'[i] = IF incLock[i] = q /\ incNew[i] # Clean THEN incNew[i] ELSE incStatus[i]
  BY DEF Commit, Written, CInv, IInv, TypeOK
<1>3. SUFFICES ASSUME NEW i \in Incidents, incStatus'[i] = "dispatched",
                      NEW b \in Dispatches, dInc[b] = i, dStatus'[b] # "none"
               PROVE  \E d \in Dispatches : dInc[d] = i /\ Accounted(d)'
  BY <1>1 DEF NobodyForgotten, Accounted, IsActiveDispatch, ActiveStatuses
<1>4. CASE (incLock[i] = q /\ incNew[i] = "dispatched") \/ dStatus[b] = "none"
  BY <1>1, <1>3, <1>4, CommitDispatches
<1>5. CASE ~(incLock[i] = q /\ incNew[i] = "dispatched") /\ dStatus[b] # "none"
  <2>1. incStatus[i] = "dispatched" /\ ~(incLock[i] = q /\ incNew[i] # Clean)
    BY <1>2, <1>3, <1>5
  <2>2. PICK d \in Dispatches : dInc[d] = i /\ Accounted(d)
    BY <1>3, <1>5, <2>1, ForgottenOrNot
  <2>3. CASE ~(Closing(q) /\ d = req[q].disp)
    BY <1>1, <2>2, <2>3, CommitAccounts
  <2>4. CASE Closing(q) /\ d = req[q].disp
    <3>1. i = OldIncident(q) /\ pc[q] = "commit"
      BY <2>2, <2>4 DEF OldIncident, Commit
    <3>2. PICK e \in Dispatches : e # req[q].disp /\ dInc[e] = i /\ Accounted(e)
      BY <2>1, <2>4, <3>1 DEF Spared, Clean
    <3>3. QED
      BY <1>1, <3>2, CommitAccounts
  <2>5. QED
    BY <2>3, <2>4
<1>6. QED
  BY <1>4, <1>5

\* A step of q leaves the incident that p settles in order, unless q ends a dispatch of
\* it as well.
LEMMA OthersSpared ==
  ASSUME CInv, OutboxAgrees, DispatchAssumption, IncidentsOpen, NoSkew, CommittedKept,
         NEW q \in Procs, Frame(q), Spared(q), Arrive(q) \/ Step(q) \/ Rollback(q),
         UNCHANGED <<dStatus, outbox>> \/ Commit(q),
         NEW p \in Procs, p # q, Spared(p)
  PROVE  Spared(p)'
<1>1. pc'[p] = pc[p] /\ req'[p] = req[p] /\ p # None
  BY DEF Frame, DispatchAssumption
<1>2. \A i \in Incidents :
        /\ incLock[i] = p => incLock'[i] = p
        /\ incLock'[i] = p => incLock[i] = p /\ incNew'[i] = incNew[i]
  BY <1>1, IncidentWrites
<1>3. SUFFICES ASSUME pc[p] = "commit", Closing(p)
               PROVE  \/ \E d \in Dispatches : /\ d # req[p].disp /\ dInc'[d] = OldIncident(p)
                                               /\ Accounted(d)'
                      \/ incStatus'[OldIncident(p)] # "dispatched"
                      \/ /\ incLock'[OldIncident(p)] = p
                         /\ incNew'[OldIncident(p)] \in {"resolved", "verified"}
  <2>1. Closing(p)' => Closing(p) /\ OldIncident(p)' = OldIncident(p)
    BY <1>1, ClosingOld DEF Closing, OldIncident, CommittedKept
  <2>2. QED
    BY <1>1, <1>2, <1>3, <2>1 DEF Spared
<1>4. /\ req[p].disp \in Dispatches /\ dStatus[req[p].disp] # "none" /\ OldIncident(p) \in Incidents
  BY <1>3, ClosingOld
<1>5. ASSUME NEW d \in Dispatches, d # req[p].disp, dInc[d] = OldIncident(p), Accounted(d)
      PROVE  \E e \in Dispatches : /\ e # req[p].disp /\ dInc'[e] = OldIncident(p)
                                   /\ Accounted(e)'
  <2>1. CASE UNCHANGED <<dStatus, outbox>>
    <3>1. Accounted(d)' /\ dInc'[d] = dInc[d]
      BY <1>5, <2>1 DEF Accounted, CommittedKept, IsActiveDispatch, ActiveStatuses
    <3>2. QED
      BY <1>5, <3>1
  <2>2. CASE Commit(q)
    <3>1. ~(Closing(q) /\ d = req[q].disp)
      BY <1>3, <1>5 DEF NoSkew, OldIncident
    <3>2. QED
      BY <1>4, <1>5, <2>2, <3>1, CommitAccounts
  <2>3. QED
    BY <2>1, <2>2
<1>6. CASE incStatus[OldIncident(p)] # "dispatched"
  <2>1. SUFFICES ASSUME incStatus'[OldIncident(p)] = "dispatched"
                 PROVE  \E d \in Dispatches : /\ d # req[p].disp /\ dInc'[d] = OldIncident(p)
                                              /\ Accounted(d)'
    OBVIOUS
  <2>2. /\ Commit(q) /\ incLock[OldIncident(p)] = q
        /\ incNew[OldIncident(p)] = "dispatched"
    BY <1>4, <1>6, <2>1, IncidentWrites
  <2>3. QED
    BY <1>4, <2>2, CommitDispatches
<1>7. CASE /\ incLock[OldIncident(p)] = p
           /\ incNew[OldIncident(p)] \in {"resolved", "verified"}
  BY <1>2, <1>4, <1>7
<1>8. QED
  BY <1>3, <1>5, <1>6, <1>7 DEF Spared

\* Every step of the system keeps the incidents in order.
LEMMA NextSpared ==
  ASSUME CInv, WInv, OutboxAgrees, DispatchAssumption, IncidentsOpen, NoSkew, NobodyForgotten,
         \A p \in Procs : Spared(p), [Next]_vars
  PROVE  NobodyForgotten' /\ \A p \in Procs : Spared(p)'
<1>1. IInv /\ TypeOK /\ CommittedKept /\ (UNCHANGED <<dStatus, outbox>> \/ \E p \in Procs : Commit(p))
  BY OnlyCommits DEF CInv, IInv
<1>2. ASSUME UNCHANGED <<dStatus, outbox, incStatus>> PROVE NobodyForgotten'
  <2>1. \A d \in Dispatches : dStatus[d] # "none" => dInc'[d] = dInc[d]
    BY <1>1 DEF CommittedKept
  <2>2. QED
    BY <1>2, <2>1 DEF NobodyForgotten
<1>3. ASSUME NEW q \in Procs, Frame(q), Arrive(q) \/ Step(q) \/ Rollback(q), Spared(q)',
             UNCHANGED <<dStatus, outbox>> \/ Commit(q)
      PROVE  NobodyForgotten' /\ \A p \in Procs : Spared(p)'
  <2>1. \A p \in Procs : Spared(p)'
    BY <1>1, <1>3, OthersSpared
  <2>2. CASE Commit(q)
    BY <2>1, <2>2, CommitForgetsNone
  <2>3. CASE ~Commit(q)
    <3>1. incStatus' = incStatus
      BY <1>3, <2>3, IncidentWrites
    <3>2. QED
      BY <1>2, <1>3, <2>1, <2>3, <3>1
  <2>4. QED
    BY <2>2, <2>3
<1>4. ASSUME NEW q \in Procs, Arrive(q) PROVE NobodyForgotten' /\ \A p \in Procs : Spared(p)'
  <2>1. UNCHANGED <<dStatus, outbox>>
    BY <1>4 DEF Arrive, LockForReserve, ReadVersion, AdvanceStatus, Reroute, Preempt,
              StartReassign, CheckTransition, dispVars
  <2>2. QED
    BY <1>1, <1>3, <1>4, <2>1, HandlerStep, StepSpared
<1>5. ASSUME NEW q \in Procs, Step(q) PROVE NobodyForgotten' /\ \A p \in Procs : Spared(p)'
  <2>1. UNCHANGED <<dStatus, outbox>> \/ Commit(q)
    BY <1>5 DEF Step, RereadVersion, IncidentClosed, MarkReserved, IncidentOpen, MarkReservedCAS,
              LostCAS, InsertDispatch, InsertConflict, MarkDispatched, CountActive,
              SettleIncident, SyncUnit, LockOld, OldEnded, LockFirst, LockSecond, UnitTaken,
              CancelOld, UpdateIncident, Fail, Rollback, dispVars
  <2>2. QED
    BY <1>1, <1>3, <1>5, <2>1, HandlerStep, StepSpared
<1>6. ASSUME NEW q \in Procs, Rollback(q), End(q)
      PROVE  NobodyForgotten' /\ \A p \in Procs : Spared(p)'
  <2>1. Frame(q) /\ UNCHANGED <<dStatus, outbox>> /\ ReleaseLocks(q) /\ pc'[q] = "idle"
    BY <1>1, <1>6, RollbackFrame DEF Rollback, End, Goto, TypeOK
  <2>2. \A i \in Incidents : incLock'[i] # q
    BY <1>1, <2>1 DEF ReleaseLocks, Freed, TypeOK, DispatchAssumption
  <2>3. Spared(q)'
    BY <2>1, <2>2 DEF Spared
  <2>4. QED
    BY <1>3, <1>6, <2>1, <2>3
<1>7. CASE UNCHANGED <<incVars, dispVars, outbox, pc, req>>
  BY <1>7 DEF incVars, dispVars, NobodyForgotten, Spared, Closing, Accounted, OldIncident
<1>8. QED
  BY <1>4, <1>5, <1>6, <1>7 DEF Next, DeadlockVictim, Crash, OverrideUnit, vars

\* Without PATCHes an incident that shows 'dispatched' is never left without a dispatch,
\* as long as AdvanceStatus and Preempt never end two dispatches of one incident at the
\* same time: the write skew of their counts is the one way to forget somebody, with
\* any bookings, reroutes, cancellations, crashes and overrides around it.
THEOREM OnlySkewForgets ==
  ASSUME "patch" \notin Ops
  PROVE  Spec /\ []NoSkew => []NobodyForgotten
<1> DEFINE Q == NobodyForgotten /\ \A p \in Procs : Spared(p)
<1>1. Init => Q
  BY DispatchAssumption DEF Init, NobodyForgotten, Spared, DispatchAssumption
<1>2. CInv /\ WInv /\ OutboxAgrees /\ IncidentsOpen /\ NoSkew /\ Q /\ [Next]_vars => Q'
  BY NextSpared, DispatchAssumption
<1>3. Q => NobodyForgotten
  OBVIOUS
<1> HIDE DEF Q
<1>4. Spec => []IncidentsOpen
  <2>1. Init => IncidentsOpen
    BY DEF Init, IncidentsOpen
  <2>2. CInv /\ IncidentsOpen /\ [Next]_vars => IncidentsOpen'
    BY NextOpen, DispatchAssumption
  <2>3. QED
    BY <2>1, <2>2, CommitInvariance, PTL DEF Spec
<1>5. QED
  BY <1>1, <1>2, <1>3, <1>4, CommitInvariance, WaitInvariance, OutboxIsExact, PTL DEF Spec

-----------------------------------------------------------------------------
(* Every request is short.                                                  *)

\* What is left of a request: the steps of its transaction, in the longest order they
\* can come in, and the transactions it may still try.
Rank(step) ==
  CASE step = "idle" -> 0
    [] step \in {"attempt", "read"} -> 1
    [] step \in {"commit", "patch"} -> 2
    [] step = "settle" -> 3
    [] step = "count" -> 4
    [] step \in {"mark", "sync"} -> 5
    [] step = "insert" -> 6
    [] step = "cas" -> 7
    [] step = "incident" -> 8
    [] step = "second" -> 9
    [] step = "first" -> 10
TriesLeft(r) ==
  CASE r.kind \in {"reroute", "preempt"} -> Cardinality(r.todo)
    [] r.kind = "optimistic" -> maxOptimisticRetries - r.attempt
    [] OTHER -> 0
StepsLeft(p) == 10 * TriesLeft(req[p]) + Rank(pc[p])

\* The candidate limit and the limit on optimistic retries bound every request: no
\* more steps than this are ever left of one.
MaxSteps == 10 * reassignCandidateLimit + 1
AlwaysShort == \A p \in Procs : StepsLeft(p) \in 0 .. MaxSteps

\* Each statement of a request brings it nearer to its end, whatever other handlers do,
\* and nobody else's step sends it back (Service.Reassign's and ReserveOptimistic's loops).
Nearer(p) == StepsLeft(p)' < StepsLeft(p)
AlwaysNearer ==
  [][\A p \in Procs :
       /\ Step(p) => Nearer(p)
       /\ pc[p] # "idle" => Nearer(p) \/ (pc'[p] = pc[p] /\ req'[p] = req[p])]_vars

\* The sets a reassignment still has to try can be counted.
LEMMA TriesCount ==
  ASSUME IsFiniteSet(Units), IsFiniteSet(Dispatches), NEW r \in Requests
  PROVE  /\ IsFiniteSet(r.todo) /\ Cardinality(r.todo) \in Nat
         /\ \A a \in r.todo : Cardinality(r.todo \ {a}) = Cardinality(r.todo) - 1
         /\ TriesLeft(r) \in Nat
<1>1. IsFiniteSet(Dispatches \X Units)
  BY FS_Product
<1>2. r.todo \subseteq Dispatches \X Units /\ r.attempt \in 0 .. maxOptimisticRetries
  BY DEF Requests
<1>3. IsFiniteSet(r.todo) /\ Cardinality(r.todo) \in Nat
  BY <1>1, <1>2, FS_Subset, FS_CardinalityType
<1>4. \A a \in r.todo : Cardinality(r.todo \ {a}) = Cardinality(r.todo) - 1
  BY <1>3, FS_RemoveElement
<1>5. TriesLeft(r) \in Nat
  BY <1>2, <1>3 DEF TriesLeft, maxOptimisticRetries
<1>6. QED
  BY <1>3, <1>4, <1>5

LEMMA RankBounded ==
  ASSUME NEW step \in Steps
  PROVE  Rank(step) \in 0 .. 10 /\ (step # "idle" => Rank(step) >= 1)
<1>0. Rank("idle") = 0
  BY DEF Rank
<1>1. step \in {"attempt", "read", "commit", "patch"} => Rank(step) \in 1 .. 2
  BY DEF Rank
<1>2. step \in {"settle", "count", "mark", "sync"} => Rank(step) \in 3 .. 5
  BY DEF Rank
<1>3. step \in {"insert", "cas", "incident"} => Rank(step) \in 6 .. 8
  BY DEF Rank
<1>4. step \in {"second", "first"} => Rank(step) \in 9 .. 10
  BY DEF Rank
<1>5. step \in {"idle"} \cup {"attempt", "read", "commit", "patch"}
              \cup {"settle", "count", "mark", "sync"}
              \cup {"insert", "cas", "incident"} \cup {"second", "first"}
  BY DEF Steps
<1>6. QED
  BY <1>0, <1>1, <1>2, <1>3, <1>4, <1>5

\* The end of a request, for whatever reason.
LEMMA EndNearer ==
  ASSUME IsFiniteSet(Units), IsFiniteSet(Dispatches), TypeOK, NEW p \in Procs,
         pc[p] # "idle", End(p)
  PROVE  Nearer(p)
<1>1. pc'[p] = "idle" /\ req'[p] = NoReq
  BY DEF End, Goto, TypeOK
<1>2. StepsLeft(p)' = 0
  BY <1>1 DEF StepsLeft, TriesLeft, Rank, Reassigning, NoReq
<1>3. TriesLeft(req[p]) \in Nat /\ Rank(pc[p]) \in 1 .. 10
  BY TriesCount, LocalTypes, RankBounded DEF TypeOK
<1>4. QED
  BY <1>2, <1>3 DEF Nearer, StepsLeft

\* A later step of the same transaction.
LEMMA StepNearer ==
  ASSUME IsFiniteSet(Units), IsFiniteSet(Dispatches), TypeOK, NEW p \in Procs,
         NEW step \in Steps, Goto(p, step), req'[p] = req[p], Rank(step) < Rank(pc[p])
  PROVE  Nearer(p)
<1>1. pc'[p] = step
  BY DEF Goto, TypeOK
<1>2. TriesLeft(req'[p]) = TriesLeft(req[p]) /\ TriesLeft(req[p]) \in Nat
  BY TriesCount, LocalTypes DEF TriesLeft, Reassigning
<1>3. Rank(step) \in 0 .. 10 /\ Rank(pc[p]) \in 0 .. 10
  BY RankBounded DEF TypeOK
<1>4. QED
  BY <1>1, <1>2, <1>3 DEF Nearer, StepsLeft

\* A transaction that fails is followed by another only if a candidate is left, and its
\* own candidate was taken off the list before.
LEMMA FailNearer ==
  ASSUME IsFiniteSet(Units), IsFiniteSet(Dispatches), TypeOK, NEW p \in Procs, NEW err,
         pc[p] \notin {"idle", "attempt", "read"}, Fail(p, err)
  PROVE  Nearer(p)
<1>1. CASE End(p)
  BY <1>1, EndNearer
<1>2. CASE NextAttempt(p, req[p].todo) /\ TriesNext(p, err)
  <2>1. /\ pc'[p] = "attempt" /\ req'[p].kind = req[p].kind /\ req'[p].todo = req[p].todo
        /\ Reassigning(p)
    BY <1>2 DEF NextAttempt, Goto, TypeOK, TriesNext, Reassigning, Requests
  <2>2. TriesLeft(req'[p]) = TriesLeft(req[p]) /\ TriesLeft(req[p]) \in Nat
    BY <2>1, TriesCount, LocalTypes DEF TriesLeft, Reassigning
  <2>3. pc[p] \in Steps
    BY DEF TypeOK
  <2>4. Rank(pc[p]) \in 2 .. 10 /\ Rank("attempt") = 1
    BY <2>3 DEF Rank, Steps
  <2>5. QED
    BY <2>1, <2>2, <2>4 DEF Nearer, StepsLeft
<1>3. QED
  BY <1>1, <1>2 DEF Fail

\* A retry of the optimistic path uses up one of its attempts, and an attempt at
\* reassigning one of its candidates.
LEMMA RetryNearer ==
  ASSUME IsFiniteSet(Units), IsFiniteSet(Dispatches), TypeOK, LocalsOK, NEW p \in Procs,
         RereadVersion(p) \/ LockOld(p) \/ OldEnded(p)
  PROVE  Nearer(p)
<1>1. CASE End(p)
  BY <1>1, EndNearer DEF RereadVersion, LockOld, OldEnded
<1>2. CASE RereadVersion(p) /\ ~End(p)
  <2>1. /\ pc[p] = "read" /\ pc'[p] = "incident" /\ req[p].kind = "optimistic"
        /\ req'[p].kind = "optimistic" /\ req'[p].attempt = req[p].attempt + 1
        /\ req[p].attempt \in Nat /\ req[p].attempt < maxOptimisticRetries
    <3>1. pc[p] = "read" /\ pc'[p] = "incident"
      BY <1>2 DEF RereadVersion, Goto, TypeOK
    <3>2. req[p].kind = "optimistic" /\ req[p].attempt < maxOptimisticRetries
      BY <3>1 DEF LocalsOK, LocalsOf
    <3>3. req \in [Procs -> Requests] /\ req[p].attempt \in 0 .. maxOptimisticRetries
      BY DEF TypeOK, Requests
    <3>4. req' = [req EXCEPT ![p] = [req[p] EXCEPT !.attempt = req[p].attempt + 1,
                                                   !.version = unitVersion[req[p].unit]]]
      BY <1>2 DEF RereadVersion
    <3>5. req'[p].kind = req[p].kind /\ req'[p].attempt = req[p].attempt + 1
      BY <3>3, <3>4 DEF Requests
    <3>6. QED
      BY <3>1, <3>2, <3>3, <3>5 DEF maxOptimisticRetries
  <2>2. /\ TriesLeft(req[p]) = maxOptimisticRetries - req[p].attempt
        /\ TriesLeft(req'[p]) = TriesLeft(req[p]) - 1
    BY <2>1 DEF TriesLeft, Reassigning, maxOptimisticRetries
  <2>3. Rank("read") = 1 /\ Rank("incident") = 8
    BY DEF Rank
  <2>4. QED
    BY <2>1, <2>2, <2>3 DEF Nearer, StepsLeft, maxOptimisticRetries
<1>3. CASE (LockOld(p) \/ OldEnded(p)) /\ ~End(p)
  <2>1. PICK a \in req[p].todo :
          /\ pc[p] = "attempt" /\ pc'[p] \in {"attempt", "first"}
          /\ req'[p].kind = req[p].kind /\ req'[p].todo = req[p].todo \ {a}
    <3>1. req \in [Procs -> Requests] /\ pc \in [Procs -> Steps]
      BY DEF TypeOK
    <3> DEFINE Tried(a, d, u) ==
                 /\ pc[p] = "attempt" /\ (Goto(p, "attempt") \/ Goto(p, "first"))
                 /\ \/ req' = [req EXCEPT ![p] = [req[p] EXCEPT !.disp = d, !.unit = u,
                                                                !.todo = req[p].todo \ {a}]]
                    \/ req' = [req EXCEPT ![p] = [req[p] EXCEPT !.todo = req[p].todo \ {a},
                                                                !.disp = d, !.unit = u]]
    <3>2. \E a \in req[p].todo : \E d, u : Tried(a, d, u)
      BY <1>3 DEF LockOld, OldEnded, NextAttempt
    <3>3. ASSUME NEW a \in req[p].todo, NEW d, NEW u, Tried(a, d, u)
          PROVE  /\ pc[p] = "attempt" /\ pc'[p] \in {"attempt", "first"}
                 /\ req'[p].kind = req[p].kind /\ req'[p].todo = req[p].todo \ {a}
      <4>1. \/ req'[p] = [req[p] EXCEPT !.disp = d, !.unit = u, !.todo = req[p].todo \ {a}]
            \/ req'[p] = [req[p] EXCEPT !.todo = req[p].todo \ {a}, !.disp = d, !.unit = u]
        BY <3>1, <3>3
      <4>2. req[p] \in Requests
        BY <3>1
      <4>3. QED
        BY <3>1, <3>3, <4>1, <4>2 DEF Goto, Requests
    <3> HIDE DEF Tried
    <3>4. QED
      BY <3>2, <3>3
  <2>2. Reassigning(p) /\ Reassigning(p)'
    BY <2>1 DEF LocalsOK, LocalsOf, Reassigning
  <2>3. TriesLeft(req'[p]) = TriesLeft(req[p]) - 1 /\ TriesLeft(req[p]) \in Nat
    <3>1. /\ TriesLeft(req[p]) = Cardinality(req[p].todo)
          /\ TriesLeft(req'[p]) = Cardinality(req[p].todo \ {a})
      BY <2>1, <2>2 DEF TriesLeft, Reassigning
    <3>2. QED
      BY <2>1, <3>1, TriesCount, LocalTypes
  <2>4. Rank(pc[p]) = 1 /\ Rank(pc'[p]) \in 1 .. 10
    BY <2>1 DEF Rank
  <2>5. QED
    BY <2>3, <2>4 DEF Nearer, StepsLeft
<1>4. QED
  BY <1>1, <1>2, <1>3

\* Each step of a request under way brings it nearer to its end.
LEMMA OwnStepNearer ==
  ASSUME IsFiniteSet(Units), IsFiniteSet(Dispatches), TypeOK, LocalsOK, NEW p \in Procs,
         Step(p)
  PROVE  Nearer(p)
<1>1. CASE RereadVersion(p) \/ LockOld(p) \/ OldEnded(p)
  BY <1>1, RetryNearer
<1>2. CASE IncidentClosed(p) \/ InsertConflict(p) \/ UnitTaken(p)
  BY <1>2, FailNearer DEF IncidentClosed, InsertConflict, UnitTaken
<1>3. CASE Commit(p) \/ UpdateIncident(p) \/ (LostCAS(p) /\ End(p))
  BY <1>3, EndNearer DEF Commit, UpdateIncident, LostCAS
<1>4. CASE LostCAS(p) /\ ~End(p)
  <2>1. pc[p] = "cas" /\ Goto(p, "read") /\ req'[p] = req[p]
    BY <1>4 DEF LostCAS
  <2>2. QED
    BY <2>1, StepNearer DEF Rank, Steps
<1>5. CASE \/ MarkReserved(p) \/ IncidentOpen(p) \/ MarkReservedCAS(p) \/ InsertDispatch(p)
           \/ LockFirst(p) \/ LockSecond(p) \/ CancelOld(p)
  <2>1. PICK step \in {"insert", "cas", "mark", "incident", "second"} :
          /\ Goto(p, step) /\ req' = req
          /\ <<pc[p], step>> \in {<<"incident", "insert">>, <<"incident", "cas">>,
               <<"cas", "insert">>, <<"insert", "mark">>, <<"first", "incident">>,
               <<"first", "second">>, <<"second", "incident">>}
    BY <1>5 DEF MarkReserved, IncidentOpen, MarkReservedCAS, InsertDispatch, LockFirst,
                LockSecond, CancelOld
  <2>2. QED
    BY <2>1, StepNearer DEF Rank, Steps
<1>6. CASE MarkDispatched(p) \/ CountActive(p) \/ SettleIncident(p) \/ SyncUnit(p)
  <2>1. PICK step \in {"count", "settle", "commit"} :
          /\ Goto(p, step) /\ req' = req
          /\ <<pc[p], step>> \in {<<"mark", "count">>, <<"mark", "commit">>,
               <<"count", "settle">>, <<"count", "commit">>, <<"settle", "commit">>,
               <<"sync", "count">>, <<"sync", "commit">>}
    BY <1>6 DEF MarkDispatched, CountActive, SettleIncident, SyncUnit
  <2>2. QED
    BY <2>1, StepNearer DEF Rank, Steps
<1>7. QED
  BY <1>1, <1>2, <1>3, <1>4, <1>5, <1>6 DEF Step

\* A request that arrives is at its longest.
LEMMA ArrivesShort ==
  ASSUME IsFiniteSet(Units), IsFiniteSet(Dispatches), TypeOK, NEW p \in Procs, Arrive(p),
         TypeOK'
  PROVE  pc[p] = "idle" /\ StepsLeft(p)' <= MaxSteps
<1>0. /\ pc \in [Procs -> Steps] /\ req \in [Procs -> Requests]
      /\ NoReq.kind = "none" /\ NoReq.attempt = 0
  BY DEF TypeOK, NoReq
<1>1. ASSUME NEW u \in Units, NEW i \in Incidents, LockForReserve(p, u, i) \/ ReadVersion(p, u, i)
      PROVE  /\ pc[p] = "idle" /\ pc'[p] = "incident"
             /\ \/ req'[p].kind = "reserve"
                \/ req'[p].kind = "optimistic" /\ req'[p].attempt = 1
  <2>1. CASE LockForReserve(p, u, i)
    BY <1>0, <2>1 DEF LockForReserve, Begin, Goto, NoReq
  <2>2. CASE ReadVersion(p, u, i)
    BY <1>0, <2>2 DEF ReadVersion, Begin, Goto, NoReq
  <2>3. QED
    BY <1>1, <2>1, <2>2
<1>2. ASSUME NEW d \in Dispatches, NEW to \in DispatchStatuses, AdvanceStatus(p, d, to)
      PROVE  pc[p] = "idle" /\ pc'[p] = "sync" /\ req'[p].kind = "advance"
  BY <1>2 DEF AdvanceStatus, Begin, Goto, TypeOK, NoReq
<1>3. ASSUME NEW kind \in {"reroute", "preempt"}, NEW i, NEW pairs, pc[p] = "idle",
             StartReassign(p, kind, i, pairs)
      PROVE  /\ pc[p] = "idle" /\ pc'[p] = "attempt"
             /\ req'[p].kind \in {"reroute", "preempt"}
             /\ Cardinality(req'[p].todo) <= reassignCandidateLimit
  BY <1>3 DEF StartReassign, Goto, TypeOK, NoReq
<1>4. ASSUME NEW i \in Incidents, NEW to \in IncidentStatuses, CheckTransition(p, i, to)
      PROVE  pc[p] = "idle" /\ pc'[p] = "patch" /\ req'[p].kind = "patch"
  BY <1>4 DEF CheckTransition, Begin, Goto, TypeOK, NoReq
<1>5. /\ pc[p] = "idle"
      /\ \/ pc'[p] = "incident" /\ req'[p].kind = "reserve"
         \/ pc'[p] = "incident" /\ req'[p].kind = "optimistic" /\ req'[p].attempt = 1
         \/ pc'[p] = "sync" /\ req'[p].kind = "advance"
         \/ /\ pc'[p] = "attempt" /\ req'[p].kind \in {"reroute", "preempt"}
            /\ Cardinality(req'[p].todo) <= reassignCandidateLimit
         \/ pc'[p] = "patch" /\ req'[p].kind = "patch"
  BY <1>1, <1>2, <1>3, <1>4 DEF Arrive, Reroute, Preempt, Begin
<1>6. CASE pc'[p] = "incident" /\ req'[p].kind = "reserve"
  <2>1. TriesLeft(req'[p]) = 0 /\ Rank(pc'[p]) = 8
    BY <1>6 DEF TriesLeft, Rank, Reassigning
  <2>2. QED
    BY <1>5, <2>1 DEF StepsLeft, MaxSteps, reassignCandidateLimit
<1>7. CASE pc'[p] = "incident" /\ req'[p].kind = "optimistic" /\ req'[p].attempt = 1
  <2>1. TriesLeft(req'[p]) = 2 /\ Rank(pc'[p]) = 8
    BY <1>7 DEF TriesLeft, Rank, Reassigning, maxOptimisticRetries
  <2>2. QED
    BY <1>5, <2>1 DEF StepsLeft, MaxSteps, reassignCandidateLimit
<1>8. CASE \/ pc'[p] = "sync" /\ req'[p].kind = "advance"
           \/ pc'[p] = "patch" /\ req'[p].kind = "patch"
  <2>1. TriesLeft(req'[p]) = 0 /\ Rank(pc'[p]) \in {2, 5}
    BY <1>8 DEF TriesLeft, Rank, Reassigning
  <2>2. QED
    BY <1>5, <2>1 DEF StepsLeft, MaxSteps, reassignCandidateLimit
<1>9. CASE /\ pc'[p] = "attempt" /\ req'[p].kind \in {"reroute", "preempt"}
           /\ Cardinality(req'[p].todo) <= reassignCandidateLimit
  <2>1. TriesLeft(req'[p]) = Cardinality(req'[p].todo) /\ Rank(pc'[p]) = 1
    BY <1>9 DEF TriesLeft, Rank, Reassigning
  <2>2. Cardinality(req'[p].todo) \in Nat
    <3>1. req'[p] \in Requests
      BY DEF TypeOK
    <3>2. QED
      BY <3>1, TriesCount
  <2>3. QED
    BY <1>5, <1>9, <2>1, <2>2 DEF StepsLeft, MaxSteps, reassignCandidateLimit
<1>10. QED
  BY <1>5, <1>6, <1>7, <1>8, <1>9

\* What a step does to the requests that are under way, its own and the others.
LEMMA NextNearer ==
  ASSUME IsFiniteSet(Units), IsFiniteSet(Dispatches), IInv, DispatchAssumption, Next,
         NEW p \in Procs
  PROVE  /\ Step(p) => Nearer(p)
         /\ pc[p] # "idle" => Nearer(p) \/ (pc'[p] = pc[p] /\ req'[p] = req[p])
         /\ pc[p] = "idle" => \/ pc'[p] = pc[p] /\ req'[p] = req[p]
                             \/ StepsLeft(p)' <= MaxSteps
<1> USE DEF IInv
<1>1. Step(p) => Nearer(p) /\ pc[p] # "idle"
  <2>1. Step(p) => pc[p] # "idle"
    BY DEF Step, RereadVersion, IncidentClosed, MarkReserved, IncidentOpen, MarkReservedCAS,
           LostCAS, InsertDispatch, InsertConflict, MarkDispatched, CountActive,
           SettleIncident, SyncUnit, LockOld, OldEnded, LockFirst, LockSecond, UnitTaken,
           CancelOld, UpdateIncident, Commit
  <2>2. QED
    BY <2>1, OwnStepNearer
<1>2. CASE Arrive(p)
  <2>1. TypeOK'
    BY NextTypes
  <2>2. QED
    BY <1>1, <1>2, <2>1, ArrivesShort
<1>3. CASE Rollback(p) /\ End(p)
  <2>1. CASE pc[p] = "idle"
    <3>1. pc'[p] = "idle" /\ req'[p] = NoReq
      BY <1>3 DEF End, Goto, TypeOK
    <3>2. StepsLeft(p)' = 0
      BY <3>1 DEF StepsLeft, TriesLeft, Rank, Reassigning, NoReq
    <3>3. QED
      BY <1>1, <2>1, <3>2 DEF MaxSteps, reassignCandidateLimit
  <2>2. CASE pc[p] # "idle"
    BY <1>3, <2>2, EndNearer
  <2>3. QED
    BY <2>1, <2>2
<1>4. CASE pc'[p] = pc[p] /\ req'[p] = req[p]
  BY <1>1, <1>4
<1>5. CASE Step(p)
  BY <1>1, <1>5
<1>6. ASSUME NEW q \in Procs, q # p, Arrive(q) \/ Step(q) \/ DeadlockVictim(q) \/ Crash(q)
      PROVE  pc'[p] = pc[p] /\ req'[p] = req[p]
  <2>1. Frame(q)
    BY <1>6, ArriveFrame, StepFrame, RollbackFrame DEF DeadlockVictim, Crash
  <2>2. QED
    BY <1>6, <2>1 DEF Frame
<1>7. ASSUME NEW u \in Units, NEW status \in UnitStatuses, OverrideUnit(u, status)
      PROVE  pc'[p] = pc[p] /\ req'[p] = req[p]
  BY <1>7 DEF OverrideUnit
<1>8. QED
  BY <1>2, <1>3, <1>4, <1>5, <1>6, <1>7 DEF Next, DeadlockVictim, Crash

\* Every statement of a request brings it strictly nearer to its end, also the retries
\* of ReserveOptimistic and of the candidate loops, and no other request, crash or
\* override ever sends it back: no handler loops, whatever it meets.
THEOREM RequestsAdvance ==
  ASSUME IsFiniteSet(Units), IsFiniteSet(Dispatches)
  PROVE  Spec => AlwaysNearer
<1>1. IInv /\ [Next]_vars =>
        [\A p \in Procs :
           /\ Step(p) => Nearer(p)
           /\ pc[p] # "idle" => Nearer(p) \/ (pc'[p] = pc[p] /\ req'[p] = req[p])]_vars
  BY NextNearer, DispatchAssumption
<1>2. QED
  BY <1>1, Invariance, PTL DEF Spec, AlwaysNearer

\* The candidate limit and the limit on optimistic retries bound every request: it has
\* at most MaxSteps statements before it, from its arrival on.
THEOREM RequestsShort ==
  ASSUME IsFiniteSet(Units), IsFiniteSet(Dispatches)
  PROVE  Spec => []AlwaysShort
<1>1. TypeOK => \A p \in Procs : StepsLeft(p) \in Nat
  <2>1. SUFFICES ASSUME TypeOK, NEW p \in Procs PROVE StepsLeft(p) \in Nat
    OBVIOUS
  <2>2. TriesLeft(req[p]) \in Nat /\ Rank(pc[p]) \in 0 .. 10
    BY <2>1, TriesCount, RankBounded DEF TypeOK
  <2>3. QED
    BY <2>2 DEF StepsLeft
<1>2. MaxSteps \in Nat
  BY DEF MaxSteps, reassignCandidateLimit
<1>3. Init => AlwaysShort
  <2>1. ASSUME Init, NEW p \in Procs PROVE StepsLeft(p) = 0
    <3>1. pc[p] = "idle" /\ req[p] = NoReq
      BY <2>1 DEF Init
    <3>2. QED
      BY <3>1 DEF StepsLeft, TriesLeft, Rank, Reassigning, NoReq
  <2>2. QED
    BY <1>2, <2>1 DEF AlwaysShort
<1>4. ASSUME IInv, AlwaysShort, [Next]_vars PROVE AlwaysShort'
  <2>1. TypeOK'
    BY <1>4, NextInv, DispatchAssumption DEF IInv
  <2>2. SUFFICES ASSUME NEW p \in Procs PROVE StepsLeft(p)' \in 0 .. MaxSteps
    BY DEF AlwaysShort
  <2>3. StepsLeft(p)' \in Nat
    <3>1. TriesLeft(req'[p]) \in Nat /\ Rank(pc'[p]) \in 0 .. 10
      BY <2>1, TriesCount, RankBounded DEF TypeOK
    <3>2. QED
      BY <3>1 DEF StepsLeft
  <2>4. CASE pc'[p] = pc[p] /\ req'[p] = req[p]
    BY <1>4, <2>4 DEF AlwaysShort, StepsLeft, TriesLeft, Reassigning
  <2>5. CASE Next /\ ~(pc'[p] = pc[p] /\ req'[p] = req[p])
    <3>1. StepsLeft(p)' <= MaxSteps \/ StepsLeft(p)' < StepsLeft(p)
      BY <1>4, <2>5, NextNearer, DispatchAssumption DEF Nearer
    <3>2. StepsLeft(p) \in 0 .. MaxSteps
      BY <1>4 DEF AlwaysShort
    <3>3. QED
      BY <1>2, <2>3, <3>1, <3>2
  <2>6. QED
    BY <1>4, <2>4, <2>5 DEF vars
<1>5. QED
  BY <1>3, <1>4, Invariance, PTL DEF Spec
=============================================================================
