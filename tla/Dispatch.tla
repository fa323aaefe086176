------------------------------ MODULE Dispatch ------------------------------
(***************************************************************************)
(* The dispatch core of CrisisLink: reserving a unit for an incident       *)
(* (pessimistic and optimistic), the dispatch lifecycle, rerouting and     *)
(* preemption, and the two writes that bypass it: the admin override of a  *)
(* unit's status and the operator's PATCH of an incident's status.         *)
(*                                                                         *)
(* Every request runs statements of one Postgres transaction at READ       *)
(* COMMITTED.  A row has a committed value, a lock owner and the owner's   *)
(* uncommitted value (Clean when the owner has not written it).  Plain     *)
(* reads see committed values and the reader's own writes; SELECT .. FOR   *)
(* UPDATE and UPDATE wait for the lock; a guarded UPDATE whose WHERE does  *)
(* not match the committed row touches nothing and takes no lock.          *)
(*                                                                         *)
(* One action is one statement that can wait or that reads what others     *)
(* write, with the statements on rows already locked that follow it.  A    *)
(* request that is refused before it holds a lock changes nothing and is   *)
(* not an action; so a request starts with its first successful statement. *)
(***************************************************************************)
EXTENDS Integers, FiniteSets

CONSTANTS
  Procs,        \* concurrent request handlers, over all gateways and replicas
  Units,        \* unit ids, ordered as the code orders UUID strings
  Incidents,    \* incident ids
  Dispatches,   \* dispatch ids the model may insert: bounds the history
  Severity,     \* rank of an incident's severity, 1 (low) .. 4 (critical)
  Ops,          \* the kinds of request this instance admits
  MaxManual,    \* bound on manual writes of a unit's or an incident's status
  None          \* the absent value

maxOptimisticRetries == 3
reassignCandidateLimit == 5

AllOps == {"reserve", "optimistic", "advance", "reroute", "preempt", "patch",
           "override", "crash"}

ASSUME DispatchAssumption ==
  /\ Units \subseteq Nat
  /\ Severity \in [Incidents -> 1 .. 4]
  /\ Ops \subseteq AllOps
  /\ MaxManual \in Nat
  /\ None \notin Procs \cup Units \cup Incidents \cup Dispatches

VARIABLES
  unitStatus, unitVersion, \* units: committed columns
  unitLock, unitNew,       \* units: lock owner, uncommitted status
  incStatus,               \* incidents: committed status
  incLock, incNew,
  dStatus, dUnit, dInc,    \* dispatches: committed status ("none": no row)
  dLock, dNew,
  outbox,                  \* committed outbox events of dispatch aggregates
  pc, req,                 \* each handler's next statement and its locals
  manual                   \* manual writes so far

unitVars == <<unitStatus, unitVersion, unitLock, unitNew>>
incVars  == <<incStatus, incLock, incNew>>
dispVars == <<dStatus, dUnit, dInc, dLock, dNew>>
vars     == <<unitVars, incVars, dispVars, outbox, pc, req, manual>>

-----------------------------------------------------------------------------
(* Statuses and the state machines.                                         *)

Clean == "clean"
UnitStatuses == {"available", "reserved", "en_route", "on_scene", "out_of_service"}
IncidentStatuses == {"reported", "verified", "dispatched", "resolved", "cancelled"}
ActiveStatuses == {"reserved", "en_route", "on_scene"}
DispatchStatuses == ActiveStatuses \cup {"completed", "cancelled"}
TerminalIncident == {"resolved", "cancelled"}

allowedDispatchTransitions ==
  {<<"reserved", "en_route">>, <<"reserved", "cancelled">>,
   <<"en_route", "on_scene">>, <<"en_route", "cancelled">>,
   <<"on_scene", "completed">>, <<"on_scene", "cancelled">>}
CanTransitionDispatch(from, to) == <<from, to>> \in allowedDispatchTransitions

IsActiveDispatch(status) == status \in ActiveStatuses

SameStatus(status) == status \* mutant: terminal phases mirrored too
UnitStatusForDispatch(status) ==
  IF IsActiveDispatch(status) THEN status ELSE "available"

allowedTransitions ==
  {<<"reported", "verified">>, <<"reported", "cancelled">>,
   <<"verified", "dispatched">>, <<"verified", "cancelled">>,
   <<"dispatched", "resolved">>, <<"dispatched", "cancelled">>}
canTransition(from, to) == <<from, to>> \in allowedTransitions

-----------------------------------------------------------------------------
(* Handlers' locals.  disp is the dispatch advanced or replaced, new the id *)
(* of the dispatch to insert, to the target status, todo the <<dispatch,    *)
(* unit>> pairs a reassignment may still try.                               *)

NoReq == [kind |-> "none", inc |-> None, unit |-> None, disp |-> None,
          new |-> None, to |-> "none", version |-> 0, attempt |-> 0, todo |-> {}]

Kinds == {"none", "reserve", "optimistic", "advance", "reroute", "preempt", "patch"}
Steps == {"idle", "incident", "read", "cas", "insert", "mark", "count", "settle",
          "commit", "sync", "attempt", "first", "second", "patch"}

UnusedIds == {d \in Dispatches : dStatus[d] = "none" /\ \A q \in Procs : req[q].new # d}

Reassigning(p) == req[p].kind \in {"reroute", "preempt"}

\* The incident the request may have left without dispatches.
OldIncident(p) == dInc[req[p].disp]

\* A dispatch's status as p's statements see it.
Seen(p, d) == IF dLock[d] = p /\ dNew[d] # Clean THEN dNew[d] ELSE dStatus[d]

Goto(p, step) == pc' = [pc EXCEPT ![p] = step]

-----------------------------------------------------------------------------
(* Ending a transaction.                                                    *)

Freed(lock, p) == [r \in DOMAIN lock |-> IF lock[r] = p THEN None ELSE lock[r]]
Clear(new, lock, p) == [r \in DOMAIN new |-> IF lock[r] = p THEN Clean ELSE new[r]]

\* Rows p inserted vanish when it rolls back.
Withdraw(col, p) ==
  [d \in Dispatches |-> IF dLock[d] = p /\ dStatus[d] = "none" THEN None ELSE col[d]]

ReleaseLocks(p) ==
  /\ unitLock' = Freed(unitLock, p) /\ unitNew' = Clear(unitNew, unitLock, p)
  /\ incLock' = Freed(incLock, p) /\ incNew' = Clear(incNew, incLock, p)
  /\ dLock' = Freed(dLock, p) /\ dNew' = Clear(dNew, dLock, p)

Rollback(p) ==
  /\ ReleaseLocks(p)
  /\ dUnit' = Withdraw(dUnit, p) /\ dInc' = Withdraw(dInc, p)
  /\ UNCHANGED <<unitStatus, unitVersion, incStatus, dStatus, outbox, manual>>

End(p) == Goto(p, "idle") /\ req' = [req EXCEPT ![p] = NoReq]

\* Reroute moves on to the next candidate only if the unit was taken; Preempt
\* also if the victim dispatch ended meanwhile.
TriesNext(p, err) ==
  \/ Reassigning(p) /\ err = "unit_not_available"
  \/ req[p].kind = "preempt" /\ err = "illegal_transition"

NextAttempt(p, rest) ==
  /\ Goto(p, "attempt")
  /\ req' = [req EXCEPT ![p] = [req[p] EXCEPT !.todo = rest, !.disp = None, !.unit = None]]

\* mutant: an error return without the deferred rollback
FailWithoutRollback(p, err) ==
  /\ UNCHANGED <<unitVars, incVars, dispVars, outbox, manual>>
  /\ End(p)

\* The transaction returns an error: the deferred rollback, then the service's
\* loop over the remaining candidates.
Fail(p, err) ==
  /\ Rollback(p)
  /\ IF TriesNext(p, err) /\ req[p].todo # {} THEN NextAttempt(p, req[p].todo)
     ELSE End(p)

Written(col, new, lock, p) ==
  [r \in DOMAIN col |-> IF lock[r] = p /\ new[r] # Clean THEN new[r] ELSE col[r]]

\* mutant: the completion event written on every advance
EventOnEveryAdvance(p) ==
  {[type |-> IF req[p].kind = "advance" THEN "completed" ELSE "created",
    disp |-> IF req[p].kind = "advance" THEN req[p].disp ELSE req[p].new,
    replaced |-> None]}
\* The events the request wrote to the outbox inside its transaction.
EventsOf(p) ==
  CASE req[p].kind \in {"reserve", "optimistic"} ->
         {[type |-> "created", disp |-> req[p].new, replaced |-> None]}
    [] Reassigning(p) ->
         {[type |-> req[p].kind, disp |-> req[p].new, replaced |-> req[p].disp]}
    [] req[p].kind = "advance" /\ req[p].to = "completed" ->
         {[type |-> "completed", disp |-> req[p].disp, replaced |-> None]}
    [] OTHER -> {}

Commit(p) ==
  /\ pc[p] = "commit"
  /\ unitStatus' = Written(unitStatus, unitNew, unitLock, p)
  /\ unitVersion' = [u \in Units |-> IF unitLock[u] = p /\ unitNew[u] # Clean
                                     THEN unitVersion[u] + 1 ELSE unitVersion[u]]
  /\ incStatus' = Written(incStatus, incNew, incLock, p)
  /\ dStatus' = Written(dStatus, dNew, dLock, p)
  /\ outbox' = outbox \cup EventsOf(p)
  /\ ReleaseLocks(p)
  /\ End(p)
  /\ UNCHANGED <<dUnit, dInc, manual>>

-----------------------------------------------------------------------------
(* Reserve and ReserveOptimistic.                                           *)

Begin(p, kind) == pc[p] = "idle" /\ kind \in Ops

\* SELECT .. FOR UPDATE on the unit, re-checked under the lock.
LockForReserve(p, u, i) ==
  /\ Begin(p, "reserve")
  /\ unitLock[u] = None
  /\ unitStatus[u] = "available"
  /\ \E d \in UnusedIds :
       req' = [req EXCEPT ![p] = [NoReq EXCEPT !.kind = "reserve", !.inc = i,
                                               !.unit = u, !.new = d]]
  /\ unitLock' = [unitLock EXCEPT ![u] = p]
  /\ Goto(p, "incident")
  /\ UNCHANGED <<unitStatus, unitVersion, unitNew, incVars, dispVars, outbox, manual>>

\* The optimistic path reads status and version without a lock.
ReadVersion(p, u, i) ==
  /\ Begin(p, "optimistic")
  /\ unitStatus[u] = "available"
  /\ \E d \in UnusedIds :
       req' = [req EXCEPT ![p] = [NoReq EXCEPT !.kind = "optimistic", !.inc = i,
                                    !.unit = u, !.new = d, !.attempt = 1,
                                    !.version = unitVersion[u]]]
  /\ Goto(p, "incident")
  /\ UNCHANGED <<unitVars, incVars, dispVars, outbox, manual>>

\* A retry of the optimistic path starts a new transaction with a fresh read.
RereadVersion(p) ==
  /\ pc[p] = "read"
  /\ IF unitStatus[req[p].unit] = "available"
     THEN /\ req' = [req EXCEPT ![p] = [req[p] EXCEPT !.attempt = req[p].attempt + 1,
                                                      !.version = unitVersion[req[p].unit]]]
          /\ Goto(p, "incident")
     ELSE End(p)
  /\ UNCHANGED <<unitVars, incVars, dispVars, outbox, manual>>

\* StatusTx, read without a lock: the incident must still be dispatchable.
IncidentClosed(p) ==
  /\ pc[p] = "incident"
  /\ incStatus[req[p].inc] \in TerminalIncident
  /\ Fail(p, "incident_not_dispatchable")

\* MarkReservedTx on the unit the handler has locked.
MarkReserved(p) ==
  /\ pc[p] = "incident" /\ req[p].kind = "reserve"
  /\ incStatus[req[p].inc] \notin TerminalIncident
  /\ unitNew' = [unitNew EXCEPT ![req[p].unit] = "reserved"]
  /\ Goto(p, "insert")
  /\ UNCHANGED <<unitStatus, unitVersion, unitLock, incVars, dispVars, outbox, req, manual>>

IncidentOpen(p) ==
  /\ pc[p] = "incident" /\ req[p].kind = "optimistic"
  /\ incStatus[req[p].inc] \notin TerminalIncident
  /\ Goto(p, "cas")
  /\ UNCHANGED <<unitVars, incVars, dispVars, outbox, req, manual>>

AnyVersion(p) == TRUE \* mutant: the UPDATE forgets AND version = $2
VersionUnchanged(p) == unitVersion[req[p].unit] = req[p].version

MarkReservedCAS(p) ==
  /\ pc[p] = "cas"
  /\ VersionUnchanged(p)
  /\ unitLock[req[p].unit] = None
  /\ unitLock' = [unitLock EXCEPT ![req[p].unit] = p]
  /\ unitNew' = [unitNew EXCEPT ![req[p].unit] = "reserved"]
  /\ Goto(p, "insert")
  /\ UNCHANGED <<unitStatus, unitVersion, incVars, dispVars, outbox, req, manual>>

LostCAS(p) ==
  /\ pc[p] = "cas"
  /\ ~VersionUnchanged(p)
  /\ IF req[p].attempt < maxOptimisticRetries
     THEN Goto(p, "read") /\ UNCHANGED req
     ELSE End(p)
  /\ UNCHANGED <<unitVars, incVars, dispVars, outbox, manual>>

-----------------------------------------------------------------------------
(* INSERT INTO dispatches, under the partial unique index on active rows.   *)

NoIndex(p, d) == FALSE \* mutant: the migration without the unique index
\* d occupies the index slot of the unit p inserts for.
Rival(p, d) ==
  /\ dUnit[d] = req[p].unit
  /\ IF dLock[d] = p THEN IsActiveDispatch(Seen(p, d))
     ELSE IsActiveDispatch(dStatus[d]) \/ IsActiveDispatch(dNew[d])

\* Another transaction has written d and has not ended: the INSERT waits for it.
InDoubt(p, d) == dLock[d] \notin {None, p} /\ dNew[d] # Clean

InsertDispatch(p) ==
  /\ pc[p] = "insert"
  /\ \A d \in Dispatches : ~Rival(p, d)
  /\ dUnit' = [dUnit EXCEPT ![req[p].new] = req[p].unit]
  /\ dInc' = [dInc EXCEPT ![req[p].new] = req[p].inc]
  /\ dLock' = [dLock EXCEPT ![req[p].new] = p]
  /\ dNew' = [dNew EXCEPT ![req[p].new] = "reserved"]
  /\ Goto(p, "mark")
  /\ UNCHANGED <<dStatus, unitVars, incVars, outbox, req, manual>>

\* 23505 from the index, treated as "unit not available".
InsertConflict(p) ==
  /\ pc[p] = "insert"
  /\ \E d \in Dispatches : Rival(p, d) /\ ~InDoubt(p, d)
  /\ Fail(p, "unit_not_available")

\* mutant: the UPDATE without its WHERE on the source status
UnguardedUpdate(p, i, from, to) ==
  /\ incLock[i] = None
  /\ incLock' = [incLock EXCEPT ![i] = p]
  /\ incNew' = [incNew EXCEPT ![i] = to]
\* A guarded UPDATE of incident i's status by p.
GuardedUpdate(p, i, from, to) ==
  IF incStatus[i] \in from
  THEN /\ incLock[i] = None
       /\ incLock' = [incLock EXCEPT ![i] = p]
       /\ incNew' = [incNew EXCEPT ![i] = to]
  ELSE UNCHANGED <<incLock, incNew>>

\* MarkDispatchedTx.  A reassignment between incidents goes on to look at the
\* incident it took the unit from.
MarkDispatched(p) ==
  /\ pc[p] = "mark"
  /\ GuardedUpdate(p, req[p].inc, {"reported", "verified"}, "dispatched")
  /\ Goto(p, IF Reassigning(p) /\ OldIncident(p) # req[p].inc THEN "count" ELSE "commit")
  /\ UNCHANGED <<incStatus, unitVars, dispVars, outbox, req, manual>>

\* count(*) of the active dispatches of the incident, as of this statement.
CountActive(p) ==
  /\ pc[p] = "count"
  /\ Goto(p, IF \E d \in Dispatches : dInc[d] = OldIncident(p) /\ IsActiveDispatch(Seen(p, d))
             THEN "commit" ELSE "settle")
  /\ UNCHANGED <<unitVars, incVars, dispVars, outbox, req, manual>>

\* ResolveIfDispatchedTx after a completion, RevertToVerifiedTx after a
\* reassignment.
SettleIncident(p) ==
  /\ pc[p] = "settle"
  /\ GuardedUpdate(p, OldIncident(p), {"dispatched"},
                   IF Reassigning(p) THEN "verified" ELSE "resolved")
  /\ Goto(p, "commit")
  /\ UNCHANGED <<incStatus, unitVars, dispVars, outbox, req, manual>>

-----------------------------------------------------------------------------
(* AdvanceStatus.                                                           *)

\* Lock the dispatch, validate the transition under the lock, update it.
AdvanceStatus(p, d, to) ==
  /\ Begin(p, "advance")
  /\ dLock[d] = None
  /\ CanTransitionDispatch(dStatus[d], to)
  /\ dLock' = [dLock EXCEPT ![d] = p]
  /\ dNew' = [dNew EXCEPT ![d] = to]
  /\ req' = [req EXCEPT ![p] = [NoReq EXCEPT !.kind = "advance", !.disp = d, !.to = to]]
  /\ Goto(p, "sync")
  /\ UNCHANGED <<dStatus, dUnit, dInc, unitVars, incVars, outbox, manual>>

\* SetStatusTx: mirror the phase onto the unit, or free it.
SyncUnit(p) ==
  LET u == dUnit[req[p].disp] IN
  /\ pc[p] = "sync"
  /\ unitLock[u] = None
  /\ unitLock' = [unitLock EXCEPT ![u] = p]
  /\ unitNew' = [unitNew EXCEPT ![u] = UnitStatusForDispatch(req[p].to)]
  /\ Goto(p, IF req[p].to = "completed" THEN "count" ELSE "commit")
  /\ UNCHANGED <<unitStatus, unitVersion, incVars, dispVars, outbox, req, manual>>

-----------------------------------------------------------------------------
(* Reroute, Preempt and the Reassign transaction they share.                *)

StartReassign(p, kind, i, pairs) ==
  /\ pairs # {}
  /\ Cardinality(pairs) <= reassignCandidateLimit
  /\ \E d \in UnusedIds :
       req' = [req EXCEPT ![p] = [NoReq EXCEPT !.kind = kind, !.inc = i,
                                               !.new = d, !.todo = pairs]]
  /\ Goto(p, "attempt")
  /\ UNCHANGED <<unitVars, incVars, dispVars, outbox, manual>>

\* Candidates are ranked outside the transaction: any of the units available
\* now may be among them, in any order, and the old unit is skipped.
Reroute(p, d) ==
  /\ Begin(p, "reroute")
  /\ IsActiveDispatch(dStatus[d])
  /\ \E us \in SUBSET {u \in Units \ {dUnit[d]} : unitStatus[u] = "available"} :
       StartReassign(p, "reroute", dInc[d], {d} \X us)

AnySeverity(i, j) == i # j \* mutant: no severity comparison
LessSevere(i, j) == Severity[i] < Severity[j]

\* FindPreemptable: active dispatches of strictly less severe incidents.
Preempt(p, i) ==
  /\ Begin(p, "preempt")
  /\ incStatus[i] \notin TerminalIncident
  /\ \E ds \in SUBSET {d \in Dispatches : IsActiveDispatch(dStatus[d]) /\ LessSevere(dInc[d], i)} :
       StartReassign(p, "preempt", i, {<<d, dUnit[d]>> : d \in ds})

TrustedActive(d) == TRUE \* mutant: the dispatch found earlier is not re-checked
StillActive(d) == IsActiveDispatch(dStatus[d])

\* Lock the dispatch to end and re-check that it is active.
LockOld(p) ==
  /\ pc[p] = "attempt"
  /\ \E a \in req[p].todo :
       /\ dLock[a[1]] = None
       /\ StillActive(a[1])
       /\ dLock' = [dLock EXCEPT ![a[1]] = p]
       /\ req' = [req EXCEPT ![p] = [req[p] EXCEPT !.disp = a[1], !.unit = a[2],
                                                   !.todo = req[p].todo \ {a}]]
  /\ Goto(p, "first")
  /\ UNCHANGED <<dStatus, dUnit, dInc, dNew, unitVars, incVars, outbox, manual>>

OldEnded(p) ==
  /\ pc[p] = "attempt"
  /\ \E a \in req[p].todo :
       /\ dLock[a[1]] = None
       /\ ~StillActive(a[1])
       /\ IF TriesNext(p, "illegal_transition") /\ req[p].todo # {a}
          THEN NextAttempt(p, req[p].todo \ {a})
          ELSE End(p)
  /\ UNCHANGED <<unitVars, incVars, dispVars, outbox, manual>>

\* The unit rows are locked in ascending order of id.
FirstUnit(p) ==
  IF dUnit[req[p].disp] <= req[p].unit THEN dUnit[req[p].disp] ELSE req[p].unit
SecondUnit(p) == IF FirstUnit(p) = req[p].unit THEN dUnit[req[p].disp] ELSE req[p].unit

SameUnit(p) == dUnit[req[p].disp] = req[p].unit

LockFirst(p) ==
  /\ pc[p] = "first"
  /\ unitLock[FirstUnit(p)] = None
  /\ unitLock' = [unitLock EXCEPT ![FirstUnit(p)] = p]
  /\ Goto(p, IF SameUnit(p) THEN "incident" ELSE "second")
  /\ UNCHANGED <<unitStatus, unitVersion, unitNew, incVars, dispVars, outbox, req, manual>>

StillAvailable(p) == unitStatus[req[p].unit] = "available"

\* The second lock, and the re-check of the incoming unit under both.
LockSecond(p) ==
  /\ pc[p] = "second"
  /\ unitLock[SecondUnit(p)] = None
  /\ StillAvailable(p)
  /\ unitLock' = [unitLock EXCEPT ![SecondUnit(p)] = p]
  /\ Goto(p, "incident")
  /\ UNCHANGED <<unitStatus, unitVersion, unitNew, incVars, dispVars, outbox, req, manual>>

UnitTaken(p) ==
  /\ pc[p] = "second"
  /\ unitLock[SecondUnit(p)] = None
  /\ ~StillAvailable(p)
  /\ Fail(p, "unit_not_available")

\* mutant: the old unit freed last, also when it is the new one
FreeOldLast(p) == [unitNew EXCEPT ![req[p].unit] = "reserved",
                                  ![dUnit[req[p].disp]] = "available"]
KeepOldUnit(p) == [unitNew EXCEPT ![req[p].unit] = "reserved"] \* mutant: old unit not freed
\* The old unit is freed and the new one reserved; a preempted unit's row is
\* not written.
MoveUnits(p) ==
  IF SameUnit(p) THEN unitNew
  ELSE [unitNew EXCEPT ![dUnit[req[p].disp]] = "available", ![req[p].unit] = "reserved"]

CancelOld(p) ==
  /\ pc[p] = "incident" /\ Reassigning(p)
  /\ incStatus[req[p].inc] \notin TerminalIncident
  /\ dNew' = [dNew EXCEPT ![req[p].disp] = "cancelled"]
  /\ unitNew' = MoveUnits(p)
  /\ Goto(p, "insert")
  /\ UNCHANGED <<dStatus, dUnit, dInc, dLock, unitStatus, unitVersion, unitLock, incVars,
                 outbox, req, manual>>

-----------------------------------------------------------------------------
(* Writes that bypass the dispatch transactions.                            *)

\* PATCH of an incident's status: GetByID and the state machine's check ...
CheckTransition(p, i, to) ==
  /\ Begin(p, "patch")
  /\ manual < MaxManual
  /\ canTransition(incStatus[i], to)
  /\ req' = [req EXCEPT ![p] = [NoReq EXCEPT !.kind = "patch", !.inc = i, !.to = to]]
  /\ Goto(p, "patch")
  /\ manual' = manual + 1
  /\ UNCHANGED <<unitVars, incVars, dispVars, outbox>>

\* ... then an unconditional UPDATE, in a transaction of its own.
UpdateIncident(p) ==
  /\ pc[p] = "patch"
  /\ incLock[req[p].inc] = None
  /\ incStatus' = [incStatus EXCEPT ![req[p].inc] = req[p].to]
  /\ End(p)
  /\ UNCHANGED <<incLock, incNew, unitVars, dispVars, outbox, manual>>

\* The admin's PATCH of a unit's status: any status, whatever dispatch holds it.
OverrideUnit(u, status) ==
  /\ "override" \in Ops
  /\ manual < MaxManual
  /\ unitLock[u] = None
  /\ unitStatus' = [unitStatus EXCEPT ![u] = status]
  /\ unitVersion' = [unitVersion EXCEPT ![u] = @ + 1]
  /\ manual' = manual + 1
  /\ UNCHANGED <<unitLock, unitNew, incVars, dispVars, outbox, pc, req>>

-----------------------------------------------------------------------------
(* Waiting, deadlock and crashes.                                           *)

\* p's next statement waits for a lock q holds.
WaitsFor(p, q) ==
  /\ p # q
  /\ \/ pc[p] = "first" /\ unitLock[FirstUnit(p)] = q
     \/ pc[p] = "second" /\ unitLock[SecondUnit(p)] = q
     \/ pc[p] = "sync" /\ unitLock[dUnit[req[p].disp]] = q
     \/ pc[p] = "cas" /\ VersionUnchanged(p) /\ unitLock[req[p].unit] = q
     \/ pc[p] = "insert" /\ \E d \in Dispatches : Rival(p, d) /\ InDoubt(p, d) /\ dLock[d] = q
     \/ pc[p] = "mark" /\ incStatus[req[p].inc] \in {"reported", "verified"}
                       /\ incLock[req[p].inc] = q
     \/ pc[p] = "settle" /\ incStatus[OldIncident(p)] = "dispatched"
                         /\ incLock[OldIncident(p)] = q
     \/ pc[p] = "patch" /\ incLock[req[p].inc] = q

WaitCycle(S) == S # {} /\ \A p \in S : \E q \in S : WaitsFor(p, q)

\* Postgres aborts a member of a wait cycle; the handler returns its error.
DeadlockVictim(p) ==
  /\ \E S \in SUBSET Procs : p \in S /\ WaitCycle(S)
  /\ Rollback(p)
  /\ End(p)

\* The process dies, the client goes away or the connection is lost.
Crash(p) ==
  /\ "crash" \in Ops
  /\ pc[p] # "idle"
  /\ Rollback(p)
  /\ End(p)

-----------------------------------------------------------------------------
Init ==
  /\ unitStatus = [u \in Units |-> "available"]
  /\ unitVersion = [u \in Units |-> 1]
  /\ unitLock = [u \in Units |-> None]
  /\ unitNew = [u \in Units |-> Clean]
  /\ incStatus = [i \in Incidents |-> "reported"]
  /\ incLock = [i \in Incidents |-> None]
  /\ incNew = [i \in Incidents |-> Clean]
  /\ dStatus = [d \in Dispatches |-> "none"]
  /\ dUnit = [d \in Dispatches |-> None]
  /\ dInc = [d \in Dispatches |-> None]
  /\ dLock = [d \in Dispatches |-> None]
  /\ dNew = [d \in Dispatches |-> Clean]
  /\ outbox = {}
  /\ pc = [p \in Procs |-> "idle"]
  /\ req = [p \in Procs |-> NoReq]
  /\ manual = 0

\* What an arriving request does first.
Arrive(p) ==
  \/ \E u \in Units, i \in Incidents : LockForReserve(p, u, i) \/ ReadVersion(p, u, i)
  \/ \E d \in Dispatches, to \in DispatchStatuses : AdvanceStatus(p, d, to)
  \/ \E d \in Dispatches : Reroute(p, d)
  \/ \E i \in Incidents : Preempt(p, i)
  \/ \E i \in Incidents, to \in IncidentStatuses : CheckTransition(p, i, to)

\* The statements of a request under way.
Step(p) ==
  \/ RereadVersion(p) \/ IncidentClosed(p) \/ MarkReserved(p) \/ IncidentOpen(p)
  \/ MarkReservedCAS(p) \/ LostCAS(p) \/ InsertDispatch(p) \/ InsertConflict(p)
  \/ MarkDispatched(p) \/ CountActive(p) \/ SettleIncident(p) \/ SyncUnit(p)
  \/ LockOld(p) \/ OldEnded(p) \/ LockFirst(p) \/ LockSecond(p) \/ UnitTaken(p)
  \/ CancelOld(p) \/ UpdateIncident(p) \/ Commit(p)

Next ==
  \/ \E p \in Procs : Arrive(p) \/ Step(p) \/ DeadlockVictim(p) \/ Crash(p)
  \/ \E u \in Units, status \in UnitStatuses : OverrideUnit(u, status)

Spec == Init /\ [][Next]_vars

\* A request under way goes on: Postgres grants locks in the order of the queue,
\* so a statement that can run again and again is not passed over for ever, and
\* its deadlock detector breaks every wait cycle.
FairSpec ==
  /\ Spec
  /\ \A p \in Procs : SF_vars(Step(p)) /\ WF_vars(DeadlockVictim(p))

-----------------------------------------------------------------------------
(* Properties.                                                              *)

EventTypes == {"created", "reroute", "preempt", "completed"}
Requests ==
  [kind : Kinds, inc : Incidents \cup {None}, unit : Units \cup {None},
   disp : Dispatches \cup {None}, new : Dispatches \cup {None},
   to : DispatchStatuses \cup IncidentStatuses \cup {"none"},
   version : Nat, attempt : 0 .. maxOptimisticRetries,
   todo : SUBSET (Dispatches \X Units)]

\* Every column, lock and local of the dispatch core has its type.
TypeOK ==
  /\ unitStatus \in [Units -> UnitStatuses]
  /\ unitVersion \in [Units -> Nat]
  /\ unitLock \in [Units -> Procs \cup {None}]
  /\ unitNew \in [Units -> UnitStatuses \cup {Clean}]
  /\ incStatus \in [Incidents -> IncidentStatuses]
  /\ incLock \in [Incidents -> Procs \cup {None}]
  /\ incNew \in [Incidents -> IncidentStatuses \cup {Clean}]
  /\ dStatus \in [Dispatches -> DispatchStatuses \cup {"none"}]
  /\ dUnit \in [Dispatches -> Units \cup {None}]
  /\ dInc \in [Dispatches -> Incidents \cup {None}]
  /\ dLock \in [Dispatches -> Procs \cup {None}]
  /\ dNew \in [Dispatches -> DispatchStatuses \cup {Clean}]
  /\ outbox \subseteq [type : EventTypes, disp : Dispatches, replaced : Dispatches \cup {None}]
  /\ pc \in [Procs -> Steps]
  /\ req \in [Procs -> Requests]
  /\ manual \in 0 .. MaxManual

Holds(d, u) == dUnit[d] = u /\ IsActiveDispatch(dStatus[d])

\* No unit has two active dispatches, whatever the reservation strategy and
\* whatever an admin writes into the unit's status meanwhile.
NoDoubleBooking ==
  \A d, e \in Dispatches : \A u \in Units : Holds(d, u) /\ Holds(e, u) => d = e

Birth(e) == e.type \in {"created", "reroute", "preempt"}

\* The outbox tells exactly the committed story: a dispatch row has one event
\* that announces it, a completed one its completion event, a replaced one is
\* cancelled and was replaced once; nothing rolled back is announced.
OutboxAgrees ==
  /\ \A e \in outbox : dStatus[e.disp] # "none"
  /\ \A d \in Dispatches : dStatus[d] # "none" => \E e \in outbox : e.disp = d /\ Birth(e)
  /\ \A e, f \in outbox : e.disp = f.disp /\ (Birth(e) <=> Birth(f)) => e = f
  /\ \A d \in Dispatches :
       dStatus[d] = "completed" <=> \E e \in outbox : e.disp = d /\ ~Birth(e)
  /\ \A e \in outbox : e.replaced # None => dStatus[e.replaced] = "cancelled"
  /\ \A e, f \in outbox : e.replaced = f.replaced /\ e.replaced # None => e = f

\* A dispatch appears on a unit that is available at the commit, or takes over
\* from the active dispatch it cancels there: neither the lock path, nor the
\* CAS path, nor a reroute ranked outside its transaction acts on a stale read.
TakesOnlyAvailable ==
  [][\A d \in Dispatches : dStatus[d] = "none" /\ dStatus'[d] # "none" =>
       \/ unitStatus[dUnit[d]] = "available"
       \/ \E e \in Dispatches : Holds(e, dUnit[d]) /\ dStatus'[e] = "cancelled"]_vars

\* A dispatch advances one phase at a time or is cancelled while active, and a
\* finished dispatch is never resurrected or cancelled late.
Lifecycle ==
  [][\A d \in Dispatches : dStatus'[d] # dStatus[d] =>
       <<dStatus[d], dStatus'[d]>> \in allowedDispatchTransitions
                                       \cup {<<"none", "reserved">>}]_vars

\* The incident each unit is committed to.
serving ==
  [u \in Units |-> IF \E d \in Dispatches : Holds(d, u)
                   THEN dInc[CHOOSE d \in Dispatches : Holds(d, u)] ELSE None]
Fleet == INSTANCE FleetAllocation WITH Free <- None

\* The dispatch core implements the fleet allocation: between commits nothing
\* changes hands, a reroute never leaves its incident without a unit, and a
\* unit moves between incidents only towards the more severe one.
ImplementsFleet == Fleet!Spec

\* A unit is available exactly when no dispatch holds it, as long as no admin
\* overrides its status.
AvailableIffUnheld ==
  \A u \in Units : unitStatus[u] = "available" <=> \A d \in Dispatches : ~Holds(d, u)

\* No set of transactions waits for each other in a cycle.
NoWaitCycle == \A S \in SUBSET Procs : ~WaitCycle(S)

\* A resolved or cancelled incident stays so.
TerminalStays ==
  [][\A i \in Incidents : incStatus[i] \in TerminalIncident => incStatus'[i] = incStatus[i]]_vars

\* "Active phases mirror onto the unit" (model.go:69-70), and a preempted unit "simply STAYS
\* reserved" (reassign.go:110-111): the unit of an active dispatch shows its phase.
PhaseMirrored ==
  \A d \in Dispatches :
    IsActiveDispatch(dStatus[d]) => unitStatus[dUnit[d]] = UnitStatusForDispatch(dStatus[d])

\* An incident that shows 'dispatched' and has had dispatches has an active one,
\* unless an operator cancelled one of them without a replacement.
NobodyForgotten ==
  \A i \in Incidents :
    LET sent == {d \in Dispatches : dInc[d] = i /\ dStatus[d] # "none"} IN
    incStatus[i] = "dispatched" /\ sent # {} =>
      \/ \E d \in sent : IsActiveDispatch(dStatus[d])
      \/ \E d \in sent : dStatus[d] = "cancelled" /\ \A e \in outbox : e.replaced # d

\* Every request ends: it commits, is refused or is rolled back.
RequestsEnd == \A p \in Procs : pc[p] # "idle" ~> pc[p] = "idle"

=============================================================================
