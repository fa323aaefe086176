------------------------------ MODULE Reports ------------------------------
(***************************************************************************)
(* Reporting an incident: merge into an active incident that is near and   *)
(* recent, or create one.                                                  *)
(*                                                                         *)
(* TryDedupe is one statement, yet two steps: its sub-select searches in   *)
(* the statement's snapshot, and the UPDATE then waits for the row it      *)
(* found and applies to the row's current version, whose status it does    *)
(* not look at again.  The INSERT is a transaction of its own.  An         *)
(* incident is named by the report that created it.                        *)
(***************************************************************************)
EXTENDS Integers, FiniteSets

CONSTANTS
  Reports,
  Near,          \* pairs of reports within dedupeRadiusMeters
  Window,        \* dedupeWindowMinutes
  MaxChanges,    \* bound on status changes by operators and dispatches
  NoReport

ASSUME ReportsAssumption ==
  /\ IsFiniteSet(Reports)
  /\ Near \subseteq Reports \X Reports
  /\ Window \in Nat /\ MaxChanges \in Nat
  /\ NoReport \notin Reports

VARIABLES
  reportPc,            \* each report's request
  target,        \* the incident it is merged into, or NoReport
  status, age, reportCount, \* incidents rows; ages are kept up to Window
  changes,
  open           \* history: the open incidents in the snapshot of its search

incidentRows == <<status, age, reportCount>>
reportVars == <<reportPc, target, incidentRows, changes, open>>

IncidentStatuses == {"reported", "verified", "dispatched", "resolved", "cancelled"}
OnlyReported == {"reported"} \* mutant: incidents under way are not searched
ActiveIncident == {"reported", "verified", "dispatched"}

Incidents == {i \in Reports : status[i] # "absent"}
Open == {i \in Incidents : status[i] \notin {"resolved", "cancelled"}}

ReportGoto(r, step) == reportPc' = [reportPc EXCEPT ![r] = step]

-----------------------------------------------------------------------------
\* The sub-select of TryDedupe; ORDER BY distance is left open.
Matches(r) ==
  {i \in Incidents : status[i] \in ActiveIncident /\ age[i] < Window /\ <<r, i>> \in Near}

Search(r) ==
  /\ reportPc[r] = "new"
  /\ IF Matches(r) = {}
       THEN ReportGoto(r, "insert") /\ UNCHANGED target
       ELSE \E i \in Matches(r) : ReportGoto(r, "merge") /\ target' = [target EXCEPT ![r] = i]
  /\ open' = [open EXCEPT ![r] = Open]
  /\ UNCHANGED <<incidentRows, changes>>

Count(r) == reportCount' = [reportCount EXCEPT ![target[r]] = reportCount[target[r]] + 1]

\* mutant: a merged report goes on and creates an incident as well
MergeAndInsert(r) ==
  /\ reportPc[r] = "merge"
  /\ Count(r)
  /\ ReportGoto(r, "insert")
  /\ UNCHANGED <<target, status, age, changes, open>>
Merge(r) ==
  /\ reportPc[r] = "merge"
  /\ Count(r)
  /\ ReportGoto(r, "merged")
  /\ UNCHANGED <<target, status, age, changes, open>>

\* Create: status and report_count default in the database.
Insert(r) ==
  /\ reportPc[r] = "insert"
  /\ status' = [status EXCEPT ![r] = "reported"]
  /\ age' = [age EXCEPT ![r] = 0]
  /\ reportCount' = [reportCount EXCEPT ![r] = 1]
  /\ ReportGoto(r, "created")
  /\ UNCHANGED <<target, changes, open>>

\* A database error, or the request ends: nothing of this report is kept.
Fail(r) ==
  /\ reportPc[r] \in {"merge", "insert"}
  /\ ReportGoto(r, "failed")
  /\ UNCHANGED <<target, incidentRows, changes, open>>

\* Operators and dispatches move the incident; module Dispatch has the rules, and
\* shows that a closed incident can be opened again.
ChangeStatus(i) ==
  /\ changes < MaxChanges
  /\ \E s \in IncidentStatuses \ {status[i], "reported"} : status' = [status EXCEPT ![i] = s]
  /\ changes' = changes + 1
  /\ UNCHANGED <<reportPc, target, age, reportCount, open>>

IncidentsAge ==
  /\ \E i \in Incidents : age[i] < Window
  /\ age' = [i \in Reports |-> IF i \in Incidents /\ age[i] < Window THEN age[i] + 1 ELSE age[i]]
  /\ UNCHANGED <<reportPc, target, status, reportCount, changes, open>>

-----------------------------------------------------------------------------
ReportsInit ==
  /\ reportPc = [r \in Reports |-> "new"]
  /\ target = [r \in Reports |-> NoReport]
  /\ status = [r \in Reports |-> "absent"]
  /\ age = [r \in Reports |-> 0]
  /\ reportCount = [r \in Reports |-> 0]
  /\ changes = 0
  /\ open = [r \in Reports |-> {}]

ReportsNext ==
  \/ \E r \in Reports : Search(r) \/ Merge(r) \/ Insert(r) \/ Fail(r)
  \/ \E i \in Incidents : ChangeStatus(i)
  \/ IncidentsAge

ReportsSpec == ReportsInit /\ [][ReportsNext]_reportVars

-----------------------------------------------------------------------------
(* Properties.                                                              *)

ReportsTypeOK ==
  /\ reportPc \in [Reports -> {"new", "merge", "insert", "merged", "created", "failed"}]
  /\ target \in [Reports -> Reports \cup {NoReport}]
  /\ status \in [Reports -> IncidentStatuses \cup {"absent"}]
  /\ age \in [Reports -> 0 .. Window]
  /\ reportCount \in [Reports -> Nat]
  /\ changes \in 0 .. MaxChanges
  /\ open \in [Reports -> SUBSET Reports]

MergedInto(i) == {r \in Reports : reportPc[r] = "merged" /\ target[r] = i}

\* A report the service accepted is counted exactly once, in one incident that exists,
\* is near and was open when the report searched: no merge overwrites another, none
\* lands on a row that was never created or that was already closed.
CountedOnce ==
  /\ \A i \in Reports :
       reportCount[i] = Cardinality(MergedInto(i)) + (IF reportPc[i] = "created" THEN 1 ELSE 0)
  /\ \A r \in Reports :
       reportPc[r] = "merged" =>
         reportPc[target[r]] = "created" /\ target[r] \in open[r] /\ <<r, target[r]>> \in Near

\* "The residual race (two concurrent FIRST reports both finding no match)"
\* (repository.go:176-177) is the only way to two recent open incidents for one event: the
\* one's report searched before the other was created, or while it was closed.
DuplicatesExplained ==
  \A i, j \in Open :
    (i # j /\ <<j, i>> \in Near /\ age[i] < Window) => i \notin open[j]
=============================================================================
