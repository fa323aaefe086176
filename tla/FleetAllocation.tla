--------------------------- MODULE FleetAllocation ---------------------------
(***************************************************************************)
(* What the dispatch core promises, without rows, locks or transactions:   *)
(* every unit serves at most one incident, and the assignment changes only *)
(* in one of four indivisible ways.                                        *)
(***************************************************************************)
EXTENDS Naturals

CONSTANTS Units, Incidents, Severity, Free

VARIABLE serving \* the incident each unit serves, or Free

TypeOK == serving \in [Units -> Incidents \cup {Free}]

Init == serving = [u \in Units |-> Free]

\* A free unit is reserved for an incident.
Assign(u, i) == serving[u] = Free /\ serving' = [serving EXCEPT ![u] = i]

\* A dispatch is completed or cancelled.
Release(u) == serving[u] # Free /\ serving' = [serving EXCEPT ![u] = Free]

\* An incident is rerouted: its unit is freed as a free one takes over.
Replace(u, v) ==
  /\ serving[u] # Free /\ serving[v] = Free
  /\ serving' = [serving EXCEPT ![u] = Free, ![v] = serving[u]]

\* A unit is preempted, for a strictly more severe incident only.
Preempt(u, i) ==
  /\ serving[u] # Free /\ Severity[serving[u]] < Severity[i]
  /\ serving' = [serving EXCEPT ![u] = i]

Next ==
  \/ \E u \in Units, i \in Incidents : Assign(u, i) \/ Preempt(u, i)
  \/ \E u \in Units : Release(u)
  \/ \E u, v \in Units : Replace(u, v)

Spec == Init /\ [][Next]_serving
=============================================================================
