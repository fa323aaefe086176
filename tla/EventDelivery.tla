---------------------------- MODULE EventDelivery ----------------------------
(***************************************************************************)
(* What the event pipeline promises, without relays, batches, offsets,     *)
(* redeliveries or crashes: an event that was written waits until it is    *)
(* either published, which it only is once everybody has been told, or     *)
(* dead, which it only is after Budget recorded refusals; and a group acts *)
(* on an event once, and only on one that was told.                        *)
(***************************************************************************)
EXTENDS Integers

CONSTANTS Events, Groups, Budget

VARIABLES
  fate,     \* each event: "absent", "pending", "published" or "dead"
  refusals, \* recorded refusals of each event
  told,     \* the events that have reached the topic
  acted     \* how often each group has acted on each event

vars == <<fate, refusals, told, acted>>

Init ==
  /\ fate = [e \in Events |-> "absent"]
  /\ refusals = [e \in Events |-> 0]
  /\ told = {}
  /\ acted = [g \in Groups |-> [e \in Events |-> 0]]

Write(e) ==
  /\ fate[e] = "absent"
  /\ fate' = [fate EXCEPT ![e] = "pending"]
  /\ UNCHANGED <<refusals, told, acted>>

\* Only an event that still waits is told for the first time.
Tell(e) ==
  /\ fate[e] = "pending"
  /\ told' = told \cup {e}
  /\ UNCHANGED <<fate, refusals, acted>>

\* The outcomes of some waiting events are recorded: D were told, F were refused.
Settle(D, F) ==
  /\ D \subseteq told /\ D \cap F = {}
  /\ \A e \in D \cup F : fate[e] = "pending"
  /\ refusals' = [e \in Events |-> IF e \in F THEN refusals[e] + 1 ELSE refusals[e]]
  /\ fate' = [e \in Events |->
       IF e \in D THEN "published"
       ELSE IF e \in F /\ refusals'[e] = Budget THEN "dead" ELSE fate[e]]
  /\ UNCHANGED <<told, acted>>

Act(g, e) ==
  /\ e \in told
  /\ acted[g][e] = 0
  /\ acted' = [acted EXCEPT ![g][e] = 1]
  /\ UNCHANGED <<fate, refusals, told>>

Next ==
  \/ \E e \in Events : Write(e) \/ Tell(e) \/ \E g \in Groups : Act(g, e)
  \/ \E D, F \in SUBSET Events : Settle(D, F)

Spec == Init /\ [][Next]_vars
=============================================================================
