--------------------------- MODULE CapacityLedger ---------------------------
(***************************************************************************)
(* What a counted resource promises, without rows, locks or transactions:  *)
(* a claim takes room in one pool, all of it or nothing, never more than   *)
(* the pool has left; it is taken at most once and given back at most once.*)
(***************************************************************************)
EXTENDS Integers

CONSTANTS Claims, Pools, Capacity, None

VARIABLES
  used,  \* room taken in each pool
  pool,  \* the pool each claim holds room in, or None
  size   \* how much each claim took, 0 before it took any

vars == <<used, pool, size>>

Init ==
  /\ used = [r \in Pools |-> 0]
  /\ pool = [c \in Claims |-> None]
  /\ size = [c \in Claims |-> 0]

\* A bed or a number of seats is claimed.
Take(c, r, n) ==
  /\ size[c] = 0
  /\ used[r] + n <= Capacity[r]
  /\ used' = [used EXCEPT ![r] = used[r] + n]
  /\ pool' = [pool EXCEPT ![c] = r]
  /\ size' = [size EXCEPT ![c] = n]

\* A claim returns what it took, for good.
Give(c) ==
  /\ pool[c] # None
  /\ used' = [used EXCEPT ![pool[c]] = used[pool[c]] - size[c]]
  /\ pool' = [pool EXCEPT ![c] = None]
  /\ UNCHANGED size

Next ==
  \E c \in Claims :
    \/ \E r \in Pools : \E n \in 1 .. Capacity[r] : Take(c, r, n)
    \/ Give(c)

Spec == Init /\ [][Next]_vars
=============================================================================
