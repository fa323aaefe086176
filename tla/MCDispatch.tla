----------------------------- MODULE MCDispatch -----------------------------
(* Small instances of Dispatch for TLC.                                     *)
EXTENDS Dispatch, TLC

CONSTANTS i1, i2

\* One incident more severe than the other: critical over medium.
MCSeverity == (i1 :> 2) @@ (i2 :> 4)

Symmetry == {f @@ g : f \in Permutations(Procs), g \in Permutations(Dispatches)}

=============================================================================
