----------------------------- MODULE MCPipeline -----------------------------
(* Small instances of Pipeline for TLC.                                     *)
EXTENDS Pipeline, TLC

\* Events 1 and 2 are about the same dispatch, 3 about a victim.
MCAggregate == (1 :> "dispatch") @@ (2 :> "dispatch") @@ (3 :> "victim")

=============================================================================
