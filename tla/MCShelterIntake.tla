--------------------------- MODULE MCShelterIntake ---------------------------
(* A small instance of ShelterIntake for TLC.                               *)
EXTENDS ShelterIntake, TLC

CONSTANTS s1, s2

\* One bed in the first shelter, so that two victims compete for it.
MCCapacity == (s1 :> 1) @@ (s2 :> 2)
=============================================================================
