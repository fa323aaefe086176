----------------------------- MODULE MCServices -----------------------------
(***************************************************************************)
(* Small instances, for TLC, of the five services of module Services.      *)
(***************************************************************************)
EXTENDS Services, TLC

CONSTANTS
  g1, g2, q1, q2,           \* gateways and their requests
  b1, b2, b3, p1, p2, t1, t2, \* bookings, handlers, vehicles
  e1, e2, e3,               \* reports
  admin, responder, manager, u1, u2, s1 \* accounts, units, shelters

-----------------------------------------------------------------------------
\* The second gateway's clock is ahead.
MCGatewayOf == (q1 :> g1) @@ (q2 :> g2)
MCSkew == (g1 :> 0) @@ (g2 :> 1)

\* A vehicle for a group and one with a single seat.
MCCapacity == (t1 :> 3) @@ (t2 :> 1)

\* The second report is near both of the others.
MCNear == {<<e1, e2>>, <<e2, e1>>, <<e2, e3>>, <<e3, e2>>}

\* The nearest live unit was registered farthest away, and the farthest nearest; the
\* registered positions are all too far for a time score, the last live one too.
MCUnits == 1 .. 3
MCDist == <<500, 6000, 14000>>
MCRegDist == <<15000, 14000, 12000>>
MCUnitType == <<"ambulance", "ambulance", "fire">>
MCLimit == [nearby |-> 1, candidates |-> 2]
MCNeeds == {[severity |-> "critical", requiredType |-> "ambulance"],
            [severity |-> "low", requiredType |-> "ambulance"],
            [severity |-> "medium", requiredType |-> ""]}

MCDemo == (admin :> "admin") @@ (responder :> "responder") @@ (manager :> "shelter_manager")
=============================================================================
