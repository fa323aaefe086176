------------------------------ MODULE Services ------------------------------
(***************************************************************************)
(* The five services that share no table and no key with each other or     *)
(* with dispatch.  A behaviour runs one of them, chosen at the start, and  *)
(* leaves the others in their initial states: what they do next to each    *)
(* other adds nothing.                                                     *)
(***************************************************************************)
EXTENDS RateLimiter, TransportSeats, Reports, LiveSearch, Sessions

VARIABLE service \* the one that runs

-----------------------------------------------------------------------------
ServicesInit ==
  /\ service \in {"limiter", "transport", "incident", "presence", "auth"}
  /\ LimiterInit
  /\ SeatsInit
  /\ ReportsInit
  /\ SearchInit
  /\ SessionsInit

LimiterStep ==
  /\ service = "limiter"
  /\ LimiterNext
  /\ UNCHANGED <<service, seatVars, reportVars, searchVars, sessionVars>>
TransportStep ==
  /\ service = "transport"
  /\ SeatsNext
  /\ UNCHANGED <<service, limiterVars, reportVars, searchVars, sessionVars>>
IncidentStep ==
  /\ service = "incident"
  /\ ReportsNext
  /\ UNCHANGED <<service, limiterVars, seatVars, searchVars, sessionVars>>
PresenceStep ==
  /\ service = "presence"
  /\ SearchNext
  /\ UNCHANGED <<service, limiterVars, seatVars, reportVars, sessionVars>>
AuthStep ==
  /\ service = "auth"
  /\ SessionsNext
  /\ UNCHANGED <<service, limiterVars, seatVars, reportVars, searchVars>>

ServicesNext == LimiterStep \/ TransportStep \/ IncidentStep \/ PresenceStep \/ AuthStep

servicesVars == <<service, limiterVars, seatVars, reportVars, searchVars, sessionVars>>

\* Time passes for tokens.
Expiry == AuthStep /\ TokensAge

ServicesSpec == ServicesInit /\ [][ServicesNext]_servicesVars /\ WF_servicesVars(Expiry)

-----------------------------------------------------------------------------
\* Every service's state is well typed, seats within the CHECK of migration 000016.
TypesOK ==
  /\ LimiterTypeOK
  /\ SeatsTypeOK
  /\ ReportsTypeOK
  /\ SearchTypeOK
  /\ SessionsTypeOK
=============================================================================
