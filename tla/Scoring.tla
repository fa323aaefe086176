------------------------------ MODULE Scoring ------------------------------
(***************************************************************************)
(* The dispatch and shelter rankings, as functions over integers: times in *)
(* tenths of a second, distances in metres, shares in percent or in parts  *)
(* of the falloff.                                                         *)
(***************************************************************************)
EXTENDS Integers, Sequences, FiniteSets

UnitTypes == {"ambulance", "police", "fire", "rescue"}

\* avgSpeedMPS in tenths; an unknown type moves at the default speed.
avgSpeedMPS == [ambulance |-> 139, police |-> 167, fire |-> 111, rescue |-> 111]
defaultSpeedMPS == 111
Speed(type) == IF type \in UnitTypes THEN avgSpeedMPS[type] ELSE defaultSpeedMPS

etaFalloffSeconds == 9000

\* With roadDetourFactor, 1.3.
etaSeconds(metres, type) == (metres * 130) \div Speed(type)

weightsForSeverity(severity) ==
  IF severity = "critical" THEN [time |-> 85, skill |-> 15]
  ELSE IF severity = "high" THEN [time |-> 75, skill |-> 25]
  ELSE IF severity = "medium" THEN [time |-> 60, skill |-> 40]
  ELSE [time |-> 50, skill |-> 50]

TimeScore(metres, type) ==
  LET left == etaFalloffSeconds - etaSeconds(metres, type) IN IF left < 0 THEN 0 ELSE left

\* "" is no preference; partialSkillMatch is 30 %.
SkillScore(type, need) ==
  IF need.requiredType # "" /\ type # need.requiredType
    THEN (etaFalloffSeconds * 30) \div 100 ELSE etaFalloffSeconds

\* mutant: severity is ignored, and with it the share of the skill
SpeedOnly(metres, type, need) == 100 * TimeScore(metres, type)
\* 100 * etaFalloffSeconds stands for 1.0.
ScoreUnit(metres, type, need) ==
  LET w == weightsForSeverity(need.severity)
  IN  w.time * TimeScore(metres, type) + w.skill * SkillScore(type, need)

shelterProximityFalloffMeters == 25000

\* Proximity (70 %) and free share of the capacity (30 %), as a fraction of the
\* shelter's capacity: capacity * shelterProximityFalloffMeters * 100 stands for 1.0.
ScoreShelter(metres, capacity, occupancy) ==
  LET near == shelterProximityFalloffMeters - metres
      free == capacity - occupancy
  IN  70 * capacity * (IF near < 0 THEN 0 ELSE near)
      + 30 * shelterProximityFalloffMeters * (IF free < 0 THEN 0 ELSE free)

\* sort.SliceStable by descending score: ties keep the incoming order.
Ranked(s, score) ==
  LET Before(i, j) ==
        score[s[i]] > score[s[j]] \/ (score[s[i]] = score[s[j]] /\ i < j)
      Place(i) == 1 + Cardinality({j \in DOMAIN s : Before(j, i)})
  IN  [k \in DOMAIN s |-> s[CHOOSE i \in DOMAIN s : Place(i) = k]]
=============================================================================
