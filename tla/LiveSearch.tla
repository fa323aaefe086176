----------------------------- MODULE LiveSearch -----------------------------
(***************************************************************************)
(* Heartbeats and the search for units: presence keys with a TTL, the GEO  *)
(* index that keeps members for ever, NearbyLive, and dispatch.Candidates, *)
(* which hydrates its answer from Postgres or falls back to the registry.  *)
(*                                                                         *)
(* One request runs next to heartbeats, the passing of time and restarts   *)
(* of Redis; each Redis or Postgres call is a step.  Time is counted in    *)
(* heartbeat intervals.  Units do not move relative to the point searched  *)
(* from; their registration pins may be elsewhere.                         *)
(***************************************************************************)
EXTENDS Scoring, SequencesExt

CONSTANTS
  Units,
  Dist, RegDist, \* metres from the last heartbeat's and the registered position
  UnitType,
  TTL,           \* in heartbeat intervals
  Radius,
  Limit,         \* of a request, by its kind
  Needs          \* severities and preferred types asked for

ASSUME SearchAssumption ==
  /\ IsFiniteSet(Units)
  /\ Dist \in [Units -> Nat] /\ RegDist \in [Units -> Nat]
  /\ DOMAIN UnitType = Units
  /\ TTL \in Nat \ {0}
  /\ Limit \in [{"nearby", "candidates"} -> Nat \ {0}]

VARIABLES
  life,     \* intervals left to each presence key, 0 when there is none
  index,    \* members of the GEO set
  searchPc, kind, \* the request: live units ("nearby") or "candidates"
  found, alive, nearby, \* locals of NearbyLive
  asked, answer, source, \* what Candidates returns, ranked; whose distances it used
  avail,    \* history: units whose rows said available when it last asked
  steady    \* history: units live and indexed ever since the GEOSEARCH

redis == <<life, index>>
search == <<kind, found, alive, nearby>>
result == <<asked, answer, source, avail>>
searchVars == <<redis, searchPc, search, result, steady>>

-----------------------------------------------------------------------------
(* Presence.                                                                *)

Present(u) == life[u] > 0

\* The pipeline of Heartbeat: SET with its TTL, then GEOADD.
Heartbeat(u) ==
  /\ life' = [life EXCEPT ![u] = TTL]
  /\ index' = index \cup {u}
  /\ UNCHANGED <<searchPc, search, result, steady>>

\* The connection breaks between the two; the unit is told to retry.
HalfHeartbeat(u) ==
  /\ life' = [life EXCEPT ![u] = TTL]
  /\ UNCHANGED <<index, searchPc, search, result, steady>>

PresenceTick ==
  /\ \E u \in Units : Present(u)
  /\ life' = [u \in Units |-> IF Present(u) THEN life[u] - 1 ELSE 0]
  /\ steady' = {u \in steady : life[u] > 1}
  /\ UNCHANGED <<index, searchPc, search, result>>

RedisRestart ==
  /\ life' = [u \in Units |-> 0]
  /\ index' = {}
  /\ steady' = {}
  /\ UNCHANGED <<searchPc, search, result>>

-----------------------------------------------------------------------------
(* NearbyLive.                                                              *)

\* What "the n nearest of S, by the distances D" may be: nothing orders equals.
Nearest(S, D, n) ==
  {T \in SUBSET S :
    /\ Cardinality(T) <= n
    /\ T # S => Cardinality(T) = n
    /\ \A u \in T, v \in S \ T : D[u] <= D[v]}
ByDistance(S, D) == {s \in SetToSeqs(S) : \A i, j \in DOMAIN s : i < j => D[s[i]] <= D[s[j]]}

\* Candidates asks for three times its limit, "some live units will be busy".
Want(k) == IF k = "nearby" THEN Limit[k] ELSE 3 * Limit[k]
ExactFetch(k) == Want(k) \* mutant: no over-fetching
OverFetch(k) == 2 * Want(k)

InRange == {u \in Units : Dist[u] <= Radius}

Forget ==
  /\ kind' = "none" /\ found' = {} /\ alive' = {} /\ nearby' = {}
  /\ steady' = {}

GeoSearch(k) ==
  /\ searchPc = "idle"
  /\ index \cap InRange # {}
  /\ kind' = k
  /\ found' \in Nearest(index \cap InRange, Dist, OverFetch(k))
  /\ steady' = {u \in index \cap InRange : Present(u)}
  /\ searchPc' = "filter"
  /\ UNCHANGED <<redis, alive, nearby, result>>

\* No hit, or an error; a search of live units ends there.
NoHits ==
  /\ searchPc = "idle"
  /\ searchPc' = "registry"
  /\ UNCHANGED <<redis, search, result, steady>>

\* mutant: a failing EXISTS counts as absent
FailClosed == {}
\* Exec returns the error of the first command that failed, so that one failing EXISTS
\* opens the whole batch, before the check of each key is reached.
FailOpen == found

FilterPresent ==
  /\ searchPc = "filter"
  /\ alive' \in {{u \in found : Present(u)}, FailOpen}
  /\ nearby' \in Nearest(alive', Dist, Want(kind))
  /\ searchPc' = "evict"
  /\ UNCHANGED <<redis, kind, found, result, steady>>

\* ZREM of what was dark at the check, best effort; a search of live units is
\* answered with nearby.
Evict ==
  /\ searchPc = "evict"
  /\ index' \in {index, index \ (found \ alive)}
  /\ IF kind = "nearby"
       THEN searchPc' = "idle" /\ Forget
       ELSE IF nearby = {}
         THEN searchPc' = "registry" /\ Forget
         ELSE searchPc' = "hydrate" /\ steady' = steady \cap index' /\ UNCHANGED search
  /\ UNCHANGED <<life, result>>

-----------------------------------------------------------------------------
(* Candidates.                                                              *)

\* The shortlist, the nearest first, in the order of its scores.
Answer(S, D, from, A) ==
  /\ avail' = A
  /\ \E n \in Needs, s \in ByDistance(S, D) :
       LET score == [u \in S |-> ScoreUnit(D[u], UnitType[u], n)] IN
       asked' = n /\ answer' = Ranked(s, score)
  /\ source' = from
  /\ searchPc' = "answered"
  /\ Forget
  /\ UNCHANGED redis

\* FindAvailableByIDs, in live order, cut at the limit.
Usable(A) == Nearest(nearby \cap A, Dist, Limit["candidates"])

\* A is the set of available units in the query's snapshot.
Hydrate(A) ==
  /\ searchPc = "hydrate"
  /\ nearby \cap A # {}
  /\ \E S \in Usable(A) : Answer(S, Dist, "live", A)

\* mutant: with everyone near busy, the answer is empty
NoneNearby ==
  /\ searchPc = "hydrate"
  /\ \E A \in SUBSET Units : nearby \cap A = {} /\ Answer({}, Dist, "live", A)
\* Everyone near is busy, or the query failed.
FallBack ==
  /\ searchPc = "hydrate"
  /\ searchPc' = "registry"
  /\ Forget
  /\ UNCHANGED <<redis, result>>

\* FindNearestAvailable.
Registry(A) ==
  /\ searchPc = "registry"
  /\ \E S \in Nearest(A, RegDist, Limit["candidates"]) : Answer(S, RegDist, "registry", A)

NoNeed == [severity |-> "", requiredType |-> ""]

Reply ==
  /\ searchPc = "answered"
  /\ searchPc' = "idle"
  /\ asked' = NoNeed /\ answer' = <<>> /\ source' = "none" /\ avail' = {}
  /\ UNCHANGED <<redis, search, steady>>

-----------------------------------------------------------------------------
SearchInit ==
  /\ life = [u \in Units |-> 0] /\ index = {}
  /\ searchPc = "idle"
  /\ kind = "none" /\ found = {} /\ alive = {} /\ nearby = {}
  /\ asked = NoNeed /\ answer = <<>> /\ source = "none" /\ avail = {}
  /\ steady = {}

SearchNext ==
  \/ \E u \in Units : Heartbeat(u) \/ HalfHeartbeat(u)
  \/ PresenceTick
  \/ RedisRestart
  \/ \E k \in {"nearby", "candidates"} : GeoSearch(k)
  \/ NoHits
  \/ FilterPresent
  \/ Evict
  \/ FallBack
  \/ \E A \in SUBSET Units : Hydrate(A) \/ Registry(A)
  \/ Reply

SearchSpec == SearchInit /\ [][SearchNext]_searchVars

-----------------------------------------------------------------------------
(* Properties.                                                              *)

SearchTypeOK ==
  /\ life \in [Units -> 0 .. TTL]
  /\ index \subseteq Units
  /\ searchPc \in {"idle", "filter", "evict", "hydrate", "registry", "answered"}
  /\ kind \in {"none", "nearby", "candidates"}
  /\ alive \subseteq found /\ nearby \subseteq alive /\ found \subseteq Units
  /\ Len(answer) <= Limit["candidates"] /\ ToSet(answer) \subseteq avail
  /\ source \in {"none", "live", "registry"}
  /\ avail \subseteq Units /\ steady \subseteq Units

\* "dropping dark members does not leave us short" (service.go:120), as far as it goes:
\* a unit that was live and indexed throughout is in the answer, unless enough others
\* no farther are, or twice as many members of the index no farther, dark ones included,
\* hid it.
NotOverlooked ==
  searchPc \in {"evict", "hydrate"} =>
    \A u \in steady \ nearby :
      \/ Cardinality({v \in nearby : Dist[v] <= Dist[u]}) >= Want(kind)
      \/ Cardinality({v \in found \ {u} : Dist[v] <= Dist[u]}) >= 2 * Want(kind)

\* "A position cache being down must degrade dispatch, never stop it" (dispatch/
\* service.go:171): whatever Redis holds, loses or refuses, candidates are found as long
\* as some unit is available.
NeverStopped ==
  (searchPc = "answered" /\ avail # {}) => answer # <<>>

\* The ranking never puts a unit above one that is sure to be better: one that suits
\* better and arrives no later, one that arrives sooner (within the falloff) and suits as
\* well, or one of the same type that is nearer.
Undominated ==
  LET D == IF source = "live" THEN Dist ELSE RegDist
      eta(u) == etaSeconds(D[u], UnitType[u])
      skill(u) == SkillScore(UnitType[u], asked)
  IN  \A i, j \in DOMAIN answer :
        i < j => LET u == answer[i]  v == answer[j] IN
          /\ ~(skill(v) > skill(u) /\ eta(v) <= eta(u))
          /\ ~(skill(v) >= skill(u) /\ eta(v) < eta(u) /\ eta(v) < etaFalloffSeconds)
          /\ ~(UnitType[v] = UnitType[u] /\ D[v] < D[u])

\* A live unit can be missing from the index: a restart emptied it, a heartbeat broke
\* off, or a search evicted it between its dark spell and its next heartbeat.  As long
\* as it keeps reporting it is put back for good.
Reindexed ==
  \A u \in Units :
    (<>[](Present(u)) /\ []<><<Heartbeat(u)>>_searchVars) => <>[](u \in index)
=============================================================================
