---------------------------- MODULE SearchProofs ----------------------------
(***************************************************************************)
(* Theorems about Scoring and LiveSearch: what the scores guarantee for    *)
(* every distance, unit type and need, and what the search for units       *)
(* guarantees whatever Redis holds, loses or refuses.                      *)
(***************************************************************************)
EXTENDS LiveSearch, FiniteSetTheorems, TLAPS

-----------------------------------------------------------------------------
(* The scores.                                                              *)

\* Severity splits a whole between time and skill, and neither is ever left out.
LEMMA WeightsSplit ==
  ASSUME NEW severity
  PROVE  LET w == weightsForSeverity(severity) IN
         /\ w.time \in 50 .. 85 /\ w.skill \in 15 .. 50
         /\ w.time + w.skill = 100
BY DEF weightsForSeverity

\* Every type, known or not, has one of three speeds.
LEMMA Speeds == ASSUME NEW type PROVE Speed(type) \in {111, 139, 167}
BY DEF Speed, UnitTypes, avgSpeedMPS, defaultSpeedMPS

\* An estimate is a number.
LEMMA EtaIsNat ==
  ASSUME NEW metres \in Nat, NEW type PROVE etaSeconds(metres, type) \in Nat
<1>1. metres * 130 \in Nat OBVIOUS
<1>2. CASE Speed(type) = 111 BY <1>1, <1>2 DEF etaSeconds
<1>3. CASE Speed(type) = 139 BY <1>1, <1>3 DEF etaSeconds
<1>4. CASE Speed(type) = 167 BY <1>1, <1>4 DEF etaSeconds
<1> QED BY <1>2, <1>3, <1>4, Speeds

\* Full credit or 30 % of it.
LEMMA SkillCredit ==
  ASSUME NEW type, NEW need
  PROVE  SkillScore(type, need) \in {2700, 9000}
BY DEF SkillScore, etaFalloffSeconds

\* The time component stays within the falloff.
LEMMA TimeInFalloff ==
  ASSUME NEW m \in Nat, NEW s PROVE TimeScore(m, s) \in Nat /\ TimeScore(m, s) <= 9000
<1> DEFINE eta == etaSeconds(m, s)
<1>1. eta \in Nat BY EtaIsNat
<1>2. TimeScore(m, s) = IF 9000 - eta < 0 THEN 0 ELSE 9000 - eta
  BY DEF TimeScore, etaFalloffSeconds
<1> HIDE DEF eta
<1> QED BY <1>1, <1>2, SMT

\* It never grows with the estimate, and falls with it up to the falloff.
LEMMA TimeCredit ==
  ASSUME NEW m \in Nat, NEW s, NEW n \in Nat, NEW t,
         etaSeconds(m, s) <= etaSeconds(n, t)
  PROVE  /\ TimeScore(m, s) >= TimeScore(n, t)
         /\ (etaSeconds(m, s) < etaSeconds(n, t) /\ etaSeconds(m, s) < 9000)
              => TimeScore(m, s) > TimeScore(n, t)
<1> DEFINE x == etaSeconds(m, s)  y == etaSeconds(n, t)
<1>1. x \in Nat /\ y \in Nat /\ x <= y BY EtaIsNat
<1>2. /\ TimeScore(m, s) = IF 9000 - x < 0 THEN 0 ELSE 9000 - x
      /\ TimeScore(n, t) = IF 9000 - y < 0 THEN 0 ELSE 9000 - y
  BY DEF TimeScore, etaFalloffSeconds
<1>3. SUFFICES /\ TimeScore(m, s) >= TimeScore(n, t)
               /\ (x < y /\ x < 9000) => TimeScore(m, s) > TimeScore(n, t)
  OBVIOUS
<1> HIDE DEF x, y
<1> QED BY <1>1, <1>2, SMT

\* "A score stays in [0,1]" (scoring.go:72), for every unit and need.
THEOREM ScoreBounded ==
  ASSUME NEW m \in Nat, NEW s, NEW need
  PROVE  /\ ScoreUnit(m, s, need) \in Nat
         /\ ScoreUnit(m, s, need) <= 100 * etaFalloffSeconds
<1> DEFINE wt == weightsForSeverity(need.severity).time
           ws == weightsForSeverity(need.severity).skill
           a == TimeScore(m, s)
           c == SkillScore(s, need)
<1>1. wt \in 50 .. 85 /\ ws \in 15 .. 50 /\ wt + ws = 100 BY WeightsSplit
<1>2. a \in Nat /\ a <= 9000 BY TimeInFalloff
<1>3. c \in Nat /\ c <= 9000 BY SkillCredit
<1>4. ScoreUnit(m, s, need) = wt * a + ws * c BY DEF ScoreUnit
<1> HIDE DEF wt, ws, a, c
<1>5. wt * a \in Nat /\ wt * a <= wt * 9000 BY <1>1, <1>2, SMT
<1>6. ws * c \in Nat /\ ws * c <= ws * 9000 BY <1>1, <1>3, SMT
<1>7. wt * 9000 + ws * 9000 = 100 * 9000 BY <1>1, SMT
<1>8. wt * 9000 \in Nat /\ ws * 9000 \in Nat BY <1>1, SMT
<1> QED BY <1>4, <1>5, <1>6, <1>7, <1>8, SMT DEF etaFalloffSeconds

\* A unit that suits at least as well and arrives no later never scores below another,
\* and scores above it when it suits better, or arrives sooner within the falloff.
THEOREM BetterScoresHigher ==
  ASSUME NEW m \in Nat, NEW s, NEW n \in Nat, NEW t, NEW need,
         SkillScore(s, need) >= SkillScore(t, need),
         etaSeconds(m, s) <= etaSeconds(n, t)
  PROVE  /\ ScoreUnit(m, s, need) >= ScoreUnit(n, t, need)
         /\ \/ SkillScore(s, need) > SkillScore(t, need)
            \/ etaSeconds(m, s) < etaSeconds(n, t) /\ etaSeconds(m, s) < etaFalloffSeconds
            => ScoreUnit(m, s, need) > ScoreUnit(n, t, need)
<1> DEFINE w == weightsForSeverity(need.severity)
           wt == w.time
           ws == w.skill
           a == TimeScore(m, s)  b == TimeScore(n, t)
           c == SkillScore(s, need)  d == SkillScore(t, need)
<1>1. wt \in 50 .. 85 /\ ws \in 15 .. 50 BY WeightsSplit
<1>2. a \in Nat /\ b \in Nat /\ a >= b BY TimeCredit, TimeInFalloff
<1>3. (etaSeconds(m, s) < etaSeconds(n, t) /\ etaSeconds(m, s) < etaFalloffSeconds) => a > b
  BY TimeCredit DEF etaFalloffSeconds
<1>4. c \in {2700, 9000} /\ d \in {2700, 9000} /\ c >= d BY SkillCredit
<1>5. ScoreUnit(m, s, need) = wt * a + ws * c /\ ScoreUnit(n, t, need) = wt * b + ws * d
  BY DEF ScoreUnit
<1> HIDE DEF w, wt, ws, a, b, c, d
<1>6. wt * a >= wt * b /\ (a > b => wt * a > wt * b) BY <1>1, <1>2
<1>7. ws * c >= ws * d /\ (c > d => ws * c > ws * d) BY <1>1, <1>4
<1>8. {wt * a, wt * b, ws * c, ws * d} \subseteq Int BY <1>1, <1>2, <1>4
<1>9. SkillScore(s, need) > SkillScore(t, need) => c > d BY DEF c, d
<1> QED BY <1>3, <1>5, <1>6, <1>7, <1>8, <1>9

\* "Less than 1" (scoring.go:50).
LEMMA PartialCredit ==
  /\ etaFalloffSeconds > (etaFalloffSeconds * 30) \div 100
  /\ etaFalloffSeconds >= (etaFalloffSeconds * 30) \div 100
BY DEF etaFalloffSeconds

\* "The right specialisation always wins, all else equal" (scoring.go:50-51).
COROLLARY RightSkillWins ==
  ASSUME NEW m \in Nat, NEW s, NEW n \in Nat, NEW t, NEW need,
         need.requiredType # "", s = need.requiredType, t # need.requiredType,
         etaSeconds(m, s) <= etaSeconds(n, t)
  PROVE  ScoreUnit(m, s, need) > ScoreUnit(n, t, need)
<1>1. SkillScore(s, need) = etaFalloffSeconds
  BY Zenon DEF SkillScore
<1>2. SkillScore(t, need) = (etaFalloffSeconds * 30) \div 100
  BY Zenon DEF SkillScore
<1>3. SkillScore(s, need) > SkillScore(t, need) /\ SkillScore(s, need) >= SkillScore(t, need)
  BY <1>1, <1>2, PartialCredit, Zenon
<1> QED BY <1>3, BetterScoresHigher, Zenon

\* "At similar distances an emptier shelter outranks one about to fill" (victim/
\* service.go:80): among shelters of one size, the emptier one that is no farther
\* always scores higher.
THEOREM EmptierShelterWins ==
  ASSUME NEW m \in Nat, NEW n \in Nat, m <= n,
         NEW capacity \in Nat, NEW o \in 0 .. capacity, NEW p \in 0 .. capacity, o < p
  PROVE  ScoreShelter(m, capacity, o) > ScoreShelter(n, capacity, p)
<1> DEFINE near(x) == IF 25000 - x < 0 THEN 0 ELSE 25000 - x
<1>1. near(m) \in Nat /\ near(n) \in Nat /\ near(m) >= near(n) BY SMT
<1>2. ScoreShelter(m, capacity, o) = 70 * capacity * near(m) + 30 * 25000 * (capacity - o)
  BY SMT DEF ScoreShelter, shelterProximityFalloffMeters
<1>3. ScoreShelter(n, capacity, p) = 70 * capacity * near(n) + 30 * 25000 * (capacity - p)
  BY SMT DEF ScoreShelter, shelterProximityFalloffMeters
<1> HIDE DEF near
<1>4. 70 * capacity * near(m) >= 70 * capacity * near(n) BY <1>1
<1>5. 70 * capacity * near(m) \in Int /\ 70 * capacity * near(n) \in Int BY <1>1
<1> QED BY <1>2, <1>3, <1>4, <1>5, SMT

-----------------------------------------------------------------------------
(* The ranking.                                                             *)

\* The nearer of two places is reached no later.
LEMMA EtaGrows ==
  ASSUME NEW m \in Nat, NEW n \in Nat, m <= n, NEW type
  PROVE  etaSeconds(m, type) <= etaSeconds(n, type)
<1>1. m * 130 \in Nat /\ n * 130 \in Nat /\ m * 130 <= n * 130 OBVIOUS
<1>2. CASE Speed(type) = 111 BY <1>1, <1>2 DEF etaSeconds
<1>3. CASE Speed(type) = 139 BY <1>1, <1>3 DEF etaSeconds
<1>4. CASE Speed(type) = 167 BY <1>1, <1>4 DEF etaSeconds
<1> QED BY <1>2, <1>3, <1>4, Speeds

\* A higher score, or the same one and an earlier place.
Outranks(s, score, i, j) ==
  score[s[i]] > score[s[j]] \/ (score[s[i]] = score[s[j]] /\ i < j)

\* sort.SliceStable returns the same elements, none scoring below a later one, and
\* equals in the order in which they came.
LEMMA RankedSorts ==
  ASSUME NEW n \in Nat, NEW S, NEW s \in [1 .. n -> S],
         NEW score, \A i \in 1 .. n : score[s[i]] \in Int
  PROVE  \E at \in [1 .. n -> 1 .. n] :
           /\ Ranked(s, score) \in [1 .. n -> S]
           /\ \A k \in 1 .. n : Ranked(s, score)[k] = s[at[k]]
           /\ \A k, l \in 1 .. n : k < l => Outranks(s, score, at[k], at[l])
<1> DEFINE Before(i, j) == Outranks(s, score, i, j)
           D == 1 .. n
           Ahead(i) == {j \in D : Before(j, i)}
           Place(i) == 1 + Cardinality(Ahead(i))
           place == [i \in D |-> Place(i)]
           at == [k \in D |-> CHOOSE i \in D : Place(i) = k]
<1>1. IsFiniteSet(D) /\ Cardinality(D) = n
  BY FS_Interval
<1>2. \A i, j \in D : i # j => Before(i, j) \/ Before(j, i)
  BY DEF Outranks
<1>3. /\ \A i \in D : ~Before(i, i)
      /\ \A i, j, k \in D : Before(i, j) /\ Before(j, k) => Before(i, k)
  BY DEF Outranks
<1> HIDE DEF Before
<1>4. ASSUME NEW i \in D
      PROVE  IsFiniteSet(Ahead(i)) /\ Cardinality(Ahead(i)) \in Nat /\ Place(i) \in D
  <2>1. Ahead(i) \subseteq D \ {i} BY <1>3
  <2>2. IsFiniteSet(D \ {i}) /\ Cardinality(D \ {i}) = n - 1
    BY <1>1, <1>4, FS_RemoveElement
  <2>3. IsFiniteSet(Ahead(i)) /\ Cardinality(Ahead(i)) <= n - 1
    BY <2>1, <2>2, FS_Subset
  <2>4. Cardinality(Ahead(i)) \in Nat BY <2>3, FS_CardinalityType
  <2> QED BY <2>3, <2>4
<1>5. ASSUME NEW i \in D, NEW j \in D, Before(i, j) PROVE Place(i) < Place(j)
  <2>1. Ahead(i) \subseteq Ahead(j) /\ i \in Ahead(j) /\ i \notin Ahead(i)
    BY <1>3, <1>5
  <2>2. Cardinality(Ahead(i)) <= Cardinality(Ahead(j))
        /\ Cardinality(Ahead(i)) # Cardinality(Ahead(j))
    BY <2>1, <1>4, FS_Subset
  <2>3. Cardinality(Ahead(i)) \in Nat /\ Cardinality(Ahead(j)) \in Nat BY <1>4
  <2> HIDE DEF Ahead
  <2> QED BY <2>2, <2>3
<1>a. \A i \in D : Place(i) \in 1 .. n
  BY <1>4
<1> HIDE DEF Place
<1>6. place \in Injection(D, D)
  <2>1. ASSUME NEW i \in D, NEW j \in D, i # j PROVE Place(i) # Place(j)
    <3>1. Place(i) < Place(j) \/ Place(j) < Place(i)
      BY <1>2, <1>5, <2>1
    <3>2. Place(i) \in Int /\ Place(j) \in Int
      BY <1>a
    <3> QED BY <3>1, <3>2
  <2>2. place \in [D -> D] BY <1>4
  <2> QED BY <2>1, <2>2 DEF Injection, IsInjective
<1>7. place \in Surjection(D, D)
  BY <1>1, <1>6, FS_Injection
<1>8. \A k \in D : \E i \in D : Place(i) = k
  BY <1>7 DEF Surjection
<1>9. \A k \in D : at[k] \in D /\ Place(at[k]) = k
  BY <1>8
<1>10. at \in [D -> D]
  BY <1>9
<1>11. Ranked(s, score) = [k \in D |-> s[at[k]]]
  BY DEF Ranked, Place, Before, Outranks
<1>12. ASSUME NEW k \in D, NEW l \in D, k < l PROVE Before(at[k], at[l])
  <2>1. at[k] \in D /\ at[l] \in D /\ Place(at[k]) = k /\ Place(at[l]) = l BY <1>9
  <2>2. at[k] # at[l] BY <2>1, <1>12
  <2>3. ~Before(at[l], at[k]) BY <2>1, <1>5, <1>12
  <2> QED BY <2>1, <2>2, <2>3, <1>2
<1> HIDE DEF at
<1>13. /\ Ranked(s, score) \in [1 .. n -> S]
       /\ \A k \in D : Ranked(s, score)[k] = s[at[k]]
  BY <1>10, <1>11
<1> QED BY <1>10, <1>12, <1>13 DEF Before

-----------------------------------------------------------------------------
(* The search.                                                              *)

\* The index held twice as many members at most as far away as were wanted.
Hidden(u) == Cardinality({v \in found \ {u} : Dist[v] <= Dist[u]}) >= 2 * Want(kind)

\* Until the presence check a unit that stays live and indexed is among the hits, or
\* hidden by others.
HitsOK ==
  searchPc = "filter" => \A u \in steady : Present(u) /\ (u \in found \/ Hidden(u))

\* What NearbyLive's locals are at each of its steps.
LocalsOK ==
  /\ searchPc \in {"filter", "evict", "hydrate"} => kind \in {"nearby", "candidates"}
  /\ searchPc \notin {"evict", "hydrate"} => alive = {} /\ nearby = {}

\* What the answer is: the ranking of a shortlist that came in the order of distance.
Positions(from) == IF from = "live" THEN Dist ELSE RegDist
Scores(S, D, n) == [u \in S |-> ScoreUnit(D[u], UnitType[u], n)]
AnswerOK ==
  IF searchPc = "answered"
    THEN \E S \in SUBSET avail : \E s \in ByDistance(S, Positions(source)) :
           /\ answer = Ranked(s, Scores(S, Positions(source), asked))
           /\ avail # {} => S # {}
           /\ Cardinality(S) <= Limit["candidates"]
    ELSE answer = <<>> /\ avail = {}

\* The inductive invariant.
SearchInv == SearchTypeOK /\ HitsOK /\ LocalsOK /\ NotOverlooked /\ AnswerOK

\* A cut of the n nearest leaves out nobody who is nearer, and is full before it leaves
\* out anybody.
LEMMA NearestCuts ==
  ASSUME NEW S, IsFiniteSet(S), NEW D, NEW n \in Nat \ {0}, NEW T \in Nearest(S, D, n)
  PROVE  /\ T \subseteq S /\ IsFiniteSet(T) /\ Cardinality(T) <= n
         /\ S # {} => T # {}
         /\ \A u \in S \ T : Cardinality({v \in T : D[v] <= D[u]}) = n
<1>1. /\ T \subseteq S /\ Cardinality(T) <= n
      /\ T # S => Cardinality(T) = n
      /\ \A v \in T, u \in S \ T : D[v] <= D[u]
  BY DEF Nearest
<1>2. IsFiniteSet(T) BY <1>1, FS_Subset
<1>3. S # {} => T # {} BY <1>1, FS_EmptySet
<1>4. ASSUME NEW u \in S \ T PROVE Cardinality({v \in T : D[v] <= D[u]}) = n
  <2>1. {v \in T : D[v] <= D[u]} = T BY <1>1
  <2> QED BY <1>1, <2>1
<1> QED BY <1>1, <1>2, <1>3, <1>4

LEMMA Wants ==
  ASSUME NEW k \in {"nearby", "candidates"}
  PROVE  Want(k) \in Nat \ {0} /\ OverFetch(k) \in Nat \ {0} /\ OverFetch(k) = 2 * Want(k)
<1>1. Limit[k] \in Nat \ {0} BY SearchAssumption
<1> QED BY <1>1 DEF Want, OverFetch

\* A shortlist in order is a sequence of its units, each once.
LEMMA ShortlistOrder ==
  ASSUME NEW S, IsFiniteSet(S), NEW D, NEW s \in ByDistance(S, D)
  PROVE  /\ Cardinality(S) \in Nat /\ s \in [1 .. Cardinality(S) -> S]
         /\ \A i, j \in 1 .. Cardinality(S) : i < j => D[s[i]] <= D[s[j]]
BY FS_CardinalityType DEF ByDistance, SetToSeqs

\* A ranking holds units of the shortlist only, as many.
LEMMA RankingOf ==
  ASSUME NEW S \in SUBSET Units, NEW D \in [Units -> Nat], NEW need,
         NEW s \in ByDistance(S, D)
  PROVE  LET r == Ranked(s, Scores(S, D, need)) IN
         r \in Seq(S) /\ Len(r) = Cardinality(S) /\ ToSet(r) \subseteq S
<1> DEFINE n == Cardinality(S)  score == Scores(S, D, need)
<1>1. IsFiniteSet(S) BY SearchAssumption, FS_Subset
<1>2. n \in Nat /\ s \in [1 .. n -> S] BY <1>1, ShortlistOrder
<1>3. \A i \in 1 .. n : score[s[i]] \in Int
  BY <1>2, ScoreBounded DEF Scores
<1> HIDE DEF n, score
<1>5. Ranked(s, score) \in [1 .. n -> S] BY <1>2, <1>3, RankedSorts
<1>6. Ranked(s, score) \in Seq(S) /\ Len(Ranked(s, score)) = n BY <1>2, <1>5
<1>7. ToSet(Ranked(s, score)) \subseteq S BY <1>5 DEF ToSet
<1> QED BY <1>6, <1>7 DEF n, score

LEMMA SearchStarts == ASSUME SearchInit PROVE SearchInv
<1>1. answer = <<>> /\ Len(<<>>) = 0 /\ ToSet(<<>>) = {} BY DEF SearchInit, ToSet
<1>2. Limit["candidates"] >= 0 /\ 0 \in 0 .. TTL BY SearchAssumption
<1>3. SearchTypeOK
  <2>1. Len(answer) <= Limit["candidates"] /\ ToSet(answer) \subseteq avail BY <1>1, <1>2
  <2> QED BY <1>2, <2>1 DEF SearchInit, SearchTypeOK
<1>4. HitsOK /\ LocalsOK /\ NotOverlooked /\ AnswerOK
  BY DEF SearchInit, HitsOK, LocalsOK, NotOverlooked, AnswerOK
<1> QED BY <1>3, <1>4 DEF SearchInv

\* A step of Redis or of its clients: who stays steady stays present.
LEMMA RedisSteps ==
  ASSUME SearchInv, UNCHANGED <<searchPc, search, result>>,
         life' \in [Units -> 0 .. TTL], index' \subseteq Units, steady' \subseteq steady,
         \A u \in steady' : Present(u) => Present(u)'
  PROVE  SearchInv'
<1>1. UNCHANGED <<searchPc, kind, found, alive, nearby, asked, answer, source, avail>>
  BY DEF search, result
<1>2. SearchTypeOK' BY <1>1 DEF SearchInv, SearchTypeOK
<1>3. HitsOK' BY <1>1 DEF SearchInv, HitsOK, Hidden
<1>4. LocalsOK' BY <1>1 DEF SearchInv, LocalsOK
<1>5. NotOverlooked' BY <1>1 DEF SearchInv, NotOverlooked
<1>6. AnswerOK' BY <1>1 DEF SearchInv, AnswerOK
<1> QED BY <1>2, <1>3, <1>4, <1>5, <1>6 DEF SearchInv

\* A step that ends the work of NearbyLive without an answer.
LEMMA NothingPending ==
  ASSUME SearchInv, searchPc # "answered", searchPc' \in {"idle", "registry"},
         UNCHANGED <<life, result>>, index' \subseteq Units,
         \/ UNCHANGED <<search, steady>> /\ searchPc = "idle"
         \/ Forget
  PROVE  SearchInv'
<1>1. UNCHANGED <<life, asked, answer, source, avail>> BY DEF result
<1>2. SearchTypeOK' BY <1>1 DEF SearchInv, SearchTypeOK, search, Forget
<1>3. HitsOK' /\ LocalsOK' /\ NotOverlooked'
  BY DEF SearchInv, HitsOK, LocalsOK, NotOverlooked, search, Forget
<1>4. AnswerOK' BY <1>1 DEF SearchInv, AnswerOK
<1> QED BY <1>2, <1>3, <1>4 DEF SearchInv

LEMMA FiniteUnits == \A S \in SUBSET Units : IsFiniteSet(S)
BY SearchAssumption, FS_Subset

\* The hits hold every steady unit, or others have taken its place.
LEMMA GeoSearchStep ==
  ASSUME SearchInv, NEW k \in {"nearby", "candidates"}, GeoSearch(k) PROVE SearchInv'
<1> DEFINE S == index \cap InRange
<1>1. /\ searchPc = "idle" /\ searchPc' = "filter" /\ kind' = k
      /\ found' \in Nearest(S, Dist, OverFetch(k))
      /\ steady' = {u \in S : Present(u)}
      /\ UNCHANGED <<life, index, alive, nearby, asked, answer, source, avail>>
  BY DEF GeoSearch, redis, result
<1>2. S \subseteq Units /\ IsFiniteSet(S) BY FiniteUnits DEF InRange
<1>3. /\ found' \subseteq S
      /\ \A u \in S \ found' : Cardinality({v \in found' : Dist[v] <= Dist[u]}) = OverFetch(k)
  BY <1>1, <1>2, Wants, NearestCuts
<1>4. alive = {} /\ nearby = {}
  BY <1>1 DEF SearchInv, LocalsOK
<1>5. SearchTypeOK' BY <1>1, <1>2, <1>3, <1>4 DEF SearchInv, SearchTypeOK
<1>6. ASSUME NEW u \in steady' PROVE Present(u)' /\ (u \in found' \/ Hidden(u)')
  <2>1. Present(u)' BY <1>1, <1>6 DEF Present
  <2>2. ASSUME u \notin found' PROVE Hidden(u)'
    <3>1. found' \ {u} = found' BY <2>2
    <3>2. Cardinality({v \in found' : Dist[v] <= Dist[u]}) = 2 * Want(k)
      BY <1>1, <1>3, <1>6, <2>2, Wants
    <3>3. 2 * Want(k) \in Nat BY Wants
    <3>4. Want(kind') = Want(k) BY <1>1
    <3> QED BY <3>1, <3>2, <3>3, <3>4 DEF Hidden, Want
  <2> QED BY <2>1, <2>2
<1>7. HitsOK' BY <1>6 DEF HitsOK
<1>8. LocalsOK' /\ NotOverlooked' BY <1>1, <1>4 DEF LocalsOK, NotOverlooked
<1>9. AnswerOK' BY <1>1 DEF SearchInv, AnswerOK
<1> QED BY <1>5, <1>7, <1>8, <1>9 DEF SearchInv

\* The check keeps what is present; the cut of what is wanted leaves out no nearer one.
LEMMA FilterStep == ASSUME SearchInv, FilterPresent PROVE SearchInv'
<1>1. /\ searchPc = "filter" /\ searchPc' = "evict"
      /\ alive' \subseteq found /\ {u \in found : Present(u)} \subseteq alive'
      /\ nearby' \in Nearest(alive', Dist, Want(kind))
      /\ UNCHANGED <<life, index, kind, found, asked, answer, source, avail, steady>>
  BY DEF FilterPresent, FailOpen, redis, result
<1>2. kind \in {"nearby", "candidates"} BY <1>1 DEF SearchInv, LocalsOK
<1>3. IsFiniteSet(alive') BY <1>1, FiniteUnits DEF SearchInv, SearchTypeOK
<1>4. /\ nearby' \subseteq alive'
      /\ \A u \in alive' \ nearby' :
           Cardinality({v \in nearby' : Dist[v] <= Dist[u]}) = Want(kind)
  BY <1>1, <1>2, <1>3, Wants, NearestCuts
<1>5. SearchTypeOK' BY <1>1, <1>4 DEF SearchInv, SearchTypeOK
<1>6. NotOverlooked'
  <2> SUFFICES ASSUME NEW u \in steady, u \notin nearby'
               PROVE  \/ Cardinality({v \in nearby' : Dist[v] <= Dist[u]}) >= Want(kind)
                      \/ Cardinality({v \in found \ {u} : Dist[v] <= Dist[u]}) >= 2 * Want(kind)
    BY <1>1 DEF NotOverlooked, Want
  <2>1. Present(u) /\ (u \in found \/ Hidden(u)) BY <1>1 DEF SearchInv, HitsOK
  <2>2. CASE u \in found
    <3>1. u \in alive' \ nearby' BY <1>1, <2>1, <2>2
    <3>2. Want(kind) \in Nat BY <1>2, Wants
    <3> QED BY <1>4, <3>1, <3>2
  <2>3. CASE Hidden(u) BY <2>3 DEF Hidden
  <2> QED BY <2>1, <2>2, <2>3
<1>7. HitsOK' /\ LocalsOK' BY <1>1, <1>2 DEF HitsOK, LocalsOK
<1>8. AnswerOK' BY <1>1 DEF SearchInv, AnswerOK
<1> QED BY <1>5, <1>6, <1>7, <1>8 DEF SearchInv

\* Evicting removes index members only; what remains steady is judged by the same hits.
LEMMA EvictStep == ASSUME SearchInv, Evict PROVE SearchInv'
<1>1. /\ searchPc = "evict" /\ index' \subseteq index
      /\ UNCHANGED <<life, result>>
      /\ \/ searchPc' \in {"idle", "registry"} /\ Forget
         \/ searchPc' = "hydrate" /\ steady' = steady \cap index' /\ UNCHANGED search
  BY DEF Evict
<1>2. index' \subseteq Units BY <1>1 DEF SearchInv, SearchTypeOK
<1>3. CASE searchPc' \in {"idle", "registry"} /\ Forget
  BY <1>1, <1>2, <1>3, NothingPending
<1>4. CASE searchPc' = "hydrate" /\ steady' = steady \cap index' /\ UNCHANGED search
  <2>1. UNCHANGED <<life, asked, answer, source, avail, kind, found, alive, nearby>>
    BY <1>1, <1>4 DEF result, search
  <2>2. SearchTypeOK' BY <1>2, <1>4, <2>1 DEF SearchInv, SearchTypeOK
  <2>3. NotOverlooked' BY <1>1, <1>4, <2>1 DEF SearchInv, NotOverlooked, Want
  <2>4. HitsOK' /\ LocalsOK' BY <1>1, <1>4, <2>1 DEF SearchInv, HitsOK, LocalsOK
  <2>5. AnswerOK' BY <1>1, <1>4, <2>1 DEF SearchInv, AnswerOK
  <2> QED BY <2>2, <2>3, <2>4, <2>5 DEF SearchInv
<1> QED BY <1>1, <1>3, <1>4

\* The answer is the ranking of a shortlist of available units, of some if there are any.
LEMMA AnswerStep ==
  ASSUME SearchInv, NEW A \in SUBSET Units, NEW S \in SUBSET A,
         NEW from \in {"live", "registry"}, Answer(S, Positions(from), from, A),
         A # {} => S # {}, Cardinality(S) <= Limit["candidates"]
  PROVE  SearchInv'
<1> DEFINE D == Positions(from)
<1>1. /\ avail' = A /\ source' = from /\ searchPc' = "answered" /\ steady' = {}
      /\ found' = {} /\ alive' = {} /\ nearby' = {} /\ kind' = "none"
      /\ UNCHANGED <<life, index>>
  BY DEF Answer, Forget, redis
<1>2. PICK n \in Needs, s \in ByDistance(S, D) :
        asked' = n /\ answer' = Ranked(s, Scores(S, D, n))
  BY DEF Answer, Scores
<1>3. D \in [Units -> Nat] BY SearchAssumption DEF Positions
<1>4. Len(answer') = Cardinality(S) /\ ToSet(answer') \subseteq S
  BY <1>2, <1>3, RankingOf
<1>5. SearchTypeOK' BY <1>1, <1>4 DEF SearchInv, SearchTypeOK
<1>6. HitsOK' /\ LocalsOK' /\ NotOverlooked' BY <1>1 DEF HitsOK, LocalsOK, NotOverlooked
<1>7. AnswerOK'
  <2>1. Positions(source') = D BY <1>1
  <2> QED BY <1>1, <1>2, <2>1 DEF AnswerOK, Scores, Positions
<1> QED BY <1>5, <1>6, <1>7 DEF SearchInv

LEMMA SearchSteps == ASSUME SearchInv, [SearchNext]_searchVars PROVE SearchInv'
<1> USE SearchAssumption
<1>1. ASSUME NEW u \in Units, Heartbeat(u) PROVE SearchInv'
  BY <1>1, RedisSteps DEF Heartbeat, Present, SearchInv, SearchTypeOK
<1>2. ASSUME NEW u \in Units, HalfHeartbeat(u) PROVE SearchInv'
  BY <1>2, RedisSteps DEF HalfHeartbeat, Present, SearchInv, SearchTypeOK
<1>3. ASSUME PresenceTick PROVE SearchInv'
  <2>1. life' \in [Units -> 0 .. TTL]
    BY <1>3 DEF PresenceTick, Present, SearchInv, SearchTypeOK
  <2>2. \A u \in steady' : Present(u)'
    BY <1>3 DEF PresenceTick, Present, SearchInv, SearchTypeOK
  <2>3. steady' \subseteq steady /\ UNCHANGED <<searchPc, search, result, index>>
    BY <1>3 DEF PresenceTick
  <2> QED BY <2>1, <2>2, <2>3, RedisSteps DEF SearchInv, SearchTypeOK
<1>4. ASSUME RedisRestart PROVE SearchInv'
  BY <1>4, RedisSteps DEF RedisRestart, SearchInv, SearchTypeOK
<1>5. ASSUME NEW k \in {"nearby", "candidates"}, GeoSearch(k) PROVE SearchInv'
  BY <1>5, GeoSearchStep
<1>6. ASSUME NoHits PROVE SearchInv'
  BY <1>6, NothingPending DEF NoHits, redis, SearchInv, SearchTypeOK
<1>7. ASSUME FilterPresent PROVE SearchInv'
  BY <1>7, FilterStep
<1>8. ASSUME Evict PROVE SearchInv'
  BY <1>8, EvictStep
<1>9. ASSUME FallBack PROVE SearchInv'
  BY <1>9, NothingPending DEF FallBack, redis, SearchInv, SearchTypeOK
<1>10. ASSUME NEW A \in SUBSET Units, Hydrate(A) PROVE SearchInv'
  <2>1. PICK S \in Nearest(nearby \cap A, Dist, Limit["candidates"]) :
          Answer(S, Dist, "live", A)
    BY <1>10 DEF Hydrate, Usable
  <2>2. /\ S \subseteq nearby \cap A /\ Cardinality(S) <= Limit["candidates"]
        /\ S # {}
    <3>1. IsFiniteSet(nearby \cap A) BY FiniteUnits
    <3>2. nearby \cap A # {} BY <1>10 DEF Hydrate
    <3>3. Limit["candidates"] \in Nat \ {0} OBVIOUS
    <3> QED BY <3>1, <3>2, <3>3, NearestCuts
  <2> QED BY <2>1, <2>2, AnswerStep DEF Positions
<1>11. ASSUME NEW A \in SUBSET Units, Registry(A) PROVE SearchInv'
  <2>1. PICK S \in Nearest(A, RegDist, Limit["candidates"]) :
          Answer(S, RegDist, "registry", A)
    BY <1>11 DEF Registry
  <2>2. /\ S \subseteq A /\ Cardinality(S) <= Limit["candidates"]
        /\ A # {} => S # {}
    <3>1. IsFiniteSet(A) BY FiniteUnits
    <3>2. Limit["candidates"] \in Nat \ {0} OBVIOUS
    <3> QED BY <3>1, <3>2, NearestCuts
  <2> QED BY <2>1, <2>2, AnswerStep DEF Positions
<1>12. ASSUME Reply PROVE SearchInv'
  <2>1. /\ searchPc = "answered" /\ searchPc' = "idle"
        /\ answer' = <<>> /\ source' = "none" /\ avail' = {}
        /\ UNCHANGED <<life, index, kind, found, alive, nearby, steady>>
    BY <1>12 DEF Reply, redis, search
  <2>2. Len(answer') = 0 /\ ToSet(answer') = {} BY <2>1 DEF ToSet
  <2>3. SearchTypeOK' BY <2>1, <2>2 DEF SearchInv, SearchTypeOK
  <2>4. HitsOK' /\ LocalsOK' /\ NotOverlooked' /\ AnswerOK'
    BY <2>1 DEF SearchInv, HitsOK, LocalsOK, NotOverlooked, AnswerOK
  <2> QED BY <2>3, <2>4 DEF SearchInv
<1>13. ASSUME UNCHANGED searchVars PROVE SearchInv'
  BY <1>13, RedisSteps DEF searchVars, redis, SearchInv, SearchTypeOK, Present
<1> QED
  BY <1>1, <1>2, <1>3, <1>4, <1>5, <1>6, <1>7, <1>8, <1>9, <1>10, <1>11, <1>12, <1>13
  DEF SearchNext

-----------------------------------------------------------------------------
\* Every reachable state of presence and search is well typed.
THEOREM SearchTypeCorrect == SearchSpec => []SearchTypeOK
<1>1. SearchInv => SearchTypeOK BY DEF SearchInv
<1> QED BY <1>1, SearchStarts, SearchSteps, PTL DEF SearchSpec

\* NearbyLive overlooks no unit that was live and indexed all along, except behind
\* enough others that are no farther.
THEOREM NobodyOverlooked == SearchSpec => []NotOverlooked
<1>1. SearchInv => NotOverlooked BY DEF SearchInv
<1> QED BY <1>1, SearchStarts, SearchSteps, PTL DEF SearchSpec

\* Candidates answers with somebody whenever somebody is available, whatever Redis does.
THEOREM SearchNeverStopped == SearchSpec => []NeverStopped
<1>1. SearchInv => NeverStopped
  <2> SUFFICES ASSUME SearchInv, searchPc = "answered", avail # {} PROVE answer # <<>>
    BY DEF NeverStopped
  <2>a. PICK S \in SUBSET avail : \E s \in ByDistance(S, Positions(source)) :
          answer = Ranked(s, Scores(S, Positions(source), asked)) /\ S # {}
    BY DEF SearchInv, AnswerOK
  <2>1. PICK s \in ByDistance(S, Positions(source)) :
          answer = Ranked(s, Scores(S, Positions(source), asked)) /\ S # {}
    BY <2>a
  <2>2. S \in SUBSET Units BY DEF SearchInv, SearchTypeOK
  <2>3. Positions(source) \in [Units -> Nat] BY SearchAssumption DEF Positions
  <2>4. Len(answer) = Cardinality(S) BY <2>1, <2>2, <2>3, RankingOf
  <2>5. Cardinality(S) # 0 BY <2>1, <2>2, FiniteUnits, FS_EmptySet
  <2> QED BY <2>4, <2>5
<1> QED BY <1>1, SearchStarts, SearchSteps, PTL DEF SearchSpec

LEMMA RankingUndominated == ASSUME SearchInv PROVE Undominated
<1> DEFINE D == IF source = "live" THEN Dist ELSE RegDist
           eta(u) == etaSeconds(D[u], UnitType[u])
           skill(u) == SkillScore(UnitType[u], asked)
<1> SUFFICES ASSUME NEW i \in DOMAIN answer, NEW j \in DOMAIN answer, i < j
             PROVE  LET u == answer[i]  v == answer[j] IN
                    /\ ~(skill(v) > skill(u) /\ eta(v) <= eta(u))
                    /\ ~(skill(v) >= skill(u) /\ eta(v) < eta(u) /\ eta(v) < etaFalloffSeconds)
                    /\ ~(UnitType[v] = UnitType[u] /\ D[v] < D[u])
  BY DEF Undominated
<1>1. searchPc = "answered" BY DEF SearchInv, AnswerOK
<1>a. PICK S \in SUBSET avail :
        \E s \in ByDistance(S, D) : answer = Ranked(s, Scores(S, D, asked))
  BY <1>1 DEF SearchInv, AnswerOK, Positions
<1>2. PICK s \in ByDistance(S, D) : answer = Ranked(s, Scores(S, D, asked))
  BY <1>a
<1>3. S \in SUBSET Units /\ IsFiniteSet(S) BY FiniteUnits DEF SearchInv, SearchTypeOK
<1>4. D \in [Units -> Nat] BY SearchAssumption
<1> DEFINE n == Cardinality(S)
           score == Scores(S, D, asked)
           u == answer[i]
           v == answer[j]
<1>5. /\ n \in Nat /\ s \in [1 .. n -> S]
      /\ \A k, l \in 1 .. n : k < l => D[s[k]] <= D[s[l]]
  BY <1>2, <1>3, ShortlistOrder
<1>6. \A w \in S : score[w] = ScoreUnit(D[w], UnitType[w], asked) /\ score[w] \in Int
  BY <1>3, <1>4, ScoreBounded DEF Scores
<1> HIDE DEF D, n, score
<1>7. PICK at \in [1 .. n -> 1 .. n] :
        /\ answer \in [1 .. n -> S]
        /\ \A k \in 1 .. n : answer[k] = s[at[k]]
        /\ \A k, l \in 1 .. n : k < l => Outranks(s, score, at[k], at[l])
  <2>1. \A k \in 1 .. n : score[s[k]] \in Int BY <1>5, <1>6
  <2>2. answer = Ranked(s, score) BY <1>2 DEF score
  <2>3. \E at \in [1 .. n -> 1 .. n] :
          /\ Ranked(s, score) \in [1 .. n -> S]
          /\ \A k \in 1 .. n : Ranked(s, score)[k] = s[at[k]]
          /\ \A k, l \in 1 .. n : k < l => Outranks(s, score, at[k], at[l])
    BY <1>5, <2>1, RankedSorts
  <2> QED BY <2>2, <2>3
<1>8. /\ u \in S /\ v \in S
      /\ score[u] >= score[v] /\ (score[u] = score[v] => D[u] <= D[v])
  <2>1. i \in 1 .. n /\ j \in 1 .. n BY <1>7
  <2>2. Outranks(s, score, at[i], at[j]) /\ at[i] \in 1 .. n /\ at[j] \in 1 .. n
    BY <1>7, <2>1
  <2>3. u = s[at[i]] /\ v = s[at[j]] /\ u \in S /\ v \in S BY <1>7, <2>1
  <2>4. score[u] \in Int /\ score[v] \in Int BY <1>6, <2>3
  <2> HIDE DEF u, v
  <2>5. score[u] > score[v] \/ (score[u] = score[v] /\ at[i] < at[j])
    BY <2>2, <2>3 DEF Outranks
  <2>6. at[i] < at[j] => D[u] <= D[v] BY <1>5, <2>2, <2>3
  <2> QED BY <2>3, <2>4, <2>5, <2>6
<1>9. D[u] \in Nat /\ D[v] \in Nat BY <1>3, <1>4, <1>8
<1> HIDE DEF u, v
<1>10. /\ score[u] = ScoreUnit(D[u], UnitType[u], asked)
       /\ score[v] = ScoreUnit(D[v], UnitType[v], asked)
       /\ score[u] \in Int /\ score[v] \in Int
  BY <1>6, <1>8
<1>11. eta(u) \in Nat /\ eta(v) \in Nat /\ skill(u) \in Nat /\ skill(v) \in Nat
  BY <1>9, EtaIsNat, SkillCredit
<1>12. ASSUME skill(v) >= skill(u), eta(v) <= eta(u)
       PROVE  /\ score[v] >= score[u]
              /\ skill(v) > skill(u) => score[v] > score[u]
              /\ eta(v) < eta(u) /\ eta(v) < etaFalloffSeconds => score[v] > score[u]
  BY <1>9, <1>10, <1>12, BetterScoresHigher
<1>13. UnitType[v] = UnitType[u] /\ D[v] < D[u] => skill(v) = skill(u) /\ eta(v) <= eta(u)
  BY <1>9, EtaGrows
<1> HIDE DEF eta, skill
<1>14. ~(skill(v) > skill(u) /\ eta(v) <= eta(u))
  BY <1>8, <1>10, <1>11, <1>12
<1>15. ~(skill(v) >= skill(u) /\ eta(v) < eta(u) /\ eta(v) < etaFalloffSeconds)
  BY <1>8, <1>10, <1>11, <1>12
<1>16. ~(UnitType[v] = UnitType[u] /\ D[v] < D[u])
  BY <1>8, <1>9, <1>10, <1>11, <1>12, <1>13
<1> QED BY <1>14, <1>15, <1>16 DEF u, v

\* What Candidates proposes is sorted by merit: nobody is ranked above a unit that is sure
\* to be better.
THEOREM BestFirst == SearchSpec => []Undominated
BY RankingUndominated, SearchStarts, SearchSteps, PTL DEF SearchSpec
=============================================================================
