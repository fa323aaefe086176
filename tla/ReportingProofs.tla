-------------------------- MODULE ReportingProofs --------------------------
(***************************************************************************)
(* Theorems about what a report passes through: the rate limiter of the    *)
(* gateways, the accounts and their tokens, and the deduplication; then    *)
(* about the five services together.                                       *)
(***************************************************************************)
EXTENDS Services, TransportProofs, SearchProofs, FiniteSetTheorems, TLAPS

-----------------------------------------------------------------------------
(* The rate limiter.                                                        *)

\* Tokens handed out and tokens in the bucket are covered by the instant the bucket
\* has reached; a key that Redis lost leaves no tokens behind.
Covered ==
  LET spent == BurstSize * restarts + ts + rewound + unmetered IN
  /\ present => admitted + tokens <= spent + BurstSize
  /\ ~present => admitted <= spent

LInv == LimiterTypeOK /\ Covered

LEMMA ProductIsNat ==
  ASSUME NEW n \in Nat
  PROVE  BurstSize * n \in Nat /\ BurstSize * (n + 1) = BurstSize * n + BurstSize
BY LimiterAssumption, SMT

\* One run of the script with reading t: what it refills is paid for by ts and
\* rewound, whether the key is live, expired or gone.
LEMMA ScriptPays ==
  ASSUME LInv, NEW t \in 0 .. clock + MaxSkew, Script(t)
  PROVE  /\ rewound' \in Nat /\ ts' = t /\ present' = TRUE /\ expires' \in Nat
         /\ tokens' \in 0 .. BurstSize
         /\ LET spent == BurstSize * restarts + ts' + rewound' + unmetered + BurstSize
            IN  /\ admitted + tokens' <= spent
                /\ Allowed(t) => admitted + 1 + tokens' <= spent
<1> DEFINE gap == MostOf(0, AccountedUntil - t)
           full == Refilled(t)
           base == BurstSize * restarts
<1> USE LimiterAssumption
<1>0. /\ t \in Nat /\ BurstSize \in Nat /\ Margin \in Nat /\ clock \in Nat /\ base \in Nat
      /\ admitted \in Nat /\ unmetered \in Nat /\ rewound \in Nat /\ ts \in Nat
      /\ tokens \in 0 .. BurstSize /\ present \in BOOLEAN /\ expires \in Nat
  <2> HIDE DEF base
  <2>1. /\ BurstSize \in Nat /\ Margin \in Nat /\ MaxSkew \in Nat
        /\ clock \in Nat /\ admitted \in Nat /\ unmetered \in Nat /\ rewound \in Nat
        /\ ts \in Nat /\ restarts \in Nat
    BY DEF LInv, LimiterTypeOK
  <2>2. tokens \in 0 .. BurstSize /\ present \in BOOLEAN /\ expires \in Nat
    BY DEF LInv, LimiterTypeOK
  <2>3. base \in Nat
    BY <2>1, ProductIsNat DEF base
  <2>4. t \in Nat
    BY <2>1
  <2> QED BY <2>1, <2>2, <2>3, <2>4
<1>1. AccountedUntil \in Nat /\ (Live \/ ~present => AccountedUntil = ts)
      /\ (present /\ ~Live => AccountedUntil = ts + IdleTTL) /\ IdleTTL \in Nat
      /\ IdleTTL >= BurstSize
  BY <1>0 DEF AccountedUntil, IdleTTL, Live
<1>2. gap \in Nat /\ gap >= AccountedUntil - t
  BY <1>0, <1>1 DEF MostOf
<1>3. rewound' = rewound + gap /\ ts' = t /\ present' = TRUE /\ expires' \in Nat
  BY <1>0, <1>1 DEF Script
<1>4. full \in 0 .. BurstSize /\ (Live => full <= tokens + MostOf(0, t - ts))
      /\ MostOf(0, t - ts) \in Nat /\ MostOf(0, t - ts) \in {0, t - ts}
  <2>1. MostOf(0, t - Since(t)) \in Nat
    BY <1>0 DEF Since, MostOf
  <2>2. Known \in 0 .. BurstSize
    BY <1>0 DEF Known
  <2>3. full \in 0 .. BurstSize /\ full <= Known + MostOf(0, t - Since(t))
    BY <1>0, <2>1, <2>2 DEF Refilled, LeastOf
  <2>4. QED BY <1>0, <2>1, <2>3 DEF Known, Since, MostOf
<1>5. tokens' = IF full >= 1 THEN full - 1 ELSE full
  BY DEF Script
<1>6. admitted + full <= base + t + rewound + gap + unmetered + BurstSize
  <2>1. CASE Live
    <3>1. admitted + tokens <= base + ts + rewound + unmetered + BurstSize
      BY <1>0, <2>1 DEF LInv, Covered, Live
    <3>2. gap >= ts - t
      BY <1>1, <1>2, <2>1
    <3>3. QED BY <1>0, <1>2, <1>4, <2>1, <3>1, <3>2
  <2>2. CASE present /\ ~Live
    <3>1. admitted + tokens <= base + ts + rewound + unmetered + BurstSize
      BY <1>0, <2>2 DEF LInv, Covered
    <3>2. gap >= ts + BurstSize - t
      BY <1>0, <1>1, <1>2, <2>2
    <3>3. QED BY <1>0, <1>2, <1>4, <3>1, <3>2
  <2>3. CASE ~present
    <3>1. admitted <= base + ts + rewound + unmetered
      BY <1>0, <2>3 DEF LInv, Covered
    <3>2. gap >= ts - t
      BY <1>1, <1>2, <2>3
    <3>3. QED BY <1>0, <1>2, <1>4, <3>1, <3>2
  <2>4. QED BY <1>0, <2>1, <2>2, <2>3
<1>7. Allowed(t) = (full >= 1)
  BY DEF Allowed
<1> HIDE DEF base, gap, full
<1>8. tokens' \in 0 .. BurstSize /\ rewound' \in Nat
  BY <1>0, <1>2, <1>3, <1>4, <1>5
<1>9. /\ admitted + tokens' <= base + ts' + rewound' + unmetered + BurstSize
      /\ Allowed(t) => admitted + 1 + tokens' <= base + ts' + rewound' + unmetered + BurstSize
  <2>1. CASE full >= 1
    <3>1. tokens' = full - 1 /\ ts' = t /\ rewound' = rewound + gap
      BY <1>3, <1>5, <2>1
    <3>2. QED BY <1>0, <1>2, <1>4, <1>6, <3>1
  <2>2. CASE ~(full >= 1)
    <3>1. tokens' = full /\ ts' = t /\ rewound' = rewound + gap /\ ~Allowed(t)
      BY <1>3, <1>5, <1>7, <2>2
    <3>2. QED BY <1>0, <1>2, <1>4, <1>6, <3>1
  <2>3. QED BY <2>1, <2>2
<1>10. QED BY <1>3, <1>8, <1>9 DEF base

LEMMA InitLimiter == LimiterInit => LInv
<1>1. BurstSize * 0 = 0 /\ BurstSize \in Nat /\ MaxSkew \in Nat
  BY LimiterAssumption
<1>2. LimiterInit => LimiterTypeOK
  <2>1. 0 \in 0 .. 0 + MaxSkew /\ 0 \in 0 .. BurstSize /\ 0 \in Nat
    BY <1>1
  <2> HAVE LimiterInit
  <2>2. /\ now \in [Requests -> 0 .. clock + MaxSkew]
        /\ requestPc \in [Requests -> {"idle", "script"}]
    BY <2>1 DEF LimiterInit
  <2>3. QED BY <2>1, <2>2 DEF LimiterInit, LimiterTypeOK
<1>3. LimiterInit => Covered
  BY <1>1 DEF LimiterInit, Covered
<1>4. QED BY <1>2, <1>3 DEF LInv

LEMMA StepLimiter == LInv /\ [LimiterNext]_limiterVars => LInv'
<1> SUFFICES ASSUME LInv, [LimiterNext]_limiterVars PROVE LInv'
  OBVIOUS
<1> USE LimiterAssumption
<1>1. ASSUME NEW r \in Requests, ReadClock(r) PROVE LInv'
  <2>1. clock + Skew[GatewayOf[r]] \in 0 .. clock + MaxSkew
    BY DEF LInv, LimiterTypeOK
  <2>2. LimiterTypeOK'
    BY <1>1, <2>1 DEF ReadClock, RequestGoto, bucket, LInv, LimiterTypeOK
  <2>3. Covered'
    BY <1>1 DEF ReadClock, bucket, LInv, Covered
  <2>4. QED BY <2>2, <2>3 DEF LInv
<1>2. ASSUME NEW r \in Requests, Admit(r) PROVE LInv'
  <2>1. now[r] \in 0 .. clock + MaxSkew
    BY DEF LInv, LimiterTypeOK
  <2>2. Allowed(now[r]) /\ Script(now[r])
    BY <1>2 DEF Admit
  <2>3. /\ rewound' \in Nat /\ ts' = now[r] /\ present' = TRUE /\ expires' \in Nat
        /\ tokens' \in 0 .. BurstSize
        /\ admitted + 1 + tokens' <= BurstSize * restarts + ts' + rewound' + unmetered + BurstSize
    BY <2>1, <2>2, ScriptPays
  <2>4. QED BY <1>2, <2>1, <2>3 DEF Admit, RequestGoto, LInv, LimiterTypeOK, Covered
<1>3. ASSUME NEW r \in Requests, Refuse(r) PROVE LInv'
  <2>1. now[r] \in 0 .. clock + MaxSkew
    BY DEF LInv, LimiterTypeOK
  <2>2. Script(now[r])
    BY <1>3 DEF Refuse
  <2>3. /\ rewound' \in Nat /\ ts' = now[r] /\ present' = TRUE /\ expires' \in Nat
        /\ tokens' \in 0 .. BurstSize
        /\ admitted + tokens' <= BurstSize * restarts + ts' + rewound' + unmetered + BurstSize
    BY <2>1, <2>2, ScriptPays
  <2>4. QED BY <1>3, <2>1, <2>3 DEF Refuse, RequestGoto, LInv, LimiterTypeOK, Covered
<1>4. ASSUME NEW r \in Requests, LoseAnswer(r) PROVE LInv'
  <2>1. now[r] \in 0 .. clock + MaxSkew
    BY DEF LInv, LimiterTypeOK
  <2>2. Script(now[r])
    BY <1>4 DEF LoseAnswer
  <2>3. /\ rewound' \in Nat /\ ts' = now[r] /\ present' = TRUE /\ expires' \in Nat
        /\ tokens' \in 0 .. BurstSize
        /\ admitted + tokens' <= BurstSize * restarts + ts' + rewound' + unmetered + BurstSize
    BY <2>1, <2>2, ScriptPays
  <2>4. QED BY <1>4, <2>1, <2>3 DEF LoseAnswer, LInv, LimiterTypeOK, Covered
<1>5. ASSUME NEW r \in Requests, LetThrough(r) PROVE LInv'
  <2>1. BurstSize * restarts \in Nat
    BY ProductIsNat DEF LInv, LimiterTypeOK
  <2>2. QED BY <1>5, <2>1 DEF LetThrough, RequestGoto, bucket, LInv, LimiterTypeOK, Covered
<1>6. ASSUME BucketLost PROVE LInv'
  <2>1. BurstSize * restarts \in Nat /\ BurstSize * restarts' = BurstSize * restarts + BurstSize
    BY <1>6, ProductIsNat DEF BucketLost, LInv, LimiterTypeOK
  <2>2. LimiterTypeOK'
    <3>1. /\ present' \in BOOLEAN
          /\ restarts' \in Nat
      <4>1. present' = FALSE /\ restarts' = restarts + 1
        BY <1>6 DEF BucketLost
      <4>2. present' \in BOOLEAN
        BY <4>1, Zenon
      <4>3. restarts' \in Nat
        BY <4>1 DEF LInv, LimiterTypeOK
      <4>4. QED BY <4>2, <4>3
    <3>2. UNCHANGED <<clock, expires, tokens, ts, requestPc, now, admitted, unmetered, rewound>>
      BY <1>6 DEF BucketLost
    <3>3. QED BY <3>1, <3>2 DEF LInv, LimiterTypeOK
  <2>3. admitted <= BurstSize * restarts + ts + rewound + unmetered + BurstSize
    BY <1>6, <2>1 DEF BucketLost, LInv, LimiterTypeOK, Covered
  <2>4. admitted' <= BurstSize * restarts' + ts' + rewound' + unmetered'
    BY <1>6, <2>1, <2>3 DEF BucketLost, LInv, LimiterTypeOK
  <2>5. QED BY <1>6, <2>2, <2>4 DEF BucketLost, LInv, Covered
<1>7. ASSUME ClockTick PROVE LInv'
  <2>1. LimiterTypeOK'
    BY <1>7 DEF ClockTick, bucket, LInv, LimiterTypeOK
  <2>2. Covered'
    BY <1>7 DEF ClockTick, bucket, LInv, Covered
  <2>3. QED BY <2>1, <2>2 DEF LInv
<1>8. ASSUME UNCHANGED limiterVars PROVE LInv'
  BY <1>8 DEF limiterVars, bucket, LInv, LimiterTypeOK, Covered
<1>9. QED
  BY <1>1, <1>2, <1>3, <1>4, <1>5, <1>6, <1>7, <1>8 DEF LimiterNext

LEMMA CoverExplains == LInv => BudgetExplained
<1> SUFFICES ASSUME LInv PROVE BudgetExplained
  OBVIOUS
<1>1. BurstSize * restarts \in Nat /\ BurstSize * (1 + restarts) = BurstSize * restarts + BurstSize
  BY LimiterAssumption, ProductIsNat DEF LInv, LimiterTypeOK
<1>2. QED
  BY <1>1, LimiterAssumption DEF LInv, LimiterTypeOK, Covered, BudgetExplained

\* The bucket stays between empty and full and no stored instant is ahead of the
\* fastest clock, for any number of gateways, skews, delays and restarts of Redis.
THEOREM LimiterTypeCorrect == LimiterSpec => []LimiterTypeOK
<1>1. LInv => LimiterTypeOK
  BY DEF LInv
<1>2. QED
  BY <1>1, InitLimiter, StepLimiter, PTL DEF LimiterSpec

\* What RedisRateLimiter lets one client through all gateways together: the burst and
\* one request per interval, plus what restarts, failures and old readings explain.
THEOREM BudgetIsExplained == LimiterSpec => []BudgetExplained
BY InitLimiter, StepLimiter, CoverExplains, PTL DEF LimiterSpec

\* When the bucket's clock is never set back the limit of ratelimit_redis.go is global
\* after all: an older reading that reaches Redis late is the one way past it.
THEOREM GlobalUnlessRewound == LimiterSpec => [](rewound = 0 => GlobalLimit)
<1>1. LInv => (rewound = 0 => GlobalLimit)
  BY CoverExplains, LimiterAssumption DEF LInv, LimiterTypeOK, BudgetExplained, GlobalLimit
<1> QED BY <1>1, InitLimiter, StepLimiter, PTL DEF LimiterSpec

-----------------------------------------------------------------------------
(* Reports.                                                                 *)

\* A report that found a match holds an incident that exists, is near and was open.
TargetsOK ==
  \A r \in Reports : reportPc[r] \in {"merge", "merged"} =>
    /\ target[r] \in open[r]
    /\ <<r, target[r]>> \in Near

\* The reports that created an incident are the incidents; snapshots hold incidents.
RowsOK ==
  /\ \A i \in Reports : status[i] # "absent" <=> reportPc[i] = "created"
  /\ \A r \in Reports : open[r] \subseteq Incidents

\* A report that found nothing found every open incident near it too old.
NothingFound ==
  \A r \in Reports : reportPc[r] \in {"insert", "created"} =>
    \A i \in open[r] : <<r, i>> \in Near => age[i] >= Window

Counted ==
  \A i \in Reports :
    reportCount[i] = Cardinality(MergedInto(i)) + (IF reportPc[i] = "created" THEN 1 ELSE 0)

\* The inductive invariant.
RInv == ReportsTypeOK /\ TargetsOK /\ RowsOK /\ NothingFound /\ Counted

-----------------------------------------------------------------------------
\* No step but a merge changes the reports merged into an incident.
LEMMA MergedKept ==
  ASSUME ReportsTypeOK, target' = target,
         \A r \in Reports : reportPc'[r] = "merged" <=> reportPc[r] = "merged",
         NEW i \in Reports
  PROVE  MergedInto(i)' = MergedInto(i)
BY DEF MergedInto

\* A merge adds the report to those of its target.
LEMMA MergeAdds ==
  ASSUME RInv, NEW r \in Reports, Merge(r), NEW i \in Reports
  PROVE  /\ IsFiniteSet(MergedInto(i))
         /\ i = target[r] => Cardinality(MergedInto(i)') = Cardinality(MergedInto(i)) + 1
         /\ i # target[r] => MergedInto(i)' = MergedInto(i)
<1>1. MergedInto(i) \subseteq Reports /\ r \notin MergedInto(i)
  BY DEF MergedInto, Merge
<1>2. IsFiniteSet(MergedInto(i))
  BY <1>1, FS_Subset, ReportsAssumption
<1>3. reportPc' = [reportPc EXCEPT ![r] = "merged"] /\ target' = target
  BY DEF Merge, ReportGoto
<1> reportPc \in [Reports -> {"new", "merge", "insert", "merged", "created", "failed"}]
  BY DEF RInv, ReportsTypeOK
<1>4. ASSUME i = target[r] PROVE MergedInto(i)' = MergedInto(i) \cup {r}
  BY <1>3, <1>4 DEF MergedInto
<1>5. ASSUME i # target[r] PROVE MergedInto(i)' = MergedInto(i)
  BY <1>3, <1>5 DEF MergedInto
<1> QED BY <1>1, <1>2, <1>4, <1>5, FS_AddElement

LEMMA RInvInit == ASSUME ReportsInit PROVE RInv
<1>1. \A i \in Reports : MergedInto(i) = {} BY DEF ReportsInit, MergedInto
<1>2. Counted BY <1>1, FS_EmptySet DEF Counted, ReportsInit
<1> QED BY <1>2, ReportsAssumption
  DEF ReportsInit, RInv, ReportsTypeOK, TargetsOK, RowsOK, NothingFound, Incidents,
      IncidentStatuses

LEMMA RInvNext == ASSUME RInv, [ReportsNext]_reportVars PROVE RInv'
<1> USE DEF RInv
<1>1. ASSUME NEW r \in Reports, Search(r) PROVE RInv'
  <2>1. /\ reportPc' \in [Reports -> {"new", "merge", "insert", "merged", "created", "failed"}]
        /\ \A q \in Reports \ {r} : reportPc'[q] = reportPc[q] /\ target'[q] = target[q] /\ open'[q] = open[q]
        /\ reportPc[r] = "new" /\ reportPc'[r] \in {"merge", "insert"}
        /\ open'[r] = Open
        /\ UNCHANGED <<incidentRows, changes>>
    BY <1>1 DEF Search, ReportGoto, ReportsTypeOK, incidentRows
  <2>2. Open \subseteq Incidents /\ Incidents \subseteq Reports
    BY DEF Open, Incidents
  <2>3. /\ Matches(r) \subseteq Open
        /\ \A i \in Matches(r) : <<r, i>> \in Near
    BY DEF Matches, Open, Incidents, ActiveIncident
  <2>4. \/ reportPc'[r] = "insert" /\ Matches(r) = {} /\ target' = target
        \/ \E i \in Matches(r) : reportPc'[r] = "merge" /\ target' = [target EXCEPT ![r] = i]
    BY <1>1 DEF Search, ReportGoto, ReportsTypeOK
  <2>5. target' \in [Reports -> Reports \cup {NoReport}]
    BY <2>2, <2>3, <2>4 DEF ReportsTypeOK
  <2>6. open' \in [Reports -> SUBSET Reports]
    BY <1>1, <2>2 DEF Search, ReportsTypeOK
  <2>7. ReportsTypeOK'
    BY <2>1, <2>5, <2>6 DEF ReportsTypeOK, incidentRows
  <2>8. TargetsOK'
    <3>1. reportPc'[r] = "merge" => target'[r] \in open'[r] /\ <<r, target'[r]>> \in Near
      BY <2>1, <2>3, <2>4 DEF ReportsTypeOK
    <3>2. reportPc'[r] # "merged" BY <2>1
    <3> QED BY <2>1, <3>1, <3>2 DEF TargetsOK
  <2>9. RowsOK'
    BY <2>1, <2>2 DEF RowsOK, Incidents, incidentRows
  <2>10. NothingFound'
    <3>1. ASSUME Matches(r) = {}, NEW i \in Open, <<r, i>> \in Near
          PROVE  age[i] >= Window
      <4>1. i \in Incidents /\ i \in Reports BY <2>2
      <4>2. status[i] \in ActiveIncident
        BY <4>1 DEF Open, Incidents, ReportsTypeOK, IncidentStatuses, ActiveIncident
      <4>3. ~(age[i] < Window) BY <3>1, <4>1, <4>2 DEF Matches
      <4> QED BY <4>1, <4>3, ReportsAssumption DEF ReportsTypeOK
    <3>2. age' = age BY <2>1 DEF incidentRows
    <3>3. reportPc'[r] = "insert" => Matches(r) = {} BY <2>4
    <3> QED BY <2>1, <3>1, <3>2, <3>3 DEF NothingFound
  <2>11. Counted'
    <3> SUFFICES ASSUME NEW i \in Reports
                 PROVE  /\ MergedInto(i)' = MergedInto(i)
                        /\ reportCount'[i] = reportCount[i]
                        /\ reportPc'[i] = "created" <=> reportPc[i] = "created"
      BY DEF Counted
    <3>1. MergedInto(i)' = MergedInto(i) BY <2>1 DEF MergedInto
    <3> QED BY <2>1, <3>1 DEF incidentRows
  <2> QED BY <2>7, <2>8, <2>9, <2>10, <2>11
<1>2. ASSUME NEW r \in Reports, Merge(r) PROVE RInv'
  <2>1. /\ reportPc[r] = "merge" /\ reportPc' = [reportPc EXCEPT ![r] = "merged"]
        /\ reportCount' = [reportCount EXCEPT ![target[r]] = reportCount[target[r]] + 1]
        /\ UNCHANGED <<target, status, age, changes, open>>
    BY <1>2 DEF Merge, Count, ReportGoto
  <2>2. target[r] \in Reports BY <2>1 DEF TargetsOK, RowsOK, Incidents
  <2>3. ReportsTypeOK' BY <2>1, <2>2 DEF ReportsTypeOK
  <2>4. TargetsOK' BY <2>1 DEF TargetsOK, ReportsTypeOK
  <2>5. RowsOK' BY <2>1 DEF RowsOK, Incidents, ReportsTypeOK
  <2>6. NothingFound' BY <2>1 DEF NothingFound, ReportsTypeOK
  <2>7. Counted'
    <3> SUFFICES ASSUME NEW i \in Reports
                 PROVE  reportCount'[i] = Cardinality(MergedInto(i)')
                                            + (IF reportPc'[i] = "created" THEN 1 ELSE 0)
      BY DEF Counted
    <3>1. reportCount[i] = Cardinality(MergedInto(i)) + (IF reportPc[i] = "created" THEN 1 ELSE 0)
      BY DEF Counted
    <3>2. reportPc'[i] = "created" <=> reportPc[i] = "created" BY <2>1 DEF ReportsTypeOK
    <3>3. Cardinality(MergedInto(i)) \in Nat BY <1>2, MergeAdds, FS_CardinalityType
    <3>4. CASE i = target[r]
      BY <1>2, <2>1, <3>1, <3>2, <3>3, <3>4, MergeAdds DEF ReportsTypeOK
    <3>5. CASE i # target[r]
      BY <1>2, <2>1, <3>1, <3>2, <3>5, MergeAdds DEF ReportsTypeOK
    <3> QED BY <3>4, <3>5
  <2> QED BY <2>3, <2>4, <2>5, <2>6, <2>7
<1>3. ASSUME NEW r \in Reports, Insert(r) PROVE RInv'
  <2>1. /\ reportPc[r] = "insert" /\ reportPc' = [reportPc EXCEPT ![r] = "created"]
        /\ status' = [status EXCEPT ![r] = "reported"]
        /\ age' = [age EXCEPT ![r] = 0]
        /\ reportCount' = [reportCount EXCEPT ![r] = 1]
        /\ UNCHANGED <<target, changes, open>>
    BY <1>3 DEF Insert, ReportGoto
  <2>2. status[r] = "absent" BY <2>1 DEF RowsOK
  <2>3. ReportsTypeOK' BY <2>1, ReportsAssumption DEF ReportsTypeOK, IncidentStatuses
  <2>4. TargetsOK' BY <2>1 DEF TargetsOK, ReportsTypeOK
  <2>5. RowsOK' BY <2>1 DEF RowsOK, Incidents, ReportsTypeOK
  <2>6. \A q \in Reports : r \notin open[q] BY <2>2 DEF RowsOK, Incidents
  <2>7. NothingFound'
    BY <2>1, <2>6 DEF NothingFound, ReportsTypeOK, RowsOK, Incidents
  <2>8. Counted'
    <3> SUFFICES ASSUME NEW i \in Reports
                 PROVE  reportCount'[i] = Cardinality(MergedInto(i)')
                                            + (IF reportPc'[i] = "created" THEN 1 ELSE 0)
      BY DEF Counted
    <3>1. MergedInto(i)' = MergedInto(i)
      BY <2>1 DEF MergedInto, ReportsTypeOK
    <3>2. CASE i # r
      BY <2>1, <3>1, <3>2 DEF Counted, ReportsTypeOK
    <3>3. CASE i = r
      <4>1. MergedInto(r) = {}
        BY <2>2 DEF MergedInto, TargetsOK, RowsOK, Incidents
      <4> QED BY <2>1, <3>1, <3>3, <4>1, FS_EmptySet DEF ReportsTypeOK
    <3> QED BY <3>2, <3>3
  <2> QED BY <2>3, <2>4, <2>5, <2>7, <2>8
<1>4. ASSUME NEW r \in Reports, Fail(r) PROVE RInv'
  <2>1. /\ reportPc[r] \in {"merge", "insert"} /\ reportPc' = [reportPc EXCEPT ![r] = "failed"]
        /\ UNCHANGED <<target, status, age, reportCount, changes, open>>
    BY <1>4 DEF Fail, ReportGoto, incidentRows
  <2>2. ReportsTypeOK' BY <2>1 DEF ReportsTypeOK
  <2>3. TargetsOK' BY <2>1 DEF TargetsOK, ReportsTypeOK
  <2>4. RowsOK' BY <2>1 DEF RowsOK, Incidents, ReportsTypeOK
  <2>5. NothingFound' BY <2>1 DEF NothingFound, ReportsTypeOK
  <2>6. \A i \in Reports : MergedInto(i)' = MergedInto(i)
    BY <2>1, MergedKept DEF ReportsTypeOK
  <2>7. Counted' BY <2>1, <2>6 DEF Counted, ReportsTypeOK
  <2> QED BY <2>2, <2>3, <2>4, <2>5, <2>7
<1>5. ASSUME NEW i \in Incidents, ChangeStatus(i) PROVE RInv'
  <2>1. /\ \E s \in IncidentStatuses : status' = [status EXCEPT ![i] = s]
        /\ changes < MaxChanges /\ changes' = changes + 1
        /\ UNCHANGED <<reportPc, target, age, reportCount, open>>
    BY <1>5 DEF ChangeStatus
  <2>2. i \in Reports /\ status[i] # "absent" BY <1>5 DEF Incidents
  <2>3. ReportsTypeOK' BY <2>1, <2>2, ReportsAssumption DEF ReportsTypeOK
  <2>4. TargetsOK' BY <2>1 DEF TargetsOK
  <2>5. RowsOK' BY <2>1, <2>2 DEF RowsOK, Incidents, IncidentStatuses, ReportsTypeOK
  <2>6. NothingFound' BY <2>1 DEF NothingFound
  <2>7. \A j \in Reports : MergedInto(j)' = MergedInto(j) BY <2>1, MergedKept
  <2>8. Counted' BY <2>1, <2>7 DEF Counted
  <2> QED BY <2>3, <2>4, <2>5, <2>6, <2>8
<1>6. ASSUME IncidentsAge PROVE RInv'
  <2>1. /\ age' = [i \in Reports |-> IF i \in Incidents /\ age[i] < Window
                                     THEN age[i] + 1 ELSE age[i]]
        /\ UNCHANGED <<reportPc, target, status, reportCount, changes, open>>
    BY <1>6 DEF IncidentsAge
  <2>2. ReportsTypeOK' BY <2>1, ReportsAssumption DEF ReportsTypeOK
  <2>3. TargetsOK' BY <2>1 DEF TargetsOK
  <2>4. RowsOK' BY <2>1 DEF RowsOK, Incidents
  <2>5. NothingFound'
    BY <2>1, ReportsAssumption DEF NothingFound, ReportsTypeOK, RowsOK, Incidents
  <2>6. \A j \in Reports : MergedInto(j)' = MergedInto(j) BY <2>1, MergedKept
  <2>7. Counted' BY <2>1, <2>6 DEF Counted
  <2> QED BY <2>2, <2>3, <2>4, <2>5, <2>7
<1>7. ASSUME UNCHANGED reportVars PROVE RInv'
  <2>1. UNCHANGED <<reportPc, target, status, age, reportCount, changes, open>>
    BY <1>7 DEF reportVars, incidentRows
  <2>2. \A j \in Reports : MergedInto(j)' = MergedInto(j) BY <2>1, MergedKept
  <2> QED BY <2>1, <2>2 DEF ReportsTypeOK, TargetsOK, RowsOK, Incidents, NothingFound, Counted
<1> QED BY <1>1, <1>2, <1>3, <1>4, <1>5, <1>6, <1>7 DEF ReportsNext

LEMMA RInvImplies == ASSUME RInv PROVE CountedOnce /\ DuplicatesExplained
<1>1. CountedOnce
  BY DEF RInv, Counted, CountedOnce, TargetsOK, RowsOK, Incidents
<1>2. DuplicatesExplained
  BY ReportsAssumption
    DEF RInv, DuplicatesExplained, NothingFound, RowsOK, Open, Incidents, ReportsTypeOK
<1> QED BY <1>1, <1>2

-----------------------------------------------------------------------------
\* Every reachable state of the reports is well typed.
THEOREM ReportsTypeCorrect == ReportsSpec => []ReportsTypeOK
<1>1. RInv => ReportsTypeOK BY DEF RInv
<1> QED BY <1>1, RInvInit, RInvNext, PTL DEF ReportsSpec

\* IncidentService.Create counts each accepted report exactly once, in an incident that
\* exists, is near, and was open when the report looked.
THEOREM ReportsCountedOnce == ReportsSpec => []CountedOnce
BY RInvInit, RInvNext, RInvImplies, PTL DEF ReportsSpec

\* TryDedupe leaves two recent open incidents for one event only through the residual
\* race of repository.go:176.
THEOREM OnlyResidualRace == ReportsSpec => []DuplicatesExplained
BY RInvInit, RInvNext, RInvImplies, PTL DEF ReportsSpec

-----------------------------------------------------------------------------
(* Accounts and their tokens.                                               *)

\* The claims a login reads off the user's row, or a registration makes, are well typed.
LEMMA ClaimsTyped ==
  ASSUME SessionsTypeOK, NEW u \in Users
  PROVE  /\ Claims(u) \in ClaimSets
         /\ NoLogin \in ClaimSets
         /\ [NoLogin EXCEPT !.user = u] \in ClaimSets
BY DEF SessionsTypeOK, Claims, NoLogin, ClaimSets, All

LEMMA IssuedTyped ==
  ASSUME SessionsTypeOK, NEW c \in ClaimSets
  PROVE  Issued(sessions, c) \subseteq [claims : ClaimSets, left : 1 .. ExpiryHours]
BY SessionsAssumption DEF SessionsTypeOK, Issued

\* A token that is not the last hour's stays live an hour less.
LEMMA AgedTyped ==
  ASSUME SessionsTypeOK
  PROVE  Aged(sessions) \subseteq [claims : ClaimSets, left : 1 .. ExpiryHours]
BY SessionsAssumption DEF SessionsTypeOK, Aged

LEMMA SessionsTypeStep == SessionsTypeOK /\ [SessionsNext]_sessionVars => SessionsTypeOK'
<1> SUFFICES ASSUME SessionsTypeOK, [SessionsNext]_sessionVars PROVE SessionsTypeOK'
  OBVIOUS
<1> USE SessionsAssumption
<1>1. ASSUME NEW u \in Users, Register(u) PROVE SessionsTypeOK'
  <2>1. sessions' \subseteq [claims : ClaimSets, left : 1 .. ExpiryHours]
    BY <1>1, ClaimsTyped, IssuedTyped DEF Register
  <2> QED BY <1>1, <2>1 DEF Register, SessionsTypeOK, ClaimSets
<1>2. ASSUME NEW u \in Users, Login(u) PROVE SessionsTypeOK'
  BY <1>2, ClaimsTyped DEF Login, userRows, SessionsTypeOK, ClaimSets
<1>3. ASSUME NEW u \in Users, GenerateToken(u) PROVE SessionsTypeOK'
  <2>1. sessions' \subseteq [claims : ClaimSets, left : 1 .. ExpiryHours]
    BY <1>3, IssuedTyped DEF GenerateToken, SessionsTypeOK
  <2> QED BY <1>3, <2>1, ClaimsTyped DEF GenerateToken, userRows, SessionsTypeOK, ClaimSets
<1>4. ASSUME NEW u \in Users, LoginFails(u) PROVE SessionsTypeOK'
  BY <1>4, ClaimsTyped DEF LoginFails, userRows, SessionsTypeOK, ClaimSets
<1>5. ASSUME NEW u \in Users, NEW k \in All, NEW r \in UnitIds \cup {Unbound},
             NEW s \in Shelters \cup {Unbound}, AssignRole(u, k, r, s)
      PROVE  SessionsTypeOK'
  <2>1. Grant(u, k, r, s) \in ClaimSets
    BY DEF Grant, ClaimSets
  <2> QED BY <1>5, <2>1 DEF AssignRole, SessionsTypeOK, ClaimSets
<1>6. ASSUME NEW u \in DOMAIN Demo, SeedUser(u) PROVE SessionsTypeOK'
  <2>1. Grant(u, Demo[u], DemoUnit, DemoShelter) \in ClaimSets
    BY DEF Grant, ClaimSets, All
  <2> QED BY <1>6, <2>1 DEF SeedUser, SessionsTypeOK, ClaimSets, All
<1>7. ASSUME NEW u \in DOMAIN Demo, SeedUnitBinding(u) PROVE SessionsTypeOK'
  BY <1>7 DEF SeedUnitBinding, SessionsTypeOK, ClaimSets
<1>8. ASSUME NEW u \in DOMAIN Demo, SeedShelterBinding(u) PROVE SessionsTypeOK'
  BY <1>8 DEF SeedShelterBinding, SessionsTypeOK, ClaimSets
<1>9. CASE TokensAge
  <2>1. sessions' \subseteq [claims : ClaimSets, left : 1 .. ExpiryHours]
    BY <1>9, AgedTyped DEF TokensAge
  <2> QED BY <1>9, <2>1 DEF TokensAge, userRows, SessionsTypeOK, ClaimSets
<1>10. CASE UNCHANGED sessionVars
  BY <1>10 DEF sessionVars, userRows, SessionsTypeOK, ClaimSets
<1> QED
  BY <1>1, <1>2, <1>3, <1>4, <1>5, <1>6, <1>7, <1>8, <1>9, <1>10 DEF SessionsNext

\* Accounts, the logins under way and the live tokens are well typed in every
\* reachable state: service.go Register, Login, AssignRole and the demo seed.
THEOREM SessionsTypeCorrect == SessionsSpec => []SessionsTypeOK
<1>1. SessionsInit => SessionsTypeOK
  BY SessionsAssumption
  DEF SessionsInit, SessionsTypeOK, NoLogin, Grant, ClaimSets, All
<1> QED BY <1>1, SessionsTypeStep, PTL DEF SessionsSpec

\* Claims allow the same acts when they agree on the role and on the binding the role
\* looks at: authz.go OwnsUnit and OwnsShelter.
LEMMA SamePowers ==
  ASSUME NEW c, NEW d, c.role = d.role,
         c.role = "responder" => c.unit = d.unit,
         c.role = "shelter_manager" => c.shelter = d.shelter
  PROVE  Powers(c) = Powers(d)
BY DEF Powers, RequireRole, Owns, OwnsUnit, OwnsShelter, Unbounded

\* An account that lacks its binding allows no more than the bound one.
LEMMA FewerPowers ==
  ASSUME NEW c, NEW d, c.role = d.role, c.unit = Unbound, c.shelter = Unbound
  PROVE  Powers(c) \subseteq Powers(d)
BY DEF Powers, RequireRole, Owns, OwnsUnit, OwnsShelter, Unbounded

\* A citizen's token allows none of the acts.
LEMMA CitizensHaveNone ==
  ASSUME NEW c, c.role = "citizen"
  PROVE  Powers(c) = {}
<1>1. \A op \in {"heartbeat", "advance", "toggle", "assign", "coordinate", "administer"} :
        ~RequireRole(c, op)
  BY DEF RequireRole, Gate
<1>2. \A a \in Acts :
        a[1] \in {"heartbeat", "advance", "toggle", "assign", "coordinate", "administer"}
  BY DEF Acts
<1> QED BY <1>1, <1>2 DEF Powers

\* Why a row is as given: the role is the one given, and so is the binding that the role
\* looks at, unless the seed has still to write it.
RowAsGiven(u) ==
  /\ role[u] = given[u].role
  /\ role[u] = "responder" => given[u].unit # Unbound
  /\ role[u] = "shelter_manager" => given[u].shelter # Unbound
  /\ role[u] = "responder" =>
       \/ unitId[u] = given[u].unit
       \/ /\ u \in DOMAIN Demo /\ Demo[u] = "responder"
          /\ unitId[u] = Unbound /\ shelterId[u] = Unbound /\ given[u].unit = DemoUnit
  /\ role[u] = "shelter_manager" =>
       \/ shelterId[u] = given[u].shelter
       \/ /\ u \in DOMAIN Demo /\ Demo[u] = "shelter_manager"
          /\ unitId[u] = Unbound /\ shelterId[u] = Unbound /\ given[u].shelter = DemoShelter
  /\ u \notin users =>
       role[u] = "citizen" /\ unitId[u] = Unbound /\ shelterId[u] = Unbound

\* No step parts a row from what was given to its user.
LEMMA RowAsGivenStep ==
  ASSUME SessionsTypeOK, [SessionsNext]_sessionVars, \A u \in Users : RowAsGiven(u)
  PROVE  \A u \in Users : RowAsGiven(u)'
<1> USE SessionsAssumption
<1> SUFFICES ASSUME NEW w \in Users PROVE RowAsGiven(w)'
  OBVIOUS
<1>1. ASSUME NEW u \in Users, Register(u) PROVE RowAsGiven(w)'
  BY <1>1 DEF Register, RowAsGiven
<1>2. ASSUME NEW u \in Users, NEW k \in All, NEW r \in UnitIds \cup {Unbound},
             NEW s \in Shelters \cup {Unbound}, AssignRole(u, k, r, s)
      PROVE  RowAsGiven(w)'
  BY <1>2 DEF AssignRole, Grant, RowAsGiven, SessionsTypeOK
<1>3. ASSUME NEW u \in DOMAIN Demo, SeedUser(u) PROVE RowAsGiven(w)'
  BY <1>3 DEF SeedUser, Grant, RowAsGiven, SessionsTypeOK
<1>4. ASSUME NEW u \in DOMAIN Demo, SeedUnitBinding(u) PROVE RowAsGiven(w)'
  BY <1>4 DEF SeedUnitBinding, RowAsGiven, SessionsTypeOK
<1>5. ASSUME NEW u \in DOMAIN Demo, SeedShelterBinding(u) PROVE RowAsGiven(w)'
  BY <1>5 DEF SeedShelterBinding, RowAsGiven, SessionsTypeOK
<1>6. CASE UNCHANGED <<userRows, given>>
  BY <1>6 DEF userRows, RowAsGiven
<1> QED
  BY <1>1, <1>2, <1>3, <1>4, <1>5, <1>6 DEF SessionsNext, Login, GenerateToken, LoginFails,
     TokensAge, sessionVars

\* Promotions, demotions and rebindings by admins, registrations and boots of the seed in
\* any order leave each row with the powers that were last given to its user.
THEOREM RowsAreAsGiven == SessionsSpec => []AsGiven
<1>1. SessionsInit => \A u \in Users : RowAsGiven(u)
  BY DEF SessionsInit, RowAsGiven, Grant
<1>2. SessionsTypeOK /\ (\A u \in Users : RowAsGiven(u)) /\ [SessionsNext]_sessionVars =>
        (\A u \in Users : RowAsGiven(u))'
  BY RowAsGivenStep
<1>3. SessionsTypeOK /\ (\A u \in Users : RowAsGiven(u)) => AsGiven
  <2> SUFFICES ASSUME SessionsTypeOK, NEW u \in Users, RowAsGiven(u)
               PROVE  \/ Powers(Claims(u)) = Powers(given[u])
                      \/ /\ Powers(Claims(u)) \subseteq Powers(given[u])
                         /\ u \in DOMAIN Demo /\ role[u] = Demo[u]
                         /\ unitId[u] = Unbound /\ shelterId[u] = Unbound
    BY DEF AsGiven, SessionsTypeOK
  <2>1. /\ Claims(u).role = role[u] /\ Claims(u).unit = unitId[u]
        /\ Claims(u).shelter = shelterId[u]
    BY DEF Claims
  <2>2. CASE unitId[u] = Unbound /\ shelterId[u] = Unbound /\ u \in DOMAIN Demo /\ role[u] = Demo[u]
    BY <2>1, <2>2, FewerPowers DEF RowAsGiven
  <2>3. CASE /\ role[u] = "responder" => unitId[u] = given[u].unit
             /\ role[u] = "shelter_manager" => shelterId[u] = given[u].shelter
    BY <2>1, <2>3, SamePowers DEF RowAsGiven
  <2> QED BY <2>2, <2>3 DEF RowAsGiven
<1> QED BY <1>1, <1>2, <1>3, SessionsTypeCorrect, PTL DEF SessionsSpec

\* A login under way has read the row of its own user.
ReadsOwnRow == \A v \in Users : reading[v] = NoLogin \/ reading[v].user = v

\* No step gives a login another user's claims.
LEMMA ReadsOwnRowStep ==
  ASSUME SessionsTypeOK, ReadsOwnRow, [SessionsNext]_sessionVars
  PROVE  ReadsOwnRow'
<1>1. ASSUME NEW u \in Users, Login(u) PROVE ReadsOwnRow'
  BY <1>1 DEF Login, Claims, ReadsOwnRow, SessionsTypeOK
<1>2. ASSUME NEW u \in Users, GenerateToken(u) \/ LoginFails(u) PROVE ReadsOwnRow'
  BY <1>2 DEF GenerateToken, LoginFails, ReadsOwnRow, SessionsTypeOK
<1>3. CASE UNCHANGED reading
  BY <1>3 DEF ReadsOwnRow
<1> QED
  BY <1>1, <1>2, <1>3 DEF SessionsNext, Register, AssignRole, SeedUser, SeedUnitBinding,
                          SeedShelterBinding, TokensAge, sessionVars

\* Staleness is bounded by the lifetime of a token (jwt.go): the bound counts from the
\* last login that read the role and the binding before they were taken away.
THEOREM RevokedOnlyAges == SessionsSpec => OnlyAges
<1> DEFINE Aging(u, a) ==
      /\ Revoked(u, a)'
      /\ \A t \in Conferring(u, a)' : \E s \in Conferring(u, a) :
           /\ t.claims = s.claims /\ t.left <= s.left
           /\ TokensAge => t.left = s.left - 1
<1>1. ASSUME SessionsTypeOK, ReadsOwnRow, SessionsNext, NEW u \in Users,
             NEW a \in Acts, Revoked(u, a), a \notin Powers(Claims(u))'
      PROVE  Aging(u, a)
  <2>1. \A t \in sessions : t.left \in Int
    BY <1>1 DEF SessionsTypeOK
  <2>2. a \notin Powers(NoLogin) /\ \A v \in Users : a \notin Powers([NoLogin EXCEPT !.user = v])
    BY CitizensHaveNone DEF NoLogin
  <2>3. Revoked(u, a)'
    <3>1. a \notin Powers(reading'[u])
      <4>1. ASSUME NEW v \in Users, Login(v) PROVE a \notin Powers(reading'[u])
        BY <1>1, <4>1 DEF Login, Revoked, SessionsTypeOK
      <4>2. ASSUME NEW v \in Users, GenerateToken(v) \/ LoginFails(v)
            PROVE  a \notin Powers(reading'[u])
        BY <1>1, <2>2, <4>2 DEF GenerateToken, LoginFails, Revoked, SessionsTypeOK
      <4>3. CASE UNCHANGED reading
        BY <1>1, <4>3 DEF Revoked
      <4> QED
        BY <1>1, <4>1, <4>2, <4>3 DEF SessionsNext, Register, AssignRole, SeedUser,
           SeedUnitBinding, SeedShelterBinding, TokensAge
    <3>2. Powers(reading[u])' = Powers(reading'[u])
      BY DEF Powers, RequireRole, Owns, OwnsUnit, OwnsShelter, Unbounded, Acts, Gate
    <3> QED
      BY <1>1, <3>1, <3>2 DEF Revoked
  <2>4. Conferring(u, a)' = {t \in sessions' : t.claims.user = u /\ a \in Powers(t.claims)}
    BY DEF Conferring, Powers, RequireRole, Owns, OwnsUnit, OwnsShelter, Unbounded, Acts, Gate
  <2>5. CASE TokensAge
    <3>1. ASSUME NEW t \in Conferring(u, a)'
          PROVE  \E s \in Conferring(u, a) : t.claims = s.claims /\ t.left = s.left - 1
      <4>1. PICK s \in sessions : t = [s EXCEPT !.left = s.left - 1]
        BY <2>4, <2>5, <3>1 DEF TokensAge, Aged
      <4>2. t.claims = s.claims /\ t.left = s.left - 1
        BY <1>1, <4>1 DEF SessionsTypeOK
      <4> QED
        BY <2>4, <3>1, <4>1, <4>2 DEF Conferring
    <3>2. \A s \in Conferring(u, a) : s.left - 1 <= s.left
      BY <2>1 DEF Conferring
    <3> QED
      BY <2>3, <3>1, <3>2
  <2>6. CASE ~TokensAge
    <3>1. Conferring(u, a)' \subseteq Conferring(u, a)
      <4>1. ASSUME NEW v \in Users, Register(v) PROVE Conferring(u, a)' \subseteq Conferring(u, a)
        BY <2>2, <2>4, <4>1 DEF Register, Issued, Conferring
      <4>2. ASSUME NEW v \in Users, GenerateToken(v)
            PROVE  Conferring(u, a)' \subseteq Conferring(u, a)
        <5>1. reading[v].user # u \/ a \notin Powers(reading[v])
          BY <1>1, <4>2 DEF GenerateToken, ReadsOwnRow, Revoked
        <5> QED
          BY <2>4, <4>2, <5>1 DEF GenerateToken, Issued, Conferring
      <4>3. CASE UNCHANGED sessions
        BY <2>4, <4>3 DEF Conferring
      <4> QED
        BY <1>1, <2>6, <4>1, <4>2, <4>3 DEF SessionsNext, Login, LoginFails, AssignRole, SeedUser,
           SeedUnitBinding, SeedShelterBinding
    <3>2. \A s \in Conferring(u, a) : s.left <= s.left
      BY <2>1 DEF Conferring
    <3> QED
      BY <2>3, <2>6, <3>1, <3>2
  <2> QED
    BY <2>5, <2>6
<1>2. SessionsTypeOK /\ ReadsOwnRow /\ [SessionsNext]_sessionVars =>
        [\A u \in users : \A a \in Acts :
           Revoked(u, a) /\ a \notin Powers(Claims(u))' => Aging(u, a)]_sessionVars
  BY <1>1 DEF SessionsTypeOK
<1>3. SessionsInit => ReadsOwnRow
  BY DEF SessionsInit, ReadsOwnRow
<1>4. SessionsTypeOK /\ ReadsOwnRow /\ [SessionsNext]_sessionVars => ReadsOwnRow'
  BY ReadsOwnRowStep
<1> QED
  BY <1>2, <1>3, <1>4, SessionsTypeCorrect, PTL DEF SessionsSpec, OnlyAges

-----------------------------------------------------------------------------
(* The five services together.                                              *)

\* Whatever runs, each service takes a step of its own or none.
LEMMA ServicesSteps ==
  ASSUME [ServicesNext]_servicesVars
  PROVE  /\ [LimiterNext]_limiterVars
         /\ [SeatsNext]_seatVars
         /\ [ReportsNext]_reportVars
         /\ [SearchNext]_searchVars
         /\ [SessionsNext]_sessionVars
BY DEF ServicesNext, LimiterStep, TransportStep, IncidentStep, PresenceStep, AuthStep,
       servicesVars

\* The services of the five packages share no table and no key: side by side each of
\* them behaves as its own specification says, so what is proved of one holds here.
THEOREM ServicesCompose ==
  ServicesSpec =>
    LimiterSpec /\ SeatsSpec /\ ReportsSpec /\ SearchSpec /\ SessionsSpec
<1>1. ServicesInit => LimiterInit /\ SeatsInit /\ ReportsInit /\ SearchInit /\ SessionsInit
  BY DEF ServicesInit
<1> QED
  BY <1>1, ServicesSteps, PTL
  DEF ServicesSpec, LimiterSpec, SeatsSpec, ReportsSpec, SearchSpec, SessionsSpec

\* Every service's rows, keys and requests under way are well typed together, the seats
\* of a vehicle within the CHECK of migration 000016.
THEOREM ServicesTypeCorrect == ServicesSpec => []TypesOK
BY ServicesCompose, LimiterTypeCorrect, SeatsTypeCorrect, ReportsTypeCorrect,
   SearchTypeCorrect, SessionsTypeCorrect, PTL
DEF TypesOK
=============================================================================
