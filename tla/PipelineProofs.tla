--------------------------- MODULE PipelineProofs ---------------------------
(***************************************************************************)
(* The safety properties of Pipeline, for any number of events, relays,    *)
(* groups and faults.                                                      *)
(***************************************************************************)
EXTENDS Pipeline, FiniteSetTheorems, WellFoundedInduction, TLAPS

CopiesIn(s, e) == {i \in DOMAIN s : s[i] = e}
MessagesIn(s) == {s[i] : i \in DOMAIN s}
Done(g, e) == Handled(g, e) \/ <<g, e>> \in gaveUp
\* The broker's first copy of e is accounted for.
Out(e) == row[e] = "published" \/ \E r \in Relays : e \in sent[r]

\* Batches hold pending rows, each one relay's and in one of its three sets, and what was
\* sent is in the topic.
BatchesOK ==
  /\ \A r \in Relays : \A e \in Batch(r) : row[e] = "pending"
  /\ \A r, q \in Relays : r # q => Batch(r) \cap Batch(q) = {}
  /\ \A r \in Relays : todo[r] \cap sent[r] = {} /\ sent[r] \subseteq Logged
  /\ \A r \in Relays : (todo[r] \cup sent[r]) \cap failed[r] = {}

\* A row that may still be claimed is within its budget.
BudgetOK == \A e \in Events : row[e] \in {"absent", "pending"} => attempts[e] < MaxPublishAttempts

\* Copies of a message beyond the accounted first one come of failures.
CopiesOK ==
  \A e \in Events : Cardinality(CopiesIn(log, e)) <= faults + (IF Out(e) THEN 1 ELSE 0)

\* Everything fetched but the message in hand is done with, and that one too once its
\* offset is to be committed.
ReadersOK ==
  \A g \in Groups :
    /\ stage[g] # "fetch" => pos[g] >= 1
    /\ stage[g] = "process" => tries[g] < maxAttempts
    /\ \A i \in 1 .. pos[g] :
         i < pos[g] \/ stage[g] \in {"fetch", "commit"} => Done(g, log[i])

\* The inductive invariant: the outbox's part and the consumers' part.
OutboxInv == BatchesOK /\ BudgetOK /\ MarkedImpliesLogged /\ CopiesOK
ConsumerInv == ReadersOK /\ NothingSkipped /\ EffectsOnce
PInv == TypeOK /\ OutboxInv /\ ConsumerInv

-----------------------------------------------------------------------------
\* The oldest row of a batch exists.
LEMMA LeastExists ==
  ASSUME NEW S, S \subseteq Nat, S # {}
  PROVE  First(S) \in S /\ \A f \in S : First(S) <= f
<1>1. PICK x \in S : \A y \in S : ~ (<<y, x>> \in OpToRel(<, Nat))
  BY NatLessThanWellFounded, WFMin, Zenon
<1>2. \A y \in S : ~(y < x)
  BY <1>1 DEF OpToRel
<1>3. \A y \in S : x <= y
  BY <1>2, SMT
<1> QED BY <1>3, Zenon DEF First

\* Appending a message keeps what is there and adds one copy of it.
LEMMA MessageAdded ==
  ASSUME NEW s \in Seq(Events), NEW f \in Events
  PROVE  /\ Append(s, f) \in Seq(Events)
         /\ DOMAIN s = 1 .. Len(s) /\ Len(s) \in Nat
         /\ DOMAIN Append(s, f) = 1 .. Len(s) + 1 /\ Len(Append(s, f)) = Len(s) + 1
         /\ \A i \in 1 .. Len(s) : Append(s, f)[i] = s[i]
         /\ Append(s, f)[Len(s) + 1] = f
OBVIOUS

\* The copies of an event in the topic can be counted.
LEMMA CopiesFinite ==
  ASSUME NEW s \in Seq(Events), NEW e
  PROVE  IsFiniteSet(CopiesIn(s, e)) /\ Cardinality(CopiesIn(s, e)) \in Nat
<1>1. CopiesIn(s, e) \in SUBSET (1 .. Len(s)) /\ Len(s) \in Int
  BY DEF CopiesIn
<1>2. IsFiniteSet(1 .. Len(s))
  BY <1>1, FS_Interval
<1> QED BY <1>1, <1>2, FS_Subset, FS_CardinalityType

\* Appending a message adds one copy of it and none of the others.
LEMMA CopyAdded ==
  ASSUME NEW s \in Seq(Events), NEW f \in Events, NEW e
  PROVE  Cardinality(CopiesIn(Append(s, f), e)) =
           IF e = f THEN Cardinality(CopiesIn(s, e)) + 1 ELSE Cardinality(CopiesIn(s, e))
<1>1. Len(s) + 1 \notin CopiesIn(s, e)
  BY MessageAdded DEF CopiesIn
<1>2. CASE e = f
  <2>1. CopiesIn(Append(s, f), e) = CopiesIn(s, e) \cup {Len(s) + 1}
    BY <1>2, MessageAdded DEF CopiesIn
  <2> QED BY <1>1, <1>2, <2>1, CopiesFinite, FS_AddElement
<1>3. CASE e # f
  <2>1. CopiesIn(Append(s, f), e) = CopiesIn(s, e)
    BY <1>3, MessageAdded DEF CopiesIn
  <2> QED BY <1>3, <2>1
<1> QED BY <1>2, <1>3

\* What one message more means for the properties that look at the topic.
GrownBy(t, s, f) ==
  /\ t \in Seq(Events) /\ Len(t) \in Nat /\ Len(s) \in Nat /\ Len(t) >= Len(s)
  /\ \A i \in 1 .. Len(s) : t[i] = s[i]
  /\ MessagesIn(s) \subseteq MessagesIn(t)
  /\ f \in MessagesIn(t)
  /\ \A e : Cardinality(CopiesIn(t, e)) =
              IF e = f THEN Cardinality(CopiesIn(s, e)) + 1 ELSE Cardinality(CopiesIn(s, e))

LEMMA TopicGrows ==
  ASSUME NEW s \in Seq(Events), NEW f \in Events
  PROVE  GrownBy(Append(s, f), s, f)
<1> DEFINE t == Append(s, f)
<1>1. \A i \in DOMAIN s : i \in DOMAIN t /\ t[i] = s[i]
  BY MessageAdded
<1>2. Len(s) + 1 \in DOMAIN t /\ t[Len(s) + 1] = f
  BY MessageAdded
<1>3. \A e : Cardinality(CopiesIn(t, e)) =
               IF e = f THEN Cardinality(CopiesIn(s, e)) + 1 ELSE Cardinality(CopiesIn(s, e))
  BY CopyAdded
<1>4. t \in Seq(Events) /\ Len(t) \in Nat /\ Len(s) \in Nat /\ Len(t) >= Len(s)
      /\ \A i \in 1 .. Len(s) : t[i] = s[i]
  BY MessageAdded
<1> HIDE DEF t
<1>5. MessagesIn(s) \subseteq MessagesIn(t)
  BY <1>1 DEF MessagesIn
<1>6. f \in MessagesIn(t)
  BY <1>2 DEF MessagesIn
<1>7. GrownBy(t, s, f)
  BY <1>3, <1>4, <1>5, <1>6 DEF GrownBy
<1> QED BY <1>7 DEF t

\* A failure is counted and within the bound.
LEMMA FaultCounted ==
  ASSUME TypeOK, NEW kind, Fault(kind)
  PROVE  faults' \in 0 .. MaxFaults /\ faults' = faults + 1
BY PipelineAssumption DEF TypeOK, Fault

-----------------------------------------------------------------------------
(* The two halves do not disturb each other.                                *)

\* The topic may grow: the consumers' part does not notice.
LEMMA ConsumersKept ==
  ASSUME TypeOK, ConsumerInv, UNCHANGED <<readerVars, inboxVars, dlq, gaveUp>>,
         \A i \in 1 .. Len(log) : log'[i] = log[i]
  PROVE  ConsumerInv'
<1>1. /\ pos' = pos /\ offset' = offset /\ stage' = stage /\ tries' = tries
      /\ processed' = processed /\ effects' = effects /\ dlq' = dlq /\ gaveUp' = gaveUp
  BY DEF readerVars, inboxVars
<1>2. \A g \in Groups : /\ \A i \in 1 .. pos[g] : log'[i] = log[i]
                        /\ \A i \in 1 .. offset[g] : log'[i] = log[i]
  <2>1. \A g \in Groups : pos[g] \in 0 .. Len(log) /\ offset[g] \in 0 .. Len(log)
    BY DEF TypeOK
  <2>2. Len(log) \in Nat
    BY DEF TypeOK
  <2> QED BY <2>1, <2>2
<1>3. EffectsOnce'
  BY <1>1 DEF ConsumerInv, EffectsOnce
<1>4. NothingSkipped'
  BY <1>1, <1>2 DEF ConsumerInv, NothingSkipped, Handled
<1>5. ReadersOK'
  BY <1>1, <1>2 DEF ConsumerInv, ReadersOK, Done, Handled
<1> QED BY <1>3, <1>4, <1>5 DEF ConsumerInv

\* The consumers' steps, and failures, do not disturb the outbox's part.
LEMMA OutboxKept ==
  ASSUME TypeOK, OutboxInv, UNCHANGED <<outboxVars, relayVars, log>>,
         faults' \in Nat, faults' >= faults
  PROVE  OutboxInv'
<1>1. /\ row' = row /\ attempts' = attempts /\ log' = log
      /\ todo' = todo /\ sent' = sent /\ failed' = failed
  BY DEF outboxVars, relayVars
<1>2. BatchesOK' BY <1>1 DEF OutboxInv, BatchesOK, Batch, Logged
<1>3. BudgetOK' BY <1>1 DEF OutboxInv, BudgetOK
<1>4. MarkedImpliesLogged' BY <1>1 DEF OutboxInv, MarkedImpliesLogged, Logged
<1>5. CopiesOK'
  <2>1. \A e \in Events : Cardinality(CopiesIn(log, e)) \in Nat
    BY CopiesFinite DEF TypeOK
  <2>2. faults \in Nat BY DEF TypeOK
  <2>3. \A e \in Events : Cardinality(CopiesIn(log, e)) <= faults' + (IF Out(e) THEN 1 ELSE 0)
    BY <2>1, <2>2 DEF OutboxInv, CopiesOK
  <2>4. \A e \in Events : Out(e)' <=> Out(e)
    BY <1>1 DEF Out
  <2> QED BY <1>1, <2>3, <2>4 DEF CopiesOK
<1> QED BY <1>2, <1>3, <1>4, <1>5 DEF OutboxInv

\* Steps that leave the topic alone: a first copy is forgotten only by a failure.
LEMMA CopiesKept ==
  ASSUME TypeOK, CopiesOK, log' = log, faults' \in Nat, faults' >= faults,
         \A e \in Events : Out(e) => Out(e)' \/ faults' > faults
  PROVE  CopiesOK'
<1>1. \A e \in Events : Cardinality(CopiesIn(log, e)) \in Nat
  BY CopiesFinite DEF TypeOK
<1>2. faults \in Nat
  BY DEF TypeOK
<1>3. ASSUME NEW e \in Events
      PROVE  Cardinality(CopiesIn(log, e)) <= faults' + (IF Out(e)' THEN 1 ELSE 0)
  <2>1. Cardinality(CopiesIn(log, e)) <= faults + (IF Out(e) THEN 1 ELSE 0)
    BY DEF CopiesOK
  <2>2. Cardinality(CopiesIn(log, e)) \in Nat
    BY <1>1
  <2>3. CASE faults' > faults
    BY <1>2, <2>1, <2>2, <2>3
  <2>4. CASE Out(e) => Out(e)'
    BY <1>2, <2>1, <2>2, <2>4
  <2> QED BY <2>3, <2>4
<1> QED BY <1>3 DEF CopiesOK

-----------------------------------------------------------------------------
(* Steps of the outbox and the relays.                                      *)

\* A row written is pending, within its budget, and in no batch.
LEMMA WriteTxKept ==
  ASSUME TypeOK, OutboxInv, NEW e \in Events, WriteTx(e)
  PROVE  TypeOK' /\ OutboxInv'
<1>1. /\ row' = [row EXCEPT ![e] = "pending"] /\ row[e] = "absent"
      /\ attempts' = attempts /\ log' = log /\ faults' = faults
      /\ todo' = todo /\ sent' = sent /\ failed' = failed
  BY DEF WriteTx, relayVars
<1>2. \A f \in Events : row'[f] = IF f = e THEN "pending" ELSE row[f]
  BY <1>1 DEF TypeOK
<1>3. TypeOK'
  BY <1>1 DEF WriteTx, TypeOK, relayVars, readerVars, inboxVars
<1>4. \A r \in Relays : Batch(r) \subseteq Events
  BY DEF TypeOK, Batch
<1>5. BatchesOK'
  BY <1>1, <1>2, <1>4 DEF OutboxInv, BatchesOK, Batch, Logged
<1>6. BudgetOK'
  BY <1>1, <1>2 DEF OutboxInv, BudgetOK
<1>7. MarkedImpliesLogged'
  BY <1>1, <1>2 DEF OutboxInv, MarkedImpliesLogged, Logged
<1>8. CopiesOK'
  <2>1. \A f \in Events : Out(f) => Out(f)'
    BY <1>1, <1>2 DEF Out
  <2>2. faults' \in Nat /\ faults' >= faults
    BY <1>1 DEF TypeOK
  <2> QED BY <1>1, <2>1, <2>2, CopiesKept DEF OutboxInv
<1> QED BY <1>3, <1>5, <1>6, <1>7, <1>8 DEF OutboxInv

\* The backoff changes only when a row may be claimed.
LEMMA BackoffElapsesKept ==
  ASSUME TypeOK, OutboxInv, NEW e \in Events, BackoffElapses(e)
  PROVE  TypeOK' /\ OutboxInv'
<1>1. /\ row' = row /\ attempts' = attempts /\ log' = log /\ faults' = faults
      /\ todo' = todo /\ sent' = sent /\ failed' = failed
  BY DEF BackoffElapses, relayVars
<1>2. TypeOK'
  BY DEF BackoffElapses, TypeOK, relayVars, readerVars, inboxVars
<1>3. BatchesOK' /\ BudgetOK' /\ MarkedImpliesLogged'
  BY <1>1 DEF OutboxInv, BatchesOK, BudgetOK, MarkedImpliesLogged, Batch, Logged
<1>4. CopiesOK'
  BY <1>1 DEF OutboxInv, CopiesOK, Out, CopiesIn
<1> QED BY <1>2, <1>3, <1>4 DEF OutboxInv

\* A claim takes pending rows no other relay holds.
LEMMA ClaimKept ==
  ASSUME TypeOK, OutboxInv, NEW r \in Relays, Claim(r)
  PROVE  TypeOK' /\ OutboxInv'
<1> DEFINE B == Oldest(Claimable, BatchSize)
<1>1. B \subseteq Claimable
  BY DEF Oldest
<1>2. B \subseteq Events /\ \A e \in B : row[e] = "pending" /\ Unclaimed(e)
  BY <1>1 DEF Claimable
<1>3. /\ row' = row /\ attempts' = attempts /\ log' = log /\ faults' = faults
      /\ sent' = sent /\ failed' = failed /\ todo' = [todo EXCEPT ![r] = B]
      /\ Batch(r) = {}
  BY DEF Claim, outboxVars
<1> HIDE DEF B
<1>4. TypeOK'
  BY <1>2, <1>3 DEF Claim, TypeOK, outboxVars, readerVars, inboxVars
<1>5. Batch(r)' = B /\ sent[r] = {}
  BY <1>3 DEF Batch, TypeOK
<1>6. \A q \in Relays \ {r} : Batch(q)' = Batch(q) /\ todo'[q] = todo[q]
  BY <1>3 DEF Batch, TypeOK
<1>7. BatchesOK'
  <2>1. \A q \in Relays : \A e \in Batch(q)' : row'[e] = "pending"
    BY <1>2, <1>3, <1>5, <1>6 DEF OutboxInv, BatchesOK
  <2>2. \A q \in Relays \ {r} : B \cap Batch(q) = {}
    BY <1>2 DEF Unclaimed
  <2>3. \A p, q \in Relays : p # q => Batch(p)' \cap Batch(q)' = {}
    BY <2>2, <1>5, <1>6 DEF OutboxInv, BatchesOK
  <2>4. \A q \in Relays : todo'[q] \cap sent'[q] = {} /\ sent'[q] \subseteq Logged'
    BY <1>3, <1>5, <1>6 DEF OutboxInv, BatchesOK, Logged
  <2>5. \A q \in Relays : (todo'[q] \cup sent'[q]) \cap failed'[q] = {}
    BY <1>3, <1>6 DEF OutboxInv, BatchesOK, Batch
  <2> QED BY <2>1, <2>3, <2>4, <2>5 DEF BatchesOK
<1>8. BudgetOK' /\ MarkedImpliesLogged'
  BY <1>3 DEF OutboxInv, BudgetOK, MarkedImpliesLogged, Logged
<1>9. CopiesOK'
  BY <1>3 DEF OutboxInv, CopiesOK, Out, CopiesIn
<1> QED BY <1>4, <1>7, <1>8, <1>9 DEF OutboxInv

\* One row of a batch is dealt with: the batches stay what they are.
LEMMA RowDone ==
  ASSUME TypeOK, BatchesOK, NEW r \in Relays, NEW e \in todo[r],
         row' = row, todo' = [todo EXCEPT ![r] = todo[r] \ {e}], Logged \subseteq Logged',
         \/ failed' = failed /\ sent' = [sent EXCEPT ![r] = sent[r] \cup {e}] /\ e \in Logged'
         \/ sent' = sent /\ failed' = [failed EXCEPT ![r] = failed[r] \cup {e}]
  PROVE  /\ BatchesOK'
         /\ todo' \in [Relays -> SUBSET Events] /\ sent' \in [Relays -> SUBSET Events]
         /\ failed' \in [Relays -> SUBSET Events]
<1>1. \A q \in Relays : Batch(q)' = Batch(q)
  BY DEF TypeOK, Batch
<1>2. todo' \in [Relays -> SUBSET Events] /\ sent' \in [Relays -> SUBSET Events]
      /\ failed' \in [Relays -> SUBSET Events]
  <2>1. /\ todo \in [Relays -> SUBSET Events] /\ sent \in [Relays -> SUBSET Events]
        /\ failed \in [Relays -> SUBSET Events]
    BY DEF TypeOK
  <2>2. /\ todo[r] \ {e} \in SUBSET Events
        /\ sent[r] \cup {e} \in SUBSET Events /\ failed[r] \cup {e} \in SUBSET Events
    BY <2>1
  <2> QED BY <2>1, <2>2
<1>3. ASSUME NEW q \in Relays
      PROVE  todo'[q] \cap sent'[q] = {} /\ sent'[q] \subseteq Logged'
  <2>1. todo[q] \cap sent[q] = {} /\ sent[q] \subseteq Logged
    BY DEF BatchesOK
  <2>2. CASE q # r
    BY <2>1, <2>2 DEF TypeOK
  <2>3. CASE q = r
    <3>1. todo'[q] = todo[q] \ {e}
      BY <2>3 DEF TypeOK
    <3>2. sent'[q] = sent[q] \/ (sent'[q] = sent[q] \cup {e} /\ e \in Logged')
      BY <2>3 DEF TypeOK
    <3> QED BY <2>1, <3>1, <3>2
  <2> QED BY <2>2, <2>3
<1>4. \A q \in Relays : \A f \in Batch(q)' : row'[f] = "pending"
  BY <1>1 DEF BatchesOK
<1>5. \A p, q \in Relays : p # q => Batch(p)' \cap Batch(q)' = {}
  BY <1>1 DEF BatchesOK
<1>6. ASSUME NEW q \in Relays
      PROVE  (todo'[q] \cup sent'[q]) \cap failed'[q] = {}
  <2>1. /\ todo[q] \cap sent[q] = {} /\ (todo[q] \cup sent[q]) \cap failed[q] = {}
    BY DEF BatchesOK
  <2>2. CASE q # r
    BY <2>1, <2>2 DEF TypeOK
  <2>3. CASE q = r
    <3>1. todo'[q] = todo[q] \ {e}
      BY <2>3 DEF TypeOK
    <3>2. \/ sent'[q] = sent[q] /\ failed'[q] = failed[q] \cup {e}
          \/ sent'[q] = sent[q] \cup {e} /\ failed'[q] = failed[q]
      BY <2>3 DEF TypeOK
    <3> QED BY <2>1, <2>3, <3>1, <3>2
  <2> QED BY <2>2, <2>3
<1> QED BY <1>2, <1>3, <1>4, <1>5, <1>6 DEF BatchesOK

\* A publish sends a row that was not out yet.
LEMMA PublishKept ==
  ASSUME TypeOK, OutboxInv, NEW r \in Relays, Publish(r)
  PROVE  /\ TypeOK' /\ OutboxInv'
         /\ \A i \in 1 .. Len(log) : log'[i] = log[i]
<1>1. PICK e \in todo[r] : e = First(todo[r])
  <2>1. todo[r] \subseteq Events /\ todo[r] # {}
    BY DEF Publish, TypeOK
  <2> QED BY <2>1, LeastExists, PipelineAssumption
<1>2. e \in todo[r] /\ e \in Events
  BY DEF TypeOK
<1> DEFINE once == Append(log, e)
<1>3. /\ row' = row /\ attempts' = attempts /\ due' = due /\ failed' = failed
      /\ todo' = [todo EXCEPT ![r] = todo[r] \ {e}]
      /\ sent' = [sent EXCEPT ![r] = sent[r] \cup {e}]
      /\ \/ log' = once /\ faults' = faults
         \/ Fault("publish_error") /\ log' = Append(once, e)
  BY <1>1 DEF Publish, outboxVars
<1>4. log \in Seq(Events) /\ faults \in Nat
  BY DEF TypeOK
<1>5. /\ once \in Seq(Events) /\ Len(once) \in Nat /\ Len(log) \in Nat /\ Len(once) >= Len(log)
      /\ \A i \in 1 .. Len(log) : once[i] = log[i]
      /\ Logged \subseteq MessagesIn(once)
      /\ e \in MessagesIn(once)
      /\ \A f : Cardinality(CopiesIn(once, f)) =
                  IF f = e THEN Cardinality(CopiesIn(log, f)) + 1 ELSE Cardinality(CopiesIn(log, f))
  <2> HIDE DEF once
  <2>1. once = Append(log, e)
    BY DEF once
  <2>2. GrownBy(once, log, e)
    BY <1>2, <1>4, <2>1, TopicGrows, Zenon
  <2> QED BY <2>2 DEF GrownBy, Logged, MessagesIn
<1> HIDE DEF once
<1>6. \A f \in Events : Cardinality(CopiesIn(log, f)) \in Nat
  BY <1>4, CopiesFinite
<1>7. /\ log' \in Seq(Events) /\ Len(log') \in Nat /\ Len(log') >= Len(log)
      /\ \A i \in 1 .. Len(log) : log'[i] = log[i]
      /\ Logged \subseteq Logged' /\ e \in Logged'
      /\ faults' \in 0 .. MaxFaults
      /\ \A f \in Events \ {e} :
           Cardinality(CopiesIn(log', f)) = Cardinality(CopiesIn(log, f)) /\ faults' >= faults
      /\ Cardinality(CopiesIn(log', e)) - faults' = Cardinality(CopiesIn(log, e)) + 1 - faults
  <2>1. CASE log' = once /\ faults' = faults
    <3>1. Logged' = MessagesIn(once)
      BY <2>1 DEF Logged, MessagesIn
    <3>2. faults' \in 0 .. MaxFaults
      BY <2>1 DEF TypeOK
    <3>3. Cardinality(CopiesIn(log, e)) \in Nat
      BY <1>2, <1>6
    <3> QED BY <1>4, <1>5, <2>1, <3>1, <3>2, <3>3
  <2>2. CASE Fault("publish_error") /\ log' = Append(once, e)
    <3>1. /\ log' \in Seq(Events) /\ Len(log') \in Nat /\ Len(log') >= Len(once)
          /\ \A i \in 1 .. Len(once) : log'[i] = once[i]
          /\ MessagesIn(once) \subseteq Logged'
          /\ e \in Logged'
          /\ \A f : Cardinality(CopiesIn(log', f)) =
                      IF f = e THEN Cardinality(CopiesIn(once, f)) + 1
                      ELSE Cardinality(CopiesIn(once, f))
      <4>1. GrownBy(log', once, e)
        BY <1>2, <1>5, <2>2, TopicGrows, Zenon
      <4>2. Logged' = MessagesIn(log')
        BY DEF Logged, MessagesIn
      <4> QED BY <4>1, <4>2 DEF GrownBy
    <3>2. faults' \in 0 .. MaxFaults /\ faults' = faults + 1
      BY <2>2, FaultCounted
    <3>3. Cardinality(CopiesIn(log, e)) \in Nat
      BY <1>2, <1>6
    <3>4. \A i \in 1 .. Len(log) : log'[i] = log[i]
      BY <1>5, <3>1
    <3>5. Logged \subseteq Logged' /\ e \in Logged' /\ Len(log') >= Len(log)
      BY <1>5, <3>1
    <3>6. Cardinality(CopiesIn(log', e)) = Cardinality(CopiesIn(log, e)) + 2
      BY <1>5, <3>1, <3>3
    <3>7. \A f \in Events \ {e} :
            Cardinality(CopiesIn(log', f)) = Cardinality(CopiesIn(log, f))
      BY <1>5, <3>1
    <3>8. Cardinality(CopiesIn(log', e)) - faults' = Cardinality(CopiesIn(log, e)) + 1 - faults
      BY <1>4, <3>2, <3>3, <3>6
    <3> QED BY <1>4, <3>1, <3>2, <3>4, <3>5, <3>7, <3>8
  <2> QED BY <1>3, <2>1, <2>2
<1>8. /\ BatchesOK'
      /\ todo' \in [Relays -> SUBSET Events] /\ sent' \in [Relays -> SUBSET Events]
      /\ failed' \in [Relays -> SUBSET Events]
  BY <1>2, <1>3, <1>7, RowDone DEF OutboxInv
<1>9. TypeOK'
  <2>1. \A n \in 0 .. Len(log) : n \in 0 .. Len(log')
    BY <1>5, <1>7
  <2>2. pos' = pos /\ offset' = offset /\ stage' = stage /\ tries' = tries
        /\ processed' = processed /\ effects' = effects /\ dlq' = dlq /\ gaveUp' = gaveUp
    BY DEF Publish, readerVars, inboxVars
  <2>3. pos' \in [Groups -> 0 .. Len(log')] /\ offset' \in [Groups -> 0 .. Len(log')]
    BY <2>1, <2>2 DEF TypeOK
  <2> QED BY <1>3, <1>7, <1>8, <2>2, <2>3 DEF TypeOK
<1>10. BudgetOK'
  BY <1>3 DEF OutboxInv, BudgetOK
<1>11. MarkedImpliesLogged'
  BY <1>3, <1>7 DEF OutboxInv, MarkedImpliesLogged
<1>12. CopiesOK'
  <2>1. ~Out(e) /\ Out(e)'
    <3>1. row[e] = "pending" /\ e \notin sent[r]
      BY <1>2 DEF OutboxInv, BatchesOK, Batch
    <3>2. \A q \in Relays \ {r} : e \notin sent[q]
      BY <1>2 DEF OutboxInv, BatchesOK, Batch
    <3>3. e \in sent'[r]
      BY <1>3 DEF TypeOK
    <3> QED BY <3>1, <3>2, <3>3 DEF Out
  <2>2. \A f \in Events \ {e} : Out(f) => Out(f)'
    BY <1>3 DEF Out, TypeOK
  <2>3. faults' \in Nat
    BY <1>7
  <2>4. Cardinality(CopiesIn(log', e)) <= faults' + 1
    <3>1. Cardinality(CopiesIn(log, e)) <= faults
      BY <1>2, <1>4, <2>1 DEF OutboxInv, CopiesOK
    <3>2. Cardinality(CopiesIn(log, e)) \in Nat /\ Cardinality(CopiesIn(log', e)) \in Nat
      BY <1>2, <1>6, <1>7, CopiesFinite
    <3> QED BY <1>4, <1>7, <2>3, <3>1, <3>2
  <2>5. ASSUME NEW f \in Events \ {e}
        PROVE  Cardinality(CopiesIn(log', f)) <= faults' + (IF Out(f)' THEN 1 ELSE 0)
    <3>1. Cardinality(CopiesIn(log, f)) <= faults + (IF Out(f) THEN 1 ELSE 0)
      BY DEF OutboxInv, CopiesOK
    <3>2. Cardinality(CopiesIn(log, f)) \in Nat
      BY <1>6
    <3>3. Cardinality(CopiesIn(log', f)) = Cardinality(CopiesIn(log, f)) /\ faults' >= faults
      BY <1>7
    <3>4. Out(f) => Out(f)'
      BY <2>2
    <3> QED BY <1>4, <2>3, <3>1, <3>2, <3>3, <3>4
  <2> QED BY <2>1, <2>4, <2>5 DEF CopiesOK
<1> QED BY <1>7, <1>8, <1>9, <1>10, <1>11, <1>12 DEF OutboxInv

\* A failed publish may have added a copy, at the cost of a failure.
LEMMA PublishFailsKept ==
  ASSUME TypeOK, OutboxInv, NEW r \in Relays, PublishFails(r)
  PROVE  /\ TypeOK' /\ OutboxInv'
         /\ \A i \in 1 .. Len(log) : log'[i] = log[i]
<1>1. PICK e \in todo[r] : e = First(todo[r])
  <2>1. todo[r] \subseteq Events /\ todo[r] # {}
    BY DEF PublishFails, TypeOK
  <2> QED BY <2>1, LeastExists, PipelineAssumption
<1>2. e \in todo[r] /\ e \in Events
  BY DEF TypeOK
<1>3. /\ row' = row /\ attempts' = attempts /\ due' = due /\ sent' = sent
      /\ todo' = [todo EXCEPT ![r] = todo[r] \ {e}]
      /\ failed' = [failed EXCEPT ![r] = failed[r] \cup {e}]
      /\ \/ log' = log /\ (faults' = faults \/ Fault("publish_error"))
         \/ log' = Append(log, e) /\ Fault("publish_error")
  BY <1>1 DEF PublishFails, outboxVars
<1>4. log \in Seq(Events) /\ faults \in Nat
  BY DEF TypeOK
<1>5. faults' \in 0 .. MaxFaults /\ faults' >= faults
      /\ (log' # log => faults' = faults + 1)
  <2>1. CASE Fault("publish_error")
    BY <1>4, <2>1, FaultCounted
  <2>2. CASE log' = log /\ faults' = faults
    BY <1>4, <2>2 DEF TypeOK
  <2> QED BY <1>3, <2>1, <2>2
<1>6. log' = log \/ GrownBy(log', log, e)
  BY <1>2, <1>3, <1>4, TopicGrows, Zenon
<1>7. /\ log' \in Seq(Events) /\ Len(log) \in Nat /\ Len(log') \in Nat /\ Len(log') >= Len(log)
      /\ \A i \in 1 .. Len(log) : log'[i] = log[i]
      /\ Logged \subseteq Logged'
  <2>1. Logged = MessagesIn(log) /\ Logged' = MessagesIn(log')
    BY DEF Logged, MessagesIn
  <2> QED BY <1>4, <1>6, <2>1 DEF GrownBy
<1>8. /\ BatchesOK'
      /\ todo' \in [Relays -> SUBSET Events] /\ sent' \in [Relays -> SUBSET Events]
      /\ failed' \in [Relays -> SUBSET Events]
  BY <1>2, <1>3, <1>7, RowDone DEF OutboxInv
<1>9. TypeOK'
  <2>1. \A n \in 0 .. Len(log) : n \in 0 .. Len(log')
    BY <1>7
  <2>2. pos' = pos /\ offset' = offset /\ stage' = stage /\ tries' = tries
        /\ processed' = processed /\ effects' = effects /\ dlq' = dlq /\ gaveUp' = gaveUp
    BY DEF PublishFails, readerVars, inboxVars
  <2>3. pos' \in [Groups -> 0 .. Len(log')] /\ offset' \in [Groups -> 0 .. Len(log')]
    BY <2>1, <2>2 DEF TypeOK
  <2> QED BY <1>3, <1>5, <1>7, <1>8, <2>2, <2>3 DEF TypeOK
<1>10. BudgetOK'
  BY <1>3 DEF OutboxInv, BudgetOK
<1>11. MarkedImpliesLogged'
  BY <1>3, <1>7 DEF OutboxInv, MarkedImpliesLogged
<1>12. CopiesOK'
  <2> SUFFICES ASSUME NEW f \in Events
               PROVE  Cardinality(CopiesIn(log', f)) <= faults' + (IF Out(f)' THEN 1 ELSE 0)
    BY DEF CopiesOK
  <2>1. Cardinality(CopiesIn(log, f)) <= faults + (IF Out(f) THEN 1 ELSE 0)
    BY DEF OutboxInv, CopiesOK
  <2>2. Cardinality(CopiesIn(log, f)) \in Nat
    BY <1>4, CopiesFinite
  <2>3. Out(f)' <=> Out(f)
    BY <1>3 DEF Out
  <2>4. \/ Cardinality(CopiesIn(log', f)) = Cardinality(CopiesIn(log, f))
        \/ Cardinality(CopiesIn(log', f)) = Cardinality(CopiesIn(log, f)) + 1 /\ log' # log
    BY <1>6, <2>2 DEF GrownBy
  <2>5. faults' \in Nat
    BY <1>5
  <2> QED BY <1>4, <1>5, <2>1, <2>2, <2>3, <2>4, <2>5
<1> QED BY <1>7, <1>8, <1>9, <1>10, <1>11, <1>12 DEF OutboxInv

\* A commit settles the rows of the batch, which are pending and within their budget.
LEMMA CommitBatchKept ==
  ASSUME TypeOK, OutboxInv, NEW r \in Relays, CommitBatch(r)
  PROVE  TypeOK' /\ OutboxInv'
<1>1. /\ log' = log /\ faults' = faults /\ todo' = todo /\ todo[r] = {}
      /\ sent' = [sent EXCEPT ![r] = {}] /\ failed' = [failed EXCEPT ![r] = {}]
      /\ pos' = pos /\ offset' = offset /\ stage' = stage /\ tries' = tries
      /\ processed' = processed /\ effects' = effects /\ dlq' = dlq /\ gaveUp' = gaveUp
  BY DEF CommitBatch, readerVars, inboxVars
<1>2. /\ Batch(r)' = {} /\ sent'[r] = {} /\ todo'[r] = {} /\ failed'[r] = {}
      /\ \A q \in Relays \ {r} : Batch(q)' = Batch(q) /\ sent'[q] = sent[q]
                                 /\ failed'[q] = failed[q]
  BY <1>1 DEF Batch, TypeOK
<1>3. \A e \in Batch(r) : row[e] = "pending" /\ attempts[e] < MaxPublishAttempts
  <2>1. Batch(r) \subseteq Events
    BY DEF Batch, TypeOK
  <2> QED BY <2>1 DEF OutboxInv, BatchesOK, BudgetOK
<1>4. \A e \in Events :
        /\ row'[e] = IF e \in sent[r] THEN "published"
                     ELSE IF e \in failed[r] THEN markFailed(e) ELSE row[e]
        /\ attempts'[e] = IF e \in failed[r] THEN attempts[e] + 1 ELSE attempts[e]
        /\ due'[e] = IF e \in failed[r] THEN FALSE ELSE due[e]
  <2>1. sent[r] \cap failed[r] = {}
    BY DEF OutboxInv, BatchesOK
  <2> QED BY <2>1 DEF CommitBatch
<1>5. \A e \in Events : attempts'[e] \in 0 .. MaxPublishAttempts
  <2> SUFFICES ASSUME NEW e \in Events PROVE attempts'[e] \in 0 .. MaxPublishAttempts
    OBVIOUS
  <2>1. attempts[e] \in 0 .. MaxPublishAttempts
    BY DEF TypeOK
  <2>2. e \in failed[r] => attempts[e] < MaxPublishAttempts
    BY <1>3 DEF Batch
  <2>3. attempts'[e] = IF e \in failed[r] THEN attempts[e] + 1 ELSE attempts[e]
    BY <1>4
  <2> QED BY <2>1, <2>2, <2>3 DEF MaxPublishAttempts
<1>6. TypeOK'
  <2>1. row' \in [Events -> {"absent", "pending", "published", "dead"}]
    <3>1. \A e \in Events : row'[e] \in {"absent", "pending", "published", "dead"}
      BY <1>4 DEF markFailed, TypeOK
    <3> QED BY <3>1 DEF CommitBatch
  <2>2. attempts' \in [Events -> 0 .. MaxPublishAttempts]
    BY <1>5 DEF CommitBatch
  <2>3. due' \in [Events -> BOOLEAN]
    <3>1. \A e \in Events : due[e] \in BOOLEAN
      BY DEF TypeOK
    <3>2. \A e \in Events : due'[e] \in BOOLEAN
      BY <1>4, <3>1
    <3> QED BY <3>2 DEF CommitBatch
  <2>4. sent' \in [Relays -> SUBSET Events] /\ failed' \in [Relays -> SUBSET Events]
    BY <1>1 DEF TypeOK
  <2> QED BY <1>1, <2>1, <2>2, <2>3, <2>4 DEF TypeOK
<1>7. BatchesOK'
  <2>1. ASSUME NEW q \in Relays, NEW e \in Batch(q)'
        PROVE  row'[e] = "pending"
    <3>1. q # r /\ e \in Batch(q)
      BY <1>2, <2>1
    <3>2. e \notin Batch(r) /\ row[e] = "pending" /\ e \in Events
      BY <3>1 DEF OutboxInv, BatchesOK, Batch, TypeOK
    <3> QED BY <1>4, <3>2 DEF Batch
  <2>2. \A p, q \in Relays : p # q => Batch(p)' \cap Batch(q)' = {}
    BY <1>2 DEF OutboxInv, BatchesOK
  <2>3. \A q \in Relays : todo'[q] \cap sent'[q] = {} /\ sent'[q] \subseteq Logged'
    BY <1>1, <1>2 DEF OutboxInv, BatchesOK, Logged
  <2>4. \A q \in Relays : (todo'[q] \cup sent'[q]) \cap failed'[q] = {}
    BY <1>1, <1>2 DEF OutboxInv, BatchesOK
  <2> QED BY <2>1, <2>2, <2>3, <2>4 DEF BatchesOK
<1>8. BudgetOK'
  <2> SUFFICES ASSUME NEW e \in Events, row'[e] \in {"absent", "pending"}
               PROVE  attempts'[e] < MaxPublishAttempts
    BY DEF BudgetOK
  <2>1. CASE e \in failed[r] \ sent[r]
    <3>1. attempts[e] \in Int
      <4>1. attempts[e] \in 0 .. MaxPublishAttempts
        BY DEF TypeOK
      <4> QED BY <4>1 DEF MaxPublishAttempts
    <3>2. row'[e] = markFailed(e) /\ attempts'[e] = attempts[e] + 1
      BY <1>4, <2>1
    <3>3. ~(attempts[e] + 1 >= MaxPublishAttempts)
      BY <3>2 DEF markFailed
    <3> QED BY <3>1, <3>2, <3>3 DEF MaxPublishAttempts
  <2>2. CASE e \in sent[r]
    BY <1>4, <2>2
  <2>3. CASE e \notin failed[r] /\ e \notin sent[r]
    BY <1>4, <2>3 DEF OutboxInv, BudgetOK
  <2> QED BY <2>1, <2>2, <2>3
<1>9. MarkedImpliesLogged'
  <2> SUFFICES ASSUME NEW e \in Events, row'[e] = "published" PROVE e \in Logged
    BY <1>1 DEF MarkedImpliesLogged, Logged
  <2>1. e \in sent[r] \/ row[e] = "published"
    BY <1>4 DEF markFailed
  <2> QED BY <2>1 DEF OutboxInv, BatchesOK, MarkedImpliesLogged
<1>10. CopiesOK'
  <2>1. ASSUME NEW e \in Events, Out(e)
        PROVE  Out(e)'
    <3>1. CASE e \in sent[r]
      BY <1>4, <3>1 DEF Out
    <3>2. CASE row[e] = "published"
      <4>1. e \notin Batch(r)
        BY <1>3, <3>2
      <4> QED BY <1>4, <3>2, <4>1 DEF Out, Batch
    <3>3. ASSUME NEW q \in Relays \ {r}, e \in sent[q]
          PROVE  Out(e)'
      BY <1>2, <3>3 DEF Out
    <3> QED BY <2>1, <3>1, <3>2, <3>3 DEF Out
  <2>2. faults' \in Nat /\ faults' >= faults
    BY <1>1 DEF TypeOK
  <2> QED BY <1>1, <2>1, <2>2, CopiesKept DEF OutboxInv
<1> QED BY <1>6, <1>7, <1>8, <1>9, <1>10 DEF OutboxInv

\* A rollback leaves the rows pending and costs a failure.
LEMMA RelayCrashKept ==
  ASSUME TypeOK, OutboxInv, NEW r \in Relays, RelayCrash(r)
  PROVE  TypeOK' /\ OutboxInv'
<1>1. /\ log' = log /\ row' = row /\ attempts' = attempts /\ due' = due
      /\ todo' = [todo EXCEPT ![r] = {}]
      /\ sent' = [sent EXCEPT ![r] = {}] /\ failed' = [failed EXCEPT ![r] = {}]
      /\ pos' = pos /\ offset' = offset /\ stage' = stage /\ tries' = tries
      /\ processed' = processed /\ effects' = effects /\ dlq' = dlq /\ gaveUp' = gaveUp
  BY DEF RelayCrash, KeepRows, readerVars, inboxVars
<1>2. faults' \in 0 .. MaxFaults /\ faults' = faults + 1
  BY FaultCounted DEF RelayCrash
<1>3. /\ Batch(r)' = {} /\ sent'[r] = {} /\ todo'[r] = {} /\ failed'[r] = {}
      /\ \A q \in Relays \ {r} : /\ Batch(q)' = Batch(q) /\ sent'[q] = sent[q]
                                 /\ todo'[q] = todo[q] /\ failed'[q] = failed[q]
  BY <1>1 DEF Batch, TypeOK
<1>4. TypeOK'
  BY <1>1, <1>2 DEF TypeOK
<1>5. BatchesOK'
  <2>1. \A q \in Relays : \A e \in Batch(q)' : row'[e] = "pending"
    BY <1>1, <1>3 DEF OutboxInv, BatchesOK
  <2>2. \A p, q \in Relays : p # q => Batch(p)' \cap Batch(q)' = {}
    BY <1>3 DEF OutboxInv, BatchesOK
  <2>3. \A q \in Relays : todo'[q] \cap sent'[q] = {} /\ sent'[q] \subseteq Logged'
    BY <1>1, <1>3 DEF OutboxInv, BatchesOK, Logged
  <2>4. \A q \in Relays : (todo'[q] \cup sent'[q]) \cap failed'[q] = {}
    BY <1>1, <1>3 DEF OutboxInv, BatchesOK
  <2> QED BY <2>1, <2>2, <2>3, <2>4 DEF BatchesOK
<1>6. BudgetOK' /\ MarkedImpliesLogged'
  BY <1>1 DEF OutboxInv, BudgetOK, MarkedImpliesLogged, Logged
<1>7. CopiesOK'
  <2>1. faults' \in Nat /\ faults' > faults /\ faults' >= faults
    BY <1>2 DEF TypeOK
  <2> QED BY <1>1, <2>1, CopiesKept DEF OutboxInv
<1> QED BY <1>4, <1>5, <1>6, <1>7 DEF OutboxInv

-----------------------------------------------------------------------------
(* Steps of the consumers.                                                  *)

\* The message in hand, and what counts as done stays done.
LEMMA InHand ==
  ASSUME TypeOK, ReadersOK, NEW g \in Groups, stage[g] # "fetch"
  PROVE  pos[g] \in 1 .. Len(log) /\ Message(g) \in Events
<1>1. pos[g] \in 0 .. Len(log) /\ Len(log) \in Nat /\ pos[g] >= 1
  BY DEF TypeOK, ReadersOK
<1>2. pos[g] \in 1 .. Len(log)
  BY <1>1
<1> QED BY <1>2 DEF TypeOK, Message

\* What a step of group g's reader has to show: the rest follows.
LEMMA ReaderStep ==
  ASSUME TypeOK, ReadersOK, NothingSkipped, NEW g \in Groups, log' = log,
         processed \subseteq processed', dlq \subseteq dlq', gaveUp \subseteq gaveUp',
         NEW p \in 0 .. Len(log), NEW o \in 0 .. Len(log), NEW n \in 0 .. maxAttempts,
         NEW s \in {"fetch", "process", "deadletter", "commit"},
         pos' = [pos EXCEPT ![g] = p], offset' = [offset EXCEPT ![g] = o],
         tries' = [tries EXCEPT ![g] = n], stage' = [stage EXCEPT ![g] = s],
         s # "fetch" => p >= 1,
         s = "process" => n < maxAttempts,
         \A i \in 1 .. p : i < p \/ s \in {"fetch", "commit"} => Done(g, log[i])',
         \A i \in 1 .. o : Done(g, log[i])'
  PROVE  /\ ReadersOK' /\ NothingSkipped'
         /\ pos' \in [Groups -> 0 .. Len(log)] /\ offset' \in [Groups -> 0 .. Len(log)]
         /\ tries' \in [Groups -> 0 .. maxAttempts]
         /\ stage' \in [Groups -> {"fetch", "process", "deadletter", "commit"}]
<1>1. \A h, e : Done(h, e) => Done(h, e)'
  BY DEF Done, Handled
<1>2. /\ pos' \in [Groups -> 0 .. Len(log)] /\ offset' \in [Groups -> 0 .. Len(log)]
      /\ tries' \in [Groups -> 0 .. maxAttempts]
      /\ stage' \in [Groups -> {"fetch", "process", "deadletter", "commit"}]
  BY DEF TypeOK
<1>3. ASSUME NEW h \in Groups \ {g}
      PROVE  pos'[h] = pos[h] /\ offset'[h] = offset[h] /\ tries'[h] = tries[h]
             /\ stage'[h] = stage[h]
  BY DEF TypeOK
<1>4. pos'[g] = p /\ offset'[g] = o /\ tries'[g] = n /\ stage'[g] = s
  BY DEF TypeOK
<1>5. ReadersOK'
  BY <1>1, <1>3, <1>4 DEF ReadersOK, Done, Handled
<1>6. NothingSkipped'
  BY <1>1, <1>3, <1>4 DEF NothingSkipped, Done, Handled
<1> QED BY <1>2, <1>5, <1>6

\* The marker and the effect go together.
LEMMA AppliedOnce ==
  ASSUME TypeOK, EffectsOnce, NEW g \in Groups, NEW e \in Events, MarkAndApply(g, e)
  PROVE  /\ EffectsOnce'
         /\ processed' \subseteq Groups \X Events /\ effects' \in [Groups -> [Events -> Nat]]
         /\ processed' = processed \cup {<<g, e>>}
<1>1. CASE <<g, e>> \in processed
  BY <1>1 DEF MarkAndApply, TypeOK, EffectsOnce, inboxVars
<1>2. CASE <<g, e>> \notin processed
  <2>1. /\ processed' = processed \cup {<<g, e>>}
        /\ effects' = [effects EXCEPT ![g] = [effects[g] EXCEPT ![e] = Effect(g, effects[g][e])]]
    BY <1>2 DEF MarkAndApply
  <2>2. effects[g][e] = 0
    BY <1>2 DEF EffectsOnce
  <2>3. Effect(g, effects[g][e]) = 1
    BY <2>2 DEF Effect
  <2>4. effects' = [effects EXCEPT ![g] = [effects[g] EXCEPT ![e] = 1]]
    BY <2>1, <2>3
  <2>5. effects' \in [Groups -> [Events -> Nat]]
    BY <2>4 DEF TypeOK
  <2>6. \A h \in Groups, f \in Events :
          effects'[h][f] = IF h = g /\ f = e THEN 1 ELSE effects[h][f]
    BY <2>4 DEF TypeOK
  <2>7. EffectsOnce'
    <3> SUFFICES ASSUME NEW h \in Groups, NEW f \in Events
                 PROVE  effects'[h][f] = IF <<h, f>> \in processed' THEN 1 ELSE 0
      BY DEF EffectsOnce
    <3>1. CASE h = g /\ f = e
      BY <2>1, <2>6, <3>1
    <3>2. CASE ~(h = g /\ f = e)
      <4>1. <<h, f>> \in processed' <=> <<h, f>> \in processed
        BY <2>1, <3>2
      <4> QED BY <2>6, <3>2, <4>1 DEF EffectsOnce
    <3> QED BY <3>1, <3>2
  <2> QED BY <2>1, <2>5, <2>7 DEF TypeOK
<1> QED BY <1>1, <1>2

\* A reader's step leaves the outbox alone: what is left to check.
LEMMA ConsumerSide ==
  ASSUME TypeOK, OutboxInv, UNCHANGED <<outboxVars, relayVars, log>>,
         faults' = faults \/ \E kind \in AllFaults : Fault(kind),
         ReadersOK', NothingSkipped', EffectsOnce',
         processed' \subseteq Groups \X Events, effects' \in [Groups -> [Events -> Nat]],
         dlq' \subseteq Groups \X Events, gaveUp' \subseteq Groups \X Events,
         pos' \in [Groups -> 0 .. Len(log)], offset' \in [Groups -> 0 .. Len(log)],
         tries' \in [Groups -> 0 .. maxAttempts],
         stage' \in [Groups -> {"fetch", "process", "deadletter", "commit"}]
  PROVE  PInv'
<1>1. faults' \in 0 .. MaxFaults /\ faults' \in Nat /\ faults' >= faults
  <2>1. CASE faults' = faults
    BY <2>1 DEF TypeOK
  <2>2. ASSUME NEW kind, Fault(kind) PROVE faults' \in 0 .. MaxFaults /\ faults' = faults + 1
    BY <2>2, FaultCounted
  <2>3. faults \in Nat
    BY DEF TypeOK
  <2> QED BY <2>1, <2>2, <2>3
<1>2. OutboxInv'
  BY <1>1, OutboxKept
<1>3. TypeOK'
  BY <1>1 DEF TypeOK, outboxVars, relayVars
<1> QED BY <1>2, <1>3 DEF PInv, ConsumerInv

\* Fetching moves on from a message that is done with.
LEMMA FetchKept ==
  ASSUME PInv, NEW g \in Groups, Fetch(g)
  PROVE  PInv'
<1> USE DEF PInv, ConsumerInv
<1>1. /\ pos[g] + 1 \in 0 .. Len(log) /\ pos[g] + 1 >= 1 /\ pos[g] \in Nat
      /\ offset[g] \in 0 .. Len(log)
  BY DEF Fetch, TypeOK
<1>2. /\ UNCHANGED <<outboxVars, relayVars, log>> /\ faults' = faults /\ log' = log
      /\ processed' = processed /\ effects' = effects /\ dlq' = dlq /\ gaveUp' = gaveUp
      /\ pos' = [pos EXCEPT ![g] = pos[g] + 1] /\ offset' = [offset EXCEPT ![g] = offset[g]]
      /\ tries' = [tries EXCEPT ![g] = 0] /\ stage' = [stage EXCEPT ![g] = "process"]
  BY DEF Fetch, Stage, inboxVars, TypeOK
<1>3. \A i \in 1 .. pos[g] + 1 : i < pos[g] + 1 => Done(g, log[i])'
  <2>1. \A i \in 1 .. pos[g] : Done(g, log[i])
    BY DEF Fetch, ReadersOK
  <2> QED BY <1>1, <1>2, <2>1 DEF Done, Handled
<1>4. \A i \in 1 .. offset[g] : Done(g, log[i])'
  BY <1>2 DEF NothingSkipped, Done, Handled
<1>5. /\ ReadersOK' /\ NothingSkipped'
      /\ pos' \in [Groups -> 0 .. Len(log)] /\ offset' \in [Groups -> 0 .. Len(log)]
      /\ tries' \in [Groups -> 0 .. maxAttempts]
      /\ stage' \in [Groups -> {"fetch", "process", "deadletter", "commit"}]
  <2>1. 0 \in 0 .. maxAttempts /\ 0 < maxAttempts
    BY DEF maxAttempts
  <2>2. \A i \in 1 .. pos[g] + 1 :
          i < pos[g] + 1 \/ "process" \in {"fetch", "commit"} => Done(g, log[i])'
    BY <1>3
  <2> QED BY <1>1, <1>2, <1>4, <2>1, <2>2, ReaderStep
<1>6. EffectsOnce'
  BY <1>2 DEF EffectsOnce
<1> QED BY <1>2, <1>5, <1>6, ConsumerSide DEF TypeOK

\* A processed message has the inbox's marker.
LEMMA ProcessOnceKept ==
  ASSUME PInv, NEW g \in Groups, ProcessOnce(g)
  PROVE  PInv'
<1> USE DEF PInv, ConsumerInv
<1>1. pos[g] \in 1 .. Len(log) /\ Message(g) \in Events /\ stage[g] = "process"
  BY InHand DEF ProcessOnce
<1>2. /\ UNCHANGED <<outboxVars, relayVars, log>> /\ faults' = faults /\ log' = log
      /\ dlq' = dlq /\ gaveUp' = gaveUp /\ MarkAndApply(g, Message(g))
      /\ pos' = [pos EXCEPT ![g] = pos[g]] /\ offset' = [offset EXCEPT ![g] = offset[g]]
      /\ tries' = [tries EXCEPT ![g] = tries[g]] /\ stage' = [stage EXCEPT ![g] = "commit"]
  BY DEF ProcessOnce, Stage, TypeOK
<1>3. /\ EffectsOnce'
      /\ processed' \subseteq Groups \X Events /\ effects' \in [Groups -> [Events -> Nat]]
      /\ processed' = processed \cup {<<g, Message(g)>>}
  BY <1>1, <1>2, AppliedOnce
<1>4. \A i \in 1 .. pos[g] : Done(g, log[i])'
  <2> SUFFICES ASSUME NEW i \in 1 .. pos[g] PROVE Done(g, log[i])'
    OBVIOUS
  <2>1. CASE i < pos[g]
    <3>1. Done(g, log[i])
      BY <2>1 DEF ReadersOK
    <3> QED BY <1>2, <1>3, <3>1 DEF Done, Handled
  <2>2. CASE i = pos[g]
    <3>1. log[i] = Message(g)
      BY <2>2 DEF Message
    <3> QED BY <1>2, <1>3, <3>1 DEF Done, Handled
  <2> QED BY <1>1, <2>1, <2>2
<1>5. \A i \in 1 .. offset[g] : Done(g, log[i])'
  BY <1>2, <1>3 DEF NothingSkipped, Done, Handled
<1>6. /\ ReadersOK' /\ NothingSkipped'
      /\ pos' \in [Groups -> 0 .. Len(log)] /\ offset' \in [Groups -> 0 .. Len(log)]
      /\ tries' \in [Groups -> 0 .. maxAttempts]
      /\ stage' \in [Groups -> {"fetch", "process", "deadletter", "commit"}]
  <2>1. /\ pos[g] \in 0 .. Len(log) /\ pos[g] >= 1 /\ offset[g] \in 0 .. Len(log)
        /\ tries[g] \in 0 .. maxAttempts
    BY <1>1 DEF TypeOK
  <2>2. \A i \in 1 .. pos[g] :
          i < pos[g] \/ "commit" \in {"fetch", "commit"} => Done(g, log[i])'
    BY <1>4
  <2> QED BY <1>2, <1>3, <1>5, <2>1, <2>2, ReaderStep
<1> QED BY <1>2, <1>3, <1>6, ConsumerSide DEF TypeOK

\* A failed attempt leaves the budget of attempts within its bound.
LEMMA ProcessFailsKept ==
  ASSUME PInv, NEW g \in Groups, ProcessFails(g)
  PROVE  PInv'
<1> USE DEF PInv, ConsumerInv
<1> DEFINE next == IF tries[g] + 1 < maxAttempts THEN "process" ELSE "deadletter"
<1>1. pos[g] \in 1 .. Len(log) /\ Message(g) \in Events /\ stage[g] = "process"
  BY InHand DEF ProcessFails
<1>2. /\ UNCHANGED <<outboxVars, relayVars, log>> /\ log' = log
      /\ dlq' = dlq /\ gaveUp' = gaveUp
      /\ pos' = [pos EXCEPT ![g] = pos[g]] /\ offset' = [offset EXCEPT ![g] = offset[g]]
      /\ tries' = [tries EXCEPT ![g] = tries[g] + 1] /\ stage' = [stage EXCEPT ![g] = next]
      /\ (processed' = processed /\ effects' = effects) \/ MarkAndApply(g, Message(g))
      /\ faults' = faults \/ Fault("effect_error")
  BY DEF ProcessFails, Stage, TypeOK, inboxVars
<1>3. /\ EffectsOnce'
      /\ processed' \subseteq Groups \X Events /\ effects' \in [Groups -> [Events -> Nat]]
      /\ processed \subseteq processed'
  <2>1. CASE processed' = processed /\ effects' = effects
    BY <2>1 DEF EffectsOnce, TypeOK
  <2>2. CASE MarkAndApply(g, Message(g))
    BY <1>1, <2>2, AppliedOnce
  <2> QED BY <1>2, <2>1, <2>2
<1>4. \A i \in 1 .. pos[g] : i < pos[g] => Done(g, log[i])'
  <2>1. \A i \in 1 .. pos[g] : i < pos[g] => Done(g, log[i])
    BY DEF ReadersOK
  <2> QED BY <1>2, <1>3, <2>1 DEF Done, Handled
<1>5. \A i \in 1 .. offset[g] : Done(g, log[i])'
  BY <1>2, <1>3 DEF NothingSkipped, Done, Handled
<1>6. tries[g] \in Int /\ tries[g] + 1 \in 0 .. maxAttempts
      /\ (next = "process" => tries[g] + 1 < maxAttempts)
      /\ next \in {"process", "deadletter"}
  <2>1. tries[g] \in 0 .. maxAttempts /\ tries[g] < maxAttempts
    BY <1>1 DEF ReadersOK, TypeOK
  <2> QED BY <2>1 DEF maxAttempts
<1> HIDE DEF next
<1>7. /\ ReadersOK' /\ NothingSkipped'
      /\ pos' \in [Groups -> 0 .. Len(log)] /\ offset' \in [Groups -> 0 .. Len(log)]
      /\ tries' \in [Groups -> 0 .. maxAttempts]
      /\ stage' \in [Groups -> {"fetch", "process", "deadletter", "commit"}]
  <2>1. /\ pos[g] \in 0 .. Len(log) /\ pos[g] >= 1 /\ offset[g] \in 0 .. Len(log)
    BY <1>1 DEF TypeOK
  <2>2. \A i \in 1 .. pos[g] :
          i < pos[g] \/ next \in {"fetch", "commit"} => Done(g, log[i])'
    BY <1>4, <1>6
  <2>3. next \in {"fetch", "process", "deadletter", "commit"}
    BY <1>6
  <2> QED BY <1>2, <1>3, <1>5, <1>6, <2>1, <2>2, <2>3, ReaderStep
<1>8. faults' = faults \/ \E kind \in AllFaults : Fault(kind)
  BY <1>2 DEF AllFaults
<1> QED BY <1>2, <1>3, <1>7, <1>8, ConsumerSide DEF TypeOK

\* A dead-lettered message is in the DLQ or given up.
LEMMA deadLetterKept ==
  ASSUME PInv, NEW g \in Groups, deadLetter(g)
  PROVE  PInv'
<1> USE DEF PInv, ConsumerInv
<1>1. pos[g] \in 1 .. Len(log) /\ Message(g) \in Events
  BY InHand DEF deadLetter
<1>2. /\ UNCHANGED <<outboxVars, relayVars, log>> /\ log' = log
      /\ processed' = processed /\ effects' = effects
      /\ \/ dlq' = dlq \cup {<<g, Message(g)>>} /\ gaveUp' = gaveUp
         \/ dlq' = dlq /\ gaveUp' = gaveUp \cup {<<g, Message(g)>>}
      /\ pos' = [pos EXCEPT ![g] = pos[g]] /\ offset' = [offset EXCEPT ![g] = offset[g]]
      /\ tries' = [tries EXCEPT ![g] = tries[g]] /\ stage' = [stage EXCEPT ![g] = "commit"]
      /\ faults' = faults \/ Fault("dlq_error")
  BY DEF deadLetter, Stage, TypeOK, inboxVars
<1>3. dlq' \subseteq Groups \X Events /\ gaveUp' \subseteq Groups \X Events
      /\ dlq \subseteq dlq' /\ gaveUp \subseteq gaveUp' /\ Done(g, Message(g))'
  <2>1. dlq' \subseteq Groups \X Events /\ gaveUp' \subseteq Groups \X Events
        /\ dlq \subseteq dlq' /\ gaveUp \subseteq gaveUp'
    <3>1. <<g, Message(g)>> \in Groups \X Events
      BY <1>1
    <3>2. dlq \subseteq Groups \X Events /\ gaveUp \subseteq Groups \X Events
      BY DEF TypeOK
    <3> HIDE DEF PInv, ConsumerInv
    <3> QED BY <1>2, <3>1, <3>2
  <2>2. pos'[g] = pos[g]
    BY <1>2 DEF TypeOK
  <2>3. <<g, log[pos[g]]>> \in dlq' \/ <<g, log[pos[g]]>> \in gaveUp'
    BY <1>2 DEF Message
  <2> QED BY <1>2, <2>1, <2>2, <2>3 DEF Done, Handled, Message
<1>4. \A i \in 1 .. pos[g] : Done(g, log[i])'
  <2> SUFFICES ASSUME NEW i \in 1 .. pos[g] PROVE Done(g, log[i])'
    OBVIOUS
  <2>1. CASE i < pos[g]
    <3>1. Done(g, log[i])
      BY <2>1 DEF ReadersOK
    <3> QED BY <1>2, <1>3, <3>1 DEF Done, Handled
  <2>2. CASE i = pos[g]
    <3>1. log'[i] = log[pos[g]] /\ pos'[g] = pos[g]
      BY <1>2, <2>2 DEF TypeOK
    <3> QED BY <1>2, <1>3, <2>2, <3>1 DEF Done, Handled, Message
  <2> QED BY <1>1, <2>1, <2>2
<1>5. \A i \in 1 .. offset[g] : Done(g, log[i])'
  BY <1>2, <1>3 DEF NothingSkipped, Done, Handled
<1>6. /\ ReadersOK' /\ NothingSkipped'
      /\ pos' \in [Groups -> 0 .. Len(log)] /\ offset' \in [Groups -> 0 .. Len(log)]
      /\ tries' \in [Groups -> 0 .. maxAttempts]
      /\ stage' \in [Groups -> {"fetch", "process", "deadletter", "commit"}]
  <2>1. /\ pos[g] \in 0 .. Len(log) /\ pos[g] >= 1 /\ offset[g] \in 0 .. Len(log)
        /\ tries[g] \in 0 .. maxAttempts
    BY <1>1 DEF TypeOK
  <2>2. \A i \in 1 .. pos[g] :
          i < pos[g] \/ "commit" \in {"fetch", "commit"} => Done(g, log[i])'
    BY <1>4
  <2> QED BY <1>2, <1>3, <1>5, <2>1, <2>2, ReaderStep
<1>7. EffectsOnce'
  BY <1>2 DEF EffectsOnce
<1>8. faults' = faults \/ \E kind \in AllFaults : Fault(kind)
  BY <1>2 DEF AllFaults
<1> QED BY <1>2, <1>3, <1>6, <1>7, <1>8, ConsumerSide DEF TypeOK

\* An offset commit covers only messages that are done with.
LEMMA CommitMessagesKept ==
  ASSUME PInv, NEW g \in Groups, CommitMessages(g)
  PROVE  PInv'
<1> USE DEF PInv, ConsumerInv
<1>1. pos[g] \in 0 .. Len(log) /\ offset[g] \in 0 .. Len(log) /\ tries[g] \in 0 .. maxAttempts
      /\ stage[g] = "commit"
  BY DEF CommitMessages, TypeOK
<1>2. PICK o \in {pos[g], offset[g]} : offset' = [offset EXCEPT ![g] = o]
  BY DEF CommitMessages, TypeOK
<1>3. /\ UNCHANGED <<outboxVars, relayVars, log>> /\ log' = log
      /\ processed' = processed /\ effects' = effects /\ dlq' = dlq /\ gaveUp' = gaveUp
      /\ pos' = [pos EXCEPT ![g] = pos[g]]
      /\ tries' = [tries EXCEPT ![g] = tries[g]] /\ stage' = [stage EXCEPT ![g] = "fetch"]
      /\ faults' = faults \/ Fault("commit_error")
  BY DEF CommitMessages, Stage, TypeOK, inboxVars
<1>4. /\ \A i \in 1 .. pos[g] : Done(g, log[i])'
      /\ \A i \in 1 .. offset[g] : Done(g, log[i])'
  BY <1>1, <1>3 DEF ReadersOK, NothingSkipped, Done, Handled
<1>5. /\ ReadersOK' /\ NothingSkipped'
      /\ pos' \in [Groups -> 0 .. Len(log)] /\ offset' \in [Groups -> 0 .. Len(log)]
      /\ tries' \in [Groups -> 0 .. maxAttempts]
      /\ stage' \in [Groups -> {"fetch", "process", "deadletter", "commit"}]
  <2>1. o \in 0 .. Len(log) /\ \A i \in 1 .. o : Done(g, log[i])'
    BY <1>1, <1>4
  <2>2. \A i \in 1 .. pos[g] :
          i < pos[g] \/ "fetch" \in {"fetch", "commit"} => Done(g, log[i])'
    BY <1>4
  <2> QED BY <1>1, <1>2, <1>3, <2>1, <2>2, ReaderStep
<1>6. EffectsOnce'
  BY <1>3 DEF EffectsOnce
<1>7. faults' = faults \/ \E kind \in AllFaults : Fault(kind)
  BY <1>3 DEF AllFaults
<1> QED BY <1>3, <1>5, <1>6, <1>7, ConsumerSide DEF TypeOK

\* A new member starts at the committed offset, wherever the old one was.
LEMMA RejoinKept ==
  ASSUME PInv, NEW g \in Groups, Rejoin(g), NEW kind \in AllFaults, Fault(kind),
         NEW o \in 0 .. Len(log), offset' = [offset EXCEPT ![g] = o],
         gaveUp \subseteq gaveUp', gaveUp' \subseteq Groups \X Events,
         \A i \in 1 .. o : Done(g, log[i]) \/ <<g, log[i]>> \in gaveUp'
  PROVE  PInv'
<1> USE DEF PInv, ConsumerInv
<1>1. /\ UNCHANGED <<outboxVars, relayVars, log>> /\ log' = log
      /\ processed' = processed /\ effects' = effects /\ dlq' = dlq
      /\ tries' = [tries EXCEPT ![g] = tries[g]] /\ stage' = [stage EXCEPT ![g] = "fetch"]
      /\ pos' = [pos EXCEPT ![g] = o]
  BY DEF Rejoin, Stage, TypeOK, inboxVars
<1>2. \A i \in 1 .. o : Done(g, log[i])'
  BY <1>1 DEF Done, Handled
<1>3. /\ ReadersOK' /\ NothingSkipped'
      /\ pos' \in [Groups -> 0 .. Len(log)] /\ offset' \in [Groups -> 0 .. Len(log)]
      /\ tries' \in [Groups -> 0 .. maxAttempts]
      /\ stage' \in [Groups -> {"fetch", "process", "deadletter", "commit"}]
  <2>1. tries[g] \in 0 .. maxAttempts
    BY DEF TypeOK
  <2>2. \A i \in 1 .. o : i < o \/ "fetch" \in {"fetch", "commit"} => Done(g, log[i])'
    BY <1>2
  <2> QED BY <1>1, <1>2, <2>1, <2>2, ReaderStep
<1>4. EffectsOnce'
  BY <1>1 DEF EffectsOnce
<1> QED BY <1>1, <1>3, <1>4, ConsumerSide DEF TypeOK

\* A crash falls back to the committed offset.
LEMMA ConsumerCrashKept ==
  ASSUME PInv, NEW g \in Groups, ConsumerCrash(g)
  PROVE  PInv'
<1>1. Rejoin(g) /\ Fault("consumer_crash") /\ gaveUp' = gaveUp
  BY DEF ConsumerCrash
<1>2. /\ offset[g] \in 0 .. Len(log) /\ offset' = [offset EXCEPT ![g] = offset[g]]
      /\ gaveUp' \subseteq Groups \X Events
  BY DEF ConsumerCrash, PInv, TypeOK
<1>3. \A i \in 1 .. offset[g] : Done(g, log[i])
  BY DEF PInv, ConsumerInv, NothingSkipped, Done
<1>4. "consumer_crash" \in AllFaults
  BY DEF AllFaults
<1> QED BY <1>1, <1>2, <1>3, <1>4, RejoinKept

\* A shutdown may commit the offset of the message in hand, given up.
LEMMA ShutdownKept ==
  ASSUME PInv, NEW g \in Groups, Shutdown(g)
  PROVE  PInv'
<1>1. Rejoin(g) /\ Fault("shutdown") /\ stage[g] = "process" /\ "shutdown" \in AllFaults
  BY DEF Shutdown, AllFaults
<1>2. TypeOK /\ ReadersOK /\ NothingSkipped
  BY DEF PInv, ConsumerInv
<1>3. pos[g] \in 1 .. Len(log) /\ Message(g) \in Events
  BY <1>1, <1>2, InHand
<1>4. CASE UNCHANGED <<offset, gaveUp>>
  <2>1. /\ offset[g] \in 0 .. Len(log) /\ offset' = [offset EXCEPT ![g] = offset[g]]
        /\ gaveUp' = gaveUp /\ gaveUp' \subseteq Groups \X Events
    BY <1>2, <1>4 DEF TypeOK
  <2>2. \A i \in 1 .. offset[g] : Done(g, log[i])
    BY <1>2 DEF NothingSkipped, Done
  <2> QED BY <1>1, <2>1, <2>2, RejoinKept
<1>5. CASE /\ offset' = [offset EXCEPT ![g] = pos[g]]
           /\ gaveUp' = gaveUp \cup {<<g, Message(g)>>}
  <2>1. gaveUp \subseteq gaveUp' /\ gaveUp' \subseteq Groups \X Events
    <3>1. <<g, Message(g)>> \in Groups \X Events
      BY <1>3
    <3>2. gaveUp \subseteq Groups \X Events
      BY <1>2 DEF TypeOK
    <3> QED BY <1>5, <3>1, <3>2
  <2>2. ASSUME NEW i \in 1 .. pos[g]
        PROVE  Done(g, log[i]) \/ <<g, log[i]>> \in gaveUp'
    <3>1. CASE i < pos[g]
      BY <1>2, <3>1 DEF ReadersOK
    <3>2. CASE i = pos[g]
      BY <1>5, <3>2 DEF Message
    <3> QED BY <1>3, <3>1, <3>2
  <2>3. pos[g] \in 0 .. Len(log)
    BY <1>3
  <2> QED BY <1>1, <1>5, <2>1, <2>2, <2>3, RejoinKept
<1> QED BY <1>4, <1>5 DEF Shutdown

-----------------------------------------------------------------------------
(* The inductive invariant.                                                 *)

\* The invariant holds initially.
LEMMA PInvInit == Init => PInv
<1> SUFFICES ASSUME Init PROVE PInv
  OBVIOUS
<1>1. TypeOK
  BY PipelineAssumption DEF Init, TypeOK, MaxPublishAttempts, maxAttempts
<1>2. BatchesOK /\ BudgetOK /\ MarkedImpliesLogged
  BY DEF Init, BatchesOK, BudgetOK, MarkedImpliesLogged, Batch, MaxPublishAttempts
<1>3. CopiesOK
  <2>1. \A e : CopiesIn(log, e) = {}
    BY DEF Init, CopiesIn
  <2>2. Cardinality({}) = 0
    BY FS_EmptySet
  <2>3. \A e \in Events : ~Out(e)
    BY DEF Init, Out
  <2>4. faults = 0
    BY DEF Init
  <2>5. ASSUME NEW e \in Events
        PROVE  Cardinality(CopiesIn(log, e)) <= faults + (IF Out(e) THEN 1 ELSE 0)
    <3>1. Cardinality(CopiesIn(log, e)) = 0
      BY <2>1, <2>2
    <3> QED BY <2>3, <2>4, <3>1
  <2> QED BY <2>5 DEF CopiesOK
<1>4. ReadersOK /\ NothingSkipped /\ EffectsOnce
  BY DEF Init, ReadersOK, NothingSkipped, EffectsOnce
<1> QED BY <1>1, <1>2, <1>3, <1>4 DEF PInv, OutboxInv, ConsumerInv

\* Every step preserves it.
LEMMA PInvNext == PInv /\ [Next]_vars => PInv'
<1> SUFFICES ASSUME PInv, [Next]_vars PROVE PInv'
  OBVIOUS
<1>1. TypeOK /\ OutboxInv /\ ConsumerInv
  BY DEF PInv
<1>2. ASSUME NEW e \in Events, WriteTx(e) \/ BackoffElapses(e)
      PROVE  PInv'
  <2>1. TypeOK' /\ OutboxInv'
    BY <1>1, <1>2, WriteTxKept, BackoffElapsesKept
  <2>2. UNCHANGED <<readerVars, inboxVars, dlq, gaveUp>> /\ log' = log
    BY <1>2 DEF WriteTx, BackoffElapses, readerVars, inboxVars
  <2> QED BY <1>1, <2>1, <2>2, ConsumersKept DEF PInv
<1>3. ASSUME NEW r \in Relays, RelayStep(r) \/ RelayCrash(r)
      PROVE  PInv'
  <2>1. /\ TypeOK' /\ OutboxInv'
        /\ \A i \in 1 .. Len(log) : log'[i] = log[i]
    <3>1. CASE Claim(r)
      BY <1>1, <3>1, ClaimKept DEF Claim
    <3>2. CASE Publish(r)
      BY <1>1, <3>2, PublishKept
    <3>3. CASE PublishFails(r)
      BY <1>1, <3>3, PublishFailsKept
    <3>4. CASE CommitBatch(r)
      BY <1>1, <3>4, CommitBatchKept DEF CommitBatch
    <3>5. CASE RelayCrash(r)
      BY <1>1, <3>5, RelayCrashKept DEF RelayCrash
    <3> QED BY <1>3, <3>1, <3>2, <3>3, <3>4, <3>5 DEF RelayStep
  <2>2. UNCHANGED <<readerVars, inboxVars, dlq, gaveUp>>
    BY <1>3 DEF RelayStep, RelayCrash, Claim, Publish, PublishFails, CommitBatch
  <2> QED BY <1>1, <2>1, <2>2, ConsumersKept DEF PInv
<1>4. ASSUME NEW g \in Groups, ConsumerStep(g) \/ ConsumerCrash(g) \/ Shutdown(g)
      PROVE  PInv'
  BY <1>4, FetchKept, ProcessOnceKept, ProcessFailsKept, deadLetterKept, CommitMessagesKept,
     ConsumerCrashKept, ShutdownKept DEF ConsumerStep
<1>5. CASE UNCHANGED vars
  <2>1. /\ UNCHANGED <<outboxVars, relayVars, log>> /\ faults' = faults
        /\ UNCHANGED <<readerVars, inboxVars, dlq, gaveUp>> /\ log' = log
    BY <1>5 DEF vars
  <2>2. OutboxInv'
    <3>1. faults' \in Nat /\ faults' >= faults
      BY <1>1, <2>1 DEF TypeOK
    <3> QED BY <1>1, <2>1, <3>1, OutboxKept
  <2>3. ConsumerInv'
    BY <1>1, <2>1, ConsumersKept
  <2>4. TypeOK'
    BY <1>1, <2>1 DEF TypeOK, outboxVars, relayVars, readerVars, inboxVars
  <2> QED BY <2>2, <2>3, <2>4 DEF PInv
<1> QED BY <1>2, <1>3, <1>4, <1>5 DEF Next

\* The invariant holds throughout.
LEMMA PInvHolds == Spec => []PInv
BY PInvInit, PInvNext, PTL DEF Spec

-----------------------------------------------------------------------------
(* The theorems.                                                            *)

\* Every reachable state of outbox, relays, topic and consumers is well typed: no row is
\* attempted more than MaxPublishAttempts times, and no reader is past the topic's end.
THEOREM PipelineTypeCorrect == Spec => []TypeOK
<1>1. PInv => TypeOK
  BY DEF PInv
<1> QED BY <1>1, PInvHolds, PTL

\* PublishBatch marks a row published only after its message is in the topic, whatever
\* relay crashes between publishing and marking.
THEOREM NothingMarkedUnlogged == Spec => []MarkedImpliesLogged
<1>1. PInv => MarkedImpliesLogged
  BY DEF PInv, OutboxInv
<1> QED BY <1>1, PInvHolds, PTL

\* ProcessOnce applies a side effect at most once per event and group, and exactly when
\* the inbox has its marker.
THEOREM EffectsHappenOnce == Spec => []EffectsOnce
<1>1. PInv => EffectsOnce
  BY DEF PInv, ConsumerInv
<1> QED BY <1>1, PInvHolds, PTL

\* FOR UPDATE SKIP LOCKED keeps relays apart: an event is in the topic once, and once more
\* for each failure at most.
THEOREM DuplicatesAreExplained == Spec => []DuplicatesExplained
<1>1. PInv => DuplicatesExplained
  <2> SUFFICES ASSUME PInv, NEW e \in Events
               PROVE  Cardinality({i \in DOMAIN log : log[i] = e}) <= 1 + faults
    BY DEF DuplicatesExplained
  <2>1. Cardinality(CopiesIn(log, e)) <= faults + (IF Out(e) THEN 1 ELSE 0)
    BY DEF PInv, OutboxInv, CopiesOK
  <2>2. log \in Seq(Events) /\ faults \in Nat
    BY DEF PInv, TypeOK
  <2>3. Cardinality(CopiesIn(log, e)) \in Nat
    BY <2>2, CopiesFinite
  <2>4. Cardinality(CopiesIn(log, e)) <= 1 + faults
    BY <2>1, <2>2, <2>3
  <2> QED BY <2>4 DEF CopiesIn
<1> QED BY <1>1, PInvHolds, PTL

\* Run commits the offset of a message only when it was processed, dead-lettered or
\* given up by process(), under crashes, failing commits and SIGTERM.
THEOREM NoMessageSkipped == Spec => []NothingSkipped
<1>1. PInv => NothingSkipped
  BY DEF PInv, ConsumerInv
<1> QED BY <1>1, PInvHolds, PTL

\* No relay revives or republishes a row once it is marked published or dead.
THEOREM OutcomesSettled == Spec => Settled
<1> DEFINE Final == \A e \in Events : row[e] \in {"published", "dead"} => row'[e] = row[e]
<1>1. PInv /\ Next => Final
  <2> SUFFICES ASSUME PInv, Next, NEW e \in Events, row[e] \in {"published", "dead"}
               PROVE  row'[e] = row[e]
    OBVIOUS
  <2>1. ASSUME NEW f \in Events, WriteTx(f) \/ BackoffElapses(f)
        PROVE  row'[e] = row[e]
    BY <2>1 DEF WriteTx, BackoffElapses, PInv, TypeOK
  <2>2. ASSUME NEW r \in Relays, CommitBatch(r)
        PROVE  row'[e] = row[e]
    <3>1. e \notin Batch(r)
      BY DEF PInv, OutboxInv, BatchesOK
    <3> QED BY <2>2, <3>1 DEF CommitBatch, Batch
  <2>3. ASSUME NEW r \in Relays, Claim(r) \/ Publish(r) \/ PublishFails(r) \/ RelayCrash(r)
        PROVE  row'[e] = row[e]
    BY <2>3 DEF Claim, Publish, PublishFails, RelayCrash, KeepRows, outboxVars
  <2>4. ASSUME NEW g \in Groups, ConsumerStep(g) \/ ConsumerCrash(g) \/ Shutdown(g)
        PROVE  row'[e] = row[e]
    BY <2>4 DEF ConsumerStep, Fetch, ProcessOnce, ProcessFails, deadLetter, CommitMessages,
      ConsumerCrash, Shutdown, Rejoin, outboxVars
  <2> QED BY <2>1, <2>2, <2>3, <2>4 DEF Next, RelayStep
<1>2. PInv /\ [Next]_vars => [Final]_vars
  BY <1>1
<1>3. Spec => [][Final]_vars
  BY <1>2, PInvHolds, PTL DEF Spec
<1> QED BY <1>3 DEF Settled

-----------------------------------------------------------------------------
(* The refinement of EventDelivery.                                         *)

\* A message appended is the only one the topic did not hold.
LEMMA ToldByAppend ==
  ASSUME NEW s \in Seq(Events), NEW f \in Events
  PROVE  MessagesIn(Append(s, f)) = MessagesIn(s) \cup {f}
BY MessageAdded DEF MessagesIn

\* A publish, acknowledged or not, tells a pending event or repeats one.
LEMMA PublishTells ==
  ASSUME PInv, NEW r \in Relays, Publish(r) \/ PublishFails(r)
  PROVE  UNCHANGED Delivery!vars \/ \E e \in Events : Delivery!Tell(e)
<1>1. PICK e \in todo[r] : e = First(todo[r])
  <2>1. todo[r] \subseteq Events /\ todo[r] # {}
    BY DEF Publish, PublishFails, PInv, TypeOK
  <2> QED BY <2>1, LeastExists, PipelineAssumption
<1>2. e \in Events /\ log \in Seq(Events) /\ row[e] = "pending"
  BY <1>1 DEF PInv, TypeOK, OutboxInv, BatchesOK, Batch
<1>3. log' \in {log, Append(log, e), Append(Append(log, e), e)}
  BY <1>1 DEF Publish, PublishFails
<1>4. Logged' = Logged \/ Logged' = Logged \cup {e}
  <2>1. Append(log, e) \in Seq(Events)
    BY <1>2
  <2>2. /\ MessagesIn(Append(log, e)) = MessagesIn(log) \cup {e}
        /\ MessagesIn(Append(Append(log, e), e)) = MessagesIn(Append(log, e)) \cup {e}
    BY <1>2, <2>1, ToldByAppend
  <2>3. Logged = MessagesIn(log) /\ Logged' = MessagesIn(log')
    BY DEF Logged, MessagesIn
  <2> QED BY <1>3, <2>2, <2>3
<1>5. row' = row /\ attempts' = attempts /\ effects' = effects
  BY DEF Publish, PublishFails, outboxVars, inboxVars
<1> QED BY <1>2, <1>4, <1>5 DEF Delivery!Tell, Delivery!vars

\* A commit of a batch records what it sent and what was refused.
LEMMA BatchSettles ==
  ASSUME PInv, NEW r \in Relays, CommitBatch(r)
  PROVE  Delivery!Settle(sent[r], failed[r]) /\ sent[r] \in SUBSET Events /\ failed[r] \in SUBSET Events
<1>1. /\ sent[r] \in SUBSET Events /\ failed[r] \in SUBSET Events
      /\ sent[r] \subseteq Logged /\ sent[r] \cap failed[r] = {}
      /\ \A e \in sent[r] \cup failed[r] :
           row[e] = "pending" /\ attempts[e] < MaxPublishAttempts /\ attempts[e] \in Nat
  <2>1. sent[r] \in SUBSET Events /\ failed[r] \in SUBSET Events
    BY DEF PInv, TypeOK
  <2>2. sent[r] \subseteq Logged /\ sent[r] \cap failed[r] = {}
    BY DEF PInv, OutboxInv, BatchesOK
  <2>3. ASSUME NEW e \in sent[r] \cup failed[r]
        PROVE  row[e] = "pending" /\ attempts[e] < MaxPublishAttempts /\ attempts[e] \in Nat
    <3>1. e \in Events /\ row[e] = "pending"
      BY <2>1 DEF PInv, OutboxInv, BatchesOK, Batch
    <3>2. attempts[e] < MaxPublishAttempts
      BY <3>1 DEF PInv, OutboxInv, BudgetOK
    <3>3. attempts[e] \in 0 .. MaxPublishAttempts
      BY <3>1 DEF PInv, TypeOK
    <3> QED BY <3>1, <3>2, <3>3 DEF MaxPublishAttempts
  <2> QED BY <2>1, <2>2, <2>3
<1>2. /\ attempts' = [e \in Events |-> IF e \in failed[r] THEN attempts[e] + 1 ELSE attempts[e]]
      /\ log' = log /\ effects' = effects
  BY DEF CommitBatch, inboxVars
<1>3. row' = [e \in Events |->
        IF e \in sent[r] THEN "published"
        ELSE IF e \in failed[r] /\ attempts'[e] = MaxPublishAttempts THEN "dead" ELSE row[e]]
  <2>1. ASSUME NEW e \in Events
        PROVE  row'[e] = IF e \in sent[r] THEN "published"
                         ELSE IF e \in failed[r] /\ attempts'[e] = MaxPublishAttempts
                           THEN "dead" ELSE row[e]
    <3>1. row'[e] = IF e \in sent[r] THEN "published"
                    ELSE IF e \in failed[r] THEN markFailed(e) ELSE row[e]
      BY <1>1 DEF CommitBatch
    <3>2. e \in failed[r] => (attempts'[e] = MaxPublishAttempts <=> attempts[e] + 1 >= MaxPublishAttempts)
      BY <1>1, <1>2 DEF MaxPublishAttempts
    <3> QED BY <1>1, <3>1, <3>2 DEF markFailed
  <2>2. row' = [e \in Events |-> row'[e]]
    BY DEF CommitBatch
  <2> QED BY <2>1, <2>2
<1>4. Logged' = Logged
  BY <1>2 DEF Logged
<1> QED BY <1>1, <1>2, <1>3, <1>4 DEF Delivery!Settle

\* An attempt acts on the message in hand, which is in the topic, or leaves no trace.
LEMMA AttemptActs ==
  ASSUME PInv, NEW g \in Groups, ProcessOnce(g) \/ ProcessFails(g)
  PROVE  UNCHANGED Delivery!vars \/ \E e \in Events : Delivery!Act(g, e)
<1> DEFINE e == Message(g)
<1>1. e \in Events /\ e \in Logged
  <2>1. TypeOK /\ ReadersOK /\ stage[g] # "fetch"
    BY DEF PInv, ConsumerInv, ProcessOnce, ProcessFails
  <2>2. pos[g] \in 1 .. Len(log) /\ e \in Events
    BY <2>1, InHand
  <2>3. pos[g] \in DOMAIN log
    BY <2>1, <2>2 DEF TypeOK
  <2> QED BY <2>2, <2>3 DEF Logged, Message
<1>2. row' = row /\ attempts' = attempts /\ Logged' = Logged
  BY DEF ProcessOnce, ProcessFails, outboxVars, Logged
<1>3. UNCHANGED inboxVars \/ MarkAndApply(g, e)
  BY DEF ProcessOnce, ProcessFails
<1>4. CASE effects' = effects
  BY <1>2, <1>4 DEF Delivery!vars
<1>5. CASE <<g, e>> \notin processed /\ MarkAndApply(g, e)
  <2>1. effects[g][e] = 0
    BY <1>1, <1>5 DEF PInv, ConsumerInv, EffectsOnce
  <2>2. effects' = [effects EXCEPT ![g][e] = 1]
    BY <1>5, <2>1 DEF MarkAndApply, Effect
  <2>3. Delivery!Act(g, e)
    BY <1>1, <1>2, <2>1, <2>2 DEF Delivery!Act
  <2> QED BY <1>1, <2>3
<1> QED BY <1>3, <1>4, <1>5 DEF MarkAndApply, inboxVars

\* PublishBatch, markFailed and ProcessOnce, with every crash, redelivery and repeated
\* publish around them, do what EventDelivery promises and nothing else.
THEOREM PipelineImplementsDelivery == Spec => ImplementsDelivery
<1>1. Init => Delivery!Init
  <2> SUFFICES ASSUME Init PROVE Delivery!Init
    OBVIOUS
  <2>1. Logged = {}
    BY DEF Init, Logged
  <2> QED BY <2>1 DEF Init, Delivery!Init
<1>2. ASSUME PInv, [Next]_vars PROVE [Delivery!Next]_(Delivery!vars)
  <2>1. CASE UNCHANGED <<outboxVars, log, inboxVars>> \/ UNCHANGED vars
    BY <2>1 DEF Delivery!vars, outboxVars, inboxVars, vars, Logged
  <2>2. ASSUME NEW e \in Events, WriteTx(e) PROVE Delivery!Next
    <3>1. Delivery!Write(e)
      BY <2>2 DEF WriteTx, Delivery!Write, Logged, inboxVars
    <3> QED BY <3>1 DEF Delivery!Next
  <2>3. ASSUME NEW e \in Events, BackoffElapses(e) PROVE UNCHANGED Delivery!vars
    BY <2>3 DEF BackoffElapses, Delivery!vars, Logged, inboxVars
  <2>4. ASSUME NEW r \in Relays, RelayStep(r) \/ RelayCrash(r)
        PROVE  [Delivery!Next]_(Delivery!vars)
    <3>1. CASE Claim(r)
      BY <2>1, <3>1 DEF Claim
    <3>2. CASE Publish(r) \/ PublishFails(r)
      BY <1>2, <3>2, PublishTells DEF Delivery!Next
    <3>3. CASE CommitBatch(r)
      BY <1>2, <3>3, BatchSettles DEF Delivery!Next
    <3>4. CASE RelayCrash(r)
      BY <3>4 DEF RelayCrash, KeepRows, Delivery!vars, Logged, inboxVars
    <3> QED BY <2>4, <3>1, <3>2, <3>3, <3>4 DEF RelayStep
  <2>5. ASSUME NEW g \in Groups, ConsumerStep(g) \/ ConsumerCrash(g) \/ Shutdown(g)
        PROVE  [Delivery!Next]_(Delivery!vars)
    <3>1. CASE ProcessOnce(g) \/ ProcessFails(g)
      BY <1>2, <3>1, AttemptActs DEF Delivery!Next
    <3>2. CASE \/ Fetch(g) \/ deadLetter(g) \/ CommitMessages(g)
               \/ ConsumerCrash(g) \/ Shutdown(g)
      <4>1. UNCHANGED <<outboxVars, log, inboxVars>>
        BY <3>2 DEF Fetch, deadLetter, CommitMessages, ConsumerCrash, Shutdown, Rejoin
      <4> QED BY <2>1, <4>1
    <3> QED BY <2>5, <3>1, <3>2 DEF ConsumerStep
  <2> QED BY <1>2, <2>1, <2>2, <2>3, <2>4, <2>5 DEF Next
<1>3. PInv /\ [Next]_vars => [Delivery!Next]_(Delivery!vars)
  BY <1>2
<1> QED BY <1>1, <1>3, PInvHolds, PTL DEF Spec, ImplementsDelivery, Delivery!Spec

-----------------------------------------------------------------------------
(* When the two claims of the code's comments that fail in general do hold. *)

\* With a dead-letter topic that is always reachable and no shutdown in the middle of a
\* message, nothing is given up.
LEMMA NothingGivenUp ==
  ASSUME {"dlq_error", "shutdown"} \cap Faults = {}
  PROVE  Spec => [](gaveUp = {})
<1>1. Init => gaveUp = {}
  BY DEF Init
<1>2. gaveUp = {} /\ [Next]_vars => (gaveUp = {})'
  <2> SUFFICES ASSUME gaveUp = {}, [Next]_vars PROVE gaveUp' = {}
    OBVIOUS
  <2>1. ASSUME NEW e \in Events, WriteTx(e) \/ BackoffElapses(e) PROVE gaveUp' = {}
    BY <2>1 DEF WriteTx, BackoffElapses
  <2>2. ASSUME NEW r \in Relays, RelayStep(r) \/ RelayCrash(r) PROVE gaveUp' = {}
    BY <2>2 DEF RelayStep, RelayCrash, Claim, Publish, PublishFails, CommitBatch
  <2>3. ASSUME NEW g \in Groups, ConsumerStep(g) \/ ConsumerCrash(g) \/ Shutdown(g)
        PROVE  gaveUp' = {}
    BY <2>3 DEF ConsumerStep, Fetch, ProcessOnce, ProcessFails, deadLetter, CommitMessages,
                ConsumerCrash, Shutdown, Fault
  <2>4. QED
    BY <2>1, <2>2, <2>3 DEF Next, vars
<1>3. QED
  BY <1>1, <1>2, PTL DEF Spec

\* "the message is preserved for inspection/replay" (consumer.go:129) is true as long as
\* the dead-letter publish succeeds and no SIGTERM comes while a message is processed:
\* crashes, failing effects, lost answers and failing offset commits lose nothing.
THEOREM PreservedWithoutOutage ==
  ASSUME {"dlq_error", "shutdown"} \cap Faults = {}
  PROVE  Spec => []Preserved
<1>1. NothingSkipped /\ gaveUp = {} => Preserved
  BY DEF NothingSkipped, Preserved
<1>2. QED
  BY <1>1, NoMessageSkipped, NothingGivenUp, PTL

\* A relay that is alone and never refused leaves no gap: every event before one it has
\* in hand is in hand too or in the topic.
NoGap ==
  /\ \A e \in Events : due[e] /\ row[e] # "dead"
  /\ \A r \in Relays : failed[r] = {}
  /\ \A e, f \in Events : Precedes(f, e) /\ row[e] # "absent" => row[f] # "absent"
  /\ \A r \in Relays : \A e \in todo[r] : \A f \in Events :
       Precedes(f, e) => f \in todo[r] \/ f \in Logged

\* The rows a batch takes are the oldest: it skips none that comes before one of them.
LEMMA OldestFirst ==
  ASSUME NEW S \in SUBSET Nat, NEW n \in Nat, NEW e \in Oldest(S, n), NEW f \in S, f < e
  PROVE  f \in Oldest(S, n)
<1> DEFINE Older(x) == {g \in S : g < x}
<1>1. e \in S /\ Cardinality(Older(e)) < n
  BY DEF Oldest
<1>2. IsFiniteSet(Older(e)) /\ Cardinality(Older(e)) \in Nat
  <2>1. Older(e) \in SUBSET Nat /\ e \in Nat
    BY <1>1
  <2>2. \A x \in Nat : x < e => x <= e
    BY <2>1
  <2>3. \A x \in Older(e) : x <= e
    BY <2>1, <2>2
  <2>4. QED
    BY <2>1, <2>3, FS_BoundedSetOfNaturals, FS_CardinalityType
<1>3. Older(f) \in SUBSET Older(e)
  <2>1. e \in Nat /\ f \in Nat
    BY <1>1
  <2>2. \A x \in Nat : x < f => x < e
    BY <2>1
  <2>3. QED
    BY <2>2
<1>4. IsFiniteSet(Older(f)) /\ Cardinality(Older(f)) <= Cardinality(Older(e))
  BY <1>2, <1>3, FS_Subset
<1>5. Cardinality(Older(f)) \in Nat
  BY <1>4, FS_CardinalityType
<1>6. Cardinality(Older(f)) < n
  BY <1>1, <1>2, <1>4, <1>5
<1>7. QED
  BY <1>6 DEF Oldest

\* What a claim, a publish and a commit of the batch do to the order.
LEMMA OrderedClaim ==
  ASSUME PInv, NoGap, NEW r \in Relays, \A q \in Relays : q = r, Claim(r)
  PROVE  NoGap'
<1>1. /\ row' = row /\ due' = due /\ log' = log /\ failed' = failed /\ Batch(r) = {}
      /\ todo' = [todo EXCEPT ![r] = Oldest(Claimable, BatchSize)]
  BY DEF Claim, outboxVars
<1>2. Claimable \in SUBSET Nat /\ Claimable \subseteq Events /\ BatchSize \in Nat
  BY PipelineAssumption DEF Claimable
<1>3. todo'[r] = Oldest(Claimable, BatchSize)
  BY <1>1 DEF PInv, TypeOK
<1>4. ASSUME NEW e \in todo'[r], NEW f \in Events, Precedes(f, e)
      PROVE  f \in todo'[r] \/ f \in Logged
  <2>1. e \in Claimable
    BY <1>3, <1>4 DEF Oldest
  <2>2. row[e] = "pending" /\ e \in Events
    BY <2>1 DEF Claimable
  <2>3. row[f] \in {"pending", "published"}
    <3>1. row[f] \in {"absent", "pending", "published", "dead"}
      BY DEF PInv, TypeOK
    <3>2. QED
      BY <1>4, <2>2, <3>1 DEF NoGap
  <2>4. CASE row[f] = "published"
    BY <2>4 DEF PInv, OutboxInv, MarkedImpliesLogged
  <2>5. CASE row[f] = "pending"
    <3>1. f \in Claimable
      BY <1>1, <2>5 DEF Claimable, Unclaimed, NoGap
    <3>2. f \in Oldest(Claimable, BatchSize)
      BY <1>2, <1>3, <1>4, <3>1, OldestFirst DEF Precedes
    <3>3. QED
      BY <1>3, <3>2
  <2>6. QED
    BY <2>3, <2>4, <2>5
<1>5. QED
  BY <1>1, <1>4 DEF NoGap, Logged

\* The next publish is the oldest event of the batch, so its predecessors are in the topic.
LEMMA OrderedPublish ==
  ASSUME PInv, NoGap, AggregateOrder, "publish_error" \notin Faults, NEW r \in Relays,
         Publish(r)
  PROVE  NoGap' /\ AggregateOrder'
<1> DEFINE e == First(todo[r])
<1>1. todo[r] # {} /\ todo[r] \subseteq Nat /\ todo[r] \subseteq Events
  BY PipelineAssumption DEF PInv, TypeOK, Publish
<1>2. e \in Events /\ e \in todo[r] /\ \A f \in todo[r] : e <= f
  BY <1>1, LeastExists
<1>3. /\ row' = row /\ due' = due /\ failed' = failed /\ log' = Append(log, e)
      /\ todo' = [todo EXCEPT ![r] = todo[r] \ {e}]
  BY DEF Publish, Fault, outboxVars
<1> HIDE DEF e
<1>4. /\ log \in Seq(Events) /\ Len(log) \in Nat
      /\ DOMAIN log = 1 .. Len(log) /\ DOMAIN log' = 1 .. Len(log) + 1
      /\ \A i \in 1 .. Len(log) : log'[i] = log[i]
      /\ log'[Len(log) + 1] = e
  BY <1>2, <1>3, MessageAdded DEF PInv, TypeOK
<1>5. e \in Logged' /\ Logged \subseteq Logged'
  BY <1>4 DEF Logged
<1>6. ASSUME NEW f \in Events, Precedes(f, e) PROVE f \in Logged
  <2>1. f \in Nat /\ e \in Nat /\ f < e
    BY <1>2, <1>6, PipelineAssumption DEF Precedes
  <2>2. f \notin todo[r]
    BY <1>2, <2>1
  <2>3. QED
    BY <1>2, <1>6, <2>2 DEF NoGap
<1>7. NoGap'
  <2>1. ASSUME NEW q \in Relays, NEW g \in todo'[q], NEW f \in Events, Precedes(f, g)
        PROVE  f \in todo'[q] \/ f \in Logged'
    <3>1. g \in todo[q] /\ (f \in todo'[q] \/ f = e \/ f \notin todo[q])
      BY <1>3, <2>1 DEF PInv, TypeOK
    <3>2. QED
      BY <1>5, <2>1, <3>1 DEF NoGap
  <2>2. QED
    BY <1>3, <2>1 DEF NoGap
<1>8. AggregateOrder'
  <2>1. SUFFICES ASSUME NEW i \in 1 .. Len(log) + 1, NEW f \in Events, Precedes(f, log'[i])
                 PROVE  \E j \in 1 .. i : log'[j] = f
    BY <1>4 DEF AggregateOrder
  <2>2. CASE i \in 1 .. Len(log)
    <3>1. PICK j \in 1 .. i : log[j] = f
      BY <1>4, <2>1, <2>2 DEF AggregateOrder
    <3>2. log'[j] = f
      BY <1>4, <2>2, <3>1
    <3>3. QED
      BY <3>2
  <2>3. CASE i = Len(log) + 1
    <3>1. f \in Logged
      BY <1>4, <1>6, <2>1, <2>3
    <3>2. PICK j \in 1 .. Len(log) : log[j] = f
      BY <1>4, <3>1 DEF Logged
    <3>3. j \in 1 .. i /\ log'[j] = f
      BY <1>4, <2>3, <3>2
    <3>4. QED
      BY <3>3
  <2>4. QED
    BY <1>4, <2>2, <2>3
<1>9. QED
  BY <1>7, <1>8

\* A batch that ends leaves its rows published or pending, none of them put off.
LEMMA OrderedBatch ==
  ASSUME PInv, NoGap, NEW r \in Relays, CommitBatch(r) \/ RelayCrash(r)
  PROVE  NoGap'
<1>1. log' = log /\ \A q \in Relays : todo'[q] \subseteq todo[q] /\ failed'[q] = {}
                                  /\ todo'[q] \in {{}, todo[q]}
  BY DEF CommitBatch, RelayCrash, PInv, TypeOK, NoGap
<1>2. \A e \in Events : due'[e] /\ row'[e] # "dead" /\ (row'[e] = "absent" <=> row[e] = "absent")
  <2>1. CASE RelayCrash(r)
    BY <2>1 DEF RelayCrash, KeepRows, NoGap
  <2>2. CASE CommitBatch(r)
    <3>1. failed[r] = {} /\ \A e \in sent[r] : row[e] = "pending"
      BY DEF NoGap, PInv, OutboxInv, BatchesOK, Batch
    <3>2. QED
      BY <2>2, <3>1 DEF CommitBatch, NoGap
  <2>3. QED
    BY <2>1, <2>2
<1>3. QED
  BY <1>1, <1>2 DEF NoGap, Logged

\* "preserving their order" (kafka.go:43) is true of one relay whose publishes succeed:
\* ORDER BY id and the loop over the batch keep the events of an aggregate in order, for
\* any batch size and whatever crashes make it publish again.
THEOREM OrderedWithoutRefusals ==
  ASSUME \A r, q \in Relays : r = q, Poison = {}, "publish_error" \notin Faults
  PROVE  Spec => []AggregateOrder
<1>1. Init => NoGap /\ AggregateOrder
  BY DEF Init, NoGap, AggregateOrder
<1>2. PInv /\ NoGap /\ AggregateOrder /\ [Next]_vars => (NoGap /\ AggregateOrder)'
  <2> SUFFICES ASSUME PInv, NoGap, AggregateOrder, [Next]_vars
               PROVE  NoGap' /\ AggregateOrder'
    OBVIOUS
  <2>1. ASSUME UNCHANGED <<outboxVars, relayVars, log>>
        PROVE  NoGap' /\ AggregateOrder'
    BY <2>1 DEF NoGap, AggregateOrder, Logged, outboxVars, relayVars
  <2>2. ASSUME NEW g \in Groups, ConsumerStep(g) \/ ConsumerCrash(g) \/ Shutdown(g)
        PROVE  UNCHANGED <<outboxVars, relayVars, log>>
    BY <2>2 DEF ConsumerStep, Fetch, ProcessOnce, ProcessFails, deadLetter, CommitMessages,
                ConsumerCrash, Shutdown, Rejoin
  <2>3. ASSUME NEW e \in Events, WriteTx(e) \/ BackoffElapses(e)
        PROVE  NoGap' /\ AggregateOrder'
    <3>1. CASE WriteTx(e)
      BY <3>1 DEF WriteTx, NoGap, AggregateOrder, Logged, relayVars, PInv, TypeOK
    <3>2. CASE BackoffElapses(e)
      BY <3>2 DEF BackoffElapses, NoGap
    <3>3. QED
      BY <2>3, <3>1, <3>2
  <2>4. ASSUME NEW r \in Relays, Claim(r) \/ CommitBatch(r) \/ RelayCrash(r)
        PROVE  NoGap' /\ AggregateOrder'
    <3>1. log' = log
      BY <2>4 DEF Claim, CommitBatch, RelayCrash
    <3>2. QED
      BY <2>4, <3>1, OrderedClaim, OrderedBatch DEF AggregateOrder
  <2>5. ASSUME NEW r \in Relays, PublishFails(r) PROVE FALSE
    BY <2>5 DEF PublishFails, Fault
  <2>6. QED
    BY <2>1, <2>2, <2>3, <2>4, <2>5, OrderedPublish DEF Next, RelayStep, vars
<1>3. QED
  BY <1>1, <1>2, PInvHolds, PTL DEF Spec

-----------------------------------------------------------------------------
(* Every consumer catches up.                                               *)

\* What a group has before it: the steps left on the message in hand, and at most six for
\* every message it has not fetched.
InHandLeft(at, tried) ==
  CASE at = "fetch" -> 0
    [] at = "commit" -> 1
    [] at = "deadletter" -> 2
    [] at = "process" -> 2 + maxAttempts - tried
Backlog(g) == 6 * (Len(log) - pos[g]) + InHandLeft(stage[g], tries[g])

\* No message takes a group more than six steps.
BacklogBounded == \A g \in Groups : Backlog(g) \in 0 .. 6 * Len(log)

\* Each step of Run and process() shortens a group's backlog, and only a new message or
\* a failure that makes it start over lengthens it.
CatchesUp ==
  [][\A g \in Groups :
       /\ ConsumerStep(g) => Backlog(g)' < Backlog(g)
       /\ Backlog(g)' > Backlog(g) => Len(log') > Len(log) \/ faults' > faults]_vars

\* The steps left on the message in hand, stage by stage.
LEMMA InHandCounted ==
  ASSUME NEW tried \in 0 .. 3
  PROVE  /\ InHandLeft("fetch", tried) = 0
         /\ InHandLeft("commit", tried) = 1
         /\ InHandLeft("deadletter", tried) = 2
         /\ InHandLeft("process", tried) = 5 - tried
BY DEF InHandLeft, maxAttempts

\* The backlog from its parts.
LEMMA BacklogCounted ==
  ASSUME NEW n \in Nat, NEW p \in 0 .. n, NEW tried \in 0 .. 3,
         NEW at \in {"fetch", "process", "deadletter", "commit"},
         at # "fetch" => p >= 1
  PROVE  /\ 6 * (n - p) + InHandLeft(at, tried) \in 0 .. 6 * n
         /\ 6 * (n - p) + InHandLeft(at, tried) \in Nat
<1>1. CASE at = "fetch"
  BY <1>1, InHandCounted
<1>2. CASE at # "fetch"
  <2>1. InHandLeft(at, tried) \in 0 .. 5
    BY <1>2, InHandCounted
  <2>2. QED
    BY <1>2, <2>1
<1>3. QED
  BY <1>1, <1>2

\* The bound, from the reader's positions and the retry budget.
LEMMA BacklogTyped == PInv => BacklogBounded /\ \A g \in Groups : Backlog(g) \in Nat
<1> SUFFICES ASSUME PInv, NEW g \in Groups
             PROVE  Backlog(g) \in 0 .. 6 * Len(log) /\ Backlog(g) \in Nat
  BY DEF BacklogBounded
<1>1. /\ Len(log) \in Nat /\ pos[g] \in 0 .. Len(log) /\ tries[g] \in 0 .. 3
      /\ stage[g] \in {"fetch", "process", "deadletter", "commit"}
  BY DEF PInv, TypeOK, maxAttempts
<1>2. stage[g] # "fetch" => pos[g] >= 1
  BY DEF PInv, ConsumerInv, ReadersOK
<1>3. QED
  BY <1>1, <1>2, BacklogCounted DEF Backlog

\* The same in the next state.
LEMMA BacklogTypedNext == PInv' => \A g \in Groups : Backlog(g)' \in Nat
<1> DEFINE Counted == \A g \in Groups : Backlog(g) \in Nat
<1>1. PInv => Counted
  BY BacklogTyped
<1>2. PInv' => Counted'
  BY <1>1, PTL
<1>3. QED
  BY <1>2

\* A step of the group's own loop.
LEMMA ConsumerShortens ==
  ASSUME PInv, NEW g \in Groups, ConsumerStep(g)
  PROVE  Backlog(g)' < Backlog(g)
<1>1. /\ Len(log) \in Nat /\ pos[g] \in 0 .. Len(log) /\ log' = log
      /\ tries[g] \in 0 .. 3 /\ (stage[g] = "process" => tries[g] < 3)
  BY DEF PInv, TypeOK, ConsumerInv, ReadersOK, maxAttempts, ConsumerStep, Fetch, ProcessOnce,
     ProcessFails, deadLetter, CommitMessages
<1>2. CASE Fetch(g)
  <2>1. pos'[g] = pos[g] + 1 /\ tries'[g] = 0 /\ stage[g] = "fetch" /\ stage'[g] = "process"
    BY <1>2 DEF Fetch, Stage, PInv, TypeOK
  <2>2. QED
    BY <1>1, <2>1, InHandCounted DEF Backlog
<1>3. CASE ProcessOnce(g)
  <2>1. pos' = pos /\ tries' = tries /\ stage[g] = "process" /\ stage'[g] = "commit"
    BY <1>3 DEF ProcessOnce, Stage, PInv, TypeOK
  <2>2. QED
    BY <1>1, <2>1, InHandCounted DEF Backlog
<1>4. CASE ProcessFails(g)
  <2>1. /\ pos' = pos /\ tries'[g] = tries[g] + 1 /\ stage[g] = "process"
        /\ stage'[g] = IF tries[g] + 1 < 3 THEN "process" ELSE "deadletter"
    BY <1>4 DEF ProcessFails, Stage, PInv, TypeOK, maxAttempts
  <2>2. /\ tries[g] + 1 \in 0 .. 3
        /\ InHandLeft("process", tries[g]) = 5 - tries[g]
        /\ InHandLeft("process", tries[g] + 1) = 5 - (tries[g] + 1)
        /\ InHandLeft("deadletter", tries[g] + 1) = 2
    BY <1>1, <2>1, InHandCounted
  <2>3. QED
    BY <1>1, <2>1, <2>2 DEF Backlog
<1>5. CASE deadLetter(g)
  <2>1. pos' = pos /\ tries' = tries /\ stage[g] = "deadletter" /\ stage'[g] = "commit"
    BY <1>5 DEF deadLetter, Stage, PInv, TypeOK
  <2>2. QED
    BY <1>1, <2>1, InHandCounted DEF Backlog
<1>6. CASE CommitMessages(g)
  <2>1. pos' = pos /\ tries' = tries /\ stage[g] = "commit" /\ stage'[g] = "fetch"
    BY <1>6 DEF CommitMessages, Stage, PInv, TypeOK
  <2>2. QED
    BY <1>1, <2>1, InHandCounted DEF Backlog
<1>7. QED
  BY <1>2, <1>3, <1>4, <1>5, <1>6 DEF ConsumerStep

\* What lengthens the backlog.
LEMMA BacklogGrows ==
  ASSUME PInv, Next, NEW g \in Groups
  PROVE  \/ Backlog(g)' <= Backlog(g)
         \/ Len(log') > Len(log) \/ faults' > faults
<1>1. faults \in Nat /\ log \in Seq(Events) /\ Backlog(g) \in Int
  <2>1. Backlog(g) \in Nat
    BY BacklogTyped
  <2>2. QED
    BY <2>1 DEF PInv, TypeOK
<1>2. ASSUME UNCHANGED <<log, readerVars>> PROVE Backlog(g)' <= Backlog(g)
  <2>1. Backlog(g)' = Backlog(g)
    BY <1>2 DEF Backlog, readerVars
  <2>2. QED
    BY <1>1, <2>1
<1>3. ASSUME NEW e \in Events, WriteTx(e) \/ BackoffElapses(e)
      PROVE  UNCHANGED <<log, readerVars>>
  BY <1>3 DEF WriteTx, BackoffElapses
<1>4. ASSUME NEW r \in Relays, Claim(r) \/ CommitBatch(r)
      PROVE  UNCHANGED <<log, readerVars>>
  BY <1>4 DEF Claim, CommitBatch
<1>5. ASSUME NEW kind, Fault(kind) PROVE faults' > faults
  BY <1>1, <1>5 DEF Fault
<1>6. ASSUME NEW r \in Relays, RelayCrash(r) \/ PublishFails(r)
      PROVE  faults' > faults \/ UNCHANGED <<log, readerVars>>
  BY <1>5, <1>6 DEF RelayCrash, PublishFails
<1>7. ASSUME NEW r \in Relays, Publish(r)
      PROVE  faults' > faults \/ Len(log') > Len(log)
  <2>1. First(todo[r]) \in Events
    <3>1. todo[r] # {} /\ todo[r] \subseteq Nat /\ todo[r] \subseteq Events
      BY <1>7, PipelineAssumption DEF PInv, TypeOK, Publish
    <3>2. QED
      BY <3>1, LeastExists
  <2>2. CASE log' = Append(log, First(todo[r]))
    BY <1>1, <2>1, <2>2, MessageAdded
  <2>3. QED
    BY <1>5, <1>7, <2>2 DEF Publish
<1>8. ASSUME NEW h \in Groups, ConsumerCrash(h) \/ Shutdown(h) PROVE faults' > faults
  BY <1>5, <1>8 DEF ConsumerCrash, Shutdown
<1>9. ASSUME NEW h \in Groups, ConsumerStep(h)
      PROVE  Backlog(g)' <= Backlog(g)
  <2>1. CASE h = g
    <3>1. PInv'
      BY PInvNext
    <3>2. Backlog(g)' < Backlog(g)
      BY <1>9, <2>1, ConsumerShortens
    <3>3. Backlog(g)' \in Int
      <4>1. Backlog(g)' \in Nat
        BY <3>1, BacklogTypedNext
      <4>2. QED
        BY <4>1
    <3>4. QED
      BY <1>1, <3>2, <3>3
  <2>2. CASE h # g
    <3>1. /\ log' = log /\ pos'[g] = pos[g] /\ stage'[g] = stage[g] /\ tries'[g] = tries[g]
      BY <1>9, <2>2 DEF ConsumerStep, Fetch, ProcessOnce, ProcessFails, deadLetter,
         CommitMessages, Stage, PInv, TypeOK
    <3>2. Backlog(g)' = Backlog(g)
      BY <3>1 DEF Backlog
    <3>3. QED
      BY <1>1, <3>2
  <2>3. QED
    BY <2>1, <2>2
<1>10. QED
  BY <1>2, <1>3, <1>4, <1>6, <1>7, <1>8, <1>9 DEF Next, RelayStep

\* A group never has more than six steps before it for each message in the topic:
\* maxAttempts bounds what a failing message costs.
THEOREM BacklogIsBounded == Spec => []BacklogBounded
BY BacklogTyped, PInvHolds, PTL

\* Run never goes round in circles: each of its steps shortens the backlog, whatever the
\* message and its outcome, and a group falls back only by a failure.
THEOREM ConsumersCatchUp == Spec => CatchesUp
<1>1. PInv /\ [Next]_vars =>
        [\A g \in Groups :
           /\ ConsumerStep(g) => Backlog(g)' < Backlog(g)
           /\ Backlog(g)' > Backlog(g) => Len(log') > Len(log) \/ faults' > faults]_vars
  <2>1. ASSUME PInv, Next, NEW g \in Groups
        PROVE  /\ ConsumerStep(g) => Backlog(g)' < Backlog(g)
               /\ Backlog(g)' > Backlog(g) => Len(log') > Len(log) \/ faults' > faults
    <3>1. PInv'
      BY <2>1, PInvNext
    <3>2. Backlog(g) \in Nat /\ Backlog(g)' \in Nat
      BY <2>1, <3>1, BacklogTyped, BacklogTypedNext
    <3>3. QED
      BY <2>1, <3>2, ConsumerShortens, BacklogGrows
  <2>2. QED
    BY <2>1
<1>2. QED
  BY <1>1, PInvHolds, PTL DEF Spec, CatchesUp

=============================================================================
