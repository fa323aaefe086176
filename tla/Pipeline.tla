------------------------------ MODULE Pipeline ------------------------------
(***************************************************************************)
(* The event pipeline of CrisisLink: the transactional outbox, the relay   *)
(* processes that publish it to Kafka, and the consumer groups that turn   *)
(* the messages into notifications and audit rows behind an inbox.         *)
(*                                                                         *)
(* A relay claims a batch of rows under FOR UPDATE SKIP LOCKED, publishes  *)
(* them one by one and records the outcomes in the same transaction: until *)
(* it commits they are the relay's own (sent, failed), and a crash or a    *)
(* database error forgets them.  The topic has one partition.  A publish   *)
(* that reports an error may have reached the broker all the same.         *)
(*                                                                         *)
(* A consumer group has one member.  Its transaction inserts the inbox     *)
(* marker and runs the side effect; the marker's primary key makes         *)
(* concurrent attempts wait for each other, so ProcessOnce is one action.  *)
(* A COMMIT whose answer is lost reports an error after taking effect.     *)
(***************************************************************************)
EXTENDS Integers, Sequences, FiniteSets

CONSTANTS
  Events,     \* outbox ids, in the order of the BIGSERIAL
  Aggregate,  \* the aggregate each event is about
  Poison,     \* events the broker never accepts
  Failing,    \* events whose side effect always fails
  Relays,     \* relay processes
  BatchSize,  \* rows a relay claims at a time
  Groups,     \* consumer groups
  Faults,     \* the kinds of failure this instance admits
  MaxFaults   \* bound on the failures of a behaviour

MaxPublishAttempts == 5
maxAttempts == 3

AllFaults == {"relay_crash", "publish_error", "consumer_crash", "effect_error",
              "dlq_error", "commit_error", "shutdown"}

ASSUME PipelineAssumption ==
  /\ Events \subseteq Nat
  /\ Poison \subseteq Events /\ Failing \subseteq Events
  /\ BatchSize \in Nat \ {0}
  /\ Groups \subseteq {"notifier", "auditor"}
  /\ Faults \subseteq AllFaults
  /\ MaxFaults \in Nat

VARIABLES
  row,       \* outbox_events: "absent", "pending", "published" or "dead"
  attempts,  \* outbox_events.attempts
  due,       \* outbox_events.next_attempt_at has passed
  todo, sent, failed, \* each relay's batch: to publish, published, refused
  log,       \* the topic
  pos,       \* messages each group's reader has fetched since it joined
  offset,    \* messages each group has committed
  stage,     \* what each consumer does with the message in hand
  tries,     \* processing attempts on it
  processed, \* processed_events: the inbox
  effects,   \* notifications and audit_log: rows per event
  dlq,       \* dead-lettered messages, with the group that gave up
  gaveUp,    \* messages process() returned from with nothing done
  faults     \* failures so far

outboxVars == <<row, attempts, due>>
relayVars  == <<todo, sent, failed>>
readerVars == <<pos, offset, stage, tries>>
inboxVars  == <<processed, effects>>
vars == <<outboxVars, relayVars, log, readerVars, inboxVars, dlq, gaveUp, faults>>

Fault(kind) ==
  /\ kind \in Faults
  /\ faults < MaxFaults
  /\ faults' = faults + 1

-----------------------------------------------------------------------------
(* The outbox.                                                              *)

Precedes(f, e) == f < e /\ Aggregate[f] = Aggregate[e]

\* A domain transaction commits its event.  Transactions on the same aggregate
\* hold its row lock when they draw the id, so its events commit in id order.
WriteTx(e) ==
  /\ row[e] = "absent"
  /\ \A f \in Events : Precedes(f, e) => row[f] # "absent"
  /\ row' = [row EXCEPT ![e] = "pending"]
  /\ UNCHANGED <<attempts, due, relayVars, log, readerVars, inboxVars, dlq, gaveUp, faults>>

\* The backoff of a failed row runs out.
BackoffElapses(e) ==
  /\ ~due[e]
  /\ due' = [due EXCEPT ![e] = TRUE]
  /\ UNCHANGED <<row, attempts, relayVars, log, readerVars, inboxVars, dlq, gaveUp, faults>>

-----------------------------------------------------------------------------
(* The relay.                                                               *)

First(S) == CHOOSE e \in S : \A f \in S : e <= f
Oldest(S, n) == {e \in S : Cardinality({f \in S : f < e}) < n}

Batch(r) == todo[r] \cup sent[r] \cup failed[r]

NotSkipped(e) == TRUE \* mutant: the SELECT without FOR UPDATE SKIP LOCKED
Unclaimed(e) == \A r \in Relays : e \notin Batch(r)

Claimable == {e \in Events : row[e] = "pending" /\ due[e] /\ Unclaimed(e)}

\* SELECT .. ORDER BY id LIMIT n FOR UPDATE SKIP LOCKED.
Claim(r) ==
  /\ Batch(r) = {}
  /\ Claimable # {}
  /\ todo' = [todo EXCEPT ![r] = Oldest(Claimable, BatchSize)]
  /\ UNCHANGED <<outboxVars, sent, failed, log, readerVars, inboxVars, dlq, gaveUp, faults>>

\* Acknowledged by the broker, perhaps after the Kafka writer's own retry of a
\* write whose acknowledgement was lost.
Publish(r) ==
  LET e == First(todo[r]) IN
  /\ todo[r] # {}
  /\ e \notin Poison
  /\ \/ log' = Append(log, e) /\ UNCHANGED faults
     \/ Fault("publish_error") /\ log' = Append(Append(log, e), e)
  /\ todo' = [todo EXCEPT ![r] = todo[r] \ {e}]
  /\ sent' = [sent EXCEPT ![r] = sent[r] \cup {e}]
  /\ UNCHANGED <<outboxVars, failed, readerVars, inboxVars, dlq, gaveUp>>

\* mutant: the first failure aborts the batch and nothing is recorded
AbortBatch(r) ==
  /\ todo[r] # {} /\ First(todo[r]) \in Poison
  /\ todo' = [todo EXCEPT ![r] = {}]
  /\ sent' = [sent EXCEPT ![r] = {}]
  /\ failed' = [failed EXCEPT ![r] = {}]
  /\ UNCHANGED <<outboxVars, log, readerVars, inboxVars, dlq, gaveUp, faults>>
\* The failure is recorded on the row, and the batch goes on.
PublishFails(r) ==
  LET e == First(todo[r]) IN
  /\ todo[r] # {}
  /\ \/ e \in Poison /\ UNCHANGED <<log, faults>>
     \/ e \notin Poison /\ Fault("publish_error") /\ log' \in {log, Append(log, e)}
  /\ todo' = [todo EXCEPT ![r] = todo[r] \ {e}]
  /\ failed' = [failed EXCEPT ![r] = failed[r] \cup {e}]
  /\ UNCHANGED <<outboxVars, sent, readerVars, inboxVars, dlq, gaveUp>>

NoGiveUp(e) == "pending" \* mutant: no retry budget
\* mutant: compared before the attempt is counted
OneTooMany(e) == IF attempts[e] >= MaxPublishAttempts THEN "dead" ELSE "pending"
\* markFailed: one more attempt, then the backoff or the end.
markFailed(e) == IF attempts[e] + 1 >= MaxPublishAttempts THEN "dead" ELSE "pending"

\* The outcomes of the batch become visible.
CommitBatch(r) ==
  /\ todo[r] = {} /\ Batch(r) # {}
  /\ row' = [e \in Events |-> CASE e \in sent[r] -> "published"
                                [] e \in failed[r] -> markFailed(e)
                                [] OTHER -> row[e]]
  /\ attempts' = [e \in Events |-> IF e \in failed[r] THEN attempts[e] + 1 ELSE attempts[e]]
  /\ due' = [e \in Events |-> IF e \in failed[r] THEN FALSE ELSE due[e]]
  /\ sent' = [sent EXCEPT ![r] = {}]
  /\ failed' = [failed EXCEPT ![r] = {}]
  /\ UNCHANGED <<todo, log, readerVars, inboxVars, dlq, gaveUp, faults>>

\* mutant: rows marked published before the batch is over
MarkFirst(r) == row' = [e \in Events |-> IF e \in Batch(r) THEN "published" ELSE row[e]]
\* A crash, a shutdown or a database error rolls the batch back.
KeepRows(r) == UNCHANGED row

RelayCrash(r) ==
  /\ Batch(r) # {}
  /\ Fault("relay_crash")
  /\ KeepRows(r)
  /\ todo' = [todo EXCEPT ![r] = {}]
  /\ sent' = [sent EXCEPT ![r] = {}]
  /\ failed' = [failed EXCEPT ![r] = {}]
  /\ UNCHANGED <<attempts, due, log, readerVars, inboxVars, dlq, gaveUp>>

-----------------------------------------------------------------------------
(* The consumers.                                                           *)

\* The message in hand.
Message(g) == log[pos[g]]

Stage(g, s) == stage' = [stage EXCEPT ![g] = s]

\* mutant: the offset committed before the message is dealt with
FetchAndCommit(g) ==
  /\ stage[g] = "fetch"
  /\ pos[g] < Len(log)
  /\ pos' = [pos EXCEPT ![g] = pos[g] + 1]
  /\ offset' = pos'
  /\ tries' = [tries EXCEPT ![g] = 0]
  /\ Stage(g, "process")
  /\ UNCHANGED <<outboxVars, relayVars, log, inboxVars, dlq, gaveUp, faults>>
Fetch(g) ==
  /\ stage[g] = "fetch"
  /\ pos[g] < Len(log)
  /\ pos' = [pos EXCEPT ![g] = pos[g] + 1]
  /\ tries' = [tries EXCEPT ![g] = 0]
  /\ Stage(g, "process")
  /\ UNCHANGED <<offset, outboxVars, relayVars, log, inboxVars, dlq, gaveUp, faults>>

\* Rows an event's side effect leaves: the notifier appends, the auditor's
\* INSERT does nothing on a conflict on event_id.
Effect(g, n) == IF g = "auditor" THEN 1 ELSE n + 1

\* mutant: the side effect without the inbox
WithoutInbox(g, e) ==
  /\ processed' = processed \cup {<<g, e>>}
  /\ effects' = [effects EXCEPT ![g] = [effects[g] EXCEPT ![e] = Effect(g, effects[g][e])]]
\* ProcessOnce's transaction: the marker and the effect, or neither.
MarkAndApply(g, e) ==
  IF <<g, e>> \in processed THEN UNCHANGED inboxVars
  ELSE /\ processed' = processed \cup {<<g, e>>}
       /\ effects' = [effects EXCEPT ![g] = [effects[g] EXCEPT ![e] = Effect(g, effects[g][e])]]

ProcessOnce(g) ==
  /\ stage[g] = "process"
  /\ Message(g) \notin Failing
  /\ MarkAndApply(g, Message(g))
  /\ Stage(g, "commit")
  /\ UNCHANGED <<pos, offset, tries, outboxVars, relayVars, log, dlq, gaveUp, faults>>

\* An attempt fails, and is retried after a pause or gives up.
ProcessFails(g) ==
  /\ stage[g] = "process"
  /\ \/ Message(g) \in Failing /\ UNCHANGED <<inboxVars, faults>>
     \/ /\ Message(g) \notin Failing /\ Fault("effect_error")
        /\ UNCHANGED inboxVars \/ MarkAndApply(g, Message(g))
  /\ tries' = [tries EXCEPT ![g] = tries[g] + 1]
  /\ Stage(g, IF tries[g] + 1 < maxAttempts THEN "process" ELSE "deadletter")
  /\ UNCHANGED <<pos, offset, outboxVars, relayVars, log, dlq, gaveUp>>

deadLetter(g) ==
  /\ stage[g] = "deadletter"
  /\ \/ dlq' = dlq \cup {<<g, Message(g)>>} /\ UNCHANGED <<gaveUp, faults>>
     \/ /\ Fault("dlq_error")
        /\ gaveUp' = gaveUp \cup {<<g, Message(g)>>}
        /\ UNCHANGED dlq
  /\ Stage(g, "commit")
  /\ UNCHANGED <<pos, offset, tries, outboxVars, relayVars, log, inboxVars>>

\* CommitMessages; an error is logged and the reader goes on.
CommitMessages(g) ==
  /\ stage[g] = "commit"
  /\ \/ offset' = [offset EXCEPT ![g] = pos[g]] /\ UNCHANGED faults
     \/ Fault("commit_error") /\ UNCHANGED offset
  /\ Stage(g, "fetch")
  /\ UNCHANGED <<pos, tries, outboxVars, relayVars, log, inboxVars, dlq, gaveUp>>

\* The group's member stops and a new one resumes at the committed offset.
Rejoin(g) ==
  /\ Stage(g, "fetch")
  /\ pos' = [pos EXCEPT ![g] = offset'[g]]
  /\ UNCHANGED <<tries, outboxVars, relayVars, log, inboxVars, dlq>>

ConsumerCrash(g) ==
  /\ stage[g] # "fetch" \/ pos[g] # offset[g]
  /\ Fault("consumer_crash")
  /\ UNCHANGED <<offset, gaveUp>>
  /\ Rejoin(g)

\* SIGTERM cancels the context: the attempt fails, process() returns, and
\* CommitMessages, called with the cancelled context, may still take effect.
Shutdown(g) ==
  /\ stage[g] = "process"
  /\ Fault("shutdown")
  /\ \/ UNCHANGED <<offset, gaveUp>>
     \/ /\ offset' = [offset EXCEPT ![g] = pos[g]]
        /\ gaveUp' = gaveUp \cup {<<g, Message(g)>>}
  /\ Rejoin(g)

-----------------------------------------------------------------------------
Init ==
  /\ row = [e \in Events |-> "absent"]
  /\ attempts = [e \in Events |-> 0]
  /\ due = [e \in Events |-> TRUE]
  /\ todo = [r \in Relays |-> {}]
  /\ sent = [r \in Relays |-> {}]
  /\ failed = [r \in Relays |-> {}]
  /\ log = <<>>
  /\ pos = [g \in Groups |-> 0]
  /\ offset = [g \in Groups |-> 0]
  /\ stage = [g \in Groups |-> "fetch"]
  /\ tries = [g \in Groups |-> 0]
  /\ processed = {}
  /\ effects = [g \in Groups |-> [e \in Events |-> 0]]
  /\ dlq = {} /\ gaveUp = {}
  /\ faults = 0

RelayStep(r) == Claim(r) \/ Publish(r) \/ PublishFails(r) \/ CommitBatch(r)
ConsumerStep(g) ==
  Fetch(g) \/ ProcessOnce(g) \/ ProcessFails(g) \/ deadLetter(g) \/ CommitMessages(g)

Next ==
  \/ \E e \in Events : WriteTx(e) \/ BackoffElapses(e)
  \/ \E r \in Relays : RelayStep(r) \/ RelayCrash(r)
  \/ \E g \in Groups : ConsumerStep(g) \/ ConsumerCrash(g) \/ Shutdown(g)

Spec == Init /\ [][Next]_vars

\* The relay's ticker and the reader's loop keep going, and time passes.
FairSpec ==
  /\ Spec
  /\ \A e \in Events : WF_vars(BackoffElapses(e))
  /\ \A r \in Relays : WF_vars(RelayStep(r))
  /\ \A g \in Groups : WF_vars(ConsumerStep(g))

-----------------------------------------------------------------------------
(* Properties.                                                              *)

\* Rows, batches, offsets and ledgers have their types.
TypeOK ==
  /\ row \in [Events -> {"absent", "pending", "published", "dead"}]
  /\ attempts \in [Events -> 0 .. MaxPublishAttempts]
  /\ due \in [Events -> BOOLEAN]
  /\ todo \in [Relays -> SUBSET Events]
  /\ sent \in [Relays -> SUBSET Events]
  /\ failed \in [Relays -> SUBSET Events]
  /\ log \in Seq(Events)
  /\ pos \in [Groups -> 0 .. Len(log)]
  /\ offset \in [Groups -> 0 .. Len(log)]
  /\ stage \in [Groups -> {"fetch", "process", "deadletter", "commit"}]
  /\ tries \in [Groups -> 0 .. maxAttempts]
  /\ processed \subseteq Groups \X Events
  /\ effects \in [Groups -> [Events -> Nat]]
  /\ dlq \subseteq Groups \X Events
  /\ gaveUp \subseteq Groups \X Events
  /\ faults \in 0 .. MaxFaults

Logged == {log[i] : i \in DOMAIN log}

\* A row is marked published only if its message is in the topic: a crash between
\* publishing and marking loses nothing.
MarkedImpliesLogged == \A e \in Events : row[e] = "published" => e \in Logged

\* Every group's side effect happens at most once per event, and exactly when
\* its inbox says so, however often the message is delivered.
EffectsOnce ==
  \A g \in Groups, e \in Events : effects[g][e] = IF <<g, e>> \in processed THEN 1 ELSE 0

\* A message is in the topic again only once per failure that made a relay publish
\* it again: concurrent relays never publish the same row.
DuplicatesExplained ==
  \A e \in Events : Cardinality({i \in DOMAIN log : log[i] = e}) <= 1 + faults

\* Published and dead rows are final: no relay revives or republishes one.
Settled ==
  [][\A e \in Events : row[e] \in {"published", "dead"} => row'[e] = row[e]]_vars

Handled(g, e) == <<g, e>> \in processed \cup dlq

\* A group moves its offset past a message only when it has been processed or
\* dead-lettered, or process() gave it up.
NothingSkipped ==
  \A g \in Groups : \A i \in 1 .. offset[g] : Handled(g, log[i]) \/ <<g, log[i]>> \in gaveUp

\* Every event written to the outbox is dead-lettered by the relay or reaches
\* every group, which processes it, dead-letters it or gives it up.
Delivered ==
  \A e \in Events :
    row[e] = "pending" ~>
      \/ row[e] = "dead"
      \/ \A g \in Groups : Handled(g, e) \/ <<g, e>> \in gaveUp

\* Every message a group is done with is processed or preserved in the DLQ.
Preserved == \A g \in Groups : \A i \in 1 .. offset[g] : Handled(g, log[i])

\* Outbox, relays, topic and inboxes together: a row is marked published only when its
\* message is in the topic and dead only after MaxPublishAttempts refusals, only pending
\* rows are published, and a group acts once on what the topic holds.
Delivery == INSTANCE EventDelivery WITH
  Budget <- MaxPublishAttempts,
  fate <- row, refusals <- attempts, told <- Logged, acted <- effects
ImplementsDelivery == Delivery!Spec

\* The events of an aggregate reach the topic in the order they were written.
AggregateOrder ==
  \A i \in DOMAIN log : \A f \in Events :
    Precedes(f, log[i]) => \E j \in 1 .. i : log[j] = f

=============================================================================
