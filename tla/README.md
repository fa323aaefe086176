# A TLA+ verification of CrisisLink

CrisisLink is a disaster-response backend in Go: citizens report incidents,
operators send units to them, victims are placed in shelters and moved by
transports, and every change is announced through a transactional outbox, Kafka
and idempotent consumers. Its promises are about concurrency and failure: *one
ambulance cannot be sent to two emergencies*, *no event is lost when a downstream
system fails*, *a shelter is never overfull*. This directory models every part of
the backend that keeps state others depend on, checks it with TLC, and proves
those three promises, and every other safety property the passing runs check, with TLAPS.

## Inventory

Paths are under `src/internal/` unless they start with `cmd/`.

| Component | State | Operations | Hard behaviour |
|---|---|---|---|
| dispatch (`dispatch/`) | `dispatches` rows | Reserve (locking or compare-and-swap), AdvanceStatus, Reroute, Preempt | one transaction over dispatches, units, incidents and the outbox; candidates chosen outside it; lock order |
| incident (`incident/`) | `incidents` rows: status, report count | Create with dedupe, PATCH of the status, three cascades | check-then-write of the PATCH; cascades guarded in SQL; dedupe race |
| unit (`unit/`) | `units` rows: status, version | reservation primitives, admin override, registration | the override ignores dispatches |
| outbox (`outbox/repository.go`) | `outbox_events` rows: attempts, backoff, published, dead | WriteTx, PublishBatch, markFailed | claimed by several relays, crash between publish and mark, poison rows |
| relay (`relay/`, `cmd/relay`) | the batch in hand | drain loop, Kafka publish | at-least-once, lost acknowledgements |
| inbox and consumers (`outbox/inbox_repository.go`, `consumer/`, `notification/`, `audit/`, `cmd/consumer`) | offsets, `processed_events`, `notifications`, `audit_log`, DLQ | Run, process, ProcessOnce, deadLetter | redelivery, failing effects, SIGTERM, DLQ outage |
| shelter, victim (`shelter/`, `victim/`) | occupancy, status; victim's shelter | AdmitTx, Assign, UpdateStatus | last bed, lock order victim then shelter |
| shelter cache (`shelter/cache.go`, `platform/cache`) | Redis entries with a TTL | GetOrLoad, Invalidate | stale backfill after an invalidation, a DEL that fails |
| transport (`transport/`) | seats taken, bookings | BookSeats, CancelBooking | N seats at once, double refund |
| incident reports (`incident/`) | report count, age and status of an incident | TryDedupe, Create | a search in a snapshot, an update of a row that may have changed; two first reports |
| presence (`presence/`) and the hybrid search (`dispatch/service.go`) | expiring keys, a GEO index that forgets nobody by itself | Heartbeat, FilterPresent, NearbyLive, Candidates | eviction racing a heartbeat, dark members filling a page, Redis empty or silent |
| rate limiter (`platform/middleware/ratelimit_redis.go`) | a token bucket per client | one Lua script | several clocks, readings that overtake each other, answers lost, the key gone |
| auth, authz (`auth/`, `platform/authz`) | users, tokens | Register, Login, AssignRole | role and bindings in old tokens, a login under way |
| scoring (`scoring/`) | none (pure functions) | ScoreUnit, ScoreShelter, stable ranking | the edge of the falloff, ties |
| gateway (`cmd/gateway`) | a round-robin counter | proxy, edge auth, rate limiting | - |
| seed (`platform/seed`, run at boot) | demo accounts and their bindings | one INSERT or UPDATE each | runs again after roles have changed |
| server, config, metrics, web console | wiring and presentation | - | - |

Interactions. The dispatch module calls the unit and incident modules and the
outbox inside its own Postgres transaction (`UnitReserver`, `IncidentTracker`,
`EventWriter`); victim calls shelter and the outbox the same way. Outbox rows are
the only link to the relay, topic messages the only link to the consumers. The
API runs as several replicas behind the gateway, so the only common state is
Postgres, Redis and Kafka. All transactions run at READ COMMITTED.

`PROJECT.json` lists the hazards of this code line by line, with the property
that covers each one or the reason none does yet.

## Modules

| Module | What it is |
|---|---|
| `Dispatch` | the dispatch core: dispatches, units, incident status, the outbox rows of dispatches |
| `FleetAllocation` | what the dispatch core promises: units change hands in four indivisible ways |
| `Pipeline` | outbox, relays, topic, consumer group, inbox, side effects, DLQ |
| `EventDelivery` | what the pipeline promises: an event waits until it is published or dead, and a group acts once, on what was told |
| `ShelterIntake` | shelters, victims, and the shelter cache in Redis |
| `TransportSeats` | seats on vehicles: booking and cancelling |
| `CapacityLedger` | what a counted resource promises; implemented by both |
| `Reports` | reporting an incident: merge or create |
| `LiveSearch` | heartbeats, the GEO index, the search for units and the ranking of its answer |
| `Scoring` | the scores and the stable ranking, over integers |
| `RateLimiter` | one client's token bucket, shared by all gateways |
| `Sessions` | accounts, tokens and what a token may do |
| `Services` | the five small services side by side; one of them runs per behaviour |
| `DispatchProofs` | theorems about `Dispatch`: types, double booking, lifecycle |
| `DispatchCommitProofs` | what a commit of `Dispatch` does: fresh units, the outbox, the refinement of `FleetAllocation` |
| `DispatchStatusProofs` | the statuses of units and incidents, who waits for whom, how an incident can be forgotten, and how long a request is |
| `PipelineProofs`, `ShelterProofs`, `TransportProofs` | theorems about `Pipeline`, `ShelterIntake`, `TransportSeats` and what they implement |
| `SearchProofs` | theorems about `LiveSearch` and `Scoring` |
| `ReportingProofs` | theorems about `RateLimiter`, `Sessions`, `Reports` and `Services` |
| `MCDispatch`, `MCPipeline`, `MCShelterIntake`, `MCRateLimiter`, `MCServices` | constants and symmetry for TLC |

### Dispatch

A row of a table has a committed value, a lock owner and the owner's uncommitted
value: `unitStatus`, `unitLock`, `unitNew`, and likewise for incidents and
dispatches. Plain reads see committed values and the reader's own writes;
`SELECT .. FOR UPDATE` and `UPDATE` wait for the lock; `Commit` publishes the
uncommitted values and `Rollback` drops them, together with the rows the
transaction inserted. The INSERT into `dispatches` obeys the partial unique index
of migration 000008: it is refused by a committed active row (`InsertConflict`)
and waits for a row another transaction has in doubt (`InDoubt`).

`pc[p]` names the next statement of handler `p`, `req[p]` holds its locals. One
action is one statement that can wait or that reads what others write, with the
statements on rows already locked that follow it. A request that is refused
before it holds a lock changes nothing and is not an action.

| Code | Actions |
|---|---|
| `Reserve` | `LockForReserve`, `IncidentClosed` or `MarkReserved`, `InsertDispatch` or `InsertConflict`, `MarkDispatched`, `Commit` |
| `ReserveOptimistic` | `ReadVersion`, `IncidentOpen`, `MarkReservedCAS` or `LostCAS` (then `RereadVersion`), and on as above |
| `AdvanceStatus` | `AdvanceStatus`, `SyncUnit`, `CountActive`, `SettleIncident`, `Commit` |
| `Reroute`, `Preempt`, `Reassign` | `Reroute` or `Preempt`, `LockOld` or `OldEnded`, `LockFirst`, `LockSecond` or `UnitTaken`, `CancelOld`, and on as above; `Fail` and `TriesNext` are the loop over candidates |
| PATCH of an incident | `CheckTransition`, `UpdateIncident` |
| PATCH of a unit | `OverrideUnit` |
| process death, lost connection | `Crash` |
| Postgres' deadlock detector | `DeadlockVictim` |

Abstractions. The candidate search (presence, PostGIS, scoring) is a choice of
any set of currently available units within `reassignCandidateLimit`, tried in
any order, so the results hold for every ranking. Ids are model values; unit ids
are numbers because the code compares them. Authorization is not modelled: it can
only refuse a request. A commit whose answer is lost is a commit followed by an
error to the client, which changes no row. The outbox is the set of committed
events of dispatch aggregates; what happens to them is the next module's matter.

### Pipeline

`row`, `attempts` and `due` are the columns of `outbox_events`; a relay's batch is
`todo`, `sent` and `failed`, invisible until `CommitBatch` and forgotten by
`RelayCrash` (a crash, a shutdown or a database error). `log` is the topic, which
has one partition (`EnsureTopic(.., 1)`). `pos` and `offset` are the reader's and
the committed position of a group, `stage` and `tries` its progress on the message
in hand; `processed`, `effects` and `dlq` are the inbox, the side effects and the
dead-letter topic. `gaveUp` is a history variable: messages `process()` returned
from with nothing done.

Every failure is counted by `faults` and bounded by `MaxFaults`. A publish that
reports an error may have reached the broker; an acknowledged one may be in the
topic twice because the Kafka writer retried (one extra copy per fault stands for
any: consumers and properties only see that a message comes again); a failed `ProcessOnce` may have
committed; an offset commit may fail; SIGTERM (`Shutdown`) makes `process()`
return and leaves the offset commit to chance, since it is called with the
cancelled context. `ProcessOnce` is one action: the primary key of
`processed_events` makes concurrent attempts wait for each other, and the marker
and the effect are one transaction. Undecodable messages are left out: the topic
is only written by the relay.

`WriteTx` may commit events in any order except within an aggregate: a transaction
that adds an event to a dispatch holds the dispatch's row lock, so the ids of one
aggregate commit in order.

`EventDelivery` has four actions: an event is written, told, settled together with
others (published, or refused once more and dead at the budget), and acted on by a
group. A row's status and attempts, the set of messages in the topic and the counts of
effects are its variables, so a relay's batch settles at its commit, and everything
between, every repeated publish and every redelivery is a stutter.

### ShelterIntake

| Code | Actions |
|---|---|
| `VictimRepository.Assign` with `AdmitTx`, `GetByIDTx` | `LockVictim`, `AdmitTx` or `Refuse`, `Commit` |
| `ShelterService.UpdateStatus` | `UpdateStatus` |
| `Invalidate` after either | `Invalidate` |
| `GetOrLoad` | `Miss`, `Load`, `Backfill`, `LoadFails` |
| the TTL | `Expire` |
| registration | `CreateVictim`, `CreateShelter` |
| process death, lost connection, client gone | `Crash` |

Here one transaction has one shape, so no lock table is kept: a handler at `admit`
holds its victim, at `commit` also its shelter, and `req` holds the occupancy it
wrote. The guarded UPDATE is refused on the committed row without waiting, and
waits for the lock only when the committed row would let it in. `flight` is the
singleflight group of each replica: one load per shelter at a time; requests that
join a flight write nothing and are left out. `excused` is a history variable: the
shelters whose entry missed a deletion or was filled late. Any Redis call may fail
without bound; the operators' status updates are bounded by `MaxToggles`.

### TransportSeats

`BookSeats` is its guarded UPDATE (a refusal holds nothing and is not an action),
`CancelBooking` flips the booking, `Refund` updates the vehicle, `Commit` publishes
either. Events are kept in order because the last one about a vehicle must tell
its count. The incident of a booking is only looked up and never deleted, so it is
left out. `SeatsExact` counts the set of seats that active bookings hold (`Held`), seat
by seat, which is the sum of their sizes.

`CapacityLedger` has two actions: a claim takes N units of one pool if they fit,
and gives them back once. A victim is a claim of one bed that is never given back;
a booking is a claim of N seats.

### Reports

`TryDedupe` is one statement and two actions: `Search` is its sub-select, in the
statement's snapshot; `Merge` is the UPDATE, which waits for the row and applies to
its current version. The row's status is part of the sub-select only, so a report
may be merged into an incident that was closed in between: the model has it, and
`CountedOnce` says no more than that the incident was open in the snapshot.
`Insert` is a transaction of its own. An incident is named by the report that
created it; `Near` is the relation of `ST_DWithin`, symmetric and not transitive;
ages are kept up to the dedupe window. `ChangeStatus` stands for everything
`Dispatch` does to an incident's status, in any order. `open` is a history variable.

### LiveSearch and Scoring

`life` holds what is left of each presence key's TTL, in heartbeat intervals, and
`index` the GEO set. One search runs next to any heartbeats: `GeoSearch` (with the
over-fetch), `FilterPresent` (pipelined EXISTS, failing open), `Evict` (ZREM of what
was dark at the check), then `Hydrate` or `FallBack` and `Registry`. An error of
Redis is a `NoHits`, a `FailOpen` or an eviction that does not happen; a heartbeat
that breaks off between its two commands is `HalfHeartbeat`. `FailOpen` opens the
whole batch: go-redis's `Exec` returns the first failing command's error, so one EXISTS
that fails is enough, and the check of each key afterwards only meets keys that answered. What Postgres says is
free: `Hydrate(A)` and `Registry(A)` take any set of available units, because
dispatches run next to the search. A GEOSEARCH with no hit ends a request for live
units at once. The answer is ranked with `Scoring`'s functions. Neither Redis nor
Postgres says what comes first of two units at one distance: `Nearest` is the set of
possible cuts and `ByDistance` the set of possible orders, and a step takes any.

`Scoring` keeps the code's formulas and its constants over integers: tenths of a
second, metres, percent. The code computes in floating point; the theorems and
`Undominated` are about the formulas, and rounding could reorder only units whose
scores agree to the last bits. `ScoreShelter` multiplies out the two divisions.

### RateLimiter

`clock` is Redis's clock, in intervals of one token; `Skew` says how far each
gateway's is ahead. `ReadClock` is `time.Now()`, taken before the script is sent;
`Admit`, `Refuse` and `LoseAnswer` run the `Script` indivisibly, as Redis does.
`LetThrough` is the branch on an error, `BucketLost` drops the key. Fractions of a
token are left out: a bucket refills whole tokens. `rewound` is a history
variable: by how much readings were older than what the bucket had accounted for.

### Sessions

A user's row, the claims a login has read and not yet turned into a token
(`reading`), and the tokens that are alive. `AssignRole` needs an admin's token and
replaces the bindings with the role; the seed's three steps run at any boot.
Passwords and signatures are reduced to `LoginFails`. `Gate` lists the roles each
route of a write admits and `RequireRole` is the middleware that asks for them;
`OwnsUnit` and `OwnsShelter` are `authz`'s, and `Owns` says which handler calls which.
`POST /victims/:id/assign` calls neither: a shelter manager may assign a victim to any
shelter, and `Owns` says so. `Powers` is what a set of claims allows under both checks.
Reads, and the routes open to every token (a report, a victim's registration), are left
out. `given` is a history variable: what the seed or the last change by an admin gave
each user.

## Runs

| Run | Checks | Bounds |
|---|---|---|
| `dispatch` | `TypeOK`, `NoDoubleBooking`, `OutboxAgrees`, `TakesOnlyAvailable`, `Lifecycle`, `ImplementsFleet` | 2 handlers, 2 units, 2 incidents of different severity, 2 dispatches, all operations, 1 manual write, crashes |
| `dispatch_held` | `AvailableIffUnheld`, `NoWaitCycle`, `TerminalStays` | 3 units, 3 dispatches, no manual writes |
| `dispatch_live` | `RequestsEnd` | as `dispatch`, without crashes and incident patches |
| `pipeline` | `TypeOK`, `MarkedImpliesLogged`, `EffectsOnce`, `DuplicatesExplained`, `NothingSkipped`, `Settled`, `ImplementsDelivery`, `Delivered` | 3 events (the poison one at the head, then one of the same aggregate, and one with a failing effect), 2 relays, batch of 2, notifier, 1 fault of any kind |
| `shelters` | `TypeOK`, `NoOverflow`, `OccupancyExact`, `AnnouncedExactly`, `StaleExplained`, `ClosedAdmitsNobody`, `Converges`, `ImplementsLedger` | 2 handlers, 2 victims, shelters of 1 and 2 beds, 1 replica, 1 status update, crashes, failing Redis |
| `services` | `TypesOK`; `SeatsExact`, `LastAnnounced`, `ImplementsLedger` (seats); `CountedOnce`, `DuplicatesExplained` (reports); `NotOverlooked`, `NeverStopped`, `Undominated`, `Reindexed` (search); `BudgetExplained` (limiter); `AsGiven`, `OnlyAges`, `DemotionLands` (sessions) | see below |

`services` runs one of five services per behaviour, chosen by `service` in the
initial state: they share no table and no Redis key, so what they do next to each
other adds nothing. Seats: 2 handlers, 3 bookings, vehicles of 3 seats and 1 seat.
Reports: 3, the middle one near both others, a window of 2, 2 status changes.
Search: 3 units, a TTL of 2 intervals, limits that one unit can exhaust, three kinds
of need. Limiter: 2 gateways, one of them an interval ahead, burst of 2, 3 intervals,
1 restart, 1 failing script, 1 interval of older readings. Sessions: an admin, a responder
and a shelter manager, 2 units, 1 shelter, 2 tokens or logins at a time, 1 change by
an admin, tokens that live two steps.

Six runs look for a counterexample and find one:

| Run | Property | What happens |
|---|---|---|
| `dispatch_skew` | `NobodyForgotten` | two completions of one incident count each other as active; it is never resolved |
| `dispatch_patch` | `TerminalStays` | a PATCH checked against an old status reopens a closed incident |
| `dispatch_mirror` | `PhaseMirrored` | a unit that is en route is preempted; its new dispatch is reserved, the unit still shows `en_route` |
| `pipeline_order` | `AggregateOrder` | a failed publish is overtaken by the aggregate's next event |
| `pipeline_lost` | `Preserved` | the dead-letter publish fails, the offset is committed, the message is gone |
| `limiter_budget` | `GlobalLimit` | two requests overtake each other between clock and bucket; an interval is refilled twice |

`PhaseMirrored` is what `dispatch/model.go:69-70` says: an active dispatch's phase is its
unit's status. The comment at `reassign.go:110-111` has a preempted unit stay `reserved`,
but `FindPreemptable` also selects dispatches that are `en_route` or `on_scene`, and
`Reassign` does not write the unit of a preemption: the unit stays ahead of its new
dispatch until that one is advanced itself. Nothing else makes them differ
(`OnlyPreemptedAhead`, below).

Why the bounds are enough. Two handlers are what every race named in the code
needs, and two dispatches on one unit are what a double booking needs; the third
unit and dispatch of `dispatch_held` give two reroutes crossing each other and a
reassignment next to a reservation, which is what a lock cycle over units needs.
A retry of the optimistic path needs one write in between, which the other handler
supplies. All of the safety
properties of the passing runs are proved for all sizes. In the pipeline, two events of one aggregate are what an order violation needs, two
relays what a double claim needs; the poison event alone uses up the publish budget of
five and the failing effect the three attempts, without counting as faults, so that the
one fault falls on top of either. A failure during the recovery from another is beyond
this run; the safety properties are proved for any number of faults. Two victims compete
for the single bed, and two shelters are what placing one victim twice needs; one
status update races both the admission and the cache, and the load in flight
outlives any of them. Three bookings on three seats give a booking that fits only
after a refund, and two handlers two cancellations of one booking. Three reports in a
chain give two first reports of one event and a third near both. Three units are
enough for a page of the index to be filled by dark ones, and two intervals of TTL
for a unit to fall dark between search and check. In the limiter the one
overtaking reading, restart and failure each change the budget once, and the burst
of two lets them meet; `BudgetExplained` is proved for all sizes. One change by an
admin with two tokens gives a demotion with an old token and a login under way.
Deadlock
checking is off in all runs because the histories are bounded: a behaviour ends
when the dispatch ids or the events are used up.

What is left out of a run is left out because the property is not meant to hold
there: `AvailableIffUnheld` and `NoWaitCycle` are false once an admin overrides
units (the override may free a held unit, and then a reservation's INSERT and an
`AdvanceStatus` wait for each other); `TerminalStays` is false with PATCHes, which
is the finding of `dispatch_patch`.

Symmetry is used over handlers and over dispatch ids in the runs of `Dispatch` that
check safety only, never with liveness.

### Fairness

`Dispatch!FairSpec` assumes strong fairness of each handler's next statement:
Postgres queues lock waiters in order, so a statement that becomes possible again
and again is not passed over for ever. Wait cycles are broken by the deadlock
detector (weak fairness of `DeadlockVictim`). New requests are not assumed to
arrive. `Pipeline!FairSpec` assumes weak fairness of the relay (a ticker of one
second whose drain loop continues after publish failures), of the consumer's read
loop and of the passing of the backoff; faults are not fair and bounded in number,
that is, the system is eventually left alone. `ShelterIntake!FairSpec` counts only
on the clock: entries reach their TTL and loads in flight end; no handler is
assumed to finish, so `Converges` holds although every deletion may be lost.
`Services!ServicesSpec` assumes only that time passes for tokens (`Expiry`), which
`DemotionLands` needs; `Reindexed` carries its own assumption, that the unit keeps
sending heartbeats.

## Proofs

`DispatchProofs` proves, for any finite or infinite sets of handlers, units,
incidents and dispatches that satisfy `DispatchAssumption`:

* `TypeCorrect`: `Spec => []TypeOK`;
* `NeverDoubleBooked`: `Spec => []NoDoubleBooking`;
* `LifecycleFollowed`: `Spec => Lifecycle`.

`NoDoubleBooking` is not inductive. A commit turns all of a handler's uncommitted
rows into committed ones at once, so one needs to know what uncommitted rows may
look like; and whether an INSERT was allowed depends on rows other handlers have
in doubt. The inductive invariant `IInv` is the conjunction of

* `TypeOK`;
* `LocalsOK`: what a handler's locals mean at each statement: the unit it is about
  to book, the active dispatch it has locked in order to replace it, ...;
* `RowsOK`: a row that exists or is being inserted has a unit and an incident; a
  write in flight belongs to the handler that holds the lock; a row inserted and not
  committed is `reserved`, is its owner's new dispatch, and its owner is between its
  INSERT and its COMMIT; a write in flight on an existing row is a legal transition;
  the ids still to be inserted are unused and distinct;
* `IndexOK`: at most one insert is in flight per unit, and every committed active
  dispatch of its unit is locked, and being completed or cancelled, by the same
  transaction;
* `NoDoubleBooking`.

The proof has one lemma per action and part of the invariant; actions that write
no dispatch row share `QuietRows`, and steps of other handlers are framed by
`Frame` and the `Others..` lemmas. The lifecycle follows from `RowsOK` in the
state before a commit (`StatusStep`). `IInv` was checked with TLC on the instance of
`dispatch` before it was proved.

`DispatchCommitProofs` goes on from `IInv` and proves, under the same assumption:

* `TakesAreFresh`: `Spec => TakesOnlyAvailable`;
* `OutboxIsExact`: `Spec => []OutboxAgrees`;
* `DispatchImplementsFleet`: `Spec => ImplementsFleet`, the refinement.

`IInv` says what rows in flight look like, but not which rows a transaction has
written by the time it commits. `CInv` adds for each handler and statement: the
dispatch rows it has locked and what it has written into them, and no others
(`WritesOf`); that a pair it still wants to try was an active dispatch on that unit
when it was found, less severe if it is to be preempted (`TargetsOf`); and that the
unit it takes is locked by it and still `available` in its committed row (`UnitsOf`).
For the optimistic path the last one rests on versions: whoever changes a unit's status
raises its version (`VersionsGrow`), so a version that has not moved since the
unlocked read proves that read right. Each handler's part is preserved by its own steps
(`StepHandler`, `ArriveHandler`) and by everybody else's (`Others`). From `CInv`, a
commit is one of three things (`CommitCases`): it books a unit, replaces a dispatch or
advances one; and no other step changes a committed dispatch or an event
(`OnlyCommits`). Each theorem is then an argument about the three cases.

`DispatchStatusProofs` proves what holds when nobody writes statuses by hand; the
hypothesis of each theorem is in parentheses, and without it the property is false:

* `ClosedIncidentsStay`: `Spec => TerminalStays` (`"patch" \notin Ops`);
* `AvailabilityIsExact`: `Spec => []AvailableIffUnheld` (`"override" \notin Ops`);
* `PhasesAreMirrored`: `Spec => []PhaseMirrored` (`"override", "preempt" \notin Ops`);
* `OnlyPreemptedAhead`: `Spec => []MirroredUnlessPreempted` (`"override" \notin Ops`), the
  rule of `PhaseMirrored` except for a reserved dispatch that replaced another on its unit;
* `NeverDeadlocked`: `Spec => []NoWaitCycle` (`"override" \notin Ops`);
* `SomeoneAlwaysReady`: while requests are under way, one of them is `Ready`
  (`"override" \notin Ops`);
* `OnlySkewForgets`: `Spec /\ []NoSkew => []NobodyForgotten` (`"patch" \notin Ops`).

The first needs that a write in flight is only on an incident that is still open
(`IncidentsOpen`): the guard of each cascade is read on the committed row, and the
row's lock keeps it true until the commit. The other two need the unit rows of each
transaction (`UnitRowsOf`): which ones it has locked and what it has written into them,
so that a commit writes the unit of the dispatch it books, moves or advances and no
other (`CommitUnits`). That no other dispatch is concerned is `NoDoubleBooking`, before
and after the commit. `CInv` and `UnitRowsOK` were checked with TLC first.

A set of handlers that wait for each other would have to contain one that waits for
nobody in it. Nobody waits at the INSERT: the unit is locked and available, so no
other transaction has a row in doubt on it (`AvailabilityIsExact`). A handler that waits
for a unit can only be blocked by one that holds that unit, and `Reassign` locks units
in ascending order, so a chain of such waits ascends. A handler that waits for an
incident holds another one only when it preempts for it, and then that one is more
severe than the one it waits for, so a chain of those waits ends too. `WInv` says which
incidents a handler can hold at which statement (`IncRowsOf`), and that finitely many
handlers serve a request at any time, which is what makes a chain end without any bound
on the number of handlers (`NoEndlessAscent`).

`NothingHangs`, `Spec => [](WaitsExplained /\ SomeoneMoves)`, holds with everything
admitted, overrides too: a statement that cannot run waits for a row that another
request under way has locked, so no lock outlives its request and nobody waits for
himself; and as long as requests are under way one of them can go on, or there is a
cycle for the deadlock detector. `Ready(p)` states the guards of `p`'s next statement
as a state predicate, because ENABLED is out of the prover's reach; TLC confirmed that it
implies `ENABLED Step(p)`. A reassignment counts as ready only when none of the
dispatches it may try next is locked. `Poised` is what the proof adds to the invariants:
a reassignment that tries has a candidate, and one that waits for its second unit has
not locked it. Without overrides there is no cycle, which leaves `SomeoneAlwaysReady`.

`OnlySkewForgets` delimits the finding of `dispatch_skew`. `NoSkew` says that no two
requests under way end dispatches of the same incident (completions and preemptions);
then an incident that shows `dispatched` is never left without a dispatch, whatever
bookings, reroutes, cancellations, crashes and overrides do around it. `Spared` carries
it: a handler about to commit the end of a dispatch leaves another dispatch that keeps
the incident, or has settled the incident itself. What the count of active dispatches
saw stays true until the commit because only another closing request could end one
unaccounted for (`OthersSpared`), and that is what `NoSkew` excludes.

The same module bounds every request, with all kinds of requests and manual writes
admitted (units and dispatches are finite sets): `RequestsAdvance`,
`Spec => AlwaysNearer`, and `RequestsShort`, `Spec => []AlwaysShort`. `StepsLeft` counts
what is left of a request: the statements of its transaction in the longest order they
can come in (`Rank`), and 10 for each candidate or optimistic retry it has not used up.
Every statement lowers it, also the ones that start over after a lost race; other
requests, crashes and overrides never raise it; and the candidate limit of 5 keeps it at
51 or less. So no handler loops for ever, some request can always run, and what
`RequestsEnd` leaves to fairness is that it does.

`ShelterProofs` proves, for any shelters, capacities, handlers and replicas and any
finite set of victims (`ShelterAssumption`):

* `IntakeTypeCorrect`: `Spec => []TypeOK`;
* `OccupancyIsExact`: `Spec => []OccupancyExact`;
* `NeverOverfull`: `Spec => []NoOverflow`;
* `ClosedStaysClosed`: `Spec => ClosedAdmitsNobody`;
* `IntakeImplementsLedger`: `Spec => ImplementsLedger`, the refinement;
* `StalenessExplained`: `Spec => []StaleExplained`;
* `AnnouncementsExact`: `Spec => []AnnouncedExactly`;
* `StalenessRunsOut`: `Spec => OldLoadsRunOut`.

A commit publishes a count it wrote earlier. The invariant therefore adds to the
types and to `OccupancyExact` that a claimed bed is the only one in doubt in its
shelter, that the count written is one more than the committed one and within
capacity, that the shelter is still open (`ClaimsOK`), and that the victim of an
assignment under way belongs to one handler and is not placed (`VictimsOK`). All
other steps leave the rows alone (`Quiet`), and only commits are visible to the
ledger (`OnlyCommits`). For the cache one adds that what is cached or about to be was
read from a registered shelter (`CacheInv`): then a commit or a status update makes its
own entry stale and is itself the explanation until it has deleted the entry, and a
backfill may only be stale if the shelter changed while it was loading. For the events
one adds that those of one shelter are finitely many (`EventsInv`), because
`AnnouncedExactly` counts them. `OldLoadsRunOut` is the safety half of `Converges`: while a
row stays as it is no load in flight becomes old, and each old one can outdate the entry
once, so what is left to fairness is that loads end and the TTL passes.

`PipelineProofs` proves, for any events, aggregates, relays, batch size, groups and
bound on faults (`PipelineAssumption`):

* `PipelineTypeCorrect`: `Spec => []TypeOK`;
* `NothingMarkedUnlogged`: `Spec => []MarkedImpliesLogged`;
* `EffectsHappenOnce`: `Spec => []EffectsOnce`;
* `DuplicatesAreExplained`: `Spec => []DuplicatesExplained`;
* `NoMessageSkipped`: `Spec => []NothingSkipped`;
* `OutcomesSettled`: `Spec => Settled`;
* `PipelineImplementsDelivery`: `Spec => ImplementsDelivery`, the refinement;
* `BacklogIsBounded`: `Spec => []BacklogBounded`, and `ConsumersCatchUp`:
  `Spec => CatchesUp`;
* `PreservedWithoutOutage`: `Spec => []Preserved` if neither the dead-letter publish fails
  nor a shutdown comes (`{"dlq_error", "shutdown"} \cap Faults = {}`);
* `OrderedWithoutRefusals`: `Spec => []AggregateOrder` with one relay, no poison event and
  no `"publish_error"`.

The invariant `PInv` has a part for each side of the topic. `OutboxInv`: batches hold
pending rows, no two relays the same one, and what a relay has sent is in the topic
(`BatchesOK`), so that marking it published is right; a pending row is within its
budget (`BudgetOK`); and the copies of a message exceed the faults by one at most
while its row is published or sent, and not at all before (`CopiesOK`), which a crash
after publishing preserves because it is itself a fault. `ConsumerInv`: everything a
reader has fetched but the message in hand is done with (`ReadersOK`). The sides are
framed against each other by `ConsumersKept` and `OutboxKept`; then there is one lemma
per action. In the refinement a publish tells a pending event or repeats one
(`PublishTells`), a commit settles what was sent and what was refused (`BatchSettles`),
and an attempt acts on a message that is in the topic or leaves no trace (`AttemptActs`).

The last two delimit findings: `pipeline_lost` rests on nothing but a failing dead-letter
publish or a shutdown, because otherwise nothing is given up (`NothingGivenUp`), and
`NoMessageSkipped` says the rest; `pipeline_order` rests on a refusal or on a second relay.
`NoGap` says why: a relay that is alone and never refused takes the oldest rows, so every
event before one in its batch is in the batch or in the topic, and a crash that makes it
start over only repeats what is there. `Backlog` is the consumers' measure: six steps for
each message not fetched, and what is left of the retries, the dead-lettering and the
offset commit of the one in hand. Every step of the loop shortens it; only a new message
or a fault lengthens it. That is the consumers' part of `Delivered`; the relay has no such
measure for all sizes, since a poison row's backoff comes between its attempts, and its
part is `Settled` and the refinement.

`TransportProofs` proves, for any vehicles, capacities and handlers and any finite set
of bookings (`SeatsAssumption`):

* `SeatsTypeCorrect`: `SeatsSpec => []SeatsTypeOK`;
* `SeatsAreExact`: `SeatsSpec => []SeatsExact`;
* `LastEventCounts`: `SeatsSpec => []LastAnnounced`;
* `SeatsImplementLedger`: `SeatsSpec => ImplementsLedger`, the refinement.

The invariant `SeatsInv` says what each transaction has locked and written (`WorkOf`): a
booking's count is the committed one and its seats, within capacity; a refund's is the
committed one less the seats of a booking that is still active. Two transactions under
way never share a booking, and two about to commit never a vehicle (`Exclusive`). The
seats a vehicle holds are a set, so a booking adds a disjoint part (`HeldGrows`), a
cancellation takes one away (`HeldShrinks`), and no sum over bookings is needed. That a
refund's seats are part of what is held (`RefundFits`) shows that the floor of `GREATEST`
never comes into play.

`SearchProofs` proves, for any finite set of units, any distances, types, limits and
TTL (`SearchAssumption`), ties included:

* `SearchTypeCorrect`: `SearchSpec => []SearchTypeOK`;
* `NobodyOverlooked`: `SearchSpec => []NotOverlooked`;
* `SearchNeverStopped`: `SearchSpec => []NeverStopped`;
* `BestFirst`: `SearchSpec => []Undominated`;
* `ScoreBounded`, `BetterScoresHigher`, `EmptierShelterWins`, about the pure functions: a
  score stays within 0 and 1; a unit that suits at least as well and arrives no later
  never scores lower; the emptier of two equal shelters scores higher.

The invariant `SearchInv` keeps, until the presence check, that a unit that stays live
and indexed is among the hits or hidden behind a full page of them (`HitsOK`), and, of
the answer, that it is the ranking of a shortlist that came nearest first (`AnswerOK`).
A cut leaves out nobody nearer and is full when it leaves out anybody (`NearestCuts`); a
ranking sorts by score and is stable (`RankedSorts`). `Undominated` follows from that and
`BetterScoresHigher`: a unit that is better in both respects scores at least as high,
and where the scores agree, beyond the falloff, the order of arrival decides.

`ReportingProofs` proves, for any gateways, clocks, burst and requests
(`LimiterAssumption`), any users, units, shelters and demo accounts
(`SessionsAssumption`), and any finite set of reports, any relation of nearness on them
and any window (`ReportsAssumption`):

* `LimiterTypeCorrect`: `LimiterSpec => []LimiterTypeOK`;
* `BudgetIsExplained`: `LimiterSpec => []BudgetExplained`;
* `SessionsTypeCorrect`: `SessionsSpec => []SessionsTypeOK`;
* `RowsAreAsGiven`: `SessionsSpec => []AsGiven`;
* `ReportsTypeCorrect`: `ReportsSpec => []ReportsTypeOK`;
* `ReportsCountedOnce`: `ReportsSpec => []CountedOnce`;
* `OnlyResidualRace`: `ReportsSpec => []DuplicatesExplained`;
* `GlobalUnlessRewound`: `LimiterSpec => [](rewound = 0 => GlobalLimit)`;
* `RevokedOnlyAges`: `SessionsSpec => OnlyAges`;
* `ServicesCompose`: `ServicesSpec` implies each of the five services' specifications;
* `ServicesTypeCorrect`: `ServicesSpec => []TypesOK`.

For the limiter the invariant adds `Covered`: what was admitted and what is left in the
bucket are together covered by the burst and by the instant the bucket has reached. A key
that expires comes back full, which that instant pays for because the TTL of
`ceil(capacity / rate) + 1` is at least the time a bucket takes to fill. For
`AsGiven` it says how a row can differ from what was given (`RowAsGiven`): the role is the
one given; the binding of that role is the one given too, or still missing on a seeded
account; any other binding, which the seed may have left, belongs to a role that the row
does not have and so confers nothing (`SamePowers`). For the reports it says what the target of a
merge is (`TargetsOK`), which rows exist (`RowsOK`), what a search that found nothing has
excluded (`NothingFound`), and keeps the count (`Counted`).

`GlobalUnlessRewound` delimits the finding of `limiter_budget`: readings that reach the
bucket after a later one are the only way past the limit while Redis is up and the clocks
agree. `OnlyAges` is the safety half of `DemotionLands`: once neither a user's row nor a
login under way allows an act (`Revoked`), after a demotion or a rebinding, no login,
registration, boot or change of another user renews it, and every hour takes one off the
tokens that still allow it. It needs that
a login under way has read its own user's row (`ReadsOwnRow`).

`ServicesCompose` justifies the run `services`: a step of the composition is a step of one
service and a stutter of the other four, so whatever is proved or checked of a service's
own specification is true of its part of the run. `TypesOK` is then the five type
theorems together.

The assumptions on constants are ASSUMEs of the modules, so TLC evaluates them on every
run. The hypotheses of theorems restrict `Ops`, `Faults`, `Poison` or `Relays`, or
(`NoSkew`, `rewound = 0`) the behaviours to those in which one race does not happen. Each
conditional theorem was checked with TLC on a small instance that satisfies its
hypotheses before it was proved, and dropping a hypothesis gives a counterexample.

Model-checked only: the liveness properties (`RequestsEnd`, `Delivered`, `Converges`,
`Reindexed`, `DemotionLands`). They need fairness and ENABLED, which are out of the
prover's reach, and so stay with TLC for good. The safety halves of all but `Reindexed`
are proved: `RequestsAdvance`, `RequestsShort` and `SomeoneAlwaysReady`; `ConsumersCatchUp`;
`StalenessRunsOut`; `RevokedOnlyAges`.

## Plan

Done: all modules above, a proof of every safety property the passing runs check, and for
each finding a theorem that says what it takes (`OnlySkewForgets`, `ClosedIncidentsStay`,
`OnlyPreemptedAhead`, `PhasesAreMirrored`,
`OrderedWithoutRefusals`, `PreservedWithoutOutage`, `GlobalUnlessRewound`). Left:

1. Registration of units during a run, which only adds a row that is available.
2. The replies of a refused admission, which are read by a second statement.
3. A measure for the relay like the consumers' `Backlog`.

## Not modelled

The replies to clients are left out, so the reason given for a refusal is not checked.
The lag and fleet monitors, metrics, logging and HTTP plumbing change no state the
properties are about. The gateway's choice of an upstream is left out because nothing
depends on which replica answers; its limiter and its token check are modelled. Of the
seed only the accounts and their bindings are modelled: its other rows are rows like
any other. Configuration and migrations are wiring; the constraints the migrations
declare are modelled where they bite. The web console is a client.

## Running

    tlc -workers 2 -config MCDispatch.cfg MCDispatch
    tlc -workers 2 -config MCPipeline.cfg MCPipeline
    tlc -workers 2 -config MCShelterIntake.cfg MCShelterIntake
    tlc -workers 2 -config MCServices.cfg MCServices
    tlc -workers 2 -config MCRateLimiter.cfg MCRateLimiter
    tlapm DispatchProofs.tla
    tlapm DispatchCommitProofs.tla
    tlapm DispatchStatusProofs.tla
    tlapm PipelineProofs.tla
    tlapm ShelterProofs.tla
    tlapm TransportProofs.tla
    tlapm SearchProofs.tla
    tlapm ReportingProofs.tla
