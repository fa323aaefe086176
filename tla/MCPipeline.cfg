SPECIFICATION FairSpec
CONSTANTS
  Events = {1, 2, 3}
  Aggregate <- MCAggregate
  Poison = {1}
  Failing = {3}
  Relays = {r1, r2}
  BatchSize = 2
  Groups = {"notifier"}
  Faults = {"relay_crash", "publish_error", "consumer_crash", "effect_error", "dlq_error", "commit_error", "shutdown"}
  MaxFaults = 1
INVARIANTS
  TypeOK
  MarkedImpliesLogged
  EffectsOnce
  DuplicatesExplained
  NothingSkipped
PROPERTIES
  Delivered
  Settled
  ImplementsDelivery
CHECK_DEADLOCK FALSE
