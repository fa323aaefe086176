SPECIFICATION Spec
CONSTANTS
  Events = {1, 2}
  Aggregate <- MCAggregate
  Poison = {}
  Failing = {}
  Relays = {r1}
  BatchSize = 2
  Groups = {"notifier"}
  Faults = {"publish_error"}
  MaxFaults = 1
INVARIANTS
  AggregateOrder
CHECK_DEADLOCK FALSE
