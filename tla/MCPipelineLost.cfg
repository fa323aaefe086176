SPECIFICATION Spec
CONSTANTS
  Events = {1, 2}
  Aggregate <- MCAggregate
  Poison = {}
  Failing = {1}
  Relays = {r1}
  BatchSize = 2
  Groups = {"notifier"}
  Faults = {"dlq_error"}
  MaxFaults = 1
INVARIANTS
  Preserved
CHECK_DEADLOCK FALSE
