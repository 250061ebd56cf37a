SPECIFICATION Spec
CONSTANTS
  CPUs = {c1, c2}
  Queues = {"q1", "q2"}
  Tags = {1, 2}
  Slots <- MCSlots
  ZoneStarts = {0, 8}
  Sizes = {1}
  MapKeys = 2
  MaybeInFlight = TRUE
  MaxCommands = 3
  MaxClock = 2
SYMMETRY MCCPUs
INVARIANTS
  TypeOK
  CountersCountSetups
  LatencyKeysNumberResets
PROPERTIES
  LatencyOfItsReset
CHECK_DEADLOCK FALSE
