SPECIFICATION Spec
CONSTANTS
  Tasks = {1, 2, 3}
  NoTask = NoTask
  Mutexes = {m1, m2}
  BasePrio <- Prio
  MaxHeld = 2
  Nested = TRUE
INVARIANTS OwnersAgree WaitersHaveOwner PriorityRestored
PROPERTY WaitersAreServed
CHECK_DEADLOCK FALSE
