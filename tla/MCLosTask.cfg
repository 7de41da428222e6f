SPECIFICATION Spec
CONSTANTS
  Tasks = {a, b, c}
  Idle = idle
  Spare = spare
  a = a
  b = b
  c = c
  Lowest = 1
  SliceLen = 1
  MaxLock = 1
  Calls = {}
SYMMETRY AnyTask
INVARIANTS ReadyQueuesExact NoTaskIsLost TCBsConserved MostUrgentRuns
PROPERTY SuspensionHolds
