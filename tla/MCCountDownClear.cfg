SPECIFICATION Spec
CONSTANTS
  Picks <- OneTime
  MaxBacklog = 1
  MaxCount = 2
INVARIANT WaitShowsUserTime
