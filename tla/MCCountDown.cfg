SPECIFICATION Spec
CONSTANTS
  Picks <- OneTime
  MaxBacklog = 1
  MaxCount = 2
INVARIANTS PauseFreezes TimerFollowsButton StartTakesRollers
PROPERTIES CountDownEnds
