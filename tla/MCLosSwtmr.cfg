SPECIFICATION Spec
CONSTANTS
  Blocks = {0, 1}
  Generations = 2
  QueueSize = 2
  FirstList <- TwoBlocks
  NoItem = NoItem
  Careful = TRUE
INVARIANTS OnlyLiveHandlers FreeListIsExact TickingIsServed
PROPERTY OneShotEnds
