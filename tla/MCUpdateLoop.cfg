CONSTANTS
  NUM_NODES = 2
  MaxTime = 3
  MaxAsk = 3
SPECIFICATION LoopFairSpec
INVARIANT TimeKept
PROPERTIES
  NeverBackwards
  StopEnds
  CatchesUp
