CONSTANTS
  NUM_NODES = 2
  MaxTime = 3
  MaxAsk = 1
SPECIFICATION LoopSpec
INVARIANT WrittenAtomically
