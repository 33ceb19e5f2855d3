CONSTANTS
  Session = {s1, s2}
  NThreads = 2
  POOL_SIZE = 2
  MaxFrames = 2
SPECIFICATION FairSpec
INVARIANTS
  PoolInv
  ExclusiveForOneRound
  AckedIsStored
  LoggedBeforeStored
PROPERTY SignalEnds
CHECK_DEADLOCK FALSE
