CONSTANTS
  Session = {t1, t2, t3}
  POOL_SIZE = 2
SPECIFICATION PoolSpec
INVARIANT ConnectionExclusive
CHECK_DEADLOCK FALSE
