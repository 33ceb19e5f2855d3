SPECIFICATION KernelSpec
CONSTANTS
  N = 3
  P = 7
  Smallest = 2
  Phases = 1
  Params <- Networks
  VDc = 2
  VRated = 0
  GridVoltage = {0, 3}
INVARIANTS
  SolvesGiven
  ThrowsOnSmallPivot
  KernelFollows
VIEW Seen
PROPERTIES
  CurrentsBalance
  TrapezoidalRule
