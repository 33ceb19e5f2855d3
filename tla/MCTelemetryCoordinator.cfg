SPECIFICATION CoordinatorSpec
CONSTANTS
  Worker = {w1, w2}
  MayStop = {w1}
INVARIANTS
  FaultNotContradicted
  CoordinatorOutlivesUse
PROPERTIES
  DownIsNoticed
  QuitEnds
