SPECIFICATION Spec
CONSTANTS
  Stream = {s1, s2}
  STREAM_QUEUE_CAP = 2
  K = 2
  MaxSamples = 3
  Clients = {{s1, s2}, {s1, "status"}}
INVARIANTS
  QueueIsRecent
  StatusInOrder
  StoppedIsStopped
PROPERTIES
  WorkerSpec
  StopReturns
