SPECIFICATION Spec
CONSTANTS
  Frame <- Frames
  NoFrame = "none"
  OutOfBand <- Spikes
  Files <- Recordings
  K = 2
  Room = 2
  DropModulus = 2
  Thread = {"main", "worker"}
INVARIANTS
  BusOutlivesUse
  ThreadsJoined
  ReportsUntilCleared
PROPERTIES
  GuardedTransitions
  QuitEnds
  SpikesEndRunning
