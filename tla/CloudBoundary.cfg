\* A second disconnection while audio of the first is still replayed.
SPECIFICATION Spec
CONSTANTS
  None = None
  AudioCapacity = 1
  EventCapacity = 2
  PreRoll = 0
  BufferLimit = 1
  RecentTerminations = 1
  MaxChunks = 6
  MaxMessages = 0
  MaxFaults = 2
INVARIANTS BoundariesKept
CHECK_DEADLOCK FALSE
