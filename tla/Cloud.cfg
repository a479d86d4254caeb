\* Reconnecting, stopping and late or repeated results.
SPECIFICATION FairSpec
CONSTANTS
  None = None
  AudioCapacity = 1
  EventCapacity = 4
  PreRoll = 1
  BufferLimit = 1
  RecentTerminations = 1
  MaxChunks = 2
  MaxMessages = 2
  MaxFaults = 2
INVARIANTS TypeOK AudioInOrder PreviewsTracked FinalOnce SegmentsKeptApart FinalsSurviveStop
PROPERTIES StopEnds
CHECK_DEADLOCK FALSE
