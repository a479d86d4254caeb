\* The channel of events fills up while the pipeline waits for the session.
SPECIFICATION FairSpec
CONSTANTS
  None = None
  AudioCapacity = 1
  EventCapacity = 1
  PreRoll = 0
  BufferLimit = 1
  RecentTerminations = 1
  MaxChunks = 2
  MaxMessages = 5
  MaxFaults = 1
PROPERTIES PipelineNeverStalls
CHECK_DEADLOCK FALSE
