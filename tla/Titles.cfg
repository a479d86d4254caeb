\* Title tasks against erasures, renames, settings, faults and a restart.
SPECIFICATION Spec
CONSTANTS
  None = None
  Writers = {"recognition"}
  MaxConversations = 3
  MaxSubtitles = 2
  MaxRequests = 2
  MaxErasures = 1
  MaxTrouble = 1
  MaxRebuilds = 1
INVARIANTS NoErasedSpeech AutoOffLeaksAtMostOne BusyHasTask
PROPERTIES SummaryKept
