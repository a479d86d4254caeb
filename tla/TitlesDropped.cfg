\* A client that goes away while its title request is registered.
SPECIFICATION FairSpec
CONSTANTS
  None = None
  Writers = {"recognition"}
  MaxConversations = 2
  MaxSubtitles = 1
  MaxRequests = 1
  MaxErasures = 0
  MaxTrouble = 1
  MaxRebuilds = 1
PROPERTIES BusyIsReleased
