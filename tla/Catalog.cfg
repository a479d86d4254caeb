\* Every writer of the catalog, and titles that settle.
SPECIFICATION FairSpec
CONSTANTS
  None = None
  Writers = {"remote", "translation"}
  MaxConversations = 2
  MaxSubtitles = 2
  MaxRequests = 1
  MaxErasures = 0
  MaxTrouble = 2
  MaxRebuilds = 1
INVARIANTS TypeOK StaleIsNoticed
PROPERTIES TitleSettles
