\* Configuration and mute changes against manual and automatic messages.
SPECIFICATION FairSpec
CONSTANTS
  en = en
  ja = ja
  None = None
  LastSubtitle = 1
  Manuals = {m1}
  Tests = {t1}
  Langs = {en}
  Routes <- MCNoRoute
  Contents = {}
  Configs <- MCConfigs
  Filterable = {1}
  SocketBound = {TRUE, FALSE}
  DisplayCapacity = 2
  EventCapacity = 2
  Grace = 1
  SendInterval = 2
  LateTtl = 1
  MaxRevision = 2
  MaxResults = 1
INVARIANTS TypeOK HeldIsCurrent ResponderConserved MuteLeaksAtMostOne
PROPERTIES CancelledByConfigOnly RateLimit ImplementsChatbox ManualAnswered
