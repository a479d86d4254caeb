\* Translations, failures and sentence groups for two targets.
SPECIFICATION FairSpec
CONSTANTS
  en = en
  ja = ja
  None = None
  LastSubtitle = 2
  Manuals = {}
  Tests = {}
  Langs = {en, ja}
  Routes <- MCTwoRoutes
  Contents = {c1}
  Configs <- MCStrategies
  Filterable = {}
  SocketBound = {TRUE}
  DisplayCapacity = 2
  EventCapacity = 1
  Grace = 1
  SendInterval = 1
  LateTtl = 0
  MaxRevision = 0
  MaxResults = 3
INVARIANTS ResolvedIsReady
PROPERTIES QueueDrains
