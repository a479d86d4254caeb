\* Manual and automatic messages and late translations compete for the queue.
SPECIFICATION Spec
SYMMETRY Symmetry
CONSTANTS
  en = en
  ja = ja
  None = None
  LastSubtitle = 2
  Manuals = {m1, m2, m3}
  Tests = {}
  Langs = {en}
  Routes <- MCOneRoute
  Contents = {c1}
  Configs <- MCOpen
  Filterable = {1}
  SocketBound = {TRUE}
  DisplayCapacity = 2
  EventCapacity = 1
  Grace = 1
  SendInterval = 1
  LateTtl = 1
  MaxRevision = 0
  MaxResults = 2
INVARIANTS ManualsFirst
PROPERTIES EvictedByManualOnly NoRollback ImplementsChatbox
