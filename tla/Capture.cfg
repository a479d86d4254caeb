\* Jobs, the mute coordinator, failures and dropped calls.
SPECIFICATION Spec
CONSTANTS
  None = None
  Configs <- MCConfigs
  MaxTrouble = 2
  MaxDrops = 1
INVARIANTS TypeOK RunningIsRequested TestAlone SettingsAgree
INVARIANTS MutedIsPaused ResumedWhenUnmuted
PROPERTIES RollbackRestoresRequest
