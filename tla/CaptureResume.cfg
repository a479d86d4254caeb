\* After an unmute: the speaker filter and the resumed microphone.
SPECIFICATION Spec
CONSTANTS
  None = None
  Configs <- MCFilter
  MaxTrouble = 0
  MaxDrops = 0
INVARIANT RunningIsHeard
