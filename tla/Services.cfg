\* Two utterances, of which the speaker filter remembers one, and a remote
\* message against the filter, the services, two permits and the queue, with
\* two targets of a speaker's message; an upload session with full channels;
\* two users of the local process; one text among two kinds of neighbours, two
\* scans and one change of the settings; three questions and one change of the
\* settings; three instants of audio with a device that may be lost once; one
\* utterance and two conversations; nine chunks of audio of which the first,
\* sixth and seventh are speech, with two failures or events of a connection;
\* three calls of the model stores, one change of their directory and one
\* failure.
SPECIFICATION MCSpec
CONSTANTS
  en = en
  ja = ja
  n1 = n1
  None = None
  NativeLang = native
  Utterances <- MCUtterances
  Speakers = {s1}
  Remotes = {r1}
  Langs = {en, ja}
  MicTargets <- MCMicTargets
  SpeakerTargets <- MCSpeakerTargets
  MaxSpeakers = 1
  MaxUtterances = 1
  MaxRevision = 2
  QueueCapacity = 1
  Permits = 2
  UploadQueue = 1
  UploadEvents = 1
  MaxAudio = 2
  MaxSegments = 4
  Models = {m1, m2}
  Users = {u1, u2}
  MaxSession = 2
  MaxGeneration = 2
  Texts = {t1}
  Contexts = {n1, n2}
  OcrTargets = {g1}
  Disabled = {1}
  OcrSlots = 1
  Updates = 1
  MaxFrames = 2
  MaxChanges = 1
  MaxIds = 3
  HeldFor = 3
  Grace = 1
  Skew = 1
  MaxChunk = 2
  MaxRestarts = 1
  Speeches = {x1}
  Conversations = {c1, c2}
  FeedCapacity = 1
  MaxTurns = 3
  Kinds = {"plain", "player"}
  LiveInput = 1
  LiveEvents = 1
  MaxMessages = 2
  Long = 3
  Recent = 2
  PreRoll = 2
  MaxChunks = 9
  Talks <- MCTalks
  MaxFailures = 2
  MaxCalls = 3
  MaxMoves = 1
  MaxFaults = 1
INVARIANTS WorkIsAccountedFor StoppedStaysStopped ResultsAreNotMixed
PROPERTIES AnswersAreCurrent ServicesSettle
CHECK_DEADLOCK FALSE
