----------------------------- MODULE MCServices -----------------------------
(***************************************************************************)
(* The services side by side for TLC: translations, recognition by         *)
(* uploads, the local recognition process, the scan of text in view,       *)
(* questions about an image, the audio of a spoken one, the feed of        *)
(* subtitles to the window, sessions of live translation, and the stores   *)
(* of local models.  They share no state at this level, so one of them     *)
(* moves in a behaviour, the one in focus; the others stay as they are     *)
(* created (the audio as it is when its question is over), where none of   *)
(* their fair actions is enabled.                                          *)
(***************************************************************************)
EXTENDS Translations

CONSTANTS
  en, ja, n1,
  UploadQueue, UploadEvents, MaxAudio, MaxSegments,
  Models, Users, MaxSession, MaxGeneration,
  Texts, Contexts, OcrTargets, Disabled, OcrSlots, Updates, MaxFrames, MaxChanges,
  MaxIds,
  HeldFor, Grace, Skew, MaxChunk, MaxRestarts,
  Speeches, Conversations, FeedCapacity, MaxTurns,
  Kinds, LiveInput, Long, Recent, PreRoll, MaxChunks, Talks, MaxFailures, LiveEvents,
  MaxMessages,
  MaxCalls, MaxMoves, MaxFaults

VARIABLES
  focus,
  upPhase, upSegment, upSpeaking, upAudio, upJobs, upQueue, upWorker, upJob,
  upEvents, upShown, upRefused, upValid, upDropped,
  runSelection, runStatus, runSession, runGeneration, runChild, runConnection,
  runStartup, runWaiting, runLaunch, runUser,
  ocrConfig, ocrSeen, ocrGlossary, ocrFrames, ocrScan, ocrSelecting, ocrPending,
  ocrCapture, ocrShown, ocrShownOf, ocrChannel, ocrProgress, ocrWorker, ocrCache,
  vqSettings, vqEnabled, vqHolding, vqDevices, vqRecognition, vqReleased,
  vqDesktop, vqPicker, vqTasks, vqVr, vqUpdates,
  auNow, auDevice, auRestarts, auRunning, auWatermark, auWindow, auReleasing,
  auWorker, auCancelled, auReader, auSince, auSent,
  feSpeech, feRow, feTranslation, feRevoked, feRevoking, feOpen, feSubscribed,
  feConnections, feEvents, feLag, feResults, fePreviews, feEnded, feOpened,
  feFocused, feVersion, feRequest, feLate, fePool, feMissed,
  liKind, liSaid, liSpeech, liInput, liWaiting, liEvents, liOutgoing, liStopped,
  liPhase, liReplay, liActivity, liResume, liPending, liSent, liLost, liHeldBack,
  liFailures, liMessages,
  stBusy, stDirectory, stRoots, stPlace, stJob, stCalls, stLock, stPlamo,
  stHandle, stShown, stChange, stCrowded, stRollbackFailed, stMade, stChanged,
  stFailures

MCTalks == {{1, 6, 7}}
MCUtterances == [session : {1}, number : {1, 2}]
MCMicTargets == {{en}}
MCSpeakerTargets == {{en, ja}}

uploads ==
  <<upPhase, upSegment, upSpeaking, upAudio, upJobs, upQueue, upWorker, upJob,
    upEvents, upShown, upRefused, upValid, upDropped>>

runtime ==
  <<runSelection, runStatus, runSession, runGeneration, runChild,
    runConnection, runStartup, runWaiting, runLaunch, runUser>>

scans ==
  <<ocrConfig, ocrSeen, ocrGlossary, ocrFrames, ocrScan, ocrSelecting,
    ocrPending, ocrCapture, ocrShown, ocrShownOf, ocrChannel, ocrProgress,
    ocrWorker, ocrCache>>

questions ==
  <<vqSettings, vqEnabled, vqHolding, vqDevices, vqRecognition, vqReleased,
    vqDesktop, vqPicker, vqTasks, vqVr, vqUpdates>>

audio ==
  <<auNow, auDevice, auRestarts, auRunning, auWatermark, auWindow, auReleasing,
    auWorker, auCancelled, auReader, auSince, auSent>>

feed ==
  <<feSpeech, feRow, feTranslation, feRevoked, feRevoking, feOpen, feSubscribed,
    feConnections, feEvents, feLag, feResults, fePreviews, feEnded, feOpened,
    feFocused, feVersion, feRequest, feLate, fePool, feMissed>>

live ==
  <<liKind, liSaid, liSpeech, liInput, liWaiting, liEvents, liOutgoing,
    liStopped, liPhase, liReplay, liActivity, liResume, liPending, liSent,
    liLost, liHeldBack, liFailures, liMessages>>

stores ==
  <<stBusy, stDirectory, stRoots, stPlace, stJob, stCalls, stLock, stPlamo,
    stHandle, stShown, stChange, stCrowded, stRollbackFailed, stMade, stChanged,
    stFailures>>

Upload ==
  INSTANCE SegmentedUpload WITH
    QueueCapacity <- UploadQueue, EventCapacity <- UploadEvents,
    phase <- upPhase, segment <- upSegment, speaking <- upSpeaking,
    audio <- upAudio, jobs <- upJobs, queue <- upQueue, worker <- upWorker,
    job <- upJob, events <- upEvents, shown <- upShown, refused <- upRefused,
    valid <- upValid, dropped <- upDropped

Qwen ==
  INSTANCE QwenRuntime WITH
    selection <- runSelection, status <- runStatus, runSession <- runSession,
    generation <- runGeneration, child <- runChild,
    connection <- runConnection, startup <- runStartup,
    waiting <- runWaiting, launch <- runLaunch, user <- runUser

Ocr ==
  INSTANCE OcrScan WITH
    Targets <- OcrTargets, Slots <- OcrSlots, Capacity <- Updates,
    config <- ocrConfig, seen <- ocrSeen,
    glossary <- ocrGlossary, frames <- ocrFrames, scan <- ocrScan,
    selecting <- ocrSelecting, pending <- ocrPending, capture <- ocrCapture,
    shown <- ocrShown, shownOf <- ocrShownOf, channel <- ocrChannel,
    progress <- ocrProgress, worker <- ocrWorker, cache <- ocrCache

Vision ==
  INSTANCE VisionQuestion WITH
    settings <- vqSettings, enabled <- vqEnabled, holding <- vqHolding,
    devices <- vqDevices, recognition <- vqRecognition,
    released <- vqReleased, desktop <- vqDesktop, picker <- vqPicker,
    tasks <- vqTasks, vr <- vqVr, updates <- vqUpdates

Audio ==
  INSTANCE QuestionAudio WITH
    Deadline <- HeldFor, now <- auNow, device <- auDevice,
    restarts <- auRestarts,
    running <- auRunning, watermark <- auWatermark, window <- auWindow,
    releasing <- auReleasing, worker <- auWorker, cancelled <- auCancelled,
    reader <- auReader, since <- auSince, sent <- auSent

Feed ==
  INSTANCE SubtitleFeed WITH
    Utterances <- Speeches, Capacity <- FeedCapacity,
    speech <- feSpeech, row <- feRow, translation <- feTranslation,
    revoked <- feRevoked, revoking <- feRevoking, open <- feOpen,
    subscribed <- feSubscribed, connections <- feConnections,
    events <- feEvents, lag <- feLag, results <- feResults,
    previews <- fePreviews, ended <- feEnded, opened <- feOpened,
    focused <- feFocused, version <- feVersion, request <- feRequest,
    late <- feLate, pool <- fePool, missed <- feMissed

Live ==
  INSTANCE LiveSession WITH
    InputCapacity <- LiveInput, EventCapacity <- LiveEvents,
    kind <- liKind, said <- liSaid,
    speech <- liSpeech, input <- liInput, waiting <- liWaiting,
    events <- liEvents, outgoing <- liOutgoing, stopped <- liStopped,
    phase <- liPhase, replay <- liReplay, activity <- liActivity,
    resume <- liResume, pending <- liPending, sent <- liSent, lost <- liLost,
    heldBack <- liHeldBack, failures <- liFailures, messages <- liMessages

Stores ==
  INSTANCE ModelStores WITH
    MaxChanges <- MaxMoves, MaxFailures <- MaxFaults, busy <- stBusy,
    directory <- stDirectory, roots <- stRoots, place <- stPlace, job <- stJob,
    calls <- stCalls, lock <- stLock, plamo <- stPlamo, handle <- stHandle,
    shown <- stShown, change <- stChange, crowded <- stCrowded,
    rollbackFailed <- stRollbackFailed, made <- stMade, changed <- stChanged,
    failures <- stFailures

ASSUME UploadBounds == Upload!UploadAssumption
ASSUME ScanBounds == Ocr!ScanAssumption
ASSUME VisionBounds == Vision!QuestionAssumption
ASSUME AudioBounds == Audio!AudioAssumption
ASSUME FeedBounds == Feed!FeedAssumption
ASSUME LiveBounds == Live!LiveAssumption
ASSUME RuntimeBounds == Qwen!RuntimeAssumption
ASSUME StoreBounds == Stores!StoresAssumption

\* The audio of a question that is over
AudioOver ==
  /\ auNow = Audio!MaxTime + Grace
  /\ auDevice = "closed" /\ auRestarts = 0
  /\ auRunning = FALSE /\ auWatermark = None /\ auWindow = None
  /\ auReleasing = None /\ auWorker = "stopped" /\ auCancelled = TRUE
  /\ auReader = "failed" /\ auSince = None /\ auSent = << >>

MCInit ==
  /\ focus \in {"translations", "upload", "qwen", "ocr", "vision", "audio", "feed",
                "live", "stores"}
  /\ Init
  /\ focus # "translations" => ~policy.enabled /\ ~policy.supported
  /\ Upload!UploadInit /\ Qwen!RuntimeInit /\ Ocr!ScanInit
  /\ Vision!QuestionInit /\ Feed!FeedInit /\ Live!LiveInit /\ Stores!StoresInit
  /\ focus # "live" => liKind = "plain"
  /\ focus # "stores" => stBusy = "speech" /\ stPlace["speech"] = "old"
  /\ IF focus = "audio" THEN Audio!AudioInit ELSE AudioOver

\* bound: only without a remote message the filter changes and live
\* translations go beyond their announcement, and only then, under a changed
\* filter, a second utterance is heard, which makes it forget the first one
Alone == \A m \in Remotes : record[m] = "absent"
Bounded ==
  /\ \/ Alone
     \/ policy.revision = 0 /\ \A u \in Natives : native[u] \in {"none", "pending"}
  /\ \A u \in Utterances : u.number = 2 =>
       record[u] = "absent" \/ (record[u] = "heard" /\ Alone /\ policy.revision > 0)

\* bound: both eyes and other neighbours in the first scan only, and other
\* neighbours only with unchanged settings
RequestsFound ==
  UNION (ToSet(ocrWorker.images)
           \cup {DOMAIN ocrWorker.blocks[e] : e \in Ocr!Eyes})
OtherContexts(R) == \E r \in R : r.context # n1
ScanBounded ==
  /\ ocrFrames > 1 => ocrWorker.eyes <= 1 /\ ~OtherContexts(RequestsFound)
  /\ OtherContexts(RequestsFound \cup {entry.call.request : entry \in ocrCache}) =>
       ocrConfig + ocrGlossary = 0

\* bound: failures and messages share one budget, of one after the seventh chunk
LiveBounded == liFailures + liMessages <= IF liSaid > 7 THEN 1 ELSE MaxFailures

MCNext ==
  /\ UNCHANGED focus
  /\ focus # "translations" => UNCHANGED vars
  /\ focus # "upload" => UNCHANGED uploads
  /\ focus # "qwen" => UNCHANGED runtime
  /\ focus # "ocr" => UNCHANGED scans
  /\ focus # "vision" => UNCHANGED questions
  /\ focus # "audio" => UNCHANGED audio
  /\ focus # "feed" => UNCHANGED feed
  /\ focus # "live" => UNCHANGED live
  /\ focus # "stores" => UNCHANGED stores
  /\ \/ focus = "translations" /\ Next /\ Bounded'
     \/ focus = "upload" /\ Upload!UploadNext
     \/ focus = "qwen" /\ Qwen!RuntimeNext
     \/ focus = "ocr" /\ Ocr!ScanNext /\ ScanBounded'
     \/ focus = "vision" /\ Vision!QuestionNext
     \/ focus = "audio" /\ Audio!AudioNext
     \/ focus = "feed" /\ Feed!FeedNext
     \/ focus = "live" /\ Live!LiveNext /\ LiveBounded'
     \/ focus = "stores" /\ Stores!StoresNext

MCSpec ==
  /\ MCInit
  /\ [][MCNext]_<<focus, vars, uploads, runtime, scans, questions, audio, feed,
                  live, stores>>
  /\ Fairness
  /\ Upload!UploadFairness /\ Qwen!RuntimeFairness /\ Ocr!ScanFairness
  /\ Vision!QuestionFairness /\ Audio!AudioFairness
  /\ Live!LiveFairness /\ Stores!StoresFairness

-----------------------------------------------------------------------------
(* The properties of the parts                                             *)

\* Translations: what is shown as running is worked on, what is shown as
\* translated is stored; SegmentedUpload: outcomes once and in order, speech
\* in one upload; VisionQuestion: somebody works on what is shown as going on;
\* QuestionAudio: a question is what was said, all of it; SubtitleFeed: the
\* window shows what was announced, except what it is known to miss;
\* LiveSession: speech is sent once and in order, or knowingly given up.
WorkIsAccountedFor ==
  /\ CompletedIsStored /\ StartedIsWorkedOn
  /\ Upload!OutcomesInOrder /\ Upload!SpeechIsUploadedOnce
  /\ Vision!BusyIsWorkedOn
  /\ Audio!QuestionIsWhole /\ Audio!SentWasSaid
  /\ Feed!NothingIsErased
  /\ Live!AudioInOrder /\ Live!SpeechIsKept /\ Live!NothingIsGivenUp

\* QwenRuntime: a stopped or replaced process stays stopped; VisionQuestion:
\* the microphone of a question that was ended is not shared with the next;
\* SubtitleFeed: no preview of speech that has ended stays behind; LiveSession:
\* a connection is closed for silence only; ModelStores: no process runs on a
\* model that was moved or deleted.
StoppedStaysStopped ==
  /\ Qwen!StoppedStaysStopped /\ Vision!OneMicrophone /\ Feed!NoGhosts
  /\ Live!SuspendedInSilence /\ Stores!RunsOnItsModel

\* OcrScan: what is shown, shared and cached belongs to the scan, to the text
\* among its neighbours, to the target and to the glossary it is taken for;
\* VisionQuestion: to the image and the question;
\* SubtitleFeed: to the conversation that is opened; ModelStores: a model is
\* in the directory of the settings.
ResultsAreNotMixed ==
  /\ Ocr!ShownIsCurrent /\ Ocr!EyesAgree /\ Ocr!CacheIsCurrent
  /\ Vision!ContentIsCurrent
  /\ Feed!PoolIsOpened
  /\ Stores!DirectoriesAgree /\ Stores!ModelsAreFound /\ Stores!ShownIsDownloaded

\* Translations: nothing that was taken back goes any further; QwenRuntime:
\* only the running process of its session answers a worker; OcrScan: a scan
\* never takes back a translation.
AnswersAreCurrent ==
  TakenBackIsSilent /\ Qwen!AnswersAreCurrent /\ Ocr!ShownOnlyGrows

\* Every translation is answered, draining ends, whoever asks for the process
\* is answered, a scan ends, a question ends, and its microphone is closed; live
\* sessions take their input, unless the pipeline and they wait for each other,
\* and end; calls for the models are answered.  Messages, questions and calls
\* are finitely many, so that a behaviour comes to rest in all of them at once,
\* which says more than that each of them does again and again; the users of
\* the local process go on asking, each for itself.
AtRest ==
  /\ AllAnswered
  /\ Upload!NotDraining
  /\ Ocr!NoScan
  /\ Vision!NotHolding /\ Vision!DeviceClosed /\ Vision!DesktopSettled
  /\ Vision!OverlaySettled /\ Vision!PickerSettled
  /\ Audio!QuestionOver
  /\ Live!InputMoves /\ Live!StopEnds
  /\ Stores!NoChangeLeft /\ \A u \in Users : Stores!Returned(u)

ServicesSettle == \A u \in Users : []<>(Qwen!Answered(u) /\ AtRest)
=============================================================================
