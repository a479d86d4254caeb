# VRCS: a formal model of the core

VRCS shows subtitles and translations of what is said in VRChat. A Rust core
(`src/core/src`) captures audio, recognizes and translates speech, keeps a
history and sends text to the VRChat Chatbox; a Tauri shell
(`src/apps/desktop/src-tauri/src`) and a React frontend
(`src/apps/desktop/src`) present it. The core is a set of tokio tasks joined by
bounded channels, watch channels, broadcast channels and a few mutexes. This
directory holds TLA+ models of the parts whose correctness depends on how
those tasks interleave, the TLC runs that check them and the TLAPS proofs about
them. Paths below are relative to `src/core/src` unless they start with
`src/`.

    tlc -workers 2 -config OscQueue.cfg MCOscChatbox.tla
    tlapm OscChatboxProofs.tla

## 1. Inventory of the system

| Component | State | Operations | Talks to |
|---|---|---|---|
| OSC Chatbox dispatcher (`osc/mod.rs`) | watch channel with configuration, two revisions and the send gate; event channel of 64; the worker's display queue of 4, message on display, rate limit | publish a subtitle, report a translation or failure, manual send with reply and 8 s timeout, test, update configuration or mute state; worker: take configuration, reduce event, tick, send | subtitle output, settings, mute sync; UDP socket |
| Conversations and titles (`conversation_titles.rs`, `db/conversations.rs`, `server/conversations.rs`) | table `conversations` (status, request id, summary), one permit, `CatalogRefresh` flags | create, rename, delete, request a title; title task: slot, settings, start, ask provider, finish, release; coalesced catalog rebuild | database mutex, LLM provider, websocket |
| Subtitle storage (`db/`) | subtitles, translations, quota | store, trim to the quota, erase a range, clear, recover at startup | everything that stores |
| Transcription pipeline (`pipeline/mod.rs`, `recognition_lifecycle.rs`, `dependencies.rs`) | pre-roll, active and terminated utterances, stop and discard flags | read audio, reduce, execute effects, drain, stop | capture, session, database, output |
| Cloud session (`asr/streaming.rs`, `streaming/reconnect.rs`, `streaming/idle.rs`, `streaming/provider/`) | socket, replay queue, reconnect buffer, channels of 32 | send, commit, recognize, reconnect with replay, idle, close | pipeline, provider |
| Segmented upload (`asr/segmented_upload.rs`) | audio of the segment, bounded job queue | push, commit, upload with retry | pipeline, provider |
| Qwen and PLaMo runtimes (`asr/qwen_runtime.rs`, `translation/plamo_runtime.rs`) | child process, generation, startup lock | ensure started, reconnect, cancel, stop | local processes |
| Translation dispatcher (`translation/dispatcher.rs`) | queue of 64, 4 permits, validity of each job | enqueue, retry once, store, publish | services, database, output |
| Subtitle output and events (`subtitle_output.rs`, `domain_events.rs`) | broadcast channels | publish previews, finals, resets | websocket, overlay, OSC |
| Speaker filter (`microphone_speakers.rs`) | generation, revision, decisions, last 2048 utterances | start, stop, discover, apply, allow | pipeline, translation, OSC, database |
| Capture control (`server/capture.rs`, `startup/tasks.rs`, `vrchat_mute_sync.rs`) | requested and running flags, pipelines, control lock, mute snapshot | start, stop, reload, resume, follow the mute state | pipelines, OSC, settings |
| Settings (`server/settings.rs`, `server/settings/change_plan/`) | configuration | plan, validate, commit, apply after commit | most components |
| Server (`server/`) | sockets, runtime | HTTP handlers, websocket loops | frontend |
| Model stores (`asr/manager.rs`, `asr/qwen_models/`, `translation/local_models.rs`, `ocr/assets.rs`) | directory, download jobs, a table of jobs, a fair read-write lock or a lock that is tried | download, cancel, verify, delete, move to another directory | settings, runtimes, translations |
| OCR scan (`ocr/`, `src/apps/desktop/src-tauri/src/vr_overlay/ocr_runtime.rs`) | scan id, capture, blocks of each eye, translation cache, channel of updates | frame, capture, recognize, translate, show, clear | compositor, translation services |
| Image questions (`vision/`, `desktop_vision/runtime.rs` and `vr_overlay/vision_runtime.rs` of the shell) | state of the window and of the panel, the microphone guard, audio window | capture, record, release, finalize, ask, cancel, close | microphone, recognition, provider |
| Window (`src/apps/desktop/src/core-client`, `conversations`, `subtitles`) | live previews, opened conversation, pool of subtitles, request in flight | follow events, open, refresh | websocket, HTTP handlers |
| Player audio, learning, dictionaries, integrations, startup | their own | mostly request and answer | files, services |
| Desktop shell and VR overlay | windows | rendering, input | server |

`PROJECT.json` lists every component with its status, and under `hazards` the
places where this code is hard to test. The behaviours behind most of them:

* revisions read by one task and compared by another (`is_current`), a
  configuration that changes while a packet waits for the socket;
* a bounded queue with two classes of messages, eviction and re-insertion;
* long-running tasks over database rows that other handlers change, dropped
  handlers, panics, restarts;
* two tasks, two bounded channels and a reply, in both directions at once;
* reconnection with replay, late and repeated results, stopping in the middle;
* a filter that takes back what is already queued, sent to a service or stored;
* processes and devices that are stopped while somebody still starts them;
* answers that arrive after the image, the text or the conversation they are
  about was replaced;
* directories moved store by store, with downloads, users and a rollback.

What makes each component correct: the dispatcher must answer every manual
send once, prefer them, respect gate and rate limit and never show older text;
titles must not reveal erased speech nor stay busy; the catalog must catch up
with the database; the pipeline must neither repeat, reorder nor mix audio,
publish a result once, take back every preview and stop; capture must run what
was asked for and nothing else, whatever fails, and follow VRChat's mute. A
translation must end, and must not go on once its subtitle was taken back; an
upload must contain what was said, once; a process that was stopped must stay
stopped; a scan, an image question or a page must not show what belongs to
another; a microphone must be given back; the three model stores must stay in
one directory.

## 2. Modules

| Module | Models | Kind |
|---|---|---|
| `Chatbox` | what the dispatcher promises to callers and readers | abstract specification |
| `OscChatbox` | the dispatcher handle and its worker; implements `Chatbox` | specification, properties |
| `MessageQueue` | operations of the sequences the modules hold: `VecDeque::retain`, `position` | two operators |
| `MCOscChatbox` | instances of `OscChatbox` for TLC | constants |
| `MessageQueueProofs` | what the operators on sequences return | proofs |
| `OscChatboxProofs` | theorems about `OscChatbox`, and that it implements `Chatbox` | proofs |
| `Conversations` | conversations, titles, catalog | specification, properties |
| `ConversationsProofs` | theorems about `Conversations` | proofs |
| `CloudRecognition` | pipeline and cloud session | specification, properties |
| `CloudRecognitionProofs` | theorems about `CloudRecognition` | proofs |
| `CaptureControl` | start, stop, settings changes, reloads, mute coordinator | specification, properties |
| `CaptureControlProofs` | theorems about `CaptureControl` | proofs |
| `MCCaptureControl` | instances of `CaptureControl` for TLC | constants |
| `MicrophoneSpeakers` | the speaker filter | operators and state, used by `Translations` |
| `Translations` | a message from its storing to its translations | specification, properties |
| `SegmentedUpload` | recognition by uploads | specification, properties |
| `LiveSession` | sessions of live translation | specification, properties |
| `QwenRuntime` | the local recognition process and its users | specification, properties |
| `ModelStores` | the stores of local models and their directory | specification, properties |
| `OcrScan` | a scan of the text in view | specification, properties |
| `VisionQuestion` | questions about an image | specification, properties |
| `QuestionAudio` | the microphone of one spoken question | specification, properties |
| `SubtitleFeed` | from the publisher of subtitles to the window | specification, properties |
| `MCServices` | the nine services from `Translations` on for TLC | composition, constants |
| `ServicesProofs`, `ServicesAnswers`, `ServicesWork` | theorems about the nine services: what stays stopped and apart, answers, work | proofs |

Operators whose name ends in a suffix such as `_Silent` or `_Any` and that carry
the comment "mutant" are plausible bugs of the definition that follows them.
No specification uses them. `PROJECT.json` pairs each with the property it
breaks.

### 2.1 OscChatbox

State. `config` and `unseen` are the watch channel (value, and whether the
worker's receiver has seen the last change). `channel` is the mpsc channel.
`reply` is what each `send_manual` call has been told. The worker's fields keep
their names; `phase` is the place in its loop. `blocked` is the
environment's speaker filter. `display`, `newest`, `spacing` and `leaked` are
history that only properties read.

Atomicity. A publisher borrows the watch value and calls `try_send` in one
step. No await lies between them, but threads run in parallel; a
revision read just before a change is the same as the event arriving just
before it. A reduction with its effects is one step, because nothing it touches
is shared except through the channels. `select!` is biased: `TakeConfig` comes
first, `PollEvents` records that the configuration had nothing new, then
`Receive` or, with an empty channel, `Tick`. A send is a sequence:
`Tick` takes the message (`sending`), an automatic one polls the
configuration again (`ArmAutomatic` or `CancelByConfig`), then one attempt is
made (`armed`): `Deliver`, `FailSend`, `WouldBlock` (poll again) or
`FilterInflight`. A configuration that changes between poll and attempt is
thus seen too late, once.

Time is a set of countdowns. `wait` stands for `ready_at - now`, `last_send` and
`age` are ages capped where the code stops telling values apart. `Advance` may
happen at any moment, so a tick may come as late as it likes.

Abstraction. A subtitle is its database id. Texts are members of `Contents`
(text, origin and group text in one). A message keeps the fields the reducer
reads. `wait_for_translation` is true exactly if there are targets (its only
caller is `pipeline/dependencies.rs`). Rendering, the drop counter and the
runtime status are left out. `ConfigClosed` (the dispatcher itself is dropped)
is not modelled.

Refinement. `Chatbox` has no channel, queue, revision or clock: a manual message
that was accepted is pending until it is shown or given up, its caller learns
which unless it has stopped waiting, and the subtitles of the microphone never
go back. `Promise == INSTANCE Chatbox WITH pending <- ...` maps `pending` to the
messages some part of the dispatcher holds (channel, queue or message in
flight); `reply`, `display` and `newest` keep their names. Everything the worker
does in between is a stutter of `Chatbox`; an eviction, a cancellation or a
discarded queue is one `GiveUp` of a set. `ImplementsChatbox` is checked by
`osc_gate` (gates, failures, timeouts) and by `osc_queue` (evictions).

### 2.2 Conversations

Every `db_call` locks the one database mutex inside `spawn_blocking`
(`server/mod.rs`, `db_call`) and is one step; it completes even if its caller is
dropped. What lies between two calls is a state: a handler that has read the
settings (`calls`), a title task that waits for the slot, has read the settings,
is asking the provider or has failed (`jobs`), a refresh that has been asked
for or is waiting for the mutex (`refresh`), a remote message that is stored
but not announced (`remote`).

A subtitle is its id, a conversation is a record with its set of subtitles. A
summary is the number of erasures its conversation had seen when the text
was read, which is all that `NoErasedSpeech` needs to know. Trimming deletes a
prefix of the ids, of any length that leaves the newest subtitle
(`DELETE_BATCH_SIZE` is abstracted). Blank texts, which are not stored, and the
order of conversations are left out.

`abandoned` and `lost` are history: the requests whose task never existed or
failed to release its row because the database refused that as well, and a
catalog that is behind because a revoked message asked for no refresh. The
passing runs state their properties up to these two; `titles_dropped` shows the
first of them is real.

### 2.3 CloudRecognition

One pipeline and one session of a realtime provider with LocalCommit
segmentation (Qwen, TokenPlan, OpenAI, Gemini). `run` is the place in the
pipeline's loop, `effects` the queue of `execute`; `task` is the place in the
session. `audio` and `events` are the bounded channels, `reply` the one-shot
of a commit. `outgoing` holds the events the session is about to send: while
it is not empty the session does nothing else, which is what awaiting
`events.send` means.

A chunk is its number, so order and repetition can be seen; each chunk and commit
also carries the local segment it belongs to. An utterance is the number of
its commit; utterances of an earlier socket get no more results. The provider may
send partial, final and failed events for the utterances of the socket in any
order and number, and errors without an utterance. Packets, throttling times,
VAD and the echo guard are nondeterministic or left out.

`mixed` are the utterances that hold audio of two segments. Two things mix
them: a commit that the reconnect buffer has dropped, and a stop, which sends all
queued audio and folds the commits among it into one last commit
(`asr/streaming.rs:692`). `SegmentsKeptApart` therefore speaks of every utterance
but that last one.

### 2.4 CaptureControl

All calls that reconfigure capture hold the mutex `capture_control`, so at most
one runs: it is `job`, a record with its kind, its place (`at`) and what it
remembers. A place ends where the code awaits something others can see or
interrupt: the microphone test and other stopped tasks that end (`test`, `join`),
the file, the preparation of runtimes
and network, the joined starts of microphone and speaker (`open`), the external
API, and the end of the commit. `SettingsChangePlan::rollback` is a
second pass with `undo`. A failed start stops its siblings (`failed`) and only
then rolls back.

Between those steps pipelines fail, VRChat reports its mute state, the mute sync
starts over, and the mute coordinator looks and waits for the mutex. A handler
whose client goes away is dropped at its current place (`Drop`): the task it
was waiting for ends later, unobserved, and stops the speaker filter then.

The device of the microphone has two users. `microphone` is the pipeline's task,
`draining` the one a job has stopped and waits for, and `detached` counts those
whose waiting job was dropped. `monitor` is the same for the microphone test:
`run` is where its task is, which a job that starts or stops it joins first, and
`left` counts stopped tasks nobody waits for. Each of these tasks holds the device
until it has seen its stop, so `TestAlone` is about all of them.

A configuration is the six facts that capture decides by. Which devices,
which backend, the language session, the OSC configuration, player audio and
the local model runtimes are left out; a runtime that does not start is a failed
preparation. The two cells of the mute status are written one after the
other by one task and are one variable. `broken`, `skewed` and `leaked` are
history: the last microphone start failed or was dropped, a dropped job or a
failed rollback has left its work half done, and the speaker filter is that of
a candidate that was rolled back. The last one is a real leftover:
`start_microphone_pipeline` sets the filter of the candidate before the change
commits, and a rollback that does not restart the microphone (VRChat has muted
meanwhile, or the restart fails) does not set it back. `SettingsAgree` holds up
to that.

### 2.5 MicrophoneSpeakers and Translations

The filter is one mutex, so each of its operations is a step, and so is a
commit made under `with_allowed`. An utterance is a session and a number,
because only the ids of live translation name their connection. Eviction of the
oldest utterance happens in the run too: it has two utterances, and
`MaxUtterances` is 1. The second one is heard and goes no further, so that its
only effect is the eviction.

`Translations` EXTENDS the filter and follows each message (an utterance or a
remote Chatbox message): `record` is how far the pipeline or the recorder has
come, `queue`, `loop` and `granted` are the dispatcher's channel, its current job
and the permits it has taken so far, `task` is `process_job` per target with its
admission, its first and second attempt, the delay in between, the storing and
the report. `native` is the translation that comes with the recognition. The
filter and the player session may take a message back between any two of
these steps. A service answers, fails for good, or fails in a way that is tried
again. A message of somebody else has up to two targets and there are two permits,
so that a job which needs both stands before one that needs one, and a job is taken
back while it has one of them.

### 2.6 SegmentedUpload and LiveSession

`SegmentedUpload` is the pipeline's loop with an upload session: the audio of a
segment, a commit that the full queue refuses (its audio goes back and merges
with what follows), one worker, the channel of events, draining. A job is the
sequence of segments its audio was spoken in.

`LiveSession` is a Continuous session. `phase` is the place in
`run_with_reconnect`: a connection in use, one that is closed for silence while
its input is collected, suspended, resuming (with `waiting` between attempts),
reconnecting after a failure, a player's session that waits to be spoken in
(`quiet`), draining. A chunk of audio is its number, and `speech` says which of
them the local detector takes for speech. `resume` is `ResumeBuffer` with its
pre-roll, its count of triggers and its limit; `pending` is `ReconnectBuffer`.
As in `CloudRecognition`, the session awaits `events.send` on a bounded channel:
`outgoing` counts the events it has to send before it does anything else (only
what it collects while a connection is closed for silence goes on), and `waiting`
is the pipeline with a chunk in its hand, which takes no event until there is
room. What the events say is abstracted. A session that has failed or drained is
`ending` until its last event is sent. Chunks given up knowingly (an overflow, a stale tail of a shared quota, a stop
without a connection, a chunk that could not be sent) are in `lost`. What is
`Heard` is the speech outside `lost`, and `SpeechIsKept` says that none of it is
missing where somebody speaks, which takes two chunks of it in a row. Four kinds of providers
are modelled; the run uses the two that differ most, `plain` and `player`.

The two tasks can wait for each other (`Stalled`), for the reason `cloud_stall`
shows for the other sessions. `InputMoves` says that this is the only way for the
pipeline to be kept waiting, and `StopEnds` that a stop the session is told of
ends it; a stalled pipeline tells it of none.

### 2.7 QwenRuntime and ModelStores

`QwenRuntime` has one step per critical section of the state's mutex. Starting
spans several of them under the startup lock, which is served in turn, while
`stop` and `cancel_loading` need only the mutex. The process may exit at any
moment and is noticed by the next `check_child`. The PLaMo runtime has the same
structure and is not modelled twice.

`ModelStores` holds the three stores with the guard each really has: the table
of jobs of the speech models, the fair read-write lock that a download of the
translation model keeps, and the lock of the text models that is only tried.
Users act on one of them (`busy`) while the change of the directory moves all
three in the order of `ModelDirectoryChange::apply`, and back in the order of
`rollback`. A step that fails before anything was moved leaves nothing to roll
back. Whether a model is present is one value per store (`place`): the files'
contents, verification and the moving itself are abstracted to success or
failure. `crowded` and `rollbackFailed` are history; see section 4.

### 2.8 OcrScan, VisionQuestion and QuestionAudio

`OcrScan` is the overlay's runtime with the task it spawns. A request is a text,
the neighbours that `group_context` selects for it, and a target: the same text in
both eyes is one request only among the same neighbours, and the cache keeps the
other apart. What `group_context` selects is a member of `Contexts`. An image is
the set of requests of its blocks, one per target. `worker` is the task or what is left of it after an
abort: updates it has sent stay in the channel.

`VisionQuestion` has the desktop manager, the panel in the headset and the
service behind both. A question is a mode and an id; a task whose id is no longer
current has been aborted and may go on for a while or be dropped at any time with
the session it owns. `holding` and `devices` are the two owners of the
microphone guard, the session and the worker that closes the device.

`QuestionAudio` counts time in the instants at which samples are taken. The device
pushes chunks with an estimated time that may be off by `Skew`, may be lost and
start again; the release is an instant taken before the lock is there; the
reader sends while it is said. `QuestionIsWhole` is about exactly the samples
between press and release.

### 2.9 SubtitleFeed

The publisher's announcements, the broadcast channels with their lag, the socket,
and the window with its previews, the opened conversation, the page request in
flight and its late continuation. Of a subtitle the window knows its text, or its
text and translation. What the window is known to miss (dropped for a slow
client, announced before it subscribed, overtaken by its translation, not read
again because another request was in flight) is in `missed`.

### 2.10 MCServices

The nine services share no state at this level: `Translations` and `SubtitleFeed`
meet only through the publisher, the runtimes only through the settings.
Interleaving them would multiply their states and show nothing, so `MCServices`
composes them with a variable `focus`: a behaviour moves the service in focus
and leaves the others as they are created, where none of their fair actions is
enabled (`AudioOver` is the audio after its question for that reason). Each
property of the run is the conjunction of the parts' properties, named by its
theme; the parts' definitions carry their own comments.

Three bounds keep the composition small, none of which the proofs use. `Bounded`
keeps three things for behaviours without a remote message: a change of the
filter, the second utterance (under a changed filter) and what follows the
announcement of a live translation; `ScanBounded` keeps the second eye and other neighbours for the
first scan, and other neighbours for unchanged settings; `LiveBounded` lets events
of a connection and its failures share one budget of two, of one after the
seventh chunk.

The liveness of the services is one property. `AtRest` says that each of them has
nothing left to answer, and `ServicesSettle` that this holds of all of them again
and again. Messages, questions, scans and calls are finitely many, so this is at
least what "each of them does again and again" would say. The users of the local
process go on asking and are each asked for by name.

### 2.11 How they fit together

The modules meet at the code's own interfaces. `CloudRecognition.Publish` of a
final is what `Conversations.RecognizeSubtitle` and
`OscChatbox.PublishSubtitle` start from, and `CaptureControl.CoordinatorLooks` is
a caller of `OscChatbox.UpdateMuteStatus`. Those interfaces carry a subtitle id
and no feedback, so the modules are checked separately, each with the others as
an unconstrained environment. This over-approximates: any subtitle may come at
any time.

## 3. Runs

| Run | Instance | Shows |
|---|---|---|
| `osc_gate` | 1 manual, 1 test, 1 subtitle; 2 configuration changes; mute sync and output on or off; socket bound or not; speaker blocked; fairness | `TypeOK`, `HeldIsCurrent`, `ResponderConserved`, `MuteLeaksAtMostOne`, `CancelledByConfigOnly`, `RateLimit`, `ImplementsChatbox`, `ManualAnswered` |
| `osc_queue` | 3 manuals (symmetric), 2 subtitles, display queue of 2, late translations | `ManualsFirst`, `EvictedByManualOnly`, `NoRollback`, `ImplementsChatbox` |
| `osc_translations` | 2 subtitles, 2 languages, 3 strategies, 4 results; fairness | `ResolvedIsReady`, `QueueDrains` |
| `titles` | 3 conversations, 2 subtitles, 2 requests, 1 erasure, 1 trouble | `NoErasedSpeech`, `AutoOffLeaksAtMostOne`, `BusyHasTask`, `SummaryKept` |
| `catalog` | remote messages and translations as writers, 2 troubles, fairness | `TypeOK`, `StaleIsNoticed`, `TitleSettles` |
| `cloud` | 2 chunks, 2 provider messages, 2 faults, fairness | `TypeOK`, `AudioInOrder`, `PreviewsTracked`, `FinalOnce`, `SegmentsKeptApart`, `FinalsSurviveStop`, `StopEnds` |
| `capture` | 3 settings (both sources with filter and mute sync; microphone and Chatbox text; nothing), 2 failures, 1 dropped call | `TypeOK`, `RunningIsRequested`, `TestAlone`, `SettingsAgree`, `RollbackRestoresRequest`, `MutedIsPaused`, `ResumedWhenUnmuted` |
| `services` | one service at a time, see below; fairness | `WorkIsAccountedFor`, `StoppedStaysStopped`, `ResultsAreNotMixed`, `AnswersAreCurrent`, `ServicesSettle` |
| `titles_dropped` | violation | `BusyIsReleased` |
| `cloud_stall` | violation | `PipelineNeverStalls` |
| `cloud_boundary` | violation | `BoundariesKept` |
| `capture_resume` | violation | `RunningIsHeard` |

The parts of `services`:

| Focus | Instance | Parts of the properties |
|---|---|---|
| `translations` | 2 utterances of which 1 is remembered, 1 remote message, 2 languages besides the native one (a remote message may have both), 2 permits, channel of 1, 2 changes of the filter | `CompletedIsStored`, `StartedIsWorkedOn`, `TakenBackIsSilent`, `AllAnswered` |
| `upload` | 4 segments, queue and events of 1, 2 chunks a job | `OutcomesInOrder`, `SpeechIsUploadedOnce`, `NotDraining` |
| `live` | 9 chunks of which 1, 6 and 7 are speech, silence of 3, input and events of 1, 2 failures or events | `AudioInOrder`, `SpeechIsKept`, `NothingIsGivenUp`, `SuspendedInSilence`, `InputMoves`, `StopEnds` |
| `qwen` | 2 models, 2 users, 2 sessions, 2 processes | `StoppedStaysStopped`, `AnswersAreCurrent`, `Answered` |
| `stores` | 2 users with 3 calls, 1 change of the directory, 1 failure | `DirectoriesAgree`, `ModelsAreFound`, `RunsOnItsModel`, `ShownIsDownloaded`, `NoChangeLeft`, `Returned` |
| `ocr` | 1 text among 2 kinds of neighbours in two eyes, 1 target, 2 frames, 1 request at a time, 1 change | `ShownIsCurrent`, `EyesAgree`, `CacheIsCurrent`, `ShownOnlyGrows`, `NoScan` |
| `vision` | 3 questions, 1 change of the settings | `BusyIsWorkedOn`, `OneMicrophone`, `ContentIsCurrent`, `NotHolding`, `DeviceClosed`, `DesktopSettled`, `OverlaySettled`, `PickerSettled` |
| `audio` | 3 instants, chunks of 2, 1 lost device | `QuestionIsWhole`, `SentWasSaid`, `QuestionOver` |
| `feed` | 1 utterance, 2 conversations, channel of 1, 3 turns | `NothingIsErased`, `NoGhosts`, `PoolIsOpened` |

Why the bounds suffice. A display queue of 2 has a front, a back and an overflow;
three manuals fill it and ask for one more; two subtitles give an older
and a newer one. An event channel of 1 or 2 is full as soon as the worker
is busy. Two configuration changes give three revisions: the one an event
carries, the one the worker knows and the newest. Two title requests compete for
the one permit. Two faults fail a reconnection. `cloud_boundary` takes six
chunks because the boundary that gets lost has to be older than the overflow. Of
`capture`'s two failures the first starts a rollback and the second meets it; its
three settings reach every kind of reload, the isolation of a failed source by
an active text, and a change that leaves nothing to capture. In `services` every
queue and channel holds one element, so it is full while one more waits; two
changes of the filter block a speaker and allow it again; 9 chunks with speech
at 1, 6 and 7 close a session, wake it with its pre-roll, fill the
resume buffer and the input channel behind it, and leave one in the pipeline's
hand; two events and a channel of one make the session wait in turn; three calls of the stores are a download, its cancellation and a
competitor; three questions are one that is replaced, its successor and one in
the other mode. Each property has a mutant that TLC refutes under the same bounds, so the
interesting case does occur within them.

The symmetry of `osc_queue` permutes manual sends, which differ only in their
identity; the run checks safety properties only. `CHECK_DEADLOCK FALSE`
stands in the three cloud configurations and in `Services.cfg` because a pipeline,
a session or a question that has ended really has nothing left to do once the
bounded inputs are used up.

### Fairness

* `OscChatbox`: the worker is a tokio task, so weakly fair; time advances; and an
  automatic message whose socket keeps reporting readiness is at last written
  or fails (strong fairness of `Deliver` or `FailSend`, since `WouldBlock` takes the
  message out of reach each time). Callers are not fair: nobody must publish
  and no manual caller has to time out.
* `Conversations`: title tasks step (weak), every provider request has a
  timeout (`conversation_titles.rs`), and the semaphore is first come, first
  served, so a task that keeps finding the slot free gets it (strong). Refresh
  timers run out. Users, panics and restarts are not fair.
* `CaptureControl` has no liveness run. What VRChat's mute must bring about is stated
  as an invariant of the states in which the coordinator has nothing left to do,
  which is stronger than an eventuality and needs no fairness.
* The services: a tokio task that can step does (weak, one condition per task, or
  per user of a lock that is served in turn); timers and deadlines run out;
  a provider's request ends because its client has a timeout or the code has a
  deadline around it; downloads end because their client times out or their
  cancellation is watched. Users, devices, filters and settings owe nothing.
  `VrTick` and `Tick` of the overlay are its frame loop.
* `CloudRecognition`: both tasks step, and a connection attempt ends. The
  provider, the microphone and the user owe nothing; `finish_aligned` has a
  deadline.

## 4. What the runs found

* `titles_dropped`. `request_conversation_title` marks the row `pending` in the
  database and the handler spawns the task afterwards. A handler dropped in
  between (the client closes its connection) leaves a busy row that no task
  owns, until the program starts again.
* `cloud_stall`. With a full event channel the session waits for the pipeline
  to read events, and the pipeline for the session to take audio or to answer
  a commit. Neither can go on, and `stop` waits for the pipeline for ever. The
  comments at `asr/streaming.rs:530` and `reconnect.rs:10` exclude this.
* `cloud_boundary`. A second disconnection while the first is being replayed,
  longer than the reconnect buffer, drops a commit and not its audio: two
  segments become one utterance, against the comment at `reconnect.rs:65`.
* `capture_resume`. Pausing the microphone stops the speaker filter, and
  `resume_microphone` starts the pipeline without starting the filter. With the
  filter enabled the resumed microphone is rejected entirely until capture is
  restarted, although the interface says capture resumes automatically.

Limits of the code that the models state as exceptions, or leave out and say so:

* `ServicesSettle` excepts two calls that cancel one speech download: its end
  wakes one waiter (`notify_one`, `asr/qwen_models/manager.rs:139`), the other waits
  for ever, and is the only call that may (`Returned`). The translation store uses a watch
  and has a test for this case.
* The stall of `cloud_stall` exists for sessions of live translation as well
  (`asr/streaming.rs:790`, `pipeline/mod.rs:752`): `InputMoves` names it as the one
  exception.
* `TestAlone` does not say that a microphone test never meets another user of the
  device. A stop whose client goes away while it joins the task leaves that task
  holding the device until `capture.shutdown()` (`pipeline/mod.rs:944`), and a test
  or a start may begin meanwhile. It bounds such tasks by the dropped calls and
  excludes every other overlap.
* `SegmentsKeptApart` excepts the last utterance of a session that is stopped, into
  which all queued segments are folded, as `asr/streaming.rs:693` says.
* `DirectoriesAgree` holds unless a rollback has reported a failure: the way back
  of the speech models is refused by a download that began after they had moved,
  and that of the text models while they are used, although they may not have
  moved at all.
* `SpeechIsKept` excludes a connection that silence closes while it still replays
  older input: that input, speech included, waits until somebody speaks again
  (`asr/streaming.rs:723`). Stopping without a connection gives up what is
  buffered. It speaks of `Heard`: a chunk of speech whose neighbour was given up
  for a failure no longer counts as somebody speaking. A version over all of
  `speech` fails on instances larger than those of the run, where such a chunk is
  alone in the input that a suspended session collects, and is not kept.
* `SpeechIsUploadedOnce`: the audio of a refused commit is carried by the next
  segment, unless that has no speech, which discards both
  (`asr/segmented_upload.rs:142`).
* `QwenRuntime` leaves out a race of an exiting process: one that answers the probe,
  exits and is reaped before its start publishes the connection leaves a
  connection without a process until the next stop (`asr/qwen_runtime.rs:330`).
* `CacheIsCurrent` compares the glossary with that of the request's key; a glossary
  that is changed and changed back during a request is not told apart by the
  code (`ocr/tasks.rs:466`) and not by the bounds.
* `NothingIsErased` lists in `missed` what the window really misses, above all a
  translation that overtakes its subtitle, and what was dropped for a slow window,
  which does not read the subtitles again.
* `TakenBackIsSilent` speaks of utterances the filter still remembers. One it has
  forgotten and hears again is a new utterance to it, and is decided anew
  (`microphone_speakers.rs`).
* `ResolvedIsReady` allows a subtitle whose targets are all resolved to wait on if
  it has the translation it desires: when a sentence group takes a language out of a
  subtitle, the desired language moves to the first that is left
  (`osc/mod.rs:682`), which may be translated already, and `ready_at` keeps its
  time as long as another target is open. The subtitle is then shown when that time
  is over, with its translation. The two
  languages of `osc_translations` are too few for this; the proof covers it.

Two observations that are not violations of anything the code says. A mute-gate
change that cancels an automatic send discards all of the queue; manual sends
survive only because none of them stands behind an automatic message. That is
`ManualsFirst`, and the proof of `CancelledByConfigOnly` needs it. And a
cancelled send clears `last_send`; the rate limit holds because a message is in
flight only once the interval has passed (`RateInv`).

## 5. Proofs

TLAPS 1.4.5 with Z3, Zenon and LS4. Every safety invariant and every action
property of the passing runs is stated by a theorem, for every value of the
constants; so is the refinement of `Chatbox`. The proofs use neither fairness nor
the bounds `Bounded`, `ScanBounded` and `LiveBounded` of `MCServices`.

Assumptions. Each module names what it asks of its constants: their types, that
the models' `None` is not one of the values it stands beside, and

* `OscAssumption`: the targets of a subtitle are a list without duplicates
  (`validate_translation_targets`, `config/validation.rs:760`), and callers and
  subtitles are told apart;
* `TranslationsAssumption`: a message has no more targets than there are permits
  (three at most in the same function, four permits in `translation/dispatcher.rs:125`);
* `LiveAssumption`: the pre-roll holds the two chunks that wake a session;
* `ScanAssumption`, `FeedAssumption`: texts and utterances are finitely many.

They stand as `ASSUME` in the modules (those of the services in `MCServices`, as
`UploadBounds` to `StoreBounds`), and the runs evaluate all of them.

`MessageQueueProofs` proves what `Keep` (retain), `FirstIn` (position),
`InsertAt` and `RemoveAt` return. `Keep` is a recursive function; that it is
well defined and keeps exactly the wanted elements in order is
`KeepProperties`, proved with an induction on its prefix that needs no
operator-valued theorem.

### 5.1 The dispatcher

`OscChatboxProofs` proves `Spec => []TypeOK`. `TypeInv` adds that a message is in
flight while the worker is sending. `Derived(r, q)` says that `r` comes from `q`
by losing messages and changing them in place; all queue operations are either
that or the arrival of one message, which is the shape of every later
argument.

| Theorem | Invariant | Why it is needed |
|---|---|---|
| `ManualsStandFirst` | `ManualsInv`: manual messages form a prefix | is inductive itself, given what each queue operation preserves |
| `RateLimited` | `RateInv`: `last_send` never exceeds `spacing`, and a message in flight has waited | the property speaks of `spacing`, the guard of `last_send` |
| `MuteLeaksAtMostOneMessage` | `GateInv`: after a leak the worker can arm no further automatic packet before it has seen the closed gate | the count alone does not say why a second one cannot follow |
| `HeldMessagesAreCurrent` | `CurrentInv` | the property, strengthened to the event in transit from the channel to the queue |
| `CancelledOnlyByConfig` | `AdmittedInv`, `BehindInv` | a waiting call's message carries the revision it has read, and nothing manual stands behind an automatic message in flight |
| `EvictedOnlyByManual` | the above | who is turned away by `Enqueue` |
| `ResolvedSubtitlesAreReady` | `AimInv`: what a message desires is among what it expects, and it has failed finitely often | `AllTargetsResolved` counts failures, so a count must be turned into the languages (`FailedCount`) |

Then follows what leaves the dispatcher:

| Theorem | Invariant | Why it is needed |
|---|---|---|
| `SubtitlesNeverGoBack` | `OrderInv`: display, message in flight, queue and channel hold subtitles in the order of their publication, except for a refresh of the one on display | the property speaks of one delivery, which takes what the other places have let through |
| `RespondersAreConserved` | `HolderInv`: a manual message is in one place at most, and held exactly while its caller waits | `Holders` counts places; a caller that stopped waiting may be held or not |
| `KeepsItsPromise` | `TypeInv`, `OrderInv`, `HolderInv` | step by step: a step of the dispatcher tells exactly the callers whose messages leave it, shows what `Chatbox` may show, or stutters |

### 5.2 Capture control

`CaptureControlProofs` proves the types and all six properties, for every set of
settings and any number of failures and dropped calls. `AfterFailureJob` to
`NotifyJob` say once how each step leaves the job; the invariants are then proved
one after the other, each from those before it, and `CaptureInv` is all of them
but those of `CaptureResumes`.

| Theorem | Invariant | Why it is needed |
|---|---|---|
| `CaptureTypeCorrect` | `TypeInv`: a task nobody waits for has used up a dropped call; `TestInv`: a stopped task somebody waits for has its job | bounds `detached` and `monitor.left` |
| `CaptureMutedIsPaused` | `MuteInv`: a pause has told the gate, a resume that is not `unseen` is not muted, and the coordinator's own jobs have its state | the property says nothing of the states in which the coordinator still has something to do |
| `CaptureRunningIsRequested` | `JobInv`, `RunInv`: where each kind of job may be, and that whoever starts pipelines is a start or finds capture requested | the property speaks of the states between jobs |
| `CaptureTestAlone` | `TestInv`: a test goes on only beside jobs that start nothing, and a job that starts or stops it waits for its task | a settings change that began beside a test must not reload |
| `CaptureSettingsAgree` | `FileInv`, `SyncInv`, `FilterInv`: what the file holds at each step of a change and of its rollback | the property speaks of the states between jobs |
| `CaptureRollback` | `FileInv`: `capture_requested` at each step | a rollback may itself fail at several places |
| `CaptureResumes` | `ResumeInv`: `WakeInv` (what the coordinator decided on), `TargetInv` (the settings a job starts with), `BrokenInv` (a failed start says so), `HeardInv` (a wanted microphone runs unless a job is about to start it) | the property holds between jobs; in the middle of one the microphone is promised by its plan and target |

### 5.3 Conversations and titles

`ConversationsProofs` first says what users and writers do to the rows, so that
the invariants of titles need only look at the steps of a title task.

| Theorem | Invariant | Why it is needed |
|---|---|---|
| `ConversationsTypeCorrect` | `TypeInv`: exactly one conversation is active, none exists before it is created | trimming and deletion choose among the ended ones |
| `BusyConversationsHaveTasks` | `TitleInv`: busy rows are ended ones with a request that was registered, and a task that has not begun leaves its row pending | who may write a row is decided by its request |
| `TitlesForgetErasedSpeech` | `SummaryInv`: the text of a task that is asking is newer than the last erasure, as long as its row waits for it | an erasure during the request must take the request away |
| `SummariesAreKept` | `TypeInv` | an action property: each step that takes a summary is an erasure or a deletion |
| `AutoOffStopsTitles` | `SlotInv`, `AutoInv`: one task holds the slot; after a late request no other task still believes in the setting | the count does not say why a second one cannot follow |
| `StaleCatalogsAreNoticed` | `StaleInv`: a failing task whose row waits for it counts as notice | that task asks for the refresh only after its write |

### 5.4 The pipeline and its cloud session

`CloudRecognitionProofs` stands on `TypeInv` and `FlowInv` (which effects the
pipeline may be executing, whom a reply is for, when the session has been told to
stop); these give every later proof the same few cases of a step. `Stream` is
the socket's current utterance followed by everything on its way to it.

| Theorem | Invariant | Why it is needed |
|---|---|---|
| `CloudTypeCorrect` | `TypeInv`, `FlowInv` | bounds of the buffers depend on what may be in them |
| `AudioStaysInOrder` | `OrderInv`: chunks rise along replay, reconnect buffer, channel, effects and pre-roll, all above `sent` | the property speaks of one step of sending |
| `SegmentsAreKeptApart` | `SegmentInv`, `ApartInv`: a commit stands between any two segments of the stream until something is dropped or the session is stopped | a segment may be spread over five places |
| `PreviewsAreTracked` | `PreviewInv`: what is about to be published ends the preview | termination and publication are two steps |
| `SubtitlesAreFinalOnce` | `OnceInv`: published or about to be means terminated, or forgotten | the lifecycle remembers terminations up to a limit |
| `FinalResultsSurvive` | `KeptInv`: `OverInv` (nothing is left behind at the end), `DoneInv`, `ReceivedInv` (a final result is in a place until settled) | the result passes the session's events, the channel, the drained list and the effects |

### 5.5 The services

The theorems are those of `MCSpec`. Each service has an inductive invariant of its
own; a step of another service leaves it alone. `ServicesProofs` has the first two
theorems, `ServicesAnswers` the third and `ServicesWork` the last.

| Theorem | Invariant | Part |
|---|---|---|
| `StoppedStaysStoppedHolds` | `StoresInv`: who holds the lock (`StoreLockInv`), where a download writes (`StorePlaceInv`), which stores a change has moved and moved back (`StoreRootsInv`) | `RunsOnItsModel` |
| | `MicrophoneInv`: one owner over session and device | `OneMicrophone` |
| | `QueueInv`, `SessionInv`: whoever carries the session of now does so because a selection is wanted | `Qwen!StoppedStaysStopped` |
| | `LiveInv`: what was counted as silence was sent | `SuspendedInSilence` |
| | `GhostInv`: a preview that is not recognized any more is followed by its end in the channel | `NoGhosts` |
| `ResultsAreNotMixedHolds` | `ShownInv`, `AnswerInv`, `GlossaryInv`: blocks agree with the answers of the scan, wherever an update is; a request is between two glossaries; `CacheInv`: an entry of the cache was made by a call for the request of its key | `ShownIsCurrent`, `EyesAgree`, `CacheIsCurrent` |
| | `ContentInv`: an id is never that of a capture and of a request, and nothing was cleared since a current capture | `ContentIsCurrent` |
| | `PoolInv`: pages, late ones too, belong to their conversation | `PoolIsOpened` |
| | `StoresInv` | `DirectoriesAgree`, `ModelsAreFound`, `ShownIsDownloaded` |
| `AnswersAreCurrentHolds` | `TransInv`: `FilterInv`, `AdmitInv` (what was announced is allowed or gone), `SlotsInv`, `NativesInv` | `TakenBackIsSilent` |
| | `LinkInv`: one session per generation, over the connection, its copies and the start under way | `Qwen!AnswersAreCurrent` |
| | `GrowInv`, `AskInv`: shown, completed, found and result include each other; a text is asked for once | `ShownOnlyGrows` |
| `WorkIsAccountedForHolds` | `TransInv` | `CompletedIsStored`, `StartedIsWorkedOn` |
| | `OutcomeInv`, `SpeechInv`: outcomes, events and jobs follow without a gap; a segment is in the buffer or in one job | `OutcomesInOrder`, `SpeechIsUploadedOnce` |
| | `DeskInv`, `PanelInv`: every busy state has its task, or its answer on the way | `BusyIsWorkedOn` |
| | `RecordInv`: the window is the instants from the press up to the watermark, and what was sent is a prefix of it | `QuestionIsWhole`, `SentWasSaid` |
| | `ErasedInv`: what was announced is shown, missed, in a channel or on a page that was read | `NothingIsErased` |
| | `LineInv`, `GivenInv`, `KeptInv`: audio stands in line over five buffers; what a suspended session does not collect has nobody speaking in it (`Collected`) | `AudioInOrder`, `NothingIsGivenUp`, `SpeechIsKept` |

What the attempts at these proofs changed in the model: `ResolvedIsReady` and
`SpeechIsKept` were not invariants of all instances and say now what does hold
(section 4), and `None` had to be told apart from the values beside it.

### 5.6 Model-checked only

The liveness properties `ManualAnswered`, `QueueDrains`, `TitleSettles`,
`StopEnds` and `ServicesSettle`: they need fairness and `ENABLED`, which are out of
the prover's reach. The four runs that expect a violation are counterexamples
and have nothing to prove.

## 6. What is not modelled, and the plan

Done: the dispatcher with its abstract specification, capture control,
conversations, cloud recognition and the nine services, modelled and checked, and
their safety proved. What is left is breadth.

Candidates for modules: the language session of capture control (a reload after
a changed credential ignores it), player audio's sessions, the ordered shutdown
(`lib.rs`), the package of the Qwen runtime, ServerVad providers, the catalog of
a lagging window.

Not planned: signal processing (VAD, Smart Turn, echo guard, player audio
decoding), text processing (prompts, glossaries, rendering, dictionaries),
configuration migration, the clients of external services, rendering in the
shell, the overlay and the frontend (most of the repository's lines). They are
sequential transformations of data without protocol, and examples test them
better than a model.
