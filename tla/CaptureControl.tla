--------------------------- MODULE CaptureControl ---------------------------
(***************************************************************************)
(* Starting, stopping and reconfiguring the capture                        *)
(* (src/core/src/server/capture.rs, server/settings/change_plan.rs and     *)
(* change_plan/capture.rs, startup/tasks.rs, vrchat_mute_sync.rs,          *)
(* microphone_speakers.rs).                                                *)
(*                                                                         *)
(* Every reconfiguration is a job that holds capture_control: a start, a   *)
(* stop, a change of settings, a reload, and the mute coordinator pausing  *)
(* or resuming the microphone.  While a job runs, pipelines fail, VRChat   *)
(* mutes and unmutes, and the client of an HTTP call may go away, which    *)
(* drops the job at its current await.                                     *)
(*                                                                         *)
(* The language session, the OSC configuration and the local model         *)
(* runtimes a job also sets belong to other components; a runtime that     *)
(* cannot be prepared is a failed preparation here.  Player audio as the   *)
(* source of the speaker pipeline is not modelled.                         *)
(***************************************************************************)
EXTENDS Integers, FiniteSets

CONSTANTS
  Configs,      \* the settings, as far as capture reads them
  MaxTrouble,   \* bound: failed starts, saves, pipelines and networks
  MaxDrops,     \* bound: HTTP calls whose client goes away
  None

Config ==
  [microphone : BOOLEAN,           \* audio.microphone.mode # "disabled"
   speaker    : BOOLEAN,           \* audio.output.mode # "disabled"
   chatbox    : BOOLEAN,           \* vrchat_chatbox.enabled
   filter     : BOOLEAN,           \* audio.microphone.speaker_filter_enabled
   mute_sync  : BOOLEAN,           \* osc.mute_sync_enabled
   diarized   : BOOLEAN]           \* asr: a backend that names speakers

ASSUME CaptureAssumption ==
  /\ Configs # {} /\ Configs \subseteq Config
  /\ MaxTrouble \in Nat /\ MaxDrops \in Nat

VARIABLES
  requested,    \* capture_requested
  config,       \* the settings in memory
  saved,        \* the settings in the file
  microphone, speaker,  \* pipelines whose task is running
  draining,     \* the microphone task the job has stopped and waits for
  detached,     \* stopped microphone tasks nobody waits for
  network,      \* the Chatbox text subscription
  monitor,      \* the microphone test: where its task is (run), and the
                \* stopped tasks of it nobody waits for (left)
  speakers,     \* SpeakerSnapshot
  status,       \* VrchatMuteStatus
  enabled,      \* the watch that tells the mute sync its setting
  coordinator,  \* the mute coordinator: where it is
  unseen,       \* the status has changed since its last wait
  gate,         \* the mute state the OSC dispatcher was told last
  job,          \* what holds capture_control
  trouble, drops,  \* how much of the bounds is left
  broken,       \* the last attempt to run the microphone failed or was dropped
  skewed,       \* a dropped or failed job has left its work half done
  leaked        \* the speaker filter is that of a candidate never committed

pipelines == <<microphone, speaker, draining, detached, network>>
mute == <<status, enabled, coordinator, unseen, gate>>
history == <<trouble, drops, broken, skewed, leaked>>
vars == <<requested, config, saved, pipelines, monitor, speakers, mute, job,
          history>>
-----------------------------------------------------------------------------
(* CaptureReloadPlan: the parts a job stops and starts.                    *)

Audio == {"microphone", "speaker"}
All == Audio \cup {"chatbox"}

HasSources(c) == c.microphone \/ c.speaker

Between(c, d) ==
  {p \in All : c[p] # d[p]} \cup IF c.diarized # d.diarized THEN Audio ELSE {}

(***************************************************************************)
(* A job.  target is the configuration its pipelines start with, next the  *)
(* candidate of a settings change; microphone and speaker are the          *)
(* outcomes of the joined starts.                                          *)
(***************************************************************************)
Kinds == {"start", "stop", "settings", "glossary", "credential", "pause",
          "resume", "test"}

Steps == {"test", "stop", "join", "save", "prepare", "open", "restore",
          "external", "commit", "notify"}

Job ==
  [kind : Kinds,
   at   : Steps,
   plan : SUBSET All,
   target : Configs,
   next : Configs,
   microphone : {"skip", "todo", "connecting", "ok", "failed"},
   speaker : {"skip", "todo", "ok", "failed"},
   reload : BOOLEAN,      \* CaptureChange::reload
   was : BOOLEAN,         \* capture_requested when the job began
   applied : BOOLEAN,     \* PersistedConfigChange::applied
   failed : BOOLEAN,      \* stopping what a failed start has left
   undo : BOOLEAN]        \* rolling back, or a second try

ASSUME NoneAssumption == None \notin Job

NewJob(kind, at, plan, target) ==
  [kind |-> kind, at |-> at, plan |-> plan, target |-> target,
   next |-> target, microphone |-> "skip", speaker |-> "skip",
   reload |-> TRUE, was |-> requested, applied |-> FALSE, failed |-> FALSE,
   undo |-> FALSE]

Free == job = None

At(step) == job # None /\ job.at = step

Go(step) == job' = [job EXCEPT !.at = step]

Trouble ==
  /\ trouble > 0
  /\ trouble' = trouble - 1

\* The job is over and releases capture_control.
Done ==
  /\ job' = None
  /\ coordinator' = IF job.kind \in {"pause", "resume"} THEN "wait"
                                                        ELSE coordinator

\* The job goes on as j, or is over when j is None.
Continue(j) == IF j = None THEN Done ELSE job' = j /\ UNCHANGED coordinator

\* SettingsChangePlan::rollback begins.
Rollback ==
  [job EXCEPT !.undo = TRUE, !.failed = FALSE,
              !.at = IF job.reload THEN "stop" ELSE "restore"]

\* What a job does whose pipelines did not start.
AfterFailure ==
  IF job.undo THEN {None}
  ELSE CASE job.kind = "settings" -> {Rollback}
         \* restore_credential, and a second try unless that fails
         [] job.kind = "credential" ->
              {None, [job EXCEPT !.undo = TRUE, !.failed = FALSE,
                                 !.at = "stop"]}
         [] OTHER -> {None}

\* What a job does whose pipelines have started.
AfterStart ==
  IF job.kind = "settings" /\ ~job.undo
    THEN [job EXCEPT !.at = "external", !.microphone = "skip",
                     !.speaker = "skip"]
    ELSE None
-----------------------------------------------------------------------------
(* MicrophoneSpeakers                                                      *)

StartSpeakers(c) ==
  speakers' = [enabled |-> c.filter, supported |-> c.diarized, running |-> TRUE]

StopSpeakers == speakers' = [speakers EXCEPT !.running = FALSE]

\* with_allowed, for an utterance whose speaker is known and not blocked.
Allows == speakers.enabled => speakers.running /\ speakers.supported
-----------------------------------------------------------------------------
Init ==
  /\ config \in Configs /\ saved = config
  /\ requested = FALSE
  /\ microphone = FALSE /\ speaker = FALSE /\ network = FALSE
  /\ draining = FALSE /\ detached = 0
  /\ monitor = [run |-> "off", left |-> 0]
  /\ speakers = [enabled |-> config.filter, supported |-> FALSE,
                 running |-> FALSE]
  /\ status = [enabled |-> config.mute_sync, muted |-> "unknown"]
  /\ enabled = [value |-> config.mute_sync, changed |-> FALSE]
  /\ coordinator = "wait" /\ unseen = TRUE /\ gate = "unknown"
  /\ job = None
  /\ trouble = MaxTrouble /\ drops = MaxDrops
  /\ broken = FALSE /\ skewed = FALSE /\ leaked = FALSE
-----------------------------------------------------------------------------
(* Calls that take capture_control                                         *)

\* Mutant: the microphone test goes on.
StopTest_Not == UNCHANGED monitor

\* MicrophoneMonitor::stop tells the task to stop; who called it waits.
StopTest == monitor' = [monitor EXCEPT !.run = IF @ = "on" THEN "closing"
                                                          ELSE @]

\* capture_start: refused while anything is requested or running.
CaptureStart ==
  /\ Free
  /\ HasSources(config) \/ config.chatbox
  /\ ~requested /\ ~speaker /\ ~microphone
  /\ StopTest
  /\ job' = NewJob("start", "test", All, config)
  /\ UNCHANGED <<requested, config, saved, pipelines, speakers, mute, history>>

CaptureStop ==
  /\ Free
  /\ requested' = FALSE
  /\ job' = NewJob("stop", "stop", All, config)
  /\ UNCHANGED <<config, saved, pipelines, monitor, speakers, mute, history>>

\* SettingsChangePlan::build and the first step of apply.  A changed profile
\* that recognition uses reloads everything.
ChangeSettings(c) ==
  LET resume == c.chatbox \/ HasSources(c)
  IN \E plan \in IF resume THEN {Between(config, c), All} ELSE {All} :
       LET reload == requested /\ plan # {}
       IN /\ Free
          /\ job' = [NewJob("settings", IF reload THEN "stop" ELSE "save", plan,
                            c) EXCEPT !.reload = reload]
          /\ UNCHANGED <<requested, config, saved, pipelines, monitor, speakers,
                         mute, history>>

\* reload_glossary_asr_context and the reload after a changed credential.
Reload(kind, plan) ==
  /\ Free /\ requested
  /\ job' = NewJob(kind, "stop", plan, config)
  /\ UNCHANGED <<requested, config, saved, pipelines, monitor, speakers, mute,
                 history>>

\* microphone_test_start
MicrophoneTest ==
  /\ Free
  /\ ~requested /\ ~speaker /\ ~microphone /\ config.microphone
  /\ monitor' = [monitor EXCEPT !.run = "on"]
  /\ UNCHANGED <<requested, config, saved, pipelines, speakers, mute, job,
                 history>>

\* microphone_test_stop
MicrophoneTestStop ==
  /\ Free
  /\ StopTest
  /\ job' = NewJob("test", "test", {}, config)
  /\ UNCHANGED <<requested, config, saved, pipelines, speakers, mute, history>>
-----------------------------------------------------------------------------
(* Steps of a job                                                          *)

\* The task of the test has ended.
TestStopped ==
  /\ At("test") /\ monitor.run # "closing"
  /\ Continue(IF job.kind = "start" THEN [job EXCEPT !.at = "prepare"]
                                     ELSE None)
  /\ UNCHANGED <<requested, config, saved, pipelines, monitor, speakers,
                 status, enabled, unseen, gate, history>>

\* stop_pipelines: detach the text, take the tasks and tell them to stop.
StopPipelines ==
  /\ At("stop")
  /\ network' = (network /\ "chatbox" \notin job.plan)
  /\ microphone' = (microphone /\ "microphone" \notin job.plan)
  /\ speaker' = (speaker /\ "speaker" \notin job.plan)
  /\ draining' = (microphone /\ "microphone" \in job.plan)
  /\ Go("join")
  /\ UNCHANGED <<requested, config, saved, detached, monitor, speakers, mute,
                 history>>

\* The microphone task the job waits for ends: finish_recognition_session.
Drained ==
  /\ draining
  /\ draining' = FALSE
  /\ StopSpeakers
  /\ UNCHANGED <<requested, config, saved, microphone, speaker, detached,
                 network, monitor, mute, job, history>>

\* Mutant: the handle of a stopped task is dropped, and not awaited.
Joined_Early ==
  /\ At("join") /\ ~job.failed
  /\ Continue(CASE job.kind \in {"stop", "pause"} -> None
                [] job.kind = "settings" ->
                     [job EXCEPT !.at = IF job.undo THEN "restore" ELSE "save"]
                [] OTHER -> [job EXCEPT !.at = "prepare"])
  /\ UNCHANGED <<requested, config, saved, pipelines, monitor, speakers,
                 status, enabled, unseen, gate, history>>

\* The stopped tasks have ended.
Joined ==
  /\ At("join") /\ ~draining
  /\ \/ /\ job.failed
        /\ \E j \in AfterFailure : Continue(j)
     \/ /\ ~job.failed
        /\ Continue(CASE job.kind \in {"stop", "pause"} -> None
                      [] job.kind = "settings" ->
                           [job EXCEPT !.at = IF job.undo THEN "restore"
                                                          ELSE "save"]
                      [] OTHER -> [job EXCEPT !.at = "prepare"])
  /\ UNCHANGED <<requested, config, saved, pipelines, monitor, speakers,
                 status, enabled, unseen, gate, history>>

\* persisted_config.apply, and capture_requested when no source is left;
\* the model directory, the runtime or the file may fail.
SaveSettings ==
  /\ At("save")
  /\ \/ /\ saved' = job.next
        /\ LET resume == job.next.chatbox \/ HasSources(job.next)
           IN /\ job' = [job EXCEPT
                !.applied = TRUE,
                !.at = IF job.reload /\ resume THEN "prepare" ELSE "external"]
              /\ requested' = (requested /\ ~(job.reload /\ ~resume))
        /\ UNCHANGED trouble
     \/ /\ Trouble
        /\ job' = Rollback
        /\ UNCHANGED <<saved, requested>>
  /\ UNCHANGED <<config, pipelines, monitor, speakers, mute, drops, broken,
                 skewed, leaked>>

\* Mutants: the file keeps the candidate; capture is left stopped.
PreviousFile_Candidate == saved
StillRequested_Not == requested

PreviousFile == IF job.applied THEN config ELSE saved
StillRequested == requested \/ job.reload

\* persisted_config.rollback, and restore starts what was running.
RestoreSettings ==
  /\ At("restore")
  /\ \/ /\ saved' = PreviousFile
        /\ UNCHANGED <<trouble, skewed>>
     \/ /\ job.applied /\ Trouble /\ skewed' = TRUE
        /\ UNCHANGED saved
  /\ requested' = StillRequested
  /\ Continue(IF job.reload
                THEN [job EXCEPT !.at = "prepare", !.target = config]
                ELSE None)
  /\ UNCHANGED <<config, pipelines, monitor, speakers, status, enabled,
                 unseen, gate, drops, broken, leaked>>

\* start_planned_pipelines up to the join: runtimes and the network.
Prepare ==
  /\ At("prepare")
  /\ \/ /\ network' = job.target.chatbox
        /\ job' = [job EXCEPT
             !.at = "open",
             !.microphone = IF "microphone" \in job.plan THEN "todo"
                                                           ELSE "skip",
             !.speaker = IF "speaker" \in job.plan THEN "todo" ELSE "skip"]
        /\ UNCHANGED <<coordinator, trouble, broken>>
     \/ /\ Trouble /\ broken' = TRUE
        /\ \E j \in AfterFailure : Continue(j)
        /\ UNCHANGED network
  /\ UNCHANGED <<requested, config, saved, microphone, speaker, draining,
                 detached, monitor, speakers, status, enabled, unseen, gate,
                 drops, skewed, leaked>>

\* Mutant: the mute state is not read.
StaysPaused_Not == FALSE

StaysPaused == status.muted = "muted"

\* start_microphone_pipeline reads the mute state once, before it connects.
OpenMicrophone ==
  /\ At("open") /\ job.microphone = "todo"
  /\ IF ~job.target.microphone \/ StaysPaused
       THEN /\ job' = [job EXCEPT !.microphone = "skip"]
            /\ UNCHANGED <<speakers, leaked>>
       ELSE /\ job' = [job EXCEPT !.microphone = "connecting"]
            /\ StartSpeakers(job.target)
            /\ leaked' = (job.target.filter # config.filter)
  /\ UNCHANGED <<requested, config, saved, pipelines, monitor, mute, trouble,
                 drops, broken, skewed>>

\* TranscriptionPipeline::start returns.
ConnectMicrophone ==
  /\ At("open") /\ job.microphone = "connecting"
  /\ \/ /\ microphone' = TRUE
        /\ job' = [job EXCEPT !.microphone = "ok"]
        /\ broken' = FALSE
        /\ UNCHANGED <<speakers, trouble>>
     \/ /\ Trouble /\ broken' = TRUE
        /\ job' = [job EXCEPT !.microphone = "failed"]
        /\ IF job.kind = "resume" THEN UNCHANGED speakers ELSE StopSpeakers
        /\ UNCHANGED microphone
  /\ UNCHANGED <<requested, config, saved, speaker, draining, detached,
                 network, monitor, mute, drops, skewed, leaked>>

OpenSpeaker ==
  /\ At("open") /\ job.speaker = "todo"
  /\ \/ /\ ~job.target.speaker
        /\ job' = [job EXCEPT !.speaker = "skip"]
        /\ UNCHANGED <<speaker, trouble>>
     \/ /\ job.target.speaker
        /\ speaker' = TRUE
        /\ job' = [job EXCEPT !.speaker = "ok"]
        /\ UNCHANGED trouble
     \/ /\ job.target.speaker /\ Trouble
        /\ job' = [job EXCEPT !.speaker = "failed"]
        /\ UNCHANGED speaker
  /\ UNCHANGED <<requested, config, saved, microphone, draining, detached,
                 network, monitor, speakers, mute, drops, broken,
                 skewed, leaked>>

\* Mutant: a failed start leaves the other source running.
StopRest_Not == AfterFailure

StopRest ==
  {[job EXCEPT !.at = "stop", !.failed = TRUE, !.microphone = "skip",
               !.speaker = "skip"]}

\* Both starts have returned.  A failure is isolated while the text of the
\* Chatbox is active; otherwise everything of the plan is stopped again.
\* Only now does capture_start say that capture is requested.
Opened ==
  /\ At("open")
  /\ job.microphone \notin {"todo", "connecting"} /\ job.speaker # "todo"
  /\ LET failed == "failed" \in {job.microphone, job.speaker}
         isolated == job.kind = "resume" \/ (job.target.chatbox /\ network)
     IN IF failed /\ ~isolated
          THEN /\ \E j \in StopRest : Continue(j)
               /\ broken' = TRUE
               /\ UNCHANGED requested
          ELSE /\ Continue(AfterStart)
               /\ requested' = (requested \/ job.kind = "start")
               /\ UNCHANGED broken
  /\ UNCHANGED <<config, saved, pipelines, monitor, speakers, status, enabled,
                 unseen, gate, trouble, drops, skewed, leaked>>

\* external_api.apply.
ApplyExternal ==
  /\ At("external")
  /\ \/ Go("commit") /\ UNCHANGED trouble
     \/ Trouble /\ job' = Rollback
  /\ UNCHANGED <<requested, config, saved, pipelines, monitor, speakers, mute,
                 drops, broken, skewed, leaked>>

\* PostCommitUpdates::apply, up to its first await.
CommitSettings ==
  /\ At("commit")
  /\ config' = job.next
  /\ speakers' = [speakers EXCEPT !.enabled = job.next.filter]
  /\ leaked' = FALSE
  /\ Go("notify")
  /\ UNCHANGED <<requested, saved, pipelines, monitor, mute, trouble, drops,
                 broken, skewed>>

\* The rest of it.  update_enabled wakes the mute sync even when its setting
\* is the old one.
NotifySettings ==
  /\ At("notify")
  /\ enabled' = [value |-> job.next.mute_sync, changed |-> TRUE]
  /\ Done
  /\ UNCHANGED <<requested, config, saved, pipelines, monitor, speakers,
                 status, unseen, gate, history>>

\* The client of the call goes away and its handler is dropped.
Drop ==
  /\ job # None /\ job.kind \notin {"pause", "resume"}
  /\ drops > 0 /\ drops' = drops - 1
  /\ job' = None
  /\ draining' = FALSE
  /\ detached' = detached + (IF draining THEN 1 ELSE 0)
  /\ monitor' = IF monitor.run = "closing"
                  THEN [run |-> "off", left |-> monitor.left + 1] ELSE monitor
  /\ broken' = TRUE /\ skewed' = TRUE
  /\ UNCHANGED <<requested, config, saved, microphone, speaker, network,
                 speakers, mute, trouble, leaked>>
-----------------------------------------------------------------------------
(* Pipelines that end on their own                                         *)

MicrophoneFails ==
  /\ microphone /\ Trouble
  /\ microphone' = FALSE /\ broken' = TRUE
  /\ StopSpeakers
  /\ UNCHANGED <<requested, config, saved, speaker, draining, detached,
                 network, monitor, mute, job, drops, skewed, leaked>>

SpeakerFails ==
  /\ speaker /\ Trouble
  /\ speaker' = FALSE
  /\ UNCHANGED <<requested, config, saved, microphone, draining, detached,
                 network, monitor, speakers, mute, job, drops, broken,
                 skewed, leaked>>

NetworkFails ==
  /\ network /\ Trouble
  /\ network' = FALSE
  /\ UNCHANGED <<requested, config, saved, microphone, speaker, draining,
                 detached, monitor, speakers, mute, job, drops, broken,
                 skewed, leaked>>

\* A stopped microphone task nobody waits for ends.
DetachedEnds ==
  /\ detached > 0
  /\ detached' = detached - 1
  /\ StopSpeakers
  /\ UNCHANGED <<requested, config, saved, microphone, speaker, draining,
                 network, monitor, mute, job, history>>

\* A task of the test ends: it was told to, or its device has failed.
TestEnds ==
  /\ \/ /\ monitor.run # "off"
        /\ monitor' = [monitor EXCEPT !.run = "off"]
     \/ /\ monitor.left > 0
        /\ monitor' = [monitor EXCEPT !.left = @ - 1]
  /\ UNCHANGED <<requested, config, saved, pipelines, speakers, mute, job,
                 history>>
-----------------------------------------------------------------------------
(* The mute sync and the mute coordinator                                  *)

SetStatus(s) ==
  /\ status' = s
  /\ unseen' = (unseen \/ s # status)

\* run: its setting was written, so it starts over.
FollowSetting ==
  /\ enabled.changed
  /\ enabled' = [enabled EXCEPT !.changed = FALSE]
  /\ SetStatus([enabled |-> enabled.value, muted |-> "unknown"])
  /\ UNCHANGED <<requested, config, saved, pipelines, monitor, speakers,
                 coordinator, gate, job, history>>

\* VRChat mutes, unmutes or goes away.
ReportMute ==
  /\ status.enabled
  /\ \E m \in {"muted", "unmuted", "unknown"} :
       m # status.muted /\ SetStatus([status EXCEPT !.muted = m])
  /\ UNCHANGED <<requested, config, saved, pipelines, monitor, speakers,
                 enabled, coordinator, gate, job, history>>

\* Mutant: the microphone is resumed by an unmute only.
MayResume_Unmuted == status.muted = "unmuted"

MayResume == status.muted = "unmuted" \/ ~status.enabled

\* The coordinator, woken by a change, takes a snapshot, tells the OSC
\* dispatcher and decides.
CoordinatorLooks ==
  /\ coordinator = "wait" /\ unseen
  /\ unseen' = FALSE
  /\ gate' = status.muted
  /\ coordinator' = IF status.muted = "muted" THEN "pause"
                    ELSE IF MayResume THEN "resume" ELSE "wait"
  /\ UNCHANGED <<requested, config, saved, pipelines, monitor, speakers,
                 status, enabled, job, history>>

\* It has capture_control: stop_discarding_results.
CoordinatorPauses ==
  /\ coordinator = "pause" /\ Free
  /\ job' = NewJob("pause", "stop", {"microphone"}, config)
  /\ UNCHANGED <<requested, config, saved, pipelines, monitor, speakers, mute,
                 history>>

\* It has capture_control: resume_microphone.
CoordinatorResumes ==
  /\ coordinator = "resume" /\ Free
  /\ IF ~requested \/ microphone \/ ~config.microphone
       THEN /\ coordinator' = "wait"
            /\ UNCHANGED job
       ELSE /\ job' = [NewJob("resume", "open", {}, config)
                         EXCEPT !.microphone = "connecting"]
            /\ UNCHANGED coordinator
  /\ UNCHANGED <<requested, config, saved, pipelines, monitor, speakers,
                 status, enabled, unseen, gate, history>>
-----------------------------------------------------------------------------
Call ==
  \/ CaptureStart
  \/ CaptureStop
  \/ \E c \in Configs : ChangeSettings(c)
  \/ Reload("glossary", Audio)
  \/ Reload("credential", All)
  \/ MicrophoneTest \/ MicrophoneTestStop

JobStep ==
  \/ TestStopped \/ StopPipelines \/ Drained \/ Joined
  \/ SaveSettings \/ RestoreSettings
  \/ Prepare \/ OpenMicrophone \/ ConnectMicrophone \/ OpenSpeaker \/ Opened
  \/ ApplyExternal \/ CommitSettings \/ NotifySettings

Environment ==
  \/ Drop
  \/ MicrophoneFails \/ SpeakerFails \/ NetworkFails
  \/ DetachedEnds \/ TestEnds
  \/ FollowSetting \/ ReportMute

Coordinator ==
  CoordinatorLooks \/ CoordinatorPauses \/ CoordinatorResumes

Next == Call \/ JobStep \/ Environment \/ Coordinator

Spec == Init /\ [][Next]_vars
-----------------------------------------------------------------------------
(* Properties                                                              *)

\* The coordinator has acted on the last change of the status.
Settled == coordinator = "wait" /\ ~unseen

\* Every variable keeps its type, and a stopped task that somebody waits for
\* has a job that does.
TypeOK ==
  /\ requested \in BOOLEAN /\ microphone \in BOOLEAN /\ speaker \in BOOLEAN
  /\ draining \in BOOLEAN /\ network \in BOOLEAN
  /\ unseen \in BOOLEAN
  /\ broken \in BOOLEAN /\ skewed \in BOOLEAN /\ leaked \in BOOLEAN
  /\ config \in Configs /\ saved \in Configs
  /\ detached \in 0..MaxDrops
  /\ monitor \in [run : {"on", "closing", "off"}, left : 0..MaxDrops]
  /\ draining => At("join")
  /\ monitor.run = "closing" => At("test")
  /\ speakers \in [enabled : BOOLEAN, supported : BOOLEAN, running : BOOLEAN]
  /\ status \in [enabled : BOOLEAN, muted : {"muted", "unmuted", "unknown"}]
  /\ enabled \in [value : BOOLEAN, changed : BOOLEAN]
  /\ coordinator \in {"pause", "resume", "wait"}
  /\ gate \in {"muted", "unmuted", "unknown"}
  /\ job \in Job \cup {None}
  /\ trouble \in 0..MaxTrouble /\ drops \in 0..MaxDrops

\* Between jobs nothing runs that capture_stop was asked to end: pipelines run
\* only while capture is requested, whatever failed on the way.  (A dropped
\* call is the exception.)
RunningIsRequested ==
  Free /\ (microphone \/ speaker) => requested \/ skewed

\* A microphone test that runs, or that a job is ending, has the microphone
\* to itself: capture is not requested, no pipeline runs, ends under a job or
\* is being started.  What else may still hold the device is a stopped task,
\* of the pipeline or of an earlier test, that a dropped call was waiting for:
\* nobody waits for it any more, so the next user may begin before it has
\* closed the device.  Each such task took a dropped call of its own.
TestAlone ==
  /\ monitor.run # "off" => ~requested /\ ~microphone /\ ~draining /\ ~At("open")
  /\ detached + monitor.left <= MaxDrops - drops

\* A change of settings is all or nothing: between jobs the file holds the
\* settings in memory, and the speaker filter and the mute sync follow them.
SettingsAgree ==
  Free /\ ~skewed =>
    /\ saved = config
    /\ enabled.value = config.mute_sync
    /\ speakers.enabled = config.filter \/ leaked

\* A change of settings that is rolled back leaves capture requested as it
\* was; one that is committed does so too, unless it leaves nothing to capture.
RollbackRestoresRequest ==
  [][job # None /\ job' = None /\ job.kind = "settings" /\ drops' = drops =>
       requested' = IF job.undo \/ job.next.chatbox \/ HasSources(job.next)
                      THEN job.was ELSE FALSE]_vars

\* The interface says that VRChat's mute pauses the microphone and blocks the
\* Chatbox.  Whenever the coordinator has nothing left to do, both hold: no
\* start that raced with the mute has left a microphone behind, or is about to.
MutedIsPaused ==
  Settled /\ status.muted = "muted" =>
    /\ gate = "muted"
    /\ ~microphone /\ ~(At("open") /\ job.microphone = "connecting")

\* ... "then resume automatically": a microphone that is wanted then runs,
\* unless its last start has failed or was dropped.
ResumedWhenUnmuted ==
  /\ Settled /\ Free
  /\ status.muted = "unmuted" \/ ~status.enabled
  /\ requested /\ config.microphone
  => microphone \/ broken

\* A microphone that runs is heard: what it recognizes of a known speaker who
\* is not blocked passes the speaker filter.
RunningIsHeard ==
  Free /\ microphone /\ config.diarized => Allows
=============================================================================
