------------------------ MODULE CaptureControlProofs ------------------------
(***************************************************************************)
(* The safety properties of CaptureControl, for all settings and any       *)
(* number of failures and dropped calls.  The inductive invariant says     *)
(* where each kind of job can be and what it has written by then; it is    *)
(* proved in parts, each from the parts before it: types, the mute         *)
(* coordinator, the steps of the jobs, what a change of settings has       *)
(* written, what runs, the microphone test.                                *)
(***************************************************************************)
EXTENDS CaptureControl, TLAPS

-----------------------------------------------------------------------------
(* Inductive invariants                                                    *)

Resumes(c) == c.chatbox \/ HasSources(c)

\* A job of this kind is under way.
Doing(kind) == job # None /\ job.kind = kind

\* The rollback of a change of settings is past restoring the file.
Restored == job.undo /\ (job.at \in {"prepare", "open"} \/ job.failed)

\* What the coordinator remembers, and its own jobs.
MuteInv ==
  /\ coordinator = "pause" => gate = "muted"
  /\ coordinator = "resume" /\ ~unseen => status.muted # "muted"
  /\ Doing("pause") =>
       /\ coordinator = "pause" /\ job.plan = {"microphone"}
       /\ job.at \in {"stop", "join"} /\ ~job.failed
       /\ job.at = "join" => ~microphone
  /\ Doing("resume") => coordinator = "resume" /\ job.at = "open"
  /\ MutedIsPaused

\* Where each kind of job can be, and what it has stopped there.
JobInv ==
  /\ job # None /\ job.at = "join" =>
       /\ "microphone" \in job.plan => ~microphone
       /\ "speaker" \in job.plan => ~speaker
  /\ Doing("start") =>
       /\ job.plan = All
       /\ \/ job.at \in {"test", "prepare", "open"}
          \/ job.at \in {"stop", "join"} /\ job.failed
  /\ Doing("test") => job.at = "test"
  /\ Doing("stop") =>
       job.plan = All /\ job.at \in {"stop", "join"} /\ ~job.failed
  /\ Doing("glossary") \/ Doing("credential") =>
       job.at \in {"stop", "join", "prepare", "open"}
  /\ Doing("pause") => job.at \in {"stop", "join"} /\ ~job.failed
  /\ Doing("resume") => job.at = "open"
  /\ Doing("settings") =>
       /\ job.at # "test"
       /\ ~job.reload => job.at \notin {"stop", "join", "prepare", "open"}
       /\ job.at \in {"prepare", "open"} => ~job.failed
       /\ job.at \in {"save", "external", "commit", "notify"} =>
            ~job.failed /\ ~job.undo
       /\ job.at = "restore" => job.undo /\ ~job.failed
       /\ job.at = "save" /\ job.reload =>
            /\ "microphone" \in job.plan => ~microphone
            /\ "speaker" \in job.plan => ~speaker

\* While nothing is requested, what runs belongs to a start or a stop.
RunInv ==
  /\ (microphone \/ speaker) /\ ~requested /\ ~skewed =>
       \/ Doing("start") /\ job.at \in {"open", "stop"}
       \/ Doing("stop") /\ job.at = "stop"
  /\ job # None /\ job.at \in {"prepare", "open"} /\ job.kind # "start" =>
       requested
  /\ Doing("glossary") \/ Doing("credential") => requested

\* The microphone test goes on only beside jobs that start nothing.
TestInv ==
  /\ draining => At("join")
  /\ monitor.run = "closing" => At("test")
  /\ At("test") => monitor.run # "on"
  /\ monitor.run # "off" =>
       /\ Doing("start") => At("test")
       /\ Doing("settings") => ~job.reload
  /\ TestAlone

\* What a change of settings has written and cleared so far.
FileInv ==
  /\ ~Doing("settings") /\ ~skewed => saved = config
  /\ Doing("settings") =>
       /\ job.reload => job.was
       /\ ~Resumes(job.next) => job.plan = All /\ job.reload = job.was
       /\ requested = IF job.applied /\ ~Restored /\ ~Resumes(job.next)
                        THEN FALSE ELSE job.was
       /\ ~job.undo /\ job.at \in {"prepare", "open", "external", "commit",
                                   "notify"} => job.applied
       /\ job.at = "notify" => config = job.next
       /\ ~skewed =>
            saved = IF job.applied /\ ~Restored THEN job.next ELSE config

\* The mute sync is told last.
SyncInv ==
  ~(Doing("settings") /\ job.at = "notify") /\ ~skewed =>
    enabled.value = config.mute_sync

\* The speaker filter is that of the settings, or of a candidate.
FilterInv == leaked \/ speakers.enabled = config.filter

SettingsInv == FileInv /\ SyncInv /\ FilterInv
-----------------------------------------------------------------------------
(* Types.  The provers want Booleans, numbers and records apart.           *)

Flags ==
  /\ requested \in BOOLEAN /\ microphone \in BOOLEAN /\ speaker \in BOOLEAN
  /\ draining \in BOOLEAN /\ network \in BOOLEAN
  /\ unseen \in BOOLEAN
  /\ broken \in BOOLEAN /\ skewed \in BOOLEAN /\ leaked \in BOOLEAN

\* A task that is detached has used up a drop.
Counts ==
  /\ detached \in 0..MaxDrops
  /\ trouble \in 0..MaxTrouble /\ drops \in 0..MaxDrops
  /\ monitor.left \in 0..MaxDrops
  /\ detached + drops <= MaxDrops /\ monitor.left + drops <= MaxDrops

Records ==
  /\ config \in Configs /\ saved \in Configs
  /\ monitor \in [run : {"on", "closing", "off"}, left : 0..MaxDrops]
  /\ speakers \in [enabled : BOOLEAN, supported : BOOLEAN, running : BOOLEAN]
  /\ status \in [enabled : BOOLEAN, muted : {"muted", "unmuted", "unknown"}]
  /\ enabled \in [value : BOOLEAN, changed : BOOLEAN]
  /\ coordinator \in {"pause", "resume", "wait"}
  /\ gate \in {"muted", "unmuted", "unknown"}

TypeInv == Flags /\ Counts /\ Records /\ job \in Job \cup {None}

\* The type invariant is made of its parts.
LEMMA TypeParts == TypeInv /\ TestInv => TypeOK
BY DEF TypeInv, Flags, Counts, Records, TestInv, TypeOK

\* A job that begins is a job.
LEMMA NewJobType ==
  ASSUME TypeInv, NEW kind \in Kinds, NEW at \in Steps,
         NEW plan \in SUBSET All, NEW target \in Configs
  PROVE  NewJob(kind, at, plan, target) \in Job
BY DEF TypeInv, Flags, NewJob, Job

\* The plans are sets of parts of the capture.
LEMMA PlanTypes ==
  /\ All \in SUBSET All /\ Audio \in SUBSET All
  /\ {"microphone"} \in SUBSET All /\ {} \in SUBSET All
  /\ \A c, d \in Configs : Between(c, d) \in SUBSET All
BY DEF All, Audio, Between

\* The fields of the settings are Booleans.
LEMMA ConfigTypes ==
  ASSUME NEW c \in Configs
  PROVE  /\ c.microphone \in BOOLEAN /\ c.speaker \in BOOLEAN
         /\ c.chatbox \in BOOLEAN /\ c.filter \in BOOLEAN
         /\ c.mute_sync \in BOOLEAN /\ c.diarized \in BOOLEAN
BY CaptureAssumption DEF Config

\* The fields of a job that the steps read.
LEMMA JobTypes ==
  ASSUME TypeInv, job # None
  PROVE  /\ job \in Job /\ job.target \in Configs /\ job.next \in Configs
         /\ job.plan \in SUBSET All /\ job.reload \in BOOLEAN
BY DEF TypeInv, Job

\* A rollback, or a second try, is a job.
LEMMA AfterFailureType ==
  ASSUME job \in Job
  PROVE  AfterFailure \subseteq Job \cup {None}
<1>1. Rollback \in Job
  BY DEF Rollback, Job, Steps
<1>2. [job EXCEPT !.undo = TRUE, !.failed = FALSE, !.at = "stop"] \in Job
  BY DEF Job, Steps
<1>. QED BY <1>1, <1>2 DEF AfterFailure

\* The initial states have their types.
LEMMA TypeInit ==
  ASSUME Init
  PROVE  TypeInv
<1>1. config \in Configs
  BY DEF Init
<1>2. config.filter \in BOOLEAN /\ config.mute_sync \in BOOLEAN
  BY <1>1, ConfigTypes
<1>3. Flags
  BY DEF Init, Flags
<1>4. Counts
  BY CaptureAssumption DEF Init, Counts
<1>5. Records
  <2>1. monitor \in [run : {"on", "closing", "off"}, left : 0..MaxDrops]
    BY CaptureAssumption DEF Init
  <2>. QED BY <1>1, <1>2, <2>1 DEF Init, Records
<1>. QED BY <1>3, <1>4, <1>5 DEF Init, TypeInv

\* Every step keeps the Booleans.
LEMMA FlagsStep ==
  ASSUME TypeInv, [Next]_vars
  PROVE  Flags'
<1>0. Flags
  BY DEF TypeInv
<1>1. CASE CaptureStart
  BY <1>0, <1>1 DEF CaptureStart, StopTest, Flags, pipelines, mute, history
<1>2. CASE CaptureStop
  BY <1>0, <1>2 DEF CaptureStop, Flags, pipelines, mute, history
<1>3. CASE \E c \in Configs : ChangeSettings(c)
  BY <1>0, <1>3 DEF ChangeSettings, Flags, pipelines, mute, history
<1>4. CASE \/ Reload("glossary", Audio)
          \/ Reload("credential", All)
  BY <1>0, <1>4 DEF Reload, Flags, pipelines, mute, history
<1>5. CASE MicrophoneTest
  BY <1>0, <1>5 DEF MicrophoneTest, Flags, pipelines, mute, history
<1>6. CASE StopPipelines
  BY <1>0, <1>6 DEF StopPipelines, Flags, mute, history
<1>7. CASE Drained
  BY <1>0, <1>7 DEF Drained, Flags, mute, history
<1>8. CASE Joined
  BY <1>0, <1>8 DEF Joined, Continue, Done, Flags, pipelines, history
<1>9. CASE SaveSettings
  BY <1>0, <1>9 DEF SaveSettings, Flags, pipelines, mute
<1>10. CASE RestoreSettings
  <2>1. job.reload \in BOOLEAN
    BY <1>10, JobTypes DEF RestoreSettings, At
  <2>. QED BY <1>0, <1>10, <2>1
       DEF RestoreSettings, StillRequested, Flags, pipelines
<1>11. CASE Prepare
  <2>1. job.target.chatbox \in BOOLEAN
    BY <1>11, JobTypes, ConfigTypes DEF Prepare, At
  <2>. QED BY <1>0, <1>11, <2>1 DEF Prepare, Flags
<1>12. CASE OpenMicrophone
  BY <1>0, <1>12 DEF OpenMicrophone, StartSpeakers, Flags, pipelines, mute
<1>13. CASE ConnectMicrophone
  BY <1>0, <1>13 DEF ConnectMicrophone, Flags, mute
<1>14. CASE OpenSpeaker
  BY <1>0, <1>14 DEF OpenSpeaker, Flags, mute
<1>15. CASE Opened
  BY <1>0, <1>15 DEF Opened, Continue, Done, Flags, pipelines
<1>16. CASE ApplyExternal
  BY <1>0, <1>16 DEF ApplyExternal, Flags, pipelines, mute
<1>17. CASE CommitSettings
  BY <1>0, <1>17 DEF CommitSettings, Flags, pipelines, mute
<1>18. CASE NotifySettings
  BY <1>0, <1>18 DEF NotifySettings, Done, Flags, pipelines, mute, history
<1>19. CASE Drop
  BY <1>0, <1>19 DEF Drop, Flags, mute
<1>20. CASE MicrophoneFails
  BY <1>0, <1>20 DEF MicrophoneFails, Flags, mute
<1>21. CASE SpeakerFails
  BY <1>0, <1>21 DEF SpeakerFails, Flags, mute
<1>22. CASE NetworkFails
  BY <1>0, <1>22 DEF NetworkFails, Flags, mute
<1>23. CASE DetachedEnds
  BY <1>0, <1>23 DEF DetachedEnds, Flags, mute, history
<1>24. CASE FollowSetting
  BY <1>0, <1>24 DEF FollowSetting, SetStatus, Flags, pipelines, mute, history
<1>25. CASE ReportMute
  BY <1>0, <1>25 DEF ReportMute, SetStatus, Flags, pipelines, mute, history
<1>26. CASE CoordinatorLooks
  BY <1>0, <1>26
     DEF CoordinatorLooks, MayResume, Flags, pipelines, mute, history
<1>27. CASE CoordinatorPauses
  BY <1>0, <1>27 DEF CoordinatorPauses, Flags, pipelines, mute, history
<1>28. CASE CoordinatorResumes
  BY <1>0, <1>28 DEF CoordinatorResumes, Flags, pipelines, history
<1>29. CASE UNCHANGED vars
  BY <1>0, <1>29 DEF vars, Flags, pipelines, mute, history
<1>30. CASE MicrophoneTestStop
  BY <1>0, <1>30
     DEF MicrophoneTestStop, StopTest, Flags, pipelines, mute, history
<1>31. CASE TestStopped
  BY <1>0, <1>31
     DEF TestStopped, Continue, Done, Flags, pipelines, history
<1>32. CASE TestEnds
  BY <1>0, <1>32
     DEF TestEnds, Flags, pipelines, mute, history
<1>. QED BY <1>1, <1>2, <1>3, <1>4, <1>5, <1>6, <1>7, <1>8, <1>9, <1>10,
     <1>11, <1>12, <1>13, <1>14, <1>15, <1>16, <1>17, <1>18, <1>19, <1>20,
     <1>21, <1>22, <1>23, <1>24, <1>25, <1>26, <1>27, <1>28, <1>29,
     <1>30, <1>31, <1>32
     DEF Next, Call, JobStep, Environment, Coordinator

\* Every step keeps the counters: a drop that detaches a task is used up.
LEMMA CountsStep ==
  ASSUME TypeInv, [Next]_vars
  PROVE  Counts'
<1>0. Counts
  BY DEF TypeInv
<1>00. monitor \in [run : {"on", "closing", "off"}, left : 0..MaxDrops]
  BY DEF TypeInv, Records
<1>1. CASE CaptureStart
  BY <1>0, <1>00, <1>1 DEF CaptureStart, StopTest, Counts, pipelines, mute, history
<1>2. CASE CaptureStop
  BY <1>0, <1>2 DEF CaptureStop, Counts, pipelines, mute, history
<1>3. CASE \E c \in Configs : ChangeSettings(c)
  BY <1>0, <1>3 DEF ChangeSettings, Counts, pipelines, mute, history
<1>4. CASE \/ Reload("glossary", Audio)
          \/ Reload("credential", All)
  BY <1>0, <1>4 DEF Reload, Counts, pipelines, mute, history
<1>5. CASE MicrophoneTest
  BY <1>0, <1>5 DEF MicrophoneTest, Counts, pipelines, mute, history
<1>6. CASE StopPipelines
  BY <1>0, <1>6 DEF StopPipelines, Counts, mute, history
<1>7. CASE Drained
  BY <1>0, <1>7 DEF Drained, Counts, mute, history
<1>8. CASE Joined
  BY <1>0, <1>8 DEF Joined, Counts, pipelines, history
<1>9. CASE SaveSettings
  BY <1>0, CaptureAssumption, <1>9
     DEF SaveSettings, Trouble, Counts, pipelines, mute
<1>10. CASE RestoreSettings
  BY <1>0, CaptureAssumption, <1>10
     DEF RestoreSettings, Trouble, Counts, pipelines
<1>11. CASE Prepare
  BY <1>0, CaptureAssumption, <1>11 DEF Prepare, Trouble, Counts
<1>12. CASE OpenMicrophone
  BY <1>0, <1>12 DEF OpenMicrophone, Counts, pipelines, mute
<1>13. CASE ConnectMicrophone
  BY <1>0, CaptureAssumption, <1>13
     DEF ConnectMicrophone, Trouble, Counts, mute
<1>14. CASE OpenSpeaker
  BY <1>0, CaptureAssumption, <1>14 DEF OpenSpeaker, Trouble, Counts, mute
<1>15. CASE Opened
  BY <1>0, <1>15 DEF Opened, Counts, pipelines
<1>16. CASE ApplyExternal
  BY <1>0, CaptureAssumption, <1>16
     DEF ApplyExternal, Trouble, Counts, pipelines, mute
<1>17. CASE CommitSettings
  BY <1>0, <1>17 DEF CommitSettings, Counts, pipelines, mute
<1>18. CASE NotifySettings
  BY <1>0, <1>18 DEF NotifySettings, Counts, pipelines, mute, history
<1>19. CASE Drop
  <2>1. /\ drops \in Nat /\ drops > 0 /\ drops' = drops - 1
        /\ trouble' = trouble
    BY <1>0, CaptureAssumption, <1>19 DEF Drop, Counts
  <2>2. detached' \in 0..MaxDrops /\ detached' + drops' <= MaxDrops
    BY <1>0, CaptureAssumption, <1>19, <2>1 DEF Drop, Counts
  <2>3. monitor'.left = monitor.left \/ monitor'.left = monitor.left + 1
    BY <1>00, <1>19 DEF Drop
  <2>4. monitor'.left \in 0..MaxDrops /\ monitor'.left + drops' <= MaxDrops
    <3>1. monitor.left \in Nat /\ monitor.left + drops <= MaxDrops
      BY <1>0 DEF Counts
    <3>. QED BY CaptureAssumption, <2>1, <2>3, <3>1
  <2>5. drops' \in 0..MaxDrops /\ trouble' \in 0..MaxTrouble
    BY <1>0, CaptureAssumption, <2>1 DEF Counts
  <2>. QED BY <2>2, <2>4, <2>5 DEF Counts
<1>20. CASE MicrophoneFails
  BY <1>0, CaptureAssumption, <1>20 DEF MicrophoneFails, Trouble, Counts, mute
<1>21. CASE SpeakerFails
  BY <1>0, CaptureAssumption, <1>21 DEF SpeakerFails, Trouble, Counts, mute
<1>22. CASE NetworkFails
  BY <1>0, CaptureAssumption, <1>22 DEF NetworkFails, Trouble, Counts, mute
<1>23. CASE DetachedEnds
  BY <1>0, CaptureAssumption, <1>23 DEF DetachedEnds, Counts, mute, history
<1>24. CASE FollowSetting
  BY <1>0, <1>24 DEF FollowSetting, Counts, pipelines, mute, history
<1>25. CASE ReportMute
  BY <1>0, <1>25 DEF ReportMute, Counts, pipelines, mute, history
<1>26. CASE CoordinatorLooks
  BY <1>0, <1>26 DEF CoordinatorLooks, Counts, pipelines, mute, history
<1>27. CASE CoordinatorPauses
  BY <1>0, <1>27 DEF CoordinatorPauses, Counts, pipelines, mute, history
<1>28. CASE CoordinatorResumes
  BY <1>0, <1>28 DEF CoordinatorResumes, Counts, pipelines, history
<1>29. CASE UNCHANGED vars
  BY <1>0, CaptureAssumption, <1>29 DEF vars, Counts, pipelines, mute, history
<1>30. CASE MicrophoneTestStop
  BY <1>0, <1>00, CaptureAssumption, <1>30
     DEF MicrophoneTestStop, StopTest, Counts, pipelines, mute, history
<1>31. CASE TestStopped
  BY <1>0, <1>00, CaptureAssumption, <1>31
     DEF TestStopped, Counts, pipelines, history
<1>32. CASE TestEnds
  BY <1>0, <1>00, CaptureAssumption, <1>32
     DEF TestEnds, Counts, pipelines, mute, history
<1>. QED BY <1>1, <1>2, <1>3, <1>4, <1>5, <1>6, <1>7, <1>8, <1>9, <1>10,
     <1>11, <1>12, <1>13, <1>14, <1>15, <1>16, <1>17, <1>18, <1>19, <1>20,
     <1>21, <1>22, <1>23, <1>24, <1>25, <1>26, <1>27, <1>28, <1>29,
     <1>30, <1>31, <1>32
     DEF Next, Call, JobStep, Environment, Coordinator

\* Every step keeps the records.
LEMMA RecordsStep ==
  ASSUME TypeInv, [Next]_vars
  PROVE  Records'
<1>0. Records
  BY DEF TypeInv
<1>00. /\ monitor \in [run : {"on", "closing", "off"}, left : 0..MaxDrops]
       /\ Counts
  BY DEF TypeInv, Records
<1>1. CASE CaptureStart
  <2>1. monitor' \in [run : {"on", "closing", "off"}, left : 0..MaxDrops]
    BY <1>00, <1>1 DEF CaptureStart, StopTest
  <2>. QED BY <1>0, <1>1, <2>1 DEF CaptureStart, Records, pipelines, mute, history
<1>2. CASE CaptureStop
  BY <1>0, <1>2 DEF CaptureStop, Records, pipelines, mute, history
<1>3. CASE \E c \in Configs : ChangeSettings(c)
  BY <1>0, <1>3 DEF ChangeSettings, Records, pipelines, mute, history
<1>4. CASE \/ Reload("glossary", Audio)
          \/ Reload("credential", All)
  BY <1>0, <1>4 DEF Reload, Records, pipelines, mute, history
<1>5. CASE MicrophoneTest
  BY <1>0, <1>5 DEF MicrophoneTest, Records, pipelines, mute, history
<1>6. CASE StopPipelines
  BY <1>0, <1>6 DEF StopPipelines, Records, mute, history
<1>7. CASE Drained
  BY <1>0, <1>7 DEF Drained, StopSpeakers, Records, mute, history
<1>8. CASE Joined
  BY <1>0, <1>8 DEF Joined, Continue, Done, Records, pipelines, history
<1>9. CASE SaveSettings
  <2>1. job.next \in Configs
    BY <1>9, JobTypes DEF SaveSettings, At
  <2>. QED BY <1>0, <1>9, <2>1 DEF SaveSettings, Records, mute
<1>10. CASE RestoreSettings
  BY <1>0, <1>10
     DEF RestoreSettings, PreviousFile, Continue, Done, Records, pipelines
<1>11. CASE Prepare
  BY <1>0, <1>11 DEF Prepare, Continue, Done, Records
<1>12. CASE OpenMicrophone
  <2>1. job.target.filter \in BOOLEAN /\ job.target.diarized \in BOOLEAN
    BY <1>12, JobTypes, ConfigTypes DEF OpenMicrophone, At
  <2>2. UNCHANGED <<config, saved, monitor, status, enabled, coordinator, gate>>
    BY <1>12 DEF OpenMicrophone, mute
  <2>3. \/ UNCHANGED speakers
        \/ speakers' = [enabled |-> job.target.filter,
                        supported |-> job.target.diarized, running |-> TRUE]
    <3>1. CASE ~job.target.microphone \/ StaysPaused
      BY <1>12, <3>1 DEF OpenMicrophone
    <3>2. CASE ~(~job.target.microphone \/ StaysPaused)
      BY <1>12, <3>2 DEF OpenMicrophone, StartSpeakers
    <3>. QED BY <3>1, <3>2
  <2>4. ASSUME NEW f \in BOOLEAN, NEW d \in BOOLEAN
        PROVE  [enabled |-> f, supported |-> d, running |-> TRUE]
                 \in [enabled : BOOLEAN, supported : BOOLEAN, running : BOOLEAN]
    OBVIOUS
  <2>5. speakers' \in
          [enabled : BOOLEAN, supported : BOOLEAN, running : BOOLEAN]
    BY <1>0, <2>1, <2>3, <2>4, Zenon DEF Records
  <2>. QED BY <1>0, <2>2, <2>5 DEF Records
<1>13. CASE ConnectMicrophone
  BY <1>0, <1>13 DEF ConnectMicrophone, StopSpeakers, Records, mute
<1>14. CASE OpenSpeaker
  BY <1>0, <1>14 DEF OpenSpeaker, Records, mute
<1>15. CASE Opened
  BY <1>0, <1>15 DEF Opened, Continue, Done, Records, pipelines
<1>16. CASE ApplyExternal
  BY <1>0, <1>16 DEF ApplyExternal, Records, pipelines, mute
<1>17. CASE CommitSettings
  <2>1. job.next \in Configs /\ job.next.filter \in BOOLEAN
    BY <1>17, JobTypes, ConfigTypes DEF CommitSettings, At
  <2>. QED BY <1>0, <1>17, <2>1 DEF CommitSettings, Records, mute
<1>18. CASE NotifySettings
  <2>1. job.next.mute_sync \in BOOLEAN
    BY <1>18, JobTypes, ConfigTypes DEF NotifySettings, At
  <2>. QED BY <1>0, <1>18, <2>1 DEF NotifySettings, Done, Records
<1>19. CASE Drop
  <2>1. monitor'.left \in 0..MaxDrops
    BY <1>00, CaptureAssumption, <1>19 DEF Drop, Counts
  <2>. QED BY <1>0, <1>00, <1>19, <2>1 DEF Drop, Records, mute
<1>20. CASE MicrophoneFails
  BY <1>0, <1>20 DEF MicrophoneFails, StopSpeakers, Records, mute
<1>21. CASE SpeakerFails
  BY <1>0, <1>21 DEF SpeakerFails, Records, mute
<1>22. CASE NetworkFails
  BY <1>0, <1>22 DEF NetworkFails, Records, mute
<1>23. CASE DetachedEnds
  BY <1>0, <1>23 DEF DetachedEnds, StopSpeakers, Records, mute, history
<1>24. CASE FollowSetting
  BY <1>0, <1>24
     DEF FollowSetting, SetStatus, Records, pipelines, mute, history
<1>25. CASE ReportMute
  BY <1>0, <1>25 DEF ReportMute, SetStatus, Records, pipelines, mute, history
<1>26. CASE CoordinatorLooks
  BY <1>0, <1>26
     DEF CoordinatorLooks, MayResume, Records, pipelines, mute, history
<1>27. CASE CoordinatorPauses
  BY <1>0, <1>27 DEF CoordinatorPauses, Records, pipelines, mute, history
<1>28. CASE CoordinatorResumes
  BY <1>0, <1>28 DEF CoordinatorResumes, Records, pipelines, history
<1>29. CASE UNCHANGED vars
  BY <1>0, <1>29 DEF vars, Records, pipelines, mute, history
<1>30. CASE MicrophoneTestStop
  BY <1>0, <1>00, <1>30
     DEF MicrophoneTestStop, StopTest, Records, pipelines, mute, history
<1>31. CASE TestStopped
  BY <1>0, <1>00, <1>31
     DEF TestStopped, Continue, Done, Records, pipelines, history
<1>32. CASE TestEnds
  <2>1. monitor' \in [run : {"on", "closing", "off"}, left : 0..MaxDrops]
    BY <1>00, CaptureAssumption, <1>32 DEF TestEnds
  <2>. QED BY <1>0, <1>32, <2>1 DEF TestEnds, Records, mute
<1>. QED BY <1>1, <1>2, <1>3, <1>4, <1>5, <1>6, <1>7, <1>8, <1>9, <1>10,
     <1>11, <1>12, <1>13, <1>14, <1>15, <1>16, <1>17, <1>18, <1>19, <1>20,
     <1>21, <1>22, <1>23, <1>24, <1>25, <1>26, <1>27, <1>28, <1>29,
     <1>30, <1>31, <1>32
     DEF Next, Call, JobStep, Environment, Coordinator

\* The job of a change of settings as it begins.
LEMMA ChangeJob ==
  ASSUME TypeInv, NEW c \in Configs, ChangeSettings(c)
  PROVE  /\ Free /\ job' \in Job
         /\ UNCHANGED <<requested, config, saved, pipelines, monitor, speakers,
                         mute, history>>
         /\ job'.kind = "settings" /\ job'.next = c
         /\ job'.was = requested /\ (job'.reload => requested)
         /\ ~job'.applied /\ ~job'.failed /\ ~job'.undo
         /\ job'.at = IF job'.reload THEN "stop" ELSE "save"
         /\ ~Resumes(c) => job'.plan = All /\ job'.reload = requested
<1>1. PICK plan \in IF Resumes(c) THEN {Between(config, c), All} ELSE {All} :
        job' = [NewJob("settings",
                       IF requested /\ plan # {} THEN "stop" ELSE "save",
                       plan, c)
                  EXCEPT !.reload = requested /\ plan # {}]
  BY DEF ChangeSettings, Resumes
<1>2. /\ Free
      /\ UNCHANGED <<requested, config, saved, pipelines, monitor, speakers,
                      mute, history>>
  BY DEF ChangeSettings
<1>3. requested \in BOOLEAN /\ config \in Configs
  BY DEF TypeInv, Flags, Records
<1>4. plan \in SUBSET All
  BY <1>1, <1>3, PlanTypes
<1>5. (IF requested /\ plan # {} THEN "stop" ELSE "save") \in Steps
  BY DEF Steps
<1>6. NewJob("settings", IF requested /\ plan # {} THEN "stop" ELSE "save",
             plan, c) \in Job
  BY <1>4, <1>5, NewJobType DEF Kinds
<1>7. job' \in Job
  BY <1>1, <1>3, <1>6 DEF Job
<1>8. /\ job'.kind = "settings" /\ job'.next = c /\ job'.plan = plan
      /\ job'.was = requested /\ job'.reload = (requested /\ plan # {})
      /\ job'.applied = FALSE /\ job'.failed = FALSE /\ job'.undo = FALSE
      /\ job'.at = IF requested /\ plan # {} THEN "stop" ELSE "save"
  BY <1>1 DEF NewJob
<1>9. All # {}
  BY DEF All
<1>. QED BY <1>1, <1>2, <1>3, <1>7, <1>8, <1>9

\* Every step leaves a job, or none.
LEMMA JobStepType ==
  ASSUME TypeInv, [Next]_vars
  PROVE  job' \in Job \cup {None}
<1>0. job \in Job \cup {None} /\ config \in Configs
  BY DEF TypeInv, Records
<1>1. CASE CaptureStart
  BY <1>0, <1>1, NewJobType, PlanTypes DEF CaptureStart, Kinds, Steps
<1>2. CASE CaptureStop
  BY <1>0, <1>2, NewJobType, PlanTypes DEF CaptureStop, Kinds, Steps
<1>3. CASE \E c \in Configs : ChangeSettings(c)
  BY <1>3, ChangeJob
<1>4. CASE \/ Reload("glossary", Audio)
          \/ Reload("credential", All)
  BY <1>0, <1>4, NewJobType, PlanTypes DEF Reload, Kinds, Steps
<1>5. CASE MicrophoneTest
  BY <1>0, <1>5 DEF MicrophoneTest, mute
<1>6. CASE StopPipelines
  BY <1>0, <1>6 DEF StopPipelines, At, Go, Job, Steps
<1>7. CASE Drained
  BY <1>0, <1>7 DEF Drained, mute
<1>8. CASE Joined
  <2>1. job \in Job
    BY <1>0, <1>8 DEF Joined, At
  <2>2. AfterFailure \subseteq Job \cup {None}
    BY <2>1, AfterFailureType
  <2>. QED BY <2>1, <2>2, <1>8 DEF Joined, Continue, Done, Job, Steps
<1>9. CASE SaveSettings
  BY <1>0, <1>9 DEF SaveSettings, At, Rollback, Job, Steps
<1>10. CASE RestoreSettings
  <2>1. job \in Job
    BY <1>0, <1>10 DEF RestoreSettings, At
  <2>2. job' \in {job, None, [job EXCEPT !.at = "prepare", !.target = config]}
    BY <1>10 DEF RestoreSettings, Continue, Done
  <2>3. [job EXCEPT !.at = "prepare", !.target = config] \in Job
    BY <1>0, <2>1 DEF Job, Steps
  <2>. QED BY <1>0, <2>2, <2>3
<1>11. CASE Prepare
  <2>1. job \in Job
    BY <1>0, <1>11 DEF Prepare, At
  <2>2. AfterFailure \subseteq Job \cup {None}
    BY <2>1, AfterFailureType
  <2>3. ASSUME NEW m \in {"todo", "skip"}, NEW s \in {"todo", "skip"}
        PROVE  [job EXCEPT !.at = "open", !.microphone = m, !.speaker = s]
                 \in Job
    BY <2>1 DEF Job, Steps
  <2>4. CASE \E j \in AfterFailure : Continue(j)
    BY <2>2, <2>4 DEF Continue, Done
  <2>5. CASE job' = [job EXCEPT
               !.at = "open",
               !.microphone = IF "microphone" \in job.plan THEN "todo"
                                                             ELSE "skip",
               !.speaker = IF "speaker" \in job.plan THEN "todo" ELSE "skip"]
    BY <2>3, <2>5
  <2>. QED BY <2>4, <2>5, <1>11 DEF Prepare
<1>12. CASE OpenMicrophone
  BY <1>0, <1>12 DEF OpenMicrophone, At, Job
<1>13. CASE ConnectMicrophone
  BY <1>0, <1>13 DEF ConnectMicrophone, At, Job
<1>14. CASE OpenSpeaker
  BY <1>0, <1>14 DEF OpenSpeaker, At, Job
<1>15. CASE Opened
  <2>1. job \in Job
    BY <1>0, <1>15 DEF Opened, At
  <2>2. StopRest \subseteq Job
    BY <2>1 DEF StopRest, Job, Steps
  <2>3. AfterStart \in Job \cup {None}
    BY <2>1 DEF AfterStart, Job, Steps
  <2>. QED BY <2>2, <2>3, <1>15 DEF Opened, Continue, Done
<1>16. CASE ApplyExternal
  BY <1>0, <1>16 DEF ApplyExternal, At, Go, Rollback, Job, Steps
<1>17. CASE CommitSettings
  BY <1>0, <1>17 DEF CommitSettings, At, Go, Job, Steps
<1>18. CASE NotifySettings
  BY <1>0, <1>18 DEF NotifySettings, Done
<1>19. CASE Drop
  BY <1>0, <1>19 DEF Drop, mute
<1>20. CASE MicrophoneFails
  BY <1>0, <1>20 DEF MicrophoneFails, mute
<1>21. CASE SpeakerFails
  BY <1>0, <1>21 DEF SpeakerFails, mute
<1>22. CASE NetworkFails
  BY <1>0, <1>22 DEF NetworkFails, mute
<1>23. CASE DetachedEnds
  BY <1>0, <1>23 DEF DetachedEnds, mute
<1>24. CASE FollowSetting
  BY <1>0, <1>24 DEF FollowSetting, mute
<1>25. CASE ReportMute
  BY <1>0, <1>25 DEF ReportMute, mute
<1>26. CASE CoordinatorLooks
  BY <1>0, <1>26 DEF CoordinatorLooks, mute
<1>27. CASE CoordinatorPauses
  BY <1>0, <1>27, NewJobType, PlanTypes DEF CoordinatorPauses, Kinds, Steps
<1>28. CASE CoordinatorResumes
  <2>1. NewJob("resume", "open", {}, config) \in Job
    BY <1>0, NewJobType, PlanTypes DEF Kinds, Steps
  <2>2. \/ job' = job
        \/ job' = [NewJob("resume", "open", {}, config)
                     EXCEPT !.microphone = "connecting"]
    BY <1>28 DEF CoordinatorResumes
  <2>. QED BY <1>0, <2>1, <2>2 DEF Job
<1>29. CASE UNCHANGED vars
  BY <1>0, <1>29 DEF vars, mute
<1>30. CASE MicrophoneTestStop
  BY <1>0, <1>30, NewJobType, PlanTypes DEF MicrophoneTestStop, Kinds, Steps
<1>31. CASE TestStopped
  <2>1. job \in Job
    BY <1>0, <1>31 DEF TestStopped, At
  <2>. QED BY <2>1, <1>31 DEF TestStopped, Continue, Done, Job, Steps
<1>32. CASE TestEnds
  BY <1>0, <1>32 DEF TestEnds, mute
<1>. QED BY <1>1, <1>2, <1>3, <1>4, <1>5, <1>6, <1>7, <1>8, <1>9, <1>10,
     <1>11, <1>12, <1>13, <1>14, <1>15, <1>16, <1>17, <1>18, <1>19, <1>20,
     <1>21, <1>22, <1>23, <1>24, <1>25, <1>26, <1>27, <1>28, <1>29,
     <1>30, <1>31, <1>32
     DEF Next, Call, JobStep, Environment, Coordinator

\* The type invariant is inductive.
LEMMA TypeStep ==
  ASSUME TypeInv, [Next]_vars
  PROVE  TypeInv'
BY FlagsStep, CountsStep, RecordsStep, JobStepType DEF TypeInv

\* The type invariant always holds.
LEMMA TypeAlways == Spec => []TypeInv
BY TypeInit, TypeStep, PTL DEF Spec
-----------------------------------------------------------------------------
(* The mute coordinator                                                    *)

\* The job a step leaves is the same one, further on.
SameJob(j) ==
  /\ j \in Job
  /\ j.kind = job.kind /\ j.plan = job.plan /\ j.next = job.next
  /\ j.reload = job.reload /\ j.was = job.was /\ j.applied = job.applied

\* A rollback is the same job, from the stop or from the restore on.
LEMMA RollbackJob ==
  ASSUME job \in Job
  PROVE  /\ SameJob(Rollback) /\ Rollback.undo /\ ~Rollback.failed
         /\ Rollback.at = IF job.reload THEN "stop" ELSE "restore"
BY DEF Rollback, SameJob, Job, Steps

\* What goes on after a failed start is a rollback or a second try.
LEMMA AfterFailureJob ==
  ASSUME job \in Job, NEW j \in AfterFailure
  PROVE  \/ j = None /\ (job.kind = "settings" => job.undo)
         \/ /\ ~job.undo /\ job.kind \in {"settings", "credential"}
            /\ SameJob(j) /\ j.undo /\ ~j.failed
            /\ j.at = IF job.kind = "credential" \/ job.reload THEN "stop"
                                                               ELSE "restore"
<1>1. CASE j = Rollback /\ job.kind = "settings" /\ ~job.undo
  <2>1. /\ SameJob(j) /\ j.undo /\ ~j.failed
        /\ j.at = IF job.reload THEN "stop" ELSE "restore"
    BY <1>1, RollbackJob
  <2>. QED BY <1>1, <2>1
<1>2. CASE /\ j = [job EXCEPT !.undo = TRUE, !.failed = FALSE, !.at = "stop"]
           /\ job.kind = "credential" /\ ~job.undo
  BY <1>2, AfterFailureType DEF SameJob, Job
<1>. QED BY <1>1, <1>2 DEF AfterFailure

\* The rest of a plan of which a part has failed is stopped by the same job.
LEMMA StopRestJob ==
  ASSUME job \in Job, NEW j \in StopRest
  PROVE  SameJob(j) /\ j.at = "stop" /\ j.failed /\ j.undo = job.undo
BY DEF StopRest, SameJob, Job, Steps

\* A job whose step Continue ends.
Ends ==
  /\ job' = None
  /\ coordinator' = IF job.kind \in {"pause", "resume"} THEN "wait"
                                                        ELSE coordinator

\* A job whose step Continue goes on as a failed one does.
Fails ==
  \/ Ends /\ (job.kind = "settings" => job.undo)
  \/ /\ ~job.undo /\ job.kind \in {"settings", "credential"}
     /\ SameJob(job') /\ job'.undo /\ ~job'.failed
     /\ job'.at = IF job.kind = "credential" \/ job.reload THEN "stop"
                                                           ELSE "restore"
     /\ UNCHANGED coordinator

\* AfterFailure, told as a relation between two states.
LEMMA FailsStep ==
  ASSUME job \in Job, \E j \in AfterFailure : Continue(j)
  PROVE  Fails
<1>1. PICK j \in AfterFailure : Continue(j)
  OBVIOUS
<1>2. CASE j = None
  <2>1. job.kind = "settings" => job.undo
    BY <1>1, <1>2, AfterFailureJob, NoneAssumption DEF SameJob
  <2>. QED BY <1>1, <1>2, <2>1 DEF Continue, Done, Fails, Ends
<1>3. CASE j # None
  BY <1>1, <1>3, AfterFailureJob DEF Continue, Fails
<1>. QED BY <1>2, <1>3

\* How the steps that may fail leave the job.
LEMMA JoinedJob ==
  ASSUME TypeInv, Joined
  PROVE  /\ job \in Job /\ job.at = "join"
         /\ \/ job.failed /\ Fails
            \/ /\ ~job.failed
               /\ IF job.kind \in {"stop", "pause"} THEN Ends
                  ELSE /\ SameJob(job') /\ UNCHANGED coordinator
                       /\ job'.undo = job.undo /\ ~job'.failed
                       /\ job'.at = IF job.kind # "settings" THEN "prepare"
                                    ELSE IF job.undo THEN "restore" ELSE "save"
<1>1. job \in Job /\ job.at = "join"
  BY DEF Joined, At, TypeInv
<1>2. CASE job.failed
  BY <1>1, <1>2, FailsStep DEF Joined
<1>3. CASE ~job.failed /\ job.kind \in {"stop", "pause"}
  BY <1>1, <1>3 DEF Joined, Continue, Done, Ends
<1>4. CASE ~job.failed /\ job.kind = "settings"
  <2>1. job' = [job EXCEPT !.at = IF job.undo THEN "restore" ELSE "save"]
        /\ UNCHANGED coordinator
    <3>1. [job EXCEPT !.at = IF job.undo THEN "restore" ELSE "save"] \in Job
      BY <1>1 DEF Job, Steps
    <3>. QED BY <1>4, <3>1, NoneAssumption DEF Joined, Continue
  <2>. QED BY <1>1, <1>4, <2>1 DEF SameJob, Job, Steps
<1>5. CASE ~job.failed /\ job.kind \notin {"settings", "stop", "pause"}
  <2>1. job' = [job EXCEPT !.at = "prepare"] /\ UNCHANGED coordinator
    <3>1. [job EXCEPT !.at = "prepare"] \in Job
      BY <1>1 DEF Job, Steps
    <3>. QED BY <1>5, <3>1, NoneAssumption DEF Joined, Continue
  <2>. QED BY <1>1, <1>5, <2>1 DEF SameJob, Job, Steps
<1>. QED BY <1>1, <1>2, <1>3, <1>4, <1>5

\* A job that has ended the test goes on to the start, or is over.
LEMMA TestStoppedJob ==
  ASSUME TypeInv, TestStopped
  PROVE  /\ job \in Job /\ job.at = "test"
         /\ IF job.kind # "start" THEN Ends
            ELSE /\ SameJob(job') /\ UNCHANGED coordinator
                 /\ job'.at = "prepare"
                 /\ job'.target = job.target
                 /\ job'.undo = job.undo /\ job'.failed = job.failed
<1>1. job \in Job /\ job.at = "test"
  BY DEF TestStopped, At, TypeInv
<1>2. CASE job.kind # "start"
  BY <1>1, <1>2 DEF TestStopped, Continue, Done, Ends
<1>3. CASE job.kind = "start"
  <2>1. [job EXCEPT !.at = "prepare"] \in Job
    BY <1>1 DEF Job, Steps
  <2>2. job' = [job EXCEPT !.at = "prepare"] /\ UNCHANGED coordinator
    BY <1>3, <2>1, NoneAssumption DEF TestStopped, Continue
  <2>. QED BY <1>1, <1>3, <2>1, <2>2 DEF SameJob, Job
<1>. QED BY <1>1, <1>2, <1>3

\* How a job goes on after the preparation.
LEMMA PrepareJob ==
  ASSUME TypeInv, Prepare
  PROVE  /\ job \in Job /\ job.at = "prepare"
         /\ \/ Fails
            \/ /\ SameJob(job') /\ UNCHANGED coordinator
               /\ job'.at = "open" /\ job'.microphone # "connecting"
               /\ job'.undo = job.undo /\ job'.failed = job.failed
<1>1. job \in Job /\ job.at = "prepare"
  BY DEF Prepare, At, TypeInv
<1>2. CASE \E j \in AfterFailure : Continue(j)
  BY <1>1, <1>2, FailsStep
<1>3. ASSUME NEW m \in {"todo", "skip"}, NEW s \in {"todo", "skip"},
             job' = [job EXCEPT !.at = "open", !.microphone = m, !.speaker = s]
      PROVE  /\ SameJob(job') /\ job'.at = "open"
             /\ job'.microphone # "connecting"
             /\ job'.undo = job.undo /\ job'.failed = job.failed
  BY <1>1, <1>3 DEF SameJob, Job, Steps
<1>4. CASE UNCHANGED coordinator /\ job' = [job EXCEPT
             !.at = "open",
             !.microphone = IF "microphone" \in job.plan THEN "todo"
                                                           ELSE "skip",
             !.speaker = IF "speaker" \in job.plan THEN "todo" ELSE "skip"]
  BY <1>1, <1>3, <1>4
<1>. QED BY <1>1, <1>2, <1>4 DEF Prepare

\* How a job goes on once both starts have returned.
LEMMA OpenedJob ==
  ASSUME TypeInv, Opened
  PROVE  /\ job \in Job /\ job.at = "open" /\ job.microphone # "connecting"
         /\ \/ /\ SameJob(job') /\ UNCHANGED <<coordinator, requested>>
               /\ job.kind # "resume"
               /\ job'.at = "stop" /\ job'.failed /\ job'.undo = job.undo
            \/ /\ requested' = (requested \/ job.kind = "start")
               /\ IF job.kind = "settings" /\ ~job.undo
                    THEN /\ SameJob(job') /\ UNCHANGED coordinator
                         /\ job'.at = "external"
                         /\ job'.failed = job.failed /\ ~job'.undo
                    ELSE Ends
<1>1. job \in Job /\ job.at = "open" /\ job.microphone # "connecting"
  BY DEF Opened, At, TypeInv
<1>2. CASE job.kind # "resume" /\ UNCHANGED requested
           /\ \E j \in StopRest : Continue(j)
  <2>1. PICK j \in StopRest : Continue(j)
    BY <1>2
  <2>2. j # None
    BY <1>1, <2>1, StopRestJob, NoneAssumption DEF SameJob
  <2>. QED BY <1>1, <1>2, <2>1, <2>2, StopRestJob DEF Continue
<1>3. CASE Continue(AfterStart)
           /\ requested' = (requested \/ job.kind = "start")
  <2>1. CASE job.kind = "settings" /\ ~job.undo
    <3>1. AfterStart = [job EXCEPT !.at = "external", !.microphone = "skip",
                                   !.speaker = "skip"]
      BY <2>1 DEF AfterStart
    <3>2. /\ SameJob(AfterStart) /\ AfterStart.at = "external"
          /\ AfterStart.failed = job.failed /\ ~AfterStart.undo
      BY <1>1, <2>1, <3>1 DEF SameJob, Job, Steps
    <3>. QED BY <1>1, <1>3, <2>1, <3>2, NoneAssumption DEF Continue, SameJob
  <2>2. CASE ~(job.kind = "settings" /\ ~job.undo)
    BY <1>1, <1>3, <2>2 DEF AfterStart, Continue, Done, Ends
  <2>. QED BY <2>1, <2>2
<1>. QED BY <1>1, <1>2, <1>3 DEF Opened

\* How the other steps leave it.
LEMMA StopJob ==
  ASSUME TypeInv, StopPipelines
  PROVE  /\ job \in Job /\ job.at = "stop"
         /\ SameJob(job') /\ job'.at = "join"
         /\ job'.undo = job.undo /\ job'.failed = job.failed
BY DEF TypeInv, StopPipelines, At, Go, SameJob, Job, Steps

\* ... from the file ...
LEMMA SaveJob ==
  ASSUME TypeInv, SaveSettings
  PROVE  /\ job \in Job /\ job.at = "save" /\ job' \in Job
         /\ job'.kind = job.kind /\ job'.plan = job.plan
         /\ job'.next = job.next
         /\ job'.reload = job.reload /\ job'.was = job.was
         /\ \/ /\ saved' = job.next
               /\ requested' =
                    (requested /\ ~(job.reload /\ ~Resumes(job.next)))
               /\ job'.applied
               /\ job'.undo = job.undo /\ job'.failed = job.failed
               /\ job'.at = IF job.reload /\ Resumes(job.next) THEN "prepare"
                                                              ELSE "external"
            \/ /\ UNCHANGED <<saved, requested>>
               /\ job'.applied = job.applied
               /\ job'.undo /\ ~job'.failed
               /\ job'.at = IF job.reload THEN "stop" ELSE "restore"
<1>1. job \in Job /\ job.at = "save"
  BY DEF TypeInv, SaveSettings, At
<1>2. CASE /\ saved' = job.next
           /\ requested' = (requested /\ ~(job.reload /\ ~Resumes(job.next)))
           /\ job' = [job EXCEPT
                !.applied = TRUE,
                !.at = IF job.reload /\ Resumes(job.next) THEN "prepare"
                                                          ELSE "external"]
  BY <1>1, <1>2 DEF Job, Steps
<1>3. CASE UNCHANGED <<saved, requested>> /\ job' = Rollback
  BY <1>1, <1>3, RollbackJob DEF SameJob
<1>. QED BY <1>1, <1>2, <1>3 DEF SaveSettings, Resumes

\* ... from the restored file ...
LEMMA RestoreJob ==
  ASSUME TypeInv, RestoreSettings
  PROVE  /\ job \in Job /\ job.at = "restore"
         /\ IF job.reload
              THEN /\ SameJob(job') /\ UNCHANGED coordinator
                   /\ job'.at = "prepare"
                   /\ job'.undo = job.undo /\ job'.failed = job.failed
              ELSE Ends
<1>1. job \in Job /\ job.at = "restore" /\ config \in Configs
  BY DEF TypeInv, Records, RestoreSettings, At
<1>2. CASE job.reload
  <2>1. [job EXCEPT !.at = "prepare", !.target = config] \in Job
    BY <1>1 DEF Job, Steps
  <2>2. job' = [job EXCEPT !.at = "prepare", !.target = config]
        /\ UNCHANGED coordinator
    BY <1>2, <2>1, NoneAssumption DEF RestoreSettings, Continue
  <2>. QED BY ZenonT(30), <1>1, <1>2, <2>1, <2>2 DEF SameJob, Job
<1>3. CASE ~job.reload
  BY <1>1, <1>3 DEF RestoreSettings, Continue, Done, Ends
<1>. QED BY <1>1, <1>2, <1>3

\* ... while its pipelines start ...
LEMMA OpeningJob ==
  ASSUME TypeInv, OpenMicrophone \/ ConnectMicrophone \/ OpenSpeaker
  PROVE  /\ job \in Job /\ job.at = "open"
         /\ SameJob(job') /\ job'.at = "open"
         /\ job'.undo = job.undo /\ job'.failed = job.failed
<1>1. CASE OpenMicrophone
  BY <1>1 DEF TypeInv, OpenMicrophone, At, SameJob, Job, Steps
<1>2. CASE ConnectMicrophone
  BY <1>2 DEF TypeInv, ConnectMicrophone, At, SameJob, Job, Steps
<1>3. CASE OpenSpeaker
  BY <1>3 DEF TypeInv, OpenSpeaker, At, SameJob, Job, Steps
<1>. QED BY <1>1, <1>2, <1>3

\* ... from the external API ...
LEMMA ExternalJob ==
  ASSUME TypeInv, ApplyExternal
  PROVE  /\ job \in Job /\ job.at = "external" /\ SameJob(job')
         /\ \/ /\ job'.at = "commit"
               /\ job'.undo = job.undo /\ job'.failed = job.failed
            \/ /\ job'.undo /\ ~job'.failed
               /\ job'.at = IF job.reload THEN "stop" ELSE "restore"
<1>1. job \in Job /\ job.at = "external"
  BY DEF TypeInv, ApplyExternal, At
<1>2. CASE Go("commit")
  BY <1>1, <1>2 DEF Go, SameJob, Job, Steps
<1>3. CASE job' = Rollback
  BY <1>1, <1>3, RollbackJob
<1>. QED BY <1>1, <1>2, <1>3 DEF ApplyExternal

\* ... from the commit ...
LEMMA CommitJob ==
  ASSUME TypeInv, CommitSettings
  PROVE  /\ job \in Job /\ job.at = "commit"
         /\ SameJob(job') /\ job'.at = "notify"
         /\ job'.undo = job.undo /\ job'.failed = job.failed
BY DEF TypeInv, CommitSettings, At, Go, SameJob, Job, Steps

\* ... and how it ends.
LEMMA NotifyJob ==
  ASSUME TypeInv, NotifySettings
  PROVE  job \in Job /\ job.at = "notify" /\ Ends
BY DEF TypeInv, NotifySettings, At, Done, Ends

\* Nothing runs at first.
LEMMA MuteInit ==
  ASSUME Init
  PROVE  MuteInv
BY DEF Init, MuteInv, MutedIsPaused, Settled, Doing, At

\* No step of a job, of the coordinator or of the environment leaves a
\* microphone behind a mute the coordinator has dealt with.
LEMMA MuteStep ==
  ASSUME TypeInv, MuteInv, [Next]_vars
  PROVE  MuteInv'
<1>0. MuteInv /\ job \in Job \cup {None}
  BY DEF TypeInv
<1>1. CASE CaptureStart
  BY <1>0, NoneAssumption, <1>1
     DEF CaptureStart, NewJob, MuteInv, MutedIsPaused, Settled, Doing, Free,
         At, pipelines, mute
<1>2. CASE CaptureStop
  BY <1>0, NoneAssumption, <1>2
     DEF CaptureStop, NewJob, MuteInv, MutedIsPaused, Settled, Doing, Free,
         At, pipelines, mute
<1>3. CASE \E c \in Configs : ChangeSettings(c)
  BY <1>0, NoneAssumption, <1>3
     DEF ChangeSettings, NewJob, MuteInv, MutedIsPaused, Settled, Doing, Free,
         At, pipelines, mute
<1>4. CASE \/ Reload("glossary", Audio)
          \/ Reload("credential", All)
  BY <1>0, NoneAssumption, <1>4
     DEF Reload, NewJob, MuteInv, MutedIsPaused, Settled, Doing, Free, At,
         pipelines, mute
<1>5. CASE MicrophoneTest
  BY <1>0, <1>5
     DEF MicrophoneTest, MuteInv, MutedIsPaused, Settled, Doing, Free, At,
         pipelines, mute
<1>6. CASE StopPipelines
  BY <1>0, NoneAssumption, <1>6
     DEF StopPipelines, Go, Job, MuteInv, MutedIsPaused, Settled, Doing, Free,
         At, mute
<1>7. CASE Drained
  BY <1>0, <1>7
     DEF Drained, MuteInv, MutedIsPaused, Settled, Doing, Free, At, mute
<1>8. CASE Joined
  <2>1. UNCHANGED <<microphone, status, gate, unseen>>
    BY <1>8 DEF Joined, pipelines
  <2>. QED BY <1>0, NoneAssumption, <1>8, <2>1, JoinedJob
       DEF SameJob, Fails, Ends, MuteInv, MutedIsPaused, Settled, Doing, At
<1>9. CASE SaveSettings
  BY <1>0, NoneAssumption, <1>9
     DEF SaveSettings, Rollback, Job, MuteInv, MutedIsPaused, Settled, Doing,
         Free, At, pipelines, mute
<1>10. CASE RestoreSettings
  BY <1>0, NoneAssumption, <1>10
     DEF RestoreSettings, Continue, Done, Job, MuteInv, MutedIsPaused,
         Settled, Doing, Free, At, pipelines
<1>11. CASE Prepare
  <2>1. UNCHANGED <<microphone, status, gate, unseen>>
    BY <1>11 DEF Prepare
  <2>. QED BY <1>0, NoneAssumption, <1>11, <2>1, PrepareJob
       DEF SameJob, Fails, Ends, MuteInv, MutedIsPaused, Settled, Doing, At
<1>12. CASE OpenMicrophone
  BY <1>0, NoneAssumption, <1>12
     DEF OpenMicrophone, StaysPaused, Job, MuteInv, MutedIsPaused, Settled,
         Doing, Free, At, pipelines, mute
<1>13. CASE ConnectMicrophone
  BY <1>0, NoneAssumption, <1>13
     DEF ConnectMicrophone, Job, MuteInv, MutedIsPaused, Settled, Doing, Free,
         At, mute
<1>14. CASE OpenSpeaker
  BY <1>0, NoneAssumption, <1>14
     DEF OpenSpeaker, Job, MuteInv, MutedIsPaused, Settled, Doing, Free, At,
         mute
<1>15. CASE Opened
  <2>1. UNCHANGED <<microphone, status, gate, unseen>>
    BY <1>15 DEF Opened, pipelines
  <2>. QED BY <1>0, NoneAssumption, <1>15, <2>1, OpenedJob
       DEF SameJob, Fails, Ends, MuteInv, MutedIsPaused, Settled, Doing, At
<1>16. CASE ApplyExternal
  BY <1>0, NoneAssumption, <1>16
     DEF ApplyExternal, Go, Rollback, Job, MuteInv, MutedIsPaused, Settled,
         Doing, Free, At, pipelines, mute
<1>17. CASE CommitSettings
  BY <1>0, NoneAssumption, <1>17
     DEF CommitSettings, Go, Job, MuteInv, MutedIsPaused, Settled, Doing,
         Free, At, pipelines, mute
<1>18. CASE NotifySettings
  BY <1>0, NoneAssumption, <1>18
     DEF NotifySettings, Done, Job, MuteInv, MutedIsPaused, Settled, Doing,
         Free, At, pipelines, mute
<1>19. CASE Drop
  BY <1>0, NoneAssumption, <1>19
     DEF Drop, MuteInv, MutedIsPaused, Settled, Doing, Free, At, mute
<1>20. CASE MicrophoneFails
  BY <1>0, <1>20
     DEF MicrophoneFails, MuteInv, MutedIsPaused, Settled, Doing, Free, At,
         mute
<1>21. CASE SpeakerFails
  BY <1>0, <1>21
     DEF SpeakerFails, MuteInv, MutedIsPaused, Settled, Doing, Free, At, mute
<1>22. CASE NetworkFails
  BY <1>0, <1>22
     DEF NetworkFails, MuteInv, MutedIsPaused, Settled, Doing, Free, At, mute
<1>23. CASE DetachedEnds
  BY <1>0, <1>23
     DEF DetachedEnds, MuteInv, MutedIsPaused, Settled, Doing, Free, At, mute
<1>24. CASE FollowSetting
  BY <1>0, <1>24
     DEF FollowSetting, SetStatus, MuteInv, MutedIsPaused, Settled, Doing,
         Free, At, pipelines, mute
<1>25. CASE ReportMute
  BY <1>0, <1>25
     DEF ReportMute, SetStatus, MuteInv, MutedIsPaused, Settled, Doing, Free,
         At, pipelines, mute
<1>26. CASE CoordinatorLooks
  BY <1>0, <1>26
     DEF CoordinatorLooks, MayResume, MuteInv, MutedIsPaused, Settled, Doing,
         Free, At, pipelines, mute
<1>27. CASE CoordinatorPauses
  BY <1>0, NoneAssumption, <1>27
     DEF CoordinatorPauses, NewJob, MuteInv, MutedIsPaused, Settled, Doing,
         Free, At, pipelines, mute
<1>28. CASE CoordinatorResumes
  BY <1>0, NoneAssumption, <1>28
     DEF CoordinatorResumes, NewJob, MuteInv, MutedIsPaused, Settled, Doing,
         Free, At, pipelines
<1>29. CASE UNCHANGED vars
  BY <1>0, NoneAssumption, <1>29
     DEF vars, MuteInv, MutedIsPaused, Settled, Doing, Free, At, pipelines,
         mute
<1>30. CASE MicrophoneTestStop
  BY <1>0, NoneAssumption, <1>30
     DEF MicrophoneTestStop, NewJob, MuteInv, MutedIsPaused, Settled, Doing,
         Free, At, pipelines, mute
<1>31. CASE TestStopped
  <2>1. UNCHANGED <<microphone, status, unseen, gate>>
    BY <1>31 DEF TestStopped, pipelines
  <2>. QED BY <1>0, NoneAssumption, <1>31, <2>1, TestStoppedJob
       DEF SameJob, Ends, MuteInv, MutedIsPaused, Settled, Doing, At
<1>32. CASE TestEnds
  BY <1>0, <1>32
     DEF TestEnds, MuteInv, MutedIsPaused, Settled, Doing, Free, At,
         pipelines, mute
<1>. QED BY <1>1, <1>2, <1>3, <1>4, <1>5, <1>6, <1>7, <1>8, <1>9, <1>10,
     <1>11, <1>12, <1>13, <1>14, <1>15, <1>16, <1>17, <1>18, <1>19, <1>20,
     <1>21, <1>22, <1>23, <1>24, <1>25, <1>26, <1>27, <1>28, <1>29,
     <1>30, <1>31, <1>32
     DEF Next, Call, JobStep, Environment, Coordinator

-----------------------------------------------------------------------------
(* Where each kind of job can be                                           *)

\* There is no job at first.
LEMMA JobInit ==
  ASSUME Init
  PROVE  JobInv
BY DEF Init, JobInv, Doing

\* Every step leaves the job where its kind may be.
LEMMA JobInvStep ==
  ASSUME TypeInv, JobInv, [Next]_vars
  PROVE  JobInv'
<1>0. JobInv /\ job \in Job \cup {None}
  BY DEF TypeInv
<1>1. CASE CaptureStart
  BY <1>0, NoneAssumption, <1>1
     DEF CaptureStart, NewJob, JobInv, Doing, Free, At, pipelines
<1>2. CASE CaptureStop
  BY <1>0, NoneAssumption, <1>2
     DEF CaptureStop, NewJob, JobInv, Doing, Free, At, pipelines
<1>3. CASE \E c \in Configs : ChangeSettings(c)
  BY <1>0, NoneAssumption, <1>3, ChangeJob DEF pipelines, JobInv, Doing, Free
<1>4. CASE \/ Reload("glossary", Audio)
          \/ Reload("credential", All)
  BY <1>0, NoneAssumption, <1>4
     DEF Reload, NewJob, JobInv, Doing, Free, At, pipelines
<1>5. CASE MicrophoneTest
  BY <1>0, <1>5 DEF MicrophoneTest, JobInv, Doing, Free, At, pipelines
<1>6. CASE StopPipelines
  BY <1>0, NoneAssumption, <1>6
     DEF StopPipelines, Go, Job, JobInv, Doing, Free, At
<1>7. CASE Drained
  BY <1>0, <1>7 DEF Drained, JobInv, Doing, Free, At
<1>8. CASE Joined
  <2>1. UNCHANGED <<microphone, speaker>>
    BY <1>8 DEF Joined, pipelines
  <2>. QED BY <1>0, NoneAssumption, <1>8, <2>1, JoinedJob
       DEF SameJob, Fails, Ends, JobInv, Doing
<1>9. CASE SaveSettings
  BY ZenonT(30), <1>0, NoneAssumption, <1>9
     DEF SaveSettings, Rollback, Job, JobInv, Doing, Free, At, pipelines
<1>10. CASE RestoreSettings
  BY ZenonT(30), <1>0, NoneAssumption, <1>10
     DEF RestoreSettings, Continue, Done, Job, JobInv, Doing, Free, At,
         pipelines
<1>11. CASE Prepare
  <2>1. UNCHANGED <<microphone, speaker>>
    BY <1>11 DEF Prepare
  <2>. QED BY <1>0, NoneAssumption, <1>11, <2>1, PrepareJob
       DEF SameJob, Fails, Ends, JobInv, Doing
<1>12. CASE OpenMicrophone
  BY <1>0, NoneAssumption, <1>12
     DEF OpenMicrophone, Job, JobInv, Doing, Free, At, pipelines
<1>13. CASE ConnectMicrophone
  BY <1>0, NoneAssumption, <1>13
     DEF ConnectMicrophone, Job, JobInv, Doing, Free, At
<1>14. CASE OpenSpeaker
  BY <1>0, NoneAssumption, <1>14 DEF OpenSpeaker, Job, JobInv, Doing, Free, At
<1>15. CASE Opened
  <2>1. UNCHANGED <<microphone, speaker>>
    BY <1>15 DEF Opened, pipelines
  <2>. QED BY <1>0, NoneAssumption, <1>15, <2>1, OpenedJob
       DEF SameJob, Fails, Ends, JobInv, Doing
<1>16. CASE ApplyExternal
  BY ZenonT(30), <1>0, NoneAssumption, <1>16
     DEF ApplyExternal, Go, Rollback, Job, JobInv, Doing, Free, At, pipelines
<1>17. CASE CommitSettings
  BY <1>0, NoneAssumption, <1>17
     DEF CommitSettings, Go, Job, JobInv, Doing, Free, At, pipelines
<1>18. CASE NotifySettings
  BY <1>0, NoneAssumption, <1>18
     DEF NotifySettings, Done, Job, JobInv, Doing, Free, At, pipelines
<1>19. CASE Drop
  BY <1>0, NoneAssumption, <1>19 DEF Drop, JobInv, Doing, Free, At
<1>20. CASE MicrophoneFails
  BY <1>0, <1>20 DEF MicrophoneFails, JobInv, Doing, Free, At
<1>21. CASE SpeakerFails
  BY <1>0, <1>21 DEF SpeakerFails, JobInv, Doing, Free, At
<1>22. CASE NetworkFails
  BY <1>0, <1>22 DEF NetworkFails, JobInv, Doing, Free, At
<1>23. CASE DetachedEnds
  BY <1>0, <1>23 DEF DetachedEnds, JobInv, Doing, Free, At
<1>24. CASE FollowSetting
  BY <1>0, <1>24 DEF FollowSetting, JobInv, Doing, Free, At, pipelines
<1>25. CASE ReportMute
  BY <1>0, <1>25 DEF ReportMute, JobInv, Doing, Free, At, pipelines
<1>26. CASE CoordinatorLooks
  BY <1>0, <1>26 DEF CoordinatorLooks, JobInv, Doing, Free, At, pipelines
<1>27. CASE CoordinatorPauses
  BY <1>0, NoneAssumption, <1>27
     DEF CoordinatorPauses, NewJob, JobInv, Doing, Free, At, pipelines
<1>28. CASE CoordinatorResumes
  BY <1>0, NoneAssumption, <1>28
     DEF CoordinatorResumes, NewJob, JobInv, Doing, Free, At, pipelines
<1>29. CASE UNCHANGED vars
  BY <1>0, NoneAssumption, <1>29 DEF vars, JobInv, Doing, Free, At, pipelines
<1>30. CASE MicrophoneTestStop
  BY <1>0, NoneAssumption, <1>30
     DEF MicrophoneTestStop, NewJob, JobInv, Doing, Free, At, pipelines
<1>31. CASE TestStopped
  <2>1. UNCHANGED <<microphone, speaker>>
    BY <1>31 DEF TestStopped, pipelines, history
  <2>. QED BY <1>0, NoneAssumption, <1>31, <2>1, TestStoppedJob
       DEF SameJob, Ends, JobInv, Doing
<1>32. CASE TestEnds
  BY <1>0, <1>32
     DEF TestEnds, JobInv, Doing, Free, At, pipelines
<1>. QED BY <1>1, <1>2, <1>3, <1>4, <1>5, <1>6, <1>7, <1>8, <1>9, <1>10,
     <1>11, <1>12, <1>13, <1>14, <1>15, <1>16, <1>17, <1>18, <1>19, <1>20,
     <1>21, <1>22, <1>23, <1>24, <1>25, <1>26, <1>27, <1>28, <1>29,
     <1>30, <1>31, <1>32
     DEF Next, Call, JobStep, Environment, Coordinator

\* Only a change of settings saves, restores, applies and commits.
LEMMA SettingsOnly ==
  ASSUME JobInv, job \in Job,
         job.at \in {"save", "restore", "external", "commit", "notify"}
  PROVE  Doing("settings") /\ (job.at = "restore" <=> job.undo) /\ ~job.failed
<1>1. job # None /\ job.kind \in Kinds
  BY NoneAssumption DEF Job
<1>2. job.kind = "settings"
  BY <1>1 DEF JobInv, Doing, Kinds
<1>. QED BY <1>1, <1>2 DEF JobInv, Doing

-----------------------------------------------------------------------------
(* What a change of settings has done                                      *)

\* The file holds the settings at first.
LEMMA SettingsInit ==
  ASSUME Init
  PROVE  SettingsInv
BY DEF Init, SettingsInv, FileInv, SyncInv, FilterInv, Doing

\* Every step of a change of settings, and every way it fails, leaves the
\* file and capture_requested as the next step or the rollback expects them.
LEMMA FileStep ==
  ASSUME TypeInv, JobInv, FileInv, [Next]_vars
  PROVE  FileInv'
<1>0. JobInv /\ FileInv /\ job \in Job \cup {None} /\ Flags
  BY DEF TypeInv
<1>1. CASE CaptureStart
  BY <1>0, NoneAssumption, <1>1
     DEF CaptureStart, NewJob, FileInv, Restored, Doing, Free, history
<1>2. CASE CaptureStop
  BY <1>0, NoneAssumption, <1>2
     DEF CaptureStop, NewJob, FileInv, Restored, Doing, Free, history
<1>3. CASE \E c \in Configs : ChangeSettings(c)
  BY <1>0, NoneAssumption, <1>3, ChangeJob
     DEF history, FileInv, Restored, Doing, Free
<1>4. CASE \/ Reload("glossary", Audio)
          \/ Reload("credential", All)
  <2>1. Free /\ UNCHANGED <<requested, config, saved, skewed>>
        /\ job'.kind \in {"glossary", "credential"}
    BY <1>4 DEF Reload, NewJob, history
  <2>. QED BY <1>0, NoneAssumption, <2>1 DEF FileInv, Doing, Free
<1>5. CASE MicrophoneTest
  BY <1>0, <1>5 DEF MicrophoneTest, FileInv, Restored, Doing, Free, history
<1>6. CASE StopPipelines
  <2>1. UNCHANGED <<requested, config, saved, skewed>>
    BY <1>6 DEF StopPipelines, history
  <2>. QED BY <1>0, NoneAssumption, <1>6, <2>1, StopJob
       DEF SameJob, FileInv, Restored, JobInv, Doing
<1>7. CASE Drained
  BY <1>0, <1>7 DEF Drained, FileInv, Restored, Doing, Free, history
<1>8. CASE Joined
  <2>1. UNCHANGED <<requested, config, saved, skewed>>
    BY <1>8 DEF Joined, history
  <2>. QED BY <1>0, NoneAssumption, <1>8, <2>1, JoinedJob
       DEF SameJob, Fails, Ends, FileInv, Restored, JobInv, Doing
<1>9. CASE SaveSettings
  <2>1. UNCHANGED <<config, skewed>>
    BY <1>9 DEF SaveSettings
  <2>2. job \in Job /\ job.at = "save" /\ Doing("settings") /\ ~job.undo
    BY <1>0, <1>9, SaveJob, SettingsOnly
  <2>3. Doing("settings")'
    BY <2>2, <1>9, SaveJob, NoneAssumption DEF Doing
  <2>4. ~Restored /\ ~Restored'
    BY <2>2, <1>9, SaveJob DEF Restored
  <2>5. /\ job'.at # "notify" /\ job'.next = job.next /\ job'.plan = job.plan
        /\ job'.reload = job.reload /\ job'.was = job.was
    BY <1>9, SaveJob
  <2>6. CASE UNCHANGED <<saved, requested>>
    <3>1. \/ job'.applied = job.applied /\ job'.undo
          \/ saved' = job.next /\ job'.applied
             /\ requested' = (requested /\ ~(job.reload /\ ~Resumes(job.next)))
      BY <1>9, SaveJob
    <3>. QED BY <1>0, <2>1, <2>2, <2>3, <2>4, <2>5, <2>6, <3>1
         DEF FileInv, Flags
  <2>7. CASE /\ saved' = job.next /\ job'.applied
             /\ requested' = (requested /\ ~(job.reload /\ ~Resumes(job.next)))
    <3>1. job.reload \in BOOLEAN /\ job.was \in BOOLEAN
      BY <2>2 DEF Job
    <3>2. CASE Resumes(job.next)
      <4>1. requested' = requested
        BY <1>0, <2>7, <3>2 DEF Flags
      <4>. QED BY <1>0, <2>1, <2>2, <2>3, <2>4, <2>5, <2>7, <3>2, <4>1
           DEF FileInv
    <3>3. CASE ~Resumes(job.next)
      <4>1. job.plan = All /\ job.reload = job.was
        BY <1>0, <2>2, <3>3 DEF FileInv
      <4>2. requested' = FALSE
        BY <1>0, <2>2, <2>4, <2>7, <3>1, <3>3, <4>1 DEF FileInv, Flags
      <4>. QED BY <1>0, <2>1, <2>2, <2>3, <2>4, <2>5, <2>7, <3>3, <4>1, <4>2
           DEF FileInv
    <3>. QED BY <3>2, <3>3
  <2>. QED BY <1>9, <2>6, <2>7, SaveJob
<1>10. CASE RestoreSettings
  <2>1. /\ UNCHANGED config /\ requested' = (requested \/ job.reload)
        /\ ~skewed' =>
             ~skewed /\ saved' = IF job.applied THEN config ELSE saved
    BY <1>10 DEF RestoreSettings, PreviousFile, StillRequested
  <2>2. job \in Job /\ job.at = "restore" /\ Doing("settings") /\ job.undo
        /\ ~job.failed
    BY <1>0, <1>10, RestoreJob, SettingsOnly
  <2>3. CASE job.reload
    <3>1. /\ SameJob(job') /\ job'.at = "prepare" /\ job'.undo /\ ~job'.failed
      BY <1>10, <2>2, <2>3, RestoreJob
    <3>2. Restored' /\ ~Restored /\ Doing("settings")'
      BY <2>2, <3>1, NoneAssumption DEF Restored, SameJob, Doing
    <3>. QED BY <1>0, <2>1, <2>2, <2>3, <3>1, <3>2 DEF FileInv, SameJob
  <2>4. CASE ~job.reload
    <3>1. job' = None
      BY <1>10, <2>4, RestoreJob DEF Ends
    <3>2. ~Restored
      BY <2>2 DEF Restored
    <3>. QED BY <1>0, <2>1, <2>2, <3>1, <3>2 DEF FileInv, Doing
  <2>. QED BY <2>3, <2>4
<1>11. CASE Prepare
  <2>1. UNCHANGED <<requested, config, saved, skewed>>
    BY <1>11 DEF Prepare
  <2>. QED BY <1>0, NoneAssumption, <1>11, <2>1, PrepareJob
       DEF SameJob, Fails, Ends, FileInv, Restored, JobInv, Doing
<1>12. CASE OpenMicrophone
  <2>1. UNCHANGED <<requested, config, saved, skewed>>
    BY <1>12 DEF OpenMicrophone
  <2>. QED BY <1>0, NoneAssumption, <1>12, <2>1, OpeningJob
       DEF SameJob, FileInv, Restored, JobInv, Doing
<1>13. CASE ConnectMicrophone
  <2>1. UNCHANGED <<requested, config, saved, skewed>>
    BY <1>13 DEF ConnectMicrophone
  <2>. QED BY <1>0, NoneAssumption, <1>13, <2>1, OpeningJob
       DEF SameJob, FileInv, Restored, JobInv, Doing
<1>14. CASE OpenSpeaker
  <2>1. UNCHANGED <<requested, config, saved, skewed>>
    BY <1>14 DEF OpenSpeaker
  <2>. QED BY <1>0, NoneAssumption, <1>14, <2>1, OpeningJob
       DEF SameJob, FileInv, Restored, JobInv, Doing
<1>15. CASE Opened
  <2>1. UNCHANGED <<config, saved, skewed>>
    BY <1>15 DEF Opened
  <2>. QED BY <1>0, NoneAssumption, <1>15, <2>1, OpenedJob
       DEF SameJob, Ends, FileInv, Restored, JobInv, Doing
<1>16. CASE ApplyExternal
  <2>1. UNCHANGED <<requested, config, saved, skewed>>
    BY <1>16 DEF ApplyExternal
  <2>. QED BY <1>0, NoneAssumption, <1>16, <2>1, ExternalJob, SettingsOnly
       DEF SameJob, FileInv, Restored, JobInv, Doing
<1>17. CASE CommitSettings
  <2>1. UNCHANGED <<requested, saved, skewed>> /\ config' = job.next
    BY <1>17 DEF CommitSettings
  <2>2. /\ job \in Job /\ job.at = "commit" /\ SameJob(job')
        /\ job'.at = "notify" /\ Doing("settings") /\ ~job.undo /\ ~job'.undo
    BY <1>0, <1>17, CommitJob, SettingsOnly
  <2>3. ~Restored /\ ~Restored' /\ Doing("settings")'
    BY <2>2, NoneAssumption DEF Restored, SameJob, Doing
  <2>. QED BY <1>0, <2>1, <2>2, <2>3 DEF FileInv, SameJob
<1>18. CASE NotifySettings
  <2>1. UNCHANGED <<requested, config, saved, skewed>>
    BY <1>18 DEF NotifySettings, history
  <2>. QED BY <1>0, NoneAssumption, <1>18, <2>1, NotifyJob, SettingsOnly
       DEF SameJob, Ends, FileInv, Restored, JobInv, Doing
<1>19. CASE Drop
  BY <1>0, NoneAssumption, <1>19 DEF Drop, FileInv, Restored, Doing, Free
<1>20. CASE MicrophoneFails
  BY <1>0, <1>20 DEF MicrophoneFails, FileInv, Restored, Doing, Free
<1>21. CASE SpeakerFails
  BY <1>0, <1>21 DEF SpeakerFails, FileInv, Restored, Doing, Free
<1>22. CASE NetworkFails
  BY <1>0, <1>22 DEF NetworkFails, FileInv, Restored, Doing, Free
<1>23. CASE DetachedEnds
  BY <1>0, <1>23 DEF DetachedEnds, FileInv, Restored, Doing, Free, history
<1>24. CASE FollowSetting
  BY <1>0, <1>24 DEF FollowSetting, FileInv, Restored, Doing, Free, history
<1>25. CASE ReportMute
  BY <1>0, <1>25 DEF ReportMute, FileInv, Restored, Doing, Free, history
<1>26. CASE CoordinatorLooks
  BY <1>0, <1>26 DEF CoordinatorLooks, FileInv, Restored, Doing, Free, history
<1>27. CASE CoordinatorPauses
  BY <1>0, NoneAssumption, <1>27
     DEF CoordinatorPauses, NewJob, FileInv, Restored, Doing, Free, history
<1>28. CASE CoordinatorResumes
  BY <1>0, NoneAssumption, <1>28
     DEF CoordinatorResumes, NewJob, FileInv, Restored, Doing, Free, history
<1>29. CASE UNCHANGED vars
  BY <1>0, NoneAssumption, <1>29
     DEF vars, FileInv, Restored, Doing, Free, history
<1>30. CASE MicrophoneTestStop
  BY <1>0, NoneAssumption, <1>30
     DEF MicrophoneTestStop, NewJob, FileInv, Restored, Doing, Free, history
<1>31. CASE TestStopped
  <2>1. UNCHANGED <<requested, config, saved, skewed>>
    BY <1>31 DEF TestStopped, pipelines, history
  <2>. QED BY <1>0, NoneAssumption, <1>31, <2>1, TestStoppedJob
       DEF SameJob, Ends, FileInv, Restored, JobInv, Doing
<1>32. CASE TestEnds
  BY <1>0, <1>32
     DEF TestEnds, FileInv, Restored, Doing, Free, history
<1>. QED BY <1>1, <1>2, <1>3, <1>4, <1>5, <1>6, <1>7, <1>8, <1>9, <1>10,
     <1>11, <1>12, <1>13, <1>14, <1>15, <1>16, <1>17, <1>18, <1>19, <1>20,
     <1>21, <1>22, <1>23, <1>24, <1>25, <1>26, <1>27, <1>28, <1>29,
     <1>30, <1>31, <1>32
     DEF Next, Call, JobStep, Environment, Coordinator

\* The mute sync is told of every change that is committed.
LEMMA SyncStep ==
  ASSUME TypeInv, JobInv, FileInv, SyncInv, [Next]_vars
  PROVE  SyncInv'
<1>0. /\ JobInv /\ FileInv /\ SyncInv /\ job \in Job \cup {None}
      /\ enabled \in [value : BOOLEAN, changed : BOOLEAN]
  BY DEF TypeInv, Records
<1>1. CASE CaptureStart
  BY <1>0, NoneAssumption, <1>1
     DEF CaptureStart, NewJob, SyncInv, Doing, Free, mute, history
<1>2. CASE CaptureStop
  BY <1>0, NoneAssumption, <1>2
     DEF CaptureStop, NewJob, SyncInv, Doing, Free, mute, history
<1>3. CASE \E c \in Configs : ChangeSettings(c)
  BY <1>0, NoneAssumption, <1>3, ChangeJob
     DEF mute, history, SyncInv, Doing, Free
<1>4. CASE \/ Reload("glossary", Audio)
          \/ Reload("credential", All)
  <2>1. Free /\ UNCHANGED <<config, enabled, skewed>>
        /\ job'.kind \in {"glossary", "credential"}
    BY <1>4 DEF Reload, NewJob, history, mute
  <2>. QED BY <1>0, NoneAssumption, <2>1 DEF SyncInv, Doing, Free
<1>5. CASE MicrophoneTest
  BY <1>0, <1>5 DEF MicrophoneTest, SyncInv, Doing, Free, mute, history
<1>6. CASE StopPipelines
  <2>1. UNCHANGED <<config, enabled, skewed>>
    BY <1>6 DEF StopPipelines, mute, history
  <2>. QED BY <1>0, NoneAssumption, <1>6, <2>1, StopJob
       DEF SameJob, SyncInv, Doing
<1>7. CASE Drained
  BY <1>0, <1>7 DEF Drained, SyncInv, Doing, Free, mute, history
<1>8. CASE Joined
  <2>1. UNCHANGED <<config, enabled, skewed>>
    BY <1>8 DEF Joined, history
  <2>. QED BY <1>0, NoneAssumption, <1>8, <2>1, JoinedJob
       DEF SameJob, Fails, Ends, SyncInv, Doing
<1>9. CASE SaveSettings
  <2>1. UNCHANGED <<config, enabled, skewed>>
    BY <1>9 DEF SaveSettings, mute
  <2>. QED BY <1>0, NoneAssumption, <1>9, <2>1, SaveJob, SettingsOnly
       DEF SameJob, SyncInv, Doing
<1>10. CASE RestoreSettings
  <2>1. UNCHANGED <<config, enabled>> /\ (~skewed' => ~skewed)
    BY <1>10 DEF RestoreSettings
  <2>. QED BY <1>0, NoneAssumption, <1>10, <2>1, RestoreJob, SettingsOnly
       DEF SameJob, Ends, SyncInv, Doing
<1>11. CASE Prepare
  <2>1. UNCHANGED <<config, enabled, skewed>>
    BY <1>11 DEF Prepare
  <2>. QED BY <1>0, NoneAssumption, <1>11, <2>1, PrepareJob
       DEF SameJob, Fails, Ends, SyncInv, Doing
<1>12. CASE OpenMicrophone
  <2>1. UNCHANGED <<config, enabled, skewed>>
    BY <1>12 DEF OpenMicrophone, mute
  <2>. QED BY <1>0, NoneAssumption, <1>12, <2>1, OpeningJob
       DEF SameJob, SyncInv, Doing
<1>13. CASE ConnectMicrophone
  <2>1. UNCHANGED <<config, enabled, skewed>>
    BY <1>13 DEF ConnectMicrophone, mute
  <2>. QED BY <1>0, NoneAssumption, <1>13, <2>1, OpeningJob
       DEF SameJob, SyncInv, Doing
<1>14. CASE OpenSpeaker
  <2>1. UNCHANGED <<config, enabled, skewed>>
    BY <1>14 DEF OpenSpeaker, mute
  <2>. QED BY <1>0, NoneAssumption, <1>14, <2>1, OpeningJob
       DEF SameJob, SyncInv, Doing
<1>15. CASE Opened
  <2>1. UNCHANGED <<config, enabled, skewed>>
    BY <1>15 DEF Opened
  <2>. QED BY <1>0, NoneAssumption, <1>15, <2>1, OpenedJob
       DEF SameJob, Ends, SyncInv, Doing
<1>16. CASE ApplyExternal
  <2>1. UNCHANGED <<config, enabled, skewed>>
    BY <1>16 DEF ApplyExternal, mute
  <2>. QED BY <1>0, NoneAssumption, <1>16, <2>1, ExternalJob, SettingsOnly
       DEF SameJob, SyncInv, Doing
<1>17. CASE CommitSettings
  <2>1. UNCHANGED <<enabled, skewed>>
    BY <1>17 DEF CommitSettings, mute
  <2>. QED BY <1>0, NoneAssumption, <1>17, <2>1, CommitJob, SettingsOnly
       DEF SameJob, JobInv, SyncInv, Doing
<1>18. CASE NotifySettings
  <2>1. UNCHANGED <<config, skewed>>
    BY <1>18 DEF NotifySettings, history
  <2>. QED BY <1>0, NoneAssumption, <1>18, <2>1, NotifyJob, SettingsOnly
       DEF SameJob, Ends, SyncInv, Doing, NotifySettings, FileInv, JobInv
<1>19. CASE Drop
  BY <1>0, NoneAssumption, <1>19 DEF Drop, SyncInv, Doing, Free, mute
<1>20. CASE MicrophoneFails
  BY <1>0, <1>20 DEF MicrophoneFails, SyncInv, Doing, Free, mute
<1>21. CASE SpeakerFails
  BY <1>0, <1>21 DEF SpeakerFails, SyncInv, Doing, Free, mute
<1>22. CASE NetworkFails
  BY <1>0, <1>22 DEF NetworkFails, SyncInv, Doing, Free, mute
<1>23. CASE DetachedEnds
  BY <1>0, <1>23 DEF DetachedEnds, SyncInv, Doing, Free, mute, history
<1>24. CASE FollowSetting
  BY <1>0, <1>24
     DEF FollowSetting, SetStatus, SyncInv, Doing, Free, mute, history
<1>25. CASE ReportMute
  BY <1>0, <1>25
     DEF ReportMute, SetStatus, SyncInv, Doing, Free, mute, history
<1>26. CASE CoordinatorLooks
  BY <1>0, <1>26 DEF CoordinatorLooks, SyncInv, Doing, Free, mute, history
<1>27. CASE CoordinatorPauses
  BY <1>0, NoneAssumption, <1>27
     DEF CoordinatorPauses, NewJob, SyncInv, Doing, Free, mute, history
<1>28. CASE CoordinatorResumes
  BY <1>0, NoneAssumption, <1>28
     DEF CoordinatorResumes, NewJob, SyncInv, Doing, Free, history
<1>29. CASE UNCHANGED vars
  BY <1>0, NoneAssumption, <1>29 DEF vars, SyncInv, Doing, Free, mute, history
<1>30. CASE MicrophoneTestStop
  BY <1>0, NoneAssumption, <1>30
     DEF MicrophoneTestStop, NewJob, SyncInv, Doing, Free, mute, history
<1>31. CASE TestStopped
  <2>1. UNCHANGED <<config, enabled, skewed>>
    BY <1>31 DEF TestStopped, pipelines, history
  <2>. QED BY <1>0, NoneAssumption, <1>31, <2>1, TestStoppedJob
       DEF SameJob, Ends, SyncInv, JobInv, Doing
<1>32. CASE TestEnds
  BY <1>0, <1>32
     DEF TestEnds, SyncInv, Doing, Free, mute, history
<1>. QED BY <1>1, <1>2, <1>3, <1>4, <1>5, <1>6, <1>7, <1>8, <1>9, <1>10,
     <1>11, <1>12, <1>13, <1>14, <1>15, <1>16, <1>17, <1>18, <1>19, <1>20,
     <1>21, <1>22, <1>23, <1>24, <1>25, <1>26, <1>27, <1>28, <1>29,
     <1>30, <1>31, <1>32
     DEF Next, Call, JobStep, Environment, Coordinator

\* The speaker filter changes with the settings or with a candidate.
LEMMA FilterStep ==
  ASSUME TypeInv, FilterInv, [Next]_vars
  PROVE  FilterInv'
<1>0. /\ FilterInv
      /\ speakers \in
           [enabled : BOOLEAN, supported : BOOLEAN, running : BOOLEAN]
  BY DEF TypeInv, Records
<1>1. CASE CaptureStart
  BY <1>0, <1>1 DEF CaptureStart, FilterInv, history
<1>2. CASE CaptureStop
  BY <1>0, <1>2 DEF CaptureStop, FilterInv, history
<1>3. CASE \E c \in Configs : ChangeSettings(c)
  BY <1>0, <1>3 DEF ChangeSettings, FilterInv, history
<1>4. CASE \/ Reload("glossary", Audio)
          \/ Reload("credential", All)
  BY <1>0, <1>4 DEF Reload, FilterInv, history
<1>5. CASE MicrophoneTest
  BY <1>0, <1>5 DEF MicrophoneTest, FilterInv, history
<1>6. CASE StopPipelines
  BY <1>0, <1>6 DEF StopPipelines, FilterInv, history
<1>7. CASE Drained
  BY <1>0, <1>7 DEF Drained, StopSpeakers, FilterInv, history
<1>8. CASE Joined
  BY <1>0, <1>8 DEF Joined, FilterInv, history
<1>9. CASE SaveSettings
  BY <1>0, <1>9 DEF SaveSettings, FilterInv
<1>10. CASE RestoreSettings
  BY <1>0, <1>10 DEF RestoreSettings, FilterInv
<1>11. CASE Prepare
  BY <1>0, <1>11 DEF Prepare, FilterInv
<1>12. CASE OpenMicrophone
  <2>1. CASE ~job.target.microphone \/ StaysPaused
    BY <1>0, <1>12, <2>1 DEF OpenMicrophone, FilterInv
  <2>2. CASE ~(~job.target.microphone \/ StaysPaused)
    <3>1. /\ speakers'.enabled = job.target.filter
          /\ leaked' = (job.target.filter # config.filter)
          /\ UNCHANGED config
      BY <1>12, <2>2 DEF OpenMicrophone, StartSpeakers
    <3>. QED BY <3>1 DEF FilterInv
  <2>. QED BY <2>1, <2>2
<1>13. CASE ConnectMicrophone
  BY <1>0, <1>13 DEF ConnectMicrophone, StopSpeakers, FilterInv
<1>14. CASE OpenSpeaker
  BY <1>0, <1>14 DEF OpenSpeaker, FilterInv
<1>15. CASE Opened
  BY <1>0, <1>15 DEF Opened, FilterInv
<1>16. CASE ApplyExternal
  BY <1>0, <1>16 DEF ApplyExternal, FilterInv
<1>17. CASE CommitSettings
  BY <1>0, <1>17 DEF CommitSettings, FilterInv
<1>18. CASE NotifySettings
  BY <1>0, <1>18 DEF NotifySettings, FilterInv, history
<1>19. CASE Drop
  BY <1>0, <1>19 DEF Drop, FilterInv
<1>20. CASE MicrophoneFails
  BY <1>0, <1>20 DEF MicrophoneFails, StopSpeakers, FilterInv
<1>21. CASE SpeakerFails
  BY <1>0, <1>21 DEF SpeakerFails, FilterInv
<1>22. CASE NetworkFails
  BY <1>0, <1>22 DEF NetworkFails, FilterInv
<1>23. CASE DetachedEnds
  BY <1>0, <1>23 DEF DetachedEnds, StopSpeakers, FilterInv, history
<1>24. CASE FollowSetting
  BY <1>0, <1>24 DEF FollowSetting, FilterInv, history
<1>25. CASE ReportMute
  BY <1>0, <1>25 DEF ReportMute, FilterInv, history
<1>26. CASE CoordinatorLooks
  BY <1>0, <1>26 DEF CoordinatorLooks, FilterInv, history
<1>27. CASE CoordinatorPauses
  BY <1>0, <1>27 DEF CoordinatorPauses, FilterInv, history
<1>28. CASE CoordinatorResumes
  BY <1>0, <1>28 DEF CoordinatorResumes, FilterInv, history
<1>29. CASE UNCHANGED vars
  BY <1>0, <1>29 DEF vars, FilterInv, history
<1>30. CASE MicrophoneTestStop
  BY <1>0, <1>30
     DEF MicrophoneTestStop, FilterInv, history
<1>31. CASE TestStopped
  BY <1>0, <1>31
     DEF TestStopped, FilterInv, history
<1>32. CASE TestEnds
  BY <1>0, <1>32
     DEF TestEnds, FilterInv, history
<1>. QED BY <1>1, <1>2, <1>3, <1>4, <1>5, <1>6, <1>7, <1>8, <1>9, <1>10,
     <1>11, <1>12, <1>13, <1>14, <1>15, <1>16, <1>17, <1>18, <1>19, <1>20,
     <1>21, <1>22, <1>23, <1>24, <1>25, <1>26, <1>27, <1>28, <1>29,
     <1>30, <1>31, <1>32
     DEF Next, Call, JobStep, Environment, Coordinator

-----------------------------------------------------------------------------
(* What runs, and the microphone test                                      *)

\* Nothing runs and nothing is tested at first.
LEMMA RunInit ==
  ASSUME Init
  PROVE  RunInv /\ TestInv
BY CaptureAssumption DEF Init, RunInv, TestInv, TestAlone, Doing, At

\* What runs is requested, or belongs to a start or a stop under way.
LEMMA RunStep ==
  ASSUME TypeInv, JobInv, FileInv, RunInv, [Next]_vars
  PROVE  RunInv'
<1>0. /\ JobInv /\ FileInv /\ RunInv /\ Flags
      /\ job \in Job \cup {None}
  BY DEF TypeInv
<1>1. CASE CaptureStart
  BY <1>0, NoneAssumption, <1>1
     DEF CaptureStart, NewJob, RunInv, Doing, Free, pipelines, history
<1>2. CASE CaptureStop
  <2>1. NewJob("stop", "stop", All, config) \in Job
    BY NewJobType, PlanTypes DEF Kinds, Steps, TypeInv, Records
  <2>2. job' # None /\ job'.kind = "stop" /\ job'.at = "stop"
    BY <1>2, <2>1, NoneAssumption DEF CaptureStop, NewJob
  <2>. QED BY <2>2 DEF RunInv, Doing
<1>3. CASE \E c \in Configs : ChangeSettings(c)
  BY <1>0, NoneAssumption, <1>3, ChangeJob
     DEF pipelines, history, RunInv, Doing, Free
<1>4. CASE \/ Reload("glossary", Audio)
          \/ Reload("credential", All)
  BY <1>0, NoneAssumption, <1>4
     DEF Reload, NewJob, RunInv, Doing, Free, pipelines, history
<1>5. CASE MicrophoneTest
  BY <1>0, <1>5 DEF MicrophoneTest, RunInv, Doing, Free, pipelines, history
<1>6. CASE StopPipelines
  <2>1. /\ UNCHANGED <<requested, skewed>>
        /\ microphone' => microphone /\ "microphone" \notin job.plan
        /\ speaker' => speaker /\ "speaker" \notin job.plan
    BY <1>6 DEF StopPipelines, history
  <2>2. job.kind \in {"start", "stop"} => ~microphone' /\ ~speaker'
    BY <1>0, <1>6, <2>1, StopJob, NoneAssumption DEF JobInv, Doing, All, Audio
  <2>. QED BY <1>0, NoneAssumption, <1>6, <2>1, <2>2, StopJob
       DEF SameJob, RunInv, Doing
<1>7. CASE Drained
  BY <1>0, <1>7 DEF Drained, RunInv, Doing, Free, history
<1>8. CASE Joined
  <2>1. UNCHANGED <<microphone, speaker, requested, skewed>>
    BY <1>8 DEF Joined, pipelines, history
  <2>2. job \in Job /\ job.at = "join" /\ job # None
    BY <1>8, JoinedJob, NoneAssumption
  <2>3. job.kind \in {"start", "stop"} => ~microphone /\ ~speaker
    BY <1>0, <2>2 DEF JobInv, Doing, All, Audio
  <2>4. \/ job' = None
        \/ /\ job'.kind = job.kind
           /\ \/ job'.at \in {"stop", "restore", "save"}
              \/ job'.at = "prepare" /\ ~job.failed /\ job.kind # "settings"
    BY <1>8, JoinedJob DEF SameJob, Fails, Ends
  <2>5. ~job.failed => job.kind # "start"
    BY <1>0, <2>2 DEF JobInv, Doing
  <2>6. job.kind \in {"glossary", "credential"} => requested
    BY <1>0, <2>2 DEF RunInv, Doing
  <2>7. job.kind \in {"start", "stop", "settings", "glossary", "credential",
                    "pause"}
    BY <1>0, <2>2 DEF JobInv, Doing, Job, Kinds
  <2>8. job.kind \in {"stop", "pause"} => job' = None
    BY <1>0, <1>8, <2>2, JoinedJob DEF JobInv, Doing, Ends
  <2>. QED BY <1>0, <2>1, <2>2, <2>3, <2>4, <2>5, <2>6, <2>7, <2>8
       DEF RunInv, Doing
<1>9. CASE SaveSettings
  <2>1. UNCHANGED <<microphone, speaker, skewed>>
    BY <1>9 DEF SaveSettings, pipelines
  <2>2. job \in Job /\ job.at = "save" /\ Doing("settings") /\ ~job.undo
    BY <1>0, <1>9, SaveJob, SettingsOnly
  <2>3. job' # None /\ job'.kind = "settings"
    BY <2>2, <1>9, SaveJob, NoneAssumption DEF Doing
  <2>4. job.reload => job.was
    BY <1>0, <2>2 DEF FileInv
  <2>5. job.reload /\ Resumes(job.next) => requested
    BY <1>0, <2>2, <2>4 DEF FileInv
  <2>6. microphone \/ speaker => requested \/ skewed
    BY <1>0, <2>2 DEF RunInv, Doing
  <2>7. job.reload /\ ~Resumes(job.next) => ~microphone /\ ~speaker
    BY <1>0, <2>2 DEF FileInv, JobInv, All, Audio
  <2>8. CASE UNCHANGED requested /\ job'.at \in {"stop", "restore"}
    BY <2>1, <2>3, <2>6, <2>8 DEF RunInv, Doing
  <2>9. CASE /\ requested' = (requested /\ ~(job.reload /\ ~Resumes(job.next)))
             /\ job'.at = IF job.reload /\ Resumes(job.next) THEN "prepare"
                                                            ELSE "external"
    BY <2>1, <2>3, <2>5, <2>6, <2>7, <2>9 DEF RunInv, Doing
  <2>. QED BY <1>9, <2>8, <2>9, SaveJob
<1>10. CASE RestoreSettings
  <2>1. /\ UNCHANGED <<microphone, speaker>> /\ (~skewed' => ~skewed)
        /\ requested' = (requested \/ job.reload)
    BY <1>10 DEF RestoreSettings, StillRequested, pipelines
  <2>2. job \in Job /\ job.at = "restore" /\ Doing("settings")
    BY <1>0, <1>10, RestoreJob, SettingsOnly
  <2>3. microphone \/ speaker => requested \/ skewed
    BY <1>0, <2>2 DEF RunInv, Doing
  <2>4. \/ job' = None
        \/ job.reload /\ job'.kind = "settings"
    BY <1>10, <2>2, RestoreJob DEF SameJob, Ends, Doing
  <2>. QED BY <2>1, <2>3, <2>4 DEF RunInv, Doing
<1>11. CASE Prepare
  <2>1. UNCHANGED <<microphone, speaker, requested, skewed>>
    BY <1>11 DEF Prepare
  <2>. QED BY <1>0, NoneAssumption, <1>11, <2>1, PrepareJob, SettingsOnly
       DEF SameJob, Fails, Ends, RunInv, JobInv, Doing
<1>12. CASE OpenMicrophone
  <2>1. UNCHANGED <<microphone, speaker, requested, skewed>>
    BY <1>12 DEF OpenMicrophone, pipelines
  <2>. QED BY <1>0, NoneAssumption, <1>12, <2>1, OpeningJob, SettingsOnly
       DEF SameJob, RunInv, JobInv, Doing
<1>13. CASE ConnectMicrophone
  <2>1. UNCHANGED <<speaker, requested, skewed>>
    BY <1>13 DEF ConnectMicrophone
  <2>. QED BY <1>0, NoneAssumption, <1>13, <2>1, OpeningJob, SettingsOnly
       DEF SameJob, RunInv, JobInv, Doing
<1>14. CASE OpenSpeaker
  <2>1. UNCHANGED <<microphone, requested, skewed>>
    BY <1>14 DEF OpenSpeaker
  <2>. QED BY <1>0, NoneAssumption, <1>14, <2>1, OpeningJob, SettingsOnly
       DEF SameJob, RunInv, JobInv, Doing
<1>15. CASE Opened
  <2>1. UNCHANGED <<microphone, speaker, skewed>>
    BY <1>15 DEF Opened, pipelines
  <2>. QED BY <1>0, NoneAssumption, <1>15, <2>1, OpenedJob, SettingsOnly
       DEF SameJob, Ends, RunInv, JobInv, Doing
<1>16. CASE ApplyExternal
  <2>1. UNCHANGED <<microphone, speaker, requested, skewed>>
    BY <1>16 DEF ApplyExternal, pipelines
  <2>. QED BY <1>0, NoneAssumption, <1>16, <2>1, ExternalJob, SettingsOnly
       DEF SameJob, RunInv, JobInv, Doing
<1>17. CASE CommitSettings
  <2>1. UNCHANGED <<microphone, speaker, requested, skewed>>
    BY <1>17 DEF CommitSettings, pipelines
  <2>. QED BY <1>0, NoneAssumption, <1>17, <2>1, CommitJob, SettingsOnly
       DEF SameJob, RunInv, JobInv, Doing
<1>18. CASE NotifySettings
  <2>1. UNCHANGED <<microphone, speaker, requested, skewed>>
    BY <1>18 DEF NotifySettings, pipelines, history
  <2>. QED BY <1>0, NoneAssumption, <1>18, <2>1, NotifyJob, SettingsOnly
       DEF SameJob, Ends, RunInv, JobInv, Doing
<1>19. CASE Drop
  BY <1>0, NoneAssumption, <1>19 DEF Drop, RunInv, Doing, Free
<1>20. CASE MicrophoneFails
  BY <1>0, <1>20 DEF MicrophoneFails, RunInv, Doing, Free
<1>21. CASE SpeakerFails
  BY <1>0, <1>21 DEF SpeakerFails, RunInv, Doing, Free
<1>22. CASE NetworkFails
  BY <1>0, <1>22 DEF NetworkFails, RunInv, Doing, Free
<1>23. CASE DetachedEnds
  BY <1>0, <1>23 DEF DetachedEnds, RunInv, Doing, Free, history
<1>24. CASE FollowSetting
  BY <1>0, <1>24 DEF FollowSetting, RunInv, Doing, Free, pipelines, history
<1>25. CASE ReportMute
  BY <1>0, <1>25 DEF ReportMute, RunInv, Doing, Free, pipelines, history
<1>26. CASE CoordinatorLooks
  BY <1>0, <1>26 DEF CoordinatorLooks, RunInv, Doing, Free, pipelines, history
<1>27. CASE CoordinatorPauses
  BY <1>0, NoneAssumption, <1>27
     DEF CoordinatorPauses, NewJob, RunInv, Doing, Free, pipelines, history
<1>28. CASE CoordinatorResumes
  BY <1>0, NoneAssumption, <1>28
     DEF CoordinatorResumes, NewJob, RunInv, Doing, Free, pipelines, history
<1>29. CASE UNCHANGED vars
  BY <1>0, NoneAssumption, <1>29
     DEF vars, RunInv, Doing, Free, pipelines, history
<1>30. CASE MicrophoneTestStop
  BY <1>0, NoneAssumption, <1>30
     DEF MicrophoneTestStop, NewJob, RunInv, Doing, Free, pipelines, history
<1>31. CASE TestStopped
  <2>1. UNCHANGED <<requested, microphone, speaker, skewed>>
    BY <1>31 DEF TestStopped, pipelines, history
  <2>. QED BY <1>0, NoneAssumption, <1>31, <2>1, TestStoppedJob
       DEF SameJob, Ends, RunInv, JobInv, Doing
<1>32. CASE TestEnds
  BY <1>0, <1>32
     DEF TestEnds, RunInv, Doing, Free, pipelines, history
<1>. QED BY <1>1, <1>2, <1>3, <1>4, <1>5, <1>6, <1>7, <1>8, <1>9, <1>10,
     <1>11, <1>12, <1>13, <1>14, <1>15, <1>16, <1>17, <1>18, <1>19, <1>20,
     <1>21, <1>22, <1>23, <1>24, <1>25, <1>26, <1>27, <1>28, <1>29,
     <1>30, <1>31, <1>32
     DEF Next, Call, JobStep, Environment, Coordinator

\* Only a dropped call leaves a task behind.
LEMMA LeftFrame ==
  ASSUME [Next]_vars, ~Drop, Records
  PROVE  /\ detached' = detached \/ detached' = detached - 1
         /\ monitor'.left = monitor.left \/ monitor'.left = monitor.left - 1
         /\ drops' = drops
<1>0. monitor \in [run : {"on", "closing", "off"}, left : 0..MaxDrops]
  BY DEF Records
<1>1. CASE UNCHANGED vars
  BY <1>1 DEF vars, pipelines, history
<1>2. CASE CaptureStart \/ MicrophoneTest \/ MicrophoneTestStop
  BY <1>0, <1>2 DEF CaptureStart, MicrophoneTest, MicrophoneTestStop, StopTest,
              pipelines, history
<1>3. CASE \/ CaptureStop \/ \E c \in Configs : ChangeSettings(c)
           \/ Reload("glossary", Audio) \/ Reload("credential", All)
  BY <1>3 DEF CaptureStop, ChangeSettings, Reload, pipelines, history
<1>4. CASE \/ StopPipelines \/ Drained \/ SaveSettings \/ OpenMicrophone
           \/ ConnectMicrophone \/ OpenSpeaker \/ ApplyExternal
           \/ CommitSettings
  BY <1>4 DEF StopPipelines, Drained, SaveSettings, OpenMicrophone,
              ConnectMicrophone, OpenSpeaker, ApplyExternal, CommitSettings,
              pipelines, history
<1>5. CASE \/ Joined \/ RestoreSettings \/ Prepare \/ Opened \/ NotifySettings
           \/ TestStopped
  BY <1>5 DEF Joined, RestoreSettings, Prepare, Opened, NotifySettings,
              TestStopped, pipelines, history
<1>6. CASE \/ MicrophoneFails \/ SpeakerFails \/ NetworkFails
           \/ DetachedEnds \/ FollowSetting \/ ReportMute
  BY <1>6 DEF MicrophoneFails, SpeakerFails, NetworkFails, DetachedEnds,
              FollowSetting, ReportMute, pipelines, history
<1>7. CASE TestEnds
  BY <1>0, <1>7 DEF TestEnds, pipelines, history
<1>8. CASE Coordinator
  BY <1>8 DEF Coordinator, CoordinatorLooks, CoordinatorPauses,
              CoordinatorResumes, pipelines, history
<1>. QED BY <1>1, <1>2, <1>3, <1>4, <1>5, <1>6, <1>7, <1>8
     DEF Next, Call, JobStep, Environment

\* Nothing starts beside the microphone test.
LEMMA TestStep ==
  ASSUME TypeInv, JobInv, FileInv, RunInv, TestInv, [Next]_vars
  PROVE  TestInv'
<1>0. /\ JobInv /\ FileInv /\ RunInv /\ TestInv /\ Flags
      /\ job \in Job \cup {None}
      /\ monitor \in [run : {"on", "closing", "off"}, left : 0..MaxDrops]
      /\ Records
  BY DEF TypeInv, Records
<1>00. (detached + monitor.left <= MaxDrops - drops)'
  <2>1. Counts /\ (detached + monitor.left <= MaxDrops - drops)
    BY DEF TypeInv, TestInv, TestAlone
  <2>2. CASE Drop
    <3>1. ~draining \/ monitor.run # "closing"
      BY DEF TestInv, At
    <3>2. \/ detached' = detached /\ monitor'.left = monitor.left + 1
          \/ detached' = detached + 1 /\ monitor'.left = monitor.left
          \/ detached' = detached /\ monitor'.left = monitor.left
      BY <1>0, <2>1, <2>2, <3>1, CaptureAssumption DEF Drop, Counts
    <3>3. drops' = drops - 1
      BY <2>2 DEF Drop
    <3>. QED BY <2>1, <3>2, <3>3, CaptureAssumption DEF Counts
  <2>3. CASE ~Drop
    <3>1. /\ detached' = detached \/ detached' = detached - 1
          /\ monitor'.left = monitor.left \/ monitor'.left = monitor.left - 1
          /\ drops' = drops
      BY <1>0, <2>3, LeftFrame
    <3>. QED BY <2>1, <3>1, CaptureAssumption DEF Counts
  <2>. QED BY <2>2, <2>3
<1>1. CASE CaptureStart
  <2>1. /\ job' # None /\ job'.kind = "start" /\ job'.at = "test"
    <3>1. job' \in Job
      BY <1>1, NewJobType, PlanTypes DEF CaptureStart, Kinds, Steps, TypeInv, Records
    <3>. QED BY <1>1, <3>1, NoneAssumption DEF CaptureStart, NewJob
  <2>2. monitor'.run \in {"closing", "off"}
    BY <1>0, <1>1 DEF CaptureStart, StopTest
  <2>3. /\ ~requested' /\ ~microphone' /\ ~draining'
    BY <1>0, <1>1, NoneAssumption
       DEF CaptureStart, TestInv, At, Free, pipelines
  <2>. QED BY <1>00, <2>1, <2>2, <2>3 DEF TestInv, TestAlone, At, Doing
<1>2. CASE CaptureStop
  BY <1>0, <1>00, NoneAssumption, <1>2
     DEF CaptureStop, NewJob, TestInv, TestAlone, RunInv, At, Doing, Free,
         pipelines, history
<1>3. CASE \E c \in Configs : ChangeSettings(c)
  BY <1>0, <1>00, NoneAssumption, <1>3, ChangeJob
     DEF pipelines, history, TestInv, TestAlone, RunInv, At, Doing, Free
<1>4. CASE \/ Reload("glossary", Audio)
          \/ Reload("credential", All)
  BY <1>0, <1>00, NoneAssumption, <1>4
     DEF Reload, NewJob, TestInv, TestAlone, RunInv, At, Doing, Free,
         pipelines, history
<1>5. CASE MicrophoneTest
  BY <1>0, <1>00, <1>5
     DEF MicrophoneTest, TestInv, TestAlone, RunInv, At, Doing, Free,
         pipelines, history
<1>6. CASE StopPipelines
  <2>1. /\ UNCHANGED <<monitor, requested>>
        /\ microphone' => microphone /\ "microphone" \notin job.plan
        /\ draining' => microphone
    BY <1>6 DEF StopPipelines
  <2>2. job' # None
    BY <1>6, StopJob, NoneAssumption DEF SameJob
  <2>. QED BY <1>0, <1>00, <1>6, NoneAssumption, <2>1, <2>2, StopJob
       DEF SameJob, TestInv, TestAlone, At, Doing
<1>7. CASE Drained
  BY <1>0, <1>00, <1>7
     DEF Drained, TestInv, TestAlone, RunInv, At, Doing, Free, history
<1>8. CASE Joined
  <2>1. UNCHANGED <<monitor, microphone, draining, requested>>
    BY <1>8 DEF Joined, pipelines, history
  <2>. QED BY <1>0, <1>00, NoneAssumption, <1>8, <2>1, JoinedJob, SettingsOnly
       DEF SameJob, Fails, Ends, TestInv, TestAlone, RunInv, At, JobInv,
           Doing, Joined
<1>9. CASE SaveSettings
  <2>0. UNCHANGED <<monitor, microphone, draining>>
    BY <1>9 DEF SaveSettings, pipelines
  <2>1. requested' => requested
    BY <1>9, SaveJob
  <2>2. job \in Job /\ job.at = "save" /\ Doing("settings")
    BY <1>0, <1>9, SaveJob, SettingsOnly
  <2>3. /\ job'.kind = "settings" /\ job'.reload = job.reload
        /\ job'.at \notin {"open", "test"} /\ ~draining
        /\ monitor.run # "closing"
    BY <1>0, <1>00, <1>9, <2>2, SaveJob DEF TestInv, At, Doing
  <2>. QED BY <1>0, <1>00, <2>0, <2>1, <2>2, <2>3 DEF TestInv, TestAlone, At, Doing
<1>10. CASE RestoreSettings
  <2>1. /\ UNCHANGED <<monitor, microphone, draining>>
        /\ requested' = (requested \/ job.reload)
    BY <1>10 DEF RestoreSettings, StillRequested, pipelines
  <2>2. job \in Job /\ job.at = "restore" /\ Doing("settings")
    BY <1>0, <1>00, <1>10, RestoreJob, SettingsOnly
  <2>3. /\ ~draining /\ monitor.run # "closing"
        /\ \/ job' = None
           \/ job'.kind = "settings" /\ job'.reload = job.reload
              /\ job'.at \notin {"open", "test"}
    BY <1>0, <1>00, <1>10, <2>2, RestoreJob DEF SameJob, Ends, TestInv, At, Doing
  <2>. QED BY <1>0, <1>00, <2>1, <2>2, <2>3 DEF TestInv, TestAlone, At, Doing
<1>11. CASE Prepare
  <2>1. UNCHANGED <<monitor, microphone, draining, requested>>
    BY <1>11 DEF Prepare
  <2>. QED BY <1>0, <1>00, NoneAssumption, <1>11, <2>1, PrepareJob, SettingsOnly
       DEF SameJob, Fails, Ends, TestInv, TestAlone, RunInv, At, JobInv, Doing
<1>12. CASE OpenMicrophone
  <2>1. UNCHANGED <<monitor, microphone, draining, requested>>
    BY <1>12 DEF OpenMicrophone, pipelines
  <2>. QED BY <1>0, <1>00, NoneAssumption, <1>12, <2>1, OpeningJob, SettingsOnly
       DEF SameJob, TestInv, TestAlone, RunInv, At, JobInv, Doing
<1>13. CASE ConnectMicrophone
  <2>1. UNCHANGED <<monitor, draining, requested>>
    BY <1>13 DEF ConnectMicrophone
  <2>. QED BY <1>0, <1>00, NoneAssumption, <1>13, <2>1, OpeningJob, SettingsOnly
       DEF SameJob, TestInv, TestAlone, RunInv, At, JobInv, Doing
<1>14. CASE OpenSpeaker
  <2>1. UNCHANGED <<monitor, microphone, draining, requested>>
    BY <1>14 DEF OpenSpeaker
  <2>. QED BY <1>0, <1>00, NoneAssumption, <1>14, <2>1, OpeningJob, SettingsOnly
       DEF SameJob, TestInv, TestAlone, RunInv, At, JobInv, Doing
<1>15. CASE Opened
  <2>1. UNCHANGED <<monitor, microphone, draining>>
    BY <1>15 DEF Opened, pipelines
  <2>. QED BY <1>0, <1>00, NoneAssumption, <1>15, <2>1, OpenedJob, SettingsOnly
       DEF SameJob, Ends, TestInv, TestAlone, RunInv, At, JobInv, Doing
<1>16. CASE ApplyExternal
  <2>1. UNCHANGED <<monitor, microphone, draining, requested>>
    BY <1>16 DEF ApplyExternal, pipelines
  <2>. QED BY <1>0, <1>00, NoneAssumption, <1>16, <2>1, ExternalJob, SettingsOnly
       DEF SameJob, TestInv, TestAlone, RunInv, At, JobInv, Doing
<1>17. CASE CommitSettings
  <2>1. UNCHANGED <<monitor, microphone, draining, requested>>
    BY <1>17 DEF CommitSettings, pipelines
  <2>. QED BY <1>0, <1>00, NoneAssumption, <1>17, <2>1, CommitJob, SettingsOnly
       DEF SameJob, TestInv, TestAlone, RunInv, At, JobInv, Doing
<1>18. CASE NotifySettings
  <2>1. UNCHANGED <<monitor, microphone, draining, requested>>
    BY <1>18 DEF NotifySettings, pipelines, history
  <2>. QED BY <1>0, <1>00, NoneAssumption, <1>18, <2>1, NotifyJob, SettingsOnly
       DEF SameJob, Ends, TestInv, TestAlone, RunInv, At, JobInv, Doing
<1>19. CASE Drop
  BY <1>0, <1>00, NoneAssumption, <1>19
     DEF Drop, TestInv, TestAlone, RunInv, At, Doing, Free
<1>20. CASE MicrophoneFails
  BY <1>0, <1>00, <1>20
     DEF MicrophoneFails, TestInv, TestAlone, RunInv, At, Doing, Free
<1>21. CASE SpeakerFails
  BY <1>0, <1>00, <1>21 DEF SpeakerFails, TestInv, TestAlone, RunInv, At, Doing, Free
<1>22. CASE NetworkFails
  BY <1>0, <1>00, <1>22 DEF NetworkFails, TestInv, TestAlone, RunInv, At, Doing, Free
<1>23. CASE DetachedEnds
  BY <1>0, <1>00, <1>23
     DEF DetachedEnds, TestInv, TestAlone, RunInv, At, Doing, Free, history
<1>24. CASE FollowSetting
  BY <1>0, <1>00, <1>24
     DEF FollowSetting, TestInv, TestAlone, RunInv, At, Doing, Free,
         pipelines, history
<1>25. CASE ReportMute
  BY <1>0, <1>00, <1>25
     DEF ReportMute, TestInv, TestAlone, RunInv, At, Doing, Free, pipelines,
         history
<1>26. CASE CoordinatorLooks
  BY <1>0, <1>00, <1>26
     DEF CoordinatorLooks, TestInv, TestAlone, RunInv, At, Doing, Free,
         pipelines, history
<1>27. CASE CoordinatorPauses
  BY <1>0, <1>00, NoneAssumption, <1>27
     DEF CoordinatorPauses, NewJob, TestInv, TestAlone, RunInv, At, Doing,
         Free, pipelines, history
<1>28. CASE CoordinatorResumes
  BY <1>0, <1>00, NoneAssumption, <1>28
     DEF CoordinatorResumes, NewJob, TestInv, TestAlone, RunInv, At, Doing,
         Free, pipelines, history
<1>29. CASE UNCHANGED vars
  BY <1>0, <1>00, NoneAssumption, <1>29
     DEF vars, TestInv, TestAlone, RunInv, At, Doing, Free, pipelines, history
<1>30. CASE MicrophoneTestStop
  <2>1. /\ job' # None /\ job'.kind = "test" /\ job'.at = "test"
    <3>1. job' \in Job
      BY <1>30, NewJobType, PlanTypes
         DEF MicrophoneTestStop, Kinds, Steps, TypeInv, Records
    <3>. QED BY <1>30, <3>1, NoneAssumption DEF MicrophoneTestStop, NewJob
  <2>2. /\ monitor'.run \in {"closing", "off"}
        /\ monitor'.run # "off" => monitor.run # "off"
    BY <1>0, <1>30 DEF MicrophoneTestStop, StopTest
  <2>3. /\ UNCHANGED <<requested, microphone, draining>> /\ ~draining
    BY <1>0, <1>30, NoneAssumption
       DEF MicrophoneTestStop, TestInv, At, Free, pipelines
  <2>4. monitor.run # "off" => ~requested /\ ~microphone
    BY <1>0 DEF TestInv, TestAlone
  <2>. QED BY <1>00, <2>1, <2>2, <2>3, <2>4 DEF TestInv, TestAlone, At, Doing
<1>31. CASE TestStopped
  <2>1. UNCHANGED <<monitor, microphone, draining, requested>>
    BY <1>31 DEF TestStopped, pipelines, history
  <2>2. monitor.run = "off"
    BY <1>0, <1>00, <1>31 DEF TestStopped, TestInv, At, Records
  <2>. QED BY <1>0, <1>00, NoneAssumption, <1>31, <2>1, <2>2, TestStoppedJob
       DEF SameJob, Ends, TestInv, TestAlone, At, Doing
<1>32. CASE TestEnds
  BY <1>0, <1>00, CaptureAssumption, <1>32
     DEF TestEnds, TestInv, TestAlone, At, Doing, Free, pipelines, history,
         Counts, Records
<1>. QED BY <1>1, <1>2, <1>3, <1>4, <1>5, <1>6, <1>7, <1>8, <1>9, <1>10,
     <1>11, <1>12, <1>13, <1>14, <1>15, <1>16, <1>17, <1>18, <1>19, <1>20,
     <1>21, <1>22, <1>23, <1>24, <1>25, <1>26, <1>27, <1>28, <1>29,
     <1>30, <1>31, <1>32
     DEF Next, Call, JobStep, Environment, Coordinator

\* The steps that end a change of settings restore or clear capture_requested.
LEMMA RollbackStep ==
  ASSUME TypeInv, JobInv, FileInv, [Next]_vars,
         job # None, job' = None, job.kind = "settings", drops' = drops
  PROVE  requested' = IF job.undo \/ job.next.chatbox \/ HasSources(job.next)
                        THEN job.was ELSE FALSE
<1>1. job \in Job /\ Doing("settings") /\ Flags
  BY DEF TypeInv, Doing
<1>2. Resumes(job.next) <=> job.next.chatbox \/ HasSources(job.next)
  BY DEF Resumes
<1>3. SUFFICES requested' = IF job.undo \/ Resumes(job.next) THEN job.was
                                                           ELSE FALSE
  BY <1>2
<1>4. CASE Joined
  <2>1. job.failed /\ job.undo /\ UNCHANGED requested
    BY <1>1, <1>4, JoinedJob, NoneAssumption DEF Joined, Fails, Ends, SameJob
  <2>. QED BY <1>1, <2>1 DEF FileInv, Restored
<1>5. CASE RestoreSettings
  <2>1. job.at = "restore" /\ ~job.reload /\ job.undo /\ ~job.failed
    BY <1>1, <1>5, RestoreJob, SettingsOnly, NoneAssumption DEF SameJob
  <2>2. requested' = (requested \/ job.reload)
    BY <1>5 DEF RestoreSettings, StillRequested
  <2>3. requested' = requested
    BY <1>1, <2>1, <2>2 DEF Flags
  <2>4. job.was \in BOOLEAN
    BY <1>1 DEF Job
  <2>. QED BY <1>1, <2>1, <2>3, <2>4 DEF FileInv, Restored
<1>6. CASE Prepare
  <2>1. job.at = "prepare" /\ job.undo /\ UNCHANGED requested
    BY <1>6, PrepareJob, NoneAssumption DEF Prepare, Fails, Ends, SameJob
  <2>. QED BY <1>1, <2>1 DEF FileInv, Restored
<1>7. CASE Opened
  <2>1. job.at = "open" /\ job.undo /\ requested' = requested
    BY <1>1, <1>7, OpenedJob, NoneAssumption DEF Ends, SameJob, Flags
  <2>. QED BY <1>1, <2>1 DEF FileInv, Restored
<1>8. CASE NotifySettings
  <2>1. job.at = "notify" /\ ~job.undo /\ UNCHANGED requested
    BY <1>1, <1>8, NotifyJob, SettingsOnly DEF NotifySettings
  <2>. QED BY <1>1, <2>1 DEF FileInv, Restored
<1>9. CASE Drop
  BY <1>9 DEF Drop, TypeInv, Counts
<1>10. CASE Call \/ CoordinatorPauses \/ CoordinatorResumes
  BY <1>10
     DEF Call, CaptureStart, CaptureStop, ChangeSettings, Reload,
         MicrophoneTest, MicrophoneTestStop, CoordinatorPauses,
         CoordinatorResumes, Free
<1>11. CASE StopPipelines \/ SaveSettings \/ ApplyExternal \/ CommitSettings
            \/ OpenMicrophone \/ ConnectMicrophone \/ OpenSpeaker
  BY <1>11, StopJob, SaveJob, ExternalJob, CommitJob, OpeningJob,
     NoneAssumption
     DEF SameJob
<1>12. CASE \/ UNCHANGED vars \/ Drained \/ MicrophoneFails \/ SpeakerFails
            \/ NetworkFails \/ DetachedEnds \/ TestEnds \/ FollowSetting
            \/ ReportMute \/ CoordinatorLooks
  BY <1>12
     DEF vars, Drained, MicrophoneFails, SpeakerFails, NetworkFails,
         DetachedEnds, TestEnds, FollowSetting, ReportMute, CoordinatorLooks
<1>13. CASE TestStopped
  BY <1>1, <1>13, TestStoppedJob DEF JobInv
<1>. QED BY <1>4, <1>5, <1>6, <1>7, <1>8, <1>9, <1>10, <1>11, <1>12, <1>13
     DEF Next, JobStep, Environment, Coordinator

\* The inductive invariant.
CaptureInv ==
  TypeInv /\ MuteInv /\ JobInv /\ SettingsInv /\ RunInv /\ TestInv

\* All parts together are inductive.
LEMMA CaptureAlways == Spec => []CaptureInv
<1>1. Init => CaptureInv
  BY TypeInit, MuteInit, JobInit, SettingsInit, RunInit DEF CaptureInv
<1>2. CaptureInv /\ [Next]_vars => CaptureInv'
  <2>1. SUFFICES ASSUME CaptureInv, [Next]_vars PROVE CaptureInv'
    OBVIOUS
  <2>2. TypeInv' /\ MuteInv' /\ JobInv'
    BY <2>1, TypeStep, MuteStep, JobInvStep DEF CaptureInv
  <2>3. FileInv' /\ SyncInv' /\ FilterInv'
    BY <2>1, FileStep, SyncStep, FilterStep DEF CaptureInv, SettingsInv
  <2>4. RunInv' /\ TestInv'
    BY <2>1, RunStep, TestStep DEF CaptureInv, SettingsInv
  <2>. QED BY <2>2, <2>3, <2>4 DEF CaptureInv, SettingsInv
<1>. QED BY <1>1, <1>2, PTL DEF Spec

\* Whenever the mute coordinator has nothing left to do, a muted VRChat has a
\* closed Chatbox gate and no microphone runs or is about to: no interleaving
\* of the coordinator with starts, settings, failures and dropped calls leaves
\* one behind.
THEOREM CaptureMutedIsPaused == Spec => []MutedIsPaused
<1>1. CaptureInv => MutedIsPaused
  BY DEF CaptureInv, MuteInv
<1>. QED BY <1>1, CaptureAlways, PTL

\* Between jobs no pipeline runs that capture_requested does not account for,
\* unless a call was dropped.
THEOREM CaptureRunningIsRequested == Spec => []RunningIsRequested
<1>1. CaptureInv => RunningIsRequested
  BY DEF CaptureInv, RunInv, RunningIsRequested, Free, Doing
<1>. QED BY <1>1, CaptureAlways, PTL

\* Every variable of the capture control keeps its type, and a stopped task
\* that somebody waits for has its job, for all settings and any number of
\* failures and dropped calls.
THEOREM CaptureTypeCorrect == Spec => []TypeOK
<1>1. CaptureInv => TypeOK
  BY TypeParts DEF CaptureInv
<1>. QED BY <1>1, CaptureAlways, PTL

\* A microphone test, also one that a job is ending, has the microphone to
\* itself, but for stopped tasks that dropped calls have left: at most one for
\* each call dropped.
THEOREM CaptureTestAlone == Spec => []TestAlone
<1>1. CaptureInv => TestAlone
  BY DEF CaptureInv, TestInv
<1>. QED BY <1>1, CaptureAlways, PTL

\* Between jobs the file, the mute sync and the speaker filter agree with the
\* settings in memory, unless a job was dropped or its rollback failed.
THEOREM CaptureSettingsAgree == Spec => []SettingsAgree
<1>1. CaptureInv => SettingsAgree
  BY DEF CaptureInv, SettingsInv, FileInv, SyncInv, FilterInv, SettingsAgree,
         Free, Doing
<1>. QED BY <1>1, CaptureAlways, PTL

\* A change of settings that is rolled back or committed leaves
\* capture_requested as it found it, unless nothing is left to capture.
THEOREM CaptureRollback == Spec => RollbackRestoresRequest
<1>1. CaptureInv /\ [Next]_vars =>
        [job # None /\ job' = None /\ job.kind = "settings"
           /\ drops' = drops =>
             requested' = IF job.undo \/ job.next.chatbox
                             \/ HasSources(job.next)
                            THEN job.was ELSE FALSE]_vars
  BY RollbackStep DEF CaptureInv, SettingsInv
<1>. QED BY <1>1, CaptureAlways, PTL DEF Spec, RollbackRestoresRequest

-----------------------------------------------------------------------------
(* The microphone that runs again after an unmute                          *)

\* Nobody expects the microphone now: the mute state does not ask for it, the
\* coordinator still has to act, or its last start is known to have failed.
Excused == ~MayResume \/ unseen \/ coordinator = "resume" \/ broken

Heard == microphone \/ Excused

\* What the coordinator has seen of the status it decided on.
WakeInv ==
  /\ status.muted = "muted" => status.enabled
  /\ coordinator = "pause" /\ ~unseen => status.muted = "muted"

\* The configuration a job starts its pipelines with.
TargetInv ==
  /\ Doing("stop") => ~requested
  /\ Doing("glossary") \/ Doing("credential") => "microphone" \in job.plan
  /\ Doing("start") \/ Doing("glossary") \/ Doing("credential") =>
       job.target = config
  /\ Doing("settings") =>
       /\ ~job.undo => job.target = job.next
       /\ job.undo /\ job.at \in {"prepare", "open"} => job.target = config
       /\ "microphone" \notin job.plan \/ (~job.reload /\ job.was) =>
            job.next.microphone = config.microphone

\* A job whose start of the microphone has failed has said so.
BrokenInv ==
  /\ Doing("resume") => job.microphone \in {"connecting", "ok", "failed"}
  /\ job # None =>
       /\ job.failed => broken /\ job.at \in {"stop", "join"}
       /\ job.at = "open" =>
            /\ job.microphone = "ok" => microphone \/ broken
            /\ job.microphone = "failed" => broken

\* A change of settings that stops and starts the microphone.
Touches == "microphone" \in job.plan /\ job.reload

\* A microphone that is wanted is heard while no job is about to start it.
HeardInv ==
  /\ Free \/ job.at = "test" => (requested /\ config.microphone => Heard)
  /\ job # None /\ job.at = "open" /\ "microphone" \in job.plan
     /\ job.microphone = "skip" /\ job.target.microphone => Heard
  /\ Doing("settings") =>
       /\ ~Touches /\ requested /\ config.microphone => Heard
       /\ job.at \in {"external", "commit", "notify"} /\ requested
          /\ job.next.microphone => Heard

ResumeInv == WakeInv /\ TargetInv /\ BrokenInv /\ HeardInv

\* Where the state of the mute coordinator changes.
LEMMA MuteFrame ==
  ASSUME TypeInv, [Next]_vars
  PROVE  \/ FollowSetting \/ ReportMute \/ CoordinatorLooks
         \/ /\ UNCHANGED <<status, unseen>>
            /\ \/ coordinator' = coordinator
               \/ coordinator' = "wait" /\ CoordinatorResumes
               \/ /\ coordinator' = "wait" /\ job \in Job
                  /\ job.kind \in {"pause", "resume"}
                  /\ \/ Joined \/ RestoreSettings \/ Prepare \/ Opened
                     \/ NotifySettings \/ TestStopped
<1>1. CASE UNCHANGED vars
  BY <1>1 DEF vars, mute
<1>2. CASE Call
  BY <1>2 DEF Call, CaptureStart, CaptureStop, ChangeSettings, Reload,
              MicrophoneTest, MicrophoneTestStop, mute
<1>3. CASE \/ StopPipelines \/ Drained \/ SaveSettings \/ OpenMicrophone
           \/ ConnectMicrophone \/ OpenSpeaker \/ ApplyExternal
           \/ CommitSettings
  BY <1>3 DEF StopPipelines, Drained, SaveSettings, OpenMicrophone,
              ConnectMicrophone, OpenSpeaker, ApplyExternal, CommitSettings,
              mute
<1>4. CASE Joined
  BY <1>4, JoinedJob DEF Joined, Fails, Ends
<1>5. CASE RestoreSettings
  BY <1>5, RestoreJob DEF RestoreSettings, Ends
<1>6. CASE Prepare
  BY <1>6, PrepareJob DEF Prepare, Fails, Ends
<1>7. CASE Opened
  BY <1>7, OpenedJob DEF Opened, Ends
<1>8. CASE NotifySettings
  BY <1>8, NotifyJob DEF NotifySettings, Ends
<1>9. CASE Drop \/ MicrophoneFails \/ SpeakerFails \/ NetworkFails
           \/ DetachedEnds \/ TestEnds
  BY <1>9 DEF Drop, MicrophoneFails, SpeakerFails, NetworkFails, DetachedEnds,
              TestEnds, mute
<1>10. CASE CoordinatorPauses \/ CoordinatorResumes
  BY <1>10 DEF CoordinatorPauses, CoordinatorResumes, mute
<1>11. CASE TestStopped
  BY <1>11, TestStoppedJob DEF TestStopped, Ends
<1>. QED BY <1>1, <1>2, <1>3, <1>4, <1>5, <1>6, <1>7, <1>8, <1>9, <1>10,
     <1>11
     DEF Next, JobStep, Environment, Coordinator

\* Where the microphone and the memory of its failures change.
LEMMA MicrophoneFrame ==
  ASSUME [Next]_vars
  PROVE  /\ \/ microphone' = microphone \/ ConnectMicrophone
            \/ MicrophoneFails
            \/ /\ StopPipelines
               /\ microphone' = (microphone /\ "microphone" \notin job.plan)
         /\ \/ broken' = broken
            \/ broken' = TRUE
            \/ ConnectMicrophone /\ microphone' = TRUE
<1>1. CASE UNCHANGED vars
  BY <1>1 DEF vars, pipelines, history
<1>2. CASE Call
  BY <1>2 DEF Call, CaptureStart, CaptureStop, ChangeSettings, Reload,
              MicrophoneTest, MicrophoneTestStop, pipelines, history
<1>3. CASE \/ StopPipelines \/ Drained \/ SaveSettings \/ OpenMicrophone
           \/ ConnectMicrophone \/ OpenSpeaker \/ ApplyExternal
           \/ CommitSettings
  BY <1>3 DEF StopPipelines, Drained, SaveSettings, OpenMicrophone,
              ConnectMicrophone, OpenSpeaker, ApplyExternal, CommitSettings,
              pipelines, history
<1>4. CASE \/ Joined \/ RestoreSettings \/ Prepare \/ Opened \/ NotifySettings
           \/ TestStopped
  BY <1>4 DEF Joined, RestoreSettings, Prepare, Opened, NotifySettings,
              TestStopped, pipelines, history
<1>5. CASE Environment
  BY <1>5 DEF Environment, Drop, MicrophoneFails, SpeakerFails, NetworkFails,
              DetachedEnds, TestEnds, FollowSetting, ReportMute, pipelines,
              history
<1>6. CASE Coordinator
  BY <1>6 DEF Coordinator, CoordinatorLooks, CoordinatorPauses,
              CoordinatorResumes, pipelines, history
<1>. QED BY <1>1, <1>2, <1>3, <1>4, <1>5, <1>6 DEF Next, JobStep

\* The coordinator decides on the status it has seen.
LEMMA WakeStep ==
  ASSUME TypeInv, WakeInv, [Next]_vars
  PROVE  WakeInv'
<1>0. /\ status \in [enabled : BOOLEAN, muted : {"muted", "unmuted", "unknown"}]
      /\ unseen \in BOOLEAN
  BY DEF TypeInv, Records, Flags
<1>1. CASE FollowSetting
  BY <1>0, <1>1 DEF FollowSetting, SetStatus, WakeInv
<1>2. CASE ReportMute
  BY <1>0, <1>2 DEF ReportMute, SetStatus, WakeInv
<1>3. CASE CoordinatorLooks
  BY <1>0, <1>3 DEF CoordinatorLooks, WakeInv
<1>. QED BY <1>1, <1>2, <1>3, MuteFrame DEF WakeInv

\* What is excused or heard stays so, but for the steps that stop the
\* microphone or end the coordinator's resuming.
LEMMA HeardStep ==
  ASSUME TypeInv, MuteInv, WakeInv, [Next]_vars, Heard
  PROVE  \/ Heard'
         \/ StopPipelines /\ "microphone" \in job.plan
         \/ CoordinatorResumes
         \/ Opened /\ Doing("resume")
<1>0. /\ status \in [enabled : BOOLEAN, muted : {"muted", "unmuted", "unknown"}]
      /\ unseen \in BOOLEAN /\ broken \in BOOLEAN /\ microphone \in BOOLEAN
  BY DEF TypeInv, Records, Flags
<1>1. CASE microphone
  <2>1. MicrophoneFails => broken' = TRUE
    BY DEF MicrophoneFails
  <2>2. ConnectMicrophone => microphone' = TRUE \/ broken' = TRUE
    BY DEF ConnectMicrophone
  <2>. QED BY <1>1, <2>1, <2>2, MicrophoneFrame DEF Heard, Excused
<1>2. CASE broken
  BY <1>2, MicrophoneFrame DEF Heard, Excused
<1>3. CASE ~MayResume \/ unseen \/ coordinator = "resume"
  <2>1. CASE FollowSetting
    BY <1>0, <1>3, <2>1
       DEF FollowSetting, SetStatus, Heard, Excused, MayResume
  <2>2. CASE ReportMute
    BY <1>0, <2>2 DEF ReportMute, SetStatus, Heard, Excused
  <2>3. CASE CoordinatorLooks
    BY <2>3 DEF CoordinatorLooks, Heard, Excused, MayResume, WakeInv
  <2>4. CASE UNCHANGED <<status, unseen, coordinator>>
    BY <1>3, <2>4 DEF Heard, Excused, MayResume
  <2>5. CASE /\ UNCHANGED <<status, unseen>> /\ job \in Job
             /\ job.kind \in {"pause", "resume"}
             /\ \/ Joined \/ RestoreSettings \/ Prepare \/ Opened
                \/ NotifySettings \/ TestStopped
    <3>1. CASE coordinator # "resume"
      BY <1>3, <2>5, <3>1 DEF Heard, Excused, MayResume
    <3>2. CASE coordinator = "resume"
      <4>1. Doing("resume") /\ job.at = "open"
        BY <2>5, <3>2, NoneAssumption DEF MuteInv, Doing
      <4>2. Opened
        BY <2>5, <4>1
           DEF Joined, RestoreSettings, Prepare, NotifySettings, TestStopped, At
      <4>. QED BY <4>1, <4>2
    <3>. QED BY <3>1, <3>2
  <2>. QED BY <2>1, <2>2, <2>3, <2>4, <2>5, MuteFrame
<1>. QED BY <1>1, <1>2, <1>3 DEF Heard, Excused

\* The plan of a change of settings, and what it starts.
LEMMA ChangeTarget ==
  ASSUME TypeInv, NEW c \in Configs, ChangeSettings(c)
  PROVE  /\ job'.target = c
         /\ \/ job'.plan = All
            \/ job'.plan = Between(config, c)
         /\ job'.reload = (requested /\ job'.plan # {})
<1>1. PICK plan \in IF Resumes(c) THEN {Between(config, c), All} ELSE {All} :
        job' = [NewJob("settings",
                       IF requested /\ plan # {} THEN "stop" ELSE "save",
                       plan, c)
                  EXCEPT !.reload = requested /\ plan # {}]
  BY DEF ChangeSettings, Resumes
<1>2. /\ job'.target = c /\ job'.plan = plan
      /\ job'.reload = (requested /\ plan # {})
  BY <1>1 DEF NewJob
<1>. QED BY <1>1, <1>2

\* The steps of a job.
Moves ==
  \/ StopPipelines \/ Joined \/ SaveSettings \/ RestoreSettings \/ Prepare
  \/ OpenMicrophone \/ ConnectMicrophone \/ OpenSpeaker \/ Opened
  \/ ApplyExternal \/ CommitSettings \/ NotifySettings \/ TestStopped

\* Only the restore of the settings changes what a job starts.
LEMMA MovesTarget ==
  ASSUME TypeInv, Moves
  PROVE  \/ job' = None
         \/ job'.target = job.target
         \/ RestoreSettings /\ job'.target = config
<1>0. job \in Job
  BY DEF TypeInv, Moves, StopPipelines, Joined, SaveSettings, RestoreSettings,
         Prepare, OpenMicrophone, ConnectMicrophone, OpenSpeaker, Opened,
         ApplyExternal, CommitSettings, NotifySettings, TestStopped, At
<1>1. Rollback.target = job.target
  BY <1>0 DEF Rollback, Job
<1>2. \A j \in AfterFailure : j = None \/ j.target = job.target
  BY <1>0, <1>1 DEF AfterFailure, Job
<1>3. ASSUME NEW j, Continue(j) PROVE job' = None \/ job' = j
  BY <1>3 DEF Continue, Done
<1>4. CASE \/ StopPipelines \/ OpenMicrophone \/ ConnectMicrophone
           \/ OpenSpeaker \/ CommitSettings
  BY <1>0, <1>4 DEF StopPipelines, OpenMicrophone, ConnectMicrophone,
                    OpenSpeaker, CommitSettings, Go, Job
<1>5. CASE SaveSettings \/ ApplyExternal
  BY <1>0, <1>1, <1>5 DEF SaveSettings, ApplyExternal, Go, Job
<1>6. CASE Joined
  <2>1. CASE job.failed
    BY <1>2, <1>3, <1>6, <2>1 DEF Joined
  <2>2. CASE ~job.failed
    <3>1. \/ job' = None
          \/ \E s \in {"restore", "save", "prepare"} : job' = [job EXCEPT !.at = s]
      BY <1>3, <1>6, <2>2 DEF Joined
    <3>. QED BY <1>0, <3>1 DEF Job
  <2>. QED BY <2>1, <2>2
<1>7. CASE RestoreSettings
  <2>1. \/ job' = None
        \/ job' = [job EXCEPT !.at = "prepare", !.target = config]
    BY <1>3, <1>7 DEF RestoreSettings
  <2>. QED BY <1>0, <1>7, <2>1 DEF Job
<1>8. CASE Prepare
  <2>1. CASE \E j \in AfterFailure : Continue(j)
    BY <1>2, <1>3, <2>1
  <2>2. CASE job' = [job EXCEPT
             !.at = "open",
             !.microphone = IF "microphone" \in job.plan THEN "todo"
                                                           ELSE "skip",
             !.speaker = IF "speaker" \in job.plan THEN "todo" ELSE "skip"]
    BY <1>0, <2>2 DEF Job
  <2>. QED BY <1>8, <2>1, <2>2 DEF Prepare
<1>9. CASE Opened
  <2>1. \A j \in StopRest : j.target = job.target
    BY <1>0 DEF StopRest, Job
  <2>2. AfterStart = None \/ AfterStart.target = job.target
    BY <1>0 DEF AfterStart, Job
  <2>. QED BY <1>3, <1>9, <2>1, <2>2 DEF Opened
<1>10. CASE NotifySettings
  BY <1>10 DEF NotifySettings, Done
<1>11. CASE TestStopped
  BY <1>11, TestStoppedJob DEF Ends
<1>. QED BY <1>4, <1>5, <1>6, <1>7, <1>8, <1>9, <1>10, <1>11 DEF Moves

\* A job that goes on is the same one; one that begins a rollback stops or
\* restores first.
LEMMA MovesJob ==
  ASSUME TypeInv, JobInv, Moves
  PROVE  /\ job \in Job
         /\ \/ job' = None
            \/ /\ job' \in Job /\ job'.kind = job.kind /\ job'.plan = job.plan
               /\ job'.next = job.next /\ job'.reload = job.reload
               /\ job'.was = job.was
               /\ \/ job'.undo = job.undo
                  \/ job'.undo /\ job'.at \in {"stop", "restore"}
<1>1. CASE StopPipelines
  BY <1>1, StopJob DEF SameJob
<1>2. CASE Joined
  BY <1>2, JoinedJob DEF SameJob, Fails, Ends
<1>3. CASE SaveSettings
  BY <1>3, SaveJob
<1>4. CASE RestoreSettings
  BY <1>4, RestoreJob DEF SameJob, Ends
<1>5. CASE Prepare
  BY <1>5, PrepareJob DEF SameJob, Fails, Ends
<1>6. CASE OpenMicrophone \/ ConnectMicrophone \/ OpenSpeaker
  BY <1>6, OpeningJob DEF SameJob
<1>7. CASE Opened
  BY <1>7, OpenedJob DEF SameJob, Ends, Job
<1>8. CASE ApplyExternal
  BY <1>8, ExternalJob DEF SameJob
<1>9. CASE CommitSettings
  BY <1>9, CommitJob DEF SameJob
<1>10. CASE NotifySettings
  BY <1>10, NotifyJob DEF Ends
<1>11. CASE TestStopped
  BY <1>11, TestStoppedJob DEF SameJob, Ends
<1>. QED BY <1>1, <1>2, <1>3, <1>4, <1>5, <1>6, <1>7, <1>8, <1>9, <1>10,
     <1>11
     DEF Moves

\* The steps that leave the job, the settings and the request alone.
Beside ==
  \/ MicrophoneTest \/ Drained \/ MicrophoneFails \/ SpeakerFails
  \/ NetworkFails \/ DetachedEnds \/ TestEnds \/ FollowSetting
  \/ ReportMute \/ CoordinatorLooks \/ UNCHANGED vars

\* They do not repair what is broken either.
LEMMA BesideFrame ==
  ASSUME Beside
  PROVE  UNCHANGED <<job, config, requested>> /\ (broken => broken')
<1>1. UNCHANGED <<job, config, requested>>
  BY DEF Beside, MicrophoneTest, Drained, MicrophoneFails, SpeakerFails,
         NetworkFails, DetachedEnds, TestEnds, FollowSetting, ReportMute,
         CoordinatorLooks, vars
<1>2. broken' = broken \/ broken' = TRUE
  BY DEF Beside, MicrophoneTest, Drained, MicrophoneFails, SpeakerFails,
         NetworkFails, DetachedEnds, TestEnds, FollowSetting, ReportMute,
         CoordinatorLooks, vars, history
<1>. QED BY <1>1, <1>2

\* Every step keeps what the jobs start.
LEMMA TargetStep ==
  ASSUME TypeInv, JobInv, FileInv, TargetInv, [Next]_vars
  PROVE  TargetInv'
<1>0. /\ config \in Configs /\ requested \in BOOLEAN
      /\ \A c \in Configs : c.microphone \in BOOLEAN
  BY ConfigTypes DEF TypeInv, Records, Flags
<1>1. CASE Beside
  BY <1>1, BesideFrame DEF TargetInv, Doing
<1>2. CASE job' = None
  BY <1>2 DEF TargetInv, Doing
<1>3. CASE CaptureStart
  <2>1. /\ job'.kind = "start" /\ job'.target = config /\ config' = config
    BY <1>3 DEF CaptureStart, NewJob
  <2>. QED BY <2>1 DEF TargetInv, Doing
<1>4. CASE CaptureStop
  <2>1. job'.kind = "stop" /\ ~requested'
    BY <1>4 DEF CaptureStop, NewJob
  <2>. QED BY <2>1 DEF TargetInv, Doing
<1>5. CASE \E c \in Configs : ChangeSettings(c)
  <2>1. PICK c \in Configs : ChangeSettings(c)
    BY <1>5
  <2>2. /\ job'.kind = "settings" /\ job'.next = c /\ job'.was = requested
        /\ ~job'.undo /\ job'.target = c /\ config' = config
        /\ job'.plan = All \/ job'.plan = Between(config, c)
        /\ job'.reload = (requested /\ job'.plan # {})
    BY <2>1, ChangeJob, ChangeTarget
  <2>3. "microphone" \in All
    BY DEF All, Audio
  <2>4. "microphone" \notin Between(config, c) => c.microphone = config.microphone
    BY <2>3 DEF Between, Audio
  <2>5. "microphone" \notin job'.plan => c.microphone = config.microphone
    BY <2>2, <2>3, <2>4
  <2>6. ~job'.reload /\ job'.was => job'.plan = {}
    BY <1>0, <2>2
  <2>. QED BY <2>2, <2>5, <2>6 DEF TargetInv, Doing
<1>6. ASSUME NEW kind \in {"glossary", "credential"}, NEW plan \in {Audio, All},
             Reload(kind, plan)
      PROVE  TargetInv'
  <2>1. /\ job'.kind = kind /\ job'.target = config /\ config' = config
        /\ job'.plan = plan /\ "microphone" \in plan
    BY <1>6 DEF Reload, NewJob, All, Audio
  <2>. QED BY <2>1 DEF TargetInv, Doing
<1>7. CASE CoordinatorPauses
  <2>1. job'.kind = "pause"
    BY <1>7 DEF CoordinatorPauses, NewJob
  <2>. QED BY <2>1 DEF TargetInv, Doing
<1>8. CASE CoordinatorResumes
  <2>1. job'.kind = "resume" \/ job' = None
    BY <1>8 DEF CoordinatorResumes, NewJob, Free
  <2>. QED BY <1>2, <2>1 DEF TargetInv, Doing
<1>9. CASE Moves /\ job' # None
  <2>1. /\ job \in Job /\ job # None
        /\ job'.kind = job.kind /\ job'.plan = job.plan
        /\ job'.next = job.next /\ job'.reload = job.reload
        /\ job'.was = job.was
        /\ \/ job'.undo = job.undo
           \/ job'.undo /\ job'.at \in {"stop", "restore"}
        /\ \/ job'.target = job.target
           \/ RestoreSettings /\ job'.target = config
    BY <1>9, MovesJob, MovesTarget, NoneAssumption
  <2>2. CommitSettings \/ config' = config
    BY <1>9 DEF Moves, StopPipelines, Joined, SaveSettings, RestoreSettings,
         Prepare, OpenMicrophone, ConnectMicrophone, OpenSpeaker, Opened,
         ApplyExternal, NotifySettings, TestStopped
  <2>3. CASE CommitSettings
    <3>1. /\ Doing("settings") /\ ~job.undo
      BY <2>1, <2>3, CommitJob, SettingsOnly
    <3>2. /\ config' = job.next /\ job'.target = job.target
          /\ job'.kind = "settings" /\ ~job'.undo
      BY <2>1, <2>3, <3>1, CommitJob DEF CommitSettings, RestoreSettings, At, Doing
    <3>. QED BY <2>1, <3>1, <3>2 DEF TargetInv, Doing
  <2>4. CASE RestoreSettings
    <3>1. Doing("settings") /\ job.undo
      BY <2>1, <2>4, RestoreJob, SettingsOnly
    <3>2. config' = config /\ job'.target = config /\ job'.undo
      <4>1. job' = [job EXCEPT !.at = "prepare", !.target = config]
        BY <1>9, <2>4, RestoreJob DEF RestoreSettings, Continue, Done, Ends
      <4>. QED BY <2>1, <2>4, <3>1, <4>1 DEF RestoreSettings, Job
    <3>. QED BY <2>1, <3>1, <3>2 DEF TargetInv, Doing
  <2>5. CASE ~CommitSettings /\ ~RestoreSettings
    <3>1. config' = config /\ job'.target = job.target
      BY <2>1, <2>2, <2>5
    <3>2. job.kind = "stop" => ~requested'
      <4>. SUFFICES ASSUME job.kind = "stop" PROVE ~requested'
        OBVIOUS
      <4>1. ~requested /\ job.at \in {"stop", "join"}
        BY <2>1 DEF TargetInv, JobInv, Doing
      <4>2. StopPipelines \/ Joined
        BY <1>9, <4>1 DEF Moves, SaveSettings, RestoreSettings, Prepare,
           OpenMicrophone, ConnectMicrophone, OpenSpeaker, Opened,
           ApplyExternal, CommitSettings, NotifySettings, TestStopped, At
      <4>. QED BY <4>1, <4>2 DEF StopPipelines, Joined
    <3>3. job.kind = "settings" /\ job'.undo /\ job'.at \in {"prepare", "open"}
            => job.undo /\ job.at \in {"prepare", "open"}
      <4>. SUFFICES ASSUME job.kind = "settings", job'.undo,
                           job'.at \in {"prepare", "open"}
                    PROVE  job.undo /\ job.at \in {"prepare", "open"}
        OBVIOUS
      <4>1. job.undo
        BY <2>1
      <4>2. ~Joined
        BY <1>9, JoinedJob DEF Fails, Ends
      <4>3. ~SaveSettings
        BY <2>1, <4>1, SaveJob, SettingsOnly
      <4>4. Prepare \/ OpenMicrophone \/ ConnectMicrophone \/ OpenSpeaker
        BY <1>9, <2>5, <4>2, <4>3, StopJob, OpenedJob, ExternalJob, NotifyJob,
           TestStoppedJob
           DEF Moves, Ends
      <4>. QED BY <4>1, <4>4, PrepareJob, OpeningJob
    <3>. QED BY <2>1, <3>1, <3>2, <3>3 DEF TargetInv, Doing
  <2>. QED BY <2>3, <2>4, <2>5
<1>10. CASE Drop
  BY <1>2, <1>10 DEF Drop
<1>11. CASE MicrophoneTestStop
  <2>1. job'.kind = "test"
    BY <1>11 DEF MicrophoneTestStop, NewJob
  <2>. QED BY <2>1 DEF TargetInv, Doing
<1>. QED BY <1>1, <1>2, <1>3, <1>4, <1>5, <1>6, <1>7, <1>8, <1>9, <1>10,
     <1>11
     DEF Next, Call, JobStep, Environment, Coordinator, Beside, Moves

\* Every failed start of the microphone is known.
LEMMA BrokenStep ==
  ASSUME TypeInv, MuteInv, JobInv, BrokenInv, [Next]_vars
  PROVE  BrokenInv'
<1>0. /\ job \in Job \cup {None} /\ broken \in BOOLEAN /\ microphone \in BOOLEAN
  BY DEF TypeInv, Flags
<1>1. CASE Beside
  <2>1. job' = job /\ (broken => broken')
    BY <1>1, BesideFrame
  <2>2. microphone => microphone' \/ broken'
    BY <1>1 DEF Beside, MicrophoneTest, Drained, MicrophoneFails, SpeakerFails,
         NetworkFails, DetachedEnds, TestEnds, FollowSetting, ReportMute,
         CoordinatorLooks, vars, pipelines
  <2>. QED BY <2>1, <2>2 DEF BrokenInv, Doing
<1>2. CASE job' = None
  BY <1>2 DEF BrokenInv, Doing
<1>3. ASSUME job'.kind # "resume", ~job'.failed, job'.at # "open"
      PROVE  BrokenInv'
  BY <1>3 DEF BrokenInv, Doing
<1>4. CASE CaptureStart \/ CaptureStop \/ CoordinatorPauses
           \/ MicrophoneTestStop
  <2>1. /\ job'.kind \in {"start", "stop", "pause", "test"} /\ ~job'.failed
        /\ job'.at \in {"test", "stop"}
    BY <1>4 DEF CaptureStart, CaptureStop, CoordinatorPauses,
       MicrophoneTestStop, NewJob
  <2>. QED BY <1>3, <2>1
<1>5. CASE \E c \in Configs : ChangeSettings(c)
  <2>1. /\ job'.kind = "settings" /\ ~job'.failed
        /\ job'.at \in {"stop", "save"}
    BY <1>5, ChangeJob
  <2>. QED BY <1>3, <2>1
<1>6. ASSUME NEW kind \in {"glossary", "credential"}, NEW plan \in {Audio, All},
             Reload(kind, plan)
      PROVE  BrokenInv'
  BY <1>3, <1>6 DEF Reload, NewJob
<1>7. CASE CoordinatorResumes
  <2>1. CASE job' = None
    BY <1>2, <2>1
  <2>2. CASE job' = [NewJob("resume", "open", {}, config)
                       EXCEPT !.microphone = "connecting"]
    <3>1. job'.microphone = "connecting" /\ job'.failed = FALSE
      BY <2>2 DEF NewJob
    <3>. QED BY <3>1 DEF BrokenInv, Doing
  <2>. QED BY <1>7, <2>1, <2>2 DEF CoordinatorResumes, Free
<1>8. CASE StopPipelines
  <2>1. /\ job'.kind = job.kind /\ job'.at = "join" /\ job'.failed = job.failed
        /\ job.at = "stop" /\ job \in Job /\ broken' = broken
    BY <1>8, StopJob DEF SameJob, StopPipelines, history
  <2>. QED BY <2>1, NoneAssumption DEF BrokenInv, JobInv, Doing
<1>9. CASE \/ Joined \/ SaveSettings \/ RestoreSettings \/ ApplyExternal
           \/ CommitSettings \/ NotifySettings
  <2>1. job \in Job /\ job # None /\ job.at # "open"
    BY <1>9, JoinedJob, SaveJob, RestoreJob, ExternalJob, CommitJob, NotifyJob,
       NoneAssumption
  <2>2. job.kind # "resume"
    BY <2>1 DEF JobInv, Doing
  <2>3. CASE Joined
    <3>1. job' = None
          \/ (job'.kind = job.kind /\ ~job'.failed /\ job'.at # "open")
      BY <2>3, JoinedJob DEF SameJob, Fails, Ends
    <3>. QED BY <1>2, <1>3, <2>2, <3>1
  <2>4. CASE ~Joined
    <3>1. ~job.failed
      BY <1>9, <2>1, <2>4, SaveJob, RestoreJob, ExternalJob, CommitJob,
         NotifyJob, SettingsOnly
    <3>2. job' = None
          \/ (job'.kind = job.kind /\ ~job'.failed /\ job'.at # "open")
      BY <1>9, <2>4, <3>1, SaveJob, RestoreJob, ExternalJob, CommitJob,
         NotifyJob DEF SameJob, Ends
    <3>. QED BY <1>2, <1>3, <2>2, <3>2
  <2>. QED BY <2>3, <2>4
<1>10. CASE Prepare
  <2>1. job \in Job /\ job # None /\ job.at = "prepare" /\ ~job.failed
        /\ job.kind # "resume"
    BY <1>10, PrepareJob, NoneAssumption DEF BrokenInv, JobInv, Doing
  <2>2. CASE Fails
    BY <2>1, <2>2 DEF Fails, Ends, SameJob, BrokenInv, Doing
  <2>3. CASE job' = [job EXCEPT
             !.at = "open",
             !.microphone = IF "microphone" \in job.plan THEN "todo"
                                                           ELSE "skip",
             !.speaker = IF "speaker" \in job.plan THEN "todo" ELSE "skip"]
    <3>1. job'.kind = job.kind /\ job'.failed = job.failed
          /\ job'.microphone \in {"todo", "skip"}
      BY <2>1, <2>3 DEF Job
    <3>. QED BY <2>1, <3>1 DEF BrokenInv, Doing
  <2>4. (\E j \in AfterFailure : Continue(j)) => Fails
    BY <2>1, FailsStep
  <2>. QED BY <1>10, <2>2, <2>3, <2>4 DEF Prepare
<1>11. CASE OpenMicrophone
  <2>1. /\ job \in Job /\ job # None /\ job.at = "open"
        /\ job.microphone = "todo" /\ broken' = broken
        /\ job'.kind = job.kind /\ job'.failed = job.failed
        /\ job'.microphone \in {"skip", "connecting"}
    BY <1>0, <1>11, NoneAssumption DEF OpenMicrophone, At, Job
  <2>. QED BY <2>1 DEF BrokenInv, Doing
<1>12. CASE ConnectMicrophone
  <2>1. /\ job \in Job /\ job # None /\ job.at = "open" /\ ~job.failed
        /\ job'.kind = job.kind /\ job'.failed = job.failed
        /\ \/ job'.microphone = "ok" /\ microphone'
           \/ job'.microphone = "failed" /\ broken'
    <3>1. job \in Job /\ job # None /\ job.at = "open"
      BY <1>0, <1>12, NoneAssumption DEF ConnectMicrophone, At
    <3>2. ~job.failed
      BY <3>1 DEF BrokenInv
    <3>3. /\ job'.kind = job.kind /\ job'.failed = job.failed
          /\ \/ job'.microphone = "ok" /\ microphone'
             \/ job'.microphone = "failed" /\ broken'
      BY <1>12, <3>1 DEF ConnectMicrophone, Job
    <3>. QED BY <3>1, <3>2, <3>3
  <2>. QED BY <2>1 DEF BrokenInv, Doing
<1>13. CASE OpenSpeaker
  <2>1. /\ job \in Job /\ job # None /\ job.at = "open"
        /\ UNCHANGED <<microphone, broken>>
        /\ job'.kind = job.kind /\ job'.failed = job.failed
        /\ job'.microphone = job.microphone
    BY <1>0, <1>13, NoneAssumption DEF OpenSpeaker, At, Job
  <2>. QED BY <2>1 DEF BrokenInv, Doing
<1>14. CASE Opened
  <2>1. /\ job \in Job /\ job # None /\ job.at = "open" /\ ~job.failed
    BY <1>14, OpenedJob, NoneAssumption DEF BrokenInv
  <2>2. CASE broken' = TRUE /\ \E j \in StopRest : Continue(j)
    <3>1. job.kind # "resume" /\ job'.kind = job.kind /\ job'.at = "stop"
      <4>1. PICK j \in StopRest : Continue(j)
        BY <2>2
      <4>2. SameJob(j) /\ j.at = "stop" /\ j # None
        BY <2>1, <4>1, StopRestJob, NoneAssumption DEF SameJob
      <4>3. job' = j
        BY <4>1, <4>2 DEF Continue
      <4>. QED BY <1>14, <2>1, <4>2, <4>3, OpenedJob, NoneAssumption
               DEF SameJob, Ends
    <3>. QED BY <2>2, <3>1 DEF BrokenInv, Doing
  <2>3. CASE Continue(AfterStart)
    <3>1. CASE job.kind = "settings" /\ ~job.undo
      <4>1. AfterStart = [job EXCEPT !.at = "external", !.microphone = "skip",
                                     !.speaker = "skip"]
        BY <3>1 DEF AfterStart
      <4>2. AfterStart.kind = "settings" /\ AfterStart.at = "external"
            /\ AfterStart.failed = job.failed
        BY <2>1, <3>1, <4>1 DEF Job
      <4>3. job' = None \/ job' = AfterStart
        BY <2>3 DEF Continue, Done
      <4>. QED BY <1>2, <2>1, <4>2, <4>3 DEF BrokenInv, Doing
    <3>2. CASE ~(job.kind = "settings" /\ ~job.undo)
      BY <1>2, <2>3, <3>2 DEF AfterStart, Continue, Done
    <3>. QED BY <3>1, <3>2
  <2>. QED BY <1>14, <2>2, <2>3 DEF Opened
<1>15. CASE Drop
  BY <1>2, <1>15 DEF Drop
<1>16. CASE TestStopped
  <2>1. job \in Job /\ job # None /\ job.at = "test"
    BY <1>16, TestStoppedJob, NoneAssumption
  <2>2. ~job.failed
    BY <2>1 DEF BrokenInv
  <2>3. job' = None \/ (job'.kind = "start" /\ ~job'.failed /\ job'.at = "prepare")
    BY <1>16, <2>2, TestStoppedJob DEF SameJob, Ends
  <2>. QED BY <1>2, <1>3, <2>3
<1>. QED BY <1>1, <1>4, <1>5, <1>6, <1>7, <1>8, <1>9, <1>10, <1>11, <1>12,
     <1>13, <1>14, <1>15, <1>16
     DEF Next, Call, JobStep, Environment, Coordinator, Beside

\* A change of settings that has not written its own keeps what is requested.
LEMMA RequestedWas ==
  ASSUME TypeInv, FileInv, Doing("settings")
  PROVE  requested => job.was
<1>1. job \in Job /\ requested \in BOOLEAN /\ job.was \in BOOLEAN
  BY DEF TypeInv, Flags, Doing, Job
<1>. QED BY <1>1 DEF FileInv

\* What a job expects of the microphone once both starts have returned.
LEMMA OpenedHeard ==
  ASSUME TypeInv, MuteInv, BrokenInv, HeardInv, TargetInv, Opened,
         job.kind # "resume"
  PROVE  /\ "microphone" \in job.plan /\ job.target.microphone => Heard
         /\ Heard => Heard'
<1>1. job \in Job /\ job # None /\ job.at = "open"
      /\ job.microphone \notin {"todo", "connecting"}
  BY OpenedJob, NoneAssumption DEF Opened
<1>2. job.microphone \in {"skip", "ok", "failed"}
  BY <1>1 DEF Job
<1>3. "microphone" \in job.plan /\ job.target.microphone => Heard
  BY <1>1, <1>2 DEF BrokenInv, HeardInv, Heard, Excused
<1>4. UNCHANGED <<microphone, status, unseen, coordinator>>
      /\ (broken' = broken \/ broken' = TRUE)
  <2>1. UNCHANGED <<microphone, status, unseen>>
        /\ (broken' = broken \/ broken' = TRUE)
    BY DEF Opened, pipelines
  <2>2. coordinator' = coordinator \/ job.kind = "pause"
    BY OpenedJob DEF Ends
  <2>3. job.kind # "pause"
    BY <1>1 DEF MuteInv, Doing
  <2>. QED BY <2>1, <2>2, <2>3
<1>5. Heard => Heard'
  BY <1>4 DEF Heard, Excused, MayResume
<1>. QED BY <1>3, <1>5

\* Every step leaves a wanted microphone heard, or a job that will start it.
LEMMA HeardInvStep ==
  ASSUME TypeInv, MuteInv, JobInv, FileInv, WakeInv, TargetInv, BrokenInv,
         HeardInv, [Next]_vars
  PROVE  HeardInv'
<1>0. /\ job \in Job \cup {None} /\ requested \in BOOLEAN
      /\ config \in Configs
  BY DEF TypeInv, Flags, Records
<1>1. CASE Beside
  <2>1. UNCHANGED <<job, config, requested>>
    BY <1>1, BesideFrame
  <2>2. Heard => Heard'
    <3>1. job' = job /\ (coordinator' = coordinator \/ coordinator = "wait")
      BY <1>1 DEF Beside, MicrophoneTest, Drained, MicrophoneFails,
         SpeakerFails, NetworkFails, DetachedEnds, TestEnds, FollowSetting,
         ReportMute, CoordinatorLooks, vars, mute
    <3>2. ~StopPipelines /\ ~Opened
      BY <3>1, StopJob, OpenedJob, NoneAssumption DEF Ends
    <3>3. ~CoordinatorResumes
      <4>. SUFFICES ASSUME CoordinatorResumes PROVE FALSE
        OBVIOUS
      <4>1. job = None /\ coordinator = "resume" /\ coordinator' = coordinator
        BY <3>1 DEF CoordinatorResumes, Free
      <4>2. job' = [NewJob("resume", "open", {}, config)
                      EXCEPT !.microphone = "connecting"]
        BY <4>1 DEF CoordinatorResumes
      <4>3. NewJob("resume", "open", {}, config) \in Job
        BY <1>0, NewJobType, PlanTypes DEF Kinds, Steps
      <4>4. job' \in Job
        BY <4>2, <4>3 DEF Job
      <4>. QED BY <3>1, <4>1, <4>4, NoneAssumption
    <3>. QED BY <1>1, <3>2, <3>3, HeardStep
  <2>. QED BY <2>1, <2>2 DEF HeardInv, Doing, Free, Touches
<1>2. ASSUME job' # None, job'.kind # "settings", job'.at # "test",
             job'.at # "open" \/ "microphone" \notin job'.plan
      PROVE  HeardInv'
  BY <1>2 DEF HeardInv, Doing, Free
<1>3. CASE CaptureStop \/ CoordinatorPauses
           \/ Reload("glossary", Audio) \/ Reload("credential", All)
  <2>1. PICK kind \in {"stop", "pause", "glossary", "credential"},
             plan \in SUBSET All :
          job' = NewJob(kind, "stop", plan, config)
    BY <1>3, PlanTypes DEF CaptureStop, CoordinatorPauses, Reload
  <2>2. job' \in Job
    BY <1>0, <2>1, NewJobType DEF Kinds, Steps
  <2>3. job'.kind = kind /\ job'.at = "stop"
    BY <2>1 DEF NewJob
  <2>. QED BY <1>2, <2>2, <2>3, NoneAssumption
<1>4. CASE \E c \in Configs : ChangeSettings(c)
  <2>1. /\ Free /\ job' # None /\ job'.at \in {"stop", "save"}
        /\ UNCHANGED <<requested, config, microphone, status, unseen,
                       coordinator, broken>>
    BY <1>4, ChangeJob, NoneAssumption DEF pipelines, mute, history
  <2>. QED BY <2>1 DEF HeardInv, Heard, Excused, MayResume, Doing, Free
<1>5. CASE CoordinatorResumes
  <2>1. CASE UNCHANGED job
    <3>1. /\ job' = None /\ (~requested \/ microphone \/ ~config.microphone)
          /\ UNCHANGED <<requested, config, microphone>>
      <4>1. UNCHANGED <<requested, config, microphone>> /\ job = None
        BY <1>5 DEF CoordinatorResumes, pipelines, Free
      <4>2. NewJob("resume", "open", {}, config) \in Job
        BY <1>0, NewJobType, PlanTypes DEF Kinds, Steps
      <4>3. [NewJob("resume", "open", {}, config)
               EXCEPT !.microphone = "connecting"] \in Job
        BY <4>2 DEF Job
      <4>. QED BY <1>5, <2>1, <4>1, <4>3, NoneAssumption DEF CoordinatorResumes
    <3>. QED BY <3>1 DEF HeardInv, Heard, Doing, Free
  <2>2. CASE job' = [NewJob("resume", "open", {}, config)
                       EXCEPT !.microphone = "connecting"]
    <3>1. NewJob("resume", "open", {}, config) \in Job
      BY <1>0, NewJobType, PlanTypes DEF Kinds, Steps
    <3>2. job' \in Job
      BY <2>2, <3>1 DEF Job
    <3>3. job'.kind = "resume" /\ job'.plan = {} /\ job'.at = "open"
      BY <2>2 DEF NewJob
    <3>. QED BY <1>2, <3>2, <3>3, NoneAssumption
  <2>. QED BY <1>5, <2>1, <2>2 DEF CoordinatorResumes
<1>6. CASE Drop
  <2>1. job' = None /\ broken' = TRUE
    BY <1>6 DEF Drop
  <2>. QED BY <2>1 DEF HeardInv, Heard, Excused, Doing
<1>7. ASSUME job \in Job, ~StopPipelines, ~Opened PROVE Heard => Heard'
  <2>1. ~CoordinatorResumes
    BY <1>7, NoneAssumption DEF CoordinatorResumes, Free
  <2>. QED BY <1>7, <2>1, HeardStep
<1>8. CASE StopPipelines
  <2>1. /\ job \in Job /\ job # None /\ job.at = "stop" /\ job'.at = "join"
        /\ job' # None /\ job'.kind = job.kind /\ job'.plan = job.plan
        /\ job'.reload = job.reload
    BY <1>8, StopJob, NoneAssumption DEF SameJob
  <2>2. UNCHANGED <<requested, config>>
    BY <1>8 DEF StopPipelines
  <2>3. Doing("settings") => job.reload
    BY <2>1 DEF JobInv, Doing
  <2>4. "microphone" \notin job.plan /\ Heard => Heard'
    BY <2>1, HeardStep, OpenedJob, NoneAssumption DEF CoordinatorResumes, Free
  <2>. QED BY <2>1, <2>2, <2>3, <2>4 DEF HeardInv, Doing, Free, Touches
<1>9. CASE Joined
  <2>1. job \in Job /\ job # None /\ job.at = "join" /\ (Heard => Heard')
    BY <1>7, <1>9, JoinedJob, StopJob, OpenedJob, NoneAssumption
  <2>2. UNCHANGED <<requested, config>> /\ (broken => broken')
    BY <1>9 DEF Joined, history
  <2>3. CASE job' = None
    <3>1. job.failed => Heard'
      BY <2>1, <2>2 DEF BrokenInv, Heard, Excused
    <3>2. ~job.failed => job.kind \in {"stop", "pause"}
      BY <1>9, <2>3, JoinedJob, NoneAssumption DEF SameJob
    <3>3. job.kind = "stop" => ~requested
      BY <2>1 DEF TargetInv, Doing
    <3>4. job.kind = "pause" => Heard
      BY <2>1 DEF MuteInv, WakeInv, Doing, Heard, Excused, MayResume
    <3>. QED BY <2>1, <2>2, <2>3, <3>1, <3>2, <3>3, <3>4 DEF HeardInv, Doing
  <2>4. CASE job' # None
    <3>1. /\ job'.kind = job.kind /\ job'.plan = job.plan
          /\ job'.reload = job.reload
          /\ job'.at \in {"stop", "restore", "prepare", "save"}
      BY <1>9, <2>4, JoinedJob DEF SameJob, Fails, Ends
    <3>. QED BY <2>1, <2>2, <2>4, <3>1 DEF HeardInv, Doing, Free, Touches
  <2>. QED BY <2>3, <2>4
<1>10. CASE SaveSettings
  <2>1. /\ job \in Job /\ job # None /\ (Heard => Heard') /\ Doing("settings")
        /\ job.at = "save"
    BY <1>7, <1>10, SaveJob, StopJob, OpenedJob, SettingsOnly, NoneAssumption
  <2>2. /\ job' # None /\ job'.kind = "settings" /\ job'.plan = job.plan
        /\ job'.reload = job.reload /\ job'.next = job.next
        /\ (requested' => requested)
        /\ job'.at \in {"stop", "restore", "prepare", "external"}
        /\ job'.at = "external" =>
              requested' = (requested /\ ~(job.reload /\ ~Resumes(job.next)))
              /\ (job.reload => ~Resumes(job.next))
    <3>1. /\ job' # None /\ job'.kind = "settings" /\ job'.plan = job.plan
          /\ job'.reload = job.reload /\ job'.next = job.next
      BY <1>10, <2>1, SaveJob, NoneAssumption DEF Doing
    <3>2. CASE /\ requested' =
                    (requested /\ ~(job.reload /\ ~Resumes(job.next)))
               /\ job'.at = IF job.reload /\ Resumes(job.next)
                             THEN "prepare" ELSE "external"
      <4>1. job'.at \in {"prepare", "external"}
        BY <3>2
      <4>2. job'.at = "external" => (job.reload => ~Resumes(job.next))
        BY <3>2
      <4>. QED BY <3>1, <3>2, <4>1, <4>2
    <3>3. CASE /\ requested' = requested
               /\ job'.at = IF job.reload THEN "stop" ELSE "restore"
      BY <3>1, <3>3
    <3>. QED BY <1>10, <3>2, <3>3, SaveJob
  <2>3. config' = config
    BY <1>10 DEF SaveSettings
  <2>4. job'.at = "external" /\ requested' /\ job.next.microphone => Heard
    <3>. SUFFICES ASSUME job'.at = "external", requested', job.next.microphone
                  PROVE  Heard
      OBVIOUS
    <3>1. Resumes(job.next)
      BY DEF Resumes, HasSources
    <3>2. ~job.reload /\ job.was /\ requested
      BY <2>1, <2>2, <3>1, RequestedWas
    <3>3. job.next.microphone = config.microphone
      BY <2>1, <3>2 DEF TargetInv
    <3>. QED BY <2>1, <3>2, <3>3 DEF HeardInv, Touches
  <2>. QED BY <2>1, <2>2, <2>3, <2>4 DEF HeardInv, Doing, Free, Touches
<1>11. CASE RestoreSettings
  <2>1. /\ job \in Job /\ job # None /\ (Heard => Heard') /\ Doing("settings")
        /\ job.at = "restore" /\ job.undo /\ ~job.failed
    BY <1>7, <1>11, RestoreJob, StopJob, OpenedJob, SettingsOnly, NoneAssumption
  <2>2. config' = config /\ requested' = (requested \/ job.reload)
    BY <1>11 DEF RestoreSettings, StillRequested
  <2>3. CASE job.reload
    <3>1. /\ job' # None /\ job'.kind = "settings" /\ job'.plan = job.plan
          /\ job'.reload = job.reload /\ job'.at = "prepare"
      BY <1>11, <2>1, <2>3, RestoreJob, NoneAssumption DEF SameJob, Doing
    <3>2. "microphone" \notin job.plan => requested
      <4>. SUFFICES ASSUME "microphone" \notin job.plan PROVE requested
        OBVIOUS
      <4>1. job.was /\ Resumes(job.next)
        BY <2>1, <2>3 DEF FileInv, All, Audio
      <4>. QED BY <2>1, <4>1 DEF FileInv
    <3>. QED BY <2>1, <2>2, <3>1, <3>2 DEF HeardInv, Doing, Free, Touches
  <2>4. CASE ~job.reload
    <3>1. job' = None
      BY <1>11, <2>4, RestoreJob DEF Ends
    <3>. QED BY <2>1, <2>2, <2>4, <3>1 DEF HeardInv, Doing, Touches
  <2>. QED BY <2>3, <2>4
<1>12. CASE Prepare
  <2>1. /\ job \in Job /\ job # None /\ (Heard => Heard')
        /\ job.at = "prepare"
    BY <1>7, <1>12, PrepareJob, StopJob, OpenedJob, NoneAssumption
  <2>2. UNCHANGED <<requested, config>>
    BY <1>12 DEF Prepare
  <2>3. CASE broken' /\ \E j \in AfterFailure : Continue(j)
    <3>1. Heard'
      BY <2>3 DEF Heard, Excused
    <3>2. job' = None \/ job'.at \in {"stop", "restore"}
      BY <2>1, <2>3, FailsStep DEF Fails, Ends
    <3>. QED BY <3>1, <3>2 DEF HeardInv, Doing
  <2>4. CASE job' = [job EXCEPT
             !.at = "open",
             !.microphone = IF "microphone" \in job.plan THEN "todo"
                                                           ELSE "skip",
             !.speaker = IF "speaker" \in job.plan THEN "todo" ELSE "skip"]
    <3>1. /\ job'.kind = job.kind /\ job'.plan = job.plan
          /\ job'.reload = job.reload /\ job'.at = "open" /\ job' \in Job
          /\ job'.microphone = IF "microphone" \in job.plan THEN "todo"
                                                           ELSE "skip"
      BY <2>1, <2>4 DEF Job, Steps
    <3>. QED BY <2>1, <2>2, <3>1, NoneAssumption DEF HeardInv, Doing, Free, Touches
  <2>. QED BY <1>12, <2>3, <2>4 DEF Prepare
<1>13. CASE OpenMicrophone
  <2>1. /\ job \in Job /\ job # None /\ (Heard => Heard') /\ job.at = "open"
    BY <1>7, <1>13, OpeningJob, StopJob, NoneAssumption
       DEF OpenMicrophone, Opened
  <2>2. /\ UNCHANGED <<requested, config, status, unseen, coordinator, broken>>
        /\ job'.kind = job.kind /\ job'.plan = job.plan /\ job' \in Job
        /\ job'.reload = job.reload /\ job'.at = "open"
        /\ job'.target = job.target
        /\ job'.microphone = "skip" =>
              ~job.target.microphone \/ status.muted = "muted"
    <3>1. job.microphone = "todo"
      BY <1>13 DEF OpenMicrophone
    <3>2. \/ /\ job' = [job EXCEPT !.microphone = "skip"]
             /\ ~job.target.microphone \/ status.muted = "muted"
          \/ job' = [job EXCEPT !.microphone = "connecting"]
      BY <1>13 DEF OpenMicrophone, StaysPaused
    <3>3. UNCHANGED <<requested, config, status, unseen, coordinator, broken>>
      BY <1>13 DEF OpenMicrophone, mute
    <3>. QED BY <2>1, <3>2, <3>3 DEF Job, Steps
  <2>3. status.muted = "muted" => Heard
    BY DEF WakeInv, Heard, Excused, MayResume
  <2>. QED BY <2>1, <2>2, <2>3, NoneAssumption DEF HeardInv, Doing, Free, Touches
<1>14. CASE ConnectMicrophone \/ OpenSpeaker
  <2>1. /\ job \in Job /\ job # None /\ (Heard => Heard') /\ job.at = "open"
    <3>1. job \in Job /\ job.at = "open" /\ ~StopPipelines
      BY <1>14, OpeningJob, StopJob
    <3>2. ~Opened
      BY <1>14, OpeningJob, OpenedJob, NoneAssumption DEF SameJob, Ends
    <3>. QED BY <1>7, <3>1, <3>2, NoneAssumption
  <2>2. /\ UNCHANGED <<requested, config>>
        /\ job'.kind = job.kind /\ job'.plan = job.plan /\ job' \in Job
        /\ job'.reload = job.reload /\ job'.at = "open"
        /\ job'.target = job.target
        /\ job'.microphone = "skip" => job.microphone = "skip"
    <3>1. UNCHANGED <<requested, config>>
      BY <1>14 DEF ConnectMicrophone, OpenSpeaker
    <3>2. /\ job'.target = job.target
          /\ job'.microphone = "skip" => job.microphone = "skip"
      BY <1>14, <2>1 DEF ConnectMicrophone, OpenSpeaker, Job
    <3>. QED BY <1>14, <3>1, <3>2, OpeningJob DEF SameJob
  <2>. QED BY <2>1, <2>2, NoneAssumption DEF HeardInv, Doing, Free, Touches
<1>15. CASE Opened
  <2>1. /\ job \in Job /\ job # None /\ job.at = "open"
        /\ job.microphone \notin {"todo", "connecting"} /\ config' = config
    BY <1>15, OpenedJob, NoneAssumption DEF Opened
  <2>2. CASE job.kind = "resume"
    <3>1. microphone \/ broken
      BY <2>1, <2>2 DEF BrokenInv, Doing
    <3>2. microphone' = microphone /\ (broken' = broken \/ broken' = TRUE)
      BY <1>15 DEF Opened, pipelines
    <3>3. job' = None
      BY <1>15, <2>2, OpenedJob DEF Ends
    <3>. QED BY <3>1, <3>2, <3>3 DEF HeardInv, Heard, Excused, Doing
  <2>3. CASE job.kind # "resume"
    <3>1. /\ "microphone" \in job.plan /\ job.target.microphone => Heard
          /\ Heard => Heard'
      BY <1>15, <2>3, OpenedHeard
    <3>2. CASE job.kind # "settings"
      <4>1. job.kind \in {"start", "glossary", "credential"}
        BY <2>1, <2>3, <3>2 DEF JobInv, Doing, Job, Kinds
      <4>2. "microphone" \in job.plan /\ job.target = config
        BY <2>1, <4>1 DEF TargetInv, JobInv, Doing, All, Audio
      <4>3. job' = None \/ (job'.at = "stop" /\ job'.kind # "settings")
        BY <1>15, <3>2, OpenedJob DEF Ends, SameJob
      <4>. QED BY <2>1, <3>1, <4>2, <4>3 DEF HeardInv, Doing, Free
    <3>3. CASE job.kind = "settings"
      <4>1. requested' = requested
        BY <1>0, <1>15, <3>3, OpenedJob
      <4>2. CASE job' = None
        <5>1. job.undo /\ job.target = config
          BY <1>15, <2>1, <3>3, <4>2, OpenedJob, NoneAssumption
             DEF SameJob, TargetInv, Doing
        <5>. QED BY <2>1, <3>1, <3>3, <4>1, <4>2, <5>1
             DEF HeardInv, Doing, Touches
      <4>3. CASE job' # None
        <5>1. /\ job'.kind = "settings" /\ job'.plan = job.plan
              /\ job'.reload = job.reload /\ job'.next = job.next
              /\ job'.at = "stop" \/ (job'.at = "external" /\ ~job.undo)
          BY <1>15, <3>3, <4>3, OpenedJob DEF SameJob, Ends
        <5>2. ~job.undo => job.target = job.next
          BY <2>1, <3>3 DEF TargetInv, Doing
        <5>3. "microphone" \notin job.plan =>
                job.next.microphone = config.microphone
          BY <2>1, <3>3 DEF TargetInv, Doing
        <5>. QED BY <2>1, <3>1, <3>3, <4>1, <4>3, <5>1, <5>2, <5>3
             DEF HeardInv, Doing, Free, Touches
      <4>. QED BY <4>2, <4>3
    <3>. QED BY <3>2, <3>3
  <2>. QED BY <2>2, <2>3
<1>16. CASE ApplyExternal
  <2>1. /\ job \in Job /\ job # None /\ (Heard => Heard')
        /\ job.at = "external" /\ Doing("settings")
    BY <1>7, <1>16, ExternalJob, StopJob, OpenedJob, SettingsOnly, NoneAssumption
  <2>2. /\ UNCHANGED <<requested, config>>
        /\ job' # None /\ job'.kind = "settings" /\ job'.plan = job.plan
        /\ job'.reload = job.reload /\ job'.next = job.next
        /\ job'.at \in {"commit", "stop", "restore"}
    BY <1>16, <2>1, ExternalJob, NoneAssumption DEF ApplyExternal, SameJob, Doing
  <2>. QED BY <2>1, <2>2 DEF HeardInv, Doing, Free, Touches
<1>17. CASE CommitSettings
  <2>1. /\ job \in Job /\ job # None /\ (Heard => Heard')
        /\ job.at = "commit" /\ Doing("settings")
    BY <1>7, <1>17, CommitJob, StopJob, OpenedJob, SettingsOnly, NoneAssumption
  <2>2. /\ requested' = requested /\ config' = job.next
        /\ job' # None /\ job'.kind = "settings" /\ job'.plan = job.plan
        /\ job'.reload = job.reload /\ job'.next = job.next
        /\ job'.at = "notify"
    BY <1>17, <2>1, CommitJob, NoneAssumption DEF CommitSettings, SameJob, Doing
  <2>. QED BY <2>1, <2>2 DEF HeardInv, Doing, Free, Touches
<1>18. CASE NotifySettings
  <2>1. /\ job \in Job /\ job # None /\ (Heard => Heard')
        /\ job.at = "notify" /\ Doing("settings") /\ job' = None
    BY <1>7, <1>18, NotifyJob, StopJob, OpenedJob, SettingsOnly, NoneAssumption
       DEF Ends
  <2>2. UNCHANGED <<requested, config>> /\ config = job.next
    BY <1>18, <2>1 DEF NotifySettings, FileInv
  <2>. QED BY <2>1, <2>2 DEF HeardInv, Doing
<1>19. CASE CaptureStart \/ MicrophoneTestStop
  <2>1. /\ Free /\ job' # None /\ job'.kind # "settings" /\ job'.at = "test"
        /\ UNCHANGED <<requested, config, microphone, status, unseen,
                       coordinator, broken>>
    <3>1. PICK kind \in {"start", "test"}, plan \in SUBSET All :
            job' = NewJob(kind, "test", plan, config)
      BY <1>19, PlanTypes DEF CaptureStart, MicrophoneTestStop
    <3>2. job' \in Job
      BY <1>0, <3>1, NewJobType DEF Kinds, Steps
    <3>3. job'.kind = kind /\ job'.at = "test"
      BY <3>1 DEF NewJob
    <3>. QED BY <1>19, <3>2, <3>3, NoneAssumption
         DEF CaptureStart, MicrophoneTestStop, pipelines, mute, history
  <2>. QED BY <2>1 DEF HeardInv, Heard, Excused, MayResume, Doing, Free
<1>20. CASE TestStopped
  <2>1. job \in Job /\ job # None /\ job.at = "test"
    BY <1>20, TestStoppedJob, NoneAssumption
  <2>2. Heard => Heard'
    BY <1>7, <1>20, <2>1, StopJob, OpenedJob
  <2>3. UNCHANGED <<requested, config>>
    BY <1>20 DEF TestStopped
  <2>4. job' = None \/ (job' # None /\ job'.kind = "start" /\ job'.at = "prepare")
    BY <1>20, TestStoppedJob DEF SameJob, Ends
  <2>. QED BY <2>1, <2>2, <2>3, <2>4 DEF HeardInv, Doing, Free
<1>. QED BY <1>1, <1>3, <1>4, <1>5, <1>6, <1>8, <1>9, <1>10, <1>11, <1>12,
     <1>13, <1>14, <1>15, <1>16, <1>17, <1>18, <1>19, <1>20
     DEF Next, Call, JobStep, Environment, Coordinator, Beside

\* Nothing is requested at first.
LEMMA ResumeInit ==
  ASSUME Init
  PROVE  ResumeInv
BY DEF Init, ResumeInv, WakeInv, TargetInv, BrokenInv, HeardInv, Doing

(***************************************************************************)
(* A microphone that is wanted runs again after the unmute, or after the   *)
(* mute sync is switched off: a mute that came while a start was reading   *)
(* the status, a change of settings under way, a resume that found nothing *)
(* requested and the jobs that hold capture_control in between lose no     *)
(* wake-up.  Only a start that failed, or a dropped call, leaves it off.   *)
(***************************************************************************)
THEOREM CaptureResumes == Spec => []ResumedWhenUnmuted
<1>1. Init => ResumeInv
  BY ResumeInit
<1>2. CaptureInv /\ ResumeInv /\ [Next]_vars => ResumeInv'
  <2>. SUFFICES ASSUME CaptureInv, ResumeInv, [Next]_vars PROVE ResumeInv'
    OBVIOUS
  <2>1. TypeInv /\ MuteInv /\ JobInv /\ FileInv
    BY DEF CaptureInv, SettingsInv
  <2>. QED BY <2>1, WakeStep, TargetStep, BrokenStep, HeardInvStep
       DEF ResumeInv
<1>3. ResumeInv => ResumedWhenUnmuted
  BY DEF ResumeInv, HeardInv, Heard, Excused, MayResume, Settled,
         ResumedWhenUnmuted
<1>. QED BY <1>1, <1>2, <1>3, CaptureAlways, PTL DEF Spec
=============================================================================
