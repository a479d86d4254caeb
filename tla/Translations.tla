---------------------------- MODULE Translations ----------------------------
(***************************************************************************)
(* What happens to a recognized utterance, or to a Chatbox message of      *)
(* another player, until its translations are shown: stored and announced  *)
(* (pipeline/dependencies.rs, vrchat_chatbox.rs), translated by the        *)
(* dispatcher (translation/dispatcher.rs) or by the provider that          *)
(* recognized it (pending_native), and reported (subtitle_output.rs).      *)
(* MicrophoneSpeakers may take an utterance back at any moment; the player *)
(* session may invalidate a remote message.                                *)
(***************************************************************************)
EXTENDS MicrophoneSpeakers

CONSTANTS
  Remotes,        \* messages of other players
  Langs,          \* target languages of the dispatcher
  NativeLang,     \* the target language of the live translation
  MicTargets,     \* microphone_targets: sets of targets the settings may have
  SpeakerTargets, \* speaker_targets, used for the messages of others
  QueueCapacity,  \* capacity of the dispatcher's channel
  Permits         \* permits of its semaphore

ASSUME TranslationsAssumption ==
  /\ Remotes \cap Utterances = {}
  /\ NativeLang \notin Langs
  /\ MicTargets \cup SpeakerTargets \subseteq SUBSET Langs
  /\ QueueCapacity \in Nat \ {0}
  /\ \A r \in MicTargets \cup SpeakerTargets : Cardinality(r) <= Permits

VARIABLES
  record,     \* how far each message has come
  targets,    \* the targets its job has
  invalid,    \* remote messages whose TaskValidity is gone
  queue,      \* the dispatcher's channel: messages whose job waits
  loop,       \* the job the dispatcher takes permits for, or None
  granted,    \* the permits it has taken for it
  task,       \* process_job, for each message and target
  native,     \* pending_native, and the update the pipeline works on
  saved,      \* translations stored
  told        \* what the displays have been told about each translation

jobs == <<record, targets, invalid, queue, loop, granted, task, native, saved,
          told>>
vars == <<filter, jobs>>

Messages == Utterances \cup Remotes
Natives  == {u \in Utterances : u.session # 0}
Slots    == Messages \X Langs
Items    == Slots \cup (Natives \X {NativeLang})

Alive == {"spawned", "context", "calling", "delay", "retrying", "storing",
          "stored", "unstored"}

Init ==
  /\ FilterInit
  /\ record = [m \in Messages |-> "absent"]
  /\ targets = [m \in Messages |-> {}]
  /\ invalid = {}
  /\ queue = << >>
  /\ loop = None
  /\ granted = 0
  /\ task = [t \in Slots |-> "none"]
  /\ native = [u \in Natives |-> "none"]
  /\ saved = {}
  /\ told = [i \in Items |-> {}]

-----------------------------------------------------------------------------
\* SubtitleLifecyclePublisher::allows, and the check every commit and every
\* report makes again under the filter's lock
Allowed(m) == m \in Remotes \/ Allows(m)

\* Both checks of process_job.
Wanted(m) == m \notin invalid /\ Allowed(m)

Tell(S, what) ==
  told' = [i \in Items |-> IF i \in S THEN told[i] \cup {what} ELSE told[i]]

Outcomes == {"completed", "failed"}

\* The pipeline handles one result at a time.
PipelineBusy ==
  \/ \E u \in Utterances : record[u] = "stored"
  \/ \E u \in Natives : native[u] \in {"storing", "saved", "unsaved"}

-----------------------------------------------------------------------------
(* Recording                                                               *)

\* scope_event: an event of the recognition names an utterance, with the
\* speaker if the provider has found it.
Hear(u, s) ==
  /\ ~PipelineBusy /\ Recognizable(u)
  /\ s # None => policy.supported
  /\ record[u] = "absent" \/ (record[u] = "heard" /\ s # None)
  /\ Discover(u, s)
  /\ record' = [record EXCEPT ![u] = "heard"]
  /\ UNCHANGED <<targets, invalid, queue, loop, granted, task, native, saved,
                 told>>

\* publish_text_with_translation up to the stored row.  A refused or failed
\* one is not announced.
StoreSubtitle(u) ==
  /\ ~PipelineBusy /\ record[u] = "heard"
  /\ \/ Allows(u) /\ record' = [record EXCEPT ![u] = "stored"]
     \/ record' = [record EXCEPT ![u] = "dropped"]
  /\ UNCHANGED <<filter, targets, invalid, queue, loop, granted, task, native,
                 saved, told>>

\* ChatboxConsumer::record, up to the stored row
StoreRemote(m) ==
  /\ record[m] = "absent" /\ \A n \in Remotes : record[n] # "stored"
  /\ record' = [record EXCEPT ![m] =
                  IF m \in invalid THEN "dropped" ELSE "stored"]
  /\ UNCHANGED <<filter, targets, invalid, queue, loop, granted, task, native,
                 saved, told>>

\* enqueue_guarded, and the failures its caller reports for a full queue
Enqueue(m, route) ==
  /\ targets' = [targets EXCEPT ![m] = route]
  /\ IF route = {} \/ ~Wanted(m)
     THEN UNCHANGED <<queue, told>>
     ELSE IF Len(queue) < QueueCapacity
     THEN queue' = Append(queue, m) /\ UNCHANGED told
     ELSE Tell({m} \X route, "failed") /\ UNCHANGED queue

\* The rest of publish_text_with_translation: the subtitle is announced, a
\* live translation is expected or not, and the job is queued.
AnnounceSubtitle(u, route) ==
  /\ record[u] = "stored"
  /\ IF Allows(u)
     THEN /\ record' = [record EXCEPT ![u] = "announced"]
          /\ Enqueue(u, route)
     ELSE /\ record' = [record EXCEPT ![u] = "dropped"]
          /\ UNCHANGED <<targets, queue, told>>
  /\ UNCHANGED <<filter, invalid, loop, granted, task, native, saved>>

AnnounceNative(u, route) ==
  /\ u \in Natives /\ record[u] = "stored" /\ Allows(u)
  /\ record' = [record EXCEPT ![u] = "announced"]
  /\ native' = [native EXCEPT ![u] = "pending"]
  /\ targets' = [targets EXCEPT ![u] = route]
  /\ LET full == route # {} /\ Len(queue) = QueueCapacity
     IN  /\ queue' = IF full \/ route = {} THEN queue ELSE Append(queue, u)
         /\ told' = [i \in Items |->
                       IF i = <<u, NativeLang>> THEN {"started"}
                       ELSE IF full /\ i \in {u} \X route THEN {"failed"}
                       ELSE told[i]]
  /\ UNCHANGED <<filter, invalid, loop, granted, task, saved>>

AnnounceRemote(m, route) ==
  /\ record[m] = "stored"
  /\ IF m \notin invalid
     THEN /\ record' = [record EXCEPT ![m] = "announced"]
          /\ Enqueue(m, route)
     ELSE /\ record' = [record EXCEPT ![m] = "dropped"]
          /\ UNCHANGED <<targets, queue, told>>
  /\ UNCHANGED <<filter, invalid, loop, granted, task, native, saved>>

\* TaskValidity::invalidate
Invalidate(m) ==
  /\ m \in Remotes \ invalid
  /\ invalid' = invalid \cup {m}
  /\ UNCHANGED <<filter, record, targets, queue, loop, granted, task, native,
                 saved, told>>

-----------------------------------------------------------------------------
(* The dispatcher's loop                                                   *)

Running == {t \in Slots : task[t] \in Alive}
Free    == Permits - granted - Cardinality(Running)

TakeJob ==
  /\ loop = None /\ queue # << >>
  /\ queue' = Tail(queue)
  /\ loop' = IF Head(queue) \in invalid THEN None ELSE Head(queue)
  /\ UNCHANGED <<filter, record, targets, invalid, granted, task, native,
                 saved, told>>

TakePermit ==
  /\ loop # None /\ loop \notin invalid
  /\ granted < Cardinality(targets[loop]) /\ Free > 0
  /\ granted' = granted + 1
  /\ UNCHANGED <<filter, record, targets, invalid, queue, loop, task, native,
                 saved, told>>

\* All targets of the job start together; those of an invalidated one as far
\* as there are permits (and end at once).
Spawn ==
  /\ loop # None
  /\ granted = Cardinality(targets[loop]) \/ loop \in invalid
  /\ \E S \in SUBSET targets[loop] :
       /\ Cardinality(S) = granted
       /\ task' = [t \in Slots |-> IF t \in {loop} \X S THEN "spawned"
                                                        ELSE task[t]]
  /\ loop' = None /\ granted' = 0
  /\ UNCHANGED <<filter, record, targets, invalid, queue, native, saved, told>>

-----------------------------------------------------------------------------
(* process_job.  A target that is no longer wanted ends without a word.    *)

Goto(t, phase) ==
  /\ task' = [task EXCEPT ![t] = phase]
  /\ UNCHANGED <<filter, record, targets, invalid, queue, loop, granted,
                 native>>

BeginTask(t) ==
  /\ task[t] = "spawned"
  /\ IF Wanted(t[1])
     THEN Goto(t, "context") /\ Tell({t}, "started")
     ELSE Goto(t, "done") /\ UNCHANGED told
  /\ UNCHANGED saved

\* The checks before the first request and, after the delay, the second one.
NextPhase == [context |-> "calling", delay |-> "retrying"]

CheckTask(t) ==
  /\ task[t] \in DOMAIN NextPhase
  /\ Goto(t, IF Wanted(t[1]) THEN NextPhase[task[t]] ELSE "done")
  /\ UNCHANGED <<saved, told>>

Waiting(t) == task[t] \in {"calling", "retrying"}

\* The service answers; the check that follows is part of the same step.
Answer(t) ==
  /\ Waiting(t)
  /\ Goto(t, IF Wanted(t[1]) THEN "storing" ELSE "done")
  /\ UNCHANGED <<saved, told>>

\* A first failure that may pass is followed by one more try.
MayRetry(t) == task[t] = "calling"

Retry(t) ==
  /\ MayRetry(t)
  /\ Goto(t, "delay")
  /\ UNCHANGED <<saved, told>>

Reject(t) ==
  /\ Waiting(t)
  /\ Goto(t, "done")
  /\ IF Wanted(t[1]) THEN Tell({t}, "failed") ELSE UNCHANGED told
  /\ UNCHANGED saved

\* The job is invalidated while it waits for the service or the delay.
CancelTask(t) ==
  /\ task[t] \in {"calling", "delay", "retrying"} /\ t[1] \in invalid
  /\ Goto(t, "done")
  /\ UNCHANGED <<saved, told>>

\* save_translation under the filter's and the validity's lock.  A refused one
\* counts as stored; the database may also fail, or the subtitle be erased.
Store_Unguarded(t) ==   \* mutant: the commit is not under with_allowed
  /\ task[t] = "storing"
  /\ \/ Goto(t, "stored") /\ saved' = saved \cup {t}
     \/ Goto(t, "unstored") /\ UNCHANGED saved
  /\ UNCHANGED told
Store(t) ==
  /\ task[t] = "storing"
  /\ IF Wanted(t[1])
     THEN \/ Goto(t, "stored") /\ saved' = saved \cup {t}
          \/ Goto(t, "unstored") /\ UNCHANGED saved
     ELSE Goto(t, "stored") /\ UNCHANGED saved
  /\ UNCHANGED told

Report(t) ==
  /\ task[t] \in {"stored", "unstored"}
  /\ Goto(t, "done")
  /\ IF Wanted(t[1])
     THEN Tell({t}, IF task[t] = "stored" THEN "completed" ELSE "failed")
     ELSE UNCHANGED told
  /\ UNCHANGED saved

-----------------------------------------------------------------------------
(* Live translations (pending_native)                                      *)

NativeStep(u, next) ==
  /\ native' = [native EXCEPT ![u] = next]
  /\ UNCHANGED <<filter, record, targets, invalid, queue, loop, granted, task>>

\* publish_native_translation_update with the finished translation (which may
\* follow a finished one: a continuation)
NativeResult(u) ==
  /\ ~PipelineBusy
  /\ native[u] \in {"pending", "completed"} /\ Allows(u)
  /\ NativeStep(u, "storing")
  /\ UNCHANGED <<saved, told>>

NativeSave(u) ==
  /\ native[u] = "storing"
  /\ IF Allows(u)
     THEN \/ NativeStep(u, "saved") /\ saved' = saved \cup {<<u, NativeLang>>}
          \/ NativeStep(u, "unsaved") /\ UNCHANGED saved
     ELSE NativeStep(u, "saved") /\ UNCHANGED saved
  /\ UNCHANGED told

\* Only the last finished one is kept for a continuation.
NativeReport(u) ==
  /\ native[u] \in {"saved", "unsaved"}
  /\ native' = [v \in Natives |->
                  IF v = u
                  THEN IF native[u] = "saved" THEN "completed" ELSE "none"
                  ELSE IF native[v] = "completed" /\ native[u] = "saved"
                  THEN "none" ELSE native[v]]
  /\ IF Allows(u)
     THEN Tell({<<u, NativeLang>>},
               IF native[u] = "saved" THEN "completed" ELSE "failed")
     ELSE UNCHANGED told
  /\ UNCHANGED <<filter, record, targets, invalid, queue, loop, granted, task,
                 saved>>

\* publish_native_translation_update, for a translation that came out empty
NativeEmpty(u) ==
  /\ ~PipelineBusy
  /\ native[u] \in {"pending", "completed"} /\ Allows(u)
  /\ NativeStep(u, "none")
  /\ Tell({<<u, NativeLang>>}, "failed")
  /\ UNCHANGED saved

-----------------------------------------------------------------------------
(* The filter changes                                                      *)

\* A setting or a selection changes the filter at any moment.
ChangeFilter ==
  /\ \/ \E enabled \in BOOLEAN : SetEnabled(enabled)
     \/ \E s \in Speakers, d \in {"allow", "block"} : Apply(s :> d)
  /\ UNCHANGED jobs

StartCapture ==
  /\ \A u \in Natives : native[u] = "none"
  /\ \E supported \in BOOLEAN : Start(supported)
  /\ UNCHANGED jobs

\* scope_event for a connection: what the filter no longer allows is
\* forgotten.  Unlike a lost session it leaves the others pending.
OpenSession ==
  /\ ~PipelineBusy /\ BeginSession
  /\ native' = [u \in Natives |-> IF Allows(u)' THEN native[u] ELSE "none"]
  /\ UNCHANGED <<record, targets, invalid, queue, loop, granted, task, saved,
                 told>>

\* fail_pending_native, when the session is lost or capture ends
EndSession ==
  /\ ~PipelineBusy /\ (Stop \/ LoseSession)
  /\ native' = [u \in Natives |-> "none"]
  /\ told' = [i \in Items |->
                IF i \in Natives \X {NativeLang}
                THEN IF native[i[1]] = "pending" /\ Allows(i[1])'
                     THEN told[i] \cup {"failed"} ELSE told[i]
                ELSE told[i]]
  /\ UNCHANGED <<record, targets, invalid, queue, loop, granted, task, saved>>

-----------------------------------------------------------------------------
Recording ==
  \/ \E u \in Utterances, s \in Speakers \cup {None} : Hear(u, s)
  \/ \E u \in Utterances : StoreSubtitle(u)
  \/ \E m \in Remotes : StoreRemote(m) \/ Invalidate(m)
  \/ \E u \in Utterances, route \in MicTargets :
       AnnounceSubtitle(u, route) \/ AnnounceNative(u, route)
  \/ \E m \in Remotes, route \in SpeakerTargets : AnnounceRemote(m, route)

TaskStep(t) ==
  \/ BeginTask(t) \/ CheckTask(t) \/ Answer(t) \/ Retry(t) \/ Reject(t)
  \/ CancelTask(t) \/ Store(t) \/ Report(t)

Dispatcher == TakeJob \/ TakePermit \/ Spawn

LiveTranslation ==
  \E u \in Natives :
    NativeResult(u) \/ NativeSave(u) \/ NativeReport(u) \/ NativeEmpty(u)

Next ==
  \/ Recording
  \/ Dispatcher
  \/ \E t \in Slots : TaskStep(t)
  \/ LiveTranslation
  \/ ChangeFilter \/ StartCapture \/ OpenSession \/ EndSession

\* The dispatcher and its tasks run; a service answers or times out.  One
\* condition for all of them is enough, since each is done after a few steps.
Fairness == WF_vars(Dispatcher \/ \E t \in Slots : TaskStep(t))

Spec == Init /\ [][Next]_vars /\ Fairness
-----------------------------------------------------------------------------
(* Properties                                                              *)

\* Nothing the filter or the player session has taken back goes any further:
\* it is not stored, not reported, and its text is not sent to a service again,
\* however long a task has been waiting for an answer, the delay before the
\* retry or the database.  (An utterance the filter has forgotten is the
\* exception MAX_UTTERANCES makes: one that is heard again is a new one.)
TakenBack(m) == m \in invalid \cup revokedEver

TakenBackIsSilent ==
  [][/\ \A i \in Items : TakenBack(i[1]) =>
          (i \in saved' <=> i \in saved) /\ told'[i] = told[i]
     /\ \A t \in Slots : task'[t] \in {"calling", "retrying"} /\ TakenBack(t[1])
          => task[t] = task'[t]]_vars

\* What the displays are told was translated is in the history, although a
\* refused commit counts as stored: the refusal lasts until the report.
CompletedIsStored ==
  \A i \in Items :
    "completed" \in told[i] /\ i[1] \in Remotes \cup DOMAIN utterances
      => i \in saved

\* A translation the displays show as running has somebody working on it,
\* unless its message was taken back: nothing is left spinning.
Worked(i) ==
  IF i[2] = NativeLang THEN native[i[1]] \notin {"none", "completed"}
                       ELSE task[i] \in Alive

StartedIsWorkedOn ==
  \A i \in Items :
    "started" \in told[i] /\ told[i] \cap Outcomes = {} =>
      \/ Worked(i)
      \/ i[1] \in invalid \cup revokedEver
      \/ i[1] \in Utterances \ DOMAIN utterances

Unanswered(t) ==
  /\ t[2] \in targets[t[1]] /\ record[t[1]] = "announced"
  /\ told[t] \cap Outcomes = {} /\ Wanted(t[1])

\* Every target of a job is reported as completed or failed, or its message is
\* taken back or no longer admitted, behind whatever queue and permits (again
\* and again).
AllAnswered == \A t \in Slots : ~Unanswered(t)
=============================================================================
