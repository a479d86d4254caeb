---------------------------- MODULE ModelStores ----------------------------
(***************************************************************************)
(* The three stores of local models (speech, translation, text in view):   *)
(* their downloads, cancellations, deletions and users, against the change *)
(* of the directory they share (asr/manager.rs, asr/qwen_models/           *)
(* manager.rs, translation/local_models.rs, ocr/assets.rs, ocr/local.rs,   *)
(* server/settings/change_plan/model_directory.rs).                        *)
(*                                                                         *)
(* Each store is guarded differently: speech by its table of jobs,         *)
(* translation by a fair reader-writer lock that a download keeps, text by *)
(* a lock that is only ever tried.  Users act on the store that is busy,   *)
(* the change moves all three.  Files are whether a model is there.        *)
(***************************************************************************)
EXTENDS Naturals, Sequences, FiniteSets

CONSTANTS
  Users,        \* calls of the interface at a time
  None,
  MaxCalls,     \* bound: calls of the users
  MaxChanges,   \* bound: changes of the directory
  MaxFailures   \* bound: failing file operations and processes that do not stop

Stores == {"speech", "translation", "ocr"}
Roots == {"old", "new"}

\* downloads and the change of the directory hold the lock besides the users
StoresAssumption ==
  /\ {"job", "change"} \cap Users = {} /\ None \notin Roots
  /\ {MaxCalls, MaxChanges, MaxFailures} \subseteq Nat

VARIABLES
  busy,        \* the store that is used
  directory,   \* storage.model_directory of the settings
  roots,       \* ModelManager::model_dir, LocalTranslationModels::root, ModelAssets::directory
  place,       \* where the model of a store is
  job,         \* the download of the busy store: [state, at]
  calls,       \* what a user waits for or does
  lock,        \* lifecycle: [queue, holders]
  plamo,       \* where the running translation process took its model from
  handle,      \* ModelAssets::download_task holds the download
  shown,       \* ModelAssets::status is Downloading
  change,      \* the change of the directory: [step, back, applied, to, from]
  crowded,     \* history: two calls waited for one download to be cancelled
  rollbackFailed, \* history: a failure of the rollback was reported
  made, changed, failures   \* bound counters

storeVars ==
  <<busy, directory, roots, place, job, calls, lock, plamo, handle, shown,
    change, crowded, rollbackFailed, made, changed, failures>>

bounds == <<made, changed, failures>>
files == <<directory, roots, place>>
flags == <<crowded, rollbackFailed>>

NoJob == [state |-> "none", at |-> None]
NoChange == [step |-> "none", back |-> FALSE, applied |-> FALSE, to |-> None, from |-> None]

StoresInit ==
  /\ busy \in Stores
  /\ directory = "old" /\ roots = [s \in Stores |-> "old"]
  /\ \E there \in {None, "old"} :
       place = [s \in Stores |-> IF s = busy THEN there ELSE "old"]
  /\ job = NoJob /\ calls = [u \in Users |-> "idle"]
  /\ lock = [queue |-> << >>, holders |-> {}]
  /\ plamo = None /\ handle = FALSE /\ shown = FALSE
  /\ change = NoChange /\ crowded = FALSE /\ rollbackFailed = FALSE
  /\ made = 0 /\ changed = 0 /\ failures = 0

Fails == failures < MaxFailures /\ failures' = failures + 1

Active == job.state # "none"

\* a user calls the interface of a store
Call(u, store) ==
  /\ busy = store /\ calls[u] = "idle" /\ made < MaxCalls
  /\ made' = made + 1

Doing(u, what) == calls' = [calls EXCEPT ![u] = what]
Waiters == {u \in Users : calls[u] = "cancelling"}

-----------------------------------------------------------------------------
(* lifecycle: tokio's RwLock serves its queue in order                     *)

Shared(w) == w \in Users /\ calls[w] \in {"translate", "translating"}

MayEnter(w) ==
  /\ lock.queue # << >> /\ Head(lock.queue) = w
  /\ \/ lock.holders = {}
     \/ Shared(w) /\ \A h \in lock.holders : Shared(h)

Queued(w) == [lock EXCEPT !.queue = Append(@, w)]
Entered(w) == [queue |-> Tail(lock.queue), holders |-> lock.holders \cup {w}]
Passed(w) == [lock EXCEPT !.queue = Tail(@)]
Left(w) == [lock EXCEPT !.holders = @ \ {w}]

-----------------------------------------------------------------------------
(* Downloads                                                               *)

\* start_qwen_download
SpeechDownload(u) ==
  /\ Call(u, "speech")
  /\ place["speech"] # roots["speech"] /\ ~Active
  /\ job' = [state |-> "active", at |-> roots["speech"]]
  /\ UNCHANGED <<busy, files, calls, lock, plamo, handle, shown, change, flags, changed, failures>>

\* ModelAssets::start_download; it is ignored while the lock is taken
Prepared == ~Active /\ \A u \in Users : calls[u] # "verifying"

OcrDownload(u) ==
  /\ Call(u, "ocr") /\ Prepared
  /\ job' = [state |-> "active", at |-> roots["ocr"]]
  /\ handle' = TRUE /\ shown' = TRUE
  /\ UNCHANGED <<busy, files, calls, lock, plamo, change, flags, changed, failures>>

\* the handlers of the translation store that begin by waiting for the lock
TranslationLock(u) ==
  /\ Call(u, "translation")
  /\ \E what \in {"download", "translate"} : Doing(u, what)
  /\ lock' = Queued(u)
  /\ UNCHANGED <<busy, files, job, plamo, handle, shown, change, flags, changed, failures>>

\* server download, start_download_locked: the download keeps the lock
TranslationDownload(u) ==
  /\ calls[u] = "download" /\ MayEnter(u)
  /\ plamo' = None
  /\ IF place["translation"] = roots["translation"]
     THEN lock' = Passed(u) /\ UNCHANGED job
     ELSE /\ job' = [state |-> "active", at |-> roots["translation"]]
          /\ lock' = Entered("job")
  /\ Doing(u, "idle")
  /\ UNCHANGED <<busy, files, handle, shown, change, flags, bounds>>

\* The end of a download, which may still succeed when it is cancelled.  The
\* speech store wakes one waiter (notify_one), the others all of them.
Finish ==
  /\ Active
  /\ \E ok \in BOOLEAN :
       place' = [place EXCEPT ![busy] = IF ok THEN job.at ELSE @]
  /\ job' = NoJob
  /\ lock' = Left("job")
  /\ shown' = FALSE
  /\ IF busy = "speech" /\ Waiters # {}
     THEN \E u \in Waiters : Doing(u, "idle")
     ELSE UNCHANGED calls
  /\ UNCHANGED <<busy, directory, roots, plamo, handle, change, flags, bounds>>

-----------------------------------------------------------------------------
(* Cancelling                                                              *)

Stopping == [job EXCEPT !.state = "stopping"]

\* cancel_qwen_download, LocalTranslationModels::cancel, also by delete, which
\* waits for the lock afterwards
Cancel(u) ==
  /\ Call(u, busy) /\ busy # "ocr" /\ Active
  /\ job' = Stopping
  /\ \E what \in {"cancelling"} \cup IF busy = "speech" THEN {} ELSE {"deleting"} :
       Doing(u, what)
  /\ crowded' = (crowded \/ (busy = "speech" /\ Waiters # {}))
  /\ UNCHANGED <<busy, files, lock, plamo, handle, shown, change, rollbackFailed, changed, failures>>

\* the translation store's waiters see its end
Cancelled(u) ==
  /\ busy = "translation" /\ calls[u] = "cancelling" /\ job.state # "stopping"
  /\ Doing(u, "idle")
  /\ UNCHANGED <<busy, files, job, lock, plamo, handle, shown, change, flags, bounds>>

\* ModelAssets::cancel_download by a change of the settings that turns text
\* recognition off, which excludes a change of the directory; a second call
\* finds no handle
MayAbort == handle /\ job.state = "active"

OcrCancel(u) ==
  /\ Call(u, "ocr") /\ MayAbort /\ change.step = "none"
  /\ job' = Stopping /\ handle' = FALSE
  /\ Doing(u, "cancelling")
  /\ UNCHANGED <<busy, files, lock, plamo, shown, change, flags, changed, failures>>

\* the aborted download has ended; it is shown as missing, whatever was started since
OcrCancelled(u) ==
  /\ busy = "ocr" /\ calls[u] = "cancelling" /\ job.state # "stopping"
  /\ shown' = FALSE
  /\ Doing(u, "idle")
  /\ UNCHANGED <<busy, files, job, lock, plamo, handle, change, flags, bounds>>

-----------------------------------------------------------------------------
(* Deleting                                                                *)

\* delete_qwen
SpeechDelete(u) ==
  /\ Call(u, "speech") /\ ~Active
  /\ place' = [place EXCEPT !["speech"] = None]
  /\ UNCHANGED <<busy, directory, roots, job, calls, lock, plamo, handle, shown,
                 change, flags, changed, failures>>

\* delete of the translation store, once nothing is left to cancel
DeleteLock(u) ==
  /\ \/ Call(u, "translation") /\ ~Active
     \/ calls[u] = "deleting" /\ job.state # "stopping" /\ UNCHANGED made
  /\ Doing(u, "delete") /\ lock' = Queued(u)
  /\ UNCHANGED <<busy, files, job, plamo, handle, shown, change, flags, changed, failures>>

\* delete_locked
TranslationDelete(u) ==
  /\ calls[u] = "delete" /\ MayEnter(u)
  /\ plamo' = None
  /\ place' = [place EXCEPT !["translation"] = None]
  /\ Doing(u, "idle") /\ lock' = Passed(u)
  /\ UNCHANGED <<busy, directory, roots, job, handle, shown, change, flags, bounds>>

\* LocalOcrRuntime::delete_models
Recognizing == \E u \in Users : calls[u] = "recognizing"

OcrDelete(u) ==
  /\ Call(u, "ocr") /\ Prepared /\ ~Recognizing
  /\ place' = [place EXCEPT !["ocr"] = None]
  /\ UNCHANGED <<busy, directory, roots, job, calls, lock, plamo, handle, shown,
                 change, flags, changed, failures>>

-----------------------------------------------------------------------------
(* Using the models                                                        *)

\* checked_local_model, ensure_started
Translate(u) ==
  /\ calls[u] = "translate" /\ MayEnter(u)
  /\ IF place["translation"] = roots["translation"]
     THEN /\ plamo' = roots["translation"]
          /\ Doing(u, "translating") /\ lock' = Entered(u)
     ELSE Doing(u, "idle") /\ lock' = Passed(u) /\ UNCHANGED plamo
  /\ UNCHANGED <<busy, files, job, handle, shown, change, flags, bounds>>

\* recognize_each holds the gate, status the lock of the assets
OcrUse(u) ==
  /\ Call(u, "ocr")
  /\ \/ ~Recognizing /\ Doing(u, "recognizing")
     \/ Prepared /\ Doing(u, "verifying")
  /\ UNCHANGED <<busy, files, job, lock, plamo, handle, shown, change, flags, changed, failures>>

Used(u) ==
  /\ calls[u] \in {"translating", "recognizing", "verifying"}
  /\ Doing(u, "idle") /\ lock' = Left(u)
  /\ UNCHANGED <<busy, files, job, plamo, handle, shown, change, flags, bounds>>

-----------------------------------------------------------------------------
(* The change of the directory, under config_control and capture_control   *)

Step(step) == change' = [change EXCEPT !.step = step]

\* ModelDirectoryChange::apply: cancel a translation download
Begin ==
  /\ change.step = "none" /\ changed < MaxChanges
  /\ busy = "ocr" => Waiters = {}
  /\ changed' = changed + 1
  /\ \E to \in Roots \ {directory} :
       change' = [step |-> "cancel", back |-> FALSE, applied |-> FALSE,
                  to |-> to, from |-> roots["speech"]]
  /\ job' = IF busy = "translation" /\ Active THEN Stopping ELSE job
  /\ UNCHANGED <<busy, files, calls, lock, plamo, handle, shown, flags, made, failures>>

ChangeLocks ==
  /\ change.step = "cancel" /\ (busy = "translation" => job.state # "stopping")
  /\ Step("stop") /\ lock' = Queued("change")
  /\ UNCHANGED <<busy, files, job, calls, plamo, handle, shown, flags, bounds>>

\* a failure before anything was moved leaves nothing to roll back; the
\* rollback waits for the lock again
GivesUp ==
  IF change.applied
  THEN /\ change' = [change EXCEPT !.step = "stop", !.back = TRUE]
       /\ lock' = [queue |-> Append(lock.queue, "change"), holders |-> lock.holders \ {"change"}]
  ELSE change' = NoChange /\ lock' = Left("change")

\* where a step leads that has failed
Failed(step) ==
  IF change.back
  THEN rollbackFailed' = TRUE /\ Step(step) /\ UNCHANGED lock
  ELSE GivesUp /\ UNCHANGED rollbackFailed

\* the processes are stopped
ChangeStops ==
  /\ change.step = "stop" /\ MayEnter("change")
  /\ lock' = Entered("change")
  /\ plamo' = None
  /\ Step(IF change.back THEN "ocr" ELSE "speech")
  /\ UNCHANGED <<busy, files, job, calls, handle, shown, flags, bounds>>

\* a process does not stop; the rollback ends with it
ChangeStopFails ==
  /\ change.step = "stop" /\ MayEnter("change") /\ Fails
  /\ change' = NoChange /\ lock' = Passed("change")
  /\ rollbackFailed' = (rollbackFailed \/ change.back)
  /\ directory' = IF change.back THEN change.from ELSE directory
  /\ UNCHANGED <<busy, roots, place, job, calls, plamo, handle, shown, crowded, made, changed>>

Target == IF change.back THEN change.from ELSE change.to

Move(store) ==
  /\ roots' = [roots EXCEPT ![store] = Target]
  /\ place' = [place EXCEPT ![store] = IF @ = roots[store] THEN Target ELSE @]

\* ModelManager::move_model_dir refuses during a download; the end of a rollback
SpeechBlocked == busy = "speech" /\ Active

ChangeSpeech ==
  /\ change.step = "speech"
  /\ \/ /\ ~SpeechBlocked /\ Move("speech")
        /\ change' = IF change.back THEN NoChange
                     ELSE [change EXCEPT !.step = "translation", !.applied = TRUE]
        /\ directory' = IF change.back THEN change.from ELSE directory
        /\ UNCHANGED <<lock, rollbackFailed, failures>>
     \/ /\ IF SpeechBlocked THEN UNCHANGED failures ELSE Fails
        /\ UNCHANGED <<roots, place>>
        /\ IF change.back
           THEN /\ change' = NoChange /\ rollbackFailed' = TRUE
                /\ directory' = change.from /\ UNCHANGED lock
           ELSE GivesUp /\ UNCHANGED <<directory, rollbackFailed>>
  /\ UNCHANGED <<busy, job, calls, plamo, handle, shown, crowded, made, changed>>

\* move_root_locked gives the lock back
ChangeTranslation ==
  /\ change.step = "translation"
  /\ \/ /\ Move("translation")
        /\ Step(IF change.back THEN "speech" ELSE "ocr")
        /\ lock' = Left("change")
        /\ UNCHANGED <<rollbackFailed, failures>>
     \/ /\ Fails /\ UNCHANGED <<roots, place>>
        /\ IF change.back
           THEN rollbackFailed' = TRUE /\ Step("speech") /\ lock' = Left("change")
           ELSE GivesUp /\ UNCHANGED rollbackFailed
  /\ UNCHANGED <<busy, directory, job, calls, plamo, handle, shown, crowded, made, changed>>

\* LocalOcrRuntime::move_model_dir: cancel, wait, then try the gate and the lock
ChangeOcrCancels ==
  /\ change.step = "ocr"
  /\ IF MayAbort /\ busy = "ocr"
     THEN job' = Stopping /\ handle' = FALSE /\ Step("abort")
     ELSE UNCHANGED <<job, handle>> /\ Step("text")
  /\ UNCHANGED <<busy, files, calls, lock, plamo, shown, flags, bounds>>

ChangeOcrAborted ==
  /\ change.step = "abort" /\ job.state # "stopping"
  /\ shown' = FALSE /\ Step("text")
  /\ UNCHANGED <<busy, files, job, calls, lock, plamo, handle, flags, bounds>>

OcrBlocked == busy = "ocr" /\ (Recognizing \/ ~Prepared)

ChangeOcr ==
  /\ change.step = "text"
  /\ \/ /\ ~OcrBlocked /\ Move("ocr") /\ shown' = FALSE
        /\ Step(IF change.back THEN "translation" ELSE "save")
        /\ UNCHANGED <<lock, rollbackFailed, failures>>
     \/ /\ IF OcrBlocked THEN UNCHANGED failures ELSE Fails
        /\ UNCHANGED <<roots, place, shown>>
        /\ Failed("translation")
  /\ UNCHANGED <<busy, directory, job, calls, plamo, handle, crowded, made, changed>>

\* the settings are written, or something else fails, before or after that
ChangeSaves ==
  /\ change.step = "save"
  /\ \/ /\ directory' = change.to
        /\ \/ change' = NoChange /\ UNCHANGED <<lock, failures>>
           \/ Fails /\ GivesUp
     \/ Fails /\ GivesUp /\ UNCHANGED directory
  /\ UNCHANGED <<busy, roots, place, job, calls, plamo, handle, shown, flags, made, changed>>

-----------------------------------------------------------------------------
ChangeSteps ==
  ChangeLocks \/ ChangeStops \/ ChangeStopFails \/ ChangeSpeech
  \/ ChangeTranslation \/ ChangeOcrCancels \/ ChangeOcrAborted \/ ChangeOcr
  \/ ChangeSaves

Served(u) ==
  TranslationDownload(u) \/ Cancelled(u) \/ OcrCancelled(u) \/ TranslationDelete(u)
  \/ (calls[u] = "deleting" /\ DeleteLock(u)) \/ Translate(u) \/ Used(u)

StoresNext ==
  \/ \E u \in Users :
       \/ SpeechDownload(u) \/ OcrDownload(u) \/ TranslationLock(u)
       \/ TranslationDownload(u) \/ Cancel(u) \/ Cancelled(u)
       \/ OcrCancel(u) \/ OcrCancelled(u)
       \/ SpeechDelete(u) \/ DeleteLock(u) \/ TranslationDelete(u) \/ OcrDelete(u)
       \/ Translate(u) \/ OcrUse(u) \/ Used(u)
  \/ Finish \/ Begin \/ ChangeSteps

\* downloads, requests and file operations end; a lock is given to its queue;
\* one condition is enough, since each of them is done after a few steps
StoresFairness ==
  WF_storeVars(Finish \/ ChangeSteps \/ \E u \in Users : Served(u))

StoresSpec == StoresInit /\ [][StoresNext]_storeVars /\ StoresFairness

-----------------------------------------------------------------------------
\* Between changes the three stores are where the settings say, unless the
\* user was told that a rollback failed.
DirectoriesAgree ==
  change.step = "none" /\ ~rollbackFailed => \A s \in Stores : roots[s] = directory

\* A model is where its store looks for it: no download ends in the directory
\* that was left, no rollback leaves a model behind.
ModelsAreFound ==
  \A s \in Stores : place[s] \in {None, roots[s]}

\* The translation process never runs on a model that was moved or deleted.
RunsOnItsModel ==
  plamo # None => plamo = roots["translation"] /\ plamo = place["translation"]

\* Text models are shown as being downloaded only while they are.
ShownIsDownloaded == shown => Active \/ change.step = "abort"

\* A change of the directory ends, and so does every call: also those that
\* wait for a download, or for the lock it keeps (again and again).  Two calls
\* that cancel one speech download are the exception: the last one waits for
\* ever.
NoChangeLeft == change.step = "none"
Returned(u)  == calls[u] = "idle" \/ (crowded /\ Waiters = {u})
=============================================================================
