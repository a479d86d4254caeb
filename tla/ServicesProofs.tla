--------------------------- MODULE ServicesProofs ---------------------------
(***************************************************************************)
(* Theorems about the services of MCServices: each of them keeps an        *)
(* inductive invariant of its own, for every value of the constants.       *)
(* Primed facts about a service that is not in focus are those before the  *)
(* step.                                                                   *)
(***************************************************************************)
EXTENDS MCServices, MessageQueueProofs, FiniteSetTheorems

-----------------------------------------------------------------------------
(* ModelStores                                                             *)

Held == stLock.holders

\* The change of the directory is between ChangeStops and giving the lock back.
Moving ==
  \/ stChange.step \in {"speech", "translation"} /\ ~stChange.back
  \/ stChange.step \in {"ocr", "abort", "text", "translation"} /\ stChange.back

CallState == {"idle", "download", "translate", "cancelling", "deleting",
              "delete", "translating", "recognizing", "verifying"}
ChangeState ==
  [step : {"none", "cancel", "stop", "speech", "translation", "ocr", "abort",
           "text", "save"},
   back : BOOLEAN, applied : BOOLEAN,
   to : Stores!Roots \cup {None}, from : Stores!Roots \cup {None}]
LockState == [queue : Seq(Users \cup {"change"}),
              holders : SUBSET (Users \cup {"change", "job"})]

StoreTypes ==
  /\ stBusy \in Stores!Stores
  /\ stRoots \in [Stores!Stores -> Stores!Roots]
  /\ stPlace \in [Stores!Stores -> Stores!Roots \cup {None}]
  /\ stJob \in [state : {"none", "active", "stopping"},
                at : Stores!Roots \cup {None}]
  /\ stCalls \in [Users -> CallState]
  /\ stChange \in ChangeState
  /\ stChange.step # "none" => {stChange.to, stChange.from} \subseteq Stores!Roots
  /\ stLock \in LockState

(***************************************************************************)
(* The lock is held by users that translate, by the download of the        *)
(* translation model, or by the change of the directory; by the last two   *)
(* alone, and while no process runs.                                       *)
(***************************************************************************)
StoreLockInv ==
  /\ \A u \in Users : u \in Held <=> stCalls[u] = "translating"
  /\ \A w \in {"change", "job"} : w \in Held => Held = {w} /\ stPlamo = None
  /\ Moving => "change" \in Held
  /\ stBusy = "translation" /\ Stores!Active => "job" \in Held

\* A download writes where its store looks for the model.
StorePlaceInv ==
  /\ Stores!RunsOnItsModel /\ Stores!ModelsAreFound
  /\ Stores!Active => stJob.at = stRoots[stBusy]
  /\ \A u \in Users : stCalls[u] \in {"download", "translate", "deleting", "delete"} =>
       stBusy = "translation"

\* The stores the change has moved, and those it has moved back.
Moved ==
  CASE stChange.step \in {"none", "cancel", "stop", "speech"} -> {}
    [] stChange.step = "translation" -> {"speech"}
    [] stChange.step \in {"ocr", "abort", "text"} -> {"speech", "translation"}
    [] OTHER -> Stores!Stores

Back ==
  CASE stChange.step = "translation" -> {"ocr"}
    [] stChange.step = "speech" -> {"ocr", "translation"}
    [] OTHER -> {}

\* Where the stores are during a change that has met no failing rollback.
StoreRootsInv ==
  ~stRollbackFailed =>
    /\ stChange.step = "none" => \A s \in Stores!Stores : stRoots[s] = stDirectory
    /\ stChange.step # "none" /\ ~stChange.back =>
         /\ stDirectory = stChange.from
         /\ stChange.applied <=> Moved # {}
         /\ \A s \in Stores!Stores :
              stRoots[s] = IF s \in Moved THEN stChange.to ELSE stChange.from
    /\ stChange.step # "none" /\ stChange.back =>
         /\ stChange.step # "save"
         /\ \A s \in Back : stRoots[s] = stChange.from

\* The lock's queue loses its first element.
LEMMA StoreQueue ==
  ASSUME StoreTypes
  PROVE  /\ stLock.queue # << >> =>
              /\ Tail(stLock.queue) \in Seq(Users \cup {"change"})
              /\ Head(stLock.queue) \in Users \cup {"change"}
         /\ \A w \in Users \cup {"change"} :
              Append(stLock.queue, w) \in Seq(Users \cup {"change"})
BY DEF StoreTypes, LockState

\* What the operators on the lock, the calls and the change return.
LEMMA StoreParts ==
  ASSUME StoreTypes
  PROVE  /\ \A w \in Users \cup {"change"} : Stores!Queued(w) \in LockState
         /\ \A w : Stores!Left(w) \in LockState
         /\ \A w \in Users \cup {"change"} :
              stLock.queue # << >> => /\ Stores!Entered(w) \in LockState
                                      /\ Stores!Entered("job") \in LockState
                                      /\ Stores!Passed(w) \in LockState
         /\ \A u \in Users, what \in CallState :
              Stores!Doing(u, what) => stCalls' \in [Users -> CallState]
         /\ \A step \in {"stop", "speech", "translation", "ocr", "abort", "text",
                          "save"} :
              Stores!Step(step) /\ stChange.step # "none" =>
                /\ stChange' \in ChangeState
                /\ {stChange'.to, stChange'.from} \subseteq Stores!Roots
         /\ Stores!GivesUp /\ stChange.step # "none" =>
              /\ stLock' \in LockState /\ stChange' \in ChangeState
              /\ stChange'.step # "none" =>
                   {stChange'.to, stChange'.from} \subseteq Stores!Roots
         /\ \A s \in Stores!Stores :
              Stores!Move(s) /\ stChange.step # "none" =>
                /\ stRoots' \in [Stores!Stores -> Stores!Roots]
                /\ stPlace' \in [Stores!Stores -> Stores!Roots \cup {None}]
<1>1. /\ \A w \in Users \cup {"change"} : Stores!Queued(w) \in LockState
      /\ \A w : Stores!Left(w) \in LockState
  BY StoreQueue DEF StoreTypes, LockState, Stores!Queued, Stores!Left
<1>2. \A w \in Users \cup {"change"} :
        stLock.queue # << >> => /\ Stores!Entered(w) \in LockState
                                /\ Stores!Entered("job") \in LockState
                                /\ Stores!Passed(w) \in LockState
  BY StoreQueue DEF StoreTypes, LockState, Stores!Entered, Stores!Passed
<1>3. \A u \in Users, what \in CallState :
        Stores!Doing(u, what) => stCalls' \in [Users -> CallState]
  BY DEF StoreTypes, Stores!Doing
<1>4. ASSUME NEW step \in {"stop", "speech", "translation", "ocr", "abort", "text",
                           "save"},
             Stores!Step(step), stChange.step # "none"
      PROVE  /\ stChange' \in ChangeState
             /\ {stChange'.to, stChange'.from} \subseteq Stores!Roots
  BY <1>4 DEF StoreTypes, ChangeState, Stores!Step
<1>5. ASSUME Stores!GivesUp, stChange.step # "none"
      PROVE  /\ stLock' \in LockState /\ stChange' \in ChangeState
             /\ stChange'.step # "none" =>
                  {stChange'.to, stChange'.from} \subseteq Stores!Roots
  <2>1. CASE stChange.applied
    <3>1. stChange' = [stChange EXCEPT !.step = "stop", !.back = TRUE]
          /\ stLock' = [queue |-> Append(stLock.queue, "change"),
                        holders |-> stLock.holders \ {"change"}]
      BY <1>5, <2>1 DEF Stores!GivesUp
    <3>2. stLock' \in LockState
      BY <3>1, StoreQueue DEF StoreTypes, LockState
    <3>3. stChange' \in ChangeState
          /\ stChange'.to = stChange.to /\ stChange'.from = stChange.from
      BY <3>1 DEF StoreTypes, ChangeState
    <3>. QED BY <1>5, <3>2, <3>3 DEF StoreTypes
  <2>2. CASE ~stChange.applied
    <3>1. stChange' = Stores!NoChange /\ stLock' = Stores!Left("change")
      BY <1>5, <2>2 DEF Stores!GivesUp
    <3>2. stChange' \in ChangeState /\ stChange'.step = "none"
      BY <3>1 DEF Stores!NoChange, ChangeState
    <3>. QED BY <1>1, <3>1, <3>2
  <2>. QED BY <2>1, <2>2
<1>6. ASSUME NEW s \in Stores!Stores, Stores!Move(s), stChange.step # "none"
      PROVE  /\ stRoots' \in [Stores!Stores -> Stores!Roots]
             /\ stPlace' \in [Stores!Stores -> Stores!Roots \cup {None}]
  BY <1>6 DEF StoreTypes, Stores!Move, Stores!Target
<1>. QED BY <1>1, <1>2, <1>3, <1>4, <1>5, <1>6

LEMMA StoreTypesKept ==
  ASSUME StoreTypes, Stores!StoresNext
  PROVE  StoreTypes'
<1>1. ASSUME NEW u \in Users,
             \/ Stores!SpeechDownload(u) \/ Stores!OcrDownload(u)
             \/ Stores!TranslationLock(u) \/ Stores!TranslationDownload(u)
             \/ Stores!Cancel(u) \/ Stores!Cancelled(u)
             \/ Stores!OcrCancel(u) \/ Stores!OcrCancelled(u)
      PROVE  StoreTypes'
  <2>1. CASE Stores!SpeechDownload(u) \/ Stores!OcrDownload(u)
    BY <2>1 DEF StoreTypes, Stores!SpeechDownload, Stores!OcrDownload,
                Stores!Stores, Stores!files, Stores!flags
  <2>2. CASE Stores!TranslationLock(u)
    BY <2>2, StoreParts
       DEF StoreTypes, Stores!TranslationLock, Stores!files, Stores!flags, CallState
  <2>3. CASE Stores!TranslationDownload(u)
    BY <2>3, StoreParts
       DEF StoreTypes, Stores!TranslationDownload, Stores!MayEnter, Stores!files,
           Stores!flags, Stores!Stores, CallState
  <2>4. CASE Stores!Cancel(u)
    <3>1. stCalls' \in [Users -> CallState]
      BY <2>4, StoreParts DEF Stores!Cancel, CallState
    <3>. QED BY <2>4, <3>1 DEF StoreTypes, Stores!Cancel, Stores!Stopping,
                               Stores!files
  <2>5. CASE Stores!Cancelled(u)
    BY <2>5, StoreParts
       DEF StoreTypes, Stores!Cancelled, Stores!files, Stores!flags, CallState
  <2>6. CASE Stores!OcrCancel(u) \/ Stores!OcrCancelled(u)
    BY <2>6, StoreParts
       DEF StoreTypes, Stores!OcrCancel, Stores!OcrCancelled, Stores!Stopping,
           Stores!files, Stores!flags, CallState
  <2>. QED BY <1>1, <2>1, <2>2, <2>3, <2>4, <2>5, <2>6
<1>2. ASSUME NEW u \in Users,
             \/ Stores!SpeechDelete(u) \/ Stores!DeleteLock(u)
             \/ Stores!TranslationDelete(u) \/ Stores!OcrDelete(u)
             \/ Stores!Translate(u) \/ Stores!OcrUse(u) \/ Stores!Used(u)
      PROVE  StoreTypes'
  <2>1. CASE Stores!SpeechDelete(u) \/ Stores!OcrDelete(u)
    BY <2>1 DEF StoreTypes, Stores!SpeechDelete, Stores!OcrDelete, Stores!flags
  <2>2. CASE Stores!DeleteLock(u)
    BY <2>2, StoreParts
       DEF StoreTypes, Stores!DeleteLock, Stores!files, Stores!flags, CallState
  <2>3. CASE Stores!TranslationDelete(u)
    BY <2>3, StoreParts
       DEF StoreTypes, Stores!TranslationDelete, Stores!MayEnter, Stores!flags,
           CallState
  <2>4. CASE Stores!Translate(u)
    BY <2>4, StoreParts
       DEF StoreTypes, Stores!Translate, Stores!MayEnter, Stores!files,
           Stores!flags, CallState
  <2>5. CASE Stores!OcrUse(u)
    BY <2>5, StoreParts
       DEF StoreTypes, Stores!OcrUse, Stores!files, Stores!flags, CallState
  <2>6. CASE Stores!Used(u)
    BY <2>6, StoreParts
       DEF StoreTypes, Stores!Used, Stores!files, Stores!flags, CallState
  <2>. QED BY <1>2, <2>1, <2>2, <2>3, <2>4, <2>5, <2>6
<1>3. CASE Stores!Finish
  <2>1. stCalls' \in [Users -> CallState]
    BY <1>3, StoreParts DEF StoreTypes, Stores!Finish, Stores!Waiters, CallState
  <2>2. stPlace' \in [Stores!Stores -> Stores!Roots \cup {None}]
    BY <1>3 DEF StoreTypes, Stores!Finish
  <2>. QED BY <1>3, <2>1, <2>2, StoreParts
           DEF StoreTypes, Stores!Finish, Stores!NoJob, Stores!flags
<1>4. CASE Stores!Begin
  <2>1. /\ stChange' \in ChangeState
        /\ {stChange'.to, stChange'.from} \subseteq Stores!Roots
    BY <1>4 DEF StoreTypes, Stores!Begin, Stores!Stores, ChangeState
  <2>. QED BY <1>4, <2>1 DEF StoreTypes, Stores!Begin, Stores!Stopping,
                             Stores!files
<1>5. CASE Stores!ChangeLocks \/ Stores!ChangeStops \/ Stores!ChangeStopFails
  <2>1. /\ stChange' \in ChangeState /\ stLock' \in LockState
        /\ stChange'.step # "none" =>
             {stChange'.to, stChange'.from} \subseteq Stores!Roots
    <3>1. CASE Stores!ChangeLocks
      BY <3>1, StoreParts DEF Stores!ChangeLocks
    <3>2. CASE Stores!ChangeStops
      BY <3>2, StoreParts DEF Stores!ChangeStops, Stores!MayEnter
    <3>3. CASE Stores!ChangeStopFails
      <4>1. stChange' = Stores!NoChange /\ stLock' = Stores!Passed("change")
            /\ stLock.queue # << >>
        BY <3>3 DEF Stores!ChangeStopFails, Stores!MayEnter
      <4>2. stChange' \in ChangeState /\ stChange'.step = "none"
        BY <4>1 DEF Stores!NoChange, ChangeState
      <4>. QED BY <4>1, <4>2, StoreParts
    <3>. QED BY <1>5, <3>1, <3>2, <3>3
  <2>2. /\ stBusy' = stBusy /\ stRoots' = stRoots /\ stPlace' = stPlace
        /\ stJob' = stJob /\ stCalls' = stCalls
    BY <1>5 DEF Stores!ChangeLocks, Stores!ChangeStops,
                Stores!ChangeStopFails, Stores!files
  <2>. QED BY <2>1, <2>2 DEF StoreTypes
<1>6. CASE Stores!ChangeOcrCancels \/ Stores!ChangeOcrAborted
  BY <1>6, StoreParts
     DEF StoreTypes, Stores!ChangeOcrCancels, Stores!ChangeOcrAborted,
         Stores!Stopping, Stores!files
<1>7. CASE \/ Stores!ChangeSpeech \/ Stores!ChangeTranslation
           \/ Stores!ChangeOcr \/ Stores!ChangeSaves
  <2>0. stChange.step # "none"
    BY <1>7 DEF Stores!ChangeSpeech, Stores!ChangeTranslation, Stores!ChangeOcr,
                Stores!ChangeSaves
  <2>1. /\ stRoots' \in [Stores!Stores -> Stores!Roots]
        /\ stPlace' \in [Stores!Stores -> Stores!Roots \cup {None}]
    <3>1. (\E s \in Stores!Stores : Stores!Move(s)) \/ UNCHANGED <<stRoots, stPlace>>
      BY <1>7 DEF Stores!ChangeSpeech, Stores!ChangeTranslation, Stores!ChangeOcr,
                  Stores!ChangeSaves, Stores!Stores
    <3>. QED BY <2>0, <3>1, StoreParts DEF StoreTypes
  <2>2. stLock' \in LockState
    BY <1>7, <2>0, StoreParts
       DEF StoreTypes, Stores!ChangeSpeech, Stores!ChangeTranslation,
           Stores!ChangeOcr, Stores!ChangeSaves, Stores!Failed
  <2>3. /\ stChange' \in ChangeState
        /\ stChange'.step # "none" =>
             {stChange'.to, stChange'.from} \subseteq Stores!Roots
    <3>1. \/ stChange' = Stores!NoChange \/ Stores!GivesUp
          \/ \E step \in {"speech", "translation", "ocr", "save"} : Stores!Step(step)
          \/ stChange' = [stChange EXCEPT !.step = "translation", !.applied = TRUE]
      BY <1>7 DEF Stores!ChangeSpeech, Stores!ChangeTranslation, Stores!ChangeOcr,
                  Stores!ChangeSaves, Stores!Failed
    <3>2. CASE stChange' = Stores!NoChange
      BY <3>2 DEF Stores!NoChange, ChangeState
    <3>3. CASE stChange' = [stChange EXCEPT !.step = "translation", !.applied = TRUE]
      BY <2>0, <3>3 DEF StoreTypes, ChangeState
    <3>. QED BY <2>0, <3>1, <3>2, <3>3, StoreParts
  <2>4. UNCHANGED <<stBusy, stJob, stCalls>>
    BY <1>7 DEF Stores!ChangeSpeech, Stores!ChangeTranslation, Stores!ChangeOcr,
                Stores!ChangeSaves
  <2>. QED BY <2>1, <2>2, <2>3, <2>4 DEF StoreTypes
<1>. QED BY <1>1, <1>2, <1>3, <1>4, <1>5, <1>6, <1>7
         DEF Stores!StoresNext, Stores!ChangeSteps

\* Whoever enters a lock that is not shared enters it alone.
LEMMA StoreEntry ==
  ASSUME StoreTypes, StoreLockInv, NEW w \in Users \cup {"change"}, Stores!MayEnter(w)
  PROVE  /\ ~Stores!Shared(w) => Held = {}
         /\ Held \subseteq Users
         /\ w = "change" => ~Stores!Shared(w)
<1>1. "change" \notin Users /\ "job" \notin Users
  BY StoreBounds DEF Stores!StoresAssumption
<1>. QED BY <1>1 DEF Stores!MayEnter, Stores!Shared, Held

LEMMA StoreLockKept ==
  ASSUME StoreTypes, StoreLockInv, Stores!StoresNext
  PROVE  StoreLockInv'
<1>0. /\ "change" \notin Users /\ "job" \notin Users
      /\ stCalls \in [Users -> CallState] /\ Held \subseteq Users \cup {"change", "job"}
      /\ stChange.back \in BOOLEAN
  BY StoreBounds DEF Stores!StoresAssumption, StoreTypes, LockState, ChangeState, Held
\* steps that neither touch the lock nor what it guards
<1>1. ASSUME Held' = Held, stPlamo' = stPlamo, stBusy' = stBusy, Moving' => Moving,
             stBusy = "translation" /\ Stores!Active' => Stores!Active,
             \A u \in Users : stCalls'[u] = "translating" <=> stCalls[u] = "translating"
      PROVE  StoreLockInv'
  BY <1>1 DEF StoreLockInv
<1>2. ASSUME NEW u \in Users, NEW what \in CallState, Stores!Doing(u, what),
             what # "translating", stCalls[u] # "translating"
      PROVE  \A v \in Users : stCalls'[v] = "translating" <=> stCalls[v] = "translating"
  BY <1>0, <1>2 DEF Stores!Doing
<1>3. ASSUME NEW u \in Users,
             \/ Stores!SpeechDownload(u) \/ Stores!OcrDownload(u)
             \/ Stores!TranslationLock(u)
             \/ Stores!Cancel(u) \/ Stores!Cancelled(u)
             \/ Stores!OcrCancel(u) \/ Stores!OcrCancelled(u)
             \/ Stores!SpeechDelete(u) \/ Stores!DeleteLock(u)
             \/ Stores!OcrDelete(u) \/ Stores!OcrUse(u)
      PROVE  StoreLockInv'
  <2>1. /\ Held' = Held /\ stPlamo' = stPlamo /\ stBusy' = stBusy
        /\ stChange' = stChange
    <3>1. /\ stPlamo' = stPlamo /\ stBusy' = stBusy /\ stChange' = stChange
          /\ stLock' \in {stLock, Stores!Queued(u)}
      BY <1>3 DEF Stores!SpeechDownload, Stores!OcrDownload,
           Stores!TranslationLock, Stores!Cancel, Stores!Cancelled,
           Stores!OcrCancel, Stores!OcrCancelled, Stores!SpeechDelete,
           Stores!DeleteLock, Stores!OcrDelete, Stores!OcrUse
    <3>. QED BY <3>1 DEF Stores!Queued, Held, StoreTypes, LockState
  <2>2. stBusy = "translation" /\ Stores!Active' => Stores!Active
    <3>1. ASSUME Stores!SpeechDownload(u) \/ Stores!OcrDownload(u)
          PROVE  stBusy # "translation"
      BY <3>1 DEF Stores!SpeechDownload, Stores!OcrDownload, Stores!Call
    <3>2. ASSUME Stores!Cancel(u) \/ Stores!OcrCancel(u)
          PROVE  Stores!Active
      BY <3>2 DEF Stores!Cancel, Stores!OcrCancel, Stores!MayAbort, Stores!Active
    <3>3. ASSUME \/ Stores!TranslationLock(u) \/ Stores!Cancelled(u)
                 \/ Stores!OcrCancelled(u) \/ Stores!SpeechDelete(u)
                 \/ Stores!DeleteLock(u) \/ Stores!OcrDelete(u) \/ Stores!OcrUse(u)
          PROVE  stJob' = stJob
      BY <3>3 DEF Stores!TranslationLock, Stores!Cancelled, Stores!OcrCancelled,
                  Stores!SpeechDelete, Stores!DeleteLock, Stores!OcrDelete,
                  Stores!OcrUse
    <3>. QED BY <1>3, <3>1, <3>2, <3>3 DEF Stores!Active
  <2>3. \/ stCalls' = stCalls
        \/ \E what \in CallState : Stores!Doing(u, what) /\ what # "translating"
                                   /\ stCalls[u] # "translating"
    <3>1. ASSUME \/ Stores!SpeechDownload(u) \/ Stores!OcrDownload(u)
                 \/ Stores!SpeechDelete(u) \/ Stores!OcrDelete(u)
          PROVE  stCalls' = stCalls
      BY <3>1 DEF Stores!SpeechDownload, Stores!OcrDownload, Stores!SpeechDelete,
                  Stores!OcrDelete
    <3>2. ASSUME \/ Stores!TranslationLock(u) \/ Stores!OcrUse(u)
                 \/ Stores!OcrCancel(u) \/ Stores!Cancel(u)
          PROVE  /\ stCalls[u] = "idle"
                 /\ \E what \in {"download", "translate", "recognizing", "verifying",
                                "cancelling", "deleting"} : Stores!Doing(u, what)
      BY <3>2 DEF Stores!TranslationLock, Stores!OcrUse, Stores!OcrCancel,
                  Stores!Cancel, Stores!Call
    <3>3. ASSUME Stores!Cancelled(u) \/ Stores!OcrCancelled(u)
          PROVE  stCalls[u] = "cancelling" /\ Stores!Doing(u, "idle")
      BY <3>3 DEF Stores!Cancelled, Stores!OcrCancelled
    <3>4. ASSUME Stores!DeleteLock(u)
          PROVE  stCalls[u] \in {"idle", "deleting"} /\ Stores!Doing(u, "delete")
      BY <3>4 DEF Stores!DeleteLock, Stores!Call
    <3>. QED BY <1>3, <3>1, <3>2, <3>3, <3>4 DEF CallState
  <2>. QED BY <1>1, <1>2, <2>1, <2>2, <2>3 DEF Moving
<1>4. ASSUME NEW u \in Users, Stores!TranslationDownload(u) PROVE StoreLockInv'
  <2>1. Held = {} /\ stCalls[u] = "download"
    BY <1>0, <1>4, StoreEntry DEF Stores!TranslationDownload, Stores!Shared
  <2>2. /\ (Held' = Held /\ stJob' = stJob) \/ Held' = {"job"}
        /\ stPlamo' = None /\ stBusy' = stBusy /\ stChange' = stChange
    <3>1. stLock' = Stores!Entered("job") => Held' = {"job"}
      BY <2>1 DEF Stores!Entered, Held
    <3>2. stLock' = Stores!Passed(u) => Held' = Held
      BY DEF Stores!Passed, Held, StoreTypes, LockState
    <3>. QED BY <1>4, <3>1, <3>2 DEF Stores!TranslationDownload
  <2>3. \A v \in Users : stCalls'[v] = "translating" <=> stCalls[v] = "translating"
    BY <1>2, <1>4, <2>1 DEF Stores!TranslationDownload, CallState
  <2>. QED BY <1>0, <2>1, <2>2, <2>3 DEF StoreLockInv, Moving, Stores!Active
<1>5. ASSUME NEW u \in Users, Stores!TranslationDelete(u) PROVE StoreLockInv'
  <2>1. /\ Held' = Held /\ stPlamo' = None /\ stBusy' = stBusy
        /\ stChange' = stChange /\ stJob' = stJob /\ stCalls[u] = "delete"
    BY <1>5 DEF Stores!TranslationDelete, Stores!Passed, Held
  <2>2. \A v \in Users : stCalls'[v] = "translating" <=> stCalls[v] = "translating"
    BY <1>2, <1>5, <2>1 DEF Stores!TranslationDelete, CallState
  <2>. QED BY <2>1, <2>2 DEF StoreLockInv, Moving, Stores!Active
<1>6. ASSUME NEW u \in Users, Stores!Translate(u) PROVE StoreLockInv'
  <2>1. Held \subseteq Users /\ stCalls[u] = "translate"
    BY <1>0, <1>6, StoreEntry DEF Stores!Translate
  <2>2. stBusy' = stBusy /\ stChange' = stChange /\ stJob' = stJob
    BY <1>6 DEF Stores!Translate, Stores!files
  <2>3. CASE Stores!Doing(u, "translating") /\ stLock' = Stores!Entered(u)
    <3>1. /\ Held' = Held \cup {u}
          /\ stCalls' = [stCalls EXCEPT ![u] = "translating"]
      BY <2>3 DEF Stores!Entered, Stores!Doing, Held
    <3>. QED BY <1>0, <2>1, <2>2, <3>1 DEF StoreLockInv, Moving, Stores!Active
  <2>4. CASE Stores!Doing(u, "idle") /\ stLock' = Stores!Passed(u)
             /\ UNCHANGED stPlamo
    <3>1. Held' = Held
      BY <2>4 DEF Stores!Passed, Held
    <3>2. \A v \in Users : stCalls'[v] = "translating" <=> stCalls[v] = "translating"
      BY <1>2, <2>1, <2>4 DEF CallState
    <3>. QED BY <1>1, <2>2, <2>4, <3>1, <3>2 DEF Moving, Stores!Active
  <2>. QED BY <1>6, <2>3, <2>4 DEF Stores!Translate
<1>7. ASSUME NEW u \in Users, Stores!Used(u) PROVE StoreLockInv'
  <2>1. /\ stCalls' = [stCalls EXCEPT ![u] = "idle"] /\ Held' = Held \ {u}
        /\ stBusy' = stBusy /\ stChange' = stChange /\ stJob' = stJob
        /\ stPlamo' = stPlamo
    BY <1>7 DEF Stores!Used, Stores!Doing, Stores!Left, Stores!files, Held
  <2>. QED BY <1>0, <2>1 DEF StoreLockInv, Moving, Stores!Active
<1>8. CASE Stores!Finish
  <2>1. /\ Held' = Held \ {"job"} /\ ~Stores!Active' /\ stPlamo' = stPlamo
        /\ stBusy' = stBusy /\ stChange' = stChange
    BY <1>8 DEF Stores!Finish, Stores!Left, Stores!NoJob, Stores!Active, Held
  <2>2. \A v \in Users : stCalls'[v] = "translating" <=> stCalls[v] = "translating"
    BY <1>2, <1>8 DEF Stores!Finish, Stores!Waiters, CallState
  <2>. QED BY <1>0, <2>1, <2>2 DEF StoreLockInv, Moving
<1>9. CASE Stores!Begin \/ Stores!ChangeLocks
  <2>0. /\ Held' = Held /\ stPlamo' = stPlamo /\ stBusy' = stBusy
        /\ stCalls' = stCalls
    BY <1>9 DEF Stores!Begin, Stores!ChangeLocks, Stores!Queued, Held, StoreTypes,
                LockState
  <2>1. ~Moving'
    <3>1. stChange'.step \in {"cancel", "stop"}
      BY <1>9 DEF Stores!Begin, Stores!ChangeLocks, Stores!Step, StoreTypes,
                  ChangeState
    <3>. QED BY <3>1 DEF Moving
  <2>2. Stores!Active' => Stores!Active
    BY <1>9 DEF Stores!Begin, Stores!ChangeLocks, Stores!Active
  <2>. QED BY <1>1, <2>0, <2>1, <2>2
<1>10. CASE Stores!ChangeStops
  <2>1. Held = {}
    BY <1>10, StoreEntry DEF Stores!ChangeStops
  <2>2. /\ Held' = {"change"} /\ stPlamo' = None /\ stBusy' = stBusy
        /\ stCalls' = stCalls /\ stJob' = stJob
    BY <1>10, <2>1 DEF Stores!ChangeStops, Stores!Entered, Held
  <2>. QED BY <1>0, <2>1, <2>2 DEF StoreLockInv, Stores!Active
<1>11. CASE Stores!ChangeStopFails
  <2>1. /\ Held' = Held /\ stPlamo' = stPlamo /\ stBusy' = stBusy
        /\ stCalls' = stCalls /\ stJob' = stJob /\ ~Moving'
    BY <1>11 DEF Stores!ChangeStopFails, Stores!Passed, Stores!NoChange, Held, Moving
  <2>. QED BY <1>1, <2>1 DEF Stores!Active
\* steps that keep the lock, or give it back
<1>12. ASSUME stPlamo' = stPlamo, stBusy' = stBusy, stCalls' = stCalls,
              Stores!Active' => Stores!Active,
              \/ Held' = Held /\ (Moving' => Moving)
              \/ Held' = Held \ {"change"} /\ ~Moving'
       PROVE  StoreLockInv'
  BY <1>0, <1>12 DEF StoreLockInv
<1>13. Stores!GivesUp => Held' = Held \ {"change"} /\ ~Moving'
  <2>. SUFFICES ASSUME Stores!GivesUp PROVE Held' = Held \ {"change"} /\ ~Moving'
    OBVIOUS
  <2>1. Held' = Held \ {"change"}
    BY DEF Stores!GivesUp, Stores!Left, StoreTypes, LockState, Held
  <2>2. stChange'.step \in {"stop", "none"}
    <3>1. stChange' = Stores!NoChange
          \/ stChange' = [stChange EXCEPT !.step = "stop", !.back = TRUE]
      BY DEF Stores!GivesUp
    <3>2. [stChange EXCEPT !.step = "stop", !.back = TRUE].step = "stop"
      BY DEF StoreTypes, ChangeState
    <3>3. Stores!NoChange.step = "none"
      BY DEF Stores!NoChange
    <3>. QED BY <3>1, <3>2, <3>3
  <2>. QED BY <2>1, <2>2 DEF Moving
<1>14. CASE Stores!ChangeSpeech
  <2>1. stChange.step = "speech" /\ stPlamo' = stPlamo /\ stBusy' = stBusy
        /\ stCalls' = stCalls /\ stJob' = stJob
    BY <1>14 DEF Stores!ChangeSpeech
  <2>2. \/ stChange' = Stores!NoChange /\ stLock' = stLock
        \/ /\ stChange' = [stChange EXCEPT !.step = "translation", !.applied = TRUE]
           /\ ~stChange.back /\ stLock' = stLock
        \/ Stores!GivesUp
    BY <1>14 DEF Stores!ChangeSpeech
  <2>3. CASE stChange' = Stores!NoChange /\ stLock' = stLock
    <3>1. ~Moving' /\ Held' = Held
      BY <2>3 DEF Stores!NoChange, Moving, Held
    <3>. QED BY <1>12, <2>1, <3>1 DEF Stores!Active
  <2>4. CASE /\ stChange' = [stChange EXCEPT !.step = "translation", !.applied = TRUE]
             /\ ~stChange.back /\ stLock' = stLock
    <3>1. Moving /\ Held' = Held
      BY <2>1, <2>4 DEF Moving, Held
    <3>. QED BY <1>12, <2>1, <3>1 DEF Stores!Active
  <2>. QED BY <1>12, <1>13, <2>1, <2>2, <2>3, <2>4 DEF Stores!Active
<1>15. CASE Stores!ChangeTranslation
  <2>1. stChange.step = "translation" /\ stPlamo' = stPlamo /\ stBusy' = stBusy
        /\ stCalls' = stCalls /\ stJob' = stJob
    BY <1>15 DEF Stores!ChangeTranslation
  <2>2. \/ /\ Stores!Step(IF stChange.back THEN "speech" ELSE "ocr")
           /\ stLock' = Stores!Left("change")
        \/ Stores!GivesUp
    BY <1>15 DEF Stores!ChangeTranslation
  <2>3. CASE /\ Stores!Step(IF stChange.back THEN "speech" ELSE "ocr")
             /\ stLock' = Stores!Left("change")
    <3>1. Held' = Held \ {"change"}
      BY <2>3 DEF Stores!Left, Held
    <3>2. ~Moving'
      BY <1>0, <2>3 DEF Stores!Step, Moving, StoreTypes, ChangeState
    <3>. QED BY <1>12, <2>1, <3>1, <3>2 DEF Stores!Active
  <2>. QED BY <1>12, <1>13, <2>1, <2>2, <2>3 DEF Stores!Active
<1>16. CASE Stores!ChangeOcrCancels \/ Stores!ChangeOcrAborted
  <2>1. /\ stPlamo' = stPlamo /\ stBusy' = stBusy /\ stCalls' = stCalls
        /\ Held' = Held
    BY <1>16 DEF Stores!ChangeOcrCancels, Stores!ChangeOcrAborted, Held
  <2>2. Stores!Active' => Stores!Active
    BY <1>16 DEF Stores!ChangeOcrCancels, Stores!ChangeOcrAborted,
                 Stores!MayAbort, Stores!Active
  <2>3. Moving' => Moving
    BY <1>16 DEF Stores!ChangeOcrCancels, Stores!ChangeOcrAborted, Stores!Step,
                 Moving, StoreTypes, ChangeState
  <2>. QED BY <1>12, <2>1, <2>2, <2>3
<1>17. CASE Stores!ChangeOcr
  <2>1. stChange.step = "text" /\ stPlamo' = stPlamo /\ stBusy' = stBusy
        /\ stCalls' = stCalls /\ stJob' = stJob
    BY <1>17 DEF Stores!ChangeOcr
  <2>2. \/ /\ Stores!Step(IF stChange.back THEN "translation" ELSE "save")
           /\ stLock' = stLock
        \/ stChange.back /\ Stores!Step("translation") /\ stLock' = stLock
        \/ Stores!GivesUp
    BY <1>17 DEF Stores!ChangeOcr, Stores!Failed
  <2>3. CASE \/ /\ Stores!Step(IF stChange.back THEN "translation" ELSE "save")
                /\ stLock' = stLock
             \/ stChange.back /\ Stores!Step("translation") /\ stLock' = stLock
    <3>1. Held' = Held
      BY <2>3 DEF Held
    <3>2. Moving' => Moving
      BY <1>0, <2>1, <2>3 DEF Stores!Step, Moving, StoreTypes, ChangeState
    <3>. QED BY <1>12, <2>1, <3>1, <3>2 DEF Stores!Active
  <2>. QED BY <1>12, <1>13, <2>1, <2>2, <2>3 DEF Stores!Active
<1>18. CASE Stores!ChangeSaves
  <2>1. /\ stPlamo' = stPlamo /\ stBusy' = stBusy /\ stCalls' = stCalls
        /\ stJob' = stJob
    BY <1>18 DEF Stores!ChangeSaves
  <2>2. \/ stChange' = Stores!NoChange /\ stLock' = stLock
        \/ Stores!GivesUp
    BY <1>18 DEF Stores!ChangeSaves
  <2>3. CASE stChange' = Stores!NoChange /\ stLock' = stLock
    <3>1. ~Moving' /\ Held' = Held
      BY <2>3 DEF Stores!NoChange, Moving, Held
    <3>. QED BY <1>12, <2>1, <3>1 DEF Stores!Active
  <2>. QED BY <1>12, <1>13, <2>1, <2>2, <2>3 DEF Stores!Active
<1>. QED BY <1>3, <1>4, <1>5, <1>6, <1>7, <1>8, <1>9, <1>10, <1>11, <1>14, <1>15,
            <1>16, <1>17, <1>18
         DEF Stores!StoresNext, Stores!ChangeSteps

LEMMA StorePlaceKept ==
  ASSUME StoreTypes, StoreLockInv, StorePlaceInv, Stores!StoresNext
  PROVE  StorePlaceInv'
<1>. DEFINE tr == "translation"
            Asked == {"download", "translate", "deleting", "delete"}
<1>0. /\ stBusy \in Stores!Stores /\ stRoots \in [Stores!Stores -> Stores!Roots]
      /\ stPlace \in [Stores!Stores -> Stores!Roots \cup {None}]
      /\ stCalls \in [Users -> CallState] /\ None \notin Stores!Roots
      /\ {"speech", "translation", "ocr"} = Stores!Stores
      /\ DOMAIN stJob = {"state", "at"} /\ "job" # "change"
      /\ stJob = [state |-> stJob.state, at |-> stJob.at]
  BY StoreBounds DEF StoreTypes, Stores!StoresAssumption, Stores!Stores
<1>1. ASSUME stPlamo' \in {stPlamo, None}, stRoots' = stRoots, stPlace' = stPlace,
             stBusy' = stBusy,
             Stores!Active' => stJob'.at = stRoots[stBusy],
             \A u \in Users : stCalls'[u] \in Asked => stBusy = tr
      PROVE  StorePlaceInv'
  BY <1>1 DEF StorePlaceInv, Stores!RunsOnItsModel, Stores!ModelsAreFound
<1>2. ASSUME NEW u \in Users, NEW what \in CallState, Stores!Doing(u, what),
             what \in Asked => stBusy = tr
      PROVE  \A v \in Users : stCalls'[v] \in Asked => stBusy = tr
  BY <1>0, <1>2 DEF Stores!Doing, StorePlaceInv
<1>3. /\ Stores!Active => stJob.at = stRoots[stBusy]
      /\ \A u \in Users : stCalls[u] \in Asked => stBusy = tr
  BY DEF StorePlaceInv
<1>. HIDE DEF Asked
<1>4. ASSUME NEW u \in Users, Stores!SpeechDownload(u) \/ Stores!OcrDownload(u)
      PROVE  StorePlaceInv'
  <2>1. /\ stPlamo' = stPlamo /\ stRoots' = stRoots /\ stPlace' = stPlace
        /\ stBusy' = stBusy /\ stCalls' = stCalls /\ stJob'.at = stRoots[stBusy]
    BY <1>4 DEF Stores!SpeechDownload, Stores!OcrDownload, Stores!Call, Stores!files
  <2>. QED BY <1>1, <1>3, <2>1
<1>5. ASSUME NEW u \in Users,
             \/ Stores!TranslationLock(u) \/ Stores!Cancel(u) \/ Stores!Cancelled(u)
             \/ Stores!OcrCancel(u) \/ Stores!OcrCancelled(u)
             \/ Stores!DeleteLock(u) \/ Stores!OcrUse(u) \/ Stores!Used(u)
      PROVE  StorePlaceInv'
  <2>1. /\ stPlamo' = stPlamo /\ stRoots' = stRoots /\ stPlace' = stPlace
        /\ stBusy' = stBusy
    BY <1>5 DEF Stores!TranslationLock, Stores!Cancel, Stores!Cancelled,
         Stores!OcrCancel, Stores!OcrCancelled, Stores!DeleteLock, Stores!OcrUse,
         Stores!Used, Stores!files
  <2>2. Stores!Active' => stJob'.at = stRoots[stBusy]
    <3>1. \/ stJob' = stJob
          \/ stJob' = Stores!Stopping /\ Stores!Active
      BY <1>5 DEF Stores!TranslationLock, Stores!Cancel, Stores!Cancelled,
           Stores!OcrCancel, Stores!OcrCancelled, Stores!DeleteLock, Stores!OcrUse,
           Stores!Used, Stores!MayAbort, Stores!Active
    <3>2. Stores!Stopping.at = stJob.at
      BY <1>0 DEF Stores!Stopping
    <3>. QED BY <1>3, <3>1, <3>2 DEF Stores!Active
  <2>3. \E what \in CallState : Stores!Doing(u, what) /\ (what \in Asked => stBusy = tr)
    <3>1. CASE Stores!TranslationLock(u)
      BY <3>1 DEF Stores!TranslationLock, Stores!Call, CallState
    <3>2. CASE Stores!Cancel(u)
      <4>1. PICK what \in {"cancelling"} \cup IF stBusy = "speech" THEN {} ELSE {"deleting"} :
                   Stores!Doing(u, what)
        BY <3>2 DEF Stores!Cancel
      <4>2. stBusy # "ocr"
        BY <3>2 DEF Stores!Cancel
      <4>3. what \in CallState /\ (what = "deleting" => stBusy = tr)
        BY <1>0, <4>1, <4>2 DEF CallState
      <4>. QED BY <4>1, <4>3 DEF Asked
    <3>3. CASE Stores!Cancelled(u) \/ Stores!OcrCancelled(u) \/ Stores!Used(u)
      BY <3>3 DEF Stores!Cancelled, Stores!OcrCancelled, Stores!Used, CallState,
                  Asked
    <3>4. CASE Stores!OcrCancel(u) \/ Stores!OcrUse(u)
      BY <3>4 DEF Stores!OcrCancel, Stores!OcrUse, CallState, Asked
    <3>5. CASE Stores!DeleteLock(u)
      <4>1. Stores!Doing(u, "delete") /\ (stBusy = tr \/ stCalls[u] = "deleting")
        BY <3>5 DEF Stores!DeleteLock, Stores!Call
      <4>. QED BY <1>3, <4>1 DEF CallState, Asked
    <3>. QED BY <1>5, <3>1, <3>2, <3>3, <3>4, <3>5
  <2>. QED BY <1>1, <1>2, <2>1, <2>2, <2>3
<1>6. ASSUME NEW u \in Users,
             Stores!TranslationDownload(u) \/ Stores!TranslationDelete(u)
      PROVE  StorePlaceInv'
  <2>1. stBusy = tr
    BY <1>3, <1>6 DEF Stores!TranslationDownload, Stores!TranslationDelete, Asked
  <2>2. /\ stPlamo' = None /\ stRoots' = stRoots /\ stBusy' = stBusy
        /\ stPlace' \in {stPlace, [stPlace EXCEPT ![tr] = None]}
        /\ stJob' \in {stJob, [state |-> "active", at |-> stRoots[tr]]}
        /\ Stores!Doing(u, "idle")
    BY <1>6 DEF Stores!TranslationDownload, Stores!TranslationDelete, Stores!files
  <2>3. \A v \in Users : stCalls'[v] \in Asked => stBusy = tr
    BY <2>1
  <2>4. \A s \in Stores!Stores : stPlace'[s] \in {None, stPlace[s]}
    BY <1>0, <2>2
  <2>5. Stores!Active' => stJob'.at = stRoots[stBusy]
    BY <1>3, <2>1, <2>2 DEF Stores!Active
  <2>. QED BY <2>2, <2>3, <2>4, <2>5
           DEF StorePlaceInv, Stores!RunsOnItsModel, Stores!ModelsAreFound, Asked
<1>7. ASSUME NEW u \in Users, Stores!SpeechDelete(u) \/ Stores!OcrDelete(u)
      PROVE  StorePlaceInv'
  <2>1. PICK s \in Stores!Stores \ {tr} : stPlace' = [stPlace EXCEPT ![s] = None]
    BY <1>0, <1>7 DEF Stores!SpeechDelete, Stores!OcrDelete
  <2>2. /\ stPlamo' = stPlamo /\ stRoots' = stRoots /\ stBusy' = stBusy
        /\ stJob' = stJob /\ stCalls' = stCalls
    BY <1>7 DEF Stores!SpeechDelete, Stores!OcrDelete
  <2>3. /\ \A x \in Stores!Stores : stPlace'[x] \in {None, stPlace[x]}
        /\ stPlace'[tr] = stPlace[tr]
    BY <1>0, <2>1
  <2>. QED BY <2>2, <2>3 DEF StorePlaceInv, Stores!RunsOnItsModel,
                             Stores!ModelsAreFound, Stores!Active
<1>8. ASSUME NEW u \in Users, Stores!Translate(u) PROVE StorePlaceInv'
  <2>1. /\ stRoots' = stRoots /\ stPlace' = stPlace /\ stBusy' = stBusy
        /\ stJob' = stJob
        /\ \/ stPlamo' = stPlamo
           \/ stPlamo' = stRoots[tr] /\ stPlace[tr] = stRoots[tr]
        /\ Stores!Doing(u, "idle") \/ Stores!Doing(u, "translating")
    BY <1>8 DEF Stores!Translate, Stores!files
  <2>2. \A v \in Users : stCalls'[v] \in Asked => stBusy = tr
    BY <1>2, <2>1 DEF CallState, Asked
  <2>. QED BY <2>1, <2>2 DEF StorePlaceInv, Stores!RunsOnItsModel,
                             Stores!ModelsAreFound, Stores!Active, Asked
<1>9. CASE Stores!Finish
  <2>1. PICK ok \in BOOLEAN : 
               stPlace' = [stPlace EXCEPT ![stBusy] = IF ok THEN stJob.at ELSE @]
    BY <1>9 DEF Stores!Finish
  <2>2. /\ stPlamo' = stPlamo /\ stRoots' = stRoots /\ stBusy' = stBusy
        /\ ~Stores!Active' /\ Stores!Active
    BY <1>9 DEF Stores!Finish, Stores!Active, Stores!NoJob
  <2>3. \A v \in Users : stCalls'[v] \in Asked => stBusy = tr
    <3>1. stCalls' = stCalls \/ \E u \in Users : Stores!Doing(u, "idle")
      BY <1>9 DEF Stores!Finish, Stores!Waiters
    <3>. QED BY <1>2, <1>3, <3>1 DEF CallState, Asked
  <2>4. \A s \in Stores!Stores : stPlace'[s] \in {stRoots[s], stPlace[s]}
    BY <1>0, <1>3, <2>1, <2>2
  <2>5. stPlamo # None => stPlace'[tr] = stPlace[tr]
    <3>1. stBusy = tr => stPlamo = None
      BY <2>2 DEF StoreLockInv
    <3>. QED BY <1>0, <2>1, <3>1
  <2>. QED BY <2>2, <2>3, <2>4, <2>5 
           DEF StorePlaceInv, Stores!RunsOnItsModel, Stores!ModelsAreFound, Asked
<1>10. CASE \/ Stores!Begin \/ Stores!ChangeLocks \/ Stores!ChangeStops
            \/ Stores!ChangeStopFails \/ Stores!ChangeOcrCancels
            \/ Stores!ChangeOcrAborted \/ Stores!ChangeSaves
  <2>1. /\ stPlamo' \in {stPlamo, None} /\ stRoots' = stRoots /\ stPlace' = stPlace
        /\ stBusy' = stBusy /\ stCalls' = stCalls
    BY <1>10 DEF Stores!Begin, Stores!ChangeLocks, Stores!ChangeStops,
         Stores!ChangeStopFails, Stores!ChangeOcrCancels,
         Stores!ChangeOcrAborted, Stores!ChangeSaves, Stores!files
  <2>2. stJob' = stJob \/ (stJob' = Stores!Stopping /\ Stores!Active)
    BY <1>10 DEF Stores!Begin, Stores!ChangeLocks, Stores!ChangeStops,
         Stores!ChangeStopFails, Stores!ChangeOcrCancels,
         Stores!ChangeOcrAborted, Stores!ChangeSaves, Stores!MayAbort,
         Stores!Active
  <2>3. Stores!Stopping.at = stJob.at
    BY <1>0 DEF Stores!Stopping
  <2>. QED BY <1>1, <1>3, <2>1, <2>2, <2>3 DEF Stores!Active
<1>11. ASSUME NEW s \in Stores!Stores, Stores!Move(s), stChange.step # "none",
              stPlamo' = stPlamo, stBusy' = stBusy, stJob' = stJob,
              stCalls' = stCalls, s = tr => stPlamo = None,
              ~(stBusy = s /\ Stores!Active)
       PROVE  StorePlaceInv'
  <2>1. /\ \A x \in Stores!Stores \ {s} : stRoots'[x] = stRoots[x] /\ stPlace'[x] = stPlace[x]
        /\ stRoots'[s] = Stores!Target
        /\ stPlace'[s] = IF stPlace[s] = stRoots[s] THEN Stores!Target ELSE stPlace[s]
    BY <1>0, <1>11 DEF Stores!Move
  <2>2. \A x \in Stores!Stores : stPlace'[x] \in {None, stRoots'[x]}
    BY <2>1 DEF StorePlaceInv, Stores!ModelsAreFound
  <2>3. s # tr => stRoots'[tr] = stRoots[tr] /\ stPlace'[tr] = stPlace[tr]
    BY <1>0, <2>1
  <2>4. Stores!Active => stRoots'[stBusy] = stRoots[stBusy]
    BY <1>0, <1>11, <2>1
  <2>. QED BY <1>11, <2>2, <2>3, <2>4
           DEF StorePlaceInv, Stores!RunsOnItsModel, Stores!ModelsAreFound,
               Stores!Active
<1>12. CASE Stores!ChangeSpeech \/ Stores!ChangeTranslation \/ Stores!ChangeOcr
  <2>1. /\ stPlamo' = stPlamo /\ stBusy' = stBusy /\ stJob' = stJob
        /\ stCalls' = stCalls
    BY <1>12 DEF Stores!ChangeSpeech, Stores!ChangeTranslation, Stores!ChangeOcr
  <2>2. \/ stRoots' = stRoots /\ stPlace' = stPlace
        \/ stChange.step = "speech" /\ Stores!Move("speech") /\ ~Stores!SpeechBlocked
        \/ stChange.step = tr /\ Stores!Move(tr)
        \/ stChange.step = "text" /\ Stores!Move("ocr") /\ ~Stores!OcrBlocked
    BY <1>12 DEF Stores!ChangeSpeech, Stores!ChangeTranslation, Stores!ChangeOcr
  <2>3. CASE stRoots' = stRoots /\ stPlace' = stPlace
    BY <1>1, <1>3, <2>1, <2>3 DEF Stores!Active
  <2>4. CASE stChange.step = "speech" /\ Stores!Move("speech") /\ ~Stores!SpeechBlocked
    BY <1>0, <1>11, <2>1, <2>4 DEF Stores!SpeechBlocked
  <2>5. CASE stChange.step = tr /\ Stores!Move(tr)
    <3>1. Moving
      BY <2>5 DEF Moving, StoreTypes, ChangeState
    <3>2. stPlamo = None /\ ~(stBusy = tr /\ Stores!Active)
      BY <1>0, <3>1 DEF StoreLockInv
    <3>. QED BY <1>0, <1>11, <2>1, <2>5, <3>2
  <2>6. CASE stChange.step = "text" /\ Stores!Move("ocr") /\ ~Stores!OcrBlocked
    BY <1>0, <1>11, <2>1, <2>6 DEF Stores!OcrBlocked, Stores!Prepared
  <2>. QED BY <2>2, <2>3, <2>4, <2>5, <2>6
<1>. QED BY <1>4, <1>5, <1>6, <1>7, <1>8, <1>9, <1>10, <1>12
         DEF Stores!StoresNext, Stores!ChangeSteps

LEMMA StoreShownKept ==
  ASSUME StoreTypes, Stores!ShownIsDownloaded, Stores!StoresNext
  PROVE  Stores!ShownIsDownloaded'
<1>0. Stores!Stopping.state = "stopping"
  BY DEF StoreTypes, Stores!Stopping
<1>1. ASSUME ~stShown' \/ Stores!Active'
      PROVE  Stores!ShownIsDownloaded'
  BY <1>1 DEF Stores!ShownIsDownloaded
<1>2. ASSUME stShown' = stShown, Stores!Active => Stores!Active',
             stChange.step = "abort" => stChange'.step = "abort"
      PROVE  Stores!ShownIsDownloaded'
  BY <1>2 DEF Stores!ShownIsDownloaded
<1>3. ASSUME NEW u \in Users,
             \/ Stores!SpeechDownload(u) \/ Stores!OcrDownload(u)
             \/ Stores!Cancel(u) \/ Stores!OcrCancel(u) \/ Stores!OcrCancelled(u)
      PROVE  Stores!ShownIsDownloaded'
  <2>1. CASE Stores!SpeechDownload(u) \/ Stores!OcrDownload(u)
    BY <1>1, <2>1 DEF Stores!SpeechDownload, Stores!OcrDownload, Stores!Active
  <2>2. CASE Stores!Cancel(u) \/ Stores!OcrCancel(u)
    BY <1>0, <1>1, <2>2 DEF Stores!Cancel, Stores!OcrCancel, Stores!Active
  <2>3. CASE Stores!OcrCancelled(u)
    BY <1>1, <2>3 DEF Stores!OcrCancelled
  <2>. QED BY <1>3, <2>1, <2>2, <2>3
<1>4. ASSUME NEW u \in Users,
             \/ Stores!TranslationLock(u) \/ Stores!TranslationDownload(u)
             \/ Stores!Cancelled(u) \/ Stores!SpeechDelete(u)
             \/ Stores!DeleteLock(u) \/ Stores!TranslationDelete(u)
             \/ Stores!OcrDelete(u) \/ Stores!Translate(u) \/ Stores!OcrUse(u)
             \/ Stores!Used(u)
      PROVE  Stores!ShownIsDownloaded'
  <2>1. stShown' = stShown /\ stChange' = stChange
    BY <1>4 DEF Stores!TranslationLock, Stores!TranslationDownload,
         Stores!Cancelled, Stores!SpeechDelete, Stores!DeleteLock,
         Stores!TranslationDelete, Stores!OcrDelete, Stores!Translate,
         Stores!OcrUse, Stores!Used
  <2>2. stJob' = stJob \/ stJob' = [state |-> "active", at |-> stRoots["translation"]]
    BY <1>4 DEF Stores!TranslationLock, Stores!TranslationDownload,
         Stores!Cancelled, Stores!SpeechDelete, Stores!DeleteLock,
         Stores!TranslationDelete, Stores!OcrDelete, Stores!Translate,
         Stores!OcrUse, Stores!Used
  <2>. QED BY <1>2, <2>1, <2>2 DEF Stores!Active
<1>5. CASE Stores!Finish \/ Stores!ChangeOcrAborted
  BY <1>1, <1>5 DEF Stores!Finish, Stores!ChangeOcrAborted
<1>6. CASE Stores!Begin
  <2>1. stJob' = stJob \/ stJob' = Stores!Stopping
    BY <1>6 DEF Stores!Begin
  <2>. QED BY <1>0, <1>1, <1>2, <1>6, <2>1 DEF Stores!Begin, Stores!Active
<1>7. CASE \/ Stores!ChangeLocks \/ Stores!ChangeStops \/ Stores!ChangeStopFails
           \/ Stores!ChangeSpeech \/ Stores!ChangeTranslation \/ Stores!ChangeSaves
  <2>1. /\ stShown' = stShown /\ stJob' = stJob /\ stChange.step # "abort"
    BY <1>7 DEF Stores!ChangeLocks, Stores!ChangeStops, Stores!ChangeStopFails,
         Stores!ChangeSpeech, Stores!ChangeTranslation, Stores!ChangeSaves
  <2>. QED BY <1>2, <2>1 DEF Stores!Active
<1>8. CASE Stores!ChangeOcrCancels
  <2>1. stJob' = stJob \/ stJob' = Stores!Stopping
    BY <1>8 DEF Stores!ChangeOcrCancels
  <2>2. stShown' = stShown /\ stChange.step = "ocr"
    BY <1>8 DEF Stores!ChangeOcrCancels
  <2>. QED BY <1>0, <1>1, <1>2, <2>1, <2>2 DEF Stores!Active
<1>9. CASE Stores!ChangeOcr
  <2>1. stJob' = stJob /\ stChange.step # "abort" /\ (~stShown' \/ stShown' = stShown)
    BY <1>9 DEF Stores!ChangeOcr
  <2>. QED BY <1>1, <1>2, <2>1 DEF Stores!Active
<1>. QED BY <1>3, <1>4, <1>5, <1>6, <1>7, <1>8, <1>9
         DEF Stores!StoresNext, Stores!ChangeSteps

\* Steps that leave the stores, the settings and the change alone.
LEMMA StoreRootsFrame ==
  ASSUME StoreRootsInv, stRoots' = stRoots, stDirectory' = stDirectory,
         stChange' = stChange, stRollbackFailed' = stRollbackFailed
  PROVE  StoreRootsInv'
BY DEF StoreRootsInv, Moved, Back

\* A change that was given up goes back, or has moved nothing.
LEMMA StoreGivesUp ==
  ASSUME StoreTypes, StoreRootsInv, Stores!GivesUp, stChange.step # "none",
         ~stChange.back, stRoots' = stRoots, stRollbackFailed' = stRollbackFailed,
         stDirectory' = stDirectory \/ stChange.applied
  PROVE  StoreRootsInv'
<1>1. CASE stChange.applied
  <2>1. stChange' = [stChange EXCEPT !.step = "stop", !.back = TRUE]
    BY <1>1 DEF Stores!GivesUp
  <2>2. stChange'.step = "stop" /\ stChange'.back = TRUE
    BY <2>1 DEF StoreTypes, ChangeState
  <2>. QED BY <2>2 DEF StoreRootsInv, Back
<1>2. CASE ~stChange.applied
  <2>1. stChange' = Stores!NoChange
    BY <1>2 DEF Stores!GivesUp
  <2>2. stChange'.step = "none"
    BY <2>1 DEF Stores!NoChange
  <2>3. ~stRollbackFailed => \A s \in Stores!Stores : stRoots[s] = stDirectory
    BY <1>2 DEF StoreRootsInv
  <2>. QED BY <1>2, <2>2, <2>3 DEF StoreRootsInv
<1>. QED BY <1>1, <1>2

\* What a step that has moved one store leaves of a change.
LEMMA StoreMoves ==
  ASSUME StoreTypes, NEW s \in Stores!Stores, Stores!Move(s)
  PROVE  /\ stRoots'[s] = Stores!Target
         /\ \A x \in Stores!Stores \ {s} : stRoots'[x] = stRoots[x]
BY DEF StoreTypes, Stores!Move

LEMMA StoreRootsKept ==
  ASSUME StoreTypes, StoreRootsInv, Stores!StoresNext
  PROVE  StoreRootsInv'
<1>. DEFINE All == {"speech", "translation", "ocr"}
<1>0. Stores!Stores = All /\ stChange.back \in BOOLEAN
      /\ DOMAIN stChange = {"step", "back", "applied", "to", "from"}
      /\ stChange.applied \in BOOLEAN
  BY DEF Stores!Stores, StoreTypes, ChangeState
<1>1. ASSUME NEW u \in Users,
             \/ Stores!SpeechDownload(u) \/ Stores!OcrDownload(u)
             \/ Stores!TranslationLock(u) \/ Stores!TranslationDownload(u)
             \/ Stores!Cancel(u) \/ Stores!Cancelled(u)
             \/ Stores!OcrCancel(u) \/ Stores!OcrCancelled(u)
             \/ Stores!SpeechDelete(u) \/ Stores!DeleteLock(u)
             \/ Stores!TranslationDelete(u) \/ Stores!OcrDelete(u)
             \/ Stores!Translate(u) \/ Stores!OcrUse(u) \/ Stores!Used(u)
      PROVE  StoreRootsInv'
  <2>1. /\ stRoots' = stRoots /\ stDirectory' = stDirectory
        /\ stChange' = stChange /\ stRollbackFailed' = stRollbackFailed
    BY <1>1 DEF Stores!SpeechDownload, Stores!OcrDownload, Stores!TranslationLock,
         Stores!TranslationDownload, Stores!Cancel, Stores!Cancelled,
         Stores!OcrCancel, Stores!OcrCancelled, Stores!SpeechDelete,
         Stores!DeleteLock, Stores!TranslationDelete, Stores!OcrDelete,
         Stores!Translate, Stores!OcrUse, Stores!Used, Stores!files, Stores!flags
  <2>. QED BY <2>1, StoreRootsFrame
<1>2. CASE Stores!Finish
  BY <1>2, StoreRootsFrame DEF Stores!Finish, Stores!flags
<1>3. CASE Stores!Begin
  <2>1. PICK to \in Stores!Roots \ {stDirectory} :
               stChange' = [step |-> "cancel", back |-> FALSE, applied |-> FALSE,
                            to |-> to, from |-> stRoots["speech"]]
    BY <1>3 DEF Stores!Begin
  <2>2. /\ stRoots' = stRoots /\ stDirectory' = stDirectory
        /\ stRollbackFailed' = stRollbackFailed /\ stChange.step = "none"
    BY <1>3 DEF Stores!Begin, Stores!files, Stores!flags
  <2>3. stChange'.step = "cancel" /\ ~stChange'.back /\ ~stChange'.applied
        /\ stChange'.from = stRoots["speech"]
    BY <2>1
  <2>4. ~stRollbackFailed => /\ \A s \in Stores!Stores : stRoots[s] = stDirectory
                             /\ stRoots["speech"] = stDirectory
    BY <1>0, <2>2 DEF StoreRootsInv
  <2>5. Moved' = {}
    BY <2>3 DEF Moved
  <2>. QED BY <2>2, <2>3, <2>4, <2>5 DEF StoreRootsInv
\* steps that do not move a store
<1>4. ASSUME stRoots' = stRoots, stDirectory' = stDirectory,
             stRollbackFailed' = stRollbackFailed, stChange.step # "none",
             NEW step \in {"stop", "speech", "ocr", "abort", "text"}, 
             Stores!Step(step),
             ~stChange.back => (Moved' = Moved), stChange.back => Back' \subseteq Back
      PROVE  StoreRootsInv'
  <2>1. /\ stChange'.step = step /\ stChange'.back = stChange.back
        /\ stChange'.applied = stChange.applied /\ stChange'.to = stChange.to
        /\ stChange'.from = stChange.from
    BY <1>0, <1>4 DEF Stores!Step
  <2>. QED BY <1>0, <1>4, <2>1 DEF StoreRootsInv
<1>5. CASE Stores!ChangeLocks
  <2>1. stChange.step = "cancel" /\ Stores!Step("stop") /\ stRoots' = stRoots
        /\ stDirectory' = stDirectory /\ stRollbackFailed' = stRollbackFailed
    BY <1>5 DEF Stores!ChangeLocks, Stores!files, Stores!flags
  <2>2. stChange'.step = "stop"
    BY <1>0, <2>1 DEF Stores!Step
  <2>. QED BY <1>4, <2>1, <2>2 DEF Moved, Back
<1>6. CASE Stores!ChangeStops
  <2>1. stChange.step = "stop" /\ Stores!Step(IF stChange.back THEN "ocr" ELSE "speech")
        /\ stRoots' = stRoots /\ stDirectory' = stDirectory
        /\ stRollbackFailed' = stRollbackFailed
    BY <1>6 DEF Stores!ChangeStops, Stores!files, Stores!flags
  <2>2. stChange'.step = IF stChange.back THEN "ocr" ELSE "speech"
    BY <1>0, <2>1 DEF Stores!Step
  <2>. QED BY <1>0, <1>4, <2>1, <2>2 DEF Moved, Back
<1>7. CASE Stores!ChangeStopFails
  <2>1. /\ stChange' = Stores!NoChange /\ stRoots' = stRoots
        /\ stChange.step = "stop"
        /\ stRollbackFailed' = (stRollbackFailed \/ stChange.back)
        /\ ~stChange.back => stDirectory' = stDirectory
    BY <1>7 DEF Stores!ChangeStopFails
  <2>2. stChange'.step = "none"
    BY <2>1 DEF Stores!NoChange
  <2>3. CASE stChange.back
    BY <2>1, <2>3 DEF StoreRootsInv
  <2>4. CASE ~stChange.back
    <3>1. Moved = {}
      BY <2>1 DEF Moved
    <3>2. ~stRollbackFailed => \A s \in Stores!Stores : stRoots[s] = stDirectory
      BY <2>1, <2>4, <3>1 DEF StoreRootsInv
    <3>. QED BY <2>1, <2>2, <2>4, <3>2 DEF StoreRootsInv
  <2>. QED BY <2>3, <2>4
<1>8. CASE Stores!ChangeOcrCancels \/ Stores!ChangeOcrAborted
  <2>1. /\ stChange.step \in {"ocr", "abort"}
        /\ Stores!Step("abort") \/ Stores!Step("text")
        /\ stRoots' = stRoots /\ stDirectory' = stDirectory
        /\ stRollbackFailed' = stRollbackFailed
    BY <1>8 DEF Stores!ChangeOcrCancels, Stores!ChangeOcrAborted, Stores!files,
                Stores!flags
  <2>2. stChange'.step \in {"abort", "text"}
    BY <1>0, <2>1 DEF Stores!Step
  <2>. QED BY <1>4, <2>1, <2>2 DEF Moved, Back
\* a step that has moved a store
<1>9. ASSUME NEW s \in Stores!Stores, Stores!Move(s), stRollbackFailed' = stRollbackFailed,
             stDirectory' = stDirectory, stChange.step # "none",
             NEW step \in {"speech", "translation", "ocr", "save"},
             stChange'.step = step, stChange'.back = stChange.back,
             stChange'.to = stChange.to, stChange'.from = stChange.from,
             stChange.back => step # "save" /\ Back' \subseteq Back \cup {s},
             ~stChange.back => stChange'.applied /\ Moved' = Moved \cup {s}
      PROVE  StoreRootsInv'
  <2>. SUFFICES ASSUME ~stRollbackFailed PROVE StoreRootsInv'
    BY <1>9 DEF StoreRootsInv
  <2>1. CASE stChange.back
    <3>1. stRoots'[s] = stChange.from
      BY <2>1, <1>9, StoreMoves DEF Stores!Target
    <3>2. \A x \in Back : stRoots[x] = stChange.from
      BY <1>9, <2>1 DEF StoreRootsInv
    <3>3. \A x \in Back' : x \in Stores!Stores
      BY <1>0 DEF Back
    <3>4. \A x \in Back' : stRoots'[x] = stChange.from
      BY <1>9, <2>1, <3>1, <3>2, <3>3, StoreMoves
    <3>. QED BY <1>9, <2>1, <3>4 DEF StoreRootsInv
  <2>2. CASE ~stChange.back
    <3>1. stRoots'[s] = stChange.to
      BY <2>2, <1>9, StoreMoves DEF Stores!Target
    <3>2. /\ stDirectory = stChange.from
          /\ \A x \in Stores!Stores :
               stRoots[x] = IF x \in Moved THEN stChange.to ELSE stChange.from
      BY <1>9, <2>2 DEF StoreRootsInv
    <3>3. \A x \in Stores!Stores :
            stRoots'[x] = IF x \in Moved' THEN stChange.to ELSE stChange.from
      BY <1>9, <2>2, <3>1, <3>2, StoreMoves
    <3>4. Moved' # {}
      BY <1>9, <2>2
    <3>. QED BY <1>9, <2>2, <3>2, <3>3, <3>4 DEF StoreRootsInv
  <2>. QED BY <2>1, <2>2
<1>10. CASE Stores!ChangeSpeech
  <2>0. stChange.step = "speech"
    BY <1>10 DEF Stores!ChangeSpeech
  <2>1. CASE Stores!Move("speech") /\ stChange.back /\ stChange' = Stores!NoChange
             /\ stDirectory' = stChange.from /\ stRollbackFailed' = stRollbackFailed
    <3>1. stRoots'["speech"] = stChange.from
          /\ \A x \in {"translation", "ocr"} : stRoots'[x] = stRoots[x]
      BY <1>0, <2>1, StoreMoves DEF Stores!Target
    <3>2. Back = {"ocr", "translation"}
      BY <2>0 DEF Back
    <3>3. ~stRollbackFailed => \A x \in Back : stRoots[x] = stChange.from
      BY <2>0, <2>1 DEF StoreRootsInv
    <3>4. ~stRollbackFailed => \A x \in Stores!Stores : stRoots'[x] = stDirectory'
      BY <1>0, <2>1, <3>1, <3>2, <3>3
    <3>5. stChange'.step = "none"
      BY <2>1 DEF Stores!NoChange
    <3>. QED BY <2>1, <3>4, <3>5 DEF StoreRootsInv
  <2>2. CASE Stores!Move("speech") /\ ~stChange.back
             /\ stChange' = [stChange EXCEPT !.step = "translation", !.applied = TRUE]
             /\ stDirectory' = stDirectory /\ stRollbackFailed' = stRollbackFailed
    <3>1. /\ stChange'.step = "translation" /\ stChange'.back = stChange.back
          /\ stChange'.applied = TRUE /\ stChange'.to = stChange.to
          /\ stChange'.from = stChange.from
      BY <1>0, <2>2
    <3>2. Moved' = Moved \cup {"speech"}
      BY <2>0, <3>1 DEF Moved
    <3>. QED BY <1>0, <1>9, <2>0, <2>2, <3>1, <3>2
  <2>3. CASE stRoots' = stRoots /\ stChange.back /\ stRollbackFailed' = TRUE
    BY <2>3 DEF StoreRootsInv
  <2>4. CASE stRoots' = stRoots /\ ~stChange.back /\ Stores!GivesUp
             /\ stDirectory' = stDirectory /\ stRollbackFailed' = stRollbackFailed
    BY <2>0, <2>4, StoreGivesUp
  <2>. QED BY <1>0, <1>10, <2>1, <2>2, <2>3, <2>4 DEF Stores!ChangeSpeech
<1>11. CASE Stores!ChangeTranslation
  <2>0. stChange.step = "translation" /\ stDirectory' = stDirectory
    BY <1>11 DEF Stores!ChangeTranslation
  <2>1. CASE Stores!Move("translation") /\ stRollbackFailed' = stRollbackFailed
             /\ Stores!Step(IF stChange.back THEN "speech" ELSE "ocr")
    <3>1. /\ stChange'.step = IF stChange.back THEN "speech" ELSE "ocr"
          /\ stChange'.back = stChange.back /\ stChange'.applied = stChange.applied
          /\ stChange'.to = stChange.to /\ stChange'.from = stChange.from
      BY <1>0, <2>1 DEF Stores!Step
    <3>2. ~stRollbackFailed /\ ~stChange.back => stChange.applied
      BY <2>0 DEF StoreRootsInv, Moved
    <3>3. ~stChange.back => Moved' = Moved \cup {"translation"}
      BY <2>0, <3>1 DEF Moved
    <3>4. stChange.back => Back' \subseteq Back \cup {"translation"}
      BY <2>0, <3>1 DEF Back
    <3>5. CASE stRollbackFailed
      BY <2>1, <3>5 DEF StoreRootsInv
    <3>6. CASE ~stRollbackFailed
      BY <1>0, <1>9, <2>0, <2>1, <3>1, <3>2, <3>3, <3>4, <3>6
    <3>. QED BY <3>5, <3>6
  <2>2. CASE stRoots' = stRoots /\ stChange.back /\ stRollbackFailed' = TRUE
    BY <2>2 DEF StoreRootsInv
  <2>3. CASE stRoots' = stRoots /\ ~stChange.back /\ Stores!GivesUp
             /\ stRollbackFailed' = stRollbackFailed
    BY <2>0, <2>3, StoreGivesUp
  <2>. QED BY <1>0, <1>11, <2>1, <2>2, <2>3 DEF Stores!ChangeTranslation
<1>12. CASE Stores!ChangeOcr
  <2>0. stChange.step = "text" /\ stDirectory' = stDirectory
    BY <1>12 DEF Stores!ChangeOcr
  <2>1. CASE Stores!Move("ocr") /\ stRollbackFailed' = stRollbackFailed
             /\ Stores!Step(IF stChange.back THEN "translation" ELSE "save")
    <3>1. /\ stChange'.step = IF stChange.back THEN "translation" ELSE "save"
          /\ stChange'.back = stChange.back /\ stChange'.applied = stChange.applied
          /\ stChange'.to = stChange.to /\ stChange'.from = stChange.from
      BY <1>0, <2>1 DEF Stores!Step
    <3>2. ~stRollbackFailed /\ ~stChange.back => stChange.applied
      BY <2>0 DEF StoreRootsInv, Moved
    <3>3. ~stChange.back => Moved' = Moved \cup {"ocr"}
      BY <1>0, <2>0, <3>1 DEF Moved
    <3>4. stChange.back => Back' \subseteq Back \cup {"ocr"}
      BY <2>0, <3>1 DEF Back
    <3>5. CASE stRollbackFailed
      BY <2>1, <3>5 DEF StoreRootsInv
    <3>6. CASE ~stRollbackFailed
      BY <1>0, <1>9, <2>0, <2>1, <3>1, <3>2, <3>3, <3>4, <3>6
    <3>. QED BY <3>5, <3>6
  <2>2. CASE stRoots' = stRoots /\ stChange.back /\ stRollbackFailed' = TRUE
    BY <2>2 DEF StoreRootsInv
  <2>3. CASE stRoots' = stRoots /\ ~stChange.back /\ Stores!GivesUp
             /\ stRollbackFailed' = stRollbackFailed
    BY <2>0, <2>3, StoreGivesUp
  <2>. QED BY <1>0, <1>12, <2>1, <2>2, <2>3 DEF Stores!ChangeOcr, Stores!Failed
<1>13. CASE Stores!ChangeSaves
  <2>0. /\ stChange.step = "save" /\ stRoots' = stRoots
        /\ stRollbackFailed' = stRollbackFailed
    BY <1>13 DEF Stores!ChangeSaves, Stores!flags
  <2>1. CASE stRollbackFailed
    BY <2>0, <2>1 DEF StoreRootsInv
  <2>2. CASE ~stRollbackFailed
    <3>1. ~stChange.back
      BY <2>0, <2>2 DEF StoreRootsInv
    <3>2. Moved = Stores!Stores
      BY <2>0 DEF Moved
    <3>3. stChange.applied /\ \A s \in Stores!Stores : stRoots[s] = stChange.to
      BY <1>0, <2>0, <2>2, <3>1, <3>2 DEF StoreRootsInv
    <3>4. CASE stDirectory' = stChange.to /\ stChange' = Stores!NoChange
      <4>1. stChange'.step = "none"
        BY <3>4 DEF Stores!NoChange
      <4>. QED BY <2>0, <3>3, <3>4, <4>1 DEF StoreRootsInv
    <3>5. CASE Stores!GivesUp
      BY <2>0, <3>1, <3>3, <3>5, StoreGivesUp
    <3>. QED BY <1>13, <3>4, <3>5 DEF Stores!ChangeSaves
  <2>. QED BY <2>1, <2>2
<1>. QED BY <1>1, <1>2, <1>3, <1>5, <1>6, <1>7, <1>8, <1>10, <1>11, <1>12, <1>13
         DEF Stores!StoresNext, Stores!ChangeSteps

StoresInv ==
  /\ StoreTypes /\ StoreLockInv /\ StorePlaceInv /\ StoreRootsInv
  /\ Stores!ShownIsDownloaded

LEMMA StoresStart ==
  ASSUME Stores!StoresInit
  PROVE  StoresInv
<1>1. /\ stBusy \in Stores!Stores /\ stDirectory = "old"
      /\ stRoots = [s \in Stores!Stores |-> "old"]
      /\ stJob = Stores!NoJob /\ stCalls = [u \in Users |-> "idle"]
      /\ stLock = [queue |-> << >>, holders |-> {}]
      /\ stPlamo = None /\ stShown = FALSE /\ stChange = Stores!NoChange
      /\ stRollbackFailed = FALSE
      /\ \A s \in Stores!Stores : stPlace[s] \in {None, "old"}
      /\ stPlace \in [Stores!Stores -> {None, "old"}]
  BY DEF Stores!StoresInit
<1>2. StoreTypes
  BY <1>1 DEF StoreTypes, Stores!NoJob, Stores!NoChange, Stores!Roots, CallState,
              ChangeState, LockState
<1>3. StoreLockInv
  BY <1>1 DEF StoreLockInv, Held, Moving, Stores!NoChange, Stores!NoJob,
              Stores!Active
<1>4. StorePlaceInv
  BY <1>1 DEF StorePlaceInv, Stores!RunsOnItsModel, Stores!ModelsAreFound,
              Stores!NoJob, Stores!Active
<1>5. StoreRootsInv
  BY <1>1 DEF StoreRootsInv, Stores!NoChange
<1>. QED BY <1>1, <1>2, <1>3, <1>4, <1>5 DEF StoresInv, Stores!ShownIsDownloaded

LEMMA StoresStep ==
  ASSUME StoresInv, Stores!StoresNext \/ UNCHANGED stores
  PROVE  StoresInv'
<1>1. CASE Stores!StoresNext
  BY <1>1, StoreTypesKept, StoreLockKept, StorePlaceKept, StoreRootsKept,
     StoreShownKept DEF StoresInv
<1>2. CASE UNCHANGED stores
  BY <1>2 DEF stores, StoresInv, StoreTypes, StoreLockInv, StorePlaceInv,
     StoreRootsInv, Held, Moving, Moved, Back, Stores!Active,
     Stores!RunsOnItsModel, Stores!ModelsAreFound, Stores!ShownIsDownloaded
<1>. QED BY <1>1, <1>2

-----------------------------------------------------------------------------
(* VisionQuestion                                                          *)

DesktopState ==
  [service : BOOLEAN, available : BOOLEAN,
   state : {"idle", "capturing", "selecting", "recording", "finalizing_asr",
            "requesting", "editing", "complete", "error", "disabled"},
   id : Nat, image : Nat \cup {None}, recording : Nat \cup {None},
   answer : Nat \cup {None}, cleared : Nat]
PanelState ==
  [id : Nat,
   view : {"none", "listening", "finalizing", "requesting", "complete", "error"},
   settings : Nat \cup {None}, session : BOOLEAN, task : BOOLEAN,
   answer : Nat \cup {None}]
TaskState ==
  [mode : {"desktop", "vr"},
   kind : {"capture", "ask", "record", "finalize", "answer"}, id : Nat,
   stage : {"start", "select", "image", "nothing", "error", "request"},
   data : Seq(Nat \cup {None})]
UpdateState == [id : Nat, kind : {"requesting", "answer", "error"}]

VisionTypes ==
  /\ vqSettings \in Nat /\ vqEnabled \in BOOLEAN
  /\ vqDesktop \in DesktopState /\ vqVr \in PanelState
  /\ vqTasks \subseteq TaskState
  /\ vqUpdates \in Seq(UpdateState)

\* One question owns the microphone, from its beginning until the device is
\* closed.
MicrophoneInv == \A p, q \in vqHolding \cup vqDevices : p = q

(***************************************************************************)
(* A task of the desktop was given its id by the manager.  Nothing has     *)
(* been cleared since a capture that is current, a request that is current *)
(* is about the image that is shown, and one id is never that of a capture *)
(* and of a request.                                                       *)
(***************************************************************************)
ContentInv ==
  /\ Vision!ContentIsCurrent
  /\ vqDesktop.cleared <= vqDesktop.id
  /\ \A t \in vqTasks :
       /\ t.kind # "answer" => t.mode = "desktop" /\ t.id <= vqDesktop.id
       /\ t.kind = "answer" => t.mode = "vr"
       /\ t.kind = "capture" /\ t.id = vqDesktop.id => vqDesktop.cleared < t.id
       /\ t.kind = "ask" =>
            /\ t.data # << >>
            /\ t.id = vqDesktop.id => t.data[1] = vqDesktop.image
       /\ \A s \in vqTasks : t.kind = "capture" /\ s.kind = "ask" => t.id # s.id

LEMMA VisionMicrophoneKept ==
  ASSUME MicrophoneInv, Vision!QuestionNext
  PROVE  MicrophoneInv'
<1>. DEFINE Fewer == vqHolding' \cup vqDevices' \subseteq vqHolding \cup vqDevices
            Begun == /\ vqHolding = {} /\ vqDevices = {}
                     /\ \E q : vqHolding' \cup vqDevices' = {q}
<1>1. SUFFICES Fewer \/ Begun
  BY DEF MicrophoneInv
<1>2. \A q : Vision!Drop(q) => vqHolding' \subseteq vqHolding
  BY DEF Vision!Drop
<1>3. \A q : Vision!Free /\ Vision!Begin(q) => Begun
  BY DEF Vision!Free, Vision!Begin
<1>4. CASE Vision!Desktop
  BY <1>2, <1>3, <1>4
  DEF Vision!Desktop, Vision!CaptureStart, Vision!CaptureRefused,
      Vision!CancelDesktop, Vision!CloseDesktop, Vision!StopDesktop,
      Vision!StartDesktop, Vision!Configure, Vision!Ask, Vision!StartRecording,
      Vision!FinishRecording, Vision!Unheld, Vision!microphone, Vision!session
<1>5. CASE Vision!Headset
  BY <1>2, <1>3, <1>5
  DEF Vision!Headset, Vision!VrBegin, Vision!VrRelease, Vision!VrLost,
      Vision!VrClose, Vision!VrTick, Vision!microphone, Vision!session
<1>6. ASSUME NEW t \in vqTasks, Vision!Work(t) \/ Vision!Selected(t)
      PROVE  Fewer
  BY <1>2, <1>6
  DEF Vision!Work, Vision!Selected, Vision!ScreenTaken, Vision!CaptureEnds,
      Vision!AskStarts, Vision!AskEnds, Vision!RecordEnds, Vision!FinalizeEnds,
      Vision!AnswerFinalized, Vision!AnswerEnds, Vision!DropTask,
      Vision!Unheld, Vision!microphone, Vision!session
<1>7. CASE Vision!Around
  BY <1>7 DEF Vision!Around, Vision!Recognize, Vision!CloseDevice,
              Vision!ChangeSettings, Vision!microphone, Vision!session
<1>. QED BY <1>4, <1>5, <1>6, <1>7 DEF Vision!QuestionNext

\* What the operators on the manager's state return.
LEMMA VisionDesktops ==
  ASSUME NEW d \in DesktopState
  PROVE  /\ Vision!Cancelled(d) \in DesktopState
         /\ Vision!Cancelled(d).id = d.id + 1
         /\ Vision!Cancelled(d).image = d.image
         /\ Vision!Cancelled(d).answer = d.answer
         /\ Vision!Cancelled(d).cleared = d.cleared
         /\ Vision!Cleared(d) \in DesktopState
         /\ Vision!Cleared(d).id = d.id + 1 /\ Vision!Cleared(d).image = None
         /\ Vision!Cleared(d).answer = None
         /\ Vision!Cleared(d).cleared = d.id + 1
<1>1. \A e : Vision!Idle(e) \in {"idle", "editing", "disabled"}
  BY DEF Vision!Idle
<1>2. /\ Vision!Cancelled(d) \in DesktopState
      /\ Vision!Cancelled(d).id = d.id + 1
      /\ Vision!Cancelled(d).image = d.image
      /\ Vision!Cancelled(d).answer = d.answer
      /\ Vision!Cancelled(d).cleared = d.cleared
  <2>. DEFINE c == [d EXCEPT !.id = @ + 1, !.recording = None]
  <2>0. c = [d EXCEPT !.id = d.id + 1, !.recording = None]
    OBVIOUS
  <2>1. /\ c \in DesktopState /\ c.id = d.id + 1 /\ c.image = d.image
        /\ c.answer = d.answer /\ c.cleared = d.cleared
    <3>1. d.id + 1 \in Nat /\ None \in Nat \cup {None}
      BY DEF DesktopState
    <3>. HIDE DEF c
    <3>. QED BY <2>0, <3>1 DEF DesktopState
  <2>2. Vision!Cancelled(d) = [c EXCEPT !.state = Vision!Idle(c)]
    BY DEF Vision!Cancelled
  <2>. HIDE DEF c
  <2>. QED BY <1>1, <2>1, <2>2 DEF DesktopState
<1>3. /\ Vision!Cleared(d) \in DesktopState
      /\ Vision!Cleared(d).id = d.id + 1 /\ Vision!Cleared(d).image = None
      /\ Vision!Cleared(d).answer = None
      /\ Vision!Cleared(d).cleared = d.id + 1
  <2>. DEFINE c == [Vision!Cancelled(d) EXCEPT !.image = None, !.answer = None,
                                               !.cleared = d.id + 1]
  <2>1. /\ c \in DesktopState /\ c.id = d.id + 1 /\ c.image = None
        /\ c.answer = None /\ c.cleared = d.id + 1
    BY <1>2 DEF DesktopState
  <2>2. Vision!Cleared(d) = [c EXCEPT !.state = Vision!Idle(c)]
    BY DEF Vision!Cleared
  <2>. HIDE DEF c
  <2>. QED BY <1>1, <2>1, <2>2 DEF DesktopState
<1>. QED BY <1>2, <1>3


(***************************************************************************)
(* The panel: it stays a state of the panel, and a complete one shows the  *)
(* answer to its own question.                                             *)
(***************************************************************************)
GoodPanel(v) == v \in PanelState /\ (v.view = "complete" => v.answer = v.id)

LEMMA VisionPanels ==
  ASSUME NEW v, GoodPanel(v)
  PROVE  /\ GoodPanel(Vision!Hidden(v)) /\ GoodPanel(Vision!Failed(v))
         /\ \A u \in UpdateState : GoodPanel(Vision!Receive(v, u))
<1>1. GoodPanel(Vision!Hidden(v))
  BY DEF GoodPanel, PanelState, Vision!Hidden
<1>2. GoodPanel(Vision!Failed(v))
  <2>1. Vision!Hidden(v) \in PanelState
    BY <1>1 DEF GoodPanel
  <2>2. v.settings \in Nat \cup {None}
    BY DEF GoodPanel, PanelState
  <2>3. Vision!Failed(v) \in PanelState /\ Vision!Failed(v).view = "error"
    BY <2>1, <2>2 DEF Vision!Failed, PanelState
  <2>. QED BY <2>3 DEF GoodPanel
<1>3. ASSUME NEW u \in UpdateState
      PROVE  GoodPanel(Vision!Receive(v, u))
  <2>1. CASE u.id # v.id
    BY <2>1 DEF Vision!Receive
  <2>2. CASE u.id = v.id /\ u.kind = "requesting"
    <3>1. Vision!Receive(v, u) =
            IF v.view = "none" THEN v ELSE [v EXCEPT !.view = "requesting"]
      BY <2>2 DEF Vision!Receive
    <3>. QED BY <3>1 DEF GoodPanel, PanelState
  <2>3. CASE u.id = v.id /\ u.kind = "answer"
    <3>1. Vision!Receive(v, u) =
            [v EXCEPT !.task = FALSE, !.view = "complete", !.answer = u.id]
      BY <2>3 DEF Vision!Receive
    <3>. QED BY <2>3, <3>1 DEF GoodPanel, PanelState
  <2>4. CASE u.id = v.id /\ u.kind \notin {"requesting", "answer"}
    <3>1. Vision!Receive(v, u) = Vision!Failed(v)
      BY <2>4 DEF Vision!Receive
    <3>. QED BY <3>1, <1>2
  <2>. QED BY <2>1, <2>2, <2>3, <2>4
<1>. QED BY <1>1, <1>2, <1>3

(***************************************************************************)
(* after is the run of Received's recursion over the first n updates.      *)
(***************************************************************************)
ReceivedRun(v, us, n, after) ==
  after = [i \in 0..n |->
             IF i = 0 THEN v ELSE Vision!Receive(after[i-1], us[i])]

\* The run exists up to every length: Received is well defined.
LEMMA ReceivedRunExists ==
  ASSUME NEW v, NEW us, NEW n \in Nat
  PROVE  \E after : ReceivedRun(v, us, n, after)
<1>. DEFINE T == {k \in Nat : \E f : ReceivedRun(v, us, k, f)}
<1>1. 0 \in T
  <2>1. ReceivedRun(v, us, 0, [i \in 0..0 |-> v])
    BY DEF ReceivedRun
  <2>. QED BY <2>1
<1>2. ASSUME NEW k \in Nat, k \in T PROVE k+1 \in T
  <2>1. PICK f : ReceivedRun(v, us, k, f)
    BY <1>2
  <2>. DEFINE g == [i \in 0..k+1 |->
                      IF i = k+1 THEN Vision!Receive(f[k], us[k+1]) ELSE f[i]]
              h == [i \in 0..k+1 |->
                      IF i = 0 THEN v ELSE Vision!Receive(g[i-1], us[i])]
  <2>2. \A i \in 0..k : g[i] = f[i]
    OBVIOUS
  <2>3. \A i \in 0..k :
          f[i] = IF i = 0 THEN v ELSE Vision!Receive(f[i-1], us[i])
    BY <2>1 DEF ReceivedRun
  <2>4. ASSUME NEW i \in 0..k+1
        PROVE  g[i] = IF i = 0 THEN v ELSE Vision!Receive(g[i-1], us[i])
    <3>1. CASE i = k+1
      <4>1. g[i] = Vision!Receive(f[k], us[k+1]) /\ i # 0 /\ i-1 = k /\ g[k] = f[k]
        BY <3>1, <2>2
      <4>. QED BY <4>1, <3>1
    <3>2. CASE i \in 0..k
      <4>1. g[i] = f[i] /\ (i # 0 => g[i-1] = f[i-1])
        BY <3>2, <2>2
      <4>. QED BY <4>1, <3>2, <2>3
    <3>. QED BY <3>1, <3>2
  <2>5. g = h
    <3>1. \A i \in 0..k+1 : g[i] = h[i]
      BY <2>4
    <3>2. g = [i \in 0..k+1 |-> g[i]] /\ h = [i \in 0..k+1 |-> h[i]]
      OBVIOUS
    <3>. HIDE DEF g, h
    <3>. QED BY <3>1, <3>2
  <2>6. ReceivedRun(v, us, k+1, g)
    BY <2>5 DEF ReceivedRun
  <2>. HIDE DEF g
  <2>. QED BY <2>6
<1>3. \A k \in Nat : k \in T
  <2>. HIDE DEF T
  <2>. QED BY <1>1, <1>2, NatInd
<1>. QED BY <1>3

\* Whatever the updates are, the panel stays a good one.
LEMMA VisionReceived ==
  ASSUME NEW v, GoodPanel(v), NEW us \in Seq(UpdateState)
  PROVE  GoodPanel(Vision!Received(v, us))
<1>. DEFINE after == CHOOSE f : ReceivedRun(v, us, Len(us), f)
            T == {n \in Nat : n <= Len(us) => GoodPanel(after[n])}
<1>1. ReceivedRun(v, us, Len(us), after)
  BY Len(us) \in Nat, ReceivedRunExists
<1>2. Vision!Received(v, us) = after[Len(us)]
  BY DEF Vision!Received, ReceivedRun
<1>3. \A i \in 0..Len(us) :
        after[i] = IF i = 0 THEN v ELSE Vision!Receive(after[i-1], us[i])
  <2>. HIDE DEF after
  <2>. QED BY <1>1 DEF ReceivedRun
<1>. HIDE DEF after
<1>4. 0 \in T
  BY <1>3
<1>5. ASSUME NEW n \in Nat, n \in T PROVE n+1 \in T
  <2>1. SUFFICES ASSUME n+1 <= Len(us) PROVE GoodPanel(after[n+1])
    OBVIOUS
  <2>2. GoodPanel(after[n]) /\ us[n+1] \in UpdateState
    BY <1>5, <2>1
  <2>3. after[n+1] = Vision!Receive(after[n], us[n+1])
    <3>1. n+1 \in 0..Len(us) /\ n+1 # 0 /\ (n+1)-1 = n
      BY <2>1
    <3>. QED BY <1>3, <3>1
  <2>. QED BY <2>2, <2>3, VisionPanels
<1>6. \A n \in Nat : n \in T
  <2>. HIDE DEF T
  <2>. QED BY <1>4, <1>5, NatInd
<1>7. GoodPanel(after[Len(us)])
  BY <1>6
<1>. QED BY <1>2, <1>7

LEMMA VisionTicked ==
  ASSUME GoodPanel(vqVr), vqUpdates \in Seq(UpdateState),
         NEW timeout \in BOOLEAN, NEW expired \in BOOLEAN
  PROVE  GoodPanel(Vision!Ticked(timeout, expired))
<1>. DEFINE v1 == IF vqVr.settings # None /\ ~Vision!Matches(vqVr.settings)
                  THEN Vision!Hidden(vqVr) ELSE vqVr
            v2 == IF v1.session /\ (timeout \/ vqRecognition = "failed")
                  THEN Vision!Failed(v1) ELSE v1
            v3 == Vision!Received(v2, vqUpdates)
            v4 == IF expired /\ v3.view \in {"complete", "error"}
                  THEN Vision!Hidden(v3) ELSE v3
<1>1. GoodPanel(v1)
  BY VisionPanels
<1>2. GoodPanel(v2)
  <2>. HIDE DEF v1
  <2>. QED BY <1>1, VisionPanels
<1>3. GoodPanel(v3)
  <2>. HIDE DEF v2
  <2>. QED BY <1>2, VisionReceived
<1>4. GoodPanel(v4)
  <2>. HIDE DEF v3
  <2>. QED BY <1>3, VisionPanels
<1>5. Vision!Ticked(timeout, expired) = v4
  BY DEF Vision!Ticked
<1>. QED BY <1>4, <1>5

-----------------------------------------------------------------------------
\* s is the task t, further on.
LikeTask(s, t) ==
  /\ s.mode = t.mode /\ s.kind = t.kind /\ s.id = t.id
  /\ t.data # << >> => s.data # << >> /\ s.data[1] = t.data[1]

Carried == \A s \in vqTasks' : \E t \in vqTasks : LikeTask(s, t)

\* What tasks and updates may become.
LEMMA VisionParts ==
  ASSUME VisionTypes
  PROVE  /\ \A t \in vqTasks, stage \in {"select", "image", "nothing", "error",
                                         "request"} :
              Vision!At(t, stage) => vqTasks' \subseteq TaskState /\ Carried
         /\ \A t \in vqTasks :
              Vision!Ends(t) => vqTasks' \subseteq TaskState /\ Carried
         /\ \A t \in vqTasks, kind \in {"requesting", "answer", "error"} :
              Vision!Send(t, kind) => vqUpdates' \in Seq(UpdateState)
         /\ \A mode \in {"desktop", "vr"}, id \in Nat, x \in Nat \cup {None},
               kind \in {"capture", "ask", "record", "finalize", "answer"} :
              /\ Vision!Task(mode, kind, id, <<x>>) \in TaskState
              /\ Vision!Task(mode, kind, id, << >>) \in TaskState
         /\ vqTasks' = vqTasks => vqTasks' \subseteq TaskState /\ Carried
<1>1. ASSUME NEW t \in vqTasks,
             NEW stage \in {"select", "image", "nothing", "error", "request"},
             Vision!At(t, stage)
      PROVE  vqTasks' \subseteq TaskState /\ Carried
  <2>. DEFINE n == [t EXCEPT !.stage = stage]
  <2>1. n \in TaskState /\ LikeTask(n, t)
    BY DEF VisionTypes, TaskState, LikeTask
  <2>2. vqTasks' = (vqTasks \ {t}) \cup {n}
    BY <1>1 DEF Vision!At
  <2>. HIDE DEF n
  <2>3. \A s \in vqTasks : LikeTask(s, s)
    BY DEF LikeTask
  <2>. QED BY <2>1, <2>2, <2>3 DEF VisionTypes, Carried
<1>2. ASSUME NEW t \in vqTasks, Vision!Ends(t)
      PROVE  vqTasks' \subseteq TaskState /\ Carried
  BY <1>2 DEF VisionTypes, Vision!Ends, Carried, LikeTask
<1>3. ASSUME NEW t \in vqTasks, NEW kind \in {"requesting", "answer", "error"},
             Vision!Send(t, kind)
      PROVE  vqUpdates' \in Seq(UpdateState)
  <2>1. [id |-> t.id, kind |-> kind] \in UpdateState
    BY DEF VisionTypes, TaskState, UpdateState
  <2>. QED BY <1>3, <2>1 DEF VisionTypes, Vision!Send
<1>4. ASSUME NEW mode \in {"desktop", "vr"}, NEW id \in Nat,
             NEW x \in Nat \cup {None},
             NEW kind \in {"capture", "ask", "record", "finalize", "answer"}
      PROVE  /\ Vision!Task(mode, kind, id, <<x>>) \in TaskState
             /\ Vision!Task(mode, kind, id, << >>) \in TaskState
  BY DEF Vision!Task, TaskState
<1>5. vqTasks' = vqTasks => vqTasks' \subseteq TaskState /\ Carried
  BY DEF VisionTypes, Carried, LikeTask
<1>. QED BY <1>1, <1>2, <1>3, <1>4, <1>5

\* Nothing new is captured or asked: the ids stay.
LEMMA VisionStays ==
  ASSUME VisionTypes, ContentInv, GoodPanel(vqVr'),
         vqDesktop'.id = vqDesktop.id, vqDesktop'.cleared = vqDesktop.cleared,
         vqDesktop'.image = vqDesktop.image,
         vqDesktop'.answer \in {vqDesktop.answer, vqDesktop.image},
         \A s \in vqTasks' :
           \/ \E t \in vqTasks : LikeTask(s, t)
           \/ s.kind = "answer" /\ s.mode = "vr"
           \/ s.kind = "finalize" /\ s.mode = "desktop" /\ s.id = vqDesktop.id
  PROVE  ContentInv'
<1>. DEFINE New(s) ==
         \/ s.kind = "answer" /\ s.mode = "vr"
         \/ s.kind = "finalize" /\ s.mode = "desktop" /\ s.id = vqDesktop.id
<1>0. vqDesktop.id \in Nat /\ vqDesktop.cleared \in Nat
  BY DEF VisionTypes, DesktopState
<1>1. Vision!ContentIsCurrent'
  BY DEF ContentInv, Vision!ContentIsCurrent, GoodPanel
<1>2. vqDesktop'.cleared <= vqDesktop'.id
  BY DEF ContentInv
<1>3. ASSUME NEW s \in vqTasks'
      PROVE  /\ s.kind # "answer" => s.mode = "desktop" /\ s.id <= vqDesktop'.id
             /\ s.kind = "answer" => s.mode = "vr"
             /\ s.kind = "capture" /\ s.id = vqDesktop'.id =>
                  vqDesktop'.cleared < s.id
             /\ s.kind = "ask" =>
                  /\ s.data # << >>
                  /\ s.id = vqDesktop'.id => s.data[1] = vqDesktop'.image
  <2>1. CASE New(s)
    BY <1>0, <2>1
  <2>2. ASSUME NEW t \in vqTasks, LikeTask(s, t)
        PROVE  /\ s.kind # "answer" => s.mode = "desktop" /\ s.id <= vqDesktop'.id
               /\ s.kind = "answer" => s.mode = "vr"
               /\ s.kind = "capture" /\ s.id = vqDesktop'.id =>
                    vqDesktop'.cleared < s.id
               /\ s.kind = "ask" =>
                    /\ s.data # << >>
                    /\ s.id = vqDesktop'.id => s.data[1] = vqDesktop'.image
    BY <2>2 DEF ContentInv, LikeTask
  <2>. QED BY <2>1, <2>2
<1>4. ASSUME NEW s \in vqTasks', NEW r \in vqTasks', s.kind = "capture",
             r.kind = "ask"
      PROVE  s.id # r.id
  <2>1. PICK t \in vqTasks : LikeTask(s, t)
    BY <1>4
  <2>2. PICK u \in vqTasks : LikeTask(r, u)
    BY <1>4
  <2>. QED BY <1>4, <2>1, <2>2 DEF ContentInv, LikeTask
<1>. QED BY <1>1, <1>2, <1>3, <1>4 DEF ContentInv

\* The manager takes its next id, for a task of its own or none.
LEMMA VisionRenews ==
  ASSUME VisionTypes, ContentInv, GoodPanel(vqVr'), NEW n,
         vqDesktop'.id = vqDesktop.id + 1,
         vqDesktop'.cleared \in {vqDesktop.cleared, vqDesktop.id + 1},
         vqDesktop'.image \in {vqDesktop.image, None},
         vqDesktop'.cleared # vqDesktop.cleared => vqDesktop'.image = None,
         \/ vqDesktop'.answer = None
         \/ vqDesktop'.answer = vqDesktop.answer /\ vqDesktop'.image = vqDesktop.image,
         \A s \in vqTasks' : s = n \/ \E t \in vqTasks : LikeTask(s, t),
         n \in vqTasks' =>
           \/ \E t \in vqTasks : LikeTask(n, t)
           \/ /\ n.mode = "desktop" /\ n.id = vqDesktop.id + 1
              /\ n.kind \in {"capture", "ask", "record"}
              /\ n.kind = "capture" => vqDesktop'.cleared = vqDesktop.cleared
              /\ n.kind = "ask" => n.data # << >> /\ n.data[1] = vqDesktop'.image
  PROVE  ContentInv'
<1>0. /\ vqDesktop.id \in Nat /\ vqDesktop.cleared \in Nat
      /\ vqDesktop.image # None => vqDesktop.image \in Nat
      /\ \A t \in vqTasks : t.id \in Nat
  BY DEF VisionTypes, DesktopState, TaskState
<1>. DEFINE New(s) == /\ s = n /\ n.mode = "desktop" /\ n.id = vqDesktop.id + 1
                      /\ n.kind \in {"capture", "ask", "record"}
                      /\ n.kind = "capture" => vqDesktop'.cleared = vqDesktop.cleared
                      /\ n.kind = "ask" => n.data # << >> /\ n.data[1] = vqDesktop'.image
            Good(s) == /\ s.kind # "answer" => s.mode = "desktop" /\ s.id <= vqDesktop'.id
                       /\ s.kind = "answer" => s.mode = "vr"
                       /\ s.kind = "capture" /\ s.id = vqDesktop'.id =>
                            vqDesktop'.cleared < s.id
                       /\ s.kind = "ask" =>
                            /\ s.data # << >>
                            /\ s.id = vqDesktop'.id => s.data[1] = vqDesktop'.image
<1>1. \A s \in vqTasks' : New(s) \/ \E t \in vqTasks : LikeTask(s, t)
  OBVIOUS
<1>2. Vision!ContentIsCurrent'
  BY <1>0 DEF ContentInv, Vision!ContentIsCurrent, GoodPanel
<1>3. vqDesktop'.cleared <= vqDesktop'.id /\ vqDesktop.cleared <= vqDesktop.id
  BY <1>0 DEF ContentInv
<1>4. ASSUME NEW s, NEW t \in vqTasks, LikeTask(s, t)
      PROVE  Good(s) /\ (s.kind # "answer" => s.id \in Nat /\ s.id <= vqDesktop.id)
  BY <1>0, <1>4 DEF ContentInv, LikeTask
<1>5. \A s : New(s) => Good(s)
  BY <1>0, <1>3
<1>6. ASSUME NEW s \in vqTasks', NEW r \in vqTasks', s.kind = "capture",
             r.kind = "ask"
      PROVE  s.id # r.id
  <2>1. CASE New(s) /\ New(r)
    BY <1>6, <2>1
  <2>2. CASE New(s) /\ \E t \in vqTasks : LikeTask(r, t)
    <3>1. r.id \in Nat /\ r.id <= vqDesktop.id
      BY <1>4, <1>6, <2>2
    <3>. QED BY <1>0, <2>2, <3>1
  <2>3. CASE New(r) /\ \E t \in vqTasks : LikeTask(s, t)
    <3>1. s.id \in Nat /\ s.id <= vqDesktop.id
      BY <1>4, <1>6, <2>3
    <3>. QED BY <1>0, <2>3, <3>1
  <2>4. ASSUME NEW t \in vqTasks, LikeTask(s, t), NEW u \in vqTasks, LikeTask(r, u)
        PROVE  s.id # r.id
    BY <1>6, <2>4 DEF ContentInv, LikeTask
  <2>. QED BY <1>1, <2>1, <2>2, <2>3, <2>4
<1>7. \A s \in vqTasks' : Good(s)
  BY <1>1, <1>4, <1>5
<1>. QED BY <1>2, <1>3, <1>6, <1>7 DEF ContentInv

LEMMA VisionDesktopKept ==
  ASSUME VisionTypes, ContentInv, Vision!Desktop
  PROVE  VisionTypes' /\ ContentInv'
<1>0. /\ vqDesktop \in DesktopState /\ vqDesktop.id \in Nat /\ vqSettings \in Nat
      /\ vqEnabled \in BOOLEAN
      /\ vqDesktop.image \in Nat \cup {None} /\ GoodPanel(vqVr)
      /\ vqTasks \subseteq TaskState /\ vqUpdates \in Seq(UpdateState)
      /\ vqDesktop.recording \in Nat \cup {None}
  BY DEF VisionTypes, ContentInv, Vision!ContentIsCurrent, GoodPanel, DesktopState
<1>1. /\ vqVr' = vqVr /\ vqUpdates' = vqUpdates /\ vqSettings' = vqSettings
      /\ vqEnabled' = vqEnabled
  BY DEF Vision!Desktop, Vision!CaptureStart, Vision!CaptureRefused,
      Vision!CancelDesktop, Vision!CloseDesktop, Vision!StopDesktop,
      Vision!StartDesktop, Vision!Configure, Vision!Ask, Vision!StartRecording,
      Vision!FinishRecording, Vision!service
<1>. DEFINE Types == vqDesktop' \in DesktopState /\ vqTasks' \subseteq TaskState
            Same == /\ vqDesktop'.id = vqDesktop.id
                    /\ vqDesktop'.cleared = vqDesktop.cleared
                    /\ vqDesktop'.image = vqDesktop.image
                    /\ vqDesktop'.answer = vqDesktop.answer
                    /\ vqTasks' = vqTasks
            Renewed(d) == /\ d.id = vqDesktop.id + 1
                          /\ d.cleared \in {vqDesktop.cleared, vqDesktop.id + 1}
                          /\ d.image \in {vqDesktop.image, None}
                          /\ d.cleared # vqDesktop.cleared => d.image = None
                          /\ \/ d.answer = None
                             \/ /\ d.answer = vqDesktop.answer
                                /\ d.image = vqDesktop.image
<1>2. Types => VisionTypes'
  BY <1>0, <1>1 DEF VisionTypes, GoodPanel
<1>3. Same => ContentInv'
  <2>1. Same => \A s \in vqTasks' : \E t \in vqTasks : LikeTask(s, t)
    BY DEF LikeTask
  <2>. QED BY <1>0, <1>1, <2>1, VisionStays
<1>4. Renewed(vqDesktop') /\ vqTasks' = vqTasks => ContentInv'
  <2>1. vqTasks' = vqTasks => \A s \in vqTasks' : \E t \in vqTasks : LikeTask(s, t)
    BY DEF LikeTask
  <2>. QED BY <1>0, <1>1, <2>1, VisionRenews
<1>5. ASSUME NEW kind \in {"capture", "ask", "record"}, NEW data,
             Renewed(vqDesktop'), vqDesktop'.cleared = vqDesktop.cleared,
             vqTasks' = vqTasks \cup
               {Vision!Task("desktop", kind, vqDesktop.id + 1, data)},
             kind = "ask" => data = <<vqDesktop'.image>>
      PROVE  ContentInv'
  <2>. DEFINE n == Vision!Task("desktop", kind, vqDesktop.id + 1, data)
  <2>1. /\ n.mode = "desktop" /\ n.id = vqDesktop.id + 1 /\ n.kind = kind
        /\ n.data = data
    BY DEF Vision!Task
  <2>2. \A s \in vqTasks' : s = n \/ \E t \in vqTasks : LikeTask(s, t)
    BY <1>5 DEF LikeTask
  <2>3. kind = "ask" => n.data # << >> /\ n.data[1] = vqDesktop'.image
    BY <1>5, <2>1
  <2>. HIDE DEF n
  <2>. QED BY <1>0, <1>1, <1>5, <2>1, <2>2, <2>3, VisionRenews
<1>15. ASSUME NEW kind \in {"capture", "ask", "record"}
       PROVE  /\ vqTasks \cup {Vision!Task("desktop", kind, vqDesktop.id + 1, << >>)}
                   \subseteq TaskState
              /\ vqTasks \cup {Vision!Task("desktop", kind, vqDesktop.id + 1,
                                           <<vqDesktop.image>>)}
                   \subseteq TaskState
  <2>1. vqDesktop.id + 1 \in Nat /\ "desktop" \in {"desktop", "vr"}
        /\ kind \in {"capture", "ask", "record", "finalize", "answer"}
    BY <1>0
  <2>2. /\ Vision!Task("desktop", kind, vqDesktop.id + 1, << >>) \in TaskState
        /\ Vision!Task("desktop", kind, vqDesktop.id + 1, <<vqDesktop.image>>)
             \in TaskState
    BY <1>0, <2>1, VisionParts
  <2>. QED BY <1>0, <2>2
<1>. DEFINE c == Vision!Cancelled(vqDesktop)
<1>6. c \in DesktopState /\ Renewed(c) /\ c.cleared = vqDesktop.cleared
      /\ c.image = vqDesktop.image
  BY <1>0, VisionDesktops
<1>. HIDE DEF c
<1>7. CASE Vision!CaptureStart
  <2>1. vqDesktop' = [c EXCEPT !.state = "capturing"]
    BY <1>7 DEF Vision!CaptureStart, c
  <2>2. vqDesktop' \in DesktopState /\ Renewed(vqDesktop')
        /\ vqDesktop'.cleared = vqDesktop.cleared
    BY <1>6, <2>1 DEF DesktopState
  <2>3. vqTasks' = vqTasks \cup
          {Vision!Task("desktop", "capture", vqDesktop.id + 1, << >>)}
    BY <1>7 DEF Vision!CaptureStart
  <2>4. vqTasks' \subseteq TaskState
    BY <1>15, <2>3
  <2>. QED BY <1>2, <1>5, <2>2, <2>3, <2>4
<1>8. CASE Vision!CaptureRefused \/ Vision!StartDesktop
  <2>1. vqTasks' = vqTasks /\ \/ vqDesktop' = [vqDesktop EXCEPT !.state = "error"]
                              \/ vqDesktop' = [vqDesktop EXCEPT !.service = TRUE]
    BY <1>8 DEF Vision!CaptureRefused, Vision!StartDesktop
  <2>2. Types /\ Same
    BY <1>0, <2>1 DEF DesktopState
  <2>. QED BY <1>2, <1>3, <2>2
<1>9. CASE Vision!CancelDesktop
  <2>1. vqDesktop' = c /\ vqTasks' = vqTasks
    BY <1>9 DEF Vision!CancelDesktop, c
  <2>. QED BY <1>0, <1>2, <1>4, <1>6, <2>1
<1>10. CASE Vision!CloseDesktop \/ Vision!StopDesktop
  <2>1. PICK d \in DesktopState :
          /\ d.id = vqDesktop.id /\ vqDesktop' = Vision!Cleared(d)
          /\ vqTasks' = vqTasks
    <3>1. [vqDesktop EXCEPT !.service = FALSE, !.available = FALSE] \in DesktopState
          /\ [vqDesktop EXCEPT !.service = FALSE, !.available = FALSE].id = vqDesktop.id
      BY <1>0 DEF DesktopState
    <3>. QED BY <1>0, <1>10, <3>1 DEF Vision!CloseDesktop, Vision!StopDesktop
  <2>2. vqDesktop' \in DesktopState /\ Renewed(vqDesktop')
    BY <2>1, VisionDesktops
  <2>. QED BY <1>0, <1>2, <1>4, <2>1, <2>2
<1>11. CASE Vision!Configure
  <2>. DEFINE d == [vqDesktop EXCEPT !.available = vqEnabled]
  <2>1. /\ vqTasks' = vqTasks
        /\ IF d.available
           THEN vqDesktop' = IF d.state = "disabled" THEN [d EXCEPT !.state = "idle"] ELSE d
           ELSE vqDesktop' = Vision!Cleared(d)
    BY <1>11 DEF Vision!Configure
  <2>2. /\ d \in DesktopState /\ d.id = vqDesktop.id
        /\ d.cleared = vqDesktop.cleared /\ d.image = vqDesktop.image
        /\ d.answer = vqDesktop.answer
    BY <1>0 DEF DesktopState
  <2>. HIDE DEF d
  <2>3. CASE d.available
    <3>1. Types /\ Same
      BY <1>0, <2>1, <2>2, <2>3 DEF DesktopState
    <3>. QED BY <1>2, <1>3, <3>1
  <2>4. CASE ~d.available
    <3>1. vqDesktop' = Vision!Cleared(d)
      BY <2>1, <2>4
    <3>2. vqDesktop' \in DesktopState /\ Renewed(vqDesktop')
      BY <2>2, <3>1, VisionDesktops
    <3>. QED BY <1>0, <1>2, <1>4, <2>1, <3>2
  <2>. QED BY <2>3, <2>4
<1>12. CASE Vision!Ask
  <2>1. /\ vqDesktop' = [c EXCEPT !.state = "requesting", !.answer = None]
        /\ vqTasks' = vqTasks \cup
             {Vision!Task("desktop", "ask", vqDesktop.id + 1, <<vqDesktop.image>>)}
    BY <1>12 DEF Vision!Ask, c
  <2>2. /\ vqDesktop' \in DesktopState /\ Renewed(vqDesktop')
        /\ vqDesktop'.cleared = vqDesktop.cleared
        /\ vqDesktop'.image = vqDesktop.image
    BY <1>6, <2>1 DEF DesktopState
  <2>3. vqTasks' \subseteq TaskState
    BY <1>15, <2>1
  <2>. QED BY <1>2, <1>5, <2>1, <2>2, <2>3
<1>13. CASE Vision!StartRecording
  <2>1. CASE /\ vqDesktop' = [c EXCEPT !.state = "recording", !.recording = vqSettings]
             /\ vqTasks' = vqTasks \cup
                  {Vision!Task("desktop", "record", vqDesktop.id + 1, << >>)}
    <3>2. /\ vqDesktop' \in DesktopState /\ Renewed(vqDesktop')
          /\ vqDesktop'.cleared = vqDesktop.cleared
      BY <1>0, <1>6, <2>1 DEF DesktopState
    <3>3. vqTasks' \subseteq TaskState
      BY <1>15, <2>1
    <3>. QED BY <1>2, <1>5, <2>1, <3>2, <3>3
  <2>2. CASE vqDesktop' = [vqDesktop EXCEPT !.state = "error"] /\ vqTasks' = vqTasks
    <3>1. Types /\ Same
      BY <1>0, <2>2 DEF DesktopState
    <3>. QED BY <1>2, <1>3, <3>1
  <2>. QED BY <1>13, <2>1, <2>2 DEF Vision!StartRecording, c
<1>14. CASE Vision!FinishRecording
  <2>. DEFINE n == Vision!Task("desktop", "finalize", vqDesktop.id,
                               <<vqDesktop.recording>>)
  <2>1. /\ vqDesktop' = [vqDesktop EXCEPT !.state = "finalizing_asr", !.recording = None]
        /\ vqTasks' = vqTasks \cup {n}
    BY <1>14 DEF Vision!FinishRecording
  <2>2. /\ n \in TaskState /\ n.kind = "finalize" /\ n.mode = "desktop"
        /\ n.id = vqDesktop.id
    BY <1>0, VisionParts DEF Vision!Task
  <2>. HIDE DEF n
  <2>3. /\ vqDesktop' \in DesktopState
        /\ vqDesktop'.id = vqDesktop.id /\ vqDesktop'.cleared = vqDesktop.cleared
        /\ vqDesktop'.image = vqDesktop.image /\ vqDesktop'.answer = vqDesktop.answer
    BY <1>0, <2>1 DEF DesktopState
  <2>4. vqTasks' \subseteq TaskState
    BY <1>0, <2>1, <2>2
  <2>5. \A s \in vqTasks' :
          (\E t \in vqTasks : LikeTask(s, t))
            \/ (s.kind = "finalize" /\ s.mode = "desktop" /\ s.id = vqDesktop.id)
    BY <2>1, <2>2 DEF LikeTask
  <2>6. ContentInv'
    BY <1>0, <1>1, <2>3, <2>5, VisionStays
  <2>. QED BY <1>2, <2>3, <2>4, <2>6
<1>. QED BY <1>7, <1>8, <1>9, <1>10, <1>11, <1>12, <1>13, <1>14
         DEF Vision!Desktop

LEMMA VisionHeadsetKept ==
  ASSUME VisionTypes, ContentInv, Vision!Headset
  PROVE  VisionTypes' /\ ContentInv'
<1>0. /\ vqVr \in PanelState /\ vqVr.id \in Nat /\ vqSettings \in Nat
      /\ vqVr.settings \in Nat \cup {None} /\ GoodPanel(vqVr)
      /\ vqTasks \subseteq TaskState /\ vqUpdates \in Seq(UpdateState)
  BY DEF VisionTypes, ContentInv, Vision!ContentIsCurrent, GoodPanel, PanelState
<1>1. /\ vqDesktop' = vqDesktop /\ vqSettings' = vqSettings /\ vqEnabled' = vqEnabled
      /\ vqUpdates' \in {vqUpdates, << >>}
  BY DEF Vision!Headset, Vision!VrBegin, Vision!VrRelease, Vision!VrLost,
         Vision!VrClose, Vision!VrTick, Vision!service
<1>. DEFINE Good == /\ GoodPanel(vqVr') /\ vqTasks' \subseteq TaskState
                    /\ \A s \in vqTasks' : (\E t \in vqTasks : LikeTask(s, t))
                                            \/ (s.kind = "answer" /\ s.mode = "vr")
<1>7. ASSUME Good PROVE VisionTypes' /\ ContentInv'
  <2>1. VisionTypes'
    <3>1. vqUpdates' \in Seq(UpdateState)
      <4>1. << >> \in Seq(UpdateState)
        OBVIOUS
      <4>. QED BY <1>0, <1>1, <4>1
    <3>2. vqVr' \in PanelState
      BY <1>7 DEF GoodPanel
    <3>. QED BY <1>1, <1>7, <3>1, <3>2 DEF VisionTypes
  <2>2. ContentInv'
    BY <1>1, <1>7, VisionStays
  <2>. QED BY <2>1, <2>2
<1>. SUFFICES Good
  BY <1>7
<1>2. vqTasks' = vqTasks =>
        /\ vqTasks' \subseteq TaskState
        /\ \A s \in vqTasks' : \E t \in vqTasks : LikeTask(s, t)
  BY <1>0, VisionParts DEF Carried
<1>3. CASE Vision!VrBegin
  <2>. DEFINE v == [Vision!Hidden(vqVr) EXCEPT !.settings = vqSettings]
  <2>1. /\ vqTasks' = vqTasks
        /\ \/ vqVr' = [v EXCEPT !.session = TRUE, !.view = "listening"]
           \/ vqVr' = Vision!Failed(v)
    BY <1>3 DEF Vision!VrBegin
  <2>2. v \in PanelState /\ v.view = "none"
    <3>1. Vision!Hidden(vqVr) \in PanelState /\ Vision!Hidden(vqVr).view = "none"
      BY <1>0 DEF PanelState, Vision!Hidden
    <3>. QED BY <1>0, <3>1 DEF PanelState
  <2>. HIDE DEF v
  <2>3. GoodPanel(v)
    BY <2>2 DEF GoodPanel
  <2>4. GoodPanel([v EXCEPT !.session = TRUE, !.view = "listening"])
    BY <2>2 DEF GoodPanel, PanelState
  <2>. QED BY <1>2, <2>1, <2>3, <2>4, VisionPanels
<1>4. CASE Vision!VrRelease
  <2>. DEFINE n == Vision!Task("vr", "answer", vqVr.id, <<vqVr.settings>>)
  <2>1. /\ vqVr' = [vqVr EXCEPT !.session = FALSE, !.task = TRUE, !.view = "finalizing"]
        /\ vqTasks' = vqTasks \cup {n}
    BY <1>4 DEF Vision!VrRelease
  <2>2. n \in TaskState /\ n.kind = "answer" /\ n.mode = "vr"
    BY <1>0, VisionParts DEF Vision!Task
  <2>. HIDE DEF n
  <2>3. GoodPanel(vqVr')
    BY <1>0, <2>1 DEF GoodPanel, PanelState
  <2>. QED BY <1>0, <2>1, <2>2, <2>3 DEF LikeTask
<1>5. CASE Vision!VrLost \/ Vision!VrClose
  BY <1>0, <1>2, <1>5, VisionPanels DEF Vision!VrLost, Vision!VrClose
<1>6. ASSUME NEW timeout \in BOOLEAN, Vision!VrTick(timeout)
      PROVE  GoodPanel(vqVr') /\ vqTasks' = vqTasks
  BY <1>0, <1>6, VisionTicked DEF Vision!VrTick
<1>. QED BY <1>2, <1>3, <1>4, <1>5, <1>6 DEF Vision!Headset

LEMMA VisionWorkKept ==
  ASSUME VisionTypes, ContentInv, NEW t \in vqTasks,
         Vision!Work(t) \/ Vision!Selected(t)
  PROVE  VisionTypes' /\ ContentInv'
<1>0. /\ vqDesktop \in DesktopState /\ vqDesktop.id \in Nat /\ vqSettings \in Nat
      /\ t \in TaskState /\ t.id \in Nat
      /\ GoodPanel(vqVr) /\ vqTasks \subseteq TaskState
      /\ vqUpdates \in Seq(UpdateState)
  BY DEF VisionTypes, ContentInv, Vision!ContentIsCurrent, GoodPanel, TaskState,
         DesktopState
<1>1. /\ vqVr' = vqVr /\ vqSettings' = vqSettings /\ vqEnabled' = vqEnabled
      /\ \/ vqUpdates' = vqUpdates
         \/ \E kind \in {"requesting", "answer", "error"} : Vision!Send(t, kind)
  BY DEF Vision!Work, Vision!Selected, Vision!ScreenTaken, Vision!CaptureEnds,
      Vision!AskStarts, Vision!AskEnds, Vision!RecordEnds, Vision!FinalizeEnds,
      Vision!AnswerFinalized, Vision!AnswerEnds, Vision!DropTask, Vision!service
<1>2. vqUpdates' \in Seq(UpdateState)
  BY <1>0, <1>1, VisionParts
<1>3. vqTasks' \subseteq TaskState /\ Carried
  <2>1. CASE Vision!AskStarts(t)
    <3>. DEFINE n == [t EXCEPT !.stage = "request", !.data = Append(t.data, vqSettings)]
    <3>1. vqTasks' = (vqTasks \ {t}) \cup {n}
      BY <2>1 DEF Vision!AskStarts
    <3>2. t.data \in Seq(Nat \cup {None})
      BY <1>0 DEF TaskState
    <3>3. /\ Append(t.data, vqSettings) \in Seq(Nat \cup {None})
          /\ t.data # << >> => /\ Append(t.data, vqSettings) # << >>
                               /\ Append(t.data, vqSettings)[1] = t.data[1]
      BY <1>0, <3>2
    <3>4. n \in TaskState /\ LikeTask(n, t)
      BY <1>0, <3>3 DEF TaskState, LikeTask
    <3>. HIDE DEF n
    <3>5. \A s \in vqTasks : LikeTask(s, s)
      BY DEF LikeTask
    <3>. QED BY <1>0, <3>1, <3>4, <3>5 DEF Carried
  <2>2. CASE ~Vision!AskStarts(t)
    <3>1. \/ \E stage \in {"select", "image", "nothing", "error", "request"} :
               Vision!At(t, stage)
          \/ Vision!Ends(t)
      BY <2>2 DEF Vision!Work, Vision!Selected, Vision!ScreenTaken,
         Vision!CaptureEnds, Vision!AskEnds, Vision!RecordEnds,
         Vision!FinalizeEnds, Vision!AnswerFinalized, Vision!AnswerEnds,
         Vision!DropTask
    <3>. QED BY <3>1, VisionParts
  <2>. QED BY <2>1, <2>2
<1>. DEFINE Same(d) == /\ d \in DesktopState
                       /\ d.id = vqDesktop.id /\ d.cleared = vqDesktop.cleared
                       /\ d.image = vqDesktop.image
                       /\ d.answer \in {vqDesktop.answer, vqDesktop.image}
<1>4. Same(vqDesktop') => VisionTypes' /\ ContentInv'
  <2>1. vqDesktop' \in DesktopState => VisionTypes'
    BY <1>0, <1>1, <1>2, <1>3 DEF VisionTypes, GoodPanel
  <2>2. Same(vqDesktop') => ContentInv'
    BY <1>0, <1>1, <1>3, VisionStays DEF Carried
  <2>. QED BY <2>1, <2>2
<1>5. Same(vqDesktop) /\ \A state \in {"selecting", "error", "editing", "idle"} :
                           Same([vqDesktop EXCEPT !.state = state])
  BY <1>0 DEF DesktopState
<1>6. CASE Vision!ScreenTaken(t)
  BY <1>4, <1>5, <1>6 DEF Vision!ScreenTaken, Vision!Update
<1>7. CASE Vision!CaptureEnds(t)
  <2>1. CASE t.stage # "image" \/ ~Vision!Current(t)
    <3>1. Same(vqDesktop')
      BY <1>5, <1>7, <2>1 DEF Vision!CaptureEnds, Vision!Update
    <3>. QED BY <1>4, <3>1
  <2>2. CASE t.stage = "image" /\ Vision!Current(t)
    <3>1. vqDesktop' = [vqDesktop EXCEPT !.image = t.id, !.answer = None,
                                         !.state = "editing"]
          /\ vqTasks' = vqTasks \ {t} /\ t.kind = "capture"
      BY <1>7, <2>2 DEF Vision!CaptureEnds, Vision!Update, Vision!Ends
    <3>2. /\ vqDesktop' \in DesktopState
          /\ vqDesktop'.id = vqDesktop.id /\ vqDesktop'.cleared = vqDesktop.cleared
          /\ vqDesktop'.image = t.id /\ vqDesktop'.answer = None
      BY <1>0, <3>1 DEF DesktopState
    <3>3. t.id = vqDesktop.id /\ vqDesktop.cleared < t.id
          /\ \A s \in vqTasks : s.kind = "ask" => s.id # t.id
      BY <2>2, <3>1 DEF Vision!Current, ContentInv
    <3>4. VisionTypes'
      BY <1>0, <1>1, <1>2, <1>3, <3>2 DEF VisionTypes, GoodPanel
    <3>5. Vision!ContentIsCurrent'
      BY <1>0, <1>1, <3>2, <3>3 DEF Vision!ContentIsCurrent, GoodPanel
    <3>6. ContentInv'
      BY <3>1, <3>2, <3>3, <3>5 DEF ContentInv
    <3>. QED BY <3>4, <3>6
  <2>. QED BY <2>1, <2>2
<1>8. CASE Vision!AskEnds(t)
  <2>1. CASE vqDesktop' = vqDesktop
    BY <1>4, <1>5, <2>1
  <2>2. CASE vqDesktop' = [vqDesktop EXCEPT !.state = "error"]
    BY <1>4, <1>5, <2>2
  <2>3. CASE /\ Vision!Current(t)
             /\ vqDesktop' = [vqDesktop EXCEPT !.answer = t.data[1],
                                               !.state = "complete"]
    <3>1. t.kind = "ask" /\ t.mode = "desktop"
      BY <1>8 DEF Vision!AskEnds, ContentInv
    <3>2. t.data[1] = vqDesktop.image
      BY <2>3, <3>1 DEF Vision!Current, ContentInv
    <3>3. Same(vqDesktop')
      BY <1>0, <2>3, <3>2 DEF DesktopState
    <3>. QED BY <1>4, <3>3
  <2>. QED BY <1>8, <2>1, <2>2, <2>3 DEF Vision!AskEnds, Vision!Update
<1>9. CASE Vision!RecordEnds(t)
  <2>1. vqDesktop' = vqDesktop
          \/ vqDesktop' = [vqDesktop EXCEPT !.recording = None, !.state = "error"]
    BY <1>9 DEF Vision!RecordEnds
  <2>2. Same([vqDesktop EXCEPT !.recording = None, !.state = "error"])
    BY <1>0 DEF DesktopState
  <2>. QED BY <1>4, <1>5, <2>1, <2>2
<1>10. CASE Vision!FinalizeEnds(t)
  BY <1>4, <1>5, <1>10 DEF Vision!FinalizeEnds, Vision!Update
<1>11. CASE vqDesktop' = vqDesktop
  BY <1>4, <1>5, <1>11
<1>. QED BY <1>6, <1>7, <1>8, <1>9, <1>10, <1>11
         DEF Vision!Work, Vision!Selected, Vision!AskStarts,
             Vision!AnswerFinalized, Vision!AnswerEnds, Vision!DropTask

VisionInv == VisionTypes /\ MicrophoneInv /\ ContentInv

LEMMA VisionStart ==
  ASSUME Vision!QuestionInit
  PROVE  VisionInv
<1>1. VisionTypes
  BY DEF Vision!QuestionInit, VisionTypes, DesktopState, PanelState
<1>2. MicrophoneInv
  BY DEF Vision!QuestionInit, MicrophoneInv
<1>3. ContentInv
  BY DEF Vision!QuestionInit, ContentInv, Vision!ContentIsCurrent
<1>. QED BY <1>1, <1>2, <1>3 DEF VisionInv

LEMMA VisionStep ==
  ASSUME VisionInv, Vision!QuestionNext \/ UNCHANGED questions
  PROVE  VisionInv'
<1>1. CASE Vision!Around
  <2>1. /\ vqDesktop' = vqDesktop /\ vqTasks' = vqTasks /\ vqVr' = vqVr
        /\ vqUpdates' = vqUpdates
        /\ vqSettings' \in {vqSettings, vqSettings + 1}
        /\ vqEnabled' \in {vqEnabled} \cup BOOLEAN
    BY <1>1 DEF Vision!Around, Vision!Recognize, Vision!CloseDevice,
                Vision!ChangeSettings, Vision!service
  <2>2. VisionTypes'
    BY <2>1 DEF VisionInv, VisionTypes
  <2>3. ContentInv'
    BY <2>1 DEF VisionInv, ContentInv, Vision!ContentIsCurrent
  <2>4. MicrophoneInv'
    BY <1>1, VisionMicrophoneKept DEF VisionInv, Vision!QuestionNext
  <2>. QED BY <2>2, <2>3, <2>4 DEF VisionInv
<1>2. CASE Vision!QuestionNext /\ ~Vision!Around
  BY <1>2, VisionMicrophoneKept, VisionDesktopKept, VisionHeadsetKept,
     VisionWorkKept DEF VisionInv, Vision!QuestionNext
<1>3. CASE UNCHANGED questions
  BY <1>3 DEF questions, VisionInv, VisionTypes, MicrophoneInv, ContentInv,
     Vision!ContentIsCurrent
<1>. QED BY <1>1, <1>2, <1>3

\* At most one question owns the microphone.
LEMMA VisionOneMicrophone ==
  ASSUME MicrophoneInv
  PROVE  Vision!OneMicrophone
<1>. DEFINE Q == vqHolding \cup vqDevices
<1>0. Vision!Cardinality(Q) = Cardinality(Q)
  BY DEF Vision!Cardinality, Cardinality
<1>1. CASE Q = {}
  BY <1>0, <1>1, FS_EmptySet DEF Vision!OneMicrophone
<1>2. ASSUME NEW q \in Q
      PROVE  Vision!OneMicrophone
  <2>1. Q = {q}
    BY DEF MicrophoneInv
  <2>. QED BY <1>0, <2>1, FS_Singleton DEF Vision!OneMicrophone
<1>. QED BY <1>1, <1>2

-----------------------------------------------------------------------------
(* QwenRuntime                                                             *)

UserAt == {"idle", "waiting", "starting", "ready", "asking", "restarting", "sent",
           "answered", "accepted", "failed"}
ConnectionState == [session : Nat, generation : Nat]
UserState == [at : UserAt, conn : ConnectionState \cup {None}]
WaitState == [user : Users, want : Models \cup {None}]

RuntimeTypes ==
  /\ runSelection \in Models \cup {None}
  /\ runSession \in Nat /\ runGeneration \in Nat
  /\ runStatus \in {"not_loaded", "loading", "ready", "error"}
  /\ runChild \in [session : Nat, up : BOOLEAN] \cup {None}
  /\ runConnection \in ConnectionState \cup {None}
  /\ runStartup \in Users \cup {None}
  /\ runWaiting \in Seq(WaitState)
  /\ runLaunch \in [step : {"none", "spawn", "probe", "answered"}, session : Nat,
                    generation : Nat, device : {"cpu", "gpu"}]
  /\ runUser \in [Users -> UserState]

\* A user waits for the startup lock at most once, with a selection when it
\* starts and without one when it reconnects; a start is somebody's.
QueueInv ==
  /\ \A i \in 1..Len(runWaiting) :
       /\ runUser[runWaiting[i].user].at =
            IF runWaiting[i].want = None THEN "asking" ELSE "waiting"
       /\ \A j \in 1..Len(runWaiting) :
            runWaiting[i].user = runWaiting[j].user => i = j
  /\ runLaunch.step # "none" =>
       runStartup \in Users /\ runUser[runStartup].at \in {"starting", "restarting"}

(***************************************************************************)
(* Whatever carries the session of now, a process, a connection, a start   *)
(* or a user, does so because a selection is wanted.                       *)
(***************************************************************************)
OfSession(s) == s \in 0..runSession /\ (s = runSession => runSelection # None)

SessionInv ==
  /\ Qwen!StoppedStaysStopped
  /\ runLaunch.step # "none" => OfSession(runLaunch.session)
  /\ \A u \in Users :
       runUser[u].conn # None \/ runUser[u].at \in {"sent", "answered", "accepted"}
         => OfSession(runUser[u].conn.session)

\* What a user becomes.
LEMMA RuntimeUserAt ==
  ASSUME RuntimeTypes, NEW u \in Users, NEW at \in UserAt
  PROVE  /\ [runUser EXCEPT ![u].at = at] \in [Users -> UserState]
         /\ [runUser EXCEPT ![u].at = at][u].at = at
         /\ [runUser EXCEPT ![u].at = at][u].conn = runUser[u].conn
         /\ \A v \in Users \ {u} : [runUser EXCEPT ![u].at = at][v] = runUser[v]
<1>1. runUser \in [Users -> UserState] /\ runUser[u] \in UserState
  BY DEF RuntimeTypes
<1>2. /\ [runUser[u] EXCEPT !.at = at] \in UserState
      /\ [runUser[u] EXCEPT !.at = at].at = at
      /\ [runUser[u] EXCEPT !.at = at].conn = runUser[u].conn
  BY <1>1 DEF UserState
<1>. QED BY <1>1, <1>2

LEMMA RuntimeUserSet ==
  ASSUME RuntimeTypes, NEW u \in Users, NEW at \in UserAt,
         NEW conn \in ConnectionState \cup {None}
  PROVE  /\ [runUser EXCEPT ![u] = [at |-> at, conn |-> conn]] \in [Users -> UserState]
         /\ [runUser EXCEPT ![u] = [at |-> at, conn |-> conn]][u].at = at
         /\ [runUser EXCEPT ![u] = [at |-> at, conn |-> conn]][u].conn = conn
         /\ \A v \in Users \ {u} :
              [runUser EXCEPT ![u] = [at |-> at, conn |-> conn]][v] = runUser[v]
<1>1. runUser \in [Users -> UserState] /\ runUser[u] \in UserState
  BY DEF RuntimeTypes
<1>2. [at |-> at, conn |-> conn] \in UserState
  BY DEF UserState
<1>. QED BY <1>1, <1>2

\* The queue of the startup lock without its head, with one more, and without
\* a user.
LEMMA RuntimeWaiting ==
  ASSUME RuntimeTypes
  PROVE  /\ runWaiting # << >> =>
              /\ Head(runWaiting) = runWaiting[1] /\ Len(runWaiting) \in Nat \ {0}
              /\ Tail(runWaiting) \in Seq(WaitState)
              /\ Len(Tail(runWaiting)) = Len(runWaiting) - 1
              /\ \A i \in 1..Len(Tail(runWaiting)) :
                   Tail(runWaiting)[i] = runWaiting[i+1]
         /\ \A w \in WaitState :
              /\ Append(runWaiting, w) \in Seq(WaitState)
              /\ Len(Append(runWaiting, w)) = Len(runWaiting) + 1
              /\ \A i \in 1..Len(runWaiting) : Append(runWaiting, w)[i] = runWaiting[i]
              /\ Append(runWaiting, w)[Len(runWaiting)+1] = w
<1>1. runWaiting \in Seq(WaitState)
  BY DEF RuntimeTypes
<1>. QED BY <1>1

LEMMA RuntimeDropped ==
  ASSUME RuntimeTypes, QueueInv, NEW u \in Users, Qwen!DropWaiting(u)
  PROVE  /\ runWaiting' \in Seq(WaitState)
         /\ \E g \in [1..Len(runWaiting') -> 1..Len(runWaiting)] :
              \A j \in 1..Len(runWaiting') :
                /\ runWaiting'[j] = runWaiting[g[j]] /\ runWaiting'[j].user # u
                /\ \A k \in 1..Len(runWaiting') : j # k => g[j] # g[k]
<1>. DEFINE M == {w \in ToSet(runWaiting) : w.user # u}
<1>1. runWaiting \in Seq(WaitState)
  BY DEF RuntimeTypes
<1>2. runWaiting' = Keep(runWaiting, M)
  BY DEF Qwen!DropWaiting, Qwen!Keep, Keep, Qwen!Range, ToSet
<1>. HIDE DEF M
<1>3. /\ runWaiting' \in Seq(WaitState)
      /\ \E g : Embeds(g, runWaiting', runWaiting, Len(runWaiting), M)
  BY <1>1, <1>2, KeepProperties
<1>4. PICK g : Embeds(g, runWaiting', runWaiting, Len(runWaiting), M)
  BY <1>3
<1>5. \A j, k \in 1..Len(runWaiting') : j # k => g[j] # g[k]
  <2>1. Len(runWaiting') \in Nat /\ Len(runWaiting) \in Nat
    BY <1>1, <1>3
  <2>2. \A j, k \in 1..Len(runWaiting') : j < k => g[j] < g[k]
    BY <1>4 DEF Embeds
  <2>3. g \in [1..Len(runWaiting') -> 1..Len(runWaiting)]
    BY <1>4 DEF Embeds
  <2>. QED BY <2>1, <2>2, <2>3
<1>6. \A w \in M : w.user # u
  BY DEF M
<1>7. /\ g \in [1..Len(runWaiting') -> 1..Len(runWaiting)]
      /\ \A j \in 1..Len(runWaiting') :
           runWaiting'[j] = runWaiting[g[j]] /\ runWaiting'[j] \in M
  BY <1>4 DEF Embeds
<1>8. \A j \in 1..Len(runWaiting') :
        /\ runWaiting'[j] = runWaiting[g[j]] /\ runWaiting'[j].user # u
        /\ \A k \in 1..Len(runWaiting') : j # k => g[j] # g[k]
  BY <1>5, <1>6, <1>7
<1>. QED BY <1>3, <1>7, <1>8

\* The queue keeps some of its elements, none of them of u, and only u does
\* something else than wait.
LEMMA RuntimeQueueKept ==
  ASSUME RuntimeTypes, QueueInv, NEW u,
         NEW g \in [1..Len(runWaiting') -> 1..Len(runWaiting)],
         \A j \in 1..Len(runWaiting') :
           /\ runWaiting'[j] = runWaiting[g[j]] /\ runWaiting'[j].user # u
           /\ \A k \in 1..Len(runWaiting') : j # k => g[j] # g[k],
         \A v \in Users \ {u} : runUser'[v].at = runUser[v].at,
         runLaunch'.step # "none" =>
           /\ runStartup' \in Users
           /\ runUser'[runStartup'].at \in {"starting", "restarting"}
  PROVE  QueueInv'
<1>1. ASSUME NEW i \in 1..Len(runWaiting')
      PROVE  /\ runUser'[runWaiting'[i].user].at =
                  IF runWaiting'[i].want = None THEN "asking" ELSE "waiting"
             /\ \A j \in 1..Len(runWaiting') :
                  runWaiting'[i].user = runWaiting'[j].user => i = j
  <2>1. g[i] \in 1..Len(runWaiting) /\ runWaiting'[i] = runWaiting[g[i]]
    OBVIOUS
  <2>2. runWaiting[g[i]] \in WaitState
    BY <2>1 DEF RuntimeTypes
  <2>3. runWaiting[g[i]].user \in Users \ {u}
    BY <2>1, <2>2 DEF WaitState
  <2>4. runUser'[runWaiting'[i].user].at = runUser[runWaiting[g[i]].user].at
    BY <2>1, <2>3
  <2>5. ASSUME NEW j \in 1..Len(runWaiting'),
               runWaiting'[i].user = runWaiting'[j].user
        PROVE  i = j
    BY <2>1, <2>5 DEF QueueInv
  <2>. QED BY <2>1, <2>4, <2>5 DEF QueueInv
<1>. QED BY <1>1 DEF QueueInv

\* Nobody in the queue does anything but wait.
LEMMA RuntimeQueueStays ==
  ASSUME RuntimeTypes, QueueInv, NEW u, runWaiting' = runWaiting,
         u \in Users => runUser[u].at \notin {"waiting", "asking"},
         \A v \in Users \ {u} : runUser'[v].at = runUser[v].at,
         runLaunch'.step # "none" =>
           /\ runStartup' \in Users
           /\ runUser'[runStartup'].at \in {"starting", "restarting"}
  PROVE  QueueInv'
<1>. DEFINE g == [j \in 1..Len(runWaiting') |-> j]
<1>1. ASSUME NEW j \in 1..Len(runWaiting)
      PROVE  runWaiting[j].user # u
  <2>1. runWaiting[j] \in WaitState
    BY DEF RuntimeTypes
  <2>2. runWaiting[j].user \in Users
        /\ runUser[runWaiting[j].user].at \in {"waiting", "asking"}
    BY <2>1 DEF WaitState, QueueInv
  <2>. QED BY <2>2
<1>2. /\ g \in [1..Len(runWaiting') -> 1..Len(runWaiting)]
      /\ \A j \in 1..Len(runWaiting') : g[j] = j
  OBVIOUS
<1>. HIDE DEF g
<1>3. ASSUME NEW j \in 1..Len(runWaiting')
      PROVE  /\ runWaiting'[j] = runWaiting[g[j]] /\ runWaiting'[j].user # u
             /\ \A k \in 1..Len(runWaiting') : j # k => g[j] # g[k]
  BY <1>1, <1>2
<1>4. QueueInv'
  BY <1>2, <1>3, RuntimeQueueKept
<1>. QED BY <1>4

\* The first of the queue gets its turn.
LEMMA RuntimeTurn ==
  ASSUME RuntimeTypes, QueueInv, NEW u \in Users, Qwen!Turn(u),
         \A v \in Users \ {u} : runUser'[v].at = runUser[v].at,
         runLaunch'.step # "none" =>
           /\ runStartup' \in Users
           /\ runUser'[runStartup'].at \in {"starting", "restarting"}
  PROVE  /\ QueueInv' /\ runWaiting' \in Seq(WaitState)
         /\ runUser[u].at = "waiting" => Head(runWaiting).want \in Models
<1>. DEFINE g == [j \in 1..Len(runWaiting') |-> j+1]
<1>1. /\ runWaiting # << >> /\ runWaiting' = Tail(runWaiting)
      /\ Head(runWaiting).user = u /\ Head(runWaiting) = runWaiting[1]
      /\ Len(runWaiting) \in Nat \ {0} /\ runWaiting' \in Seq(WaitState)
      /\ Len(runWaiting') = Len(runWaiting) - 1
      /\ \A i \in 1..Len(runWaiting') : runWaiting'[i] = runWaiting[i+1]
  BY RuntimeWaiting DEF Qwen!Turn
<1>2. \A i \in 1..Len(runWaiting') : i+1 \in 1..Len(runWaiting) /\ i+1 # 1
  BY <1>1
<1>3. /\ g \in [1..Len(runWaiting') -> 1..Len(runWaiting)]
      /\ \A j \in 1..Len(runWaiting') : g[j] = j+1
  BY <1>2
<1>. HIDE DEF g
<1>4. ASSUME NEW j \in 1..Len(runWaiting')
      PROVE  /\ runWaiting'[j] = runWaiting[g[j]] /\ runWaiting'[j].user # u
             /\ \A k \in 1..Len(runWaiting') : j # k => g[j] # g[k]
  <2>1. runWaiting[j+1].user # runWaiting[1].user
    <3>1. 1 \in 1..Len(runWaiting)
      BY <1>1
    <3>. QED BY <1>2, <3>1 DEF QueueInv
  <2>. QED BY <1>1, <1>3, <2>1
<1>5. QueueInv'
  BY <1>3, <1>4, RuntimeQueueKept
<1>6. runUser[u].at = "waiting" => Head(runWaiting).want \in Models
  <2>1. 1 \in 1..Len(runWaiting) /\ runWaiting[1] \in WaitState
    BY <1>1 DEF RuntimeTypes
  <2>. QED BY <1>1, <2>1 DEF QueueInv, WaitState
<1>. QED BY <1>1, <1>5, <1>6

RuntimeInv == RuntimeTypes /\ QueueInv /\ SessionInv

\* check_child leaves a state of the process.
LEMMA RuntimeChecked ==
  ASSUME RuntimeTypes, SessionInv
  PROVE  /\ Qwen!Check =>
              /\ runChild' \in [session : Nat, up : BOOLEAN] \cup {None}
              /\ runChild' \in {runChild, None}
              /\ runConnection' \in ConnectionState \cup {None}
              /\ runConnection' \in {runConnection, None}
              /\ runStatus' \in {runStatus, "error"}
         /\ Qwen!Checked.connection # None =>
              /\ Qwen!Checked.connection = runConnection
              /\ OfSession(runConnection.session) /\ runConnection \in ConnectionState
         /\ Qwen!Checked.child \in {runChild, None}
<1>1. /\ Qwen!Checked.child \in {runChild, None}
      /\ Qwen!Checked.connection \in {runConnection, None}
      /\ Qwen!Checked.status \in {runStatus, "error"}
  BY DEF Qwen!Checked
<1>2. runConnection # None =>
        OfSession(runConnection.session) /\ runConnection \in ConnectionState
  BY DEF RuntimeTypes, SessionInv, Qwen!StoppedStaysStopped, OfSession
<1>. QED BY <1>1, <1>2 DEF Qwen!Check, RuntimeTypes

\* The process ends, is looked at, or is stopped.
LEMMA RuntimeStops ==
  ASSUME RuntimeInv, Qwen!Exit \/ Qwen!Look \/ Qwen!StopSession
  PROVE  RuntimeInv'
<1>. USE DEF RuntimeInv
<1>0. /\ runGeneration' = runGeneration /\ runStartup' = runStartup
      /\ runWaiting' = runWaiting /\ runLaunch' = runLaunch /\ runUser' = runUser
  BY DEF Qwen!Exit, Qwen!Look, Qwen!StopSession
<1>1. QueueInv'
  BY <1>0 DEF QueueInv
<1>2. CASE Qwen!Exit
  <2>1. /\ runSelection' = runSelection /\ runStatus' = runStatus
        /\ runSession' = runSession /\ runConnection' = runConnection
        /\ runChild # None /\ runChild' = [runChild EXCEPT !.up = FALSE]
    BY <1>2 DEF Qwen!Exit
  <2>2. /\ runChild' \in [session : Nat, up : BOOLEAN] \cup {None}
        /\ runChild'.session = runChild.session
    BY <2>1 DEF RuntimeTypes
  <2>3. RuntimeTypes'
    BY <1>0, <2>1, <2>2 DEF RuntimeTypes
  <2>4. SessionInv'
    BY <1>0, <2>1, <2>2 DEF SessionInv, OfSession, Qwen!StoppedStaysStopped
  <2>. QED BY <1>1, <2>3, <2>4
<1>3. CASE Qwen!Look
  <2>1. /\ runSelection' = runSelection /\ runSession' = runSession /\ Qwen!Check
    BY <1>3 DEF Qwen!Look
  <2>2. RuntimeTypes'
    BY <1>0, <2>1, RuntimeChecked DEF RuntimeTypes
  <2>3. SessionInv'
    BY <1>0, <2>1, RuntimeChecked DEF SessionInv, OfSession, Qwen!StoppedStaysStopped
  <2>. QED BY <1>1, <2>2, <2>3
<1>4. CASE Qwen!StopSession
  <2>1. /\ runSession' = runSession + 1 /\ runSelection' = None
        /\ runStatus' = "not_loaded" /\ runChild' = None /\ runConnection' = None
    BY <1>4 DEF Qwen!StopSession
  <2>2. RuntimeTypes'
    BY <1>0, <2>1 DEF RuntimeTypes
  <2>3. \A s : OfSession(s) => OfSession(s)'
    BY <2>1 DEF OfSession, RuntimeTypes
  <2>4. \A s : OfSession(s) => s # runSession'
    BY <2>1 DEF OfSession, RuntimeTypes
  <2>5. Qwen!StoppedStaysStopped'
    BY <1>0, <2>1, <2>4 DEF Qwen!StoppedStaysStopped, SessionInv
  <2>6. SessionInv'
    BY <1>0, <2>3, <2>5 DEF SessionInv
  <2>. QED BY <1>1, <2>2, <2>6
<1>. QED BY <1>2, <1>3, <1>4

\* A start goes on.
LEMMA RuntimeStarts ==
  ASSUME RuntimeInv, Qwen!SpawnChild \/ Qwen!ProbeReady
  PROVE  RuntimeInv'
<1>. USE DEF RuntimeInv
<1>0. /\ runSelection' = runSelection /\ runStatus' = runStatus
      /\ runSession' = runSession /\ runConnection' = runConnection
      /\ runStartup' = runStartup /\ runWaiting' = runWaiting /\ runUser' = runUser
      /\ runLaunch.step # "none" /\ runLaunch.session = runSession
  BY DEF Qwen!SpawnChild, Qwen!ProbeReady, Qwen!Current
<1>1. QueueInv'
  BY <1>0 DEF QueueInv
<1>2. /\ runLaunch \in [step : {"none", "spawn", "probe", "answered"},
                        session : Nat, generation : Nat, device : {"cpu", "gpu"}]
      /\ runSelection # None
  BY <1>0 DEF RuntimeTypes, SessionInv, OfSession
<1>3. /\ runGeneration' \in Nat
      /\ runLaunch' \in [step : {"none", "spawn", "probe", "answered"},
                         session : Nat, generation : Nat, device : {"cpu", "gpu"}]
      /\ runLaunch'.session = runLaunch.session
  <2>1. CASE Qwen!SpawnChild
    <3>1. /\ runGeneration' = runGeneration + 1
          /\ runLaunch' = [runLaunch EXCEPT !.step = "probe",
                                            !.generation = runGeneration + 1]
      BY <2>1 DEF Qwen!SpawnChild
    <3>2. runGeneration + 1 \in Nat
      BY DEF RuntimeTypes
    <3>. QED BY <1>2, <3>1, <3>2
  <2>2. CASE Qwen!ProbeReady
    <3>1. /\ runGeneration' = runGeneration
          /\ runLaunch' = [runLaunch EXCEPT !.step = "answered"]
      BY <2>2 DEF Qwen!ProbeReady
    <3>2. runGeneration \in Nat
      BY DEF RuntimeTypes
    <3>. QED BY <1>2, <3>1, <3>2
  <2>. QED BY <2>1, <2>2
<1>4. /\ runChild' \in [session : Nat, up : BOOLEAN] \cup {None}
      /\ runChild' = runChild \/ runChild'.session = runSession
  <2>1. \/ runChild' = runChild
        \/ runChild' = [session |-> runSession, up |-> TRUE]
    BY <1>0 DEF Qwen!SpawnChild, Qwen!ProbeReady
  <2>2. /\ runChild \in [session : Nat, up : BOOLEAN] \cup {None}
        /\ [session |-> runSession, up |-> TRUE] \in [session : Nat, up : BOOLEAN]
        /\ [session |-> runSession, up |-> TRUE].session = runSession
    BY DEF RuntimeTypes
  <2>. QED BY <2>1, <2>2
<1>5. RuntimeTypes'
  BY <1>0, <1>3, <1>4 DEF RuntimeTypes
<1>6. SessionInv'
  BY <1>0, <1>2, <1>3, <1>4 DEF SessionInv, OfSession, Qwen!StoppedStaysStopped
<1>. QED BY <1>1, <1>5, <1>6

\* A start ends: its user has a connection, a failure, or has left.
LEMMA RuntimeStartEnds ==
  ASSUME RuntimeInv,
         Qwen!PublishConnection \/ Qwen!LaunchFails \/ Qwen!DropStart
  PROVE  RuntimeInv'
<1>. USE DEF RuntimeInv
<1>0. /\ runSelection' = runSelection /\ runSession' = runSession
      /\ runGeneration' = runGeneration /\ runWaiting' = runWaiting
      /\ runLaunch.step # "none"
  BY DEF Qwen!PublishConnection, Qwen!LaunchFails, Qwen!DropStart, Qwen!process
<1>1. /\ runStartup \in Users /\ runUser \in [Users -> UserState]
      /\ runUser[runStartup] \in UserState
      /\ runUser[runStartup].at \in {"starting", "restarting"}
      /\ OfSession(runLaunch.session)
      /\ runLaunch \in [step : {"none", "spawn", "probe", "answered"},
                        session : Nat, generation : Nat, device : {"cpu", "gpu"}]
  BY <1>0 DEF RuntimeTypes, QueueInv, SessionInv
<1>2. /\ Qwen!NoLaunch \in [step : {"none", "spawn", "probe", "answered"},
                            session : Nat, generation : Nat, device : {"cpu", "gpu"}]
      /\ Qwen!NoLaunch.step = "none"
  BY DEF Qwen!NoLaunch
<1>3. CASE Qwen!PublishConnection
  <2>. DEFINE at == IF runUser[runStartup].at = "starting" THEN "ready" ELSE "sent"
              conn == [session |-> runLaunch.session,
                       generation |-> runLaunch.generation]
  <2>1. /\ runConnection' = conn /\ runStatus' = "ready" /\ runStartup' = None
        /\ runLaunch' = Qwen!NoLaunch /\ runChild' = runChild
        /\ runUser' = [runUser EXCEPT ![runStartup] = [at |-> at, conn |-> conn]]
        /\ runLaunch.session = runSession
    BY <1>3 DEF Qwen!PublishConnection, Qwen!Current
  <2>2. at \in UserAt /\ at # "accepted"
    BY DEF UserAt
  <2>3. conn \in ConnectionState /\ conn.session = runLaunch.session
    BY <1>1 DEF ConnectionState
  <2>. HIDE DEF at, conn
  <2>4. /\ runUser' \in [Users -> UserState]
        /\ runUser'[runStartup].at = at /\ runUser'[runStartup].conn = conn
        /\ \A v \in Users \ {runStartup} : runUser'[v] = runUser[v]
    <3>. DEFINE f == [runUser EXCEPT ![runStartup] = [at |-> at, conn |-> conn]]
    <3>1. /\ f \in [Users -> UserState]
          /\ f[runStartup].at = at /\ f[runStartup].conn = conn
          /\ \A v \in Users \ {runStartup} : f[v] = runUser[v]
      BY <1>1, <2>2, <2>3, RuntimeUserSet
    <3>. QED BY <2>1, <3>1
  <2>5. RuntimeTypes'
    BY <1>0, <1>2, <2>1, <2>3, <2>4 DEF RuntimeTypes
  <2>6. QueueInv'
    BY <1>0, <1>1, <1>2, <2>1, <2>4, RuntimeQueueStays
  <2>7. \A s : OfSession(s)' <=> OfSession(s)
    BY <1>0 DEF OfSession
  <2>8. runSelection # None
    BY <1>1, <2>1 DEF OfSession
  <2>9. \A u \in Users :
          runUser'[u].conn # None \/ runUser'[u].at \in {"sent", "answered", "accepted"}
            => OfSession(runUser'[u].conn.session)
    BY <1>1, <2>3, <2>4 DEF SessionInv
  <2>10. Qwen!StoppedStaysStopped'
    BY <1>0, <2>1, <2>3, <2>8 DEF SessionInv, Qwen!StoppedStaysStopped
  <2>11. SessionInv'
    BY <1>2, <2>1, <2>7, <2>9, <2>10 DEF SessionInv
  <2>. QED BY <2>5, <2>6, <2>11
<1>4. CASE \/ Qwen!DropStart
           \/ Qwen!LaunchFails /\ runLaunch' = Qwen!NoLaunch
  <2>1. /\ runStartup' = None /\ runLaunch' = Qwen!NoLaunch
        /\ runChild' \in {runChild, None} /\ runConnection' \in {runConnection, None}
        /\ \/ runStatus' = runStatus
           \/ runStatus' = "error"
    <3>1. CASE Qwen!DropStart
      BY <3>1 DEF Qwen!DropStart, Qwen!process
    <3>2. CASE Qwen!LaunchFails /\ runLaunch' = Qwen!NoLaunch
      <4>1. runLaunch'.step = "none"
        BY <1>2, <3>2
      <4>2. [runLaunch EXCEPT !.step = "spawn", !.device = "cpu"].step = "spawn"
        BY <1>1
      <4>3. runLaunch' # [runLaunch EXCEPT !.step = "spawn", !.device = "cpu"]
        BY <4>1, <4>2
      <4>. QED BY <3>2, <4>3 DEF Qwen!LaunchFails
    <3>. QED BY <1>4, <3>1, <3>2
  <2>2. \/ runUser' = [runUser EXCEPT ![runStartup] = [at |-> "idle", conn |-> None]]
        \/ runUser' = [runUser EXCEPT ![runStartup].at = "idle"]
        \/ runUser' = [runUser EXCEPT ![runStartup].at = "failed"]
    <3>1. CASE Qwen!DropStart
      BY <3>1 DEF Qwen!DropStart, Qwen!Idle
    <3>2. CASE Qwen!LaunchFails /\ runLaunch' = Qwen!NoLaunch
      <4>1. runLaunch'.step = "none"
        BY <1>2, <3>2
      <4>2. [runLaunch EXCEPT !.step = "spawn", !.device = "cpu"].step = "spawn"
        BY <1>1
      <4>3. runLaunch' # [runLaunch EXCEPT !.step = "spawn", !.device = "cpu"]
        BY <4>1, <4>2
      <4>4. runUser' = [runUser EXCEPT ![runStartup].at =
                          IF runUser[runStartup].at = "starting" THEN "idle" ELSE "failed"]
        BY <3>2, <4>3 DEF Qwen!LaunchFails
      <4>. QED BY <4>4
    <3>. QED BY <1>4, <3>1, <3>2
  <2>3. /\ runUser' \in [Users -> UserState]
        /\ runUser'[runStartup].at \in {"idle", "failed"}
        /\ runUser'[runStartup].conn \in {runUser[runStartup].conn, None}
        /\ \A v \in Users \ {runStartup} : runUser'[v] = runUser[v]
    <3>1. /\ "idle" \in UserAt /\ {"idle", "failed"} \subseteq UserAt
          /\ None \in ConnectionState \cup {None}
      BY DEF UserAt
    <3>. DEFINE f == [runUser EXCEPT ![runStartup] = [at |-> "idle", conn |-> None]]
                h(at) == [runUser EXCEPT ![runStartup].at = at]
    <3>2. /\ f \in [Users -> UserState]
          /\ f[runStartup].at = "idle" /\ f[runStartup].conn = None
          /\ \A v \in Users \ {runStartup} : f[v] = runUser[v]
      BY <1>1, <3>1, RuntimeUserSet
    <3>3. ASSUME NEW at \in {"idle", "failed"}
          PROVE  /\ h(at) \in [Users -> UserState] /\ h(at)[runStartup].at = at
                 /\ h(at)[runStartup].conn = runUser[runStartup].conn
                 /\ \A v \in Users \ {runStartup} : h(at)[v] = runUser[v]
      BY <1>1, <3>1, RuntimeUserAt
    <3>4. runUser' = f \/ runUser' = h("idle") \/ runUser' = h("failed")
      BY <2>2
    <3>. HIDE DEF f, h
    <3>. QED BY <3>2, <3>3, <3>4
  <2>4. RuntimeTypes'
    BY <1>0, <1>2, <2>1, <2>3 DEF RuntimeTypes
  <2>5. QueueInv'
    BY <1>0, <1>1, <1>2, <2>1, <2>3, RuntimeQueueStays
  <2>6. \A s : OfSession(s)' <=> OfSession(s)
    BY <1>0 DEF OfSession
  <2>7. \A u \in Users :
          runUser'[u].conn # None \/ runUser'[u].at \in {"sent", "answered", "accepted"}
            => OfSession(runUser'[u].conn.session)
    BY <1>1, <2>3 DEF SessionInv
  <2>8. Qwen!StoppedStaysStopped'
    BY <1>0, <2>1, <2>3 DEF SessionInv, Qwen!StoppedStaysStopped
  <2>9. SessionInv'
    BY <1>2, <2>1, <2>6, <2>7, <2>8 DEF SessionInv
  <2>. QED BY <2>4, <2>5, <2>9
<1>5. CASE /\ Qwen!LaunchFails
           /\ runLaunch' = [runLaunch EXCEPT !.step = "spawn", !.device = "cpu"]
           /\ runStartup' = runStartup /\ runStatus' = runStatus /\ runUser' = runUser
           /\ runChild' = None /\ runConnection' = None
  <2>1. /\ runLaunch' \in [step : {"none", "spawn", "probe", "answered"},
                           session : Nat, generation : Nat, device : {"cpu", "gpu"}]
        /\ runLaunch'.session = runLaunch.session
    BY <1>1, <1>5
  <2>2. RuntimeTypes'
    BY <1>0, <1>5, <2>1 DEF RuntimeTypes
  <2>3. QueueInv'
    BY <1>0, <1>1, <1>5 DEF QueueInv
  <2>4. SessionInv'
    BY <1>0, <1>1, <1>5, <2>1 DEF SessionInv, OfSession, Qwen!StoppedStaysStopped
  <2>. QED BY <2>2, <2>3, <2>4
<1>. QED BY <1>3, <1>4, <1>5 DEF Qwen!LaunchFails

\* A user waits for the startup lock, or no longer.
LEMMA RuntimeWaits ==
  ASSUME RuntimeInv, NEW u \in Users,
         \/ \E m \in Models : Qwen!WantStarted(u, m)
         \/ Qwen!TakeUpload(u)
         \/ Qwen!DropWaiting(u)
  PROVE  RuntimeInv'
<1>. USE DEF RuntimeInv
<1>0. /\ runSelection' = runSelection /\ runSession' = runSession
      /\ runStatus' = runStatus /\ runGeneration' = runGeneration
      /\ runChild' = runChild /\ runConnection' = runConnection
      /\ runStartup' = runStartup /\ runLaunch' = runLaunch
  BY DEF Qwen!WantStarted, Qwen!TakeUpload, Qwen!DropWaiting, Qwen!Wait, Qwen!process
<1>1. runUser \in [Users -> UserState] /\ None \notin Models
  BY RuntimeBounds DEF RuntimeTypes, Qwen!RuntimeAssumption
<1>2. SUFFICES /\ runUser' \in [Users -> UserState] /\ runWaiting' \in Seq(WaitState)
               /\ runUser'[u].at \notin {"sent", "answered", "accepted"}
               /\ runUser'[u].conn \in {runUser[u].conn, None}
               /\ \A v \in Users \ {u} : runUser'[v] = runUser[v]
               /\ QueueInv'
  <2>. DEFINE Good == /\ runUser' \in [Users -> UserState]
                      /\ runWaiting' \in Seq(WaitState)
                      /\ runUser'[u].at \notin {"sent", "answered", "accepted"}
                      /\ runUser'[u].conn \in {runUser[u].conn, None}
                      /\ \A v \in Users \ {u} : runUser'[v] = runUser[v]
                      /\ QueueInv'
  <2>1. ASSUME Good PROVE RuntimeTypes'
    BY <1>0, <2>1 DEF RuntimeTypes
  <2>2. ASSUME Good PROVE SessionInv'
    <3>1. \A v \in Users :
            /\ runUser'[v].conn # None \/ runUser'[v].at \in {"sent", "answered", "accepted"}
                 => /\ runUser'[v].conn = runUser[v].conn
                    /\ \/ runUser[v].conn # None
                       \/ runUser[v].at \in {"sent", "answered", "accepted"}
            /\ runUser'[v].at = "accepted" => runUser'[v] = runUser[v]
      BY <2>2
    <3>. QED BY <1>0, <3>1 DEF SessionInv, OfSession, Qwen!StoppedStaysStopped
  <2>. QED BY <2>1, <2>2
<1>3. ASSUME NEW want \in Models \cup {None}, NEW from,
             NEW to \in {"waiting", "asking"}, to = IF want = None THEN "asking" ELSE "waiting",
             from \in {"idle", "ready"}, Qwen!Wait(u, from, to, want)
      PROVE  /\ runUser' \in [Users -> UserState] /\ runWaiting' \in Seq(WaitState)
             /\ runUser'[u].at \notin {"sent", "answered", "accepted"}
             /\ runUser'[u].conn \in {runUser[u].conn, None}
             /\ \A v \in Users \ {u} : runUser'[v] = runUser[v]
             /\ QueueInv'
  <2>. DEFINE w == [user |-> u, want |-> want]
  <2>1. /\ runUser[u].at = from /\ runUser' = [runUser EXCEPT ![u].at = to]
        /\ runWaiting' = Append(runWaiting, w)
    BY <1>3 DEF Qwen!Wait
  <2>2. w \in WaitState /\ w.user = u /\ w.want = want
    BY DEF WaitState
  <2>. HIDE DEF w
  <2>3. /\ runUser' \in [Users -> UserState]
        /\ runUser'[u].at = to /\ runUser'[u].conn = runUser[u].conn
        /\ \A v \in Users \ {u} : runUser'[v] = runUser[v]
    <3>1. to \in UserAt
      BY DEF UserAt
    <3>. QED BY <2>1, <3>1, RuntimeUserAt
  <2>4. /\ runWaiting' \in Seq(WaitState) /\ Len(runWaiting) \in Nat
        /\ Len(runWaiting') = Len(runWaiting) + 1
        /\ \A i \in 1..Len(runWaiting) :
             runWaiting'[i] = runWaiting[i] /\ runWaiting[i] \in WaitState
        /\ runWaiting'[Len(runWaiting)+1] = w
    BY <2>1, <2>2, RuntimeWaiting DEF RuntimeTypes
  <2>5. \A i \in 1..Len(runWaiting) : runWaiting[i].user \in Users \ {u}
    <3>1. ASSUME NEW i \in 1..Len(runWaiting)
          PROVE  runWaiting[i].user \in Users \ {u}
      <4>1. runWaiting[i].user \in Users
        BY <2>4 DEF WaitState
      <4>2. runUser[runWaiting[i].user].at \in {"waiting", "asking"}
        BY DEF QueueInv
      <4>. QED BY <1>3, <2>1, <4>1, <4>2
    <3>. QED BY <3>1
  <2>6. \A i \in 1..Len(runWaiting') :
          i \in 1..Len(runWaiting) \/ i = Len(runWaiting) + 1
    BY <2>4
  <2>7. ASSUME NEW i \in 1..Len(runWaiting')
        PROVE  /\ runUser'[runWaiting'[i].user].at =
                    IF runWaiting'[i].want = None THEN "asking" ELSE "waiting"
               /\ \A j \in 1..Len(runWaiting') :
                    runWaiting'[i].user = runWaiting'[j].user => i = j
    <3>1. CASE i \in 1..Len(runWaiting)
      BY <2>2, <2>3, <2>4, <2>5, <2>6, <3>1 DEF QueueInv
    <3>2. CASE i = Len(runWaiting) + 1
      BY <1>3, <2>2, <2>3, <2>4, <2>5, <2>6, <3>2
    <3>. QED BY <2>6, <3>1, <3>2
  <2>8. runLaunch'.step # "none" =>
          runStartup' \in Users /\ runUser'[runStartup'].at \in {"starting", "restarting"}
    <3>1. runStartup \in Users /\ runUser[runStartup].at \in {"starting", "restarting"}
            => runStartup # u
      BY <1>3, <2>1
    <3>. QED BY <1>0, <2>3, <3>1 DEF QueueInv
  <2>9. QueueInv'
    BY <2>7, <2>8 DEF QueueInv
  <2>. QED BY <1>3, <2>3, <2>4, <2>9
<1>4. CASE \E m \in Models : Qwen!WantStarted(u, m)
  <2>1. PICK m \in Models : Qwen!Wait(u, "idle", "waiting", m)
    BY <1>4 DEF Qwen!WantStarted
  <2>2. m # None
    BY <1>1
  <2>. QED BY <1>3, <2>1, <2>2
<1>5. CASE Qwen!TakeUpload(u)
  BY <1>3, <1>5 DEF Qwen!TakeUpload
<1>6. CASE Qwen!DropWaiting(u)
  <2>1. /\ runUser[u].at \in {"waiting", "asking"}
        /\ runUser' = [runUser EXCEPT ![u] = [at |-> "idle", conn |-> None]]
    BY <1>6 DEF Qwen!DropWaiting, Qwen!Idle
  <2>2. /\ runUser' \in [Users -> UserState]
        /\ runUser'[u].at = "idle" /\ runUser'[u].conn = None
        /\ \A v \in Users \ {u} : runUser'[v] = runUser[v]
    <3>1. "idle" \in UserAt /\ None \in ConnectionState \cup {None}
      BY DEF UserAt
    <3>. QED BY <2>1, <3>1, RuntimeUserSet
  <2>3. /\ runWaiting' \in Seq(WaitState)
        /\ \E g \in [1..Len(runWaiting') -> 1..Len(runWaiting)] :
             \A j \in 1..Len(runWaiting') :
               /\ runWaiting'[j] = runWaiting[g[j]] /\ runWaiting'[j].user # u
               /\ \A k \in 1..Len(runWaiting') : j # k => g[j] # g[k]
    BY <1>6, RuntimeDropped
  <2>4. runLaunch'.step # "none" =>
          runStartup' \in Users /\ runUser'[runStartup'].at \in {"starting", "restarting"}
    <3>1. runStartup \in Users /\ runUser[runStartup].at \in {"starting", "restarting"}
            => runStartup # u
      BY <2>1
    <3>. QED BY <1>0, <2>2, <3>1 DEF QueueInv
  <2>5. PICK g \in [1..Len(runWaiting') -> 1..Len(runWaiting)] :
          \A j \in 1..Len(runWaiting') :
            /\ runWaiting'[j] = runWaiting[g[j]] /\ runWaiting'[j].user # u
            /\ \A k \in 1..Len(runWaiting') : j # k => g[j] # g[k]
    BY <2>3
  <2>6. QueueInv'
    BY <2>2, <2>4, <2>5, RuntimeQueueKept
  <2>. QED BY <2>2, <2>3, <2>6
<1>. QED BY <1>4, <1>5, <1>6

\* An upload worker goes on.
LEMMA RuntimeWorks ==
  ASSUME RuntimeInv, NEW u \in Users,
         Qwen!Transcribe(u) \/ Qwen!Accept(u) \/ Qwen!Report(u) \/ Qwen!EndUser(u)
  PROVE  RuntimeInv'
<1>. USE DEF RuntimeInv
<1>0. /\ runSelection' = runSelection /\ runSession' = runSession
      /\ runGeneration' = runGeneration /\ runStartup' = runStartup
      /\ runWaiting' = runWaiting /\ runLaunch' = runLaunch
      /\ runChild' \in [session : Nat, up : BOOLEAN] \cup {None}
      /\ runChild' \in {runChild, None}
      /\ runConnection' \in ConnectionState \cup {None}
      /\ runConnection' \in {runConnection, None}
      /\ runStatus' \in {runStatus, "error"}
      /\ runUser[u].at \in {"ready", "sent", "answered", "accepted", "failed"}
  <2>1. CASE Qwen!Accept(u)
    BY <2>1, RuntimeChecked DEF Qwen!Accept, Qwen!UserStep
  <2>2. CASE ~Qwen!Accept(u)
    BY <2>2 DEF Qwen!Transcribe, Qwen!Report, Qwen!EndUser, Qwen!UserStep,
                Qwen!Untouched, Qwen!process, RuntimeTypes
  <2>. QED BY <2>1, <2>2
<1>1. runUser \in [Users -> UserState]
  BY DEF RuntimeTypes
<1>2. \/ runUser' = [runUser EXCEPT ![u] = [at |-> "idle", conn |-> None]]
      \/ \E at \in {"ready", "failed"} : runUser' = [runUser EXCEPT ![u].at = at]
      \/ /\ runUser[u].at \in {"sent", "answered"}
         /\ \E at \in {"answered", "accepted"} : runUser' = [runUser EXCEPT ![u].at = at]
  BY DEF Qwen!Transcribe, Qwen!Accept, Qwen!Report, Qwen!EndUser, Qwen!UserStep,
         Qwen!Idle
<1>3. /\ runUser' \in [Users -> UserState]
      /\ runUser'[u].conn \in {runUser[u].conn, None}
      /\ runUser'[u].at \in {"idle", "ready", "failed", "answered", "accepted"}
      /\ runUser'[u].at \in {"answered", "accepted"} =>
           /\ runUser[u].at \in {"sent", "answered"}
           /\ runUser'[u].conn = runUser[u].conn
      /\ \A v \in Users \ {u} : runUser'[v] = runUser[v]
  <2>1. /\ {"idle", "ready", "failed", "answered", "accepted"} \subseteq UserAt
        /\ "idle" \in UserAt /\ None \in ConnectionState \cup {None}
    BY DEF UserAt
  <2>. DEFINE h(at) == [runUser EXCEPT ![u].at = at]
              f == [runUser EXCEPT ![u] = [at |-> "idle", conn |-> None]]
  <2>2. ASSUME NEW at \in {"ready", "failed", "answered", "accepted"}
        PROVE  /\ h(at) \in [Users -> UserState] /\ h(at)[u].at = at
               /\ h(at)[u].conn = runUser[u].conn
               /\ \A v \in Users \ {u} : h(at)[v] = runUser[v]
    BY <2>1, RuntimeUserAt
  <2>3. /\ f \in [Users -> UserState] /\ f[u].at = "idle" /\ f[u].conn = None
        /\ \A v \in Users \ {u} : f[v] = runUser[v]
    BY <2>1, RuntimeUserSet
  <2>4. \/ runUser' = f
        \/ \E at \in {"ready", "failed"} : runUser' = h(at)
        \/ /\ runUser[u].at \in {"sent", "answered"}
           /\ \E at \in {"answered", "accepted"} : runUser' = h(at)
    BY <1>2
  <2>. HIDE DEF f, h
  <2>. QED BY <2>2, <2>3, <2>4
<1>4. RuntimeTypes'
  BY <1>0, <1>3 DEF RuntimeTypes
<1>5. QueueInv'
  <2>1. runLaunch'.step # "none" =>
          runStartup' \in Users /\ runUser'[runStartup'].at \in {"starting", "restarting"}
    <3>1. runStartup \in Users /\ runUser[runStartup].at \in {"starting", "restarting"}
            => runStartup # u
      BY <1>0
    <3>. QED BY <1>0, <1>3, <3>1 DEF QueueInv
  <2>. QED BY <1>0, <1>3, <2>1, RuntimeQueueStays
<1>6. SessionInv'
  <2>1. \A s : OfSession(s)' <=> OfSession(s)
    BY <1>0 DEF OfSession
  <2>2. \A v \in Users :
          runUser'[v].conn # None \/ runUser'[v].at \in {"sent", "answered", "accepted"}
            => OfSession(runUser'[v].conn.session)
    BY <1>3 DEF SessionInv
  <2>3. \A v \in Users : runUser'[v].at = "accepted" /\ runUser'[v].conn.session = runSession
                           => runSelection # None
    BY <2>2 DEF OfSession
  <2>4. Qwen!StoppedStaysStopped'
    BY <1>0, <2>3 DEF SessionInv, Qwen!StoppedStaysStopped
  <2>. QED BY <1>0, <2>1, <2>2, <2>4 DEF SessionInv
<1>. QED BY <1>4, <1>5, <1>6

\* A user that has its turn joins a start, starts, restarts, or fails.
LEMMA RuntimeTurns ==
  ASSUME RuntimeInv, NEW u \in Users, Qwen!EnsureStarted(u) \/ Qwen!Reconnect(u)
  PROVE  RuntimeInv'
<1>. USE DEF RuntimeInv
<1>0. /\ Qwen!Turn(u) /\ runUser[u].at \in {"waiting", "asking"}
      /\ runStartup = None /\ runGeneration' = runGeneration
      /\ runUser \in [Users -> UserState] /\ runUser[u] \in UserState
      /\ runSession \in Nat /\ None \notin Models /\ None \notin Users
  BY RuntimeBounds DEF Qwen!EnsureStarted, Qwen!Reconnect, Qwen!Turn, RuntimeTypes,
     Qwen!RuntimeAssumption
<1>1. runLaunch.step = "none"
  BY <1>0 DEF QueueInv
\* What the user becomes, and the lock
<1>. DEFINE Only == \A v \in Users \ {u} : runUser'[v] = runUser[v]
            Stays == runStartup' = runStartup /\ runLaunch' = runLaunch
            Began(s) == \E device \in {"cpu", "gpu"} :
                          runLaunch' = [step |-> "spawn", session |-> s,
                                        generation |-> 0, device |-> device]
<1>2. /\ runUser' \in [Users -> UserState] /\ Only
      /\ \/ /\ Stays /\ runUser'[u].at \in {"ready", "sent"}
            /\ runUser'[u].conn = runConnection /\ OfSession(runConnection.session)
            /\ runSession' = runSession /\ runSelection' = runSelection
            /\ Qwen!Check
         \/ /\ Stays /\ runUser'[u].at = "failed"
            /\ runUser'[u].conn = runUser[u].conn
            /\ runSession' = runSession /\ runSelection' = runSelection
            /\ Qwen!Check
         \/ /\ runStartup' = u /\ Began(runSession')
            /\ runUser'[u].at \in {"starting", "restarting"}
            /\ runUser'[u].conn = runUser[u].conn
            /\ runChild' \in {runChild, None} /\ runConnection' = None
            /\ runStatus' = "loading"
            /\ runSelection' \in Models \cup {runSelection} /\ runSelection' # None
            /\ \/ runSession' = runSession /\ runSelection' = runSelection
               \/ runSession' = runSession + 1 /\ runChild' = None
  <2>. DEFINE h(at) == [runUser EXCEPT ![u].at = at]
              f(at) == [runUser EXCEPT ![u] = [at |-> at, conn |-> runConnection]]
  <2>1. ASSUME NEW at \in {"failed", "starting", "restarting"}
        PROVE  /\ h(at) \in [Users -> UserState] /\ h(at)[u].at = at
               /\ h(at)[u].conn = runUser[u].conn
               /\ \A v \in Users \ {u} : h(at)[v] = runUser[v]
    <3>1. at \in UserAt
      BY DEF UserAt
    <3>. QED BY <3>1, RuntimeUserAt
  <2>2. ASSUME NEW at \in {"ready", "sent"}
        PROVE  /\ f(at) \in [Users -> UserState] /\ f(at)[u].at = at
               /\ f(at)[u].conn = runConnection
               /\ \A v \in Users \ {u} : f(at)[v] = runUser[v]
    <3>1. at \in UserAt /\ runConnection \in ConnectionState \cup {None}
      BY DEF UserAt, RuntimeTypes
    <3>. QED BY <3>1, RuntimeUserSet
  <2>3. Qwen!Checked.connection # None =>
          /\ Qwen!Checked.connection = runConnection
          /\ OfSession(runConnection.session)
    BY RuntimeChecked
  <2>4. CASE Qwen!EnsureStarted(u)
    <3>0. runUser[u].at = "waiting"
      BY <2>4 DEF Qwen!EnsureStarted
    <3>1. CASE /\ Qwen!Checked.connection # None
               /\ runUser' = [runUser EXCEPT ![u] = [at |-> "ready",
                                               conn |-> Qwen!Checked.connection]]
               /\ Qwen!Check /\ runSelection' = runSelection
               /\ runSession' = runSession
               /\ runStartup' = runStartup /\ runLaunch' = runLaunch
      <4>1. runUser' = f("ready")
        BY <2>3, <3>1
      <4>. HIDE DEF f, h
      <4>. QED BY <2>2, <2>3, <3>1, <4>1
    <3>2. CASE /\ runSession' = IF runSelection = Head(runWaiting).want
                                THEN runSession ELSE runSession + 1
               /\ runSelection' = Head(runWaiting).want /\ runStatus' = "loading"
               /\ runChild' = None /\ runConnection' = None
               /\ runUser' = [runUser EXCEPT ![u].at = "starting"]
               /\ Qwen!Launched(u, runSession')
      <4>1. runUser' = h("starting")
        BY <3>2
      <4>2. runStartup' = u /\ Began(runSession')
        BY <3>2 DEF Qwen!Launched
      <4>. HIDE DEF f, h
      <4>3. /\ runUser' \in [Users -> UserState] /\ Only
            /\ runUser'[u].at = "starting" /\ runUser'[u].conn = runUser[u].conn
        BY <2>1, <4>1
      <4>4. Head(runWaiting).want \in Models
        <5>1. runWaiting # << >> /\ Head(runWaiting).user = u
              /\ Head(runWaiting) = runWaiting[1] /\ Len(runWaiting) \in Nat \ {0}
          BY <1>0, RuntimeWaiting DEF Qwen!Turn
        <5>2. 1 \in 1..Len(runWaiting) /\ runWaiting[1] \in WaitState
          BY <5>1 DEF RuntimeTypes
        <5>. QED BY <3>0, <5>1, <5>2 DEF QueueInv, WaitState
      <4>5. runSelection' \in Models /\ runSelection' # None
        BY <1>0, <3>2, <4>4
      <4>6. \/ runSession' = runSession /\ runSelection' = runSelection
            \/ runSession' = runSession + 1 /\ runChild' = None
        BY <3>2
      <4>. QED BY <3>2, <4>2, <4>3, <4>5, <4>6
    <3>. QED BY <2>4, <3>1, <3>2 DEF Qwen!EnsureStarted
  <2>5. CASE Qwen!Reconnect(u)
    <3>0. runSession' = runSession /\ runSelection' = runSelection
      BY <2>5 DEF Qwen!Reconnect
    <3>1. CASE /\ runUser' = [runUser EXCEPT ![u].at = "failed"] /\ Qwen!Check
               /\ runStartup' = runStartup /\ runLaunch' = runLaunch
      <4>1. runUser' = h("failed")
        BY <3>1
      <4>. HIDE DEF f, h
      <4>. QED BY <2>1, <3>0, <3>1, <4>1
    <3>2. CASE /\ Qwen!Checked.connection # None
               /\ runUser' = [runUser EXCEPT ![u] = [at |-> "sent",
                                               conn |-> Qwen!Checked.connection]]
               /\ Qwen!Check /\ runStartup' = runStartup /\ runLaunch' = runLaunch
      <4>1. runUser' = f("sent")
        BY <2>3, <3>2
      <4>. HIDE DEF f, h
      <4>. QED BY <2>2, <2>3, <3>0, <3>2, <4>1
    <3>3. CASE /\ runSelection # None
               /\ runChild' = Qwen!Checked.child /\ runConnection' = None
               /\ runStatus' = "loading"
               /\ runUser' = [runUser EXCEPT ![u].at = "restarting"]
               /\ Qwen!Launched(u, runSession)
      <4>1. runUser' = h("restarting")
        BY <3>3
      <4>2. runStartup' = u /\ Began(runSession')
        BY <3>0, <3>3 DEF Qwen!Launched
      <4>. HIDE DEF f, h
      <4>3. /\ runUser' \in [Users -> UserState] /\ Only
            /\ runUser'[u].at = "restarting" /\ runUser'[u].conn = runUser[u].conn
        BY <2>1, <4>1
      <4>4. runChild' \in {runChild, None}
        BY <3>3, RuntimeChecked
      <4>. QED BY <3>0, <3>3, <4>2, <4>3, <4>4
    <3>. QED BY <2>5, <3>1, <3>2, <3>3 DEF Qwen!Reconnect
  <2>. QED BY <2>4, <2>5
<1>3. runLaunch'.step # "none" =>
        /\ runStartup' = u /\ runUser'[u].at \in {"starting", "restarting"}
        /\ runLaunch'.session = runSession' /\ runSelection' # None
        /\ runLaunch' \in [step : {"none", "spawn", "probe", "answered"}, session : Nat,
                           generation : Nat, device : {"cpu", "gpu"}]
  <2>1. runSession' \in Nat
    BY <1>0, <1>2
  <2>2. Began(runSession') =>
          /\ runLaunch'.session = runSession'
          /\ runLaunch' \in [step : {"none", "spawn", "probe", "answered"},
                             session : Nat, generation : Nat, device : {"cpu", "gpu"}]
    BY <2>1
  <2>. HIDE DEF Began
  <2>. QED BY <1>1, <1>2, <2>2
<1>4. QueueInv' /\ runWaiting' \in Seq(WaitState)
  BY <1>0, <1>2, <1>3, RuntimeTurn
<1>5. RuntimeTypes'
  <2>1. /\ runChild' \in [session : Nat, up : BOOLEAN] \cup {None}
        /\ runConnection' \in ConnectionState \cup {None}
        /\ runStatus' \in {"not_loaded", "loading", "ready", "error"}
    BY <1>2, RuntimeChecked DEF RuntimeTypes
  <2>2. /\ runLaunch' \in [step : {"none", "spawn", "probe", "answered"},
                           session : Nat, generation : Nat, device : {"cpu", "gpu"}]
        /\ runStartup' \in Users \cup {None}
    <3>1. CASE Stays
      BY <3>1 DEF RuntimeTypes
    <3>2. CASE runStartup' = u /\ Began(runSession')
      <4>1. runSession' \in Nat
        BY <1>0, <1>2
      <4>. QED BY <3>2, <4>1
    <3>. HIDE DEF Stays, Began
    <3>. QED BY <1>2, <3>1, <3>2
  <2>3. /\ runSelection' \in Models \cup {None} /\ runSession' \in Nat
        /\ runGeneration' \in Nat
    BY <1>0, <1>2 DEF RuntimeTypes
  <2>. HIDE DEF Stays, Began
  <2>. QED BY <1>2, <1>4, <2>1, <2>2, <2>3 DEF RuntimeTypes
<1>. HIDE DEF Began
<1>6. CASE runSession' = runSession /\ runSelection' = runSelection
  <2>1. \A s : OfSession(s)' <=> OfSession(s)
    BY <1>6 DEF OfSession
  <2>2. \A v \in Users :
          runUser'[v].conn # None \/ runUser'[v].at \in {"sent", "answered", "accepted"}
            => OfSession(runUser'[v].conn.session)
    BY <1>2 DEF SessionInv
  <2>3. \A v \in Users : runUser'[v].at = "accepted" => runUser'[v] = runUser[v]
    BY <1>2
  <2>4. Qwen!StoppedStaysStopped'
    BY <1>2, <1>6, <2>3, RuntimeChecked DEF SessionInv, Qwen!StoppedStaysStopped
  <2>5. (runLaunch.step # "none" => OfSession(runLaunch.session))'
    BY <1>0, <1>3, <1>6 DEF OfSession
  <2>. QED BY <1>4, <1>5, <2>1, <2>2, <2>4, <2>5 DEF SessionInv
<1>7. CASE /\ runSession' = runSession + 1 /\ runSelection' # None
           /\ runChild' = None /\ runConnection' = None
           /\ runUser'[u].at \in {"starting", "restarting"}
           /\ runUser'[u].conn = runUser[u].conn
  <2>1. \A s : OfSession(s) => OfSession(s)'
    BY <1>0, <1>7 DEF OfSession
  <2>2. \A v \in Users :
          runUser'[v].conn # None \/ runUser'[v].at \in {"sent", "answered", "accepted"}
            => OfSession(runUser'[v].conn.session)
    BY <1>2, <1>7 DEF SessionInv
  <2>3. Qwen!StoppedStaysStopped'
    BY <1>7 DEF Qwen!StoppedStaysStopped
  <2>4. (runLaunch.step # "none" => OfSession(runLaunch.session))'
    BY <1>0, <1>3, <1>7 DEF OfSession
  <2>. QED BY <1>4, <1>5, <2>1, <2>2, <2>3, <2>4 DEF SessionInv
<1>. QED BY <1>2, <1>6, <1>7

LEMMA RuntimeStart ==
  ASSUME Qwen!RuntimeInit
  PROVE  RuntimeInv
<1>1. RuntimeTypes
  BY DEF Qwen!RuntimeInit, RuntimeTypes, Qwen!NoLaunch, Qwen!Idle, UserState, UserAt
<1>2. QueueInv
  BY DEF Qwen!RuntimeInit, QueueInv, Qwen!NoLaunch
<1>3. SessionInv
  BY DEF Qwen!RuntimeInit, SessionInv, Qwen!NoLaunch, Qwen!Idle,
         Qwen!StoppedStaysStopped
<1>. QED BY <1>1, <1>2, <1>3 DEF RuntimeInv

LEMMA RuntimeStep ==
  ASSUME RuntimeInv, Qwen!RuntimeNext \/ UNCHANGED runtime
  PROVE  RuntimeInv'
<1>1. CASE Qwen!RuntimeNext
  <2>1. CASE Qwen!Exit \/ Qwen!Look \/ Qwen!StopSession \/ Qwen!CancelLoading
    BY <2>1, RuntimeStops DEF Qwen!CancelLoading
  <2>2. CASE Qwen!Starting \/ Qwen!DropStart
    BY <2>2, RuntimeStarts, RuntimeStartEnds DEF Qwen!Starting
  <2>3. CASE \E u \in Users, m \in Models : Qwen!WantStarted(u, m)
    BY <2>3, RuntimeWaits
  <2>4. ASSUME NEW u \in Users,
               \/ Qwen!DropWaiting(u) \/ Qwen!EnsureStarted(u) \/ Qwen!Reconnect(u)
               \/ Qwen!TakeUpload(u) \/ Qwen!Transcribe(u) \/ Qwen!Accept(u)
               \/ Qwen!Report(u) \/ Qwen!EndUser(u)
        PROVE  RuntimeInv'
    <3>1. CASE Qwen!DropWaiting(u) \/ Qwen!TakeUpload(u)
      BY <3>1, RuntimeWaits
    <3>2. CASE Qwen!EnsureStarted(u) \/ Qwen!Reconnect(u)
      BY <3>2, RuntimeTurns
    <3>3. CASE Qwen!Transcribe(u) \/ Qwen!Accept(u) \/ Qwen!Report(u) \/ Qwen!EndUser(u)
      BY <3>3, RuntimeWorks
    <3>. QED BY <2>4, <3>1, <3>2, <3>3
  <2>. QED BY <1>1, <2>1, <2>2, <2>3, <2>4 DEF Qwen!RuntimeNext
<1>2. CASE UNCHANGED runtime
  BY <1>2 DEF runtime, RuntimeInv, RuntimeTypes, QueueInv, SessionInv, OfSession,
     Qwen!StoppedStaysStopped
<1>. QED BY <1>1, <1>2

-----------------------------------------------------------------------------
(* LiveSession                                                             *)

\* The last n chunks that were sent are silence.
Quiet(n) == \A i \in 1..Len(liSent) : i > Len(liSent) - n => liSent[i] \notin liSpeech

(***************************************************************************)
(* A connection that is not drained has counted no more silence than it    *)
(* has sent, and one that was closed for silence has sent enough of it.    *)
(***************************************************************************)
LiveInv ==
  /\ liSent \in Seq(ToSet(liSent))
  /\ liActivity \in [seen : BOOLEAN, silent : Nat]
  /\ liPhase \notin {"draining", "ending", "over"} => Quiet(liActivity.silent)
  /\ liPhase \in {"closing", "suspended"} => Quiet(Long)

\* One more chunk is sent.
LEMMA LiveSends ==
  ASSUME LiveInv, NEW x
  PROVE  /\ Append(liSent, x) \in Seq(ToSet(Append(liSent, x)))
         /\ Len(liSent) \in Nat /\ Len(Append(liSent, x)) = Len(liSent) + 1
         /\ \A i \in 1..Len(liSent) : Append(liSent, x)[i] = liSent[i]
         /\ Append(liSent, x)[Len(liSent) + 1] = x
<1>. DEFINE T == ToSet(liSent) \cup {x}
            s == Append(liSent, x)
<1>1. liSent \in Seq(ToSet(liSent))
  BY DEF LiveInv
<1>2. liSent \in Seq(T)
  BY <1>1
<1>3. /\ s \in Seq(T) /\ Len(liSent) \in Nat /\ Len(s) = Len(liSent) + 1
      /\ \A i \in 1..Len(liSent) : s[i] = liSent[i]
      /\ s[Len(liSent) + 1] = x
  BY <1>2
<1>. HIDE DEF s, T
<1>4. DOMAIN s = 1..Len(s) /\ \A i \in 1..Len(s) : s[i] \in ToSet(s)
  BY <1>3 DEF ToSet
<1>5. s \in Seq(ToSet(s))
  BY <1>3, <1>4
<1>. QED BY <1>3, <1>5 DEF s

\* Nothing is sent, and no silence is counted.
LEMMA LiveStays ==
  ASSUME LiveInv, liSent' = liSent, liSpeech' = liSpeech,
         liActivity' = liActivity
           \/ (liActivity' \in [seen : BOOLEAN, silent : Nat] /\ liActivity'.silent = 0),
         liPhase' \in {"closing", "suspended"} => liPhase \in {"closing", "suspended"},
         liPhase' \notin {"draining", "ending", "over"} =>
           liPhase \notin {"draining", "ending", "over"}
  PROVE  LiveInv'
<1>1. Len(liSent) \in Nat
  BY DEF LiveInv
<1>2. Quiet(0)
  BY <1>1 DEF Quiet
<1>3. \A n : Quiet(n)' <=> Quiet(n)
  BY DEF Quiet
<1>. QED BY <1>2, <1>3 DEF LiveInv

LEMMA LiveKept ==
  ASSUME LiveInv, Live!LiveNext
  PROVE  LiveInv'
<1>0. liActivity \in [seen : BOOLEAN, silent : Nat] /\ Long \in Nat \ {0}
  BY LiveBounds DEF LiveInv, Live!LiveAssumption
<1>1. /\ Live!NoActivity \in [seen : BOOLEAN, silent : Nat]
      /\ Live!NoActivity.silent = 0
  BY DEF Live!NoActivity
<1>2. CASE Live!Take
  <2>. DEFINE x == Live!NextChunk
              a == Live!Active(liActivity, x \in liSpeech)
  <2>1. /\ liPhase = "running" /\ liSent' = Append(liSent, x) /\ liSpeech' = liSpeech
        /\ IF Live!Idle(a)
           THEN liPhase' = "closing" /\ liActivity' = Live!NoActivity
           ELSE liActivity' = a /\ liPhase' = liPhase
    BY <1>2 DEF Live!Take, Live!pipeline
  <2>2. /\ a \in [seen : BOOLEAN, silent : Nat]
        /\ a.silent = 0
           \/ (x \notin liSpeech /\ a.silent = liActivity.silent + 1)
    BY <1>0 DEF Live!Active
  <2>. HIDE DEF a, x
  <2>3. /\ liSent' \in Seq(ToSet(liSent')) /\ Len(liSent) \in Nat
        /\ Len(liSent') = Len(liSent) + 1
        /\ \A i \in 1..Len(liSent) : liSent'[i] = liSent[i]
        /\ liSent'[Len(liSent) + 1] = x
    BY <2>1, LiveSends
  <2>4. Quiet(liActivity.silent)
    BY <2>1 DEF LiveInv
  <2>5. ASSUME NEW i \in 1..Len(liSent'), i > Len(liSent') - a.silent
        PROVE  liSent'[i] \notin liSpeech'
    <3>1. CASE a.silent = 0
      BY <2>3, <2>5, <3>1
    <3>2. CASE x \notin liSpeech /\ a.silent = liActivity.silent + 1
      <4>1. CASE i = Len(liSent) + 1
        BY <2>1, <2>3, <3>2, <4>1
      <4>2. CASE i # Len(liSent) + 1
        <5>1. i \in 1..Len(liSent) /\ i > Len(liSent) - liActivity.silent
          BY <1>0, <2>3, <2>5, <3>2, <4>2
        <5>. QED BY <2>1, <2>3, <2>4, <5>1 DEF Quiet
      <4>. QED BY <4>1, <4>2
    <3>. QED BY <2>2, <3>1, <3>2
  <2>6. CASE Live!Idle(a)
    <3>1. a.silent >= Long /\ a.silent \in Nat
      BY <2>2, <2>6 DEF Live!Idle
    <3>2. Quiet(Long)'
      <4>1. \A i \in 1..Len(liSent') : i > Len(liSent') - Long => i > Len(liSent') - a.silent
        BY <1>0, <2>3, <3>1
      <4>. QED BY <2>5, <4>1 DEF Quiet
    <3>3. Quiet(0)'
      BY <2>3 DEF Quiet
    <3>. QED BY <1>1, <2>1, <2>3, <2>6, <3>2, <3>3 DEF LiveInv
  <2>7. CASE ~Live!Idle(a)
    <3>1. Quiet(liActivity.silent)'
      BY <2>1, <2>5, <2>7 DEF Quiet
    <3>. QED BY <2>1, <2>2, <2>3, <2>7, <3>1 DEF LiveInv
  <2>. QED BY <2>6, <2>7
<1>3. CASE Live!Drain
  <2>1. /\ liPhase = "draining" /\ liPhase' = liPhase /\ liActivity' = liActivity
        /\ liSent' = Append(liSent, Live!NextChunk)
    BY <1>3 DEF Live!Drain, Live!pipeline
  <2>. QED BY <1>0, <2>1, LiveSends DEF LiveInv
<1>4. CASE Live!Message
  <2>1. /\ liSent' = liSent /\ liSpeech' = liSpeech /\ liPhase' = liPhase
        /\ liActivity' \in {[seen |-> TRUE, silent |-> 0], liActivity}
    BY <1>4 DEF Live!Message, Live!pipeline
  <2>2. /\ [seen |-> TRUE, silent |-> 0] \in [seen : BOOLEAN, silent : Nat]
        /\ [seen |-> TRUE, silent |-> 0].silent = 0
    OBVIOUS
  <2>. QED BY <2>1, <2>2, LiveStays
<1>5. CASE Live!Disconnect
  <2>1. /\ liSent' = liSent /\ liSpeech' = liSpeech /\ liPhase = "running"
        /\ liActivity' = Live!NoActivity
        /\ liPhase' \in {"ending", "quiet", "reconnecting"}
    BY <1>5 DEF Live!Disconnect, Live!Broken, Live!Ending, Live!pipeline
  <2>. QED BY <1>1, <2>1, LiveStays
<1>6. CASE Live!Reconnected
  <2>1. /\ liSent' = liSent /\ liSpeech' = liSpeech /\ liPhase = "reconnecting"
        /\ liActivity' = Live!NoActivity /\ liPhase' = "running"
    BY <1>6 DEF Live!Reconnected, Live!pipeline
  <2>. QED BY <1>1, <2>1, LiveStays
<1>7. CASE Live!Say \/ Live!Stop \/ Live!Listens \/ Live!SendEvent \/ Live!Collect
  <2>1. /\ liSent' = liSent /\ liSpeech' = liSpeech /\ liPhase' = liPhase
        /\ liActivity' = liActivity
    BY <1>7 DEF Live!Say, Live!Stop, Live!Listens, Live!WaitEnds, Live!TakeEvent,
                Live!SendEvent, Live!Collect, Live!connected, Live!pipeline
  <2>. QED BY <2>1, LiveStays
<1>8. CASE Live!StopSeen \/ Live!DrainEnds \/ Live!CloseEnds \/ Live!Resume
           \/ Live!Resumed
  <2>1. /\ liSent' = liSent /\ liSpeech' = liSpeech /\ liActivity' = liActivity
        /\ \/ liPhase' \in {"draining", "ending"}
           \/ liPhase = "closing" /\ liPhase' = "suspended"
           \/ liPhase = "suspended" /\ liPhase' = "resuming"
           \/ liPhase = "resuming" /\ liPhase' = "running"
    BY <1>8 DEF Live!StopSeen, Live!DrainEnds, Live!CloseEnds, Live!Resume,
                Live!Resumed, Live!Ending, Live!connected, Live!pipeline
  <2>. QED BY <2>1, LiveStays
<1>9. CASE Live!ResumeFails \/ Live!BackoffEnds \/ Live!StopWithout \/ Live!Buffer
           \/ Live!ReconnectFails \/ Live!Over
  <2>1. /\ liSent' = liSent /\ liSpeech' = liSpeech /\ liActivity' = liActivity
        /\ \/ liPhase' \in {"ending", "over"}
           \/ liPhase = "resuming" /\ liPhase' = "waiting"
           \/ liPhase = "waiting" /\ liPhase' = "resuming"
           \/ liPhase \in {"quiet", "reconnecting"} /\ liPhase' \in {"quiet", "reconnecting"}
    BY <1>9 DEF Live!ResumeFails, Live!BackoffEnds, Live!StopWithout, Live!Buffer,
                Live!ReconnectFails, Live!Over, Live!Ending, Live!Drop,
                Live!connected, Live!pipeline
  <2>. QED BY <2>1, LiveStays
<1>. QED BY <1>2, <1>3, <1>4, <1>5, <1>6, <1>7, <1>8, <1>9
         DEF Live!LiveNext, Live!Connects, Live!Works

LEMMA LiveStart ==
  ASSUME Live!LiveInit
  PROVE  LiveInv
<1>1. /\ liSent = << >> /\ liPhase = "running" /\ liActivity = Live!NoActivity
  BY DEF Live!LiveInit
<1>2. liSent \in Seq(ToSet(liSent)) /\ Len(liSent) = 0
  BY <1>1
<1>. QED BY <1>1, <1>2 DEF LiveInv, Quiet, Live!NoActivity

LEMMA LiveStep ==
  ASSUME LiveInv, Live!LiveNext \/ UNCHANGED live
  PROVE  LiveInv'
<1>1. CASE UNCHANGED live
  <2>1. /\ liSent' = liSent /\ liSpeech' = liSpeech /\ liPhase' = liPhase
        /\ liActivity' = liActivity
    BY <1>1 DEF live
  <2>. QED BY <2>1, LiveStays
<1>. QED BY <1>1, LiveKept

\* A connection that was closed for silence has sent nothing else lately.
LEMMA LiveInSilence ==
  ASSUME LiveInv
  PROVE  Live!SuspendedInSilence
<1>. SUFFICES ASSUME liPhase \in {"closing", "suspended"},
                     NEW k \in Live!Range(Live!Newest(liSent, Long))
              PROVE  k \notin liSpeech
  BY DEF Live!SuspendedInSilence
<1>1. Quiet(Long) /\ liSent \in Seq(ToSet(liSent)) /\ Len(liSent) \in Nat
      /\ Long \in Nat \ {0}
  BY LiveBounds DEF LiveInv, Live!LiveAssumption
<1>. DEFINE first == IF Len(liSent) > Long THEN Len(liSent) - Long + 1 ELSE 1
<1>2. first \in Nat \ {0} /\ first > Len(liSent) - Long
  BY <1>1
<1>3. Live!Newest(liSent, Long) = SubSeq(liSent, first, Len(liSent))
  BY DEF Live!Newest
<1>. HIDE DEF first
<1>4. PICK i \in DOMAIN SubSeq(liSent, first, Len(liSent)) :
        k = SubSeq(liSent, first, Len(liSent))[i]
  BY <1>3 DEF Live!Range
<1>5. /\ i + first - 1 \in first..Len(liSent)
      /\ k = liSent[i + first - 1]
  <2>1. first <= Len(liSent) + 1
    BY <1>1 DEF first
  <2>2. SubSeq(liSent, first, Len(liSent)) =
          [j \in 1..(Len(liSent) - first + 1) |-> liSent[first + j - 1]]
    BY <1>1, <1>2, <2>1
  <2>3. i \in 1..(Len(liSent) - first + 1) /\ k = liSent[first + i - 1]
    BY <1>4, <2>2
  <2>. QED BY <1>1, <1>2, <2>3
<1>6. /\ i + first - 1 \in 1..Len(liSent)
      /\ i + first - 1 > Len(liSent) - Long
  BY <1>1, <1>2, <1>5
<1>. QED BY <1>1, <1>5, <1>6 DEF Quiet

-----------------------------------------------------------------------------
(* The subtitle feed: what the window shows belongs to speech that is      *)
(* still recognized, and to the conversation that is opened.               *)

FeedEvents ==
  [kind : {"partial", "final", "cancelled"}, of : Speeches] \cup {Feed!Reset}
Facts == Speeches \X {"text", "translation"}
Requests ==
  [kind : {"open", "context", "refresh"}, conversation : Conversations,
   version : Nat, page : (SUBSET Facts) \cup {None}]

FeedTypes ==
  /\ feSpeech \in [Speeches -> {"idle", "live", "stored", "over"}]
  /\ feRow \in [Speeches -> Conversations \cup {None}]
  /\ feRevoking \subseteq feRevoked /\ feRevoked \subseteq Speeches
  /\ feSubscribed \in BOOLEAN /\ feLag \in BOOLEAN
  /\ feEvents \in Seq(FeedEvents)
  /\ feResults \in Seq([kind : {"completed"}, of : Speeches])
  /\ fePreviews \subseteq Speeches
  /\ feOpened \in Conversations \cup {None} /\ feVersion \in Nat
  /\ feRequest \in Requests \cup {None} /\ feLate \in Requests \cup {None}
  /\ fePool \subseteq Facts

\* Speech whose preview may be shown
Recognized(u) == feSpeech[u] \in {"live", "stored"} /\ u \notin feRevoked

\* One of these announcements comes after the i-th of s.
Follows(s, i, E) == \E j \in i+1..Len(s) : s[j] \in E
Ends(u) == {Feed!Reset, Feed!Event("final", u), Feed!Event("cancelled", u)}

\* A preview, and the announcement of one, is of speech that is recognized, or
\* what ends it follows; the filter, which holds a final subtitle back, is
\* followed by a cancellation.
GhostInv ==
  /\ ~feSubscribed => feEvents = << >> /\ fePreviews = {} /\ ~feLag
  /\ \A u \in fePreviews :
       \/ Recognized(u) \/ u \in feRevoking \/ feLag
       \/ Follows(feEvents, 0, Ends(u))
  /\ \A u \in Speeches : \A i \in 1..Len(feEvents) :
       /\ feEvents[i] = Feed!Event("partial", u) =>
            \/ Recognized(u) \/ u \in feRevoking
            \/ Follows(feEvents, i, Ends(u))
       /\ feEvents[i] = Feed!Event("final", u) /\ u \in feRevoked =>
            \/ u \in feRevoking
            \/ Follows(feEvents, i, {Feed!Event("cancelled", u)})

PageOf(r) ==
  r # None /\ r.page # None => \A f \in r.page : feRow[f[1]] = r.conversation

\* A subtitle has its conversation from when it is stored on, and what is
\* shown and read is of the conversation it is shown and read for.
PoolInv ==
  /\ \A u \in Speeches :
       /\ feRow[u] # None => feSpeech[u] \in {"stored", "over"}
       /\ feSpeech[u] = "stored" => feRow[u] # None
  /\ \A u \in Speeches : \A i \in 1..Len(feEvents) :
       feEvents[i] = Feed!Event("final", u) => feRow[u] # None
  /\ PageOf(feRequest) /\ PageOf(feLate)
  /\ feLate # None => feLate.page # None
  /\ \A f \in fePool : feRow[f[1]] = feOpened /\ feRow[f[1]] # None

\* What announcing a does to the channel: it drops the oldest, and reports it.
Goes(a) ==
  /\ feSubscribed =>
     /\ \A i \in 1..Len(feEvents') :
          \/ \E k \in 1..Len(a) : feEvents'[i] = a[k]
          \/ \E k \in 1..Len(feEvents) :
               /\ feEvents'[i] = feEvents[k]
               /\ \A E : Follows(feEvents, k, E) => Follows(feEvents', i, E)
               /\ \A E : \A m \in 1..Len(a) : a[m] \in E => Follows(feEvents', i, E)
     /\ \A E : \/ feLag'
               \/ /\ Follows(feEvents, 0, E) => Follows(feEvents', 0, E)
                  /\ \A m \in 1..Len(a) : a[m] \in E => Follows(feEvents', 0, E)
     /\ feLag => feLag'
  /\ ~feSubscribed => feEvents' = feEvents /\ feLag' = feLag

LEMMA FeedAnnounces ==
  ASSUME FeedTypes, NEW a \in Seq(FeedEvents), Feed!Announce(a)
  PROVE  Goes(a) /\ feEvents' \in Seq(FeedEvents) /\ feLag' \in BOOLEAN
<1>. DEFINE all == feEvents \o a
            cut == IF Len(all) > FeedCapacity THEN Len(all) - FeedCapacity ELSE 0
<1>1. CASE ~feSubscribed
  <2>1. feEvents' = feEvents /\ feLag' = feLag
    BY <1>1 DEF Feed!Announce
  <2>. QED BY <1>1, <2>1 DEF Goes, FeedTypes
<1>2. CASE feSubscribed
  <2>1. /\ feEvents' = SubSeq(all, cut + 1, Len(all))
        /\ feLag' = (feLag \/ cut > 0)
    BY <1>2 DEF Feed!Announce
  <2>2. feEvents \in Seq(FeedEvents) /\ feLag \in BOOLEAN
    BY DEF FeedTypes
  <2>3. /\ all \in Seq(FeedEvents) /\ Len(all) = Len(feEvents) + Len(a)
        /\ Len(feEvents) \in Nat /\ Len(a) \in Nat
        /\ \A j \in 1..Len(all) :
             all[j] = IF j <= Len(feEvents) THEN feEvents[j] ELSE a[j - Len(feEvents)]
    BY <2>2, ConcatFacts
  <2>4. cut \in 0..Len(all)
    BY <2>3, FeedBounds DEF Feed!FeedAssumption
  <2>. HIDE DEF all, cut
  <2>5. /\ feEvents' \in Seq(FeedEvents) /\ Len(feEvents') = Len(all) - cut
        /\ \A j \in 1..Len(all) - cut : feEvents'[j] = all[j + cut]
    BY <2>1, <2>3, <2>4
  <2>6. ASSUME NEW i \in 0..Len(feEvents'), NEW E, i + cut <= Len(feEvents)
        PROVE  /\ Follows(feEvents, i + cut, E) => Follows(feEvents', i, E)
               /\ \A m \in 1..Len(a) : a[m] \in E => Follows(feEvents', i, E)
    <3>1. ASSUME NEW j \in i+cut+1..Len(all), all[j] \in E
          PROVE  Follows(feEvents', i, E)
      <4>1. j - cut \in i+1..Len(feEvents') /\ feEvents'[j - cut] \in E
        BY <2>3, <2>4, <2>5, <3>1
      <4>. QED BY <4>1 DEF Follows
    <3>2. ASSUME NEW j \in i+cut+1..Len(feEvents), feEvents[j] \in E
          PROVE  Follows(feEvents', i, E)
      <4>1. j \in i+cut+1..Len(all) /\ all[j] \in E
        BY <2>3, <2>4, <3>2
      <4>. QED BY <3>1, <4>1
    <3>3. ASSUME NEW m \in 1..Len(a), a[m] \in E
          PROVE  Follows(feEvents', i, E)
      <4>0. i \in Nat /\ cut \in Nat /\ m \in Nat
        BY <2>3, <2>4, <2>5
      <4>1. m + Len(feEvents) \in i+cut+1..Len(all)
        BY <2>3, <2>6, <4>0
      <4>2. all[m + Len(feEvents)] = a[m]
        <5>1. /\ m + Len(feEvents) \in 1..Len(all)
              /\ ~(m + Len(feEvents) <= Len(feEvents))
              /\ (m + Len(feEvents)) - Len(feEvents) = m
          BY <2>3, <4>0
        <5>. QED BY <2>3, <5>1
      <4>. QED BY <3>1, <3>3, <4>1, <4>2
    <3>. QED BY <3>2, <3>3 DEF Follows
  <2>7. ASSUME NEW i \in 1..Len(feEvents')
        PROVE  \/ \E k \in 1..Len(a) : feEvents'[i] = a[k]
               \/ \E k \in 1..Len(feEvents) :
                    /\ feEvents'[i] = feEvents[k]
                    /\ \A E : Follows(feEvents, k, E) => Follows(feEvents', i, E)
                    /\ \A E : \A m \in 1..Len(a) :
                         a[m] \in E => Follows(feEvents', i, E)
    <3>1. CASE i + cut <= Len(feEvents)
      <4>0. i \in Nat \ {0} /\ cut \in Nat /\ i \in 1..Len(all) - cut
        BY <2>3, <2>4, <2>5
      <4>1. i + cut \in 1..Len(feEvents) /\ feEvents'[i] = feEvents[i + cut]
        BY <2>3, <2>5, <3>1, <4>0
      <4>. QED BY <2>6, <3>1, <4>1
    <3>2. CASE i + cut > Len(feEvents)
      <4>1. i + cut - Len(feEvents) \in 1..Len(a)
            /\ feEvents'[i] = a[i + cut - Len(feEvents)]
        BY <2>3, <2>4, <2>5, <3>2
      <4>. QED BY <4>1
    <3>. QED BY <2>3, <2>4, <3>1, <3>2
  <2>8. ASSUME NEW E, ~feLag'
        PROVE  /\ Follows(feEvents, 0, E) => Follows(feEvents', 0, E)
               /\ \A m \in 1..Len(a) : a[m] \in E => Follows(feEvents', 0, E)
    <3>0. ~(cut > 0)
      BY <2>1, <2>8
    <3>1. cut = 0 /\ 0 \in 0..Len(feEvents')
      BY <2>3, <2>4, <2>5, <3>0
    <3>. QED BY <2>3, <2>6, <3>1
  <2>. QED BY <1>2, <2>1, <2>2, <2>5, <2>7, <2>8 DEF Goes
<1>. QED BY <1>1, <1>2

\* A step that announces nothing
LEMMA FeedStays ==
  ASSUME FeedTypes, feEvents' = feEvents, feLag' = feLag
  PROVE  Goes(<< >>)
BY DEF Goes, FeedTypes

\* The window sees no ghosts after a step that announces what it ends.
LEMMA FeedGhosts ==
  ASSUME FeedTypes, FeedTypes', GhostInv, NEW a \in Seq(FeedEvents), Goes(a),
         feSubscribed' = feSubscribed, fePreviews' = fePreviews,
         \A u \in feRevoked' : u \in feRevoked \/ u \in feRevoking',
         \A u \in Speeches :
           /\ Recognized(u) =>
                \/ Recognized(u)' \/ u \in feRevoking'
                \/ \E m \in 1..Len(a) : a[m] \in Ends(u)
           /\ u \in feRevoking =>
                \/ u \in feRevoking'
                \/ \E m \in 1..Len(a) : a[m] = Feed!Event("cancelled", u)
           /\ \A m \in 1..Len(a) :
                /\ a[m] = Feed!Event("partial", u) => Recognized(u)'
                /\ a[m] = Feed!Event("final", u) => u \notin feRevoked'
  PROVE  GhostInv'
<1>1. CASE ~feSubscribed
  <2>1. /\ feEvents' = << >> /\ fePreviews' = {} /\ ~feLag' /\ ~feSubscribed'
    BY <1>1 DEF GhostInv, Goes
  <2>. QED BY <2>1 DEF GhostInv
<1>2. CASE feSubscribed
  <2>. DEFINE Over(i, u) == Recognized(u)' \/ u \in feRevoking' \/ Follows(feEvents', i, Ends(u))
  <2>1. ASSUME NEW u \in Speeches, NEW i \in 0..Len(feEvents'),
               \A m \in 1..Len(a) : a[m] \in Ends(u) => Follows(feEvents', i, Ends(u)),
               Recognized(u) \/ u \in feRevoking
        PROVE  Over(i, u)
    BY <2>1 DEF Ends
  <2>2. ASSUME NEW u \in fePreviews'
        PROVE  feLag' \/ Over(0, u)
    <3>1. u \in Speeches /\ 0 \in 0..Len(feEvents')
      BY DEF FeedTypes
    <3>2. \/ Recognized(u) \/ u \in feRevoking \/ feLag
          \/ Follows(feEvents, 0, Ends(u))
      BY <2>2 DEF GhostInv
    <3>3. \/ feLag'
          \/ /\ Follows(feEvents, 0, Ends(u)) => Follows(feEvents', 0, Ends(u))
             /\ \A m \in 1..Len(a) : a[m] \in Ends(u) => Follows(feEvents', 0, Ends(u))
      BY <1>2 DEF Goes
    <3>4. feLag => feLag'
      BY <1>2 DEF Goes
    <3>. QED BY <2>1, <3>1, <3>2, <3>3, <3>4
  <2>3. ASSUME NEW u \in Speeches, NEW i \in 1..Len(feEvents')
        PROVE  /\ feEvents'[i] = Feed!Event("partial", u) => Over(i, u)
               /\ feEvents'[i] = Feed!Event("final", u) /\ u \in feRevoked' =>
                    \/ u \in feRevoking'
                    \/ Follows(feEvents', i, {Feed!Event("cancelled", u)})
    <3>1. CASE \E k \in 1..Len(a) : feEvents'[i] = a[k]
      BY <3>1
    <3>2. ASSUME NEW k \in 1..Len(feEvents),
                 feEvents'[i] = feEvents[k],
                 \A E : Follows(feEvents, k, E) => Follows(feEvents', i, E),
                 \A E : \A m \in 1..Len(a) : a[m] \in E => Follows(feEvents', i, E)
          PROVE  /\ feEvents'[i] = Feed!Event("partial", u) => Over(i, u)
                 /\ feEvents'[i] = Feed!Event("final", u) /\ u \in feRevoked' =>
                      \/ u \in feRevoking'
                      \/ Follows(feEvents', i, {Feed!Event("cancelled", u)})
      <4>1. /\ Follows(feEvents, k, Ends(u)) => Follows(feEvents', i, Ends(u))
            /\ \A m \in 1..Len(a) : a[m] \in Ends(u) => Follows(feEvents', i, Ends(u))
        BY <3>2
      <4>2. ASSUME feEvents'[i] = Feed!Event("partial", u) PROVE Over(i, u)
        <5>1. Recognized(u) \/ u \in feRevoking \/ Follows(feEvents, k, Ends(u))
          BY <3>2, <4>2 DEF GhostInv
        <5>. QED BY <2>1, <4>1, <5>1
      <4>3. ASSUME feEvents'[i] = Feed!Event("final", u), u \in feRevoked',
                   u \notin feRevoking'
            PROVE  Follows(feEvents', i, {Feed!Event("cancelled", u)})
        <5>1. u \in feRevoking \/ Follows(feEvents, k, {Feed!Event("cancelled", u)})
          BY <3>2, <4>3 DEF GhostInv
        <5>2. CASE Follows(feEvents, k, {Feed!Event("cancelled", u)})
          BY <3>2, <5>2
        <5>3. CASE u \in feRevoking
          <6>1. PICK m \in 1..Len(a) : a[m] \in {Feed!Event("cancelled", u)}
            BY <4>3, <5>3
          <6>. QED BY <3>2, <6>1
        <5>. QED BY <5>1, <5>2, <5>3
      <4>. QED BY <4>2, <4>3
    <3>. QED BY <1>2, <3>1, <3>2 DEF Goes
  <2>4. feSubscribed'
    BY <1>2
  <2>. QED BY <2>2, <2>3, <2>4 DEF GhostInv
<1>. QED BY <1>1, <1>2

\* The pool and the pages stay right when a subtitle gets its conversation.
LEMMA FeedPools ==
  ASSUME FeedTypes, FeedTypes', PoolInv, NEW a \in Seq(FeedEvents), Goes(a),
         feRequest' = feRequest, feLate' = feLate, fePool' = fePool,
         feOpened' = feOpened,
         \A u \in Speeches :
           /\ feRow'[u] = feRow[u] \/ (feRow[u] = None /\ feRow'[u] # None)
           /\ feRow'[u] # None => feSpeech'[u] \in {"stored", "over"}
           /\ feSpeech'[u] = "stored" => feRow'[u] # None
           /\ \A m \in 1..Len(a) :
                a[m] = Feed!Event("final", u) => feRow'[u] # None
  PROVE  PoolInv'
<1>0. None \notin Conversations
  BY FeedBounds DEF Feed!FeedAssumption
<1>1. ASSUME NEW r \in Requests \cup {None}, PageOf(r)
      PROVE  PageOf(r)'
  <2>1. ASSUME r # None, r.page # None, NEW f \in r.page
        PROVE  feRow'[f[1]] = r.conversation
    <3>1. r.conversation \in Conversations /\ r.page \subseteq Facts
      BY <2>1 DEF Requests
    <3>2. f[1] \in Speeches
      BY <2>1, <3>1 DEF Facts
    <3>3. feRow[f[1]] = r.conversation
      BY <1>1, <2>1 DEF PageOf
    <3>. QED BY <1>0, <3>1, <3>2, <3>3
  <2>. QED BY <2>1 DEF PageOf
<1>2. PageOf(feRequest)' /\ PageOf(feLate)'
  BY <1>1 DEF FeedTypes, PoolInv, PageOf
<1>3. ASSUME NEW f \in fePool'
      PROVE  feRow'[f[1]] = feOpened' /\ feRow'[f[1]] # None
  <2>1. f[1] \in Speeches
    BY DEF FeedTypes, Facts
  <2>2. feRow[f[1]] = feOpened /\ feRow[f[1]] # None
    BY <1>3 DEF PoolInv
  <2>. QED BY <2>1, <2>2
<1>4. ASSUME NEW u \in Speeches, NEW i \in 1..Len(feEvents'),
             feEvents'[i] = Feed!Event("final", u)
      PROVE  feRow'[u] # None
  <2>1. CASE \E k \in 1..Len(feEvents) : feEvents'[i] = feEvents[k]
    <3>1. feRow[u] # None
      BY <1>4, <2>1 DEF PoolInv
    <3>. QED BY <3>1
  <2>2. CASE \E k \in 1..Len(a) : feEvents'[i] = a[k]
    BY <1>4, <2>2
  <2>. QED BY <2>1, <2>2 DEF Goes
<1>5. feLate' # None => feLate'.page # None
  BY DEF PoolInv
<1>. QED BY <1>2, <1>3, <1>4, <1>5 DEF PoolInv

\* The order in which cancellations are announced leaves nobody out.
LEMMA FeedOrders ==
  ASSUME NEW S \in SUBSET Speeches,
         NEW named \in Feed!Bijection(1..Feed!Cardinality(S), S)
  PROVE  /\ Cardinality(S) \in Nat /\ named \in [1..Cardinality(S) -> S]
         /\ \A u \in S : \E m \in 1..Cardinality(S) : named[m] = u
<1>1. Feed!Cardinality(S) = Cardinality(S)
  BY DEF Feed!Cardinality, Cardinality
<1>2. IsFiniteSet(Speeches)
  <2>1. Feed!IsFiniteSet(Speeches) <=> IsFiniteSet(Speeches)
    BY DEF Feed!IsFiniteSet, IsFiniteSet
  <2>. QED BY <2>1, FeedBounds DEF Feed!FeedAssumption
<1>3. IsFiniteSet(S) /\ Cardinality(S) \in Nat
  BY <1>2, FS_Subset, FS_CardinalityType
<1>4. named \in Feed!Surjection(1..Cardinality(S), S)
  BY <1>1 DEF Feed!Bijection
<1>. QED BY <1>3, <1>4 DEF Feed!Surjection

FeedInv == FeedTypes /\ GhostInv /\ PoolInv

LEMMA FeedNothing ==
  \A S : << >> \in Seq(S)
OBVIOUS

\* The announcements are typed.
LEMMA FeedEventTypes ==
  /\ << >> \in Seq(FeedEvents)
  /\ <<Feed!Reset>> \in Seq(FeedEvents)
  /\ \A u \in Speeches : \A k \in {"partial", "final", "cancelled"} :
       /\ Feed!Event(k, u) \in FeedEvents
       /\ <<Feed!Event(k, u)>> \in Seq(FeedEvents)
       /\ Feed!Event(k, u) # Feed!Reset
<1>1. Feed!Reset \in FeedEvents /\ Feed!Reset.kind = "reset"
  BY DEF FeedEvents, Feed!Reset, Feed!Event
<1>2. ASSUME NEW u \in Speeches, NEW k \in {"partial", "final", "cancelled"}
      PROVE  Feed!Event(k, u) \in FeedEvents /\ Feed!Event(k, u).kind = k
  BY DEF FeedEvents, Feed!Event
<1>. QED BY <1>1, <1>2

\* What a step of the publisher that announces a does to the speech u
Publishes(a, u) ==
  /\ Recognized(u) =>
       \/ Recognized(u)' \/ u \in feRevoking'
       \/ \E m \in 1..Len(a) : a[m] \in Ends(u)
  /\ u \in feRevoking =>
       \/ u \in feRevoking'
       \/ \E m \in 1..Len(a) : a[m] = Feed!Event("cancelled", u)
  /\ \A m \in 1..Len(a) :
       /\ a[m] = Feed!Event("partial", u) => Recognized(u)'
       /\ a[m] = Feed!Event("final", u) => u \notin feRevoked' /\ feRow'[u] # None
  /\ feRow'[u] = feRow[u] \/ (feRow[u] = None /\ feRow'[u] # None)
  /\ feRow'[u] # None => feSpeech'[u] \in {"stored", "over"}
  /\ feSpeech'[u] = "stored" => feRow'[u] # None

LEMMA FeedPublished ==
  ASSUME FeedInv, NEW a \in Seq(FeedEvents),
         Feed!Announce(a) \/ (feEvents' = feEvents /\ feLag' = feLag /\ a = << >>),
         feSpeech' \in [Speeches -> {"idle", "live", "stored", "over"}],
         feRow' \in [Speeches -> Conversations \cup {None}],
         feRevoking' \subseteq feRevoked', feRevoked' \subseteq Speeches,
         feResults' \in Seq([kind : {"completed"}, of : Speeches]),
         Feed!Window,
         \A u \in feRevoked' : u \in feRevoked \/ u \in feRevoking',
         \A u \in Speeches : Publishes(a, u)
  PROVE  FeedInv'
<1>1. Goes(a) /\ feEvents' \in Seq(FeedEvents) /\ feLag' \in BOOLEAN
  <2>1. CASE Feed!Announce(a)
    BY <2>1, FeedAnnounces DEF FeedInv
  <2>2. CASE feEvents' = feEvents /\ feLag' = feLag /\ a = << >>
    BY <2>2, FeedStays DEF FeedInv, FeedTypes
  <2>. QED BY <2>1, <2>2
<1>2. /\ feSubscribed' = feSubscribed /\ fePreviews' = fePreviews
      /\ feOpened' = feOpened /\ feVersion' = feVersion
      /\ feRequest' = feRequest /\ feLate' = feLate /\ fePool' = fePool
  BY DEF Feed!Window, Feed!socket, Feed!view
<1>3. FeedTypes'
  BY <1>1, <1>2 DEF FeedInv, FeedTypes
<1>4. GhostInv'
  BY <1>1, <1>2, <1>3, FeedGhosts DEF FeedInv, Publishes
<1>5. PoolInv'
  BY <1>1, <1>2, <1>3, FeedPools DEF FeedInv, Publishes
<1>. QED BY <1>3, <1>4, <1>5 DEF FeedInv

LEMMA FeedStores ==
  ASSUME FeedInv, NEW u \in Speeches, NEW c \in Conversations, Feed!Store(u, c)
  PROVE  FeedInv'
<1>0. None \notin Conversations
  BY FeedBounds DEF Feed!FeedAssumption
<1>1. /\ feSpeech[u] \in {"idle", "live"} /\ feSpeech' = [feSpeech EXCEPT ![u] = "stored"]
      /\ feRow' = [feRow EXCEPT ![u] = c]
      /\ feRevoked' = feRevoked /\ feRevoking' = feRevoking
      /\ feEvents' = feEvents /\ feLag' = feLag /\ feResults' = feResults
      /\ Feed!Window
  BY DEF Feed!Store
<1>2. /\ feSpeech \in [Speeches -> {"idle", "live", "stored", "over"}]
      /\ feRow \in [Speeches -> Conversations \cup {None}]
      /\ feRevoking \subseteq feRevoked /\ feRevoked \subseteq Speeches
      /\ feResults \in Seq([kind : {"completed"}, of : Speeches])
  BY DEF FeedInv, FeedTypes
<1>3. \A v \in Speeches :
        /\ feRow[v] # None => feSpeech[v] \in {"stored", "over"}
        /\ feSpeech[v] = "stored" => feRow[v] # None
  BY DEF FeedInv, PoolInv
<1>4. ASSUME NEW v \in Speeches
      PROVE  /\ Recognized(v) => Recognized(v)'
             /\ feRow'[v] = feRow[v] \/ (feRow[v] = None /\ feRow'[v] # None)
             /\ feRow'[v] # None => feSpeech'[v] \in {"stored", "over"}
             /\ feSpeech'[v] = "stored" => feRow'[v] # None
  BY <1>0, <1>1, <1>2, <1>3 DEF Recognized
<1>5. \A v \in Speeches : Publishes(<< >>, v)
  BY <1>1, <1>4 DEF Publishes
<1>6. /\ feSpeech' \in [Speeches -> {"idle", "live", "stored", "over"}]
      /\ feRow' \in [Speeches -> Conversations \cup {None}]
  BY <1>1, <1>2
<1>. QED BY <1>1, <1>2, <1>5, <1>6, FeedEventTypes, FeedPublished

\* The steps of the publisher that end or begin speech
LEMMA FeedSpeaks ==
  ASSUME FeedInv, NEW u \in Speeches,
         Feed!Preview(u) \/ Feed!Cancel(u) \/ Feed!Stored(u)
  PROVE  FeedInv'
<1>1. /\ feRow' = feRow /\ feRevoked' = feRevoked /\ feRevoking' = feRevoking
      /\ feResults' = feResults /\ Feed!Window
  BY DEF Feed!Preview, Feed!Cancel, Feed!Stored
<1>2. /\ feSpeech \in [Speeches -> {"idle", "live", "stored", "over"}]
      /\ feRow \in [Speeches -> Conversations \cup {None}]
      /\ feRevoking \subseteq feRevoked /\ feRevoked \subseteq Speeches
      /\ feResults \in Seq([kind : {"completed"}, of : Speeches])
  BY DEF FeedInv, FeedTypes
<1>3. \A v \in Speeches :
        /\ feRow[v] # None => feSpeech[v] \in {"stored", "over"}
        /\ feSpeech[v] = "stored" => feRow[v] # None
  BY DEF FeedInv, PoolInv
<1>4. CASE Feed!Preview(u)
  <2>. DEFINE a == <<Feed!Event("partial", u)>>
  <2>1. /\ feSpeech[u] = "idle" /\ u \notin feRevoked
        /\ feSpeech' = [feSpeech EXCEPT ![u] = "live"] /\ Feed!Announce(a)
    BY <1>4 DEF Feed!Preview, Feed!Allowed
  <2>2. a \in Seq(FeedEvents) /\ Len(a) = 1 /\ a[1] = Feed!Event("partial", u)
    BY FeedEventTypes
  <2>. HIDE DEF a
  <2>3. ASSUME NEW v \in Speeches
        PROVE  /\ Recognized(v) => Recognized(v)'
               /\ feRow'[v] # None => feSpeech'[v] \in {"stored", "over"}
               /\ feSpeech'[v] = "stored" => feRow'[v] # None
    BY <1>1, <1>2, <1>3, <2>1 DEF Recognized
  <2>4. ASSUME NEW v \in Speeches, NEW m \in 1..Len(a)
        PROVE  /\ a[m] = Feed!Event("partial", v) => Recognized(v)'
               /\ a[m] # Feed!Event("final", v)
    <3>1. m = 1
      BY <2>2
    <3>2. Recognized(u)'
      BY <1>1, <1>2, <2>1 DEF Recognized
    <3>. QED BY <2>2, <3>1, <3>2 DEF Feed!Event
  <2>5. feSpeech' \in [Speeches -> {"idle", "live", "stored", "over"}]
    BY <1>2, <2>1
  <2>6. \A v \in Speeches : Publishes(a, v)
    BY <1>1, <2>3, <2>4 DEF Publishes
  <2>. QED BY <1>1, <1>2, <2>1, <2>2, <2>5, <2>6, FeedPublished
<1>5. CASE Feed!Cancel(u)
  <2>. DEFINE a == <<Feed!Event("cancelled", u)>>
  <2>1. /\ feSpeech[u] = "live"
        /\ feSpeech' = [feSpeech EXCEPT ![u] = "over"] /\ Feed!Announce(a)
    BY <1>5 DEF Feed!Cancel
  <2>2. a \in Seq(FeedEvents) /\ Len(a) = 1 /\ a[1] = Feed!Event("cancelled", u)
    BY FeedEventTypes
  <2>. HIDE DEF a
  <2>3. ASSUME NEW v \in Speeches
        PROVE  /\ Recognized(v) => Recognized(v)' \/ v = u
               /\ feRow'[v] # None => feSpeech'[v] \in {"stored", "over"}
               /\ feSpeech'[v] = "stored" => feRow'[v] # None
    BY <1>1, <1>2, <1>3, <2>1 DEF Recognized
  <2>4. \E m \in 1..Len(a) : a[m] \in Ends(u)
    BY <2>2 DEF Ends
  <2>5. ASSUME NEW v \in Speeches, NEW m \in 1..Len(a)
        PROVE  a[m] # Feed!Event("partial", v) /\ a[m] # Feed!Event("final", v)
    <3>1. m = 1
      BY <2>2
    <3>. QED BY <2>2, <3>1 DEF Feed!Event
  <2>6. feSpeech' \in [Speeches -> {"idle", "live", "stored", "over"}]
    BY <1>2, <2>1
  <2>7. \A v \in Speeches : Publishes(a, v)
    BY <1>1, <2>3, <2>4, <2>5 DEF Publishes
  <2>. QED BY <1>1, <1>2, <2>1, <2>2, <2>6, <2>7, FeedPublished
<1>6. CASE Feed!Stored(u)
  <2>1. /\ feSpeech[u] = "stored" /\ feSpeech' = [feSpeech EXCEPT ![u] = "over"]
        /\ IF u \notin feRevoked THEN Feed!Announce(<<Feed!Event("final", u)>>)
                                 ELSE feEvents' = feEvents /\ feLag' = feLag
    BY <1>6 DEF Feed!Stored, Feed!Allowed
  <2>2. ASSUME NEW v \in Speeches
        PROVE  /\ Recognized(v) => Recognized(v)' \/ (v = u /\ u \notin feRevoked)
               /\ feRow'[v] # None => feSpeech'[v] \in {"stored", "over"}
               /\ feSpeech'[v] = "stored" => feRow'[v] # None
    BY <1>1, <1>2, <1>3, <2>1 DEF Recognized
  <2>3. feSpeech' \in [Speeches -> {"idle", "live", "stored", "over"}]
    BY <1>2, <2>1
  <2>4. CASE u \notin feRevoked
    <3>. DEFINE a == <<Feed!Event("final", u)>>
    <3>1. a \in Seq(FeedEvents) /\ Len(a) = 1 /\ a[1] = Feed!Event("final", u)
          /\ Feed!Announce(a)
      BY <2>1, <2>4, FeedEventTypes
    <3>. HIDE DEF a
    <3>2. \E m \in 1..Len(a) : a[m] \in Ends(u)
      BY <3>1 DEF Ends
    <3>3. feRow'[u] # None
      BY <1>1, <1>3, <2>1
    <3>4. ASSUME NEW v \in Speeches, NEW m \in 1..Len(a)
          PROVE  /\ a[m] # Feed!Event("partial", v)
                 /\ a[m] = Feed!Event("final", v) =>
                      v \notin feRevoked' /\ feRow'[v] # None
      <4>1. m = 1
        BY <3>1
      <4>. QED BY <1>1, <2>4, <3>1, <3>3, <4>1 DEF Feed!Event
    <3>5. \A v \in Speeches : Publishes(a, v)
      BY <1>1, <2>2, <3>2, <3>4 DEF Publishes
    <3>. QED BY <1>1, <1>2, <2>3, <3>1, <3>5, FeedPublished
  <2>5. CASE u \in feRevoked
    <3>1. feEvents' = feEvents /\ feLag' = feLag
      BY <2>1, <2>5
    <3>2. \A v \in Speeches : Publishes(<< >>, v)
      BY <1>1, <2>2, <2>5 DEF Publishes
    <3>. QED BY <1>1, <1>2, <2>3, <3>1, <3>2, FeedEventTypes, FeedPublished
  <2>. QED BY <2>4, <2>5
<1>. QED BY <1>4, <1>5, <1>6

\* The steps of the publisher that leave rows alone
LEMMA FeedTranslates ==
  ASSUME FeedInv, NEW u \in Speeches,
         Feed!Translate(u) \/ Feed!TranslationCompleted(u)
  PROVE  FeedInv'
<1>1. /\ feSpeech' = feSpeech /\ feRow' = feRow
      /\ feRevoked' = feRevoked /\ feRevoking' = feRevoking
      /\ feEvents' = feEvents /\ feLag' = feLag /\ Feed!Window
  BY DEF Feed!Translate, Feed!TranslationCompleted
<1>2. /\ feSpeech \in [Speeches -> {"idle", "live", "stored", "over"}]
      /\ feRow \in [Speeches -> Conversations \cup {None}]
      /\ feRevoking \subseteq feRevoked /\ feRevoked \subseteq Speeches
      /\ feResults \in Seq([kind : {"completed"}, of : Speeches])
  BY DEF FeedInv, FeedTypes
<1>3. \A v \in Speeches : Publishes(<< >>, v)
  BY <1>1 DEF Publishes, Recognized, FeedInv, PoolInv
<1>4. feResults' \in Seq([kind : {"completed"}, of : Speeches])
  <2>1. CASE feResults' = feResults
    BY <1>2, <2>1
  <2>2. CASE feResults' # feResults
    <3>. DEFINE e == Feed!Event("completed", u)
                s == Append(feResults, e)
    <3>1. e \in [kind : {"completed"}, of : Speeches]
      BY DEF Feed!Event
    <3>2. feResults' = s \/ feResults' = Tail(s)
      BY <2>2 DEF Feed!Translate, Feed!TranslationCompleted
    <3>. HIDE DEF e
    <3>3. /\ s \in Seq([kind : {"completed"}, of : Speeches])
          /\ s # << >>
      BY <1>2, <3>1
    <3>. HIDE DEF s
    <3>. QED BY <3>2, <3>3
  <2>. QED BY <2>1, <2>2
<1>. QED BY <1>1, <1>2, <1>3, <1>4, FeedEventTypes, FeedPublished

LEMMA FeedRevokes ==
  ASSUME FeedInv, Feed!ResetSession \/ Feed!Block \/ Feed!AnnounceBlocked
  PROVE  FeedInv'
<1>1. /\ feRow' = feRow /\ feResults' = feResults /\ Feed!Window
  BY DEF Feed!ResetSession, Feed!Block, Feed!AnnounceBlocked
<1>2. /\ feSpeech \in [Speeches -> {"idle", "live", "stored", "over"}]
      /\ feRow \in [Speeches -> Conversations \cup {None}]
      /\ feRevoking \subseteq feRevoked /\ feRevoked \subseteq Speeches
      /\ feResults \in Seq([kind : {"completed"}, of : Speeches])
  BY DEF FeedInv, FeedTypes
<1>3. \A v \in Speeches :
        /\ feRow[v] # None => feSpeech[v] \in {"stored", "over"}
        /\ feSpeech[v] = "stored" => feRow[v] # None
  BY DEF FeedInv, PoolInv
<1>4. CASE Feed!ResetSession
  <2>. DEFINE a == <<Feed!Reset>>
  <2>1. /\ feSpeech' = [u \in Speeches |-> IF feSpeech[u] = "live" THEN "over" ELSE feSpeech[u]]
        /\ feRevoked' = feRevoked /\ feRevoking' = feRevoking /\ Feed!Announce(a)
    BY <1>4 DEF Feed!ResetSession
  <2>2. a \in Seq(FeedEvents) /\ Len(a) = 1 /\ a[1] = Feed!Reset
    BY FeedEventTypes
  <2>. HIDE DEF a
  <2>3. \A m \in 1..Len(a) : a[m] = Feed!Reset
    BY <2>2
  <2>4. \A v \in Speeches : \E m \in 1..Len(a) : a[m] \in Ends(v)
    BY <2>2 DEF Ends
  <2>5. ASSUME NEW v \in Speeches
        PROVE  /\ feRow'[v] # None => feSpeech'[v] \in {"stored", "over"}
               /\ feSpeech'[v] = "stored" => feRow'[v] # None
    BY <1>1, <1>2, <1>3, <2>1
  <2>6. \A v \in Speeches : Publishes(a, v)
    BY <1>1, <2>1, <2>3, <2>4, <2>5, FeedEventTypes DEF Publishes
  <2>7. feSpeech' \in [Speeches -> {"idle", "live", "stored", "over"}]
    BY <1>2, <2>1
  <2>. QED BY <1>1, <1>2, <2>1, <2>2, <2>6, <2>7, FeedPublished
<1>5. CASE Feed!Block
  <2>1. PICK S \in SUBSET Speeches :
          feRevoking' = S \ feRevoked /\ feRevoked' = feRevoked \cup S
    BY <1>5 DEF Feed!Block
  <2>2. /\ feRevoking = {} /\ feSpeech' = feSpeech
        /\ feEvents' = feEvents /\ feLag' = feLag
    BY <1>5 DEF Feed!Block
  <2>3. \A v \in Speeches : Publishes(<< >>, v)
    BY <1>1, <1>3, <2>1, <2>2 DEF Publishes, Recognized
  <2>. QED BY <1>1, <1>2, <2>1, <2>2, <2>3, FeedEventTypes, FeedPublished
<1>6. CASE Feed!AnnounceBlocked
  <2>1. PICK o \in Feed!Bijection(1..Feed!Cardinality(feRevoking), feRevoking) :
          Feed!Announce([i \in DOMAIN o |-> Feed!Event("cancelled", o[i])])
    BY <1>6 DEF Feed!AnnounceBlocked
  <2>2. /\ feSpeech' = [u \in Speeches |->
                          IF u \in feRevoking /\ feSpeech[u] = "live"
                          THEN "over" ELSE feSpeech[u]]
        /\ feRevoking' = {} /\ feRevoked' = feRevoked
    BY <1>6 DEF Feed!AnnounceBlocked
  <2>. DEFINE n == Cardinality(feRevoking)
              a == [i \in DOMAIN o |-> Feed!Event("cancelled", o[i])]
  <2>3. /\ n \in Nat /\ o \in [1..n -> feRevoking]
        /\ \A u \in feRevoking : \E m \in 1..n : o[m] = u
    BY <1>2, FeedOrders
  <2>4. /\ a \in Seq(FeedEvents) /\ Len(a) = n
        /\ \A m \in 1..n : a[m] = Feed!Event("cancelled", o[m])
    <3>1. DOMAIN o = 1..n
      BY <2>3
    <3>2. \A m \in 1..n : a[m] \in FeedEvents
      BY <1>2, <2>3, <3>1, FeedEventTypes
    <3>. HIDE DEF n
    <3>3. a = [i \in 1..n |-> Feed!Event("cancelled", o[i])]
      BY <3>1
    <3>4. a \in [1..n -> FeedEvents]
      BY <3>2, <3>3
    <3>. QED BY <2>3, <3>3, <3>4
  <2>5. Feed!Announce(a)
    BY <2>1
  <2>. HIDE DEF a, n
  <2>6. ASSUME NEW v \in Speeches PROVE Publishes(a, v)
    <3>1. Recognized(v) => Recognized(v)'
      BY <1>2, <2>2 DEF Recognized
    <3>2. v \in feRevoking =>
            \E m \in 1..Len(a) : a[m] = Feed!Event("cancelled", v)
      BY <2>3, <2>4
    <3>3. ASSUME NEW m \in 1..Len(a)
          PROVE  a[m] # Feed!Event("partial", v) /\ a[m] # Feed!Event("final", v)
      BY <2>4 DEF Feed!Event
    <3>4. /\ feRow'[v] # None => feSpeech'[v] \in {"stored", "over"}
          /\ feSpeech'[v] = "stored" => feRow'[v] # None
      BY <1>1, <1>2, <1>3, <2>2
    <3>. QED BY <1>1, <3>1, <3>2, <3>3, <3>4 DEF Publishes
  <2>7. /\ feSpeech' \in [Speeches -> {"idle", "live", "stored", "over"}]
        /\ feRevoking' \subseteq feRevoked' /\ feRevoked' \subseteq Speeches
        /\ \A u \in feRevoked' : u \in feRevoked
    BY <1>2, <2>2
  <2>. QED BY <1>1, <1>2, <2>4, <2>5, <2>6, <2>7, FeedPublished
<1>. QED BY <1>4, <1>5, <1>6

\* Where the window has received the first announcement
LEMMA FeedTail ==
  ASSUME FeedTypes, feEvents # << >>, feEvents' = Tail(feEvents)
  PROVE  /\ feEvents' \in Seq(FeedEvents) /\ Head(feEvents) = feEvents[1]
         /\ 1 \in 1..Len(feEvents)
         /\ \A i \in 1..Len(feEvents') :
              i + 1 \in 1..Len(feEvents) /\ feEvents'[i] = feEvents[i + 1]
         /\ \A i \in 0..Len(feEvents') : \A E :
              Follows(feEvents, i + 1, E) => Follows(feEvents', i, E)
<1>1. feEvents \in Seq(FeedEvents)
  BY DEF FeedTypes
<1>2. /\ Len(feEvents) \in Nat \ {0} /\ Head(feEvents) = feEvents[1]
      /\ Len(feEvents') = Len(feEvents) - 1 /\ feEvents' \in Seq(FeedEvents)
      /\ \A i \in 1..Len(feEvents) - 1 : feEvents'[i] = feEvents[i + 1]
  BY <1>1
<1>3. ASSUME NEW i \in 0..Len(feEvents'), NEW E, Follows(feEvents, i + 1, E)
      PROVE  Follows(feEvents', i, E)
  <2>1. PICK j \in i+1+1..Len(feEvents) : feEvents[j] \in E
    BY <1>3 DEF Follows
  <2>2. j - 1 \in i+1..Len(feEvents') /\ feEvents'[j - 1] = feEvents[j]
    BY <1>2, <2>1
  <2>. QED BY <2>1, <2>2 DEF Follows
<1>. QED BY <1>2, <1>3

\* What receiving an announcement leaves to be followed
LEMMA FeedFollows ==
  ASSUME NEW s \in Seq(FeedEvents), NEW E, Follows(s, 0, E), s[1] \notin E
  PROVE  Follows(s, 1, E)
<1>1. PICK j \in 0+1..Len(s) : s[j] \in E
  BY DEF Follows
<1>2. j \in 1+1..Len(s)
  BY <1>1
<1>. QED BY <1>1, <1>2 DEF Follows

\* Steps of the window leave the publisher alone.
LEMMA FeedWindowTypes ==
  ASSUME FeedInv, UNCHANGED Feed!server,
         feSubscribed' \in BOOLEAN, feLag' \in BOOLEAN,
         feEvents' \in Seq(FeedEvents),
         feResults' \in Seq([kind : {"completed"}, of : Speeches]),
         fePreviews' \subseteq Speeches,
         feOpened' \in Conversations \cup {None}, feVersion' \in Nat,
         feRequest' \in Requests \cup {None}, feLate' \in Requests \cup {None},
         fePool' \subseteq Facts
  PROVE  FeedTypes'
BY DEF FeedInv, FeedTypes, Feed!server

LEMMA FeedWindowGhosts ==
  ASSUME FeedInv, UNCHANGED Feed!server, feEvents' = feEvents,
         fePreviews' \subseteq fePreviews,
         feLag' = feLag \/ (fePreviews' = {} /\ ~feLag'),
         feSubscribed' = feSubscribed \/ feSubscribed'
  PROVE  GhostInv'
<1>1. \A u : Recognized(u)' <=> Recognized(u)
  BY DEF Recognized, Feed!server
<1>2. feRevoking' = feRevoking /\ feRevoked' = feRevoked
  BY DEF Feed!server
<1>3. ~feSubscribed' => ~feSubscribed
  BY DEF FeedInv, FeedTypes
<1>4. ~feSubscribed' => feEvents' = << >> /\ fePreviews' = {} /\ ~feLag'
  <2>1. ~feSubscribed => feEvents = << >> /\ fePreviews = {} /\ ~feLag
    BY DEF FeedInv, GhostInv
  <2>. QED BY <1>3, <2>1
<1>5. ASSUME NEW u \in fePreviews'
      PROVE  Recognized(u)' \/ u \in feRevoking' \/ feLag' \/ Follows(feEvents', 0, Ends(u))
  <2>1. Recognized(u) \/ u \in feRevoking \/ feLag \/ Follows(feEvents, 0, Ends(u))
    BY <1>5 DEF FeedInv, GhostInv
  <2>. QED BY <1>1, <1>2, <1>5, <2>1
<1>6. ASSUME NEW u \in Speeches, NEW i \in 1..Len(feEvents')
      PROVE  /\ feEvents'[i] = Feed!Event("partial", u) =>
                  Recognized(u)' \/ u \in feRevoking' \/ Follows(feEvents', i, Ends(u))
             /\ feEvents'[i] = Feed!Event("final", u) /\ u \in feRevoked' =>
                  \/ u \in feRevoking'
                  \/ Follows(feEvents', i, {Feed!Event("cancelled", u)})
  <2>1. /\ feEvents[i] = Feed!Event("partial", u) =>
             Recognized(u) \/ u \in feRevoking \/ Follows(feEvents, i, Ends(u))
        /\ feEvents[i] = Feed!Event("final", u) /\ u \in feRevoked =>
             \/ u \in feRevoking
             \/ Follows(feEvents, i, {Feed!Event("cancelled", u)})
    BY DEF FeedInv, GhostInv
  <2>. QED BY <1>1, <1>2, <2>1
<1>. QED BY <1>4, <1>5, <1>6 DEF GhostInv

LEMMA FeedWindowPool ==
  ASSUME FeedInv, UNCHANGED Feed!server,
         \A i \in 1..Len(feEvents') :
           \E k \in 1..Len(feEvents) : feEvents'[i] = feEvents[k],
         PageOf(feRequest'), PageOf(feLate'),
         feLate' # None => feLate'.page # None,
         \A f \in fePool' : feRow[f[1]] = feOpened' /\ feRow[f[1]] # None
  PROVE  PoolInv'
<1>1. feRow' = feRow /\ feSpeech' = feSpeech
  BY DEF Feed!server
<1>2. PageOf(feRequest)' /\ PageOf(feLate)'
  BY <1>1 DEF PageOf
<1>. QED BY <1>1, <1>2 DEF FeedInv, PoolInv

\* A page is of its conversation, and what a request reads stays right.
LEMMA FeedPage ==
  ASSUME FeedInv, NEW c \in Conversations
  PROVE  /\ Feed!Page(c) \in SUBSET Facts
         /\ \A f \in Feed!Page(c) : feRow[f[1]] = c
BY DEF Feed!Page, Feed!Text, Feed!Translation, Facts

LEMMA FeedRequests ==
  \A k \in {"open", "context", "refresh"}, c \in Conversations, v \in Nat :
    /\ Feed!NewRequest(k, c, v) \in Requests
    /\ Feed!NewRequest(k, c, v).page = None
    /\ PageOf(Feed!NewRequest(k, c, v))
BY DEF Feed!NewRequest, Requests, PageOf

\* The steps of the connection
LEMMA FeedConnects ==
  ASSUME FeedInv,
         Feed!Subscribe \/ Feed!Opened \/ Feed!Closed \/ Feed!ReceiveLag \/ Feed!Muted
  PROVE  FeedInv'
<1>0. FeedTypes /\ GhostInv /\ PoolInv
  BY DEF FeedInv
<1>1. /\ UNCHANGED Feed!server
      /\ feOpened' = feOpened /\ feVersion' = feVersion /\ feLate' = feLate
      /\ fePool' = fePool
  BY DEF Feed!Subscribe, Feed!Opened, Feed!Closed, Feed!ReceiveLag, Feed!Muted,
         Feed!view, Feed!socket
<1>2. /\ feRequest' \in Requests \cup {None}
      /\ feRequest' = feRequest \/ PageOf(feRequest')
  <2>1. CASE Feed!Opened
    <3>1. \/ feRequest' = feRequest
          \/ /\ feOpened # None
             /\ feRequest' = Feed!NewRequest("refresh", feOpened, feVersion)
      BY <2>1 DEF Feed!Opened
    <3>. QED BY <1>0, <3>1, FeedRequests DEF FeedTypes
  <2>2. CASE ~Feed!Opened
    <3>1. feRequest' = feRequest
      BY <2>2 DEF Feed!Subscribe, Feed!Closed, Feed!ReceiveLag, Feed!Muted, Feed!view
    <3>. QED BY <1>0, <3>1 DEF FeedTypes
  <2>. QED BY <2>1, <2>2
<1>3. CASE Feed!Closed
  <2>1. /\ feSubscribed' = FALSE /\ feEvents' = << >> /\ feLag' = FALSE
        /\ feResults' = << >> /\ fePreviews' = {}
    BY <1>3 DEF Feed!Closed
  <2>2. FeedTypes'
    <3>1. /\ feEvents' \in Seq(FeedEvents)
          /\ feResults' \in Seq([kind : {"completed"}, of : Speeches])
          /\ feSubscribed' \in BOOLEAN /\ feLag' \in BOOLEAN
          /\ fePreviews' \subseteq Speeches
      BY <2>1, FeedNothing
    <3>2. /\ feOpened' \in Conversations \cup {None} /\ feVersion' \in Nat
          /\ feLate' \in Requests \cup {None} /\ fePool' \subseteq Facts
      BY <1>0, <1>1 DEF FeedTypes
    <3>. QED BY <1>1, <1>2, <3>1, <3>2, FeedWindowTypes
  <2>3. GhostInv'
    BY <2>1 DEF GhostInv
  <2>4. PoolInv'
    BY <1>0, <1>1, <1>2, <2>1, FeedWindowPool DEF PoolInv
  <2>. QED BY <2>2, <2>3, <2>4 DEF FeedInv
<1>4. CASE ~Feed!Closed
  <2>1. /\ feEvents' = feEvents /\ feResults' = feResults
        /\ \/ fePreviews' = fePreviews /\ feLag' = feLag
           \/ fePreviews' = {} /\ feLag' \in {feLag, FALSE}
        /\ feSubscribed' = feSubscribed \/ feSubscribed' = TRUE
    BY <1>4 DEF Feed!Subscribe, Feed!Opened, Feed!ReceiveLag, Feed!Muted, Feed!socket
  <2>2. FeedTypes'
    BY <1>0, <1>1, <1>2, <2>1, FeedWindowTypes DEF FeedTypes
  <2>3. GhostInv'
    BY <1>0, <1>1, <2>1, FeedWindowGhosts DEF FeedTypes
  <2>4. PoolInv'
    BY <1>0, <1>1, <1>2, <2>1, FeedWindowPool DEF PoolInv
  <2>. QED BY <2>2, <2>3, <2>4 DEF FeedInv
<1>. QED BY <1>3, <1>4

\* The steps that open a conversation, and read a page of it
LEMMA FeedOpens ==
  ASSUME FeedInv, feLate = None,
         \/ \E c \in Conversations : Feed!OpenConversation(c)
         \/ \E u \in Speeches : Feed!OpenConversationAt(u)
         \/ Feed!ReadPage \/ Feed!FailRequest
  PROVE  FeedInv'
<1>0. FeedTypes /\ GhostInv /\ PoolInv
  BY DEF FeedInv
<1>1. /\ UNCHANGED Feed!server /\ feSubscribed' = feSubscribed
      /\ feEvents' = feEvents /\ feLag' = feLag /\ feResults' = feResults
      /\ fePreviews' = fePreviews
  BY DEF Feed!OpenConversation, Feed!OpenConversationAt, Feed!ReadPage,
         Feed!FailRequest, Feed!socket
<1>2. GhostInv'
  BY <1>1, FeedWindowGhosts
<1>3. CASE \/ \E c \in Conversations : Feed!OpenConversation(c)
           \/ \E u \in Speeches : Feed!OpenConversationAt(u)
  <2>1. PICK c \in Conversations, k \in {"open", "context"}, found \in BOOLEAN :
          Feed!ClearPool(c, found) /\ feRequest' = Feed!NewRequest(k, c, feVersion')
    <3>1. ASSUME NEW u \in Speeches, Feed!OpenConversationAt(u)
          PROVE  feRow[u] \in Conversations
      BY <1>0, <3>1 DEF Feed!OpenConversationAt, FeedTypes
    <3>. QED BY <1>3, <3>1 DEF Feed!OpenConversation, Feed!OpenConversationAt
  <2>2. /\ feVersion' \in Nat /\ feOpened' = c /\ fePool' = {}
        /\ feLate' = IF feRequest # None /\ feRequest.page # None
                     THEN feRequest ELSE feLate
    BY <1>0, <2>1 DEF Feed!ClearPool, FeedTypes
  <2>3. feRequest' \in Requests /\ PageOf(feRequest')
    BY <2>1, <2>2, FeedRequests
  <2>4. /\ feLate' \in Requests \cup {None} /\ PageOf(feLate')
        /\ feLate' # None => feLate'.page # None
    BY <1>0, <2>2 DEF FeedTypes, PoolInv
  <2>5. FeedTypes'
    BY <1>0, <1>1, <2>2, <2>3, <2>4, FeedWindowTypes DEF FeedTypes
  <2>6. PoolInv'
    BY <1>1, <2>2, <2>3, <2>4, FeedWindowPool
  <2>. QED BY <1>2, <2>5, <2>6 DEF FeedInv
<1>4. CASE Feed!ReadPage \/ Feed!FailRequest
  <2>1. /\ feOpened' = feOpened /\ feVersion' = feVersion /\ feLate' = feLate
        /\ fePool' = fePool
    BY <1>4 DEF Feed!ReadPage, Feed!FailRequest
  <2>2. feRequest' \in Requests \cup {None} /\ PageOf(feRequest')
    <3>1. CASE Feed!ReadPage
      <4>1. /\ feRequest \in Requests
            /\ feRequest' = [feRequest EXCEPT !.page = Feed!Page(feRequest.conversation)]
        BY <1>0, <3>1 DEF Feed!ReadPage, FeedTypes
      <4>2. feRequest.conversation \in Conversations
        BY <4>1 DEF Requests
      <4>. DEFINE p == Feed!Page(feRequest.conversation)
      <4>3. p \in SUBSET Facts /\ \A f \in p : feRow[f[1]] = feRequest.conversation
        BY <4>2, FeedPage
      <4>. HIDE DEF p
      <4>4. /\ feRequest' \in Requests /\ feRequest'.page = p
            /\ feRequest'.conversation = feRequest.conversation
        BY <4>1, <4>3 DEF Requests, p
      <4>. QED BY <4>3, <4>4 DEF PageOf
    <3>2. CASE Feed!FailRequest
      <4>1. feRequest' = None
        BY <3>2 DEF Feed!FailRequest
      <4>. QED BY <4>1 DEF PageOf
    <3>. QED BY <1>4, <3>1, <3>2
  <2>3. FeedTypes'
    BY <1>0, <1>1, <2>1, <2>2, FeedWindowTypes DEF FeedTypes
  <2>4. PoolInv'
    BY <1>0, <1>1, <2>1, <2>2, FeedWindowPool DEF PoolInv
  <2>. QED BY <1>2, <2>3, <2>4 DEF FeedInv
<1>. QED BY <1>3, <1>4

\* The steps that show what was read
LEMMA FeedResponds ==
  ASSUME FeedInv,
         Feed!RespondLate \/ (feLate = None /\ Feed!Respond)
  PROVE  FeedInv'
<1>0. FeedTypes /\ GhostInv /\ PoolInv
  BY DEF FeedInv
<1>1. /\ UNCHANGED Feed!server /\ feSubscribed' = feSubscribed
      /\ feEvents' = feEvents /\ feLag' = feLag /\ feResults' = feResults
      /\ fePreviews' = fePreviews /\ feOpened' = feOpened /\ feVersion' = feVersion
  BY DEF Feed!RespondLate, Feed!Respond, Feed!socket
<1>2. GhostInv'
  BY <1>1, FeedWindowGhosts
<1>3. PICK r \in Requests :
        r # None /\ r.page # None /\ PageOf(r) /\ Feed!Take(r)
  <2>1. CASE Feed!RespondLate
    BY <1>0, <2>1 DEF Feed!RespondLate, FeedTypes, PoolInv
  <2>2. CASE Feed!Respond
    BY <1>0, <2>2 DEF Feed!Respond, FeedTypes, PoolInv
  <2>. QED BY <2>1, <2>2
<1>4. /\ feRequest' \in {feRequest, None} /\ feLate' \in {feLate, None}
  BY DEF Feed!RespondLate, Feed!Respond
<1>5. /\ feRequest' \in Requests \cup {None} /\ PageOf(feRequest')
      /\ feLate' \in Requests \cup {None} /\ PageOf(feLate')
      /\ feLate' # None => feLate'.page # None
  BY <1>0, <1>4 DEF FeedTypes, PoolInv, PageOf
<1>6. /\ fePool' \subseteq Facts
      /\ \A f \in fePool' : feRow[f[1]] = feOpened' /\ feRow[f[1]] # None
  <2>0. /\ fePool \subseteq Facts
        /\ \A f \in fePool : feRow[f[1]] = feOpened /\ feRow[f[1]] # None
    BY <1>0 DEF FeedTypes, PoolInv
  <2>1. CASE fePool' = fePool
    BY <1>1, <2>0, <2>1
  <2>2. CASE fePool' # fePool
    <3>1. /\ r.conversation = feOpened
          /\ fePool' \in {r.page, fePool \cup r.page}
      BY <1>3, <2>2 DEF Feed!Take, Feed!IsCurrent, Feed!Merged
    <3>2. /\ r.conversation \in Conversations /\ r.page \subseteq Facts
          /\ r.conversation # None
      BY <1>3, FeedBounds DEF Requests, Feed!FeedAssumption
    <3>3. \A f \in r.page : feRow[f[1]] = feOpened /\ feRow[f[1]] # None
      BY <1>3, <3>1, <3>2 DEF PageOf
    <3>4. ASSUME NEW f \in fePool' PROVE f \in r.page \/ f \in fePool
      BY <3>1
    <3>. QED BY <1>1, <2>0, <3>2, <3>3, <3>4
  <2>. QED BY <2>1, <2>2
<1>7. FeedTypes'
  BY <1>0, <1>1, <1>5, <1>6, FeedWindowTypes DEF FeedTypes
<1>8. PoolInv'
  BY <1>1, <1>5, <1>6, FeedWindowPool
<1>. QED BY <1>2, <1>7, <1>8 DEF FeedInv

\* A translation is shown with its subtitle.
LEMMA FeedReceivesResult ==
  ASSUME FeedInv, Feed!ReceiveResult
  PROVE  FeedInv'
<1>0. FeedTypes /\ GhostInv /\ PoolInv
  BY DEF FeedInv
<1>1. /\ UNCHANGED Feed!server /\ feSubscribed' = feSubscribed
      /\ feEvents' = feEvents /\ feLag' = feLag
      /\ fePreviews' = fePreviews /\ feOpened' = feOpened /\ feVersion' = feVersion
      /\ feRequest' = feRequest /\ feLate' = feLate
      /\ feResults # << >> /\ feResults' = Tail(feResults)
  BY DEF Feed!ReceiveResult, Feed!socket, Feed!view
<1>2. GhostInv'
  BY <1>1, FeedWindowGhosts
<1>3. feResults' \in Seq([kind : {"completed"}, of : Speeches])
  <2>. DEFINE R == [kind : {"completed"}, of : Speeches]
  <2>1. feResults \in Seq(R)
    BY <1>0 DEF FeedTypes
  <2>. HIDE DEF R
  <2>2. feResults' \in Seq(R)
    BY <1>1, <2>1
  <2>. QED BY <2>2 DEF R
<1>4. \/ fePool' = fePool
      \/ \E u : Feed!Text(u) \in fePool /\ fePool' = fePool \cup {Feed!Translation(u)}
  BY DEF Feed!ReceiveResult
<1>5. /\ fePool' \subseteq Facts
      /\ \A f \in fePool' : feRow[f[1]] = feOpened' /\ feRow[f[1]] # None
  <2>0. /\ fePool \subseteq Facts
        /\ \A f \in fePool : feRow[f[1]] = feOpened /\ feRow[f[1]] # None
    BY <1>0 DEF FeedTypes, PoolInv
  <2>1. CASE fePool' = fePool
    BY <1>1, <2>0, <2>1
  <2>2. ASSUME NEW u, Feed!Text(u) \in fePool,
               fePool' = fePool \cup {Feed!Translation(u)}
        PROVE  /\ fePool' \subseteq Facts
               /\ \A f \in fePool' : feRow[f[1]] = feOpened' /\ feRow[f[1]] # None
    <3>1. u \in Speeches /\ feRow[u] = feOpened /\ feRow[u] # None
      BY <2>0, <2>2 DEF Feed!Text, Facts
    <3>2. Feed!Translation(u) \in Facts /\ Feed!Translation(u)[1] = u
      BY <3>1 DEF Feed!Translation, Facts
    <3>. QED BY <1>1, <2>0, <2>2, <3>1, <3>2
  <2>. QED BY <1>4, <2>1, <2>2
<1>6. FeedTypes'
  BY <1>0, <1>1, <1>3, <1>5, FeedWindowTypes DEF FeedTypes
<1>7. PoolInv'
  BY <1>0, <1>1, <1>5, FeedWindowPool DEF PoolInv
<1>. QED BY <1>2, <1>6, <1>7 DEF FeedInv

\* An announcement is received.
LEMMA FeedReceivesEvent ==
  ASSUME FeedInv, Feed!ReceiveEvent
  PROVE  FeedInv'
<1>0. FeedTypes /\ GhostInv /\ PoolInv
  BY DEF FeedInv
<1>1. /\ UNCHANGED Feed!server /\ feSubscribed = TRUE /\ feSubscribed' = TRUE
      /\ ~feLag /\ feLag' = feLag /\ feResults' = feResults
      /\ feOpened' = feOpened /\ feVersion' = feVersion
      /\ feRequest' = feRequest /\ feLate' = feLate
      /\ feEvents # << >> /\ feEvents' = Tail(feEvents)
  BY <1>0 DEF Feed!ReceiveEvent, Feed!socket, Feed!view, Feed!Connected, FeedTypes
<1>2. /\ feRevoking' = feRevoking /\ feRevoked' = feRevoked
      /\ \A u : Recognized(u)' <=> Recognized(u)
  BY <1>1 DEF Feed!server, Recognized
<1>. DEFINE e == Head(feEvents)
<1>3. /\ feEvents' \in Seq(FeedEvents) /\ e = feEvents[1] /\ 1 \in 1..Len(feEvents)
      /\ \A i \in 1..Len(feEvents') :
           i + 1 \in 1..Len(feEvents) /\ feEvents'[i] = feEvents[i + 1]
      /\ \A i \in 0..Len(feEvents') : \A E :
           Follows(feEvents, i + 1, E) => Follows(feEvents', i, E)
  BY <1>0, <1>1, FeedTail
<1>4. feEvents \in Seq(FeedEvents) /\ e \in FeedEvents /\ Len(feEvents') \in Nat
  BY <1>0, <1>3 DEF FeedTypes
<1>5. \A E : Follows(feEvents, 1, E) => Follows(feEvents', 0, E)
  BY <1>3, <1>4
<1>6. PICK u : u = e.of
  OBVIOUS
<1>7. \/ /\ e.kind \in {"partial", "final"} /\ u \in feRevoked
         /\ fePreviews' = fePreviews /\ fePool' = fePool
      \/ /\ e.kind = "partial" /\ u \notin feRevoked
         /\ fePreviews' \subseteq fePreviews \cup {u} /\ fePool' = fePool
      \/ /\ e.kind = "final" /\ fePreviews' = fePreviews \ {u}
         /\ \/ fePool' = fePool
            \/ feRow[u] = feOpened /\ fePool' = fePool \cup {Feed!Text(u)}
      \/ /\ e.kind = "cancelled" /\ fePreviews' = fePreviews \ {u}
         /\ fePool' = fePool
      \/ e = Feed!Reset /\ fePreviews' = {} /\ fePool' = fePool
  BY <1>6 DEF Feed!ReceiveEvent, Feed!Complete, Feed!Allowed, Feed!Shows
<1>8. \/ e = Feed!Reset
      \/ /\ u \in Speeches /\ e.kind \in {"partial", "final", "cancelled"}
         /\ e = Feed!Event(e.kind, u)
  BY <1>4, <1>6 DEF FeedEvents, Feed!Event
<1>9. Feed!Reset.kind = "reset"
  BY DEF Feed!Reset, Feed!Event
<1>. HIDE DEF e
<1>10. fePreviews' \subseteq Speeches
  BY <1>0, <1>7, <1>8, <1>9 DEF FeedTypes
<1>11. ASSUME NEW v \in fePreviews'
       PROVE  Recognized(v) \/ v \in feRevoking \/ Follows(feEvents', 0, Ends(v))
  <2>1. v \in Speeches
    BY <1>10, <1>11
  <2>2. CASE v \in fePreviews
    <3>1. \/ Recognized(v) \/ v \in feRevoking
          \/ Follows(feEvents, 0, Ends(v))
      BY <1>0, <1>1, <2>2 DEF GhostInv
    <3>2. CASE Follows(feEvents, 0, Ends(v)) /\ e \notin Ends(v)
      BY <1>3, <1>4, <1>5, <3>2, FeedFollows
    <3>3. CASE e \in Ends(v)
      <4>1. e = Feed!Event("final", v) /\ v \in feRevoked
        <5>1. \/ e = Feed!Reset \/ e = Feed!Event("final", v)
              \/ e = Feed!Event("cancelled", v)
          BY <3>3 DEF Ends
        <5>2. e # Feed!Reset
          BY <1>7, <1>9, <1>11
        <5>3. e.of = v /\ e.kind \in {"final", "cancelled"} /\ u = v
          BY <1>6, <5>1, <5>2 DEF Feed!Event
        <5>4. ~(fePreviews' = fePreviews \ {u})
          BY <1>11, <5>3
        <5>5. /\ e = Feed!Event("final", v) => e.kind = "final"
              /\ e = Feed!Event("cancelled", v) => e.kind = "cancelled"
          BY DEF Feed!Event
        <5>6. e.kind = "final" /\ u \in feRevoked
          BY <1>7, <1>9, <5>2, <5>3, <5>4
        <5>. QED BY <5>1, <5>2, <5>3, <5>5, <5>6
      <4>2. \/ v \in feRevoking
            \/ Follows(feEvents, 1, {Feed!Event("cancelled", v)})
        BY <1>0, <1>3, <2>1, <4>1 DEF GhostInv
      <4>3. CASE Follows(feEvents, 1, {Feed!Event("cancelled", v)})
        BY <1>5, <4>3 DEF Follows, Ends
      <4>. QED BY <4>2, <4>3
    <3>. QED BY <3>1, <3>2, <3>3
  <2>3. CASE v \notin fePreviews
    <3>1. e = Feed!Event("partial", v)
      BY <1>7, <1>8, <1>9, <1>11, <2>3
    <3>2. \/ Recognized(v) \/ v \in feRevoking
          \/ Follows(feEvents, 1, Ends(v))
      BY <1>0, <1>3, <2>1, <3>1 DEF GhostInv
    <3>. QED BY <1>5, <3>2
  <2>. QED BY <2>2, <2>3
<1>12. ASSUME NEW v \in Speeches, NEW i \in 1..Len(feEvents')
       PROVE  /\ feEvents'[i] = Feed!Event("partial", v) =>
                   Recognized(v) \/ v \in feRevoking \/ Follows(feEvents', i, Ends(v))
              /\ feEvents'[i] = Feed!Event("final", v) /\ v \in feRevoked =>
                   \/ v \in feRevoking
                   \/ Follows(feEvents', i, {Feed!Event("cancelled", v)})
  <2>1. i + 1 \in 1..Len(feEvents) /\ feEvents'[i] = feEvents[i + 1]
        /\ i \in 0..Len(feEvents')
    BY <1>3, <1>4
  <2>2. /\ feEvents[i + 1] = Feed!Event("partial", v) =>
             Recognized(v) \/ v \in feRevoking \/ Follows(feEvents, i + 1, Ends(v))
        /\ feEvents[i + 1] = Feed!Event("final", v) /\ v \in feRevoked =>
             \/ v \in feRevoking
             \/ Follows(feEvents, i + 1, {Feed!Event("cancelled", v)})
    BY <1>0, <2>1 DEF GhostInv
  <2>3. \A E : Follows(feEvents, i + 1, E) => Follows(feEvents', i, E)
    BY <1>3, <2>1
  <2>. QED BY <2>1, <2>2, <2>3
<1>13. GhostInv'
  BY <1>1, <1>2, <1>11, <1>12 DEF GhostInv
<1>14. /\ fePool' \subseteq Facts
       /\ \A f \in fePool' : feRow[f[1]] = feOpened' /\ feRow[f[1]] # None
  <2>0. /\ fePool \subseteq Facts
        /\ \A f \in fePool : feRow[f[1]] = feOpened /\ feRow[f[1]] # None
    BY <1>0 DEF FeedTypes, PoolInv
  <2>1. CASE fePool' = fePool
    BY <1>1, <2>0, <2>1
  <2>2. CASE fePool' # fePool
    <3>1. /\ e.kind = "final" /\ feRow[u] = feOpened
          /\ fePool' = fePool \cup {Feed!Text(u)}
      BY <1>7, <2>2
    <3>2. u \in Speeches /\ e = Feed!Event("final", u)
      BY <1>8, <1>9, <3>1
    <3>3. feRow[u] # None
      BY <1>0, <1>3, <3>2 DEF PoolInv
    <3>4. Feed!Text(u) \in Facts /\ Feed!Text(u)[1] = u
      BY <3>2 DEF Feed!Text, Facts
    <3>. QED BY <1>1, <2>0, <3>1, <3>3, <3>4
  <2>. QED BY <2>1, <2>2
<1>15. FeedTypes'
  BY <1>0, <1>1, <1>3, <1>10, <1>14, FeedWindowTypes DEF FeedTypes
<1>16. PoolInv'
  BY <1>0, <1>1, <1>3, <1>14, FeedWindowPool DEF PoolInv
<1>. QED BY <1>13, <1>15, <1>16 DEF FeedInv

LEMMA FeedStart ==
  ASSUME Feed!FeedInit
  PROVE  FeedInv
<1>1. FeedTypes
  <2>1. /\ feEvents = << >> /\ feResults = << >> /\ feVersion = 0
        /\ feSpeech = [u \in Speeches |-> "idle"]
        /\ feRow = [u \in Speeches |-> None]
        /\ feRevoking = {} /\ feRevoked = {} /\ fePreviews = {} /\ fePool = {}
        /\ feSubscribed = FALSE /\ feLag = FALSE
        /\ feOpened = None /\ feRequest = None /\ feLate = None
    BY DEF Feed!FeedInit
  <2>2. /\ feSpeech \in [Speeches -> {"idle", "live", "stored", "over"}]
        /\ feRow \in [Speeches -> Conversations \cup {None}]
        /\ feSubscribed \in BOOLEAN /\ feLag \in BOOLEAN
    BY <2>1
  <2>. QED BY <2>1, <2>2, FeedNothing DEF FeedTypes
<1>2. GhostInv
  BY DEF Feed!FeedInit, GhostInv
<1>3. PoolInv
  BY DEF Feed!FeedInit, PoolInv, PageOf
<1>. QED BY <1>1, <1>2, <1>3 DEF FeedInv

LEMMA FeedStep ==
  ASSUME FeedInv, Feed!FeedNext \/ UNCHANGED feed
  PROVE  FeedInv'
<1>1. CASE UNCHANGED feed
  <2>1. UNCHANGED Feed!server
    BY <1>1 DEF feed, Feed!server
  <2>2. /\ feSubscribed' = feSubscribed /\ feEvents' = feEvents /\ feLag' = feLag
        /\ feResults' = feResults /\ fePreviews' = fePreviews
        /\ feOpened' = feOpened /\ feVersion' = feVersion
        /\ feRequest' = feRequest /\ feLate' = feLate /\ fePool' = fePool
    BY <1>1 DEF feed
  <2>3. FeedTypes'
    BY <2>1, <2>2, FeedWindowTypes DEF FeedInv, FeedTypes
  <2>4. GhostInv'
    BY <2>1, <2>2, FeedWindowGhosts
  <2>5. PoolInv'
    BY <2>1, <2>2, FeedWindowPool DEF FeedInv, PoolInv
  <2>. QED BY <2>3, <2>4, <2>5 DEF FeedInv
<1>2. CASE Feed!Publish
  BY <1>2, FeedStores, FeedSpeaks, FeedTranslates, FeedRevokes DEF Feed!Publish
<1>3. CASE Feed!RespondLate \/ (feLate = None /\ Feed!Follow)
  BY <1>3, FeedConnects, FeedOpens, FeedResponds, FeedReceivesEvent,
     FeedReceivesResult
  DEF Feed!Follow
<1>. QED BY <1>1, <1>2, <1>3 DEF Feed!FeedNext

\* No preview stays behind, and the pool is that of one conversation.
LEMMA FeedShows ==
  ASSUME FeedInv
  PROVE  Feed!NoGhosts /\ Feed!PoolIsOpened
<1>1. ASSUME NEW u \in fePreviews, Follows(feEvents, 0, Ends(u))
      PROVE  \E e \in Feed!Range(feEvents) :
               e = Feed!Reset \/ (e.of = u /\ e.kind \in Feed!Ends)
  <2>1. PICK j \in 0+1..Len(feEvents) : feEvents[j] \in Ends(u)
    BY <1>1 DEF Follows
  <2>2. feEvents \in Seq(FeedEvents)
    BY DEF FeedInv, FeedTypes
  <2>3. feEvents[j] \in Feed!Range(feEvents)
    BY <2>1, <2>2 DEF Feed!Range
  <2>. QED BY <2>1, <2>3 DEF Ends, Feed!Ends, Feed!Event
<1>. QED BY <1>1 DEF FeedInv, GhostInv, PoolInv, Recognized, Feed!NoGhosts,
                     Feed!PoolIsOpened

-----------------------------------------------------------------------------
(* OcrScan: what is shown is of the scan, the same in both eyes, and what  *)
(* is cached is of the request and the glossary it is kept for.            *)

\* Both eyes have the same of a request.
Agrees(b) == \A t \in DOMAIN b[1] \cap DOMAIN b[2] : b[1][t] = b[2][t]

ScanTypes ==
  /\ {"at", "id", "config", "glossary", "eyes", "images", "heard", "blocks",
      "queue", "calling", "answers", "result"} \subseteq DOMAIN ocrWorker
  /\ DOMAIN ocrWorker.blocks = Ocr!Eyes
  /\ ocrProgress.dirty \in BOOLEAN
  /\ {"blocks", "dirty"} \subseteq DOMAIN ocrProgress
  /\ ocrChannel \in Seq(ToSet(ocrChannel))
  /\ ocrGlossary \in Nat

\* Nothing is shown while a frame is drawn; what will be shown is of this scan.
ShownInv ==
  /\ Ocr!ShownIsCurrent
  /\ ocrSelecting \/ ocrPending => ocrShown = Ocr!NoBlocks /\ ocrCapture = None
  /\ ~(ocrSelecting /\ ocrPending)
  /\ ocrProgress.dirty => ocrWorker.at # "none"

\* A block has the answer to its text, or waits for it.
AnswerInv ==
  /\ \A e \in Ocr!Eyes : \A t \in DOMAIN ocrWorker.blocks[e] :
       ocrWorker.blocks[e][t] =
         IF t \in DOMAIN ocrWorker.answers THEN ocrWorker.answers[t] ELSE "timeout"
  /\ Agrees(ocrShown) /\ Agrees(ocrProgress.blocks)
  /\ Agrees(ocrWorker.result.blocks)
  /\ \A i \in 1..Len(ocrChannel) : Agrees(ocrChannel[i].result.blocks)

\* The calls of the service
OcrCalls == [request : Ocr!Requests, glossary : Nat]

\* A key says which call it is kept for.
CacheInv ==
  \A entry \in ocrCache :
    /\ entry.call \in OcrCalls
    /\ entry.key.text = entry.call.request.text
    /\ entry.key.context = entry.call.request.context
    /\ entry.key.target = entry.call.request.target
    /\ entry.key.glossary = entry.call.glossary

\* A request is called with a glossary between that of the scan and the last one.
GlossaryInv ==
  /\ CacheInv
  /\ ocrWorker.images \in Seq(SUBSET Ocr!Requests)
  /\ ocrWorker.queue \in Seq(Ocr!Requests)
  /\ ocrWorker.glossary \in Nat /\ ocrWorker.glossary <= ocrGlossary
  /\ ocrWorker.at = "preparing" => ocrWorker.calling = {}
  /\ \A call \in ocrWorker.calling :
       /\ call \in OcrCalls
       /\ ocrWorker.glossary <= call.glossary /\ call.glossary <= ocrGlossary

ScanInv == ScanTypes /\ ShownInv /\ AnswerInv /\ GlossaryInv

\* An update is sent.
LEMMA OcrSends ==
  ASSUME ScanTypes, NEW x, ocrChannel' = Append(ocrChannel, x)
  PROVE  /\ ocrChannel' \in Seq(ToSet(ocrChannel'))
         /\ \A i \in 1..Len(ocrChannel') :
              ocrChannel'[i] = x
              \/ (i \in 1..Len(ocrChannel) /\ ocrChannel'[i] = ocrChannel[i])
<1>. DEFINE S == ToSet(ocrChannel) \cup {x}
<1>1. ocrChannel \in Seq(S)
  BY DEF ScanTypes
<1>2. /\ ocrChannel' \in Seq(S) /\ Len(ocrChannel') = Len(ocrChannel) + 1
      /\ \A i \in 1..Len(ocrChannel) : ocrChannel'[i] = ocrChannel[i]
      /\ ocrChannel'[Len(ocrChannel) + 1] = x
      /\ Len(ocrChannel) \in Nat
  BY <1>1
<1>. HIDE DEF S
<1>3. ocrChannel' \in Seq(ToSet(ocrChannel'))
  BY <1>2 DEF ToSet
<1>. QED BY <1>2, <1>3

\* An empty channel, and nothing to show
LEMMA OcrNothing ==
  /\ << >> \in Seq(ToSet(<< >>)) /\ Len(<< >>) = 0
  /\ DOMAIN Ocr!NoBlocks = Ocr!Eyes /\ Agrees(Ocr!NoBlocks)
  /\ \A e \in Ocr!Eyes : DOMAIN Ocr!NoBlocks[e] = {}
<1>1. 1 \in Ocr!Eyes /\ 2 \in Ocr!Eyes
  BY DEF Ocr!Eyes
<1>2. \A e \in Ocr!Eyes : DOMAIN Ocr!NoBlocks[e] = {}
  BY DEF Ocr!NoBlocks, Ocr!Nothing
<1>3. DOMAIN Ocr!NoBlocks = Ocr!Eyes
  BY DEF Ocr!NoBlocks
<1>. QED BY <1>1, <1>2, <1>3 DEF Agrees

\* There is no task.
LEMMA OcrIdle ==
  /\ {"at", "id", "config", "glossary", "eyes", "images", "heard", "blocks",
      "queue", "calling", "answers", "result"} \subseteq DOMAIN Ocr!NoWorker
  /\ Ocr!NoWorker.at = "none" /\ Ocr!NoWorker.glossary = 0
  /\ Ocr!NoWorker.blocks = Ocr!NoBlocks /\ Ocr!NoWorker.calling = {}
  /\ Ocr!NoWorker.images = << >> /\ Ocr!NoWorker.queue = << >>
  /\ \A S : << >> \in Seq(S)
  /\ Ocr!NoWorker.result.blocks = Ocr!NoBlocks
BY DEF Ocr!NoWorker, Ocr!Failed, Ocr!Result

\* The task works: what its step does to it decides.
LEMMA OcrWorks ==
  ASSUME ScanInv, Ocr!Outside,
         DOMAIN ocrWorker' = DOMAIN ocrWorker,
         DOMAIN ocrWorker'.blocks = Ocr!Eyes,
         ocrWorker.at # "none", ocrWorker'.at # "preparing",
         ocrWorker'.id = ocrWorker.id, ocrWorker'.config = ocrWorker.config,
         \A e \in Ocr!Eyes : \A t \in DOMAIN ocrWorker'.blocks[e] :
           ocrWorker'.blocks[e][t] =
             IF t \in DOMAIN ocrWorker'.answers THEN ocrWorker'.answers[t]
                                                ELSE "timeout",
         Agrees(ocrWorker'.result.blocks),
         \/ ocrChannel' = ocrChannel
         \/ \E x : Agrees(x.result.blocks) /\ ocrChannel' = Append(ocrChannel, x),
         \/ ocrProgress' = ocrProgress /\ ocrWorker'.at # "none"
         \/ /\ ocrProgress' = [blocks |-> ocrWorker'.blocks, dirty |-> TRUE]
            /\ ocrWorker'.at # "none",
         CacheInv',
         ocrWorker'.images \in Seq(SUBSET Ocr!Requests),
         ocrWorker'.queue \in Seq(Ocr!Requests),
         ocrWorker'.glossary \in {ocrWorker.glossary, ocrGlossary},
         \A call \in ocrWorker'.calling :
           /\ call \in OcrCalls
           /\ ocrWorker'.glossary <= call.glossary /\ call.glossary <= ocrGlossary
  PROVE  ScanInv'
<1>1. /\ ocrConfig' = ocrConfig /\ ocrGlossary' = ocrGlossary /\ ocrScan' = ocrScan
      /\ ocrSelecting' = ocrSelecting /\ ocrPending' = ocrPending
      /\ ocrCapture' = ocrCapture /\ ocrShown' = ocrShown /\ ocrShownOf' = ocrShownOf
  BY DEF Ocr!Outside
<1>2. /\ ocrChannel' \in Seq(ToSet(ocrChannel'))
      /\ \A i \in 1..Len(ocrChannel') : Agrees(ocrChannel'[i].result.blocks)
  <2>1. CASE ocrChannel' = ocrChannel
    BY <2>1 DEF ScanInv, ScanTypes, AnswerInv
  <2>2. CASE \E x : Agrees(x.result.blocks) /\ ocrChannel' = Append(ocrChannel, x)
    BY <2>2, OcrSends DEF ScanInv, AnswerInv
  <2>. QED BY <2>1, <2>2
<1>3. Agrees(ocrWorker'.blocks)
  <2>1. 1 \in Ocr!Eyes /\ 2 \in Ocr!Eyes
    BY DEF Ocr!Eyes
  <2>. QED BY <2>1 DEF Agrees
<1>4. /\ {"blocks", "dirty"} \subseteq DOMAIN ocrProgress'
      /\ ocrProgress'.dirty \in BOOLEAN /\ Agrees(ocrProgress'.blocks)
  <2>1. CASE ocrProgress' = ocrProgress
    BY <2>1 DEF ScanInv, ScanTypes, AnswerInv
  <2>2. CASE ocrProgress' = [blocks |-> ocrWorker'.blocks, dirty |-> TRUE]
    <3>1. /\ DOMAIN ocrProgress' = {"blocks", "dirty"}
          /\ ocrProgress'.blocks = ocrWorker'.blocks /\ ocrProgress'.dirty = TRUE
      BY <2>2
    <3>. QED BY <1>3, <3>1
  <2>. QED BY <2>1, <2>2
<1>5. ScanTypes'
  BY <1>1, <1>2, <1>4 DEF ScanInv, ScanTypes
<1>6. ShownInv'
  BY <1>1 DEF ScanInv, ShownInv, Ocr!ShownIsCurrent
<1>7. AnswerInv'
  <2>1. Agrees(ocrShown)
    BY DEF ScanInv, AnswerInv
  <2>. QED BY <1>1, <1>2, <1>4, <2>1 DEF AnswerInv, Agrees
<1>8. GlossaryInv'
  BY <1>1 DEF ScanInv, ScanTypes, GlossaryInv
<1>. QED BY <1>5, <1>6, <1>7, <1>8 DEF ScanInv

\* What the operators on the task return
LEMMA OcrFinishes ==
  ASSUME ScanInv, NEW result, Ocr!Finish(result)
  PROVE  /\ DOMAIN ocrWorker' = DOMAIN ocrWorker
         /\ ocrWorker'.at = "sending" /\ ocrWorker'.id = ocrWorker.id
         /\ ocrWorker'.config = ocrWorker.config
         /\ ocrWorker'.glossary = ocrWorker.glossary
         /\ ocrWorker'.blocks = ocrWorker.blocks
         /\ ocrWorker'.answers = ocrWorker.answers
         /\ ocrWorker'.calling = ocrWorker.calling
         /\ ocrWorker'.images = ocrWorker.images
         /\ ocrWorker'.queue = ocrWorker.queue
         /\ ocrWorker'.result = result
BY DEF ScanInv, ScanTypes, Ocr!Finish

\* The facts that a step of the task leaves alone
LEMMA OcrFacts ==
  ASSUME ScanInv
  PROVE  /\ DOMAIN ocrWorker.blocks = Ocr!Eyes
         /\ \A e \in Ocr!Eyes : \A t \in DOMAIN ocrWorker.blocks[e] :
              ocrWorker.blocks[e][t] =
                IF t \in DOMAIN ocrWorker.answers THEN ocrWorker.answers[t]
                                                  ELSE "timeout"
         /\ Agrees(ocrWorker.result.blocks) /\ Agrees(ocrWorker.blocks)
         /\ Agrees(ocrProgress.blocks)
         /\ ocrGlossary \in Nat /\ ocrWorker.glossary \in Nat
         /\ CacheInv
         /\ ocrWorker.images \in Seq(SUBSET Ocr!Requests)
         /\ ocrWorker.queue \in Seq(Ocr!Requests)
         /\ \A call \in ocrWorker.calling :
              /\ call \in OcrCalls
              /\ ocrWorker.glossary <= call.glossary /\ call.glossary <= ocrGlossary
<1>1. 1 \in Ocr!Eyes /\ 2 \in Ocr!Eyes
  BY DEF Ocr!Eyes
<1>. QED BY <1>1 DEF ScanInv, ScanTypes, AnswerInv, GlossaryInv, Agrees

LEMMA OcrEnds ==
  ASSUME ScanInv,
         Ocr!FailScan \/ Ocr!NoticeConfig \/ Ocr!CompleteScan \/ Ocr!Deadline
  PROVE  ScanInv'
<1>1. PICK result : Ocr!Finish(result) /\ Agrees(result.blocks)
  <2>1. Agrees(Ocr!Failed.blocks)
    BY OcrNothing DEF Ocr!Failed, Ocr!Result
  <2>2. Agrees(Ocr!Result("blocks", ocrWorker.blocks).blocks)
    BY OcrFacts DEF Ocr!Result
  <2>3. Agrees(Ocr!Result("blocks", Ocr!TimedOut).blocks)
    BY OcrFacts DEF Ocr!Result, Ocr!TimedOut
  <2>. QED BY <2>1, <2>2, <2>3
           DEF Ocr!FailScan, Ocr!NoticeConfig, Ocr!CompleteScan, Ocr!Deadline
<1>2. /\ ocrWorker.at # "none" /\ ocrProgress' = ocrProgress
      /\ ocrChannel' = ocrChannel /\ ocrCache' = ocrCache /\ Ocr!Outside
  BY DEF Ocr!FailScan, Ocr!NoticeConfig, Ocr!CompleteScan, Ocr!Deadline, Ocr!Ready
<1>3. CacheInv'
  BY <1>2 DEF ScanInv, GlossaryInv, CacheInv
<1>. QED BY <1>1, <1>2, <1>3, OcrFinishes, OcrFacts, OcrWorks

\* The task goes on without a change of its blocks.
LEMMA OcrGoesOn ==
  ASSUME ScanInv,
         Ocr!Prepare \/ Ocr!Recognize \/ Ocr!StartRequest \/ Ocr!SendResult
  PROVE  ScanInv'
<1>0. /\ {"at", "id", "config", "glossary", "eyes", "images", "heard", "blocks",
          "queue", "calling", "answers", "result"} \subseteq DOMAIN ocrWorker
  BY DEF ScanInv, ScanTypes
<1>1. /\ ocrWorker.at # "none" /\ ocrProgress' = ocrProgress
      /\ ocrCache' = ocrCache /\ Ocr!Outside
  <2>1. CASE Ocr!Prepare \/ Ocr!StartRequest \/ Ocr!SendResult
    BY <2>1 DEF Ocr!Prepare, Ocr!StartRequest, Ocr!SendResult
  <2>2. CASE Ocr!Recognize
    BY <2>2, Zenon DEF Ocr!Recognize
  <2>. QED BY <2>1, <2>2
<1>2. CacheInv'
  BY <1>1 DEF ScanInv, GlossaryInv, CacheInv
<1>3. /\ DOMAIN ocrWorker' = DOMAIN ocrWorker
      /\ ocrWorker'.at \in {"recognizing", "ended"}
      /\ ocrWorker'.id = ocrWorker.id
      /\ ocrWorker'.config = ocrWorker.config
      /\ ocrWorker'.blocks = ocrWorker.blocks
      /\ ocrWorker'.answers = ocrWorker.answers
      /\ ocrWorker'.result = ocrWorker.result
  <2>1. CASE Ocr!Prepare
    BY <1>0, <2>1 DEF Ocr!Prepare
  <2>2. CASE Ocr!Recognize
    <3>1. /\ ocrWorker.at = "recognizing"
          /\ \E texts : ocrWorker' = [ocrWorker EXCEPT !.heard = @ + 1,
                                                      !.images = Append(@, texts)]
      BY <2>2, Zenon DEF Ocr!Recognize
    <3>. QED BY <1>0, <3>1
  <2>3. CASE Ocr!StartRequest
    BY <1>0, <2>3 DEF Ocr!StartRequest
  <2>4. CASE Ocr!SendResult
    BY <1>0, <2>4 DEF Ocr!SendResult
  <2>. QED BY <2>1, <2>2, <2>3, <2>4
<1>4. \/ ocrChannel' = ocrChannel
      \/ \E x : Agrees(x.result.blocks) /\ ocrChannel' = Append(ocrChannel, x)
  <2>1. CASE Ocr!Prepare \/ Ocr!StartRequest
    BY <2>1 DEF Ocr!Prepare, Ocr!StartRequest
  <2>2. CASE Ocr!Recognize
    <3>. DEFINE x == [id |-> ocrWorker.id, result |-> Ocr!Phase]
    <3>1. Agrees(x.result.blocks)
      BY OcrNothing DEF Ocr!Phase, Ocr!Result
    <3>2. ocrChannel' = Append(ocrChannel, x) \/ ocrChannel' = ocrChannel
      BY <2>2, Zenon DEF Ocr!Recognize
    <3>. HIDE DEF x
    <3>. QED BY <3>1, <3>2
  <2>3. CASE Ocr!SendResult
    <3>. DEFINE x == [id |-> ocrWorker.id, result |-> ocrWorker.result]
    <3>1. Agrees(x.result.blocks)
      BY OcrFacts
    <3>2. ocrChannel' = Append(ocrChannel, x)
      BY <2>3 DEF Ocr!SendResult
    <3>. HIDE DEF x
    <3>. QED BY <3>1, <3>2
  <2>. QED BY <2>1, <2>2, <2>3
<1>5. /\ ocrWorker'.glossary \in {ocrWorker.glossary, ocrGlossary}
      /\ ocrWorker'.images \in Seq(SUBSET Ocr!Requests)
      /\ ocrWorker'.queue \in Seq(Ocr!Requests)
      /\ \A call \in ocrWorker'.calling :
           /\ call \in OcrCalls
           /\ ocrWorker'.glossary <= call.glossary /\ call.glossary <= ocrGlossary
  <2>1. CASE Ocr!Prepare
    <3>1. /\ ocrWorker'.glossary = ocrGlossary /\ ocrWorker'.calling = ocrWorker.calling
          /\ ocrWorker'.images = ocrWorker.images /\ ocrWorker'.queue = ocrWorker.queue
      BY <1>0, <2>1 DEF Ocr!Prepare
    <3>2. ocrWorker.calling = {}
      BY <2>1 DEF Ocr!Prepare, ScanInv, GlossaryInv
    <3>. QED BY <3>1, <3>2, OcrFacts
  <2>2. CASE Ocr!Recognize
    <3>1. PICK image \in Ocr!Images :
            ocrWorker' = [ocrWorker EXCEPT !.heard = @ + 1,
                                           !.images = Append(@, image)]
      BY <2>2, Zenon DEF Ocr!Recognize
    <3>2. /\ ocrWorker'.glossary = ocrWorker.glossary
          /\ ocrWorker'.calling = ocrWorker.calling
          /\ ocrWorker'.images = Append(ocrWorker.images, image)
          /\ ocrWorker'.queue = ocrWorker.queue
      BY <1>0, <3>1
    <3>3. image \in SUBSET Ocr!Requests
      BY DEF Ocr!Images
    <3>4. Append(ocrWorker.images, image) \in Seq(SUBSET Ocr!Requests)
      BY <3>3, OcrFacts
    <3>. QED BY <3>2, <3>4, OcrFacts
  <2>3. CASE Ocr!SendResult
    <3>1. /\ ocrWorker'.glossary = ocrWorker.glossary
          /\ ocrWorker'.calling = ocrWorker.calling
          /\ ocrWorker'.images = ocrWorker.images /\ ocrWorker'.queue = ocrWorker.queue
      BY <1>0, <2>3 DEF Ocr!SendResult
    <3>. QED BY <3>1, OcrFacts
  <2>4. CASE Ocr!StartRequest
    <3>. DEFINE c == [request |-> Head(ocrWorker.queue), glossary |-> ocrGlossary]
    <3>1. /\ ocrWorker'.glossary = ocrWorker.glossary
          /\ ocrWorker'.calling = ocrWorker.calling \cup {c}
          /\ ocrWorker'.images = ocrWorker.images
          /\ ocrWorker'.queue = Tail(ocrWorker.queue) /\ ocrWorker.queue # << >>
      BY <1>0, <2>4 DEF Ocr!StartRequest
    <3>2. /\ Head(ocrWorker.queue) \in Ocr!Requests
          /\ Tail(ocrWorker.queue) \in Seq(Ocr!Requests)
      BY <3>1, OcrFacts
    <3>3. c \in OcrCalls /\ c.glossary = ocrGlossary
      BY <3>2, OcrFacts DEF OcrCalls
    <3>4. ocrWorker.glossary <= ocrGlossary
      BY DEF ScanInv, GlossaryInv
    <3>. HIDE DEF c
    <3>. QED BY <3>1, <3>2, <3>3, <3>4, OcrFacts
  <2>. QED BY <2>1, <2>2, <2>3, <2>4
<1>. QED BY <1>1, <1>2, <1>3, <1>4, <1>5, OcrFacts, OcrWorks

\* The requests of an image that were not made yet
LEMMA RequestsNumbered ==
  ASSUME NEW R \in SUBSET Ocr!Requests,
         NEW new \in Ocr!Bijection(1..Ocr!Cardinality(R), R)
  PROVE  /\ new \in Seq(R)
         /\ \A i, j \in 1..Len(new) : new[i] = new[j] => i = j
<1>0. \A S : Ocr!IsFiniteSet(S) <=> IsFiniteSet(S)
  BY DEF Ocr!IsFiniteSet, IsFiniteSet
<1>1. Ocr!Cardinality(R) \in Nat
  <2>. DEFINE Parts == (Texts \X Contexts) \X OcrTargets
              Whole == [p \in Parts |-> [text |-> p[1][1], context |-> p[1][2],
                                         target |-> p[2]]]
  <2>1. IsFiniteSet(Texts) /\ IsFiniteSet(Contexts) /\ IsFiniteSet(OcrTargets)
    BY <1>0, ScanBounds DEF Ocr!ScanAssumption
  <2>2. IsFiniteSet(Texts \X Contexts)
    BY <2>1, FS_Product
  <2>3. IsFiniteSet(Parts)
    BY <2>1, <2>2, FS_Product
  <2>4. Whole \in Surjection(Parts, Ocr!Requests)
    <3>1. \A p \in Parts : Whole[p] \in Ocr!Requests
      BY DEF Ocr!Requests
    <3>2. ASSUME NEW r \in Ocr!Requests
          PROVE  \E p \in Parts : Whole[p] = r
      <4>1. <<<<r.text, r.context>>, r.target>> \in Parts
        BY DEF Ocr!Requests
      <4>2. Whole[<<<<r.text, r.context>>, r.target>>] = r
        BY <4>1 DEF Ocr!Requests
      <4>. QED BY <4>1, <4>2
    <3>. QED BY <3>1, <3>2 DEF Surjection
  <2>. HIDE DEF Parts, Whole
  <2>5. IsFiniteSet(Ocr!Requests)
    BY <2>3, <2>4, FS_Surjection
  <2>6. IsFiniteSet(R)
    BY <2>5, FS_Subset
  <2>7. Cardinality(R) \in Nat
    BY <2>6, FS_CardinalityType
  <2>8. Ocr!Cardinality(R) = Cardinality(R)
    BY DEF Ocr!Cardinality, Cardinality
  <2>. QED BY <2>7, <2>8
<1>2. /\ new \in [1..Ocr!Cardinality(R) -> R]
      /\ \A i, j \in DOMAIN new : new[i] = new[j] => i = j
  BY DEF Ocr!Bijection, Ocr!Injection, Ocr!IsInjective
<1>. QED BY <1>1, <1>2

\* An image is taken.
LEMMA OcrTakesImage ==
  ASSUME ScanInv, Ocr!TakeImage
  PROVE  ScanInv'
<1>0. /\ {"at", "id", "config", "glossary", "eyes", "images", "heard", "blocks",
          "queue", "calling", "answers", "result"} \subseteq DOMAIN ocrWorker
  BY DEF ScanInv, ScanTypes
<1>. DEFINE read == Ocr!ImageBlocks(Head(ocrWorker.images))
<1>1. /\ ocrWorker.at = "recognizing" /\ ocrChannel' = ocrChannel
      /\ ocrCache' = ocrCache /\ Ocr!Outside
      /\ \/ ocrProgress' = ocrProgress
         \/ ocrProgress' = [blocks |-> ocrWorker'.blocks, dirty |-> TRUE]
      /\ ocrWorker.images # << >>
  BY Zenon DEF Ocr!TakeImage, Ocr!Saved
<1>. DEFINE R == Head(ocrWorker.images)
                   \ UNION {DOMAIN ocrWorker.blocks[e] : e \in Ocr!Eyes}
<1>7. PICK new \in Ocr!Bijection(1..Ocr!Cardinality(R), R) : ocrWorker' =
        [ocrWorker EXCEPT !.images = Tail(@),
                          !.blocks = [@ EXCEPT ![Ocr!EyesRead + 1] = read],
                          !.queue = @ \o new]
  BY Zenon DEF Ocr!TakeImage
<1>8. new \in Seq(R) /\ R \in SUBSET Ocr!Requests
  <2>1. R \in SUBSET Ocr!Requests
    BY <1>1, OcrFacts
  <2>. HIDE DEF R
  <2>. QED BY <2>1, RequestsNumbered
<1>. HIDE DEF R
<1>2. CacheInv'
  BY <1>1 DEF ScanInv, GlossaryInv, CacheInv
<1>3. /\ DOMAIN ocrWorker' = DOMAIN ocrWorker
      /\ ocrWorker'.at = ocrWorker.at /\ ocrWorker'.id = ocrWorker.id
      /\ ocrWorker'.config = ocrWorker.config
      /\ ocrWorker'.glossary = ocrWorker.glossary
      /\ ocrWorker'.calling = ocrWorker.calling
      /\ ocrWorker'.answers = ocrWorker.answers
      /\ ocrWorker'.result = ocrWorker.result
      /\ ocrWorker'.blocks =
           [ocrWorker.blocks EXCEPT ![Ocr!EyesRead + 1] = read]
      /\ ocrWorker'.images = Tail(ocrWorker.images)
      /\ ocrWorker'.queue = ocrWorker.queue \o new
  <2>. HIDE DEF read
  <2>. QED BY <1>0, <1>7
<1>9. /\ ocrWorker'.images \in Seq(SUBSET Ocr!Requests)
      /\ ocrWorker'.queue \in Seq(Ocr!Requests)
  <2>1. new \in Seq(Ocr!Requests)
    BY <1>8
  <2>. QED BY <1>1, <1>3, <2>1, OcrFacts
<1>4. \A t \in DOMAIN read :
        read[t] = IF t \in DOMAIN ocrWorker.answers THEN ocrWorker.answers[t]
                                                    ELSE "timeout"
  BY DEF Ocr!ImageBlocks
<1>. HIDE DEF read
<1>5. DOMAIN ocrWorker'.blocks = Ocr!Eyes
  BY <1>3, OcrFacts
<1>6. ASSUME NEW e \in Ocr!Eyes, NEW t \in DOMAIN ocrWorker'.blocks[e]
      PROVE  ocrWorker'.blocks[e][t] =
               IF t \in DOMAIN ocrWorker'.answers THEN ocrWorker'.answers[t]
                                                  ELSE "timeout"
  <2>1. ocrWorker'.blocks[e] = read \/ ocrWorker'.blocks[e] = ocrWorker.blocks[e]
    BY <1>3, OcrFacts
  <2>. QED BY <1>3, <1>4, <1>6, <2>1, OcrFacts
<1>. QED BY <1>1, <1>2, <1>3, <1>5, <1>6, <1>9, OcrFacts, OcrWorks

\* A request is answered.
LEMMA OcrAnswers ==
  ASSUME ScanInv, Ocr!AnswerRequest
  PROVE  ScanInv'
<1>0. /\ {"at", "id", "config", "glossary", "eyes", "images", "heard", "blocks",
          "queue", "calling", "answers", "result"} \subseteq DOMAIN ocrWorker
  BY DEF ScanInv, ScanTypes
<1>1. ocrWorker.at = "recognizing" /\ ocrChannel' = ocrChannel /\ Ocr!Outside
  BY DEF Ocr!AnswerRequest
<1>2. PICK call \in ocrWorker.calling, answer \in {"ok", "failed"} :
        /\ \/ ocrCache' = ocrCache
           \/ /\ Ocr!MayCache(call)
              /\ ocrCache' = ocrCache \cup {[key |-> Ocr!Key(call.request),
                                             call |-> call]}
        /\ \/ Ocr!Finish(Ocr!Failed) /\ ocrProgress' = ocrProgress
           \/ /\ ocrWorker' =
                   [ocrWorker EXCEPT
                      !.calling = @ \ {call},
                      !.answers = [x \in DOMAIN @ \cup {call.request} |->
                                     IF x = call.request THEN answer ELSE @[x]],
                      !.blocks = [e \in Ocr!Eyes |->
                        [x \in DOMAIN @[e] |->
                           IF x = call.request THEN answer ELSE @[e][x]]]]
              /\ ocrProgress' = [blocks |-> ocrWorker'.blocks, dirty |-> TRUE]
  BY Zenon DEF Ocr!AnswerRequest, Ocr!Saved
<1>3. CacheInv'
  <2>1. CASE ocrCache' = ocrCache
    BY <2>1, OcrFacts DEF CacheInv
  <2>2. CASE /\ Ocr!MayCache(call)
             /\ ocrCache' = ocrCache \cup {[key |-> Ocr!Key(call.request),
                                            call |-> call]}
    <3>. DEFINE new == [key |-> Ocr!Key(call.request), call |-> call]
    <3>1. ocrGlossary = ocrWorker.glossary
      BY <2>2 DEF Ocr!MayCache
    <3>2. call \in OcrCalls /\ call.glossary = ocrWorker.glossary
      BY <1>2, <3>1, OcrFacts DEF OcrCalls
    <3>3. /\ new.call = call /\ new.key.text = call.request.text
          /\ new.key.context = call.request.context
          /\ new.key.target = call.request.target
          /\ new.key.glossary = ocrWorker.glossary
      BY DEF Ocr!Key
    <3>4. ocrCache' = ocrCache \cup {new}
      BY <2>2
    <3>. HIDE DEF new
    <3>. QED BY <3>2, <3>3, <3>4, OcrFacts DEF CacheInv
  <2>. QED BY <1>2, <2>1, <2>2
<1>4. CASE Ocr!Finish(Ocr!Failed) /\ ocrProgress' = ocrProgress
  <2>1. Agrees(Ocr!Failed.blocks)
    BY OcrNothing DEF Ocr!Failed, Ocr!Result
  <2>. QED BY <1>1, <1>3, <1>4, <2>1, OcrFinishes, OcrFacts, OcrWorks
<1>. DEFINE answered == [x \in DOMAIN ocrWorker.answers \cup {call.request} |->
                           IF x = call.request THEN answer ELSE ocrWorker.answers[x]]
            read == [e \in Ocr!Eyes |->
                       [x \in DOMAIN ocrWorker.blocks[e] |->
                          IF x = call.request THEN answer ELSE ocrWorker.blocks[e][x]]]
<1>5. CASE /\ ocrWorker' = [ocrWorker EXCEPT !.calling = @ \ {call},
                                             !.answers = answered, !.blocks = read]
           /\ ocrProgress' = [blocks |-> ocrWorker'.blocks, dirty |-> TRUE]
  <2>1. /\ DOMAIN answered = DOMAIN ocrWorker.answers \cup {call.request}
        /\ \A x \in DOMAIN answered :
             answered[x] = IF x = call.request THEN answer ELSE ocrWorker.answers[x]
        /\ DOMAIN read = Ocr!Eyes
        /\ \A e \in Ocr!Eyes :
             /\ DOMAIN read[e] = DOMAIN ocrWorker.blocks[e]
             /\ \A x \in DOMAIN read[e] :
                  read[e][x] = IF x = call.request THEN answer
                                                ELSE ocrWorker.blocks[e][x]
    OBVIOUS
  <2>. HIDE DEF answered, read
  <2>2. /\ DOMAIN ocrWorker' = DOMAIN ocrWorker
        /\ ocrWorker'.at = ocrWorker.at /\ ocrWorker'.id = ocrWorker.id
        /\ ocrWorker'.config = ocrWorker.config
        /\ ocrWorker'.glossary = ocrWorker.glossary
        /\ ocrWorker'.calling = ocrWorker.calling \ {call}
        /\ ocrWorker'.answers = answered /\ ocrWorker'.blocks = read
        /\ ocrWorker'.result = ocrWorker.result
        /\ ocrWorker'.images = ocrWorker.images
        /\ ocrWorker'.queue = ocrWorker.queue
    BY <1>0, <1>5
  <2>3. ASSUME NEW e \in Ocr!Eyes, NEW t \in DOMAIN read[e]
        PROVE  read[e][t] = IF t \in DOMAIN answered THEN answered[t] ELSE "timeout"
    <3>1. ocrWorker.blocks[e][t] =
            IF t \in DOMAIN ocrWorker.answers THEN ocrWorker.answers[t] ELSE "timeout"
      BY <2>1, <2>3, OcrFacts
    <3>. QED BY <2>1, <2>3, <3>1
  <2>. QED BY <1>1, <1>3, <1>5, <2>1, <2>2, <2>3, OcrFacts, OcrWorks
<1>. QED BY <1>2, <1>4, <1>5

\* What the runtime takes away, it takes away together.
LEMMA OcrClears ==
  ASSUME ScanInv, NEW s, Ocr!Clear(s), ocrGlossary' = ocrGlossary,
         ocrCache' = ocrCache
  PROVE  ScanInv'
<1>1. /\ ocrWorker' = Ocr!NoWorker /\ ocrShown' = Ocr!NoBlocks
      /\ ocrProgress' = Ocr!NoProgress /\ ocrCapture' = None
      /\ ocrPending' = FALSE
  BY DEF Ocr!Clear, Ocr!Abort
<1>2. \/ ocrChannel' = ocrChannel
      \/ \E x : Agrees(x.result.blocks) /\ ocrChannel' = Append(ocrChannel, x)
  <2>. DEFINE x == [id |-> ocrWorker.id,
                    result |-> IF ocrWorker.at = "sending" THEN ocrWorker.result
                                                           ELSE Ocr!Phase]
  <2>1. ocrChannel' = ocrChannel \/ ocrChannel' = Append(ocrChannel, x)
    BY DEF Ocr!Clear, Ocr!Abort
  <2>2. Agrees(Ocr!Phase.blocks)
    BY OcrNothing DEF Ocr!Phase, Ocr!Result
  <2>3. x.result = ocrWorker.result \/ x.result = Ocr!Phase
    OBVIOUS
  <2>. HIDE DEF x
  <2>. QED BY <2>1, <2>2, <2>3, OcrFacts
<1>3. /\ ocrChannel' \in Seq(ToSet(ocrChannel'))
      /\ \A i \in 1..Len(ocrChannel') : Agrees(ocrChannel'[i].result.blocks)
  <2>1. CASE ocrChannel' = ocrChannel
    BY <2>1 DEF ScanInv, ScanTypes, AnswerInv
  <2>2. CASE \E x : Agrees(x.result.blocks) /\ ocrChannel' = Append(ocrChannel, x)
    BY <2>2, OcrSends DEF ScanInv, AnswerInv
  <2>. QED BY <1>2, <2>1, <2>2
<1>4. /\ DOMAIN ocrProgress' = {"blocks", "dirty"}
      /\ ocrProgress'.blocks = Ocr!NoBlocks /\ ocrProgress'.dirty = FALSE
  BY <1>1 DEF Ocr!NoProgress
<1>5. ScanTypes'
  BY <1>1, <1>3, <1>4, OcrIdle, OcrNothing, OcrFacts DEF ScanTypes
<1>6. ShownInv'
  BY <1>1, <1>4, OcrIdle DEF ShownInv, Ocr!ShownIsCurrent
<1>7. AnswerInv'
  BY <1>1, <1>3, <1>4, OcrIdle, OcrNothing DEF AnswerInv
<1>8. GlossaryInv'
  <2>1. CacheInv' /\ ocrGlossary' \in Nat
    BY DEF ScanInv, ScanTypes, GlossaryInv, CacheInv
  <2>. QED BY <1>1, <2>1, OcrIdle DEF GlossaryInv
<1>. QED BY <1>5, <1>6, <1>7, <1>8 DEF ScanInv

\* The task and what it made stay; so does what is shown, or it goes.
LEMMA OcrStays ==
  ASSUME ScanInv, ocrWorker' = ocrWorker, ocrProgress' = ocrProgress,
         ocrChannel' = ocrChannel, ocrShown' = ocrShown, ocrShownOf' = ocrShownOf,
         ocrScan' = ocrScan, ocrCapture' = ocrCapture, ocrCache' = ocrCache,
         ocrSelecting' \/ ocrPending' => ocrSelecting \/ ocrPending,
         ~(ocrSelecting' /\ ocrPending') \/ (ocrSelecting /\ ocrPending),
         ocrGlossary' \in {ocrGlossary, ocrGlossary + 1}
  PROVE  ScanInv'
<1>1. ocrGlossary' \in Nat /\ ocrGlossary <= ocrGlossary'
  BY OcrFacts
<1>2. ScanTypes'
  BY <1>1 DEF ScanInv, ScanTypes
<1>3. ShownInv'
  BY DEF ScanInv, ShownInv, Ocr!ShownIsCurrent
<1>4. AnswerInv'
  BY DEF ScanInv, AnswerInv, Agrees
<1>5. GlossaryInv'
  <2>1. /\ CacheInv'
        /\ ocrWorker.at = "preparing" => ocrWorker.calling = {}
    BY DEF ScanInv, GlossaryInv, CacheInv
  <2>2. ocrWorker.glossary <= ocrGlossary'
    BY <1>1, OcrFacts DEF ScanInv, GlossaryInv
  <2>3. ASSUME NEW call \in ocrWorker.calling
        PROVE  /\ call \in OcrCalls /\ ocrWorker.glossary <= call.glossary
               /\ call.glossary <= ocrGlossary'
    BY <1>1, <2>3, OcrFacts DEF OcrCalls
  <2>. QED BY <2>1, <2>2, <2>3, OcrFacts DEF GlossaryInv
<1>. QED BY <1>2, <1>3, <1>4, <1>5 DEF ScanInv

\* The images are there, and the task begins.
LEMMA OcrCaptured ==
  ASSUME ScanInv, Ocr!PollCapture
  PROVE  ScanInv'
<1>1. CASE ocrConfig # ocrSeen
  <2>1. /\ \E s : Ocr!Clear(s)
        /\ ocrGlossary' = ocrGlossary /\ ocrCache' = ocrCache
    BY <1>1, Zenon DEF Ocr!PollCapture
  <2>. QED BY <2>1, OcrClears
<1>2. CASE ocrConfig = ocrSeen
  <2>1. PICK eyes : ocrWorker' = [Ocr!NoWorker EXCEPT !.at = "preparing",
                                    !.id = ocrScan, !.config = ocrConfig,
                                    !.eyes = eyes]
    BY <1>2, Zenon DEF Ocr!PollCapture
  <2>2. /\ ocrPending = TRUE \/ ocrPending
        /\ ocrPending' = FALSE /\ ocrCapture' = ocrConfig
        /\ ocrProgress' = Ocr!NoProgress /\ ocrScan' = ocrScan
        /\ ocrShown' = ocrShown /\ ocrShownOf' = ocrShownOf
        /\ ocrSelecting' = ocrSelecting
        /\ ocrChannel' = ocrChannel /\ ocrCache' = ocrCache
        /\ ocrGlossary' = ocrGlossary
    BY <1>2, Zenon DEF Ocr!PollCapture
  <2>3. /\ DOMAIN ocrWorker' = DOMAIN Ocr!NoWorker
        /\ ocrWorker'.at = "preparing" /\ ocrWorker'.id = ocrScan
        /\ ocrWorker'.config = ocrConfig /\ ocrWorker'.glossary = 0
        /\ ocrWorker'.blocks = Ocr!NoBlocks /\ ocrWorker'.calling = {}
        /\ ocrWorker'.images = << >> /\ ocrWorker'.queue = << >>
        /\ ocrWorker'.result.blocks = Ocr!NoBlocks
    BY <2>1, OcrIdle
  <2>4. /\ DOMAIN ocrProgress' = {"blocks", "dirty"}
        /\ ocrProgress'.blocks = Ocr!NoBlocks /\ ocrProgress'.dirty = FALSE
    BY <2>2 DEF Ocr!NoProgress
  <2>5. ocrShown = Ocr!NoBlocks /\ ~ocrSelecting
    BY <2>2 DEF ScanInv, ShownInv
  <2>6. ScanTypes'
    BY <2>2, <2>3, <2>4, OcrIdle, OcrNothing DEF ScanInv, ScanTypes
  <2>7. ShownInv'
    BY <2>2, <2>3, <2>4, <2>5 DEF ShownInv, Ocr!ShownIsCurrent
  <2>8. AnswerInv'
    BY <2>2, <2>3, <2>4, <2>5, OcrNothing DEF ScanInv, AnswerInv
  <2>9. GlossaryInv'
    <3>1. CacheInv' /\ ocrGlossary \in Nat
      BY <2>2 DEF ScanInv, ScanTypes, GlossaryInv, CacheInv
    <3>. QED BY <2>2, <2>3, <3>1, OcrIdle DEF GlossaryInv
  <2>. QED BY <2>6, <2>7, <2>8, <2>9 DEF ScanInv
<1>. QED BY <1>1, <1>2

\* The runtime shows the result or the progress of its scan.
LEMMA OcrTicks ==
  ASSUME ScanInv, Ocr!Tick
  PROVE  ScanInv'
<1>. DEFINE first == FirstIn(ocrChannel, {u \in ToSet(ocrChannel) : Ocr!Mine(u)})
<1>0. Ocr!FirstIn(ocrChannel, {u \in Ocr!Range(ocrChannel) : Ocr!Mine(u)}) = first
  BY DEF Ocr!FirstIn, FirstIn, Ocr!Range, ToSet
<1>1. /\ ~ocrPending /\ ocrGlossary' = ocrGlossary /\ ocrCache' = ocrCache
  BY DEF Ocr!Tick
<1>2. first \in 1..Len(ocrChannel) + 1
      /\ (first <= Len(ocrChannel) =>
            ocrChannel[first] \in {u \in ToSet(ocrChannel) : Ocr!Mine(u)})
  BY FirstInProperties DEF ScanInv, ScanTypes
<1>3. Len(ocrChannel) \in Nat
  BY DEF ScanInv, ScanTypes
<1>. HIDE DEF first
<1>4. CASE ocrCapture = None
  <2>1. /\ ocrChannel' = << >> /\ ocrWorker' = ocrWorker /\ UNCHANGED Ocr!inView
    BY <1>4 DEF Ocr!Tick
  <2>2. /\ ocrScan' = ocrScan /\ ocrSelecting' = ocrSelecting
        /\ ocrPending' = ocrPending /\ ocrCapture' = ocrCapture
        /\ ocrShown' = ocrShown /\ ocrShownOf' = ocrShownOf
        /\ ocrProgress' = ocrProgress
    BY <2>1 DEF Ocr!inView
  <2>3. ScanTypes'
    BY <1>1, <2>1, <2>2, OcrNothing DEF ScanInv, ScanTypes
  <2>4. ShownInv'
    BY <2>1, <2>2 DEF ScanInv, ShownInv, Ocr!ShownIsCurrent
  <2>5. AnswerInv'
    BY <2>1, <2>2, OcrNothing DEF ScanInv, AnswerInv, Agrees
  <2>6. GlossaryInv'
    BY <1>1, <2>1 DEF ScanInv, GlossaryInv, CacheInv
  <2>. QED BY <2>3, <2>4, <2>5, <2>6 DEF ScanInv
<1>5. CASE ocrCapture # None /\ Ocr!Clear(FALSE)
  <2>1. \E s : Ocr!Clear(s)
    BY <1>5, Zenon
  <2>. QED BY <1>1, <2>1, OcrClears
<1>6. CASE ocrCapture # None /\ first > Len(ocrChannel) /\ ~Ocr!Clear(FALSE)
  <2>1. /\ ocrChannel' = << >> /\ ocrWorker' = ocrWorker
        /\ ocrScan' = ocrScan /\ ocrSelecting' = ocrSelecting
        /\ ocrPending' = ocrPending /\ ocrCapture' = ocrCapture
        /\ \/ /\ ocrProgress.dirty
              /\ ocrShown' = ocrProgress.blocks /\ ocrShownOf' = ocrWorker.id
              /\ ocrProgress' = [ocrProgress EXCEPT !.dirty = FALSE]
           \/ /\ ocrShown' = ocrShown /\ ocrShownOf' = ocrShownOf
              /\ ocrProgress' = ocrProgress
    BY <1>0, <1>6 DEF Ocr!Tick, Ocr!Show
  <2>2. /\ {"blocks", "dirty"} \subseteq DOMAIN ocrProgress'
        /\ ocrProgress'.dirty \in BOOLEAN
        /\ ocrProgress'.dirty => ocrProgress.dirty
        /\ ocrProgress'.blocks = ocrProgress.blocks
    BY <2>1 DEF ScanInv, ScanTypes
  <2>3. ScanTypes'
    BY <1>1, <2>1, <2>2, OcrNothing DEF ScanInv, ScanTypes
  <2>4. ShownInv'
    <3>1. CASE ocrShown' = ocrShown /\ ocrShownOf' = ocrShownOf
      BY <2>1, <2>2, <3>1 DEF ScanInv, ShownInv, Ocr!ShownIsCurrent
    <3>2. CASE ocrProgress.dirty /\ ocrShownOf' = ocrWorker.id
      <4>1. ocrWorker.at # "none" /\ ocrWorker.id = ocrScan
        BY <3>2 DEF ScanInv, ShownInv, Ocr!ShownIsCurrent
      <4>. QED BY <1>1, <1>6, <2>1, <2>2, <3>2, <4>1
               DEF ScanInv, ShownInv, Ocr!ShownIsCurrent
    <3>. QED BY <2>1, <3>1, <3>2
  <2>5. AnswerInv'
    <3>1. Agrees(ocrShown')
      BY <2>1 DEF ScanInv, AnswerInv
    <3>. QED BY <2>1, <2>2, <3>1, OcrNothing DEF ScanInv, AnswerInv
  <2>6. GlossaryInv'
    BY <1>1, <2>1 DEF ScanInv, GlossaryInv, CacheInv
  <2>. QED BY <2>3, <2>4, <2>5, <2>6 DEF ScanInv
<1>7. CASE ocrCapture # None /\ first <= Len(ocrChannel) /\ ~Ocr!Clear(FALSE)
  <2>0. ~(first > Len(ocrChannel))
    BY <1>2, <1>3, <1>7
  <2>1. /\ ocrShown' = ocrChannel[first].result.blocks
        /\ ocrShownOf' = ocrChannel[first].id
        /\ ocrCapture' = IF ocrShown' = Ocr!NoBlocks THEN None ELSE ocrCapture
        /\ ocrWorker' = Ocr!NoWorker /\ ocrProgress' = Ocr!NoProgress
        /\ ocrChannel' = << >> /\ ocrScan' = ocrScan
        /\ ocrSelecting' = ocrSelecting /\ ocrPending' = ocrPending
    BY <1>0, <1>7, <2>0 DEF Ocr!Tick, Ocr!Show
  <2>2. ocrChannel[first].id = ocrScan
    BY <1>2, <1>7 DEF Ocr!Mine
  <2>3. /\ DOMAIN ocrProgress' = {"blocks", "dirty"}
        /\ ocrProgress'.blocks = Ocr!NoBlocks /\ ocrProgress'.dirty = FALSE
    BY <2>1 DEF Ocr!NoProgress
  <2>4. ScanTypes'
    BY <1>1, <2>1, <2>3, OcrNothing, OcrIdle DEF ScanInv, ScanTypes
  <2>5. ShownInv'
    BY <1>1, <1>7, <2>1, <2>2, <2>3, OcrIdle
       DEF ScanInv, ShownInv, Ocr!ShownIsCurrent
  <2>6. AnswerInv'
    <3>1. Agrees(ocrShown')
      BY <1>2, <1>3, <1>7, <2>1 DEF ScanInv, AnswerInv
    <3>. QED BY <2>1, <2>3, <3>1, OcrIdle, OcrNothing DEF AnswerInv
  <2>7. GlossaryInv'
    <3>1. CacheInv' /\ ocrGlossary' \in Nat
      BY <1>1 DEF ScanInv, ScanTypes, GlossaryInv, CacheInv
    <3>. QED BY <2>1, <3>1, OcrIdle DEF GlossaryInv
  <2>. QED BY <2>4, <2>5, <2>6, <2>7 DEF ScanInv
<1>8. first <= Len(ocrChannel) \/ first > Len(ocrChannel)
  BY <1>2, <1>3
<1>. QED BY <1>4, <1>5, <1>6, <1>7, <1>8

LEMMA ScanStart ==
  ASSUME Ocr!ScanInit
  PROVE  ScanInv
<1>1. /\ ocrGlossary = 0 /\ ocrShown = Ocr!NoBlocks /\ ocrChannel = << >>
      /\ ocrProgress = Ocr!NoProgress /\ ocrWorker = Ocr!NoWorker /\ ocrCache = {}
      /\ ocrSelecting = FALSE /\ ocrPending = FALSE
  BY DEF Ocr!ScanInit
<1>2. /\ DOMAIN ocrProgress = {"blocks", "dirty"}
      /\ ocrProgress.blocks = Ocr!NoBlocks /\ ocrProgress.dirty = FALSE
  BY <1>1 DEF Ocr!NoProgress
<1>3. ScanTypes
  BY <1>1, <1>2, OcrIdle, OcrNothing DEF ScanTypes
<1>4. ShownInv
  BY <1>1, <1>2, OcrIdle DEF ShownInv, Ocr!ShownIsCurrent
<1>5. AnswerInv
  BY <1>1, <1>2, OcrIdle, OcrNothing DEF AnswerInv
<1>6. GlossaryInv
  BY <1>1, OcrIdle DEF GlossaryInv, CacheInv
<1>. QED BY <1>3, <1>4, <1>5, <1>6 DEF ScanInv

LEMMA ScanStep ==
  ASSUME ScanInv, Ocr!ScanNext \/ UNCHANGED scans
  PROVE  ScanInv'
<1>1. CASE UNCHANGED scans \/ Ocr!ChangeConfig \/ Ocr!EditGlossary
  <2>1. /\ ocrWorker' = ocrWorker /\ ocrProgress' = ocrProgress
        /\ ocrChannel' = ocrChannel /\ ocrShown' = ocrShown
        /\ ocrShownOf' = ocrShownOf /\ ocrScan' = ocrScan
        /\ ocrCapture' = ocrCapture /\ ocrCache' = ocrCache
        /\ ocrSelecting' = ocrSelecting /\ ocrPending' = ocrPending
        /\ ocrGlossary' \in {ocrGlossary, ocrGlossary + 1}
    BY <1>1 DEF scans, Ocr!ChangeConfig, Ocr!EditGlossary, Ocr!inView
  <2>. QED BY <2>1, OcrStays
<1>2. CASE \/ Ocr!TakeConfig \/ Ocr!ClearScan \/ Ocr!Frame \/ Ocr!Confirm
  <2>1. /\ ocrGlossary' = ocrGlossary /\ ocrCache' = ocrCache
        /\ \/ \E s : Ocr!Clear(s)
           \/ /\ ocrWorker' = ocrWorker /\ ocrProgress' = ocrProgress
              /\ ocrChannel' = ocrChannel /\ ocrShown' = ocrShown
              /\ ocrShownOf' = ocrShownOf /\ ocrScan' = ocrScan
              /\ ocrCapture' = ocrCapture
              /\ ocrSelecting' \/ ocrPending' => ocrSelecting \/ ocrPending
              /\ ~(ocrSelecting' /\ ocrPending') \/ (ocrSelecting /\ ocrPending)
    BY <1>2 DEF Ocr!TakeConfig, Ocr!ClearScan, Ocr!Frame, Ocr!Confirm, Ocr!inView
  <2>. QED BY <2>1, OcrClears, OcrStays
<1>3. CASE Ocr!PollCapture \/ Ocr!Tick
  BY <1>3, OcrCaptured, OcrTicks
<1>. QED BY <1>1, <1>2, <1>3, OcrEnds, OcrGoesOn, OcrTakesImage, OcrAnswers
         DEF Ocr!ScanNext

LEMMA ScanEyesAgree ==
  ASSUME ScanInv
  PROVE  Ocr!EyesAgree
BY DEF ScanInv, AnswerInv, Agrees, Ocr!EyesAgree

\* What a key finds was kept for it.
LEMMA ScanCacheIsCurrent ==
  ASSUME ScanInv
  PROVE  Ocr!CacheIsCurrent
<1>. SUFFICES ASSUME NEW entry \in ocrCache, NEW r \in Ocr!Requests,
                     entry.key = Ocr!Key(r)
              PROVE  entry.call = [request |-> r, glossary |-> ocrWorker.glossary]
  BY DEF Ocr!CacheIsCurrent
<1>1. /\ entry.call \in OcrCalls
      /\ entry.call.request.text = r.text /\ entry.call.request.context = r.context
      /\ entry.call.request.target = r.target
      /\ entry.call.glossary = ocrWorker.glossary
  BY DEF ScanInv, GlossaryInv, CacheInv, Ocr!Key
<1>2. entry.call.request \in Ocr!Requests
  BY <1>1 DEF OcrCalls
<1>3. entry.call.request = r
  BY <1>1, <1>2 DEF Ocr!Requests
<1>. QED BY <1>1, <1>3 DEF OcrCalls
-----------------------------------------------------------------------------
(* The services side by side                                               *)

StoppedInv == StoresInv /\ VisionInv /\ RuntimeInv /\ LiveInv /\ FeedInv

\* A step moves one service, and leaves the others alone.
LEMMA ServicesMove ==
  ASSUME [MCNext]_<<focus, vars, uploads, runtime, scans, questions, audio, feed,
                    live, stores>>
  PROVE  /\ Stores!StoresNext \/ UNCHANGED stores
         /\ Vision!QuestionNext \/ UNCHANGED questions
         /\ Qwen!RuntimeNext \/ UNCHANGED runtime
         /\ Live!LiveNext \/ UNCHANGED live
         /\ Feed!FeedNext \/ UNCHANGED feed
         /\ Ocr!ScanNext \/ UNCHANGED scans
BY DEF MCNext

LEMMA StoppedStart ==
  ASSUME MCInit
  PROVE  StoppedInv
BY StoresStart, VisionStart, RuntimeStart, LiveStart, FeedStart DEF MCInit, StoppedInv

LEMMA StoppedStep ==
  ASSUME StoppedInv,
         [MCNext]_<<focus, vars, uploads, runtime, scans, questions, audio, feed,
                    live, stores>>
  PROVE  StoppedInv'
<1>1. /\ Stores!StoresNext \/ UNCHANGED stores
      /\ Vision!QuestionNext \/ UNCHANGED questions
      /\ Qwen!RuntimeNext \/ UNCHANGED runtime
      /\ Live!LiveNext \/ UNCHANGED live
      /\ Feed!FeedNext \/ UNCHANGED feed
  BY ServicesMove
<1>. QED BY <1>1, StoresStep, VisionStep, RuntimeStep, LiveStep, FeedStep
         DEF StoppedInv

\* What was stopped stays stopped: no process of the recognition answers after
\* it was stopped or replaced, two holders never have the microphone, no
\* preview stays behind in the window, a connection is closed for silence only,
\* and no process runs on a model that was moved or deleted; with any number of
\* users, models, speeches, conversations and chunks of audio.
THEOREM StoppedStaysStoppedHolds == MCSpec => []StoppedStaysStopped
<1>1. MCInit => StoppedInv
  BY StoppedStart
<1>2. StoppedInv /\ [MCNext]_<<focus, vars, uploads, runtime, scans, questions,
                               audio, feed, live, stores>> => StoppedInv'
  BY StoppedStep
<1>3. StoppedInv => StoppedStaysStopped
  BY VisionOneMicrophone, LiveInSilence, FeedShows
     DEF StoppedInv, StoppedStaysStopped, VisionInv, RuntimeInv, SessionInv, StoresInv,
         StorePlaceInv
<1>. QED BY <1>1, <1>2, <1>3, PTL DEF MCSpec

\* Results are not mixed up: what is shown, shared and cached of a scan belongs
\* to the scan, the text among its neighbours, the target and the glossary it is
\* taken for, what is shown of a
\* question to the question, a shown subtitle to the opened conversation, and a
\* model is in the directory of the settings; with any number of texts, users,
\* conversations and changes of the settings.
THEOREM ResultsAreNotMixedHolds == MCSpec => []ResultsAreNotMixed
<1>. DEFINE Inv == StoppedInv /\ ScanInv
<1>1. MCInit => Inv
  BY StoppedStart, ScanStart DEF MCInit
<1>2. Inv /\ [MCNext]_<<focus, vars, uploads, runtime, scans, questions, audio,
                        feed, live, stores>> => Inv'
  BY StoppedStep, ServicesMove, ScanStep
<1>3. Inv => ResultsAreNotMixed
  <2>. SUFFICES ASSUME Inv PROVE ResultsAreNotMixed
    OBVIOUS
  <2>1. /\ Ocr!ShownIsCurrent /\ Ocr!CacheIsCurrent /\ Ocr!EyesAgree
    BY ScanEyesAgree, ScanCacheIsCurrent DEF ScanInv, ShownInv
  <2>2. Vision!ContentIsCurrent
    BY DEF StoppedInv, VisionInv, ContentInv
  <2>3. Feed!PoolIsOpened
    BY FeedShows DEF StoppedInv
  <2>4. /\ Stores!DirectoriesAgree /\ Stores!ModelsAreFound
        /\ Stores!ShownIsDownloaded
    BY DEF StoppedInv, StoresInv, StorePlaceInv, StoreRootsInv,
           Stores!DirectoriesAgree
  <2>. QED BY <2>1, <2>2, <2>3, <2>4 DEF ResultsAreNotMixed
<1>. QED BY <1>1, <1>2, <1>3, PTL DEF MCSpec
=============================================================================
