------------------------------- MODULE OcrScan -------------------------------
(***************************************************************************)
(* A scan of the text in view: the runtime of the VR overlay               *)
(* (vr_overlay/ocr_runtime.rs), which owns the capture and polls, and the  *)
(* task it spawns, which recognizes the image of each eye (ocr/local.rs)   *)
(* and translates what was found (ocr/tasks.rs) until it is done, fails or *)
(* is out of time.                                                         *)
(*                                                                         *)
(* A request is a text, the neighbours that are sent along as its context, *)
(* and a target: the same text among other neighbours is another request,  *)
(* the same in both eyes is one.  Images are functions from the requests   *)
(* of their blocks to what is known of the translation.  Configurations    *)
(* and glossaries are their numbers.                                       *)
(***************************************************************************)
EXTENDS FiniteSets, Functions, MessageQueue

CONSTANTS
  Texts,        \* texts that can be recognized
  Contexts,     \* what group_context selects from the neighbours of a block
  Targets,      \* the configured ocr.targets
  None,         \* Option::None
  Disabled,     \* configurations in which OCR is off
  Slots,        \* translation requests at a time
  Capacity,     \* capacity of the channel of updates
  MaxFrames,    \* bound: frames drawn by the user
  MaxChanges    \* bound: changes of the configuration or of the glossary

ScanAssumption ==
  /\ IsFiniteSet(Texts) /\ IsFiniteSet(Contexts) /\ IsFiniteSet(Targets)
  /\ Slots \in Nat \ {0} /\ Capacity \in Nat \ {0}
  /\ MaxFrames \in Nat /\ MaxChanges \in Nat

VARIABLES
  config,     \* the service's configuration
  seen,       \* the overlay's copy of it
  glossary,   \* the glossary of the translations
  frames,     \* frames drawn
  scan,       \* status.scan_id
  selecting,  \* the user draws a frame
  pending,    \* pending_capture: the compositor has been asked for the images
  capture,    \* the configuration of the capture that is shown, or None
  shown,      \* OcrRuntime.blocks
  shownOf,    \* history: the scan shown was made by
  channel,    \* the channel of updates: [id, result]
  progress,   \* ScanProgress: the blocks so far, and whether they are new
  worker,     \* the task, or what is left of it
  cache       \* TranslationCache: key, and the call that was answered

scanVars == <<config, seen, glossary, frames, scan, selecting, pending, capture,
              shown, shownOf, channel, progress, worker, cache>>

inView == <<scan, selecting, pending, capture, shown, shownOf, progress>>

\* TranslationRequest
Requests == [text : Texts, context : Contexts, target : Targets]

\* The images: every block is translated to every target.
Images == {{r \in Requests : <<r.text, r.context>> \in blocks} :
             blocks \in SUBSET (Texts \X Contexts)}

Eyes     == 1..2
Nothing  == [r \in {} |-> "timeout"]
NoBlocks == [e \in Eyes |-> Nothing]
NoProgress == [blocks |-> NoBlocks, dirty |-> FALSE]

\* the results of updates
Result(kind, blocks) == [kind |-> kind, blocks |-> blocks]
Phase  == Result("phase", NoBlocks)
Failed == Result("failed", NoBlocks)

NoWorker ==
  [at |-> "none", id |-> 0, config |-> 0, glossary |-> 0, eyes |-> 0,
   images |-> << >>, heard |-> 0, blocks |-> NoBlocks, queue |-> << >>,
   calling |-> {}, answers |-> Nothing, result |-> Failed]

ScanInit ==
  /\ config = 0 /\ seen = 0 /\ glossary = 0 /\ frames = 0
  /\ scan = 0 /\ selecting = FALSE /\ pending = FALSE /\ capture = None
  /\ shown = NoBlocks /\ shownOf = 0
  /\ channel = << >> /\ progress = NoProgress
  /\ worker = NoWorker /\ cache = {}

-----------------------------------------------------------------------------
(* Settings                                                                *)

ChangeConfig ==
  /\ config + glossary < MaxChanges /\ config' = config + 1
  /\ UNCHANGED <<seen, glossary, frames, inView, channel, worker, cache>>

EditGlossary ==
  /\ config + glossary < MaxChanges /\ glossary' = glossary + 1
  /\ UNCHANGED <<config, seen, frames, inView, channel, worker, cache>>

-----------------------------------------------------------------------------
(* The runtime                                                             *)

\* The task is aborted; one that runs at this moment may still send its
\* update.
Abort ==
  /\ worker' = NoWorker
  /\ \/ UNCHANGED channel
     \/ /\ worker.at \in {"recognizing", "sending"}
        /\ Len(channel) < Capacity
        /\ channel' = Append(channel, [id |-> worker.id,
                        result |-> IF worker.at = "sending" THEN worker.result
                                                            ELSE Phase])

\* clear, and what its caller selects next
Clear(nowSelecting) ==
  /\ Abort
  /\ scan' = scan + 1
  /\ capture' = None /\ pending' = FALSE /\ selecting' = nowSelecting
  /\ shown' = NoBlocks /\ progress' = NoProgress
  /\ UNCHANGED shownOf

\* A tick with a new copy of the configuration; OCR that is off is cleared.
TakeConfig ==
  /\ seen # config /\ seen' = config
  /\ IF config \in Disabled /\ (selecting \/ pending \/ capture # None)
     THEN Clear(FALSE)
     ELSE UNCHANGED <<inView, channel, worker>>
  /\ UNCHANGED <<config, glossary, frames, cache>>

\* The user cancels, closes the reader or leaves the scene, the display time
\* is over, or the device fails.
ClearScan ==
  /\ selecting \/ pending \/ capture # None
  /\ Clear(FALSE)
  /\ UNCHANGED <<config, seen, glossary, frames, cache>>

\* The hands draw a frame: what is shown goes.
Frame ==
  /\ ~selecting /\ ~pending /\ frames < MaxFrames
  /\ frames' = frames + 1
  /\ Clear(TRUE)
  /\ UNCHANGED <<config, seen, glossary, cache>>

\* begin_ocr_capture, or reject_disabled_request
Confirm ==
  /\ selecting
  /\ IF seen \in Disabled
     THEN Clear(FALSE)
     ELSE /\ selecting' = FALSE /\ pending' = TRUE
          /\ UNCHANGED <<scan, capture, shown, shownOf, progress, channel,
                         worker>>
  /\ UNCHANGED <<config, seen, glossary, frames, cache>>

\* The images are there and start spawns the task, unless the configuration
\* has become another one.
PollCapture ==
  /\ pending
  /\ IF config # seen
     THEN Clear(FALSE)
     ELSE \E eyes \in Eyes :
            /\ pending' = FALSE /\ capture' = config
            /\ progress' = NoProgress
            /\ worker' = [NoWorker EXCEPT !.at = "preparing", !.id = scan,
                            !.config = config, !.eyes = eyes]
            /\ UNCHANGED <<scan, selecting, shown, shownOf, channel>>
  /\ UNCHANGED <<config, seen, glossary, frames, cache>>

\* next_current_update: updates of other scans are dropped.
Mine(u) == u.id = scan /\ u.result # Phase

Show(blocks, id) == shown' = blocks /\ shownOf' = id

\* The rest of update: all updates are taken, then the progress, which is
\* shown at most every 100 ms.
Tick ==
  /\ ~pending
  /\ IF capture = None
     THEN /\ channel # << >> /\ channel' = << >>
          /\ UNCHANGED <<inView, worker>>
     ELSE IF capture # config THEN Clear(FALSE)
     ELSE LET first == FirstIn(channel, {u \in Range(channel) : Mine(u)})
          IN  IF first > Len(channel)
              THEN /\ channel' = << >>
                   /\ \/ /\ progress.dirty
                         /\ Show(progress.blocks, worker.id)
                         /\ progress' = [progress EXCEPT !.dirty = FALSE]
                      \/ UNCHANGED <<shown, shownOf, progress>>
                   /\ UNCHANGED <<scan, selecting, pending, capture, worker>>
              ELSE IF channel[first].result = Failed
              THEN Clear(FALSE)
              ELSE \* finish_frame
                   /\ Show(channel[first].result.blocks, channel[first].id)
                   /\ capture' = IF shown' = NoBlocks THEN None ELSE capture
                   /\ worker' = NoWorker /\ progress' = NoProgress
                   /\ channel' = << >>
                   /\ UNCHANGED <<scan, selecting, pending>>
  /\ UNCHANGED <<config, seen, glossary, frames, cache>>

-----------------------------------------------------------------------------
(* The task                                                                *)

Ready == worker.at \in {"preparing", "recognizing"}

\* The blocks that a change of the worker's blocks has completed.
Saved == progress' = [blocks |-> worker'.blocks, dirty |-> TRUE]

Outside == UNCHANGED <<config, seen, glossary, frames, scan, selecting, pending,
                       capture, shown, shownOf>>

Finish(result) ==
  worker' = [worker EXCEPT !.at = "sending", !.result = result]

\* prepare_images, and recognize_each up to the engine; the glossary is read
\* when the translations begin.
Prepare ==
  /\ worker.at = "preparing"
  /\ worker' = [worker EXCEPT !.at = "recognizing", !.glossary = glossary]
  /\ UNCHANGED <<progress, channel, cache>> /\ Outside

\* The engine has read the next eye and says which phase it is in.
Recognize ==
  /\ worker.at = "recognizing" /\ worker.heard < worker.eyes
  /\ \E image \in Images :
       worker' = [worker EXCEPT !.heard = @ + 1,
                                !.images = Append(@, image)]
  /\ channel' = IF Len(channel) < Capacity
                THEN Append(channel, [id |-> worker.id, result |-> Phase])
                ELSE channel
  /\ UNCHANGED <<progress, cache>> /\ Outside

\* Preparing, recognizing or the loop of translate_stream fails.
FailScan ==
  /\ Ready /\ Finish(Failed)
  /\ UNCHANGED <<progress, channel, cache>> /\ Outside

Matches == worker.config = config

EyesRead == worker.heard - Len(worker.images)

\* The next image: a block whose request was made before subscribes to it, or
\* gets the answer it has had.
ImageBlocks(image) ==
  [r \in image |-> IF r \in DOMAIN worker.answers THEN worker.answers[r]
                                                  ELSE "timeout"]

TakeImage ==
  /\ worker.at = "recognizing" /\ Matches /\ worker.images # << >>
  /\ LET image == Head(worker.images)
         asked == UNION {DOMAIN worker.blocks[e] : e \in Eyes}
         R == image \ asked
     IN  \E new \in Bijection(1..Cardinality(R), R) :
           worker' = [worker EXCEPT
                        !.images = Tail(@),
                        !.blocks = [@ EXCEPT ![EyesRead + 1] =
                                      ImageBlocks(image)],
                        !.queue = @ \o new]
  /\ IF Head(worker.images) = {} THEN UNCHANGED progress ELSE Saved
  /\ UNCHANGED <<channel, cache>> /\ Outside

\* The loop starts the next request.
StartRequest ==
  /\ worker.at = "recognizing" /\ Matches
  /\ worker.queue # << >> /\ Cardinality(worker.calling) < Slots
  /\ worker' = [worker EXCEPT
                  !.queue = Tail(@),
                  !.calling = @ \cup {[request |-> Head(worker.queue),
                                       glossary |-> glossary]}]
  /\ UNCHANGED <<progress, channel, cache>> /\ Outside

Key_Text(r) ==   \* mutant: the neighbours are not part of the key
  [text |-> r.text, target |-> r.target, config |-> worker.config,
   glossary |-> worker.glossary]
\* the key of the cache
Key(r) ==
  [text |-> r.text, context |-> r.context, target |-> r.target,
   config |-> worker.config, glossary |-> worker.glossary]

\* translate_request: a cached translation, or the answer of the service, which
\* is kept if nothing has changed since the scan read the settings.
MayCache(call) == Matches /\ glossary = worker.glossary

AnswerRequest ==
  /\ worker.at = "recognizing"
  /\ \E call \in worker.calling, answer \in {"ok", "failed"} :
       LET r == call.request
           cached == \E entry \in cache : entry.key = Key(r)
       IN  /\ cached => answer = "ok"
           /\ cache' = IF ~cached /\ answer = "ok" /\ MayCache(call)
                       THEN cache \cup {[key |-> Key(r), call |-> call]}
                       ELSE cache
           /\ IF ~Matches
              THEN Finish(Failed) /\ UNCHANGED progress
              ELSE /\ worker' = [worker EXCEPT
                        !.calling = @ \ {call},
                        !.answers = [x \in DOMAIN @ \cup {r} |->
                                       IF x = r THEN answer ELSE @[x]],
                        !.blocks = [e \in Eyes |->
                          [x \in DOMAIN @[e] |->
                             IF x = r THEN answer ELSE @[e][x]]]]
                   /\ Saved
  /\ UNCHANGED channel /\ Outside

\* The loop notices another configuration, at the latest after 100 ms.
NoticeConfig ==
  /\ worker.at = "recognizing" /\ ~Matches
  /\ Finish(Failed)
  /\ UNCHANGED <<progress, channel, cache>> /\ Outside

CompleteScan ==
  /\ worker.at = "recognizing" /\ Matches
  /\ EyesRead = worker.eyes /\ worker.queue = << >> /\ worker.calling = {}
  /\ Finish(Result("blocks", worker.blocks))
  /\ UNCHANGED <<progress, channel, cache>> /\ Outside

\* Out of time: what has been completed is the result.
TimedOut == progress.blocks

Deadline ==
  /\ Ready /\ Finish(Result("blocks", TimedOut))
  /\ UNCHANGED <<progress, channel, cache>> /\ Outside

SendResult ==
  /\ worker.at = "sending" /\ Len(channel) < Capacity
  /\ channel' = Append(channel, [id |-> worker.id, result |-> worker.result])
  /\ worker' = [worker EXCEPT !.at = "ended"]
  /\ UNCHANGED <<progress, cache>> /\ Outside

-----------------------------------------------------------------------------
ScanNext ==
  \/ ChangeConfig \/ EditGlossary \/ TakeConfig
  \/ ClearScan \/ Frame \/ Confirm \/ PollCapture \/ Tick
  \/ Prepare \/ Recognize \/ FailScan \/ TakeImage \/ StartRequest
  \/ AnswerRequest \/ NoticeConfig \/ CompleteScan \/ Deadline \/ SendResult

\* The overlay polls, the deadline passes and the runtime runs the task; the
\* engine and the services may stay silent.  One condition is enough, since
\* each of them is done after a few steps.
ScanFairness == WF_scanVars(Tick \/ Deadline \/ SendResult)

ScanSpec == ScanInit /\ [][ScanNext]_scanVars /\ ScanFairness
-----------------------------------------------------------------------------
(* Properties                                                              *)

\* What is shown was read in the view the user framed last and not cleared
\* since; the task that runs works for it.
ShownIsCurrent ==
  /\ shown # NoBlocks => shownOf = scan /\ capture # None
  /\ worker.at # "none" => worker.id = scan /\ capture = worker.config

\* The same text among the same neighbours reads the same in both eyes,
\* whenever each of them was recognized: nobody who shares a request misses
\* its answer.
EyesAgree ==
  /\ \A e \in Eyes : \A r \in DOMAIN worker.blocks[e] :
       r \in DOMAIN worker.answers => worker.blocks[e][r] = worker.answers[r]
  /\ \A r \in DOMAIN shown[1] \cap DOMAIN shown[2] : shown[1][r] = shown[2][r]

\* What a scan finds in the cache for a request was translated for this very
\* request, neighbours included, with the glossary the scan works with.
CacheIsCurrent ==
  \A entry \in cache, r \in Requests :
    entry.key = Key(r) =>
      entry.call = [request |-> r, glossary |-> worker.glossary]

\* Within a scan, a translation that is shown stays: neither the progress nor
\* the result, complete or out of time, takes it back.
ShownOnlyGrows ==
  [][scan' = scan =>
       \A e \in Eyes : \A r \in DOMAIN shown[e] :
         /\ r \in DOMAIN shown'[e]
         /\ shown[e][r] # "timeout" => shown'[e][r] = shown[e][r]]_scanVars

\* Where a scan that has begun gets to, with silent services and a full channel
\* too (again and again).
NoScan == worker.at = "none"
=============================================================================
