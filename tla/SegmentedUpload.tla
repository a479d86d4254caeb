-------------------------- MODULE SegmentedUpload --------------------------
(***************************************************************************)
(* Recognition by uploads (src/core/src/asr/segmented_upload.rs) under the *)
(* loop of the pipeline that feeds it (pipeline/mod.rs): audio is buffered *)
(* while somebody speaks, a segment that ends is committed to a bounded    *)
(* queue, one worker uploads a job at a time and answers on a bounded      *)
(* channel of events.  The loop sends, commits and receives in turn.       *)
(*                                                                         *)
(* Audio is the number of the segment it was spoken in, a job the sequence *)
(* of its audio; its id is its place among the accepted commits.           *)
(***************************************************************************)
EXTENDS Integers, FiniteSets, Sequences, Functions

CONSTANTS
  QueueCapacity,  \* UPLOAD_QUEUE_CAPACITY
  EventCapacity,  \* EVENT_QUEUE_CAPACITY
  MaxAudio,       \* max_audio_samples
  MaxSegments     \* bound: segments spoken

UploadAssumption ==
  {QueueCapacity, EventCapacity, MaxAudio, MaxSegments} \subseteq Nat \ {0}

VARIABLES
  phase,     \* the pipeline: "open", "draining", "publishing", "closed"
  segment,   \* the segment spoken, or the next one
  speaking,  \* the segmenter is active
  audio,     \* SegmentedUploadSession.audio
  jobs,      \* history: the audio of each accepted commit
  queue,     \* the channel of jobs: ids
  worker,    \* run_worker: "idle", "uploading", "answering", "ended"
  job,       \* the id it works on, or the last one
  events,    \* the channel of events: ids answered with a text or a failure
  shown,     \* ids whose outcome the pipeline has handled
  refused,   \* history: segments whose commit was refused
  valid,     \* history: segments that ended with speech
  dropped    \* history: outcomes were discarded or could not be stored

uploadVars == <<phase, segment, speaking, audio, jobs, queue, worker, job,
                events, shown, refused, valid, dropped>>

session == <<segment, speaking, audio, jobs, refused, valid>>

UploadInit ==
  /\ phase = "open"
  /\ segment = 1 /\ speaking = FALSE /\ audio = << >>
  /\ jobs = << >> /\ queue = << >> /\ worker = "idle" /\ job = 0
  /\ events = << >> /\ shown = << >>
  /\ refused = {} /\ valid = {} /\ dropped = FALSE

-----------------------------------------------------------------------------
(* The pipeline                                                            *)

\* send, for a chunk of the segment; audio beyond the limit ends the pipeline.
Speak ==
  /\ phase = "open" /\ segment <= MaxSegments
  /\ IF Len(audio) < MaxAudio
     THEN audio' = Append(audio, segment) /\ speaking' = TRUE /\ UNCHANGED phase
     ELSE phase' = "draining" /\ UNCHANGED <<audio, speaking>>
  /\ UNCHANGED <<segment, jobs, queue, worker, job, events, shown, refused,
                 valid, dropped>>

EndSegment(hasSpeech) ==
  /\ phase = "open" /\ speaking
  /\ speaking' = FALSE /\ segment' = segment + 1
  /\ valid' = IF hasSpeech THEN valid \cup {segment} ELSE valid

\* discard_pending: a segment without speech; what is buffered goes with it.
Discard ==
  /\ EndSegment(FALSE)
  /\ audio' = << >>
  /\ UNCHANGED <<phase, jobs, queue, worker, job, events, shown, refused,
                 dropped>>

\* commit_with_empty: a full queue gives the audio back.
Commit_Lose ==   \* mutant: a refused commit loses its audio
  /\ EndSegment(TRUE)
  /\ audio' = << >>
  /\ IF Len(queue) < QueueCapacity
     THEN /\ jobs' = Append(jobs, audio)
          /\ queue' = Append(queue, Len(jobs'))
          /\ UNCHANGED refused
     ELSE refused' = refused \cup {segment} /\ UNCHANGED <<jobs, queue>>
  /\ UNCHANGED <<phase, worker, job, events, shown, dropped>>
Commit ==
  /\ EndSegment(TRUE)
  /\ IF Len(queue) < QueueCapacity
     THEN /\ jobs' = Append(jobs, audio)
          /\ queue' = Append(queue, Len(jobs'))
          /\ audio' = << >>
          /\ UNCHANGED refused
     ELSE refused' = refused \cup {segment} /\ UNCHANGED <<jobs, queue, audio>>
  /\ UNCHANGED <<phase, worker, job, events, shown, dropped>>

\* recv and the publication of the outcome; one that cannot be stored ends the
\* pipeline.
Receive ==
  /\ phase = "open" /\ events # << >>
  /\ events' = Tail(events)
  /\ shown' = Append(shown, Head(events))
  /\ \/ UNCHANGED <<phase, dropped>>
     \/ phase' = "draining" /\ dropped' = TRUE
  /\ UNCHANGED <<session, queue, worker, job>>

\* The pipeline stops, keeping (stop_and_drain) or discarding (stop) what is
\* under way.  Discarding aborts the worker and drops both channels.
StopDraining ==
  /\ phase = "open" /\ phase' = "draining"
  /\ UNCHANGED <<session, queue, worker, job, events, shown, dropped>>

StopDiscarding ==
  /\ phase = "open" /\ phase' = "closed" /\ dropped' = TRUE
  /\ queue' = << >> /\ worker' = "ended" /\ events' = << >>
  /\ UNCHANGED <<session, job, shown>>

\* stop_and_drain: everything is received until the worker has ended; only
\* then is it published, up to the first outcome that cannot be stored.
Drain ==
  /\ phase = "draining" /\ worker = "ended" /\ phase' = "publishing"
  /\ UNCHANGED <<session, queue, worker, job, events, shown, dropped>>

Publish ==
  /\ phase = "publishing"
  /\ IF events = << >>
     THEN phase' = "closed" /\ UNCHANGED <<events, shown, dropped>>
     ELSE /\ shown' = Append(shown, Head(events))
          /\ \/ events' = Tail(events) /\ UNCHANGED <<phase, dropped>>
             \/ events' = << >> /\ phase' = "closed" /\ dropped' = TRUE
  /\ UNCHANGED <<session, queue, worker, job>>

-----------------------------------------------------------------------------
(* run_worker                                                              *)

TakeJob ==
  /\ worker = "idle"
  /\ IF queue # << >>
     THEN worker' = "uploading" /\ job' = Head(queue) /\ queue' = Tail(queue)
     ELSE /\ phase = "draining" /\ worker' = "ended"
          /\ UNCHANGED <<queue, job>>
  /\ UNCHANGED <<phase, session, events, shown, dropped>>

Upload ==
  /\ worker = "uploading" /\ worker' = "answering"
  /\ UNCHANGED <<phase, session, queue, job, events, shown, dropped>>

\* A drain receives without limit; otherwise a full channel makes it wait.
HasRoom == phase = "draining" \/ Len(events) < EventCapacity

SendEvent ==
  /\ worker = "answering" /\ HasRoom
  /\ events' = Append(events, job) /\ worker' = "idle"
  /\ UNCHANGED <<phase, session, queue, job, shown, dropped>>

-----------------------------------------------------------------------------
Worker == TakeJob \/ Upload \/ SendEvent

UploadNext ==
  \/ Speak \/ Discard \/ Commit \/ Receive
  \/ StopDraining \/ StopDiscarding \/ Drain \/ Publish
  \/ Worker

\* The worker runs and its requests have timeouts; the pipeline receives.  One
\* condition is enough, since each of them is done after a few steps.
UploadFairness == WF_uploadVars(Worker \/ Drain \/ Publish \/ Receive)

UploadSpec == UploadInit /\ [][UploadNext]_uploadVars /\ UploadFairness
-----------------------------------------------------------------------------
(* Properties                                                              *)

\* The outcomes are handled once and in the order of the commits, whatever
\* waits in either channel and however the pipeline stops; one that stops
\* without discarding handles all of them, unless one could not be stored.
OutcomesInOrder ==
  /\ shown = [k \in 1..Len(shown) |-> k]
  /\ phase = "closed" /\ ~dropped => Len(shown) = Len(jobs)

\* What was spoken in a segment goes to one upload, whole.  A segment whose
\* commit was refused is carried by the next one that is accepted, ahead of
\* it, unless a segment without speech took it away.
InJob(n) == {k \in DOMAIN jobs : n \in Range(jobs[k])}

SpeechIsUploadedOnce ==
  /\ \A n \in 1..MaxSegments : Cardinality(InJob(n)) <= 1
  /\ \A n \in valid \ refused : InJob(n) # {}
  /\ \A n \in refused : n + 1 \in valid \ refused => InJob(n) = InJob(n + 1)
  /\ \A k \in DOMAIN jobs, i, j \in 1..MaxAudio :
       i < j /\ j <= Len(jobs[k]) => jobs[k][i] <= jobs[k][j]

\* Where a pipeline that stops gets to, although its worker may be waiting for
\* room in the channel and more jobs are queued (again and again).
NotDraining == phase # "draining"
=============================================================================
