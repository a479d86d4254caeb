---------------------------- MODULE QuestionAudio ----------------------------
(***************************************************************************)
(* The microphone of one spoken question about an image (vision/audio.rs,  *)
(* vision/capture.rs, and the producer in audio/wasapi/capture.rs): the    *)
(* device pushes chunks whose times it estimates, the owner releases the   *)
(* window, a reader sends what was said to the recognition while it is     *)
(* being said, and a worker closes the device when the window is complete. *)
(*                                                                         *)
(* Time is counted in the instants at which samples are taken; a sample is *)
(* the instant it was taken at.                                            *)
(***************************************************************************)
EXTENDS Integers, Sequences, MessageQueue

CONSTANTS
  None,       \* Option::None
  Deadline,   \* max_capture_seconds; the button is pressed at 0
  Grace,      \* the second after the release in which audio may still come
  Skew,       \* how far the device's estimate may be off: 250 ms
  MaxChunk,   \* bound: instants in a chunk
  MaxRestarts \* bound: how often the device is lost, or its timing is

AudioAssumption ==
  /\ Deadline \in Nat \ {0} /\ Grace \in Nat \ {0} /\ Skew \in Nat
  /\ MaxChunk \in Nat \ {0} /\ MaxRestarts \in Nat
  /\ None \notin Int

\* bound: nothing waits longer
MaxTime == Deadline + Grace + 1

VARIABLES
  now,       \* Instant::now
  device,    \* the thread of the device: opening, open, lost, closed
  restarts,
  running, watermark,   \* of the tap
  window,    \* State.window, or None when its owner has dropped it
  releasing, \* the instant of a release that waits for the lock
  worker,    \* run_capture: capturing, stopped
  cancelled,
  reader,    \* AudioReader.next: reading, done, failed
  since,     \* released_since
  sent       \* what it has returned, its cursor being the length

audioVars == <<now, device, restarts, running, watermark, window, releasing,
               worker, cancelled, reader, since, sent>>

\* begin_capture
AudioInit ==
  /\ now = 0 /\ device = "opening" /\ restarts = 0
  /\ running = FALSE /\ watermark = None
  /\ window = [start |-> 0, end |-> None, samples |-> << >>,
               coveredStart |-> FALSE, startupGap |-> TRUE,
               complete |-> FALSE, error |-> FALSE]
  /\ releasing = None
  /\ worker = "capturing" /\ cancelled = FALSE
  /\ reader = "reading" /\ since = None /\ sent = << >>

Held == window # None
Range(from, to) == [i \in 1 .. (IF to > from THEN to - from ELSE 0) |-> from + i - 1]
Greater(a, b) == IF a > b THEN a ELSE b
Less(a, b) == IF a < b THEN a ELSE b

Failed(w) == [w EXCEPT !.error = TRUE, !.samples = << >>]

-----------------------------------------------------------------------------
(* The device                                                              *)

\* tap.started, after the device is opened or opened again
Started ==
  /\ device \in {"opening", "lost"} /\ worker = "capturing"
  /\ device' = "open" /\ running' = TRUE /\ watermark' = None
  /\ UNCHANGED <<now, restarts, window, releasing, worker, cancelled, reader,
                 since, sent>>

\* stop_with_error
Preserved(terminal) ==
  window.complete \/ (~terminal /\ ~window.coveredStart)

Stopped(terminal) ==
  /\ running' = FALSE /\ watermark' = None
  /\ window' = IF Held /\ ~Preserved(terminal) THEN Failed(window) ELSE window

\* The default device changes and is opened again, or the thread ends.
Lose ==
  /\ device = "open" /\ worker = "capturing" /\ restarts < MaxRestarts
  /\ restarts' = restarts + 1
  /\ device' \in {"lost", "closed"}
  /\ Stopped(FALSE)
  /\ UNCHANGED <<now, releasing, worker, cancelled, reader, since, sent>>

\* tap.discontinuity: the estimate is too far off; a new one begins.
Discontinuity ==
  /\ device = "open" /\ worker = "capturing" /\ restarts < MaxRestarts
  /\ watermark # None
  /\ restarts' = restarts + 1
  /\ watermark' = None
  /\ window' = IF Held /\ ~window.complete THEN Failed(window) ELSE window
  /\ UNCHANGED <<now, device, running, releasing, worker, cancelled, reader,
                 since, sent>>

\* What a chunk adds to a window without an error.
Covered(w, start) ==
  IF w.coveredStart THEN w
  ELSE LET from == IF w.startupGap THEN Greater(w.start, start) ELSE w.start
       IN  IF start > from
           THEN Failed(w)
           ELSE [w EXCEPT !.start = from, !.startupGap = FALSE,
                          !.coveredStart = TRUE]

StopOf(w) == IF w.end = None THEN Deadline ELSE w.end

Collected(w, start, end) ==
  IF w.error THEN w
  ELSE IF StopOf(w) > Deadline \/ (w.end = None /\ end > Deadline)
  THEN Failed(w)
  ELSE LET new == Range(Greater(start, w.start), Less(end, StopOf(w)))
       IN  [w EXCEPT !.samples = @ \o new,
                     !.complete = w.end # None /\ end >= w.end]

\* tap.push of the chunk [start, end)
Push(start, end) ==
  /\ device = "open" /\ running
  /\ watermark' = end
  /\ window' =
       IF ~Held \/ window.complete \/ window.error THEN window
       ELSE IF watermark # None /\ watermark # start THEN Failed(window)
       ELSE IF end > window.start
       THEN Collected(Covered(window, start), start, end)
       ELSE Collected(window, start, end)
  /\ UNCHANGED <<now, device, restarts, running, releasing, worker, cancelled,
                 reader, since, sent>>

\* The first chunk is as old as it is long, the others follow each other.
Produce ==
  \E length \in 1 .. MaxChunk :
    LET start == IF watermark = None THEN now - length ELSE watermark
    IN  /\ start + length \in (now - Skew) .. (now + Skew)
        /\ start + length <= MaxTime
        /\ Push(start, start + length)

-----------------------------------------------------------------------------
(* The owner of the window                                                 *)

\* release takes the time first and the lock then.
Release ==
  /\ Held /\ window.end = None /\ releasing = None
  /\ releasing' = now
  /\ UNCHANGED <<now, device, restarts, running, watermark, window, worker,
                 cancelled, reader, since, sent>>

\* release_at: what the device was ahead of time is cut off.
Before(samples, t) == FirstIn(samples, {s \in Int : s >= t}) - 1
Trimmed(samples, end) == SubSeq(samples, 1, Before(samples, end))

ReleaseAt ==
  /\ releasing # None
  /\ releasing' = None
  /\ window' =
       IF ~Held THEN window
       ELSE LET w == [window EXCEPT !.end = releasing,
                                    !.samples = Trimmed(@, releasing)]
            IN  IF releasing > Deadline THEN Failed(w)
                ELSE [w EXCEPT !.complete = ~w.error /\ watermark # None
                                            /\ watermark >= releasing]
  /\ UNCHANGED <<now, device, restarts, running, watermark, worker, cancelled,
                 reader, since, sent>>

\* QuestionCapture is dropped.
Drop ==
  /\ Held /\ releasing = None
  /\ window' = None /\ cancelled' = TRUE
  /\ UNCHANGED <<now, device, restarts, running, watermark, releasing, worker,
                 reader, since, sent>>

-----------------------------------------------------------------------------
(* The worker, which polls                                                 *)

CloseDevice == device' = "closed" /\ worker' = "stopped"

\* finish_capture: there is nothing to wait for any more.
TimedOut ==
  IF window.end = None THEN now > Deadline ELSE now - window.end >= Grace

WorkerDone ==
  /\ worker = "capturing" /\ device # "opening"
  /\ ~cancelled /\ Held /\ window.complete
  /\ CloseDevice
  /\ running' = FALSE
  /\ UNCHANGED <<now, restarts, watermark, window, releasing, cancelled, reader,
                 since, sent>>

WorkerFails ==
  /\ worker = "capturing" /\ device # "opening" /\ ~cancelled
  /\ ~Held \/ (~window.complete /\ (window.error \/ TimedOut))
  /\ CloseDevice
  /\ Stopped(TRUE)
  /\ UNCHANGED <<now, restarts, releasing, cancelled, reader, since, sent>>

WorkerCancelled ==
  /\ worker = "capturing" /\ device # "opening" /\ cancelled
  /\ CloseDevice
  /\ Stopped(FALSE)
  /\ UNCHANGED <<now, restarts, releasing, cancelled, reader, since, sent>>

\* The device cannot be opened, takes too long, or is not wanted any more.
OpenFails ==
  /\ device = "opening"
  /\ CloseDevice
  /\ Stopped(TRUE)
  /\ UNCHANGED <<now, restarts, releasing, cancelled, reader, since, sent>>

-----------------------------------------------------------------------------
(* The reader, which polls                                                 *)

\* Samples that may be sent: they have been taken, and before the release.
Until == IF window.end = None THEN now ELSE Less(window.end, now)

Safe == Before(window.samples, Until)

ReaderFails ==
  /\ reader = "reading"
  /\ \/ ~Held
     \/ Held /\ ( \/ window.error
                  \/ window.end = None /\ now > Deadline
                  \/ ~window.complete /\ since # None /\ now - since >= Grace
                  \/ Safe < Len(sent)   \* crossed the release boundary
                  \/ window.complete /\ Safe = 0 )
  /\ reader' = "failed"
  /\ UNCHANGED <<now, device, restarts, running, watermark, window, releasing,
                 worker, cancelled, since, sent>>

MayRead ==
  /\ reader = "reading" /\ Held /\ ~window.error
  /\ window.end = None => now <= Deadline
  /\ ~window.complete /\ since # None => now - since < Grace

Noticed == since' = IF window.end # None /\ since = None THEN now ELSE since

ReaderSends ==
  /\ MayRead /\ Safe > Len(sent)
  /\ sent' = sent \o SubSeq(window.samples, Len(sent) + 1, Safe)
  /\ Noticed
  /\ UNCHANGED <<now, device, restarts, running, watermark, window, releasing,
                 worker, cancelled, reader>>

ReaderNotices ==
  /\ MayRead /\ window.end # None /\ since = None /\ Safe = Len(sent)
  /\ Noticed
  /\ UNCHANGED <<now, device, restarts, running, watermark, window, releasing,
                 worker, cancelled, reader, sent>>

ReaderEnds ==
  /\ MayRead /\ window.complete /\ Safe = Len(sent) /\ sent # << >>
  /\ reader' = "done"
  /\ UNCHANGED <<now, device, restarts, running, watermark, window, releasing,
                 worker, cancelled, since, sent>>

Tick ==
  /\ now < MaxTime + Grace
  /\ now' = now + 1
  /\ UNCHANGED <<device, restarts, running, watermark, window, releasing, worker,
                 cancelled, reader, since, sent>>

-----------------------------------------------------------------------------
Device == Started \/ Lose \/ Discontinuity \/ Produce
Owner  == Release \/ ReleaseAt \/ Drop
Worker == WorkerDone \/ WorkerFails \/ WorkerCancelled \/ OpenFails
Reader == ReaderFails \/ ReaderSends \/ ReaderNotices \/ ReaderEnds

AudioNext == Tick \/ Device \/ Owner \/ Worker \/ Reader

\* Time passes, a device is opened or is not, both polls go on.  One condition
\* is enough, since each of them is done after a few steps.
AudioFairness == WF_audioVars(Tick \/ Started \/ ReleaseAt \/ Worker \/ Reader)

AudioSpec == AudioInit /\ [][AudioNext]_audioVars /\ AudioFairness
-----------------------------------------------------------------------------
(* Properties                                                              *)

\* A question that was read to its end is what was said from the first chunk
\* of the device to the release: no instant is missing, twice, before the
\* button was pressed or after it was released, whatever the device estimates
\* and whenever it is lost.
QuestionIsWhole ==
  reader = "done" /\ Held =>
    /\ sent = Range(window.start, window.end)
    /\ window.start >= 0

\* What was sent was said: it cannot be taken back.
SentWasSaid == \A i \in DOMAIN sent : sent[i] < now

\* The device is closed and the recognition learns the end, whatever happens
\* (again and again).
QuestionOver == worker = "stopped" /\ reader # "reading"
=============================================================================
