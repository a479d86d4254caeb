---------------------------- MODULE LiveSession ----------------------------
(***************************************************************************)
(* A session of live translation (Continuous segmentation): after long     *)
(* silence it is closed and a new one is opened when somebody speaks       *)
(* again, with what was said since; a broken one is replaced as in         *)
(* CloudRecognition (asr/streaming.rs, asr/streaming/idle.rs,              *)
(* asr/streaming/reconnect.rs).                                            *)
(*                                                                         *)
(* A chunk of audio is its number; one chunk is one packet.  The pipeline  *)
(* of such a session commits nothing and always ends it with               *)
(* stop_and_drain.  Of the events that the session sends to the pipeline   *)
(* only their number counts: while the session waits for room for one, it  *)
(* does nothing else, and while the pipeline waits for room for a chunk,   *)
(* it takes no event.                                                      *)
(***************************************************************************)
EXTENDS Naturals, Sequences, Functions

CONSTANTS
  Kinds,           \* providers
  InputCapacity,   \* the input channel (32)
  EventCapacity,   \* the channel of events (32)
  Long,            \* 30 s: IDLE_SAMPLES, MAX_RESUME_SAMPLES, MAX_BUFFERED_SAMPLES
  Recent,          \* 3 s: REALTIME_RESUME_SAMPLES, REALTIME_BUFFER_SECONDS
  PreRoll,         \* PRE_ROLL_SAMPLES
  MaxChunks,       \* bound: chunks of audio
  Talks,           \* the sets of them in which somebody speaks
  MaxFailures,     \* bound: lost and refused connections
  MaxMessages      \* bound: events that do not tell of a failure

LiveAssumption ==
  /\ Kinds \subseteq {"plain", "openai", "shared", "player"}
  /\ {InputCapacity, EventCapacity, Long, Recent} \subseteq Nat \ {0}
  /\ PreRoll \in Nat /\ PreRoll >= 2
  /\ {MaxChunks, MaxFailures, MaxMessages} \subseteq Nat
  /\ Talks \subseteq SUBSET (1..MaxChunks)

VARIABLES
  kind,       \* the provider: "plain", "openai", or rate controlled ("shared", "player")
  said,       \* chunks the pipeline has sent
  speech,     \* the chunks that the local detector takes for speech
  input,      \* the input channel
  waiting,    \* the pipeline has a chunk in its hand and waits for room
  events,     \* events in their channel
  outgoing,   \* events that the session sends before it does anything else
  stopped,    \* the stop watch
  phase,      \* what run_with_reconnect is doing
  replay,     \* input of an earlier connection
  activity,   \* Activity of the connection: [seen, silent]
  resume,     \* ResumeBuffer: [audio, triggers, ready]
  pending,    \* ReconnectBuffer::inputs
  sent,       \* history: chunks sent to the provider
  lost,       \* history: chunks given up knowingly
  heldBack,   \* history: silence closed a connection with input left to replay
  failures,   \* bound counter
  messages    \* bound counter

liveVars ==
  <<kind, said, speech, input, waiting, events, outgoing, stopped, phase,
    replay, activity, resume, pending, sent, lost, heldBack, failures, messages>>

\* the pipeline's part, and the events of a session that sends none
pipeline == <<kind, said, speech, waiting, events, stopped>>
silent == <<outgoing, messages>>

connected == <<replay, activity, sent, heldBack>>
buffers == <<resume, pending>>

NoActivity == [seen |-> FALSE, silent |-> 0]
NoResume == [audio |-> << >>, triggers |-> 0, ready |-> FALSE]

\* connection_rate_controlled: only recent audio is worth a connection
Realtime == kind \in {"shared", "player"}

LiveInit ==
  /\ kind \in Kinds
  /\ said = 0 /\ speech \in Talks /\ input = << >> /\ stopped = FALSE
  /\ waiting = FALSE /\ events = 0 /\ outgoing = 0 /\ messages = 0
  /\ phase = "running" /\ replay = << >> /\ activity = NoActivity
  /\ resume = NoResume /\ pending = << >>
  /\ sent = << >> /\ lost = {} /\ heldBack = FALSE /\ failures = 0

Newest(s, n) == SubSeq(s, IF Len(s) > n THEN Len(s) - n + 1 ELSE 1, Len(s))

-----------------------------------------------------------------------------
(* The pipeline                                                            *)

Room == Len(input) < InputCapacity

Put ==
  /\ said' = said + 1
  /\ input' = Append(input, said')

\* StreamingSession::send_with_activity
Say ==
  /\ ~waiting /\ ~stopped /\ phase # "over" /\ said < MaxChunks
  /\ IF Room THEN Put /\ UNCHANGED waiting
             ELSE waiting' = TRUE /\ UNCHANGED <<said, input>>
  /\ UNCHANGED <<kind, speech, events, silent, stopped, phase, connected, buffers, lost, failures>>

\* the room is there, or the session is over and sending fails
WaitEnds ==
  /\ waiting
  /\ \/ phase # "over" /\ Room /\ Put /\ UNCHANGED stopped
     \/ phase = "over" /\ stopped' = TRUE /\ UNCHANGED <<said, input>>
  /\ waiting' = FALSE
  /\ UNCHANGED <<kind, speech, events, silent, phase, connected, buffers, lost, failures>>

\* StreamingSession::stop_and_drain
Stop ==
  /\ ~waiting /\ ~stopped
  /\ stopped' = TRUE
  /\ UNCHANGED <<kind, said, speech, input, waiting, events, silent, phase, connected, buffers, lost, failures>>

\* by the loop of the pipeline, or by stop_and_drain
TakeEvent ==
  /\ ~waiting /\ events > 0
  /\ events' = events - 1
  /\ UNCHANGED <<kind, said, speech, input, waiting, silent, stopped, phase, connected, buffers, lost, failures>>

-----------------------------------------------------------------------------
(* The events of the session                                               *)

Free == outgoing = 0

\* n events, and another one unless the provider has nothing to say
Announce(n) ==
  \/ outgoing' = n /\ UNCHANGED messages
  \/ messages < MaxMessages /\ messages' = messages + 1 /\ outgoing' = n + 1

SendEvent ==
  /\ ~Free /\ events < EventCapacity
  /\ events' = events + 1 /\ outgoing' = outgoing - 1
  /\ UNCHANGED <<kind, said, speech, input, waiting, messages, stopped, phase, connected, buffers, lost, failures>>

-----------------------------------------------------------------------------
(* The end of the task drops its receiver                                  *)

Drop ==
  /\ phase' = "over"
  /\ lost' = lost \cup Range(replay \o resume.audio \o pending \o input)
  /\ input' = << >> /\ replay' = << >>
  /\ resume' = NoResume /\ pending' = << >>

\* the last events first
Ending == phase' = "ending" /\ UNCHANGED <<input, replay, buffers, lost>>

Over ==
  /\ phase = "ending" /\ Free
  /\ Drop
  /\ UNCHANGED <<pipeline, silent, activity, sent, heldBack, failures>>

Fails == failures < MaxFailures /\ failures' = failures + 1

-----------------------------------------------------------------------------
(* A connection in use                                                     *)

\* the replay first, then the channel
NextChunk == Head(replay \o input)

Taken ==
  IF replay # << >>
  THEN replay' = Tail(replay) /\ UNCHANGED input
  ELSE input' = Tail(input) /\ UNCHANGED replay

\* Activity::push
Active(a, loud) ==
  [seen |-> a.seen \/ loud,
   silent |-> IF loud \/ ~a.seen THEN 0 ELSE a.silent + 1]

Idle(a) == a.silent >= Long

\* run_session_inner: audio is sent, and long silence closes the connection
Take ==
  /\ phase = "running" /\ Free /\ replay \o input # << >>
  /\ Taken
  /\ sent' = Append(sent, NextChunk)
  /\ LET a == Active(activity, NextChunk \in speech) IN
       IF Idle(a)
       THEN /\ phase' = "closing" /\ activity' = NoActivity
            /\ heldBack' = (heldBack \/ replay' # << >>)
       ELSE activity' = a /\ UNCHANGED <<phase, heldBack>>
  /\ UNCHANGED <<pipeline, silent, buffers, lost, failures>>

\* receive_event, of run_session_inner or of finish_aligned, or a tick: an
\* event; a growing transcript is speech that was not noticed here.
Message ==
  /\ Free /\ Announce(0) /\ ~Free'
  /\ \/ phase = "running" /\ sent # << >> /\ activity' = [seen |-> TRUE, silent |-> 0]
     \/ phase \in {"running", "closing"} /\ UNCHANGED activity
     \/ phase = "draining" /\ replay \o input = << >> /\ UNCHANGED activity
  /\ UNCHANGED <<pipeline, input, phase, replay, sent, heldBack, buffers, lost, failures>>

\* where a broken connection leaves run_with_reconnect
Broken ==
  /\ phase' = IF kind = "player" THEN "quiet" ELSE "reconnecting"
  /\ pending' = << >> /\ UNCHANGED resume

\* the provider closes the connection, or sending a chunk to it fails
Disconnect ==
  /\ phase = "running" /\ Free /\ Fails
  /\ Announce(1)
  /\ IF stopped
     THEN Ending
     ELSE /\ Broken
          /\ \/ UNCHANGED <<replay, input, lost>>
             \/ /\ replay \o input # << >> /\ Taken
                /\ lost' = lost \cup {NextChunk}
  /\ activity' = NoActivity
  /\ UNCHANGED <<pipeline, sent, heldBack>>

\* the stop watch is seen
StopSeen ==
  /\ phase = "running" /\ Free /\ stopped
  /\ phase' = "draining"
  /\ UNCHANGED <<pipeline, silent, input, connected, buffers, lost, failures>>

Drain ==
  /\ phase = "draining" /\ Free /\ replay \o input # << >>
  /\ Taken
  /\ sent' = Append(sent, NextChunk)
  /\ UNCHANGED <<pipeline, silent, phase, activity, heldBack, buffers, lost, failures>>

\* sending fails, or finish_aligned has ended
DrainEnds ==
  /\ phase = "draining" /\ Free
  /\ \/ replay \o input = << >> /\ Announce(0) /\ UNCHANGED failures
     \/ Fails /\ Announce(1)
  /\ Ending
  /\ UNCHANGED <<pipeline, activity, sent, heldBack>>

-----------------------------------------------------------------------------
(* Long silence                                                            *)

\* ResumeBuffer::has_capacity
HasCapacity == Realtime \/ Len(resume.audio) < Long

\* ResumeBuffer::push
Push(k) ==
  LET triggers == IF k \in speech THEN resume.triggers + 1 ELSE 0
      ready == resume.ready \/ triggers >= 2
      audio == Append(resume.audio, k)
  IN  [audio |-> IF ~ready THEN Newest(audio, PreRoll)
                 ELSE IF Realtime THEN Newest(audio, Recent) ELSE audio,
       triggers |-> triggers, ready |-> ready]

\* idle::collect_until, next to a close that may wait, and the loop of a
\* suspended session
Collect ==
  /\ phase \in {"closing", "suspended", "resuming", "waiting"} /\ input # << >>
  /\ phase = "closing" \/ Free
  /\ phase = "suspended" => ~resume.ready
  /\ phase # "suspended" => HasCapacity
  /\ resume' = Push(Head(input))
  /\ input' = Tail(input)
  \* a shared quota keeps recent audio only
  /\ lost' = IF resume'.ready
             THEN lost \cup (Range(Append(resume.audio, Head(input))) \ Range(resume'.audio))
             ELSE lost
  /\ UNCHANGED <<pipeline, silent, phase, connected, pending, failures>>

\* finish_aligned ends, in time or not
CloseEnds ==
  /\ phase = "closing" /\ Free
  /\ Announce(0)
  /\ IF stopped /\ ~resume.ready
     THEN Ending
     ELSE phase' = "suspended" /\ UNCHANGED <<input, replay, buffers, lost>>
  /\ UNCHANGED <<pipeline, activity, sent, heldBack, failures>>

Resume ==
  /\ phase = "suspended" /\ Free /\ resume.ready
  /\ phase' = "resuming"
  /\ UNCHANGED <<pipeline, silent, input, connected, buffers, lost, failures>>

\* the new connection is there; ResumeBuffer::take drops a tail that is old
Resumed ==
  /\ phase = "resuming" /\ Announce(0)
  /\ \E old \in {FALSE, Realtime} :
       /\ replay' = IF old THEN replay ELSE replay \o resume.audio
       /\ lost' = IF old THEN lost \cup Range(resume.audio) ELSE lost
  /\ phase' = "running" /\ resume' = NoResume
  /\ UNCHANGED <<pipeline, input, activity, pending, sent, heldBack, failures>>

\* a full buffer ends the session, otherwise it is tried again
ResumeFails ==
  /\ phase = "resuming" /\ Fails
  /\ outgoing' = 1 /\ UNCHANGED messages
  /\ IF stopped \/ ~HasCapacity
     THEN Ending
     ELSE phase' = "waiting" /\ UNCHANGED <<input, replay, buffers, lost>>
  /\ UNCHANGED <<pipeline, activity, sent, heldBack>>

BackoffEnds ==
  /\ phase = "waiting" /\ Free
  /\ phase' = "resuming"
  /\ UNCHANGED <<pipeline, silent, input, connected, buffers, lost, failures>>

\* stop while there is no connection
StopWithout ==
  /\ stopped /\ Free
  /\ \/ phase = "suspended" /\ ~resume.ready
     \/ phase \in {"resuming", "waiting", "quiet", "reconnecting"}
  /\ Drop
  /\ UNCHANGED <<pipeline, silent, activity, sent, heldBack, failures>>

-----------------------------------------------------------------------------
(* A new connection after a failure                                        *)

\* ReconnectBuffer::push, by buffer_until or by wait_for_speech
Buffer ==
  /\ phase \in {"quiet", "reconnecting"} /\ Free /\ input # << >>
  /\ input' = Tail(input)
  /\ pending' = Newest(Append(pending, Head(input)), IF Realtime THEN Recent ELSE Long)
  /\ lost' = lost \cup (Range(Append(pending, Head(input))) \ Range(pending'))
  /\ phase' = IF Head(input) \in speech THEN "reconnecting" ELSE phase
  /\ UNCHANGED <<pipeline, silent, connected, resume, failures>>

\* OpenAI goes on with live speech; into_inputs drops a tail that is old
Reconnected ==
  /\ phase = "reconnecting" /\ Free /\ Announce(0)
  /\ \E old \in IF kind = "openai" THEN {TRUE} ELSE {FALSE, Realtime} :
       /\ replay' = IF old THEN replay ELSE replay \o pending
       /\ lost' = IF old THEN lost \cup Range(pending) ELSE lost
  /\ phase' = "running" /\ pending' = << >> /\ activity' = NoActivity
  /\ UNCHANGED <<pipeline, input, resume, sent, heldBack, failures>>

\* a player's connection is not tried again before it speaks, unless it just did
ReconnectFails ==
  /\ phase = "reconnecting" /\ Free /\ Fails
  /\ outgoing' = 1 /\ UNCHANGED messages
  /\ phase' \in IF kind = "player" THEN {"quiet", "reconnecting"} ELSE {"reconnecting"}
  /\ UNCHANGED <<pipeline, input, connected, buffers, lost>>

-----------------------------------------------------------------------------
Connects == Resumed \/ ResumeFails \/ Reconnected \/ ReconnectFails

Works ==
  SendEvent \/ Take \/ Drain \/ DrainEnds \/ Collect \/ CloseEnds \/ Resume
  \/ BackoffEnds \/ Buffer \/ Over

Listens == WaitEnds \/ TakeEvent

LiveNext ==
  Say \/ Stop \/ Listens \/ Message \/ Disconnect \/ StopSeen \/ StopWithout
  \/ Connects \/ Works

\* both tasks run, an attempt to connect ends, a stop is seen; one condition is
\* enough, since each of them is done after a few steps
LiveFairness == WF_liveVars(Works \/ Listens \/ Connects \/ StopSeen \/ StopWithout)

LiveSpec == LiveInit /\ [][LiveNext]_liveVars /\ LiveFairness

-----------------------------------------------------------------------------
Held == sent \o replay \o resume.audio \o pending \o input

\* Somebody speaks: a chunk of speech next to another, or up to one chunk of
\* the pre-roll before two of them; what was given up does not count.
Heard == speech \ lost
Spoken(k) ==
  \/ k \in Heard /\ (k - 1 \in Heard \/ k + 1 \in Heard)
  \/ {k + 1, k + 2} \subseteq Heard

\* Audio reaches the provider in the order in which it was said, never twice,
\* through suspensions, buffers and replays.
AudioInOrder ==
  \A i, j \in 1..Len(Held) : i < j => Held[i] < Held[j]

\* Suspending a session loses nothing that is said: whatever was spoken has
\* been sent, is held, or was given up for a failure, an overflow or a stop
\* while there was no connection.  A connection closed with input left to
\* replay is the exception: that input waits for somebody to speak again.
SpeechIsKept ==
  ~heldBack => \A k \in 1..said : Spoken(k) => k \in Range(Held) \cup lost

\* As long as nothing fails and nobody stops it, a session that is not rate
\* controlled gives nothing up.
NothingIsGivenUp ==
  kind \in {"plain", "openai"} /\ failures = 0 /\ ~stopped => lost = {}

\* A connection is closed for silence only after enough of it.
SuspendedInSilence ==
  phase \in {"closing", "suspended"} =>
    \A k \in Range(Newest(sent, Long)) : k \notin speech

\* Both tasks wait: the pipeline for room in the input channel, the session
\* for room in the channel of events, which only the pipeline empties.
Stalled == waiting /\ ~Room /\ ~Free /\ events = EventCapacity

\* The pipeline, which waits for room in the input channel without looking at
\* anything else, is kept waiting for ever in one case only, when the session
\* waits for it in turn; and a stop that the session is told of ends it (each
\* again and again).
InputMoves == ~waiting \/ Stalled
StopEnds   == stopped => phase = "over"
=============================================================================
