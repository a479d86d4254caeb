-------------------------- MODULE CloudRecognition --------------------------
(***************************************************************************)
(* A transcription pipeline and its cloud recognition session              *)
(* (src/core/src/pipeline/mod.rs, pipeline/recognition_lifecycle.rs,       *)
(* asr/streaming.rs and asr/streaming/reconnect.rs), for the realtime      *)
(* providers whose utterances the pipeline commits                         *)
(* (SegmentationMode::LocalCommit).                                        *)
(*                                                                         *)
(* Two tasks talk through two bounded channels: the pipeline sends audio   *)
(* and commits, and waits for the reply to a commit; the session sends     *)
(* what the provider has recognized.  The session reconnects when its      *)
(* socket fails and keeps the input that arrives meanwhile for replay.     *)
(*                                                                         *)
(* A chunk of audio is its number.  An utterance is the number of its      *)
(* commit on a socket.                                                     *)
(***************************************************************************)
EXTENDS Integers, FiniteSets, SequencesExt, MessageQueue

CONSTANTS
  AudioCapacity,       \* channel of StreamingInput
  EventCapacity,       \* channel of CloudEvent
  PreRoll,             \* chunks kept before the trigger (pre_roll_limit)
  BufferLimit,         \* chunks the ReconnectBuffer keeps
  RecentTerminations,  \* MAX_RECENT_TERMINATIONS
  MaxChunks,           \* bound: chunks captured
  MaxMessages,         \* bound: messages of the provider
  MaxFaults,           \* bound: failed sockets, refused connections and
                       \* storage errors, taken together
  None

ASSUME CloudAssumption ==
  /\ {AudioCapacity, EventCapacity, BufferLimit, RecentTerminations, MaxChunks}
        \subseteq Nat \ {0}
  /\ {PreRoll, MaxMessages, MaxFaults} \subseteq Nat
  /\ None \notin Nat

VARIABLES
  \* the pipeline task
  run,         \* where its loop is
  effects,     \* PipelineEffects still to execute
  streaming, pre_roll,
  segment,     \* local segments so far
  active, terminated,   \* RecognitionLifecycle
  drained,     \* events collected by stop_and_drain
  \* what the two tasks share
  audio, events,        \* the channels
  reply,       \* reply to the commit the pipeline waits for
  stopped,     \* the session's stop flag
  \* the session task
  task,        \* where it is
  outgoing,    \* events it is about to send
  replay, pending,      \* input to replay; the ReconnectBuffer
  \* the provider, the microphone and the user
  heard,       \* audio on the socket since the last commit
  spoken,      \* utterances of this socket
  utterances,  \* utterances of all sockets
  read,        \* chunks captured
  stop, discard,        \* the pipeline's stop and discard_on_stop flags
  messages, faults,     \* how much of the bounds is left
  \* the display and history
  shown,       \* previews on display
  finals,      \* how often each utterance was published
  settled,     \* utterances published or reported as failed
  received,    \* utterances whose final result reached the session
  forgotten,   \* utterances that left terminated
  sent,        \* the last chunk sent to a provider
  dropped,     \* the ReconnectBuffer has dropped input
  mixed,       \* utterances that held audio of two segments
  failed       \* the pipeline has left its loop with an error

lifecycle == <<active, terminated, forgotten>>
loop      == <<run, effects, streaming, pre_roll, segment, drained, read, failed>>
channels  == <<audio, events, reply, stopped>>
session   == <<task, outgoing, replay, pending>>
provider  == <<heard, spoken, utterances, messages, received, sent, mixed>>
control   == <<stop, discard>>
display   == <<shown, finals, settled>>
vars == <<lifecycle, loop, channels, session, provider, control, display,
          faults, dropped>>

-----------------------------------------------------------------------------
Utterances == 1..MaxChunks

Input == [kind : {"audio", "commit"}, n : 0..MaxChunks, segment : Nat]
Event == [kind : {"partial", "final", "failed"}, id : Utterances \cup {None}]
Effect == [kind : {"flush", "process"}, n : 1..MaxChunks]
          \cup [kind : {"commit"}, n : {0}]
          \cup Event

Audio(n) == [kind |-> "audio", n |-> n, segment |-> segment]
Commit   == [kind |-> "commit", n |-> 0, segment |-> segment]

\* CloudEvent::Failed with reset_session
Reset == [kind |-> "failed", id |-> None]

Fault == faults > 0 /\ faults' = faults - 1

Init ==
  /\ run = "top" /\ effects = << >> /\ streaming = FALSE /\ pre_roll = << >>
  /\ segment = 1 /\ drained = << >> /\ read = 0 /\ failed = FALSE
  /\ active = {} /\ terminated = << >> /\ forgotten = {}
  /\ audio = << >> /\ events = << >> /\ reply = "none" /\ stopped = FALSE
  /\ task = "serving" /\ outgoing = << >> /\ replay = << >> /\ pending = << >>
  /\ heard = << >> /\ spoken = {} /\ utterances = 0
  /\ messages = MaxMessages /\ faults = MaxFaults
  /\ received = {} /\ sent = 0 /\ mixed = {} /\ dropped = FALSE
  /\ stop = FALSE /\ discard = FALSE
  /\ shown = {} /\ finals = [u \in Utterances |-> 0] /\ settled = {}

-----------------------------------------------------------------------------
(* RecognitionLifecycle                                                    *)

Terminated(u) == \E i \in DOMAIN terminated : terminated[i] = u

Terminate_Active(u) ==   \* mutant: the termination is not remembered
  active' = active \ {u} /\ UNCHANGED <<terminated, forgotten>>
\* terminate and remember_termination
Terminate(u) ==
  /\ active' = active \ {u}
  /\ IF Terminated(u) THEN UNCHANGED <<terminated, forgotten>>
     ELSE IF Len(terminated) < RecentTerminations
     THEN terminated' = Append(terminated, u) /\ UNCHANGED forgotten
     ELSE /\ terminated' = Append(Tail(terminated), u)
          /\ forgotten' = forgotten \cup {Head(terminated)}

\* reset
Forget ==
  /\ active' = {} /\ terminated' = << >>
  /\ forgotten' = forgotten \cup ToSet(terminated)

\* failure_id of an event without utterance
FailureId == IF \E u \in active : active = {u} THEN CHOOSE u \in active : TRUE
                                             ELSE None

\* reduce_cloud_event; a partial that comes too soon after another one
\* (throttled) is not published.
HandleEvent(e, throttled) ==
  \/ /\ e.kind = "partial"
     /\ IF throttled \/ Terminated(e.id)
        THEN effects' = << >> /\ UNCHANGED lifecycle
        ELSE /\ active' = active \cup {e.id} /\ effects' = <<e>>
             /\ UNCHANGED <<terminated, forgotten>>
  \/ /\ e.kind = "final"
     /\ IF Terminated(e.id) THEN effects' = << >> /\ UNCHANGED lifecycle
                            ELSE Terminate(e.id) /\ effects' = <<e>>
  \/ /\ e.kind = "failed"
     /\ IF e.id = None THEN Forget ELSE Terminate(e.id)
     /\ effects' = <<e>>

-----------------------------------------------------------------------------
(* The pipeline: pipeline/mod.rs, run                                      *)

\* The loop is left: stop_and_drain, or stop if the results are discarded.
Leave ==
  /\ run' = IF discard THEN "discarding" ELSE "draining"
  /\ stopped' = TRUE

LoopTop ==
  /\ run = "top"
  /\ IF stop THEN Leave ELSE run' = "select" /\ UNCHANGED stopped
  /\ UNCHANGED <<lifecycle, effects, streaming, pre_roll, segment, drained, read,
                 failed, audio, events, reply, session, provider, control,
                 display, faults, dropped>>

SeeStop ==
  /\ run = "select" /\ stop
  /\ Leave
  /\ UNCHANGED <<lifecycle, effects, streaming, pre_roll, segment, drained, read,
                 failed, audio, events, reply, session, provider, control,
                 display, faults, dropped>>

\* reduce_audio_event: audio is kept as pre-roll until the trigger.
ReadAudio ==
  /\ run = "select" /\ read < MaxChunks
  /\ read' = read + 1
  /\ \/ /\ ~streaming
        /\ pre_roll' = LET kept == Append(pre_roll, read')
                       IN  IF Len(kept) > PreRoll THEN Tail(kept) ELSE kept
        /\ run' = "top"
        /\ UNCHANGED <<effects, streaming>>
     \/ /\ streaming' = TRUE
        /\ pre_roll' = << >>
        /\ effects' = [i \in 1..Len(pre_roll) + 1 |->
                         IF i <= Len(pre_roll)
                         THEN [kind |-> "flush", n |-> pre_roll[i]]
                         ELSE [kind |-> "process", n |-> read']]
        /\ run' = "busy"
  /\ UNCHANGED <<lifecycle, segment, drained, failed, channels, session,
                 provider, control, display, faults, dropped>>

ReceiveEvent ==
  /\ run = "select" /\ events # << >>
  /\ events' = Tail(events)
  /\ \E throttled \in BOOLEAN : HandleEvent(Head(events), throttled)
  /\ run' = IF effects' = << >> THEN "top" ELSE "busy"
  /\ UNCHANGED <<streaming, pre_roll, segment, drained, read, failed, audio,
                 reply, stopped, session, provider, control, display, faults,
                 dropped>>

\* execute: where the loop goes when the effects that are left are rest.
Execute(rest) ==
  /\ effects' = rest
  /\ run' = IF rest = << >> /\ run = "busy" THEN "top" ELSE run

\* session.send waits for room.  A segment may end with the chunk.
SendAudio ==
  /\ run = "busy" /\ Head(effects).kind \in {"flush", "process"}
  /\ Len(audio) < AudioCapacity
  /\ audio' = Append(audio, Audio(Head(effects).n))
  /\ \/ /\ Execute(Tail(effects))
        /\ UNCHANGED <<streaming, segment>>
     \/ /\ Head(effects).kind = "process"
        /\ streaming' = FALSE
        /\ UNCHANGED segment
        /\ Execute(Append(Tail(effects), [kind |-> "commit", n |-> 0]))
  /\ UNCHANGED <<lifecycle, pre_roll, drained, read, failed, events, reply,
                 stopped, session, provider, control, display, faults, dropped>>

\* session.commit waits for room, then for the reply.
SendCommit ==
  /\ run = "busy" /\ Head(effects).kind = "commit" /\ reply = "none"
  /\ Len(audio) < AudioCapacity
  /\ audio' = Append(audio, Commit)
  /\ segment' = segment + 1
  /\ reply' = "awaited"
  /\ UNCHANGED <<lifecycle, run, effects, streaming, pre_roll, drained, read,
                 failed, events, stopped, session, provider, control, display,
                 faults, dropped>>

\* A failed commit fails the only active utterance, if there is just one.
TakeReply ==
  /\ reply \in {"ok", "failed"}
  /\ reply' = "none"
  /\ IF reply = "ok" THEN Execute(Tail(effects)) /\ UNCHANGED lifecycle
     ELSE /\ Execute(Append(Tail(effects), [kind |-> "failed", id |-> FailureId]))
          /\ IF FailureId = None THEN UNCHANGED lifecycle ELSE Terminate(FailureId)
  /\ UNCHANGED <<streaming, pre_roll, segment, drained, read, failed, audio,
                 events, stopped, session, provider, control, display, faults,
                 dropped>>

Hidden_One(e) == shown \ {e.id}   \* mutant: a reset hides no preview
\* The previews left when the end of an utterance, or of all, is published.
Hidden(e) == IF e.id = None THEN {} ELSE shown \ {e.id}

\* The display shows a preview, a final subtitle in place of its preview, or
\* an error instead of one preview or of all of them.
Publish ==
  /\ run \in {"busy", "flushing"} /\ effects # << >>
  /\ LET e == Head(effects)
     IN  \/ /\ e.kind = "partial"
            /\ shown' = shown \cup {e.id}
            /\ UNCHANGED <<finals, settled>>
         \/ /\ e.kind = "final"
            /\ shown' = Hidden(e)
            /\ finals' = [finals EXCEPT ![e.id] = @ + 1]
            /\ settled' = settled \cup {e.id}
         \/ /\ e.kind = "failed"
            /\ shown' = Hidden(e)
            /\ settled' = settled \cup ({e.id} \ {None})
            /\ UNCHANGED finals
  /\ Execute(Tail(effects))
  /\ UNCHANGED <<lifecycle, streaming, pre_roll, segment, drained, read, failed,
                 channels, session, provider, control, faults, dropped>>

\* A subtitle that cannot be stored is reported and ends the pipeline.
FailStorage ==
  /\ run \in {"busy", "flushing"} /\ effects # << >>
  /\ Head(effects).kind = "final" /\ Fault
  /\ shown' = Hidden(Head(effects))
  /\ settled' = settled \cup {Head(effects).id}
  /\ effects' = << >>
  /\ failed' = TRUE
  /\ IF run = "busy" THEN Leave /\ UNCHANGED drained
     ELSE drained' = << >> /\ UNCHANGED <<run, stopped>>
  /\ UNCHANGED <<lifecycle, streaming, pre_roll, segment, read, audio, events,
                 reply, session, provider, control, finals, dropped>>

SessionOver == task = "ended" /\ outgoing = << >>

CollectedEarly == TRUE   \* mutant: the channel is not read until it closes
Collected == events = << >> /\ SessionOver

\* stop_and_drain
Collect ==
  /\ run \in {"draining", "discarding"} /\ events # << >>
  /\ events' = Tail(events)
  /\ drained' = IF run = "draining" THEN Append(drained, Head(events)) ELSE drained
  /\ UNCHANGED <<lifecycle, run, effects, streaming, pre_roll, segment, read,
                 failed, audio, reply, stopped, session, provider, control,
                 display, faults, dropped>>

Drained ==
  /\ run \in {"draining", "discarding"} /\ Collected
  /\ run' = "flushing"
  /\ UNCHANGED <<lifecycle, effects, streaming, pre_roll, segment, drained, read,
                 failed, channels, session, provider, control, display, faults,
                 dropped>>

Flush ==
  /\ run = "flushing" /\ effects = << >> /\ drained # << >>
  /\ drained' = Tail(drained)
  /\ HandleEvent(Head(drained), FALSE)
  /\ UNCHANGED <<run, streaming, pre_roll, segment, read, failed, channels,
                 session, provider, control, display, faults, dropped>>

\* finish_recognition_session
Finish ==
  /\ run = "flushing" /\ effects = << >> /\ drained = << >>
  /\ run' = "ended"
  /\ shown' = {}
  /\ Forget
  /\ UNCHANGED <<effects, streaming, pre_roll, segment, drained, read, failed,
                 channels, session, provider, control, finals, settled, faults,
                 dropped>>

\* stop and stop_discarding_results
RequestStop(d) ==
  /\ ~stop /\ run # "ended"
  /\ stop' = TRUE /\ discard' = d
  /\ UNCHANGED <<lifecycle, loop, channels, session, provider, display, faults,
                 dropped>>

-----------------------------------------------------------------------------
(* The session: asr/streaming.rs                                           *)

\* What the session takes next, and what is left: replayed input goes first.
NextInput == IF replay # << >> THEN Head(replay) ELSE Head(audio)

TakeInput ==
  IF replay # << >> THEN replay' = Tail(replay) /\ UNCHANGED audio
                    ELSE audio' = Tail(audio) /\ UNCHANGED replay

\* Replayed commits have been answered already.
Answer(answer) == reply' = IF replay = << >> THEN answer ELSE reply

\* The socket has failed: the session reports it, then connects again.
Disconnect ==
  /\ Fault
  /\ outgoing' = <<Reset>>
  /\ task' = IF stopped THEN "ended" ELSE "connecting"
  /\ pending' = << >>

\* mixed when the next utterance holds the audio.
Mixing(chunks) ==
  IF \E i, j \in DOMAIN chunks : chunks[i].segment # chunks[j].segment
  THEN mixed \cup {utterances + 1} ELSE mixed

Serve ==
  /\ task = "serving" /\ outgoing = << >> /\ (replay # << >> \/ audio # << >>)
  /\ TakeInput
  /\ IF NextInput.kind = "audio"
     THEN \/ /\ heard' = Append(heard, NextInput)
             /\ sent' = NextInput.n
             /\ UNCHANGED <<utterances, spoken, mixed, reply, task, outgoing,
                            pending, faults>>
          \/ /\ Disconnect
             /\ UNCHANGED <<heard, sent, utterances, spoken, mixed, reply>>
     ELSE \/ /\ utterances' = utterances + 1
             /\ spoken' = spoken \cup {utterances'}
             /\ mixed' = Mixing(heard)
             /\ heard' = << >>
             /\ Answer("ok")
             /\ UNCHANGED <<sent, task, outgoing, pending, faults>>
          \/ /\ Disconnect
             /\ Answer("failed")
             /\ UNCHANGED <<heard, sent, utterances, spoken, mixed>>
  /\ UNCHANGED <<lifecycle, loop, events, stopped, messages, received, control,
                 display, dropped>>

\* A message of the provider, about an utterance of this socket or (None)
\* an error of the whole session.
Recognize(e) ==
  /\ task \in {"serving", "finishing"} /\ outgoing = << >> /\ messages > 0
  /\ e.id \in spoken \/ e = Reset
  /\ messages' = messages - 1
  /\ outgoing' = <<e>>
  /\ received' = IF e.kind = "final" THEN received \cup {e.id} ELSE received
  /\ UNCHANGED <<lifecycle, loop, channels, task, replay, pending, heard, spoken,
                 utterances, sent, mixed, control, display, faults, dropped>>

LoseSocket ==
  /\ task = "serving" /\ outgoing = << >>
  /\ Disconnect
  /\ UNCHANGED <<lifecycle, loop, channels, replay, provider, control, display,
                 dropped>>

\* events.send waits for room.
SendEvent ==
  /\ outgoing # << >> /\ Len(events) < EventCapacity
  /\ events' = Append(events, Head(outgoing))
  /\ outgoing' = Tail(outgoing)
  /\ UNCHANGED <<lifecycle, loop, audio, reply, stopped, task, replay, pending,
                 provider, control, display, faults, dropped>>

\* The stop flag: what is queued is sent, as one last segment.
CloseSession ==
  /\ task = "serving" /\ outgoing = << >> /\ stopped
  /\ \/ /\ LET queued == replay \o audio
               rest == Keep(queued, {i \in ToSet(queued) : i.kind = "audio"})
           IN  /\ sent' = IF rest = << >> THEN sent ELSE Last(rest).n
               /\ IF heard \o rest = << >> THEN UNCHANGED <<utterances, spoken, mixed>>
                  ELSE /\ utterances' = utterances + 1
                       /\ spoken' = spoken \cup {utterances'}
                       /\ mixed' = Mixing(heard \o rest)
        /\ task' = "finishing"
        /\ UNCHANGED <<outgoing, faults>>
     \/ /\ Fault
        /\ outgoing' = <<Reset>>
        /\ task' = "ended"
        /\ UNCHANGED <<sent, utterances, spoken, mixed>>
  /\ heard' = << >> /\ replay' = << >> /\ audio' = << >>
  /\ UNCHANGED <<lifecycle, loop, events, reply, stopped, pending, messages,
                 received, control, display, dropped>>

\* finish_aligned ends: the provider is done, the deadline is over, or the
\* socket has failed.
FinishSession ==
  /\ task = "finishing" /\ outgoing = << >>
  /\ task' = "ended"
  /\ UNCHANGED <<lifecycle, loop, channels, outgoing, replay, pending, provider,
                 control, display, faults, dropped>>

-----------------------------------------------------------------------------
(* Reconnecting: run_with_reconnect and reconnect.rs                       *)

Chunks(q) == Cardinality({i \in DOMAIN q : q[i].kind = "audio"})

Trim_None(q) == q   \* mutant: the buffer is not bounded
\* ReconnectBuffer::push drops the oldest input until there is room for the
\* audio: one chunk, and the commits before it.
Trim(q) ==
  IF Chunks(q) <= BufferLimit THEN q
  ELSE SubSeq(q, 1 + FirstIn(q, {i \in ToSet(q) : i.kind = "audio"}), Len(q))

Push_Audio(q, i) == IF i.kind = "audio" THEN Trim(Append(q, i)) ELSE q   \* mutant
\* A commit is kept for the replay, ...
Push(q, i) == Trim(Append(q, i))

Acknowledge_Late(i) == reply   \* mutant: the replay would have to answer
\* ... and answered at once.
Acknowledge(i) == IF i.kind = "commit" THEN "ok" ELSE reply

\* buffer_until
Buffer ==
  /\ task = "connecting" /\ outgoing = << >> /\ audio # << >>
  /\ audio' = Tail(audio)
  /\ pending' = Push(pending, Head(audio))
  /\ dropped' = (dropped \/ Chunks(Append(pending, Head(audio))) > BufferLimit)
  /\ reply' = Acknowledge(Head(audio))
  /\ UNCHANGED <<lifecycle, loop, events, stopped, task, outgoing, replay,
                 provider, control, display, faults>>

Replayed_Pending == pending \o replay   \* mutant: the older input goes last
Replayed == replay \o pending

Connect ==
  /\ task = "connecting" /\ outgoing = << >>
  /\ task' = "serving"
  /\ replay' = Replayed
  /\ pending' = << >>
  /\ heard' = << >> /\ spoken' = {}
  /\ UNCHANGED <<lifecycle, loop, channels, outgoing, utterances, messages,
                 received, sent, mixed, control, display, faults, dropped>>

RefuseConnection ==
  /\ task = "connecting" /\ outgoing = << >> /\ Fault
  /\ outgoing' = <<Reset>>
  /\ UNCHANGED <<lifecycle, loop, channels, task, replay, pending, provider,
                 control, display, dropped>>

StopConnecting ==
  /\ task = "connecting" /\ outgoing = << >> /\ stopped
  /\ task' = "ended"
  /\ UNCHANGED <<lifecycle, loop, channels, outgoing, replay, pending, provider,
                 control, display, faults, dropped>>

-----------------------------------------------------------------------------
Provider == \E kind \in {"partial", "final", "failed"}, u \in spoken \cup {None} :
              Recognize([kind |-> kind, id |-> u])

Environment == ReadAudio \/ FailStorage \/ Provider \/ LoseSocket
               \/ \E d \in BOOLEAN : RequestStop(d)

Pipeline == \/ LoopTop \/ SeeStop \/ ReceiveEvent \/ SendAudio \/ SendCommit
            \/ TakeReply \/ Publish \/ Collect \/ Drained \/ Flush \/ Finish

Session == \/ Serve \/ SendEvent \/ CloseSession \/ FinishSession
           \/ Buffer \/ StopConnecting

Next == Environment \/ Pipeline \/ Session \/ Connect \/ RefuseConnection

Spec == Init /\ [][Next]_vars

\* Both tasks are scheduled, and an attempt to connect succeeds or times out.
Fairness == /\ WF_vars(Pipeline) /\ WF_vars(Session)
            /\ WF_vars(Connect \/ RefuseConnection)

FairSpec == Spec /\ Fairness
-----------------------------------------------------------------------------
(* Properties                                                              *)

\* Every variable keeps its type, and the channels their capacities.
TypeOK ==
  /\ run \in {"top", "select", "busy", "draining", "discarding", "flushing",
              "ended"}
  /\ task \in {"serving", "connecting", "finishing", "ended"}
  /\ effects \in Seq(Effect) /\ drained \in Seq(Event)
  /\ audio \in Seq(Input) /\ Len(audio) <= AudioCapacity
  /\ events \in Seq(Event) /\ Len(events) <= EventCapacity
  /\ outgoing \in Seq(Event) /\ Len(outgoing) <= 1
  /\ {replay, pending, heard} \subseteq Seq(Input)
  /\ Chunks(pending) <= BufferLimit
  /\ pre_roll \in Seq(1..MaxChunks) /\ Len(pre_roll) <= PreRoll
  /\ {streaming, stopped, stop, discard, dropped, failed} \subseteq BOOLEAN
  /\ reply \in {"none", "awaited", "ok", "failed"}
  /\ {active, spoken, shown, settled, received, forgotten, mixed}
        \subseteq SUBSET Utterances
  /\ terminated \in Seq(Utterances) /\ Len(terminated) <= RecentTerminations
  /\ utterances \in 0..MaxChunks /\ read \in 0..MaxChunks /\ sent \in 0..MaxChunks
  /\ messages \in 0..MaxMessages /\ faults \in 0..MaxFaults
  /\ segment \in Nat /\ finals \in [Utterances -> Nat]

\* The audio still to be sent, oldest first.
Upcoming ==
  LET way    == replay \o pending \o audio \o effects
      chunks == Keep(way, {x \in ToSet(way) :
                             x.kind \in {"audio", "flush", "process"}})
  IN  [i \in DOMAIN chunks |-> chunks[i].n] \o pre_roll

\* The providers hear every chunk once at most and in the order it was
\* captured: reconnecting neither repeats nor reorders audio, whatever was in
\* the channel, the replay and the reconnect buffer.
AudioInOrder ==
  LET up == <<sent>> \o Upcoming
  IN  \A i \in 1..Len(up) - 1 : up[i] < up[i+1]

\* A preview on display belongs to an utterance that is active, or its end is
\* about to be published: none stays when its utterance is over.
PreviewsTracked ==
  \A u \in shown : \/ u \in active
                   \/ \E i \in DOMAIN effects :
                        effects[i].kind \in {"final", "failed"}
                        /\ effects[i].id \in {u, None}

\* A subtitle is published once, however often the provider repeats its final
\* result, while the utterance is among the terminations that are remembered.
FinalOnce == \A u \in Utterances : finals[u] > 1 => u \in forgotten

\* The reconnect buffer keeps the utterance boundary for the replay
\* (asr/streaming/reconnect.rs): no utterance runs across a commit, but for
\* the very last one, into which a stop folds what is still queued.
BoundariesKept == \A u \in mixed : task \in {"finishing", "ended"} /\ u = utterances

\* An utterance holds the audio of one local segment, however often the
\* session reconnects, unless the reconnect buffer had to drop input or the
\* stop folded the segments that were queued into the last utterance.
SegmentsKeptApart == dropped \/ BoundariesKept

\* What the provider has recognized when the user stops is not lost: a final
\* result that reached the session is published, or its utterance has failed.
FinalsSurviveStop ==
  run = "ended" /\ ~discard /\ ~failed => received \subseteq settled

\* Stopping completes while the channel holds every event of the session.
StopEnds == stop ~> run = "ended"

\* The session keeps draining input while it reconnects so the pipeline never
\* stalls (asr/streaming.rs): whatever it is executing, it gets done.
PipelineNeverStalls == run = "busy" ~> run # "busy"
=============================================================================
