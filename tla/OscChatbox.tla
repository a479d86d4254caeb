----------------------------- MODULE OscChatbox -----------------------------
(***************************************************************************)
(* The OSC Chatbox dispatcher of VRCS (src/core/src/osc/mod.rs).           *)
(*                                                                         *)
(* Publishers (the subtitle output, the settings page, the mute-sync loop) *)
(* talk to one worker task through a bounded event channel and a watch     *)
(* channel that holds the latest configuration.  The worker keeps a        *)
(* bounded display queue, waits for translations, obeys the rate limit of  *)
(* the VRChat Chatbox and writes one UDP packet at a time.                 *)
(*                                                                         *)
(* Time is kept as countdowns: ready_at - now (field wait), the age of     *)
(* last_send and the age of the message on display.  Advance is one unit.  *)
(***************************************************************************)
EXTENDS Integers, FiniteSets, SequencesExt, MessageQueue

CONSTANTS
  LastSubtitle,     \* microphone subtitles have the database ids 1..this
  Manuals,          \* calls of send_manual
  Tests,            \* calls of queue_test
  Langs,            \* target languages
  Routes,           \* the target-language sequences a subtitle may carry
  Contents,         \* distinguishable translations (text, origin, group text)
  Configs,          \* configurations the settings may install
  Filterable,       \* subtitles whose speaker the user may block
  SocketBound,      \* outcomes of UdpSocket::bind explored
  None,             \* Option::None
  DisplayCapacity,  \* DISPLAY_QUEUE_CAPACITY
  EventCapacity,    \* EVENT_QUEUE_CAPACITY
  Grace,            \* TRANSLATION_GRACE
  SendInterval,     \* SEND_INTERVAL
  LateTtl,          \* LATE_TRANSLATION_TTL
  MaxRevision,      \* bound: configuration and mute changes explored
  MaxResults        \* bound: translation results and tests explored

ASSUME OscAssumption ==
  /\ LastSubtitle \in Nat
  /\ 1..LastSubtitle \cap Manuals = {} /\ 1..LastSubtitle \cap Tests = {}
  /\ Manuals \cap Tests = {}
  /\ None \notin 1..LastSubtitle \cup Manuals \cup Tests \cup Langs \cup Contents
  /\ Routes \subseteq Seq(Langs)
  /\ \A r \in Routes : \A i, j \in DOMAIN r : r[i] = r[j] => i = j
  /\ Configs \subseteq [enabled : BOOLEAN, mute_sync_enabled : BOOLEAN,
                        translation_strategy :
                          {"preferred_only", "round_robin", "all_languages"}]
  /\ Filterable \subseteq 1..LastSubtitle /\ SocketBound \subseteq BOOLEAN
  /\ DisplayCapacity \in Nat \ {0} /\ EventCapacity \in Nat \ {0}
  /\ Grace \in Nat /\ SendInterval \in Nat \ {0} /\ LateTtl \in Nat
  /\ MaxRevision \in Nat /\ MaxResults \in Nat

VARIABLES
  \* the dispatcher handle, shared by every caller
  config,        \* watch channel: OscConfigState
  unseen,        \* watch channel: the worker has not seen the last change
  channel,       \* mpsc channel of OscEvent
  reply,         \* what each send_manual call has been told
  asked,         \* the config revision each send_manual call has read
  \* the worker task
  phase,         \* where the worker's loop is
  wconfig,       \* OscWorkerState.config
  queue,         \* OscWorkerState.queue
  current_sent,  \* OscWorkerState.current_sent
  last_send,     \* age of OscWorkerState.last_send; SendInterval if None
  round_robin_index,
  inflight,      \* the OscSendRequest being executed
  bound,         \* UdpSocket::bind succeeded
  \* the environment
  published,     \* subtitles published so far
  results,       \* translation results reported so far
  blocked,       \* subtitles the speaker filter does not allow
  \* history
  display,       \* what the Chatbox shows
  newest,        \* the newest subtitle the Chatbox has shown
  spacing,       \* time since the last packet, SendInterval at most; reset
                 \* when the worker takes a new configuration
  leaked         \* automatic packets since the gate was last closed

handle  == <<config, unseen, channel, reply, asked>>
worker  == <<phase, wconfig, queue, current_sent, last_send,
             round_robin_index, inflight, bound>>
outside == <<published, results, blocked>>
history == <<display, newest, spacing, leaked>>
vars    == <<handle, worker, outside, history>>

-----------------------------------------------------------------------------
(* Messages and configuration                                              *)

Subtitles == 1..LastSubtitle

Gates == {"open", "vrchat_muted", "mute_unknown"}

ConfigState == [config : Configs, config_revision : Nat,
                automatic_revision : Nat, send_gate : Gates]

Ids == Subtitles \cup Manuals \cup Tests

IdsOf == [subtitle |-> Subtitles, manual |-> Manuals, test |-> Tests]

Message ==
  {m \in [id : Ids, kind : DOMAIN IdsOf, generation : Nat,
          expected : Seq(Langs), desired : Langs \cup {None},
          translations : [Langs -> Contents \cup {None}],
          failed : SUBSET Langs, wait : 0..Grace] :
     m.id \in IdsOf[m.kind]}

\* current_sent: the message on display, and its age.
SentMessage == [message : Message, age : 0..LateTtl+1]

\* Option::None is no Some.
ASSUME NoneAssumption == None \notin SentMessage

Event ==
  [kind : {"subtitle"}, id : Subtitles, generation : Nat, route : Routes]
  \cup
  [kind : {"completed", "superseded"}, id : Subtitles, generation : Nat,
   lang : Langs, content : Contents]
  \cup
  [kind : {"failed"}, id : Subtitles, generation : Nat, lang : Langs]
  \cup
  [kind : {"manual"}, id : Manuals, generation : Nat]
  \cup
  [kind : {"test"}, id : Tests, generation : Nat]

Untranslated == [l \in Langs |-> None]

PlainMessage(id, kind, generation) ==
  [id |-> id, kind |-> kind, generation |-> generation, expected |-> << >>,
   desired |-> None, translations |-> Untranslated, failed |-> {},
   wait |-> 0]

IsManual(m) == m.kind = "manual"

\* PendingMessage::speaker_allowed
SpeakerAllowed(m) == m.kind = "subtitle" => m.id \notin blocked

AutomaticOpen(c) == c.config.enabled /\ c.send_gate = "open"

InitialGate(c) == IF c.mute_sync_enabled THEN "mute_unknown" ELSE "open"

Replies == {"idle", "disabled", "waiting", "sent", "failed", "queue_full",
            "timeout", "cancelled"}

\* A responder reaches its caller only while the caller still waits.
Answer(ids, answer) ==
  [m \in Manuals |-> IF m \in ids /\ reply[m] = "waiting" THEN answer
                                                          ELSE reply[m]]

ManualIds(S) == {m.id : m \in {n \in S : IsManual(n)}}

-----------------------------------------------------------------------------
Init ==
  /\ \E c \in Configs :
       config = [config |-> c, config_revision |-> 0,
                 automatic_revision |-> 0, send_gate |-> InitialGate(c)]
  /\ unseen = FALSE
  /\ channel = << >>
  /\ reply = [m \in Manuals |-> "idle"]
  /\ asked = [m \in Manuals |-> 0]
  /\ phase = "select"
  /\ wconfig = config
  /\ queue = << >>
  /\ current_sent = None
  /\ last_send = SendInterval
  /\ round_robin_index = 0
  /\ inflight = None
  /\ bound \in SocketBound
  /\ published = 0
  /\ results = {}
  /\ blocked = {}
  /\ display = None
  /\ newest = 0
  /\ spacing = SendInterval
  /\ leaked = 0

-----------------------------------------------------------------------------
(* The dispatcher handle                                                   *)

\* try_send: an event for a full channel is dropped.
TrySend(e) ==
  channel' = IF Len(channel) < EventCapacity THEN Append(channel, e)
                                             ELSE channel

\* publish_subtitle_with_targets, for the next stored microphone subtitle;
\* its caller asks to wait for a translation iff there are targets.
PublishSubtitle(route) ==
  /\ published + 1 \in Subtitles
  /\ published' = published + 1
  /\ IF AutomaticOpen(config) /\ published' \notin blocked
     THEN TrySend([kind |-> "subtitle", id |-> published',
                   generation |-> config.automatic_revision,
                   route |-> route])
     ELSE UNCHANGED channel
  /\ UNCHANGED <<config, unseen, reply, asked, worker, results, blocked,
                 history>>

\* translation_completed and translation_failed.  Each result is reported
\* once: a translation (completed), one merged into a later subtitle of a
\* sentence group (superseded), or a failure.
ReportResult(kind, s, l, content) ==
  /\ s <= published
  /\ kind = "superseded" => s < published
  /\ <<kind, s, l, content>> \notin results
  /\ Cardinality(results) < MaxResults
  /\ results' = results \cup {<<kind, s, l, content>>}
  /\ IF AutomaticOpen(config) /\ s \notin blocked
     THEN TrySend(IF kind = "failed"
                  THEN [kind |-> kind, id |-> s, lang |-> l,
                        generation |-> config.automatic_revision]
                  ELSE [kind |-> kind, id |-> s, lang |-> l,
                        generation |-> config.automatic_revision,
                        content |-> content])
     ELSE UNCHANGED channel
  /\ UNCHANGED <<config, unseen, reply, asked, worker, published, blocked,
                 history>>

QueueTest(t) ==
  /\ <<"test", t>> \notin results
  /\ Cardinality(results) < MaxResults
  /\ results' = results \cup {<<"test", t>>}
  /\ IF AutomaticOpen(config)
     THEN TrySend([kind |-> "test", id |-> t,
                   generation |-> config.automatic_revision])
     ELSE UNCHANGED channel
  /\ UNCHANGED <<config, unseen, reply, asked, worker, published, blocked,
                 history>>

SendManual(m) ==
  /\ reply[m] = "idle"
  /\ asked' = [asked EXCEPT ![m] = config.config_revision]
  /\ IF ~config.config.enabled
     THEN /\ reply' = [reply EXCEPT ![m] = "disabled"]
          /\ UNCHANGED channel
     ELSE /\ TrySend([kind |-> "manual", id |-> m,
                      generation |-> config.config_revision])
          /\ reply' = [reply EXCEPT ![m] =
                         IF Len(channel) < EventCapacity THEN "waiting"
                                                         ELSE "queue_full"]
  /\ UNCHANGED <<config, unseen, worker, outside, history>>

\* MANUAL_SEND_TIMEOUT: the caller stops waiting, its message stays queued.
ManualTimeout(m) ==
  /\ reply[m] = "waiting"
  /\ reply' = [reply EXCEPT ![m] = "timeout"]
  /\ UNCHANGED <<config, unseen, channel, asked, worker, outside, history>>

Install(next) ==
  /\ config' = next
  /\ unseen' = TRUE
  /\ leaked' = IF AutomaticOpen(next) THEN 0 ELSE leaked
  /\ UNCHANGED <<channel, reply, asked, worker, outside, display, newest,
                 spacing>>

UpdateConfig(c) ==
  /\ config.automatic_revision < MaxRevision
  /\ Install(
       [config |-> c,
        config_revision |-> config.config_revision + 1,
        automatic_revision |-> config.automatic_revision + 1,
        send_gate |->
          IF c.mute_sync_enabled /\ ~config.config.mute_sync_enabled
          THEN "mute_unknown"
          ELSE IF c.mute_sync_enabled THEN config.send_gate ELSE "open"])

\* g is the gate of the mute state the mute-sync loop has observed.
UpdateMuteStatus(g) ==
  /\ config.automatic_revision < MaxRevision
  /\ LET next == IF config.config.mute_sync_enabled THEN g ELSE "open"
     IN  /\ next # config.send_gate
         /\ Install([config EXCEPT !.send_gate = next,
                                   !.automatic_revision = @ + 1])

-----------------------------------------------------------------------------
(* Helpers of the worker's reducer                                         *)

\* filter_microphone_pending runs before every reduction.
AllowedQueue == Keep(queue, {m \in ToSet(queue) : SpeakerAllowed(m)})
AllowedSent  == IF current_sent # None /\ ~SpeakerAllowed(current_sent.message)
                THEN None ELSE current_sent

ManualsOf(q) == Keep(q, {m \in ToSet(q) : IsManual(m)})

FirstAutomatic(q) == FirstIn(q, {m \in ToSet(q) : ~IsManual(m)})

\* enqueue_pending: a full queue loses its first automatic message; one that
\* holds manual messages only loses its oldest to a new manual message, and
\* turns any other message away (0).
Victim_Oldest(q, m, priority) == 1    \* mutant: whatever is at the front
Victim(q, m, priority) ==
  IF FirstAutomatic(q) <= Len(q) THEN FirstAutomatic(q)
  ELSE IF priority /\ IsManual(m) THEN 1 ELSE 0

Insert_Back(q, m, priority) == Append(q, m)     \* mutant: no priority
Insert_Front(q, m, priority) ==                 \* mutant: priority = front
  IF priority THEN <<m>> \o q ELSE Append(q, m)
Insert(q, m, priority) ==
  IF priority THEN InsertAt(q, FirstAutomatic(q), m) ELSE Append(q, m)

Enqueue_Silent(q, m, priority) ==   \* mutant: evicts without an answer
  [queue |-> Insert(IF Len(q) < DisplayCapacity THEN q ELSE Tail(q),
                    m, priority),
   rejected |-> {}]
Enqueue_Grow(q, m, priority) ==   \* mutant: one message more than fits
  LET victim == Victim(q, m, priority)
  IN  IF Len(q) <= DisplayCapacity
      THEN [queue |-> Insert(q, m, priority), rejected |-> {}]
      ELSE IF victim = 0
      THEN [queue |-> q, rejected |-> {m}]
      ELSE [queue |-> Insert(RemoveAt(q, victim), m, priority),
            rejected |-> {q[victim]}]
\* The new queue, and the messages that were turned away.
Enqueue(q, m, priority) ==
  LET victim == Victim(q, m, priority)
  IN  IF Len(q) < DisplayCapacity
      THEN [queue |-> Insert(q, m, priority), rejected |-> {}]
      ELSE IF victim = 0
      THEN [queue |-> q, rejected |-> {m}]
      ELSE [queue |-> Insert(RemoveAt(q, victim), m, priority),
            rejected |-> {q[victim]}]

\* select_translation_target
SelectTarget(route) ==
  IF wconfig.config.translation_strategy = "all_languages" \/ route = << >>
  THEN None
  ELSE IF wconfig.config.translation_strategy = "round_robin"
       THEN route[(round_robin_index % Len(route)) + 1]
       ELSE Head(route)

AllTargetsResolved(m) ==
  /\ m.expected # << >>
  /\ \A i \in DOMAIN m.expected :
       m.translations[m.expected[i]] # None \/ m.expected[i] \in m.failed

\* Change the first queued message of subtitle s.
OnFirst(q, s, F(_)) ==
  LET i == FirstIn(q, {m \in ToSet(q) : m.kind = "subtitle" /\ m.id = s})
  IN  IF i <= Len(q) THEN [q EXCEPT ![i] = F(q[i])] ELSE q

IsQueued(q, s) == \E i \in DOMAIN q : q[i].kind = "subtitle" /\ q[i].id = s

\* TranslationFailed for language l.
Fail_AllOnly(m, l) ==   \* mutant: only a failure of every target ends the wait
  LET failed == [m EXCEPT !.failed = @ \cup {l}]
  IN  IF Cardinality(failed.failed) >= Len(m.expected)
      THEN [failed EXCEPT !.wait = 0] ELSE failed
Fail(m, l) ==
  LET failed == [m EXCEPT !.failed = @ \cup {l}]
      all_failed == /\ m.expected # << >>
                    /\ Cardinality(failed.failed) >= Len(m.expected)
      any_text == \E k \in Langs : m.translations[k] # None
  IN  IF \/ /\ wconfig.config.translation_strategy = "all_languages"
            /\ AllTargetsResolved(failed)
         \/ /\ wconfig.config.translation_strategy # "all_languages"
            /\ all_failed \/ any_text
      THEN [failed EXCEPT !.wait = 0]
      ELSE failed

\* TranslationCompleted with text for language l.
Complete(m, l, content, preferred) ==
  LET done == [m EXCEPT !.translations[l] = content]
  IN  IF \/ /\ wconfig.config.translation_strategy = "all_languages"
            /\ AllTargetsResolved(done)
         \/ /\ wconfig.config.translation_strategy # "all_languages"
            /\ \/ m.desired = l
               \/ preferred /\ m.desired = None
               \/ m.desired # None /\ m.desired \in m.failed
      THEN [done EXCEPT !.wait = 0]
      ELSE done

\* A translation of an earlier subtitle of a sentence group: the target is
\* shown with the group's last subtitle, so this one stops waiting for it.
Supersede(m, l) ==
  LET rest == Keep(m.expected, Langs \ {l})
      next == [m EXCEPT !.expected = rest,
                        !.desired = IF @ = l /\ rest # << >> THEN Head(rest)
                                                              ELSE @]
  IN  IF AllTargetsResolved(next) THEN [next EXCEPT !.wait = 0] ELSE next

SupersedeIn(q, s, l) ==
  LET hit(m)  == m.kind = "subtitle" /\ m.id = s
      gone    == {m \in ToSet(q) :
                    hit(m) /\ Keep(m.expected, Langs \ {l}) = << >>}
      kept    == Keep(q, ToSet(q) \ gone)
  IN  [i \in DOMAIN kept |->
         IF hit(kept[i]) THEN Supersede(kept[i], l) ELSE kept[i]]

\* The message on display may be refreshed by a late translation.
Refreshable(sent, s, l, content) ==
  /\ sent # None
  /\ sent.message.id = s
  /\ sent.message.translations[l] # content
  /\ sent.message.desired \in {None, l}
  /\ sent.age <= LateTtl

-----------------------------------------------------------------------------
(* The worker task                                                         *)

\* state.config = next
Adopted_Kept == wconfig   \* mutant: the reducer forgets the assignment
Adopted == config

\* select!: the configuration is polled first.
TakeConfig ==
  /\ phase = "select" /\ unseen
  /\ unseen' = FALSE
  /\ wconfig' = Adopted
  /\ LET q == AllowedQueue
     IN  IF config.config_revision # wconfig.config_revision
         THEN /\ queue' = << >>
              /\ current_sent' = None
              /\ last_send' = SendInterval
              /\ spacing' = SendInterval
              /\ reply' = Answer(ManualIds(ToSet(q)), "cancelled")
         ELSE IF config.automatic_revision # wconfig.automatic_revision
         THEN /\ queue' = ManualsOf(q)
              /\ current_sent' = None
              /\ UNCHANGED <<last_send, spacing, reply>>
         ELSE /\ queue' = q
              /\ current_sent' = AllowedSent
              /\ UNCHANGED <<last_send, spacing, reply>>
  /\ UNCHANGED <<config, channel, asked, phase, round_robin_index, inflight,
                 bound, outside, display, newest, leaked>>

\* No configuration change: the worker goes on to poll the event channel.
PollEvents ==
  /\ phase = "select" /\ ~unseen
  /\ phase' = "polled"
  /\ UNCHANGED <<handle, wconfig, queue, current_sent, last_send,
                 round_robin_index, inflight, bound, outside, history>>

\* Event: the received event is taken into the display queue, or ignored.
Current_Any(e) == TRUE   \* mutant: revisions are not compared
Current(e) ==
  e.generation = IF e.kind = "manual" THEN wconfig.config_revision
                                      ELSE wconfig.automatic_revision

Accept(r) ==
  /\ queue' = r.queue
  /\ reply' = Answer(ManualIds(r.rejected), "queue_full")

ReceiveStale_Silent(e) ==   \* mutant: a stale manual send gets no answer
  /\ ~Current(e)
  /\ queue' = AllowedQueue
  /\ UNCHANGED <<reply, round_robin_index>>
ReceiveStale(e) ==
  /\ ~Current(e)
  /\ queue' = AllowedQueue
  /\ reply' = IF e.kind = "manual" THEN Answer({e.id}, "cancelled") ELSE reply
  /\ UNCHANGED round_robin_index

ReceiveSubtitle(e) ==
  /\ e.kind = "subtitle" /\ Current(e)
  /\ Accept(Enqueue(AllowedQueue,
              [PlainMessage(e.id, "subtitle", e.generation) EXCEPT
                 !.expected = e.route, !.desired = SelectTarget(e.route),
                 !.wait = IF e.route # << >> THEN Grace ELSE 0],
              FALSE))
  /\ round_robin_index' =
       IF wconfig.config.translation_strategy = "round_robin" /\ e.route # << >>
       THEN round_robin_index + 1 ELSE round_robin_index

ReceivePlain(e) ==
  /\ e.kind \in {"manual", "test"} /\ Current(e)
  /\ Accept(Enqueue(AllowedQueue, PlainMessage(e.id, e.kind, e.generation),
                    e.kind = "manual"))
  /\ UNCHANGED round_robin_index

ReceiveFailed(e) ==
  /\ e.kind = "failed" /\ Current(e)
  /\ queue' = OnFirst(AllowedQueue, e.id, LAMBDA m : Fail(m, e.lang))
  /\ UNCHANGED <<round_robin_index, reply>>

ReceiveSuperseded(e) ==
  /\ e.kind = "superseded" /\ Current(e)
  /\ queue' = SupersedeIn(AllowedQueue, e.id, e.lang)
  /\ UNCHANGED <<round_robin_index, reply>>

\* A translation for a queued subtitle completes it; one for the subtitle on
\* display puts that subtitle back in the queue, ahead of the others.
ReceiveCompleted(e, preferred) ==
  /\ e.kind = "completed" /\ Current(e)
  /\ LET q    == AllowedQueue
         late == [AllowedSent.message EXCEPT !.wait = 0]
         r    == IF IsQueued(q, e.id) THEN [queue |-> q, rejected |-> {}]
                 ELSE IF Refreshable(AllowedSent, e.id, e.lang, e.content)
                 THEN Enqueue(q, late, TRUE)
                 ELSE [queue |-> q, rejected |-> {}]
     IN  /\ queue' = OnFirst(r.queue, e.id,
                       LAMBDA m : Complete(m, e.lang, e.content, preferred))
         /\ reply' = Answer(ManualIds(r.rejected), "queue_full")
  /\ UNCHANGED round_robin_index

Receive ==
  /\ phase = "polled" /\ channel # << >>
  /\ channel' = Tail(channel)
  /\ phase' = "select"
  /\ current_sent' = AllowedSent
  /\ LET e == Head(channel)
     IN  \/ ReceiveStale(e)
         \/ ReceiveSubtitle(e)
         \/ ReceivePlain(e)
         \/ ReceiveFailed(e)
         \/ ReceiveSuperseded(e)
         \/ \E preferred \in BOOLEAN : ReceiveCompleted(e, preferred)
  /\ UNCHANGED <<config, unseen, asked, wconfig, last_send, inflight, bound,
                 outside, history>>

\* Tick: send the front of the queue when it is ready and the rate allows.
TickQueue ==
  IF ~wconfig.config.enabled THEN << >>
  ELSE IF wconfig.send_gate # "open" THEN ManualsOf(AllowedQueue)
  ELSE AllowedQueue

RateReady_Always == TRUE   \* mutant: no rate limit
RateReady == last_send >= SendInterval

Tick ==
  /\ phase = "polled" /\ channel = << >>
  /\ current_sent' = AllowedSent
  /\ LET q == TickQueue
         ready == q # << >> /\ Head(q).wait = 0
     IN  IF ready /\ RateReady
         THEN /\ queue' = Tail(q)
              /\ inflight' = Head(q)
              /\ phase' = "sending"
         ELSE /\ queue' = q
              /\ phase' = "select"
              /\ UNCHANGED inflight
  /\ reply' = IF wconfig.config.enabled THEN reply
              ELSE Answer(ManualIds(ToSet(AllowedQueue)), "cancelled")
  /\ UNCHANGED <<config, unseen, channel, asked, wconfig, last_send,
                 round_robin_index, bound, outside, history>>

-----------------------------------------------------------------------------
(* execute_send                                                            *)

\* An automatic message polls the configuration again, before each attempt.
ArmAutomatic ==
  /\ phase = "sending" /\ bound /\ ~IsManual(inflight) /\ ~unseen
  /\ phase' = "armed"
  /\ UNCHANGED <<handle, wconfig, queue, current_sent, last_send,
                 round_robin_index, inflight, bound, outside, history>>

\* SendCancelledByConfig
CancelByConfig ==
  /\ phase = "sending" /\ bound /\ ~IsManual(inflight) /\ unseen
  /\ unseen' = FALSE
  /\ wconfig' = Adopted
  /\ queue' = << >>
  /\ current_sent' = None
  /\ last_send' = SendInterval
  /\ spacing' = IF config.config_revision # wconfig.config_revision
                THEN SendInterval ELSE spacing
  /\ reply' = Answer(ManualIds(ToSet(queue)), "cancelled")
  /\ inflight' = None
  /\ phase' = "select"
  /\ UNCHANGED <<config, channel, asked, round_robin_index, bound, outside,
                 display, newest, leaked>>

\* The socket is not writable after all: wait again, configuration first.
WouldBlock ==
  /\ phase = "armed" /\ SpeakerAllowed(inflight)
  /\ phase' = "sending"
  /\ UNCHANGED <<handle, wconfig, queue, current_sent, last_send,
                 round_robin_index, inflight, bound, outside, history>>

\* The speaker was blocked before the packet left: run_worker looks before
\* it starts to send, and each attempt (SendExecution::Filtered) once more.
FilterInflight ==
  /\ phase \in {"sending", "armed"} /\ ~SpeakerAllowed(inflight)
  /\ inflight' = None
  /\ phase' = "select"
  /\ UNCHANGED <<handle, wconfig, queue, current_sent, last_send,
                 round_robin_index, bound, outside, history>>

MayWrite ==
  \/ phase = "sending" /\ bound /\ IsManual(inflight)
  \/ phase = "armed" /\ SpeakerAllowed(inflight)

\* Once another message is on display, a queued refresh of the one it has
\* replaced is dropped.
AfterSend_Keep == queue   \* mutant: the refresh stays
AfterSend ==
  IF current_sent # None /\ current_sent.message.id # inflight.id
  THEN Keep(queue, {m \in ToSet(queue) : m.id # current_sent.message.id})
  ELSE queue

\* reduce_send_completed after a packet has left, and FinalizeSend.
Deliver ==
  /\ MayWrite
  /\ last_send' = 0
  /\ queue' = AfterSend
  /\ current_sent' = IF inflight.kind = "subtitle"
                     THEN [message |-> inflight, age |-> 0] ELSE None
  /\ reply' = Answer(ManualIds({inflight}), "sent")
  /\ inflight' = None
  /\ phase' = "select"
  /\ display' = inflight.id
  /\ newest' = IF inflight.kind = "subtitle" /\ inflight.id > newest
               THEN inflight.id ELSE newest
  /\ spacing' = 0
  /\ leaked' = IF ~IsManual(inflight) /\ ~AutomaticOpen(config) /\ leaked < 2
               THEN leaked + 1 ELSE leaked
  /\ UNCHANGED <<config, unseen, channel, asked, wconfig, round_robin_index,
                 bound, outside>>

\* reduce_send_completed after an error of the socket (bind, writable or
\* send), and FinalizeSend.
FailSend_Requeue ==   \* mutant: a failed message is tried again
  /\ phase = "armed" \/ MayWrite \/ (phase = "sending" /\ ~bound)
  /\ queue' = <<inflight>> \o queue
  /\ inflight' = None
  /\ phase' = "select"
  /\ UNCHANGED <<handle, wconfig, current_sent, last_send, round_robin_index,
                 bound, outside, history>>
FailSend ==
  /\ phase = "armed" \/ MayWrite \/ (phase = "sending" /\ ~bound)
  /\ reply' = Answer(ManualIds({inflight}), "failed")
  /\ inflight' = None
  /\ phase' = "select"
  /\ UNCHANGED <<config, unseen, channel, asked, wconfig, queue, current_sent,
                 last_send, round_robin_index, bound, outside, history>>

-----------------------------------------------------------------------------
(* The environment                                                         *)

\* The speaker filter revokes a subtitle, or admits it again.
FilterSpeaker(s) ==
  /\ blocked' = IF s \in blocked THEN blocked \ {s} ELSE blocked \cup {s}
  /\ UNCHANGED <<handle, worker, published, results, history>>

Less(n) == IF n = 0 THEN 0 ELSE n - 1
More(n, cap) == IF n < cap THEN n + 1 ELSE cap

Advance ==
  /\ queue' = [i \in DOMAIN queue |->
                 [queue[i] EXCEPT !.wait = Less(@)]]
  /\ current_sent' = IF current_sent = None THEN None
                     ELSE [current_sent EXCEPT !.age = More(@, LateTtl + 1)]
  /\ last_send' = More(last_send, SendInterval)
  /\ spacing' = More(spacing, SendInterval)
  /\ UNCHANGED <<handle, phase, wconfig, round_robin_index, inflight, bound,
                 outside, display, newest, leaked>>

-----------------------------------------------------------------------------
Caller ==
  \/ \E route \in Routes : PublishSubtitle(route)
  \/ \E s \in Subtitles, l \in Langs, c \in Contents :
       \E kind \in {"completed", "superseded"} : ReportResult(kind, s, l, c)
  \/ \E s \in Subtitles, l \in Langs : ReportResult("failed", s, l, None)
  \/ \E t \in Tests : QueueTest(t)
  \/ \E m \in Manuals : SendManual(m) \/ ManualTimeout(m)
  \/ \E c \in Configs : UpdateConfig(c)
  \/ \E g \in Gates : UpdateMuteStatus(g)

Worker ==
  \/ TakeConfig \/ PollEvents \/ Receive \/ Tick
  \/ ArmAutomatic \/ CancelByConfig \/ WouldBlock \/ FilterInflight
  \/ Deliver \/ FailSend

Next ==
  \/ Caller
  \/ Worker
  \/ \E s \in Filterable : FilterSpeaker(s)
  \/ Advance

Spec == Init /\ [][Next]_vars

\* The worker task is scheduled as long as it can run, time passes, and a
\* socket that keeps becoming writable accepts a packet eventually.
Fairness == WF_vars(Worker) /\ SF_vars(Deliver \/ FailSend) /\ WF_vars(Advance)

FairSpec == Spec /\ Fairness
-----------------------------------------------------------------------------
(* Properties                                                              *)

\* Every variable keeps its type, and neither the display queue nor the event
\* channel outgrows its capacity.
TypeOK ==
  /\ config \in ConfigState /\ wconfig \in ConfigState
  /\ unseen \in BOOLEAN /\ bound \in BOOLEAN
  /\ channel \in Seq(Event) /\ Len(channel) <= EventCapacity
  /\ reply \in [Manuals -> Replies] /\ asked \in [Manuals -> Nat]
  /\ phase \in {"select", "polled", "sending", "armed"}
  /\ queue \in Seq(Message) /\ Len(queue) <= DisplayCapacity
  /\ current_sent \in SentMessage \cup {None}
  /\ last_send \in 0..SendInterval /\ spacing \in 0..SendInterval
  /\ round_robin_index \in Nat
  /\ inflight \in Message \cup {None}
  /\ published \in Subtitles \cup {0} /\ newest \in Subtitles \cup {0}
  /\ blocked \subseteq Subtitles
  /\ display \in Ids \cup {None}
  /\ leaked \in 0..2

\* Manual messages stand before all automatic ones, whatever refreshes,
\* evictions and filters did to the queue (enqueue_pending): an automatic
\* message never delays a manual one.
ManualsFirst ==
  \A i, j \in DOMAIN queue : i < j /\ IsManual(queue[j]) => IsManual(queue[i])

\* The worker is executing a send request.
Sending == phase \in {"sending", "armed"}

\* What the worker holds was published under the revision it works with: an
\* automatic message never survives a configuration or gate change, a manual
\* one never survives a configuration change.
HeldIsCurrent ==
  LET held == ToSet(queue) \cup (IF Sending THEN {inflight} ELSE {})
  IN  \A m \in held :
        m.generation = IF IsManual(m) THEN wconfig.config_revision
                                      ELSE wconfig.automatic_revision

\* A responder is in exactly one place while its caller waits, and nowhere
\* once the worker has answered: no manual send is answered twice or
\* forgotten.
Holders(m) ==
  Cardinality({i \in DOMAIN channel : channel[i].id = m
                                      /\ channel[i].kind = "manual"})
  + Cardinality({i \in DOMAIN queue : queue[i].id = m /\ IsManual(queue[i])})
  + (IF Sending /\ inflight.id = m THEN 1 ELSE 0)

ResponderConserved ==
  \A m \in Manuals :
    /\ Holders(m) <= 1
    /\ reply[m] = "waiting" => Holders(m) = 1
    /\ reply[m] \notin {"waiting", "timeout"} => Holders(m) = 0

\* The dispatcher implements what Chatbox promises: a manual message is
\* pending from the moment its send was accepted until its packet has left or
\* its caller has been told why not, across the channel, evictions, changes of
\* the configuration, the timeout of the caller and failing sockets; it is
\* shown once at most, and what is shown never goes back.
Promise ==
  INSTANCE Chatbox WITH pending <- {m \in Manuals : Holders(m) > 0}

ImplementsChatbox == Promise!ChatboxSpec

\* After the gate has closed (VRChat muted, mute state unknown, output
\* disabled) at most one automatic packet still leaves: the one whose attempt
\* had polled the configuration already.
MuteLeaksAtMostOne == leaked <= 1

\* A queued subtitle stops waiting when the last of its targets is translated,
\* has failed or is shown with a later subtitle, in whatever order that
\* happens; when one translation is shown, it may wait on only if a sentence
\* group has made it desire a language that was translated before.
ResolvedIsReady ==
  \A i \in DOMAIN queue :
    AllTargetsResolved(queue[i]) =>
      \/ queue[i].wait = 0
      \/ /\ wconfig.config.translation_strategy # "all_languages"
         /\ queue[i].desired # None
         /\ queue[i].translations[queue[i].desired] # None

\* The Chatbox never goes back to an older subtitle: an automatic packet
\* shows a subtitle newer than all shown before, or refreshes the one the
\* Chatbox is showing (late translations, current_sent).
NoRollback ==
  [][Deliver /\ inflight.kind = "subtitle" =>
       inflight.id > newest \/ display = inflight.id]_vars

\* Two packets are at least SEND_INTERVAL apart unless the worker took a new
\* configuration in between; a change of the mute gate does not reset the
\* limit, although a cancelled send clears last_send.
RateLimit == [][Deliver => spacing = SendInterval]_vars

\* Only a configuration change cancels a manual send: the mute gate, the
\* speaker filter and a cancelled automatic send never do.
CancelledByConfigOnly ==
  [][\A m \in Manuals :
       reply[m] = "waiting" /\ reply'[m] = "cancelled" =>
         asked[m] # wconfig'.config_revision]_vars

\* A manual message is evicted only by a later manual message, when the
\* display queue holds nothing but manual messages, and the oldest goes.
EvictedByManualOnly ==
  [][\A m \in Manuals :
       reply[m] = "waiting" /\ reply'[m] = "queue_full" =>
         /\ Head(channel).kind = "manual"
         /\ \A i \in DOMAIN queue :
              IsManual(queue[i]) \/ ~SpeakerAllowed(queue[i])
         /\ queue[1].id = m]_vars

\* Every manual send the worker has accepted is answered, even if its caller
\* never times out.
ManualAnswered ==
  \A m \in Manuals : reply[m] = "waiting" ~> reply[m] # "waiting"

\* The worker gets rid of everything it holds: a translation that never
\* arrives holds a message back for TRANSLATION_GRACE only, a failed packet is
\* not tried again.
QueueDrains == queue # << >> ~> queue = << >> /\ inflight = None
=============================================================================
