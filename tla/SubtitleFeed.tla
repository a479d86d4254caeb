---------------------------- MODULE SubtitleFeed ----------------------------
(***************************************************************************)
(* From the core to the window: what the publisher of subtitles announces  *)
(* (subtitle_output.rs, domain_events.rs), the WebSocket that forwards it  *)
(* (server/ws.rs) and the window that shows it (useCoreEventStream.ts,     *)
(* realtime-state.ts, useConversationHistory.ts), which also reads pages   *)
(* of a conversation over HTTP.                                            *)
(*                                                                         *)
(* The announcements of the recognition and those of translations travel   *)
(* in channels of their own, which drop what is oldest when the client is  *)
(* slow; a channel here is what the channel and the socket hold together.  *)
(* Of a subtitle the window knows its text or its text and translation: a  *)
(* pool of subtitles is a set of such facts.                               *)
(***************************************************************************)
EXTENDS Integers, FiniteSets, Sequences, Functions

CONSTANTS
  Utterances,     \* utterances of the microphone, and the subtitles they become
  Conversations,
  None,           \* null
  Capacity,       \* capacity of the channels
  MaxTurns        \* bound: conversations the user opens and connections of
                  \* the WebSocket, taken together

FeedAssumption ==
  /\ Capacity \in Nat \ {0} /\ MaxTurns \in Nat
  /\ None \notin Utterances \cup Conversations
  /\ None \notin [kind : {"open", "context", "refresh"},
                 conversation : Conversations, version : Nat,
                 page : (SUBSET (Utterances \X {"text", "translation"})) \cup {None}]
  /\ IsFiniteSet(Utterances)

VARIABLES
  speech,       \* how far each utterance has come
  row,          \* the conversation its subtitle is stored in, or None
  translation,  \* how far its translation has come
  revoked,      \* utterances the speaker filter rejects
  revoking,     \* those whose cancellation is still to be announced
  open,         \* the socket is open at the window
  subscribed,   \* handle_socket has subscribed
  connections,  \* connections made
  events,       \* recognition announcements the client has not received
  lag,          \* the next receive reports that some were dropped
  results,      \* translation announcements it has not received
  previews,     \* livePartials
  ended,        \* terminatedLivePartialIds
  opened,       \* currentConversationId
  focused,      \* a found subtitle is shown: focusedSubtitleId
  version,      \* requestVersion
  request,      \* the request of openRequestController, or None
  late,         \* one that was answered before it was aborted, or None: its
                \* continuation is the next thing the window runs
  pool,         \* the facts that are shown
  missed        \* history: the facts no announcement and no page has brought

server == <<speech, row, translation, revoked, revoking>>
socket == <<open, subscribed, connections>>
view   == <<opened, focused, version, request, late>>

feedVars == <<server, socket, events, lag, results, previews, ended, view, pool,
              missed>>

Ends   == {"final", "cancelled"}
Event(kind, u) == [kind |-> kind, of |-> u]
Reset  == Event("reset", None)

Text(u)        == <<u, "text">>
Translation(u) == <<u, "translation">>

FeedInit ==
  /\ speech = [u \in Utterances |-> "idle"]
  /\ row = [u \in Utterances |-> None]
  /\ translation = [u \in Utterances |-> "none"]
  /\ revoked = {} /\ revoking = {}
  /\ open = FALSE /\ subscribed = FALSE /\ connections = 0
  /\ events = << >> /\ lag = FALSE /\ results = << >>
  /\ previews = {} /\ ended = {}
  /\ opened = None /\ focused = FALSE /\ version = 0
  /\ request = None /\ late = None
  /\ pool = {} /\ missed = {}

MayTurn == version + connections < MaxTurns

-----------------------------------------------------------------------------
(* The publisher                                                           *)

\* The facts the announcements in channel bring.
Brings(channel) ==
  {Text(e.of) : e \in {x \in Range(channel) : x.kind = "final"}}
  \cup {Translation(e.of) : e \in {x \in Range(channel) : x.kind = "completed"}}

\* What is announced between the opening of the socket and the subscription
\* is received by nobody, and the page may have been read before.
Unheard(announced) == IF open /\ ~subscribed THEN Brings(announced) ELSE {}

\* broadcast::Sender::send of several events
Announce(announced) ==
  LET all == events \o announced
      cut == IF Len(all) > Capacity THEN Len(all) - Capacity ELSE 0
  IN  IF subscribed
      THEN /\ events' = SubSeq(all, cut + 1, Len(all))
           /\ lag' = (lag \/ cut > 0)
           /\ missed' = missed \cup Brings(SubSeq(all, 1, cut))
      ELSE /\ missed' = missed \cup Unheard(announced)
           /\ UNCHANGED <<events, lag>>

Window == UNCHANGED <<socket, previews, ended, view, pool>>

\* with_allowed
Allowed(u) == u \notin revoked

Preview(u) ==
  /\ speech[u] = "idle" /\ Allowed(u)
  /\ speech' = [speech EXCEPT ![u] = "live"]
  /\ Announce(<<Event("partial", u)>>)
  /\ UNCHANGED <<row, translation, revoked, revoking, results>> /\ Window

\* asr_cancelled, and asr_failed for this utterance
Cancel(u) ==
  /\ speech[u] = "live"
  /\ speech' = [speech EXCEPT ![u] = "over"]
  /\ Announce(<<Event("cancelled", u)>>)
  /\ UNCHANGED <<row, translation, revoked, revoking, results>> /\ Window

\* asr_reset, and asr_failed for the session
ResetSession ==
  /\ \E u \in Utterances : speech[u] = "live"
  /\ speech' = [u \in Utterances |->
                  IF speech[u] = "live" THEN "over" ELSE speech[u]]
  /\ Announce(<<Reset>>)
  /\ UNCHANGED <<row, translation, revoked, revoking, results>> /\ Window

Store(u, c) ==
  /\ speech[u] \in {"idle", "live"} /\ Allowed(u)
  /\ speech' = [speech EXCEPT ![u] = "stored"]
  /\ row' = [row EXCEPT ![u] = c]
  /\ UNCHANGED <<translation, revoked, revoking, events, lag, results, missed>>
  /\ Window

\* subtitle_stored_with_message
Stored(u) ==
  /\ speech[u] = "stored"
  /\ speech' = [speech EXCEPT ![u] = "over"]
  /\ IF Allowed(u)
     THEN Announce(<<Event("final", u)>>)
     ELSE missed' = missed \cup {Text(u)} /\ UNCHANGED <<events, lag>>
  /\ UNCHANGED <<row, translation, revoked, revoking, results>> /\ Window

\* A selection blocks speakers; the handler announces what it has cancelled
\* after the filter's lock.
Block ==
  /\ revoking = {}
  /\ \E S \in SUBSET {u \in Utterances : speech[u] # "idle"} :
       /\ S \ revoked # {}
       /\ revoking' = S \ revoked /\ revoked' = revoked \cup S
  /\ UNCHANGED <<speech, row, translation, events, lag, results, missed>>
  /\ Window

AnnounceBlocked ==
  /\ revoking # {}
  /\ \E order \in Bijection(1..Cardinality(revoking), revoking) :
       Announce([i \in DOMAIN order |-> Event("cancelled", order[i])])
  /\ speech' = [u \in Utterances |->
                  IF u \in revoking /\ speech[u] = "live" THEN "over"
                                                          ELSE speech[u]]
  /\ revoking' = {}
  /\ UNCHANGED <<row, translation, revoked, results>> /\ Window

\* A translation of a subtitle that was announced is stored, and announced.
Translate(u) ==
  /\ speech[u] = "over" /\ row[u] # None /\ translation[u] = "none"
  /\ Allowed(u)
  /\ translation' = [translation EXCEPT ![u] = "saved"]
  /\ UNCHANGED <<speech, row, revoked, revoking, events, lag, results, missed>>
  /\ Window

TranslationCompleted(u) ==
  /\ translation[u] = "saved" /\ Allowed(u)
  /\ translation' = [translation EXCEPT ![u] = "completed"]
  /\ LET all == Append(results, Event("completed", u))
     IN  IF subscribed
         THEN IF Len(all) > Capacity
              THEN results' = Tail(all)
                   /\ missed' = missed \cup Brings(<<Head(all)>>)
              ELSE results' = all /\ UNCHANGED missed
         ELSE missed' = missed \cup Unheard(<<Event("completed", u)>>)
              /\ UNCHANGED results
  /\ UNCHANGED <<speech, row, revoked, revoking, events, lag>> /\ Window

-----------------------------------------------------------------------------
(* The connection                                                          *)

\* The facts of conversation c in the database
Page(c) ==
  {Text(u) : u \in {x \in Utterances : row[x] = c}}
  \cup {Translation(u) : u \in {x \in Utterances :
                                  row[x] = c /\ translation[x] # "none"}}

Announced ==
  {Text(u) : u \in {x \in Utterances : speech[x] = "over" /\ row[x] # None}}
  \cup {Translation(u) : u \in {x \in Utterances :
                                  translation[x] = "completed"}}

NewRequest(kind, c, v) ==
  [kind |-> kind, conversation |-> c, version |-> v, page |-> None]

\* handle_socket: the receivers exist from here on.
Subscribe ==
  /\ ~subscribed /\ MayTurn
  /\ subscribed' = TRUE /\ connections' = connections + 1
  /\ UNCHANGED <<server, open, events, lag, results, previews, ended, view, pool,
                 missed>>

\* onopen may come before it: a page is read again, unless a found subtitle is
\* shown or a page is on its way (which may have been read before the
\* connection).
Opened ==
  /\ ~open
  /\ subscribed \/ MayTurn
  /\ open' = TRUE
  /\ IF opened = None \/ focused
     THEN UNCHANGED <<request, missed>>
     ELSE IF request = None
     THEN /\ request' = NewRequest("refresh", opened, version)
          /\ UNCHANGED missed
     ELSE /\ missed' = missed \cup (Announced \ pool)
          /\ UNCHANGED request
  /\ UNCHANGED <<server, subscribed, connections, events, lag, results, previews,
                 ended, opened, focused, version, late, pool>>

\* onclose, with the socket's receivers
Closed ==
  /\ open /\ subscribed
  /\ open' = FALSE /\ subscribed' = FALSE
  /\ events' = << >> /\ lag' = FALSE /\ results' = << >>
  /\ previews' = {} /\ ended' = {}
  /\ UNCHANGED <<server, connections, view, pool, missed>>

-----------------------------------------------------------------------------
(* The window receives                                                     *)

Connected == open /\ subscribed

\* RecvError::Lagged, and the recognition_reset it becomes
ReceiveLag ==
  /\ Connected /\ lag
  /\ lag' = FALSE
  /\ previews' = {} /\ ended' = {}
  /\ UNCHANGED <<server, socket, events, results, view, pool, missed>>

\* completeLivePartial
Complete(u) == previews' = previews \ {u} /\ ended' = ended \cup {u}

\* receiveSubtitle
Shows(u) == ~focused /\ row[u] = opened

\* The filter is asked once more before a preview or a subtitle is sent.
ReceiveEvent ==
  /\ Connected /\ ~lag /\ events # << >>
  /\ events' = Tail(events)
  /\ LET e == Head(events)
         u == e.of
     IN  \/ /\ e.kind \in {"partial", "final"} /\ ~Allowed(u)
            /\ missed' = missed \cup Brings(<<e>>)
            /\ UNCHANGED <<previews, ended, pool>>
         \/ /\ e.kind = "partial" /\ Allowed(u)
            /\ previews' = IF u \in ended THEN previews ELSE previews \cup {u}
            /\ UNCHANGED <<ended, pool, missed>>
         \/ /\ e.kind = "final" /\ Allowed(u)
            /\ Complete(u)
            /\ pool' = IF Shows(u) THEN pool \cup {Text(u)} ELSE pool
            /\ UNCHANGED missed
         \/ /\ e.kind = "cancelled" /\ Complete(u)
            /\ UNCHANGED <<pool, missed>>
         \/ /\ e = Reset
            /\ previews' = {} /\ ended' = {}
            /\ UNCHANGED <<pool, missed>>
  /\ UNCHANGED <<server, socket, lag, results, view>>

\* translationCompleted: it finds its subtitle in the pool, or is lost on the
\* window, the one that overtakes its subtitle included.
ReceiveResult ==
  /\ Connected /\ results # << >>
  /\ results' = Tail(results)
  /\ LET u == Head(results).of
     IN  IF Text(u) \in pool
         THEN pool' = pool \cup {Translation(u)} /\ UNCHANGED missed
         ELSE missed' = missed \cup {Translation(u)} /\ UNCHANGED pool
  /\ UNCHANGED <<server, socket, events, lag, previews, ended, view>>

\* VRChat mutes the microphone: its previews go.
Muted ==
  /\ Connected /\ previews # {} /\ previews' = {}
  /\ UNCHANGED <<server, socket, events, lag, results, ended, view, pool, missed>>

-----------------------------------------------------------------------------
(* The window opens and reads                                              *)

\* clearPool: a request that was answered already is beyond aborting.
ClearPool(c, found) ==
  /\ MayTurn /\ version' = version + 1
  /\ late' = IF request # None /\ request.page # None THEN request ELSE late
  /\ opened' = c /\ focused' = found
  /\ pool' = {}

OpenConversation(c) ==
  /\ ClearPool(c, FALSE)
  /\ request' = NewRequest("open", c, version')
  /\ UNCHANGED <<server, socket, events, lag, results, previews, ended, missed>>

OpenConversationAt(u) ==
  /\ row[u] # None /\ ClearPool(row[u], TRUE)
  /\ request' = NewRequest("context", row[u], version')
  /\ UNCHANGED <<server, socket, events, lag, results, previews, ended, missed>>

\* The server reads the page.
ReadPage ==
  /\ request # None /\ request.page = None
  /\ request' = [request EXCEPT !.page = Page(request.conversation)]
  /\ UNCHANGED <<server, socket, events, lag, results, previews, ended, opened,
                 focused, version, late, pool, missed>>

\* isConversationRequestCurrent
IsCurrent(r) == r.conversation = opened /\ r.version = version

\* mergeSubtitleHistory, or setSubtitles for a found subtitle
Merged(r) == IF r.kind = "context" THEN r.page ELSE pool \cup r.page

Take(r) ==
  IF IsCurrent(r)
  THEN pool' = Merged(r) /\ missed' = missed \ r.page
  ELSE UNCHANGED <<pool, missed>>

Respond ==
  /\ request # None /\ request.page # None
  /\ Take(request) /\ request' = None
  /\ UNCHANGED <<server, socket, events, lag, results, previews, ended, opened,
                 focused, version, late>>

RespondLate ==
  /\ late # None /\ Take(late) /\ late' = None
  /\ UNCHANGED <<server, socket, events, lag, results, previews, ended, opened,
                 focused, version, request>>

\* The pool stays as it is.
FailRequest ==
  /\ request # None /\ request' = None
  /\ missed' = missed \cup (Announced \ pool)
  /\ UNCHANGED <<server, socket, events, lag, results, previews, ended, opened,
                 focused, version, late, pool>>

-----------------------------------------------------------------------------
Publish ==
  \/ \E u \in Utterances :
       \/ Preview(u) \/ Cancel(u) \/ Stored(u) \/ Translate(u)
       \/ TranslationCompleted(u)
       \/ \E c \in Conversations : Store(u, c)
  \/ ResetSession \/ Block \/ AnnounceBlocked

Follow ==
  \/ \E c \in Conversations : OpenConversation(c)
  \/ \E u \in Utterances : OpenConversationAt(u)
  \/ Subscribe \/ Opened \/ Closed
  \/ ReceiveLag \/ ReceiveEvent \/ ReceiveResult \/ Muted
  \/ ReadPage \/ Respond \/ FailRequest

FeedNext == RespondLate \/ (late = None /\ (Publish \/ Follow))

FeedSpec == FeedInit /\ [][FeedNext]_feedVars
-----------------------------------------------------------------------------
(* Properties                                                              *)

\* A preview that is shown belongs to speech that is still recognized, or what
\* ends it is on its way to the window: neither a full channel, nor a blocked
\* speaker, nor a connection that is lost leaves one behind.
NoGhosts ==
  \A u \in previews :
    \/ speech[u] \in {"live", "stored"} /\ u \notin revoked
    \/ u \in revoking \/ lag
    \/ \E e \in Range(events) : e = Reset \/ (e.of = u /\ e.kind \in Ends)

\* What is shown belongs to the conversation that is opened.
PoolIsOpened == \A f \in pool : row[f[1]] = opened

\* When everything is received and read, what was announced of the opened
\* conversation is shown, except what the history says was missed: dropped
\* for a slow window, announced while it subscribed, rejected by the filter,
\* overtaken by its translation, or not read again because of another request
\* or its failure.
NothingIsErased ==
  /\ Connected /\ ~focused /\ request = None /\ late = None
  /\ events = << >> /\ results = << >>
  => \A f \in Announced \ missed : row[f[1]] = opened => f \in pool
=============================================================================
