--------------------------- MODULE Conversations ---------------------------
(***************************************************************************)
(* Conversations, their generated titles and the published catalog         *)
(* (src/core/src/conversation_titles.rs, db/conversations.rs and the       *)
(* handlers of server/conversations.rs).                                   *)
(*                                                                         *)
(* Every database operation runs under one mutex, so it is one step.       *)
(* Between the steps of a title task the user renames, erases, deletes,    *)
(* changes the settings, closes the client or quits the program.           *)
(*                                                                         *)
(* A subtitle is its database id.  A summary is the number of erasures     *)
(* the conversation had seen when the text for the summary was read.       *)
(***************************************************************************)
EXTENDS Integers, FiniteSets

CONSTANTS
  Writers,           \* the writers with a CatalogRefresh: some of
                     \* "recognition", "remote" and "translation"
  MaxConversations,  \* bound: conversations ever created
  MaxSubtitles,      \* bound: subtitles ever stored
  MaxRequests,       \* bound: title requests ever registered
  MaxErasures,       \* bound: erasures by the user
  MaxTrouble,        \* bound: changes of the settings, panics and database
                     \* errors, dropped handlers and restarts, taken together
  MaxRebuilds,       \* bound: catalog rebuilds waiting for the mutex
  None               \* SQL NULL

ASSUME ConversationsAssumption ==
  /\ {MaxConversations, MaxSubtitles, MaxRequests, MaxErasures, MaxTrouble}
        \subseteq Nat
  /\ Writers \subseteq {"recognition", "remote", "translation"}
  /\ MaxConversations > 0 /\ MaxRebuilds \in Nat \ {0}
  /\ None \notin Nat

VARIABLES
  row,        \* table conversations, with the subtitles of each
  created,    \* conversations created so far
  stored,     \* subtitles stored so far
  settings,   \* conversation_titles of the application's configuration
  calls,      \* handlers that have read the settings
  jobs,       \* title tasks, by request id
  requests,   \* title requests registered so far
  refresh,    \* CatalogRefresh of each writer
  remote,     \* where the recorder of VRChat Chatbox messages is
  trouble,    \* how much of MaxTrouble is left
  \* history
  erased,     \* erasures each conversation has seen
  stale,      \* the last published catalog is not what the database holds
  lost,       \* ... because a revoked remote message asked for no refresh
  abandoned,  \* requests whose task was never spawned or failed twice
  late        \* automatic requests sent since auto_generate was turned off

database == <<row, created, stored>>
tasks    == <<jobs, requests, abandoned>>
catalog  == <<refresh, remote, stale, lost>>
vars == <<database, settings, calls, tasks, catalog, trouble, erased, late>>

-----------------------------------------------------------------------------
Ids      == 1..MaxConversations
Requests == 1..MaxRequests
Busy     == {"pending", "running"}

Row == [state : {"absent", "active", "ended"}, text : SUBSET (1..MaxSubtitles),
        custom : BOOLEAN, summary : Nat \cup {None},
        status : {"idle", "pending", "running", "ready", "failed"},
        request : Requests \cup {None}]

Job == [at : {"none", "queued", "checked", "asking", "failing", "done"},
        conversation : Ids, automatic : BOOLEAN, enabled : BOOLEAN,
        configured : BOOLEAN, text : BOOLEAN, input : Nat]

Absent == [state |-> "absent", text |-> {}, custom |-> FALSE,
           summary |-> None, status |-> "idle", request |-> None]

\* insert_active
Fresh == [Absent EXCEPT !.state = "active"]

NoJob == [at |-> "none", conversation |-> 1, automatic |-> FALSE,
          enabled |-> FALSE, configured |-> FALSE, text |-> FALSE, input |-> 0]

Active(c) == row[c].state = "active"

Texts(r) == UNION {r[c].text : c \in Ids}

\* cleanup_empty_ended
WithoutEmpty(r) ==
  [c \in Ids |-> IF r[c].state = "ended" /\ r[c].text = {} THEN Absent ELSE r[c]]

Trimmed_Invalidate(r, k) ==   \* mutant: the trigger of schema version 8
  WithoutEmpty([c \in Ids |->
     IF r[c].text \cap 1..k = {} THEN r[c]
     ELSE [r[c] EXCEPT !.text = @ \ (1..k), !.summary = None,
                       !.status = "idle", !.request = None]])
\* trim_subtitle_history_to_size deletes the oldest subtitles, up to k, and
\* leaves the newest.  (It deletes 100 at a time; k is any of them here.)
Trimmed(r, k) ==
  IF k = 0 THEN r
  ELSE WithoutEmpty([c \in Ids |-> [r[c] EXCEPT !.text = @ \ (1..k)]])

\* One of the events that MaxTrouble bounds.
Trouble == trouble > 0 /\ trouble' = trouble - 1

TrimTo(r) == {0} \cup {k \in Texts(r) : \E s \in Texts(r) : s > k}

-----------------------------------------------------------------------------
Init ==
  /\ row = [c \in Ids |-> IF c = 1 THEN Fresh ELSE Absent]
  /\ created = 1
  /\ stored = 0
  /\ settings \in [auto : BOOLEAN, configured : BOOLEAN]
  /\ calls = {}
  /\ jobs = [j \in Requests |-> NoJob]
  /\ requests = 0
  /\ refresh = [w \in Writers |-> [scheduled |-> FALSE, rebuilding |-> 0]]
  /\ remote = "idle"
  /\ trouble = MaxTrouble
  /\ erased = [c \in Ids |-> 0]
  /\ stale = FALSE
  /\ lost = FALSE
  /\ abandoned = {}
  /\ late = 0

-----------------------------------------------------------------------------
(* The catalog                                                             *)

\* publish_latest_catalog and publish_catalog, under the mutex.
Publish == stale' = FALSE /\ lost' = FALSE

\* CatalogRefresh::request
Ask(w) == refresh' = [refresh EXCEPT ![w].scheduled = TRUE]

\* The timer of a scheduled refresh has run out: the flag is cleared first.
FireRefresh(w) ==
  /\ refresh[w].scheduled
  /\ refresh[w].rebuilding < MaxRebuilds
  /\ refresh' = [refresh EXCEPT ![w] = [scheduled |-> FALSE,
                                        rebuilding |-> @.rebuilding + 1]]
  /\ UNCHANGED <<database, settings, calls, tasks, remote, stale, lost,
                 trouble, erased, late>>

Rebuild(w) ==
  /\ refresh[w].rebuilding > 0
  /\ refresh' = [refresh EXCEPT ![w].rebuilding = @ - 1]
  /\ Publish
  /\ UNCHANGED <<database, settings, calls, tasks, remote, trouble, erased,
                 late>>

-----------------------------------------------------------------------------
(* Subtitles                                                               *)

\* add_subtitle stores into the active conversation and trims the history.
AddSubtitle ==
  /\ stored < MaxSubtitles
  /\ stored' = stored + 1
  /\ \E c \in Ids :
       /\ Active(c)
       /\ LET r == [row EXCEPT ![c].text = @ \cup {stored'}]
          IN  \E k \in TrimTo(r) : row' = Trimmed(r, k)
  /\ stale' = TRUE
  /\ UNCHANGED created

\* A recognized subtitle: the refresh is asked for under the mutex.
RecognizeSubtitle ==
  /\ "recognition" \in Writers
  /\ AddSubtitle
  /\ Ask("recognition")
  /\ UNCHANGED <<settings, calls, tasks, remote, lost, trouble, erased, late>>

\* A message of another player (vrchat_chatbox.rs): the refresh is asked for
\* after the mutex is released, if the message is still valid then.
RecordRemote ==
  /\ "remote" \in Writers
  /\ remote = "idle"
  /\ AddSubtitle
  /\ remote' = "stored"
  /\ UNCHANGED <<settings, calls, tasks, refresh, lost, trouble, erased, late>>

AnnounceRemote ==
  /\ remote = "stored"
  /\ remote' = "idle"
  /\ Ask("remote")
  /\ UNCHANGED <<database, settings, calls, tasks, stale, lost, trouble, erased,
                 late>>

RevokeRemote ==
  /\ remote = "stored"
  /\ remote' = "idle"
  /\ lost' = stale
  /\ UNCHANGED <<database, settings, calls, tasks, refresh, stale, trouble,
                 erased, late>>

SaveTranslation_Quiet ==   \* mutant: the result of the trimming is ignored
  /\ "translation" \in Writers
  /\ \E k \in TrimTo(row) \ {0} : row' = Trimmed(row, k)
  /\ stale' = TRUE
  /\ UNCHANGED <<created, stored, settings, calls, tasks, refresh, remote, lost,
                 trouble, erased, late>>
\* save_translation asks for a refresh only if its trimming deleted subtitles.
SaveTranslation ==
  /\ "translation" \in Writers
  /\ \E k \in TrimTo(row) \ {0} : row' = Trimmed(row, k)
  /\ stale' = TRUE
  /\ Ask("translation")
  /\ UNCHANGED <<created, stored, settings, calls, tasks, remote, lost, trouble,
                 erased, late>>

\* apply_storage_quota
ApplyStorageQuota ==
  /\ \E k \in TrimTo(row) \ {0} : row' = Trimmed(row, k)
  /\ Publish
  /\ UNCHANGED <<created, stored, settings, calls, tasks, refresh, remote,
                 trouble, erased, late>>

\* delete_subtitle_range, over the subtitles lo..hi
Erased_Text(r, c, S) == [r[c] EXCEPT !.text = @ \ S]   \* mutant: text only
Erased(r, c, S) ==
  IF r[c].text \cap S = {} THEN r[c]
  ELSE [r[c] EXCEPT !.text = @ \ S, !.summary = None, !.status = "idle",
                    !.request = None]

DeleteSubtitleRange(lo, hi) ==
  /\ lo <= hi /\ \A c \in Ids : erased[c] < MaxErasures
  /\ row' = [c \in Ids |-> Erased(row, c, lo..hi)]
  /\ erased' = [c \in Ids |-> IF row[c].text \cap lo..hi = {} THEN erased[c]
                                                           ELSE erased[c] + 1]
  /\ Publish
  /\ UNCHANGED <<created, stored, settings, calls, tasks, refresh, remote,
                 trouble, late>>

\* clear_subtitle_history and reset_after_history_clear
ClearSubtitleHistory ==
  /\ row' = [c \in Ids |-> IF row[c].state = "ended" THEN Absent
                           ELSE [row[c] EXCEPT !.text = {}]]
  /\ Publish
  /\ UNCHANGED <<created, stored, settings, calls, tasks, refresh, remote,
                 trouble, erased, late>>

-----------------------------------------------------------------------------
(* Conversations                                                           *)

ChangeSettings(s) ==
  /\ s # settings /\ Trouble
  /\ settings' = s
  /\ late' = IF s.auto THEN 0 ELSE late
  /\ UNCHANGED <<database, calls, tasks, catalog, erased>>

\* A handler reads the settings before its database operation runs.
BeginCall(kind) ==
  /\ calls = {}
  /\ calls' = {[kind |-> kind,
                ok |-> settings.configured /\ (kind = "create" => settings.auto)]}
  /\ UNCHANGED <<database, settings, tasks, catalog, trouble, erased, late>>

\* register_title
Registrable(r, c, regenerate) ==
  /\ r[c].state = "ended" /\ ~r[c].custom
  /\ r[c].summary = None \/ regenerate
  /\ r[c].status \notin Busy
  /\ r[c].text # {}

Registered(r, c) ==
  [r EXCEPT ![c].status = "pending", ![c].request = requests + 1]

\* The handler spawns the task, unless it was dropped with its connection
\* while the database operation ran.
Spawn(c, automatic) ==
  /\ requests < MaxRequests
  /\ requests' = requests + 1
  /\ \/ /\ jobs' = [jobs EXCEPT ![requests'] =
                      [NoJob EXCEPT !.at = "queued", !.conversation = c,
                                    !.automatic = automatic]]
        /\ UNCHANGED <<abandoned, trouble>>
     \/ /\ Trouble
        /\ abandoned' = abandoned \cup {requests'}
        /\ UNCHANGED jobs

CreateConversation ==
  \E call \in calls, c \in Ids :
    /\ call.kind = "create" /\ Active(c)
    /\ calls' = {}
    /\ IF row[c].text = {}
       THEN UNCHANGED <<row, created, tasks, trouble>>
       ELSE LET next  == [row EXCEPT ![c].state = "ended",
                                     ![created + 1] = Fresh]
                title == call.ok /\ Registrable(next, c, FALSE)
            IN  /\ created < MaxConversations
                /\ created' = created + 1
                /\ row' = IF title THEN Registered(next, c) ELSE next
                /\ IF title THEN Spawn(c, TRUE)
                            ELSE UNCHANGED <<tasks, trouble>>
    /\ Publish
    /\ UNCHANGED <<stored, settings, refresh, remote, erased, late>>

\* request_conversation_title; a conversation that is not there, is not ended
\* or has a custom title, one without text and a missing configuration are
\* refused without a change.
RequestTitle(c, regenerate) ==
  \E call \in calls :
    /\ call.kind = "title"
    /\ calls' = {}
    /\ LET needed == row[c].status \notin Busy
                     /\ (row[c].summary = None \/ regenerate)
       IN  IF row[c].state # "ended" \/ row[c].custom
              \/ (needed /\ (row[c].text = {} \/ ~call.ok))
           THEN UNCHANGED <<row, tasks, trouble, stale, lost>>
           ELSE /\ Publish
                /\ row' = IF needed THEN Registered(row, c) ELSE row
                /\ IF needed THEN Spawn(c, FALSE)
                             ELSE UNCHANGED <<tasks, trouble>>
    /\ UNCHANGED <<created, stored, settings, refresh, remote, erased, late>>

\* update_conversation: a custom title is set, kept or removed.
UpdateConversation(c, custom) ==
  /\ row[c].state # "absent"
  /\ row' = [row EXCEPT ![c].custom = custom]
  /\ Publish
  /\ UNCHANGED <<created, stored, settings, calls, tasks, refresh, remote,
                 trouble, erased, late>>

DeleteConversation_Bare(c) ==   \* mutant: no new active conversation
  /\ row[c].state # "absent"
  /\ row' = [row EXCEPT ![c] = Absent]
  /\ Publish
  /\ UNCHANGED <<created, stored, settings, calls, tasks, refresh, remote,
                 trouble, erased, late>>
DeleteConversation(c) ==
  /\ row[c].state # "absent"
  /\ IF Active(c)
     THEN /\ created < MaxConversations
          /\ created' = created + 1
          /\ row' = [row EXCEPT ![c] = Absent, ![created + 1] = Fresh]
     ELSE /\ row' = [row EXCEPT ![c] = Absent]
          /\ UNCHANGED created
  /\ Publish
  /\ UNCHANGED <<stored, settings, calls, tasks, refresh, remote, trouble,
                 erased, late>>

-----------------------------------------------------------------------------
(* Title tasks                                                             *)

\* The row still waits for the answer to this request.
Waiting(j) ==
  LET c == jobs[j].conversation
  IN  row[c].request = j /\ row[c].status \in Busy /\ row[c].state = "ended"

\* The task has ended, and its permit is back.
Done(j) == jobs' = [jobs EXCEPT ![j] = [NoJob EXCEPT !.at = "done"]]

\* finish_conversation_title
FinishTitle(j, ok) ==
  /\ LET c == jobs[j].conversation
     IN  row' = IF Waiting(j)
                THEN [row EXCEPT ![c] =
                        [@ EXCEPT !.summary = IF ok THEN jobs[j].input
                                                    ELSE row[c].summary,
                                  !.status = IF ok THEN "ready" ELSE "failed",
                                  !.request = None]]
                ELSE row
  /\ IF Waiting(j) THEN Publish ELSE UNCHANGED <<stale, lost>>

SlotFree_Always == TRUE   \* mutant: the permit is dropped at once
SlotFree == \A j \in Requests : jobs[j].at \notin {"checked", "asking"}

\* A slot of conversation_title_slots, then the settings.
AcquireSlot(j) ==
  /\ jobs[j].at = "queued" /\ SlotFree
  /\ jobs' = [jobs EXCEPT ![j] =
                [@ EXCEPT !.at = "checked",
                          !.enabled = jobs[j].automatic => settings.auto,
                          !.configured = settings.configured]]
  /\ UNCHANGED <<database, settings, calls, requests, abandoned, catalog,
                 trouble, erased, late>>

\* cancel_conversation_title
CancelTitle(j) ==
  /\ jobs[j].at = "checked" /\ ~jobs[j].enabled
  /\ LET c == jobs[j].conversation
     IN  row' = IF row[c].request = j /\ row[c].status = "pending"
                THEN [row EXCEPT ![c] =
                        [@ EXCEPT !.status = IF row[c].summary = None THEN "idle"
                                                                      ELSE "ready",
                                  !.request = None]]
                ELSE row
  /\ Publish
  /\ Done(j)
  /\ UNCHANGED <<created, stored, settings, calls, requests, abandoned,
                 refresh, remote, trouble, erased, late>>

RejectTitle(j) ==
  /\ jobs[j].at = "checked" /\ jobs[j].enabled /\ ~jobs[j].configured
  /\ FinishTitle(j, FALSE)
  /\ Done(j)
  /\ UNCHANGED <<created, stored, settings, calls, requests, abandoned,
                 refresh, remote, trouble, erased, late>>

\* The automatic requests sent while auto_generate is off.
Late(j) == IF jobs[j].automatic /\ ~settings.auto /\ late < 2 THEN late + 1
                                                            ELSE late

Asking(j, c) ==
  jobs' = [jobs EXCEPT ![j] = [@ EXCEPT !.at = "asking",
                                        !.text = row[c].text # {},
                                        !.input = erased[c]]]

\* start_conversation_title and conversation_title_input; the request goes out.
StartTitle(j) ==
  /\ jobs[j].at = "checked" /\ jobs[j].enabled /\ jobs[j].configured
  /\ LET c == jobs[j].conversation
     IN  IF Waiting(j) /\ row[c].status = "pending"
         THEN /\ row' = [row EXCEPT ![c].status = "running"]
              /\ Asking(j, c)
              /\ Publish
              /\ late' = Late(j)
         ELSE /\ Done(j)
              /\ UNCHANGED <<row, stale, lost, late>>
  /\ UNCHANGED <<created, stored, settings, calls, requests, abandoned,
                 refresh, remote, trouble, erased>>

\* The answer of the provider, its timeout (FALSE) or an empty input.
AnswerTitle(j, ok) ==
  /\ jobs[j].at = "asking" /\ (ok => jobs[j].text)
  /\ FinishTitle(j, ok)
  /\ Done(j)
  /\ UNCHANGED <<created, stored, settings, calls, requests, abandoned,
                 refresh, remote, trouble, erased, late>>

\* A panic or a database error ends the inner task, which frees its slot.
BreakTitle(j) ==
  /\ jobs[j].at \in {"checked", "asking"} /\ Trouble
  /\ jobs' = [jobs EXCEPT ![j].at = "failing"]
  /\ UNCHANGED <<database, settings, calls, requests, abandoned, catalog,
                 erased, late>>

\* ... after start_conversation_title, before the catalog is published.
BreakStartedTitle(j) ==
  /\ jobs[j].at = "checked" /\ jobs[j].enabled /\ jobs[j].configured
  /\ Waiting(j) /\ row[jobs[j].conversation].status = "pending" /\ Trouble
  /\ row' = [row EXCEPT ![jobs[j].conversation].status = "running"]
  /\ jobs' = [jobs EXCEPT ![j].at = "failing"]
  /\ stale' = TRUE
  /\ UNCHANGED <<created, stored, settings, calls, requests, abandoned,
                 refresh, remote, lost, erased, late>>

ReleaseTitle_None(j) ==   \* mutant: nobody waits for the inner task
  /\ jobs[j].at = "failing"
  /\ Done(j)
  /\ UNCHANGED <<database, settings, calls, requests, abandoned, catalog,
                 trouble, erased, late>>
\* The outer task of spawn releases what the inner one has left.
ReleaseTitle(j) ==
  /\ jobs[j].at = "failing"
  /\ \/ /\ FinishTitle(j, FALSE)
        /\ UNCHANGED <<abandoned, trouble>>
     \/ /\ Trouble
        /\ abandoned' = abandoned \cup {j}
        /\ lost' = stale
        /\ UNCHANGED <<row, stale>>
  /\ Done(j)
  /\ UNCHANGED <<created, stored, settings, calls, requests, refresh, remote,
                 erased, late>>

TitleStep(j) ==
  \/ CancelTitle(j) \/ RejectTitle(j) \/ StartTitle(j)
  \/ \E ok \in BOOLEAN : AnswerTitle(j, ok)
  \/ ReleaseTitle(j)

-----------------------------------------------------------------------------
(* The program quits and starts again                                      *)

Recovered_Not == row   \* mutant: nothing is recovered at startup
\* Database::migrate: interrupted titles have failed.
Recovered ==
  [c \in Ids |-> IF row[c].status \in Busy
                 THEN [row[c] EXCEPT !.status = "failed", !.request = None]
                 ELSE row[c]]

Restart ==
  /\ Trouble
  /\ row' = Recovered
  /\ jobs' = [j \in Requests |-> IF jobs[j].at = "none" THEN NoJob
                                 ELSE [NoJob EXCEPT !.at = "done"]]
  /\ calls' = {}
  /\ refresh' = [w \in Writers |-> [scheduled |-> FALSE, rebuilding |-> 0]]
  /\ remote' = "idle"
  /\ Publish
  /\ UNCHANGED <<created, stored, settings, requests, abandoned, erased, late>>

-----------------------------------------------------------------------------
Refresher == \E w \in Writers : FireRefresh(w) \/ Rebuild(w)

User ==
  \/ CreateConversation
  \/ \E kind \in {"create", "title"} : BeginCall(kind)
  \/ \E c \in Ids : \/ \E b \in BOOLEAN : RequestTitle(c, b)
                                           \/ UpdateConversation(c, b)
                     \/ DeleteConversation(c)
  \/ \E lo, hi \in 1..MaxSubtitles : DeleteSubtitleRange(lo, hi)
  \/ ClearSubtitleHistory
  \/ ApplyStorageQuota
  \/ \E auto, configured \in BOOLEAN :
       ChangeSettings([auto |-> auto, configured |-> configured])

Next ==
  \/ RecognizeSubtitle \/ RecordRemote \/ AnnounceRemote \/ RevokeRemote
  \/ SaveTranslation
  \/ User
  \/ \E j \in Requests :
       AcquireSlot(j) \/ TitleStep(j) \/ BreakTitle(j) \/ BreakStartedTitle(j)
  \/ Refresher
  \/ Restart

Spec == Init /\ [][Next]_vars

\* Tasks are scheduled, a provider answers or times out, and the slots are
\* handed out in the order they are asked for.
Fairness ==
  /\ \A j \in Requests : SF_vars(AcquireSlot(j)) /\ WF_vars(TitleStep(j))
  /\ \A w \in Writers : WF_vars(FireRefresh(w)) /\ WF_vars(Rebuild(w))

FairSpec == Spec /\ Fairness
-----------------------------------------------------------------------------
(* Properties                                                              *)

\* Every variable keeps its type, and one conversation at most is active
\* (conversations_single_active_idx) and every other is ended.
TypeOK ==
  /\ row \in [Ids -> Row]
  /\ created \in Ids /\ stored \in 0..MaxSubtitles
  /\ \E c \in Ids : \A d \in Ids : Active(d) <=> d = c
  /\ settings \in [auto : BOOLEAN, configured : BOOLEAN]
  /\ calls \subseteq [kind : {"create", "title"}, ok : BOOLEAN]
  /\ jobs \in [Requests -> Job] /\ requests \in 0..MaxRequests
  /\ refresh \in [Writers -> [scheduled : BOOLEAN,
                             rebuilding : 0..MaxRebuilds]]
  /\ remote \in {"idle", "stored"}
  /\ trouble \in 0..MaxTrouble
  /\ erased \in [Ids -> Nat]
  /\ {stale, lost} \subseteq BOOLEAN
  /\ abandoned \subseteq Requests
  /\ late \in 0..2

\* A title never tells of speech the user has deleted: whatever task was
\* running when delete_subtitle_range erased its conversation, the summary of
\* that conversation was made from text read after the last erasure.
NoErasedSpeech ==
  \A c \in Ids : row[c].summary # None => row[c].summary = erased[c]

Live(j) == jobs[j].at \in {"queued", "checked", "asking", "failing"}

\* A conversation shown as pending or running has one live task that will
\* release it, and its request id is that task's: a stale task finds another
\* id, or none.  (The exceptions are in abandoned.)
BusyHasTask ==
  \A c \in Ids :
    row[c].status \in Busy =>
      \E j \in Requests :
        /\ row[c].request = j
        /\ j \in abandoned \/ (Live(j) /\ jobs[j].conversation = c)

\* Turning auto_generate off stops automatic titles, except for the one task
\* that has read the settings already.
AutoOffLeaksAtMostOne == late <= 1

\* When the published catalog is behind the database, a rebuild that will see
\* the change is scheduled or running, or the writer is about to ask for one:
\* coalescing refreshes loses none.  (The exceptions are in lost.)
StaleIsNoticed ==
  stale =>
    \/ \E w \in Writers : refresh[w].scheduled \/ refresh[w].rebuilding > 0
    \/ remote = "stored"
    \/ \E j \in Requests : jobs[j].at = "failing"
    \/ lost

\* Trimming the history, failed regenerations, restarts and everything else
\* but an erasure by the user leave a conversation its summary.
SummaryKept ==
  [][\A c \in Ids :
       row[c].summary # None /\ row'[c].summary = None =>
         row'[c].state = "absent" \/ erased'[c] > erased[c]]_vars

\* A pending or running title is released: the task ends, whatever panics,
\* errors, settings, deletions and restarts it meets.
TitleSettles ==
  \A c \in Ids :
    row[c].status \in Busy ~> \/ row[c].status \notin Busy
                             \/ row[c].request \in abandoned

\* Title states are released even if a task panics (conversation_titles.rs),
\* so no conversation stays pending or running without a task.
BusyIsReleased ==
  \A c \in Ids : row[c].status \in Busy ~> row[c].status \notin Busy
=============================================================================
