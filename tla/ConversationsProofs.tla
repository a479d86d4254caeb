------------------------- MODULE ConversationsProofs -------------------------
(***************************************************************************)
(* The safety properties of Conversations, for any number of               *)
(* conversations, subtitles, title requests, erasures and faults.  The     *)
(* types come first; then what the steps of the users and the writers do   *)
(* to the rows, so that the invariants of the title tasks need only look   *)
(* at the steps of a title task; then the catalog.                         *)
(***************************************************************************)
EXTENDS Conversations, TLAPS

-----------------------------------------------------------------------------
(* Inductive invariants                                                    *)

\* The database: its types, ...
Tables ==
  /\ row \in [Ids -> Row] /\ erased \in [Ids -> Nat]
  /\ created \in Ids /\ stored \in 0..MaxSubtitles

\* ... no conversation before it is created, and one that is active.
Lifecycle ==
  /\ \A c \in Ids : c > created => row[c].state = "absent"
  /\ \A c \in Ids : row[c].state = "absent" => row[c].summary = None
  /\ \E c \in Ids : \A d \in Ids : Active(d) <=> d = c

TaskTypes ==
  /\ jobs \in [Requests -> Job] /\ requests \in 0..MaxRequests
  /\ abandoned \subseteq Requests

Others ==
  /\ settings \in [auto : BOOLEAN, configured : BOOLEAN]
  /\ calls \subseteq [kind : {"create", "title"}, ok : BOOLEAN]
  /\ refresh \in [Writers -> [scheduled : BOOLEAN,
                             rebuilding : 0..MaxRebuilds]]
  /\ remote \in {"idle", "stored"}
  /\ trouble \in 0..MaxTrouble /\ late \in 0..2

\* The provers want Booleans apart.
Flags == stale \in BOOLEAN /\ lost \in BOOLEAN

\* What a conversation waits for: a request that was registered, of a task
\* that will release it; one that has not started its request leaves the
\* conversation pending.
TitleInv ==
  /\ \A j \in Requests : j > requests => jobs[j].at = "none"
  /\ \A c \in Ids : row[c].request # None => row[c].request \in 1..requests
  /\ \A c \in Ids : row[c].status \in Busy <=> row[c].request # None
  /\ \A c \in Ids : row[c].status \in Busy => row[c].state = "ended"
  /\ \A j \in Requests :
       /\ jobs[j].at \in {"queued", "checked"}
       /\ row[jobs[j].conversation].request = j
       => row[jobs[j].conversation].status = "pending"
  /\ BusyHasTask

\* A summary, and the text a task will make one from, are newer than the last
\* erasure.
SummaryInv ==
  /\ NoErasedSpeech
  /\ \A j \in Requests :
       jobs[j].at = "asking" /\ row[jobs[j].conversation].request = j
         => jobs[j].input = erased[jobs[j].conversation]

TypeInv == Tables /\ Lifecycle /\ TaskTypes /\ Others /\ Flags

\* The type invariant is made of its parts.
LEMMA TypeParts == TypeInv => TypeOK
BY DEF TypeInv, Tables, Lifecycle, TaskTypes, Others, Flags, TypeOK

-----------------------------------------------------------------------------
(* Operators on the rows                                                   *)

\* The fields of a row.
LEMMA RowFields ==
  ASSUME NEW r \in Row
  PROVE  /\ r.state \in {"absent", "active", "ended"}
         /\ r.text \subseteq 1..MaxSubtitles
         /\ r.custom \in BOOLEAN
         /\ r.summary \in Nat \cup {None}
         /\ r.status \in {"idle", "pending", "running", "ready", "failed"}
         /\ r.request \in Requests \cup {None}
BY DEF Row

\* The rows a conversation has before it is created and when it begins.
LEMMA NewRows ==
  /\ Absent \in Row /\ Fresh \in Row
  /\ Absent.state = "absent" /\ Fresh.state = "active"
  /\ \A r \in {Absent, Fresh} :
       r.status = "idle" /\ r.request = None /\ r.summary = None /\ r.text = {}
<1>1. Absent \in Row
  BY DEF Absent, Row
<1>2. /\ Absent.state = "absent" /\ Absent.status = "idle" /\ Absent.text = {}
      /\ Absent.request = None /\ Absent.summary = None
  BY DEF Absent
<1>3. /\ Fresh \in Row /\ Fresh.state = "active"
      /\ Fresh.status = Absent.status /\ Fresh.text = Absent.text
      /\ Fresh.request = Absent.request /\ Fresh.summary = Absent.summary
  BY <1>1 DEF Fresh, Row
<1>. QED BY <1>1, <1>2, <1>3

\* Trimming takes text from a row, and the row if it is ended and has none
\* left.
SameTitle(t, r) ==
  /\ t.state = r.state /\ t.custom = r.custom /\ t.summary = r.summary
  /\ t.status = r.status /\ t.request = r.request

\* Which rows trimming leaves, and what of them.
LEMMA TrimmedRows ==
  ASSUME NEW r \in [Ids -> Row], NEW k
  PROVE  /\ Trimmed(r, k) \in [Ids -> Row]
         /\ \A c \in Ids :
              \/ r[c].state = "ended" /\ Trimmed(r, k)[c] = Absent
              \/ /\ SameTitle(Trimmed(r, k)[c], r[c])
                 /\ Trimmed(r, k)[c].text \subseteq r[c].text
<1>1. CASE k = 0
  BY <1>1 DEF Trimmed, SameTitle
<1>2. CASE k # 0
  <2>. DEFINE q == [c \in Ids |-> [r[c] EXCEPT !.text = @ \ (1..k)]]
  <2>1. Trimmed(r, k) = WithoutEmpty(q)
    BY <1>2 DEF Trimmed
  <2>2. \A c \in Ids : /\ q[c] \in Row /\ SameTitle(q[c], r[c])
                       /\ q[c].text \subseteq r[c].text
    BY DEF Row, SameTitle
  <2>3. \A c \in Ids : WithoutEmpty(q)[c] \in {q[c], Absent}
    BY DEF WithoutEmpty
  <2>4. \A c \in Ids : WithoutEmpty(q)[c] = q[c] \/ q[c].state = "ended"
    BY DEF WithoutEmpty
  <2>5. WithoutEmpty(q) = [c \in Ids |-> WithoutEmpty(q)[c]]
    BY DEF WithoutEmpty
  <2>. HIDE DEF q
  <2>6. WithoutEmpty(q) \in [Ids -> Row]
    BY <2>2, <2>3, <2>5, NewRows
  <2>. QED BY <2>1, <2>2, <2>3, <2>4, <2>6 DEF SameTitle
<1>. QED BY <1>1, <1>2

\* An erasure takes the title of every conversation whose text it touches.
LEMMA ErasedRow ==
  ASSUME NEW r \in [Ids -> Row], NEW c \in Ids, NEW S
  PROVE  /\ Erased(r, c, S) \in Row
         /\ Erased(r, c, S).state = r[c].state
         /\ r[c].text \cap S = {} => Erased(r, c, S) = r[c]
         /\ r[c].text \cap S # {} =>
              /\ Erased(r, c, S).status = "idle"
              /\ Erased(r, c, S).request = None
              /\ Erased(r, c, S).summary = None
BY DEF Erased, Row

-----------------------------------------------------------------------------
(* Types                                                                   *)

\* The first state has its types.
LEMMA TypeInit == Init => TypeInv
<1>. SUFFICES ASSUME Init PROVE TypeInv
  OBVIOUS
<1>1. 1 \in Ids /\ Ids \subseteq Nat
  BY ConversationsAssumption DEF Ids
<1>2. row \in [Ids -> Row] /\ \A c \in Ids : row[c] = IF c = 1 THEN Fresh ELSE Absent
  BY NewRows DEF Init
<1>3. Tables
  BY <1>1, <1>2, ConversationsAssumption DEF Init, Tables
<1>4. Lifecycle
  BY <1>1, <1>2, NewRows DEF Init, Lifecycle, Active
<1>5. NoJob \in Job
  BY <1>1 DEF NoJob, Job
<1>6. TaskTypes
  BY <1>5, ConversationsAssumption DEF Init, TaskTypes
<1>7. refresh \in [Writers -> [scheduled : BOOLEAN, rebuilding : 0..MaxRebuilds]]
  BY ConversationsAssumption DEF Init
<1>8. MaxTrouble \in Nat
  BY ConversationsAssumption
<1>9. Others
  BY <1>7, <1>8 DEF Init, Others
<1>10. Flags
  BY DEF Init, Flags
<1>. QED BY <1>3, <1>4, <1>6, <1>9, <1>10 DEF TypeInv

-----------------------------------------------------------------------------
(* What the steps of the users and the writers do to the rows              *)

\* The rows after a step: well-typed, and no conversation begins in it.
RowsKeep ==
  /\ row' \in [Ids -> Row] /\ created' = created
  /\ erased' \in [Ids -> Nat] /\ stored' \in 0..MaxSubtitles
  /\ \A c \in Ids :
       \/ row'[c].state = row[c].state
       \/ row'[c].state = "absent" /\ row[c].state = "ended"
  /\ \A c \in Ids : row'[c].state = "absent" =>
       \/ row'[c].summary = None
       \/ row[c].state = "absent" /\ row'[c].summary = row[c].summary

\* A conversation keeps its title, and what its title task waits for ...
TitleKept(c) ==
  /\ row'[c].state = row[c].state \/ row'[c].state = "ended"
  /\ row'[c].summary = row[c].summary
  /\ row'[c].status = row[c].status /\ row'[c].request = row[c].request
  /\ erased'[c] = erased[c]

\* ... or loses both, for a reason.
TitleGone(c) ==
  /\ row'[c].status = "idle" /\ row'[c].request = None
  /\ row'[c].summary = None
  /\ \/ row[c].summary = None
     \/ row'[c].state = "absent"
     \/ erased'[c] > erased[c]

Quiet ==
  UNCHANGED tasks /\ \A c \in Ids : TitleKept(c) \/ TitleGone(c)

\* Such a step leaves the same conversation active.
LEMMA KeepLifecycle ==
  ASSUME Tables, Lifecycle, RowsKeep
  PROVE  Tables' /\ Lifecycle'
<1>1. Tables'
  BY DEF Tables, RowsKeep
<1>2. \A c \in Ids : row'[c].state = "absent" => row'[c].summary = None
  <2>. SUFFICES ASSUME NEW c \in Ids, row'[c].state = "absent",
                       row'[c].summary # None
                PROVE  FALSE
    OBVIOUS
  <2>1. row[c].state = "absent" /\ row'[c].summary = row[c].summary
    BY DEF RowsKeep
  <2>. QED BY <2>1 DEF Lifecycle
<1>3. \A c \in Ids : c > created' => row'[c].state = "absent"
  BY DEF Lifecycle, RowsKeep
<1>4. \A c \in Ids : Active(c)' <=> Active(c)
  BY DEF RowsKeep, Active
<1>. QED BY <1>1, <1>2, <1>3, <1>4 DEF Lifecycle

\* A subtitle joins the active conversation, and the oldest may go.
LEMMA AddRows ==
  ASSUME Tables, AddSubtitle, UNCHANGED <<erased, tasks>>
  PROVE  RowsKeep /\ Quiet
<1>1. PICK c \in Ids :
        /\ Active(c)
        /\ \E k \in TrimTo([row EXCEPT ![c].text = @ \cup {stored'}]) :
             row' = Trimmed([row EXCEPT ![c].text = @ \cup {stored'}], k)
  BY DEF AddSubtitle
<1>. DEFINE r == [row EXCEPT ![c].text = @ \cup {stored'}]
<1>2. stored' \in 1..MaxSubtitles
  BY ConversationsAssumption DEF Tables, AddSubtitle
<1>3. r \in [Ids -> Row] /\ \A d \in Ids : SameTitle(r[d], row[d])
  BY <1>2 DEF Tables, Row, SameTitle
<1>4. PICK k : row' = Trimmed(r, k)
  BY <1>1
<1>. HIDE DEF r
<1>5. /\ row' \in [Ids -> Row]
      /\ \A d \in Ids : \/ r[d].state = "ended" /\ row'[d] = Absent
                        \/ SameTitle(row'[d], r[d])
  BY <1>3, <1>4, TrimmedRows
<1>6. \A d \in Ids : \/ row[d].state = "ended" /\ row'[d] = Absent
                     \/ SameTitle(row'[d], row[d])
  BY <1>3, <1>5 DEF SameTitle
<1>7. RowsKeep
  <2>1. created' = created /\ stored' \in 0..MaxSubtitles
        /\ erased' \in [Ids -> Nat]
    BY <1>2 DEF AddSubtitle, Tables
  <2>. QED BY <1>5, <1>6, <2>1, NewRows DEF RowsKeep, SameTitle
<1>8. \A d \in Ids : TitleKept(d) \/ TitleGone(d)
  BY <1>6, NewRows DEF TitleKept, TitleGone, SameTitle
<1>. QED BY <1>7, <1>8 DEF Quiet

\* Trimming the stored history.
LEMMA TrimRows ==
  ASSUME Tables, NEW k, row' = Trimmed(row, k),
         UNCHANGED <<created, stored, erased, tasks>>
  PROVE  RowsKeep /\ Quiet
<1>1. /\ row' \in [Ids -> Row]
      /\ \A d \in Ids : \/ row[d].state = "ended" /\ row'[d] = Absent
                        \/ SameTitle(row'[d], row[d])
  BY TrimmedRows DEF Tables
<1>2. RowsKeep
  BY <1>1, NewRows DEF RowsKeep, Tables, SameTitle
<1>3. \A d \in Ids : TitleKept(d) \/ TitleGone(d)
  BY <1>1, NewRows DEF TitleKept, TitleGone, SameTitle
<1>. QED BY <1>2, <1>3 DEF Quiet

\* The user erases subtitles.
LEMMA DeleteRangeRows ==
  ASSUME Tables, NEW lo, NEW hi, DeleteSubtitleRange(lo, hi)
  PROVE  RowsKeep /\ Quiet
<1>1. /\ row' = [c \in Ids |-> Erased(row, c, lo..hi)]
      /\ erased' = [c \in Ids |->
           IF row[c].text \cap lo..hi = {} THEN erased[c] ELSE erased[c] + 1]
      /\ UNCHANGED <<created, stored, tasks>>
  BY DEF DeleteSubtitleRange
<1>2. row \in [Ids -> Row]
  BY DEF Tables
<1>3. \A c \in Ids :
        /\ row'[c] = Erased(row, c, lo..hi)
        /\ row'[c] \in Row /\ row'[c].state = row[c].state
        /\ row[c].text \cap lo..hi = {} => row'[c] = row[c]
        /\ row[c].text \cap lo..hi # {} =>
             /\ row'[c].status = "idle" /\ row'[c].request = None
             /\ row'[c].summary = None
  <2>. DEFINE S == lo..hi
  <2>. SUFFICES ASSUME NEW c \in Ids
                PROVE  /\ row'[c] = Erased(row, c, S)
                       /\ row'[c] \in Row /\ row'[c].state = row[c].state
                       /\ row[c].text \cap S = {} => row'[c] = row[c]
                       /\ row[c].text \cap S # {} =>
                            /\ row'[c].status = "idle"
                            /\ row'[c].request = None
                            /\ row'[c].summary = None
    OBVIOUS
  <2>1. row'[c] = Erased(row, c, S)
    BY <1>1
  <2>. HIDE DEF S
  <2>. QED BY <1>2, <2>1, ErasedRow
<1>4. \A c \in Ids :
        /\ erased'[c] \in Nat
        /\ row[c].text \cap lo..hi = {} => erased'[c] = erased[c]
        /\ row[c].text \cap lo..hi # {} => erased'[c] > erased[c]
  BY <1>1 DEF Tables
<1>5. row' \in [Ids -> Row] /\ erased' \in [Ids -> Nat]
  <2>1. row' = [c \in Ids |-> row'[c]] /\ erased' = [c \in Ids |-> erased'[c]]
    BY <1>1
  <2>. QED BY <1>3, <1>4, <2>1
<1>6. RowsKeep
  BY <1>1, <1>3, <1>5 DEF RowsKeep, Tables
<1>7. \A c \in Ids : TitleKept(c) \/ TitleGone(c)
  BY <1>3, <1>4 DEF TitleKept, TitleGone
<1>. QED BY <1>1, <1>6, <1>7 DEF Quiet

\* The user clears the history.
LEMMA ClearRows ==
  ASSUME Tables, ClearSubtitleHistory
  PROVE  RowsKeep /\ Quiet
<1>1. \A c \in Ids :
        /\ row'[c] \in Row
        /\ \/ row[c].state = "ended" /\ row'[c] = Absent
           \/ SameTitle(row'[c], row[c])
  BY NewRows DEF ClearSubtitleHistory, Tables, SameTitle, Row
<1>2. row' \in [Ids -> Row]
  <2>1. row' = [c \in Ids |-> row'[c]]
    BY DEF ClearSubtitleHistory
  <2>. QED BY <1>1, <2>1
<1>3. UNCHANGED <<created, stored, erased, tasks>>
  BY DEF ClearSubtitleHistory
<1>4. RowsKeep
  BY <1>1, <1>2, <1>3, NewRows DEF RowsKeep, Tables, SameTitle
<1>5. \A d \in Ids : TitleKept(d) \/ TitleGone(d)
  BY <1>1, <1>3, NewRows DEF TitleKept, TitleGone, SameTitle
<1>. QED BY <1>3, <1>4, <1>5 DEF Quiet

\* The user sets or removes a custom title.
LEMMA UpdateRows ==
  ASSUME Tables, NEW c \in Ids, NEW b \in BOOLEAN, UpdateConversation(c, b)
  PROVE  RowsKeep /\ Quiet
<1>1. UNCHANGED <<created, stored, erased, tasks>>
  BY DEF UpdateConversation
<1>2. row' = [row EXCEPT ![c].custom = b] /\ row \in [Ids -> Row]
  BY DEF UpdateConversation, Tables
<1>3. row' \in [Ids -> Row]
  BY <1>2 DEF Row
<1>4. \A d \in Ids : /\ row'[d].state = row[d].state
                     /\ row'[d].summary = row[d].summary
                     /\ row'[d].status = row[d].status
                     /\ row'[d].request = row[d].request
  BY <1>2 DEF Row
<1>5. RowsKeep
  BY <1>1, <1>3, <1>4 DEF RowsKeep, Tables
<1>. QED BY <1>1, <1>4, <1>5 DEF Quiet, TitleKept

\* The user deletes a conversation; another one begins if it was active.
LEMMA DeleteRows ==
  ASSUME Tables, Lifecycle, NEW c \in Ids, DeleteConversation(c)
  PROVE  Tables' /\ Lifecycle' /\ Quiet
<1>0. /\ row \in [Ids -> Row] /\ created \in Ids /\ Ids = 1..MaxConversations
      /\ UNCHANGED <<stored, erased, tasks>> /\ MaxConversations \in Nat
  BY ConversationsAssumption DEF Tables, DeleteConversation, Ids
<1>1. CASE Active(c)
  <2>1. /\ created + 1 \in Ids /\ created' = created + 1 /\ c # created + 1
        /\ row' = [row EXCEPT ![c] = Absent, ![created + 1] = Fresh]
    BY <1>0, <1>1 DEF DeleteConversation, Lifecycle, Active
  <2>2. /\ row' \in [Ids -> Row]
        /\ row'[created + 1] = Fresh /\ row'[c] = Absent
        /\ \A d \in Ids \ {c, created + 1} : row'[d] = row[d]
    BY <1>0, <2>1, NewRows
  <2>3. Tables'
    BY <1>0, <2>1, <2>2 DEF Tables
  <2>4. \A d \in Ids : Active(d)' <=> d = created + 1
    BY <1>1, <2>1, <2>2, NewRows DEF Lifecycle, Active
  <2>5. row[created + 1].summary = None
    BY <1>0, <2>1 DEF Lifecycle
  <2>6. Lifecycle'
    <3>1. \A d \in Ids : d > created' => row'[d].state = "absent"
      BY <1>0, <2>1, <2>2, NewRows DEF Lifecycle
    <3>2. \A d \in Ids : row'[d].state = "absent" => row'[d].summary = None
      BY <1>0, <2>1, <2>2, NewRows DEF Lifecycle
    <3>. QED BY <2>1, <2>4, <3>1, <3>2 DEF Lifecycle
  <2>7. \A d \in Ids : TitleKept(d) \/ TitleGone(d)
    BY <1>0, <2>2, <2>5, NewRows DEF TitleKept, TitleGone
  <2>. QED BY <1>0, <2>3, <2>6, <2>7 DEF Quiet
<1>2. CASE ~Active(c)
  <2>1. created' = created /\ row' = [row EXCEPT ![c] = Absent]
    BY <1>2 DEF DeleteConversation
  <2>2. /\ row' \in [Ids -> Row] /\ row'[c] = Absent
        /\ \A d \in Ids \ {c} : row'[d] = row[d]
    BY <1>0, <2>1, NewRows
  <2>3. row[c].state = "ended"
    BY <1>0, <1>2, RowFields DEF DeleteConversation, Active
  <2>4. RowsKeep
    BY <1>0, <2>1, <2>2, <2>3, NewRows DEF RowsKeep, Tables
  <2>5. \A d \in Ids : TitleKept(d) \/ TitleGone(d)
    BY <1>0, <2>2, NewRows DEF TitleKept, TitleGone
  <2>. QED BY <1>0, <2>4, <2>5, KeepLifecycle DEF Quiet
<1>. QED BY <1>1, <1>2

-----------------------------------------------------------------------------
(* What the steps of a title task do to the rows                           *)

\* Only what the title task of c waits for, and its title, changes.
TitleOf(c) ==
  /\ row' \in [Ids -> Row] /\ row'[c].state = row[c].state
  /\ \A d \in Ids \ {c} : row'[d] = row[d]
  /\ UNCHANGED <<created, stored, erased>>

\* A title task's step on its row keeps the tables and one active row.
LEMMA TitleRows ==
  ASSUME Tables, Lifecycle, NEW c \in Ids, TitleOf(c),
         row[c].state = "ended" \/ row'[c].summary = row[c].summary
  PROVE  Tables' /\ Lifecycle'
<1>1. RowsKeep
  BY DEF RowsKeep, TitleOf, Tables
<1>. QED BY <1>1, KeepLifecycle

\* register_title
LEMMA RegisteredRow ==
  ASSUME NEW r \in [Ids -> Row], NEW c \in Ids, requests + 1 \in Requests
  PROVE  /\ Registered(r, c) \in [Ids -> Row]
         /\ Registered(r, c)[c].status = "pending"
         /\ Registered(r, c)[c].request = requests + 1
         /\ Registered(r, c)[c].state = r[c].state
         /\ Registered(r, c)[c].summary = r[c].summary
         /\ \A d \in Ids \ {c} : Registered(r, c)[d] = r[d]
BY ZenonT(30) DEF Registered, Row

\* A task that is spawned is a new one.
LEMMA SpawnedJob ==
  ASSUME TaskTypes, NEW c \in Ids, NEW b \in BOOLEAN, Spawn(c, b)
  PROVE  /\ requests' = requests + 1 /\ requests + 1 \in Requests
         /\ requests' \in 0..MaxRequests
         /\ \/ /\ abandoned' = abandoned
               /\ jobs' \in [Requests -> Job]
               /\ jobs'[requests + 1].at = "queued"
               /\ jobs'[requests + 1].conversation = c
               /\ \A j \in Requests \ {requests + 1} : jobs'[j] = jobs[j]
            \/ abandoned' = abandoned \cup {requests + 1} /\ jobs' = jobs
<1>1. MaxRequests \in Nat
  BY ConversationsAssumption
<1>2. /\ requests' = requests + 1 /\ requests + 1 \in Requests
      /\ requests' \in 0..MaxRequests
  BY <1>1 DEF Spawn, TaskTypes, Requests
<1>. DEFINE new == [NoJob EXCEPT !.at = "queued", !.conversation = c,
                                 !.automatic = b]
<1>3. new \in Job /\ new.at = "queued" /\ new.conversation = c
  BY DEF NoJob, Job
<1>4. \/ abandoned' = abandoned /\ jobs' = [jobs EXCEPT ![requests'] = new]
      \/ abandoned' = abandoned \cup {requests'} /\ jobs' = jobs
  BY DEF Spawn
<1>. HIDE DEF new
<1>. QED BY <1>2, <1>3, <1>4 DEF TaskTypes

\* The job of a request, and its conversation.
LEMMA JobFields ==
  ASSUME TaskTypes, NEW j \in Requests
  PROVE  /\ jobs[j] \in Job /\ jobs[j].conversation \in Ids
         /\ jobs[j].input \in Nat
BY DEF TaskTypes, Job

\* A task that ends.
LEMMA DoneJob ==
  ASSUME TaskTypes, NEW j \in Requests, Done(j)
  PROVE  /\ jobs' \in [Requests -> Job] /\ jobs'[j].at = "done"
         /\ \A i \in Requests \ {j} : jobs'[i] = jobs[i]
<1>1. 1 \in Ids
  BY ConversationsAssumption DEF Ids
<1>2. [NoJob EXCEPT !.at = "done"] \in Job
      /\ [NoJob EXCEPT !.at = "done"].at = "done"
  BY <1>1 DEF NoJob, Job
<1>. QED BY <1>2 DEF Done, TaskTypes

\* finish_conversation_title
LEMMA FinishRows ==
  ASSUME Tables, TaskTypes, NEW j \in Requests, NEW ok \in BOOLEAN,
         FinishTitle(j, ok), UNCHANGED <<created, stored, erased>>
  PROVE  LET c == jobs[j].conversation
         IN  /\ TitleOf(c)
             /\ ~Waiting(j) => row' = row /\ UNCHANGED <<stale, lost>>
             /\ Waiting(j) =>
                  /\ row[c].state = "ended"
                  /\ row'[c].status \in {"ready", "failed"}
                  /\ row'[c].request = None
                  /\ row'[c].summary = IF ok THEN jobs[j].input
                                             ELSE row[c].summary
                  /\ stale' = FALSE /\ lost' = FALSE
<1>. DEFINE c == jobs[j].conversation
<1>1. c \in Ids /\ jobs[j].input \in Nat /\ row \in [Ids -> Row]
  BY JobFields DEF Tables
<1>2. CASE ~Waiting(j)
  BY <1>1, <1>2 DEF FinishTitle, TitleOf
<1>3. CASE Waiting(j)
  <2>. DEFINE new == [row[c] EXCEPT
                  !.summary = IF ok THEN jobs[j].input ELSE row[c].summary,
                  !.status = IF ok THEN "ready" ELSE "failed",
                  !.request = None]
  <2>1. row' = [row EXCEPT ![c] = new]
    BY <1>3 DEF FinishTitle
  <2>2. row[c] \in Row /\ row[c].state = "ended"
    BY <1>1, <1>3 DEF Waiting
  <2>. HIDE DEF c
  <2>3. (IF ok THEN jobs[j].input ELSE row[c].summary) \in Nat \cup {None}
        /\ (IF ok THEN "ready" ELSE "failed") \in {"ready", "failed"}
    BY <1>1, <2>2, RowFields
  <2>4. /\ new \in Row /\ new.state = row[c].state
        /\ new.status \in {"ready", "failed"} /\ new.request = None
        /\ new.summary = IF ok THEN jobs[j].input ELSE row[c].summary
    BY <2>2, <2>3 DEF Row
  <2>. HIDE DEF new
  <2>5. stale' = FALSE /\ lost' = FALSE
    BY <1>3 DEF FinishTitle, Publish
  <2>. QED BY <1>1, <1>3, <2>1, <2>2, <2>4, <2>5 DEF TitleOf, c
<1>. QED BY <1>2, <1>3

\* cancel_conversation_title
LEMMA CancelRows ==
  ASSUME Tables, TaskTypes, NEW j \in Requests, CancelTitle(j)
  PROVE  LET c == jobs[j].conversation
         IN  /\ TitleOf(c) /\ row'[c].summary = row[c].summary
             /\ IF row[c].request = j /\ row[c].status = "pending"
                THEN row'[c].status \in {"idle", "ready"} /\ row'[c].request = None
                ELSE row' = row
<1>. DEFINE c == jobs[j].conversation
<1>1. c \in Ids /\ row \in [Ids -> Row] /\ UNCHANGED <<created, stored, erased>>
  BY JobFields DEF Tables, CancelTitle
<1>2. CASE ~(row[c].request = j /\ row[c].status = "pending")
  BY <1>1, <1>2 DEF CancelTitle, TitleOf
<1>3. CASE row[c].request = j /\ row[c].status = "pending"
  <2>. DEFINE next == IF row[c].summary = None THEN "idle" ELSE "ready"
              new == [row[c] EXCEPT !.status = next, !.request = None]
  <2>1. row' = [row EXCEPT ![c] = new]
    BY <1>3 DEF CancelTitle
  <2>2. next \in {"idle", "ready"}
    OBVIOUS
  <2>. HIDE DEF c, next
  <2>3. /\ new \in Row /\ new.state = row[c].state
        /\ new.status \in {"idle", "ready"} /\ new.request = None
        /\ new.summary = row[c].summary
    BY <1>1, <2>2 DEF Row
  <2>. HIDE DEF new
  <2>. QED BY <1>1, <1>3, <2>1, <2>3 DEF TitleOf, c
<1>. QED BY <1>2, <1>3

\* start_conversation_title
LEMMA StartRows ==
  ASSUME Tables, TaskTypes, NEW j \in Requests,
         row' = [row EXCEPT ![jobs[j].conversation].status = "running"],
         UNCHANGED <<created, stored, erased>>
  PROVE  LET c == jobs[j].conversation
         IN  /\ TitleOf(c) /\ row'[c].summary = row[c].summary
             /\ row'[c].status = "running" /\ row'[c].request = row[c].request
<1>1. jobs[j].conversation \in Ids /\ row \in [Ids -> Row]
  BY JobFields DEF Tables
<1>. QED BY <1>1 DEF TitleOf, Row

\* The next start of the program.
LEMMA RestartRows ==
  ASSUME Tables, Restart
  PROVE  /\ RowsKeep
         /\ \A c \in Ids :
              /\ row'[c].summary = row[c].summary
              /\ \/ row[c].status \notin Busy /\ row'[c] = row[c]
                 \/ row'[c].status = "failed" /\ row'[c].request = None
<1>1. row \in [Ids -> Row] /\ row' = Recovered
  BY DEF Tables, Restart
<1>2. \A c \in Ids :
        /\ row'[c] \in Row /\ row'[c].state = row[c].state
        /\ row'[c].summary = row[c].summary
        /\ \/ row[c].status \notin Busy /\ row'[c] = row[c]
           \/ row'[c].status = "failed" /\ row'[c].request = None
  BY ZenonT(30), <1>1 DEF Recovered, Row
<1>3. row' = [c \in Ids |-> row'[c]]
  BY <1>1 DEF Recovered
<1>4. row' \in [Ids -> Row]
  BY <1>2, <1>3
<1>. QED BY <1>2, <1>4 DEF RowsKeep, Restart, Tables

\* A title is asked for: the conversation waits for a new request.
Registers(c) ==
  /\ \E b \in BOOLEAN : Spawn(c, b)
  /\ row'[c].state = "ended" /\ row'[c].status = "pending"
  /\ row'[c].request = requests + 1
  /\ row'[c].summary = row[c].summary /\ erased'[c] = erased[c]
  /\ \A d \in Ids \ {c} : TitleKept(d) \/ TitleGone(d)

\* The user ends the active conversation.
LEMMA CreateRows ==
  ASSUME Tables, Lifecycle, TaskTypes, CreateConversation
  PROVE  Tables' /\ Lifecycle' /\ (Quiet \/ \E c \in Ids : Registers(c))
<1>0. /\ row \in [Ids -> Row] /\ created \in Ids /\ Ids = 1..MaxConversations
      /\ UNCHANGED <<stored, erased>> /\ MaxConversations \in Nat
  BY ConversationsAssumption DEF Tables, CreateConversation, Ids
<1>1. PICK call \in calls, c \in Ids :
        /\ Active(c)
        /\ IF row[c].text = {}
           THEN UNCHANGED <<row, created, tasks, trouble>>
           ELSE LET next  == [row EXCEPT ![c].state = "ended",
                                         ![created + 1] = Fresh]
                    title == call.ok /\ Registrable(next, c, FALSE)
                IN  /\ created < MaxConversations
                    /\ created' = created + 1
                    /\ row' = IF title THEN Registered(next, c) ELSE next
                    /\ IF title THEN Spawn(c, TRUE)
                                ELSE UNCHANGED <<tasks, trouble>>
  BY DEF CreateConversation
<1>2. CASE row[c].text = {}
  <2>1. RowsKeep /\ Quiet
    BY <1>0, <1>1, <1>2 DEF RowsKeep, Quiet, TitleKept, Tables
  <2>. QED BY <2>1, KeepLifecycle
<1>3. CASE row[c].text # {}
  <2>. DEFINE next == [row EXCEPT ![c].state = "ended",
                                  ![created + 1] = Fresh]
              title == call.ok /\ Registrable(next, c, FALSE)
  <2>1. /\ created + 1 \in Ids /\ created' = created + 1
        /\ row' = IF title THEN Registered(next, c) ELSE next
        /\ IF title THEN Spawn(c, TRUE) ELSE UNCHANGED <<tasks, trouble>>
    <3>1. created < MaxConversations /\ created' = created + 1
      BY <1>1, <1>3
    <3>2. /\ row' = IF title THEN Registered(next, c) ELSE next
          /\ IF title THEN Spawn(c, TRUE) ELSE UNCHANGED <<tasks, trouble>>
      BY <1>1, <1>3
    <3>3. created + 1 \in Ids
      BY <1>0, <3>1
    <3>. HIDE DEF next, title
    <3>. QED BY <3>1, <3>2, <3>3
  <2>2. c # created + 1
    BY <1>0, <1>1, <2>1 DEF Lifecycle, Active
  <2>3. /\ next \in [Ids -> Row] /\ next[created + 1] = Fresh
        /\ next[c].state = "ended" /\ next[c].summary = row[c].summary
        /\ next[c].status = row[c].status /\ next[c].request = row[c].request
        /\ \A d \in Ids \ {c, created + 1} : next[d] = row[d]
    BY ZenonT(30), <1>0, <2>1, <2>2, NewRows DEF Row
  <2>. HIDE DEF next
  <2>4. \/ row' = next /\ UNCHANGED tasks
        \/ row' = Registered(next, c) /\ Spawn(c, TRUE)
    BY <2>1
  <2>5. ASSUME row' = Registered(next, c), Spawn(c, TRUE)
        PROVE  /\ row' \in [Ids -> Row]
               /\ row'[c].status = "pending" /\ row'[c].request = requests + 1
               /\ row'[c].state = next[c].state
               /\ row'[c].summary = next[c].summary
               /\ \A d \in Ids \ {c} : row'[d] = next[d]
    <3>1. requests + 1 \in Requests
      BY <2>5, SpawnedJob
    <3>. QED BY <2>3, <2>5, <3>1, RegisteredRow
  <2>6. /\ row' \in [Ids -> Row] /\ row'[created + 1] = Fresh
        /\ row'[c].state = "ended" /\ row'[c].summary = row[c].summary
        /\ \A d \in Ids \ {c, created + 1} : row'[d] = row[d]
    <3>1. CASE row' = next
      BY <2>3, <3>1
    <3>2. CASE row' = Registered(next, c) /\ Spawn(c, TRUE)
      <4>1. created + 1 \in Ids \ {c}
        BY <2>1, <2>2
      <4>. QED BY <2>3, <2>5, <3>2, <4>1
    <3>. QED BY <2>4, <3>1, <3>2
  <2>7. Tables'
    BY <1>0, <2>1, <2>6 DEF Tables
  <2>8. Lifecycle'
    <3>0. Active(c) /\ \A d \in Ids : Active(d) <=> d = c
      BY <1>1 DEF Lifecycle
    <3>1. \A d \in Ids : Active(d)' <=> d = created + 1
      BY <2>6, <3>0, NewRows DEF Active
    <3>4. c <= created
      BY <1>0, <3>0 DEF Lifecycle, Active
    <3>2. \A d \in Ids : d > created' => row'[d].state = "absent"
      <4>1. \A d \in Ids : d > created => row[d].state = "absent"
        BY DEF Lifecycle
      <4>2. \A d \in Ids : d > created + 1 =>
                             d > created /\ d # c /\ d # created + 1
        BY <1>0, <3>4
      <4>. QED BY <2>1, <2>6, <4>1, <4>2
    <3>3. \A d \in Ids : row'[d].state = "absent" => row'[d].summary = None
      BY <2>6, NewRows DEF Lifecycle
    <3>. QED BY <2>1, <3>1, <3>2, <3>3 DEF Lifecycle
  <2>9. row[created + 1].summary = None
    BY <1>0, <2>1 DEF Lifecycle
  <2>10. \A d \in Ids \ {c} : TitleKept(d) \/ TitleGone(d)
    BY <1>0, <2>6, <2>9, NewRows DEF TitleKept, TitleGone
  <2>11. CASE row' = next /\ UNCHANGED tasks
    BY <1>0, <2>3, <2>7, <2>8, <2>10, <2>11 DEF Quiet, TitleKept
  <2>12. CASE row' = Registered(next, c) /\ Spawn(c, TRUE)
    BY <1>0, <2>5, <2>6, <2>7, <2>8, <2>10, <2>12 DEF Registers
  <2>. QED BY <2>4, <2>11, <2>12
<1>. QED BY <1>2, <1>3

\* The user asks for a title.
LEMMA RequestRows ==
  ASSUME Tables, Lifecycle, TaskTypes, NEW c \in Ids, NEW b \in BOOLEAN,
         RequestTitle(c, b)
  PROVE  Tables' /\ Lifecycle' /\ (Quiet \/ Registers(c))
<1>1. /\ row \in [Ids -> Row] /\ UNCHANGED <<created, stored, erased>>
  BY DEF Tables, RequestTitle
<1>2. \/ UNCHANGED <<row, tasks>>
      \/ row[c].state = "ended" /\ row' = Registered(row, c) /\ Spawn(c, FALSE)
  BY DEF RequestTitle
<1>3. CASE UNCHANGED <<row, tasks>>
  <2>1. RowsKeep /\ Quiet
    BY <1>1, <1>3 DEF RowsKeep, Quiet, TitleKept, Tables
  <2>. QED BY <2>1, KeepLifecycle
<1>4. CASE row[c].state = "ended" /\ row' = Registered(row, c) /\ Spawn(c, FALSE)
  <2>1. /\ TitleOf(c) /\ row'[c].summary = row[c].summary
        /\ row'[c].status = "pending" /\ row'[c].request = requests + 1
    BY <1>1, <1>4, SpawnedJob, RegisteredRow DEF TitleOf
  <2>2. \A d \in Ids \ {c} : TitleKept(d)
    BY <1>1, <2>1 DEF TitleOf, TitleKept
  <2>3. Registers(c)
    BY <1>1, <1>4, <2>1, <2>2 DEF Registers, TitleOf
  <2>. QED BY <2>1, <2>3, TitleRows
<1>. QED BY <1>2, <1>3, <1>4

-----------------------------------------------------------------------------
(* What a step does                                                        *)

\* A step of the title task j.
JobStep(j) ==
  \/ AcquireSlot(j) \/ CancelTitle(j) \/ RejectTitle(j) \/ StartTitle(j)
  \/ \E ok \in BOOLEAN : AnswerTitle(j, ok)
  \/ BreakTitle(j) \/ BreakStartedTitle(j) \/ ReleaseTitle(j)

\* Every step leaves the titles and their tasks alone, registers a request, is
\* one of a title task, or restarts the program.
LEMMA NextKinds ==
  ASSUME TypeInv, [Next]_vars
  PROVE  \/ Tables' /\ Lifecycle' /\ Quiet
         \/ Tables' /\ Lifecycle' /\ \E c \in Ids : Registers(c)
         \/ \E j \in Requests : JobStep(j)
         \/ Restart
<1>0. Tables /\ Lifecycle /\ TaskTypes
  BY DEF TypeInv
<1>1. ASSUME RowsKeep, Quiet PROVE Tables' /\ Lifecycle' /\ Quiet
  BY <1>0, <1>1, KeepLifecycle
<1>2. CASE UNCHANGED <<database, tasks, erased>>
  <2>1. RowsKeep /\ Quiet
    BY <1>0, <1>2 DEF database, RowsKeep, Quiet, TitleKept, Tables
  <2>. QED BY <1>1, <2>1
<1>3. CASE \/ UNCHANGED vars \/ AnnounceRemote \/ RevokeRemote \/ Refresher
           \/ (\E kind \in {"create", "title"} : BeginCall(kind))
           \/ \E auto, configured \in BOOLEAN :
                ChangeSettings([auto |-> auto, configured |-> configured])
  BY <1>2, <1>3
     DEF vars, AnnounceRemote, RevokeRemote, Refresher, FireRefresh, Rebuild,
         BeginCall, ChangeSettings
<1>4. CASE RecognizeSubtitle \/ RecordRemote
  <2>1. AddSubtitle /\ UNCHANGED <<erased, tasks>>
    BY <1>4 DEF RecognizeSubtitle, RecordRemote
  <2>. QED BY <1>0, <1>1, <2>1, AddRows
<1>5. CASE SaveTranslation \/ ApplyStorageQuota
  <2>1. /\ \E k : row' = Trimmed(row, k)
        /\ UNCHANGED <<created, stored, erased, tasks>>
    BY <1>5 DEF SaveTranslation, ApplyStorageQuota
  <2>. QED BY <1>0, <1>1, <2>1, TrimRows
<1>6. CASE \E lo, hi \in 1..MaxSubtitles : DeleteSubtitleRange(lo, hi)
  BY <1>0, <1>1, <1>6, DeleteRangeRows
<1>7. CASE ClearSubtitleHistory
  BY <1>0, <1>1, <1>7, ClearRows
<1>8. CASE \E c \in Ids, b \in BOOLEAN : UpdateConversation(c, b)
  BY <1>0, <1>1, <1>8, UpdateRows
<1>9. CASE \E c \in Ids : DeleteConversation(c)
  BY <1>0, <1>9, DeleteRows
<1>10. CASE CreateConversation
  BY <1>0, <1>10, CreateRows
<1>11. CASE \E c \in Ids, b \in BOOLEAN : RequestTitle(c, b)
  BY <1>0, <1>11, RequestRows
<1>12. CASE \E j \in Requests :
              AcquireSlot(j) \/ TitleStep(j) \/ BreakTitle(j)
              \/ BreakStartedTitle(j)
  BY <1>12 DEF TitleStep, JobStep
<1>13. CASE Restart
  BY <1>13
<1>14. User => \/ CreateConversation
               \/ \E kind \in {"create", "title"} : BeginCall(kind)
               \/ \E c \in Ids, b \in BOOLEAN :
                    RequestTitle(c, b) \/ UpdateConversation(c, b)
               \/ \E c \in Ids : DeleteConversation(c)
               \/ \E lo, hi \in 1..MaxSubtitles : DeleteSubtitleRange(lo, hi)
               \/ ClearSubtitleHistory \/ ApplyStorageQuota
               \/ \E auto, configured \in BOOLEAN :
                    ChangeSettings([auto |-> auto, configured |-> configured])
  BY Zenon DEF User
<1>. QED BY <1>3, <1>4, <1>5, <1>6, <1>7, <1>8, <1>9, <1>10, <1>11, <1>12,
            <1>13, <1>14 DEF Next

\* The steps of a title task change one row at most.
LEMMA JobRows ==
  ASSUME TypeInv, NEW j \in Requests, JobStep(j)
  PROVE  TitleOf(jobs[j].conversation)
<1>0. /\ Tables /\ TaskTypes /\ jobs[j].conversation \in Ids
      /\ row \in [Ids -> Row]
  BY JobFields DEF TypeInv, Tables
<1>. DEFINE c == jobs[j].conversation
<1>1. UNCHANGED <<created, stored, erased>>
  BY DEF JobStep, AcquireSlot, CancelTitle, RejectTitle, StartTitle,
         AnswerTitle, BreakTitle, BreakStartedTitle, ReleaseTitle, database
<1>2. CASE UNCHANGED row
  BY <1>0, <1>1, <1>2 DEF TitleOf
<1>3. CASE CancelTitle(j)
  BY <1>0, <1>3, CancelRows
<1>4. ASSUME NEW ok \in BOOLEAN, FinishTitle(j, ok) PROVE TitleOf(c)
  BY <1>0, <1>1, <1>4, FinishRows
<1>5. CASE row' = [row EXCEPT ![jobs[j].conversation].status = "running"]
  BY <1>0, <1>1, <1>5, StartRows
<1>6. \/ CancelTitle(j) \/ UNCHANGED row
      \/ \E ok \in BOOLEAN : FinishTitle(j, ok)
      \/ row' = [row EXCEPT ![jobs[j].conversation].status = "running"]
  BY DEF JobStep, AcquireSlot, RejectTitle, StartTitle,
         AnswerTitle, BreakTitle, BreakStartedTitle, ReleaseTitle, database
<1>. QED BY <1>2, <1>3, <1>4, <1>5, <1>6

\* ... and its summary only if it has ended.
LEMMA JobLifecycle ==
  ASSUME TypeInv, NEW j \in Requests, JobStep(j)
  PROVE  Tables' /\ Lifecycle'
<1>0. Tables /\ Lifecycle /\ TaskTypes /\ row \in [Ids -> Row]
  BY DEF TypeInv, Tables
<1>. DEFINE c == jobs[j].conversation
<1>1. TitleOf(c) /\ c \in Ids
  BY <1>0, JobRows, JobFields
<1>2. CASE UNCHANGED row
  BY <1>0, <1>1, <1>2, TitleRows
<1>3. CASE CancelTitle(j)
  BY <1>0, <1>1, <1>3, CancelRows, TitleRows
<1>4. ASSUME NEW ok \in BOOLEAN, FinishTitle(j, ok)
      PROVE  row[c].state = "ended" \/ row' = row
  BY <1>0, <1>1, <1>4, FinishRows DEF TitleOf
<1>5. CASE row' = [row EXCEPT ![jobs[j].conversation].status = "running"]
  <2>1. row'[c].summary = row[c].summary
    BY <1>0, <1>1, <1>5, StartRows DEF TitleOf
  <2>. QED BY <1>0, <1>1, <2>1, TitleRows
<1>6. \/ CancelTitle(j) \/ UNCHANGED row
      \/ \E ok \in BOOLEAN : FinishTitle(j, ok)
      \/ row' = [row EXCEPT ![jobs[j].conversation].status = "running"]
  BY DEF JobStep, AcquireSlot, RejectTitle, StartTitle,
         AnswerTitle, BreakTitle, BreakStartedTitle, ReleaseTitle, database
<1>. HIDE DEF c
<1>. QED BY <1>0, <1>1, <1>2, <1>3, <1>4, <1>5, <1>6, TitleRows DEF c

\* What a step of a title task does to its job.
LEMMA JobShape ==
  ASSUME TypeInv, NEW j \in Requests, JobStep(j)
  PROVE  /\ jobs' \in [Requests -> Job] /\ requests' = requests
         /\ \A i \in Requests \ {j} : jobs'[i] = jobs[i]
         /\ abandoned' \in {abandoned, abandoned \cup {j}}
         /\ jobs[j].at \in {"queued", "checked", "asking", "failing"}
<1>0. TaskTypes /\ Tables /\ jobs[j] \in Job /\ settings.configured \in BOOLEAN
      /\ settings.auto \in BOOLEAN /\ jobs[j].conversation \in Ids
  BY JobFields DEF TypeInv, Others
<1>1. CASE Done(j) /\ jobs[j].at \in {"checked", "asking", "failing"}
           /\ requests' = requests
           /\ abandoned' \in {abandoned, abandoned \cup {j}}
  BY <1>0, <1>1, DoneJob
<1>2. ASSUME NEW x \in Job, jobs' = [jobs EXCEPT ![j] = x]
      PROVE  /\ jobs' \in [Requests -> Job]
             /\ \A i \in Requests \ {j} : jobs'[i] = jobs[i]
  BY <1>0, <1>2 DEF TaskTypes
<1>3. CASE AcquireSlot(j)
  <2>. DEFINE e == jobs[j].automatic => settings.auto
              x == [jobs[j] EXCEPT !.at = "checked", !.enabled = e,
                                   !.configured = settings.configured]
  <2>1. jobs' = [jobs EXCEPT ![j] = x]
    BY <1>3 DEF AcquireSlot
  <2>2. e \in BOOLEAN
    OBVIOUS
  <2>. HIDE DEF e
  <2>3. x \in Job
    BY <1>0, <2>2 DEF Job
  <2>. HIDE DEF x
  <2>. QED BY <1>2, <1>3, <2>1, <2>3 DEF AcquireSlot
<1>4. CASE BreakTitle(j) \/ BreakStartedTitle(j)
  <2>. DEFINE x == [jobs[j] EXCEPT !.at = "failing"]
  <2>1. jobs' = [jobs EXCEPT ![j] = x]
    BY <1>4 DEF BreakTitle, BreakStartedTitle
  <2>2. x \in Job
    BY <1>0 DEF Job
  <2>. HIDE DEF x
  <2>. QED BY <1>2, <1>4, <2>1, <2>2 DEF BreakTitle, BreakStartedTitle
<1>5. CASE StartTitle(j) /\ Asking(j, jobs[j].conversation)
  <2>. DEFINE c == jobs[j].conversation
              t == row[c].text # {}
              x == [jobs[j] EXCEPT !.at = "asking", !.text = t,
                                   !.input = erased[c]]
  <2>1. jobs' = [jobs EXCEPT ![j] = x]
    BY <1>5 DEF Asking
  <2>2. t \in BOOLEAN /\ erased[c] \in Nat
    BY <1>0 DEF Tables
  <2>. HIDE DEF t, c
  <2>3. x \in Job
    BY <1>0, <2>2 DEF Job
  <2>. HIDE DEF x
  <2>. QED BY <1>2, <1>5, <2>1, <2>3 DEF StartTitle
<1>6. CASE CancelTitle(j) \/ RejectTitle(j) \/ ReleaseTitle(j)
           \/ \E ok \in BOOLEAN : AnswerTitle(j, ok)
  BY <1>1, <1>6 DEF CancelTitle, RejectTitle, ReleaseTitle, AnswerTitle
<1>7. CASE StartTitle(j) /\ Done(j)
  BY <1>1, <1>7 DEF StartTitle
<1>8. StartTitle(j) => Done(j) \/ Asking(j, jobs[j].conversation)
  BY DEF StartTitle
<1>. QED BY <1>3, <1>4, <1>5, <1>6, <1>7, <1>8 DEF JobStep

\* What a restart does to the jobs.
LEMMA RestartJobs ==
  ASSUME TaskTypes, Restart
  PROVE  /\ jobs' \in [Requests -> Job]
         /\ requests' = requests /\ abandoned' = abandoned
         /\ \A j \in Requests : \/ jobs'[j].at = "done" /\ jobs[j].at # "none"
                                \/ jobs'[j].at = "none" /\ jobs[j].at = "none"
<1>1. 1 \in Ids
  BY ConversationsAssumption DEF Ids
<1>2. /\ NoJob \in Job /\ NoJob.at = "none"
      /\ [NoJob EXCEPT !.at = "done"] \in Job
      /\ [NoJob EXCEPT !.at = "done"].at = "done"
  BY <1>1 DEF NoJob, Job
<1>3. /\ jobs' = [j \in Requests |-> IF jobs[j].at = "none" THEN NoJob
                                     ELSE [NoJob EXCEPT !.at = "done"]]
      /\ requests' = requests /\ abandoned' = abandoned
  BY DEF Restart
<1>. QED BY <1>2, <1>3

\* Every step keeps the types of the title tasks.
LEMMA TaskTypesStep ==
  ASSUME TypeInv, [Next]_vars
  PROVE  TaskTypes'
<1>0. TaskTypes /\ Requests = 1..MaxRequests /\ MaxRequests \in Nat
  BY ConversationsAssumption DEF TypeInv, Requests
<1>1. CASE Quiet
  BY <1>0, <1>1 DEF Quiet, TaskTypes, tasks
<1>2. ASSUME NEW c \in Ids, Registers(c) PROVE TaskTypes'
  <2>1. PICK b \in BOOLEAN : Spawn(c, b)
    BY <1>2 DEF Registers
  <2>. QED BY <1>0, <2>1, SpawnedJob DEF TaskTypes
<1>3. ASSUME NEW j \in Requests, JobStep(j) PROVE TaskTypes'
  BY <1>0, <1>3, JobShape DEF TaskTypes
<1>4. CASE Restart
  BY <1>0, <1>4, RestartJobs DEF TaskTypes
<1>. QED BY <1>1, <1>2, <1>3, <1>4, NextKinds

\* Where the variables outside the database and the tasks change.
LEMMA OthersFrame ==
  ASSUME [Next]_vars
  PROVE  /\ settings' = settings
            \/ \E auto, configured \in BOOLEAN :
                 ChangeSettings([auto |-> auto, configured |-> configured])
         /\ \/ calls' \subseteq calls
            \/ \E kind \in {"create", "title"} : BeginCall(kind)
         /\ \/ refresh' = refresh \/ Restart
            \/ \E w \in Writers : FireRefresh(w) \/ Rebuild(w)
            \/ \E w : Ask(w)
         /\ remote' \in {remote, "idle", "stored"}
         /\ trouble' = trouble \/ Trouble
         /\ late' = late \/ (\E j \in Requests : StartTitle(j))
            \/ \E auto, configured \in BOOLEAN :
                 ChangeSettings([auto |-> auto, configured |-> configured])
<1>1. CASE UNCHANGED vars
  BY <1>1 DEF vars, catalog
<1>2. CASE RecognizeSubtitle \/ RecordRemote \/ AnnounceRemote \/ RevokeRemote
           \/ SaveTranslation
  BY <1>2 DEF RecognizeSubtitle, RecordRemote, AnnounceRemote, RevokeRemote,
              SaveTranslation
<1>3. CASE ApplyStorageQuota \/ ClearSubtitleHistory
           \/ \E lo, hi \in 1..MaxSubtitles : DeleteSubtitleRange(lo, hi)
  BY <1>3 DEF ApplyStorageQuota, ClearSubtitleHistory, DeleteSubtitleRange
<1>4. CASE \E c \in Ids, b \in BOOLEAN :
             RequestTitle(c, b) \/ UpdateConversation(c, b)
  BY <1>4 DEF RequestTitle, UpdateConversation, Spawn
<1>5. CASE CreateConversation \/ \E c \in Ids : DeleteConversation(c)
  BY <1>5 DEF CreateConversation, DeleteConversation, Spawn
<1>6. CASE \E auto, configured \in BOOLEAN :
             ChangeSettings([auto |-> auto, configured |-> configured])
  BY <1>6 DEF ChangeSettings, catalog
<1>7. CASE \E kind \in {"create", "title"} : BeginCall(kind)
  BY <1>7 DEF BeginCall, catalog
<1>8. CASE Refresher
  BY <1>8 DEF Refresher, FireRefresh, Rebuild
<1>9. ASSUME NEW j \in Requests, JobStep(j)
      PROVE  /\ UNCHANGED <<settings, calls, refresh, remote>>
             /\ trouble' = trouble \/ Trouble
             /\ late' = late \/ StartTitle(j)
  BY <1>9 DEF JobStep, AcquireSlot, CancelTitle, RejectTitle, StartTitle,
              AnswerTitle, BreakTitle, BreakStartedTitle, ReleaseTitle, catalog
<1>10. CASE Restart
  BY <1>10 DEF Restart
<1>11. User => \/ CreateConversation
               \/ \E kind \in {"create", "title"} : BeginCall(kind)
               \/ \E c \in Ids, b \in BOOLEAN :
                    RequestTitle(c, b) \/ UpdateConversation(c, b)
               \/ \E c \in Ids : DeleteConversation(c)
               \/ \E lo, hi \in 1..MaxSubtitles : DeleteSubtitleRange(lo, hi)
               \/ ClearSubtitleHistory \/ ApplyStorageQuota
               \/ \E auto, configured \in BOOLEAN :
                    ChangeSettings([auto |-> auto, configured |-> configured])
  BY Zenon DEF User
<1>12. (\E j \in Requests : AcquireSlot(j) \/ TitleStep(j) \/ BreakTitle(j)
                            \/ BreakStartedTitle(j))
         => \E j \in Requests : JobStep(j)
  BY DEF TitleStep, JobStep
<1>. QED BY <1>1, <1>2, <1>3, <1>4, <1>5, <1>6, <1>7, <1>8, <1>9, <1>10, <1>11,
            <1>12 DEF Next

\* Every step keeps the other types.
LEMMA OthersStep ==
  ASSUME TypeInv, [Next]_vars
  PROVE  Others'
<1>0. Others
  BY DEF TypeInv
<1>1. settings' \in [auto : BOOLEAN, configured : BOOLEAN]
  <2>1. ASSUME NEW a \in BOOLEAN, NEW b \in BOOLEAN,
               ChangeSettings([auto |-> a, configured |-> b])
        PROVE  settings' \in [auto : BOOLEAN, configured : BOOLEAN]
    BY <2>1 DEF ChangeSettings
  <2>. QED BY <1>0, <2>1, OthersFrame DEF Others
<1>2. calls' \subseteq [kind : {"create", "title"}, ok : BOOLEAN]
  <2>1. ASSUME NEW kind \in {"create", "title"}, BeginCall(kind)
        PROVE  calls' \subseteq [kind : {"create", "title"}, ok : BOOLEAN]
    <3>. DEFINE ok == settings.configured /\ (kind = "create" => settings.auto)
    <3>1. calls' = {[kind |-> kind, ok |-> ok]}
      BY <2>1 DEF BeginCall
    <3>2. ok \in BOOLEAN
      OBVIOUS
    <3>. HIDE DEF ok
    <3>. QED BY <3>1, <3>2
  <2>. QED BY <1>0, <2>1, OthersFrame DEF Others
<1>3. refresh' \in [Writers -> [scheduled : BOOLEAN, rebuilding : 0..MaxRebuilds]]
  <2>. DEFINE T == [scheduled : BOOLEAN, rebuilding : 0..MaxRebuilds]
  <2>0. refresh \in [Writers -> T] /\ MaxRebuilds \in Nat
    BY <1>0, ConversationsAssumption DEF Others
  <2>1. ASSUME NEW w, Ask(w) PROVE refresh' \in [Writers -> T]
    BY <2>0, <2>1 DEF Ask
  <2>2. ASSUME NEW w \in Writers, FireRefresh(w) PROVE refresh' \in [Writers -> T]
    BY <2>0, <2>2 DEF FireRefresh
  <2>3. ASSUME NEW w \in Writers, Rebuild(w) PROVE refresh' \in [Writers -> T]
    BY <2>0, <2>3 DEF Rebuild
  <2>4. CASE Restart
    BY <2>0, <2>4 DEF Restart
  <2>. QED BY <2>0, <2>1, <2>2, <2>3, <2>4, OthersFrame
<1>4. remote' \in {"idle", "stored"}
  BY <1>0, OthersFrame DEF Others
<1>5. trouble' \in 0..MaxTrouble
  BY <1>0, OthersFrame, ConversationsAssumption DEF Others, Trouble
<1>6. late' \in 0..2
  <2>1. ASSUME NEW a \in BOOLEAN, NEW b \in BOOLEAN,
               ChangeSettings([auto |-> a, configured |-> b])
        PROVE  late' \in 0..2
    BY <1>0, <2>1 DEF ChangeSettings, Others
  <2>2. ASSUME NEW j \in Requests, StartTitle(j) PROVE late' \in 0..2
    BY <1>0, <2>2 DEF StartTitle, Late, Others
  <2>. QED BY <1>0, <2>1, <2>2, OthersFrame DEF Others
<1>. QED BY <1>1, <1>2, <1>3, <1>4, <1>5, <1>6 DEF Others

\* Every step keeps the Booleans.
LEMMA FlagsStep ==
  ASSUME TypeInv, [Next]_vars
  PROVE  Flags'
<1>0. stale \in BOOLEAN /\ lost \in BOOLEAN
  BY DEF TypeInv, Flags
<1>1. CASE UNCHANGED vars
  BY <1>0, <1>1 DEF Flags, vars, catalog
<1>2. CASE RecognizeSubtitle \/ RecordRemote \/ AnnounceRemote \/ RevokeRemote
           \/ SaveTranslation
  <2>1. AddSubtitle => stale' = TRUE
    BY DEF AddSubtitle
  <2>2. /\ stale' = TRUE \/ stale' = stale
        /\ lost' = lost \/ lost' = stale
    BY <1>2, <2>1 DEF RecognizeSubtitle, RecordRemote, AnnounceRemote,
       RevokeRemote, SaveTranslation
  <2>. QED BY <1>0, <2>2 DEF Flags
<1>3. Publish => Flags'
  BY DEF Publish, Flags
<1>4. CASE User \/ Restart \/ Refresher
  <2>1. UNCHANGED <<stale, lost>> \/ Publish
    BY <1>4 DEF User, ApplyStorageQuota, ClearSubtitleHistory,
       DeleteSubtitleRange, RequestTitle, UpdateConversation,
       CreateConversation, DeleteConversation, ChangeSettings, BeginCall,
       Restart, Refresher, FireRefresh, Rebuild, catalog
  <2>. QED BY <1>0, <1>3, <2>1 DEF Flags
<1>5. ASSUME NEW j \in Requests,
             AcquireSlot(j) \/ TitleStep(j) \/ BreakTitle(j)
             \/ BreakStartedTitle(j)
      PROVE  Flags'
  <2>1. \/ UNCHANGED <<stale, lost>> \/ Publish
        \/ stale' = TRUE /\ lost' = lost
        \/ stale' = stale /\ lost' = stale
    BY <1>5 DEF TitleStep, AcquireSlot, CancelTitle, RejectTitle, StartTitle,
       AnswerTitle, BreakTitle, BreakStartedTitle, ReleaseTitle, FinishTitle,
       catalog
  <2>. QED BY <1>0, <1>3, <2>1 DEF Flags
<1>. QED BY <1>1, <1>2, <1>4, <1>5 DEF Next

\* Every step keeps the types.
LEMMA TypeStep ==
  ASSUME TypeInv, [Next]_vars
  PROVE  TypeInv'
<1>1. Tables' /\ Lifecycle'
  <2>0. Tables /\ Lifecycle
    BY DEF TypeInv
  <2>1. CASE Restart
    BY <2>0, <2>1, RestartRows, KeepLifecycle
  <2>. QED BY <2>1, NextKinds, JobLifecycle
<1>. QED BY <1>1, TaskTypesStep, OthersStep, FlagsStep DEF TypeInv

\* The types hold in every state.
LEMMA TypeAlways == Spec => []TypeInv
BY TypeInit, TypeStep, PTL DEF Spec

(***************************************************************************)
(* Every variable keeps its type, and exactly one conversation is active   *)
(* (conversations_single_active_idx), whatever is deleted, trimmed or      *)
(* restarted.                                                              *)
(***************************************************************************)
THEOREM ConversationsTypeCorrect == Spec => []TypeOK
BY TypeAlways, TypeParts, PTL

-----------------------------------------------------------------------------
(* Conversations and their title tasks                                     *)

\* The first state has no task and no summary.
LEMMA TitleInit == Init => TitleInv /\ SummaryInv
<1>. SUFFICES ASSUME Init PROVE TitleInv /\ SummaryInv
  OBVIOUS
<1>1. \A c \in Ids : row[c] \in {Fresh, Absent}
  BY DEF Init
<1>2. \A c \in Ids : row[c].status = "idle" /\ row[c].request = None
                     /\ row[c].summary = None
  BY <1>1, NewRows
<1>3. \A j \in Requests : jobs[j].at = "none"
  BY DEF Init, NoJob
<1>. QED BY <1>2, <1>3 DEF TitleInv, SummaryInv, BusyHasTask, NoErasedSpeech, Busy

\* Steps that leave the titles and the tasks alone.
LEMMA QuietTitles ==
  ASSUME TypeInv, TitleInv, Quiet
  PROVE  TitleInv'
<1>0. /\ jobs' = jobs /\ requests' = requests /\ abandoned' = abandoned
      /\ \A c \in Ids : TitleKept(c) \/ TitleGone(c)
  BY DEF Quiet, tasks
<1>1. \A c \in Ids :
        \/ /\ row'[c].status = row[c].status /\ row'[c].request = row[c].request
           /\ row'[c].state = row[c].state \/ row'[c].state = "ended"
        \/ row'[c].status = "idle" /\ row'[c].request = None
  BY <1>0 DEF TitleKept, TitleGone
<1>2. TaskTypes /\ \A j \in Requests : jobs[j].conversation \in Ids /\ j # None
  BY JobFields, ConversationsAssumption DEF TypeInv, Requests
<1>3. BusyHasTask'
  BY <1>0, <1>1 DEF TitleInv, BusyHasTask, Live, Busy
<1>4. \A j \in Requests :
       /\ jobs'[j].at \in {"queued", "checked"}
       /\ row'[jobs'[j].conversation].request = j
       => row'[jobs'[j].conversation].status = "pending"
  BY <1>0, <1>1, <1>2 DEF TitleInv
<1>. QED BY <1>0, <1>1, <1>3, <1>4 DEF TitleInv, Busy

\* A request is registered.
LEMMA RegisterTitles ==
  ASSUME TypeInv, TitleInv, NEW c \in Ids, Registers(c)
  PROVE  TitleInv'
<1>0. PICK b \in BOOLEAN : Spawn(c, b)
  BY DEF Registers
<1>. DEFINE k == requests + 1
<1>1. /\ requests' = k /\ k \in Requests /\ requests \in Nat
      /\ \/ /\ abandoned' = abandoned
            /\ jobs'[k].at = "queued" /\ jobs'[k].conversation = c
         \/ abandoned' = abandoned \cup {k} /\ jobs' = jobs
      /\ \A j \in Requests \ {k} : jobs'[j] = jobs[j]
      /\ jobs' \in [Requests -> Job]
  BY <1>0, SpawnedJob DEF TypeInv, TaskTypes
<1>2. /\ row'[c].state = "ended" /\ row'[c].status = "pending"
      /\ row'[c].request = k
  BY DEF Registers
<1>3. \A d \in Ids \ {c} :
        \/ /\ row'[d].status = row[d].status /\ row'[d].request = row[d].request
           /\ row'[d].state = row[d].state \/ row'[d].state = "ended"
        \/ row'[d].status = "idle" /\ row'[d].request = None
  BY DEF Registers, TitleKept, TitleGone
<1>4. /\ Requests = 1..MaxRequests /\ MaxRequests \in Nat /\ None \notin Nat
      /\ \A j \in Requests : jobs'[j].conversation \in Ids
  BY <1>1, ConversationsAssumption DEF Requests, Job
<1>5. jobs[k].at = "none"
  BY <1>1, <1>4 DEF TitleInv
<1>6. \A j \in Requests : j > requests' => jobs'[j].at = "none"
  BY <1>1, <1>4 DEF TitleInv
<1>7. \A d \in Ids : row'[d].request # None => row'[d].request \in 1..requests'
  BY <1>1, <1>2, <1>3, <1>4 DEF TitleInv
<1>8. \A d \in Ids : /\ row'[d].status \in Busy <=> row'[d].request # None
                     /\ row'[d].status \in Busy => row'[d].state = "ended"
  BY <1>1, <1>2, <1>3, <1>4 DEF TitleInv, Busy
<1>9. \A j \in Requests :
       /\ jobs'[j].at \in {"queued", "checked"}
       /\ row'[jobs'[j].conversation].request = j
       => row'[jobs'[j].conversation].status = "pending"
  <2>. SUFFICES ASSUME NEW j \in Requests,
                       jobs'[j].at \in {"queued", "checked"},
                       row'[jobs'[j].conversation].request = j,
                       jobs'[j].conversation # c
                PROVE  row'[jobs'[j].conversation].status = "pending"
    BY <1>2
  <2>1. j # k
    BY <1>1, <1>5
  <2>2. jobs'[j] = jobs[j]
    BY <1>1, <2>1
  <2>3. j # None
    BY <1>4
  <2>. QED BY <1>3, <1>4, <2>2, <2>3 DEF TitleInv
<1>10. BusyHasTask'
  <2>. SUFFICES ASSUME NEW d \in Ids, row'[d].status \in Busy
                PROVE  \E j \in Requests :
                         /\ row'[d].request = j
                         /\ \/ j \in abandoned'
                            \/ Live(j)' /\ jobs'[j].conversation = d
    BY DEF BusyHasTask
  <2>1. CASE d = c
    BY <1>1, <1>2, <2>1 DEF Live
  <2>2. CASE d # c
    <3>1. row[d].status \in Busy /\ row'[d].request = row[d].request
      BY <1>3, <2>2 DEF Busy
    <3>0. BusyHasTask
      BY DEF TitleInv
    <3>2. PICK j \in Requests :
            /\ row[d].request = j
            /\ j \in abandoned \/ (Live(j) /\ jobs[j].conversation = d)
      BY <3>0, <3>1 DEF BusyHasTask
    <3>3. j # k
      BY <1>1, <1>4, <3>1, <3>2 DEF TitleInv
    <3>. QED BY <1>1, <3>1, <3>2, <3>3 DEF Live
  <2>. QED BY <2>1, <2>2
<1>. QED BY <1>6, <1>7, <1>8, <1>9, <1>10 DEF TitleInv

\* What a step of task j does to the conversation it works for.
LEMMA JobTitle ==
  ASSUME TypeInv, TitleInv, NEW j \in Requests, JobStep(j),
         NEW c, c = jobs[j].conversation
  PROVE  /\ row'[c].request \in {row[c].request, None}
         /\ row'[c].status \in Busy <=> row'[c].request # None
         /\ row'[c].request # None /\ row[c].request # j
              => row'[c].status = row[c].status
         /\ row'[c].request = j
              => \/ j \in abandoned'
                 \/ Live(j)' /\ jobs'[j].conversation = c
         /\ jobs'[j].at \in {"queued", "checked"}
              => jobs'[j].conversation = c /\ jobs[j].at = "queued" /\ row' = row
<1>0. /\ Tables /\ TaskTypes /\ c \in Ids /\ jobs[j] \in Job
      /\ jobs \in [Requests -> Job] /\ row \in [Ids -> Row]
      /\ UNCHANGED <<created, stored, erased>> /\ j # None
      /\ row[c].status \in Busy <=> row[c].request # None
      /\ row[c].status \in Busy => row[c].state = "ended"
  <2>1. UNCHANGED <<created, stored, erased>>
    BY JobRows, JobFields DEF TypeInv, TitleOf
  <2>. QED BY SMTT(20), <2>1, JobFields, ConversationsAssumption
           DEF TypeInv, Tables, TaskTypes, TitleInv, Requests
<1>1. Done(j) => jobs'[j].at = "done"
  BY <1>0, DoneJob
<1>2. CASE AcquireSlot(j)
  <2>1. row' = row /\ jobs[j].at = "queued"
    BY <1>2 DEF AcquireSlot, database
  <2>2. jobs'[j].at = "checked" /\ jobs'[j].conversation = c
    BY <1>0, <1>2 DEF AcquireSlot, Job
  <2>. QED BY <1>0, <2>1, <2>2 DEF Live
<1>3. CASE CancelTitle(j)
  <2>1. jobs'[j].at = "done" /\ jobs[j].at = "checked"
    BY <1>1, <1>3 DEF CancelTitle
  <2>2. CASE row[c].request = j
    <3>1. row[c].status = "pending"
      BY <1>0, <2>1, <2>2 DEF TitleInv
    <3>2. row'[c].status \in {"idle", "ready"} /\ row'[c].request = None
      BY <1>0, <1>3, <2>2, <3>1, CancelRows
    <3>. QED BY <1>0, <2>1, <2>2, <3>2 DEF Busy
  <2>3. CASE row[c].request # j
    <3>1. row' = row
      BY <1>0, <1>3, <2>3, CancelRows
    <3>. QED BY <1>0, <2>1, <2>3, <3>1
  <2>. QED BY <2>2, <2>3
<1>4. ASSUME NEW ok \in BOOLEAN, FinishTitle(j, ok)
      PROVE  /\ row'[c].request \in {row[c].request, None}
             /\ row'[c].status \in Busy <=> row'[c].request # None
             /\ row'[c].request # None => row'[c].status = row[c].status
             /\ row'[c].request # j
  <2>1. CASE Waiting(j)
    <3>1. row'[c].status \in {"ready", "failed"} /\ row'[c].request = None
      BY <1>0, <1>4, <2>1, FinishRows
    <3>. QED BY <1>0, <3>1 DEF Busy
  <2>2. CASE ~Waiting(j)
    <3>1. row' = row
      BY <1>0, <1>4, <2>2, FinishRows
    <3>2. row[c].request # j
      BY <1>0, <2>2 DEF Waiting
    <3>. QED BY <1>0, <3>1, <3>2
  <2>. QED BY <2>1, <2>2
<1>5. CASE RejectTitle(j) \/ (\E ok \in BOOLEAN : AnswerTitle(j, ok))
  <2>1. Done(j) /\ \E ok \in BOOLEAN : FinishTitle(j, ok)
    BY <1>5 DEF RejectTitle, AnswerTitle
  <2>. QED BY <1>1, <1>4, <2>1
<1>6. CASE ReleaseTitle(j)
  <2>1. Done(j) /\ \/ FinishTitle(j, FALSE)
                   \/ row' = row /\ abandoned' = abandoned \cup {j}
    BY <1>6 DEF ReleaseTitle
  <2>. QED BY <1>0, <1>1, <1>4, <2>1
<1>7. CASE row' = [row EXCEPT ![jobs[j].conversation].status = "running"]
           /\ Waiting(j) /\ jobs'[j].at \in {"asking", "failing"}
           /\ jobs'[j].conversation = c
  <2>1. row'[c].status = "running" /\ row'[c].request = row[c].request
    BY <1>0, <1>7, StartRows
  <2>2. row[c].request = j
    BY <1>0, <1>7 DEF Waiting
  <2>. QED BY <1>0, <1>7, <2>1, <2>2 DEF Live, Busy
<1>8. CASE StartTitle(j)
  <2>1. CASE Waiting(j) /\ row[c].status = "pending"
    <3>1. Asking(j, c) /\ row' = [row EXCEPT ![c].status = "running"]
      BY <1>0, <1>8, <2>1 DEF StartTitle
    <3>2. jobs'[j].at = "asking" /\ jobs'[j].conversation = c
      BY <1>0, <3>1 DEF Asking, Job
    <3>. QED BY <1>0, <1>7, <2>1, <3>1, <3>2
  <2>2. CASE ~(Waiting(j) /\ row[c].status = "pending")
    <3>1. Done(j) /\ row' = row /\ jobs[j].at = "checked"
      BY <1>0, <1>8, <2>2 DEF StartTitle
    <3>2. row[c].request # j
      BY <1>0, <2>2, <3>1 DEF TitleInv, Waiting
    <3>. QED BY <1>0, <1>1, <3>1, <3>2
  <2>. QED BY <2>1, <2>2
<1>9. CASE BreakTitle(j)
  <2>1. row' = row /\ jobs'[j].at = "failing" /\ jobs'[j].conversation = c
    BY <1>0, <1>9 DEF BreakTitle, database, Job
  <2>. QED BY <1>0, <2>1 DEF Live
<1>10. CASE BreakStartedTitle(j)
  <2>1. jobs'[j].at = "failing" /\ jobs'[j].conversation = c
    BY <1>0, <1>10 DEF BreakStartedTitle, Job
  <2>. QED BY <1>7, <1>10, <2>1 DEF BreakStartedTitle
<1>. QED BY <1>2, <1>3, <1>5, <1>6, <1>8, <1>9, <1>10 DEF JobStep

\* A step of a title task: its own conversation by JobTitle, and the others
\* wait for other tasks.
LEMMA JobTitles ==
  ASSUME TypeInv, TitleInv, NEW j \in Requests, JobStep(j)
  PROVE  TitleInv'
<1>. DEFINE c == jobs[j].conversation
<1>1. /\ jobs' \in [Requests -> Job] /\ requests' = requests
      /\ \A i \in Requests \ {j} : jobs'[i] = jobs[i]
      /\ abandoned \subseteq abandoned'
      /\ jobs[j].at # "none"
  BY JobShape
<1>2. /\ row'[c].request \in {row[c].request, None}
      /\ row'[c].status \in Busy <=> row'[c].request # None
      /\ row'[c].request # None /\ row[c].request # j
           => row'[c].status = row[c].status
      /\ row'[c].request = j
           => \/ j \in abandoned'
              \/ Live(j)' /\ jobs'[j].conversation = c
      /\ jobs'[j].at \in {"queued", "checked"}
           => jobs'[j].conversation = c /\ jobs[j].at = "queued" /\ row' = row
  BY JobTitle
<1>3. c \in Ids /\ row'[c].state = row[c].state
      /\ \A d \in Ids \ {c} : row'[d] = row[d]
  BY JobRows, JobFields DEF TitleOf, TypeInv
<1>4. None \notin Requests /\ \A i \in Requests : jobs[i].conversation \in Ids
  BY ConversationsAssumption, JobFields DEF Requests, TypeInv
<1>. HIDE DEF c
<1>5. \A i \in Requests : i > requests' => jobs'[i].at = "none"
  BY <1>1 DEF TitleInv
<1>6. \A d \in Ids : row'[d].request # None => row'[d].request \in 1..requests'
  BY <1>1, <1>2, <1>3 DEF TitleInv
<1>7. \A d \in Ids : /\ row'[d].status \in Busy <=> row'[d].request # None
                     /\ row'[d].status \in Busy => row'[d].state = "ended"
  BY <1>2, <1>3 DEF TitleInv
<1>8. \A i \in Requests :
       /\ jobs'[i].at \in {"queued", "checked"}
       /\ row'[jobs'[i].conversation].request = i
       => row'[jobs'[i].conversation].status = "pending"
  <2>. SUFFICES ASSUME NEW i \in Requests,
                       jobs'[i].at \in {"queued", "checked"},
                       row'[jobs'[i].conversation].request = i
                PROVE  row'[jobs'[i].conversation].status = "pending"
    OBVIOUS
  <2>1. CASE i = j
    BY <1>2, <2>1 DEF TitleInv, c
  <2>2. CASE i # j
    <3>1. jobs'[i] = jobs[i] /\ jobs[i].conversation \in Ids /\ i # None
      BY <1>1, <1>4, <2>2
    <3>2. CASE jobs[i].conversation # c
      BY <1>3, <3>1, <3>2 DEF TitleInv
    <3>3. CASE jobs[i].conversation = c
      <4>1. row[c].request = i /\ row'[c].status = row[c].status
        BY <1>2, <2>2, <3>1, <3>3
      <4>. QED BY <3>1, <3>3, <4>1 DEF TitleInv
    <3>. QED BY <3>2, <3>3
  <2>. QED BY <2>1, <2>2
<1>9. BusyHasTask'
  <2>. SUFFICES ASSUME NEW d \in Ids, row'[d].status \in Busy
                PROVE  \E i \in Requests :
                         /\ row'[d].request = i
                         /\ \/ i \in abandoned'
                            \/ Live(i)' /\ jobs'[i].conversation = d
    BY DEF BusyHasTask
  <2>1. row[d].status \in Busy /\ row'[d].request = row[d].request
    BY <1>2, <1>3, <1>7 DEF TitleInv
  <2>2. BusyHasTask
    BY DEF TitleInv
  <2>3. PICK i \in Requests :
          /\ row[d].request = i
          /\ i \in abandoned \/ (Live(i) /\ jobs[i].conversation = d)
    BY <2>1, <2>2 DEF BusyHasTask
  <2>4. CASE i # j \/ i \in abandoned
    BY <1>1, <2>1, <2>3, <2>4 DEF Live
  <2>5. CASE i = j /\ i \notin abandoned
    BY <1>2, <2>1, <2>3, <2>5 DEF c
  <2>. QED BY <2>4, <2>5
<1>. QED BY <1>5, <1>6, <1>7, <1>8, <1>9 DEF TitleInv

\* After a restart no conversation waits for a title.
LEMMA RestartTitles ==
  ASSUME TypeInv, TitleInv, Restart
  PROVE  TitleInv'
<1>1. \A c \in Ids : row'[c].status \notin Busy /\ row'[c].request = None
  BY RestartRows DEF TypeInv, TitleInv, Busy
<1>2. /\ requests' = requests
      /\ \A j \in Requests : \/ jobs'[j].at = "done" /\ jobs[j].at # "none"
                             \/ jobs'[j].at = "none" /\ jobs[j].at = "none"
  BY RestartJobs DEF TypeInv
<1>. QED BY <1>1, <1>2 DEF TitleInv, BusyHasTask

\* Every step keeps the tasks of busy conversations.
LEMMA TitlesStep ==
  ASSUME TypeInv, TitleInv, [Next]_vars
  PROVE  TitleInv'
BY NextKinds, QuietTitles, RegisterTitles, JobTitles, RestartTitles

(***************************************************************************)
(* A conversation shown as pending or running has a live task of its own   *)
(* that will release it: no interleaving of registrations, stale answers,  *)
(* cancellations, erasures, deletions, panics and restarts leaves one that *)
(* nobody works for, except those whose handler was dropped or whose       *)
(* release failed (abandoned).                                             *)
(***************************************************************************)
THEOREM BusyConversationsHaveTasks == Spec => []BusyHasTask
<1>1. Init => TypeInv /\ TitleInv
  BY TypeInit, TitleInit
<1>2. TypeInv /\ TitleInv /\ [Next]_vars => (TypeInv /\ TitleInv)'
  BY TypeStep, TitlesStep
<1>3. TitleInv => BusyHasTask
  BY DEF TitleInv
<1>. QED BY <1>1, <1>2, <1>3, PTL DEF Spec

-----------------------------------------------------------------------------
(* Summaries and erasures                                                  *)

\* A step of a title task writes a summary only if it is the answer that the
\* conversation waits for, and reads the text when it sends the request.
LEMMA JobSummary ==
  ASSUME TypeInv, NEW j \in Requests, JobStep(j),
         NEW c, c = jobs[j].conversation
  PROVE  /\ \/ row'[c].summary = row[c].summary
            \/ /\ Waiting(j) /\ jobs[j].at = "asking"
               /\ row'[c].summary = jobs[j].input
         /\ jobs'[j].at = "asking"
              => jobs'[j].conversation = c /\ jobs'[j].input = erased[c]
<1>0. /\ Tables /\ TaskTypes /\ c \in Ids /\ jobs[j] \in Job
      /\ jobs \in [Requests -> Job] /\ row \in [Ids -> Row]
      /\ UNCHANGED <<created, stored, erased>>
  <2>1. UNCHANGED <<created, stored, erased>>
    BY JobRows, JobFields DEF TypeInv, TitleOf
  <2>. QED BY <2>1, JobFields DEF TypeInv, Tables, TaskTypes
<1>1. Done(j) => jobs'[j].at = "done"
  BY <1>0, DoneJob
<1>2. CASE AcquireSlot(j)
  BY <1>0, <1>2 DEF AcquireSlot, database, Job
<1>3. CASE CancelTitle(j)
  <2>1. row'[c].summary = row[c].summary
    BY <1>0, <1>3, CancelRows
  <2>2. jobs'[j].at = "done"
    BY <1>1, <1>3 DEF CancelTitle
  <2>. QED BY <2>1, <2>2
<1>4. FinishTitle(j, FALSE) => row'[c].summary = row[c].summary
  <2>. SUFFICES ASSUME FinishTitle(j, FALSE)
                PROVE  row'[c].summary = row[c].summary
    OBVIOUS
  <2>1. CASE Waiting(j)
    BY <1>0, <2>1, FinishRows
  <2>2. CASE ~Waiting(j)
    BY <1>0, <2>2, FinishRows
  <2>. QED BY <2>1, <2>2
<1>5. CASE RejectTitle(j) \/ ReleaseTitle(j)
  <2>1. Done(j) /\ (FinishTitle(j, FALSE) \/ row' = row)
    BY <1>5 DEF RejectTitle, ReleaseTitle
  <2>. QED BY <1>0, <1>1, <1>4, <2>1
<1>6. ASSUME NEW ok \in BOOLEAN, AnswerTitle(j, ok)
      PROVE  \/ row'[c].summary = row[c].summary
             \/ /\ Waiting(j) /\ jobs[j].at = "asking"
                /\ row'[c].summary = jobs[j].input
  <2>1. FinishTitle(j, ok) /\ jobs[j].at = "asking"
    BY <1>6 DEF AnswerTitle
  <2>2. CASE Waiting(j)
    <3>1. row'[c].summary = IF ok THEN jobs[j].input ELSE row[c].summary
      BY <1>0, <2>1, <2>2, FinishRows
    <3>. QED BY <2>1, <2>2, <3>1
  <2>3. CASE ~Waiting(j)
    BY <1>0, <2>1, <2>3, FinishRows
  <2>. QED BY <2>2, <2>3
<1>7. CASE StartTitle(j)
  <2>1. CASE Waiting(j) /\ row[c].status = "pending"
    <3>1. Asking(j, c) /\ row' = [row EXCEPT ![c].status = "running"]
      BY <1>0, <1>7, <2>1 DEF StartTitle
    <3>2. jobs'[j].conversation = c /\ jobs'[j].input = erased[c]
      BY <1>0, <3>1 DEF Asking, Job
    <3>3. row'[c].summary = row[c].summary
      BY <1>0, <3>1, StartRows
    <3>. QED BY <3>2, <3>3
  <2>2. CASE ~(Waiting(j) /\ row[c].status = "pending")
    BY <1>0, <1>1, <1>7, <2>2 DEF StartTitle
  <2>. QED BY <2>1, <2>2
<1>8. CASE BreakTitle(j) \/ BreakStartedTitle(j)
  <2>1. jobs'[j].at = "failing"
    BY <1>0, <1>8 DEF BreakTitle, BreakStartedTitle, Job
  <2>2. \/ row' = row
        \/ row' = [row EXCEPT ![jobs[j].conversation].status = "running"]
    BY <1>8 DEF BreakTitle, BreakStartedTitle, database
  <2>. QED BY <1>0, <2>1, <2>2, StartRows
<1>9. (\E ok \in BOOLEAN : AnswerTitle(j, ok)) => Done(j)
  BY DEF AnswerTitle
<1>. QED BY <1>1, <1>2, <1>3, <1>5, <1>6, <1>7, <1>8, <1>9 DEF JobStep

\* Every step keeps the summaries and the inputs newer than the erasures.
LEMMA SummaryStep ==
  ASSUME TypeInv, TitleInv, SummaryInv, [Next]_vars
  PROVE  SummaryInv'
<1>0. /\ TaskTypes /\ NoErasedSpeech /\ None \notin Requests
      /\ \A j \in Requests : jobs[j].conversation \in Ids
      /\ \A j \in Requests :
           jobs[j].at = "asking" /\ row[jobs[j].conversation].request = j
             => jobs[j].input = erased[jobs[j].conversation]
  BY JobFields, ConversationsAssumption DEF TypeInv, SummaryInv, Requests
<1>1. CASE Quiet
  <2>1. jobs' = jobs /\ \A c \in Ids : TitleKept(c) \/ TitleGone(c)
    BY <1>1 DEF Quiet, tasks
  <2>2. \A c \in Ids :
          \/ row'[c].summary = row[c].summary /\ erased'[c] = erased[c]
             /\ row'[c].request = row[c].request
          \/ row'[c].summary = None /\ row'[c].request = None
    BY <2>1 DEF TitleKept, TitleGone
  <2>. QED BY <1>0, <2>1, <2>2 DEF SummaryInv, NoErasedSpeech
<1>2. ASSUME NEW c \in Ids, Registers(c) PROVE SummaryInv'
  <2>1. PICK b \in BOOLEAN : Spawn(c, b)
    BY <1>2 DEF Registers
  <2>. DEFINE k == requests + 1
  <2>2. /\ k \in Requests /\ requests \in Nat
        /\ jobs'[k].at = "queued" \/ jobs' = jobs
        /\ \A j \in Requests \ {k} : jobs'[j] = jobs[j]
    BY <1>0, <2>1, SpawnedJob DEF TaskTypes
  <2>3. jobs'[k].at # "asking"
    BY <2>2, ConversationsAssumption DEF TitleInv, Requests
  <2>4. row'[c].request = k /\ row'[c].summary = row[c].summary
        /\ erased'[c] = erased[c]
    BY <1>2 DEF Registers
  <2>5. \A d \in Ids \ {c} :
          \/ row'[d].summary = row[d].summary /\ erased'[d] = erased[d]
             /\ row'[d].request = row[d].request
          \/ row'[d].summary = None /\ row'[d].request = None
    BY <1>2 DEF Registers, TitleKept, TitleGone
  <2>6. NoErasedSpeech'
    BY <1>0, <2>4, <2>5 DEF NoErasedSpeech
  <2>7. ASSUME NEW j \in Requests, jobs'[j].at = "asking",
               row'[jobs'[j].conversation].request = j
        PROVE  jobs'[j].input = erased'[jobs'[j].conversation]
    <3>1. j # k /\ jobs'[j] = jobs[j] /\ jobs[j].conversation # c
      BY <2>2, <2>3, <2>4, <2>7
    <3>. QED BY <1>0, <2>5, <2>7, <3>1
  <2>. QED BY <2>6, <2>7 DEF SummaryInv
<1>3. ASSUME NEW j \in Requests, JobStep(j) PROVE SummaryInv'
  <2>. DEFINE c == jobs[j].conversation
  <2>1. /\ \A i \in Requests \ {j} : jobs'[i] = jobs[i]
        /\ \A d \in Ids \ {c} : row'[d] = row[d]
        /\ erased' = erased /\ c \in Ids
    BY <1>0, <1>3, JobShape, JobRows DEF TitleOf
  <2>2. /\ \/ row'[c].summary = row[c].summary
           \/ /\ Waiting(j) /\ jobs[j].at = "asking"
              /\ row'[c].summary = jobs[j].input
        /\ jobs'[j].at = "asking"
             => jobs'[j].conversation = c /\ jobs'[j].input = erased[c]
        /\ row'[c].request \in {row[c].request, None}
    BY <1>3, JobSummary, JobTitle
  <2>3. Waiting(j) => row[c].request = j
    BY DEF Waiting
  <2>. HIDE DEF c
  <2>4. NoErasedSpeech'
    BY <1>0, <2>1, <2>2, <2>3 DEF NoErasedSpeech, c
  <2>5. ASSUME NEW i \in Requests, jobs'[i].at = "asking",
               row'[jobs'[i].conversation].request = i
        PROVE  jobs'[i].input = erased'[jobs'[i].conversation]
    <3>1. CASE i = j
      BY <2>1, <2>2, <2>5, <3>1
    <3>2. CASE i # j
      <4>1. jobs'[i] = jobs[i] /\ i # None
        BY <1>0, <2>1, <3>2
      <4>2. row[jobs[i].conversation].request = i
        BY <1>0, <2>1, <2>2, <2>5, <4>1
      <4>. QED BY <1>0, <2>1, <2>5, <4>1, <4>2
    <3>. QED BY <3>1, <3>2
  <2>. QED BY <2>4, <2>5 DEF SummaryInv
<1>4. CASE Restart
  <2>1. \A c \in Ids : row'[c].summary = row[c].summary
    BY <1>4, RestartRows DEF TypeInv
  <2>2. erased' = erased /\ \A j \in Requests : jobs'[j].at # "asking"
    BY <1>0, <1>4, RestartJobs DEF Restart
  <2>. QED BY <1>0, <2>1, <2>2 DEF SummaryInv, NoErasedSpeech
<1>. QED BY <1>1, <1>2, <1>3, <1>4, NextKinds

(***************************************************************************)
(* A title never tells of speech the user has deleted: whichever task was  *)
(* running when delete_subtitle_range erased its conversation finds that   *)
(* the conversation no longer waits for it.                                *)
(***************************************************************************)
THEOREM TitlesForgetErasedSpeech == Spec => []NoErasedSpeech
<1>1. Init => TypeInv /\ TitleInv /\ SummaryInv
  BY TypeInit, TitleInit
<1>2. TypeInv /\ TitleInv /\ SummaryInv /\ [Next]_vars
        => (TypeInv /\ TitleInv /\ SummaryInv)'
  BY TypeStep, TitlesStep, SummaryStep
<1>3. SummaryInv => NoErasedSpeech
  BY DEF SummaryInv
<1>. QED BY <1>1, <1>2, <1>3, PTL DEF Spec

(***************************************************************************)
(* Trimming the history, a failed regeneration, a cancelled task, a        *)
(* restart: only an erasure by the user, or the end of the conversation,   *)
(* takes its summary.                                                      *)
(***************************************************************************)
THEOREM SummariesAreKept == Spec => SummaryKept
<1>. DEFINE Keeps == \A c \in Ids :
              row[c].summary # None /\ row'[c].summary = None =>
                row'[c].state = "absent" \/ erased'[c] > erased[c]
<1>1. ASSUME TypeInv, [Next]_vars PROVE Keeps
  <2>1. CASE Quiet
    BY <2>1 DEF Quiet, TitleKept, TitleGone
  <2>2. ASSUME NEW c \in Ids, Registers(c) PROVE Keeps
    BY <2>2 DEF Registers, TitleKept, TitleGone
  <2>3. ASSUME NEW j \in Requests, JobStep(j) PROVE Keeps
    <3>. DEFINE d == jobs[j].conversation
    <3>1. /\ jobs[j].input # None
          /\ \A c \in Ids \ {d} : row'[c] = row[c]
      BY <1>1, <2>3, JobRows, JobFields, ConversationsAssumption
         DEF TitleOf, TypeInv
    <3>2. row'[d].summary = row[d].summary \/ row'[d].summary = jobs[j].input
      BY <1>1, <2>3, JobSummary
    <3>. QED BY <3>1, <3>2
  <2>4. CASE Restart
    BY <1>1, <2>4, RestartRows DEF TypeInv
  <2>. QED BY <1>1, <2>1, <2>2, <2>3, <2>4, NextKinds
<1>2. TypeInv /\ [Next]_vars => [Keeps]_vars
  BY <1>1
<1>. QED BY <1>2, TypeAlways, PTL DEF Spec, SummaryKept

-----------------------------------------------------------------------------
(* Automatic titles after auto_generate is turned off                      *)

\* One task holds the slot, and once an automatic request went out without
\* the setting, no other task can still believe in it.
SlotInv ==
  \A i, j \in Requests :
    /\ jobs[i].at \in {"checked", "asking"}
    /\ jobs[j].at \in {"checked", "asking"}
    => i = j

AutoInv ==
  /\ settings.auto => late = 0
  /\ late <= 1
  /\ late = 1 =>
       \A j \in Requests : jobs[j].at = "checked" /\ jobs[j].automatic
                             => ~jobs[j].enabled

\* How a task comes to hold the slot, and what it knows then.
LEMMA JobSlot ==
  ASSUME TypeInv, NEW j \in Requests, JobStep(j),
         jobs'[j].at \in {"checked", "asking"}
  PROVE  \/ /\ SlotFree /\ jobs'[j].at = "checked"
            /\ jobs'[j].automatic /\ ~settings.auto => ~jobs'[j].enabled
         \/ jobs'[j].at = "asking" /\ jobs[j].at = "checked"
<1>0. TaskTypes /\ jobs \in [Requests -> Job] /\ jobs[j] \in Job
  BY JobFields DEF TypeInv, TaskTypes
<1>1. ~Done(j)
  BY <1>0, DoneJob
<1>2. CASE AcquireSlot(j)
  <2>. DEFINE e == jobs[j].automatic => settings.auto
              x == [jobs[j] EXCEPT !.at = "checked", !.enabled = e,
                                   !.configured = settings.configured]
  <2>1. jobs' = [jobs EXCEPT ![j] = x] /\ SlotFree
    BY <1>2 DEF AcquireSlot
  <2>2. e => ~(jobs[j].automatic /\ ~settings.auto)
    OBVIOUS
  <2>. HIDE DEF e
  <2>3. x.at = "checked" /\ x.enabled = e /\ x.automatic = jobs[j].automatic
    BY <1>0 DEF Job
  <2>. HIDE DEF x
  <2>4. jobs'[j] = x
    BY <1>0, <2>1
  <2>. QED BY <2>1, <2>2, <2>3, <2>4
<1>3. CASE BreakTitle(j) \/ BreakStartedTitle(j)
  BY <1>0, <1>3 DEF BreakTitle, BreakStartedTitle, Job
<1>4. CASE StartTitle(j)
  <2>1. Asking(j, jobs[j].conversation) /\ jobs[j].at = "checked"
    BY <1>1, <1>4 DEF StartTitle
  <2>2. jobs'[j].at = "asking"
    BY <1>0, <2>1 DEF Asking, Job
  <2>. QED BY <2>1, <2>2
<1>5. CASE CancelTitle(j) \/ RejectTitle(j) \/ ReleaseTitle(j)
           \/ \E ok \in BOOLEAN : AnswerTitle(j, ok)
  BY <1>1, <1>5 DEF CancelTitle, RejectTitle, ReleaseTitle, AnswerTitle
<1>. QED BY <1>2, <1>3, <1>4, <1>5 DEF JobStep

\* Every step keeps one task at most in the slot.
LEMMA SlotStep ==
  ASSUME TypeInv, SlotInv, [Next]_vars
  PROVE  SlotInv'
<1>0. TaskTypes
  BY DEF TypeInv
<1>1. CASE Quiet
  BY <1>1 DEF Quiet, tasks, SlotInv
<1>2. ASSUME NEW c \in Ids, Registers(c) PROVE SlotInv'
  <2>1. PICK b \in BOOLEAN : Spawn(c, b)
    BY <1>2 DEF Registers
  <2>2. \A j \in Requests : jobs'[j] = jobs[j] \/ jobs'[j].at = "queued"
    BY <1>0, <2>1, SpawnedJob
  <2>. QED BY <2>2 DEF SlotInv
<1>3. ASSUME NEW j \in Requests, JobStep(j) PROVE SlotInv'
  <2>1. \A i \in Requests \ {j} : jobs'[i] = jobs[i]
    BY <1>3, JobShape
  <2>2. jobs'[j].at \in {"checked", "asking"}
          => SlotFree \/ jobs[j].at = "checked"
    BY <1>3, JobSlot
  <2>. QED BY <2>1, <2>2 DEF SlotInv, SlotFree
<1>4. CASE Restart
  <2>1. \A j \in Requests : jobs'[j].at \notin {"checked", "asking"}
    BY <1>0, <1>4, RestartJobs
  <2>. QED BY <2>1 DEF SlotInv
<1>. QED BY <1>1, <1>2, <1>3, <1>4, NextKinds

\* Every step keeps the count of titles begun after auto was turned off.
LEMMA AutoStep ==
  ASSUME TypeInv, SlotInv, AutoInv, [Next]_vars
  PROVE  AutoInv'
<1>0. TaskTypes /\ late \in 0..2
  BY DEF TypeInv, Others
<1>1. CASE \E auto, configured \in BOOLEAN :
             ChangeSettings([auto |-> auto, configured |-> configured])
  <2>1. jobs' = jobs /\ late' = IF settings'.auto THEN 0 ELSE late
    BY <1>1 DEF ChangeSettings, tasks
  <2>. QED BY <2>1 DEF AutoInv
<1>2. ASSUME NEW j \in Requests, StartTitle(j) PROVE AutoInv'
  <2>1. /\ settings' = settings /\ jobs[j].at = "checked" /\ jobs[j].enabled
        /\ late' = late \/ late' = Late(j)
    BY <1>2 DEF StartTitle
  <2>2. \A i \in Requests \ {j} :
          jobs'[i] = jobs[i] /\ jobs[i].at \notin {"checked", "asking"}
    BY <1>2, <2>1, JobShape DEF SlotInv, JobStep
  <2>3. jobs'[j].at # "checked"
    BY <1>2, <2>1, <2>2, JobSlot DEF JobStep, SlotFree
  <2>4. \A i \in Requests : jobs'[i].at # "checked"
    BY <2>2, <2>3
  <2>5. late' = late \/ (jobs[j].automatic /\ ~settings.auto /\ late' = late + 1)
    BY <2>1 DEF Late
  <2>6. late' # late => late' = 1 /\ ~settings.auto
    BY <1>0, <2>1, <2>5 DEF AutoInv
  <2>. QED BY <2>1, <2>4, <2>6 DEF AutoInv
<1>3. CASE settings' = settings /\ late' = late
  <2>. SUFFICES ASSUME late = 1, NEW i \in Requests,
                       jobs'[i].at = "checked", jobs'[i].automatic
                PROVE  ~jobs'[i].enabled
    BY <1>3 DEF AutoInv
  <2>0. ~settings.auto
    BY DEF AutoInv
  <2>1. CASE jobs'[i] = jobs[i]
    BY <2>1 DEF AutoInv
  <2>2. CASE Quiet
    BY <2>1, <2>2 DEF Quiet, tasks
  <2>3. ASSUME NEW c \in Ids, Registers(c) PROVE jobs'[i] = jobs[i]
    <3>1. PICK b \in BOOLEAN : Spawn(c, b)
      BY <2>3 DEF Registers
    <3>. QED BY <1>0, <3>1, SpawnedJob
  <2>4. ASSUME NEW j \in Requests, JobStep(j)
        PROVE  jobs'[i] = jobs[i] \/ ~jobs'[i].enabled
    <3>1. CASE i # j
      BY <2>4, <3>1, JobShape
    <3>2. CASE i = j
      BY <2>0, <2>4, <3>2, JobSlot
    <3>. QED BY <3>1, <3>2
  <2>5. ~Restart
    BY <1>0, RestartJobs
  <2>. QED BY <2>1, <2>2, <2>3, <2>4, <2>5, NextKinds
<1>. QED BY <1>1, <1>2, <1>3, OthersFrame

(***************************************************************************)
(* Turning auto_generate off stops the automatic titles: one request at    *)
(* most, of the task that had read the settings already, still goes out.   *)
(***************************************************************************)
THEOREM AutoOffStopsTitles == Spec => []AutoOffLeaksAtMostOne
<1>1. Init => TypeInv /\ SlotInv /\ AutoInv
  <2>1. Init => SlotInv /\ AutoInv
    BY DEF Init, SlotInv, AutoInv, NoJob
  <2>. QED BY <2>1, TypeInit
<1>2. TypeInv /\ SlotInv /\ AutoInv /\ [Next]_vars
        => (TypeInv /\ SlotInv /\ AutoInv)'
  BY TypeStep, SlotStep, AutoStep
<1>3. AutoInv => AutoOffLeaksAtMostOne
  BY DEF AutoInv, AutoOffLeaksAtMostOne
<1>. QED BY <1>1, <1>2, <1>3, PTL DEF Spec

-----------------------------------------------------------------------------
(* The published catalog                                                   *)

\* A rebuild is on its way, or the loss is accounted for.
Noticed ==
  \/ \E w \in Writers : refresh[w].scheduled \/ refresh[w].rebuilding > 0
  \/ remote = "stored"
  \/ lost

\* A task that has failed publishes the catalog when it releases its title,
\* which its conversation must still wait for.
StaleInv ==
  /\ remote = "stored" => "remote" \in Writers
  /\ stale => Noticed \/ \E j \in Requests : jobs[j].at = "failing" /\ Waiting(j)

\* A step of the catalog's writers leaves a notice ...
Notices == stale' => Noticed'

\* ... or changes nothing that the notices are about.
Calm ==
  /\ UNCHANGED <<row, stale, lost, refresh, remote>>
  /\ \A j \in Requests :
       jobs[j].at = "failing" /\ Waiting(j)
         => jobs'[j].at = "failing"
            /\ jobs'[j].conversation = jobs[j].conversation

\* A refresh that is asked for is scheduled.
LEMMA AskNotices ==
  ASSUME Others, NEW w \in Writers, Ask(w)
  PROVE  refresh'[w].scheduled
<1>1. refresh \in [Writers -> [scheduled : BOOLEAN, rebuilding : 0..MaxRebuilds]]
  BY DEF Others
<1>. DEFINE new == [refresh[w] EXCEPT !.scheduled = TRUE]
<1>2. refresh' = [refresh EXCEPT ![w] = new]
  BY DEF Ask
<1>3. new.scheduled = TRUE
  BY <1>1
<1>. HIDE DEF new
<1>. QED BY <1>1, <1>2, <1>3

\* So does the timer that turns it into a rebuild.
LEMMA FireNotices ==
  ASSUME Others, NEW w \in Writers, FireRefresh(w)
  PROVE  refresh'[w].rebuilding > 0
<1>1. /\ refresh \in [Writers -> [scheduled : BOOLEAN,
                                  rebuilding : 0..MaxRebuilds]]
      /\ refresh[w].rebuilding \in Nat
  BY ConversationsAssumption DEF Others
<1>2. refresh'[w].rebuilding = refresh[w].rebuilding + 1
  BY <1>1 DEF FireRefresh
<1>. QED BY <1>1, <1>2

\* A step of a title task publishes, is calm, or breaks the task.
LEMMA JobCatalog ==
  ASSUME TypeInv, NEW j \in Requests, JobStep(j)
  PROVE  \/ Notices \/ Calm
         \/ jobs'[j].at = "failing" /\ Waiting(j)'
<1>0. /\ Tables /\ TaskTypes /\ jobs \in [Requests -> Job] /\ jobs[j] \in Job
      /\ row \in [Ids -> Row] /\ jobs[j].conversation \in Ids
      /\ \A i \in Requests \ {j} : jobs'[i] = jobs[i]
      /\ UNCHANGED <<refresh, remote>>
  <2>1. UNCHANGED <<refresh, remote>>
    BY DEF JobStep, AcquireSlot, CancelTitle, RejectTitle, StartTitle,
           AnswerTitle, BreakTitle, BreakStartedTitle, ReleaseTitle, catalog
  <2>. QED BY <2>1, JobFields, JobShape DEF TypeInv, Tables, TaskTypes
<1>1. CASE stale' = FALSE \/ lost' = stale'
  BY <1>1 DEF Notices, Noticed
<1>2. CASE /\ UNCHANGED <<row, stale, lost>>
           /\ jobs[j].at # "failing" \/ ~Waiting(j)
  BY <1>0, <1>2 DEF Calm
<1>3. ASSUME NEW ok \in BOOLEAN, FinishTitle(j, ok)
      PROVE  stale' = FALSE \/ (UNCHANGED <<row, stale, lost>> /\ ~Waiting(j))
  BY <1>3 DEF FinishTitle, Publish
<1>4. CASE AcquireSlot(j) \/ BreakTitle(j)
  BY <1>2, <1>4 DEF AcquireSlot, BreakTitle, database, catalog
<1>5. CASE CancelTitle(j)
  BY <1>1, <1>5 DEF CancelTitle, Publish
<1>6. CASE RejectTitle(j) \/ \E ok \in BOOLEAN : AnswerTitle(j, ok)
  <2>1. \E ok \in BOOLEAN : FinishTitle(j, ok)
    BY <1>6 DEF RejectTitle, AnswerTitle
  <2>. QED BY <1>1, <1>2, <1>3, <2>1
<1>7. CASE StartTitle(j)
  <2>1. jobs[j].at = "checked" /\ (stale' = FALSE \/ UNCHANGED <<row, stale, lost>>)
    BY <1>7 DEF StartTitle, Publish
  <2>. QED BY <1>1, <1>2, <2>1
<1>8. CASE ReleaseTitle(j)
  <2>1. FinishTitle(j, FALSE) \/ (lost' = stale /\ stale' = stale)
    BY <1>8 DEF ReleaseTitle
  <2>. QED BY <1>1, <1>2, <1>3, <2>1
<1>9. CASE BreakStartedTitle(j)
  <2>1. jobs'[j].at = "failing" /\ jobs'[j].conversation = jobs[j].conversation
    BY <1>0, <1>9 DEF BreakStartedTitle, Job
  <2>2. /\ row'[jobs[j].conversation].state = row[jobs[j].conversation].state
        /\ row'[jobs[j].conversation].request = row[jobs[j].conversation].request
        /\ row'[jobs[j].conversation].status = "running"
    BY <1>0, <1>9, StartRows DEF BreakStartedTitle, TitleOf
  <2>3. Waiting(j)
    BY <1>9 DEF BreakStartedTitle
  <2>. QED BY <2>1, <2>2, <2>3 DEF Waiting, Busy
<1>. QED BY <1>4, <1>5, <1>6, <1>7, <1>8, <1>9 DEF JobStep

\* Every step is one of these.
LEMMA CatalogKinds ==
  ASSUME TypeInv, StaleInv, [Next]_vars
  PROVE  /\ remote' = "stored" => "remote" \in Writers
         /\ \/ Notices \/ Calm
            \/ \E j \in Requests : jobs'[j].at = "failing" /\ Waiting(j)'
<1>0. Others /\ (remote = "stored" => "remote" \in Writers)
  BY DEF TypeInv, StaleInv
<1>1. CASE UNCHANGED <<row, jobs, stale, lost, refresh, remote>>
  BY <1>0, <1>1 DEF Calm
<1>2. CASE stale' = FALSE /\ remote' \in {remote, "idle"}
  BY <1>0, <1>2 DEF Notices
<1>3. CASE UNCHANGED vars \/ (\E kind \in {"create", "title"} : BeginCall(kind))
           \/ \E auto, configured \in BOOLEAN :
                ChangeSettings([auto |-> auto, configured |-> configured])
  BY <1>1, <1>3 DEF vars, BeginCall, ChangeSettings, database, tasks, catalog
<1>4. CASE RecognizeSubtitle
  BY <1>0, <1>4, AskNotices DEF RecognizeSubtitle, Notices, Noticed
<1>5. CASE RecordRemote
  BY <1>5 DEF RecordRemote, Notices, Noticed
<1>6. CASE AnnounceRemote
  BY <1>0, <1>6, AskNotices DEF AnnounceRemote, Notices, Noticed
<1>7. CASE RevokeRemote
  BY <1>7 DEF RevokeRemote, Notices, Noticed
<1>8. CASE SaveTranslation
  BY <1>0, <1>8, AskNotices DEF SaveTranslation, Notices, Noticed
<1>9. CASE Refresher
  <2>1. ASSUME NEW w \in Writers, FireRefresh(w) PROVE Notices /\ remote' = remote
    BY <1>0, <2>1, FireNotices DEF FireRefresh, Notices, Noticed
  <2>2. ASSUME NEW w \in Writers, Rebuild(w) PROVE stale' = FALSE /\ remote' = remote
    BY <2>2 DEF Rebuild, Publish
  <2>. QED BY <1>0, <1>2, <1>9, <2>1, <2>2 DEF Refresher
<1>10. CASE ApplyStorageQuota \/ ClearSubtitleHistory
            \/ \E lo, hi \in 1..MaxSubtitles : DeleteSubtitleRange(lo, hi)
  BY <1>2, <1>10 DEF ApplyStorageQuota, ClearSubtitleHistory,
                     DeleteSubtitleRange, Publish
<1>11. CASE \E c \in Ids, b \in BOOLEAN :
              RequestTitle(c, b) \/ UpdateConversation(c, b)
  <2>1. \/ stale' = FALSE /\ remote' = remote
        \/ UNCHANGED <<row, jobs, stale, lost, refresh, remote>>
    BY ZenonT(30), <1>11 DEF RequestTitle, UpdateConversation, Publish, tasks
  <2>. QED BY <1>1, <1>2, <2>1
<1>12. CASE CreateConversation \/ \E c \in Ids : DeleteConversation(c)
  BY <1>2, <1>12 DEF CreateConversation, DeleteConversation, Publish
<1>13. ASSUME NEW j \in Requests, JobStep(j) PROVE remote' = remote
  BY <1>13 DEF JobStep, AcquireSlot, CancelTitle, RejectTitle, StartTitle,
           AnswerTitle, BreakTitle, BreakStartedTitle, ReleaseTitle, catalog
<1>14. CASE \E j \in Requests : JobStep(j)
  BY <1>0, <1>13, <1>14, JobCatalog
<1>15. CASE Restart
  BY <1>2, <1>15 DEF Restart, Publish
<1>16. User => \/ CreateConversation
               \/ \E kind \in {"create", "title"} : BeginCall(kind)
               \/ \E c \in Ids, b \in BOOLEAN :
                    RequestTitle(c, b) \/ UpdateConversation(c, b)
               \/ \E c \in Ids : DeleteConversation(c)
               \/ \E lo, hi \in 1..MaxSubtitles : DeleteSubtitleRange(lo, hi)
               \/ ClearSubtitleHistory \/ ApplyStorageQuota
               \/ \E auto, configured \in BOOLEAN :
                    ChangeSettings([auto |-> auto, configured |-> configured])
  BY Zenon DEF User
<1>17. (\E j \in Requests : AcquireSlot(j) \/ TitleStep(j) \/ BreakTitle(j)
                            \/ BreakStartedTitle(j))
         => \E j \in Requests : JobStep(j)
  BY DEF TitleStep, JobStep
<1>. QED BY <1>3, <1>4, <1>5, <1>6, <1>7, <1>8, <1>9, <1>10, <1>11, <1>12,
            <1>14, <1>15, <1>16, <1>17 DEF Next

\* Every step keeps a stale catalog noticed.
LEMMA StaleStep ==
  ASSUME TypeInv, StaleInv, [Next]_vars
  PROVE  StaleInv'
<1>1. CASE Notices
  BY <1>1, CatalogKinds DEF StaleInv, Notices
<1>2. CASE \E j \in Requests : jobs'[j].at = "failing" /\ Waiting(j)'
  BY <1>2, CatalogKinds DEF StaleInv
<1>3. CASE Calm
  <2>1. Noticed' <=> Noticed
    BY <1>3 DEF Calm, Noticed
  <2>2. \A j \in Requests :
          jobs[j].at = "failing" /\ Waiting(j)
            => jobs'[j].at = "failing" /\ Waiting(j)'
    BY <1>3 DEF Calm, Waiting
  <2>. QED BY <1>3, <2>1, <2>2, CatalogKinds DEF Calm, StaleInv
<1>. QED BY <1>1, <1>2, <1>3, CatalogKinds

(***************************************************************************)
(* A catalog that is behind the database is noticed: a rebuild that will   *)
(* see the change is scheduled or running, a writer is about to ask for    *)
(* one, or a failed task will publish it with its release.  Coalescing the *)
(* requests for a refresh, and clearing the flag before the rebuild, lose  *)
(* none.                                                                   *)
(***************************************************************************)
THEOREM StaleCatalogsAreNoticed == Spec => []StaleIsNoticed
<1>1. Init => TypeInv /\ StaleInv
  <2>1. Init => StaleInv
    BY DEF Init, StaleInv
  <2>. QED BY <2>1, TypeInit
<1>2. TypeInv /\ StaleInv /\ [Next]_vars => (TypeInv /\ StaleInv)'
  BY TypeStep, StaleStep
<1>3. StaleInv => StaleIsNoticed
  BY DEF StaleInv, Noticed, StaleIsNoticed
<1>. QED BY <1>1, <1>2, <1>3, PTL DEF Spec
=============================================================================
