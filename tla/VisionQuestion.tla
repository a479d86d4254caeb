--------------------------- MODULE VisionQuestion ---------------------------
(***************************************************************************)
(* Questions about an image: the manager of the desktop window             *)
(* (desktop_vision/runtime.rs), the panel in the headset                   *)
(* (vr_overlay/vision_runtime.rs) and the service behind both              *)
(* (vision/mod.rs, vision/capture.rs), where a spoken question has the     *)
(* microphone for itself.                                                  *)
(*                                                                         *)
(* A question is <<mode, id>>, with the id of its user at the time it was  *)
(* asked.  A task whose id is not current has been aborted: it may still   *)
(* go on, or be dropped at any time, with the session it owns.             *)
(***************************************************************************)
EXTENDS Integers, FiniteSets, Sequences

CONSTANTS
  None,        \* Option::None
  MaxIds,      \* bound: ids the users give out, taken together
  MaxChanges   \* bound: changes of the settings

QuestionAssumption ==
  MaxIds \in Nat /\ MaxChanges \in Nat /\ None \notin Nat

VARIABLES
  settings,    \* what a question depends on, counted; its credential as well
  enabled,     \* whether questions on the desktop are
  holding,     \* questions whose session holds QuestionMicrophoneGuard
  devices,     \* questions whose worker holds it: the device is not closed
  recognition, \* of the session that holds it: running, ok, failed
  released,    \* its audio window is released
  desktop,     \* State of the desktop manager; recording holds the settings
               \* of its session, and cleared is a history: the id of the last
               \* clear
  picker,      \* who holds the PickerPermit: free, vision (the scan
               \* of text, which takes it as well, is OcrScan's)
  tasks,       \* tasks that run or have been aborted
  vr,          \* VisionRuntime
  updates      \* its channel

questionVars == <<settings, enabled, holding, devices, recognition, released,
                  desktop, picker, tasks, vr, updates>>

service    == <<settings, enabled>>
session    == <<holding, recognition, released>>
microphone == <<devices, session>>

QuestionInit ==
  /\ settings = 0 /\ enabled = TRUE
  /\ holding = {} /\ devices = {} /\ recognition = "failed" /\ released = TRUE
  /\ desktop = [service |-> TRUE, available |-> TRUE, state |-> "idle", id |-> 0,
                image |-> None, recording |-> None, answer |-> None,
                cleared |-> 0]
  /\ picker = "free" /\ tasks = {} /\ updates = << >>
  /\ vr = [id |-> 0, view |-> "none", settings |-> None, session |-> FALSE,
           task |-> FALSE, answer |-> None]

MayNumber == desktop.id + vr.id < MaxIds

\* Arc<QuestionMicrophoneGuard>: its last owner gives the microphone back.
Free == holding = {} /\ devices = {}

\* begin_with_capture, up to the spawned recognition
Begin(q) ==
  /\ holding' = holding \cup {q} /\ devices' = devices \cup {q}
  /\ recognition' = "running" /\ released' = FALSE

Task(mode, kind, id, data) ==
  [mode |-> mode, kind |-> kind, id |-> id, stage |-> "start", data |-> data]

At(t, stage) == tasks' = (tasks \ {t}) \cup {[t EXCEPT !.stage = stage]}
Ends(t) == tasks' = tasks \ {t}
Current(t) == t.id = IF t.mode = "vr" THEN vr.id ELSE desktop.id

-----------------------------------------------------------------------------
(* The desktop manager                                                     *)

Busy == desktop.state \in {"capturing", "selecting", "recording", "finalizing_asr",
                           "requesting"}

Question == <<"desktop", desktop.id>>
NextQuestion == <<"desktop", desktop.id + 1>>

Idle(d) == IF ~d.available THEN "disabled"
           ELSE IF d.image # None THEN "editing" ELSE "idle"

\* State::cancel; the session being recorded is dropped with it.
Cancelled(d) ==
  LET c == [d EXCEPT !.id = @ + 1, !.recording = None]
  IN  [c EXCEPT !.state = Idle(c)]

Cleared(d) ==
  LET c == [Cancelled(d) EXCEPT !.image = None, !.answer = None,
                                !.cleared = d.id + 1]
  IN  [c EXCEPT !.state = Idle(c)]

\* The session of q is dropped, if there is one.
Drop(q) ==
  /\ holding' = holding \ {q}
  /\ IF holding' = {} THEN recognition' = "failed" /\ released' = TRUE
                      ELSE UNCHANGED <<recognition, released>>

Unheld == Drop(Question)

\* State::ready
Ready == desktop.service /\ enabled /\ ~Busy

CaptureStart ==
  /\ MayNumber /\ Ready /\ picker = "free"
  /\ picker' = "vision"
  /\ desktop' = [Cancelled(desktop) EXCEPT !.state = "capturing"]
  /\ tasks' = tasks \cup {Task("desktop", "capture", desktop.id + 1, << >>)}
  /\ Unheld
  /\ UNCHANGED <<service, devices, vr, updates>>

\* capture_for: the shortcut's error is shown, unless something is going on.
CaptureRefused ==
  /\ ~Ready \/ picker # "free"
  /\ ~Busy /\ desktop.available
  /\ desktop' = [desktop EXCEPT !.state = "error"]
  /\ UNCHANGED <<service, microphone, picker, tasks, vr, updates>>

\* cancel, also by the shortcut during the selection
CancelDesktop ==
  /\ MayNumber
  /\ desktop' = Cancelled(desktop)
  /\ Unheld
  /\ UNCHANGED <<service, devices, picker, tasks, vr, updates>>

CloseDesktop ==
  /\ MayNumber
  /\ desktop' = Cleared(desktop)
  /\ Unheld
  /\ UNCHANGED <<service, devices, picker, tasks, vr, updates>>

StopDesktop ==
  /\ MayNumber /\ desktop.service
  /\ desktop' = Cleared([desktop EXCEPT !.service = FALSE, !.available = FALSE])
  /\ Unheld
  /\ UNCHANGED <<service, devices, picker, tasks, vr, updates>>

\* start, up to the bridge, and the bridge's configure
StartDesktop ==
  /\ ~desktop.service
  /\ desktop' = [desktop EXCEPT !.service = TRUE]
  /\ UNCHANGED <<service, microphone, picker, tasks, vr, updates>>

Configure ==
  /\ desktop.service
  /\ desktop.available # enabled
  /\ LET d == [desktop EXCEPT !.available = enabled]
     IN  IF d.available
         THEN /\ desktop' = IF d.state = "disabled" THEN [d EXCEPT !.state = "idle"]
                                                    ELSE d
              /\ UNCHANGED session
         ELSE MayNumber /\ desktop' = Cleared(d) /\ Unheld
  /\ UNCHANGED <<service, devices, picker, tasks, vr, updates>>

Ask ==
  /\ MayNumber /\ Ready /\ desktop.image # None
  /\ desktop' = [Cancelled(desktop) EXCEPT !.state = "requesting", !.answer = None]
  /\ tasks' = tasks \cup {Task("desktop", "ask", desktop.id + 1, <<desktop.image>>)}
  /\ Unheld
  /\ UNCHANGED <<service, devices, picker, vr, updates>>

StartRecording ==
  /\ MayNumber /\ Ready /\ desktop.image # None
  /\ \/ /\ Free
        /\ Begin(NextQuestion)
        /\ desktop' = [Cancelled(desktop) EXCEPT !.state = "recording",
                                                 !.recording = settings]
        /\ tasks' = tasks \cup {Task("desktop", "record", desktop.id + 1, << >>)}
     \/ /\ desktop' = [desktop EXCEPT !.state = "error"]
        /\ UNCHANGED <<microphone, tasks>>
  /\ UNCHANGED <<service, picker, vr, updates>>

FinishRecording ==
  /\ desktop.state = "recording" /\ desktop.recording # None
  /\ released' = TRUE
  /\ desktop' = [desktop EXCEPT !.state = "finalizing_asr", !.recording = None]
  /\ tasks' = tasks \cup {Task("desktop", "finalize", desktop.id,
                                   <<desktop.recording>>)}
  /\ UNCHANGED <<service, holding, devices, recognition, picker, vr, updates>>

-----------------------------------------------------------------------------
(* Its tasks                                                               *)

\* State::update
Update(t, d) == desktop' = IF Current(t) THEN d ELSE desktop

\* The screen is captured; a selection follows in a thread of its own.
ScreenTaken_Quiet(t) ==   \* mutant: a screen that cannot be taken is not reported
  /\ t.kind = "capture" /\ t.stage = "start"
  /\ \/ /\ Current(t)
        /\ At(t, "select") /\ desktop' = [desktop EXCEPT !.state = "selecting"]
        /\ UNCHANGED picker
     \/ Ends(t) /\ picker' = "free" /\ UNCHANGED desktop
  /\ UNCHANGED <<service, microphone, vr, updates>>
ScreenTaken(t) ==
  /\ t.kind = "capture" /\ t.stage = "start"
  /\ \/ /\ Current(t)
        /\ At(t, "select") /\ desktop' = [desktop EXCEPT !.state = "selecting"]
        /\ UNCHANGED picker
     \/ /\ Ends(t) /\ picker' = "free"
        /\ Update(t, [desktop EXCEPT !.state = "error"])
  /\ UNCHANGED <<service, microphone, vr, updates>>

\* The thread ends by the user, or because selection_cancelled is set.
Selected(t) ==
  /\ t.kind = "capture" /\ t.stage = "select"
  /\ \E result \in {"image", "nothing", "error"} : At(t, result)
  /\ picker' = "free"
  /\ UNCHANGED <<service, microphone, desktop, vr, updates>>

CaptureEnds(t) ==
  /\ t.kind = "capture" /\ t.stage \in {"image", "nothing", "error"}
  /\ Ends(t)
  /\ Update(t, CASE t.stage = "image" ->
                      [desktop EXCEPT !.image = t.id, !.answer = None,
                                      !.state = "editing"]
                 [] t.stage = "nothing" ->
                      [desktop EXCEPT !.state = IF desktop.image # None
                                                THEN "editing" ELSE "idle"]
                 [] OTHER -> [desktop EXCEPT !.state = "error"])
  /\ UNCHANGED <<service, microphone, picker, vr, updates>>

\* matches_request and the credential; that the headset is enabled is one of
\* the settings
Matches(snapshot) == settings = snapshot

AskStarts(t) ==
  /\ t.kind = "ask" /\ t.stage = "start"
  /\ tasks' = (tasks \ {t}) \cup
                {[t EXCEPT !.stage = "request", !.data = Append(@, settings)]}
  /\ UNCHANGED <<service, microphone, desktop, picker, vr, updates>>

AskEnds(t) ==
  /\ t.kind = "ask" /\ t.stage = "request"
  /\ Ends(t)
  /\ \/ /\ enabled /\ Matches(t.data[2])
        /\ Update(t, [desktop EXCEPT !.answer = t.data[1], !.state = "complete"])
     \/ Update(t, [desktop EXCEPT !.state = "error"])
  /\ UNCHANGED <<service, microphone, picker, vr, updates>>

\* The loop of start_recording: an error of the session, or its time is up.
RecordEnds(t) ==
  /\ t.kind = "record"
  /\ Ends(t)
  /\ IF Current(t) /\ desktop.recording # None
     THEN /\ desktop' = [desktop EXCEPT !.recording = None, !.state = "error"]
          /\ Unheld
     ELSE UNCHANGED <<desktop, session>>
  /\ UNCHANGED <<service, devices, picker, vr, updates>>

\* finalize; the session is dropped.
FinalizeEnds(t) ==
  /\ t.kind = "finalize"
  /\ Ends(t)
  /\ Drop(<<t.mode, t.id>>)
  /\ \/ /\ recognition = "ok" /\ enabled /\ Matches(t.data[1])
        /\ Update(t, [desktop EXCEPT !.state = "editing"])
     \/ Update(t, [desktop EXCEPT !.state = "error"])
  /\ UNCHANGED <<service, devices, picker, vr, updates>>

\* A task that was aborted is dropped, a selection only when its thread ends.
DropTask(t) ==
  /\ ~Current(t) \/ (t.kind = "record" /\ desktop.recording = None)
  /\ t.stage # "select"
  /\ Ends(t)
  /\ picker' = IF t.kind = "capture" /\ t.stage = "start" THEN "free" ELSE picker
  /\ IF t.kind \in {"finalize", "answer"}
     THEN Drop(<<t.mode, t.id>>) ELSE UNCHANGED session
  /\ UNCHANGED <<service, devices, desktop, vr, updates>>

-----------------------------------------------------------------------------
(* The panel in the headset                                                *)

VrQuestion == <<"vr", vr.id>>

Hidden(v) == [id |-> v.id + 1, view |-> "none", settings |-> None,
              session |-> FALSE, task |-> FALSE, answer |-> None]

\* fail
Failed(v) == [Hidden(v) EXCEPT !.view = "error", !.settings = v.settings]

\* Nothing is begun while the panel is busy.
VrBegin ==
  /\ MayNumber /\ ~vr.session /\ ~vr.task
  /\ LET v == [Hidden(vr) EXCEPT !.settings = settings]
     IN  \/ /\ Free
            /\ Begin(<<"vr", v.id>>)
            /\ vr' = [v EXCEPT !.session = TRUE, !.view = "listening"]
         \/ vr' = Failed(v) /\ UNCHANGED microphone
  /\ UNCHANGED <<service, desktop, picker, tasks, updates>>

\* trigger: the trigger is released, or lost.
VrRelease ==
  /\ vr.session
  /\ released' = TRUE
  /\ vr' = [vr EXCEPT !.session = FALSE, !.task = TRUE, !.view = "finalizing"]
  /\ tasks' = tasks \cup {Task("vr", "answer", vr.id, <<vr.settings>>)}
  /\ UNCHANGED <<service, holding, devices, recognition, desktop, picker, updates>>

VrLost ==
  /\ MayNumber /\ vr.session
  /\ vr' = Failed(vr) /\ Drop(VrQuestion)
  /\ UNCHANGED <<service, devices, desktop, picker, tasks, updates>>

VrClose ==
  /\ MayNumber /\ vr.view # "none"
  /\ vr' = Hidden(vr) /\ Drop(VrQuestion)
  /\ UNCHANGED <<service, devices, desktop, picker, tasks, updates>>

Receive(v, update) ==
  IF update.id # v.id THEN v
  ELSE CASE update.kind = "requesting" ->
              IF v.view = "none" THEN v ELSE [v EXCEPT !.view = "requesting"]
         [] update.kind = "answer" ->
              [v EXCEPT !.task = FALSE, !.view = "complete", !.answer = update.id]
         [] OTHER -> Failed(v)

\* The updates are taken in turn.
Received(v, us) ==
  LET after[n \in 0..Len(us)] ==
        IF n = 0 THEN v ELSE Receive(after[n - 1], us[n])
  IN  after[Len(us)]

\* tick: the settings, the session's time and error, the updates, and the end
\* of the time an answer is shown.
Ticked(timeout, expired) ==
  LET v1 == IF vr.settings # None /\ ~Matches(vr.settings)
            THEN Hidden(vr) ELSE vr
      v2 == IF v1.session /\ (timeout \/ recognition = "failed")
            THEN Failed(v1) ELSE v1
      v3 == Received(v2, updates)
  IN  IF expired /\ v3.view \in {"complete", "error"} THEN Hidden(v3) ELSE v3

VrTick(timeout) ==
  /\ vr.view = "none" => updates # << >>
  /\ \E expired \in BOOLEAN : vr' = Ticked(timeout, expired)
  /\ IF vr.session /\ ~vr'.session THEN Drop(VrQuestion) ELSE UNCHANGED session
  /\ updates' = << >>
  /\ UNCHANGED <<service, devices, desktop, picker, tasks>>

Send(t, kind) == updates' = Append(updates, [id |-> t.id, kind |-> kind])

\* finalize_question succeeds: the microphone is given back before the request.
AnswerFinalized(t) ==
  /\ t.kind = "answer" /\ t.stage = "start"
  /\ recognition = "ok" /\ Matches(t.data[1])
  /\ At(t, "request") /\ Send(t, "requesting")
  /\ Drop(<<t.mode, t.id>>)
  /\ UNCHANGED <<service, devices, desktop, picker, vr>>

AnswerEnds(t) ==
  /\ t.kind = "answer"
  /\ Ends(t)
  /\ Drop(<<t.mode, t.id>>)
  /\ \/ t.stage = "request" /\ Matches(t.data[1]) /\ Send(t, "answer")
     \/ Send(t, "error")
  /\ UNCHANGED <<service, devices, desktop, picker, vr>>

-----------------------------------------------------------------------------
(* The service and what is around                                          *)

\* The recognition of the session that has the microphone.
Recognize ==
  /\ holding # {} /\ recognition = "running"
  /\ \/ released /\ recognition' = "ok"
     \/ recognition' = "failed"
  /\ UNCHANGED <<service, holding, devices, released, desktop, picker, tasks, vr,
                 updates>>

\* run_capture has stopped the device: it was cancelled, it was complete, or
\* it failed.
CloseDevice(q) ==
  /\ q \in devices
  /\ devices' = devices \ {q}
  /\ recognition' = IF q \in holding /\ ~released THEN "failed" ELSE recognition
  /\ UNCHANGED <<service, holding, released, desktop, picker, tasks, vr, updates>>

ChangeSettings ==
  /\ settings < MaxChanges
  /\ settings' = settings + 1
  /\ enabled' \in BOOLEAN
  /\ UNCHANGED <<microphone, desktop, picker, tasks, vr, updates>>

-----------------------------------------------------------------------------
Desktop ==
  \/ CaptureStart \/ CaptureRefused \/ CancelDesktop \/ CloseDesktop
  \/ StopDesktop \/ StartDesktop \/ Configure
  \/ Ask \/ StartRecording \/ FinishRecording

Headset == VrBegin \/ VrRelease \/ VrLost \/ VrClose
           \/ (\E timeout \in BOOLEAN : VrTick(timeout))

Work(t) ==
  \/ ScreenTaken(t) \/ CaptureEnds(t) \/ AskStarts(t) \/ AskEnds(t)
  \/ RecordEnds(t) \/ FinalizeEnds(t) \/ AnswerFinalized(t) \/ AnswerEnds(t)
  \/ DropTask(t)

Around ==
  \/ Recognize \/ (\E q \in devices : CloseDevice(q))
  \/ ChangeSettings

QuestionNext ==
  Desktop \/ Headset \/ (\E t \in tasks : Work(t) \/ Selected(t)) \/ Around

\* Requests, recordings and recognitions have deadlines, the headset ticks;
\* nobody has to select a region, but a selection that is cancelled ends.  One
\* condition is enough, since each of them is done after a few steps.
QuestionFairness ==
  WF_questionVars(
    \/ \E t \in tasks : Work(t) \/ (~Current(t) /\ Selected(t))
    \/ \E q \in devices \ holding : CloseDevice(q)
    \/ VrTick(TRUE))

QuestionSpec ==
  QuestionInit /\ [][QuestionNext]_questionVars /\ QuestionFairness
-----------------------------------------------------------------------------
(* Properties                                                              *)

\* One question has the microphone at a time: a new one is not begun before
\* the device of the last one is closed, however it was ended.
OneMicrophone == Cardinality(holding \cup devices) <= 1

\* Somebody works on what is shown as going on.
BusyIsWorkedOn ==
  /\ Busy => \E t \in tasks :
               t.mode = "desktop" /\ Current(t)
               /\ t.kind = CASE desktop.state \in {"capturing", "selecting"} -> "capture"
                             [] desktop.state = "recording"      -> "record"
                             [] desktop.state = "finalizing_asr" -> "finalize"
                             [] OTHER -> "ask"
  /\ desktop.state = "recording" =>
       desktop.recording # None /\ Question \in holding
  /\ vr.view = "listening" => vr.session /\ VrQuestion \in holding
  /\ vr.view \in {"finalizing", "requesting"} =>
       \/ \E t \in tasks : t.mode = "vr" /\ Current(t)
       \/ \E i \in DOMAIN updates :
            updates[i].id = vr.id /\ updates[i].kind \in {"answer", "error"}

\* An image is newer than the last time the window was cleared, an answer is
\* about the image that is shown, and in the headset about the last question.
ContentIsCurrent ==
  /\ desktop.image # None => desktop.image > desktop.cleared
  /\ desktop.answer # None => desktop.answer = desktop.image
  /\ vr.view = "complete" => vr.answer = vr.id

\* The microphone is given back, and what is going on ends, except a
\* selection; one that is cancelled returns its permit (each again and again).
NotHolding     == holding = {}
DeviceClosed   == devices = {}
DesktopSettled == Busy => desktop.state = "selecting"
OverlaySettled == vr.view \in {"none", "complete", "error"}
PickerSettled  == picker = "vision" => Busy
=============================================================================
