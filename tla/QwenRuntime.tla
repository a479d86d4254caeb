----------------------------- MODULE QwenRuntime -----------------------------
(***************************************************************************)
(* The supervisor of the local recognition process (src/core/src/asr/      *)
(* qwen_runtime.rs) and its users: pipelines, players and questions that   *)
(* start it (asr/session.rs) and the upload workers that reconnect to it   *)
(* before every request (asr/segmented_upload.rs).                         *)
(*                                                                         *)
(* A step is one critical section of the state's mutex.  Starting spans    *)
(* several of them under the startup lock, which is taken in turn, while   *)
(* stop and cancel_loading take only the mutex.  The process may exit at   *)
(* any moment and is noticed by the next check_child.                      *)
(***************************************************************************)
EXTENDS FiniteSets, Functions, MessageQueue

CONSTANTS
  Models,         \* selections: model files and device
  Users,          \* sessions that use the runtime
  None,           \* Option::None
  MaxSession,     \* bound: starts of another selection, and stops
  MaxGeneration   \* bound: processes started

RuntimeAssumption ==
  /\ None \notin Models \cup Users \cup [session : Nat, generation : Nat]
  /\ MaxSession \in Nat /\ MaxGeneration \in Nat

VARIABLES
  selection,   \* RuntimeState.selection
  status,      \* RuntimeState.status
  runSession,  \* RuntimeState.session
  generation,  \* RuntimeState.generation
  child,       \* RuntimeState.child: None or [session, up]
  connection,  \* RuntimeState.connection: None or [session, generation]
  startup,     \* the user that holds the startup lock, or None
  waiting,     \* those that wait for it: [user, want], want None to reconnect
  launch,      \* start_selection: what its caller is doing
  user         \* what each user is doing and the connection it holds

runtimeVars == <<selection, status, runSession, generation, child, connection,
                 startup, waiting, launch, user>>

process == <<selection, status, runSession, generation, child, connection>>

NoLaunch == [step |-> "none", session |-> 0, generation |-> 0, device |-> "cpu"]
Idle     == [at |-> "idle", conn |-> None]

RuntimeInit ==
  /\ selection = None /\ status = "not_loaded"
  /\ runSession = 0 /\ generation = 0
  /\ child = None /\ connection = None
  /\ startup = None /\ waiting = << >> /\ launch = NoLaunch
  /\ user = [u \in Users |-> Idle]

-----------------------------------------------------------------------------
\* check_child: the child, connection and status that follow it.
Exited == child # None /\ ~child.up

Checked ==
  IF Exited THEN [child |-> None, connection |-> None, status |-> "error"]
            ELSE [child |-> child, connection |-> connection, status |-> status]

Check ==
  /\ child' = Checked.child
  /\ connection' = Checked.connection
  /\ status' = Checked.status

\* The process ends by itself.
Exit ==
  /\ child # None /\ child.up
  /\ child' = [child EXCEPT !.up = FALSE]
  /\ UNCHANGED <<selection, status, runSession, generation, connection,
                 startup, waiting, launch, user>>

\* snapshot, uses_package and any other look at the state
Look ==
  /\ Exited /\ Check
  /\ UNCHANGED <<selection, runSession, generation, startup, waiting, launch,
                 user>>

\* users that will start a selection, which may be another one
Starters == {u \in Users : user[u].at = "waiting"}

\* stop_session: stop, and cancel_loading while something is loading.
StopSession_Keep ==   \* mutant: a start that is under way may go on
  /\ selection' = None /\ status' = "not_loaded"
  /\ child' = None /\ connection' = None
  /\ UNCHANGED <<runSession, generation, startup, waiting, launch, user>>
StopSession ==
  /\ runSession + Cardinality(Starters) < MaxSession
  /\ runSession' = runSession + 1
  /\ selection' = None /\ status' = "not_loaded"
  /\ child' = None /\ connection' = None
  /\ UNCHANGED <<generation, startup, waiting, launch, user>>

CancelLoading == status = "loading" /\ StopSession

-----------------------------------------------------------------------------
(* Starting                                                                *)

Wait(u, from, to, want) ==
  /\ user[u].at = from
  /\ user' = [user EXCEPT ![u].at = to]
  /\ waiting' = Append(waiting, [user |-> u, want |-> want])
  /\ UNCHANGED <<process, startup, launch>>

WantStarted(u, m) ==
  /\ runSession + Cardinality(Starters) < MaxSession
  /\ Wait(u, "idle", "waiting", m)

\* The worker takes a job.
TakeUpload(u) == Wait(u, "ready", "asking", None)

\* The startup lock goes to the first that waits.
Turn(u) ==
  /\ startup = None /\ waiting # << >>
  /\ Head(waiting).user = u /\ waiting' = Tail(waiting)

Launched(u, session) ==
  /\ startup' = u
  /\ \E device \in {"cpu", "gpu"} :
       launch' = [step |-> "spawn", session |-> session, generation |-> 0,
                  device |-> device]

\* ensure_started up to start_selection
EnsureStarted(u) ==
  /\ Turn(u) /\ user[u].at = "waiting"
  /\ LET m == Head(waiting).want
         same == selection = m
     IN  IF same /\ Checked.connection # None
         THEN /\ user' = [user EXCEPT ![u] = [at |-> "ready",
                                              conn |-> Checked.connection]]
              /\ Check
              /\ UNCHANGED <<selection, runSession, startup, launch>>
         ELSE /\ runSession' = IF same THEN runSession ELSE runSession + 1
              /\ selection' = m /\ status' = "loading"
              /\ child' = None /\ connection' = None
              /\ user' = [user EXCEPT ![u].at = "starting"]
              /\ Launched(u, runSession')
  /\ UNCHANGED generation

\* reconnect up to start_selection, for a worker with a job
Reconnect(u) ==
  /\ Turn(u) /\ user[u].at = "asking"
  /\ IF runSession # user[u].conn.session \/ selection = None
     THEN /\ user' = [user EXCEPT ![u].at = "failed"]
          /\ Check
          /\ UNCHANGED <<startup, launch>>
     ELSE IF Checked.connection # None
     THEN /\ user' = [user EXCEPT ![u] = [at |-> "sent",
                                          conn |-> Checked.connection]]
          /\ Check
          /\ UNCHANGED <<startup, launch>>
     ELSE /\ child' = Checked.child /\ connection' = None
          /\ status' = "loading"
          /\ user' = [user EXCEPT ![u].at = "restarting"]
          /\ Launched(u, runSession)
  /\ UNCHANGED <<selection, runSession, generation>>

Current == launch.session = runSession

\* launch, up to the process; the one it replaces is killed when dropped.
SpawnChild ==
  /\ launch.step = "spawn" /\ Current /\ generation < MaxGeneration
  /\ generation' = generation + 1
  /\ child' = [session |-> launch.session, up |-> TRUE]
  /\ launch' = [launch EXCEPT !.step = "probe", !.generation = generation']
  /\ UNCHANGED <<selection, status, runSession, connection, startup, waiting, user>>

\* The loop of launch: the process answers the probe; others get their turn at
\* the mutex before the connection is published.
ProbeReady ==
  /\ launch.step = "probe" /\ Current /\ child # None /\ child.up
  /\ launch' = [launch EXCEPT !.step = "answered"]
  /\ UNCHANGED <<selection, status, runSession, generation, child, connection,
                 startup, waiting, user>>

PublishConnection ==
  /\ launch.step = "answered" /\ Current
  /\ connection' = [session |-> launch.session,
                    generation |-> launch.generation]
  /\ status' = "ready"
  /\ user' = [user EXCEPT ![startup] =
                [at |-> IF @.at = "starting" THEN "ready" ELSE "sent",
                 conn |-> connection']]
  /\ startup' = None /\ launch' = NoLaunch
  /\ UNCHANGED <<selection, runSession, generation, child, waiting>>

\* The start fails: it is cancelled, the process exits or does not get ready
\* in time, or it cannot be spawned.  What goes on is up to the session.
LaunchFails ==
  /\ launch.step # "none"
  /\ launch.step = "answered" => ~Current
  /\ IF ~Current
     THEN /\ launch' = NoLaunch /\ startup' = None
          /\ user' = [user EXCEPT ![startup].at =
                        IF @ = "starting" THEN "idle" ELSE "failed"]
          /\ UNCHANGED <<child, connection, status>>
     ELSE /\ child' = None /\ connection' = None
          /\ \/ /\ launch.device = "gpu"
                /\ launch' = [launch EXCEPT !.step = "spawn", !.device = "cpu"]
                /\ UNCHANGED <<startup, status, user>>
             \/ /\ launch' = NoLaunch /\ startup' = None
                /\ status' = "error"
                /\ user' = [user EXCEPT ![startup].at =
                              IF @ = "starting" THEN "idle" ELSE "failed"]
  /\ UNCHANGED <<selection, runSession, generation, waiting>>

\* The future of a start is dropped: the player left, the question was taken
\* back, the request of the settings page ended, or the worker is aborted.
DropStart ==
  /\ launch.step # "none"
  /\ launch' = NoLaunch /\ startup' = None
  /\ user' = [user EXCEPT ![startup] = Idle]
  /\ UNCHANGED <<process, waiting>>

DropWaiting(u) ==
  /\ user[u].at \in {"waiting", "asking"}
  /\ user' = [user EXCEPT ![u] = Idle]
  /\ waiting' = Keep(waiting, {w \in Range(waiting) : w.user # u})
  /\ UNCHANGED <<process, startup, launch>>

-----------------------------------------------------------------------------
(* The upload worker                                                       *)

UserStep(u, from, to) ==
  /\ user[u].at = from
  /\ user' = [user EXCEPT ![u].at = to]

Untouched == UNCHANGED <<process, startup, waiting, launch>>

\* The process it was sent to transcribes the request, or the request fails.
Transcribe(u) ==
  /\ \/ /\ UserStep(u, "sent", "answered")
        /\ child # None /\ child.up /\ user[u].conn.generation = generation
     \/ UserStep(u, "sent", "failed")
  /\ Untouched

\* connection after the request: the answer counts if nothing was replaced.
Accept(u) ==
  /\ user[u].at = "answered"
  /\ IF /\ Checked.connection # None
        /\ Checked.connection.generation = user[u].conn.generation
     THEN UserStep(u, "answered", "accepted")
     ELSE UserStep(u, "answered", "failed")
  /\ Check
  /\ UNCHANGED <<selection, runSession, generation, startup, waiting, launch>>

\* The event is sent and the next job taken.
Report(u) ==
  /\ UserStep(u, "accepted", "ready") \/ UserStep(u, "failed", "ready")
  /\ Untouched

\* The session ends, with its worker.
EndUser(u) ==
  /\ user[u].at \in {"ready", "sent", "answered", "accepted", "failed"}
  /\ user' = [user EXCEPT ![u] = Idle]
  /\ Untouched

-----------------------------------------------------------------------------
Starting == SpawnChild \/ ProbeReady \/ PublishConnection \/ LaunchFails

RuntimeNext ==
  \/ Exit \/ Look \/ StopSession \/ CancelLoading
  \/ \E u \in Users, m \in Models : WantStarted(u, m)
  \/ Starting \/ DropStart
  \/ \E u \in Users :
       \/ DropWaiting(u) \/ EnsureStarted(u) \/ Reconnect(u) \/ TakeUpload(u)
       \/ Transcribe(u) \/ Accept(u) \/ Report(u) \/ EndUser(u)

\* A start has a deadline and the lock is handed over; a worker goes on and
\* its requests have timeouts.
RuntimeFairness ==
  /\ WF_runtimeVars(Starting \/ \E u \in Users : EnsureStarted(u) \/ Reconnect(u))
  /\ \A u \in Users : WF_runtimeVars(Transcribe(u) \/ Accept(u) \/ Report(u))

RuntimeSpec == RuntimeInit /\ [][RuntimeNext]_runtimeVars /\ RuntimeFairness
-----------------------------------------------------------------------------
(* Properties                                                              *)

\* "Stopped or replaced captures must not be resurrected by old workers": a
\* process that runs was started for the selection that is wanted now, and a
\* user that works with the runtime works with the process of its own
\* selection; no start that was under way outlives a stop.
StoppedStaysStopped ==
  /\ child # None => selection # None /\ child.session = runSession
  /\ connection # None => selection # None /\ connection.session = runSession
  /\ selection = None => status \in {"not_loaded", "error"}
  /\ status = "loading" => selection # None
  /\ \A u \in Users :
       user[u].at = "accepted" /\ user[u].conn.session = runSession
         => selection # None

\* An answer is accepted only from the process that runs when it is, and a
\* worker never leaves the session it was created for: after a stop or a new
\* selection all it reports is failures.
AnswersAreCurrent ==
  [][\A u \in Users :
       /\ user[u].at = "answered" /\ user'[u].at = "accepted"
            => /\ connection' # None /\ user[u].conn = connection'
               /\ child' # None => child'.session = user[u].conn.session
       /\ user[u].conn # None /\ user'[u].conn # None
            => user'[u].conn.session = user[u].conn.session]_runtimeVars

\* Whoever asks for the runtime is answered (again and again): with a
\* connection, a restarted process or a failure, but never kept behind the
\* starts of others for ever.
Asking == {"waiting", "starting", "asking", "restarting", "sent"}

Answered(u) == user[u].at \notin Asking
=============================================================================
