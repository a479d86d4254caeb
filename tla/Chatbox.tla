------------------------------ MODULE Chatbox ------------------------------
(***************************************************************************)
(* What the OSC dispatcher promises to its callers and to whoever reads    *)
(* the VRChat Chatbox, without its channel, its queue, its revisions and   *)
(* its clock.  A manual message that has been accepted is pending until it *)
(* is shown or given up, and its caller learns which; the captions of the  *)
(* microphone never go back to an older subtitle.                          *)
(***************************************************************************)
EXTENDS Naturals

CONSTANTS
  Subtitles,  \* database ids of the microphone's subtitles
  Manuals,    \* calls of send_manual
  Tests,      \* calls of queue_test
  None        \* nothing is shown

VARIABLES
  reply,    \* what each send_manual call has been told
  pending,  \* manual messages that will be shown or given up
  display,  \* what the Chatbox shows
  newest    \* the newest subtitle shown

chatboxVars == <<reply, pending, display, newest>>

ChatboxInit ==
  /\ reply = [m \in Manuals |-> "idle"]
  /\ pending = {}
  /\ display = None
  /\ newest = 0

\* Only callers that still wait are told.
TellCallers(S, answer) ==
  reply' = [m \in Manuals |-> IF m \in S /\ reply[m] = "waiting" THEN answer
                                                                 ELSE reply[m]]

Request(m) ==
  /\ reply[m] = "idle"
  /\ reply' = [reply EXCEPT ![m] = "waiting"]
  /\ pending' = pending \cup {m}
  /\ UNCHANGED <<display, newest>>

Refuse(m) ==
  /\ reply[m] = "idle"
  /\ \E answer \in {"disabled", "queue_full"} :
       reply' = [reply EXCEPT ![m] = answer]
  /\ UNCHANGED <<pending, display, newest>>

\* The caller stops waiting; its message may still be shown.
StopWaiting(m) ==
  /\ reply[m] = "waiting"
  /\ reply' = [reply EXCEPT ![m] = "timeout"]
  /\ UNCHANGED <<pending, display, newest>>

GiveUp(S) ==
  /\ pending' = pending \ S
  /\ \E answer \in {"queue_full", "cancelled", "failed"} :
       TellCallers(S, answer)
  /\ UNCHANGED <<display, newest>>

ShowManual(m) ==
  /\ display' = m
  /\ pending' = pending \ {m}
  /\ TellCallers({m}, "sent")
  /\ UNCHANGED newest

\* A newer subtitle, or the one on display with another translation.
ShowSubtitle(s) ==
  /\ s > newest \/ display = s
  /\ display' = s
  /\ newest' = IF s > newest THEN s ELSE newest
  /\ UNCHANGED <<reply, pending>>

ShowTest(t) ==
  /\ display' = t
  /\ UNCHANGED <<reply, pending, newest>>

ChatboxNext ==
  \/ \E m \in Manuals : Request(m) \/ Refuse(m) \/ StopWaiting(m)
  \/ \E S \in SUBSET pending : GiveUp(S)
  \/ \E m \in pending : ShowManual(m)
  \/ \E s \in Subtitles : ShowSubtitle(s)
  \/ \E t \in Tests : ShowTest(t)

ChatboxSpec == ChatboxInit /\ [][ChatboxNext]_chatboxVars
=============================================================================
