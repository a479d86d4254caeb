------------------------- MODULE MicrophoneSpeakers -------------------------
(***************************************************************************)
(* The speaker filter of the microphone (src/core/src/                     *)
(* microphone_speakers.rs): which utterances may still be stored, shown,   *)
(* translated or sent.  Everything is one mutex, so every operation is one *)
(* step, and so is a commit made under with_allowed.                       *)
(*                                                                         *)
(* An utterance is [session, number]: the native ids of Qwen Live          *)
(* Translate carry the connection they come from, other ids do not         *)
(* (session 0, as the empty generation).                                   *)
(***************************************************************************)
EXTENDS Integers, FiniteSets, SequencesExt

CONSTANTS
  Utterances,      \* utterance ids: records [session, number]
  Speakers,        \* the speakers the provider tells apart
  None,            \* Option::None
  MaxSpeakers,     \* MAX_SPEAKERS
  MaxUtterances,   \* MAX_UTTERANCES
  MaxRevision      \* bound: changes of the policy explored

ASSUME SpeakersAssumption ==
  /\ Utterances \subseteq [session : Nat, number : Nat]
  /\ None \notin Speakers
  /\ MaxSpeakers \in Nat \ {0} /\ MaxUtterances \in Nat \ {0}
  /\ MaxRevision \in Nat

VARIABLES
  policy,      \* SpeakerSnapshot without its speakers
  decision,    \* SpeakerSnapshot.speakers: the decision about each one listed
  utterances,  \* State.utterances: [speaker, revoked] of each one remembered
  order,       \* State.order: the utterances remembered, oldest first
  sessions,    \* connections opened so far
  revokedEver  \* history: the utterances revoked since they were first heard

filter == <<policy, decision, utterances, order, sessions, revokedEver>>

Nothing == [x \in {} |-> x]

\* The microphone has just been started, with the setting of the configuration
\* and, if the provider tells speakers apart, its first connection.
FilterInit ==
  /\ \E enabled, supported \in BOOLEAN :
       /\ policy = [enabled |-> enabled, supported |-> supported,
                     running |-> TRUE, revision |-> 0,
                     generation |-> IF supported THEN 1 ELSE 0]
       /\ sessions = policy.generation
  /\ decision = Nothing
  /\ utterances = Nothing
  /\ order = << >>
  /\ revokedEver = {}

Blocked(s) == s \in DOMAIN decision /\ decision[s] = "block"

\* Marks a set of the remembered utterances as revoked.
Revoke(S) ==
  /\ utterances' = [u \in DOMAIN utterances |->
                      [utterances[u] EXCEPT !.revoked = @ \/ u \in S]]
  /\ revokedEver' = revokedEver \cup S
  /\ UNCHANGED order

\* reset, with the other changes of its caller made to the policy before.
Reset(p, generation) ==
  /\ policy' = [p EXCEPT !.generation = generation, !.revision = @ + 1]
  /\ decision' = Nothing
  /\ Revoke(IF p.enabled THEN DOMAIN utterances ELSE {})

MayChange == policy.revision < MaxRevision

\* start, for a provider that does or does not tell speakers apart
Start(supported) ==
  /\ MayChange /\ ~policy.running
  /\ Reset([policy EXCEPT !.supported = supported, !.running = TRUE], 0)
  /\ UNCHANGED sessions

Stop ==
  /\ MayChange /\ policy.running
  /\ Reset([policy EXCEPT !.running = FALSE], 0)
  /\ UNCHANGED sessions

\* begin_session: a connection is there (SpeakerSession) or the recognition
\* session is lost (Failed with reset_session).
BeginSession ==
  /\ MayChange /\ policy.running /\ policy.supported
  /\ sessions' = sessions + 1
  /\ Reset(policy, sessions')

LoseSession ==
  /\ MayChange /\ policy.running
  /\ Reset(policy, 0)
  /\ UNCHANGED sessions

SetEnabled(enabled) ==
  /\ MayChange /\ policy.enabled # enabled
  /\ policy' = [policy EXCEPT !.enabled = enabled, !.revision = @ + 1]
  /\ Revoke(DOMAIN utterances)
  /\ UNCHANGED <<decision, sessions>>

\* apply, with the selections of a client whose generation and revision are
\* current; any other request is refused as stale and changes nothing.  The
\* handler passes the filter's own setting on, so a selection toggles nothing.
Apply(selection) ==
  /\ MayChange /\ DOMAIN selection \subseteq DOMAIN decision
  /\ policy.enabled => policy.supported /\ policy.running
                       /\ policy.generation # 0
  /\ decision' = selection @@ decision
  /\ LET blocked == {s \in DOMAIN decision' : decision'[s] = "block"}
     IN  Revoke({u \in DOMAIN utterances :
                   policy.enabled /\ utterances[u].speaker \in blocked})
  /\ policy' = [policy EXCEPT !.revision = @ + 1]
  /\ UNCHANGED sessions

\* What the filter remembers of u once its speaker (or None) is known.
Remembered(u, s) ==
  LET blocked == policy.enabled /\ Blocked(s)
      known   == utterances[u]
  IN  IF u \notin DOMAIN utterances
      THEN [speaker |-> s, revoked |-> blocked]
      ELSE IF s = None THEN known
      ELSE [speaker |-> s,
            revoked |-> \/ known.revoked
                        \/ known.speaker \notin {None, s}
                        \/ blocked]

\* discover: the utterance and its speaker are remembered; the oldest
\* utterance is forgotten when there are too many.
Discover(u, s) ==
  LET all  == IF u \in DOMAIN utterances THEN order ELSE Append(order, u)
      kept == IF Len(all) > MaxUtterances THEN Tail(all) ELSE all
      now  == [x \in ToSet(all) |-> IF x = u THEN Remembered(u, s)
                                             ELSE utterances[x]]
  IN  /\ order' = kept
      /\ utterances' = [x \in ToSet(kept) |-> now[x]]
      /\ revokedEver' = (IF now[u].revoked THEN revokedEver \cup {u}
                                           ELSE revokedEver) \cap ToSet(kept)
      /\ decision' =
           IF s # None /\ s \notin DOMAIN decision
              /\ Cardinality(DOMAIN decision) < MaxSpeakers
           THEN [x \in DOMAIN decision \cup {s} |->
                   IF x = s THEN "allow" ELSE decision[x]]
           ELSE decision
      /\ UNCHANGED <<policy, sessions>>

\* The recognition of u is under way: an event of its connection names it.
Recognizable(u) ==
  /\ policy.running
  /\ u.session = policy.generation
  /\ policy.supported <=> u.session # 0

\* with_allowed for an utterance of the microphone
Allows(u) ==
  /\ u.session # 0 => /\ u \in DOMAIN utterances
                      /\ policy.enabled => u.session = policy.generation
  /\ u \in DOMAIN utterances => ~utterances[u].revoked
  /\ policy.enabled =>
       /\ policy.running /\ policy.supported
       /\ u \in DOMAIN utterances /\ utterances[u].speaker # None
       /\ ~Blocked(utterances[u].speaker)

=============================================================================
