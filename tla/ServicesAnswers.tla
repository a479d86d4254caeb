--------------------------- MODULE ServicesAnswers ---------------------------
(***************************************************************************)
(* The services' answers go to those who still want them: translations,    *)
(* the local recognition process and the scan of text in view.             *)
(***************************************************************************)
EXTENDS ServicesProofs

-----------------------------------------------------------------------------
(* Translations: the speaker filter                                        *)

PolicyState == [enabled : BOOLEAN, supported : BOOLEAN, running : BOOLEAN,
                revision : Nat, generation : Nat]
Remembrance == [speaker : Speakers \cup {None}, revoked : BOOLEAN]

\* The history agrees with what the filter remembers.
FilterInv ==
  /\ policy \in PolicyState /\ sessions \in Nat
  /\ DOMAIN utterances \subseteq Utterances
  /\ utterances \in [DOMAIN utterances -> Remembrance]
  /\ order \in Seq(Utterances) /\ ToSet(order) \subseteq DOMAIN utterances
  /\ revokedEver = {u \in DOMAIN utterances : utterances[u].revoked}

\* What a change of the filter does to utterances that are not in H: it is not
\* their discovery, nothing is taken back from being taken back, and what it
\* does not revoke it goes on to allow.
Moves(H) ==
  /\ \A u \in DOMAIN utterances' : u \in H \/ u \in DOMAIN utterances
  /\ revokedEver \cap DOMAIN utterances' \subseteq revokedEver'
  /\ \A u \in DOMAIN utterances' :
       u \in H \/ u \in revokedEver' \/ (Allows(u) => Allows(u)')

\* A policy after some of its fields changed.
LEMMA PolicyChanges ==
  ASSUME NEW p \in PolicyState, NEW enabled \in BOOLEAN, NEW g \in Nat
  PROVE  /\ [p EXCEPT !.generation = g, !.revision = @ + 1] \in PolicyState
         /\ [p EXCEPT !.generation = g, !.revision = @ + 1].enabled = p.enabled
         /\ [p EXCEPT !.enabled = enabled, !.revision = @ + 1] \in PolicyState
         /\ [p EXCEPT !.revision = @ + 1] \in PolicyState
<1>1. {"enabled", "supported", "running", "revision", "generation"} \subseteq DOMAIN p
  BY DEF PolicyState
<1>2. p.revision + 1 \in Nat
  BY DEF PolicyState
<1>. QED BY <1>1, <1>2 DEF PolicyState

LEMMA FilterStart ==
  ASSUME FilterInit
  PROVE  FilterInv
<1>1. utterances = Nothing /\ order = << >> /\ revokedEver = {}
  BY DEF FilterInit
<1>2. policy \in PolicyState /\ sessions \in Nat
  BY DEF FilterInit, PolicyState
<1>3. DOMAIN utterances = {} /\ utterances \in [DOMAIN utterances -> Remembrance]
  BY <1>1 DEF Nothing
<1>4. order \in Seq(Utterances) /\ ToSet(order) = {}
  BY <1>1 DEF ToSet
<1>. QED BY <1>1, <1>2, <1>3, <1>4 DEF FilterInv

\* Revoke marks what it is told to mark, and nothing else.
LEMMA FilterRevokes ==
  ASSUME FilterInv, NEW S \in SUBSET DOMAIN utterances, Revoke(S)
  PROVE  /\ DOMAIN utterances' = DOMAIN utterances
         /\ utterances' \in [DOMAIN utterances' -> Remembrance]
         /\ \A u \in DOMAIN utterances :
              /\ utterances'[u].speaker = utterances[u].speaker
              /\ utterances'[u].revoked <=> utterances[u].revoked \/ u \in S
         /\ order' = order
         /\ revokedEver' = {u \in DOMAIN utterances' : utterances'[u].revoked}
         /\ revokedEver \subseteq revokedEver' /\ S \subseteq revokedEver'
<1>1. /\ utterances' = [u \in DOMAIN utterances |->
                          [utterances[u] EXCEPT !.revoked = @ \/ u \in S]]
      /\ revokedEver' = revokedEver \cup S /\ order' = order
  BY DEF Revoke
<1>2. \A u \in DOMAIN utterances : utterances[u] \in Remembrance
  BY DEF FilterInv
<1>3. \A u \in DOMAIN utterances :
        /\ utterances'[u] \in Remembrance
        /\ utterances'[u].speaker = utterances[u].speaker
        /\ utterances'[u].revoked <=> utterances[u].revoked \/ u \in S
  BY <1>1, <1>2 DEF Remembrance
<1>4. DOMAIN utterances' = DOMAIN utterances
  BY <1>1
<1>5. utterances' \in [DOMAIN utterances' -> Remembrance]
  BY <1>1, <1>3, <1>4
<1>6. revokedEver = {u \in DOMAIN utterances : utterances[u].revoked}
  BY DEF FilterInv
<1>. QED BY <1>1, <1>3, <1>4, <1>5, <1>6

\* The filter's new start takes back everything, or nothing is filtered.
LEMMA FilterResets ==
  ASSUME FilterInv, NEW p \in PolicyState, p.enabled = policy.enabled,
         NEW g \in Nat, Reset(p, g), sessions' \in Nat
  PROVE  FilterInv' /\ Moves({})
<1>. DEFINE S == IF p.enabled THEN DOMAIN utterances ELSE {}
<1>1. Revoke(S) /\ policy' = [p EXCEPT !.generation = g, !.revision = @ + 1]
  BY DEF Reset
<1>2. policy' \in PolicyState /\ policy'.enabled = p.enabled
  BY <1>1, PolicyChanges
<1>3. /\ DOMAIN utterances' = DOMAIN utterances
      /\ utterances' \in [DOMAIN utterances' -> Remembrance]
      /\ \A u \in DOMAIN utterances :
           utterances'[u].revoked <=> utterances[u].revoked \/ u \in S
      /\ order' = order
      /\ revokedEver' = {u \in DOMAIN utterances' : utterances'[u].revoked}
      /\ revokedEver \subseteq revokedEver' /\ S \subseteq revokedEver'
  BY <1>1, FilterRevokes
<1>4. FilterInv'
  BY <1>2, <1>3 DEF FilterInv
<1>5. ASSUME NEW u \in DOMAIN utterances', u \notin revokedEver', Allows(u)
      PROVE  Allows(u)'
  <2>1. ~p.enabled /\ S = {}
    BY <1>3, <1>5
  <2>2. ~utterances'[u].revoked
    BY <1>3, <1>5
  <2>. QED BY <1>2, <1>3, <2>1, <2>2 DEF Allows
<1>. QED BY <1>3, <1>4, <1>5 DEF Moves

LEMMA FilterSet ==
  ASSUME FilterInv, NEW enabled \in BOOLEAN, SetEnabled(enabled)
  PROVE  FilterInv' /\ Moves({})
<1>1. /\ Revoke(DOMAIN utterances) /\ sessions' = sessions
      /\ policy' = [policy EXCEPT !.enabled = enabled, !.revision = @ + 1]
  BY DEF SetEnabled
<1>2. policy' \in PolicyState
  BY <1>1, PolicyChanges DEF FilterInv
<1>3. /\ DOMAIN utterances' = DOMAIN utterances
      /\ utterances' \in [DOMAIN utterances' -> Remembrance]
      /\ order' = order
      /\ revokedEver' = {u \in DOMAIN utterances' : utterances'[u].revoked}
      /\ revokedEver \subseteq revokedEver' /\ DOMAIN utterances \subseteq revokedEver'
  BY <1>1, FilterRevokes
<1>. QED BY <1>1, <1>2, <1>3 DEF Moves, FilterInv

LEMMA FilterApplies ==
  ASSUME FilterInv, NEW s, NEW d, Apply(s :> d)
  PROVE  FilterInv' /\ Moves({})
<1>. DEFINE blocked == {x \in DOMAIN decision' : decision'[x] = "block"}
            S == {u \in DOMAIN utterances :
                    policy.enabled /\ utterances[u].speaker \in blocked}
<1>1. /\ Revoke(S) /\ sessions' = sessions
      /\ policy' = [policy EXCEPT !.revision = @ + 1]
  BY DEF Apply
<1>2. policy' \in PolicyState /\ policy'.enabled = policy.enabled
      /\ policy'.running = policy.running /\ policy'.supported = policy.supported
      /\ policy'.generation = policy.generation
  <2>1. policy \in PolicyState
    BY DEF FilterInv
  <2>2. policy' \in PolicyState
    BY <1>1, <2>1, PolicyChanges
  <2>. QED BY <1>1, <2>1, <2>2 DEF PolicyState
<1>3. /\ DOMAIN utterances' = DOMAIN utterances
      /\ utterances' \in [DOMAIN utterances' -> Remembrance]
      /\ \A u \in DOMAIN utterances :
           /\ utterances'[u].speaker = utterances[u].speaker
           /\ utterances'[u].revoked <=> utterances[u].revoked \/ u \in S
      /\ order' = order
      /\ revokedEver' = {u \in DOMAIN utterances' : utterances'[u].revoked}
      /\ revokedEver \subseteq revokedEver' /\ S \subseteq revokedEver'
  <2>1. S \in SUBSET DOMAIN utterances
    OBVIOUS
  <2>. HIDE DEF S
  <2>. QED BY <1>1, <2>1, FilterRevokes
<1>4. FilterInv'
  BY <1>1, <1>2, <1>3 DEF FilterInv
<1>5. ASSUME NEW u \in DOMAIN utterances', u \notin revokedEver', Allows(u)
      PROVE  Allows(u)'
  <2>1. u \notin S /\ ~utterances'[u].revoked
    BY <1>3, <1>5
  <2>2. policy.enabled => utterances'[u].speaker \notin blocked
    BY <1>3, <2>1
  <2>. QED BY <1>2, <1>3, <1>5, <2>1, <2>2 DEF Allows, Blocked
<1>. QED BY <1>3, <1>4, <1>5 DEF Moves

\* Hearing u changes what is remembered of u, and may forget the oldest one.
LEMMA FilterDiscovers ==
  ASSUME FilterInv, NEW u \in Utterances, NEW s \in Speakers \cup {None},
         Discover(u, s)
  PROVE  FilterInv' /\ Moves({u})
<1>. DEFINE all  == IF u \in DOMAIN utterances THEN order ELSE Append(order, u)
            kept == IF Len(all) > MaxUtterances THEN Tail(all) ELSE all
            now  == [x \in ToSet(all) |-> IF x = u THEN Remembered(u, s)
                                                   ELSE utterances[x]]
<1>1. /\ order' = kept /\ utterances' = [x \in ToSet(kept) |-> now[x]]
      /\ revokedEver' = (IF now[u].revoked THEN revokedEver \cup {u}
                                           ELSE revokedEver) \cap ToSet(kept)
      /\ policy' = policy /\ sessions' = sessions
      /\ decision' = IF s # None /\ s \notin DOMAIN decision
                        /\ Cardinality(DOMAIN decision) < MaxSpeakers
                     THEN [x \in DOMAIN decision \cup {s} |->
                             IF x = s THEN "allow" ELSE decision[x]]
                     ELSE decision
  BY DEF Discover
<1>2. /\ all \in Seq(Utterances) /\ ToSet(all) \subseteq DOMAIN utterances \cup {u}
  <2>1. CASE u \in DOMAIN utterances
    BY <2>1 DEF FilterInv
  <2>2. CASE u \notin DOMAIN utterances
    <3>1. order \in Seq(Utterances) /\ ToSet(order) \subseteq DOMAIN utterances
      BY DEF FilterInv
    <3>. QED BY <2>2, <3>1 DEF ToSet
  <2>. QED BY <2>1, <2>2
<1>. HIDE DEF all
<1>3. kept \in Seq(Utterances) /\ ToSet(kept) \subseteq ToSet(all)
  <2>1. CASE Len(all) > MaxUtterances
    <3>1. MaxUtterances \in Nat
      BY SpeakersAssumption
    <3>2. all # << >> /\ Len(all) \in Nat
      BY <1>2, <2>1, <3>1
    <3>3. /\ Tail(all) \in Seq(Utterances) /\ Len(Tail(all)) = Len(all) - 1
          /\ \A k \in 1..Len(all)-1 : Tail(all)[k] = all[k + 1]
      BY <1>2, <3>2
    <3>. QED BY <1>2, <2>1, <3>2, <3>3 DEF ToSet
  <2>. QED BY <1>2, <2>1
<1>. HIDE DEF kept
<1>4. Remembered(u, s) \in Remembrance
  <2>1. u \in DOMAIN utterances => utterances[u] \in Remembrance
    BY DEF FilterInv
  <2>2. policy.enabled \in BOOLEAN
    BY DEF FilterInv, PolicyState
  <2>. QED BY <2>1, <2>2 DEF Remembered, Remembrance, Blocked
<1>5. u \in revokedEver => Remembered(u, s).revoked
  <2>1. ASSUME u \in revokedEver PROVE Remembered(u, s).revoked
    <3>1. u \in DOMAIN utterances /\ utterances[u].revoked
      BY <2>1 DEF FilterInv
    <3>. QED BY <3>1 DEF Remembered
  <2>. QED BY <2>1
<1>6. \A x \in ToSet(kept) :
        /\ x = u => utterances'[x] = Remembered(u, s)
        /\ x # u => x \in DOMAIN utterances /\ utterances'[x] = utterances[x]
  BY <1>1, <1>2, <1>3
<1>7. DOMAIN utterances' = ToSet(kept)
  BY <1>1
<1>8. utterances' \in [DOMAIN utterances' -> Remembrance]
  <2>1. \A x \in ToSet(kept) : utterances'[x] \in Remembrance
    BY <1>4, <1>6 DEF FilterInv
  <2>. QED BY <1>1, <2>1
<1>9. revokedEver' = {x \in DOMAIN utterances' : utterances'[x].revoked}
  <2>1. revokedEver = {x \in DOMAIN utterances : utterances[x].revoked}
    BY DEF FilterInv
  <2>2. u \in ToSet(kept) => now[u] = Remembered(u, s)
    BY <1>3
  <2>. HIDE DEF now
  <2>3. ASSUME NEW x \in ToSet(kept)
        PROVE  x \in revokedEver' <=> utterances'[x].revoked
    <3>1. CASE x = u
      BY <1>1, <1>5, <1>6, <2>2, <3>1
    <3>2. CASE x # u
      BY <1>1, <1>6, <2>1, <3>2
    <3>. QED BY <3>1, <3>2
  <2>4. revokedEver' \subseteq ToSet(kept)
    BY <1>1
  <2>. QED BY <1>7, <2>3, <2>4
<1>10. ToSet(kept) \subseteq Utterances
  BY <1>3 DEF ToSet
<1>11. FilterInv'
  BY <1>1, <1>3, <1>7, <1>8, <1>9, <1>10 DEF FilterInv
<1>12. ASSUME NEW x \in DOMAIN utterances', x # u, x \notin revokedEver', Allows(x)
       PROVE  Allows(x)'
  <2>1. /\ x \in DOMAIN utterances /\ utterances'[x] = utterances[x]
        /\ ~utterances'[x].revoked
    BY <1>6, <1>7, <1>9, <1>12
  <2>2. ASSUME NEW y, Blocked(y)' PROVE Blocked(y)
    <3>1. CASE s # None /\ s \notin DOMAIN decision
               /\ Cardinality(DOMAIN decision) < MaxSpeakers
      <4>1. decision' = [x1 \in DOMAIN decision \cup {s} |->
                           IF x1 = s THEN "allow" ELSE decision[x1]]
        BY <1>1, <3>1
      <4>. QED BY <2>2, <4>1 DEF Blocked
    <3>2. CASE decision' = decision
      BY <2>2, <3>2 DEF Blocked
    <3>. QED BY <1>1, <3>1, <3>2
  <2>. QED BY <1>1, <1>7, <1>12, <2>1, <2>2 DEF Allows
<1>13. Moves({u})
  <2>1. revokedEver \cap DOMAIN utterances' \subseteq revokedEver'
    BY <1>1, <1>7
  <2>. QED BY <1>6, <1>7, <1>12, <2>1 DEF Moves
<1>. QED BY <1>11, <1>13

-----------------------------------------------------------------------------
(* Translations: jobs, tasks and what the displays are told                *)

JobState == Alive \cup {"none", "done"}
NativeState == {"none", "pending", "storing", "saved", "unsaved", "completed"}
Tellings == SUBSET {"started", "completed", "failed"}
RecordState == {"absent", "heard", "stored", "dropped", "announced"}
Announced == {m \in Messages : record[m] = "announced"}

JobTypes ==
  /\ record \in [Messages -> RecordState] /\ invalid \subseteq Remotes
  /\ queue \in Seq(Announced) /\ loop \in Announced \cup {None}
  /\ task \in [Slots -> JobState] /\ native \in [Natives -> NativeState]
  /\ told \in [Items -> Tellings]
  /\ \A t \in Slots : task[t] # "none" => t[1] \in Announced
  /\ \A u \in Natives : native[u] # "none" => u \in Announced
  /\ \A i \in Items : told[i] # {} => i[1] \in Announced

\* The filter no longer remembers m; m was taken back, or is forgotten.
Forgotten(m) == m \in Utterances \ DOMAIN utterances
Gone(m) == m \in invalid \cup revokedEver \/ Forgotten(m)

\* Whatever was announced is admitted, as long as it is not gone.
AdmitInv == \A u \in Utterances : u \in Announced => Gone(u) \/ Allows(u)

\* A stored translation is in the history or its message is gone, and so is a
\* completed one, for whose report the message was still wanted; a translation
\* that was started and has no outcome is worked on.
SlotInv(t) ==
  /\ task[t] = "stored" => t \in saved \/ Gone(t[1])
  /\ "completed" \in told[t] => t \in saved \/ Forgotten(t[1])
  /\ "started" \in told[t] /\ told[t] \cap Outcomes = {} =>
       task[t] \in Alive \/ Gone(t[1])

NativeInv(u) ==
  LET i == <<u, NativeLang>> IN
    /\ native[u] = "saved" => i \in saved \/ Gone(u)
    /\ "completed" \in told[i] => i \in saved \/ Forgotten(u)
    /\ native[u] = "completed" => told[i] \cap Outcomes # {} \/ Gone(u)
    /\ "started" \in told[i] /\ told[i] \cap Outcomes = {} =>
         native[u] \notin {"none", "completed"} \/ Gone(u)

SlotsInv == \A t \in Slots : SlotInv(t)
NativesInv == \A u \in Natives : NativeInv(u)

TransInv == FilterInv /\ JobTypes /\ AdmitInv /\ SlotsInv /\ NativesInv

\* Items are slots and live translations, and no item is both.
LEMMA ItemFacts ==
  /\ \A t \in Slots : t \in Items /\ t[1] \in Messages /\ t[2] \in Langs
                      /\ t = <<t[1], t[2]>>
  /\ \A u \in Natives : <<u, NativeLang>> \in Items /\ u \in Utterances
                        /\ u \in Messages /\ <<u, NativeLang>> \notin Slots
  /\ \A i \in Items : i \in Slots \/ (i[1] \in Natives /\ i = <<i[1], NativeLang>>)
BY TranslationsAssumption DEF Items, Slots, Natives, Messages

\* Whoever is wanted was not taken back; whoever is not is gone.
LEMMA WantedIsThere ==
  ASSUME TransInv, NEW m \in Messages, Wanted(m)
  PROVE  m \notin invalid /\ m \notin revokedEver
<1>1. m \in Remotes \/ Allows(m)
  BY DEF Wanted, Allowed
<1>2. revokedEver = {u \in DOMAIN utterances : utterances[u].revoked}
      /\ revokedEver \subseteq Utterances
  BY DEF TransInv, FilterInv
<1>3. Remotes \cap Utterances = {}
  BY TranslationsAssumption
<1>. QED BY <1>1, <1>2, <1>3 DEF Wanted, Allows

LEMMA AllowedIsThere ==
  ASSUME FilterInv, NEW u \in Utterances, Allows(u)
  PROVE  u \notin revokedEver
BY DEF FilterInv, Allows

LEMMA UnwantedIsGone ==
  ASSUME TransInv, NEW m \in Announced, ~Wanted(m)
  PROVE  Gone(m)
BY DEF TransInv, AdmitInv, Wanted, Allowed, Gone, Messages, Announced

LEMMA MoreInSeq ==
  ASSUME NEW S, NEW T, S \subseteq T, NEW q \in Seq(S)
  PROVE  q \in Seq(T)
OBVIOUS

\* What is gone stays gone.
Keeps(m) == (Gone(m) => Gone(m)') /\ (Forgotten(m) => Forgotten(m)')

LEMMA SlotStays ==
  ASSUME TransInv, NEW t \in Slots, t[1] \in Announced => Keeps(t[1]),
         task'[t] = task[t], saved \subseteq saved',
         told'[t] = told[t] \/ told'[t] = told[t] \cup {"failed"}
  PROVE  SlotInv(t)'
<1>1. SlotInv(t) /\ t \in Items
  BY ItemFacts DEF TransInv, SlotsInv
<1>2. CASE t[1] \in Announced
  BY <1>1, <1>2 DEF SlotInv, Keeps, Outcomes
<1>3. CASE t[1] \notin Announced
  <2>1. told[t] = {} /\ task[t] = "none"
    BY <1>1, <1>3 DEF TransInv, JobTypes
  <2>. QED BY <2>1 DEF SlotInv
<1>. QED BY <1>2, <1>3

LEMMA NativeStays ==
  ASSUME TransInv, NEW u \in Natives, u \in Announced => Keeps(u),
         native'[u] = native[u], saved \subseteq saved',
         \/ told'[<<u, NativeLang>>] = told[<<u, NativeLang>>]
         \/ told'[<<u, NativeLang>>] = told[<<u, NativeLang>>] \cup {"failed"}
  PROVE  NativeInv(u)'
<1>1. NativeInv(u) /\ <<u, NativeLang>> \in Items
  BY ItemFacts DEF TransInv, NativesInv
<1>2. CASE u \in Announced
  BY <1>1, <1>2 DEF NativeInv, Keeps, Outcomes
<1>3. CASE u \notin Announced
  <2>1. told[<<u, NativeLang>>] = {} /\ native[u] = "none"
    BY <1>1, <1>3 DEF TransInv, JobTypes
  <2>. QED BY <2>1 DEF NativeInv
<1>. QED BY <1>2, <1>3

\* A step that leaves the filter alone keeps what is admitted.
LEMMA FilterSame ==
  ASSUME TransInv, UNCHANGED filter, invalid \subseteq invalid'
  PROVE  /\ FilterInv' /\ \A m : Keeps(m)
         /\ \A u : Allows(u)' <=> Allows(u)
         /\ (\A u \in Utterances : u \in Announced' =>
               u \in Announced \/ Allows(u)) => AdmitInv'
<1>1. /\ policy' = policy /\ decision' = decision /\ utterances' = utterances
      /\ order' = order /\ sessions' = sessions /\ revokedEver' = revokedEver
  BY DEF filter
<1>2. FilterInv'
  BY <1>1 DEF TransInv, FilterInv
<1>3. \A u : Allows(u)' <=> Allows(u)
  BY <1>1 DEF Allows, Blocked
<1>4. \A m : Keeps(m)
  BY <1>1 DEF Keeps, Gone, Forgotten
<1>5. ASSUME \A u \in Utterances : u \in Announced' => u \in Announced \/ Allows(u)
      PROVE  AdmitInv'
  BY <1>3, <1>4, <1>5 DEF TransInv, AdmitInv, Keeps
<1>. QED BY <1>2, <1>3, <1>4, <1>5

LEMMA TransStart ==
  ASSUME Init
  PROVE  TransInv
<1>1. FilterInv
  BY FilterStart DEF Init
<1>2. /\ record = [m \in Messages |-> "absent"] /\ invalid = {} /\ queue = << >>
      /\ loop = None /\ task = [t \in Slots |-> "none"]
      /\ native = [u \in Natives |-> "none"] /\ saved = {}
      /\ told = [i \in Items |-> {}]
  BY DEF Init
<1>3. Announced = {}
  BY <1>2 DEF Announced
<1>4. JobTypes
  <2>1. << >> \in Seq(Announced)
    OBVIOUS
  <2>2. told \in [Items -> Tellings] /\ native \in [Natives -> NativeState]
        /\ task \in [Slots -> JobState] /\ record \in [Messages -> RecordState]
    BY <1>2 DEF Tellings, NativeState, JobState, RecordState
  <2>. QED BY <1>2, <2>1, <2>2 DEF JobTypes
<1>5. AdmitInv
  BY <1>3 DEF AdmitInv
<1>6. SlotsInv
  BY <1>2, ItemFacts DEF SlotsInv, SlotInv
<1>7. NativesInv
  BY <1>2, ItemFacts DEF NativesInv, NativeInv
<1>. QED BY <1>1, <1>4, <1>5, <1>6, <1>7 DEF TransInv

-----------------------------------------------------------------------------
(* Translations: the tasks                                                 *)

\* What a step of a task does to the others: nothing.
OtherTasks(t) ==
  /\ \A x \in Slots \ {t} : task'[x] = task[x] /\ told'[x] = told[x]
  /\ \A i \in Items \ Slots : told'[i] = told[i]
  /\ saved \subseteq saved' /\ saved' \subseteq saved \cup {t}

LEMMA TaskMoves ==
  ASSUME TransInv, NEW t \in Slots, OtherTasks(t),
         UNCHANGED <<filter, record, targets, invalid, queue, loop, granted, native>>,
         task' \in [Slots -> JobState], told' \in [Items -> Tellings],
         t[1] \in Announced, SlotInv(t)'
  PROVE  TransInv'
<1>1. /\ FilterInv' /\ \A m : Keeps(m)
      /\ (\A u \in Utterances : u \in Announced' =>
            u \in Announced \/ Allows(u)) => AdmitInv'
  BY FilterSame
<1>2. Announced' = Announced
  BY DEF Announced
<1>3. AdmitInv'
  BY <1>1, <1>2
<1>4. JobTypes'
  <2>1. JobTypes
    BY DEF TransInv
  <2>2. \A x \in Slots : task'[x] # "none" => x[1] \in Announced
    BY <2>1 DEF OtherTasks, JobTypes
  <2>3. \A i \in Items : told'[i] # {} => i[1] \in Announced
    BY <2>1 DEF OtherTasks, JobTypes
  <2>. QED BY <1>2, <2>1, <2>2, <2>3 DEF JobTypes
<1>5. SlotsInv'
  <2>1. ASSUME NEW x \in Slots PROVE SlotInv(x)'
    <3>1. CASE x = t
      BY <3>1
    <3>2. CASE x # t
      BY <1>1, <3>2, SlotStays DEF OtherTasks
    <3>. QED BY <3>1, <3>2
  <2>. QED BY <2>1 DEF SlotsInv
<1>6. NativesInv'
  <2>1. ASSUME NEW u \in Natives PROVE NativeInv(u)'
    <3>1. told'[<<u, NativeLang>>] = told[<<u, NativeLang>>]
      BY ItemFacts DEF OtherTasks
    <3>. QED BY <1>1, <3>1, NativeStays DEF OtherTasks
  <2>. QED BY <2>1 DEF NativesInv
<1>. QED BY <1>1, <1>3, <1>4, <1>5, <1>6 DEF TransInv

\* What Goto and Tell do.
LEMMA GotoFacts ==
  ASSUME TransInv, NEW t \in Slots, NEW phase \in JobState, Goto(t, phase)
  PROVE  /\ UNCHANGED <<filter, record, targets, invalid, queue, loop, granted, native>>
         /\ task' \in [Slots -> JobState] /\ task'[t] = phase
         /\ \A x \in Slots \ {t} : task'[x] = task[x]
<1>1. task \in [Slots -> JobState]
  BY DEF TransInv, JobTypes
<1>. QED BY <1>1 DEF Goto

LEMMA TellFacts ==
  ASSUME TransInv, NEW t, NEW what \in {"started", "completed", "failed"},
         Tell({t}, what)
  PROVE  /\ told' \in [Items -> Tellings]
         /\ \A i \in Items : i # t => told'[i] = told[i]
         /\ t \in Items => told'[t] = told[t] \cup {what}
<1>1. told \in [Items -> Tellings]
  BY DEF TransInv, JobTypes
<1>2. \A i \in Items : /\ i # t => told'[i] = told[i]
                       /\ i = t => told'[i] = told[i] \cup {what}
  BY DEF Tell
<1>3. \A i \in Items : told'[i] \in Tellings
  BY <1>1, <1>2 DEF Tellings
<1>4. told' = [i \in Items |-> IF i \in {t} THEN told[i] \cup {what} ELSE told[i]]
  BY DEF Tell
<1>5. told' \in [Items -> Tellings]
  BY <1>3, <1>4
<1>. QED BY <1>2, <1>5

\* A task's step in one of the ways it may take: with or without a word.
LEMMA TaskQuiet ==
  ASSUME TransInv, NEW t \in Slots, NEW phase \in JobState, Goto(t, phase),
         told' = told, saved' = saved, task[t] # "none",
         phase \in Alive \/ Gone(t[1])
           \/ ("started" \in told[t] => told[t] \cap Outcomes # {}),
         phase = "stored" => Gone(t[1]) \/ t \in saved
  PROVE  TransInv'
<1>1. /\ UNCHANGED <<filter, record, targets, invalid, queue, loop, granted, native>>
      /\ task' \in [Slots -> JobState] /\ task'[t] = phase
      /\ \A x \in Slots \ {t} : task'[x] = task[x]
  BY GotoFacts
<1>2. \A m : Keeps(m)
  BY <1>1, FilterSame
<1>3. SlotInv(t) /\ t[1] \in Announced
  BY DEF TransInv, SlotsInv, JobTypes
<1>4. SlotInv(t)'
  BY <1>1, <1>2, <1>3 DEF SlotInv, Keeps
<1>5. OtherTasks(t)
  BY <1>1 DEF OtherTasks
<1>6. told' \in [Items -> Tellings]
  BY DEF TransInv, JobTypes
<1>. QED BY <1>1, <1>3, <1>4, <1>5, <1>6, TaskMoves

LEMMA TaskTells ==
  ASSUME TransInv, NEW t \in Slots, NEW phase \in JobState, Goto(t, phase),
         NEW what \in {"started", "completed", "failed"}, Tell({t}, what),
         saved' = saved, task[t] # "none",
         phase # "stored", what = "started" => phase \in Alive,
         what = "completed" => t \in saved \/ Forgotten(t[1])
  PROVE  TransInv'
<1>1. /\ UNCHANGED <<filter, record, targets, invalid, queue, loop, granted, native>>
      /\ task' \in [Slots -> JobState] /\ task'[t] = phase
      /\ \A x \in Slots \ {t} : task'[x] = task[x]
  BY GotoFacts
<1>2. \A m : Keeps(m)
  BY <1>1, FilterSame
<1>3. SlotInv(t) /\ t[1] \in Announced /\ t \in Items
  BY ItemFacts DEF TransInv, SlotsInv, JobTypes
<1>4. /\ told' \in [Items -> Tellings] /\ told'[t] = told[t] \cup {what}
      /\ \A i \in Items : i # t => told'[i] = told[i]
  BY <1>3, TellFacts
<1>5. SlotInv(t)'
  BY <1>1, <1>2, <1>3, <1>4 DEF SlotInv, Keeps, Outcomes
<1>6. OtherTasks(t)
  BY <1>1, <1>3, <1>4, ItemFacts DEF OtherTasks
<1>. QED BY <1>1, <1>3, <1>4, <1>5, <1>6, TaskMoves

LEMMA TaskKept ==
  ASSUME TransInv, NEW t \in Slots, TaskStep(t)
  PROVE  TransInv'
<1>1. t[1] \in Messages /\ SlotInv(t) /\ (task[t] # "none" => t[1] \in Announced)
  BY ItemFacts DEF TransInv, SlotsInv, JobTypes
<1>2. Alive \subseteq JobState /\ {"none", "done"} \subseteq JobState
      /\ {"spawned", "context", "calling", "delay", "retrying", "storing", "stored",
          "unstored"} = Alive
  BY DEF JobState, Alive
<1>3. ~Wanted(t[1]) /\ task[t] # "none" => Gone(t[1])
  BY <1>1, UnwantedIsGone
<1>4. CASE BeginTask(t)
  <2>1. CASE Wanted(t[1])
    <3>1. Goto(t, "context") /\ Tell({t}, "started") /\ saved' = saved
          /\ task[t] = "spawned"
      BY <1>4, <2>1 DEF BeginTask
    <3>. QED BY <1>2, <3>1, TaskTells
  <2>2. CASE ~Wanted(t[1])
    <3>1. Goto(t, "done") /\ told' = told /\ saved' = saved /\ task[t] = "spawned"
      BY <1>4, <2>2 DEF BeginTask
    <3>. QED BY <1>2, <1>3, <2>2, <3>1, TaskQuiet
  <2>. QED BY <2>1, <2>2
<1>5. CASE CheckTask(t)
  <2>1. /\ task[t] \in {"context", "delay"} /\ told' = told /\ saved' = saved
        /\ NextPhase[task[t]] \in {"calling", "retrying"}
        /\ Goto(t, IF Wanted(t[1]) THEN NextPhase[task[t]] ELSE "done")
    BY <1>5 DEF CheckTask, NextPhase
  <2>2. CASE Wanted(t[1])
    BY <1>2, <2>1, <2>2, TaskQuiet
  <2>3. CASE ~Wanted(t[1])
    BY <1>2, <1>3, <2>1, <2>3, TaskQuiet
  <2>. QED BY <2>2, <2>3
<1>6. CASE Answer(t)
  <2>1. /\ task[t] \in {"calling", "retrying"} /\ told' = told /\ saved' = saved
        /\ Goto(t, IF Wanted(t[1]) THEN "storing" ELSE "done")
    BY <1>6 DEF Answer, Waiting
  <2>2. CASE Wanted(t[1])
    BY <1>2, <2>1, <2>2, TaskQuiet
  <2>3. CASE ~Wanted(t[1])
    BY <1>2, <1>3, <2>1, <2>3, TaskQuiet
  <2>. QED BY <2>2, <2>3
<1>7. CASE Retry(t)
  <2>1. task[t] = "calling" /\ Goto(t, "delay") /\ told' = told /\ saved' = saved
    BY <1>7 DEF Retry, MayRetry
  <2>. QED BY <1>2, <2>1, TaskQuiet
<1>8. CASE Reject(t)
  <2>1. /\ task[t] \in {"calling", "retrying"} /\ Goto(t, "done") /\ saved' = saved
        /\ IF Wanted(t[1]) THEN Tell({t}, "failed") ELSE told' = told
    BY <1>8 DEF Reject, Waiting
  <2>2. CASE Wanted(t[1])
    BY <1>2, <2>1, <2>2, TaskTells
  <2>3. CASE ~Wanted(t[1])
    BY <1>2, <1>3, <2>1, <2>3, TaskQuiet
  <2>. QED BY <2>2, <2>3
<1>9. CASE CancelTask(t)
  <2>1. /\ task[t] \in {"calling", "delay", "retrying"} /\ Goto(t, "done")
        /\ told' = told /\ saved' = saved /\ Gone(t[1])
    BY <1>9 DEF CancelTask, Gone
  <2>. QED BY <1>2, <2>1, TaskQuiet
<1>10. CASE Store(t)
  <2>1. /\ task[t] = "storing" /\ told' = told
        /\ \/ Wanted(t[1]) /\ Goto(t, "stored") /\ saved' = saved \cup {t}
           \/ Wanted(t[1]) /\ Goto(t, "unstored") /\ saved' = saved
           \/ ~Wanted(t[1]) /\ Goto(t, "stored") /\ saved' = saved
    BY <1>10 DEF Store
  <2>2. CASE Goto(t, "stored") /\ saved' = saved \cup {t}
    <3>1. /\ UNCHANGED <<filter, record, targets, invalid, queue, loop, granted, native>>
          /\ task' \in [Slots -> JobState] /\ task'[t] = "stored"
          /\ \A x \in Slots \ {t} : task'[x] = task[x]
      BY <1>2, <2>2, GotoFacts
    <3>2. SlotInv(t)'
      BY <2>1, <2>2, <3>1, <1>1, <1>2 DEF SlotInv
    <3>3. OtherTasks(t)
      BY <2>1, <2>2, <3>1 DEF OtherTasks
    <3>4. told' \in [Items -> Tellings] /\ t[1] \in Announced
      BY <1>1, <2>1 DEF TransInv, JobTypes
    <3>. QED BY <3>1, <3>2, <3>3, <3>4, TaskMoves
  <2>3. CASE Goto(t, "unstored") /\ saved' = saved
    BY <1>2, <2>1, <2>3, TaskQuiet
  <2>4. CASE ~Wanted(t[1]) /\ Goto(t, "stored") /\ saved' = saved
    BY <1>2, <1>3, <2>1, <2>4, TaskQuiet
  <2>. QED BY <2>1, <2>2, <2>3, <2>4
<1>11. CASE Report(t)
  <2>1. /\ task[t] \in {"stored", "unstored"} /\ Goto(t, "done") /\ saved' = saved
        /\ IF Wanted(t[1])
           THEN Tell({t}, IF task[t] = "stored" THEN "completed" ELSE "failed")
           ELSE told' = told
    BY <1>11 DEF Report
  <2>2. CASE Wanted(t[1]) /\ task[t] = "stored"
    <3>1. t \in saved \/ Forgotten(t[1])
      BY <1>1, <2>2, WantedIsThere DEF SlotInv, Gone
    <3>. QED BY <1>2, <2>1, <2>2, <3>1, TaskTells
  <2>3. CASE Wanted(t[1]) /\ task[t] # "stored"
    BY <1>2, <2>1, <2>3, TaskTells
  <2>4. CASE ~Wanted(t[1])
    BY <1>2, <1>3, <2>1, <2>4, TaskQuiet
  <2>. QED BY <2>2, <2>3, <2>4
<1>. QED BY <1>4, <1>5, <1>6, <1>7, <1>8, <1>9, <1>10, <1>11 DEF TaskStep

-----------------------------------------------------------------------------
(* Translations: recording, and the dispatcher's loop                      *)

\* Records, the queue and the loop move on; a message for which there is no
\* room fails.
LEMMA RecordMoves ==
  ASSUME TransInv, UNCHANGED <<filter, task, native, saved>>,
         invalid \subseteq invalid', invalid' \subseteq Remotes,
         record' \in [Messages -> RecordState], Announced \subseteq Announced',
         queue' \in Seq(Announced'), loop' \in Announced' \cup {None},
         \A u \in Utterances : u \in Announced' => u \in Announced \/ Allows(u),
         told' \in [Items -> Tellings],
         \A i \in Items : \/ told'[i] = told[i]
                          \/ told'[i] = told[i] \cup {"failed"} /\ i[1] \in Announced'
  PROVE  TransInv'
<1>1. FilterInv' /\ AdmitInv' /\ \A m : Keeps(m)
  BY FilterSame
<1>2. JobTypes'
  BY DEF TransInv, JobTypes
<1>3. SlotsInv'
  BY <1>1, SlotStays, ItemFacts DEF SlotsInv
<1>4. NativesInv'
  BY <1>1, NativeStays, ItemFacts DEF NativesInv
<1>. QED BY <1>1, <1>2, <1>3, <1>4 DEF TransInv

LEMMA RecordOne ==
  ASSUME TransInv, NEW m \in Messages, NEW how \in RecordState,
         record' = [record EXCEPT ![m] = how], m \notin Announced
  PROVE  /\ record' \in [Messages -> RecordState]
         /\ Announced' = Announced \cup (IF how = "announced" THEN {m} ELSE {})
         /\ queue \in Seq(Announced') /\ loop \in Announced' \cup {None}
<1>1. record \in [Messages -> RecordState] /\ queue \in Seq(Announced)
      /\ loop \in Announced \cup {None}
  BY DEF TransInv, JobTypes
<1>2. /\ record' \in [Messages -> RecordState]
      /\ Announced' = Announced \cup (IF how = "announced" THEN {m} ELSE {})
  BY <1>1 DEF Announced
<1>3. queue \in Seq(Announced')
  BY <1>1, <1>2, MoreInSeq
<1>. QED BY <1>1, <1>2, <1>3

\* A message that was stored is not announced yet.
LEMMA NotYet ==
  ASSUME NEW m, record[m] # "announced"
  PROVE  m \notin Announced
BY DEF Announced

LEMMA EnqueueFacts ==
  ASSUME TransInv, NEW m \in Messages, NEW route \in SUBSET Langs, Enqueue(m, route),
         m \in Announced', Announced \subseteq Announced', queue \in Seq(Announced')
  PROVE  /\ queue' \in Seq(Announced') /\ told' \in [Items -> Tellings]
         /\ \A i \in Items :
              \/ told'[i] = told[i]
              \/ /\ told'[i] = told[i] \cup {"failed"} /\ i[1] \in Announced'
                 /\ i[1] = m /\ Wanted(m)
<1>1. told \in [Items -> Tellings]
  BY DEF TransInv, JobTypes
<1>2. CASE queue' = queue /\ told' = told
  BY <1>1, <1>2
<1>3. CASE queue' = Append(queue, m) /\ told' = told
  BY <1>1, <1>3
<1>4. CASE Wanted(m) /\ Tell({m} \X route, "failed") /\ queue' = queue
  <2>1. told' = [i \in Items |-> IF i \in {m} \X route THEN told[i] \cup {"failed"}
                                                         ELSE told[i]]
    BY <1>4 DEF Tell
  <2>2. \A i \in Items : \/ told'[i] = told[i]
                         \/ told'[i] = told[i] \cup {"failed"} /\ i[1] = m
    BY <2>1
  <2>3. \A i \in Items : told'[i] \in Tellings
    BY <1>1, <2>2 DEF Tellings
  <2>4. told' \in [Items -> Tellings]
    BY <2>1, <2>3
  <2>. QED BY <1>4, <2>2, <2>4
<1>. QED BY <1>2, <1>3, <1>4 DEF Enqueue

LEMMA SubtitlesKept ==
  ASSUME TransInv, NEW u \in Utterances,
         StoreSubtitle(u) \/ (\E route \in MicTargets : AnnounceSubtitle(u, route))
  PROVE  TransInv'
<1>1. u \in Messages /\ told \in [Items -> Tellings] /\ invalid \subseteq Remotes
  BY DEF Messages, TransInv, JobTypes
<1>2. {"dropped", "stored", "announced"} \subseteq RecordState
  BY DEF RecordState
<1>3. CASE StoreSubtitle(u)
  <2>1. /\ record[u] = "heard"
        /\ \/ record' = [record EXCEPT ![u] = "stored"]
           \/ record' = [record EXCEPT ![u] = "dropped"]
        /\ UNCHANGED <<filter, targets, invalid, queue, loop, granted, task, native,
                       saved, told>>
    BY <1>3 DEF StoreSubtitle
  <2>2. /\ record' \in [Messages -> RecordState] /\ Announced' = Announced
        /\ queue \in Seq(Announced') /\ loop \in Announced' \cup {None}
    <3>1. u \notin Announced
      BY <2>1, NotYet
    <3>2. CASE record' = [record EXCEPT ![u] = "stored"]
      BY <1>1, <1>2, <3>1, <3>2, RecordOne
    <3>3. CASE record' = [record EXCEPT ![u] = "dropped"]
      BY <1>1, <1>2, <3>1, <3>3, RecordOne
    <3>. QED BY <2>1, <3>2, <3>3
  <2>. QED BY <1>1, <2>1, <2>2, RecordMoves
<1>4. CASE \E route \in MicTargets : AnnounceSubtitle(u, route)
  <2>1. PICK route \in MicTargets : AnnounceSubtitle(u, route)
    BY <1>4
  <2>2. /\ record[u] = "stored" /\ route \in SUBSET Langs
        /\ UNCHANGED <<filter, invalid, loop, granted, task, native, saved>>
    BY <2>1, TranslationsAssumption DEF AnnounceSubtitle
  <2>3. CASE Allows(u)
    <3>1. record' = [record EXCEPT ![u] = "announced"] /\ Enqueue(u, route)
      BY <2>1, <2>3 DEF AnnounceSubtitle
    <3>2. /\ record' \in [Messages -> RecordState] /\ Announced' = Announced \cup {u}
          /\ queue \in Seq(Announced') /\ loop \in Announced' \cup {None}
      BY <1>1, <1>2, <2>2, <3>1, NotYet, RecordOne
    <3>3. /\ queue' \in Seq(Announced') /\ told' \in [Items -> Tellings]
          /\ \A i \in Items :
               \/ told'[i] = told[i]
               \/ told'[i] = told[i] \cup {"failed"} /\ i[1] \in Announced'
      BY <1>1, <2>2, <3>1, <3>2, EnqueueFacts
    <3>. QED BY <1>1, <2>2, <2>3, <3>2, <3>3, RecordMoves
  <2>4. CASE ~Allows(u)
    <3>1. record' = [record EXCEPT ![u] = "dropped"] /\ queue' = queue /\ told' = told
      BY <2>1, <2>4 DEF AnnounceSubtitle
    <3>2. /\ record' \in [Messages -> RecordState] /\ Announced' = Announced
          /\ queue \in Seq(Announced') /\ loop \in Announced' \cup {None}
      BY <1>1, <1>2, <2>2, <3>1, NotYet, RecordOne
    <3>. QED BY <1>1, <2>2, <3>1, <3>2, RecordMoves
  <2>. QED BY <2>3, <2>4
<1>. QED BY <1>3, <1>4

LEMMA RemotesKept ==
  ASSUME TransInv, NEW m \in Remotes,
         StoreRemote(m) \/ Invalidate(m)
           \/ (\E route \in SpeakerTargets : AnnounceRemote(m, route))
  PROVE  TransInv'
<1>1. /\ m \in Messages /\ told \in [Items -> Tellings] /\ invalid \subseteq Remotes
      /\ record \in [Messages -> RecordState] /\ m \notin Utterances
      /\ queue \in Seq(Announced) /\ loop \in Announced \cup {None}
  BY TranslationsAssumption DEF Messages, TransInv, JobTypes
<1>2. {"dropped", "stored", "announced"} \subseteq RecordState
  BY DEF RecordState
<1>3. CASE StoreRemote(m)
  <2>1. /\ record[m] = "absent"
        /\ \/ record' = [record EXCEPT ![m] = "stored"]
           \/ record' = [record EXCEPT ![m] = "dropped"]
        /\ UNCHANGED <<filter, targets, invalid, queue, loop, granted, task, native,
                       saved, told>>
    BY <1>3 DEF StoreRemote
  <2>2. /\ record' \in [Messages -> RecordState] /\ Announced' = Announced
        /\ queue \in Seq(Announced') /\ loop \in Announced' \cup {None}
    <3>1. m \notin Announced
      BY <2>1, NotYet
    <3>2. CASE record' = [record EXCEPT ![m] = "stored"]
      BY <1>1, <1>2, <3>1, <3>2, RecordOne
    <3>3. CASE record' = [record EXCEPT ![m] = "dropped"]
      BY <1>1, <1>2, <3>1, <3>3, RecordOne
    <3>. QED BY <2>1, <3>2, <3>3
  <2>. QED BY <1>1, <2>1, <2>2, RecordMoves
<1>4. CASE Invalidate(m)
  <2>1. /\ invalid' = invalid \cup {m}
        /\ UNCHANGED <<filter, record, targets, queue, loop, granted, task, native,
                       saved, told>>
    BY <1>4 DEF Invalidate
  <2>2. Announced' = Announced
    BY <2>1 DEF Announced
  <2>. QED BY <1>1, <2>1, <2>2, RecordMoves
<1>5. CASE \E route \in SpeakerTargets : AnnounceRemote(m, route)
  <2>1. PICK route \in SpeakerTargets : AnnounceRemote(m, route)
    BY <1>5
  <2>2. /\ record[m] = "stored" /\ route \in SUBSET Langs
        /\ UNCHANGED <<filter, invalid, loop, granted, task, native, saved>>
    BY <2>1, TranslationsAssumption DEF AnnounceRemote
  <2>3. CASE m \notin invalid
    <3>1. record' = [record EXCEPT ![m] = "announced"] /\ Enqueue(m, route)
      BY <2>1, <2>3 DEF AnnounceRemote
    <3>2. /\ record' \in [Messages -> RecordState] /\ Announced' = Announced \cup {m}
          /\ queue \in Seq(Announced') /\ loop \in Announced' \cup {None}
      BY <1>1, <1>2, <2>2, <3>1, NotYet, RecordOne
    <3>3. /\ queue' \in Seq(Announced') /\ told' \in [Items -> Tellings]
          /\ \A i \in Items :
               \/ told'[i] = told[i]
               \/ told'[i] = told[i] \cup {"failed"} /\ i[1] \in Announced'
      BY <1>1, <2>2, <3>1, <3>2, EnqueueFacts
    <3>. QED BY <1>1, <2>2, <3>2, <3>3, RecordMoves
  <2>4. CASE m \in invalid
    <3>1. record' = [record EXCEPT ![m] = "dropped"] /\ queue' = queue /\ told' = told
      BY <2>1, <2>4 DEF AnnounceRemote
    <3>2. /\ record' \in [Messages -> RecordState] /\ Announced' = Announced
          /\ queue \in Seq(Announced') /\ loop \in Announced' \cup {None}
      <4>1. m \notin Announced
        BY <2>2, NotYet
      <4>. QED BY <1>1, <1>2, <3>1, <4>1, RecordOne
    <3>. QED BY <1>1, <2>2, <3>1, <3>2, RecordMoves
  <2>. QED BY <2>3, <2>4
<1>. QED BY <1>3, <1>4, <1>5

LEMMA DispatcherKept ==
  ASSUME TransInv, Dispatcher
  PROVE  TransInv'
<1>1. /\ told \in [Items -> Tellings] /\ invalid \subseteq Remotes
      /\ record \in [Messages -> RecordState] /\ task \in [Slots -> JobState]
      /\ queue \in Seq(Announced) /\ loop \in Announced \cup {None}
  BY DEF TransInv, JobTypes
<1>2. CASE TakeJob
  <2>1. /\ queue # << >> /\ queue' = Tail(queue)
        /\ loop' \in {None, Head(queue)}
        /\ UNCHANGED <<filter, record, targets, invalid, granted, task, native,
                       saved, told>>
    BY <1>2 DEF TakeJob
  <2>2. Head(queue) \in Announced /\ Tail(queue) \in Seq(Announced)
    BY <1>1, <2>1
  <2>3. Announced' = Announced
    BY <2>1 DEF Announced
  <2>. QED BY <1>1, <2>1, <2>2, <2>3, RecordMoves
<1>3. CASE TakePermit
  <2>1. UNCHANGED <<filter, record, targets, invalid, queue, loop, task, native,
                    saved, told>>
    BY <1>3 DEF TakePermit
  <2>2. Announced' = Announced
    BY <2>1 DEF Announced
  <2>. QED BY <1>1, <2>1, <2>2, RecordMoves
<1>4. CASE Spawn
  <2>1. PICK S : task' = [t \in Slots |-> IF t \in {loop} \X S THEN "spawned"
                                                               ELSE task[t]]
    BY <1>4 DEF Spawn
  <2>2. /\ loop # None /\ loop' = None
        /\ UNCHANGED <<filter, record, targets, invalid, queue, native, saved, told>>
    BY <1>4 DEF Spawn
  <2>3. Announced' = Announced
    BY <2>2 DEF Announced
  <2>4. FilterInv' /\ AdmitInv' /\ \A m : Keeps(m)
    BY <2>2, <2>3, FilterSame
  <2>5. \A t \in Slots : \/ task'[t] = task[t]
                         \/ task'[t] = "spawned" /\ t[1] = loop
    BY <2>1
  <2>6. task' \in [Slots -> JobState]
    <3>1. \A t \in Slots : task'[t] \in JobState
      BY <1>1, <2>5 DEF JobState, Alive
    <3>. QED BY <2>1, <3>1
  <2>7. JobTypes'
    <3>1. \A t \in Slots : task'[t] # "none" => t[1] \in Announced
      BY <1>1, <2>2, <2>5 DEF TransInv, JobTypes
    <3>. QED BY <2>2, <2>3, <2>6, <3>1 DEF TransInv, JobTypes
  <2>8. SlotsInv'
    <3>1. ASSUME NEW t \in Slots PROVE SlotInv(t)'
      <4>1. CASE task'[t] = task[t]
        BY <2>2, <2>4, <4>1, SlotStays
      <4>2. CASE task'[t] = "spawned"
        <5>1. SlotInv(t)
          BY DEF TransInv, SlotsInv
        <5>. QED BY <2>2, <2>4, <4>2, <5>1 DEF SlotInv, Keeps, Alive
      <4>. QED BY <2>5, <4>1, <4>2
    <3>. QED BY <3>1 DEF SlotsInv
  <2>9. NativesInv'
    BY <2>2, <2>4, NativeStays DEF NativesInv
  <2>. QED BY <2>4, <2>7, <2>8, <2>9 DEF TransInv
<1>. QED BY <1>2, <1>3, <1>4 DEF Dispatcher

-----------------------------------------------------------------------------
(* Translations: live translations                                         *)

LEMMA NativeMoves ==
  ASSUME TransInv, NEW u \in Natives, u \in Announced,
         UNCHANGED <<filter, record, targets, invalid, queue, loop, granted, task>>,
         native' \in [Natives -> NativeState], told' \in [Items -> Tellings],
         saved \subseteq saved',
         \A i \in Items : i # <<u, NativeLang>> => told'[i] = told[i],
         \A v \in Natives : v # u =>
           native'[v] = native[v] \/ (native[v] = "completed" /\ native'[v] = "none"),
         NativeInv(u)'
  PROVE  TransInv'
<1>1. /\ FilterInv' /\ \A m : Keeps(m)
      /\ (\A x \in Utterances : x \in Announced' =>
            x \in Announced \/ Allows(x)) => AdmitInv'
  BY FilterSame
<1>2. Announced' = Announced
  BY DEF Announced
<1>3. AdmitInv'
  BY <1>1, <1>2
<1>4. JobTypes /\ SlotsInv /\ NativesInv
  BY DEF TransInv
<1>5. JobTypes'
  <2>1. \A v \in Natives : native'[v] # "none" => v \in Announced
    BY <1>4 DEF JobTypes
  <2>2. \A i \in Items : told'[i] # {} => i[1] \in Announced
    BY <1>4 DEF JobTypes
  <2>. QED BY <1>2, <1>4, <2>1, <2>2 DEF JobTypes
<1>6. SlotsInv'
  <2>1. ASSUME NEW t \in Slots PROVE SlotInv(t)'
    <3>1. told'[t] = told[t]
      BY ItemFacts
    <3>. QED BY <1>1, <3>1, SlotStays
  <2>. QED BY <2>1 DEF SlotsInv
<1>7. NativesInv'
  <2>1. ASSUME NEW v \in Natives PROVE NativeInv(v)'
    <3>1. CASE v = u
      BY <3>1
    <3>2. CASE v # u
      <4>. DEFINE i == <<v, NativeLang>>
      <4>1. i \in Items /\ i # <<u, NativeLang>> /\ told'[i] = told[i]
        BY <3>2, ItemFacts
      <4>2. CASE native'[v] = native[v]
        BY <1>1, <4>1, <4>2, NativeStays
      <4>3. CASE native[v] = "completed" /\ native'[v] = "none"
        <5>1. NativeInv(v)
          BY <1>4 DEF NativesInv
        <5>2. "completed" \in told[i] => i \in saved \/ Forgotten(v)
          BY <5>1 DEF NativeInv
        <5>3. told[i] \cap Outcomes # {} \/ Gone(v)
          BY <4>3, <5>1 DEF NativeInv
        <5>. QED BY <1>1, <4>1, <4>3, <5>2, <5>3 DEF NativeInv, Keeps
      <4>. QED BY <3>2, <4>2, <4>3
    <3>. QED BY <3>1, <3>2
  <2>. QED BY <2>1 DEF NativesInv
<1>. QED BY <1>1, <1>3, <1>5, <1>6, <1>7 DEF TransInv

LEMMA NativeStepFacts ==
  ASSUME TransInv, NEW u \in Natives, NEW next \in NativeState, NativeStep(u, next)
  PROVE  /\ UNCHANGED <<filter, record, targets, invalid, queue, loop, granted, task>>
         /\ native' \in [Natives -> NativeState] /\ native'[u] = next
         /\ \A v \in Natives : v # u => native'[v] = native[v]
<1>1. native \in [Natives -> NativeState]
  BY DEF TransInv, JobTypes
<1>. QED BY <1>1 DEF NativeStep

LEMMA LiveTranslationKept ==
  ASSUME TransInv, NEW u \in Natives,
         NativeResult(u) \/ NativeSave(u) \/ NativeReport(u) \/ NativeEmpty(u)
  PROVE  TransInv'
<1>. DEFINE i == <<u, NativeLang>>
<1>1. /\ i \in Items /\ NativeInv(u) /\ u \in Utterances /\ told \in [Items -> Tellings]
      /\ native \in [Natives -> NativeState] /\ (native[u] # "none" => u \in Announced)
  BY ItemFacts DEF TransInv, NativesInv, JobTypes
<1>2. NativeState = {"none", "pending", "storing", "saved", "unsaved", "completed"}
  BY DEF NativeState
<1>3. u \in Announced /\ ~Allows(u) => Gone(u)
  BY <1>1 DEF TransInv, AdmitInv
<1>4. ASSUME u \in Announced, native[u] = "saved", Allows(u)
      PROVE  i \in saved \/ Forgotten(u)
  <2>1. u \notin revokedEver
    BY <1>1, <1>4, AllowedIsThere DEF TransInv
  <2>2. u \notin invalid
    BY <1>1, TranslationsAssumption DEF TransInv, JobTypes
  <2>. QED BY <1>1, <1>4, <2>1, <2>2 DEF NativeInv, Gone
<1>5. CASE NativeResult(u)
  <2>1. /\ native[u] \in {"pending", "completed"} /\ NativeStep(u, "storing")
        /\ saved' = saved /\ told' = told
    BY <1>5 DEF NativeResult
  <2>2. /\ UNCHANGED <<filter, record, targets, invalid, queue, loop, granted, task>>
        /\ native' \in [Natives -> NativeState] /\ native'[u] = "storing"
        /\ \A v \in Natives : v # u => native'[v] = native[v]
    BY <1>2, <2>1, NativeStepFacts
  <2>3. \A m : Keeps(m)
    BY <2>2, FilterSame
  <2>4. NativeInv(u)'
    BY <1>1, <2>1, <2>2, <2>3 DEF NativeInv, Keeps
  <2>. QED BY <1>1, <2>1, <2>2, <2>4, NativeMoves
<1>6. CASE NativeSave(u)
  <2>1. /\ native[u] = "storing" /\ told' = told
        /\ \/ Allows(u) /\ NativeStep(u, "saved") /\ saved' = saved \cup {i}
           \/ Allows(u) /\ NativeStep(u, "unsaved") /\ saved' = saved
           \/ ~Allows(u) /\ NativeStep(u, "saved") /\ saved' = saved
    BY <1>6 DEF NativeSave
  <2>2. /\ UNCHANGED <<filter, record, targets, invalid, queue, loop, granted, task>>
        /\ native' \in [Natives -> NativeState]
        /\ \/ native'[u] = "saved" /\ (i \in saved' \/ Gone(u))
           \/ native'[u] = "unsaved"
        /\ \A v \in Natives : v # u => native'[v] = native[v]
    <3>1. CASE NativeStep(u, "saved") /\ (i \in saved' \/ Gone(u))
      BY <1>2, <3>1, NativeStepFacts
    <3>2. CASE NativeStep(u, "unsaved")
      BY <1>2, <3>2, NativeStepFacts
    <3>. QED BY <1>1, <1>3, <2>1, <3>1, <3>2
  <2>3. \A m : Keeps(m)
    BY <2>2, FilterSame
  <2>4. NativeInv(u)' /\ saved \subseteq saved'
    BY <1>1, <2>1, <2>2, <2>3 DEF NativeInv, Keeps
  <2>. QED BY <1>1, <2>1, <2>2, <2>4, NativeMoves
<1>7. CASE NativeReport(u)
  <2>1. /\ native[u] \in {"saved", "unsaved"} /\ saved' = saved
        /\ native' = [v \in Natives |->
                  IF v = u
                  THEN IF native[u] = "saved" THEN "completed" ELSE "none"
                  ELSE IF native[v] = "completed" /\ native[u] = "saved"
                  THEN "none" ELSE native[v]]
        /\ UNCHANGED <<filter, record, targets, invalid, queue, loop, granted, task>>
        /\ IF Allows(u)
           THEN Tell({i}, IF native[u] = "saved" THEN "completed" ELSE "failed")
           ELSE told' = told
    BY <1>7 DEF NativeReport
  <2>2. /\ native' \in [Natives -> NativeState]
        /\ native'[u] = IF native[u] = "saved" THEN "completed" ELSE "none"
        /\ \A v \in Natives : v # u =>
             native'[v] = native[v] \/ (native[v] = "completed" /\ native'[v] = "none")
    <3>1. \A v \in Natives : native'[v] \in NativeState
      BY <1>1, <1>2, <2>1
    <3>. QED BY <2>1, <3>1
  <2>3. \A m : Keeps(m)
    BY <2>1, FilterSame
  <2>4. CASE Allows(u)
    <3>. DEFINE what == IF native[u] = "saved" THEN "completed" ELSE "failed"
    <3>1. /\ told' \in [Items -> Tellings] /\ told'[i] = told[i] \cup {what}
          /\ \A x \in Items : x # i => told'[x] = told[x]
      <4>1. Tell({i}, what) /\ what \in {"started", "completed", "failed"}
        BY <2>1, <2>4
      <4>. HIDE DEF what
      <4>. QED BY <1>1, <4>1, TellFacts
    <3>2. what = "completed" => i \in saved \/ Forgotten(u)
      BY <1>1, <1>4, <2>1, <2>4
    <3>3. what \in Outcomes /\ (what # "completed" => what = "failed")
      BY DEF Outcomes
    <3>4. NativeInv(u)'
      BY <1>1, <2>1, <2>2, <2>3, <3>1, <3>2, <3>3 DEF NativeInv, Keeps
    <3>. QED BY <1>1, <2>1, <2>2, <3>1, <3>4, NativeMoves
  <2>5. CASE ~Allows(u)
    <3>1. Gone(u) /\ told' = told
      BY <1>1, <1>3, <2>1, <2>5
    <3>2. NativeInv(u)'
      BY <1>1, <2>1, <2>2, <2>3, <3>1 DEF NativeInv, Keeps
    <3>. QED BY <1>1, <2>1, <2>2, <3>1, <3>2, NativeMoves
  <2>. QED BY <2>4, <2>5
<1>8. CASE NativeEmpty(u)
  <2>1. /\ native[u] \in {"pending", "completed"} /\ NativeStep(u, "none")
        /\ saved' = saved /\ Tell({i}, "failed")
    BY <1>8 DEF NativeEmpty
  <2>2. /\ UNCHANGED <<filter, record, targets, invalid, queue, loop, granted, task>>
        /\ native' \in [Natives -> NativeState] /\ native'[u] = "none"
        /\ \A v \in Natives : v # u => native'[v] = native[v]
    BY <1>2, <2>1, NativeStepFacts
  <2>3. /\ told' \in [Items -> Tellings] /\ told'[i] = told[i] \cup {"failed"}
        /\ \A x \in Items : x # i => told'[x] = told[x]
    BY <1>1, <2>1, TellFacts
  <2>4. \A m : Keeps(m)
    BY <2>2, FilterSame
  <2>5. NativeInv(u)'
    BY <1>1, <2>1, <2>2, <2>3, <2>4 DEF NativeInv, Keeps, Outcomes
  <2>. QED BY <1>1, <2>1, <2>2, <2>3, <2>5, NativeMoves
<1>. QED BY <1>5, <1>6, <1>7, <1>8

\* A live translation is expected from now on: it is shown as started.
LEMMA AnnounceNativeKept ==
  ASSUME TransInv, NEW u \in Utterances, NEW route \in MicTargets,
         AnnounceNative(u, route)
  PROVE  TransInv'
<1>. DEFINE i == <<u, NativeLang>>
            full == route # {} /\ Len(queue) = QueueCapacity
<1>1. /\ u \in Natives /\ record[u] = "stored" /\ Allows(u)
      /\ record' = [record EXCEPT ![u] = "announced"]
      /\ native' = [native EXCEPT ![u] = "pending"]
      /\ queue' = IF full \/ route = {} THEN queue ELSE Append(queue, u)
      /\ told' = [x \in Items |->
                    IF x = i THEN {"started"}
                    ELSE IF full /\ x \in {u} \X route THEN {"failed"} ELSE told[x]]
      /\ UNCHANGED <<filter, invalid, loop, granted, task, saved>>
  BY DEF AnnounceNative
<1>2. JobTypes /\ SlotsInv /\ NativesInv /\ AdmitInv
  BY DEF TransInv
<1>3. u \notin Announced /\ u \in Messages /\ i \in Items
  BY <1>1, NotYet, ItemFacts
<1>4. /\ record' \in [Messages -> RecordState] /\ Announced' = Announced \cup {u}
      /\ queue \in Seq(Announced') /\ loop \in Announced' \cup {None}
  <2>1. "announced" \in RecordState
    BY DEF RecordState
  <2>. QED BY <1>1, <1>3, <2>1, RecordOne
<1>5. /\ FilterInv' /\ \A m : Keeps(m)
      /\ (\A x \in Utterances : x \in Announced' =>
            x \in Announced \/ Allows(x)) => AdmitInv'
  BY <1>1, FilterSame
<1>6. AdmitInv'
  BY <1>1, <1>4, <1>5
<1>7. \A x \in Items : x[1] = u => told[x] = {}
  BY <1>2, <1>3 DEF JobTypes
<1>8. \A x \in Items : x # i =>
        told'[x] = told[x] \/ (told'[x] = told[x] \cup {"failed"} /\ x[1] = u)
  BY <1>1, <1>7
<1>9. told'[i] = {"started"}
  BY <1>1, <1>3
<1>10. JobTypes'
  <2>1. \A x \in Items : told'[x] \in Tellings /\ (told'[x] # {} => x[1] \in Announced')
    BY <1>2, <1>4, <1>8, <1>9 DEF JobTypes, Tellings
  <2>2. told' \in [Items -> Tellings]
    BY <1>1, <2>1
  <2>3. queue' \in Seq(Announced')
    BY <1>1, <1>4
  <2>4. native' \in [Natives -> NativeState]
        /\ \A v \in Natives : native'[v] # "none" => v \in Announced'
    BY <1>1, <1>2, <1>4 DEF JobTypes, NativeState
  <2>5. \A t \in Slots : task'[t] # "none" => t[1] \in Announced'
    BY <1>1, <1>2, <1>4 DEF JobTypes
  <2>. QED BY <1>1, <1>2, <1>4, <2>1, <2>2, <2>3, <2>4, <2>5 DEF JobTypes
<1>11. SlotsInv'
  <2>1. ASSUME NEW t \in Slots PROVE SlotInv(t)'
    <3>1. told'[t] = told[t] \/ told'[t] = told[t] \cup {"failed"}
      BY <1>1, <1>8, ItemFacts
    <3>. QED BY <1>1, <1>5, <3>1, SlotStays
  <2>. QED BY <2>1 DEF SlotsInv
<1>12. NativesInv'
  <2>1. ASSUME NEW v \in Natives PROVE NativeInv(v)'
    <3>1. CASE v = u
      <4>1. native'[u] = "pending"
        BY <1>1, <1>2 DEF JobTypes
      <4>. QED BY <1>9, <3>1, <4>1 DEF NativeInv
    <3>2. CASE v # u
      <4>1. native'[v] = native[v]
        BY <1>1, <1>2, <3>2 DEF JobTypes
      <4>2. told'[<<v, NativeLang>>] = told[<<v, NativeLang>>]
        BY <1>8, <3>2, ItemFacts
      <4>. QED BY <1>1, <1>5, <4>1, <4>2, NativeStays
    <3>. QED BY <3>1, <3>2
  <2>. QED BY <2>1 DEF NativesInv
<1>. QED BY <1>5, <1>6, <1>10, <1>11, <1>12 DEF TransInv

-----------------------------------------------------------------------------
(* Translations: the filter changes                                        *)

\* A change of the filter: what was announced before is gone, or goes on being
\* admitted, and what is gone stays gone.
LEMMA FilterKept ==
  ASSUME TransInv, NEW H, FilterInv', Moves(H), H \cap Announced = {},
         Announced' = Announced, invalid' = invalid
  PROVE  AdmitInv' /\ \A m \in Announced : Keeps(m)
<1>1. revokedEver \subseteq Utterances
  BY DEF TransInv, FilterInv
<1>2. ASSUME NEW m \in Announced PROVE Keeps(m)
  <2>1. m \in DOMAIN utterances' => m \in DOMAIN utterances
    BY <1>2 DEF Moves
  <2>2. m \in revokedEver => m \in revokedEver' \/ Forgotten(m)'
    BY <1>1 DEF Moves, Forgotten
  <2>. QED BY <2>1, <2>2 DEF Keeps, Gone, Forgotten
<1>3. ASSUME NEW u \in Utterances, u \in Announced PROVE Gone(u)' \/ Allows(u)'
  <2>1. CASE Gone(u)
    BY <1>2, <1>3, <2>1 DEF Keeps
  <2>2. CASE Allows(u) /\ u \in DOMAIN utterances'
    BY <1>3, <2>2 DEF Moves, Gone
  <2>3. CASE u \notin DOMAIN utterances'
    BY <2>3 DEF Gone, Forgotten
  <2>. QED BY <1>3, <2>1, <2>2, <2>3 DEF TransInv, AdmitInv
<1>. QED BY <1>2, <1>3 DEF AdmitInv

\* What remains is known of the tasks and of the live translations.
LEMMA FilterMoves ==
  ASSUME TransInv, NEW H, FilterInv', Moves(H), H \cap Announced = {},
         Announced' = Announced,
         UNCHANGED <<invalid, queue, loop, task, saved>>,
         record' \in [Messages -> RecordState],
         native' \in [Natives -> NativeState], told' \in [Items -> Tellings],
         \A t \in Slots : told'[t] = told[t],
         \A u \in Natives : u \in Announced => NativeInv(u)',
         \A u \in Natives : u \notin Announced =>
           native'[u] = "none" /\ told'[<<u, NativeLang>>] = {}
  PROVE  TransInv'
<1>1. AdmitInv' /\ \A m \in Announced : Keeps(m)
  BY FilterKept
<1>2. JobTypes
  BY DEF TransInv
<1>3. JobTypes'
  <2>1. \A i \in Items : told'[i] # {} => i[1] \in Announced
    BY <1>2, ItemFacts DEF JobTypes
  <2>2. \A u \in Natives : native'[u] # "none" => u \in Announced
    OBVIOUS
  <2>. QED BY <1>2, <2>1, <2>2 DEF JobTypes
<1>4. SlotsInv'
  BY <1>1, SlotStays DEF SlotsInv
<1>5. NativesInv'
  <2>1. ASSUME NEW u \in Natives, u \notin Announced PROVE NativeInv(u)'
    BY <2>1 DEF NativeInv
  <2>. QED BY <2>1 DEF NativesInv
<1>. QED BY <1>1, <1>3, <1>4, <1>5 DEF TransInv

\* The live translations are left alone.
LEMMA FilterAlone ==
  ASSUME TransInv, NEW H, FilterInv', Moves(H), H \cap Announced = {},
         Announced' = Announced, record' \in [Messages -> RecordState],
         UNCHANGED <<invalid, queue, loop, task, native, saved, told>>
  PROVE  TransInv'
<1>1. JobTypes /\ \A m \in Announced : Keeps(m)
  BY FilterKept DEF TransInv
<1>2. \A u \in Natives : u \in Announced => NativeInv(u)'
  BY <1>1, NativeStays
<1>3. \A u \in Natives : u \notin Announced =>
        native'[u] = "none" /\ told'[<<u, NativeLang>>] = {}
  BY <1>1, ItemFacts DEF JobTypes
<1>4. native' \in [Natives -> NativeState] /\ told' \in [Items -> Tellings]
  BY <1>1 DEF JobTypes
<1>. QED BY <1>2, <1>3, <1>4, FilterMoves

LEMMA HearKept ==
  ASSUME TransInv, NEW u \in Utterances, NEW s \in Speakers \cup {None}, Hear(u, s)
  PROVE  TransInv'
<1>1. /\ record[u] # "announced" /\ Discover(u, s)
      /\ record' = [record EXCEPT ![u] = "heard"]
      /\ UNCHANGED <<invalid, queue, loop, task, native, saved, told>>
  BY DEF Hear
<1>2. FilterInv' /\ Moves({u})
  BY <1>1, FilterDiscovers DEF TransInv
<1>3. u \notin Announced /\ u \in Messages /\ "heard" \in RecordState
  BY <1>1, NotYet DEF Messages, RecordState
<1>4. record' \in [Messages -> RecordState] /\ Announced' = Announced
  BY <1>1, <1>3, RecordOne
<1>. QED BY <1>1, <1>2, <1>3, <1>4, FilterAlone

LEMMA FilterChanged ==
  ASSUME TransInv, FilterInv', Moves({}), UNCHANGED jobs
  PROVE  TransInv'
<1>1. /\ record' = record
      /\ UNCHANGED <<invalid, queue, loop, task, native, saved, told>>
  BY DEF jobs
<1>2. Announced' = Announced /\ record' \in [Messages -> RecordState]
  BY <1>1 DEF Announced, TransInv, JobTypes
<1>. QED BY <1>1, <1>2, FilterAlone

\* Starting, stopping and the sessions reset the filter.
LEMMA FilterStarts ==
  ASSUME TransInv,
         (\E supported \in BOOLEAN : Start(supported)) \/ Stop \/ BeginSession
           \/ LoseSession
  PROVE  FilterInv' /\ Moves({})
<1>1. FilterInv /\ policy \in PolicyState /\ sessions \in Nat
  BY DEF TransInv, FilterInv
<1>2. /\ DOMAIN policy = {"enabled", "supported", "running", "revision", "generation"}
      /\ policy.revision \in Nat /\ policy.generation \in Nat
      /\ policy.enabled \in BOOLEAN /\ policy.supported \in BOOLEAN
      /\ policy.running \in BOOLEAN
  BY <1>1 DEF PolicyState
<1>3. CASE \E supported \in BOOLEAN : Start(supported)
  <2>1. PICK supported \in BOOLEAN : Start(supported)
    BY <1>3
  <2>. DEFINE p == [policy EXCEPT !.supported = supported, !.running = TRUE]
  <2>2. Reset(p, 0) /\ sessions' = sessions
    BY <2>1 DEF Start
  <2>3. p \in PolicyState /\ p.enabled = policy.enabled
    BY <1>1, <1>2 DEF PolicyState
  <2>. HIDE DEF p
  <2>. QED BY <1>1, <2>2, <2>3, FilterResets
<1>4. CASE Stop
  <2>. DEFINE p == [policy EXCEPT !.running = FALSE]
  <2>2. Reset(p, 0) /\ sessions' = sessions
    BY <1>4 DEF Stop
  <2>3. p \in PolicyState /\ p.enabled = policy.enabled
    BY <1>1, <1>2 DEF PolicyState
  <2>. HIDE DEF p
  <2>. QED BY <1>1, <2>2, <2>3, FilterResets
<1>5. CASE BeginSession
  <2>1. sessions' \in Nat /\ Reset(policy, sessions')
    BY <1>1, <1>5 DEF BeginSession
  <2>. QED BY <1>1, <2>1, FilterResets
<1>6. CASE LoseSession
  <2>1. sessions' = sessions /\ Reset(policy, 0)
    BY <1>6 DEF LoseSession
  <2>. QED BY <1>1, <2>1, FilterResets
<1>. QED BY <1>3, <1>4, <1>5, <1>6

LEMMA ChangeFilterKept ==
  ASSUME TransInv, ChangeFilter \/ StartCapture
  PROVE  TransInv'
<1>1. FilterInv
  BY DEF TransInv
<1>2. CASE ChangeFilter
  <2>1. FilterInv' /\ Moves({})
    BY <1>1, <1>2, FilterSet, FilterApplies DEF ChangeFilter
  <2>. QED BY <1>2, <2>1, FilterChanged DEF ChangeFilter
<1>3. CASE StartCapture
  <2>1. FilterInv' /\ Moves({})
    BY <1>3, FilterStarts DEF StartCapture
  <2>. QED BY <1>3, <2>1, FilterChanged DEF StartCapture
<1>. QED BY <1>2, <1>3

LEMMA OpenSessionKept ==
  ASSUME TransInv, OpenSession
  PROVE  TransInv'
<1>1. /\ BeginSession /\ UNCHANGED <<record, invalid, queue, loop, task, saved, told>>
      /\ native' = [u \in Natives |-> IF Allows(u)' THEN native[u] ELSE "none"]
  BY DEF OpenSession
<1>2. FilterInv' /\ Moves({}) /\ JobTypes /\ NativesInv
  BY <1>1, FilterStarts DEF TransInv
<1>3. Announced' = Announced
  BY <1>1 DEF Announced
<1>4. AdmitInv' /\ \A m \in Announced : Keeps(m)
  BY <1>1, <1>2, <1>3, FilterKept
<1>5. \A u \in Natives : native'[u] = native[u] \/ (native'[u] = "none" /\ ~Allows(u)')
  BY <1>1
<1>6. ASSUME NEW u \in Natives, u \in Announced PROVE NativeInv(u)'
  <2>1. CASE native'[u] = native[u]
    BY <1>1, <1>4, <1>6, <2>1, NativeStays
  <2>2. CASE native'[u] = "none" /\ ~Allows(u)'
    <3>1. Gone(u)'
      BY <1>3, <1>4, <1>6, <2>2, ItemFacts DEF AdmitInv
    <3>2. NativeInv(u) /\ Keeps(u)
      BY <1>2, <1>4, <1>6 DEF NativesInv
    <3>. QED BY <1>1, <2>2, <3>1, <3>2 DEF NativeInv, Keeps
  <2>. QED BY <1>5, <2>1, <2>2
<1>7. /\ native' \in [Natives -> NativeState] /\ told' \in [Items -> Tellings]
      /\ record' \in [Messages -> RecordState]
  <2>1. \A u \in Natives : native'[u] \in NativeState
    BY <1>2, <1>5 DEF JobTypes, NativeState
  <2>. QED BY <1>1, <1>2, <2>1 DEF JobTypes
<1>8. \A u \in Natives : u \notin Announced =>
        native'[u] = "none" /\ told'[<<u, NativeLang>>] = {}
  BY <1>1, <1>2, <1>5, ItemFacts DEF JobTypes
<1>. QED BY <1>1, <1>2, <1>3, <1>6, <1>7, <1>8, FilterMoves

LEMMA EndSessionKept ==
  ASSUME TransInv, EndSession
  PROVE  TransInv'
<1>1. /\ ~PipelineBusy /\ (Stop \/ LoseSession)
      /\ UNCHANGED <<record, invalid, queue, loop, task, saved>>
      /\ native' = [u \in Natives |-> "none"]
      /\ told' = [i \in Items |->
                    IF i \in Natives \X {NativeLang}
                    THEN IF native[i[1]] = "pending" /\ Allows(i[1])'
                         THEN told[i] \cup {"failed"} ELSE told[i]
                    ELSE told[i]]
  BY DEF EndSession
<1>2. FilterInv' /\ Moves({}) /\ JobTypes /\ NativesInv
  BY <1>1, FilterStarts DEF TransInv
<1>3. Announced' = Announced
  BY <1>1 DEF Announced
<1>4. AdmitInv' /\ \A m \in Announced : Keeps(m)
  BY <1>1, <1>2, <1>3, FilterKept
<1>5. \A t \in Slots : told'[t] = told[t]
  BY <1>1, ItemFacts, TranslationsAssumption DEF Slots
<1>6. \A u \in Natives :
        /\ native[u] = "pending" /\ Allows(u)' =>
             told'[<<u, NativeLang>>] = told[<<u, NativeLang>>] \cup {"failed"}
        /\ ~(native[u] = "pending" /\ Allows(u)') =>
             told'[<<u, NativeLang>>] = told[<<u, NativeLang>>]
  BY <1>1, ItemFacts
<1>7. ASSUME NEW u \in Natives, u \in Announced PROVE NativeInv(u)'
  <2>1. NativeInv(u) /\ Keeps(u) /\ native'[u] = "none"
    BY <1>1, <1>2, <1>4, <1>7 DEF NativesInv
  <2>2. native[u] \in {"none", "pending", "completed"}
    BY <1>1, <1>2 DEF PipelineBusy, JobTypes, NativeState
  <2>3. CASE native[u] = "pending" /\ Allows(u)'
    <3>1. told'[<<u, NativeLang>>] = told[<<u, NativeLang>>] \cup {"failed"}
      BY <1>6, <2>3
    <3>2. saved' = saved
      BY <1>1
    <3>. QED BY <2>1, <3>1, <3>2 DEF NativeInv, Keeps, Outcomes
  <2>4. CASE native[u] = "pending" /\ ~Allows(u)'
    <3>1. Gone(u)'
      BY <1>3, <1>4, <1>7, <2>4, ItemFacts DEF AdmitInv
    <3>. QED BY <1>1, <1>6, <2>1, <2>4, <3>1 DEF NativeInv, Keeps
  <2>5. CASE native[u] \in {"none", "completed"}
    BY <1>1, <1>6, <2>1, <2>5 DEF NativeInv, Keeps
  <2>. QED BY <2>2, <2>3, <2>4, <2>5
<1>8. native' \in [Natives -> NativeState] /\ record' \in [Messages -> RecordState]
  BY <1>1, <1>2 DEF JobTypes, NativeState
<1>9. told' \in [Items -> Tellings]
  <2>1. \A i \in Items : told'[i] = told[i] \/ told'[i] = told[i] \cup {"failed"}
    BY <1>1
  <2>2. \A i \in Items : told'[i] \in Tellings
    BY <1>2, <2>1 DEF JobTypes, Tellings
  <2>. QED BY <1>1, <2>2
<1>10. \A u \in Natives : u \notin Announced =>
         native'[u] = "none" /\ told'[<<u, NativeLang>>] = {}
  BY <1>1, <1>2, <1>6, ItemFacts DEF JobTypes
<1>. QED BY <1>1, <1>2, <1>3, <1>5, <1>7, <1>8, <1>9, <1>10, FilterMoves

LEMMA TransStep ==
  ASSUME TransInv, Next \/ UNCHANGED vars
  PROVE  TransInv'
<1>1. CASE UNCHANGED vars
  <2>1. /\ UNCHANGED <<filter, record, invalid, queue, loop, task, native, saved, told>>
    BY <1>1 DEF vars, jobs
  <2>2. JobTypes
    BY DEF TransInv
  <2>3. Announced' = Announced
    BY <2>1 DEF Announced
  <2>4. record' \in [Messages -> RecordState] /\ told' \in [Items -> Tellings]
        /\ queue' \in Seq(Announced') /\ loop' \in Announced' \cup {None}
        /\ invalid' \subseteq Remotes
    BY <2>1, <2>2, <2>3 DEF JobTypes
  <2>. QED BY <2>1, <2>3, <2>4, RecordMoves
<1>2. CASE Recording
  BY <1>2, HearKept, SubtitlesKept, RemotesKept, AnnounceNativeKept DEF Recording
<1>3. CASE Dispatcher
  BY <1>3, DispatcherKept
<1>4. CASE \E t \in Slots : TaskStep(t)
  BY <1>4, TaskKept
<1>5. CASE LiveTranslation
  BY <1>5, LiveTranslationKept DEF LiveTranslation
<1>. QED BY <1>1, <1>2, <1>3, <1>4, <1>5, ChangeFilterKept, OpenSessionKept,
            EndSessionKept DEF Next

\* What is shown as translated is stored, what is shown as running is worked on.
LEMMA TranslationsAccounted ==
  ASSUME TransInv
  PROVE  CompletedIsStored /\ StartedIsWorkedOn
<1>1. SlotsInv /\ NativesInv
  BY DEF TransInv
<1>2. ASSUME NEW i \in Items, "completed" \in told[i],
             i[1] \in Remotes \cup DOMAIN utterances
      PROVE  i \in saved
  <2>1. ~Forgotten(i[1])
    BY <1>2, TranslationsAssumption DEF Forgotten
  <2>2. CASE i \in Slots
    BY <1>1, <1>2, <2>1, <2>2 DEF SlotsInv, SlotInv
  <2>3. CASE i[1] \in Natives /\ i = <<i[1], NativeLang>>
    BY <1>1, <1>2, <2>1, <2>3 DEF NativesInv, NativeInv
  <2>. QED BY <2>2, <2>3, ItemFacts
<1>3. ASSUME NEW i \in Items, "started" \in told[i], told[i] \cap Outcomes = {}
      PROVE  \/ Worked(i) \/ i[1] \in invalid \cup revokedEver
             \/ i[1] \in Utterances \ DOMAIN utterances
  <2>1. CASE i \in Slots
    <3>1. i[2] # NativeLang
      BY <2>1, ItemFacts, TranslationsAssumption
    <3>. QED BY <1>1, <1>3, <2>1, <3>1 DEF SlotsInv, SlotInv, Worked, Gone, Forgotten
  <2>2. CASE i[1] \in Natives /\ i = <<i[1], NativeLang>>
    <3>1. i[2] = NativeLang
      BY <2>2
    <3>. QED BY <1>1, <1>3, <2>2, <3>1 DEF NativesInv, NativeInv, Worked, Gone, Forgotten
  <2>. QED BY <2>1, <2>2, ItemFacts
<1>. QED BY <1>2, <1>3 DEF CompletedIsStored, StartedIsWorkedOn

-----------------------------------------------------------------------------
(* Translations: what was taken back                                       *)

\* TakenBackIsSilent for one step.
Silent ==
  /\ \A i \in Items : TakenBack(i[1]) =>
          (i \in saved' <=> i \in saved) /\ told'[i] = told[i]
  /\ \A t \in Slots : task'[t] \in {"calling", "retrying"} /\ TakenBack(t[1])
          => task[t] = task'[t]

\* A step that tells and stores nothing is silent if no task starts a request.
LEMMA NothingTold ==
  ASSUME TransInv, saved' = saved, told' = told,
         \A t \in Slots : \/ task'[t] = task[t]
                          \/ task'[t] \notin {"calling", "retrying"}
                          \/ Wanted(t[1])
  PROVE  Silent
<1>1. \A t \in Slots : Wanted(t[1]) => ~TakenBack(t[1])
  BY WantedIsThere, ItemFacts DEF TakenBack
<1>. QED BY <1>1 DEF Silent

\* So is one about one message alone that is still wanted.
LEMMA WantedTold ==
  ASSUME TransInv, NEW m \in Messages, Wanted(m),
         \A i \in Items : i[1] # m => (i \in saved' <=> i \in saved) /\ told'[i] = told[i],
         \A t \in Slots : t[1] # m =>
           task'[t] = task[t] \/ task'[t] \notin {"calling", "retrying"}
  PROVE  Silent
<1>1. ~TakenBack(m)
  BY WantedIsThere DEF TakenBack
<1>2. ASSUME NEW i \in Items, TakenBack(i[1]) PROVE i[1] # m
  BY <1>1, <1>2
<1>3. ASSUME NEW t \in Slots, TakenBack(t[1]) PROVE t[1] # m
  BY <1>1, <1>3
<1>. QED BY <1>2, <1>3 DEF Silent

LEMMA TaskSilent ==
  ASSUME TransInv, NEW t \in Slots, TaskStep(t)
  PROVE  Silent
<1>1. t[1] \in Messages /\ t \in Items /\ task \in [Slots -> JobState]
  BY ItemFacts DEF TransInv, JobTypes
<1>2. \E phase : Goto(t, phase)
  BY DEF TaskStep, BeginTask, CheckTask, Answer, Retry, Reject, CancelTask, Store, Report
<1>3. \A x \in Slots : x # t => task'[x] = task[x]
  BY <1>1, <1>2 DEF Goto
<1>4. CASE Wanted(t[1])
  <2>1. /\ \/ told' = told
           \/ \E what \in {"started", "completed", "failed"} : Tell({t}, what)
        /\ saved' = saved \/ saved' = saved \cup {t}
    BY <1>4 DEF TaskStep, BeginTask, CheckTask, Answer, Retry, Reject, CancelTask, Store,
                Report
  <2>2. \A i \in Items : i # t => told'[i] = told[i]
    BY <2>1 DEF Tell
  <2>3. \A i \in Items : i[1] # t[1] => (i \in saved' <=> i \in saved)
                                        /\ told'[i] = told[i]
    BY <2>1, <2>2
  <2>4. \A x \in Slots : x[1] # t[1] => task'[x] = task[x]
    BY <1>3
  <2>. QED BY <1>1, <1>4, <2>3, <2>4, WantedTold
<1>5. CASE ~Wanted(t[1])
  <2>1. /\ told' = told /\ saved' = saved
        /\ Goto(t, "done") \/ Goto(t, "delay") \/ Goto(t, "stored")
    BY <1>5 DEF TaskStep, BeginTask, CheckTask, Answer, Retry, Reject, CancelTask, Store,
                Report
  <2>2. task'[t] \notin {"calling", "retrying"}
    BY <1>1, <2>1 DEF Goto
  <2>. QED BY <1>3, <2>1, <2>2, NothingTold
<1>. QED BY <1>4, <1>5

LEMMA LiveTranslationSilent ==
  ASSUME TransInv, NEW u \in Natives,
         NativeResult(u) \/ NativeSave(u) \/ NativeReport(u) \/ NativeEmpty(u)
  PROVE  Silent
<1>. DEFINE i == <<u, NativeLang>>
<1>1. i \in Items /\ u \in Utterances /\ u \in Messages /\ task' = task
  BY ItemFacts DEF NativeResult, NativeSave, NativeReport, NativeEmpty, NativeStep
<1>2. CASE Allows(u)
  <2>1. /\ \/ told' = told
           \/ \E what \in {"started", "completed", "failed"} : Tell({i}, what)
        /\ saved' = saved \/ saved' = saved \cup {i}
    BY <1>2 DEF NativeResult, NativeSave, NativeReport, NativeEmpty
  <2>2. \A x \in Items : x # i => told'[x] = told[x]
    BY <2>1 DEF Tell
  <2>3. \A x \in Items : x[1] # u => (x \in saved' <=> x \in saved) /\ told'[x] = told[x]
    BY <2>1, <2>2
  <2>4. Wanted(u)
    BY <1>1, <1>2, TranslationsAssumption DEF TransInv, JobTypes, Wanted, Allowed
  <2>. QED BY <1>1, <2>3, <2>4, WantedTold
<1>3. CASE ~Allows(u)
  <2>1. told' = told /\ saved' = saved
    BY <1>3 DEF NativeResult, NativeSave, NativeReport, NativeEmpty
  <2>. QED BY <1>1, <2>1, NothingTold
<1>. QED BY <1>2, <1>3

LEMMA EnqueueSilent ==
  ASSUME TransInv, NEW m \in Messages, NEW route, Enqueue(m, route),
         saved' = saved, task' = task
  PROVE  Silent
<1>1. CASE told' = told
  BY <1>1, NothingTold
<1>2. CASE Wanted(m) /\ Tell({m} \X route, "failed")
  <2>1. \A i \in Items : i[1] # m => told'[i] = told[i]
    BY <1>2 DEF Tell
  <2>. QED BY <1>2, <2>1, WantedTold
<1>. QED BY <1>1, <1>2 DEF Enqueue

LEMMA RecordingSilent ==
  ASSUME TransInv, Recording
  PROVE  Silent
<1>1. saved' = saved /\ task' = task
  BY DEF Recording, Hear, StoreSubtitle, StoreRemote, Invalidate, AnnounceSubtitle,
         AnnounceNative, AnnounceRemote
<1>2. CASE told' = told
  BY <1>1, <1>2, NothingTold
<1>3. CASE \E m \in Messages, route \in MicTargets \cup SpeakerTargets : Enqueue(m, route)
  BY <1>1, <1>3, EnqueueSilent
<1>4. CASE \E u \in Utterances, route \in MicTargets : AnnounceNative(u, route)
  <2>1. PICK u \in Utterances, route \in MicTargets : AnnounceNative(u, route)
    BY <1>4
  <2>2. u \in Natives /\ u \in Messages /\ Allows(u)
    BY <2>1 DEF AnnounceNative, Messages
  <2>3. Wanted(u)
    BY <2>2, TranslationsAssumption DEF TransInv, JobTypes, Wanted, Allowed
  <2>4. \A i \in Items : i[1] # u => told'[i] = told[i]
    BY <2>1 DEF AnnounceNative
  <2>. QED BY <1>1, <2>2, <2>3, <2>4, WantedTold
<1>. QED BY <1>2, <1>3, <1>4 DEF Recording, Hear, StoreSubtitle, StoreRemote, Invalidate,
         AnnounceSubtitle, AnnounceRemote, Messages

LEMMA EndSessionSilent ==
  ASSUME TransInv, EndSession
  PROVE  Silent
<1>1. /\ (Stop \/ LoseSession) /\ saved' = saved /\ task' = task
      /\ told' = [i \in Items |->
                    IF i \in Natives \X {NativeLang}
                    THEN IF native[i[1]] = "pending" /\ Allows(i[1])'
                         THEN told[i] \cup {"failed"} ELSE told[i]
                    ELSE told[i]]
  BY DEF EndSession
<1>2. FilterInv' /\ Moves({}) /\ invalid \subseteq Remotes
  BY <1>1, FilterStarts DEF TransInv, JobTypes
<1>3. ASSUME NEW i \in Items, told'[i] # told[i] PROVE ~TakenBack(i[1])
  <2>1. i[1] \in Natives /\ Allows(i[1])'
    BY <1>1, <1>3
  <2>2. i[1] \in DOMAIN utterances' /\ ~utterances'[i[1]].revoked /\ i[1] \in Utterances
    BY <2>1 DEF Allows, Natives
  <2>3. i[1] \notin revokedEver
    BY <1>2, <2>2 DEF FilterInv, Moves
  <2>. QED BY <1>2, <2>2, <2>3, TranslationsAssumption DEF TakenBack
<1>. QED BY <1>1, <1>3 DEF Silent

\* Nothing that was taken back is stored, told of or asked for in a step.
LEMMA TakenBackStaysSilent ==
  ASSUME TransInv, Next
  PROVE  Silent
<1>1. CASE Dispatcher
  <2>1. saved' = saved /\ told' = told
    BY <1>1 DEF Dispatcher, TakeJob, TakePermit, Spawn
  <2>2. \A t \in Slots : task'[t] = task[t] \/ task'[t] = "spawned"
    BY <1>1 DEF Dispatcher, TakeJob, TakePermit, Spawn
  <2>. QED BY <2>1, <2>2, NothingTold
<1>2. CASE ChangeFilter \/ StartCapture \/ OpenSession
  BY <1>2, NothingTold DEF ChangeFilter, StartCapture, OpenSession, jobs
<1>. QED BY <1>1, <1>2, RecordingSilent, TaskSilent, LiveTranslationSilent,
            EndSessionSilent DEF Next, LiveTranslation

-----------------------------------------------------------------------------
(* QwenRuntime: connections and the processes they lead to                 *)

\* What leads to a process: the connection, the users' copies of it, and that
\* which a start is about to publish.
Link(c) ==
  \/ c # None /\ c = runConnection
  \/ c # None /\ \E u \in Users : c = runUser[u].conn
  \/ /\ runLaunch.step \in {"probe", "answered"}
     /\ c = [session |-> runLaunch.session, generation |-> runLaunch.generation]

Unlinked == {"idle", "waiting", "starting"}

\* A process has one session; who restarts the runtime restarts its session.
LinkInv ==
  /\ \A u \in Users : runUser[u].conn = None <=> runUser[u].at \in Unlinked
  /\ runLaunch.step # "none" /\ runUser[runStartup].at = "restarting"
       => runLaunch.session = runUser[runStartup].conn.session
  /\ \A c : Link(c) => c.generation <= runGeneration
  /\ \A c, d : Link(c) /\ Link(d) /\ c.generation = d.generation
                 => c.session = d.session

\* Qwen!AnswersAreCurrent for one step.
AnswersStay ==
  \A u \in Users :
    /\ runUser[u].at = "answered" /\ runUser'[u].at = "accepted"
         => /\ runConnection' # None /\ runUser[u].conn = runConnection'
            /\ runChild' # None => runChild'.session = runUser[u].conn.session
    /\ runUser[u].conn # None /\ runUser'[u].conn # None
         => runUser'[u].conn.session = runUser[u].conn.session

LEMMA LinksMove ==
  ASSUME LinkInv, runGeneration' = runGeneration,
         runConnection' = None \/ Link(runConnection'),
         \A u \in Users :
           /\ runUser'[u].conn = None \/ Link(runUser'[u].conn)
           /\ runUser[u].conn # None /\ runUser'[u].conn # None
                => runUser'[u].conn.session = runUser[u].conn.session
           /\ runUser'[u].conn = None <=> runUser'[u].at \in Unlinked
           /\ runUser'[u].at = "accepted" => runUser[u].at = "accepted",
         \/ runLaunch' = runLaunch
         \/ runLaunch'.step \in {"none", "spawn"}
         \/ /\ runLaunch.step = "probe" /\ runLaunch'.session = runLaunch.session
            /\ runLaunch'.generation = runLaunch.generation,
         runLaunch'.step # "none" /\ runUser'[runStartup'].at = "restarting"
           => runLaunch'.session = runUser'[runStartup'].conn.session
  PROVE  LinkInv' /\ AnswersStay
<1>1. \A c : Link(c)' => Link(c)
  BY DEF Link
<1>. QED BY <1>1 DEF LinkInv, AnswersStay

\* What somebody is linked with, he may be linked with.
LEMMA LinkFacts ==
  ASSUME RuntimeInv, LinkInv
  PROVE  /\ runConnection = None \/ Link(runConnection)
         /\ \A u \in Users : runUser[u].conn = None \/ Link(runUser[u].conn)
         /\ \A u \in Users : runUser[u].conn = None <=> runUser[u].at \in Unlinked
         /\ Qwen!Checked.connection \in {None, runConnection}
BY DEF Link, LinkInv, Qwen!Checked

\* One user goes on to do something else, with the connection it has.
LEMMA LinkAt ==
  ASSUME RuntimeInv, LinkInv, NEW u \in Users, NEW at \in UserAt,
         runUser' = [runUser EXCEPT ![u].at = at],
         at \in Unlinked <=> runUser[u].at \in Unlinked,
         at # "accepted",
         runGeneration' = runGeneration, runConnection' \in {None, runConnection},
         \/ runLaunch' = runLaunch /\ runStartup' = runStartup /\ at # "restarting"
         \/ runLaunch'.step = "none"
         \/ /\ runLaunch'.step = "spawn"
            /\ runUser'[runStartup'].at = "restarting"
                 => runLaunch'.session = runUser'[runStartup'].conn.session
  PROVE  LinkInv' /\ AnswersStay
<1>1. /\ runUser'[u].at = at /\ runUser'[u].conn = runUser[u].conn
      /\ \A v \in Users : v # u => runUser'[v] = runUser[v]
  BY RuntimeUserAt DEF RuntimeInv
<1>2. \A v \in Users :
        /\ runUser'[v].conn = None \/ Link(runUser'[v].conn)
        /\ runUser[v].conn # None /\ runUser'[v].conn # None
             => runUser'[v].conn.session = runUser[v].conn.session
        /\ runUser'[v].conn = None <=> runUser'[v].at \in Unlinked
        /\ runUser'[v].at = "accepted" => runUser[v].at = "accepted"
  BY <1>1, LinkFacts
<1>3. runLaunch'.step # "none" /\ runUser'[runStartup'].at = "restarting"
        => runLaunch'.session = runUser'[runStartup'].conn.session
  <2>1. CASE runLaunch' = runLaunch /\ runStartup' = runStartup /\ at # "restarting"
    <3>1. runLaunch.step # "none" => runStartup \in Users
      BY DEF RuntimeInv, QueueInv
    <3>. QED BY <1>1, <2>1, <3>1 DEF LinkInv
  <2>. QED BY <2>1
<1>. QED BY <1>2, <1>3, LinkFacts, LinksMove

\* One user gets a connection of its session, or gives up its own.
LEMMA LinkSet ==
  ASSUME RuntimeInv, LinkInv, NEW u \in Users, NEW at \in UserAt, at # "accepted",
         NEW conn \in ConnectionState \cup {None},
         runUser' = [runUser EXCEPT ![u] = [at |-> at, conn |-> conn]],
         conn = None <=> at \in Unlinked, conn = None \/ Link(conn),
         conn # None /\ runUser[u].conn # None => conn.session = runUser[u].conn.session,
         runGeneration' = runGeneration,
         runConnection' = None \/ Link(runConnection'),
         \/ runLaunch' = runLaunch /\ runStartup' = runStartup /\ at # "restarting"
         \/ runLaunch'.step = "none"
  PROVE  LinkInv' /\ AnswersStay
<1>1. /\ runUser'[u].at = at /\ runUser'[u].conn = conn
      /\ \A v \in Users : v # u => runUser'[v] = runUser[v]
  <2>. DEFINE f == [runUser EXCEPT ![u] = [at |-> at, conn |-> conn]]
  <2>1. RuntimeTypes
    BY DEF RuntimeInv
  <2>2. /\ f[u].at = at /\ f[u].conn = conn
        /\ \A v \in Users \ {u} : f[v] = runUser[v]
    BY <2>1, RuntimeUserSet
  <2>3. runUser' = f
    OBVIOUS
  <2>. HIDE DEF f
  <2>. QED BY <2>2, <2>3
<1>2. \A v \in Users :
        /\ runUser'[v].conn = None \/ Link(runUser'[v].conn)
        /\ runUser[v].conn # None /\ runUser'[v].conn # None
             => runUser'[v].conn.session = runUser[v].conn.session
        /\ runUser'[v].conn = None <=> runUser'[v].at \in Unlinked
        /\ runUser'[v].at = "accepted" => runUser[v].at = "accepted"
  BY <1>1, LinkFacts
<1>3. runLaunch'.step # "none" /\ runUser'[runStartup'].at = "restarting"
        => runLaunch'.session = runUser'[runStartup'].conn.session
  <2>1. CASE runLaunch' = runLaunch /\ runStartup' = runStartup /\ at # "restarting"
    <3>1. runLaunch.step # "none" => runStartup \in Users
      BY DEF RuntimeInv, QueueInv
    <3>. QED BY <1>1, <2>1, <3>1 DEF LinkInv
  <2>. QED BY <2>1
<1>. QED BY <1>2, <1>3, LinksMove

\* Nobody does anything else.
LEMMA LinkSame ==
  ASSUME RuntimeInv, LinkInv, runUser' = runUser, runStartup' = runStartup,
         runGeneration' = runGeneration, runConnection' \in {None, runConnection},
         \/ runLaunch' = runLaunch
         \/ runLaunch'.step = "none"
         \/ runLaunch'.session = runLaunch.session /\ runLaunch.step # "none"
            /\ \/ runLaunch'.step = "spawn"
               \/ runLaunch.step = "probe"
                  /\ runLaunch'.generation = runLaunch.generation
  PROVE  LinkInv' /\ AnswersStay
<1>1. \A v \in Users :
        /\ runUser'[v].conn = None \/ Link(runUser'[v].conn)
        /\ runUser[v].conn # None /\ runUser'[v].conn # None
             => runUser'[v].conn.session = runUser[v].conn.session
        /\ runUser'[v].conn = None <=> runUser'[v].at \in Unlinked
        /\ runUser'[v].at = "accepted" => runUser[v].at = "accepted"
  BY LinkFacts
<1>2. runLaunch'.step # "none" /\ runUser'[runStartup'].at = "restarting"
        => runLaunch'.session = runUser'[runStartup'].conn.session
  BY DEF LinkInv
<1>. QED BY <1>1, <1>2, LinkFacts, LinksMove

LEMMA LinkStart ==
  ASSUME Qwen!RuntimeInit
  PROVE  LinkInv
<1>1. /\ runConnection = None /\ runLaunch.step = "none"
      /\ \A u \in Users : runUser[u].at = "idle" /\ runUser[u].conn = None
  BY DEF Qwen!RuntimeInit, Qwen!NoLaunch, Qwen!Idle
<1>2. \A c : ~Link(c)
  BY <1>1 DEF Link
<1>. QED BY <1>1, <1>2 DEF LinkInv, Unlinked

\* The process ends, is looked at, stopped, started or ready.
LEMMA LinkProcess ==
  ASSUME RuntimeInv, LinkInv,
         \/ Qwen!Exit \/ Qwen!Look \/ Qwen!StopSession \/ Qwen!CancelLoading
         \/ Qwen!ProbeReady \/ UNCHANGED runtime
  PROVE  LinkInv' /\ AnswersStay
<1>1. /\ runUser' = runUser /\ runStartup' = runStartup /\ runGeneration' = runGeneration
      /\ runConnection' \in {None, runConnection}
      /\ \/ runLaunch' = runLaunch
         \/ runLaunch.step = "probe" /\ runLaunch' = [runLaunch EXCEPT !.step = "answered"]
  BY LinkFacts DEF Qwen!Exit, Qwen!Look, Qwen!StopSession, Qwen!CancelLoading,
                   Qwen!ProbeReady, Qwen!Check, runtime
<1>2. /\ [runLaunch EXCEPT !.step = "answered"].session = runLaunch.session
      /\ [runLaunch EXCEPT !.step = "answered"].generation = runLaunch.generation
  OBVIOUS
<1>. QED BY <1>1, <1>2, LinkSame

\* A process is spawned: no connection leads to it before.
LEMMA LinkSpawn ==
  ASSUME RuntimeInv, LinkInv, Qwen!SpawnChild
  PROVE  LinkInv' /\ AnswersStay
<1>1. /\ runLaunch.step = "spawn" /\ runGeneration' = runGeneration + 1
      /\ runLaunch' = [runLaunch EXCEPT !.step = "probe", !.generation = runGeneration']
      /\ runConnection' = runConnection /\ runStartup' = runStartup /\ runUser' = runUser
  BY DEF Qwen!SpawnChild
<1>2. /\ runLaunch \in [step : {"none", "spawn", "probe", "answered"}, session : Nat,
                        generation : Nat, device : {"cpu", "gpu"}]
      /\ runGeneration \in Nat
  BY DEF RuntimeInv, RuntimeTypes
<1>3. /\ runLaunch'.step = "probe" /\ runLaunch'.session = runLaunch.session
      /\ runLaunch'.generation = runGeneration + 1
  BY <1>1, <1>2
<1>. DEFINE new == [session |-> runLaunch.session, generation |-> runGeneration + 1]
<1>4. new.generation = runGeneration + 1
  OBVIOUS
<1>5. \A c : Link(c)' => Link(c) \/ c = new
  BY <1>1, <1>3 DEF Link
<1>. HIDE DEF new
<1>6. ASSUME NEW c, Link(c) PROVE c.generation # runGeneration + 1
                                  /\ c.generation <= runGeneration + 1
  <2>1. CASE c = runConnection /\ c # None
    <3>1. c.generation \in Nat
      BY <2>1 DEF RuntimeInv, RuntimeTypes, ConnectionState
    <3>. QED BY <1>2, <1>6, <3>1 DEF LinkInv
  <2>2. CASE c # None /\ \E u \in Users : c = runUser[u].conn
    <3>1. c.generation \in Nat
      BY <2>2 DEF RuntimeInv, RuntimeTypes, UserState, ConnectionState
    <3>. QED BY <1>2, <1>6, <3>1 DEF LinkInv
  <2>. QED BY <1>1, <1>6, <2>1, <2>2 DEF Link
<1>7. \A c : Link(c)' => c.generation <= runGeneration'
  BY <1>1, <1>2, <1>4, <1>5, <1>6
<1>8. \A c, d : Link(c)' /\ Link(d)' /\ c.generation = d.generation
                  => c.session = d.session
  BY <1>4, <1>5, <1>6 DEF LinkInv
<1>. QED BY <1>1, <1>3, <1>7, <1>8 DEF LinkInv, AnswersStay

\* The connection is published, or the start fails or is dropped.
LEMMA LinkLaunch ==
  ASSUME RuntimeInv, LinkInv,
         Qwen!PublishConnection \/ Qwen!LaunchFails \/ Qwen!DropStart
  PROVE  LinkInv' /\ AnswersStay
<1>1. /\ runLaunch.step # "none" /\ runGeneration' = runGeneration
  BY DEF Qwen!PublishConnection, Qwen!LaunchFails, Qwen!DropStart, Qwen!process
<1>2. runStartup \in Users /\ runUser[runStartup].at \in {"starting", "restarting"}
  BY <1>1 DEF RuntimeInv, QueueInv
<1>. DEFINE u == runStartup
<1>3. {"idle", "ready", "sent", "failed"} \subseteq UserAt
  BY DEF UserAt
<1>4. Qwen!NoLaunch.step = "none"
  BY DEF Qwen!NoLaunch
<1>5. CASE Qwen!PublishConnection
  <2>. DEFINE c == [session |-> runLaunch.session, generation |-> runLaunch.generation]
              at == IF runUser[u].at = "starting" THEN "ready" ELSE "sent"
  <2>1. /\ runLaunch.step = "answered" /\ runConnection' = c
        /\ runUser' = [runUser EXCEPT ![u] = [at |-> at, conn |-> c]]
        /\ runLaunch' = Qwen!NoLaunch
    BY <1>5 DEF Qwen!PublishConnection
  <2>2. c \in ConnectionState /\ Link(c)
    BY <2>1 DEF RuntimeInv, RuntimeTypes, ConnectionState, Link
  <2>3. c # None
    BY <2>2, RuntimeBounds DEF Qwen!RuntimeAssumption, ConnectionState
  <2>4. runUser[u].conn # None => c.session = runUser[u].conn.session
    BY <1>1, <1>2 DEF LinkInv, Unlinked
  <2>5. at \in UserAt /\ at # "accepted" /\ at \notin Unlinked
    BY <1>3 DEF Unlinked
  <2>. HIDE DEF c, at
  <2>. QED BY <1>1, <1>2, <1>4, <2>1, <2>2, <2>3, <2>4, <2>5, LinkSet
<1>6. CASE Qwen!LaunchFails
  <2>. DEFINE at == IF runUser[u].at = "starting" THEN "idle" ELSE "failed"
  <2>1. at \in UserAt /\ at # "accepted"
        /\ (at \in Unlinked <=> runUser[u].at \in Unlinked)
    BY <1>2, <1>3 DEF Unlinked
  <2>2. /\ runConnection' \in {None, runConnection}
        /\ \/ /\ runUser' = [runUser EXCEPT ![u].at = at]
              /\ runLaunch' = Qwen!NoLaunch
           \/ /\ runUser' = runUser /\ runStartup' = runStartup
              /\ runLaunch' = [runLaunch EXCEPT !.step = "spawn", !.device = "cpu"]
    BY <1>6 DEF Qwen!LaunchFails
  <2>3. /\ [runLaunch EXCEPT !.step = "spawn", !.device = "cpu"].step = "spawn"
        /\ [runLaunch EXCEPT !.step = "spawn", !.device = "cpu"].session
             = runLaunch.session
    BY DEF RuntimeInv, RuntimeTypes
  <2>. HIDE DEF at
  <2>4. CASE runUser' = [runUser EXCEPT ![u].at = at] /\ runLaunch' = Qwen!NoLaunch
    BY <1>1, <1>2, <1>4, <2>1, <2>2, <2>4, LinkAt
  <2>5. CASE /\ runUser' = runUser /\ runStartup' = runStartup
             /\ runLaunch' = [runLaunch EXCEPT !.step = "spawn", !.device = "cpu"]
    BY <1>1, <2>2, <2>3, <2>5, LinkSame
  <2>. QED BY <2>2, <2>4, <2>5
<1>7. CASE Qwen!DropStart
  <2>1. /\ runUser' = [runUser EXCEPT ![u] = [at |-> "idle", conn |-> None]]
        /\ runLaunch' = Qwen!NoLaunch /\ runConnection' = runConnection
    BY <1>7 DEF Qwen!DropStart, Qwen!Idle, Qwen!process
  <2>2. "idle" \in Unlinked
    BY DEF Unlinked
  <2>. QED BY <1>1, <1>2, <1>3, <1>4, <2>1, <2>2, LinkFacts, LinkSet
<1>. QED BY <1>5, <1>6, <1>7

\* A user asks, waits no longer, or goes on with its request.
LEMMA LinkWork ==
  ASSUME RuntimeInv, LinkInv, NEW u \in Users,
         \/ \E m \in Models : Qwen!WantStarted(u, m)
         \/ Qwen!TakeUpload(u) \/ Qwen!DropWaiting(u) \/ Qwen!Transcribe(u)
         \/ Qwen!Report(u) \/ Qwen!EndUser(u)
  PROVE  LinkInv' /\ AnswersStay
<1>1. /\ runGeneration' = runGeneration /\ runConnection' = runConnection
      /\ runLaunch' = runLaunch /\ runStartup' = runStartup
      /\ \/ runUser' = [runUser EXCEPT ![u] = [at |-> "idle", conn |-> None]]
         \/ \E at \in {"waiting", "asking", "answered", "failed", "ready"} :
              /\ runUser' = [runUser EXCEPT ![u].at = at]
              /\ at = "waiting" <=> runUser[u].at = "idle"
              /\ runUser[u].at \notin {"waiting", "starting"}
  BY DEF Qwen!WantStarted, Qwen!TakeUpload, Qwen!DropWaiting, Qwen!Transcribe,
         Qwen!Report, Qwen!EndUser, Qwen!Wait, Qwen!UserStep, Qwen!Untouched,
         Qwen!process, Qwen!Idle
<1>2. CASE runUser' = [runUser EXCEPT ![u] = [at |-> "idle", conn |-> None]]
  BY <1>1, <1>2, LinkFacts, LinkSet DEF UserAt, Unlinked
<1>3. CASE \E at \in {"waiting", "asking", "answered", "failed", "ready"} :
              /\ runUser' = [runUser EXCEPT ![u].at = at]
              /\ at = "waiting" <=> runUser[u].at = "idle"
              /\ runUser[u].at \notin {"waiting", "starting"}
  <2>1. PICK at \in {"waiting", "asking", "answered", "failed", "ready"} :
              /\ runUser' = [runUser EXCEPT ![u].at = at]
              /\ at = "waiting" <=> runUser[u].at = "idle"
              /\ runUser[u].at \notin {"waiting", "starting"}
    BY <1>3
  <2>2. at \in UserAt /\ at \notin {"accepted", "restarting"}
        /\ (at \in Unlinked <=> runUser[u].at \in Unlinked)
    BY <2>1 DEF UserAt, Unlinked
  <2>. QED BY <1>1, <2>1, <2>2, LinkAt
<1>. QED BY <1>1, <1>2, <1>3

\* The startup lock is taken: to start, or to reconnect.
LEMMA LinkTurn ==
  ASSUME RuntimeInv, LinkInv, NEW u \in Users,
         Qwen!EnsureStarted(u) \/ Qwen!Reconnect(u)
  PROVE  LinkInv' /\ AnswersStay
<1>1. runGeneration' = runGeneration
  BY DEF Qwen!EnsureStarted, Qwen!Reconnect
<1>2. /\ {"ready", "starting", "failed", "sent", "restarting"} \subseteq UserAt
      /\ "starting" \in Unlinked /\ "waiting" \in Unlinked
      /\ \A at \in {"ready", "failed", "sent", "restarting", "asking"} : at \notin Unlinked
  BY DEF UserAt, Unlinked
<1>. DEFINE c == Qwen!Checked.connection
<1>3. c # None => c = runConnection /\ c \in ConnectionState /\ Link(c)
  BY RuntimeChecked, LinkFacts DEF RuntimeInv
<1>4. Qwen!Check => runConnection' = c
  BY DEF Qwen!Check
<1>5. CASE Qwen!EnsureStarted(u)
  <2>1. runUser[u].at = "waiting" /\ runUser[u].conn = None
    BY <1>2, <1>5, LinkFacts DEF Qwen!EnsureStarted
  <2>2. CASE c # None /\ Qwen!Check
             /\ runUser' = [runUser EXCEPT ![u] = [at |-> "ready", conn |-> c]]
             /\ runLaunch' = runLaunch /\ runStartup' = runStartup
    <3>. HIDE DEF c
    <3>. QED BY <1>1, <1>2, <1>3, <1>4, <2>1, <2>2, LinkSet
  <2>3. CASE /\ runUser' = [runUser EXCEPT ![u].at = "starting"]
             /\ runConnection' = None /\ Qwen!Launched(u, runSession')
    <3>1. runLaunch'.step = "spawn" /\ runStartup' = u
      BY <2>3 DEF Qwen!Launched
    <3>2. runUser'[u].at = "starting"
      BY <1>2, <2>3, RuntimeUserAt DEF RuntimeInv
    <3>. QED BY <1>1, <1>2, <2>1, <2>3, <3>1, <3>2, LinkAt
  <2>. QED BY <1>5, <2>2, <2>3, Zenon DEF Qwen!EnsureStarted
<1>6. CASE Qwen!Reconnect(u)
  <2>1. runUser[u].at = "asking" /\ runUser[u].conn # None
    BY <1>2, <1>6, LinkFacts DEF Qwen!Reconnect
  <2>2. CASE /\ runUser' = [runUser EXCEPT ![u].at = "failed"] /\ Qwen!Check
             /\ runLaunch' = runLaunch /\ runStartup' = runStartup
    <3>1. runConnection' \in {None, runConnection}
      BY <1>3, <1>4, <2>2
    <3>. QED BY <1>1, <1>2, <2>1, <2>2, <3>1, LinkAt
  <2>3. CASE /\ c # None /\ runSession = runUser[u].conn.session /\ Qwen!Check
             /\ runUser' = [runUser EXCEPT ![u] = [at |-> "sent", conn |-> c]]
             /\ runLaunch' = runLaunch /\ runStartup' = runStartup
    <3>1. c.session = runUser[u].conn.session
      BY <1>3, <2>3 DEF RuntimeInv, SessionInv, Qwen!StoppedStaysStopped
    <3>. HIDE DEF c
    <3>. QED BY <1>1, <1>2, <1>3, <1>4, <2>1, <2>3, <3>1, LinkSet
  <2>4. CASE /\ runSession = runUser[u].conn.session /\ runConnection' = None
             /\ runUser' = [runUser EXCEPT ![u].at = "restarting"]
             /\ Qwen!Launched(u, runSession)
    <3>1. /\ runLaunch'.step = "spawn" /\ runLaunch'.session = runSession
          /\ runStartup' = u
      BY <2>4 DEF Qwen!Launched
    <3>2. runUser'[u].conn = runUser[u].conn
      BY <1>2, <2>4, RuntimeUserAt DEF RuntimeInv
    <3>. QED BY <1>1, <1>2, <2>1, <2>4, <3>1, <3>2, LinkAt
  <2>. QED BY <1>6, <2>2, <2>3, <2>4, Zenon DEF Qwen!Reconnect
<1>. QED BY <1>5, <1>6

\* An answer counts only if its process is the one that runs.
LEMMA LinkAccept ==
  ASSUME RuntimeInv, LinkInv, NEW u \in Users, Qwen!Accept(u)
  PROVE  LinkInv' /\ AnswersStay
<1>. DEFINE c == Qwen!Checked.connection
<1>1. /\ runUser[u].at = "answered" /\ Qwen!Check /\ runGeneration' = runGeneration
      /\ runLaunch' = runLaunch /\ runStartup' = runStartup
      /\ \/ /\ c # None /\ c.generation = runUser[u].conn.generation
            /\ runUser' = [runUser EXCEPT ![u].at = "accepted"]
         \/ runUser' = [runUser EXCEPT ![u].at = "failed"]
  BY DEF Qwen!Accept, Qwen!UserStep
<1>2. /\ {"accepted", "failed"} \subseteq UserAt
      /\ \A at \in {"accepted", "failed", "answered"} : at \notin Unlinked
  BY DEF UserAt, Unlinked
<1>3. /\ c # None => c = runConnection /\ c \in ConnectionState /\ Link(c)
      /\ runConnection' = c /\ runConnection' \in {None, runConnection}
      /\ runChild' \in {None, runChild}
  BY <1>1, RuntimeChecked, LinkFacts DEF RuntimeInv, Qwen!Check
<1>. HIDE DEF c
<1>4. CASE runUser' = [runUser EXCEPT ![u].at = "failed"]
  BY <1>1, <1>2, <1>3, <1>4, LinkAt
<1>5. CASE /\ c # None /\ c.generation = runUser[u].conn.generation
           /\ runUser' = [runUser EXCEPT ![u].at = "accepted"]
  <2>1. /\ runUser'[u].at = "accepted" /\ runUser'[u].conn = runUser[u].conn
        /\ \A v \in Users : v # u => runUser'[v] = runUser[v]
    BY <1>2, <1>5, RuntimeUserAt DEF RuntimeInv
  <2>2. /\ runUser[u].conn \in ConnectionState /\ Link(runUser[u].conn)
    <3>1. runUser[u].conn # None
      BY <1>1, <1>2, LinkFacts
    <3>. QED BY <3>1, LinkFacts DEF RuntimeInv, RuntimeTypes, UserState
  <2>3. c.session = runUser[u].conn.session
    BY <1>3, <1>5, <2>2 DEF LinkInv
  <2>4. c = runUser[u].conn
    BY <1>3, <1>5, <2>2, <2>3 DEF ConnectionState
  <2>5. runChild' # None => runChild'.session = c.session
    BY <1>3, <1>5 DEF RuntimeInv, SessionInv, Qwen!StoppedStaysStopped
  <2>6. \A x : Link(x)' => Link(x)
    BY <1>1, <1>3, <2>1 DEF Link
  <2>7. LinkInv'
    <3>1. \A v \in Users : runUser'[v].conn = None <=> runUser'[v].at \in Unlinked
      BY <1>1, <1>2, <2>1, LinkFacts
    <3>2. runLaunch.step # "none" => runStartup \in Users
      BY DEF RuntimeInv, QueueInv
    <3>. QED BY <1>1, <2>1, <2>6, <3>1, <3>2 DEF LinkInv
  <2>8. AnswersStay
    BY <1>3, <1>5, <2>1, <2>4, <2>5 DEF AnswersStay
  <2>. QED BY <2>7, <2>8
<1>. QED BY <1>1, <1>4, <1>5

LEMMA LinkStep ==
  ASSUME RuntimeInv, LinkInv, Qwen!RuntimeNext \/ UNCHANGED runtime
  PROVE  LinkInv' /\ AnswersStay
BY LinkProcess, LinkSpawn, LinkLaunch, LinkWork, LinkTurn, LinkAccept
   DEF Qwen!RuntimeNext, Qwen!Starting

-----------------------------------------------------------------------------
(* OcrScan: what is shown stays                                            *)

\* b has all that a has, and what a has of an answer.
Grows(a, b) ==
  \A e \in Ocr!Eyes : \A r \in DOMAIN a[e] :
    /\ r \in DOMAIN b[e]
    /\ a[e][r] # "timeout" => b[e][r] = a[e][r]

\* An update of the scan that is shown, other than that of a phase
Fresh(u) == u.id = ocrScan /\ u.result # Ocr!Phase

\* What is shown, what has been completed, what the task has found and its
\* result: each has what the one before has.
GrowInv ==
  /\ ocrScan \in Nat
  /\ \A i \in 1..Len(ocrChannel) : ocrChannel[i].id \in 0..ocrScan
  /\ ocrSelecting \/ ocrPending => ocrWorker.at = "none"
  /\ ocrWorker.at # "ended" => \A i \in 1..Len(ocrChannel) : ~Fresh(ocrChannel[i])
  /\ \A i \in 1..Len(ocrChannel) :
       Fresh(ocrChannel[i]) => \/ ocrChannel[i].result = Ocr!Failed
                               \/ Grows(ocrShown, ocrChannel[i].result.blocks)
  /\ ocrWorker.at # "none" => Grows(ocrShown, ocrProgress.blocks)
  /\ ocrWorker.at \in {"preparing", "recognizing"} =>
       Grows(ocrProgress.blocks, ocrWorker.blocks)
  /\ ocrWorker.at = "sending" => \/ ocrWorker.result = Ocr!Failed
                                 \/ Grows(ocrProgress.blocks, ocrWorker.result.blocks)

\* A request is made once, and the images are read one after the other.
Asked == UNION {DOMAIN ocrWorker.blocks[e] : e \in Ocr!Eyes}

AskInv ==
  /\ ocrWorker.heard \in Nat /\ ocrWorker.eyes \in 0..2
  /\ ocrWorker.heard <= ocrWorker.eyes
  /\ ocrWorker.images \in Seq(SUBSET Ocr!Requests)
  /\ Len(ocrWorker.images) <= ocrWorker.heard
  /\ \A e \in Ocr!Eyes : e > Ocr!EyesRead => DOMAIN ocrWorker.blocks[e] = {}
  /\ ocrWorker.queue \in Seq(Asked)
  /\ \A i, j \in 1..Len(ocrWorker.queue) :
       ocrWorker.queue[i] = ocrWorker.queue[j] => i = j
  /\ \A i \in 1..Len(ocrWorker.queue) :
       /\ ocrWorker.queue[i] \notin DOMAIN ocrWorker.answers
       /\ \A call \in ocrWorker.calling : call.request # ocrWorker.queue[i]
  /\ \A call \in ocrWorker.calling :
       /\ call.request \in Asked /\ call.request \notin DOMAIN ocrWorker.answers
       /\ \A other \in ocrWorker.calling : call.request = other.request => call = other
  /\ DOMAIN ocrWorker.answers \subseteq Asked

\* Ocr!ShownOnlyGrows for one step.
ShownStays == ocrScan' = ocrScan => Grows(ocrShown, ocrShown')

LEMMA GrowsFacts ==
  /\ \A a : Grows(a, a)
  /\ \A b : Grows(Ocr!NoBlocks, b)
  /\ \A a, b, c : Grows(a, b) /\ Grows(b, c) => Grows(a, c)
BY OcrNothing DEF Grows

\* The fields of the task
LEMMA WorkerFields ==
  ASSUME ScanInv
  PROVE  {"at", "id", "config", "glossary", "eyes", "images", "heard", "blocks",
          "queue", "calling", "answers", "result"} \subseteq DOMAIN ocrWorker
BY DEF ScanInv, ScanTypes

\* The task works: what is shown stays as it is.
LEMMA GrowsOn ==
  ASSUME ScanInv, GrowInv, Ocr!Outside,
         ocrWorker.at \notin {"none", "ended"}, ocrWorker'.at # "none",
         \/ ocrChannel' = ocrChannel
         \/ \E x : /\ x.id = ocrWorker.id /\ ocrChannel' = Append(ocrChannel, x)
                   /\ \/ x.result = Ocr!Phase
                      \/ /\ ocrWorker'.at = "ended"
                         /\ x.result = Ocr!Failed \/ Grows(ocrShown, x.result.blocks),
         Grows(ocrShown, ocrProgress'.blocks),
         ocrWorker'.at \in {"preparing", "recognizing"} =>
           Grows(ocrProgress'.blocks, ocrWorker'.blocks),
         ocrWorker'.at = "sending" =>
           \/ ocrWorker'.result = Ocr!Failed
           \/ Grows(ocrProgress'.blocks, ocrWorker'.result.blocks)
  PROVE  GrowInv' /\ ShownStays
<1>1. /\ ocrScan' = ocrScan /\ ocrSelecting' = ocrSelecting /\ ocrPending' = ocrPending
      /\ ocrShown' = ocrShown
  BY DEF Ocr!Outside
<1>2. ocrWorker.id = ocrScan /\ ocrScan \in Nat
  BY DEF ScanInv, ShownInv, Ocr!ShownIsCurrent, GrowInv
<1>4. \A i \in 1..Len(ocrChannel) : ~Fresh(ocrChannel[i])
  BY DEF GrowInv
<1>5. CASE ocrChannel' = ocrChannel
  <2>1. GrowInv'
    BY <1>1, <1>4, <1>5 DEF GrowInv, Grows, Fresh
  <2>. QED BY <1>1, <2>1, GrowsFacts DEF ShownStays
<1>6. CASE \E x : /\ x.id = ocrWorker.id /\ ocrChannel' = Append(ocrChannel, x)
                  /\ \/ x.result = Ocr!Phase
                     \/ /\ ocrWorker'.at = "ended"
                        /\ x.result = Ocr!Failed \/ Grows(ocrShown, x.result.blocks)
  <2>1. PICK x : /\ x.id = ocrWorker.id /\ ocrChannel' = Append(ocrChannel, x)
                 /\ \/ x.result = Ocr!Phase
                    \/ /\ ocrWorker'.at = "ended"
                       /\ x.result = Ocr!Failed \/ Grows(ocrShown, x.result.blocks)
    BY <1>6
  <2>2. \A i \in 1..Len(ocrChannel') :
          ocrChannel'[i] = x
          \/ (i \in 1..Len(ocrChannel) /\ ocrChannel'[i] = ocrChannel[i])
    BY <2>1, OcrSends DEF ScanInv
  <2>3. \A i \in 1..Len(ocrChannel') : ocrChannel'[i].id \in 0..ocrScan'
    BY <1>1, <1>2, <2>1, <2>2 DEF GrowInv
  <2>4. \A i \in 1..Len(ocrChannel') :
          ocrChannel'[i].id = ocrScan' /\ ocrChannel'[i].result # Ocr!Phase =>
            /\ ocrWorker'.at = "ended"
            /\ \/ ocrChannel'[i].result = Ocr!Failed
               \/ Grows(ocrShown', ocrChannel'[i].result.blocks)
    BY <1>1, <1>4, <2>1, <2>2 DEF Fresh
  <2>5. GrowInv'
    BY <1>1, <1>2, <2>3, <2>4 DEF GrowInv, Grows, Fresh
  <2>. QED BY <1>1, <2>5, GrowsFacts DEF ShownStays
<1>. QED BY <1>5, <1>6

\* What is asked for stays.
LEMMA AsksOn ==
  ASSUME AskInv,
         ocrWorker'.heard = ocrWorker.heard, ocrWorker'.eyes = ocrWorker.eyes,
         ocrWorker'.images = ocrWorker.images, ocrWorker'.blocks = ocrWorker.blocks,
         ocrWorker'.queue = ocrWorker.queue, ocrWorker'.calling = ocrWorker.calling,
         ocrWorker'.answers = ocrWorker.answers
  PROVE  AskInv'
<1>1. Asked' = Asked /\ Ocr!EyesRead' = Ocr!EyesRead
  BY DEF Asked, Ocr!EyesRead
<1>. QED BY <1>1 DEF AskInv

\* The task is done, with what it has.
LEMMA GrowsToEnd ==
  ASSUME ScanInv, GrowInv, AskInv,
         Ocr!FailScan \/ Ocr!NoticeConfig \/ Ocr!CompleteScan \/ Ocr!Deadline
  PROVE  GrowInv' /\ AskInv' /\ ShownStays
<1>1. PICK result : /\ Ocr!Finish(result)
                    /\ \/ result = Ocr!Failed
                       \/ Grows(ocrProgress.blocks, result.blocks)
  <2>1. Ocr!CompleteScan => Grows(ocrProgress.blocks, ocrWorker.blocks)
    BY DEF Ocr!CompleteScan, GrowInv
  <2>2. Grows(ocrProgress.blocks, Ocr!TimedOut)
    BY GrowsFacts DEF Ocr!TimedOut
  <2>3. /\ Ocr!Result("blocks", ocrWorker.blocks).blocks = ocrWorker.blocks
        /\ Ocr!Result("blocks", Ocr!TimedOut).blocks = Ocr!TimedOut
    BY DEF Ocr!Result
  <2>4. \/ Ocr!Finish(Ocr!Failed)
        \/ Ocr!CompleteScan /\ Ocr!Finish(Ocr!Result("blocks", ocrWorker.blocks))
        \/ Ocr!Finish(Ocr!Result("blocks", Ocr!TimedOut))
    BY DEF Ocr!FailScan, Ocr!NoticeConfig, Ocr!CompleteScan, Ocr!Deadline
  <2>. QED BY <2>1, <2>2, <2>3, <2>4
<1>2. /\ ocrWorker.at \in {"preparing", "recognizing"} /\ ocrProgress' = ocrProgress
      /\ ocrChannel' = ocrChannel /\ Ocr!Outside
  BY DEF Ocr!FailScan, Ocr!NoticeConfig, Ocr!CompleteScan, Ocr!Deadline, Ocr!Ready
<1>3. /\ ocrWorker'.at = "sending" /\ ocrWorker'.result = result
      /\ ocrWorker'.heard = ocrWorker.heard /\ ocrWorker'.eyes = ocrWorker.eyes
      /\ ocrWorker'.images = ocrWorker.images /\ ocrWorker'.blocks = ocrWorker.blocks
      /\ ocrWorker'.queue = ocrWorker.queue /\ ocrWorker'.calling = ocrWorker.calling
      /\ ocrWorker'.answers = ocrWorker.answers
  BY <1>1, WorkerFields DEF Ocr!Finish
<1>4. Grows(ocrShown, ocrProgress'.blocks)
  BY <1>2 DEF GrowInv
<1>5. GrowInv' /\ ShownStays
  BY <1>1, <1>2, <1>3, <1>4, GrowsOn
<1>. QED BY <1>3, <1>5, AsksOn

\* The task begins to recognize, and it sends its result.
LEMMA GrowsAtTheEnds ==
  ASSUME ScanInv, GrowInv, AskInv, Ocr!Prepare \/ Ocr!SendResult
  PROVE  GrowInv' /\ AskInv' /\ ShownStays
<1>1. /\ ocrProgress' = ocrProgress /\ Ocr!Outside
      /\ \/ ocrWorker.at = "preparing" /\ ocrWorker'.at = "recognizing"
         \/ ocrWorker.at = "sending" /\ ocrWorker'.at = "ended"
      /\ ocrWorker'.heard = ocrWorker.heard /\ ocrWorker'.eyes = ocrWorker.eyes
      /\ ocrWorker'.images = ocrWorker.images /\ ocrWorker'.blocks = ocrWorker.blocks
      /\ ocrWorker'.queue = ocrWorker.queue /\ ocrWorker'.calling = ocrWorker.calling
      /\ ocrWorker'.answers = ocrWorker.answers
  BY WorkerFields DEF Ocr!Prepare, Ocr!SendResult
<1>2. Grows(ocrShown, ocrProgress.blocks)
  BY <1>1 DEF GrowInv
<1>3. \/ ocrChannel' = ocrChannel
      \/ \E x : /\ x.id = ocrWorker.id /\ ocrChannel' = Append(ocrChannel, x)
                /\ ocrWorker'.at = "ended"
                /\ x.result = Ocr!Failed \/ Grows(ocrShown, x.result.blocks)
  <2>1. CASE Ocr!Prepare
    BY <2>1 DEF Ocr!Prepare
  <2>2. CASE Ocr!SendResult
    <3>. DEFINE x == [id |-> ocrWorker.id, result |-> ocrWorker.result]
    <3>1. /\ ocrWorker.at = "sending" /\ ocrWorker'.at = "ended"
          /\ ocrChannel' = Append(ocrChannel, x)
      BY <2>2, WorkerFields DEF Ocr!SendResult
    <3>2. x.id = ocrWorker.id /\ x.result = ocrWorker.result
      OBVIOUS
    <3>. HIDE DEF x
    <3>3. x.result = Ocr!Failed \/ Grows(ocrShown, x.result.blocks)
      BY <1>2, <3>1, <3>2, GrowsFacts DEF GrowInv
    <3>. QED BY <3>1, <3>2, <3>3
  <2>. QED BY <2>1, <2>2
<1>4. ocrWorker'.at = "recognizing" => Grows(ocrProgress'.blocks, ocrWorker'.blocks)
  BY <1>1 DEF GrowInv
<1>5. GrowInv' /\ ShownStays
  BY <1>1, <1>2, <1>3, <1>4, GrowsOn
<1>. QED BY <1>1, <1>5, AsksOn

\* The engine has read an eye.
LEMMA GrowsByAnEye ==
  ASSUME ScanInv, GrowInv, AskInv, Ocr!Recognize
  PROVE  GrowInv' /\ AskInv' /\ ShownStays
<1>1. /\ ocrWorker.at = "recognizing" /\ ocrWorker.heard < ocrWorker.eyes
      /\ ocrProgress' = ocrProgress /\ Ocr!Outside
      /\ \/ ocrChannel' = ocrChannel
         \/ ocrChannel' = Append(ocrChannel, [id |-> ocrWorker.id,
                                              result |-> Ocr!Phase])
  BY Zenon DEF Ocr!Recognize
<1>2. PICK image \in Ocr!Images :
        ocrWorker' = [ocrWorker EXCEPT !.heard = @ + 1, !.images = Append(@, image)]
  BY Zenon DEF Ocr!Recognize
<1>3. /\ ocrWorker'.at = "recognizing" /\ ocrWorker'.heard = ocrWorker.heard + 1
      /\ ocrWorker'.images = Append(ocrWorker.images, image)
      /\ image \in SUBSET Ocr!Requests
      /\ ocrWorker'.eyes = ocrWorker.eyes /\ ocrWorker'.blocks = ocrWorker.blocks
      /\ ocrWorker'.queue = ocrWorker.queue /\ ocrWorker'.calling = ocrWorker.calling
      /\ ocrWorker'.answers = ocrWorker.answers
  BY <1>1, <1>2, WorkerFields DEF Ocr!Images
<1>4. /\ ocrWorker'.images \in Seq(SUBSET Ocr!Requests)
      /\ Len(ocrWorker'.images) = Len(ocrWorker.images) + 1
      /\ ocrWorker'.heard \in Nat /\ ocrWorker'.heard <= ocrWorker'.eyes
      /\ Len(ocrWorker'.images) <= ocrWorker'.heard
      /\ Len(ocrWorker.images) \in Nat
  BY <1>1, <1>2, <1>3 DEF AskInv
<1>5. Ocr!EyesRead' = Ocr!EyesRead /\ Asked' = Asked
  BY <1>3, <1>4 DEF Ocr!EyesRead, Asked, AskInv
<1>6. AskInv'
  BY <1>3, <1>4, <1>5 DEF AskInv
<1>7. \/ ocrChannel' = ocrChannel
      \/ \E x : /\ x.id = ocrWorker.id /\ ocrChannel' = Append(ocrChannel, x)
                /\ x.result = Ocr!Phase
  <2>. DEFINE x == [id |-> ocrWorker.id, result |-> Ocr!Phase]
  <2>1. x.id = ocrWorker.id /\ x.result = Ocr!Phase
    OBVIOUS
  <2>2. ocrChannel' = ocrChannel \/ ocrChannel' = Append(ocrChannel, x)
    BY <1>1
  <2>. HIDE DEF x
  <2>. QED BY <2>1, <2>2
<1>8. /\ Grows(ocrShown, ocrProgress.blocks)
      /\ Grows(ocrProgress.blocks, ocrWorker.blocks)
  BY <1>1 DEF GrowInv
<1>9. GrowInv' /\ ShownStays
  BY <1>1, <1>3, <1>7, <1>8, GrowsOn
<1>. QED BY <1>6, <1>9

\* The next request is started.
LEMMA GrowsByAnother ==
  ASSUME ScanInv, GrowInv, AskInv, Ocr!StartRequest
  PROVE  GrowInv' /\ AskInv' /\ ShownStays
<1>. DEFINE c == [request |-> Head(ocrWorker.queue), glossary |-> ocrGlossary]
<1>1. /\ ocrWorker.at = "recognizing" /\ ocrWorker.queue # << >>
      /\ ocrProgress' = ocrProgress /\ ocrChannel' = ocrChannel /\ Ocr!Outside
      /\ ocrWorker'.at = "recognizing" /\ ocrWorker'.heard = ocrWorker.heard
      /\ ocrWorker'.images = ocrWorker.images
      /\ ocrWorker'.eyes = ocrWorker.eyes /\ ocrWorker'.blocks = ocrWorker.blocks
      /\ ocrWorker'.queue = Tail(ocrWorker.queue)
      /\ ocrWorker'.calling = ocrWorker.calling \cup {c}
      /\ ocrWorker'.answers = ocrWorker.answers
  BY WorkerFields DEF Ocr!StartRequest
<1>2. c.request = ocrWorker.queue[1]
  BY <1>1 DEF AskInv
<1>. HIDE DEF c
<1>3. /\ Len(ocrWorker.queue) \in Nat \ {0} /\ ocrWorker.queue[1] \in Asked
      /\ ocrWorker'.queue \in Seq(Asked)
      /\ Len(ocrWorker'.queue) = Len(ocrWorker.queue) - 1
      /\ \A i \in 1..Len(ocrWorker'.queue) :
           ocrWorker'.queue[i] = ocrWorker.queue[i + 1]
           /\ i + 1 \in 1..Len(ocrWorker.queue) /\ i + 1 # 1
  BY <1>1 DEF AskInv
<1>4. Ocr!EyesRead' = Ocr!EyesRead /\ Asked' = Asked
  BY <1>1 DEF Ocr!EyesRead, Asked
<1>5. \A i, j \in 1..Len(ocrWorker'.queue) :
        ocrWorker'.queue[i] = ocrWorker'.queue[j] => i = j
  BY <1>3 DEF AskInv
<1>6. \A i \in 1..Len(ocrWorker'.queue) :
        /\ ocrWorker'.queue[i] \notin DOMAIN ocrWorker.answers
        /\ \A call \in ocrWorker'.calling : call.request # ocrWorker'.queue[i]
  BY <1>1, <1>2, <1>3 DEF AskInv
<1>7. \A call \in ocrWorker'.calling :
        /\ call.request \in Asked /\ call.request \notin DOMAIN ocrWorker.answers
        /\ \A other \in ocrWorker'.calling : call.request = other.request => call = other
  BY <1>1, <1>2, <1>3 DEF AskInv
<1>8. AskInv'
  BY <1>1, <1>3, <1>4, <1>5, <1>6, <1>7 DEF AskInv
<1>9. /\ Grows(ocrShown, ocrProgress.blocks)
      /\ Grows(ocrProgress.blocks, ocrWorker.blocks)
  BY <1>1 DEF GrowInv
<1>10. GrowInv' /\ ShownStays
  BY <1>1, <1>9, GrowsOn
<1>. QED BY <1>8, <1>10

\* The next image is taken.
LEMMA GrowsByAnImage ==
  ASSUME ScanInv, GrowInv, AskInv, Ocr!TakeImage
  PROVE  GrowInv' /\ AskInv' /\ ShownStays
<1>. DEFINE image == Head(ocrWorker.images)
            read == Ocr!ImageBlocks(image)
            k == Ocr!EyesRead + 1
            R == image \ Asked
<1>1. /\ ocrWorker.at = "recognizing" /\ ocrWorker.images # << >>
      /\ ocrChannel' = ocrChannel /\ Ocr!Outside
      /\ \/ ocrProgress' = ocrProgress
         \/ ocrProgress' = [blocks |-> ocrWorker'.blocks, dirty |-> TRUE]
  BY Zenon DEF Ocr!TakeImage, Ocr!Saved
<1>2. PICK new \in Ocr!Bijection(1..Ocr!Cardinality(R), R) :
        ocrWorker' = [ocrWorker EXCEPT !.images = Tail(@),
                                       !.blocks = [@ EXCEPT ![k] = read],
                                       !.queue = @ \o new]
  BY Zenon DEF Ocr!TakeImage, Asked
<1>3. /\ image \in SUBSET Ocr!Requests /\ Len(ocrWorker.images) \in Nat \ {0}
      /\ Tail(ocrWorker.images) \in Seq(SUBSET Ocr!Requests)
      /\ Len(Tail(ocrWorker.images)) = Len(ocrWorker.images) - 1
  BY <1>1 DEF AskInv
<1>4. k \in Ocr!Eyes /\ Ocr!EyesRead \in Nat
  BY <1>3 DEF AskInv, Ocr!EyesRead, Ocr!Eyes
<1>5. DOMAIN read = image
  BY DEF Ocr!ImageBlocks
<1>6. /\ new \in Seq(R) /\ \A i, j \in 1..Len(new) : new[i] = new[j] => i = j
  BY <1>2, <1>3, RequestsNumbered
<1>7. /\ ocrWorker'.at = "recognizing" /\ ocrWorker'.heard = ocrWorker.heard
      /\ ocrWorker'.images = Tail(ocrWorker.images)
      /\ ocrWorker'.eyes = ocrWorker.eyes
      /\ ocrWorker'.blocks = [ocrWorker.blocks EXCEPT ![k] = read]
      /\ ocrWorker'.queue = ocrWorker.queue \o new
      /\ ocrWorker'.calling = ocrWorker.calling
      /\ ocrWorker'.answers = ocrWorker.answers
  <2>. HIDE DEF read, k
  <2>. QED BY <1>1, <1>2, WorkerFields
<1>8. Ocr!EyesRead' = k
  BY <1>3, <1>7 DEF Ocr!EyesRead, AskInv
<1>. HIDE DEF read
<1>9. /\ ocrWorker'.blocks[k] = read
      /\ \A e \in Ocr!Eyes : e # k => ocrWorker'.blocks[e] = ocrWorker.blocks[e]
  <2>. HIDE DEF k
  <2>. QED BY <1>4, <1>7, OcrFacts
<1>10. Asked' = Asked \cup image
  <2>0. DOMAIN ocrWorker.blocks[k] = {}
    BY <1>4 DEF AskInv
  <2>. HIDE DEF k, image
  <2>1. \A t : (\E e \in Ocr!Eyes : t \in DOMAIN ocrWorker'.blocks[e])
               <=> (\E e \in Ocr!Eyes : t \in DOMAIN ocrWorker.blocks[e]) \/ t \in image
    BY <1>4, <1>5, <1>9, <2>0
  <2>. QED BY <2>1 DEF Asked
<1>11. /\ ocrWorker'.queue \in Seq(Asked')
       /\ \A i, j \in 1..Len(ocrWorker'.queue) :
            ocrWorker'.queue[i] = ocrWorker'.queue[j] => i = j
       /\ \A i \in 1..Len(ocrWorker'.queue) :
            \/ ocrWorker'.queue[i] \notin Asked
            \/ \E j \in 1..Len(ocrWorker.queue) :
                 ocrWorker'.queue[i] = ocrWorker.queue[j]
  <2>. DEFINE A == Asked  A2 == Asked'  q == ocrWorker.queue
              q2 == ocrWorker'.queue
  <2>1. /\ q \in Seq(A) /\ \A i, j \in 1..Len(q) : q[i] = q[j] => i = j
        /\ q2 = q \o new /\ R \cap A = {} /\ R \subseteq A2 /\ A \subseteq A2
    BY <1>7, <1>10 DEF AskInv
  <2>. HIDE DEF A, A2, q, q2, R
  <2>2. /\ q \in Seq(A2) /\ new \in Seq(A2) /\ Len(q) \in Nat /\ Len(new) \in Nat
    BY <1>6, <2>1
  <2>3. /\ q2 \in Seq(A2) /\ Len(q2) = Len(q) + Len(new)
        /\ \A i \in 1..Len(q) : q2[i] = q[i]
        /\ \A i \in 1..Len(new) : q2[Len(q) + i] = new[i]
    BY <2>1, <2>2
  <2>4. \A i \in 1..Len(q2) :
          \/ i \in 1..Len(q) /\ q2[i] = q[i] /\ q2[i] \in A
          \/ /\ i - Len(q) \in 1..Len(new) /\ q2[i] = new[i - Len(q)]
             /\ q2[i] \in R
    BY <1>6, <2>1, <2>2, <2>3
  <2>5. \A i, j \in 1..Len(q2) : q2[i] = q2[j] => i = j
    BY <1>6, <2>1, <2>2, <2>4
  <2>6. \A i \in 1..Len(q2) : q2[i] \notin A \/ \E j \in 1..Len(q) : q2[i] = q[j]
    BY <2>1, <2>4
  <2>. QED BY <2>3, <2>5, <2>6 DEF A, A2, q, q2
<1>12. \A i \in 1..Len(ocrWorker'.queue) :
         /\ ocrWorker'.queue[i] \notin DOMAIN ocrWorker.answers
         /\ \A call \in ocrWorker.calling : call.request # ocrWorker'.queue[i]
  <2>1. ASSUME NEW i \in 1..Len(ocrWorker'.queue), ocrWorker'.queue[i] \notin Asked
        PROVE  /\ ocrWorker'.queue[i] \notin DOMAIN ocrWorker.answers
               /\ \A call \in ocrWorker.calling : call.request # ocrWorker'.queue[i]
    BY <2>1 DEF AskInv
  <2>2. \A j \in 1..Len(ocrWorker.queue) :
          /\ ocrWorker.queue[j] \notin DOMAIN ocrWorker.answers
          /\ \A call \in ocrWorker.calling : call.request # ocrWorker.queue[j]
    BY DEF AskInv
  <2>. QED BY <1>11, <2>1, <2>2
<1>13. \A e \in Ocr!Eyes : e > k => DOMAIN ocrWorker'.blocks[e] = {}
  BY <1>4, <1>9 DEF AskInv, Ocr!Eyes
<1>. HIDE DEF k, image, R
<1>14. /\ ocrWorker'.heard \in Nat /\ ocrWorker'.eyes \in 0..2
       /\ ocrWorker'.heard <= ocrWorker'.eyes
       /\ ocrWorker'.images \in Seq(SUBSET Ocr!Requests)
       /\ Len(ocrWorker'.images) <= ocrWorker'.heard
  BY <1>3, <1>7 DEF AskInv
<1>15. /\ \A call \in ocrWorker'.calling :
            /\ call.request \in Asked' /\ call.request \notin DOMAIN ocrWorker'.answers
            /\ \A other \in ocrWorker'.calling : call.request = other.request => call = other
       /\ DOMAIN ocrWorker'.answers \subseteq Asked'
  BY <1>7, <1>10 DEF AskInv
<1>16. AskInv'
  BY <1>7, <1>8, <1>11, <1>12, <1>13, <1>14, <1>15 DEF AskInv
<1>17. Grows(ocrWorker.blocks, ocrWorker'.blocks)
  <2>1. DOMAIN ocrWorker.blocks[k] = {}
    BY <1>4 DEF AskInv, k
  <2>. QED BY <1>9, <2>1 DEF Grows
<1>18. /\ Grows(ocrShown, ocrProgress.blocks)
       /\ Grows(ocrProgress.blocks, ocrWorker.blocks)
  BY <1>1 DEF GrowInv
<1>19. /\ Grows(ocrShown, ocrProgress'.blocks)
       /\ Grows(ocrProgress'.blocks, ocrWorker'.blocks)
  <2>1. Grows(ocrProgress.blocks, ocrWorker'.blocks)
    BY <1>17, <1>18, GrowsFacts
  <2>2. CASE ocrProgress' = ocrProgress
    BY <1>18, <2>1, <2>2
  <2>3. CASE ocrProgress' = [blocks |-> ocrWorker'.blocks, dirty |-> TRUE]
    <3>1. ocrProgress'.blocks = ocrWorker'.blocks
      BY <2>3
    <3>. QED BY <1>18, <2>1, <3>1, GrowsFacts
  <2>. QED BY <1>1, <2>2, <2>3
<1>20. GrowInv' /\ ShownStays
  BY <1>1, <1>7, <1>19, GrowsOn
<1>. QED BY <1>16, <1>20

\* A request is answered.
LEMMA GrowsByAnAnswer ==
  ASSUME ScanInv, GrowInv, AskInv, Ocr!AnswerRequest
  PROVE  GrowInv' /\ AskInv' /\ ShownStays
<1>1. ocrWorker.at = "recognizing" /\ ocrChannel' = ocrChannel /\ Ocr!Outside
  BY DEF Ocr!AnswerRequest
<1>2. PICK call \in ocrWorker.calling, answer \in {"ok", "failed"} :
        \/ Ocr!Finish(Ocr!Failed) /\ ocrProgress' = ocrProgress
        \/ /\ ocrWorker' =
                [ocrWorker EXCEPT
                   !.calling = @ \ {call},
                   !.answers = [x \in DOMAIN @ \cup {call.request} |->
                                  IF x = call.request THEN answer ELSE @[x]],
                   !.blocks = [e \in Ocr!Eyes |->
                     [x \in DOMAIN @[e] |->
                        IF x = call.request THEN answer ELSE @[e][x]]]]
           /\ ocrProgress' = [blocks |-> ocrWorker'.blocks, dirty |-> TRUE]
  BY Zenon DEF Ocr!AnswerRequest, Ocr!Saved
<1>3. /\ Grows(ocrShown, ocrProgress.blocks)
      /\ Grows(ocrProgress.blocks, ocrWorker.blocks)
  BY <1>1 DEF GrowInv
<1>4. CASE Ocr!Finish(Ocr!Failed) /\ ocrProgress' = ocrProgress
  <2>1. /\ ocrWorker'.at = "sending" /\ ocrWorker'.result = Ocr!Failed
        /\ ocrWorker'.heard = ocrWorker.heard /\ ocrWorker'.eyes = ocrWorker.eyes
        /\ ocrWorker'.images = ocrWorker.images
        /\ ocrWorker'.blocks = ocrWorker.blocks
        /\ ocrWorker'.queue = ocrWorker.queue
        /\ ocrWorker'.calling = ocrWorker.calling
        /\ ocrWorker'.answers = ocrWorker.answers
    BY <1>4, WorkerFields DEF Ocr!Finish
  <2>2. GrowInv' /\ ShownStays
    BY <1>1, <1>3, <1>4, <2>1, GrowsOn
  <2>. QED BY <2>1, <2>2, AsksOn
<1>. DEFINE answered == [x \in DOMAIN ocrWorker.answers \cup {call.request} |->
                           IF x = call.request THEN answer ELSE ocrWorker.answers[x]]
            read == [e \in Ocr!Eyes |->
                       [x \in DOMAIN ocrWorker.blocks[e] |->
                          IF x = call.request THEN answer ELSE ocrWorker.blocks[e][x]]]
<1>5. CASE /\ ocrWorker' = [ocrWorker EXCEPT !.calling = @ \ {call},
                                             !.answers = answered, !.blocks = read]
           /\ ocrProgress' = [blocks |-> ocrWorker'.blocks, dirty |-> TRUE]
  <2>1. /\ DOMAIN answered = DOMAIN ocrWorker.answers \cup {call.request}
        /\ \A e \in Ocr!Eyes :
             /\ DOMAIN read[e] = DOMAIN ocrWorker.blocks[e]
             /\ \A x \in DOMAIN read[e] :
                  read[e][x] = IF x = call.request THEN answer
                                                ELSE ocrWorker.blocks[e][x]
    OBVIOUS
  <2>. HIDE DEF answered, read
  <2>2. /\ ocrWorker'.at = "recognizing" /\ ocrWorker'.heard = ocrWorker.heard
        /\ ocrWorker'.eyes = ocrWorker.eyes /\ ocrWorker'.images = ocrWorker.images
        /\ ocrWorker'.blocks = read /\ ocrWorker'.queue = ocrWorker.queue
        /\ ocrWorker'.calling = ocrWorker.calling \ {call}
        /\ ocrWorker'.answers = answered
    BY <1>1, <1>5, WorkerFields
  <2>3. /\ call.request \notin DOMAIN ocrWorker.answers /\ call.request \in Asked
        /\ \A other \in ocrWorker.calling : other.request = call.request => other = call
    BY <1>2 DEF AskInv
  <2>4. Grows(ocrWorker.blocks, read)
    <3>1. \A e \in Ocr!Eyes : call.request \in DOMAIN ocrWorker.blocks[e] =>
            ocrWorker.blocks[e][call.request] = "timeout"
      BY <2>3, OcrFacts
    <3>. QED BY <2>1, <3>1 DEF Grows
  <2>5. Ocr!EyesRead' = Ocr!EyesRead /\ Asked' = Asked
    <3>1. Ocr!EyesRead' = Ocr!EyesRead
      BY <2>2 DEF Ocr!EyesRead
    <3>2. \A t : (\E e \in Ocr!Eyes : t \in DOMAIN read[e])
                 <=> (\E e \in Ocr!Eyes : t \in DOMAIN ocrWorker.blocks[e])
      BY <2>1
    <3>. QED BY <2>2, <3>1, <3>2 DEF Asked
  <2>6. /\ \A e \in Ocr!Eyes : e > Ocr!EyesRead' => DOMAIN ocrWorker'.blocks[e] = {}
        /\ \A i \in 1..Len(ocrWorker'.queue) :
             /\ ocrWorker'.queue[i] \notin DOMAIN ocrWorker'.answers
             /\ \A other \in ocrWorker'.calling : other.request # ocrWorker'.queue[i]
    BY <1>2, <2>1, <2>2, <2>5 DEF AskInv
  <2>7. /\ \A other \in ocrWorker'.calling :
             /\ other.request \in Asked'
             /\ other.request \notin DOMAIN ocrWorker'.answers
             /\ \A third \in ocrWorker'.calling :
                  other.request = third.request => other = third
        /\ DOMAIN ocrWorker'.answers \subseteq Asked'
    BY <2>1, <2>2, <2>3, <2>5 DEF AskInv
  <2>8. AskInv'
    BY <2>2, <2>5, <2>6, <2>7 DEF AskInv
  <2>9. ocrProgress'.blocks = read
    BY <1>5, <2>2
  <2>10. Grows(ocrShown, ocrProgress'.blocks)
    BY <1>3, <2>4, <2>9, GrowsFacts
  <2>11. GrowInv' /\ ShownStays
    BY <1>1, <2>2, <2>9, <2>10, GrowsFacts, GrowsOn
  <2>. QED BY <2>8, <2>11
<1>. QED BY <1>2, <1>4, <1>5

\* There is no task, and it asks for nothing.
LEMMA NobodyAsks ==
  /\ Ocr!NoWorker.heard = 0 /\ Ocr!NoWorker.eyes = 0 /\ Ocr!NoWorker.images = << >>
  /\ Ocr!NoWorker.queue = << >> /\ Ocr!NoWorker.calling = {}
  /\ DOMAIN Ocr!NoWorker.answers = {} /\ Len(<< >>) = 0
  /\ << >> \in Seq(SUBSET Ocr!Requests) /\ \A S : << >> \in Seq(S)
  /\ \A e \in Ocr!Eyes : DOMAIN Ocr!NoWorker.blocks[e] = {}
BY OcrNothing DEF Ocr!NoWorker, Ocr!Nothing

\* What the runtime takes away, it takes away with its scan.
LEMMA GrowsAnew ==
  ASSUME ScanInv, GrowInv, AskInv, NEW s, Ocr!Clear(s)
  PROVE  GrowInv' /\ AskInv' /\ ShownStays
<1>1. /\ ocrWorker' = Ocr!NoWorker /\ ocrShown' = Ocr!NoBlocks
      /\ ocrScan' = ocrScan + 1 /\ ocrScan \in Nat
  BY DEF Ocr!Clear, Ocr!Abort, GrowInv
<1>2. /\ Len(ocrChannel') \in Nat
      /\ \A i \in 1..Len(ocrChannel') : ocrChannel'[i].id \in 0..ocrScan
  <2>. DEFINE x == [id |-> ocrWorker.id,
                    result |-> IF ocrWorker.at = "sending" THEN ocrWorker.result
                                                           ELSE Ocr!Phase]
  <2>1. \/ ocrChannel' = ocrChannel
        \/ ocrWorker.at # "none" /\ ocrChannel' = Append(ocrChannel, x)
    BY DEF Ocr!Clear, Ocr!Abort
  <2>2. ocrWorker.at # "none" => x.id = ocrScan
    BY DEF ScanInv, ShownInv, Ocr!ShownIsCurrent
  <2>. HIDE DEF x
  <2>3. CASE ocrChannel' = ocrChannel
    BY <2>3 DEF GrowInv, ScanInv, ScanTypes
  <2>4. CASE ocrWorker.at # "none" /\ ocrChannel' = Append(ocrChannel, x)
    <3>1. /\ ocrChannel' \in Seq(ToSet(ocrChannel'))
          /\ \A i \in 1..Len(ocrChannel') :
               ocrChannel'[i] = x
               \/ (i \in 1..Len(ocrChannel) /\ ocrChannel'[i] = ocrChannel[i])
      BY <2>4, OcrSends DEF ScanInv
    <3>. QED BY <1>1, <2>2, <2>4, <3>1 DEF GrowInv
  <2>. QED BY <2>1, <2>3, <2>4
<1>3. \A i \in 1..Len(ocrChannel') :
        ocrChannel'[i].id \in 0..ocrScan' /\ ocrChannel'[i].id # ocrScan'
  BY <1>1, <1>2
<1>4. GrowInv'
  BY <1>1, <1>3, OcrIdle DEF GrowInv, Fresh
<1>5. AskInv'
  BY <1>1, NobodyAsks DEF AskInv, Asked, Ocr!EyesRead
<1>. QED BY <1>1, <1>4, <1>5 DEF ShownStays

\* The overlay goes on without a look at the task.
LEMMA GrowsUnseen ==
  ASSUME GrowInv, AskInv, ocrWorker' = ocrWorker, ocrProgress' = ocrProgress,
         ocrChannel' = ocrChannel, ocrShown' = ocrShown, ocrScan' = ocrScan,
         ocrSelecting' \/ ocrPending' => ocrSelecting \/ ocrPending
  PROVE  GrowInv' /\ AskInv' /\ ShownStays
<1>1. GrowInv'
  BY DEF GrowInv, Fresh, Grows
<1>2. AskInv'
  BY AsksOn
<1>. QED BY <1>1, <1>2, GrowsFacts DEF ShownStays

\* The images are there, and the task begins.
LEMMA GrowsFromHere ==
  ASSUME ScanInv, GrowInv, AskInv, Ocr!PollCapture
  PROVE  GrowInv' /\ AskInv' /\ ShownStays
<1>1. CASE ocrConfig # ocrSeen
  <2>1. \E s : Ocr!Clear(s)
    BY <1>1, Zenon DEF Ocr!PollCapture
  <2>. QED BY <2>1, GrowsAnew
<1>2. CASE ocrConfig = ocrSeen
  <2>1. PICK eyes \in Ocr!Eyes :
          ocrWorker' = [Ocr!NoWorker EXCEPT !.at = "preparing", !.id = ocrScan,
                                            !.config = ocrConfig, !.eyes = eyes]
    BY <1>2, Zenon DEF Ocr!PollCapture
  <2>2. /\ ocrPending /\ ocrPending' = FALSE /\ ocrSelecting' = ocrSelecting
        /\ ocrProgress' = Ocr!NoProgress /\ ocrScan' = ocrScan
        /\ ocrShown' = ocrShown /\ ocrChannel' = ocrChannel
    BY <1>2, Zenon DEF Ocr!PollCapture
  <2>3. /\ ocrWorker'.at = "preparing" /\ ocrWorker'.eyes = eyes
        /\ ocrWorker'.heard = 0 /\ ocrWorker'.images = << >>
        /\ ocrWorker'.blocks = Ocr!NoBlocks /\ ocrWorker'.queue = << >>
        /\ ocrWorker'.calling = {} /\ DOMAIN ocrWorker'.answers = {}
    BY <2>1, OcrIdle, NobodyAsks
  <2>4. ocrWorker.at = "none" /\ ocrShown = Ocr!NoBlocks /\ ~ocrSelecting
    BY <2>2 DEF GrowInv, ScanInv, ShownInv
  <2>5. ocrProgress'.blocks = Ocr!NoBlocks
    BY <2>2 DEF Ocr!NoProgress
  <2>6. \A i \in 1..Len(ocrChannel) : ~Fresh(ocrChannel[i])
    BY <2>4 DEF GrowInv
  <2>7. GrowInv'
    BY <2>2, <2>3, <2>4, <2>5, <2>6, GrowsFacts DEF GrowInv, Fresh
  <2>8. AskInv'
    <3>1. ocrWorker'.eyes \in 0..2 /\ 0 <= ocrWorker'.eyes
      BY <2>3 DEF Ocr!Eyes
    <3>. QED BY <2>3, <3>1, NobodyAsks, OcrNothing
             DEF AskInv, Asked, Ocr!EyesRead
  <2>. QED BY <2>2, <2>7, <2>8, GrowsFacts DEF ShownStays
<1>. QED BY <1>1, <1>2

\* The runtime shows the result or the progress of its scan.
LEMMA GrowsShown ==
  ASSUME ScanInv, GrowInv, AskInv, Ocr!Tick
  PROVE  GrowInv' /\ AskInv' /\ ShownStays
<1>. DEFINE first == FirstIn(ocrChannel, {u \in ToSet(ocrChannel) : Ocr!Mine(u)})
<1>0. Ocr!FirstIn(ocrChannel, {u \in Ocr!Range(ocrChannel) : Ocr!Mine(u)}) = first
  BY DEF Ocr!FirstIn, FirstIn, Ocr!Range, ToSet
<1>1. /\ first \in 1..Len(ocrChannel) + 1
      /\ (first <= Len(ocrChannel) =>
            ocrChannel[first] \in {u \in ToSet(ocrChannel) : Ocr!Mine(u)})
      /\ Len(ocrChannel) \in Nat
  BY FirstInProperties DEF ScanInv, ScanTypes
<1>. HIDE DEF first
<1>2. CASE ocrCapture = None
  <2>1. ocrChannel' = << >> /\ ocrWorker' = ocrWorker /\ UNCHANGED Ocr!inView
    BY <1>2 DEF Ocr!Tick
  <2>2. /\ ocrScan' = ocrScan /\ ocrSelecting' = ocrSelecting
        /\ ocrPending' = ocrPending /\ ocrShown' = ocrShown
        /\ ocrProgress' = ocrProgress
    BY <2>1 DEF Ocr!inView
  <2>3. GrowInv'
    BY <2>1, <2>2 DEF GrowInv, Grows
  <2>. QED BY <2>1, <2>2, <2>3, AsksOn, GrowsFacts DEF ShownStays
<1>3. CASE ocrCapture # None /\ Ocr!Clear(FALSE)
  <2>1. \E s : Ocr!Clear(s)
    BY <1>3, Zenon
  <2>. QED BY <2>1, GrowsAnew
<1>4. CASE ocrCapture # None /\ first > Len(ocrChannel) /\ ~Ocr!Clear(FALSE)
  <2>1. /\ ocrChannel' = << >> /\ ocrWorker' = ocrWorker /\ ocrScan' = ocrScan
        /\ ocrSelecting' = ocrSelecting /\ ocrPending' = ocrPending
        /\ \/ /\ ocrProgress.dirty /\ ocrShown' = ocrProgress.blocks
              /\ ocrProgress' = [ocrProgress EXCEPT !.dirty = FALSE]
           \/ ocrShown' = ocrShown /\ ocrProgress' = ocrProgress
    BY <1>0, <1>4 DEF Ocr!Tick, Ocr!Show
  <2>2. ocrProgress'.blocks = ocrProgress.blocks
    BY <2>1 DEF ScanInv, ScanTypes
  <2>3. Grows(ocrShown, ocrShown')
    BY <2>1, GrowsFacts DEF GrowInv, ScanInv, ShownInv
  <2>4. ocrWorker.at # "none" => Grows(ocrShown', ocrProgress.blocks)
    BY <2>1, GrowsFacts DEF GrowInv
  <2>5. GrowInv'
    <3>1. /\ ocrWorker.at \in {"preparing", "recognizing"} =>
               Grows(ocrProgress'.blocks, ocrWorker.blocks)
          /\ ocrWorker.at = "sending" =>
               \/ ocrWorker.result = Ocr!Failed
               \/ Grows(ocrProgress'.blocks, ocrWorker.result.blocks)
          /\ ocrScan \in Nat
          /\ ocrSelecting \/ ocrPending => ocrWorker.at = "none"
      BY <2>2 DEF GrowInv
    <3>. QED BY <2>1, <2>2, <2>4, <3>1 DEF GrowInv, Grows
  <2>. QED BY <2>1, <2>3, <2>5, AsksOn DEF ShownStays
<1>5. CASE ocrCapture # None /\ first <= Len(ocrChannel) /\ ~Ocr!Clear(FALSE)
  <2>0. ~(first > Len(ocrChannel))
    BY <1>1, <1>5
  <2>1. /\ ocrShown' = ocrChannel[first].result.blocks
        /\ ocrChannel[first].result # Ocr!Failed
        /\ ocrWorker' = Ocr!NoWorker /\ ocrChannel' = << >>
        /\ ocrScan' = ocrScan
    BY <1>0, <1>5, <2>0 DEF Ocr!Tick, Ocr!Show
  <2>2. first \in 1..Len(ocrChannel) /\ Fresh(ocrChannel[first])
    BY <1>1, <1>5 DEF Ocr!Mine, Fresh
  <2>3. Grows(ocrShown, ocrShown')
    BY <2>1, <2>2 DEF GrowInv
  <2>4. GrowInv'
    BY <2>1, OcrIdle DEF GrowInv
  <2>5. AskInv'
    BY <2>1, NobodyAsks DEF AskInv, Asked, Ocr!EyesRead
  <2>. QED BY <2>3, <2>4, <2>5 DEF ShownStays
<1>6. first <= Len(ocrChannel) \/ first > Len(ocrChannel)
  BY <1>1
<1>. QED BY <1>2, <1>3, <1>4, <1>5, <1>6

LEMMA GrowStart ==
  ASSUME Ocr!ScanInit
  PROVE  GrowInv /\ AskInv
<1>1. /\ ocrScan = 0 /\ ocrChannel = << >> /\ ocrWorker = Ocr!NoWorker
  BY DEF Ocr!ScanInit
<1>. QED BY <1>1, OcrIdle, NobodyAsks DEF GrowInv, AskInv, Asked, Ocr!EyesRead

LEMMA GrowStep ==
  ASSUME ScanInv, GrowInv, AskInv, Ocr!ScanNext \/ UNCHANGED scans
  PROVE  GrowInv' /\ AskInv' /\ ShownStays
<1>1. CASE UNCHANGED scans \/ Ocr!ChangeConfig \/ Ocr!EditGlossary
  <2>1. /\ ocrWorker' = ocrWorker /\ ocrProgress' = ocrProgress
        /\ ocrChannel' = ocrChannel /\ ocrShown' = ocrShown /\ ocrScan' = ocrScan
        /\ ocrSelecting' = ocrSelecting /\ ocrPending' = ocrPending
    BY <1>1 DEF scans, Ocr!ChangeConfig, Ocr!EditGlossary, Ocr!inView
  <2>. QED BY <2>1, GrowsUnseen
<1>2. CASE \/ Ocr!TakeConfig \/ Ocr!ClearScan \/ Ocr!Frame \/ Ocr!Confirm
  <2>1. \/ \E s : Ocr!Clear(s)
        \/ /\ ocrWorker' = ocrWorker /\ ocrProgress' = ocrProgress
           /\ ocrChannel' = ocrChannel /\ ocrShown' = ocrShown /\ ocrScan' = ocrScan
           /\ ocrSelecting' \/ ocrPending' => ocrSelecting \/ ocrPending
    BY <1>2 DEF Ocr!TakeConfig, Ocr!ClearScan, Ocr!Frame, Ocr!Confirm, Ocr!inView
  <2>. QED BY <2>1, GrowsAnew, GrowsUnseen
<1>3. CASE Ocr!PollCapture \/ Ocr!Tick
  BY <1>3, GrowsFromHere, GrowsShown
<1>. QED BY <1>1, <1>2, <1>3, GrowsToEnd, GrowsAtTheEnds, GrowsByAnEye, GrowsByAnImage,
            GrowsByAnother, GrowsByAnAnswer DEF Ocr!ScanNext

-----------------------------------------------------------------------------
(* The services side by side                                               *)

CurrentInv == TransInv /\ RuntimeInv /\ LinkInv /\ ScanInv /\ GrowInv /\ AskInv

\* Answers are current: a message that was taken back is neither stored nor
\* shown nor worked on, only the process that runs answers a worker, and only
\* in the worker's session, and a scan never takes back a translation it has
\* shown; with any number of messages, speakers, users, models, texts and targets.
THEOREM AnswersAreCurrentHolds == MCSpec => AnswersAreCurrent
<1>1. MCInit => CurrentInv
  BY TransStart, RuntimeStart, LinkStart, ScanStart, GrowStart DEF MCInit, CurrentInv
<1>2. ASSUME CurrentInv,
             [MCNext]_<<focus, vars, uploads, runtime, scans, questions, audio, feed,
                        live, stores>>
      PROVE  CurrentInv' /\ [Silent]_vars /\ [AnswersStay]_runtime /\ [ShownStays]_scans
  <2>1. Next \/ UNCHANGED vars
    BY <1>2 DEF MCNext
  <2>2. TransInv' /\ [Silent]_vars
    BY <1>2, <2>1, TransStep, TakenBackStaysSilent DEF CurrentInv
  <2>3. RuntimeInv' /\ LinkInv' /\ [AnswersStay]_runtime
    BY <1>2, ServicesMove, RuntimeStep, LinkStep DEF CurrentInv
  <2>4. ScanInv' /\ GrowInv' /\ AskInv' /\ [ShownStays]_scans
    BY <1>2, ServicesMove, ScanStep, GrowStep DEF CurrentInv
  <2>. QED BY <2>2, <2>3, <2>4 DEF CurrentInv
<1>3. CurrentInv /\ [MCNext]_<<focus, vars, uploads, runtime, scans, questions, audio,
                               feed, live, stores>>
        => CurrentInv' /\ [Silent]_vars /\ [AnswersStay]_runtime /\ [ShownStays]_scans
  BY <1>2
<1>4. MCSpec => [][Silent]_vars /\ [][AnswersStay]_runtime /\ [][ShownStays]_scans
  BY <1>1, <1>3, PTL DEF MCSpec
<1>5. [][Silent]_vars => TakenBackIsSilent
  BY DEF TakenBackIsSilent, Silent
<1>6. [][AnswersStay]_runtime => Qwen!AnswersAreCurrent
  BY DEF Qwen!AnswersAreCurrent, AnswersStay, Qwen!runtimeVars, runtime
<1>7. [][ShownStays]_scans => Ocr!ShownOnlyGrows
  BY PTL DEF Ocr!ShownOnlyGrows, ShownStays, Grows, Ocr!scanVars, scans
<1>. QED BY <1>4, <1>5, <1>6, <1>7 DEF AnswersAreCurrent
=============================================================================
