-------------------------- MODULE OscChatboxProofs --------------------------
(***************************************************************************)
(* Theorems about the OSC Chatbox dispatcher, for every number of          *)
(* subtitles, callers, languages, configurations, every capacity and every *)
(* interval: its type invariant, the safety properties, each from an       *)
(* inductive invariant of its own, and that it implements Chatbox.         *)
(***************************************************************************)
EXTENDS OscChatbox, MessageQueueProofs, FiniteSetTheorems, FunctionTheorems

-----------------------------------------------------------------------------
(* Queues of messages                                                      *)

(***************************************************************************)
(* Two versions of one message: the worker completes, fails, re-targets    *)
(* and ages messages in place, and never changes these three fields.       *)
(***************************************************************************)
SameMessage(m, n) ==
  m.id = n.id /\ m.kind = n.kind /\ m.generation = n.generation

(***************************************************************************)
(* r holds messages of q, in the order q has them.                         *)
(***************************************************************************)
Derived(r, q) ==
  \E g \in [1..Len(r) -> 1..Len(q)] :
    /\ \A j, k \in 1..Len(r) : j < k => g[j] < g[k]
    /\ \A k \in 1..Len(r) : SameMessage(r[k], q[g[k]])

ManualsLead(q) ==
  \A i, j \in 1..Len(q) : i < j /\ IsManual(q[j]) => IsManual(q[i])

\* The manual message n is somewhere in q (a queue, or the channel).
HasManual(q, n) == \E i \in 1..Len(q) : IsManual(q[i]) /\ q[i].id = n

\* No manual message of q is lost in r.
KeepsManuals(r, q) == \A n : HasManual(q, n) => HasManual(r, n)

(***************************************************************************)
(* Changing messages in place loses no manual message ...                  *)
(***************************************************************************)
LEMMA ManualsInPlace ==
  ASSUME NEW q, NEW r, Len(r) = Len(q),
         \A k \in 1..Len(q) : SameMessage(r[k], q[k])
  PROVE  KeepsManuals(r, q)
BY DEF KeepsManuals, HasManual, SameMessage, IsManual

\* ... nor does a retain that keeps them all.
LEMMA ManualsKeep ==
  ASSUME NEW q \in Seq(Message), NEW M,
         \A i \in 1..Len(q) : IsManual(q[i]) => q[i] \in M
  PROVE  KeepsManuals(Keep(q, M), q)
<1>. DEFINE r == Keep(q, M)
<1>1. PICK g : Embeds(g, r, q, Len(q), M)
  BY KeepProperties
<1>. HIDE DEF r
<1>2. ASSUME NEW i \in 1..Len(q), IsManual(q[i])
      PROVE  \E k \in 1..Len(r) : r[k] = q[i]
  BY <1>1, <1>2 DEF Embeds
<1>3. KeepsManuals(r, q)
  BY <1>2 DEF KeepsManuals, HasManual
<1>. QED BY <1>3 DEF r

\* Losing no manual message composes.
LEMMA KeepsTrans ==
  ASSUME NEW q, NEW r, NEW s, KeepsManuals(s, r), KeepsManuals(r, q)
  PROVE  KeepsManuals(s, q)
BY DEF KeepsManuals

(***************************************************************************)
(* A queue whose messages were changed in place is derived from the old.   *)
(***************************************************************************)
LEMMA DerivedInPlace ==
  ASSUME NEW q \in Seq(Message), NEW r, Len(r) = Len(q),
         \A k \in 1..Len(q) : SameMessage(r[k], q[k])
  PROVE  Derived(r, q)
<1>. DEFINE g == [k \in 1..Len(q) |-> k]
<1>1. /\ g \in [1..Len(r) -> 1..Len(q)]
      /\ \A j, k \in 1..Len(r) : j < k => g[j] < g[k]
      /\ \A k \in 1..Len(r) : SameMessage(r[k], q[g[k]])
  OBVIOUS
<1>. HIDE DEF g
<1>. QED BY <1>1 DEF Derived

\* A queue derives from itself.
LEMMA DerivedRefl ==
  ASSUME NEW q \in Seq(Message)
  PROVE  Derived(q, q)
BY DerivedInPlace DEF SameMessage

\* The empty queue derives from every queue.
LEMMA DerivedEmpty ==
  ASSUME NEW q
  PROVE  Derived(<< >>, q)
<1>. DEFINE g == [k \in 1..0 |-> k]
<1>1. 1..Len(<< >>) = {} /\ 1..0 = {}
  OBVIOUS
<1>2. g \in [1..Len(<< >>) -> 1..Len(q)]
  BY <1>1
<1>. HIDE DEF g
<1>. QED BY <1>1, <1>2 DEF Derived

\* Deriving composes.
LEMMA DerivedTrans ==
  ASSUME NEW q \in Seq(Message), NEW r \in Seq(Message),
         NEW s \in Seq(Message), Derived(s, r), Derived(r, q)
  PROVE  Derived(s, q)
<1>1. PICK g \in [1..Len(s) -> 1..Len(r)] :
        /\ \A j, k \in 1..Len(s) : j < k => g[j] < g[k]
        /\ \A k \in 1..Len(s) : SameMessage(s[k], r[g[k]])
  BY DEF Derived
<1>2. PICK h \in [1..Len(r) -> 1..Len(q)] :
        /\ \A j, k \in 1..Len(r) : j < k => h[j] < h[k]
        /\ \A k \in 1..Len(r) : SameMessage(r[k], q[h[k]])
  BY DEF Derived
<1>. DEFINE f == [k \in 1..Len(s) |-> h[g[k]]]
<1>3. f \in [1..Len(s) -> 1..Len(q)]
  OBVIOUS
<1>4. \A j, k \in 1..Len(s) : j < k => f[j] < f[k]
  BY <1>1, <1>2
<1>5. ASSUME NEW k \in 1..Len(s)
      PROVE  SameMessage(s[k], q[f[k]])
  <2>1. g[k] \in 1..Len(r) /\ f[k] = h[g[k]]
    OBVIOUS
  <2>2. SameMessage(s[k], r[g[k]])
    BY <1>1
  <2>3. SameMessage(r[g[k]], q[h[g[k]]])
    BY <1>2, <2>1
  <2>. HIDE DEF f
  <2>. QED BY <2>1, <2>2, <2>3 DEF SameMessage
<1>. HIDE DEF f
<1>. QED BY <1>3, <1>4, <1>5, ZenonT(60) DEF Derived

\* retain derives: it drops messages and keeps the order of the others.
LEMMA DerivedKeep ==
  ASSUME NEW q \in Seq(Message), NEW M
  PROVE  /\ Keep(q, M) \in Seq(Message)
         /\ Len(Keep(q, M)) <= Len(q)
         /\ Derived(Keep(q, M), q)
         /\ \A k \in 1..Len(Keep(q, M)) : Keep(q, M)[k] \in M
<1>1. Keep(q, M) \in Seq(Message) /\ Len(Keep(q, M)) <= Len(q)
  BY KeepProperties
<1>2. PICK g : Embeds(g, Keep(q, M), q, Len(q), M)
  BY KeepProperties
<1>3. Derived(Keep(q, M), q)
  BY <1>2 DEF Embeds, Derived, SameMessage
<1>. QED BY <1>1, <1>2, <1>3 DEF Embeds

\* Removing one message derives.
LEMMA DerivedRemove ==
  ASSUME NEW q \in Seq(Message), NEW i \in 1..Len(q)
  PROVE  /\ RemoveAt(q, i) \in Seq(Message)
         /\ Len(RemoveAt(q, i)) = Len(q) - 1
         /\ Derived(RemoveAt(q, i), q)
<1>. DEFINE r == RemoveAt(q, i)
            g == [k \in 1..Len(q)-1 |-> IF k < i THEN k ELSE k+1]
<1>1. /\ r \in Seq(Message) /\ Len(r) = Len(q) - 1
      /\ \A j \in 1..Len(q)-1 : r[j] = IF j < i THEN q[j] ELSE q[j+1]
  BY RemoveAtProperties
<1>. HIDE DEF r
<1>2. g \in [1..Len(r) -> 1..Len(q)]
  BY <1>1
<1>3. \A j, k \in 1..Len(r) : j < k => g[j] < g[k]
  BY <1>1
<1>4. \A k \in 1..Len(r) : SameMessage(r[k], q[g[k]])
  BY <1>1 DEF SameMessage
<1>. HIDE DEF g
<1>5. Derived(r, q)
  BY <1>2, <1>3, <1>4 DEF Derived
<1>. QED BY <1>1, <1>5 DEF r

\* pop_front derives.
LEMMA DerivedTail ==
  ASSUME NEW q \in Seq(Message), q # << >>
  PROVE  /\ Tail(q) \in Seq(Message) /\ Len(Tail(q)) = Len(q) - 1
         /\ Derived(Tail(q), q)
<1>. DEFINE r == Tail(q)
            g == [k \in 1..Len(q)-1 |-> k+1]
<1>1. /\ r \in Seq(Message) /\ Len(r) = Len(q) - 1
      /\ \A j \in 1..Len(q)-1 : r[j] = q[j+1]
  OBVIOUS
<1>. HIDE DEF r
<1>2. g \in [1..Len(r) -> 1..Len(q)]
  BY <1>1
<1>3. \A j, k \in 1..Len(r) : j < k => g[j] < g[k]
  BY <1>1
<1>4. \A k \in 1..Len(r) : SameMessage(r[k], q[g[k]])
  BY <1>1 DEF SameMessage
<1>. HIDE DEF g
<1>5. Derived(r, q)
  BY <1>2, <1>3, <1>4 DEF Derived
<1>. QED BY <1>1, <1>5 DEF r

(***************************************************************************)
(* What holds of the messages of q, or of their order, holds of a queue    *)
(* derived from it.                                                        *)
(***************************************************************************)
LEMMA DerivedMember ==
  ASSUME NEW q, NEW r, Derived(r, q), NEW k \in 1..Len(r)
  PROVE  \E i \in 1..Len(q) : SameMessage(r[k], q[i])
BY DEF Derived

\* Manual messages still lead in a queue derived from one where they led.
LEMMA DerivedManualsLead ==
  ASSUME NEW q, NEW r, Derived(r, q), ManualsLead(q)
  PROVE  ManualsLead(r)
<1>1. PICK g \in [1..Len(r) -> 1..Len(q)] :
        /\ \A j, k \in 1..Len(r) : j < k => g[j] < g[k]
        /\ \A k \in 1..Len(r) : SameMessage(r[k], q[g[k]])
  BY DEF Derived
<1>. QED BY <1>1, SMTT(30) DEF ManualsLead, SameMessage, IsManual
-----------------------------------------------------------------------------
(* Messages                                                                *)

(***************************************************************************)
(* The events of the channel, field by field.                              *)
(***************************************************************************)
LEMMA EventFields ==
  ASSUME NEW e \in Event
  PROVE  /\ e.kind \in {"subtitle", "completed", "superseded", "failed",
                        "manual", "test"}
         /\ e.generation \in Nat
         /\ e.kind = "manual" => e.id \in Manuals
         /\ e.kind = "test" => e.id \in Tests
         /\ e.kind \in {"subtitle", "completed", "superseded", "failed"} =>
              e.id \in Subtitles
         /\ e.kind = "subtitle" => e.route \in Seq(Langs)
         /\ e.kind \in {"completed", "superseded", "failed"} =>
              e.lang \in Langs
         /\ e.kind = "completed" => e.content \in Contents
BY OscAssumption DEF Event

\* A freshly created message is a Message.
LEMMA PlainMessageTyped ==
  ASSUME NEW kind \in {"subtitle", "manual", "test"}, NEW id \in IdsOf[kind],
         NEW generation \in Nat
  PROVE  PlainMessage(id, kind, generation) \in Message
<1>1. id \in Ids /\ kind \in DOMAIN IdsOf
  BY DEF Ids, IdsOf
<1>. HIDE DEF IdsOf
<1>. QED BY <1>1, OscAssumption DEF PlainMessage, Untranslated, Message

\* The fields of a Message, for leaves that must not expand Message.
LEMMA MessageFields ==
  ASSUME NEW m \in Message
  PROVE  /\ m.id \in Ids /\ m.kind \in {"subtitle", "manual", "test"}
         /\ m.kind = "subtitle" => m.id \in Subtitles
         /\ m.kind = "manual" => m.id \in Manuals
         /\ m.kind = "test" => m.id \in Tests
         /\ m.generation \in Nat /\ m.expected \in Seq(Langs)
         /\ m.desired \in Langs \cup {None}
         /\ m.translations \in [Langs -> Contents \cup {None}]
         /\ m.failed \in SUBSET Langs /\ m.wait \in 0..Grace
BY DEF Message, IdsOf

\* Making a message ready keeps what it is.
LEMMA ReadyTyped ==
  ASSUME NEW n \in Message
  PROVE  [n EXCEPT !.wait = 0] \in Message
         /\ SameMessage([n EXCEPT !.wait = 0], n)
<1>1. 0 \in 0..Grace
  BY OscAssumption
<1>. QED BY <1>1 DEF Message, SameMessage

\* fail_pending keeps what the message is.
LEMMA FailTyped ==
  ASSUME NEW m \in Message, NEW l \in Langs
  PROVE  Fail(m, l) \in Message /\ SameMessage(Fail(m, l), m)
<1>. DEFINE failed == [m EXCEPT !.failed = @ \cup {l}]
<1>1. failed \in Message /\ SameMessage(failed, m)
  BY DEF Message, SameMessage
<1>3. Fail(m, l) \in {failed, [failed EXCEPT !.wait = 0]}
  BY DEF Fail
<1>. HIDE DEF failed
<1>. QED BY <1>1, <1>3, ReadyTyped DEF SameMessage

\* A completed translation keeps what the message is.
LEMMA CompleteTyped ==
  ASSUME NEW m \in Message, NEW l \in Langs, NEW c \in Contents,
         NEW preferred
  PROVE  /\ Complete(m, l, c, preferred) \in Message
         /\ SameMessage(Complete(m, l, c, preferred), m)
<1>. DEFINE done == [m EXCEPT !.translations[l] = c]
<1>1. done \in Message /\ SameMessage(done, m)
  BY DEF Message, SameMessage
<1>3. Complete(m, l, c, preferred) \in {done, [done EXCEPT !.wait = 0]}
  BY DEF Complete
<1>. HIDE DEF done
<1>. QED BY <1>1, <1>3, ReadyTyped DEF SameMessage

\* A superseded target keeps what the message is.
LEMMA SupersedeTyped ==
  ASSUME NEW m \in Message, NEW l \in Langs
  PROVE  Supersede(m, l) \in Message /\ SameMessage(Supersede(m, l), m)
<1>. DEFINE rest == Keep(m.expected, Langs \ {l})
            desired == IF m.desired = l /\ rest # << >> THEN Head(rest)
                                                        ELSE m.desired
            next == [m EXCEPT !.expected = rest, !.desired = desired]
<1>1. rest \in Seq(Langs)
  BY MessageFields, KeepProperties
<1>. HIDE DEF rest
<1>2. desired \in Langs \cup {None}
  BY <1>1, MessageFields
<1>. HIDE DEF desired
<1>3. next \in Message /\ SameMessage(next, m)
  BY <1>1, <1>2 DEF Message, SameMessage
<1>5. Supersede(m, l) \in {next, [next EXCEPT !.wait = 0]}
  BY DEF Supersede, rest, desired
<1>. HIDE DEF next
<1>. QED BY <1>3, <1>5, ReadyTyped DEF SameMessage

-----------------------------------------------------------------------------
(* The reducer's changes of the queue                                      *)

\* A failed translation changes the queue in place.
LEMMA OnFirstFail ==
  ASSUME NEW q \in Seq(Message), NEW s, NEW l \in Langs
  PROVE  LET r == OnFirst(q, s, LAMBDA m : Fail(m, l))
         IN  /\ r \in Seq(Message) /\ Len(r) = Len(q)
             /\ Derived(r, q) /\ KeepsManuals(r, q)
<1>. DEFINE i == FirstIn(q, {m \in ToSet(q) : m.kind = "subtitle" /\ m.id = s})
            r == IF i <= Len(q) THEN [q EXCEPT ![i] = Fail(q[i], l)] ELSE q
<1>1. OnFirst(q, s, LAMBDA m : Fail(m, l)) = r
  BY DEF OnFirst
<1>2. i \in 1..Len(q)+1
  BY FirstInProperties
<1>. HIDE DEF i
<1>3. \A k \in 1..Len(q) : q[k] \in Message
  OBVIOUS
<1>4. r \in Seq(Message) /\ Len(r) = Len(q)
  BY <1>2, <1>3, FailTyped
<1>5. \A k \in 1..Len(q) : SameMessage(r[k], q[k])
  BY <1>2, <1>3, FailTyped DEF SameMessage
<1>. HIDE DEF r
<1>6. Derived(r, q) /\ KeepsManuals(r, q)
  BY <1>4, <1>5, DerivedInPlace, ManualsInPlace
<1>. QED BY <1>1, <1>4, <1>6

\* A completed translation changes one message of the queue in place.
LEMMA OnFirstComplete ==
  ASSUME NEW q \in Seq(Message), NEW M, NEW l \in Langs, NEW c \in Contents,
         NEW preferred
  PROVE  LET i == FirstIn(q, M)
             r == IF i <= Len(q)
                  THEN [q EXCEPT ![i] = Complete(q[i], l, c, preferred)] ELSE q
         IN  /\ r \in Seq(Message) /\ Len(r) = Len(q)
             /\ Derived(r, q) /\ KeepsManuals(r, q)
<1>. DEFINE i == FirstIn(q, M)
            r == IF i <= Len(q)
                 THEN [q EXCEPT ![i] = Complete(q[i], l, c, preferred)] ELSE q
<1>1. i \in 1..Len(q)+1
  BY FirstInProperties
<1>. HIDE DEF i
<1>2. \A k \in 1..Len(q) : q[k] \in Message
  OBVIOUS
<1>3. r \in Seq(Message) /\ Len(r) = Len(q)
  BY <1>1, <1>2, CompleteTyped
<1>4. \A k \in 1..Len(q) : SameMessage(r[k], q[k])
  BY <1>1, <1>2, CompleteTyped DEF SameMessage
<1>. HIDE DEF r
<1>5. Derived(r, q) /\ KeepsManuals(r, q)
  BY <1>3, <1>4, DerivedInPlace, ManualsInPlace
<1>. QED BY <1>3, <1>5 DEF r, i

\* A superseded target drops or changes messages, and reorders none.
LEMMA SupersedeInDerived ==
  ASSUME NEW q \in Seq(Message), NEW s, NEW l \in Langs
  PROVE  /\ SupersedeIn(q, s, l) \in Seq(Message)
         /\ Len(SupersedeIn(q, s, l)) <= Len(q)
         /\ Derived(SupersedeIn(q, s, l), q)
         /\ KeepsManuals(SupersedeIn(q, s, l), q)
<1>. DEFINE gone == {m \in ToSet(q) : (m.kind = "subtitle" /\ m.id = s)
                        /\ Keep(m.expected, Langs \ {l}) = << >>}
            kept == Keep(q, ToSet(q) \ gone)
            r == [i \in DOMAIN kept |->
                    IF kept[i].kind = "subtitle" /\ kept[i].id = s
                    THEN Supersede(kept[i], l) ELSE kept[i]]
<1>1. SupersedeIn(q, s, l) = r
  BY DEF SupersedeIn
<1>2. /\ kept \in Seq(Message) /\ Len(kept) <= Len(q) /\ Derived(kept, q)
  BY DerivedKeep
<1>0. KeepsManuals(kept, q)
  <2>. DEFINE M == ToSet(q) \ gone
  <2>1. \A i \in 1..Len(q) : IsManual(q[i]) => q[i] \in M
    BY DEF IsManual, ToSet
  <2>. HIDE DEF M
  <2>2. KeepsManuals(Keep(q, M), q)
    BY <2>1, ManualsKeep
  <2>. QED BY <2>2 DEF M
<1>. HIDE DEF kept
<1>3. \A k \in 1..Len(kept) : kept[k] \in Message
  BY <1>2
<1>4. r \in Seq(Message) /\ Len(r) = Len(kept)
  BY <1>2, <1>3, SupersedeTyped
<1>5. \A k \in 1..Len(kept) : SameMessage(r[k], kept[k])
  BY <1>2, <1>3, SupersedeTyped DEF SameMessage
<1>. HIDE DEF r
<1>6. Derived(r, kept) /\ KeepsManuals(r, kept)
  BY <1>2, <1>4, <1>5, DerivedInPlace, ManualsInPlace
<1>7. Derived(r, q) /\ KeepsManuals(r, q)
  BY <1>0, <1>2, <1>4, <1>6, DerivedTrans, KeepsTrans
<1>8. Len(r) <= Len(q)
  BY <1>2, <1>4
<1>. QED BY <1>1, <1>4, <1>7, <1>8
InsertedAt(r, q, m, i) ==
  /\ r \in Seq(Message) /\ Len(r) = Len(q) + 1 /\ i \in 1..Len(q)+1
  /\ \A j \in 1..Len(q)+1 :
       r[j] = IF j < i THEN q[j] ELSE IF j = i THEN m ELSE q[j-1]

\* Insert puts m at one position and leaves the rest as it was.
LEMMA InsertShape ==
  ASSUME NEW q \in Seq(Message), NEW m \in Message, NEW priority \in BOOLEAN
  PROVE  InsertedAt(Insert(q, m, priority), q, m,
                    IF priority THEN FirstAutomatic(q) ELSE Len(q)+1)
<1>1. CASE priority
  <2>. DEFINE i == FirstAutomatic(q)
  <2>1. i \in 1..Len(q)+1
    BY FirstInProperties DEF FirstAutomatic
  <2>2. Insert(q, m, priority) = InsertAt(q, i, m)
    BY <1>1 DEF Insert
  <2>. HIDE DEF i
  <2>3. /\ InsertAt(q, i, m) \in Seq(Message)
        /\ Len(InsertAt(q, i, m)) = Len(q) + 1
        /\ \A j \in 1..Len(q)+1 :
             InsertAt(q, i, m)[j] =
               IF j < i THEN q[j] ELSE IF j = i THEN m ELSE q[j-1]
    BY <2>1, InsertAtProperties
  <2>4. InsertedAt(InsertAt(q, i, m), q, m, i)
    BY <2>1, <2>3 DEF InsertedAt
  <2>. QED BY <1>1, <2>2, <2>4 DEF i
<1>2. CASE ~priority
  <2>1. Insert(q, m, priority) = Append(q, m)
    BY <1>2 DEF Insert
  <2>2. InsertedAt(Append(q, m), q, m, Len(q)+1)
    BY DEF InsertedAt
  <2>. QED BY <1>2, <2>1, <2>2
<1>. QED BY <1>1, <1>2

(***************************************************************************)
(* enqueue_pending inserts into a queue with a free place that is derived  *)
(* from the old one, or turns the new message away.                        *)
(***************************************************************************)
LEMMA EnqueueShape ==
  ASSUME NEW q \in Seq(Message), NEW m \in Message, NEW priority \in BOOLEAN,
         Len(q) <= DisplayCapacity
  PROVE  LET r == Enqueue(q, m, priority)
         IN  /\ \/ r.queue = q
                \/ \E base \in Seq(Message) :
                     /\ Derived(base, q) /\ Len(base) < DisplayCapacity
                     /\ r.queue = Insert(base, m, priority)
             /\ \A n \in r.rejected : n = m \/ \E i \in 1..Len(q) : n = q[i]
<1>. DEFINE r == Enqueue(q, m, priority)
            victim == Victim(q, m, priority)
<1>0. DisplayCapacity \in Nat \ {0}
  BY OscAssumption
<1>1. CASE Len(q) < DisplayCapacity
  <2>1. r.queue = Insert(q, m, priority) /\ r.rejected = {}
    BY <1>1 DEF Enqueue
  <2>. QED BY <1>1, <2>1, DerivedRefl
<1>2. CASE Len(q) >= DisplayCapacity /\ victim = 0
  <2>1. r.queue = q /\ r.rejected = {m}
    BY <1>0, <1>2 DEF Enqueue
  <2>. QED BY <2>1
<1>3. CASE Len(q) >= DisplayCapacity /\ victim # 0
  <2>1. victim \in 1..Len(q)
    <3>1. FirstAutomatic(q) \in 1..Len(q)+1
      BY FirstInProperties DEF FirstAutomatic
    <3>. QED BY <3>1, <1>0, <1>3 DEF Victim
  <2>2. /\ r.queue = Insert(RemoveAt(q, victim), m, priority)
        /\ r.rejected = {q[victim]}
    BY <1>0, <1>3 DEF Enqueue
  <2>3. /\ RemoveAt(q, victim) \in Seq(Message)
        /\ Len(RemoveAt(q, victim)) = Len(q) - 1
        /\ Derived(RemoveAt(q, victim), q)
    BY <2>1, DerivedRemove
  <2>4. Len(RemoveAt(q, victim)) < DisplayCapacity
    BY <2>3, <1>0
  <2>. QED BY <2>1, <2>2, <2>3, <2>4
<1>4. victim = 0 \/ victim # 0
  OBVIOUS
<1>. QED BY <1>0, <1>1, <1>2, <1>3, <1>4

\* enqueue_pending never outgrows the display queue.
LEMMA EnqueueTyped ==
  ASSUME NEW q \in Seq(Message), NEW m \in Message, NEW priority \in BOOLEAN,
         Len(q) <= DisplayCapacity
  PROVE  LET r == Enqueue(q, m, priority).queue
         IN  /\ r \in Seq(Message) /\ Len(r) <= DisplayCapacity
             /\ \A k \in 1..Len(r) :
                  \/ SameMessage(r[k], m)
                  \/ \E i \in 1..Len(q) : SameMessage(r[k], q[i])
<1>. DEFINE r == Enqueue(q, m, priority).queue
<1>0. DisplayCapacity \in Nat \ {0}
  BY OscAssumption
<1>1. ASSUME r = q
      PROVE  /\ r \in Seq(Message) /\ Len(r) <= DisplayCapacity
             /\ \A k \in 1..Len(r) :
                  \/ SameMessage(r[k], m)
                  \/ \E i \in 1..Len(q) : SameMessage(r[k], q[i])
  <2>. HIDE DEF r
  <2>. QED BY <1>1 DEF SameMessage
<1>2. ASSUME NEW base \in Seq(Message),
             Derived(base, q), Len(base) < DisplayCapacity,
             r = Insert(base, m, priority)
      PROVE  /\ r \in Seq(Message) /\ Len(r) <= DisplayCapacity
             /\ \A k \in 1..Len(r) :
                  \/ SameMessage(r[k], m)
                  \/ \E i \in 1..Len(q) : SameMessage(r[k], q[i])
  <2>. HIDE DEF r
  <2>. DEFINE i == IF priority THEN FirstAutomatic(base) ELSE Len(base)+1
  <2>0. InsertedAt(r, base, m, i)
    BY <1>2, InsertShape
  <2>. HIDE DEF i
  <2>1. r \in Seq(Message) /\ Len(r) = Len(base) + 1 /\ i \in 1..Len(base)+1
    BY <2>0 DEF InsertedAt
  <2>2. \A j \in 1..Len(base)+1 :
          r[j] = IF j < i THEN base[j] ELSE IF j = i THEN m ELSE base[j-1]
    BY <2>0 DEF InsertedAt
  <2>3. ASSUME NEW k \in 1..Len(r)
        PROVE  SameMessage(r[k], m) \/ \E j \in 1..Len(q) : SameMessage(r[k], q[j])
    <3>1. CASE k = i
      BY <2>1, <2>2, <3>1 DEF SameMessage
    <3>2. CASE k < i
      <4>1. k \in 1..Len(base) /\ r[k] = base[k]
        BY <2>1, <2>2, <3>2
      <4>. QED BY <4>1, <1>2, DerivedMember
    <3>3. CASE k > i
      <4>1. k-1 \in 1..Len(base) /\ r[k] = base[k-1]
        BY <2>1, <2>2, <3>3
      <4>. QED BY <4>1, <1>2, DerivedMember
    <3>. QED BY <2>1, <3>1, <3>2, <3>3
  <2>4. Len(r) <= DisplayCapacity
    BY <1>0, <1>2, <2>1
  <2>. QED BY <2>1, <2>3, <2>4
<1>3. r = q \/ \E base \in Seq(Message) :
                     /\ Derived(base, q) /\ Len(base) < DisplayCapacity
                     /\ r = Insert(base, m, priority)
  BY EnqueueShape
<1>. HIDE DEF r
<1>4. /\ r \in Seq(Message) /\ Len(r) <= DisplayCapacity
      /\ \A k \in 1..Len(r) :
                  \/ SameMessage(r[k], m)
                  \/ \E i \in 1..Len(q) : SameMessage(r[k], q[i])
  BY <1>1, <1>2, <1>3
<1>. QED BY <1>4 DEF r

(***************************************************************************)
(* A new message joins the queue behind the manual messages: at the front  *)
(* of the automatic ones with priority, at the back without.               *)
(***************************************************************************)
LEMMA EnqueueManualsLead ==
  ASSUME NEW q \in Seq(Message), NEW m \in Message, NEW priority \in BOOLEAN,
         Len(q) <= DisplayCapacity, ManualsLead(q), IsManual(m) => priority
  PROVE  ManualsLead(Enqueue(q, m, priority).queue)
<1>. DEFINE r == Enqueue(q, m, priority).queue
<1>1. ASSUME NEW base \in Seq(Message), Derived(base, q)
      PROVE  ManualsLead(Insert(base, m, priority))
  <2>. DEFINE t == Insert(base, m, priority)
  <2>1. ManualsLead(base)
    BY <1>1, DerivedManualsLead
  <2>. DEFINE i == IF priority THEN FirstAutomatic(base) ELSE Len(base)+1
  <2>2. t \in Seq(Message) /\ Len(t) = Len(base) + 1
    BY InsertShape DEF InsertedAt
  <2>3. /\ i \in 1..Len(base)+1
        /\ i = IF priority THEN FirstAutomatic(base) ELSE Len(base)+1
        /\ \A j \in 1..Len(base)+1 :
             t[j] = IF j < i THEN base[j] ELSE IF j = i THEN m ELSE base[j-1]
    <3>1. InsertedAt(t, base, m, i)
      BY InsertShape
    <3>. HIDE DEF t
    <3>. QED BY <3>1 DEF InsertedAt
  <2>. HIDE DEF t, i
  <2>4. priority => /\ \A j \in 1..i-1 : IsManual(base[j])
                    /\ i <= Len(base) => ~IsManual(base[i])
    <3>. SUFFICES ASSUME priority
                  PROVE  /\ \A j \in 1..i-1 : IsManual(base[j])
                         /\ i <= Len(base) => ~IsManual(base[i])
      OBVIOUS
    <3>0. priority
      OBVIOUS
    <3>1. /\ i <= Len(base) => ~IsManual(base[i])
          /\ \A j \in 1..i-1 :
               base[j] \notin {n \in ToSet(base) : ~IsManual(n)}
      <4>1. i = FirstIn(base, {n \in ToSet(base) : ~IsManual(n)})
        BY <2>3, <3>0 DEF FirstAutomatic
      <4>2. /\ i <= Len(base) => base[i] \in {n \in ToSet(base) : ~IsManual(n)}
            /\ \A j \in 1..i-1 :
                 base[j] \notin {n \in ToSet(base) : ~IsManual(n)}
        BY <4>1, FirstInProperties
      <4>. QED BY <4>2
    <3>2. \A j \in 1..i-1 : base[j] \in ToSet(base)
      BY <2>3 DEF ToSet
    <3>3. ASSUME NEW j \in 1..i-1 PROVE IsManual(base[j])
      <4>. DEFINE b == base[j]
      <4>1. b \in ToSet(base) /\ b \notin {n \in ToSet(base) : ~IsManual(n)}
        BY <3>1, <3>2
      <4>. HIDE DEF b
      <4>2. IsManual(b)
        BY <4>1
      <4>. QED BY <4>2 DEF b
    <3>4. ASSUME i <= Len(base) PROVE ~IsManual(base[i])
      BY <3>1, <3>4
    <3>. QED BY <3>3, <3>4
  <2>5. ASSUME priority, NEW j \in 1..Len(base), j >= i
        PROVE  ~IsManual(base[j])
    <3>1. i \in 1..Len(base) /\ ~IsManual(base[i])
      BY <2>3, <2>4, <2>5
    <3>2. j = i \/ i < j
      BY <2>5, <3>1
    <3>. QED BY <3>1, <3>2, <2>1 DEF ManualsLead
  <2>6. ASSUME NEW j \in 1..Len(t), NEW k \in 1..Len(t), j < k, IsManual(t[k])
        PROVE  IsManual(t[j])
    <3>1. CASE priority
      <4>1. k <= i
        <5>. SUFFICES ASSUME k > i PROVE FALSE
          BY <2>2, <2>3
        <5>1. t[k] = base[k-1] /\ k-1 \in 1..Len(base) /\ k-1 >= i
          BY <2>2, <2>3
        <5>. QED BY <5>1, <2>5, <2>6, <3>1
      <4>2. j < i /\ t[j] = base[j] /\ j \in 1..i-1
        BY <4>1, <2>2, <2>3, <2>6
      <4>. QED BY <4>2, <2>4, <3>1
    <3>2. CASE ~priority
      <4>1. i = Len(base)+1 /\ ~IsManual(m)
        BY <2>3, <3>2
      <4>2. k # i
        BY <4>1, <2>2, <2>3, <2>6
      <4>3. t[k] = base[k] /\ t[j] = base[j] /\ j \in 1..Len(base)
            /\ k \in 1..Len(base)
        BY <4>1, <4>2, <2>2, <2>3, <2>6
      <4>. QED BY <4>3, <2>1, <2>6 DEF ManualsLead
    <3>. QED BY <3>1, <3>2
  <2>7. ManualsLead(t)
    BY <2>6 DEF ManualsLead
  <2>. QED BY <2>7 DEF t
<1>2. r = q \/ \E base \in Seq(Message) :
                     /\ Derived(base, q) /\ r = Insert(base, m, priority)
  BY EnqueueShape
<1>. HIDE DEF r
<1>3. ManualsLead(r)
  BY <1>1, <1>2
<1>. QED BY <1>3 DEF r
-----------------------------------------------------------------------------
(* Type correctness                                                        *)

(***************************************************************************)
(* TypeOK, and the worker that is executing a send holds its message.      *)
(***************************************************************************)
TypeInv == TypeOK /\ (Sending => inflight \in Message)

Fits(q) == q \in Seq(Message) /\ Len(q) <= DisplayCapacity

\* Answering keeps the type of reply.
LEMMA AnswerTyped ==
  ASSUME reply \in [Manuals -> Replies], NEW ids, NEW answer \in Replies
  PROVE  Answer(ids, answer) \in [Manuals -> Replies]
BY DEF Answer

\* try_send never outgrows the event channel.
LEMMA TrySendTyped ==
  ASSUME channel \in Seq(Event), Len(channel) <= EventCapacity,
         NEW e \in Event, TrySend(e)
  PROVE  channel' \in Seq(Event) /\ Len(channel') <= EventCapacity
BY OscAssumption DEF TrySend

(***************************************************************************)
(* filter_microphone_pending drops messages and keeps their order.         *)
(***************************************************************************)
LEMMA AllowedFacts ==
  ASSUME TypeOK
  PROVE  /\ AllowedQueue \in Seq(Message)
         /\ Len(AllowedQueue) <= Len(queue)
         /\ Len(AllowedQueue) <= DisplayCapacity
         /\ Derived(AllowedQueue, queue)
         /\ KeepsManuals(AllowedQueue, queue)
         /\ \A k \in 1..Len(AllowedQueue) : SpeakerAllowed(AllowedQueue[k])
         /\ AllowedSent \in {None, current_sent}
         /\ AllowedSent \in SentMessage \cup {None}
<1>1. queue \in Seq(Message) /\ Len(queue) <= DisplayCapacity
      /\ current_sent \in SentMessage \cup {None}
  BY DEF TypeOK
<1>. DEFINE M == {m \in ToSet(queue) : SpeakerAllowed(m)}
<1>2. AllowedQueue = Keep(queue, M)
  BY DEF AllowedQueue
<1>3. \A m \in M : SpeakerAllowed(m)
  OBVIOUS
<1>8. \A i \in 1..Len(queue) : IsManual(queue[i]) => queue[i] \in M
  BY <1>1 DEF SpeakerAllowed, IsManual, ToSet
<1>. HIDE DEF M
<1>9. KeepsManuals(Keep(queue, M), queue)
  BY <1>1, <1>8, ManualsKeep
<1>4. /\ Keep(queue, M) \in Seq(Message)
      /\ Len(Keep(queue, M)) <= Len(queue)
      /\ Derived(Keep(queue, M), queue)
      /\ \A k \in 1..Len(Keep(queue, M)) : Keep(queue, M)[k] \in M
  BY <1>1, DerivedKeep
<1>5. AllowedSent \in {None, current_sent}
  BY DEF AllowedSent
<1>6. DisplayCapacity \in Nat
  BY OscAssumption
<1>7. Len(Keep(queue, M)) <= DisplayCapacity
  BY <1>1, <1>4, <1>6
<1>. QED BY <1>1, <1>2, <1>3, <1>4, <1>5, <1>7, <1>9

\* discard_automatic_pending keeps the manual messages, in order.
LEMMA ManualsOfFacts ==
  ASSUME NEW q \in Seq(Message)
  PROVE  /\ ManualsOf(q) \in Seq(Message)
         /\ Len(ManualsOf(q)) <= Len(q)
         /\ Derived(ManualsOf(q), q) /\ KeepsManuals(ManualsOf(q), q)
         /\ \A k \in 1..Len(ManualsOf(q)) : IsManual(ManualsOf(q)[k])
<1>. DEFINE M == {m \in ToSet(q) : IsManual(m)}
<1>1. ManualsOf(q) = Keep(q, M) /\ \A m \in M : IsManual(m)
  BY DEF ManualsOf
<1>2. \A i \in 1..Len(q) : IsManual(q[i]) => q[i] \in M
  BY DEF ToSet
<1>. HIDE DEF M
<1>. QED BY <1>1, <1>2, DerivedKeep, ManualsKeep

\* Dropping the refreshes of a replaced subtitle derives.
LEMMA AfterSendFacts ==
  ASSUME queue \in Seq(Message)
  PROVE  /\ AfterSend \in Seq(Message)
         /\ Len(AfterSend) <= Len(queue)
         /\ Derived(AfterSend, queue)
BY DerivedKeep, DerivedRefl DEF AfterSend

(***************************************************************************)
(* The messages that Advance has aged.                                     *)
(***************************************************************************)
LEMMA AdvanceFacts ==
  ASSUME TypeOK, Advance
  PROVE  /\ queue' \in Seq(Message) /\ Len(queue') = Len(queue)
         /\ Derived(queue', queue) /\ KeepsManuals(queue', queue)
         /\ current_sent' \in SentMessage \cup {None}
         /\ current_sent # None => current_sent'.message = current_sent.message
<1>. DEFINE aged(m) == [m EXCEPT !.wait = Less(@)]
<1>1. queue \in Seq(Message) /\ \A k \in 1..Len(queue) : queue[k] \in Message
  BY DEF TypeOK
<1>2. ASSUME NEW m \in Message
      PROVE  aged(m) \in Message /\ SameMessage(aged(m), m)
  <2>1. Less(m.wait) \in 0..Grace
    BY OscAssumption, MessageFields DEF Less
  <2>. QED BY <2>1 DEF Message, SameMessage
<1>3. queue' = [i \in 1..Len(queue) |-> aged(queue[i])]
  BY <1>1 DEF Advance
<1>. HIDE DEF aged
<1>4. queue' \in Seq(Message) /\ Len(queue') = Len(queue)
  BY <1>1, <1>2, <1>3
<1>5. \A k \in 1..Len(queue) : SameMessage(queue'[k], queue[k])
  BY <1>1, <1>2, <1>3
<1>6. Derived(queue', queue) /\ KeepsManuals(queue', queue)
  BY <1>1, <1>4, <1>5, DerivedInPlace, ManualsInPlace
<1>7. /\ current_sent' \in SentMessage \cup {None}
      /\ current_sent # None => current_sent'.message = current_sent.message
  <2>1. CASE current_sent = None
    BY <2>1 DEF Advance
  <2>2. CASE current_sent # None
    <3>1. current_sent \in SentMessage /\ current_sent.age \in 0..LateTtl+1
      BY <2>2 DEF TypeOK, SentMessage
    <3>2. More(current_sent.age, LateTtl+1) \in 0..LateTtl+1
      BY <3>1, OscAssumption DEF More
    <3>3. current_sent' =
            [current_sent EXCEPT !.age = More(current_sent.age, LateTtl+1)]
      BY <2>2 DEF Advance
    <3>4. current_sent' \in SentMessage
          /\ current_sent'.message = current_sent.message
      BY <3>1, <3>2, <3>3 DEF SentMessage
    <3>. QED BY <3>4
  <2>. QED BY <2>1, <2>2
<1>. QED BY <1>4, <1>6, <1>7
(***************************************************************************)
(* A message the worker may enqueue on an event: the event's own, or the   *)
(* one on display that a late translation refreshes.                       *)
(***************************************************************************)
Arriving(m, priority) ==
  \/ LET e == Head(channel)
     IN  /\ Current(e) /\ e.kind \in {"subtitle", "manual", "test"}
         /\ m.id = e.id /\ m.kind = e.kind /\ m.generation = e.generation
         /\ e.kind = "subtitle" => ~priority
  \/ /\ Head(channel).kind = "completed"
     /\ AllowedSent # None /\ SameMessage(m, AllowedSent.message)
     /\ ~IsQueued(AllowedQueue, m.id) /\ priority

(***************************************************************************)
(* No message joins the queue: its messages are changed in place, or       *)
(* automatic ones are dropped.  Only a manual send of an older             *)
(* configuration is answered.                                              *)
(***************************************************************************)
ReceivedInPlace ==
  /\ queue' \in Seq(Message) /\ Len(queue') <= DisplayCapacity
  /\ Derived(queue', AllowedQueue) /\ Derived(queue', queue)
  /\ KeepsManuals(queue', queue)
  /\ \/ Head(channel).kind # "manual" /\ reply' = reply
     \/ /\ Head(channel).kind # "manual"
        /\ reply' = Answer(ManualIds({}), "queue_full")
     \/ /\ ~Current(Head(channel)) /\ Head(channel).kind = "manual"
        /\ reply' = Answer({Head(channel).id}, "cancelled")

(***************************************************************************)
(* One message joins the queue.                                            *)
(***************************************************************************)
ReceivedNew(m, priority) ==
  /\ m \in Message /\ priority \in BOOLEAN
  /\ Arriving(m, priority) /\ (IsManual(m) => priority)
  /\ queue' \in Seq(Message) /\ Len(queue') <= DisplayCapacity
  /\ Derived(queue', Enqueue(AllowedQueue, m, priority).queue)
  /\ KeepsManuals(queue', Enqueue(AllowedQueue, m, priority).queue)
  /\ reply' = Answer(ManualIds(Enqueue(AllowedQueue, m, priority).rejected),
                     "queue_full")

\* Every received event changes the queue in one of these two ways.
LEMMA ReceiveShape ==
  ASSUME TypeOK, Receive
  PROVE  ReceivedInPlace \/ \E m, priority : ReceivedNew(m, priority)
<1>. DEFINE e == Head(channel)
<1>1. e \in Event
  BY DEF TypeOK, Receive
<1>2. /\ AllowedQueue \in Seq(Message) /\ Len(AllowedQueue) <= DisplayCapacity
      /\ Derived(AllowedQueue, queue) /\ KeepsManuals(AllowedQueue, queue)
      /\ queue \in Seq(Message)
      /\ AllowedSent \in SentMessage \cup {None}
  BY AllowedFacts DEF TypeOK
<1>3. CASE ReceiveStale(e)
  BY <1>2, <1>3, DerivedRefl DEF ReceiveStale, ReceivedInPlace
<1>4. CASE ReceiveSubtitle(e)
  <2>. DEFINE m == [PlainMessage(e.id, "subtitle", e.generation) EXCEPT
                     !.expected = e.route, !.desired = SelectTarget(e.route),
                     !.wait = IF e.route # << >> THEN Grace ELSE 0]
  <2>1. /\ e.kind = "subtitle" /\ e.id \in Subtitles /\ e.generation \in Nat
        /\ e.route \in Seq(Langs) /\ Current(e)
    BY <1>1, <1>4, EventFields DEF ReceiveSubtitle
  <2>2. PlainMessage(e.id, "subtitle", e.generation) \in Message
    BY <2>1, PlainMessageTyped DEF IdsOf
  <2>3. SelectTarget(e.route) \in Langs \cup {None}
    <3>1. CASE e.route = << >>
      BY <3>1 DEF SelectTarget
    <3>2. CASE e.route # << >>
      <4>1. Len(e.route) \in Nat \ {0} /\ round_robin_index \in Nat
        BY <2>1, <3>2 DEF TypeOK
      <4>2. (round_robin_index % Len(e.route)) + 1 \in 1..Len(e.route)
        <5>1. \A i \in Nat, n \in Nat \ {0} : (i % n) + 1 \in 1..n
          OBVIOUS
        <5>. QED BY <4>1, <5>1
      <4>3. /\ Head(e.route) \in Langs
            /\ e.route[(round_robin_index % Len(e.route)) + 1] \in Langs
        BY <2>1, <3>2, <4>2
      <4>. QED BY <4>3 DEF SelectTarget
    <3>. QED BY <3>1, <3>2
  <2>4. /\ m \in Message /\ m.id = e.id /\ m.kind = e.kind
        /\ m.generation = e.generation /\ ~IsManual(m)
    <3>1. ASSUME NEW p \in Message, NEW x \in Seq(Langs),
                 NEW d \in Langs \cup {None}, NEW w \in 0..Grace
          PROVE  LET n == [p EXCEPT !.expected = x, !.desired = d, !.wait = w]
                 IN  n \in Message /\ SameMessage(n, p)
      BY DEF Message, SameMessage
    <3>2. (IF e.route # << >> THEN Grace ELSE 0) \in 0..Grace
      BY OscAssumption
    <3>3. m \in Message
          /\ SameMessage(m, PlainMessage(e.id, "subtitle", e.generation))
      BY <2>1, <2>2, <2>3, <3>1, <3>2
    <3>. HIDE DEF m
    <3>. QED BY <2>1, <3>3 DEF SameMessage, PlainMessage, IsManual
  <2>5. /\ queue' = Enqueue(AllowedQueue, m, FALSE).queue
        /\ reply' = Answer(ManualIds(Enqueue(AllowedQueue, m, FALSE).rejected),
                           "queue_full")
    BY <1>4 DEF ReceiveSubtitle, Accept
  <2>. HIDE DEF m
  <2>6. queue' \in Seq(Message) /\ Len(queue') <= DisplayCapacity
        /\ Derived(queue', queue') /\ KeepsManuals(queue', queue')
    BY <1>2, <2>4, <2>5, EnqueueTyped, DerivedRefl DEF KeepsManuals
  <2>7. Arriving(m, FALSE)
    BY <2>1, <2>4 DEF Arriving
  <2>8. ReceivedNew(m, FALSE)
    BY <2>4, <2>5, <2>6, <2>7 DEF ReceivedNew
  <2>. QED BY <2>8
<1>5. CASE ReceivePlain(e)
  <2>. DEFINE m == PlainMessage(e.id, e.kind, e.generation)
              priority == e.kind = "manual"
  <2>1. /\ e.kind \in {"manual", "test"} /\ e.id \in IdsOf[e.kind]
        /\ e.generation \in Nat /\ Current(e)
    BY <1>1, <1>5, EventFields DEF ReceivePlain, IdsOf
  <2>2. /\ m \in Message /\ m.id = e.id /\ m.kind = e.kind
        /\ m.generation = e.generation /\ (IsManual(m) => priority)
        /\ priority \in BOOLEAN
    <3>1. m \in Message
      BY <2>1, PlainMessageTyped
    <3>. QED BY <3>1 DEF PlainMessage, IsManual
  <2>3. /\ queue' = Enqueue(AllowedQueue, m, priority).queue
        /\ reply' = Answer(
                      ManualIds(Enqueue(AllowedQueue, m, priority).rejected),
                      "queue_full")
    BY <1>5 DEF ReceivePlain, Accept
  <2>4. Arriving(m, priority)
    BY <2>1, <2>2 DEF Arriving
  <2>. HIDE DEF m, priority
  <2>5. queue' \in Seq(Message) /\ Len(queue') <= DisplayCapacity
        /\ Derived(queue', queue') /\ KeepsManuals(queue', queue')
    BY <1>2, <2>2, <2>3, EnqueueTyped, DerivedRefl DEF KeepsManuals
  <2>6. ReceivedNew(m, priority)
    BY <2>2, <2>3, <2>4, <2>5 DEF ReceivedNew
  <2>. QED BY <2>6
<1>6. CASE ReceiveFailed(e)
  <2>1. e.lang \in Langs /\ e.kind # "manual"
    BY <1>1, <1>6, EventFields DEF ReceiveFailed
  <2>2. queue' = OnFirst(AllowedQueue, e.id, LAMBDA m : Fail(m, e.lang))
        /\ reply' = reply
    BY <1>6 DEF ReceiveFailed
  <2>3. queue' \in Seq(Message) /\ Len(queue') = Len(AllowedQueue)
        /\ Derived(queue', AllowedQueue) /\ KeepsManuals(queue', AllowedQueue)
    BY <1>2, <2>1, <2>2, OnFirstFail
  <2>4. Derived(queue', queue) /\ KeepsManuals(queue', queue)
    BY <1>2, <2>3, DerivedTrans, KeepsTrans
  <2>. QED BY <1>2, <2>1, <2>2, <2>3, <2>4 DEF ReceivedInPlace
<1>7. CASE ReceiveSuperseded(e)
  <2>1. e.lang \in Langs /\ e.kind # "manual"
    BY <1>1, <1>7, EventFields DEF ReceiveSuperseded
  <2>2. queue' = SupersedeIn(AllowedQueue, e.id, e.lang) /\ reply' = reply
    BY <1>7 DEF ReceiveSuperseded
  <2>3. queue' \in Seq(Message) /\ Len(queue') <= Len(AllowedQueue)
        /\ Derived(queue', AllowedQueue) /\ KeepsManuals(queue', AllowedQueue)
    BY <1>2, <2>1, <2>2, SupersedeInDerived
  <2>4. Derived(queue', queue) /\ KeepsManuals(queue', queue)
    BY <1>2, <2>3, DerivedTrans, KeepsTrans
  <2>5. Len(queue') <= DisplayCapacity
    BY <1>2, <2>3, OscAssumption
  <2>. QED BY <2>1, <2>2, <2>3, <2>4, <2>5 DEF ReceivedInPlace
<1>8. ASSUME NEW preferred \in BOOLEAN, ReceiveCompleted(e, preferred)
      PROVE  ReceivedInPlace \/ \E m, priority : ReceivedNew(m, priority)
  <2>. DEFINE q    == AllowedQueue
              late == [AllowedSent.message EXCEPT !.wait = 0]
              refresh == /\ ~IsQueued(q, e.id)
                         /\ Refreshable(AllowedSent, e.id, e.lang, e.content)
              new  == Enqueue(q, late, TRUE)
              old  == [queue |-> q, rejected |-> {}]
              done(s) == OnFirst(s, e.id,
                           LAMBDA m : Complete(m, e.lang, e.content, preferred))
  <2>1. e.lang \in Langs /\ e.content \in Contents /\ e.kind = "completed"
    BY <1>1, <1>8, EventFields DEF ReceiveCompleted
  <2>2. ASSUME NEW s \in Seq(Message)
        PROVE  /\ done(s) \in Seq(Message) /\ Len(done(s)) = Len(s)
               /\ Derived(done(s), s) /\ KeepsManuals(done(s), s)
    <3>. DEFINE M == {m \in ToSet(s) : m.kind = "subtitle" /\ m.id = e.id}
                i == FirstIn(s, M)
                r == IF i <= Len(s)
                     THEN [s EXCEPT ![i] =
                             Complete(s[i], e.lang, e.content, preferred)]
                     ELSE s
    <3>1. done(s) = r
      BY DEF OnFirst
    <3>. HIDE DEF M
    <3>2. /\ r \in Seq(Message) /\ Len(r) = Len(s)
          /\ Derived(r, s) /\ KeepsManuals(r, s)
      BY <2>1, OnFirstComplete
    <3>. QED BY <3>1, <3>2
  <2>3. /\ refresh => /\ queue' = done(new.queue)
                      /\ reply' = Answer(ManualIds(new.rejected), "queue_full")
        /\ ~refresh => /\ queue' = done(old.queue)
                       /\ reply' = Answer(ManualIds(old.rejected), "queue_full")
    BY <1>8 DEF ReceiveCompleted
  <2>. HIDE DEF done
  <2>4. CASE ~refresh
    <3>1. old.queue = q /\ old.rejected = {}
      OBVIOUS
    <3>2. /\ queue' \in Seq(Message) /\ Len(queue') = Len(q)
          /\ Derived(queue', q) /\ KeepsManuals(queue', q)
      BY <1>2, <2>2, <2>3, <2>4, <3>1
    <3>3. Derived(queue', queue) /\ KeepsManuals(queue', queue)
      BY <1>2, <3>2, DerivedTrans, KeepsTrans
    <3>. QED BY <1>2, <2>1, <2>3, <2>4, <3>1, <3>2, <3>3 DEF ReceivedInPlace
  <2>5. CASE refresh
    <3>1. AllowedSent # None /\ AllowedSent.message \in Message
      BY <1>2, <2>5 DEF Refreshable, SentMessage
    <3>2. late \in Message /\ SameMessage(late, AllowedSent.message)
      BY <3>1, ReadyTyped
    <3>3. Arriving(late, TRUE)
      <4>1. late.id = e.id
        BY <2>5, <3>2 DEF Refreshable, SameMessage
      <4>. HIDE DEF late
      <4>. QED BY <2>1, <2>5, <3>1, <3>2, <4>1 DEF Arriving
    <3>. HIDE DEF late
    <3>4. new.queue \in Seq(Message) /\ Len(new.queue) <= DisplayCapacity
      BY <1>2, <3>2, EnqueueTyped
    <3>5. /\ queue' \in Seq(Message) /\ Len(queue') <= DisplayCapacity
          /\ Derived(queue', new.queue) /\ KeepsManuals(queue', new.queue)
      BY <2>2, <2>3, <2>5, <3>4
    <3>6. ReceivedNew(late, TRUE)
      BY <2>3, <2>5, <3>2, <3>3, <3>5 DEF ReceivedNew
    <3>. QED BY <3>6
  <2>. QED BY <2>4, <2>5
<1>. QED BY <1>3, <1>4, <1>5, <1>6, <1>7, <1>8 DEF Receive
\* The queues that the tick and the configuration change produce.
LEMMA FitsFacts ==
  ASSUME TypeOK
  PROVE  Fits(<< >>) /\ Fits(AllowedQueue) /\ Fits(ManualsOf(AllowedQueue))
<1>1. DisplayCapacity \in Nat
  BY OscAssumption
<1>2. << >> \in Seq(Message) /\ Len(<< >>) = 0
  OBVIOUS
<1>3. AllowedQueue \in Seq(Message) /\ Len(AllowedQueue) <= DisplayCapacity
  BY AllowedFacts
<1>4. /\ ManualsOf(AllowedQueue) \in Seq(Message)
      /\ Len(ManualsOf(AllowedQueue)) <= Len(AllowedQueue)
  BY <1>3, ManualsOfFacts
<1>5. Len(ManualsOf(AllowedQueue)) <= DisplayCapacity
  BY <1>1, <1>3, <1>4
<1>. QED BY <1>1, <1>2, <1>3, <1>4, <1>5 DEF Fits

\* The type invariant holds initially.
LEMMA TypeInit == Init => TypeInv
<1>. SUFFICES ASSUME Init PROVE TypeInv
  OBVIOUS
<1>1. PICK c \in Configs :
        config = [config |-> c, config_revision |-> 0,
                  automatic_revision |-> 0, send_gate |-> InitialGate(c)]
  BY DEF Init
<1>2. config \in ConfigState
  BY <1>1 DEF ConfigState, InitialGate, Gates
<1>3. << >> \in Seq(Event) /\ << >> \in Seq(Message) /\ Len(<< >>) = 0
  OBVIOUS
<1>4. /\ reply \in [Manuals -> Replies] /\ asked \in [Manuals -> Nat]
      /\ bound \in BOOLEAN
  BY OscAssumption DEF Init, Replies
<1>5. /\ 0 <= DisplayCapacity /\ 0 <= EventCapacity
      /\ last_send \in 0..SendInterval /\ spacing \in 0..SendInterval
  BY OscAssumption DEF Init
<1>6. ~Sending
  BY DEF Init, Sending
<1>7. /\ wconfig = config /\ unseen = FALSE /\ channel = << >>
      /\ phase = "select" /\ queue = << >> /\ current_sent = None
      /\ round_robin_index = 0 /\ inflight = None /\ published = 0
      /\ newest = 0 /\ blocked = {} /\ display = None /\ leaked = 0
  BY DEF Init
<1>8. TypeOK
  <2>1. /\ config \in ConfigState /\ wconfig \in ConfigState
        /\ unseen \in BOOLEAN /\ bound \in BOOLEAN
        /\ channel \in Seq(Event) /\ Len(channel) <= EventCapacity
        /\ reply \in [Manuals -> Replies] /\ asked \in [Manuals -> Nat]
        /\ queue \in Seq(Message) /\ Len(queue) <= DisplayCapacity
    BY <1>2, <1>3, <1>4, <1>5, <1>7
  <2>. QED BY <2>1, <1>5, <1>7 DEF TypeOK
<1>. QED
  BY <1>6, <1>8 DEF TypeInv

(***************************************************************************)
(* The callers' steps: publish, report, test, send, time out, configure.   *)
(***************************************************************************)
LEMMA TypeCaller ==
  ASSUME TypeInv, Caller PROVE TypeInv'
<1>0. /\ TypeOK
      /\ Sending => inflight \in Message
      /\ config.automatic_revision \in Nat /\ config.config_revision \in Nat
      /\ config.config \in Configs /\ config.send_gate \in Gates
  BY DEF TypeInv, TypeOK, ConfigState
<1>1. ASSUME NEW route \in Routes, PublishSubtitle(route) PROVE TypeInv'
  <2>1. published' \in Subtitles
    BY <1>1 DEF PublishSubtitle
  <2>2. channel' \in Seq(Event) /\ Len(channel') <= EventCapacity
    <3>. DEFINE e == [kind |-> "subtitle", id |-> published',
                      generation |-> config.automatic_revision,
                      route |-> route]
    <3>1. e \in Event
      BY <1>0, <2>1 DEF Event
    <3>2. TrySend(e) \/ UNCHANGED channel
      BY <1>1 DEF PublishSubtitle
    <3>. HIDE DEF e
    <3>. QED BY <1>0, <3>1, <3>2, TrySendTyped DEF TypeOK
  <2>. QED BY <1>0, <1>1, <2>1, <2>2
           DEF PublishSubtitle, TypeInv, TypeOK, Sending, worker, history
<1>2. ASSUME NEW s \in Subtitles, NEW l \in Langs, NEW c,
             NEW kind \in {"completed", "superseded", "failed"},
             kind # "failed" => c \in Contents,
             ReportResult(kind, s, l, c)
      PROVE  TypeInv'
  <2>1. channel' \in Seq(Event) /\ Len(channel') <= EventCapacity
    <3>. DEFINE e == IF kind = "failed"
                     THEN [kind |-> kind, id |-> s, lang |-> l,
                           generation |-> config.automatic_revision]
                     ELSE [kind |-> kind, id |-> s, lang |-> l,
                           generation |-> config.automatic_revision,
                           content |-> c]
    <3>1. e \in Event
      <4>1. CASE kind = "failed"
        BY <1>0, <4>1 DEF Event
      <4>2. CASE kind # "failed"
        BY <1>0, <1>2, <4>2 DEF Event
      <4>. QED BY <4>1, <4>2
    <3>2. TrySend(e) \/ UNCHANGED channel
      BY <1>2 DEF ReportResult
    <3>. HIDE DEF e
    <3>. QED BY <1>0, <3>1, <3>2, TrySendTyped DEF TypeOK
  <2>. QED BY <1>0, <1>2, <2>1
           DEF ReportResult, TypeInv, TypeOK, Sending, worker, history
<1>3. ASSUME NEW t \in Tests, QueueTest(t) PROVE TypeInv'
  <2>1. channel' \in Seq(Event) /\ Len(channel') <= EventCapacity
    <3>. DEFINE e == [kind |-> "test", id |-> t,
                      generation |-> config.automatic_revision]
    <3>1. e \in Event
      BY <1>0 DEF Event
    <3>2. TrySend(e) \/ UNCHANGED channel
      BY <1>3 DEF QueueTest
    <3>. HIDE DEF e
    <3>. QED BY <1>0, <3>1, <3>2, TrySendTyped DEF TypeOK
  <2>. QED BY <1>0, <1>3, <2>1
           DEF QueueTest, TypeInv, TypeOK, Sending, worker, history
<1>4. ASSUME NEW m \in Manuals, SendManual(m) PROVE TypeInv'
  <2>1. channel' \in Seq(Event) /\ Len(channel') <= EventCapacity
    <3>. DEFINE e == [kind |-> "manual", id |-> m,
                      generation |-> config.config_revision]
    <3>1. e \in Event
      BY <1>0 DEF Event
    <3>2. TrySend(e) \/ UNCHANGED channel
      BY <1>4 DEF SendManual
    <3>. HIDE DEF e
    <3>. QED BY <1>0, <3>1, <3>2, TrySendTyped DEF TypeOK
  <2>2. /\ reply' \in [Manuals -> Replies] /\ asked' \in [Manuals -> Nat]
    BY <1>0, <1>4 DEF SendManual, TypeOK, Replies
  <2>. QED BY <1>0, <1>4, <2>1, <2>2
           DEF SendManual, TypeInv, TypeOK, Sending, worker, outside, history
<1>5. ASSUME NEW m \in Manuals, ManualTimeout(m) PROVE TypeInv'
  <2>1. reply' \in [Manuals -> Replies]
    BY <1>0, <1>5 DEF ManualTimeout, TypeOK, Replies
  <2>. QED BY <1>0, <1>5, <2>1
           DEF ManualTimeout, TypeInv, TypeOK, Sending, worker, outside, history
<1>6. ASSUME NEW next \in ConfigState, Install(next) PROVE TypeInv'
  <2>1. leaked' \in 0..2
    BY <1>0, <1>6 DEF Install, TypeOK
  <2>. QED BY <1>0, <1>6, <2>1
           DEF Install, TypeInv, TypeOK, Sending, worker, outside
<1>7. ASSUME NEW c \in Configs, UpdateConfig(c) PROVE TypeInv'
  <2>. DEFINE gate == IF c.mute_sync_enabled /\ ~config.config.mute_sync_enabled
                      THEN "mute_unknown"
                      ELSE IF c.mute_sync_enabled THEN config.send_gate
                                                  ELSE "open"
  <2>1. gate \in Gates
    BY <1>0 DEF Gates
  <2>2. Install([config |-> c,
                 config_revision |-> config.config_revision + 1,
                 automatic_revision |-> config.automatic_revision + 1,
                 send_gate |-> gate])
    BY <1>7 DEF UpdateConfig
  <2>. HIDE DEF gate
  <2>. QED BY <1>0, <1>6, <2>1, <2>2 DEF ConfigState
<1>8. ASSUME NEW g \in Gates, UpdateMuteStatus(g) PROVE TypeInv'
  <2>. DEFINE gate == IF config.config.mute_sync_enabled THEN g ELSE "open"
              next == [config EXCEPT !.send_gate = gate,
                                     !.automatic_revision = @ + 1]
  <2>1. gate \in Gates
    BY DEF Gates
  <2>2. Install(next)
    BY <1>8 DEF UpdateMuteStatus
  <2>. HIDE DEF gate
  <2>3. next \in ConfigState
    <3>1. config \in ConfigState
      BY <1>0 DEF TypeOK
    <3>2. ASSUME NEW c \in ConfigState, NEW x \in Gates, NEW n \in Nat
          PROVE  [c EXCEPT !.send_gate = x, !.automatic_revision = n]
                   \in ConfigState
      BY DEF ConfigState
    <3>3. config.automatic_revision + 1 \in Nat
      BY <1>0
    <3>. QED BY <3>1, <3>2, <3>3, <2>1
  <2>. HIDE DEF next
  <2>. QED BY <1>6, <2>2, <2>3
<1>. QED BY <1>1, <1>2, <1>3, <1>4, <1>5, <1>7, <1>8 DEF Caller
(***************************************************************************)
(* The worker's steps that take a configuration or an event.               *)
(***************************************************************************)
LEMMA TypeTakeConfig ==
  ASSUME TypeInv, TakeConfig PROVE TypeInv'
<1>1. /\ TypeOK /\ ~Sending /\ ~Sending'
      /\ reply \in [Manuals -> Replies] /\ DisplayCapacity \in Nat
  BY OscAssumption DEF TypeInv, TypeOK, TakeConfig, Sending
<1>2. reply' \in [Manuals -> Replies]
  BY <1>1, AnswerTyped DEF TakeConfig, Replies
<1>3. queue' \in Seq(Message) /\ Len(queue') <= DisplayCapacity
  <2>1. queue' \in {<< >>, ManualsOf(AllowedQueue), AllowedQueue}
    BY DEF TakeConfig
  <2>2. Fits(<< >>) /\ Fits(AllowedQueue) /\ Fits(ManualsOf(AllowedQueue))
    BY <1>1, FitsFacts
  <2>. QED BY <2>1, <2>2 DEF Fits
<1>4. /\ current_sent' \in SentMessage \cup {None}
      /\ last_send' \in 0..SendInterval /\ spacing' \in 0..SendInterval
  BY <1>1, AllowedFacts, OscAssumption DEF TakeConfig, TypeOK
<1>5. wconfig' \in ConfigState /\ unseen' \in BOOLEAN
  BY <1>1 DEF TakeConfig, Adopted, TypeOK
<1>. QED BY <1>1, <1>2, <1>3, <1>4, <1>5
         DEF TakeConfig, TypeInv, TypeOK, outside

\* Receiving an event keeps the type invariant.
LEMMA TypeReceive ==
  ASSUME TypeInv, Receive PROVE TypeInv'
<1>1. /\ TypeOK /\ ~Sending /\ ~Sending'
      /\ reply \in [Manuals -> Replies] /\ EventCapacity \in Nat
  BY OscAssumption DEF TypeInv, TypeOK, Receive, Sending
<1>2. /\ queue' \in Seq(Message) /\ Len(queue') <= DisplayCapacity
      /\ reply' \in [Manuals -> Replies]
  BY <1>1, ReceiveShape, AnswerTyped DEF ReceivedInPlace, ReceivedNew, Replies
<1>3. channel' \in Seq(Event) /\ Len(channel') <= EventCapacity
  BY <1>1 DEF Receive, TypeOK
<1>4. current_sent' \in SentMessage \cup {None}
  BY <1>1, AllowedFacts DEF Receive
<1>5. round_robin_index' \in Nat
  <2>1. round_robin_index' \in {round_robin_index, round_robin_index + 1}
    <3>1. CASE ReceiveSubtitle(Head(channel))
      BY <3>1 DEF ReceiveSubtitle
    <3>2. CASE ~ReceiveSubtitle(Head(channel))
      BY <3>2 DEF Receive, ReceiveStale, ReceivePlain, ReceiveFailed,
                  ReceiveSuperseded, ReceiveCompleted
    <3>. QED BY <3>1, <3>2
  <2>. QED BY <1>1, <2>1 DEF TypeOK
<1>. QED BY <1>1, <1>2, <1>3, <1>4, <1>5
         DEF Receive, TypeInv, TypeOK, outside, history

\* The tick keeps the type invariant: what it sends is a message.
LEMMA TypeTick ==
  ASSUME TypeInv, Tick PROVE TypeInv'
<1>1. /\ TypeOK /\ reply \in [Manuals -> Replies] /\ DisplayCapacity \in Nat
  BY OscAssumption DEF TypeInv, TypeOK
<1>2. TickQueue \in Seq(Message) /\ Len(TickQueue) <= DisplayCapacity
  <2>1. TickQueue \in {<< >>, ManualsOf(AllowedQueue), AllowedQueue}
    BY DEF TickQueue
  <2>2. Fits(<< >>) /\ Fits(AllowedQueue) /\ Fits(ManualsOf(AllowedQueue))
    BY <1>1, FitsFacts
  <2>. QED BY <2>1, <2>2 DEF Fits
<1>3. reply' \in [Manuals -> Replies]
  BY <1>1, AnswerTyped DEF Tick, Replies
<1>4. current_sent' \in SentMessage \cup {None}
  BY <1>1, AllowedFacts DEF Tick
<1>5. CASE TickQueue # << >> /\ Head(TickQueue).wait = 0 /\ RateReady
  <2>1. /\ queue' = Tail(TickQueue) /\ inflight' = Head(TickQueue)
        /\ phase' = "sending"
    BY <1>5 DEF Tick
  <2>2. /\ queue' \in Seq(Message) /\ Len(queue') <= DisplayCapacity
        /\ inflight' \in Message
    BY <1>1, <1>2, <1>5, <2>1
  <2>. QED BY <1>1, <1>3, <1>4, <2>1, <2>2
           DEF Tick, TypeInv, TypeOK, outside, history
<1>6. CASE ~(TickQueue # << >> /\ Head(TickQueue).wait = 0 /\ RateReady)
  <2>1. /\ queue' = TickQueue /\ phase' = "select" /\ inflight' = inflight
        /\ ~Sending'
    BY <1>6 DEF Tick, Sending
  <2>. QED BY <1>1, <1>2, <1>3, <1>4, <2>1
           DEF Tick, TypeInv, TypeOK, outside, history
<1>. QED BY <1>5, <1>6

(***************************************************************************)
(* The steps of execute_send.                                              *)
(***************************************************************************)
LEMMA TypeSend ==
  ASSUME TypeInv,
         \/ PollEvents \/ ArmAutomatic \/ CancelByConfig \/ WouldBlock
         \/ FilterInflight \/ Deliver \/ FailSend
  PROVE  TypeInv'
<1>1. /\ TypeOK /\ reply \in [Manuals -> Replies] /\ DisplayCapacity \in Nat
      /\ queue \in Seq(Message) /\ Len(queue) <= DisplayCapacity
      /\ SendInterval \in Nat /\ LateTtl \in Nat
  BY OscAssumption DEF TypeInv, TypeOK
<1>2. CASE PollEvents \/ ArmAutomatic \/ WouldBlock
  BY <1>1, <1>2 DEF PollEvents, ArmAutomatic, WouldBlock, TypeInv, TypeOK,
       Sending, handle, outside, history
<1>3. CASE FilterInflight
  BY <1>1, <1>3 DEF FilterInflight, TypeInv, TypeOK,
       Sending, handle, outside, history
<1>4. CASE CancelByConfig
  <2>1. reply' \in [Manuals -> Replies]
    BY <1>1, <1>4, AnswerTyped DEF CancelByConfig, Replies
  <2>2. /\ queue' \in Seq(Message) /\ Len(queue') <= DisplayCapacity
        /\ last_send' \in 0..SendInterval /\ spacing' \in 0..SendInterval
        /\ wconfig' \in ConfigState /\ ~Sending'
    BY <1>1, <1>4 DEF CancelByConfig, TypeOK, Adopted, Sending
  <2>. QED BY <1>1, <1>4, <2>1, <2>2
           DEF CancelByConfig, TypeInv, TypeOK, outside
<1>5. CASE Deliver
  <2>1. inflight \in Message /\ ~Sending'
    BY <1>5 DEF Deliver, MayWrite, TypeInv, Sending
  <2>2. reply' \in [Manuals -> Replies]
    BY <1>1, <1>5, AnswerTyped DEF Deliver, Replies
  <2>3. queue' \in Seq(Message) /\ Len(queue') <= DisplayCapacity
    BY <1>1, <1>5, AfterSendFacts DEF Deliver
  <2>4. current_sent' \in SentMessage \cup {None}
    BY <1>1, <1>5, <2>1 DEF Deliver, SentMessage
  <2>5. /\ display' \in Ids \cup {None} /\ newest' \in Subtitles \cup {0}
    <3>1. /\ display' = inflight.id
          /\ newest' = IF inflight.kind = "subtitle" /\ inflight.id > newest
                       THEN inflight.id ELSE newest
      BY <1>5 DEF Deliver
    <3>2. /\ inflight.id \in Ids
          /\ inflight.kind = "subtitle" => inflight.id \in Subtitles
      BY <2>1, MessageFields
    <3>. QED BY <1>1, <3>1, <3>2 DEF TypeOK
  <2>6. /\ last_send' \in 0..SendInterval /\ spacing' \in 0..SendInterval
        /\ leaked' \in 0..2
    BY <1>1, <1>5 DEF Deliver, TypeOK
  <2>. QED BY <1>1, <1>5, <2>1, <2>2, <2>3, <2>4, <2>5, <2>6
           DEF Deliver, TypeInv, TypeOK, outside
<1>6. CASE FailSend
  <2>1. reply' \in [Manuals -> Replies] /\ ~Sending'
    BY <1>1, <1>6, AnswerTyped DEF FailSend, Replies, Sending
  <2>. QED BY <1>1, <1>6, <2>1
           DEF FailSend, TypeInv, TypeOK, outside, history
<1>. QED BY <1>2, <1>3, <1>4, <1>5, <1>6
\* Every step keeps the type invariant.
LEMMA TypeNext ==
  ASSUME TypeInv, [Next]_vars PROVE TypeInv'
<1>1. CASE Caller
  BY <1>1, TypeCaller
<1>2. CASE Worker
  BY <1>2, TypeTakeConfig, TypeReceive, TypeTick, TypeSend DEF Worker
<1>3. ASSUME NEW s \in Filterable, FilterSpeaker(s) PROVE TypeInv'
  <2>1. blocked' \subseteq Subtitles
    BY <1>3, OscAssumption DEF FilterSpeaker, TypeInv, TypeOK, Subtitles
  <2>. QED BY <1>3, <2>1
       DEF FilterSpeaker, TypeInv, TypeOK, Sending, handle, worker, history
<1>4. CASE Advance
  <2>1. /\ queue' \in Seq(Message) /\ Len(queue') = Len(queue)
        /\ current_sent' \in SentMessage \cup {None}
    BY <1>4, AdvanceFacts DEF TypeInv
  <2>2. last_send' \in 0..SendInterval /\ spacing' \in 0..SendInterval
    <3>1. SendInterval \in Nat /\ last_send \in 0..SendInterval
          /\ spacing \in 0..SendInterval
      BY OscAssumption DEF TypeInv, TypeOK
    <3>2. \A n \in 0..SendInterval : More(n, SendInterval) \in 0..SendInterval
      BY <3>1 DEF More
    <3>. QED BY <1>4, <3>1, <3>2 DEF Advance
  <2>. QED BY <1>4, <2>1, <2>2
       DEF Advance, TypeInv, TypeOK, Sending, handle, outside
<1>5. CASE UNCHANGED vars
  BY <1>5 DEF vars, handle, worker, outside, history, TypeInv, TypeOK, Sending
<1>. QED BY <1>1, <1>2, <1>3, <1>4, <1>5 DEF Next

\* The type invariant holds in every reachable state.
LEMMA TypeAlways == Spec => []TypeInv
BY TypeInit, TypeNext, PTL DEF Spec

(***************************************************************************)
(* Every variable of the dispatcher keeps its type, and neither the event  *)
(* channel nor the display queue outgrows its capacity.                    *)
(***************************************************************************)
THEOREM TypeCorrect == Spec => []TypeOK
BY TypeAlways, PTL DEF TypeInv

-----------------------------------------------------------------------------
(* Manual messages stand first                                             *)

(***************************************************************************)
(* What a tick leaves in the queue is derived from the queue.              *)
(***************************************************************************)
LEMMA TickDerived ==
  ASSUME TypeOK, Tick
  PROVE  Derived(queue', queue)
<1>1. queue \in Seq(Message) /\ << >> \in Seq(Message)
  BY DEF TypeOK
<1>2. AllowedQueue \in Seq(Message) /\ Derived(AllowedQueue, queue)
  BY AllowedFacts
<1>3. /\ ManualsOf(AllowedQueue) \in Seq(Message)
      /\ Derived(ManualsOf(AllowedQueue), AllowedQueue)
  BY <1>2, ManualsOfFacts
<1>4. Derived(ManualsOf(AllowedQueue), queue)
  BY <1>1, <1>2, <1>3, DerivedTrans
<1>5. Derived(<< >>, queue)
  BY DerivedEmpty
<1>6. TickQueue \in {<< >>, ManualsOf(AllowedQueue), AllowedQueue}
  BY DEF TickQueue
<1>7. TickQueue \in Seq(Message) /\ Derived(TickQueue, queue)
  BY <1>1, <1>2, <1>3, <1>4, <1>5, <1>6
<1>8. CASE TickQueue # << >> /\ Head(TickQueue).wait = 0 /\ RateReady
  <2>1. queue' = Tail(TickQueue)
    BY <1>8 DEF Tick
  <2>2. queue' \in Seq(Message) /\ Derived(queue', TickQueue)
    BY <1>7, <1>8, <2>1, DerivedTail
  <2>. QED BY <1>1, <1>7, <2>2, DerivedTrans
<1>9. CASE ~(TickQueue # << >> /\ Head(TickQueue).wait = 0 /\ RateReady)
  <2>1. queue' = TickQueue
    BY <1>9 DEF Tick
  <2>. QED BY <1>7, <2>1
<1>. QED BY <1>8, <1>9

(***************************************************************************)
(* In every step the queue loses or changes messages in place, or one      *)
(* message joins it.                                                       *)
(***************************************************************************)
LEMMA QueueStep ==
  ASSUME TypeInv, [Next]_vars
  PROVE  \/ Derived(queue', queue)
         \/ Receive /\ \E m, priority : ReceivedNew(m, priority)
<1>0. TypeOK /\ queue \in Seq(Message) /\ Derived(queue, queue)
  BY DerivedRefl DEF TypeInv, TypeOK
<1>1. CASE queue' = queue
  BY <1>0, <1>1
<1>2. CASE TakeConfig
  <2>1. queue' \in {<< >>, ManualsOf(AllowedQueue), AllowedQueue}
    BY <1>2 DEF TakeConfig
  <2>2. AllowedQueue \in Seq(Message) /\ Derived(AllowedQueue, queue)
    BY <1>0, AllowedFacts
  <2>3. /\ ManualsOf(AllowedQueue) \in Seq(Message)
        /\ Derived(ManualsOf(AllowedQueue), AllowedQueue)
    BY <2>2, ManualsOfFacts
  <2>4. Derived(ManualsOf(AllowedQueue), queue)
    BY <1>0, <2>2, <2>3, DerivedTrans
  <2>. QED BY <2>1, <2>2, <2>4, DerivedEmpty
<1>3. CASE Receive
  BY <1>0, <1>3, ReceiveShape DEF ReceivedInPlace
<1>4. CASE Tick
  BY <1>0, <1>4, TickDerived
<1>5. CASE CancelByConfig
  BY <1>5, DerivedEmpty DEF CancelByConfig
<1>6. CASE Deliver
  BY <1>0, <1>6, AfterSendFacts DEF Deliver
<1>7. CASE Advance
  BY <1>0, <1>7, AdvanceFacts
<1>8. Caller => queue' = queue
  BY ZenonT(60) DEF Caller, PublishSubtitle, ReportResult, QueueTest, SendManual,
         ManualTimeout, UpdateConfig, UpdateMuteStatus, Install, worker
<1>9. PollEvents \/ ArmAutomatic \/ WouldBlock \/ FilterInflight \/ FailSend
        => queue' = queue
  BY DEF PollEvents, ArmAutomatic, WouldBlock, FilterInflight, FailSend
<1>10. (\E s \in Filterable : FilterSpeaker(s)) \/ UNCHANGED vars
         => queue' = queue
  BY DEF FilterSpeaker, vars, worker
<1>. QED BY <1>1, <1>2, <1>3, <1>4, <1>5, <1>6, <1>7, <1>8, <1>9, <1>10
         DEF Next, Worker

ManualsInv == ManualsLead(queue)

\* Every step keeps the manual messages in front.
LEMMA ManualsStep ==
  ASSUME TypeInv, ManualsInv, [Next]_vars
  PROVE  ManualsInv'
<1>. SUFFICES ManualsLead(queue')
  BY DEF ManualsInv
<1>0. ManualsLead(queue)
  BY DEF ManualsInv
<1>1. CASE Derived(queue', queue)
  BY <1>0, <1>1, DerivedManualsLead
<1>2. ASSUME NEW m, NEW priority, ReceivedNew(m, priority)
      PROVE  ManualsLead(queue')
  <2>1. /\ AllowedQueue \in Seq(Message)
        /\ Len(AllowedQueue) <= DisplayCapacity
        /\ Derived(AllowedQueue, queue)
    BY AllowedFacts DEF TypeInv
  <2>2. ManualsLead(AllowedQueue)
    BY <1>0, <2>1, DerivedManualsLead
  <2>3. /\ m \in Message /\ priority \in BOOLEAN /\ (IsManual(m) => priority)
        /\ Derived(queue', Enqueue(AllowedQueue, m, priority).queue)
    BY <1>2 DEF ReceivedNew
  <2>4. ManualsLead(Enqueue(AllowedQueue, m, priority).queue)
    BY <2>1, <2>2, <2>3, EnqueueManualsLead
  <2>. QED BY <2>3, <2>4, DerivedManualsLead
<1>. QED BY <1>1, <1>2, QueueStep

\* Manual messages lead the queue in every reachable state.
LEMMA ManualsAlways == Spec => []ManualsInv
<1>1. Init => ManualsInv
  BY DEF Init, ManualsInv, ManualsLead
<1>. QED BY <1>1, ManualsStep, TypeAlways, PTL DEF Spec

(***************************************************************************)
(* Manual messages always stand before the automatic ones in the display   *)
(* queue, whatever joins, leaves or refreshes it.                          *)
(***************************************************************************)
THEOREM ManualsStandFirst == Spec => []ManualsFirst
<1>1. TypeInv /\ ManualsInv => ManualsFirst
  <2>1. TypeInv => DOMAIN queue = 1..Len(queue)
    BY DEF TypeInv, TypeOK
  <2>. QED BY <2>1 DEF ManualsInv, ManualsLead, ManualsFirst
<1>. QED BY <1>1, TypeAlways, ManualsAlways, PTL
-----------------------------------------------------------------------------
(* The rate limit                                                          *)

(***************************************************************************)
(* spacing counts from the last packet; last_send agrees with it, and a    *)
(* message is taken off the queue only when the interval is over.          *)
(***************************************************************************)
RateInv ==
  /\ last_send = spacing
  /\ Sending => spacing = SendInterval

\* Every step keeps last_send behind the packet spacing.
LEMMA RateStep ==
  ASSUME TypeInv, RateInv, [Next]_vars
  PROVE  RateInv'
<1>0. /\ SendInterval \in Nat \ {0}
      /\ last_send \in 0..SendInterval /\ spacing \in 0..SendInterval
  BY OscAssumption DEF TypeInv, TypeOK
<1>1. CASE TakeConfig
  BY <1>1 DEF TakeConfig, RateInv, Sending
<1>2. CASE Receive
  BY <1>2 DEF Receive, RateInv, Sending, history
<1>3. CASE Tick
  BY <1>0, <1>3 DEF Tick, RateReady, RateInv, Sending, history
<1>4. CASE PollEvents \/ ArmAutomatic \/ WouldBlock
  BY <1>4 DEF PollEvents, ArmAutomatic, WouldBlock, RateInv, Sending, history
<1>5. CASE FilterInflight \/ FailSend
  BY <1>5 DEF FilterInflight, FailSend, RateInv, Sending, history
<1>6. CASE CancelByConfig
  BY <1>6 DEF CancelByConfig, RateInv, Sending
<1>7. CASE Deliver
  BY <1>7 DEF Deliver, RateInv, Sending
<1>8. CASE Advance
  <2>1. last_send' = More(last_send, SendInterval)
        /\ spacing' = More(spacing, SendInterval) /\ phase' = phase
    BY <1>8 DEF Advance
  <2>2. spacing = SendInterval => More(spacing, SendInterval) = SendInterval
    BY <1>0 DEF More
  <2>. QED BY <2>1, <2>2 DEF RateInv, Sending
<1>9. CASE Caller
  BY <1>9, ZenonT(60)
     DEF Caller, PublishSubtitle, ReportResult, QueueTest, SendManual,
         ManualTimeout, UpdateConfig, UpdateMuteStatus, Install, worker,
         history, RateInv, Sending
<1>10. CASE (\E s \in Filterable : FilterSpeaker(s)) \/ UNCHANGED vars
  BY <1>10 DEF FilterSpeaker, vars, worker, history, RateInv, Sending
<1>. QED BY <1>1, <1>2, <1>3, <1>4, <1>5, <1>6, <1>7, <1>8, <1>9, <1>10
         DEF Next, Worker

(***************************************************************************)
(* Two packets are at least SEND_INTERVAL apart, unless the worker took a  *)
(* new configuration in between.                                           *)
(***************************************************************************)
THEOREM RateLimited == Spec => RateLimit
<1>1. Init => RateInv
  BY DEF Init, RateInv, Sending
<1>2. RateInv /\ [Next]_vars => [Deliver => spacing = SendInterval]_vars
  BY DEF RateInv, Deliver, MayWrite, Sending
<1>. QED BY <1>1, <1>2, RateStep, TypeAlways, PTL DEF Spec, RateLimit

-----------------------------------------------------------------------------
(* The gate of the automatic messages                                      *)

(***************************************************************************)
(* Between two changes of the configuration the worker's copy is the       *)
(* current one; it takes automatic messages off the queue only when its    *)
(* copy opens the gate, and writes one only after it has seen that the     *)
(* copy is current.  So a packet written behind a closed gate was armed    *)
(* before the gate closed, and there is only one such packet.              *)
(***************************************************************************)
GateInv ==
  /\ ~unseen => wconfig = config
  /\ phase = "armed" => ~IsManual(inflight)
  /\ Sending /\ ~IsManual(inflight) => AutomaticOpen(wconfig)
  /\ leaked # 0 =>
       leaked = 1 /\ ~AutomaticOpen(config) /\ phase # "armed"

\* An automatic message leaves the queue only through an open gate.
LEMMA TickManualOnly ==
  ASSUME TypeOK, Tick, Sending', ~IsManual(inflight')
  PROVE  AutomaticOpen(wconfig)
<1>1. TickQueue # << >> /\ inflight' = Head(TickQueue)
  BY DEF Tick, Sending
<1>2. wconfig.config.enabled
  BY <1>1 DEF TickQueue
<1>3. CASE wconfig.send_gate # "open"
  <2>1. TickQueue = ManualsOf(AllowedQueue)
    BY <1>2, <1>3 DEF TickQueue
  <2>2. /\ TickQueue \in Seq(Message)
        /\ \A k \in 1..Len(TickQueue) : IsManual(TickQueue[k])
    BY <2>1, AllowedFacts, ManualsOfFacts
  <2>3. Head(TickQueue) = TickQueue[1] /\ 1 \in 1..Len(TickQueue)
    BY <1>1, <2>2
  <2>4. IsManual(inflight')
    BY <1>1, <2>2, <2>3
  <2>. QED BY <2>4
<1>. QED BY <1>2, <1>3 DEF AutomaticOpen

\* Every step keeps the accounting of leaked packets.
LEMMA GateStep ==
  ASSUME TypeInv, GateInv, [Next]_vars
  PROVE  GateInv'
<1>1. CASE TakeConfig
  BY <1>1 DEF TakeConfig, Adopted, GateInv, Sending
<1>2. CASE Receive
  BY <1>2 DEF Receive, GateInv, Sending, history
<1>3. CASE Tick
  <2>1. Sending' /\ ~IsManual(inflight') => AutomaticOpen(wconfig)
    BY <1>3, TickManualOnly DEF TypeInv
  <2>2. AutomaticOpen(wconfig') = AutomaticOpen(wconfig) /\ phase' # "armed"
        /\ UNCHANGED <<unseen, wconfig, config, leaked>>
    BY <1>3 DEF Tick, history
  <2>. QED BY <2>1, <2>2 DEF GateInv
<1>4. CASE PollEvents \/ WouldBlock
  BY <1>4 DEF PollEvents, WouldBlock, GateInv, Sending, handle, history
<1>5. CASE ArmAutomatic
  BY <1>5 DEF ArmAutomatic, GateInv, Sending, handle, history
<1>6. CASE FilterInflight \/ FailSend
  BY <1>6 DEF FilterInflight, FailSend, GateInv, Sending, handle, history
<1>7. CASE CancelByConfig
  BY <1>7 DEF CancelByConfig, Adopted, GateInv, Sending
<1>8. CASE Deliver
  <2>1. ~IsManual(inflight) => phase = "armed"
    BY <1>8 DEF Deliver, MayWrite
  <2>2. /\ phase' = "select" /\ UNCHANGED <<unseen, wconfig, config>>
        /\ leaked' = IF ~IsManual(inflight) /\ ~AutomaticOpen(config)
                        /\ leaked < 2 THEN leaked + 1 ELSE leaked
    BY <1>8 DEF Deliver
  <2>3. leaked \in 0..2
    BY DEF TypeInv, TypeOK
  <2>. QED BY <2>1, <2>2, <2>3 DEF GateInv, Sending
<1>9. ASSUME NEW next, Install(next) PROVE GateInv'
  BY <1>9 DEF Install, GateInv, Sending, worker, outside
<1>10. CASE Caller
  <2>1. CASE UNCHANGED <<config, unseen, worker, history>>
    BY <2>1 DEF worker, history, GateInv, Sending
  <2>. QED BY <1>9, <1>10, <2>1
           DEF Caller, PublishSubtitle, ReportResult, QueueTest, SendManual,
               ManualTimeout, UpdateConfig, UpdateMuteStatus, outside
<1>11. CASE Advance
  BY <1>11 DEF Advance, GateInv, Sending, handle, outside
<1>12. CASE (\E s \in Filterable : FilterSpeaker(s)) \/ UNCHANGED vars
  BY <1>12 DEF FilterSpeaker, vars, handle, worker, history, GateInv, Sending
<1>. QED BY <1>1, <1>2, <1>3, <1>4, <1>5, <1>6, <1>7, <1>8, <1>10, <1>11, <1>12
         DEF Next, Worker

(***************************************************************************)
(* After the gate has closed at most one automatic packet still leaves,    *)
(* however the configuration changes while the worker waits for a socket.  *)
(***************************************************************************)
THEOREM MuteLeaksAtMostOneMessage == Spec => []MuteLeaksAtMostOne
<1>1. Init => GateInv
  BY DEF Init, GateInv, Sending
<1>2. TypeInv /\ GateInv => MuteLeaksAtMostOne
  BY DEF TypeInv, TypeOK, GateInv, MuteLeaksAtMostOne
<1>. QED BY <1>1, <1>2, GateStep, TypeAlways, PTL DEF Spec
-----------------------------------------------------------------------------
(* What the worker holds is current                                        *)

(***************************************************************************)
(* m was published under the revision the worker's configuration c has.    *)
(***************************************************************************)
UpToDate(m, c) ==
  m.generation = IF IsManual(m) THEN c.config_revision
                                ELSE c.automatic_revision

(***************************************************************************)
(* The queue, the message being sent, and the one on display, which a late *)
(* translation may put back into the queue.                                *)
(***************************************************************************)
CurrentInv ==
  /\ \A k \in 1..Len(queue) : UpToDate(queue[k], wconfig)
  /\ Sending => UpToDate(inflight, wconfig)
  /\ current_sent # None =>
       /\ current_sent.message.kind = "subtitle"
       /\ UpToDate(current_sent.message, wconfig)

\* Deriving a queue brings in no outdated message.
LEMMA DerivedUpToDate ==
  ASSUME NEW q, NEW r, NEW c, Derived(r, q),
         \A k \in 1..Len(q) : UpToDate(q[k], c)
  PROVE  \A k \in 1..Len(r) : UpToDate(r[k], c)
BY DerivedMember DEF SameMessage, UpToDate, IsManual

\* What the tick starts to send is up to date.
LEMMA TickHeldCurrent ==
  ASSUME TypeOK, Tick, \A k \in 1..Len(queue) : UpToDate(queue[k], wconfig),
         Sending'
  PROVE  UpToDate(inflight', wconfig)
<1>1. TickQueue # << >> /\ inflight' = Head(TickQueue)
  BY DEF Tick, Sending
<1>2. TickQueue \in {<< >>, ManualsOf(AllowedQueue), AllowedQueue}
  BY DEF TickQueue
<1>3. /\ AllowedQueue \in Seq(Message)
      /\ \A k \in 1..Len(AllowedQueue) : UpToDate(AllowedQueue[k], wconfig)
  BY AllowedFacts, DerivedUpToDate
<1>4. /\ ManualsOf(AllowedQueue) \in Seq(Message)
      /\ \A k \in 1..Len(ManualsOf(AllowedQueue)) :
           UpToDate(ManualsOf(AllowedQueue)[k], wconfig)
  BY <1>3, ManualsOfFacts, DerivedUpToDate
<1>5. /\ TickQueue \in Seq(Message)
      /\ \A k \in 1..Len(TickQueue) : UpToDate(TickQueue[k], wconfig)
  BY <1>1, <1>2, <1>3, <1>4
<1>6. Head(TickQueue) = TickQueue[1] /\ 1 \in 1..Len(TickQueue)
  BY <1>1, <1>5
<1>. QED BY <1>1, <1>5, <1>6

\* What an event adds to the queue is up to date.
LEMMA ArrivingCurrent ==
  ASSUME TypeInv, CurrentInv, NEW m, NEW priority, Arriving(m, priority)
  PROVE  UpToDate(m, wconfig)
<1>1. AllowedSent # None => AllowedSent = current_sent
  BY DEF AllowedSent
<1>. QED BY <1>1
         DEF Arriving, CurrentInv, Current, UpToDate, SameMessage, IsManual

\* Every step keeps the worker's messages up to date.
LEMMA CurrentStep ==
  ASSUME TypeInv, CurrentInv, [Next]_vars
  PROVE  CurrentInv'
<1>0. /\ TypeOK
      /\ \A k \in 1..Len(queue) : UpToDate(queue[k], wconfig)
      /\ AllowedSent # None => AllowedSent = current_sent
  BY DEF TypeInv, CurrentInv, AllowedSent
<1>1. CASE TakeConfig
  <2>1. ~Sending'
    BY <1>1 DEF TakeConfig, Sending
  <2>2. /\ AllowedQueue \in Seq(Message)
        /\ \A k \in 1..Len(AllowedQueue) : UpToDate(AllowedQueue[k], wconfig)
    BY <1>0, AllowedFacts, DerivedUpToDate
  <2>3. CASE config.config_revision # wconfig.config_revision
    BY <1>1, <2>1, <2>3 DEF TakeConfig, CurrentInv
  <2>4. CASE /\ config.config_revision = wconfig.config_revision
             /\ config.automatic_revision # wconfig.automatic_revision
    <3>1. /\ queue' = ManualsOf(AllowedQueue) /\ current_sent' = None
          /\ wconfig' = config
      BY <1>1, <2>4 DEF TakeConfig, Adopted
    <3>2. \A k \in 1..Len(queue') :
            IsManual(queue'[k]) /\ UpToDate(queue'[k], wconfig)
      BY <2>2, <3>1, ManualsOfFacts, DerivedUpToDate
    <3>3. \A k \in 1..Len(queue') : UpToDate(queue'[k], wconfig')
      BY <2>4, <3>1, <3>2 DEF UpToDate
    <3>. QED BY <2>1, <3>1, <3>3 DEF CurrentInv
  <2>5. CASE /\ config.config_revision = wconfig.config_revision
             /\ config.automatic_revision = wconfig.automatic_revision
    <3>1. /\ queue' = AllowedQueue /\ current_sent' = AllowedSent
          /\ wconfig' = config
      BY <1>1, <2>5 DEF TakeConfig, Adopted
    <3>2. \A m : UpToDate(m, wconfig) => UpToDate(m, wconfig')
      BY <2>5, <3>1 DEF UpToDate
    <3>. QED BY <1>0, <2>1, <2>2, <3>1, <3>2 DEF CurrentInv
  <2>. QED BY <2>3, <2>4, <2>5
<1>2. CASE Receive
  <2>1. /\ ~Sending' /\ wconfig' = wconfig /\ current_sent' = AllowedSent
    BY <1>2 DEF Receive, Sending
  <2>2. \A k \in 1..Len(queue') : UpToDate(queue'[k], wconfig)
    <3>1. CASE ReceivedInPlace
      BY <1>0, <3>1, DerivedUpToDate DEF ReceivedInPlace
    <3>2. ASSUME NEW m, NEW priority, ReceivedNew(m, priority)
          PROVE  \A k \in 1..Len(queue') : UpToDate(queue'[k], wconfig)
      <4>1. UpToDate(m, wconfig) /\ m \in Message /\ priority \in BOOLEAN
        BY <3>2, ArrivingCurrent DEF ReceivedNew
      <4>2. /\ AllowedQueue \in Seq(Message)
            /\ Len(AllowedQueue) <= DisplayCapacity
            /\ \A k \in 1..Len(AllowedQueue) : UpToDate(AllowedQueue[k], wconfig)
        BY <1>0, AllowedFacts, DerivedUpToDate
      <4>. DEFINE r == Enqueue(AllowedQueue, m, priority).queue
      <4>3. \A k \in 1..Len(r) :
              \/ SameMessage(r[k], m)
              \/ \E i \in 1..Len(AllowedQueue) :
                   SameMessage(r[k], AllowedQueue[i])
        BY <4>1, <4>2, EnqueueTyped
      <4>4. Derived(queue', r)
        BY <3>2 DEF ReceivedNew
      <4>. HIDE DEF r
      <4>5. \A k \in 1..Len(r) : UpToDate(r[k], wconfig)
        BY <4>1, <4>2, <4>3 DEF SameMessage, UpToDate, IsManual
      <4>. QED BY <4>4, <4>5, DerivedUpToDate
    <3>. QED BY <1>0, <1>2, <3>1, <3>2, ReceiveShape
  <2>. QED BY <1>0, <2>1, <2>2 DEF CurrentInv
<1>3. CASE Tick
  <2>1. wconfig' = wconfig /\ current_sent' = AllowedSent
    BY <1>3 DEF Tick
  <2>2. \A k \in 1..Len(queue') : UpToDate(queue'[k], wconfig)
    BY <1>0, <1>3, TickDerived, DerivedUpToDate
  <2>3. Sending' => UpToDate(inflight', wconfig)
    BY <1>0, <1>3, TickHeldCurrent
  <2>. QED BY <1>0, <2>1, <2>2, <2>3 DEF CurrentInv
<1>4. CASE PollEvents \/ ArmAutomatic \/ WouldBlock
  BY <1>4 DEF PollEvents, ArmAutomatic, WouldBlock, CurrentInv, Sending
<1>5. CASE FilterInflight \/ FailSend
  BY <1>5 DEF FilterInflight, FailSend, CurrentInv, Sending
<1>6. CASE CancelByConfig
  BY <1>6 DEF CancelByConfig, CurrentInv, Sending
<1>7. CASE Deliver
  <2>1. /\ ~Sending' /\ wconfig' = wconfig /\ queue' = AfterSend
        /\ current_sent' = IF inflight.kind = "subtitle"
                     THEN [message |-> inflight, age |-> 0] ELSE None
        /\ UpToDate(inflight, wconfig)
    BY <1>7 DEF Deliver, MayWrite, CurrentInv, Sending
  <2>2. \A k \in 1..Len(queue') : UpToDate(queue'[k], wconfig)
    BY <1>0, <2>1, AfterSendFacts, DerivedUpToDate DEF TypeOK
  <2>. QED BY <2>1, <2>2 DEF CurrentInv
<1>8. CASE Advance
  <2>1. /\ UNCHANGED <<phase, wconfig, inflight>>
        /\ current_sent = None => current_sent' = None
        /\ current_sent # None => current_sent'.message = current_sent.message
    BY <1>0, <1>8, AdvanceFacts DEF Advance
  <2>2. \A k \in 1..Len(queue') : UpToDate(queue'[k], wconfig)
    BY <1>0, <1>8, AdvanceFacts, DerivedUpToDate
  <2>. QED BY <2>1, <2>2 DEF CurrentInv, Sending
<1>9. CASE Caller
  <2>1. UNCHANGED worker
    BY <1>9 DEF Caller, PublishSubtitle, ReportResult, QueueTest, SendManual,
         ManualTimeout, UpdateConfig, UpdateMuteStatus, Install
  <2>. QED BY <2>1 DEF worker, CurrentInv, Sending
<1>10. CASE (\E s \in Filterable : FilterSpeaker(s)) \/ UNCHANGED vars
  BY <1>10 DEF FilterSpeaker, vars, worker, CurrentInv, Sending
<1>. QED BY <1>1, <1>2, <1>3, <1>4, <1>5, <1>6, <1>7, <1>8, <1>9, <1>10
         DEF Next, Worker

\* The worker's messages are up to date in every reachable state.
LEMMA CurrentAlways == Spec => []CurrentInv
<1>1. Init => CurrentInv
  BY DEF Init, CurrentInv, Sending
<1>. QED BY <1>1, CurrentStep, TypeAlways, PTL DEF Spec

(***************************************************************************)
(* No message outlives the configuration it was published under: an        *)
(* automatic one no change of configuration or gate, a manual one no       *)
(* change of configuration.                                                *)
(***************************************************************************)
THEOREM HeldMessagesAreCurrent == Spec => []HeldIsCurrent
<1>1. TypeInv /\ CurrentInv => HeldIsCurrent
  <2>1. TypeInv => DOMAIN queue = 1..Len(queue)
    BY DEF TypeInv, TypeOK
  <2>. QED BY <2>1 DEF CurrentInv, HeldIsCurrent, UpToDate, ToSet
<1>. QED BY <1>1, TypeAlways, CurrentAlways, PTL
-----------------------------------------------------------------------------
(* Manual sends: why they are cancelled                                    *)

(***************************************************************************)
(* m's caller has been let in, under the configuration revision g.         *)
(***************************************************************************)
Admitted(m, g) == reply[m] \notin {"idle", "disabled"} /\ asked[m] = g

(***************************************************************************)
(* A manual message keeps the revision its caller read, and the output is  *)
(* enabled in the configuration of that revision.                          *)
(***************************************************************************)
AdmittedInv ==
  /\ wconfig.config_revision <= config.config_revision
  /\ wconfig.config_revision = config.config_revision =>
       wconfig.config = config.config
  /\ \A m \in Manuals : \A g \in Nat : Admitted(m, g) =>
       /\ g <= config.config_revision
       /\ g = config.config_revision => config.config.enabled
       /\ g = wconfig.config_revision => wconfig.config.enabled
  /\ \A i \in 1..Len(channel) : channel[i].kind = "manual" =>
       Admitted(channel[i].id, channel[i].generation)
  /\ \A k \in 1..Len(queue) : IsManual(queue[k]) =>
       Admitted(queue[k].id, queue[k].generation)

(***************************************************************************)
(* No manual message waits behind an automatic one that is being sent.     *)
(***************************************************************************)
BehindInv ==
  Sending /\ ~IsManual(inflight) =>
    \A k \in 1..Len(queue) : ~IsManual(queue[k])

(***************************************************************************)
(* Once admitted, a caller stays admitted under the same revision.         *)
(***************************************************************************)
LEMMA AdmittedStays ==
  ASSUME TypeInv, [Next]_vars, NEW m \in Manuals, NEW g, Admitted(m, g)
  PROVE  Admitted(m, g)'
<1>0. reply \in [Manuals -> Replies] /\ asked \in [Manuals -> Nat]
  BY DEF TypeInv, TypeOK
<1>1. CASE UNCHANGED <<reply, asked>>
  BY <1>1 DEF Admitted
<1>2. ASSUME NEW n \in Manuals, SendManual(n) PROVE Admitted(m, g)'
  <2>1. n # m
    BY <1>2 DEF SendManual, Admitted
  <2>. QED BY <1>0, <1>2, <2>1 DEF SendManual, Admitted
<1>3. ASSUME NEW n \in Manuals, ManualTimeout(n) PROVE Admitted(m, g)'
  BY <1>0, <1>3 DEF ManualTimeout, Admitted
<1>4. ASSUME NEW ids, NEW answer \in Replies \ {"idle", "disabled"},
             reply' = Answer(ids, answer), asked' = asked
      PROVE  Admitted(m, g)'
  BY <1>4 DEF Answer, Admitted
<1>5. CASE TakeConfig
  BY <1>1, <1>4, <1>5 DEF TakeConfig, Replies
<1>6. CASE Receive
  <2>1. asked' = asked
    BY <1>6 DEF Receive
  <2>2. reply' = reply \/ \E ids, answer :
          answer \in {"cancelled", "queue_full"} /\ reply' = Answer(ids, answer)
    BY <1>6, ReceiveShape DEF TypeInv, ReceivedInPlace, ReceivedNew
  <2>. QED BY <1>1, <1>4, <2>1, <2>2 DEF Replies
<1>7. CASE Tick \/ CancelByConfig \/ Deliver \/ FailSend
  BY <1>1, <1>4, <1>7 DEF Tick, CancelByConfig, Deliver, FailSend, Replies
<1>8. CASE PollEvents \/ ArmAutomatic \/ WouldBlock \/ FilterInflight \/ Advance
  BY <1>1, <1>8
     DEF PollEvents, ArmAutomatic, WouldBlock, FilterInflight, Advance, handle
<1>9. CASE Caller
  BY <1>1, <1>2, <1>3, <1>9, ZenonT(60)
     DEF Caller, PublishSubtitle, ReportResult, QueueTest, UpdateConfig,
         UpdateMuteStatus, Install
<1>10. CASE (\E s \in Filterable : FilterSpeaker(s)) \/ UNCHANGED vars
  BY <1>1, <1>10 DEF FilterSpeaker, vars, handle
<1>. QED BY <1>5, <1>6, <1>7, <1>8, <1>9, <1>10 DEF Next, Worker

(***************************************************************************)
(* The events of the channel after a step are old ones, or the one its     *)
(* publisher has sent.                                                     *)
(***************************************************************************)
LEMMA ChannelStep ==
  ASSUME TypeInv, [Next]_vars, NEW i \in 1..Len(channel'),
         channel'[i].kind = "manual"
  PROVE  \/ \E j \in 1..Len(channel) : channel'[i] = channel[j]
         \/ /\ channel'[i].id \in Manuals
            /\ Admitted(channel[i].id, channel[i].generation)'
<1>0. /\ channel \in Seq(Event) /\ reply \in [Manuals -> Replies]
      /\ asked \in [Manuals -> Nat]
  BY DEF TypeInv, TypeOK
<1>1. CASE channel' = channel
  BY <1>1
<1>2. ASSUME NEW e, TrySend(e)
      PROVE  channel'[i] = e \/ \E j \in 1..Len(channel) : channel'[i] = channel[j]
  <2>1. CASE channel' = Append(channel, e)
    <3>1. Len(channel') = Len(channel) + 1
      BY <1>0, <2>1
    <3>2. i \in 1..Len(channel) \/ i = Len(channel) + 1
      BY <1>0, <3>1
    <3>. QED BY <1>0, <2>1, <3>2
  <2>. QED BY <1>1, <1>2, <2>1 DEF TrySend
<1>3. CASE Receive
  <2>1. channel # << >> /\ channel' = Tail(channel)
    BY <1>3 DEF Receive
  <2>2. channel'[i] = channel[i+1] /\ i+1 \in 1..Len(channel)
    BY <1>0, <2>1
  <2>. QED BY <2>2
<1>4. ASSUME NEW route \in Routes, PublishSubtitle(route)
      PROVE  \E j \in 1..Len(channel) : channel'[i] = channel[j]
  <2>1. channel'[i].kind # "subtitle"
    OBVIOUS
  <2>. QED BY <1>1, <1>2, <1>4, <2>1 DEF PublishSubtitle
<1>5. ASSUME NEW kind \in {"completed", "superseded", "failed"}, NEW s, NEW l,
             NEW c, ReportResult(kind, s, l, c)
      PROVE  \E j \in 1..Len(channel) : channel'[i] = channel[j]
  <2>. DEFINE e == IF kind = "failed"
                   THEN [kind |-> kind, id |-> s, lang |-> l,
                         generation |-> config.automatic_revision]
                   ELSE [kind |-> kind, id |-> s, lang |-> l,
                         generation |-> config.automatic_revision,
                         content |-> c]
  <2>1. e.kind = kind
    OBVIOUS
  <2>2. TrySend(e) \/ channel' = channel
    BY <1>5 DEF ReportResult
  <2>. HIDE DEF e
  <2>. QED BY <1>1, <1>2, <2>1, <2>2
<1>6. ASSUME NEW t \in Tests, QueueTest(t)
      PROVE  \E j \in 1..Len(channel) : channel'[i] = channel[j]
  BY <1>1, <1>2, <1>6 DEF QueueTest
<1>7. ASSUME NEW m \in Manuals, SendManual(m)
      PROVE  \/ \E j \in 1..Len(channel) : channel'[i] = channel[j]
             \/ /\ channel'[i].id \in Manuals
                /\ Admitted(channel[i].id, channel[i].generation)'
  <2>. DEFINE e == [kind |-> "manual", id |-> m,
                    generation |-> config.config_revision]
  <2>1. CASE channel' = channel
    BY <1>1, <2>1
  <2>2. CASE channel' # channel
    <3>1. /\ TrySend(e) /\ Len(channel) < EventCapacity
          /\ reply' = [reply EXCEPT ![m] = "waiting"]
          /\ asked' = [asked EXCEPT ![m] = config.config_revision]
      BY <1>7, <2>2 DEF SendManual, TrySend
    <3>2. e.id = m /\ e.generation = config.config_revision
      OBVIOUS
    <3>3. reply'[e.id] = "waiting" /\ asked'[e.id] = e.generation
      BY <1>0, <3>1, <3>2
    <3>. HIDE DEF e
    <3>4. CASE channel'[i] = e
      BY <3>2, <3>3, <3>4 DEF Admitted
    <3>. QED BY <1>2, <3>1, <3>4
  <2>. QED BY <2>1, <2>2
<1>8. ~Receive /\ ~Caller => channel' = channel
  BY DEF Next, Worker, vars, handle, TakeConfig, PollEvents, Tick,
         ArmAutomatic, CancelByConfig, WouldBlock, FilterInflight, Deliver,
         FailSend, FilterSpeaker, Advance
<1>9. CASE Caller
  <2>1. CASE \/ \E m \in Manuals : ManualTimeout(m)
             \/ \E c \in Configs : UpdateConfig(c)
             \/ \E g \in Gates : UpdateMuteStatus(g)
    BY <1>1, <2>1 DEF ManualTimeout, UpdateConfig, UpdateMuteStatus, Install
  <2>. QED BY <1>4, <1>5, <1>6, <1>7, <1>9, <2>1 DEF Caller
<1>. QED BY <1>1, <1>3, <1>8, <1>9
(***************************************************************************)
(* A caller is admitted under the revision of an enabled configuration.    *)
(***************************************************************************)
LEMMA AdmittedOrigin ==
  ASSUME TypeInv, [Next]_vars, NEW m \in Manuals, NEW g, Admitted(m, g)'
  PROVE  \/ Admitted(m, g)
         \/ /\ g = config.config_revision /\ config.config.enabled
            /\ UNCHANGED <<config, wconfig>>
<1>0. reply \in [Manuals -> Replies] /\ asked \in [Manuals -> Nat]
  BY DEF TypeInv, TypeOK
<1>1. CASE UNCHANGED <<reply, asked>>
  BY <1>1 DEF Admitted
<1>2. ASSUME NEW n \in Manuals, SendManual(n)
      PROVE  \/ Admitted(m, g)
             \/ /\ g = config.config_revision /\ config.config.enabled
                /\ UNCHANGED <<config, wconfig>>
  BY <1>0, <1>2 DEF SendManual, Admitted, worker
<1>3. ASSUME NEW n \in Manuals, ManualTimeout(n) PROVE Admitted(m, g)
  BY <1>0, <1>3 DEF ManualTimeout, Admitted
<1>4. ASSUME NEW ids, NEW answer, reply' = Answer(ids, answer), asked' = asked
      PROVE  Admitted(m, g)
  BY <1>4 DEF Answer, Admitted
<1>5. CASE TakeConfig
  BY <1>1, <1>4, <1>5 DEF TakeConfig
<1>6. CASE Receive
  <2>1. asked' = asked
    BY <1>6 DEF Receive
  <2>2. reply' = reply \/ \E ids, answer : reply' = Answer(ids, answer)
    BY <1>6, ReceiveShape DEF TypeInv, ReceivedInPlace, ReceivedNew
  <2>. QED BY <1>1, <1>4, <2>1, <2>2
<1>7. CASE Tick \/ CancelByConfig \/ Deliver \/ FailSend
  BY <1>1, <1>4, <1>7 DEF Tick, CancelByConfig, Deliver, FailSend
<1>8. CASE PollEvents \/ ArmAutomatic \/ WouldBlock \/ FilterInflight \/ Advance
  BY <1>1, <1>8
     DEF PollEvents, ArmAutomatic, WouldBlock, FilterInflight, Advance, handle
<1>9. CASE Caller
  BY <1>1, <1>2, <1>3, <1>9, ZenonT(60)
     DEF Caller, PublishSubtitle, ReportResult, QueueTest, UpdateConfig,
         UpdateMuteStatus, Install
<1>10. CASE (\E s \in Filterable : FilterSpeaker(s)) \/ UNCHANGED vars
  BY <1>1, <1>10 DEF FilterSpeaker, vars, handle
<1>. QED BY <1>5, <1>6, <1>7, <1>8, <1>9, <1>10 DEF Next, Worker

(***************************************************************************)
(* How the two copies of the configuration change.                         *)
(***************************************************************************)
LEMMA ConfigStep ==
  ASSUME TypeInv, [Next]_vars
  PROVE  \/ UNCHANGED <<config, wconfig>>
         \/ config' = config /\ wconfig' = config
         \/ /\ wconfig' = wconfig
            /\ config'.config_revision = config.config_revision + 1
         \/ /\ wconfig' = wconfig
            /\ config'.config_revision = config.config_revision
            /\ config'.config = config.config
<1>1. ASSUME NEW c \in Configs, UpdateConfig(c)
      PROVE  wconfig' = wconfig
             /\ config'.config_revision = config.config_revision + 1
  BY <1>1 DEF UpdateConfig, Install, worker
<1>2. ASSUME NEW g \in Gates, UpdateMuteStatus(g)
      PROVE  /\ wconfig' = wconfig
             /\ config'.config_revision = config.config_revision
             /\ config'.config = config.config
  BY <1>2 DEF UpdateMuteStatus, Install, worker, TypeInv, TypeOK, ConfigState
<1>3. CASE Caller
  BY <1>1, <1>2, <1>3, ZenonT(60)
     DEF Caller, PublishSubtitle, ReportResult, QueueTest, SendManual,
         ManualTimeout, worker
<1>4. CASE TakeConfig \/ CancelByConfig
  BY <1>4 DEF TakeConfig, CancelByConfig, Adopted
<1>. QED BY <1>3, <1>4
     DEF Next, Worker, vars, handle, worker, PollEvents, Receive, Tick,
         ArmAutomatic, WouldBlock, FilterInflight, Deliver, FailSend,
         FilterSpeaker, Advance

\* A manual message of the queue was there before or has just arrived.
LEMMA QueueManuals ==
  ASSUME TypeInv, CurrentInv, [Next]_vars, NEW k \in 1..Len(queue'),
         IsManual(queue'[k])
  PROVE  \/ \E i \in 1..Len(queue) : SameMessage(queue'[k], queue[i])
         \/ /\ Receive /\ Head(channel).kind = "manual"
            /\ queue'[k].id = Head(channel).id
            /\ queue'[k].generation = Head(channel).generation
<1>1. CASE Derived(queue', queue)
  BY <1>1, DerivedMember
<1>2. ASSUME Receive, NEW m, NEW priority, ReceivedNew(m, priority)
      PROVE  \/ \E i \in 1..Len(queue) : SameMessage(queue'[k], queue[i])
             \/ /\ Head(channel).kind = "manual"
                /\ queue'[k].id = Head(channel).id
                /\ queue'[k].generation = Head(channel).generation
  <2>1. /\ AllowedQueue \in Seq(Message)
        /\ Len(AllowedQueue) <= DisplayCapacity
        /\ Derived(AllowedQueue, queue)
    BY AllowedFacts DEF TypeInv
  <2>. DEFINE r == Enqueue(AllowedQueue, m, priority).queue
  <2>2. m \in Message /\ priority \in BOOLEAN /\ Derived(queue', r) /\ Arriving(m, priority)
    BY <1>2 DEF ReceivedNew
  <2>3. \A j \in 1..Len(r) :
          \/ SameMessage(r[j], m)
          \/ \E i \in 1..Len(AllowedQueue) : SameMessage(r[j], AllowedQueue[i])
    BY <2>1, <2>2, EnqueueTyped
  <2>. HIDE DEF r
  <2>4. PICK j \in 1..Len(r) : SameMessage(queue'[k], r[j])
    BY <2>2, DerivedMember
  <2>5. CASE SameMessage(r[j], m)
    <3>1. SameMessage(queue'[k], m) /\ IsManual(m)
      BY <2>4, <2>5 DEF SameMessage, IsManual
    <3>2. AllowedSent # None => AllowedSent.message.kind = "subtitle"
      BY DEF AllowedSent, CurrentInv
    <3>. QED BY <2>2, <3>1, <3>2 DEF Arriving, SameMessage, IsManual
  <2>6. ASSUME NEW i \in 1..Len(AllowedQueue), SameMessage(r[j], AllowedQueue[i])
        PROVE  \E n \in 1..Len(queue) : SameMessage(queue'[k], queue[n])
    <3>1. PICK n \in 1..Len(queue) : SameMessage(AllowedQueue[i], queue[n])
      BY <2>1, DerivedMember
    <3>. QED BY <2>4, <2>6, <3>1 DEF SameMessage
  <2>. QED BY <2>3, <2>5, <2>6
<1>. QED BY <1>1, <1>2, QueueStep

\* Every step keeps waiting callers bound to the revision they asked under.
LEMMA AdmittedStep ==
  ASSUME TypeInv, TypeInv', CurrentInv, AdmittedInv, [Next]_vars
  PROVE  AdmittedInv'
<1>0. /\ config \in ConfigState /\ wconfig \in ConfigState
      /\ config.config_revision \in Nat /\ wconfig.config_revision \in Nat
      /\ channel \in Seq(Event) /\ queue \in Seq(Message)
      /\ channel' \in Seq(Event) /\ queue' \in Seq(Message)
  BY DEF TypeInv, TypeOK, ConfigState
<1>1. /\ wconfig'.config_revision <= config'.config_revision
      /\ wconfig'.config_revision = config'.config_revision =>
           wconfig'.config = config'.config
  <2>1. /\ wconfig.config_revision <= config.config_revision
        /\ wconfig.config_revision = config.config_revision =>
             wconfig.config = config.config
    BY DEF AdmittedInv
  <2>. QED BY <1>0, <2>1, ConfigStep
<1>2. ASSUME NEW m \in Manuals, NEW g \in Nat, Admitted(m, g)'
      PROVE  /\ g <= config'.config_revision
             /\ g = config'.config_revision => config'.config.enabled
             /\ g = wconfig'.config_revision => wconfig'.config.enabled
  <2>1. CASE Admitted(m, g)
    <3>1. /\ g <= config.config_revision
          /\ g = config.config_revision => config.config.enabled
          /\ g = wconfig.config_revision => wconfig.config.enabled
      BY <2>1 DEF AdmittedInv
    <3>. QED BY <1>0, <3>1, ConfigStep
  <2>2. CASE /\ g = config.config_revision /\ config.config.enabled
             /\ UNCHANGED <<config, wconfig>>
    <3>1. wconfig.config_revision = config.config_revision =>
            wconfig.config = config.config
      BY DEF AdmittedInv
    <3>. QED BY <1>0, <2>2, <3>1
  <2>. QED BY <1>2, <2>1, <2>2, AdmittedOrigin
<1>3. \A j \in 1..Len(channel) : channel[j].kind = "manual" =>
        /\ channel[j].id \in Manuals
        /\ Admitted(channel[j].id, channel[j].generation)
  BY <1>0, EventFields DEF AdmittedInv
<1>4. ASSUME NEW i \in 1..Len(channel'), channel'[i].kind = "manual"
      PROVE  Admitted(channel[i].id, channel[i].generation)'
  <2>1. CASE Admitted(channel[i].id, channel[i].generation)'
    BY <2>1
  <2>2. ASSUME NEW j \in 1..Len(channel), channel'[i] = channel[j]
        PROVE  Admitted(channel[i].id, channel[i].generation)'
    <3>. DEFINE id == channel[j].id
                gen == channel[j].generation
    <3>1. id \in Manuals /\ Admitted(id, gen)
      BY <1>3, <1>4, <2>2
    <3>2. \A n \in Manuals : \A g \in Nat :
            Admitted(n, g) => reply'[n] \notin {"idle", "disabled"}
                              /\ asked'[n] = g
      BY AdmittedStays DEF Admitted
    <3>3. gen \in Nat
      BY <1>0, EventFields
    <3>4. reply'[id] \notin {"idle", "disabled"} /\ asked'[id] = gen
      BY <3>1, <3>2, <3>3
    <3>5. channel'[i].id = id /\ channel'[i].generation = gen
      BY <2>2
    <3>. QED BY <3>4, <3>5 DEF Admitted
  <2>. QED BY <1>4, <2>1, <2>2, ChannelStep
<1>5. ASSUME NEW k \in 1..Len(queue'), IsManual(queue'[k])
      PROVE  Admitted(queue[k].id, queue[k].generation)'
  <2>1. ASSUME NEW id \in Manuals, NEW gen \in Nat, Admitted(id, gen),
               queue'[k].id = id, queue'[k].generation = gen
        PROVE  Admitted(queue[k].id, queue[k].generation)'
    <3>1. reply'[id] \notin {"idle", "disabled"} /\ asked'[id] = gen
      BY <2>1, AdmittedStays DEF Admitted
    <3>. QED BY <2>1, <3>1 DEF Admitted
  <2>2. ASSUME NEW i \in 1..Len(queue), SameMessage(queue'[k], queue[i])
        PROVE  Admitted(queue[k].id, queue[k].generation)'
    <3>1. IsManual(queue[i]) /\ queue[i] \in Message
      BY <1>0, <1>5, <2>2 DEF SameMessage, IsManual
    <3>2. /\ queue[i].id \in Manuals /\ queue[i].generation \in Nat
          /\ Admitted(queue[i].id, queue[i].generation)
      BY <3>1, MessageFields DEF AdmittedInv, IsManual
    <3>3. queue'[k].id = queue[i].id /\ queue'[k].generation = queue[i].generation
      BY <2>2 DEF SameMessage
    <3>. QED BY <2>1, <3>2, <3>3
  <2>3. CASE /\ Receive /\ Head(channel).kind = "manual"
             /\ queue'[k].id = Head(channel).id
             /\ queue'[k].generation = Head(channel).generation
    <3>1. Head(channel) = channel[1] /\ 1 \in 1..Len(channel)
          /\ channel[1] \in Event
      BY <1>0, <2>3 DEF Receive
    <3>2. /\ channel[1].id \in Manuals /\ channel[1].generation \in Nat
          /\ Admitted(channel[1].id, channel[1].generation)
      BY <1>3, <2>3, <3>1, EventFields
    <3>. QED BY <2>1, <2>3, <3>1, <3>2
  <2>. QED BY <1>5, <2>2, <2>3, QueueManuals
<1>. QED BY <1>1, <1>2, <1>4, <1>5 DEF AdmittedInv
\* No manual message stands behind an automatic one that is being sent.
LEMMA BehindTick ==
  ASSUME TypeOK, ManualsInv, Tick, Sending', ~IsManual(inflight')
  PROVE  \A k \in 1..Len(queue') : ~IsManual(queue'[k])
<1>1. /\ TickQueue # << >> /\ inflight' = Head(TickQueue)
      /\ queue' = Tail(TickQueue)
  BY DEF Tick, Sending
<1>2. TickQueue \in {<< >>, ManualsOf(AllowedQueue), AllowedQueue}
  BY DEF TickQueue
<1>3. /\ AllowedQueue \in Seq(Message) /\ ManualsLead(AllowedQueue)
  BY AllowedFacts, DerivedManualsLead DEF ManualsInv
<1>4. /\ ManualsOf(AllowedQueue) \in Seq(Message)
      /\ ManualsLead(ManualsOf(AllowedQueue))
  BY <1>3, ManualsOfFacts, DerivedManualsLead
<1>5. TickQueue \in Seq(Message) /\ ManualsLead(TickQueue)
  BY <1>1, <1>2, <1>3, <1>4
<1>6. /\ inflight' = TickQueue[1] /\ 1 \in 1..Len(TickQueue)
      /\ \A k \in 1..Len(queue') : /\ queue'[k] = TickQueue[k+1]
                                   /\ k+1 \in 1..Len(TickQueue) /\ 1 < k+1
  BY <1>1, <1>5
<1>. QED BY <1>5, <1>6 DEF ManualsLead

\* Every step keeps manual messages off the queue behind an automatic send.
LEMMA BehindStep ==
  ASSUME TypeInv, ManualsInv, BehindInv, [Next]_vars
  PROVE  BehindInv'
<1>1. CASE Tick
  BY <1>1, BehindTick DEF TypeInv, BehindInv
<1>2. CASE UNCHANGED <<phase, queue, inflight>>
  BY <1>2 DEF BehindInv, Sending
<1>3. CASE ArmAutomatic \/ WouldBlock
  BY <1>3 DEF ArmAutomatic, WouldBlock, BehindInv, Sending
<1>4. CASE Advance
  <2>1. Derived(queue', queue) /\ UNCHANGED <<phase, inflight>>
    BY <1>4, AdvanceFacts DEF TypeInv, Advance
  <2>. QED BY <2>1, DerivedMember DEF BehindInv, Sending, SameMessage, IsManual
<1>5. CASE \/ TakeConfig \/ PollEvents \/ Receive \/ CancelByConfig
           \/ FilterInflight \/ Deliver \/ FailSend
  BY <1>5 DEF TakeConfig, PollEvents, Receive, CancelByConfig, FilterInflight,
       Deliver, FailSend, BehindInv, Sending
<1>6. CASE Caller
  <2>1. UNCHANGED worker
    BY <1>6 DEF Caller, PublishSubtitle, ReportResult, QueueTest, SendManual,
         ManualTimeout, UpdateConfig, UpdateMuteStatus, Install
  <2>. QED BY <1>2, <2>1 DEF worker
<1>7. CASE (\E s \in Filterable : FilterSpeaker(s)) \/ UNCHANGED vars
  BY <1>2, <1>7 DEF FilterSpeaker, vars, worker
<1>. QED BY <1>1, <1>3, <1>4, <1>5, <1>6, <1>7 DEF Next, Worker

\* Both facts hold in every reachable state.
LEMMA AdmittedAlways == Spec => [](AdmittedInv /\ BehindInv)
<1>1. Init => AdmittedInv /\ BehindInv
  <2>. SUFFICES ASSUME Init PROVE AdmittedInv /\ BehindInv
    OBVIOUS
  <2>1. /\ wconfig = config /\ config.config_revision = 0
        /\ Len(channel) = 0 /\ Len(queue) = 0 /\ ~Sending
        /\ reply = [m \in Manuals |-> "idle"]
    BY DEF Init, Sending
  <2>. QED BY <2>1 DEF AdmittedInv, BehindInv, Admitted
<1>2. TypeInv /\ TypeInv' /\ CurrentInv /\ ManualsInv
      /\ AdmittedInv /\ BehindInv /\ [Next]_vars
        => (AdmittedInv /\ BehindInv)'
  BY AdmittedStep, BehindStep
<1>. QED BY <1>1, <1>2, TypeAlways, CurrentAlways, ManualsAlways, PTL DEF Spec

(***************************************************************************)
(* A manual send is cancelled only by a change of the configuration after  *)
(* its caller has read the revision: never by the mute gate, by the        *)
(* speaker filter, or by the cancellation of an automatic send.            *)
(***************************************************************************)
THEOREM CancelledOnlyByConfig == Spec => CancelledByConfigOnly
<1>1. ASSUME TypeInv, CurrentInv, AdmittedInv, BehindInv, [Next]_vars,
             NEW m \in Manuals, reply[m] = "waiting", reply'[m] = "cancelled"
      PROVE  asked[m] # wconfig'.config_revision
  <2>0. /\ TypeOK /\ reply \in [Manuals -> Replies]
        /\ AllowedQueue \in Seq(Message)
        /\ channel \in Seq(Event) /\ queue \in Seq(Message)
    BY <1>1, AllowedFacts DEF TypeInv, TypeOK
  <2>1. \A k \in 1..Len(queue) : IsManual(queue[k]) /\ queue[k].id = m =>
          /\ asked[m] = queue[k].generation
          /\ asked[m] = wconfig.config_revision /\ wconfig.config.enabled
    <3>. SUFFICES ASSUME NEW k \in 1..Len(queue), IsManual(queue[k]),
                         queue[k].id = m
                  PROVE  /\ asked[m] = queue[k].generation
                         /\ asked[m] = wconfig.config_revision
                         /\ wconfig.config.enabled
      OBVIOUS
    <3>1. /\ Admitted(m, queue[k].generation)
          /\ queue[k].generation = wconfig.config_revision
          /\ queue[k].generation \in Nat
      <4>1. queue[k] \in Message
        BY <2>0
      <4>. QED BY <1>1, <4>1, MessageFields
               DEF AdmittedInv, CurrentInv, UpToDate
    <3>. QED BY <1>1, <3>1 DEF AdmittedInv, Admitted
  <2>2. \A k \in 1..Len(AllowedQueue) :
          IsManual(AllowedQueue[k]) /\ AllowedQueue[k].id = m =>
            /\ asked[m] = wconfig.config_revision /\ wconfig.config.enabled
    <3>. SUFFICES ASSUME NEW k \in 1..Len(AllowedQueue),
                         IsManual(AllowedQueue[k]), AllowedQueue[k].id = m
                  PROVE  /\ asked[m] = wconfig.config_revision
                         /\ wconfig.config.enabled
      OBVIOUS
    <3>1. PICK i \in 1..Len(queue) : SameMessage(AllowedQueue[k], queue[i])
      BY <2>0, AllowedFacts, DerivedMember
    <3>2. IsManual(queue[i]) /\ queue[i].id = m
      BY <3>1 DEF SameMessage, IsManual
    <3>. QED BY <2>1, <3>2
  <2>3. \A S : m \in ManualIds(S) => \E n \in S : IsManual(n) /\ n.id = m
    BY DEF ManualIds
  <2>4. CASE TakeConfig
    <3>1. /\ config.config_revision # wconfig.config_revision
          /\ m \in ManualIds(ToSet(AllowedQueue)) /\ wconfig' = config
      BY <1>1, <2>4 DEF TakeConfig, Adopted, Answer
    <3>2. PICK k \in 1..Len(AllowedQueue) :
            IsManual(AllowedQueue[k]) /\ AllowedQueue[k].id = m
      BY <2>0, <2>3, <3>1 DEF ToSet
    <3>. QED BY <2>2, <3>1, <3>2
  <2>5. CASE Receive
    <3>1. \/ /\ ~Current(Head(channel)) /\ Head(channel).kind = "manual"
             /\ reply' = Answer({Head(channel).id}, "cancelled")
          \/ \E ids : reply' = Answer(ids, "queue_full")
          \/ reply' = reply
      BY <2>0, <2>5, ReceiveShape DEF ReceivedInPlace, ReceivedNew
    <3>2. /\ ~Current(Head(channel)) /\ Head(channel).kind = "manual"
          /\ Head(channel).id = m
      BY <1>1, <3>1 DEF Answer
    <3>3. Head(channel) = channel[1] /\ 1 \in 1..Len(channel)
      BY <2>0, <2>5 DEF Receive
    <3>4. asked[m] = Head(channel).generation
      BY <1>1, <3>2, <3>3 DEF AdmittedInv, Admitted
    <3>. QED BY <2>5, <3>2, <3>4 DEF Current, Receive
  <2>6. CASE Tick
    <3>1. ~wconfig.config.enabled /\ m \in ManualIds(ToSet(AllowedQueue))
      BY <1>1, <2>6 DEF Tick, Answer
    <3>2. PICK k \in 1..Len(AllowedQueue) :
            IsManual(AllowedQueue[k]) /\ AllowedQueue[k].id = m
      BY <2>0, <2>3, <3>1 DEF ToSet
    <3>. QED BY <2>2, <3>1, <3>2
  <2>7. CASE CancelByConfig
    <3>1. Sending /\ ~IsManual(inflight) /\ m \in ManualIds(ToSet(queue))
      BY <1>1, <2>7 DEF CancelByConfig, Sending, Answer
    <3>2. PICK k \in 1..Len(queue) : IsManual(queue[k]) /\ queue[k].id = m
      BY <2>0, <2>3, <3>1 DEF ToSet
    <3>. QED BY <1>1, <3>1, <3>2 DEF BehindInv
  <2>8. CASE Deliver \/ FailSend
    BY <1>1, <2>8 DEF Deliver, FailSend, Answer
  <2>9. CASE PollEvents \/ ArmAutomatic \/ WouldBlock \/ FilterInflight \/ Advance
    BY <1>1, <2>9
       DEF PollEvents, ArmAutomatic, WouldBlock, FilterInflight, Advance, handle
  <2>10. CASE Caller
    BY <1>1, <2>0, <2>10 DEF Caller, PublishSubtitle, ReportResult, QueueTest,
         SendManual, ManualTimeout, UpdateConfig, UpdateMuteStatus, Install
  <2>11. CASE (\E s \in Filterable : FilterSpeaker(s)) \/ UNCHANGED vars
    BY <1>1, <2>11 DEF FilterSpeaker, vars, handle
  <2>. QED BY <1>1, <2>4, <2>5, <2>6, <2>7, <2>8, <2>9, <2>10, <2>11
           DEF Next, Worker
<1>2. TypeInv /\ CurrentInv /\ AdmittedInv /\ BehindInv /\ [Next]_vars =>
        [\A m \in Manuals :
           reply[m] = "waiting" /\ reply'[m] = "cancelled" =>
             asked[m] # wconfig'.config_revision]_vars
  BY <1>1
<1>. QED BY <1>2, TypeAlways, CurrentAlways, AdmittedAlways, PTL
         DEF Spec, CancelledByConfigOnly
-----------------------------------------------------------------------------
(* Manual sends: why they are evicted                                      *)

(***************************************************************************)
(* enqueue_pending turns a manual message away only for another one, when  *)
(* all others are manual too, and then it is the oldest.                   *)
(***************************************************************************)
LEMMA EnqueueRejects ==
  ASSUME NEW q \in Seq(Message), NEW m \in Message, NEW priority \in BOOLEAN,
         IsManual(m) => priority,
         NEW n \in Enqueue(q, m, priority).rejected, IsManual(n)
  PROVE  /\ IsManual(m) /\ 1 \in 1..Len(q) /\ n = q[1]
         /\ \A k \in 1..Len(q) : IsManual(q[k])
<1>. DEFINE victim == Victim(q, m, priority)
            M == {x \in ToSet(q) : ~IsManual(x)}
<1>1. DisplayCapacity \in Nat \ {0} /\ Len(q) \in Nat
  BY OscAssumption
<1>2. /\ FirstAutomatic(q) \in 1..Len(q)+1
      /\ FirstAutomatic(q) <= Len(q) => q[FirstAutomatic(q)] \in M
      /\ \A j \in 1..FirstAutomatic(q)-1 : q[j] \notin M
  BY FirstInProperties DEF FirstAutomatic
<1>3. Len(q) >= DisplayCapacity
  <2>. SUFFICES ASSUME Len(q) < DisplayCapacity PROVE FALSE
    BY <1>1
  <2>1. Enqueue(q, m, priority).rejected = {}
    BY DEF Enqueue
  <2>. QED BY <2>1
<1>4. 1 \in 1..Len(q)
  BY <1>1, <1>3
<1>5. victim # 0
  <2>. SUFFICES ASSUME victim = 0 PROVE FALSE
    OBVIOUS
  <2>1. Enqueue(q, m, priority).rejected = {m}
    BY <1>1, <1>3 DEF Enqueue
  <2>2. IsManual(m)
    BY <2>1
  <2>. QED BY <1>2, <2>2 DEF Victim
<1>6. n = q[victim]
  <2>1. Enqueue(q, m, priority).rejected = {q[victim]}
    BY <1>1, <1>3, <1>5 DEF Enqueue
  <2>. QED BY <2>1
<1>7. ~(FirstAutomatic(q) <= Len(q))
  <2>. SUFFICES ASSUME FirstAutomatic(q) <= Len(q) PROVE FALSE
    OBVIOUS
  <2>1. victim = FirstAutomatic(q)
    BY DEF Victim
  <2>2. ~IsManual(q[FirstAutomatic(q)])
    BY <1>2
  <2>. QED BY <1>6, <2>1, <2>2
<1>8. victim = 1 /\ IsManual(m)
  BY <1>5, <1>7 DEF Victim
<1>9. ASSUME NEW k \in 1..Len(q) PROVE IsManual(q[k])
  <2>1. k \in 1..FirstAutomatic(q)-1
    BY <1>1, <1>2, <1>7
  <2>2. q[k] \notin M /\ q[k] \in ToSet(q)
    BY <1>2, <2>1 DEF ToSet
  <2>. DEFINE x == q[k]
  <2>. HIDE DEF x
  <2>3. x \in ToSet(q) /\ x \notin {y \in ToSet(q) : ~IsManual(y)} => IsManual(x)
    OBVIOUS
  <2>. QED BY <2>2, <2>3 DEF x
<1>. QED BY <1>4, <1>6, <1>8, <1>9

(***************************************************************************)
(* If what the filter leaves of the queue is manual throughout, so is the  *)
(* queue but for the messages the filter drops, and its first one stays.   *)
(***************************************************************************)
LEMMA AllowedManuals ==
  ASSUME TypeInv, ManualsInv, 1 \in 1..Len(AllowedQueue),
         \A k \in 1..Len(AllowedQueue) : IsManual(AllowedQueue[k])
  PROVE  /\ \A i \in 1..Len(queue) :
              IsManual(queue[i]) \/ ~SpeakerAllowed(queue[i])
         /\ 1 \in 1..Len(queue)
         /\ AllowedQueue[1] = queue[1]
<1>. DEFINE M == {m \in ToSet(queue) : SpeakerAllowed(m)}
            r == AllowedQueue
<1>1. queue \in Seq(Message) /\ r = Keep(queue, M) /\ r \in Seq(Message)
  BY AllowedFacts DEF TypeInv, TypeOK, AllowedQueue
<1>2. \A i \in 1..Len(queue) : SpeakerAllowed(queue[i]) => queue[i] \in M
  BY <1>1 DEF ToSet
<1>. HIDE DEF M, r
<1>3. PICK g : Embeds(g, r, queue, Len(queue), M)
  BY <1>1, KeepProperties
<1>4. /\ g \in [1..Len(r) -> 1..Len(queue)]
      /\ \A j, k \in 1..Len(r) : j < k => g[j] < g[k]
      /\ \A k \in 1..Len(r) : r[k] = queue[g[k]]
      /\ \A i \in 1..Len(queue) : queue[i] \in M => \E k \in 1..Len(r) : g[k] = i
  BY <1>3 DEF Embeds
<1>5. \A k \in 1..Len(r) : IsManual(r[k])
  BY DEF r
<1>6. 1 \in 1..Len(r) /\ g[1] \in 1..Len(queue) /\ 1 \in 1..Len(queue)
  BY <1>1, <1>4 DEF r
<1>7. ASSUME NEW i \in 1..Len(queue), SpeakerAllowed(queue[i])
      PROVE  IsManual(queue[i])
  BY <1>2, <1>4, <1>5, <1>7
<1>8. IsManual(queue[1])
  <2>1. IsManual(queue[g[1]])
    BY <1>4, <1>5, <1>6
  <2>2. g[1] = 1 \/ 1 < g[1]
    BY <1>6
  <2>. QED BY <1>6, <2>1, <2>2 DEF ManualsInv, ManualsLead
<1>9. SpeakerAllowed(queue[1])
  BY <1>8 DEF SpeakerAllowed, IsManual
<1>10. PICK k \in 1..Len(r) : g[k] = 1
  BY <1>2, <1>4, <1>6, <1>9
<1>11. k = 1
  <2>. SUFFICES ASSUME k # 1 PROVE FALSE
    OBVIOUS
  <2>1. 1 < k
    BY <1>10
  <2>2. g[1] < 1
    BY <1>4, <1>6, <1>10, <2>1
  <2>. QED BY <1>6, <2>2
<1>12. r[1] = queue[1]
  BY <1>4, <1>6, <1>10, <1>11
<1>. QED BY <1>6, <1>7, <1>12 DEF r

(***************************************************************************)
(* A manual send is evicted from a full queue only by another manual send, *)
(* only when no automatic message is left to evict, and oldest first.      *)
(***************************************************************************)
THEOREM EvictedOnlyByManual == Spec => EvictedByManualOnly
<1>1. ASSUME TypeInv, CurrentInv, ManualsInv, [Next]_vars,
             NEW m \in Manuals, reply[m] = "waiting", reply'[m] = "queue_full"
      PROVE  /\ Head(channel).kind = "manual"
             /\ \A i \in DOMAIN queue :
                  IsManual(queue[i]) \/ ~SpeakerAllowed(queue[i])
             /\ queue[1].id = m
  <2>0. /\ TypeOK /\ reply \in [Manuals -> Replies]
        /\ queue \in Seq(Message) /\ DOMAIN queue = 1..Len(queue)
        /\ AllowedQueue \in Seq(Message)
    BY <1>1, AllowedFacts DEF TypeInv, TypeOK
  <2>1. ASSUME NEW n, NEW priority, ReceivedNew(n, priority)
        PROVE  /\ Head(channel).kind = "manual"
               /\ \A i \in DOMAIN queue :
                    IsManual(queue[i]) \/ ~SpeakerAllowed(queue[i])
               /\ queue[1].id = m
    <3>. DEFINE rejected == Enqueue(AllowedQueue, n, priority).rejected
    <3>1. /\ n \in Message /\ priority \in BOOLEAN /\ (IsManual(n) => priority)
          /\ Arriving(n, priority)
          /\ reply' = Answer(ManualIds(rejected), "queue_full")
      BY <2>1 DEF ReceivedNew
    <3>2. m \in ManualIds(rejected)
      BY <1>1, <3>1 DEF Answer
    <3>3. PICK x \in rejected : IsManual(x) /\ x.id = m
      BY <3>2 DEF ManualIds
    <3>4. /\ IsManual(n) /\ 1 \in 1..Len(AllowedQueue) /\ x = AllowedQueue[1]
          /\ \A k \in 1..Len(AllowedQueue) : IsManual(AllowedQueue[k])
      BY <2>0, <3>1, <3>3, EnqueueRejects
    <3>5. AllowedSent # None => AllowedSent.message.kind = "subtitle"
      BY <1>1 DEF AllowedSent, CurrentInv
    <3>6. Head(channel).kind = "manual"
      BY <3>1, <3>4, <3>5 DEF Arriving, SameMessage, IsManual
    <3>. QED BY <1>1, <2>0, <3>3, <3>4, <3>6, AllowedManuals
  <2>2. CASE Receive
    <3>1. ~ReceivedInPlace
      <4>1. ManualIds({}) = {}
        BY DEF ManualIds
      <4>. QED BY <1>1, <4>1 DEF ReceivedInPlace, Answer
    <3>. QED BY <2>0, <2>1, <2>2, <3>1, ReceiveShape
  <2>3. CASE TakeConfig \/ Tick \/ CancelByConfig \/ Deliver \/ FailSend
    BY <1>1, <2>3
       DEF TakeConfig, Tick, CancelByConfig, Deliver, FailSend, Answer
  <2>4. CASE PollEvents \/ ArmAutomatic \/ WouldBlock \/ FilterInflight \/ Advance
    BY <1>1, <2>4
       DEF PollEvents, ArmAutomatic, WouldBlock, FilterInflight, Advance, handle
  <2>5. CASE Caller
    BY <1>1, <2>0, <2>5 DEF Caller, PublishSubtitle, ReportResult, QueueTest,
         SendManual, ManualTimeout, UpdateConfig, UpdateMuteStatus, Install
  <2>6. CASE (\E s \in Filterable : FilterSpeaker(s)) \/ UNCHANGED vars
    BY <1>1, <2>6 DEF FilterSpeaker, vars, handle
  <2>. QED BY <1>1, <2>2, <2>3, <2>4, <2>5, <2>6 DEF Next, Worker
<1>2. TypeInv /\ CurrentInv /\ ManualsInv /\ [Next]_vars =>
        [\A m \in Manuals :
           reply[m] = "waiting" /\ reply'[m] = "queue_full" =>
             /\ Head(channel).kind = "manual"
             /\ \A i \in DOMAIN queue :
                  IsManual(queue[i]) \/ ~SpeakerAllowed(queue[i])
             /\ queue[1].id = m]_vars
  BY <1>1
<1>. QED BY <1>2, TypeAlways, CurrentAlways, ManualsAlways, PTL
         DEF Spec, EvictedByManualOnly
-----------------------------------------------------------------------------
(* Waiting for translations                                                *)

AllLanguages == wconfig.config.translation_strategy = "all_languages"

(***************************************************************************)
(* A message expects each of its target languages once and desires one of  *)
(* them, or none if it is to be shown in all.                              *)
(***************************************************************************)
Aims(m) ==
  /\ \A i, j \in 1..Len(m.expected) : m.expected[i] = m.expected[j] => i = j
  /\ IsFiniteSet(m.failed)
  /\ AllLanguages => m.desired = None
  /\ ~AllLanguages /\ m.expected # << >> =>
       \E i \in 1..Len(m.expected) : m.desired = m.expected[i]

(***************************************************************************)
(* A message whose targets are all resolved does not wait, or it has the   *)
(* translation it desires.                                                 *)
(***************************************************************************)
Resolves(m) ==
  AllTargetsResolved(m) =>
    \/ m.wait = 0
    \/ ~AllLanguages /\ m.desired # None /\ m.translations[m.desired] # None

AimInv ==
  /\ \A k \in 1..Len(queue) : Aims(queue[k]) /\ Resolves(queue[k])
  /\ Sending => Aims(inflight)
  /\ current_sent # None => Aims(current_sent.message)

\* What n languages fail, at least n times a language has failed.
LEMMA FailedCount ==
  ASSUME NEW e \in Seq(Langs), NEW S, IsFiniteSet(S),
         \A i, j \in 1..Len(e) : e[i] = e[j] => i = j,
         \A i \in 1..Len(e) : e[i] \in S
  PROVE  Cardinality(S) >= Len(e)
<1>. DEFINE f == [i \in 1..Len(e) |-> e[i]]
<1>1. f \in [1..Len(e) -> S] /\ Len(e) \in Nat
  OBVIOUS
<1>2. \A i, j \in 1..Len(e) : f[i] = f[j] => i = j
  OBVIOUS
<1>. HIDE DEF f
<1>3. f \in Injection(1..Len(e), S)
  BY <1>1, <1>2, Fun_IsInj
<1>4. Cardinality(1..Len(e)) <= Cardinality(S)
  BY <1>3, FS_Injection
<1>5. IsFiniteSet(1..Len(e)) /\ Cardinality(1..Len(e)) = Len(e)
  BY <1>1, FS_Interval
<1>6. Cardinality(S) \in Nat
  BY FS_CardinalityType
<1>. QED BY <1>1, <1>4, <1>5, <1>6

\* AllTargetsResolved, position by position.
LEMMA ResolvedByPosition ==
  ASSUME NEW m \in Message
  PROVE  AllTargetsResolved(m) <=>
           /\ m.expected # << >>
           /\ \A i \in 1..Len(m.expected) :
                \/ m.translations[m.expected[i]] # None
                \/ m.expected[i] \in m.failed
<1>1. DOMAIN m.expected = 1..Len(m.expected)
  BY MessageFields
<1>. QED BY <1>1 DEF AllTargetsResolved

\* Making a message ready changes no aim.
LEMMA ReadyAims ==
  ASSUME NEW m \in Message, Aims(m)
  PROVE  Aims([m EXCEPT !.wait = 0]) /\ Resolves([m EXCEPT !.wait = 0])
<1>. DEFINE r == [m EXCEPT !.wait = 0]
<1>1. /\ r.expected = m.expected /\ r.failed = m.failed
      /\ r.desired = m.desired /\ r.wait = 0
  BY DEF Message
<1>. HIDE DEF r
<1>2. Aims(r) /\ Resolves(r)
  BY <1>1 DEF Aims, Resolves
<1>. QED BY <1>2 DEF r

(***************************************************************************)
(* A failed translation: when it was the last target a text has come       *)
(* already or all targets have failed, each of them counted once.          *)
(***************************************************************************)
LEMMA FailAims ==
  ASSUME NEW m \in Message, NEW l \in Langs, Aims(m)
  PROVE  Aims(Fail(m, l)) /\ Resolves(Fail(m, l))
<1>. DEFINE failed == [m EXCEPT !.failed = @ \cup {l}]
            all_failed == /\ m.expected # << >>
                          /\ Cardinality(failed.failed) >= Len(m.expected)
            any_text == \E k \in Langs : m.translations[k] # None
<1>1. /\ failed.expected = m.expected /\ failed.desired = m.desired
      /\ failed.translations = m.translations
      /\ failed.failed = m.failed \cup {l}
      /\ failed \in Message
  BY DEF Message
<1>2. \/ /\ Fail(m, l) = [failed EXCEPT !.wait = 0]
      \/ /\ Fail(m, l) = failed
         /\ AllLanguages => ~AllTargetsResolved(failed)
         /\ ~AllLanguages => ~all_failed /\ ~any_text
  BY DEF Fail, AllLanguages
<1>. HIDE DEF failed
<1>3. IsFiniteSet(failed.failed)
  BY <1>1, FS_AddElement DEF Aims
<1>4. Aims(failed)
  BY <1>1, <1>3 DEF Aims
<1>5. CASE Fail(m, l) = [failed EXCEPT !.wait = 0]
  BY <1>1, <1>4, <1>5, ReadyAims
<1>6. CASE /\ Fail(m, l) = failed
           /\ AllLanguages => ~AllTargetsResolved(failed)
           /\ ~AllLanguages => ~all_failed /\ ~any_text
  <2>1. ASSUME ~AllLanguages, AllTargetsResolved(failed) PROVE FALSE
    <3>1. m.expected \in Seq(Langs) /\ m.expected # << >>
      BY <1>1, <2>1, MessageFields DEF AllTargetsResolved
    <3>2. \A i \in 1..Len(m.expected) : m.expected[i] \in Langs
      BY <3>1
    <3>3. \A i \in 1..Len(m.expected) : m.expected[i] \in failed.failed
      BY <1>1, <1>6, <2>1, <3>2, ResolvedByPosition
    <3>4. \A i, j \in 1..Len(m.expected) :
            m.expected[i] = m.expected[j] => i = j
      BY DEF Aims
    <3>5. Cardinality(failed.failed) >= Len(m.expected)
      BY <1>3, <3>1, <3>3, <3>4, FailedCount
    <3>. QED BY <1>6, <2>1, <3>1, <3>5
  <2>2. Resolves(failed)
    BY <1>6, <2>1 DEF Resolves
  <2>. QED BY <1>4, <1>6, <2>2
<1>. QED BY <1>2, <1>5, <1>6

(***************************************************************************)
(* A completed translation: a message that is still waiting desires        *)
(* another one, which has not failed.                                      *)
(***************************************************************************)
LEMMA CompleteAims ==
  ASSUME NEW m \in Message, NEW l \in Langs, NEW c \in Contents,
         NEW preferred, Aims(m)
  PROVE  Aims(Complete(m, l, c, preferred))
         /\ Resolves(Complete(m, l, c, preferred))
<1>. DEFINE done == [m EXCEPT !.translations[l] = c]
<1>1. /\ done.expected = m.expected /\ done.desired = m.desired
      /\ done.failed = m.failed /\ done \in Message
  BY DEF Message
<1>2. \/ Complete(m, l, c, preferred) = [done EXCEPT !.wait = 0]
      \/ /\ Complete(m, l, c, preferred) = done
         /\ AllLanguages => ~AllTargetsResolved(done)
         /\ ~AllLanguages => ~(m.desired # None /\ m.desired \in m.failed)
  BY DEF Complete, AllLanguages
<1>. HIDE DEF done
<1>3. Aims(done)
  BY <1>1 DEF Aims
<1>4. CASE Complete(m, l, c, preferred) = [done EXCEPT !.wait = 0]
  BY <1>1, <1>3, <1>4, ReadyAims
<1>5. CASE /\ Complete(m, l, c, preferred) = done
           /\ AllLanguages => ~AllTargetsResolved(done)
           /\ ~AllLanguages => ~(m.desired # None /\ m.desired \in m.failed)
  <2>1. ASSUME ~AllLanguages, AllTargetsResolved(done)
        PROVE  done.desired # None /\ done.translations[done.desired] # None
    <3>1. /\ done.expected # << >>
          /\ \A i \in 1..Len(done.expected) :
               \/ done.translations[done.expected[i]] # None
               \/ done.expected[i] \in done.failed
      BY <1>1, <2>1, ResolvedByPosition
    <3>2. PICK i \in 1..Len(done.expected) : done.desired = done.expected[i]
      BY <1>3, <2>1, <3>1 DEF Aims
    <3>3. done.desired \in Langs
      <4>1. done.expected \in Seq(Langs)
        BY <1>1, MessageFields
      <4>. QED BY <3>2, <4>1
    <3>4. done.desired # None
      BY <3>3, OscAssumption
    <3>. QED BY <1>1, <1>5, <2>1, <3>1, <3>2, <3>4
  <2>2. Resolves(done)
    BY <1>5, <2>1 DEF Resolves
  <2>. QED BY <1>3, <1>5, <2>2
<1>. QED BY <1>2, <1>4, <1>5

\* A superseded target: the message aims at what is left.
LEMMA SupersedeAims ==
  ASSUME NEW m \in Message, NEW l \in Langs, Aims(m)
  PROVE  Aims(Supersede(m, l)) /\ Resolves(Supersede(m, l))
<1>. DEFINE rest == Keep(m.expected, Langs \ {l})
            desired == IF m.desired = l /\ rest # << >> THEN Head(rest)
                                                        ELSE m.desired
            next == [m EXCEPT !.expected = rest, !.desired = desired]
<1>1. Supersede(m, l) = IF AllTargetsResolved(next)
                        THEN [next EXCEPT !.wait = 0] ELSE next
  BY DEF Supersede
<1>2. m.expected \in Seq(Langs) /\ rest \in Seq(Langs)
  BY MessageFields, KeepProperties
<1>3. PICK g : Embeds(g, rest, m.expected, Len(m.expected), Langs \ {l})
  BY <1>2, KeepProperties
<1>. HIDE DEF rest
<1>4. /\ g \in [1..Len(rest) -> 1..Len(m.expected)]
      /\ \A j, k \in 1..Len(rest) : j < k => g[j] < g[k]
      /\ \A k \in 1..Len(rest) : rest[k] = m.expected[g[k]]
      /\ \A i \in 1..Len(m.expected) :
           m.expected[i] \in Langs \ {l} => \E k \in 1..Len(rest) : g[k] = i
  BY <1>3 DEF Embeds
<1>5. ASSUME NEW i \in 1..Len(rest), NEW j \in 1..Len(rest), rest[i] = rest[j]
      PROVE  i = j
  <2>1. g[i] = g[j] /\ g[i] \in Nat /\ g[j] \in Nat
    BY <1>4, <1>5 DEF Aims
  <2>2. ~(i < j) /\ ~(j < i)
    BY <1>4, <2>1
  <2>. QED BY <2>2
<1>6. desired \in Langs \cup {None}
  BY <1>2, MessageFields
<1>7. AllLanguages => desired = None
  BY OscAssumption DEF Aims
<1>8. ASSUME ~AllLanguages, rest # << >>
      PROVE  \E i \in 1..Len(rest) : desired = rest[i]
  <2>1. CASE m.desired = l
    <3>1. 1 \in 1..Len(rest) /\ desired = rest[1]
      BY <1>2, <1>8, <2>1
    <3>. QED BY <3>1
  <2>2. CASE m.desired # l
    <3>1. m.expected # << >>
      <4>1. 1 \in 1..Len(rest)
        BY <1>2, <1>8
      <4>2. g[1] \in 1..Len(m.expected)
        BY <1>4, <4>1
      <4>. QED BY <1>2, <4>2
    <3>2. PICK i \in 1..Len(m.expected) : m.desired = m.expected[i]
      BY <1>8, <3>1 DEF Aims
    <3>3. m.expected[i] \in Langs \ {l}
      BY <1>2, <2>2, <3>2
    <3>4. PICK k \in 1..Len(rest) : g[k] = i
      BY <1>4, <3>3
    <3>5. rest[k] = m.desired /\ desired = m.desired
      BY <1>4, <2>2, <3>2, <3>4
    <3>. QED BY <3>5
  <2>. QED BY <2>1, <2>2
<1>. HIDE DEF desired
<1>9. /\ next \in Message /\ next.expected = rest /\ next.desired = desired
      /\ next.failed = m.failed
  BY <1>2, <1>6 DEF Message
<1>. HIDE DEF next
<1>10. Aims(next)
  BY <1>5, <1>7, <1>8, <1>9 DEF Aims
<1>11. CASE AllTargetsResolved(next)
  BY <1>1, <1>9, <1>10, <1>11, ReadyAims
<1>12. CASE ~AllTargetsResolved(next)
  BY <1>1, <1>10, <1>12 DEF Resolves
<1>. QED BY <1>11, <1>12

(***************************************************************************)
(* The messages of a queue know their aims.                                *)
(***************************************************************************)
AllAim(q) == \A k \in 1..Len(q) : Aims(q[k]) /\ Resolves(q[k])

\* They do in what a retain leaves of it ...
LEMMA KeepAims ==
  ASSUME NEW q \in Seq(Message), NEW M, AllAim(q)
  PROVE  AllAim(Keep(q, M))
<1>. DEFINE r == Keep(q, M)
<1>1. PICK g : Embeds(g, r, q, Len(q), M)
  BY KeepProperties
<1>. HIDE DEF r
<1>2. AllAim(r)
  BY <1>1 DEF Embeds, AllAim
<1>. QED BY <1>2 DEF r

\* ... and when a message that knows its own joins them.
LEMMA EnqueueAims ==
  ASSUME NEW q \in Seq(Message), NEW m \in Message, NEW priority \in BOOLEAN,
         AllAim(q), Aims(m), Resolves(m)
  PROVE  AllAim(Enqueue(q, m, priority).queue)
<1>. DEFINE r == Enqueue(q, m, priority)
            v == Victim(q, m, priority)
<1>0. DisplayCapacity \in Nat \ {0} /\ Len(q) \in Nat
  BY OscAssumption
<1>1. ASSUME NEW base \in Seq(Message), AllAim(base)
      PROVE  AllAim(Insert(base, m, priority))
  <2>. DEFINE i == IF priority THEN FirstAutomatic(base) ELSE Len(base)+1
              t == Insert(base, m, priority)
  <2>1. InsertedAt(t, base, m, i)
    BY InsertShape
  <2>. HIDE DEF i, t
  <2>2. \A j \in 1..Len(t) : t[j] = m \/ \E k \in 1..Len(base) : t[j] = base[k]
    <3>. TAKE j \in 1..Len(t)
    <3>1. /\ Len(t) = Len(base) + 1 /\ i \in 1..Len(base)+1
          /\ t[j] = IF j < i THEN base[j] ELSE IF j = i THEN m ELSE base[j-1]
      BY <2>1 DEF InsertedAt
    <3>2. CASE j < i
      <4>1. j \in 1..Len(base) /\ t[j] = base[j]
        BY <3>1, <3>2
      <4>. QED BY <4>1
    <3>3. CASE j = i
      BY <3>1, <3>3
    <3>4. CASE j > i
      <4>1. j-1 \in 1..Len(base) /\ t[j] = base[j-1]
        BY <3>1, <3>4
      <4>. QED BY <4>1
    <3>. QED BY <3>1, <3>2, <3>3, <3>4
  <2>3. AllAim(t)
    BY <1>1, <2>2 DEF AllAim
  <2>. QED BY <2>3 DEF t
<1>2. CASE Len(q) < DisplayCapacity
  <2>1. r.queue = Insert(q, m, priority)
    BY <1>2 DEF Enqueue
  <2>. QED BY <1>1, <2>1
<1>3. CASE Len(q) >= DisplayCapacity /\ v = 0
  <2>1. r.queue = q
    BY <1>0, <1>3 DEF Enqueue
  <2>. QED BY <2>1
<1>4. CASE Len(q) >= DisplayCapacity /\ v # 0
  <2>. DEFINE base == RemoveAt(q, v)
  <2>1. v \in 1..Len(q)
    <3>1. FirstAutomatic(q) \in 1..Len(q)+1
      BY FirstInProperties DEF FirstAutomatic
    <3>. QED BY <3>1, <1>0, <1>4 DEF Victim
  <2>2. r.queue = Insert(base, m, priority)
    BY <1>0, <1>4 DEF Enqueue
  <2>. HIDE DEF r, v
  <2>3. /\ base \in Seq(Message) /\ Len(base) = Len(q) - 1
        /\ \A j \in 1..Len(q)-1 : base[j] = IF j < v THEN q[j] ELSE q[j+1]
    BY <2>1, RemoveAtProperties
  <2>. HIDE DEF base
  <2>4. \A j \in 1..Len(base) : \E k \in 1..Len(q) : base[j] = q[k]
    <3>. TAKE j \in 1..Len(base)
    <3>1. j \in 1..Len(q) /\ j+1 \in 1..Len(q) /\ base[j] \in {q[j], q[j+1]}
      BY <1>0, <2>3
    <3>. QED BY <3>1
  <2>5. AllAim(base)
    BY <2>4 DEF AllAim
  <2>. QED BY <1>1, <2>2, <2>3, <2>5 DEF r
<1>. QED BY <1>0, <1>2, <1>3, <1>4

\* A failed translation leaves messages that know their aims.
LEMMA OnFirstFailAims ==
  ASSUME NEW q \in Seq(Message), NEW s, NEW l \in Langs, AllAim(q)
  PROVE  AllAim(OnFirst(q, s, LAMBDA m : Fail(m, l)))
<1>. DEFINE i == FirstIn(q, {m \in ToSet(q) : m.kind = "subtitle" /\ m.id = s})
            r == IF i <= Len(q) THEN [q EXCEPT ![i] = Fail(q[i], l)] ELSE q
<1>1. OnFirst(q, s, LAMBDA m : Fail(m, l)) = r
  BY DEF OnFirst
<1>2. i \in 1..Len(q)+1
  BY FirstInProperties
<1>. HIDE DEF i
<1>3. /\ Len(r) = Len(q)
      /\ \A k \in 1..Len(q) : r[k] = q[k] \/ r[k] = Fail(q[k], l)
  BY <1>2
<1>. HIDE DEF r
<1>4. \A k \in 1..Len(q) : q[k] \in Message
  OBVIOUS
<1>5. AllAim(r)
  BY <1>3, <1>4, FailAims DEF AllAim
<1>. QED BY <1>1, <1>5

\* So does a completed one, whichever set of messages M it is the first of.
LEMMA OnFirstCompleteAims ==
  ASSUME NEW q \in Seq(Message), NEW M, NEW l \in Langs, NEW c \in Contents,
         NEW preferred, AllAim(q)
  PROVE  LET i == FirstIn(q, M)
             r == IF i <= Len(q)
                  THEN [q EXCEPT ![i] = Complete(q[i], l, c, preferred)] ELSE q
         IN  AllAim(r)
<1>. DEFINE i == FirstIn(q, M)
            r == IF i <= Len(q)
                 THEN [q EXCEPT ![i] = Complete(q[i], l, c, preferred)] ELSE q
<1>2. i \in 1..Len(q)+1
  BY FirstInProperties
<1>. HIDE DEF i
<1>3. /\ Len(r) = Len(q)
      /\ \A k \in 1..Len(q) :
           r[k] = q[k] \/ r[k] = Complete(q[k], l, c, preferred)
  BY <1>2
<1>. HIDE DEF r
<1>4. \A k \in 1..Len(q) : q[k] \in Message
  OBVIOUS
<1>5. AllAim(r)
  BY <1>3, <1>4, CompleteAims DEF AllAim
<1>. QED BY <1>5 DEF r, i

\* So does a superseded one.
LEMMA SupersedeInAims ==
  ASSUME NEW q \in Seq(Message), NEW s, NEW l \in Langs, AllAim(q)
  PROVE  AllAim(SupersedeIn(q, s, l))
<1>. DEFINE gone == {m \in ToSet(q) : (m.kind = "subtitle" /\ m.id = s)
                        /\ Keep(m.expected, Langs \ {l}) = << >>}
            kept == Keep(q, ToSet(q) \ gone)
            r == [i \in DOMAIN kept |->
                    IF kept[i].kind = "subtitle" /\ kept[i].id = s
                    THEN Supersede(kept[i], l) ELSE kept[i]]
<1>1. SupersedeIn(q, s, l) = r
  BY DEF SupersedeIn
<1>2. kept \in Seq(Message) /\ AllAim(kept)
  BY DerivedKeep, KeepAims
<1>. HIDE DEF kept
<1>3. \A k \in 1..Len(kept) : kept[k] \in Message
  BY <1>2
<1>4. /\ Len(r) = Len(kept)
      /\ \A k \in 1..Len(kept) : r[k] = kept[k] \/ r[k] = Supersede(kept[k], l)
  BY <1>2
<1>. HIDE DEF r
<1>5. AllAim(r)
  BY <1>2, <1>3, <1>4, SupersedeAims DEF AllAim
<1>. QED BY <1>1, <1>5

\* A new subtitle aims at its first target, or the next of the round robin.
LEMMA NewSubtitleAims ==
  ASSUME TypeOK, NEW e \in Event, e.kind = "subtitle"
  PROVE  LET m == [PlainMessage(e.id, "subtitle", e.generation) EXCEPT
                     !.expected = e.route, !.desired = SelectTarget(e.route),
                     !.wait = IF e.route # << >> THEN Grace ELSE 0]
         IN  Aims(m) /\ Resolves(m)
<1>. DEFINE m == [PlainMessage(e.id, "subtitle", e.generation) EXCEPT
                    !.expected = e.route, !.desired = SelectTarget(e.route),
                    !.wait = IF e.route # << >> THEN Grace ELSE 0]
<1>1. /\ m.expected = e.route /\ m.desired = SelectTarget(e.route)
      /\ m.failed = {} /\ m.translations = Untranslated
  BY DEF PlainMessage
<1>. HIDE DEF m
<1>2. e.route \in Routes
  BY DEF Event
<1>3. /\ e.route \in Seq(Langs)
      /\ \A i, j \in 1..Len(e.route) : e.route[i] = e.route[j] => i = j
  <2>1. e.route \in Seq(Langs) /\ DOMAIN e.route = 1..Len(e.route)
    BY <1>2, OscAssumption
  <2>2. \A i, j \in DOMAIN e.route : e.route[i] = e.route[j] => i = j
    BY <1>2, OscAssumption
  <2>. QED BY <2>1, <2>2
<1>4. IsFiniteSet({})
  BY FS_EmptySet
<1>5. AllLanguages => SelectTarget(e.route) = None
  BY DEF AllLanguages, SelectTarget
<1>6. ASSUME ~AllLanguages, e.route # << >>
      PROVE  \E i \in 1..Len(e.route) : SelectTarget(e.route) = e.route[i]
  <2>1. Len(e.route) \in Nat \ {0} /\ round_robin_index \in Nat
    BY <1>3, <1>6 DEF TypeOK
  <2>2. (round_robin_index % Len(e.route)) + 1 \in 1..Len(e.route)
    <3>1. \A i \in Nat, n \in Nat \ {0} : (i % n) + 1 \in 1..n
      OBVIOUS
    <3>. QED BY <2>1, <3>1
  <2>3. 1 \in 1..Len(e.route) /\ Head(e.route) = e.route[1]
    BY <1>3, <2>1
  <2>4. SelectTarget(e.route) \in
          {e.route[(round_robin_index % Len(e.route)) + 1], e.route[1]}
    BY <1>6, <2>3 DEF SelectTarget, AllLanguages
  <2>. QED BY <2>2, <2>3, <2>4
<1>7. Aims(m)
  BY <1>1, <1>3, <1>4, <1>5, <1>6 DEF Aims
<1>8. ~AllTargetsResolved(m)
  <2>. SUFFICES ASSUME AllTargetsResolved(m) PROVE FALSE
    OBVIOUS
  <2>1. e.route # << >> /\ 1 \in DOMAIN e.route
    BY <1>1, <1>3 DEF AllTargetsResolved
  <2>2. e.route[1] \in Langs
    BY <1>3, <2>1
  <2>3. Untranslated[e.route[1]] # None \/ e.route[1] \in {}
    BY <1>1, <2>1 DEF AllTargetsResolved
  <2>. QED BY <2>2, <2>3 DEF Untranslated
<1>. QED BY <1>7, <1>8 DEF Resolves, m

\* A received event leaves messages that know their aims.
LEMMA ReceiveAims ==
  ASSUME TypeInv, AimInv, Receive
  PROVE  AllAim(queue')
<1>. DEFINE e == Head(channel)
            q == AllowedQueue
<1>1. /\ TypeOK /\ e \in Event
  BY DEF TypeInv, TypeOK, Receive
<1>2. /\ AllowedQueue \in Seq(Message)
      /\ AllowedSent \in {None, current_sent}
      /\ AllowedSent \in SentMessage \cup {None}
  BY <1>1, AllowedFacts
<1>3. AllAim(AllowedQueue)
  BY <1>1, KeepAims DEF AllowedQueue, AimInv, AllAim, TypeOK
<1>4. CASE ReceiveStale(e)
  BY <1>3, <1>4 DEF ReceiveStale
<1>5. CASE ReceiveSubtitle(e)
  <2>. DEFINE m == [PlainMessage(e.id, "subtitle", e.generation) EXCEPT
                     !.expected = e.route, !.desired = SelectTarget(e.route),
                     !.wait = IF e.route # << >> THEN Grace ELSE 0]
  <2>1. e.kind = "subtitle"
    BY <1>5 DEF ReceiveSubtitle
  <2>2. Aims(m) /\ Resolves(m)
    BY <1>1, <2>1, NewSubtitleAims
  <2>3. queue' = Enqueue(AllowedQueue, m, FALSE).queue
    BY <1>5 DEF ReceiveSubtitle, Accept
  <2>4. m \in Message
    <3>1. /\ PlainMessage(e.id, "subtitle", e.generation) \in Message
          /\ e.route \in Seq(Langs)
      BY <1>1, <2>1, EventFields, PlainMessageTyped DEF IdsOf
    <3>2. (IF e.route # << >> THEN Grace ELSE 0) \in 0..Grace
      BY OscAssumption
    <3>3. SelectTarget(e.route) \in Langs \cup {None}
      <4>1. m.expected = e.route /\ m.desired = SelectTarget(e.route)
        BY DEF PlainMessage
      <4>2. \A i \in 1..Len(e.route) : e.route[i] \in Langs
        BY <3>1
      <4>. HIDE DEF m
      <4>. QED BY <2>2, <4>1, <4>2 DEF Aims, SelectTarget
    <3>4. ASSUME NEW p \in Message, NEW x \in Seq(Langs),
                 NEW d \in Langs \cup {None}, NEW w \in 0..Grace
          PROVE  [p EXCEPT !.expected = x, !.desired = d, !.wait = w] \in Message
      BY DEF Message
    <3>. QED BY <3>1, <3>2, <3>3, <3>4
  <2>. HIDE DEF m
  <2>. QED BY <1>2, <1>3, <2>2, <2>3, <2>4, EnqueueAims
<1>6. CASE ReceivePlain(e)
  <2>. DEFINE m == PlainMessage(e.id, e.kind, e.generation)
              priority == e.kind = "manual"
  <2>1. queue' = Enqueue(AllowedQueue, m, priority).queue
    BY <1>6 DEF ReceivePlain, Accept
  <2>2. m \in Message /\ priority \in BOOLEAN
    <3>1. /\ e.kind \in {"manual", "test"} /\ e.id \in IdsOf[e.kind]
          /\ e.generation \in Nat
      BY <1>1, <1>6, EventFields DEF ReceivePlain, IdsOf
    <3>. QED BY <3>1, PlainMessageTyped
  <2>3. m.expected = << >> /\ m.desired = None /\ m.failed = {}
    BY DEF PlainMessage
  <2>. HIDE DEF m, priority
  <2>4. Aims(m) /\ Resolves(m)
    BY <2>3, FS_EmptySet DEF Aims, Resolves, AllTargetsResolved
  <2>. QED BY <1>2, <1>3, <2>1, <2>2, <2>4, EnqueueAims
<1>7. CASE ReceiveFailed(e)
  <2>1. e.lang \in Langs
    BY <1>1, <1>7, EventFields DEF ReceiveFailed
  <2>2. queue' = OnFirst(AllowedQueue, e.id, LAMBDA m : Fail(m, e.lang))
    BY <1>7 DEF ReceiveFailed
  <2>. QED BY <1>2, <1>3, <2>1, <2>2, OnFirstFailAims
<1>8. CASE ReceiveSuperseded(e)
  <2>1. e.lang \in Langs
    BY <1>1, <1>8, EventFields DEF ReceiveSuperseded
  <2>2. queue' = SupersedeIn(AllowedQueue, e.id, e.lang)
    BY <1>8 DEF ReceiveSuperseded
  <2>. QED BY <1>2, <1>3, <2>1, <2>2, SupersedeInAims
<1>9. ASSUME NEW preferred \in BOOLEAN, ReceiveCompleted(e, preferred)
      PROVE  AllAim(queue')
  <2>. DEFINE late == [AllowedSent.message EXCEPT !.wait = 0]
              refresh == /\ ~IsQueued(q, e.id)
                         /\ Refreshable(AllowedSent, e.id, e.lang, e.content)
              done(s) == OnFirst(s, e.id,
                           LAMBDA m : Complete(m, e.lang, e.content, preferred))
  <2>1. e.lang \in Langs /\ e.content \in Contents
    BY <1>1, <1>9, EventFields DEF ReceiveCompleted
  <2>2. ASSUME NEW s \in Seq(Message), AllAim(s)
        PROVE  AllAim(done(s))
    <3>. DEFINE M == {m \in ToSet(s) : m.kind = "subtitle" /\ m.id = e.id}
                i == FirstIn(s, M)
                r == IF i <= Len(s)
                     THEN [s EXCEPT ![i] =
                             Complete(s[i], e.lang, e.content, preferred)]
                     ELSE s
    <3>1. done(s) = r
      BY DEF OnFirst
    <3>. HIDE DEF M
    <3>2. AllAim(r)
      BY <2>1, <2>2, OnFirstCompleteAims
    <3>. QED BY <3>1, <3>2
  <2>3. /\ refresh => queue' = done(Enqueue(q, late, TRUE).queue)
        /\ ~refresh => queue' = done(q)
    BY <1>9 DEF ReceiveCompleted
  <2>. HIDE DEF done
  <2>4. CASE ~refresh
    BY <1>2, <1>3, <2>2, <2>3, <2>4
  <2>5. CASE refresh
    <3>1. /\ AllowedSent # None /\ AllowedSent.message \in Message
          /\ Aims(AllowedSent.message)
      BY <1>2, <2>5 DEF Refreshable, SentMessage, AimInv
    <3>2. late \in Message /\ Aims(late) /\ Resolves(late)
      BY <3>1, ReadyTyped, ReadyAims
    <3>. HIDE DEF late
    <3>3. Enqueue(q, late, TRUE).queue \in Seq(Message)
      <4>1. Len(AllowedQueue) <= DisplayCapacity
        BY <1>1, AllowedFacts
      <4>. QED BY <1>2, <3>2, <4>1, EnqueueTyped
    <3>4. AllAim(Enqueue(q, late, TRUE).queue)
      BY <1>2, <1>3, <3>2, EnqueueAims
    <3>. QED BY <2>2, <2>3, <2>5, <3>3, <3>4
  <2>. QED BY <2>4, <2>5
<1>. QED BY <1>4, <1>5, <1>6, <1>7, <1>8, <1>9 DEF Receive

(***************************************************************************)
(* While the configuration stays, the new queue, message being sent and    *)
(* message on display may be judged by the old one.                        *)
(***************************************************************************)
LEMMA AimsKept ==
  ASSUME wconfig'.config = wconfig.config, AllAim(queue'),
         Sending' => Aims(inflight'),
         current_sent' # None => Aims(current_sent'.message)
  PROVE  AimInv'
BY DEF AimInv, AllAim, Aims, Resolves, AllLanguages, AllTargetsResolved

\* What a tick leaves in the queue or starts to send knows its aims.
LEMMA TickAims ==
  ASSUME TypeOK, AllAim(queue), Tick
  PROVE  AllAim(queue') /\ (Sending' => Aims(inflight'))
<1>1. AllowedQueue \in Seq(Message) /\ AllAim(AllowedQueue)
  BY AllowedFacts, KeepAims DEF AllowedQueue, TypeOK
<1>2. ManualsOf(AllowedQueue) \in Seq(Message) /\ AllAim(ManualsOf(AllowedQueue))
  BY <1>1, ManualsOfFacts, KeepAims DEF ManualsOf
<1>3. << >> \in Seq(Message) /\ AllAim(<< >>)
  BY DEF AllAim
<1>4. TickQueue \in Seq(Message) /\ AllAim(TickQueue)
  BY <1>1, <1>2, <1>3 DEF TickQueue
<1>5. \/ queue' = TickQueue /\ ~Sending'
      \/ TickQueue # << >> /\ queue' = Tail(TickQueue)
         /\ inflight' = Head(TickQueue)
  BY DEF Tick, Sending
<1>6. ASSUME TickQueue # << >>, queue' = Tail(TickQueue),
             inflight' = Head(TickQueue)
      PROVE  AllAim(queue') /\ Aims(inflight')
  <2>1. Len(TickQueue) \in Nat \ {0}
    BY <1>4, <1>6
  <2>2. 1 \in 1..Len(TickQueue) /\ inflight' = TickQueue[1]
    BY <1>4, <1>6, <2>1
  <2>3. \A k \in 1..Len(queue') :
          k+1 \in 1..Len(TickQueue) /\ queue'[k] = TickQueue[k+1]
    BY <1>4, <1>6, <2>1
  <2>. QED BY <1>4, <2>2, <2>3 DEF AllAim
<1>. QED BY <1>4, <1>5, <1>6

\* Time makes messages ready; it changes no aim.
LEMMA AdvanceAims ==
  ASSUME TypeOK, AllAim(queue), Advance
  PROVE  AllAim(queue')
<1>1. \A k \in 1..Len(queue) : queue[k] \in Message
  BY DEF TypeOK
<1>2. /\ Len(queue') = Len(queue)
      /\ \A k \in 1..Len(queue) :
           queue'[k] = [queue[k] EXCEPT !.wait = Less(queue[k].wait)]
  <2>. DEFINE aged(m) == [m EXCEPT !.wait = Less(m.wait)]
  <2>1. Len(queue) \in Nat /\ DOMAIN queue = 1..Len(queue)
    BY DEF TypeOK
  <2>2. queue' = [i \in 1..Len(queue) |-> aged(queue[i])]
    BY <2>1 DEF Advance
  <2>. HIDE DEF aged
  <2>3. /\ Len(queue') = Len(queue)
        /\ \A k \in 1..Len(queue) : queue'[k] = aged(queue[k])
    BY <2>1, <2>2
  <2>. QED BY <2>3 DEF aged
<1>3. ASSUME NEW m \in Message, Aims(m), Resolves(m)
      PROVE  Aims([m EXCEPT !.wait = Less(m.wait)])
             /\ Resolves([m EXCEPT !.wait = Less(m.wait)])
  <2>. DEFINE r == [m EXCEPT !.wait = Less(m.wait)]
  <2>1. /\ r.expected = m.expected /\ r.failed = m.failed
        /\ r.desired = m.desired /\ r.translations = m.translations
        /\ m.wait = 0 => r.wait = 0
    BY DEF Message, Less
  <2>. HIDE DEF r
  <2>2. Aims(r) /\ Resolves(r)
    BY <1>3, <2>1 DEF Aims, Resolves, AllTargetsResolved
  <2>. QED BY <2>2 DEF r
<1>. QED BY <1>1, <1>2, <1>3 DEF AllAim

\* Every step keeps the aims of what the worker holds.
LEMMA AimStep ==
  ASSUME TypeInv, AdmittedInv, AimInv, [Next]_vars
  PROVE  AimInv'
<1>0. /\ TypeOK /\ queue \in Seq(Message) /\ AllAim(queue)
      /\ Sending => Aims(inflight)
      /\ current_sent # None => Aims(current_sent.message)
      /\ AllowedSent # None => AllowedSent = current_sent
      /\ wconfig.config_revision = config.config_revision =>
           wconfig.config = config.config
  BY DEF TypeInv, TypeOK, AimInv, AllAim, AllowedSent, AdmittedInv
<1>1. AllowedQueue \in Seq(Message) /\ AllAim(AllowedQueue)
  BY <1>0, AllowedFacts, KeepAims DEF AllowedQueue
<1>2. CASE TakeConfig
  <2>1. ~Sending' /\ wconfig' = config
    BY <1>2 DEF TakeConfig, Sending, Adopted
  <2>2. CASE config.config_revision # wconfig.config_revision
    <3>1. Len(queue') = 0 /\ current_sent' = None
      BY <1>2, <2>2 DEF TakeConfig
    <3>. QED BY <2>1, <3>1 DEF AimInv
  <2>3. CASE config.config_revision = wconfig.config_revision
    <3>1. /\ queue' \in {AllowedQueue, ManualsOf(AllowedQueue)}
          /\ current_sent' \in {None, AllowedSent}
      BY <1>2, <2>3 DEF TakeConfig
    <3>2. AllAim(ManualsOf(AllowedQueue))
      BY <1>1, KeepAims DEF ManualsOf
    <3>3. AllAim(queue')
      BY <1>1, <3>1, <3>2
    <3>4. current_sent' # None => Aims(current_sent'.message)
      BY <1>0, <3>1
    <3>5. wconfig'.config = wconfig.config
      BY <1>0, <2>1, <2>3
    <3>. QED BY <2>1, <3>3, <3>4, <3>5, AimsKept
  <2>. QED BY <2>2, <2>3
<1>3. CASE Receive
  <2>1. ~Sending' /\ wconfig' = wconfig /\ current_sent' = AllowedSent
    BY <1>3 DEF Receive, Sending
  <2>. QED BY <1>0, <1>3, <2>1, ReceiveAims, AimsKept
<1>4. CASE Tick
  <2>1. wconfig' = wconfig /\ current_sent' = AllowedSent
    BY <1>4 DEF Tick
  <2>. QED BY <1>0, <1>4, <2>1, TickAims, AimsKept
<1>5. CASE PollEvents \/ ArmAutomatic \/ WouldBlock
  <2>1. /\ UNCHANGED <<wconfig, queue, current_sent, inflight>>
        /\ Sending' => Sending
    BY <1>5 DEF PollEvents, ArmAutomatic, WouldBlock, Sending
  <2>. QED BY <1>0, <2>1, AimsKept
<1>6. CASE FilterInflight \/ FailSend
  <2>1. UNCHANGED <<wconfig, queue, current_sent>> /\ ~Sending'
    BY <1>6 DEF FilterInflight, FailSend, Sending
  <2>. QED BY <1>0, <2>1, AimsKept
<1>7. CASE CancelByConfig
  <2>1. Len(queue') = 0 /\ current_sent' = None /\ ~Sending'
    BY <1>7 DEF CancelByConfig, Sending
  <2>. QED BY <2>1 DEF AimInv
<1>8. CASE Deliver
  <2>1. /\ ~Sending' /\ Sending /\ wconfig' = wconfig /\ queue' = AfterSend
        /\ current_sent' = IF inflight.kind = "subtitle"
                     THEN [message |-> inflight, age |-> 0] ELSE None
    BY <1>8 DEF Deliver, MayWrite, Sending
  <2>2. AllAim(AfterSend)
    BY <1>0, KeepAims DEF AfterSend
  <2>3. current_sent' # None => Aims(current_sent'.message)
    BY <1>0, <2>1
  <2>. QED BY <2>1, <2>2, <2>3, AimsKept
<1>9. CASE Advance
  <2>1. /\ UNCHANGED <<phase, wconfig, inflight>>
        /\ current_sent = None => current_sent' = None
        /\ current_sent # None => current_sent'.message = current_sent.message
    BY <1>0, <1>9, AdvanceFacts DEF Advance
  <2>2. Sending' => Aims(inflight')
    BY <1>0, <2>1 DEF Sending
  <2>3. current_sent' # None => Aims(current_sent'.message)
    BY <1>0, <2>1
  <2>. QED BY <1>0, <1>9, <2>1, <2>2, <2>3, AdvanceAims, AimsKept
<1>10. CASE Caller
  <2>1. UNCHANGED worker
    BY <1>10 DEF Caller, PublishSubtitle, ReportResult, QueueTest, SendManual,
         ManualTimeout, UpdateConfig, UpdateMuteStatus, Install
  <2>. QED BY <1>0, <2>1, AimsKept DEF worker, Sending
<1>11. CASE (\E s \in Filterable : FilterSpeaker(s)) \/ UNCHANGED vars
  <2>1. UNCHANGED worker
    BY <1>11 DEF FilterSpeaker, vars
  <2>. QED BY <1>0, <2>1, AimsKept DEF worker, Sending
<1>. QED BY <1>2, <1>3, <1>4, <1>5, <1>6, <1>7, <1>8, <1>9, <1>10, <1>11
         DEF Next, Worker

\* What the worker holds knows its aims in every reachable state.
LEMMA AimAlways == Spec => []AimInv
<1>1. Init => AimInv
  <2>. SUFFICES ASSUME Init PROVE AimInv
    OBVIOUS
  <2>1. Len(queue) = 0 /\ ~Sending /\ current_sent = None
    BY DEF Init, Sending
  <2>. QED BY <2>1 DEF AimInv
<1>. QED BY <1>1, AimStep, TypeAlways, AdmittedAlways, PTL DEF Spec

(***************************************************************************)
(* A queued subtitle stops waiting when the last of its targets has been   *)
(* translated, has failed or has gone with a later subtitle, in whatever   *)
(* order the results arrive.                                               *)
(***************************************************************************)
THEOREM ResolvedSubtitlesAreReady == Spec => []ResolvedIsReady
<1>1. TypeInv /\ AimInv => ResolvedIsReady
  <2>1. TypeInv => DOMAIN queue = 1..Len(queue)
    BY DEF TypeInv, TypeOK
  <2>. QED BY <2>1 DEF AimInv, ResolvedIsReady, Resolves, AllLanguages
<1>. QED BY <1>1, TypeAlways, AimAlways, PTL

-----------------------------------------------------------------------------
(* Subtitles in their order                                                *)

\* Every subtitle of q (a queue, or the channel) is newer than those before.
Rising(q) ==
  \A i, j \in 1..Len(q) :
    i < j /\ q[i].kind = "subtitle" /\ q[j].kind = "subtitle"
      => q[i].id < q[j].id

\* m is newer than all shown, or a refresh of the subtitle on display.
Fresh(m) ==
  \/ m.id > newest
  \/ current_sent # None /\ m.id = current_sent.message.id

(***************************************************************************)
(* What is shown, what is being sent, the queue and the channel hold       *)
(* subtitles in the order in which they were published; only the subtitle  *)
(* on display may be there a second time, as its refresh.                  *)
(***************************************************************************)
ShownOrder ==
  /\ newest <= published
  /\ current_sent # None =>
       /\ current_sent.message.kind = "subtitle"
       /\ current_sent.message.id = newest /\ display = newest

QueueOrder ==
  /\ Rising(queue)
  /\ \A k \in 1..Len(queue) : queue[k].kind = "subtitle" =>
       queue[k].id <= published /\ Fresh(queue[k])

ChannelOrder ==
  /\ Rising(channel)
  /\ \A i \in 1..Len(channel) : channel[i].kind = "subtitle" =>
       /\ newest < channel[i].id /\ channel[i].id <= published
       /\ \A k \in 1..Len(queue) : queue[k].kind = "subtitle" =>
            queue[k].id < channel[i].id

InflightOrder ==
  Sending /\ inflight.kind = "subtitle" =>
    /\ inflight.id <= published /\ Fresh(inflight)
    /\ \A k \in 1..Len(queue) : queue[k].kind = "subtitle" =>
         inflight.id < queue[k].id
    /\ \A i \in 1..Len(channel) : channel[i].kind = "subtitle" =>
         inflight.id < channel[i].id

OrderInv == ShownOrder /\ QueueOrder /\ ChannelOrder /\ InflightOrder

\* Order is inherited by what derives from an ordered queue.
LEMMA DerivedRising ==
  ASSUME NEW q, NEW r, Derived(r, q), Rising(q)
  PROVE  Rising(r)
<1>1. PICK g \in [1..Len(r) -> 1..Len(q)] :
        /\ \A j, k \in 1..Len(r) : j < k => g[j] < g[k]
        /\ \A k \in 1..Len(r) : SameMessage(r[k], q[g[k]])
  BY DEF Derived
<1>. QED BY <1>1, SMTT(30) DEF Rising, SameMessage

\* Popping the channel.
LEMMA ChannelTail ==
  ASSUME channel \in Seq(Event), channel # << >>
  PROVE  Derived(Tail(channel), channel)
<1>. DEFINE r == Tail(channel)
            g == [k \in 1..Len(channel)-1 |-> k+1]
<1>1. /\ Len(r) = Len(channel) - 1
      /\ \A j \in 1..Len(channel)-1 : r[j] = channel[j+1]
  OBVIOUS
<1>. HIDE DEF r
<1>2. g \in [1..Len(r) -> 1..Len(channel)]
  BY <1>1
<1>3. \A j, k \in 1..Len(r) : j < k => g[j] < g[k]
  BY <1>1
<1>4. \A k \in 1..Len(r) : SameMessage(r[k], channel[g[k]])
  BY <1>1 DEF SameMessage
<1>. HIDE DEF g
<1>5. Derived(r, channel)
  BY <1>2, <1>3, <1>4 DEF Derived
<1>. QED BY <1>5 DEF r

\* The channel derives from itself.
LEMMA ChannelRefl ==
  ASSUME channel \in Seq(Event)
  PROVE  Derived(channel, channel)
<1>. DEFINE g == [k \in 1..Len(channel) |-> k]
<1>1. /\ g \in [1..Len(channel) -> 1..Len(channel)]
      /\ \A j, k \in 1..Len(channel) : j < k => g[j] < g[k]
      /\ \A k \in 1..Len(channel) : SameMessage(channel[k], channel[g[k]])
  BY DEF SameMessage
<1>. HIDE DEF g
<1>. QED BY <1>1 DEF Derived

(***************************************************************************)
(* Ids are numbers where they are compared.                                *)
(***************************************************************************)
LEMMA OrderTyped ==
  ASSUME TypeInv
  PROVE  /\ newest \in Nat /\ published \in Nat
         /\ \A k \in 1..Len(queue) :
              queue[k].kind = "subtitle" => queue[k].id \in Nat
         /\ \A i \in 1..Len(channel) :
              channel[i].kind = "subtitle" => channel[i].id \in Nat
         /\ Sending /\ inflight.kind = "subtitle" => inflight.id \in Nat
<1>1. /\ queue \in Seq(Message) /\ channel \in Seq(Event)
      /\ newest \in Subtitles \cup {0} /\ published \in Subtitles \cup {0}
  BY DEF TypeInv, TypeOK
<1>2. Subtitles \subseteq Nat
  BY OscAssumption DEF Subtitles
<1>3. \A k \in 1..Len(queue) : queue[k] \in Message
  BY <1>1
<1>4. \A i \in 1..Len(channel) : channel[i] \in Event
  BY <1>1
<1>5. Sending => inflight \in Message
  BY DEF TypeInv
<1>6. \A k \in 1..Len(queue) :
        queue[k].kind = "subtitle" => queue[k].id \in Nat
  BY <1>2, <1>3, MessageFields
<1>7. \A i \in 1..Len(channel) :
        channel[i].kind = "subtitle" => channel[i].id \in Nat
  BY <1>2, <1>4, EventFields
<1>8. Sending /\ inflight.kind = "subtitle" => inflight.id \in Nat
  BY <1>2, <1>5, MessageFields
<1>. QED BY <1>1, <1>2, <1>6, <1>7, <1>8

(***************************************************************************)
(* Steps that show nothing and let nothing in: what is left stays in its   *)
(* order, and a refresh leaves when the message on display is forgotten.   *)
(***************************************************************************)
LEMMA OrderKept ==
  ASSUME TypeInv, OrderInv, UNCHANGED <<newest, display, published>>,
         Derived(queue', queue), Derived(channel', channel),
         Sending' => Sending /\ inflight' = inflight,
         current_sent' # None =>
           /\ current_sent # None
           /\ current_sent'.message = current_sent.message,
         current_sent' = None /\ current_sent # None =>
           /\ ~Sending'
           /\ \A k \in 1..Len(queue') : queue'[k].kind = "subtitle" =>
                queue'[k].id # current_sent.message.id
  PROVE  OrderInv'
<1>1. \A k \in 1..Len(queue') : \E n \in 1..Len(queue) :
        queue'[k].id = queue[n].id /\ queue'[k].kind = queue[n].kind
  BY DerivedMember DEF SameMessage
<1>2. \A i \in 1..Len(channel') : \E n \in 1..Len(channel) :
        channel'[i].id = channel[n].id /\ channel'[i].kind = channel[n].kind
  BY DerivedMember DEF SameMessage
<1>3. Rising(queue') /\ Rising(channel')
  BY DerivedRising DEF OrderInv, QueueOrder, ChannelOrder
<1>4. ShownOrder'
  BY DEF OrderInv, ShownOrder
<1>5. QueueOrder'
  <2>1. ASSUME NEW k \in 1..Len(queue'), queue'[k].kind = "subtitle"
        PROVE  queue'[k].id <= published' /\ Fresh(queue[k])'
    <3>1. PICK n \in 1..Len(queue) :
            queue'[k].id = queue[n].id /\ queue'[k].kind = queue[n].kind
      BY <1>1
    <3>2. queue[n].id <= published /\ Fresh(queue[n])
      BY <2>1, <3>1 DEF OrderInv, QueueOrder
    <3>. QED BY <2>1, <3>1, <3>2 DEF Fresh
  <2>. QED BY <1>3, <2>1 DEF QueueOrder
<1>6. ChannelOrder'
  <2>1. ASSUME NEW i \in 1..Len(channel'), channel'[i].kind = "subtitle"
        PROVE  /\ newest' < channel'[i].id /\ channel'[i].id <= published'
               /\ \A k \in 1..Len(queue') : queue'[k].kind = "subtitle" =>
                    queue'[k].id < channel'[i].id
    BY ZenonT(30), <1>1, <1>2, <2>1 DEF OrderInv, ChannelOrder
  <2>. QED BY <1>3, <2>1 DEF ChannelOrder
<1>7. InflightOrder'
  <2>. SUFFICES ASSUME Sending', inflight'.kind = "subtitle"
                PROVE  /\ inflight'.id <= published' /\ Fresh(inflight)'
                       /\ \A k \in 1..Len(queue') :
                            queue'[k].kind = "subtitle" =>
                              inflight'.id < queue'[k].id
                       /\ \A i \in 1..Len(channel') :
                            channel'[i].kind = "subtitle" =>
                              inflight'.id < channel'[i].id
    BY DEF InflightOrder
  <2>1. Sending /\ inflight' = inflight
    OBVIOUS
  <2>2. /\ inflight.id <= published /\ Fresh(inflight)
        /\ \A k \in 1..Len(queue) : queue[k].kind = "subtitle" =>
             inflight.id < queue[k].id
        /\ \A i \in 1..Len(channel) : channel[i].kind = "subtitle" =>
             inflight.id < channel[i].id
    BY <2>1 DEF OrderInv, InflightOrder
  <2>. QED BY <1>1, <1>2, <2>1, <2>2 DEF Fresh
<1>. QED BY <1>4, <1>5, <1>6, <1>7 DEF OrderInv

(***************************************************************************)
(* When the speaker of the subtitle on display is not allowed any more,    *)
(* its refresh leaves the queue together with it.                          *)
(***************************************************************************)
LEMMA AllowedForgets ==
  ASSUME TypeInv, OrderInv, NEW r, Derived(r, AllowedQueue),
         AllowedSent # current_sent
  PROVE  /\ AllowedSent = None /\ current_sent # None
         /\ \A k \in 1..Len(r) : r[k].kind = "subtitle" =>
              r[k].id # current_sent.message.id
<1>1. /\ AllowedSent = None /\ current_sent # None
      /\ ~SpeakerAllowed(current_sent.message)
  BY DEF AllowedSent
<1>2. current_sent.message.id \in blocked
  BY <1>1 DEF SpeakerAllowed
<1>3. \A n \in 1..Len(AllowedQueue) :
        AllowedQueue[n].kind = "subtitle" => AllowedQueue[n].id \notin blocked
  BY AllowedFacts DEF SpeakerAllowed, TypeInv
<1>4. \A k \in 1..Len(r) : \E n \in 1..Len(AllowedQueue) :
        r[k].id = AllowedQueue[n].id /\ r[k].kind = AllowedQueue[n].kind
  BY DerivedMember DEF SameMessage
<1>. QED BY <1>1, <1>2, <1>3, <1>4

(***************************************************************************)
(* Publishing a subtitle appends the newest of all; no other event of the  *)
(* channel brings a subtitle in.                                           *)
(***************************************************************************)
LEMMA OrderSent ==
  ASSUME TypeInv, OrderInv, NEW e, TrySend(e),
         UNCHANGED <<queue, newest, display, current_sent, phase, inflight>>,
         published' \in Nat, published <= published',
         e.kind = "subtitle" =>
           e.id \in Nat /\ published < e.id /\ e.id <= published'
  PROVE  OrderInv'
<1>0. channel \in Seq(Event)
  BY DEF TypeInv, TypeOK
<1>1. CASE channel' = channel
  BY <1>1, OrderTyped DEF OrderInv, ShownOrder, QueueOrder, ChannelOrder,
       InflightOrder, Fresh, Sending, Rising
<1>2. CASE channel' = Append(channel, e)
  <2>1. /\ Len(channel') = Len(channel) + 1
        /\ \A i \in 1..Len(channel) : channel'[i] = channel[i]
        /\ channel'[Len(channel)+1] = e
    BY <1>0, <1>2
  <2>2. \A i \in 1..Len(channel') : i \in 1..Len(channel) \/ i = Len(channel)+1
    BY <1>0, <2>1
  <2>3. \A i \in 1..Len(channel) : channel[i].kind = "subtitle" =>
          channel[i].id <= published /\ channel[i].id \in Nat
    BY OrderTyped DEF OrderInv, ChannelOrder
  <2>4. Rising(channel')
    <3>. SUFFICES ASSUME NEW i \in 1..Len(channel'), NEW j \in 1..Len(channel'),
                         i < j, channel'[i].kind = "subtitle",
                         channel'[j].kind = "subtitle"
                  PROVE  channel'[i].id < channel'[j].id
      BY DEF Rising
    <3>1. i \in 1..Len(channel)
      BY <1>0, <2>1, <2>2
    <3>2. CASE j \in 1..Len(channel)
      <4>1. channel'[i] = channel[i] /\ channel'[j] = channel[j]
        BY <2>1, <3>1, <3>2
      <4>2. Rising(channel)
        BY DEF OrderInv, ChannelOrder
      <4>. QED BY <3>1, <3>2, <4>1, <4>2 DEF Rising
    <3>3. CASE j = Len(channel)+1
      <4>1. channel'[i] = channel[i] /\ channel'[j] = e
        BY <2>1, <3>1, <3>3
      <4>2. channel[i].id \in Nat /\ channel[i].id <= published /\ published < e.id
        BY <2>3, <3>1, <4>1
      <4>3. published \in Nat /\ e.id \in Nat
        BY <4>1, OrderTyped
      <4>. QED BY <4>1, <4>2, <4>3, OrderTyped
    <3>. QED BY <2>2, <3>2, <3>3
  <2>5. ASSUME NEW i \in 1..Len(channel'), channel'[i].kind = "subtitle"
        PROVE  /\ newest < channel'[i].id /\ channel'[i].id <= published'
               /\ \A k \in 1..Len(queue) : queue[k].kind = "subtitle" =>
                    queue[k].id < channel'[i].id
               /\ Sending /\ inflight.kind = "subtitle" =>
                    inflight.id < channel'[i].id
    <3>1. CASE i \in 1..Len(channel)
      <4>1. channel'[i] = channel[i]
        BY <2>1, <3>1
      <4>. QED BY <2>3, <2>5, <3>1, <4>1, OrderTyped
               DEF OrderInv, ChannelOrder, InflightOrder
    <3>2. CASE i = Len(channel)+1
      <4>1. channel'[i] = e
        BY <2>1, <3>2
      <4>. QED BY <2>5, <4>1, OrderTyped
               DEF OrderInv, ShownOrder, QueueOrder, InflightOrder
    <3>. QED BY <2>2, <3>1, <3>2
  <2>6. ShownOrder' /\ QueueOrder'
    BY OrderTyped DEF OrderInv, ShownOrder, QueueOrder, Fresh
  <2>7. ChannelOrder'
    BY <2>4, <2>5 DEF ChannelOrder
  <2>8. InflightOrder'
    <3>1. Sending' = Sending /\ inflight' = inflight
      BY DEF Sending
    <3>. QED BY <2>5, <3>1, OrderTyped DEF OrderInv, InflightOrder, Fresh
  <2>. QED BY <2>6, <2>7, <2>8 DEF OrderInv
<1>. QED BY <1>1, <1>2 DEF TrySend

\* No call of the handle disturbs the order.
LEMMA OrderCaller ==
  ASSUME TypeInv, OrderInv, Caller
  PROVE  OrderInv'
<1>0. published \in Nat
  BY OrderTyped
<1>1. UNCHANGED <<queue, newest, display, current_sent, phase, inflight>>
  BY ZenonT(60) DEF Caller, PublishSubtitle, ReportResult, QueueTest,
       SendManual, ManualTimeout, UpdateConfig, UpdateMuteStatus, Install,
       worker, history
<1>2. CASE channel' = channel /\ published' \in {published, published+1}
  <2>1. published' \in Nat /\ published <= published'
    BY <1>0, <1>2
  <2>. QED BY <1>1, <1>2, <2>1, OrderTyped DEF OrderInv, ShownOrder,
       QueueOrder, ChannelOrder, InflightOrder, Fresh, Sending, Rising
<1>3. ASSUME NEW e, TrySend(e), e.kind # "subtitle", published' = published
      PROVE  OrderInv'
  BY <1>0, <1>1, <1>3, OrderSent
<1>4. ASSUME NEW route \in Routes, PublishSubtitle(route)
      PROVE  OrderInv'
  <2>. DEFINE e == [kind |-> "subtitle", id |-> published',
                    generation |-> config.automatic_revision,
                    route |-> route]
  <2>1. published' = published + 1 /\ (TrySend(e) \/ channel' = channel)
    BY <1>4 DEF PublishSubtitle
  <2>2. e.id = published'
    OBVIOUS
  <2>. HIDE DEF e
  <2>. QED BY <1>0, <1>1, <1>2, <2>1, <2>2, OrderSent
<1>5. ASSUME NEW kind \in {"completed", "superseded", "failed"}, NEW s, NEW l,
             NEW c, ReportResult(kind, s, l, c)
      PROVE  OrderInv'
  <2>. DEFINE e == IF kind = "failed"
                   THEN [kind |-> kind, id |-> s, lang |-> l,
                         generation |-> config.automatic_revision]
                   ELSE [kind |-> kind, id |-> s, lang |-> l,
                         generation |-> config.automatic_revision,
                         content |-> c]
  <2>1. e.kind # "subtitle"
    OBVIOUS
  <2>2. published' = published /\ (TrySend(e) \/ channel' = channel)
    BY <1>5 DEF ReportResult
  <2>. HIDE DEF e
  <2>. QED BY <1>2, <1>3, <2>1, <2>2
<1>6. ASSUME NEW t \in Tests, QueueTest(t)
      PROVE  OrderInv'
  BY <1>2, <1>3, <1>6 DEF QueueTest
<1>7. ASSUME NEW m \in Manuals, SendManual(m)
      PROVE  OrderInv'
  <2>1. published' = published
    BY <1>7 DEF SendManual, outside
  <2>. QED BY <1>2, <1>3, <1>7, <2>1 DEF SendManual
<1>8. CASE \/ \E m \in Manuals : ManualTimeout(m)
           \/ \E c \in Configs : UpdateConfig(c)
           \/ \E g \in Gates : UpdateMuteStatus(g)
  BY <1>2, <1>8 DEF ManualTimeout, UpdateConfig, UpdateMuteStatus, Install,
       outside
<1>. QED BY <1>4, <1>5, <1>6, <1>7, <1>8 DEF Caller

(***************************************************************************)
(* A subtitle inserted between older and newer ones keeps the order; what  *)
(* is no subtitle may be inserted anywhere.                                *)
(***************************************************************************)
LEMMA InsertedRising ==
  ASSUME NEW q, NEW r, NEW m, NEW i, Len(q) \in Nat, InsertedAt(r, q, m, i),
         Rising(q),
         m.kind = "subtitle" =>
           /\ \A j \in 1..Len(q) : j < i /\ q[j].kind = "subtitle" =>
                q[j].id < m.id
           /\ \A j \in 1..Len(q) : j >= i /\ q[j].kind = "subtitle" =>
                m.id < q[j].id
  PROVE  Rising(r)
<1>1. /\ Len(r) = Len(q) + 1 /\ i \in 1..Len(q)+1
      /\ \A j \in 1..Len(q)+1 :
           r[j] = IF j < i THEN q[j] ELSE IF j = i THEN m ELSE q[j-1]
  BY DEF InsertedAt
<1>. SUFFICES ASSUME NEW j \in 1..Len(r), NEW k \in 1..Len(r), j < k,
                     r[j].kind = "subtitle", r[k].kind = "subtitle"
              PROVE  r[j].id < r[k].id
  BY DEF Rising
<1>2. CASE k < i
  <2>1. r[j] = q[j] /\ r[k] = q[k] /\ j \in 1..Len(q) /\ k \in 1..Len(q)
    BY <1>1, <1>2
  <2>. QED BY <2>1 DEF Rising
<1>3. CASE k = i
  <2>1. r[j] = q[j] /\ r[k] = m /\ j \in 1..Len(q) /\ j < i
    BY <1>1, <1>3
  <2>. QED BY <2>1
<1>4. CASE k > i /\ j < i
  <2>1. /\ r[j] = q[j] /\ r[k] = q[k-1] /\ j \in 1..Len(q)
        /\ k-1 \in 1..Len(q) /\ j < k-1
    BY <1>1, <1>4
  <2>. QED BY <2>1 DEF Rising
<1>5. CASE k > i /\ j = i
  <2>1. r[j] = m /\ r[k] = q[k-1] /\ k-1 \in 1..Len(q) /\ k-1 >= i
    BY <1>1, <1>5
  <2>. QED BY <2>1
<1>6. CASE k > i /\ j > i
  <2>1. /\ r[j] = q[j-1] /\ r[k] = q[k-1] /\ j-1 \in 1..Len(q)
        /\ k-1 \in 1..Len(q) /\ j-1 < k-1
    BY <1>1, <1>6
  <2>. QED BY <2>1 DEF Rising
<1>. QED BY <1>1, <1>2, <1>3, <1>4, <1>5, <1>6

\* The first automatic message is the only one that may follow manual ones.
LEMMA BeforeAutomatic ==
  ASSUME NEW q \in Seq(Message), NEW j \in 1..Len(q), j < FirstAutomatic(q)
  PROVE  q[j].kind = "manual"
<1>. DEFINE M == {m \in ToSet(q) : ~IsManual(m)}
<1>1. /\ FirstAutomatic(q) \in 1..Len(q)+1
      /\ \A n \in 1..FirstAutomatic(q)-1 : q[n] \notin M
  BY FirstInProperties DEF FirstAutomatic
<1>2. q[j] \notin M
  BY <1>1
<1>3. q[j] \in ToSet(q)
  BY DEF ToSet
<1>. DEFINE x == q[j]
<1>. HIDE DEF x
<1>4. x \in ToSet(q) /\ x \notin {y \in ToSet(q) : ~IsManual(y)} => IsManual(x)
  OBVIOUS
<1>. QED BY <1>2, <1>3, <1>4 DEF x, IsManual

(***************************************************************************)
(* The message that a received event brings into the queue takes its place *)
(* in the order: a new subtitle at the back, a refresh before all newer    *)
(* subtitles.                                                              *)
(***************************************************************************)
LEMMA OrderInserted ==
  ASSUME TypeInv, OrderInv, Receive, NEW m, NEW priority,
         ReceivedNew(m, priority)
  PROVE  /\ Rising(queue')
         /\ \A k \in 1..Len(queue') : queue'[k].kind = "subtitle" =>
              \/ m.kind = "subtitle" /\ queue'[k].id = m.id
              \/ \E n \in 1..Len(AllowedQueue) :
                   /\ AllowedQueue[n].kind = "subtitle"
                   /\ queue'[k].id = AllowedQueue[n].id
<1>. DEFINE q == AllowedQueue
            r == Enqueue(AllowedQueue, m, priority).queue
<1>1. /\ q \in Seq(Message) /\ Len(q) <= DisplayCapacity /\ Derived(q, queue)
      /\ queue \in Seq(Message) /\ channel \in Seq(Event)
  BY AllowedFacts DEF TypeInv, TypeOK
<1>2. /\ m \in Message /\ priority \in BOOLEAN /\ Arriving(m, priority)
      /\ Derived(queue', r)
  BY DEF ReceivedNew
<1>3. \A n \in 1..Len(q) : \E k \in 1..Len(queue) :
        q[n].id = queue[k].id /\ q[n].kind = queue[k].kind
  BY <1>1, DerivedMember DEF SameMessage
<1>4. Rising(q)
  BY <1>1, DerivedRising DEF OrderInv, QueueOrder
<1>5. ASSUME m.kind = "subtitle", NEW n \in 1..Len(q), q[n].kind = "subtitle"
      PROVE  IF priority THEN m.id < q[n].id ELSE q[n].id < m.id
  <2>1. PICK k \in 1..Len(queue) :
          q[n].id = queue[k].id /\ q[n].kind = queue[k].kind
    BY <1>3
  <2>2. CASE ~priority
    <3>1. channel[1].kind = "subtitle" /\ channel[1].id = m.id
          /\ 1 \in 1..Len(channel)
      BY <1>1, <1>2, <1>5, <2>2 DEF Arriving, Receive
    <3>. QED BY <1>5, <2>1, <2>2, <3>1 DEF OrderInv, ChannelOrder
  <2>3. CASE priority
    <3>1. /\ AllowedSent # None /\ m.id = AllowedSent.message.id
          /\ ~IsQueued(q, m.id)
      BY <1>2, <1>5, <2>3 DEF Arriving, SameMessage
    <3>2. current_sent # None /\ m.id = current_sent.message.id
          /\ m.id = newest
      BY <3>1, AllowedFacts DEF TypeInv, OrderInv, ShownOrder
    <3>3. q[n].id # m.id
      BY <1>1, <1>5, <3>1 DEF IsQueued
    <3>4. Fresh(queue[k])
      BY <1>5, <2>1 DEF OrderInv, QueueOrder
    <3>. QED BY <1>5, <2>1, <2>3, <3>2, <3>3, <3>4, OrderTyped DEF Fresh
  <2>. QED BY <1>2, <2>2, <2>3
<1>6. \A n \in 1..Len(q) : q[n].kind = "subtitle" => q[n].id \in Nat
  BY <1>3, OrderTyped
<1>. HIDE DEF r
<1>7. /\ Rising(r)
      /\ \A k \in 1..Len(r) : r[k].kind = "subtitle" =>
           \/ m.kind = "subtitle" /\ r[k].id = m.id
           \/ \E n \in 1..Len(q) : q[n].kind = "subtitle" /\ r[k].id = q[n].id
  <2>1. CASE r = q
    BY <1>4, <2>1
  <2>2. ASSUME NEW base \in Seq(Message), Derived(base, q),
               r = Insert(base, m, priority)
        PROVE  Rising(r)
    <3>. DEFINE i == IF priority THEN FirstAutomatic(base) ELSE Len(base)+1
    <3>1. InsertedAt(r, base, m, i)
      BY <1>2, <2>2, InsertShape
    <3>2. i = IF priority THEN FirstAutomatic(base) ELSE Len(base)+1
      OBVIOUS
    <3>. HIDE DEF i
    <3>3. i \in 1..Len(base)+1 /\ Len(base) \in Nat
      BY <3>1 DEF InsertedAt
    <3>4. Rising(base)
      BY <1>4, <2>2, DerivedRising
    <3>5. \A j \in 1..Len(base) : \E n \in 1..Len(q) :
            base[j].id = q[n].id /\ base[j].kind = q[n].kind
      BY <2>2, DerivedMember DEF SameMessage
    <3>6. ASSUME m.kind = "subtitle", NEW j \in 1..Len(base), j < i,
                 base[j].kind = "subtitle"
          PROVE  base[j].id < m.id
      <4>1. ~priority
        <5>. SUFFICES ASSUME priority PROVE FALSE
          OBVIOUS
        <5>1. base[j].kind = "manual"
          BY <3>2, <3>6, BeforeAutomatic
        <5>. QED BY <3>6, <5>1
      <4>. QED BY <1>5, <3>5, <3>6, <4>1
    <3>7. ASSUME m.kind = "subtitle", NEW j \in 1..Len(base), j >= i,
                 base[j].kind = "subtitle"
          PROVE  m.id < base[j].id
      <4>1. priority
        BY <1>2, <3>2, <3>3, <3>7
      <4>. QED BY <1>5, <3>5, <3>7, <4>1
    <3>. QED BY <3>1, <3>3, <3>4, <3>6, <3>7, InsertedRising
  <2>3. r = q \/ \E base \in Seq(Message) :
                   Derived(base, q) /\ r = Insert(base, m, priority)
    BY <1>1, <1>2, EnqueueShape DEF r
  <2>4. \A k \in 1..Len(r) :
          \/ SameMessage(r[k], m)
          \/ \E n \in 1..Len(q) : SameMessage(r[k], q[n])
    BY <1>1, <1>2, EnqueueTyped DEF r
  <2>5. ASSUME NEW k \in 1..Len(r), r[k].kind = "subtitle"
        PROVE  \/ m.kind = "subtitle" /\ r[k].id = m.id
               \/ \E n \in 1..Len(q) :
                    q[n].kind = "subtitle" /\ r[k].id = q[n].id
    BY <2>4, <2>5 DEF SameMessage
  <2>. QED BY <2>1, <2>2, <2>3, <2>5
<1>8. Rising(queue')
  BY <1>2, <1>7, DerivedRising
<1>9. \A k \in 1..Len(queue') : \E n \in 1..Len(r) :
        queue'[k].id = r[n].id /\ queue'[k].kind = r[n].kind
  BY <1>2, DerivedMember DEF SameMessage
<1>10. ASSUME NEW k \in 1..Len(queue'), queue'[k].kind = "subtitle"
       PROVE  \/ m.kind = "subtitle" /\ queue'[k].id = m.id
              \/ \E n \in 1..Len(q) :
                   q[n].kind = "subtitle" /\ queue'[k].id = q[n].id
  BY <1>7, <1>9, <1>10
<1>. QED BY <1>8, <1>10

\* A received event keeps the order.
LEMMA OrderReceive ==
  ASSUME TypeInv, OrderInv, Receive
  PROVE  OrderInv'
<1>0. /\ TypeOK /\ channel \in Seq(Event) /\ channel # << >>
      /\ channel' = Tail(channel) /\ ~Sending' /\ ~Sending
      /\ current_sent' = AllowedSent
      /\ UNCHANGED <<newest, display, published>>
  BY DEF TypeInv, TypeOK, Receive, Sending, outside, history
<1>1. Derived(channel', channel)
  BY <1>0, ChannelTail
<1>2. AllowedSent \in {None, current_sent}
  BY <1>0, AllowedFacts
<1>3. CASE ReceivedInPlace
  <2>1. Derived(queue', AllowedQueue) /\ Derived(queue', queue)
    BY <1>3 DEF ReceivedInPlace
  <2>2. current_sent' = None /\ current_sent # None =>
           \A k \in 1..Len(queue') : queue'[k].kind = "subtitle" =>
                queue'[k].id # current_sent.message.id
    BY <1>0, <2>1, AllowedForgets
  <2>. QED BY <1>0, <1>1, <1>2, <2>1, <2>2, OrderKept
<1>4. ASSUME NEW m, NEW priority, ReceivedNew(m, priority)
      PROVE  OrderInv'
  <2>. DEFINE q == AllowedQueue
  <2>1. /\ q \in Seq(Message) /\ Derived(q, queue) /\ Derived(q, q)
    BY <1>0, AllowedFacts, DerivedRefl
  <2>2. /\ Rising(queue')
        /\ \A k \in 1..Len(queue') : queue'[k].kind = "subtitle" =>
             \/ m.kind = "subtitle" /\ queue'[k].id = m.id
             \/ \E n \in 1..Len(q) :
                  q[n].kind = "subtitle" /\ queue'[k].id = q[n].id
    BY <1>4, OrderInserted
  <2>3. \A i \in 1..Len(channel') :
          channel'[i] = channel[i+1] /\ i+1 \in 1..Len(channel) /\ 1 < i+1
    BY <1>0
  <2>4. 1 \in 1..Len(channel) /\ Head(channel) = channel[1]
    BY <1>0
  <2>5. ASSUME NEW n \in 1..Len(q), q[n].kind = "subtitle"
        PROVE  /\ q[n].id <= published
               /\ q[n].id > newest \/ (AllowedSent # None
                                       /\ q[n].id = AllowedSent.message.id)
               /\ \A i \in 1..Len(channel) : channel[i].kind = "subtitle" =>
                    q[n].id < channel[i].id
    <3>1. PICK k \in 1..Len(queue) :
            q[n].id = queue[k].id /\ q[n].kind = queue[k].kind
      BY <2>1, DerivedMember DEF SameMessage
    <3>2. queue[k].id <= published /\ Fresh(queue[k])
      BY <2>5, <3>1 DEF OrderInv, QueueOrder
    <3>3. AllowedSent # current_sent =>
            current_sent # None /\ q[n].id # current_sent.message.id
      BY <2>1, <2>5, AllowedForgets
    <3>4. q[n].id > newest \/ (AllowedSent # None
                               /\ q[n].id = AllowedSent.message.id)
      BY <3>1, <3>2, <3>3 DEF Fresh
    <3>5. \A i \in 1..Len(channel) : channel[i].kind = "subtitle" =>
            q[n].id < channel[i].id
      BY <2>5, <3>1 DEF OrderInv, ChannelOrder
    <3>. QED BY <3>1, <3>2, <3>4, <3>5
  <2>6. ASSUME m.kind = "subtitle"
        PROVE  /\ m.id <= published
               /\ m.id > newest \/ (AllowedSent # None
                                    /\ m.id = AllowedSent.message.id)
               /\ \A i \in 2..Len(channel) : channel[i].kind = "subtitle" =>
                    m.id < channel[i].id
    <3>1. Arriving(m, priority)
      BY <1>4 DEF ReceivedNew
    <3>2. CASE channel[1].kind = "subtitle" /\ m.id = channel[1].id
      <4>1. channel[1].id <= published /\ newest < channel[1].id
        BY <2>4, <3>2 DEF OrderInv, ChannelOrder
      <4>2. \A i \in 2..Len(channel) : channel[i].kind = "subtitle" =>
              channel[1].id < channel[i].id
        BY <2>4, <3>2 DEF OrderInv, ChannelOrder, Rising
      <4>. QED BY <2>4, <3>2, <4>1, <4>2, OrderTyped
    <3>3. CASE AllowedSent # None /\ m.id = AllowedSent.message.id
      <4>1. m.id = newest /\ newest <= published
        BY <1>2, <3>3 DEF OrderInv, ShownOrder
      <4>2. \A i \in 2..Len(channel) : channel[i].kind = "subtitle" =>
              newest < channel[i].id
        BY DEF OrderInv, ChannelOrder
      <4>. QED BY <3>3, <4>1, <4>2
    <3>. QED BY <2>4, <2>6, <3>1, <3>2, <3>3 DEF Arriving, SameMessage
  <2>7. ShownOrder'
    BY <1>0, <1>2 DEF OrderInv, ShownOrder
  <2>8. QueueOrder'
    BY <1>0, <2>2, <2>5, <2>6 DEF QueueOrder, Fresh
  <2>9. ChannelOrder'
    <3>1. Rising(channel')
      BY <1>1, DerivedRising DEF OrderInv, ChannelOrder
    <3>2. ASSUME NEW i \in 1..Len(channel'), channel'[i].kind = "subtitle"
          PROVE  /\ newest' < channel'[i].id /\ channel'[i].id <= published'
                 /\ \A k \in 1..Len(queue') : queue'[k].kind = "subtitle" =>
                      queue'[k].id < channel'[i].id
      <4>1. /\ channel'[i] = channel[i+1] /\ i+1 \in 2..Len(channel)
            /\ i+1 \in 1..Len(channel)
        BY <1>0, <2>3
      <4>2. newest < channel[i+1].id /\ channel[i+1].id <= published
        BY <3>2, <4>1 DEF OrderInv, ChannelOrder
      <4>3. ASSUME NEW k \in 1..Len(queue'), queue'[k].kind = "subtitle"
            PROVE  queue'[k].id < channel[i+1].id
        BY <2>2, <2>5, <2>6, <3>2, <4>1, <4>3
      <4>. QED BY <1>0, <4>1, <4>2, <4>3
    <3>. QED BY <3>1, <3>2 DEF ChannelOrder
  <2>10. InflightOrder'
    BY <1>0 DEF InflightOrder
  <2>. QED BY <2>7, <2>8, <2>9, <2>10 DEF OrderInv
<1>. QED BY <1>0, <1>3, <1>4, ReceiveShape

(***************************************************************************)
(* What a tick looks at: the messages the speaker filter allows, or the    *)
(* manual ones of them, or none.                                           *)
(***************************************************************************)
LEMMA TickQueueFacts ==
  ASSUME TypeOK
  PROVE  /\ TickQueue \in Seq(Message)
         /\ Derived(TickQueue, AllowedQueue) /\ Derived(TickQueue, queue)
<1>1. /\ AllowedQueue \in Seq(Message) /\ Derived(AllowedQueue, queue)
      /\ Derived(AllowedQueue, AllowedQueue) /\ queue \in Seq(Message)
  BY AllowedFacts, DerivedRefl DEF TypeOK
<1>2. /\ ManualsOf(AllowedQueue) \in Seq(Message)
      /\ Derived(ManualsOf(AllowedQueue), AllowedQueue)
  BY <1>1, ManualsOfFacts
<1>3. << >> \in Seq(Message) /\ Derived(<< >>, AllowedQueue)
  BY DerivedEmpty
<1>4. TickQueue \in {<< >>, ManualsOf(AllowedQueue), AllowedQueue}
  BY DEF TickQueue
<1>5. TickQueue \in Seq(Message) /\ Derived(TickQueue, AllowedQueue)
  BY <1>1, <1>2, <1>3, <1>4
<1>. QED BY <1>1, <1>5, DerivedTrans

\* A tick takes the oldest subtitle out of the queue first.
LEMMA OrderTick ==
  ASSUME TypeInv, OrderInv, Tick
  PROVE  OrderInv'
<1>. DEFINE q == TickQueue
<1>0. /\ TypeOK /\ ~Sending /\ current_sent' = AllowedSent
      /\ UNCHANGED <<channel, newest, display, published>>
  BY DEF TypeInv, Tick, Sending, outside, history
<1>1. /\ q \in Seq(Message) /\ Derived(q, AllowedQueue) /\ Derived(q, queue)
      /\ AllowedSent \in {None, current_sent}
      /\ AllowedQueue \in Seq(Message) /\ queue \in Seq(Message)
  BY <1>0, TickQueueFacts, AllowedFacts DEF TypeOK
<1>2. Derived(channel, channel)
  BY <1>0, ChannelRefl DEF TypeOK
<1>3. CASE ~(q # << >> /\ Head(q).wait = 0 /\ RateReady)
  <2>1. queue' = q /\ ~Sending'
    BY <1>3 DEF Tick, Sending
  <2>2. current_sent' = None /\ current_sent # None =>
           \A k \in 1..Len(queue') : queue'[k].kind = "subtitle" =>
                queue'[k].id # current_sent.message.id
    BY <1>0, <1>1, <2>1, AllowedForgets
  <2>. QED BY <1>0, <1>1, <1>2, <2>1, <2>2, OrderKept
<1>4. CASE q # << >> /\ Head(q).wait = 0 /\ RateReady
  <2>1. queue' = Tail(q) /\ inflight' = Head(q) /\ Sending'
    BY <1>4 DEF Tick, Sending
  <2>. HIDE DEF q
  <2>2. /\ Len(queue') = Len(q) - 1 /\ inflight' = q[1] /\ 1 \in 1..Len(q)
        /\ \A k \in 1..Len(queue') :
             queue'[k] = q[k+1] /\ k+1 \in 1..Len(q) /\ 1 < k+1
    BY <1>1, <1>4, <2>1
  <2>3. Rising(q)
    BY <1>1, DerivedRising DEF OrderInv, QueueOrder
  <2>4. ASSUME NEW n \in 1..Len(q), q[n].kind = "subtitle"
        PROVE  /\ q[n].id <= published
               /\ q[n].id > newest \/ (AllowedSent # None
                                       /\ q[n].id = AllowedSent.message.id)
               /\ \A i \in 1..Len(channel) : channel[i].kind = "subtitle" =>
                    q[n].id < channel[i].id
    <3>1. PICK k \in 1..Len(queue) :
            q[n].id = queue[k].id /\ q[n].kind = queue[k].kind
      BY <1>1, DerivedMember DEF SameMessage
    <3>2. queue[k].id <= published /\ Fresh(queue[k])
      BY <2>4, <3>1 DEF OrderInv, QueueOrder
    <3>3. AllowedSent # current_sent =>
            current_sent # None /\ q[n].id # current_sent.message.id
      BY <1>1, <2>4, AllowedForgets
    <3>4. q[n].id > newest \/ (AllowedSent # None
                               /\ q[n].id = AllowedSent.message.id)
      BY <3>1, <3>2, <3>3 DEF Fresh
    <3>5. \A i \in 1..Len(channel) : channel[i].kind = "subtitle" =>
            q[n].id < channel[i].id
      BY <2>4, <3>1 DEF OrderInv, ChannelOrder
    <3>. QED BY <3>1, <3>2, <3>4, <3>5
  <2>5. ShownOrder'
    BY <1>0, <1>1 DEF OrderInv, ShownOrder
  <2>6. Rising(queue')
    BY SMTT(20), <2>2, <2>3 DEF Rising
  <2>7. QueueOrder'
    BY <1>0, <2>2, <2>4, <2>6 DEF QueueOrder, Fresh
  <2>8. ChannelOrder'
    BY <1>0, <2>2, <2>4 DEF OrderInv, ChannelOrder
  <2>9. inflight'.kind = "subtitle" =>
          \A k \in 1..Len(queue') : queue'[k].kind = "subtitle" =>
            inflight'.id < queue'[k].id
    BY <2>2, <2>3 DEF Rising
  <2>10. InflightOrder'
    BY <1>0, <2>2, <2>4, <2>9 DEF InflightOrder, Fresh
  <2>. QED BY <2>5, <2>7, <2>8, <2>10 DEF OrderInv
<1>. QED BY <1>3, <1>4

(***************************************************************************)
(* A packet shows the oldest subtitle there is, or refreshes the one on    *)
(* display; a packet of another kind ends that subtitle's refreshes.       *)
(***************************************************************************)
LEMMA OrderDeliver ==
  ASSUME TypeInv, OrderInv, Deliver
  PROVE  OrderInv'
<1>0. /\ Sending /\ ~Sending' /\ queue \in Seq(Message) /\ inflight \in Message
      /\ current_sent \in SentMessage \cup {None} /\ channel \in Seq(Event)
      /\ queue' = AfterSend /\ display' = inflight.id
      /\ UNCHANGED <<channel, published>>
  BY DEF TypeInv, TypeOK, Deliver, MayWrite, Sending, outside
<1>1. Derived(queue', queue)
  BY <1>0, AfterSendFacts
<1>2. \A k \in 1..Len(queue') : \E n \in 1..Len(queue) :
        queue'[k].id = queue[n].id /\ queue'[k].kind = queue[n].kind
  BY <1>1, DerivedMember DEF SameMessage
<1>3. Rising(queue') /\ Rising(channel')
  BY <1>0, <1>1, DerivedRising DEF OrderInv, QueueOrder, ChannelOrder
<1>4. InflightOrder'
  BY <1>0 DEF InflightOrder
<1>5. CASE inflight.kind = "subtitle"
  <2>1. /\ inflight.id <= published /\ Fresh(inflight)
        /\ \A k \in 1..Len(queue) : queue[k].kind = "subtitle" =>
             inflight.id < queue[k].id
        /\ \A i \in 1..Len(channel) : channel[i].kind = "subtitle" =>
             inflight.id < channel[i].id
    BY <1>0, <1>5 DEF OrderInv, InflightOrder
  <2>2. current_sent # None => current_sent.message.id = newest
    BY DEF OrderInv, ShownOrder
  <2>3. newest' = inflight.id
    BY <1>5, <2>1, <2>2, OrderTyped DEF Deliver, Fresh
  <2>4. current_sent'.message = inflight
    BY <1>5 DEF Deliver
  <2>5. ShownOrder'
    BY <1>0, <1>5, <2>1, <2>3, <2>4 DEF ShownOrder
  <2>6. \A k \in 1..Len(queue') : queue'[k].kind = "subtitle" =>
          queue'[k].id <= published /\ inflight.id < queue'[k].id
    BY <1>2, <2>1 DEF OrderInv, QueueOrder
  <2>7. QueueOrder'
    BY <1>0, <1>3, <1>5, <2>3, <2>6, OrderTyped DEF QueueOrder, Fresh
  <2>8. \A i \in 1..Len(channel') : channel'[i].kind = "subtitle" =>
          /\ newest' < channel'[i].id /\ channel'[i].id <= published'
          /\ \A k \in 1..Len(queue') : queue'[k].kind = "subtitle" =>
               queue'[k].id < channel'[i].id
    BY SMTT(20), <1>0, <1>2, <2>1, <2>3 DEF OrderInv, ChannelOrder
  <2>9. ChannelOrder'
    BY <1>3, <2>8 DEF ChannelOrder
  <2>. QED BY <1>4, <2>5, <2>7, <2>9 DEF OrderInv
<1>6. CASE inflight.kind # "subtitle"
  <2>1. newest' = newest /\ current_sent' = None
    BY <1>6 DEF Deliver
  <2>2. ShownOrder'
    BY <1>0, <2>1 DEF OrderInv, ShownOrder
  <2>3. ASSUME NEW k \in 1..Len(queue'), queue'[k].kind = "subtitle"
        PROVE  queue'[k].id <= published' /\ queue'[k].id > newest'
    <3>1. PICK n \in 1..Len(queue) :
            queue'[k].id = queue[n].id /\ queue'[k].kind = queue[n].kind
      BY <1>2
    <3>2. queue[n].id <= published /\ Fresh(queue[n])
      BY <2>3, <3>1 DEF OrderInv, QueueOrder
    <3>3. ASSUME current_sent # None
          PROVE  queue'[k].id # current_sent.message.id
      <4>1. current_sent.message \in Message
            /\ current_sent.message.kind = "subtitle"
        BY <1>0, <3>3 DEF SentMessage, OrderInv, ShownOrder
      <4>2. inflight.kind \in {"manual", "test"}
        BY <1>0, <1>6, MessageFields
      <4>3. current_sent.message.id # inflight.id
        BY <1>0, <4>1, <4>2, MessageFields, OscAssumption DEF Subtitles
      <4>. DEFINE M == {m \in ToSet(queue) : m.id # current_sent.message.id}
      <4>4. queue' = Keep(queue, M)
        BY <1>0, <3>3, <4>3 DEF AfterSend
      <4>5. \A m \in M : m.id # current_sent.message.id
        OBVIOUS
      <4>. HIDE DEF M
      <4>6. queue'[k] \in M
        BY <1>0, <4>4, DerivedKeep
      <4>. QED BY <4>5, <4>6
    <3>. QED BY <1>0, <2>1, <3>1, <3>2, <3>3 DEF Fresh
  <2>4. QueueOrder'
    BY <1>3, <2>3 DEF QueueOrder, Fresh
  <2>5. \A i \in 1..Len(channel') : channel'[i].kind = "subtitle" =>
          /\ newest' < channel'[i].id /\ channel'[i].id <= published'
          /\ \A k \in 1..Len(queue') : queue'[k].kind = "subtitle" =>
               queue'[k].id < channel'[i].id
    BY SMTT(20), <1>0, <1>2, <2>1 DEF OrderInv, ChannelOrder
  <2>6. ChannelOrder'
    BY <1>3, <2>5 DEF ChannelOrder
  <2>. QED BY <1>4, <2>2, <2>4, <2>6 DEF OrderInv
<1>. QED BY <1>5, <1>6

\* Taking a configuration, which may empty the queue, keeps the order.
LEMMA OrderTakeConfig ==
  ASSUME TypeInv, OrderInv, TakeConfig
  PROVE  OrderInv'
<1>0. /\ TypeOK /\ ~Sending /\ ~Sending' /\ queue \in Seq(Message)
      /\ UNCHANGED <<channel, newest, display, published>>
      /\ Derived(channel, channel)
  BY ChannelRefl DEF TypeInv, TypeOK, TakeConfig, Sending, outside
<1>1. /\ AllowedQueue \in Seq(Message) /\ Derived(AllowedQueue, queue)
      /\ Derived(AllowedQueue, AllowedQueue)
      /\ AllowedSent \in {None, current_sent}
  BY <1>0, AllowedFacts, DerivedRefl
<1>2. CASE config.config_revision # wconfig.config_revision
  <2>1. queue' = << >> /\ current_sent' = None /\ Len(queue') = 0
    BY <1>2 DEF TakeConfig
  <2>2. Derived(queue', queue)
    BY <2>1, DerivedEmpty
  <2>. QED BY <1>0, <2>1, <2>2, OrderKept
<1>3. CASE /\ config.config_revision = wconfig.config_revision
           /\ config.automatic_revision # wconfig.automatic_revision
  <2>1. queue' = ManualsOf(AllowedQueue) /\ current_sent' = None
    BY <1>3 DEF TakeConfig
  <2>2. /\ queue' \in Seq(Message) /\ Derived(queue', AllowedQueue)
        /\ \A k \in 1..Len(queue') : queue'[k].kind = "manual"
    BY <1>1, <2>1, ManualsOfFacts DEF IsManual
  <2>3. Derived(queue', queue)
    BY <1>0, <1>1, <2>2, DerivedTrans
  <2>. QED BY <1>0, <2>1, <2>2, <2>3, OrderKept
<1>4. CASE /\ config.config_revision = wconfig.config_revision
           /\ config.automatic_revision = wconfig.automatic_revision
  <2>1. queue' = AllowedQueue /\ current_sent' = AllowedSent
    BY <1>4 DEF TakeConfig
  <2>2. current_sent' = None /\ current_sent # None =>
          \A k \in 1..Len(queue') : queue'[k].kind = "subtitle" =>
            queue'[k].id # current_sent.message.id
    BY <1>1, <2>1, AllowedForgets
  <2>. QED BY <1>0, <1>1, <2>1, <2>2, OrderKept
<1>. QED BY <1>2, <1>3, <1>4

\* The other steps of the worker, the speaker filter and the clock show
\* nothing and let nothing in.
LEMMA OrderQuiet ==
  ASSUME TypeInv, OrderInv,
         \/ PollEvents \/ ArmAutomatic \/ WouldBlock \/ FilterInflight
         \/ FailSend \/ CancelByConfig \/ Advance
         \/ \E s \in Filterable : FilterSpeaker(s)
         \/ UNCHANGED vars
  PROVE  OrderInv'
<1>0. /\ TypeOK /\ queue \in Seq(Message) /\ Derived(queue, queue)
      /\ Derived(channel, channel) /\ Derived(<< >>, queue)
  BY ChannelRefl, DerivedRefl, DerivedEmpty DEF TypeInv, TypeOK
<1>1. CASE \/ PollEvents \/ ArmAutomatic \/ WouldBlock \/ FilterInflight
           \/ FailSend
           \/ \E s \in Filterable : FilterSpeaker(s)
           \/ UNCHANGED vars
  <2>1. /\ UNCHANGED <<queue, channel, newest, display, published,
                       current_sent>>
        /\ Sending' => Sending /\ inflight' = inflight
    BY <1>1, ZenonT(60) DEF PollEvents, ArmAutomatic, WouldBlock,
         FilterInflight, FailSend, FilterSpeaker, vars, handle, worker,
         outside, history, Sending
  <2>. QED BY <1>0, <2>1, OrderKept
<1>2. CASE CancelByConfig
  <2>1. /\ UNCHANGED <<channel, newest, display, published>>
        /\ queue' = << >> /\ Len(queue') = 0 /\ current_sent' = None
        /\ ~Sending'
    BY <1>2 DEF CancelByConfig, outside, Sending
  <2>. QED BY <1>0, <2>1, OrderKept
<1>3. CASE Advance
  <2>1. /\ UNCHANGED <<channel, newest, display, published, phase, inflight>>
        /\ current_sent = None => current_sent' = None
        /\ current_sent # None => current_sent' = [current_sent EXCEPT
                                    !.age = More(@, LateTtl + 1)]
    BY <1>3 DEF Advance, handle, outside
  <2>2. Derived(queue', queue) /\ current_sent' \in SentMessage \cup {None}
        /\ (current_sent # None =>
              current_sent'.message = current_sent.message)
    BY <1>0, <1>3, AdvanceFacts
  <2>3. current_sent # None => current_sent' # None
    <3>1. ASSUME current_sent # None PROVE current_sent' \in SentMessage
      <4>1. current_sent \in SentMessage
        BY <1>0, <3>1 DEF TypeOK
      <4>2. More(current_sent.age, LateTtl + 1) \in 0..LateTtl+1
        BY <4>1, OscAssumption DEF More, SentMessage
      <4>. QED BY <2>1, <3>1, <4>1, <4>2 DEF SentMessage
    <3>. QED BY <3>1, NoneAssumption
  <2>. QED BY <1>0, <2>1, <2>2, <2>3, OrderKept DEF Sending
<1>. QED BY <1>1, <1>2, <1>3

\* Every step keeps the order.
LEMMA OrderStep ==
  ASSUME TypeInv, OrderInv, [Next]_vars
  PROVE  OrderInv'
BY OrderCaller, OrderTakeConfig, OrderReceive, OrderTick, OrderDeliver,
   OrderQuiet DEF Next, Worker

\* Everywhere subtitles stand in the order of their publication.
LEMMA OrderAlways == Spec => []OrderInv
<1>1. Init => OrderInv
  <2>. SUFFICES ASSUME Init PROVE OrderInv
    OBVIOUS
  <2>1. /\ newest = 0 /\ published = 0 /\ current_sent = None /\ ~Sending
        /\ Len(queue) = 0 /\ Len(channel) = 0
    BY DEF Init, Sending
  <2>. QED BY <2>1 DEF OrderInv, ShownOrder, QueueOrder, ChannelOrder,
                       InflightOrder, Rising
<1>. QED BY <1>1, OrderStep, TypeAlways, PTL DEF Spec

(***************************************************************************)
(* The Chatbox never goes back to an older subtitle: a packet of the       *)
(* microphone shows a subtitle newer than all before, or refreshes the one *)
(* on display, whatever late translations and full queues did.             *)
(***************************************************************************)
THEOREM SubtitlesNeverGoBack == Spec => NoRollback
<1>1. OrderInv /\ Deliver /\ inflight.kind = "subtitle" =>
        inflight.id > newest \/ display = inflight.id
  BY DEF OrderInv, InflightOrder, ShownOrder, Fresh, Deliver, MayWrite,
         Sending
<1>2. OrderInv /\ [Next]_vars =>
        [Deliver /\ inflight.kind = "subtitle" =>
           inflight.id > newest \/ display = inflight.id]_vars
  BY <1>1
<1>. QED BY <1>2, OrderAlways, PTL DEF Spec, NoRollback
-----------------------------------------------------------------------------
(* Where the manual messages are                                           *)

\* q (a queue, or the channel) holds the manual message n once at most.
Once(q, n) ==
  \A i, j \in 1..Len(q) :
    /\ IsManual(q[i]) /\ q[i].id = n
    /\ IsManual(q[j]) /\ q[j].id = n
    => i = j

\* The ids of the manual messages among S.
LEMMA InManualIds ==
  ASSUME NEW S, NEW n
  PROVE  n \in ManualIds(S) <=> \E x \in S : IsManual(x) /\ x.id = n
BY DEF ManualIds

\* Nothing is rejected, nobody is told.
LEMMA NoManualIds == ManualIds({}) = {}
BY DEF ManualIds

\* The manual messages of a queue, by position or by id.
LEMMA ManualIdsOfQueue ==
  ASSUME NEW q \in Seq(Message), NEW n
  PROVE  n \in ManualIds(ToSet(q)) <=> HasManual(q, n)
BY InManualIds DEF ToSet, HasManual

\* Deriving brings in no manual message and doubles none.
LEMMA DerivedManuals ==
  ASSUME NEW q, NEW r, NEW n, Derived(r, q), Len(r) \in Nat
  PROVE  /\ HasManual(r, n) => HasManual(q, n)
         /\ Once(q, n) => Once(r, n)
<1>1. PICK g \in [1..Len(r) -> 1..Len(q)] :
        /\ \A j, k \in 1..Len(r) : j < k => g[j] < g[k]
        /\ \A k \in 1..Len(r) : SameMessage(r[k], q[g[k]])
  BY DEF Derived
<1>2. \A k \in 1..Len(r) :
        /\ g[k] \in 1..Len(q)
        /\ IsManual(r[k]) <=> IsManual(q[g[k]])
        /\ r[k].id = q[g[k]].id
  BY <1>1 DEF SameMessage, IsManual
<1>3. HasManual(r, n) => HasManual(q, n)
  BY <1>2 DEF HasManual
<1>4. ASSUME Once(q, n), NEW i \in 1..Len(r), NEW j \in 1..Len(r),
             IsManual(r[i]), r[i].id = n, IsManual(r[j]), r[j].id = n
      PROVE  i = j
  <2>1. g[i] = g[j]
    BY SMTT(20), <1>2, <1>4 DEF Once
  <2>2. ~(i < j) /\ ~(j < i)
    <3>1. ASSUME i < j PROVE FALSE
      <4>1. g[i] < g[j]
        BY <1>1, <3>1
      <4>. QED BY <1>2, <2>1, <4>1
    <3>2. ASSUME j < i PROVE FALSE
      <4>1. g[j] < g[i]
        BY <1>1, <3>2
      <4>. QED BY <1>2, <2>1, <4>1
    <3>. QED BY <3>1, <3>2
  <2>. QED BY <2>2
<1>5. Once(q, n) => Once(r, n)
  BY <1>4 DEF Once
<1>. QED BY <1>3, <1>5

\* The same messages in other words: derived, and none lost.
LEMMA SameManuals ==
  ASSUME NEW q, NEW r, NEW n, Derived(r, q), KeepsManuals(r, q), Len(r) \in Nat
  PROVE  /\ HasManual(r, n) <=> HasManual(q, n)
         /\ Once(q, n) => Once(r, n)
BY DerivedManuals DEF KeepsManuals

\* Taking the first message off a queue, or off the channel.
LEMMA PoppedManuals ==
  ASSUME NEW S, NEW q \in Seq(S), q # << >>, NEW n, Once(q, n)
  PROVE  /\ HasManual(q, n) <=> \/ IsManual(Head(q)) /\ Head(q).id = n
                                \/ HasManual(Tail(q), n)
         /\ IsManual(Head(q)) /\ Head(q).id = n => ~HasManual(Tail(q), n)
         /\ Once(Tail(q), n)
<1>. DEFINE r == Tail(q)
<1>1. /\ Len(r) = Len(q) - 1 /\ Len(q) \in Nat /\ 1 \in 1..Len(q)
      /\ Head(q) = q[1]
      /\ \A j \in 1..Len(q)-1 : r[j] = q[j+1]
  OBVIOUS
<1>. HIDE DEF r
<1>2. \A j \in 1..Len(r) : j+1 \in 1..Len(q) /\ r[j] = q[j+1] /\ j+1 # 1
  BY <1>1
<1>3. \A i \in 1..Len(q) : i = 1 \/ (i-1 \in 1..Len(r) /\ r[i-1] = q[i])
  BY <1>1
<1>4. /\ HasManual(q, n) <=> \/ IsManual(Head(q)) /\ Head(q).id = n
                             \/ HasManual(r, n)
      /\ IsManual(Head(q)) /\ Head(q).id = n => ~HasManual(r, n)
  BY <1>1, <1>2, <1>3 DEF HasManual, Once
<1>5. ASSUME NEW i \in 1..Len(r), NEW j \in 1..Len(r),
             IsManual(r[i]), r[i].id = n, IsManual(r[j]), r[j].id = n
      PROVE  i = j
  <2>1. i + 1 = j + 1
    BY <1>2, <1>5 DEF Once
  <2>. QED BY <1>1, <2>1
<1>6. Once(r, n)
  BY <1>5 DEF Once
<1>. QED BY <1>4, <1>6 DEF r

\* Appending an event to the channel.
LEMMA AppendedManuals ==
  ASSUME NEW q \in Seq(Event), NEW e, NEW n
  PROVE  LET r == Append(q, e)
         IN  /\ HasManual(r, n) <=> \/ HasManual(q, n)
                                    \/ IsManual(e) /\ e.id = n
             /\ /\ Once(q, n)
                /\ ~(HasManual(q, n) /\ IsManual(e) /\ e.id = n)
                => Once(r, n)
<1>. DEFINE r == Append(q, e)
<1>1. /\ Len(r) = Len(q) + 1 /\ Len(q) \in Nat
      /\ \A i \in 1..Len(q) : r[i] = q[i]
      /\ r[Len(q)+1] = e
  OBVIOUS
<1>. HIDE DEF r
<1>2. \A i \in 1..Len(r) : i \in 1..Len(q) \/ i = Len(q)+1
  BY <1>1
<1>3. \A i \in 1..Len(q) : i \in 1..Len(r)
  BY <1>1
<1>4. Len(q)+1 \in 1..Len(r)
  BY <1>1
<1>5. HasManual(r, n) <=> HasManual(q, n) \/ (IsManual(e) /\ e.id = n)
  BY <1>1, <1>2, <1>3, <1>4 DEF HasManual
<1>6. ASSUME Once(q, n), ~(HasManual(q, n) /\ IsManual(e) /\ e.id = n)
      PROVE  Once(r, n)
  BY <1>1, <1>2, <1>6 DEF Once, HasManual
<1>. QED BY <1>5, <1>6 DEF r

\* Inserting a message into the queue.
LEMMA InsertedManuals ==
  ASSUME NEW q, NEW r, NEW m, NEW i, Len(q) \in Nat, InsertedAt(r, q, m, i),
         NEW n, Once(q, n), IsManual(m) /\ m.id = n => ~HasManual(q, n)
  PROVE  /\ HasManual(r, n) <=> HasManual(q, n) \/ (IsManual(m) /\ m.id = n)
         /\ Once(r, n)
<1>1. /\ Len(r) = Len(q) + 1 /\ i \in 1..Len(q)+1
      /\ \A j \in 1..Len(q)+1 :
           r[j] = IF j < i THEN q[j] ELSE IF j = i THEN m ELSE q[j-1]
  BY DEF InsertedAt
<1>2. \A j \in 1..Len(r) :
        \/ j < i /\ j \in 1..Len(q) /\ r[j] = q[j]
        \/ j = i /\ r[j] = m
        \/ j > i /\ j-1 \in 1..Len(q) /\ r[j] = q[j-1]
  BY SMTT(20), <1>1
<1>3. \A j \in 1..Len(q) : \E k \in 1..Len(r) : r[k] = q[j]
  <2>. TAKE j \in 1..Len(q)
  <2>1. CASE j < i
    <3>1. j \in 1..Len(r) /\ r[j] = q[j]
      BY <1>1, <2>1
    <3>. QED BY <3>1
  <2>2. CASE j >= i
    <3>1. j+1 \in 1..Len(r) /\ r[j+1] = q[j]
      BY <1>1, <2>2
    <3>. QED BY <3>1
  <2>. QED BY <1>1, <2>1, <2>2
<1>4. i \in 1..Len(r) /\ r[i] = m
  BY <1>1
<1>5. HasManual(r, n) <=> HasManual(q, n) \/ (IsManual(m) /\ m.id = n)
  BY <1>2, <1>3, <1>4 DEF HasManual
<1>6. ASSUME NEW j \in 1..Len(r), NEW k \in 1..Len(r), j < k,
             IsManual(r[j]), r[j].id = n, IsManual(r[k]), r[k].id = n
      PROVE  FALSE
  <2>1. CASE j = i \/ k = i
    <3>1. IsManual(m) /\ m.id = n
      BY <1>4, <1>6, <2>1
    <3>2. ~HasManual(q, n)
      BY <3>1
    <3>. QED BY <1>2, <1>6, <2>1, <3>2 DEF HasManual
  <2>2. CASE k < i
    <3>1. j \in 1..Len(q) /\ k \in 1..Len(q) /\ r[j] = q[j] /\ r[k] = q[k]
      BY <1>1, <1>6, <2>2
    <3>. QED BY <1>6, <3>1 DEF Once
  <2>3. CASE j < i /\ k > i
    <3>1. /\ j \in 1..Len(q) /\ k-1 \in 1..Len(q) /\ r[j] = q[j]
          /\ r[k] = q[k-1] /\ j # k-1
      BY <1>1, <1>6, <2>3
    <3>. QED BY <1>6, <3>1 DEF Once
  <2>4. CASE j > i
    <3>1. /\ j-1 \in 1..Len(q) /\ k-1 \in 1..Len(q) /\ r[j] = q[j-1]
          /\ r[k] = q[k-1] /\ j-1 # k-1
      BY <1>1, <1>6, <2>4
    <3>. QED BY <1>6, <3>1 DEF Once
  <2>. QED BY <1>1, <1>6, <2>1, <2>2, <2>3, <2>4
<1>7. Once(r, n)
  <2>. SUFFICES ASSUME NEW j \in 1..Len(r), NEW k \in 1..Len(r),
                       IsManual(r[j]), r[j].id = n,
                       IsManual(r[k]), r[k].id = n
                PROVE  j = k
    BY DEF Once
  <2>1. ~(j < k) /\ ~(k < j)
    BY <1>6
  <2>. QED BY <1>1, <2>1
<1>. QED BY <1>5, <1>7

\* Removing a message from the queue.
LEMMA RemovedManuals ==
  ASSUME NEW q \in Seq(Message), NEW v \in 1..Len(q), NEW n, Once(q, n)
  PROVE  LET r == RemoveAt(q, v)
         IN  /\ HasManual(r, n) <=>
                  HasManual(q, n) /\ ~(IsManual(q[v]) /\ q[v].id = n)
             /\ Once(r, n)
<1>. DEFINE r == RemoveAt(q, v)
<1>1. /\ r \in Seq(Message) /\ Len(r) = Len(q) - 1 /\ Len(q) \in Nat
      /\ Derived(r, q)
      /\ \A j \in 1..Len(q)-1 : r[j] = IF j < v THEN q[j] ELSE q[j+1]
  BY RemoveAtProperties, DerivedRemove
<1>. HIDE DEF r
<1>2. Once(r, n) /\ (HasManual(r, n) => HasManual(q, n))
  BY <1>1, DerivedManuals
<1>3. \A j \in 1..Len(r) : \E k \in 1..Len(q) : k # v /\ r[j] = q[k]
  <2>. TAKE j \in 1..Len(r)
  <2>1. CASE j < v
    <3>1. j \in 1..Len(q) /\ j # v /\ r[j] = q[j]
      BY <1>1, <2>1
    <3>. QED BY <3>1
  <2>2. CASE j >= v
    <3>1. j+1 \in 1..Len(q) /\ j+1 # v /\ r[j] = q[j+1]
      BY <1>1, <2>2
    <3>. QED BY <3>1
  <2>. QED BY <1>1, <2>1, <2>2
<1>4. \A k \in 1..Len(q) : k # v => \E j \in 1..Len(r) : r[j] = q[k]
  <2>. SUFFICES ASSUME NEW k \in 1..Len(q), k # v
                PROVE  \E j \in 1..Len(r) : r[j] = q[k]
    OBVIOUS
  <2>1. CASE k < v
    <3>1. k \in 1..Len(r) /\ r[k] = q[k]
      BY <1>1, <2>1
    <3>. QED BY <3>1
  <2>2. CASE k > v
    <3>1. k-1 \in 1..Len(r) /\ r[k-1] = q[k]
      BY <1>1, <2>2
    <3>. QED BY <3>1
  <2>. QED BY <2>1, <2>2
<1>5. HasManual(r, n) <=> HasManual(q, n) /\ ~(IsManual(q[v]) /\ q[v].id = n)
  BY <1>3, <1>4 DEF HasManual, Once
<1>. QED BY <1>2, <1>5 DEF r

(***************************************************************************)
(* enqueue_pending: what it holds afterwards is what it held and the new   *)
(* message, without those it rejected.                                     *)
(***************************************************************************)
LEMMA EnqueuedManuals ==
  ASSUME NEW q \in Seq(Message), NEW m \in Message, NEW priority \in BOOLEAN,
         Len(q) <= DisplayCapacity, IsManual(m) => priority,
         NEW n, Once(q, n), IsManual(m) /\ m.id = n => ~HasManual(q, n)
  PROVE  LET r == Enqueue(q, m, priority)
         IN  /\ HasManual(r.queue, n) <=>
                  /\ HasManual(q, n) \/ (IsManual(m) /\ m.id = n)
                  /\ n \notin ManualIds(r.rejected)
             /\ Once(r.queue, n)
<1>. DEFINE r == Enqueue(q, m, priority)
            v == Victim(q, m, priority)
<1>0. DisplayCapacity \in Nat \ {0} /\ Len(q) \in Nat
  BY OscAssumption
<1>1. ASSUME NEW base \in Seq(Message), Once(base, n),
             IsManual(m) /\ m.id = n => ~HasManual(base, n)
      PROVE  LET t == Insert(base, m, priority)
             IN  /\ HasManual(t, n) <=>
                      HasManual(base, n) \/ (IsManual(m) /\ m.id = n)
                 /\ Once(t, n)
  <2>. DEFINE i == IF priority THEN FirstAutomatic(base) ELSE Len(base)+1
  <2>1. InsertedAt(Insert(base, m, priority), base, m, i)
    BY InsertShape
  <2>2. Len(base) \in Nat
    OBVIOUS
  <2>. HIDE DEF i
  <2>. QED BY <1>1, <2>1, <2>2, InsertedManuals
<1>2. CASE Len(q) < DisplayCapacity
  <2>1. r.queue = Insert(q, m, priority) /\ r.rejected = {}
    BY <1>2 DEF Enqueue
  <2>. HIDE DEF r
  <2>2. r.rejected = {} => n \notin ManualIds(r.rejected)
    BY NoManualIds
  <2>. QED BY <1>1, <2>1, <2>2 DEF r
<1>3. CASE Len(q) >= DisplayCapacity /\ v = 0
  <2>1. r.queue = q /\ r.rejected = {m}
    BY <1>0, <1>3 DEF Enqueue
  <2>2. ~IsManual(m)
    <3>1. FirstAutomatic(q) \in 1..Len(q)+1
      BY FirstInProperties DEF FirstAutomatic
    <3>. QED BY <1>3, <3>1 DEF Victim
  <2>. HIDE DEF r
  <2>3. n \notin ManualIds(r.rejected)
    BY <2>1, <2>2, InManualIds
  <2>. QED BY <2>1, <2>2, <2>3 DEF r
<1>4. CASE Len(q) >= DisplayCapacity /\ v # 0
  <2>. DEFINE base == RemoveAt(q, v)
  <2>1. v \in 1..Len(q)
    <3>1. FirstAutomatic(q) \in 1..Len(q)+1
      BY FirstInProperties DEF FirstAutomatic
    <3>. QED BY <3>1, <1>0, <1>4 DEF Victim
  <2>2. r.queue = Insert(base, m, priority) /\ r.rejected = {q[v]}
    BY <1>0, <1>4 DEF Enqueue
  <2>. HIDE DEF r, v
  <2>3. base \in Seq(Message)
    BY <2>1, DerivedRemove
  <2>4. /\ HasManual(base, n) <=>
             HasManual(q, n) /\ ~(IsManual(q[v]) /\ q[v].id = n)
        /\ Once(base, n)
    BY <2>1, RemovedManuals
  <2>. HIDE DEF base
  <2>5. n \in ManualIds(r.rejected) <=> IsManual(q[v]) /\ q[v].id = n
    BY <2>2, InManualIds
  <2>6. /\ HasManual(r.queue, n) <=>
             HasManual(base, n) \/ (IsManual(m) /\ m.id = n)
        /\ Once(r.queue, n)
    BY <1>1, <2>2, <2>3, <2>4
  <2>7. IsManual(q[v]) /\ q[v].id = n => HasManual(q, n)
    BY <2>1 DEF HasManual
  <2>. QED BY <2>4, <2>5, <2>6, <2>7 DEF r
<1>. QED BY <1>0, <1>2, <1>3, <1>4

(***************************************************************************)
(* The message m is in the channel, in the queue or being sent, and it is  *)
(* in one place only.                                                      *)
(***************************************************************************)
Flying(m) == Sending /\ inflight.id = m

Held(m) == HasManual(channel, m) \/ HasManual(queue, m) \/ Flying(m)

OnePlace(m) ==
  /\ Once(channel, m) /\ Once(queue, m)
  /\ HasManual(channel, m) => ~HasManual(queue, m)
  /\ Flying(m) => ~HasManual(channel, m) /\ ~HasManual(queue, m)

(***************************************************************************)
(* A responder is held while its caller waits, and by nobody once its      *)
(* caller has been answered; only when the caller has stopped waiting it   *)
(* may be either way.                                                      *)
(***************************************************************************)
HeldAsTold(m) ==
  /\ reply[m] = "waiting" => Held(m)
  /\ reply[m] \notin {"waiting", "timeout"} => ~Held(m)

HolderInv == \A m \in Manuals : OnePlace(m) /\ HeldAsTold(m)

(***************************************************************************)
(* The messages of S leave, and those of their callers that still wait are *)
(* told; every other message stays, although it may move.                  *)
(***************************************************************************)
Leaves(S, answer) ==
  /\ reply' = Answer(S, answer)
  /\ \A m \in Manuals :
       /\ OnePlace(m)'
       /\ m \in S => Held(m)
       /\ Held(m)' <=> Held(m) /\ m \notin S

\* Nobody is told, no message leaves.
Stays ==
  /\ reply' = reply
  /\ \A m \in Manuals : OnePlace(m)' /\ (Held(m)' <=> Held(m))

\* Messages that leave are answered.
LEMMA LeavesHolder ==
  ASSUME TypeInv, HolderInv, NEW S,
         NEW answer \in {"queue_full", "cancelled", "failed", "sent"},
         Leaves(S, answer)
  PROVE  HolderInv'
<1>1. ASSUME NEW m \in Manuals
      PROVE  OnePlace(m)' /\ HeldAsTold(m)'
  <2>1. reply'[m] = IF m \in S /\ reply[m] = "waiting" THEN answer ELSE reply[m]
    BY DEF Leaves, Answer
  <2>2. /\ OnePlace(m)'
        /\ Held(m)' <=> Held(m) /\ m \notin S
    BY DEF Leaves
  <2>3. HeldAsTold(m)
    BY DEF HolderInv
  <2>. HIDE DEF Held
  <2>. QED BY <2>1, <2>2, <2>3 DEF HeldAsTold
<1>. QED BY <1>1 DEF HolderInv

\* Moving messages are still waited for.
LEMMA StaysHolder ==
  ASSUME HolderInv, Stays
  PROVE  HolderInv'
<1>1. ASSUME NEW m \in Manuals
      PROVE  OnePlace(m)' /\ HeldAsTold(m)'
  <2>1. OnePlace(m)' /\ (Held(m)' <=> Held(m)) /\ reply'[m] = reply[m]
    BY DEF Stays
  <2>2. HeldAsTold(m)
    BY DEF HolderInv
  <2>. HIDE DEF Held
  <2>. QED BY <2>1, <2>2 DEF HeldAsTold
<1>. QED BY <1>1 DEF HolderInv

(***************************************************************************)
(* Steps that leave the channel and the message being sent alone and lose  *)
(* no manual message of the queue move no message.                         *)
(***************************************************************************)
LEMMA QuietStays ==
  ASSUME HolderInv, Derived(queue', queue), KeepsManuals(queue', queue),
         Len(queue') \in Nat, channel' = channel, reply' = reply,
         \A m \in Manuals : Flying(m)' <=> Flying(m)
  PROVE  Stays
<1>1. ASSUME NEW m \in Manuals
      PROVE  OnePlace(m)' /\ (Held(m)' <=> Held(m))
  <2>1. OnePlace(m)
    BY DEF HolderInv
  <2>2. /\ HasManual(queue', m) <=> HasManual(queue, m)
        /\ Once(queue, m) => Once(queue', m)
    BY SameManuals
  <2>3. Flying(m)' <=> Flying(m)
    OBVIOUS
  <2>. HIDE DEF Flying
  <2>. QED BY <2>1, <2>2, <2>3 DEF OnePlace, Held
<1>. QED BY <1>1 DEF Stays

\* Ids tell kinds apart: what has the id of a manual message is one.
LEMMA ManualById ==
  ASSUME NEW x \in Message, NEW m \in Manuals, x.id = m
  PROVE  IsManual(x)
BY MessageFields, OscAssumption DEF IsManual, Subtitles

\* The message being sent is in flight under its id if it is manual.
LEMMA FlyingManual ==
  ASSUME TypeInv, NEW m \in Manuals
  PROVE  Flying(m) <=> Sending /\ IsManual(inflight) /\ inflight.id = m
<1>1. Flying(m) => IsManual(inflight)
  BY ManualById DEF TypeInv, Flying
<1>. QED BY <1>1 DEF Flying

\* filter_microphone_pending loses no manual message.
LEMMA AllowedManualsStay ==
  ASSUME TypeOK, NEW n
  PROVE  /\ HasManual(AllowedQueue, n) <=> HasManual(queue, n)
         /\ Once(queue, n) => Once(AllowedQueue, n)
<1>1. /\ AllowedQueue \in Seq(Message) /\ Derived(AllowedQueue, queue)
      /\ KeepsManuals(AllowedQueue, queue)
  BY AllowedFacts
<1>2. Len(AllowedQueue) \in Nat
  BY <1>1
<1>. QED BY <1>1, <1>2, SameManuals

\* A received event: its manual message moves into the queue, or a manual
\* message leaves, of an older configuration or evicted.
LEMMA ReceiveHolds ==
  ASSUME TypeInv, OrderInv, HolderInv, Receive
  PROVE  \/ Stays
         \/ \E S : Leaves(S, "queue_full") \/ Leaves(S, "cancelled")
<1>. DEFINE e == Head(channel)
<1>0. /\ TypeOK /\ channel \in Seq(Event) /\ channel # << >>
      /\ channel' = Tail(channel) /\ ~Sending' /\ ~Sending
      /\ reply \in [Manuals -> Replies]
      /\ queue \in Seq(Message)
  BY DEF TypeInv, TypeOK, Receive, Sending
<1>1. \A m \in Manuals : ~Flying(m) /\ ~Flying(m)'
  BY <1>0 DEF Flying
<1>2. ASSUME NEW m \in Manuals
      PROVE  /\ OnePlace(m)
             /\ HasManual(channel, m) <=>
                  (IsManual(e) /\ e.id = m) \/ HasManual(channel', m)
             /\ IsManual(e) /\ e.id = m => ~HasManual(channel', m)
             /\ Once(channel', m)
  <2>1. OnePlace(m)
    BY DEF HolderInv
  <2>2. Once(channel, m)
    BY <2>1 DEF OnePlace
  <2>. QED BY <1>0, <2>1, <2>2, PoppedManuals
<1>3. CASE ReceivedInPlace
  <2>1. /\ queue' \in Seq(Message)
        /\ Derived(queue', queue) /\ KeepsManuals(queue', queue)
    BY <1>3 DEF ReceivedInPlace
  <2>2. Len(queue') \in Nat
    BY <2>1
  <2>3. ASSUME NEW m \in Manuals
        PROVE  /\ HasManual(queue', m) <=> HasManual(queue, m)
               /\ Once(queue, m) => Once(queue', m)
    BY <2>1, <2>2, SameManuals
  <2>4. CASE e.kind # "manual"
    <3>1. reply' = reply
      <4>1. reply' = reply \/ reply' = Answer({}, "queue_full")
        BY <1>3, <2>4, NoManualIds DEF ReceivedInPlace
      <4>. QED BY <1>0, <4>1 DEF Answer
    <3>2. ASSUME NEW m \in Manuals
          PROVE  OnePlace(m)' /\ (Held(m)' <=> Held(m))
      <4>1. HasManual(channel', m) <=> HasManual(channel, m)
        BY <1>2, <2>4 DEF IsManual
      <4>. QED BY <1>1, <1>2, <2>3, <4>1 DEF OnePlace, Held
    <3>. QED BY <3>1, <3>2 DEF Stays
  <2>5. CASE e.kind = "manual"
    <3>1. reply' = Answer({e.id}, "cancelled")
      BY <1>3, <2>5 DEF ReceivedInPlace
    <3>2. ASSUME NEW m \in Manuals
          PROVE  /\ OnePlace(m)' /\ (m \in {e.id} => Held(m))
                 /\ Held(m)' <=> Held(m) /\ m \notin {e.id}
      <4>1. IsManual(e)
        BY <2>5 DEF IsManual
      <4>. HIDE DEF e
      <4>. QED BY <1>1, <1>2, <2>3, <4>1 DEF OnePlace, Held
    <3>3. Leaves({e.id}, "cancelled")
      BY <3>1, <3>2 DEF Leaves
    <3>. QED BY <3>3
  <2>. QED BY <2>4, <2>5
<1>4. ASSUME NEW x, NEW priority, ReceivedNew(x, priority)
      PROVE  \E S : Leaves(S, "queue_full")
  <2>. DEFINE q == AllowedQueue
              r == Enqueue(AllowedQueue, x, priority)
  <2>1. /\ x \in Message /\ priority \in BOOLEAN /\ (IsManual(x) => priority)
        /\ Arriving(x, priority)
        /\ queue' \in Seq(Message) /\ Derived(queue', r.queue)
        /\ KeepsManuals(queue', r.queue)
        /\ reply' = Answer(ManualIds(r.rejected), "queue_full")
    BY <1>4 DEF ReceivedNew
  <2>2. q \in Seq(Message) /\ Len(q) <= DisplayCapacity
    BY <1>0, AllowedFacts
  <2>3. /\ IsManual(x) <=> IsManual(e)
        /\ IsManual(x) => x.id = e.id
    <3>1. AllowedSent # None => AllowedSent.message.kind = "subtitle"
      BY <1>0, AllowedFacts DEF OrderInv, ShownOrder
    <3>. QED BY <2>1, <3>1 DEF Arriving, SameMessage, IsManual
  <2>4. Len(queue') \in Nat
    BY <2>1
  <2>5. ASSUME NEW m \in Manuals
        PROVE  /\ OnePlace(m)' /\ (m \in ManualIds(r.rejected) => Held(m))
               /\ Held(m)' <=> Held(m) /\ m \notin ManualIds(r.rejected)
    <3>1. /\ HasManual(q, m) <=> HasManual(queue, m)
          /\ Once(queue, m) => Once(q, m)
      BY <1>0, AllowedManualsStay
    <3>2. Once(q, m) /\ (IsManual(x) /\ x.id = m => ~HasManual(q, m))
      BY <1>2, <2>3, <3>1 DEF OnePlace
    <3>3. /\ HasManual(r.queue, m) <=>
               /\ HasManual(q, m) \/ (IsManual(x) /\ x.id = m)
               /\ m \notin ManualIds(r.rejected)
          /\ Once(r.queue, m)
      BY <2>1, <2>2, <3>2, EnqueuedManuals
    <3>4. m \in ManualIds(r.rejected) =>
            HasManual(q, m) \/ (IsManual(x) /\ x.id = m)
      <4>1. \A n \in r.rejected : n = x \/ \E i \in 1..Len(q) : n = q[i]
        BY <2>1, <2>2, EnqueueShape
      <4>. QED BY <4>1, InManualIds DEF HasManual
    <3>. HIDE DEF r, q, e
    <3>5. /\ HasManual(queue', m) <=> HasManual(r.queue, m)
          /\ Once(queue', m)
      BY <2>1, <2>4, <3>3, SameManuals
    <3>. QED BY <1>1, <1>2, <2>3, <3>1, <3>3, <3>4, <3>5 DEF OnePlace, Held
  <2>6. Leaves(ManualIds(r.rejected), "queue_full")
    BY <2>1, <2>5 DEF Leaves
  <2>. QED BY <2>6
<1>. QED BY <1>0, <1>3, <1>4, ReceiveShape

\* An emptied queue: all its manual messages leave.
LEMMA EmptiedLeaves ==
  ASSUME TypeInv, HolderInv, \A m \in Manuals : ~Flying(m) /\ ~Flying(m)',
         channel' = channel, queue' = << >>,
         NEW S, \A m \in Manuals : m \in S <=> HasManual(queue, m),
         NEW answer, reply' = Answer(S, answer)
  PROVE  Leaves(S, answer)
<1>1. \A m \in Manuals : ~HasManual(queue', m) /\ Once(queue', m)
  <2>1. 1..Len(queue') = {}
    OBVIOUS
  <2>. QED BY <2>1 DEF HasManual, Once
<1>2. ASSUME NEW m \in Manuals
      PROVE  /\ OnePlace(m)' /\ (m \in S => Held(m))
             /\ Held(m)' <=> Held(m) /\ m \notin S
  <2>1. OnePlace(m)
    BY DEF HolderInv
  <2>2. ~Flying(m) /\ ~Flying(m)' /\ (m \in S <=> HasManual(queue, m))
    OBVIOUS
  <2>. HIDE DEF Flying
  <2>. QED BY <1>1, <2>1, <2>2 DEF OnePlace, Held
<1>. QED BY <1>2 DEF Leaves

\* A tick takes a message into flight; a disabled output cancels them all.
LEMMA TickHolds ==
  ASSUME TypeInv, TypeInv', HolderInv, Tick
  PROVE  Stays \/ \E S : Leaves(S, "cancelled")
<1>. DEFINE q == TickQueue
<1>0. /\ TypeOK /\ ~Sending /\ queue \in Seq(Message) /\ channel' = channel
      /\ AllowedQueue \in Seq(Message)
  BY AllowedFacts DEF TypeInv, TypeOK, Tick, Sending
<1>1. \A m \in Manuals : ~Flying(m)
  BY <1>0 DEF Flying
<1>2. CASE ~wconfig.config.enabled
  <2>1. /\ reply' = Answer(ManualIds(ToSet(AllowedQueue)), "cancelled")
        /\ TickQueue = << >>
    BY <1>2 DEF Tick, TickQueue
  <2>2. queue' = << >> /\ ~Sending'
    BY <2>1 DEF Tick, Sending
  <2>3. \A m \in Manuals : ~Flying(m)'
    BY <2>2 DEF Flying
  <2>4. \A m \in Manuals :
          m \in ManualIds(ToSet(AllowedQueue)) <=> HasManual(queue, m)
    BY <1>0, ManualIdsOfQueue, AllowedManualsStay
  <2>5. Leaves(ManualIds(ToSet(AllowedQueue)), "cancelled")
    BY <1>0, <1>1, <2>1, <2>2, <2>3, <2>4, EmptiedLeaves
  <2>. QED BY <2>5
<1>3. CASE wconfig.config.enabled
  <2>1. reply' = reply
    BY <1>3 DEF Tick
  <2>2. q \in Seq(Message) /\ Derived(q, queue)
    BY <1>0, TickQueueFacts
  <2>3. KeepsManuals(q, queue)
    <3>1. q \in {ManualsOf(AllowedQueue), AllowedQueue}
      BY <1>3 DEF TickQueue
    <3>2. KeepsManuals(AllowedQueue, queue)
      BY <1>0, AllowedFacts
    <3>3. KeepsManuals(ManualsOf(AllowedQueue), AllowedQueue)
      BY <1>0, ManualsOfFacts
    <3>. QED BY <3>1, <3>2, <3>3, KeepsTrans
  <2>. HIDE DEF q
  <2>4. Len(q) \in Nat
    BY <2>2
  <2>5. CASE ~(q # << >> /\ Head(q).wait = 0 /\ RateReady)
    <3>1. queue' = q /\ ~Sending'
      BY <2>5 DEF Tick, Sending, q
    <3>2. \A m \in Manuals : Flying(m)' <=> Flying(m)
      BY <1>1, <3>1 DEF Flying
    <3>. QED BY <1>0, <2>1, <2>2, <2>3, <2>4, <3>1, <3>2, QuietStays
  <2>6. CASE q # << >> /\ Head(q).wait = 0 /\ RateReady
    <3>1. queue' = Tail(q) /\ inflight' = Head(q) /\ Sending'
      BY <2>6 DEF Tick, Sending, q
    <3>2. ASSUME NEW m \in Manuals
          PROVE  OnePlace(m)' /\ (Held(m)' <=> Held(m))
      <4>1. OnePlace(m)
        BY DEF HolderInv
      <4>2. /\ HasManual(q, m) <=> HasManual(queue, m)
            /\ Once(q, m)
        BY <2>2, <2>3, <2>4, <4>1, SameManuals DEF OnePlace
      <4>3. /\ HasManual(q, m) <=> \/ IsManual(Head(q)) /\ Head(q).id = m
                                   \/ HasManual(queue', m)
            /\ IsManual(Head(q)) /\ Head(q).id = m => ~HasManual(queue', m)
            /\ Once(queue', m)
        BY <2>2, <2>6, <3>1, <4>2, PoppedManuals
      <4>4. Flying(m)' <=> IsManual(Head(q)) /\ Head(q).id = m
        <5>1. Head(q) \in Message
          BY <2>2, <2>6
        <5>. QED BY <3>1, <5>1, ManualById DEF Flying
      <4>. QED BY <1>0, <1>1, <4>1, <4>2, <4>3, <4>4 DEF OnePlace, Held
    <3>. QED BY <2>1, <3>2 DEF Stays
  <2>. QED BY <2>5, <2>6
<1>. QED BY <1>2, <1>3

\* Taking a configuration cancels all manual messages, or none.
LEMMA TakeConfigHolds ==
  ASSUME TypeInv, HolderInv, TakeConfig
  PROVE  Stays \/ \E S : Leaves(S, "cancelled")
<1>0. /\ TypeOK /\ ~Sending /\ ~Sending' /\ queue \in Seq(Message)
      /\ channel' = channel /\ AllowedQueue \in Seq(Message)
  BY AllowedFacts DEF TypeInv, TypeOK, TakeConfig, Sending
<1>1. \A m \in Manuals : ~Flying(m) /\ ~Flying(m)'
  BY <1>0 DEF Flying
<1>2. CASE config.config_revision # wconfig.config_revision
  <2>1. /\ reply' = Answer(ManualIds(ToSet(AllowedQueue)), "cancelled")
        /\ queue' = << >>
    BY <1>2 DEF TakeConfig
  <2>2. \A m \in Manuals :
          m \in ManualIds(ToSet(AllowedQueue)) <=> HasManual(queue, m)
    BY <1>0, ManualIdsOfQueue, AllowedManualsStay
  <2>3. Leaves(ManualIds(ToSet(AllowedQueue)), "cancelled")
    BY <1>0, <1>1, <2>1, <2>2, EmptiedLeaves
  <2>. QED BY <2>3
<1>3. CASE config.config_revision = wconfig.config_revision
  <2>1. queue' \in {ManualsOf(AllowedQueue), AllowedQueue} /\ reply' = reply
    BY <1>3 DEF TakeConfig
  <2>2. /\ Derived(AllowedQueue, queue) /\ KeepsManuals(AllowedQueue, queue)
    BY <1>0, AllowedFacts
  <2>3. /\ ManualsOf(AllowedQueue) \in Seq(Message)
        /\ Derived(ManualsOf(AllowedQueue), AllowedQueue)
        /\ KeepsManuals(ManualsOf(AllowedQueue), AllowedQueue)
    BY <1>0, ManualsOfFacts
  <2>4. /\ Derived(ManualsOf(AllowedQueue), queue)
        /\ KeepsManuals(ManualsOf(AllowedQueue), queue)
    BY <1>0, <2>2, <2>3, DerivedTrans, KeepsTrans
  <2>5. /\ queue' \in Seq(Message) /\ Derived(queue', queue)
        /\ KeepsManuals(queue', queue)
    BY <1>0, <2>1, <2>2, <2>3, <2>4
  <2>6. Len(queue') \in Nat
    BY <2>5
  <2>7. \A m \in Manuals : Flying(m)' <=> Flying(m)
    BY <1>1
  <2>. QED BY <1>0, <2>1, <2>5, <2>6, <2>7, QuietStays
<1>. QED BY <1>2, <1>3

\* A configuration that cancels an automatic packet cancels the manual
\* messages of the queue with it.
LEMMA CancelHolds ==
  ASSUME TypeInv, HolderInv, CancelByConfig
  PROVE  \E S : Leaves(S, "cancelled")
<1>0. /\ queue \in Seq(Message) /\ channel' = channel /\ queue' = << >>
      /\ ~IsManual(inflight) /\ ~Sending'
      /\ reply' = Answer(ManualIds(ToSet(queue)), "cancelled")
  BY DEF TypeInv, TypeOK, CancelByConfig, Sending
<1>1. \A m \in Manuals : ~Flying(m)
  BY <1>0, FlyingManual
<1>2. \A m \in Manuals : ~Flying(m)'
  BY <1>0 DEF Flying
<1>3. \A m \in Manuals : m \in ManualIds(ToSet(queue)) <=> HasManual(queue, m)
  BY <1>0, ManualIdsOfQueue
<1>4. Leaves(ManualIds(ToSet(queue)), "cancelled")
  BY <1>0, <1>1, <1>2, <1>3, EmptiedLeaves
<1>. QED BY <1>4

\* The message being sent leaves, shown or not, and the queue keeps its
\* manual messages.
LEMMA SentLeaves ==
  ASSUME TypeInv, HolderInv, Sending, ~Sending', channel' = channel,
         queue' \in Seq(Message), Derived(queue', queue),
         KeepsManuals(queue', queue), NEW answer,
         reply' = Answer(ManualIds({inflight}), answer)
  PROVE  Leaves(ManualIds({inflight}), answer)
<1>1. Len(queue') \in Nat
  OBVIOUS
<1>2. ASSUME NEW m \in Manuals
      PROVE  /\ OnePlace(m)' /\ (m \in ManualIds({inflight}) => Held(m))
             /\ Held(m)' <=> Held(m) /\ m \notin ManualIds({inflight})
  <2>1. OnePlace(m)
    BY DEF HolderInv
  <2>2. /\ HasManual(queue', m) <=> HasManual(queue, m)
        /\ Once(queue, m) => Once(queue', m)
    BY <1>1, SameManuals
  <2>3. m \in ManualIds({inflight}) <=> Flying(m)
    BY FlyingManual, InManualIds
  <2>4. ~Flying(m)'
    BY DEF Flying
  <2>. HIDE DEF Flying
  <2>. QED BY <2>1, <2>2, <2>3, <2>4 DEF OnePlace, Held
<1>. QED BY <1>2 DEF Leaves

\* A packet has left.
LEMMA DeliverHolds ==
  ASSUME TypeInv, OrderInv, HolderInv, Deliver
  PROVE  Leaves(ManualIds({inflight}), "sent")
<1>0. /\ Sending /\ ~Sending' /\ queue \in Seq(Message)
      /\ current_sent \in SentMessage \cup {None}
      /\ queue' = AfterSend /\ channel' = channel
      /\ reply' = Answer(ManualIds({inflight}), "sent")
  BY DEF TypeInv, TypeOK, Deliver, MayWrite, Sending
<1>1. queue' \in Seq(Message) /\ Derived(queue', queue)
  BY <1>0, AfterSendFacts
<1>2. KeepsManuals(queue', queue)
  <2>1. CASE current_sent # None /\ current_sent.message.id # inflight.id
    <3>. DEFINE M == {m \in ToSet(queue) : m.id # current_sent.message.id}
    <3>1. queue' = Keep(queue, M)
      BY <1>0, <2>1 DEF AfterSend
    <3>2. /\ current_sent.message \in Message
          /\ current_sent.message.kind = "subtitle"
      BY <1>0, <2>1 DEF SentMessage, OrderInv, ShownOrder
    <3>3. ASSUME NEW i \in 1..Len(queue), IsManual(queue[i])
          PROVE  queue[i] \in M
      <4>1. queue[i] \in Message /\ queue[i] \in ToSet(queue)
        BY <1>0 DEF ToSet
      <4>2. queue[i].id # current_sent.message.id
        BY <3>2, <3>3, <4>1, MessageFields, OscAssumption
           DEF IsManual, Subtitles
      <4>. QED BY <4>1, <4>2
    <3>. HIDE DEF M
    <3>. QED BY <1>0, <3>1, <3>3, ManualsKeep
  <2>2. CASE ~(current_sent # None /\ current_sent.message.id # inflight.id)
    BY <1>0, <2>2 DEF AfterSend, KeepsManuals
  <2>. QED BY <2>1, <2>2
<1>. QED BY <1>0, <1>1, <1>2, SentLeaves

\* A packet could not be sent.
LEMMA FailSendHolds ==
  ASSUME TypeInv, HolderInv, FailSend
  PROVE  Leaves(ManualIds({inflight}), "failed")
<1>0. /\ Sending /\ ~Sending' /\ queue' = queue /\ queue \in Seq(Message)
      /\ channel' = channel
      /\ reply' = Answer(ManualIds({inflight}), "failed")
  BY DEF TypeInv, TypeOK, FailSend, MayWrite, Sending
<1>1. Derived(queue', queue) /\ KeepsManuals(queue', queue)
  BY <1>0, DerivedRefl DEF KeepsManuals
<1>. QED BY <1>0, <1>1, SentLeaves

\* The other steps of the worker, the speaker filter and the clock move no
\* manual message.
LEMMA QuietHolds ==
  ASSUME TypeInv, HolderInv,
         \/ PollEvents \/ ArmAutomatic \/ WouldBlock \/ FilterInflight
         \/ Advance \/ \E s \in Filterable : FilterSpeaker(s)
         \/ UNCHANGED vars
  PROVE  Stays
<1>0. /\ TypeOK /\ queue \in Seq(Message) /\ Derived(queue, queue)
      /\ KeepsManuals(queue, queue) /\ Len(queue) \in Nat
  BY DerivedRefl DEF TypeInv, TypeOK, KeepsManuals
<1>1. CASE \/ PollEvents \/ ArmAutomatic \/ WouldBlock
           \/ \E s \in Filterable : FilterSpeaker(s)
           \/ UNCHANGED vars
  <2>1. UNCHANGED <<queue, channel, reply, inflight>>
        /\ (Sending' <=> Sending)
    BY <1>1, ZenonT(60) DEF PollEvents, ArmAutomatic, WouldBlock,
         FilterSpeaker, vars, handle, worker, Sending
  <2>. QED BY <1>0, <2>1, QuietStays DEF Flying
<1>2. CASE FilterInflight
  <2>1. /\ UNCHANGED <<queue, channel, reply>> /\ ~Sending'
        /\ ~IsManual(inflight)
    BY <1>2 DEF FilterInflight, handle, Sending, SpeakerAllowed, IsManual
  <2>2. \A m \in Manuals : Flying(m)' <=> Flying(m)
    BY <2>1, FlyingManual DEF Flying
  <2>. QED BY <1>0, <2>1, <2>2, QuietStays
<1>3. CASE Advance
  <2>1. UNCHANGED <<channel, reply, inflight, phase>>
    BY <1>3 DEF Advance, handle
  <2>2. /\ Derived(queue', queue) /\ KeepsManuals(queue', queue)
        /\ queue' \in Seq(Message)
    BY <1>0, <1>3, AdvanceFacts
  <2>3. Len(queue') \in Nat
    BY <2>2
  <2>. QED BY <2>1, <2>2, <2>3, QuietStays DEF Flying, Sending
<1>. QED BY <1>1, <1>2, <1>3

(***************************************************************************)
(* A call of send_manual that is accepted, one that is not, and one whose  *)
(* caller stops waiting.                                                   *)
(***************************************************************************)
Accepted(m) ==
  /\ reply[m] = "idle"
  /\ reply' = [reply EXCEPT ![m] = "waiting"]
  /\ \A n \in Manuals : OnePlace(n)' /\ (Held(n)' <=> Held(n) \/ n = m)

Refused(m) ==
  /\ reply[m] = "idle"
  /\ \E answer \in {"disabled", "queue_full"} :
       reply' = [reply EXCEPT ![m] = answer]
  /\ \A n \in Manuals : OnePlace(n)' /\ (Held(n)' <=> Held(n))

TimedOut(m) ==
  /\ reply[m] = "waiting"
  /\ reply' = [reply EXCEPT ![m] = "timeout"]
  /\ \A n \in Manuals : OnePlace(n)' /\ (Held(n)' <=> Held(n))

\* Only an accepted call of send_manual brings a manual message in.
LEMMA CallerHolds ==
  ASSUME TypeInv, HolderInv, Caller
  PROVE  \/ Stays
         \/ \E m \in Manuals : Accepted(m) \/ Refused(m) \/ TimedOut(m)
<1>0. /\ channel \in Seq(Event) /\ reply \in [Manuals -> Replies]
      /\ UNCHANGED <<queue, phase, inflight>>
  BY ZenonT(60) DEF TypeInv, TypeOK, Caller, PublishSubtitle, ReportResult,
       QueueTest, SendManual, ManualTimeout, UpdateConfig, UpdateMuteStatus,
       Install, worker
<1>1. \A m \in Manuals : Flying(m)' <=> Flying(m)
  BY <1>0 DEF Flying, Sending
<1>2. ASSUME channel' = channel
      PROVE  \A m \in Manuals : OnePlace(m)' /\ (Held(m)' <=> Held(m))
  <2>. TAKE m \in Manuals
  <2>1. OnePlace(m)
    BY DEF HolderInv
  <2>2. Flying(m)' <=> Flying(m)
    BY <1>1
  <2>. HIDE DEF Flying
  <2>. QED BY <1>0, <1>2, <2>1, <2>2 DEF OnePlace, Held
<1>3. ASSUME NEW e, TrySend(e), e.kind # "manual"
      PROVE  \A m \in Manuals : OnePlace(m)' /\ (Held(m)' <=> Held(m))
  <2>1. CASE channel' = channel
    BY <1>2, <2>1
  <2>2. CASE channel' = Append(channel, e)
    <3>. TAKE m \in Manuals
    <3>1. OnePlace(m)
      BY DEF HolderInv
    <3>2. /\ HasManual(channel', m) <=> HasManual(channel, m)
          /\ Once(channel, m) => Once(channel', m)
      BY <1>0, <1>3, <2>2, AppendedManuals DEF IsManual
    <3>3. Flying(m)' <=> Flying(m)
      BY <1>1
    <3>. HIDE DEF Flying
    <3>. QED BY <1>0, <3>1, <3>2, <3>3 DEF OnePlace, Held
  <2>. QED BY <1>3, <2>1, <2>2 DEF TrySend
<1>4. ASSUME NEW route \in Routes, PublishSubtitle(route)
      PROVE  Stays
  <2>. DEFINE e == [kind |-> "subtitle", id |-> published',
                    generation |-> config.automatic_revision,
                    route |-> route]
  <2>1. e.kind # "manual"
    OBVIOUS
  <2>2. reply' = reply /\ (TrySend(e) \/ channel' = channel)
    BY <1>4 DEF PublishSubtitle
  <2>. HIDE DEF e
  <2>. QED BY <1>2, <1>3, <2>1, <2>2 DEF Stays
<1>5. ASSUME NEW kind \in {"completed", "superseded", "failed"}, NEW s, NEW l,
             NEW c, ReportResult(kind, s, l, c)
      PROVE  Stays
  <2>. DEFINE e == IF kind = "failed"
                   THEN [kind |-> kind, id |-> s, lang |-> l,
                         generation |-> config.automatic_revision]
                   ELSE [kind |-> kind, id |-> s, lang |-> l,
                         generation |-> config.automatic_revision,
                         content |-> c]
  <2>1. e.kind # "manual"
    OBVIOUS
  <2>2. reply' = reply /\ (TrySend(e) \/ channel' = channel)
    BY <1>5 DEF ReportResult
  <2>. HIDE DEF e
  <2>. QED BY <1>2, <1>3, <2>1, <2>2 DEF Stays
<1>6. ASSUME NEW t \in Tests, QueueTest(t)
      PROVE  Stays
  BY <1>2, <1>3, <1>6 DEF QueueTest, Stays
<1>7. ASSUME NEW m \in Manuals, SendManual(m)
      PROVE  Accepted(m) \/ Refused(m)
  <2>. DEFINE e == [kind |-> "manual", id |-> m,
                    generation |-> config.config_revision]
  <2>0. reply[m] = "idle"
    BY <1>7 DEF SendManual
  <2>1. CASE ~config.config.enabled
    <3>1. channel' = channel /\ reply' = [reply EXCEPT ![m] = "disabled"]
      BY <1>7, <2>1 DEF SendManual
    <3>2. Refused(m)
      BY <1>2, <2>0, <3>1 DEF Refused
    <3>. QED BY <3>2
  <2>2. CASE config.config.enabled
    <3>1. /\ TrySend(e)
          /\ reply' = [reply EXCEPT ![m] =
                         IF Len(channel) < EventCapacity THEN "waiting"
                                                         ELSE "queue_full"]
      BY <1>7, <2>2 DEF SendManual
    <3>2. CASE ~(Len(channel) < EventCapacity)
      <4>1. channel' = channel /\ reply' = [reply EXCEPT ![m] = "queue_full"]
        BY <3>1, <3>2 DEF TrySend
      <4>2. Refused(m)
        BY <1>2, <2>0, <4>1 DEF Refused
      <4>. QED BY <4>2
    <3>3. CASE Len(channel) < EventCapacity
      <4>1. /\ channel' = Append(channel, e)
            /\ reply' = [reply EXCEPT ![m] = "waiting"]
        BY <3>1, <3>3 DEF TrySend
      <4>2. IsManual(e) /\ e.id = m
        BY DEF IsManual
      <4>. HIDE DEF e
      <4>3. ASSUME NEW n \in Manuals
            PROVE  OnePlace(n)' /\ (Held(n)' <=> Held(n) \/ n = m)
        <5>1. OnePlace(n) /\ (n = m => ~Held(n))
          BY <2>0 DEF HolderInv, HeldAsTold
        <5>2. /\ HasManual(channel', n) <=> HasManual(channel, n) \/ n = m
              /\ /\ Once(channel, n) /\ ~(HasManual(channel, n) /\ n = m)
                 => Once(channel', n)
          BY <1>0, <4>1, <4>2, AppendedManuals
        <5>3. Flying(n)' <=> Flying(n)
          BY <1>1
        <5>. HIDE DEF Flying
        <5>. QED BY <1>0, <5>1, <5>2, <5>3 DEF OnePlace, Held
      <4>4. Accepted(m)
        BY <2>0, <4>1, <4>3 DEF Accepted
      <4>. QED BY <4>4
    <3>. QED BY <3>2, <3>3
  <2>. QED BY <2>1, <2>2
<1>8. ASSUME NEW m \in Manuals, ManualTimeout(m)
      PROVE  TimedOut(m)
  BY <1>2, <1>8 DEF ManualTimeout, TimedOut
<1>9. CASE \/ \E c \in Configs : UpdateConfig(c)
           \/ \E g \in Gates : UpdateMuteStatus(g)
  BY <1>2, <1>9 DEF UpdateConfig, UpdateMuteStatus, Install, Stays
<1>. QED BY <1>4, <1>5, <1>6, <1>7, <1>8, <1>9 DEF Caller

\* Every step keeps the responders where they can be found.
LEMMA HolderStep ==
  ASSUME TypeInv, TypeInv', OrderInv, HolderInv, [Next]_vars
  PROVE  HolderInv'
<1>1. ASSUME NEW m \in Manuals, Accepted(m) \/ Refused(m) \/ TimedOut(m)
      PROVE  HolderInv'
  <2>1. ASSUME NEW n \in Manuals PROVE OnePlace(n)' /\ HeldAsTold(n)'
    <3>1. /\ HeldAsTold(n) /\ OnePlace(n)'
          /\ reply \in [Manuals -> Replies]
      BY <1>1 DEF HolderInv, Accepted, Refused, TimedOut, TypeInv, TypeOK
    <3>. HIDE DEF Held
    <3>2. CASE n # m
      <4>1. reply'[n] = reply[n] /\ (Held(n)' <=> Held(n))
        BY <1>1, <3>1, <3>2 DEF Accepted, Refused, TimedOut
      <4>. QED BY <3>1, <4>1 DEF HeldAsTold
    <3>3. CASE n = m
      <4>1. \/ reply'[n] = "waiting" /\ Held(n)'
            \/ /\ reply'[n] \in {"disabled", "queue_full"}
               /\ reply[n] = "idle" /\ (Held(n)' <=> Held(n))
            \/ reply'[n] = "timeout"
        BY <1>1, <3>1, <3>3 DEF Accepted, Refused, TimedOut
      <4>. QED BY <3>1, <4>1 DEF HeldAsTold
    <3>. QED BY <3>2, <3>3
  <2>. QED BY <2>1 DEF HolderInv
<1>2. CASE Caller
  BY <1>1, <1>2, CallerHolds, StaysHolder
<1>3. CASE Receive
  BY <1>3, ReceiveHolds, StaysHolder, LeavesHolder
<1>4. CASE Tick
  BY <1>4, TickHolds, StaysHolder, LeavesHolder
<1>5. CASE TakeConfig
  BY <1>5, TakeConfigHolds, StaysHolder, LeavesHolder
<1>6. CASE CancelByConfig
  BY <1>6, CancelHolds, LeavesHolder
<1>7. CASE Deliver
  BY <1>7, DeliverHolds, LeavesHolder
<1>8. CASE FailSend
  BY <1>8, FailSendHolds, LeavesHolder
<1>9. CASE \/ PollEvents \/ ArmAutomatic \/ WouldBlock \/ FilterInflight
           \/ Advance \/ \E s \in Filterable : FilterSpeaker(s)
           \/ UNCHANGED vars
  BY <1>9, QuietHolds, StaysHolder
<1>. QED BY <1>2, <1>3, <1>4, <1>5, <1>6, <1>7, <1>8, <1>9 DEF Next, Worker

\* Responders are always where they can be found.
LEMMA HolderAlways == Spec => []HolderInv
<1>1. Init => HolderInv
  <2>. SUFFICES ASSUME Init, NEW m \in Manuals
                PROVE  OnePlace(m) /\ HeldAsTold(m)
    BY DEF HolderInv
  <2>1. 1..Len(channel) = {} /\ 1..Len(queue) = {} /\ ~Sending
        /\ reply[m] = "idle"
    BY DEF Init, Sending
  <2>. QED BY <2>1 DEF OnePlace, HeldAsTold, Held, Flying, Once, HasManual
<1>. QED BY <1>1, HolderStep, TypeAlways, OrderAlways, PTL DEF Spec

\* A set of at most one position.
LEMMA PositionsOnce ==
  ASSUME NEW S, \A i, j \in S : i = j
  PROVE  /\ S = {} => Cardinality(S) = 0
         /\ S # {} => Cardinality(S) = 1
<1>1. S = {} => Cardinality(S) = 0
  BY FS_EmptySet
<1>2. ASSUME NEW i \in S PROVE Cardinality(S) = 1
  <2>1. S = {i}
    BY <1>2
  <2>. QED BY <2>1, FS_Singleton
<1>. QED BY <1>1, <1>2

\* A message in one place has one holder; one that is nowhere has none.
LEMMA HoldersCount ==
  ASSUME TypeInv, NEW m \in Manuals, OnePlace(m)
  PROVE  Holders(m) = IF Held(m) THEN 1 ELSE 0
<1>. DEFINE C == {i \in DOMAIN channel : channel[i].id = m
                                         /\ channel[i].kind = "manual"}
            Q == {i \in DOMAIN queue : queue[i].id = m /\ IsManual(queue[i])}
            F == IF Sending /\ inflight.id = m THEN 1 ELSE 0
<1>1. DOMAIN channel = 1..Len(channel) /\ DOMAIN queue = 1..Len(queue)
  BY DEF TypeInv, TypeOK
<1>2. /\ \A i, j \in C : i = j
      /\ C # {} <=> HasManual(channel, m)
  BY <1>1 DEF OnePlace, Once, HasManual, IsManual
<1>3. /\ \A i, j \in Q : i = j
      /\ Q # {} <=> HasManual(queue, m)
  BY <1>1 DEF OnePlace, Once, HasManual
<1>4. Holders(m) = Cardinality(C) + Cardinality(Q) + F
  BY DEF Holders
<1>5. F = IF Flying(m) THEN 1 ELSE 0
  BY DEF Flying
<1>. HIDE DEF C, Q, F, Flying
<1>6. Cardinality(C) = IF HasManual(channel, m) THEN 1 ELSE 0
  BY <1>2, PositionsOnce
<1>7. Cardinality(Q) = IF HasManual(queue, m) THEN 1 ELSE 0
  BY <1>3, PositionsOnce
<1>8. CASE HasManual(channel, m)
  <2>1. ~HasManual(queue, m) /\ ~Flying(m) /\ Held(m)
    BY <1>8 DEF OnePlace, Held
  <2>. QED BY <1>4, <1>5, <1>6, <1>7, <1>8, <2>1
<1>9. CASE HasManual(queue, m)
  <2>1. ~HasManual(channel, m) /\ ~Flying(m) /\ Held(m)
    BY <1>9 DEF OnePlace, Held
  <2>. QED BY <1>4, <1>5, <1>6, <1>7, <1>9, <2>1
<1>10. CASE ~HasManual(channel, m) /\ ~HasManual(queue, m)
  <2>1. Held(m) <=> Flying(m)
    BY <1>10 DEF Held
  <2>. QED BY <1>4, <1>5, <1>6, <1>7, <1>10, <2>1
<1>. QED BY <1>8, <1>9, <1>10

(***************************************************************************)
(* No manual send is forgotten or answered twice: while its caller waits   *)
(* its responder is in exactly one place, the channel, the queue or the    *)
(* request being executed, and once the caller is answered it is nowhere.  *)
(***************************************************************************)
THEOREM RespondersAreConserved == Spec => []ResponderConserved
<1>1. ASSUME TypeInv, HolderInv PROVE ResponderConserved
  <2>. SUFFICES ASSUME NEW m \in Manuals
                PROVE  /\ Holders(m) <= 1
                       /\ reply[m] = "waiting" => Holders(m) = 1
                       /\ reply[m] \notin {"waiting", "timeout"} =>
                            Holders(m) = 0
    BY DEF ResponderConserved
  <2>1. Holders(m) = IF Held(m) THEN 1 ELSE 0
    BY <1>1, HoldersCount DEF HolderInv
  <2>2. HeldAsTold(m)
    BY <1>1 DEF HolderInv
  <2>3. Holders(m) \in {0, 1} /\ (Holders(m) = 1 <=> Held(m))
    BY <2>1
  <2>. HIDE DEF Holders, Held
  <2>4. Holders(m) <= 1
    BY <2>3
  <2>. QED BY <2>2, <2>3, <2>4 DEF HeldAsTold
<1>2. TypeInv /\ HolderInv => ResponderConserved
  BY <1>1
<1>. QED BY <1>2, TypeAlways, HolderAlways, PTL
-----------------------------------------------------------------------------
(* The promise of the dispatcher                                           *)

\* The manual messages that are pending in the promise.
Pending == {m \in Manuals : Holders(m) > 0}

\* A message is pending while somebody holds it.
PendingIsHeld == \A m \in Manuals : m \in Pending <=> Held(m)

\* It follows from the invariants.
LEMMA PendingHeld == TypeInv /\ HolderInv => PendingIsHeld
<1>. SUFFICES ASSUME TypeInv, HolderInv, NEW m \in Manuals
              PROVE  m \in Pending <=> Held(m)
  BY DEF PendingIsHeld
<1>1. Holders(m) = IF Held(m) THEN 1 ELSE 0
  BY HoldersCount DEF HolderInv
<1>2. Holders(m) > 0 <=> Held(m)
  BY <1>1
<1>. QED BY <1>2 DEF Pending

\* After a step, too.
LEMMA PendingHeldNext == TypeInv' /\ HolderInv' => PendingIsHeld'
BY PendingHeld, PTL

\* Only a packet that leaves changes what the Chatbox shows.
LEMMA OnlyDeliverShows ==
  ASSUME [Next]_vars, ~Deliver
  PROVE  UNCHANGED <<display, newest>>
<1>1. CASE Caller
  BY <1>1, ZenonT(60) DEF Caller, PublishSubtitle, ReportResult, QueueTest,
       SendManual, ManualTimeout, UpdateConfig, UpdateMuteStatus, Install,
       history
<1>2. CASE Worker
  BY <1>2, ZenonT(60) DEF Worker, TakeConfig, PollEvents, Receive, Tick,
       ArmAutomatic, CancelByConfig, WouldBlock, FilterInflight, FailSend,
       history
<1>3. CASE (\E s \in Filterable : FilterSpeaker(s)) \/ Advance
           \/ UNCHANGED vars
  BY <1>3 DEF FilterSpeaker, Advance, vars, history
<1>. QED BY <1>1, <1>2, <1>3 DEF Next

\* Each kind of step, as a step of the promise.
LEMMA StaysPromise ==
  ASSUME TypeInv, TypeInv', HolderInv, HolderInv', Stays,
         UNCHANGED <<display, newest>>
  PROVE  UNCHANGED <<reply, Pending, display, newest>>
<1>1. \A m \in Manuals : m \in Pending' <=> m \in Pending
  <2>1. \A m \in Manuals : m \in Pending <=> Held(m)
    BY PendingHeld DEF PendingIsHeld
  <2>2. \A m \in Manuals : m \in Pending' <=> Held(m)'
    BY PendingHeldNext DEF PendingIsHeld
  <2>3. \A m \in Manuals : Held(m)' <=> Held(m)
    BY DEF Stays
  <2>. QED BY <2>1, <2>2, <2>3
<1>2. Pending' = Pending
  <2>1. Pending \subseteq Manuals /\ Pending' \subseteq Manuals
    BY DEF Pending
  <2>. QED BY <1>1, <2>1
<1>. QED BY <1>2 DEF Stays

\* What leaves unshown is given up.
LEMMA LeavesPromise ==
  ASSUME TypeInv, TypeInv', HolderInv, HolderInv', NEW S, NEW answer,
         Leaves(S, answer)
  PROVE  /\ S \cap Manuals \subseteq Pending
         /\ Pending' = Pending \ (S \cap Manuals)
         /\ reply' = [m \in Manuals |->
                        IF m \in S \cap Manuals /\ reply[m] = "waiting"
                        THEN answer ELSE reply[m]]
<1>1. \A m \in Manuals : m \in Pending <=> Held(m)
  BY PendingHeld DEF PendingIsHeld
<1>2. \A m \in Manuals : m \in Pending' <=> Held(m)'
  BY PendingHeldNext DEF PendingIsHeld
<1>3. \A m \in Manuals : /\ m \in S => Held(m)
                         /\ Held(m)' <=> Held(m) /\ m \notin S
  BY DEF Leaves
<1>4. Pending \subseteq Manuals /\ Pending' \subseteq Manuals
  BY DEF Pending
<1>5. reply' = [m \in Manuals |-> IF m \in S /\ reply[m] = "waiting"
                                  THEN answer ELSE reply[m]]
  BY DEF Leaves, Answer
<1>6. reply' = [m \in Manuals |->
                  IF m \in S \cap Manuals /\ reply[m] = "waiting"
                  THEN answer ELSE reply[m]]
  BY <1>5
<1>7. S \cap Manuals \subseteq Pending
  BY <1>1, <1>3
<1>8. Pending' = Pending \ (S \cap Manuals)
  BY <1>1, <1>2, <1>3, <1>4
<1>. QED BY <1>6, <1>7, <1>8

\* What is given up.
LEMMA GiveUpPromise ==
  ASSUME TypeInv, TypeInv', HolderInv, HolderInv', NEW S,
         NEW answer \in {"queue_full", "cancelled", "failed"},
         Leaves(S, answer), UNCHANGED <<display, newest>>
  PROVE  Promise!ChatboxNext
<1>. DEFINE T == S \cap Manuals
<1>1. /\ T \subseteq Pending /\ Pending' = Pending \ T
      /\ reply' = [m \in Manuals |-> IF m \in T /\ reply[m] = "waiting"
                                     THEN answer ELSE reply[m]]
  BY LeavesPromise
<1>. HIDE DEF T
<1>2. Promise!GiveUp(T)
  BY <1>1 DEF Promise!GiveUp, Promise!TellCallers, Pending
<1>3. T \in SUBSET {m \in Manuals : Holders(m) > 0}
  BY <1>1 DEF Pending
<1>. QED BY <1>2, <1>3 DEF Promise!ChatboxNext

\* What the callers do.
LEMMA CallerPromise ==
  ASSUME TypeInv, TypeInv', HolderInv, HolderInv', NEW m \in Manuals,
         Accepted(m) \/ Refused(m) \/ TimedOut(m),
         UNCHANGED <<display, newest>>
  PROVE  Promise!ChatboxNext
<1>1. \A n \in Manuals : n \in Pending <=> Held(n)
  BY PendingHeld DEF PendingIsHeld
<1>2. \A n \in Manuals : n \in Pending' <=> Held(n)'
  BY PendingHeldNext DEF PendingIsHeld
<1>3. Pending \subseteq Manuals /\ Pending' \subseteq Manuals
  BY DEF Pending
<1>4. CASE Accepted(m)
  <2>1. \A n \in Manuals : Held(n)' <=> Held(n) \/ n = m
    BY <1>4 DEF Accepted
  <2>2. Pending' = Pending \cup {m}
    BY <1>1, <1>2, <1>3, <2>1
  <2>3. Promise!Request(m)
    BY <1>4, <2>2 DEF Accepted, Promise!Request, Pending
  <2>. QED BY <2>3 DEF Promise!ChatboxNext
<1>5. CASE Refused(m) \/ TimedOut(m)
  <2>1. \A n \in Manuals : Held(n)' <=> Held(n)
    BY <1>5 DEF Refused, TimedOut
  <2>2. Pending' = Pending
    BY <1>1, <1>2, <1>3, <2>1
  <2>3. Promise!Refuse(m) \/ Promise!StopWaiting(m)
    BY <1>5, <2>2 DEF Refused, TimedOut, Promise!Refuse,
       Promise!StopWaiting, Pending
  <2>. QED BY <2>3 DEF Promise!ChatboxNext
<1>. QED BY <1>4, <1>5

\* What a packet shows.
LEMMA DeliverPromise ==
  ASSUME TypeInv, TypeInv', OrderInv, HolderInv, HolderInv', Deliver
  PROVE  Promise!ChatboxNext
<1>. DEFINE T == ManualIds({inflight}) \cap Manuals
<1>0. /\ Sending /\ inflight \in Message /\ display' = inflight.id
      /\ reply \in [Manuals -> Replies]
  BY DEF TypeInv, TypeOK, Deliver, MayWrite, Sending
<1>1. /\ T \subseteq Pending /\ Pending' = Pending \ T
      /\ reply' = [m \in Manuals |-> IF m \in T /\ reply[m] = "waiting"
                                     THEN "sent" ELSE reply[m]]
  BY DeliverHolds, LeavesPromise
<1>2. \A m : m \in T <=> m \in Manuals /\ IsManual(inflight) /\ m = inflight.id
  BY InManualIds
<1>. HIDE DEF T
<1>3. CASE inflight.kind = "manual"
  <2>1. T = {inflight.id} /\ inflight.id \in Manuals
    BY <1>0, <1>2, <1>3, MessageFields DEF IsManual
  <2>2. newest' = newest
    BY <1>3 DEF Deliver
  <2>3. Promise!ShowManual(inflight.id)
    BY <1>0, <1>1, <2>1, <2>2
       DEF Promise!ShowManual, Promise!TellCallers, Pending
  <2>4. inflight.id \in {m \in Manuals : Holders(m) > 0}
    BY <1>1, <2>1 DEF Pending
  <2>. QED BY <2>3, <2>4 DEF Promise!ChatboxNext
<1>4. CASE inflight.kind # "manual"
  <2>1. T = {}
    BY <1>2, <1>4 DEF IsManual
  <2>2. Pending' = Pending /\ reply' = reply
    BY <1>0, <1>1, <2>1
  <2>3. CASE inflight.kind = "subtitle"
    <3>1. inflight.id \in Subtitles
      BY <1>0, <2>3, MessageFields
    <3>2. inflight.id > newest \/ display = inflight.id
      BY <1>0, <2>3 DEF OrderInv, InflightOrder, ShownOrder, Fresh
    <3>3. newest' = IF inflight.id > newest THEN inflight.id ELSE newest
      BY <2>3 DEF Deliver
    <3>4. Promise!ShowSubtitle(inflight.id)
      BY <1>0, <2>2, <3>2, <3>3 DEF Promise!ShowSubtitle, Pending
    <3>. QED BY <3>1, <3>4 DEF Promise!ChatboxNext
  <2>4. CASE inflight.kind = "test"
    <3>1. inflight.id \in Tests
      BY <1>0, <2>4, MessageFields
    <3>2. newest' = newest
      BY <2>4 DEF Deliver
    <3>3. Promise!ShowTest(inflight.id)
      BY <1>0, <2>2, <3>2 DEF Promise!ShowTest, Pending
    <3>. QED BY <3>1, <3>3 DEF Promise!ChatboxNext
  <2>. QED BY <1>0, <1>4, <2>3, <2>4, MessageFields
<1>. QED BY <1>3, <1>4

\* Every step of the dispatcher is a step of the promise, or none.
LEMMA PromiseStep ==
  ASSUME TypeInv, TypeInv', OrderInv, HolderInv, HolderInv', [Next]_vars
  PROVE  [Promise!ChatboxNext]_(Promise!chatboxVars)
<1>1. CASE Deliver
  BY <1>1, DeliverPromise
<1>2. CASE ~Deliver
  <2>0. UNCHANGED <<display, newest>>
    BY <1>2, OnlyDeliverShows
  <2>1. ASSUME Stays PROVE [Promise!ChatboxNext]_(Promise!chatboxVars)
    <3>1. UNCHANGED <<reply, Pending, display, newest>>
      BY <2>0, <2>1, StaysPromise
    <3>. QED BY <3>1 DEF Promise!chatboxVars, Pending
  <2>2. ASSUME NEW S, \/ Leaves(S, "queue_full") \/ Leaves(S, "cancelled")
                      \/ Leaves(S, "failed")
        PROVE  [Promise!ChatboxNext]_(Promise!chatboxVars)
    BY <2>0, <2>2, GiveUpPromise
  <2>3. CASE Caller
    BY <2>0, <2>1, <2>3, CallerHolds, CallerPromise
  <2>4. CASE Receive
    BY <2>1, <2>2, <2>4, ReceiveHolds
  <2>5. CASE Tick
    BY <2>1, <2>2, <2>5, TickHolds
  <2>6. CASE TakeConfig
    BY <2>1, <2>2, <2>6, TakeConfigHolds
  <2>7. CASE CancelByConfig
    BY <2>2, <2>7, CancelHolds
  <2>8. CASE FailSend
    BY <2>2, <2>8, FailSendHolds
  <2>9. CASE \/ PollEvents \/ ArmAutomatic \/ WouldBlock \/ FilterInflight
             \/ Advance \/ \E s \in Filterable : FilterSpeaker(s)
             \/ UNCHANGED vars
    BY <2>1, <2>9, QuietHolds
  <2>. QED BY <1>2, <2>3, <2>4, <2>5, <2>6, <2>7, <2>8, <2>9
           DEF Next, Worker
<1>. QED BY <1>1, <1>2

(***************************************************************************)
(* The dispatcher, with its channel, queue, revisions, timeouts, evictions *)
(* and failing sockets, implements what Chatbox promises to the callers of *)
(* send_manual and to whoever reads the VRChat Chatbox.                    *)
(***************************************************************************)
THEOREM KeepsItsPromise == Spec => ImplementsChatbox
<1>1. Init => Promise!ChatboxInit
  <2>. SUFFICES ASSUME Init PROVE Promise!ChatboxInit
    OBVIOUS
  <2>1. /\ reply = [m \in Manuals |-> "idle"] /\ display = None /\ newest = 0
        /\ channel = << >> /\ queue = << >> /\ ~Sending
    BY DEF Init, Sending
  <2>2. ASSUME NEW m \in Manuals PROVE ~(Holders(m) > 0)
    <3>1. Holders(m) = 0
      BY <2>1, FS_EmptySet DEF Holders
    <3>. QED BY <3>1
  <2>. QED BY <2>1, <2>2 DEF Promise!ChatboxInit
<1>2. TypeInv /\ TypeInv' /\ OrderInv /\ HolderInv /\ HolderInv'
      /\ [Next]_vars => [Promise!ChatboxNext]_(Promise!chatboxVars)
  BY PromiseStep
<1>. QED BY <1>1, <1>2, TypeAlways, OrderAlways, HolderAlways, PTL
         DEF Spec, ImplementsChatbox, Promise!ChatboxSpec
=============================================================================
