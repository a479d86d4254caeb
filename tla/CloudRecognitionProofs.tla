------------------------ MODULE CloudRecognitionProofs ------------------------
(***************************************************************************)
(* Theorems about the transcription pipeline and its cloud session.  The   *)
(* inductive invariant TypeInv /\ FlowInv /\ SegmentInv comes first; the   *)
(* other invariants each stand on it.                                      *)
(***************************************************************************)
EXTENDS CloudRecognition, MessageQueueProofs, FiniteSetTheorems,
        FunctionTheorems
-----------------------------------------------------------------------------
(* The inductive invariant                                                 *)

(***************************************************************************)
(* What a provider says names an utterance; only the failure of a whole    *)
(* session names none.                                                     *)
(***************************************************************************)
Said == {e \in Event : e.id = None => e.kind = "failed"}

Work == [kind : {"flush", "process"}, n : 1..MaxChunks]
        \cup [kind : {"commit"}, n : {0}]
        \cup Said

Chunk == {"flush", "process"}

(***************************************************************************)
(* TypeOK, and the kinds of what the sequences hold.                       *)
(***************************************************************************)
TypeInv ==
  /\ TypeOK
  /\ {events, outgoing, drained} \subseteq Seq(Said) /\ effects \in Seq(Work)
  /\ \A i \in 1..Len(heard) : heard[i].kind = "audio"

\* The pipeline is to send a commit.
Committing == \E i \in 1..Len(effects) : effects[i].kind = "commit"

Left == {"draining", "discarding", "flushing", "ended"}

(***************************************************************************)
(* Effects are the chunks of a trigger, the last of them "process", or a   *)
(* single one of another kind.                                             *)
(***************************************************************************)
EffectsFlow ==
  /\ \A i \in 1..Len(effects) :
       /\ effects[i].kind \in Chunk \/ Len(effects) = 1
       /\ effects[i].kind = "process" => i = Len(effects)
       /\ effects[i].kind \in Chunk => run = "busy" /\ streaming
       /\ effects[i].kind = "commit" => run = "busy" /\ ~streaming
  /\ effects # << >> => run \in {"busy", "flushing"}
  /\ run = "busy" => effects # << >>
  /\ streaming => pre_roll = << >>

(***************************************************************************)
(* The pipeline waits for the reply to the commit that is last in the      *)
(* channel.                                                                *)
(***************************************************************************)
ReplyFlow ==
  /\ reply # "none" => Committing
  /\ \A i \in 1..Len(audio) :
       audio[i].kind = "commit" => i = Len(audio) /\ reply = "awaited"

(***************************************************************************)
(* The session is told to stop when the pipeline has left its loop, and    *)
(* does not end before.                                                    *)
(***************************************************************************)
TaskFlow ==
  /\ stopped <=> run \in Left
  /\ task = "serving" => pending = << >>
  /\ task \in {"finishing", "ended"} => stopped

FlowInv == EffectsFlow /\ ReplyFlow /\ TaskFlow

(***************************************************************************)
(* The input on its way to a provider, in the order it will be sent, and   *)
(* with what the socket has heard since the last commit.                   *)
(***************************************************************************)
Way == (replay \o pending) \o audio
Stream == (IF task = "serving" THEN heard ELSE << >>) \o Way

\* The pipeline is inside a local segment.
Open == streaming \/ (Committing /\ reply = "none")

(***************************************************************************)
(* Segments follow one another in the stream, a commit ends its segment,   *)
(* and each is ahead of the utterances committed so far: there are never   *)
(* more utterances than segments, nor segments than chunks.                *)
(***************************************************************************)
SegmentInv ==
  /\ \A i \in 1..Len(Stream) :
       /\ utterances < Stream[i].segment /\ Stream[i].segment <= segment
       /\ Stream[i].kind = "commit" => Stream[i].segment < segment
       /\ Stream[i].segment = segment => Open
  /\ \A i, j \in 1..Len(Stream) : i < j =>
       /\ Stream[i].segment <= Stream[j].segment
       /\ Stream[i].kind = "commit" => Stream[i].segment < Stream[j].segment
  /\ segment <= read + 1
  /\ Open => segment <= read
  /\ utterances <= read
  /\ task \in {"serving", "connecting"} => utterances < segment

(***************************************************************************)
(* As long as nothing has been dropped, a commit stands between any two    *)
(* segments of the stream, and after each but the current one.             *)
(***************************************************************************)
ApartInv ==
  ~dropped =>
    /\ BoundariesKept
    /\ \A i, j \in 1..Len(Stream) :
         i < j /\ Stream[i].segment < Stream[j].segment =>
           \E k \in i..j-1 : Stream[k].kind = "commit"
    /\ \A i \in 1..Len(Stream) : Stream[i].segment < segment =>
         \E k \in i..Len(Stream) : Stream[k].kind = "commit"

(***************************************************************************)
(* Chunks are on their way in the order they were captured.                *)
(***************************************************************************)
OrderInv ==
  /\ sent <= read
  /\ \A i \in 1..Len(Way) : Way[i].kind = "audio" =>
       /\ sent < Way[i].n /\ Way[i].n <= read
       /\ \A j \in 1..Len(Way) :
            i < j /\ Way[j].kind = "audio" => Way[i].n < Way[j].n
       /\ \A j \in 1..Len(effects) :
            effects[j].kind \in Chunk => Way[i].n < effects[j].n
       /\ \A j \in 1..Len(pre_roll) : Way[i].n < pre_roll[j]
  /\ \A i \in 1..Len(effects) : effects[i].kind \in Chunk =>
       /\ sent < effects[i].n /\ effects[i].n <= read
       /\ \A j \in 1..Len(effects) :
            i < j /\ effects[j].kind \in Chunk => effects[i].n < effects[j].n
  /\ \A i \in 1..Len(pre_roll) :
       /\ sent < pre_roll[i] /\ pre_roll[i] <= read
       /\ \A j \in 1..Len(pre_roll) : i < j => pre_roll[i] < pre_roll[j]

\* An event of one of these kinds, about utterance u, is in q, ...
Ends(q, kinds, u) ==
  \E i \in 1..Len(q) : q[i].kind \in kinds /\ q[i].id = u

\* ... or about to be published.
Ending(kinds, u) == Ends(effects, kinds, u)

(***************************************************************************)
(* A preview is published for an active utterance only, and stays until    *)
(* the utterance's end, or that of all, is published.                      *)
(***************************************************************************)
PreviewInv ==
  /\ \A u \in Utterances : Ending({"partial"}, u) => u \in active
  /\ \A u \in shown : \/ u \in active
                      \/ Ending({"final", "failed"}, u)
                      \/ Ending({"failed"}, None)

(***************************************************************************)
(* A published utterance has terminated, or its termination has been       *)
(* forgotten since; one whose final result is about to be published has    *)
(* not been published, or has been forgotten.                              *)
(***************************************************************************)
OnceInv ==
  \A u \in Utterances :
    /\ finals[u] > 1 => u \in forgotten
    /\ finals[u] > 0 \/ Ending({"final"}, u) => Terminated(u) \/ u \in forgotten
    /\ finals[u] > 0 /\ Ending({"final"}, u) => u \in forgotten

(***************************************************************************)
(* The events left at a stop are flushed when the session is over and has  *)
(* no more of them; results are discarded only if a stop asks for it.      *)
(***************************************************************************)
OverInv ==
  /\ run \in {"flushing", "ended"} =>
       events = << >> /\ outgoing = << >> /\ task = "ended"
  /\ run = "ended" => drained = << >>
  /\ run = "discarding" => discard
  /\ discard => stop

(***************************************************************************)
(* What has terminated is settled, or its end is about to be published.    *)
(***************************************************************************)
DoneInv ==
  \A u : Terminated(u) => u \in settled \/ Ending({"final", "failed"}, u)

\* A final result of utterance u is among the events q.
HasFinal(q, u) == Ends(q, {"final"}, u)

(***************************************************************************)
(* A final result is on its way until its utterance is settled.            *)
(***************************************************************************)
ReceivedInv ==
  ~discard /\ ~failed => \A u \in received :
     \/ u \in settled \/ Ending({"final", "failed"}, u)
     \/ HasFinal(outgoing, u) \/ HasFinal(events, u) \/ HasFinal(drained, u)

KeptInv == OverInv /\ DoneInv /\ ReceivedInv
-----------------------------------------------------------------------------
(* Records and sequences                                                   *)

\* The fields of what a provider says.
LEMMA SaidFields ==
  ASSUME NEW e \in Said
  PROVE  /\ e \in Event /\ e \in Work /\ e \in Effect
         /\ e.kind \in {"partial", "final", "failed"}
         /\ e.kind # "failed" => e.id \in Utterances
         /\ e.id \in Utterances \cup {None}
BY DEF Said, Event, Work, Effect

\* The fields of the pipeline's effects.
LEMMA WorkFields ==
  ASSUME NEW w \in Work
  PROVE  /\ w \in Effect
         /\ w.kind \in Chunk \/ w.kind = "commit" \/ w \in Said
         /\ w.kind \in Chunk => w.n \in 1..MaxChunks
         /\ w.kind \in {"partial", "final", "failed"} => w \in Said
BY DEF Work, Effect, Said, Event, Chunk

\* The fields of the session's input.
LEMMA InputFields ==
  ASSUME NEW x \in Input
  PROVE  /\ x.kind \in {"audio", "commit"}
         /\ x.n \in 0..MaxChunks /\ x.segment \in Nat
BY DEF Input

\* Length and elements of a sequence.
LEMMA SeqFacts ==
  ASSUME NEW S, NEW q \in Seq(S)
  PROVE  /\ Len(q) \in Nat /\ DOMAIN q = 1..Len(q)
         /\ \A i \in 1..Len(q) : q[i] \in S
OBVIOUS

\* What is left of a sequence without its first element.
LEMMA TailFacts ==
  ASSUME NEW S, NEW q \in Seq(S), q # << >>
  PROVE  /\ Len(q) \in Nat \ {0} /\ Head(q) = q[1] /\ Head(q) \in S
         /\ Tail(q) \in Seq(S) /\ Len(Tail(q)) = Len(q) - 1
         /\ \A i \in 1..Len(q)-1 : Tail(q)[i] = q[i+1]
OBVIOUS

\* A sequence with one more element.
LEMMA AppendFacts ==
  ASSUME NEW S, NEW q \in Seq(S), NEW x \in S
  PROVE  /\ Append(q, x) \in Seq(S) /\ Len(Append(q, x)) = Len(q) + 1
         /\ \A i \in 1..Len(q)+1 :
              Append(q, x)[i] = IF i <= Len(q) THEN q[i] ELSE x
OBVIOUS

\* The empty sequence and sequences of one element.
LEMMA ShortFacts ==
  ASSUME NEW S, NEW x \in S
  PROVE  /\ << >> \in Seq(S) /\ Len(<< >>) = 0
         /\ <<x>> \in Seq(S) /\ Len(<<x>>) = 1 /\ <<x>>[1] = x
OBVIOUS

\* A sequence without elements, and one more element for it.
LEMMA EmptyFacts ==
  ASSUME NEW S, NEW q \in Seq(S), Len(q) = 0
  PROVE  q = << >> /\ \A x : Append(q, x) = <<x>> /\ Append(q, x) # << >>
<1>1. q = << >>
  OBVIOUS
<1>2. \A x : Append(<< >>, x) = <<x>> /\ Append(<< >>, x) # << >>
  OBVIOUS
<1>. QED BY <1>1, <1>2

\* The bounds, one by one.
LEMMA Bounds ==
  /\ AudioCapacity \in Nat \ {0} /\ EventCapacity \in Nat \ {0}
  /\ BufferLimit \in Nat \ {0} /\ RecentTerminations \in Nat \ {0}
  /\ MaxChunks \in Nat \ {0} /\ PreRoll \in Nat
  /\ MaxMessages \in Nat /\ MaxFaults \in Nat
  /\ None \notin Nat
BY CloudAssumption

(***************************************************************************)
(* r is q without the d elements after the first a.                        *)
(***************************************************************************)
Cut(r, q, a, d) ==
  /\ a \in Nat /\ d \in Nat /\ a + d <= Len(q)
  /\ Len(r) = Len(q) - d
  /\ \A i \in 1..Len(r) : r[i] = IF i <= a THEN q[i] ELSE q[i+d]

(***************************************************************************)
(* What the reconnect buffer keeps: the input without the commits before   *)
(* its first chunk of audio and that chunk, one chunk of audio fewer.      *)
(***************************************************************************)
LEMMA TrimFacts ==
  ASSUME NEW q \in Seq(Input), Chunks(q) > BufferLimit
  PROVE  /\ Trim(q) \in Seq(Input) /\ Chunks(Trim(q)) < Chunks(q)
         /\ \E d \in 1..Len(q) : Cut(Trim(q), q, 0, d)
<1>. DEFINE M == {i \in ToSet(q) : i.kind = "audio"}
            f == FirstIn(q, M)
            r == SubSeq(q, 1 + f, Len(q))
            A == {i \in DOMAIN q : q[i].kind = "audio"}
            B == {i \in DOMAIN r : r[i].kind = "audio"}
<1>0. Len(q) \in Nat /\ DOMAIN q = 1..Len(q) /\ BufferLimit \in Nat
  BY CloudAssumption
<1>1. /\ f \in 1..Len(q)+1
      /\ f <= Len(q) => q[f] \in M
      /\ \A j \in 1..f-1 : q[j] \notin M
  BY FirstInProperties
<1>2. \A j \in 1..Len(q) : q[j].kind = "audio" => q[j] \in M
  BY <1>0 DEF ToSet
<1>3. IsFiniteSet(A) /\ Cardinality(A) \in Nat
  <2>1. A \subseteq 1..Len(q) /\ IsFiniteSet(1..Len(q))
    BY <1>0, FS_Interval
  <2>. QED BY <2>1, FS_Subset, FS_CardinalityType
<1>4. A # {}
  BY <1>0, <1>3, FS_EmptySet DEF Chunks
<1>5. f \in 1..Len(q) /\ f \in A
  <2>1. PICK i \in 1..Len(q) : q[i].kind = "audio"
    BY <1>0, <1>4
  <2>2. q[i] \in M
    BY <1>2, <2>1
  <2>. HIDE DEF M, f
  <2>3. f <= Len(q)
    BY <1>0, <1>1, <2>1, <2>2
  <2>4. f \in 1..Len(q) /\ q[f] \in M
    BY <1>0, <1>1, <2>3
  <2>. QED BY <1>0, <2>4 DEF M
<1>6. Trim(q) = r
  <2>1. ~(Chunks(q) <= BufferLimit)
    BY <1>0, <1>3 DEF Chunks
  <2>. QED BY <2>1 DEF Trim
<1>. HIDE DEF M, f
<1>7. /\ r \in Seq(Input) /\ Len(r) = Len(q) - f
      /\ \A i \in 1..Len(r) : r[i] = q[i+f]
  BY SMTT(20), <1>0, <1>5
<1>. HIDE DEF r
<1>8. Cut(r, q, 0, f)
  BY <1>0, <1>5, <1>7 DEF Cut
<1>9. Cardinality(B) < Cardinality(A)
  <2>. DEFINE g == [i \in B |-> i + f]
  <2>1. \A i \in B : i \in 1..Len(r) /\ i + f \in 1..Len(q) /\ i + f # f
                     /\ q[i+f].kind = "audio"
    BY <1>0, <1>5, <1>7
  <2>2. g \in [B -> A \ {f}]
    BY <1>0, <2>1
  <2>3. \A i, j \in B : g[i] = g[j] => i = j
    BY <1>5, <2>1
  <2>. HIDE DEF g, A, B
  <2>4. g \in Injection(B, A \ {f})
    BY <2>2, <2>3, Fun_IsInj
  <2>5. IsFiniteSet(A \ {f}) /\ Cardinality(A \ {f}) = Cardinality(A) - 1
    BY <1>3, <1>5, FS_RemoveElement
  <2>6. Cardinality(B) <= Cardinality(A \ {f}) /\ IsFiniteSet(B)
    BY <2>4, <2>5, FS_Injection
  <2>7. Cardinality(B) \in Nat
    BY <2>6, FS_CardinalityType
  <2>. QED BY <1>3, <2>5, <2>6, <2>7
<1>. QED BY <1>5, <1>6, <1>7, <1>8, <1>9 DEF Chunks

\* A push adds one chunk of audio at most.
LEMMA PushFacts ==
  ASSUME NEW q \in Seq(Input), NEW x \in Input, Chunks(q) <= BufferLimit
  PROVE  /\ Push(q, x) \in Seq(Input) /\ Chunks(Push(q, x)) <= BufferLimit
         /\ \/ Push(q, x) = Append(q, x)
            \/ /\ Chunks(Append(q, x)) > BufferLimit
               /\ \E d \in 1..Len(q)+1 : Cut(Push(q, x), Append(q, x), 0, d)
<1>. DEFINE r == Append(q, x)
            A == {i \in DOMAIN q : q[i].kind = "audio"}
            B == {i \in DOMAIN r : r[i].kind = "audio"}
<1>0. Len(q) \in Nat /\ DOMAIN q = 1..Len(q) /\ BufferLimit \in Nat
  BY CloudAssumption
<1>1. /\ r \in Seq(Input) /\ Len(r) = Len(q) + 1
      /\ \A i \in 1..Len(q)+1 : r[i] = IF i <= Len(q) THEN q[i] ELSE x
      /\ DOMAIN r = 1..Len(q)+1
  BY AppendFacts
<1>. HIDE DEF r
<1>2. B \subseteq A \cup {Len(q)+1}
  BY <1>0, <1>1
<1>3. IsFiniteSet(A) /\ Cardinality(A) \in Nat
  <2>1. A \subseteq 1..Len(q) /\ IsFiniteSet(1..Len(q))
    BY <1>0, FS_Interval
  <2>. QED BY <2>1, FS_Subset, FS_CardinalityType
<1>. HIDE DEF A, B
<1>4. /\ IsFiniteSet(A \cup {Len(q)+1})
      /\ Cardinality(A \cup {Len(q)+1}) \in {Cardinality(A), Cardinality(A)+1}
  BY <1>3, FS_AddElement
<1>5. Cardinality(B) <= Cardinality(A) + 1 /\ Cardinality(B) \in Nat
  <2>1. Cardinality(B) <= Cardinality(A \cup {Len(q)+1}) /\ IsFiniteSet(B)
    BY <1>2, <1>4, FS_Subset
  <2>2. Cardinality(B) \in Nat
    BY <2>1, FS_CardinalityType
  <2>. QED BY <1>3, <1>4, <2>1, <2>2
<1>6. Chunks(r) <= BufferLimit + 1 /\ Chunks(r) \in Nat
  BY <1>0, <1>3, <1>5 DEF Chunks, A, B
<1>7. Push(q, x) = Trim(r)
  BY DEF Push, r
<1>8. CASE Chunks(r) <= BufferLimit
  <2>1. Trim(r) = r
    BY <1>8 DEF Trim
  <2>. QED BY <1>1, <1>7, <1>8, <2>1 DEF r
<1>9. CASE Chunks(r) > BufferLimit
  <2>1. /\ Trim(r) \in Seq(Input) /\ Chunks(Trim(r)) < Chunks(r)
        /\ \E d \in 1..Len(q)+1 : Cut(Trim(r), r, 0, d)
    BY <1>1, <1>9, TrimFacts
  <2>2. Chunks(Trim(r)) \in Nat
    <3>1. DOMAIN Trim(r) = 1..Len(Trim(r)) /\ Len(Trim(r)) \in Nat
      BY <2>1
    <3>2. /\ IsFiniteSet(1..Len(Trim(r)))
          /\ {i \in DOMAIN Trim(r) : Trim(r)[i].kind = "audio"}
               \subseteq 1..Len(Trim(r))
      BY <3>1, FS_Interval
    <3>. QED BY <3>2, FS_Subset, FS_CardinalityType DEF Chunks
  <2>3. Chunks(Trim(r)) <= BufferLimit
    BY <1>0, <1>6, <2>1, <2>2
  <2>. QED BY <1>7, <1>9, <2>1, <2>3 DEF r
<1>. QED BY <1>0, <1>6, <1>8, <1>9
-----------------------------------------------------------------------------
(* Type correctness                                                        *)

\* What handling an event does to the lifecycle and the effects.
LEMMA TerminateTyped ==
  ASSUME TypeOK, NEW u \in Utterances, Terminate(u)
  PROVE  /\ active' \subseteq Utterances /\ forgotten' \subseteq Utterances
         /\ terminated' \in Seq(Utterances)
         /\ Len(terminated') <= RecentTerminations
<1>1. /\ terminated \in Seq(Utterances) /\ Len(terminated) <= RecentTerminations
      /\ active \subseteq Utterances /\ forgotten \subseteq Utterances
      /\ RecentTerminations \in Nat \ {0}
  BY CloudAssumption DEF TypeOK
<1>2. CASE UNCHANGED <<terminated, forgotten>>
  BY <1>1, <1>2 DEF Terminate
<1>3. CASE /\ Len(terminated) < RecentTerminations
           /\ terminated' = Append(terminated, u) /\ forgotten' = forgotten
  BY <1>1, <1>3 DEF Terminate
<1>4. CASE /\ ~(Len(terminated) < RecentTerminations)
           /\ terminated' = Append(Tail(terminated), u)
           /\ forgotten' = forgotten \cup {Head(terminated)}
  <2>1. terminated # << >>
    BY <1>1, <1>4
  <2>2. /\ Len(terminated) \in Nat /\ Head(terminated) \in Utterances
        /\ Tail(terminated) \in Seq(Utterances)
        /\ Len(Tail(terminated)) = Len(terminated) - 1
    BY <1>1, <2>1, TailFacts
  <2>. QED BY <1>1, <1>4, <2>2 DEF Terminate
<1>. QED BY <1>2, <1>3, <1>4 DEF Terminate

\* A reset of the lifecycle.
LEMMA ForgetTyped ==
  ASSUME TypeOK, Forget
  PROVE  /\ active' \subseteq Utterances /\ forgotten' \subseteq Utterances
         /\ terminated' \in Seq(Utterances)
         /\ Len(terminated') <= RecentTerminations
<1>1. /\ terminated \in Seq(Utterances) /\ RecentTerminations \in Nat
      /\ forgotten \subseteq Utterances
  BY CloudAssumption DEF TypeOK
<1>2. ToSet(terminated) \subseteq Utterances
  BY <1>1 DEF ToSet
<1>. QED BY <1>1, <1>2 DEF Forget

\* reduce_cloud_event keeps the types and answers with one effect at most.
LEMMA HandleTyped ==
  ASSUME TypeOK, NEW e \in Said, NEW throttled, HandleEvent(e, throttled)
  PROVE  /\ active' \subseteq Utterances /\ forgotten' \subseteq Utterances
         /\ terminated' \in Seq(Utterances)
         /\ Len(terminated') <= RecentTerminations
         /\ effects' = << >> \/ effects' = <<e>>
<1>1. /\ e.kind \in {"partial", "final", "failed"}
      /\ e.kind # "failed" => e.id \in Utterances
      /\ e.id \in Utterances \cup {None}
  BY SaidFields
<1>2. CASE UNCHANGED lifecycle
  BY <1>2 DEF TypeOK, lifecycle, HandleEvent
<1>3. CASE e.id \in Utterances /\ Terminate(e.id)
  BY <1>3, TerminateTyped DEF HandleEvent
<1>4. CASE Forget
  BY <1>4, ForgetTyped DEF HandleEvent
<1>5. CASE active' = active \cup {e.id} /\ UNCHANGED <<terminated, forgotten>>
           /\ e.id \in Utterances
  BY <1>5 DEF TypeOK, HandleEvent
<1>. QED BY <1>1, <1>2, <1>3, <1>4, <1>5 DEF HandleEvent

\* Where the effects change, and what is left of them.
LEMMA EffectsTail ==
  ASSUME TypeInv, effects # << >>
  PROVE  /\ Len(effects) \in Nat \ {0} /\ 1 \in 1..Len(effects)
         /\ Head(effects) = effects[1] /\ Head(effects) \in Work
         /\ Tail(effects) \in Seq(Work) /\ Len(Tail(effects)) = Len(effects) - 1
         /\ \A i \in 1..Len(effects)-1 : Tail(effects)[i] = effects[i+1]
<1>1. effects \in Seq(Work)
  BY DEF TypeInv
<1>2. /\ Len(effects) \in Nat \ {0} /\ Head(effects) = effects[1]
      /\ Head(effects) \in Work
      /\ Tail(effects) \in Seq(Work) /\ Len(Tail(effects)) = Len(effects) - 1
      /\ \A i \in 1..Len(effects)-1 : Tail(effects)[i] = effects[i+1]
  BY <1>1, TailFacts
<1>. QED BY <1>2

\* The effects of a trigger: the pre-roll, then the chunk that triggered.
LEMMA TriggerFacts ==
  ASSUME NEW p \in Seq(1..MaxChunks), NEW n \in 1..MaxChunks,
         NEW r, r = [i \in 1..Len(p) + 1 |->
                       IF i <= Len(p) THEN [kind |-> "flush", n |-> p[i]]
                                      ELSE [kind |-> "process", n |-> n]]
  PROVE  /\ r \in Seq(Work) /\ Len(r) = Len(p) + 1 /\ r # << >>
         /\ \A i \in 1..Len(r) :
              /\ r[i].kind = IF i <= Len(p) THEN "flush" ELSE "process"
              /\ r[i].n = IF i <= Len(p) THEN p[i] ELSE n
<1>1. Len(p) \in Nat /\ \A i \in 1..Len(p) : p[i] \in 1..MaxChunks
  BY SeqFacts
<1>2. \A i \in 1..Len(p)+1 : r[i] \in Work
  BY <1>1 DEF Work
<1>3. r \in Seq(Work) /\ Len(r) = Len(p) + 1
  BY <1>1, <1>2
<1>. QED BY <1>1, <1>3

\* Every step of the pipeline keeps the types.
LEMMA TypePipeline ==
  ASSUME TypeInv, FlowInv,
         \/ LoopTop \/ SeeStop \/ ReadAudio \/ ReceiveEvent \/ SendAudio
         \/ SendCommit \/ TakeReply
  PROVE  TypeInv'
<1>0. /\ TypeOK /\ effects \in Seq(Work) /\ audio \in Seq(Input)
      /\ events \in Seq(Said) /\ Len(audio) <= AudioCapacity
      /\ Len(events) <= EventCapacity
      /\ AudioCapacity \in Nat \ {0} /\ EventCapacity \in Nat \ {0}
  BY CloudAssumption DEF TypeInv, TypeOK
<1>1. CASE LoopTop \/ SeeStop
  BY <1>0, <1>1
     DEF LoopTop, SeeStop, Leave, TypeInv, TypeOK, lifecycle, session,
         provider, control, display
<1>2. CASE ReadAudio
  <2>1. read' \in 1..MaxChunks /\ read' \in 0..MaxChunks
    <3>1. read \in 0..MaxChunks /\ read < MaxChunks /\ read' = read + 1
      BY <1>0, <1>2 DEF ReadAudio, TypeOK
    <3>. QED BY <3>1, Bounds
  <2>2. pre_roll \in Seq(1..MaxChunks) /\ Len(pre_roll) <= PreRoll
        /\ PreRoll \in Nat
    BY <1>0, Bounds DEF TypeOK
  <2>3. pre_roll' \in Seq(1..MaxChunks) /\ Len(pre_roll') <= PreRoll
    <3>. DEFINE kept == Append(pre_roll, read')
    <3>1. kept \in Seq(1..MaxChunks) /\ Len(kept) = Len(pre_roll) + 1
          /\ Len(pre_roll) \in Nat
      BY <2>1, <2>2, SeqFacts, AppendFacts
    <3>2. kept # << >>
      BY <3>1
    <3>. HIDE DEF kept
    <3>3. Tail(kept) \in Seq(1..MaxChunks) /\ Len(Tail(kept)) = Len(kept) - 1
      BY <3>1, <3>2, TailFacts
    <3>4. \/ pre_roll' = << >>
          \/ pre_roll' = IF Len(kept) > PreRoll THEN Tail(kept) ELSE kept
      BY <1>2 DEF ReadAudio, kept
    <3>5. << >> \in Seq(1..MaxChunks) /\ Len(<< >>) = 0
      BY <2>1, ShortFacts
    <3>6. CASE pre_roll' = << >>
      BY <2>2, <3>5, <3>6
    <3>7. CASE pre_roll' = Tail(kept)
      BY <2>2, <3>1, <3>3, <3>7
    <3>8. CASE pre_roll' = kept /\ ~(Len(kept) > PreRoll)
      BY <2>2, <3>1, <3>8
    <3>. QED BY <3>4, <3>6, <3>7, <3>8
  <2>4. effects' \in Seq(Work)
    BY <1>0, <1>2, <2>1, <2>2, TriggerFacts DEF ReadAudio
  <2>5. effects' \in Seq(Effect)
    BY <2>4, WorkFields, SeqFacts
  <2>. QED BY <1>2, <2>1, <2>3, <2>4, <2>5
           DEF ReadAudio, TypeInv, TypeOK, lifecycle, channels, session,
               provider, control, display
<1>3. CASE ReceiveEvent
  <2>. DEFINE e == Head(events)
  <2>1. /\ events # << >> /\ e \in Said /\ events' \in Seq(Said)
        /\ Len(events') <= EventCapacity
    BY <1>0, <1>3, TailFacts DEF ReceiveEvent
  <2>. HIDE DEF e
  <2>2. PICK throttled : HandleEvent(e, throttled)
    BY <1>3 DEF ReceiveEvent, e
  <2>3. /\ active' \subseteq Utterances /\ forgotten' \subseteq Utterances
        /\ terminated' \in Seq(Utterances)
        /\ Len(terminated') <= RecentTerminations
        /\ effects' = << >> \/ effects' = <<e>>
    BY <1>0, <2>1, <2>2, HandleTyped
  <2>4. e \in Work /\ e \in Effect
    BY <2>1, SaidFields
  <2>5. effects' \in Seq(Work) /\ effects' \in Seq(Effect)
    BY <2>3, <2>4, ShortFacts
  <2>6. events' \in Seq(Event)
    BY <2>1, SaidFields, SeqFacts
  <2>. QED BY <1>3, <2>1, <2>3, <2>5, <2>6
           DEF ReceiveEvent, TypeInv, TypeOK, session, provider, control,
               display
<1>4. CASE SendAudio
  <2>1. effects # << >>
    BY <1>4 DEF SendAudio, FlowInv, EffectsFlow
  <2>2. /\ Head(effects).kind \in Chunk /\ Head(effects).n \in 1..MaxChunks
        /\ Tail(effects) \in Seq(Work)
    BY <1>4, <2>1, EffectsTail, WorkFields DEF SendAudio, Chunk
  <2>3. Audio(Head(effects).n) \in Input
    <3>1. segment \in Nat /\ Head(effects).n \in 0..MaxChunks
      <4>1. segment \in Nat
        BY <1>0 DEF TypeOK
      <4>2. Head(effects).n \in 1..MaxChunks /\ MaxChunks \in Nat
        BY ONLY <2>2, Bounds
      <4>. QED BY ONLY <4>1, <4>2
    <3>. QED BY <3>1 DEF Audio, Input
  <2>4. audio' \in Seq(Input) /\ Len(audio') <= AudioCapacity
    BY <1>0, <1>4, <2>3, AppendFacts, SeqFacts DEF SendAudio
  <2>5. effects' \in Seq(Work)
    <3>1. [kind |-> "commit", n |-> 0] \in Work
      BY DEF Work
    <3>2. Append(Tail(effects), [kind |-> "commit", n |-> 0]) \in Seq(Work)
      BY <2>2, <3>1, AppendFacts
    <3>. QED BY <1>4, <2>2, <3>2 DEF SendAudio, Execute
  <2>6. effects' \in Seq(Effect)
    BY <2>5, WorkFields, SeqFacts
  <2>7. run' \in {"busy", "top"}
    BY <1>4 DEF SendAudio, Execute
  <2>. QED BY <1>4, <2>4, <2>5, <2>6, <2>7
           DEF SendAudio, TypeInv, TypeOK, lifecycle, session, provider,
               control, display
<1>5. CASE SendCommit
  <2>1. Commit \in Input /\ segment + 1 \in Nat
    <3>1. segment \in Nat /\ 0 \in 0..MaxChunks
      BY <1>0, Bounds DEF TypeOK
    <3>. QED BY <3>1 DEF Commit, Input
  <2>2. audio' \in Seq(Input) /\ Len(audio') <= AudioCapacity
    BY <1>0, <1>5, <2>1, AppendFacts, SeqFacts DEF SendCommit
  <2>. QED BY <1>5, <2>1, <2>2
           DEF SendCommit, TypeInv, TypeOK, lifecycle, session, provider,
               control, display
<1>6. CASE TakeReply
  <2>1. Committing /\ effects # << >>
    BY <1>0, <1>6 DEF TakeReply, FlowInv, ReplyFlow, Committing
  <2>2. Tail(effects) \in Seq(Work)
    BY <2>1, EffectsTail
  <2>3. FailureId \in Utterances \cup {None}
    <3>1. active \subseteq Utterances
      BY DEF TypeInv, TypeOK
    <3>. QED BY <3>1 DEF FailureId
  <2>4. [kind |-> "failed", id |-> FailureId] \in Work
    BY <2>3 DEF Work, Said, Event
  <2>5. Append(Tail(effects), [kind |-> "failed", id |-> FailureId]) \in Seq(Work)
    BY <2>2, <2>4, AppendFacts
  <2>6. effects' \in Seq(Work) /\ run' \in {"top", run}
    BY <1>6, <2>2, <2>5 DEF TakeReply, Execute
  <2>7. effects' \in Seq(Effect)
    BY <2>6, WorkFields, SeqFacts
  <2>8. /\ active' \subseteq Utterances /\ forgotten' \subseteq Utterances
        /\ terminated' \in Seq(Utterances)
        /\ Len(terminated') <= RecentTerminations
    <3>1. CASE UNCHANGED lifecycle
      BY <1>0, <3>1 DEF TypeOK, lifecycle
    <3>2. CASE FailureId \in Utterances /\ Terminate(FailureId)
      BY <1>0, <3>2, TerminateTyped
    <3>. QED BY <1>6, <2>3, <3>1, <3>2 DEF TakeReply
  <2>. QED BY <1>6, <2>6, <2>7, <2>8
           DEF TakeReply, TypeInv, TypeOK, session, provider, control, display
<1>. QED BY <1>1, <1>2, <1>3, <1>4, <1>5, <1>6

\* The way and the stream, element by element.
LEMMA StreamFacts ==
  ASSUME TypeOK
  PROVE  /\ Way \in Seq(Input) /\ Stream \in Seq(Input)
         /\ heard \in Seq(Input) /\ replay \in Seq(Input)
         /\ pending \in Seq(Input) /\ audio \in Seq(Input)
         /\ Stream = (IF task = "serving" THEN heard ELSE << >>) \o Way
         /\ task # "serving" => Stream = Way
         /\ task = "serving" =>
              /\ Len(Stream) = Len(heard) + Len(Way)
              /\ \A i \in 1..Len(heard) : Stream[i] = heard[i]
              /\ \A i \in 1..Len(Way) :
                   /\ Len(heard) + i \in 1..Len(Stream)
                   /\ Stream[Len(heard) + i] = Way[i]
<1>1. /\ heard \in Seq(Input) /\ replay \in Seq(Input)
      /\ pending \in Seq(Input) /\ audio \in Seq(Input)
  BY DEF TypeOK
<1>2. Way \in Seq(Input)
  BY <1>1, ConcatFacts DEF Way
<1>3. CASE task = "serving"
  <2>1. Stream = heard \o Way
    BY <1>3 DEF Stream
  <2>2. /\ Stream \in Seq(Input) /\ Len(Stream) = Len(heard) + Len(Way)
        /\ \A j \in 1..Len(heard)+Len(Way) :
             Stream[j] = IF j <= Len(heard) THEN heard[j] ELSE Way[j-Len(heard)]
    BY <1>1, <1>2, <2>1, ConcatFacts
  <2>3. Len(heard) \in Nat /\ Len(Way) \in Nat
    BY <1>1, <1>2, SeqFacts
  <2>. QED BY <1>1, <1>2, <1>3, <2>1, <2>2, <2>3
<1>4. CASE task # "serving"
  <2>1. Stream = << >> \o Way
    BY <1>4 DEF Stream
  <2>2. Stream = Way
    BY <1>2, <2>1
  <2>. QED BY <1>1, <1>2, <1>4, <2>1, <2>2
<1>. QED BY <1>3, <1>4

\* What the session takes next is the head of the way.
LEMMA NextFacts ==
  ASSUME TypeInv, FlowInv, task = "serving", replay # << >> \/ audio # << >>
  PROVE  /\ pending = << >> /\ Way # << >> /\ Way = replay \o audio
         /\ NextInput = Head(Way) /\ NextInput \in Input
         /\ TakeInput => /\ replay' \in Seq(Input) /\ audio' \in Seq(Input)
                         /\ Len(audio') <= Len(audio)
                         /\ replay' \o audio' = Tail(Way)
<1>1. /\ replay \in Seq(Input) /\ audio \in Seq(Input) /\ pending = << >>
  BY DEF TypeInv, TypeOK, FlowInv, TaskFlow
<1>2. Way = replay \o audio
  BY <1>1 DEF Way
<1>3. CASE replay # << >>
  <2>1. /\ Len(replay) \in Nat \ {0} /\ Head(replay) = replay[1]
        /\ Head(replay) \in Input
        /\ Tail(replay) \in Seq(Input) /\ Len(Tail(replay)) = Len(replay) - 1
        /\ \A i \in 1..Len(replay)-1 : Tail(replay)[i] = replay[i+1]
    BY <1>1, <1>3, TailFacts
  <2>2. NextInput = Head(replay)
    BY <1>3 DEF NextInput
  <2>3. Way # << >> /\ Head(Way) = Head(replay)
    BY <1>1, <1>2, <2>1
  <2>4. Tail(replay) \o audio = Tail(Way)
    BY <1>1, <1>2, <2>1
  <2>5. TakeInput => replay' = Tail(replay) /\ audio' = audio
    BY <1>3 DEF TakeInput
  <2>6. Len(audio) \in Nat
    BY <1>1, SeqFacts
  <2>7. ASSUME TakeInput
        PROVE  /\ replay' \in Seq(Input) /\ audio' \in Seq(Input)
               /\ Len(audio') <= Len(audio) /\ replay' \o audio' = Tail(Way)
    <3>1. replay' = Tail(replay) /\ audio' = audio
      BY <2>5, <2>7
    <3>2. replay' \o audio' = Tail(Way)
      BY <2>4, <3>1
    <3>. QED BY <1>1, <2>1, <2>6, <3>1, <3>2
  <2>8. NextInput \in Input /\ NextInput = Head(Way)
    BY <2>1, <2>2, <2>3
  <2>. QED BY <1>1, <1>2, <2>3, <2>7, <2>8
<1>4. CASE replay = << >>
  <2>1. audio # << >> /\ Way = audio
    BY <1>1, <1>2, <1>4
  <2>2. /\ Len(audio) \in Nat \ {0} /\ Head(audio) = audio[1]
        /\ Head(audio) \in Input
        /\ Tail(audio) \in Seq(Input) /\ Len(Tail(audio)) = Len(audio) - 1
    BY <1>1, <2>1, TailFacts
  <2>3. NextInput = Head(audio)
    BY <1>4 DEF NextInput
  <2>4. TakeInput => replay' = << >> /\ audio' = Tail(audio)
    BY <1>4 DEF TakeInput
  <2>5. << >> \o Tail(audio) = Tail(audio)
    BY <2>2
  <2>7. ASSUME TakeInput
        PROVE  /\ replay' \in Seq(Input) /\ audio' \in Seq(Input)
               /\ Len(audio') <= Len(audio) /\ replay' \o audio' = Tail(Way)
    <3>1. replay' = << >> /\ audio' = Tail(audio)
      BY <2>4, <2>7
    <3>2. replay' \o audio' = Tail(Way)
      BY <2>1, <2>5, <3>1
    <3>3. << >> \in Seq(Input) /\ Len(audio') <= Len(audio)
      BY <2>2, <3>1
    <3>. QED BY <2>2, <3>1, <3>2, <3>3
  <2>8. NextInput \in Input /\ NextInput = Head(Way)
    BY <2>1, <2>2, <2>3
  <2>. QED BY <1>1, <1>2, <2>1, <2>7, <2>8
<1>. QED BY <1>3, <1>4

(***************************************************************************)
(* While there is input, another utterance is within the chunks captured.  *)
(***************************************************************************)
LEMMA AnotherUtterance ==
  ASSUME TypeInv, SegmentInv, NEW i \in 1..Len(Stream)
  PROVE  /\ utterances + 1 <= read /\ utterances + 1 \in Utterances
         /\ utterances + 1 \in 0..MaxChunks
<1>1. /\ segment \in Nat /\ utterances \in Nat /\ read \in Nat
      /\ read <= MaxChunks /\ MaxChunks \in Nat
  BY Bounds DEF TypeInv, TypeOK
<1>2. Stream[i].segment \in Nat
  <2>1. Stream \in Seq(Input)
    BY StreamFacts DEF TypeInv
  <2>2. Stream[i] \in Input
    BY <2>1, SeqFacts
  <2>. QED BY <2>2, InputFields
<1>3. utterances < Stream[i].segment /\ Stream[i].segment <= segment
  BY DEF SegmentInv
<1>4. /\ Stream[i].segment = segment => segment <= read
      /\ segment <= read + 1
  BY DEF SegmentInv
<1>5. utterances + 1 <= read
  BY <1>1, <1>2, <1>3, <1>4
<1>. QED BY <1>1, <1>5 DEF Utterances

\* What publishing and flushing do to the types.
LEMMA TypePublish ==
  ASSUME TypeInv, FlowInv,
         \/ Publish \/ FailStorage \/ Collect \/ Drained \/ Flush \/ Finish
         \/ \E d \in BOOLEAN : RequestStop(d)
  PROVE  TypeInv'
<1>0. /\ TypeOK /\ effects \in Seq(Work) /\ events \in Seq(Said)
      /\ drained \in Seq(Said) /\ Len(events) <= EventCapacity
      /\ shown \subseteq Utterances /\ settled \subseteq Utterances
      /\ finals \in [Utterances -> Nat]
  BY DEF TypeInv, TypeOK
<1>1. CASE Publish
  <2>. DEFINE e == Head(effects)
  <2>1. e \in Work /\ Tail(effects) \in Seq(Work)
    BY <1>1, EffectsTail DEF Publish
  <2>. HIDE DEF e
  <2>2. e.kind \in {"partial", "final", "failed"} /\ e \in Said
    BY <1>1, <2>1, WorkFields DEF Publish, e
  <2>3. e.id \in Utterances \cup {None} /\ (e.kind # "failed" => e.id \in Utterances)
    BY <2>2, SaidFields
  <2>4. effects' = Tail(effects) /\ run' \in {"top", run}
    BY <1>1 DEF Publish, Execute
  <2>5. effects' \in Seq(Effect)
    BY <2>1, <2>4, WorkFields, SeqFacts
  <2>6. /\ shown' \subseteq Utterances /\ settled' \subseteq Utterances
        /\ finals' \in [Utterances -> Nat]
    <3>1. CASE /\ e.kind = "partial" /\ shown' = shown \cup {e.id}
               /\ UNCHANGED <<finals, settled>>
      BY <1>0, <2>3, <3>1
    <3>2. CASE /\ e.kind = "final" /\ shown' = Hidden(e)
               /\ finals' = [finals EXCEPT ![e.id] = @ + 1]
               /\ settled' = settled \cup {e.id}
      <4>1. e.id \in Utterances /\ finals[e.id] + 1 \in Nat
        BY <1>0, <2>3, <3>2
      <4>. QED BY <1>0, <3>2, <4>1 DEF Hidden
    <3>3. CASE /\ e.kind = "failed" /\ shown' = Hidden(e)
               /\ settled' = settled \cup ({e.id} \ {None})
               /\ UNCHANGED finals
      BY <1>0, <2>3, <3>3 DEF Hidden
    <3>. QED BY <1>1, <3>1, <3>2, <3>3 DEF Publish, e
  <2>. QED BY <1>1, <2>1, <2>4, <2>5, <2>6
           DEF Publish, TypeInv, TypeOK, lifecycle, channels, session,
               provider, control
<1>2. CASE FailStorage
  <2>. DEFINE e == Head(effects)
  <2>1. e \in Work
    BY <1>2, EffectsTail DEF FailStorage
  <2>. HIDE DEF e
  <2>2. e.kind = "final" /\ e \in Said
    BY <1>2, <2>1, WorkFields DEF FailStorage, e
  <2>3. e.id \in Utterances
    BY <2>2, SaidFields
  <2>4. shown' \subseteq Utterances /\ settled' \subseteq Utterances
    BY <1>0, <1>2, <2>3 DEF FailStorage, Hidden, e
  <2>5. effects' = << >> /\ << >> \in Seq(Work) /\ << >> \in Seq(Effect)
        /\ << >> \in Seq(Said) /\ << >> \in Seq(Event)
    BY <1>2 DEF FailStorage
  <2>6. faults' \in 0..MaxFaults
    <3>1. faults \in 0..MaxFaults /\ faults > 0 /\ faults' = faults - 1
      BY <1>0, <1>2 DEF FailStorage, Fault, TypeOK
    <3>. QED BY <3>1, Bounds
  <2>7. run' \in {"discarding", "draining", run} /\ stopped' \in {TRUE, stopped}
        /\ drained' \in {<< >>, drained}
    BY <1>2 DEF FailStorage, Leave
  <2>. QED BY ZenonT(30), <1>2, <2>4, <2>5, <2>6, <2>7
           DEF FailStorage, TypeInv, TypeOK, lifecycle, session, provider,
               control
<1>3. CASE Collect
  <2>1. /\ Head(events) \in Said /\ events' \in Seq(Said)
        /\ Len(events') <= EventCapacity
    <3>1. /\ Head(events) \in Said /\ Tail(events) \in Seq(Said)
          /\ Len(Tail(events)) = Len(events) - 1 /\ Len(events) \in Nat
      BY <1>0, <1>3, TailFacts DEF Collect
    <3>. QED BY <1>0, <1>3, <3>1, Bounds DEF Collect
  <2>2. drained' \in Seq(Said)
    BY <1>0, <1>3, <2>1, AppendFacts DEF Collect
  <2>3. events' \in Seq(Event) /\ drained' \in Seq(Event)
    BY <2>1, <2>2, SaidFields, SeqFacts
  <2>. QED BY <1>3, <2>1, <2>2, <2>3
           DEF Collect, TypeInv, TypeOK, lifecycle, session, provider,
               control, display
<1>4. CASE Drained \/ \E d \in BOOLEAN : RequestStop(d)
  BY <1>4 DEF Drained, RequestStop, TypeInv, TypeOK, lifecycle, loop, channels,
              session, provider, control, display
<1>5. CASE Flush
  <2>. DEFINE e == Head(drained)
  <2>1. e \in Said /\ drained' \in Seq(Said)
    BY <1>0, <1>5, TailFacts DEF Flush
  <2>. HIDE DEF e
  <2>2. HandleEvent(e, FALSE)
    BY <1>5 DEF Flush, e
  <2>3. /\ active' \subseteq Utterances /\ forgotten' \subseteq Utterances
        /\ terminated' \in Seq(Utterances)
        /\ Len(terminated') <= RecentTerminations
        /\ effects' = << >> \/ effects' = <<e>>
    BY <1>0, <2>1, <2>2, HandleTyped
  <2>4. e \in Work /\ e \in Effect
    BY <2>1, SaidFields
  <2>5. effects' \in Seq(Work) /\ effects' \in Seq(Effect)
    BY <2>3, <2>4, ShortFacts
  <2>6. drained' \in Seq(Event)
    BY <2>1, SaidFields, SeqFacts
  <2>. QED BY <1>5, <2>1, <2>3, <2>5, <2>6
           DEF Flush, TypeInv, TypeOK, channels, session, provider, control,
               display
<1>6. CASE Finish
  <2>1. Forget
    BY <1>6 DEF Finish
  <2>2. /\ active' \subseteq Utterances /\ forgotten' \subseteq Utterances
        /\ terminated' \in Seq(Utterances)
        /\ Len(terminated') <= RecentTerminations
    BY <1>0, <2>1, ForgetTyped
  <2>. QED BY <1>6, <2>2
           DEF Finish, TypeInv, TypeOK, channels, session, provider, control
<1>. QED BY <1>1, <1>2, <1>3, <1>4, <1>5, <1>6

\* The empty buffer, and the report of a failed session.
LEMMA ResetFacts ==
  /\ << >> \in Seq(Input) /\ Chunks(<< >>) <= BufferLimit
  /\ Reset \in Said /\ <<Reset>> \in Seq(Said) /\ Len(<<Reset>>) = 1
  /\ << >> \in Seq(Said)
<1>1. {i \in DOMAIN << >> : << >>[i].kind = "audio"} = {}
  OBVIOUS
<1>2. Chunks(<< >>) = 0
  BY <1>1, FS_EmptySet DEF Chunks
<1>3. Reset \in Said
  BY DEF Reset, Said, Event
<1>. QED BY <1>2, <1>3, ShortFacts, Bounds

\* A fault is taken from what is left of them.
LEMMA FaultTyped ==
  ASSUME TypeOK, Fault
  PROVE  faults' \in 0..MaxFaults
<1>1. faults \in 0..MaxFaults /\ faults > 0 /\ faults' = faults - 1
  BY DEF TypeOK, Fault
<1>. QED BY <1>1, Bounds

\* The utterance that audio of several segments mixes is the next one.
LEMMA MixingTyped ==
  ASSUME TypeOK, NEW chunks
  PROVE  /\ Mixing(chunks) \subseteq mixed \cup {utterances + 1}
         /\ utterances + 1 \in Utterances => Mixing(chunks) \subseteq Utterances
<1>1. mixed \subseteq Utterances
  BY DEF TypeOK
<1>2. Mixing(chunks) \in {mixed, mixed \cup {utterances + 1}}
  BY DEF Mixing
<1>. QED BY <1>1, <1>2

\* The session's steps on input keep the types.
LEMMA TypeServe ==
  ASSUME TypeInv, FlowInv, SegmentInv, Serve
  PROVE  TypeInv'
<1>0. /\ TypeOK /\ task = "serving" /\ (replay # << >> \/ audio # << >>)
      /\ TakeInput /\ outgoing = << >>
      /\ \A i \in 1..Len(heard) : heard[i].kind = "audio"
  BY DEF TypeInv, Serve
<1>1. /\ NextInput = Head(Way) /\ NextInput \in Input /\ Way # << >>
      /\ replay' \in Seq(Input) /\ audio' \in Seq(Input)
      /\ Len(audio') <= Len(audio)
  BY <1>0, NextFacts
<1>2. audio \in Seq(Input) /\ Len(audio) <= AudioCapacity
  BY <1>0 DEF TypeOK
<1>3. Len(audio') <= AudioCapacity
  <2>1. Len(audio) \in Nat /\ Len(audio') \in Nat
    BY <1>1, <1>2, SeqFacts
  <2>. QED BY <1>1, <1>2, <2>1, Bounds
<1>4. \E i \in 1..Len(Stream) : TRUE
  <2>1. Way \in Seq(Input) /\ Len(Way) \in Nat \ {0}
    BY <1>0, <1>1, StreamFacts, TailFacts
  <2>2. Len(heard) + 1 \in 1..Len(Stream)
    BY <1>0, <2>1, StreamFacts
  <2>. QED BY <2>2
<1>5. /\ utterances + 1 \in Utterances /\ utterances + 1 \in 0..MaxChunks
  BY <1>4, AnotherUtterance
<1>6. UNCHANGED <<lifecycle, loop, events, stopped, messages, received, control,
                  display, dropped>>
  BY DEF Serve
<1>. DEFINE Disconnected ==
              /\ Disconnect
              /\ UNCHANGED <<heard, sent, utterances, spoken, mixed>>
              /\ reply' \in {reply, "failed"}
<1>7. CASE /\ NextInput.kind = "audio"
           /\ heard' = Append(heard, NextInput) /\ sent' = NextInput.n
           /\ UNCHANGED <<utterances, spoken, mixed, reply, task, outgoing,
                          pending, faults>>
  <2>1. heard \in Seq(Input) /\ Len(heard) \in Nat
    BY <1>0, StreamFacts, SeqFacts
  <2>2. /\ heard' \in Seq(Input) /\ Len(heard') = Len(heard) + 1
        /\ \A i \in 1..Len(heard)+1 :
             heard'[i] = IF i <= Len(heard) THEN heard[i] ELSE NextInput
    BY <1>1, <1>7, <2>1, AppendFacts
  <2>3. \A i \in 1..Len(heard') : heard'[i].kind = "audio"
    BY <1>0, <1>7, <2>1, <2>2
  <2>4. sent' \in 0..MaxChunks
    BY <1>1, <1>7, InputFields
  <2>. QED BY <1>0, <1>1, <1>3, <1>6, <1>7, <2>2, <2>3, <2>4
           DEF TypeInv, TypeOK, lifecycle, loop, control, display
<1>8. CASE Disconnected
  <2>1. /\ faults' \in 0..MaxFaults /\ outgoing' = <<Reset>> /\ pending' = << >>
        /\ task' \in {"ended", "connecting"}
    BY <1>0, <1>8, FaultTyped DEF Disconnect
  <2>2. outgoing' \in Seq(Said) /\ outgoing' \in Seq(Event) /\ Len(outgoing') <= 1
    <3>1. outgoing' \in Seq(Said) /\ Len(outgoing') = 1
      BY <2>1, ResetFacts
    <3>. QED BY <3>1, SaidFields, SeqFacts
  <2>3. pending' \in Seq(Input) /\ Chunks(pending') <= BufferLimit
    BY <2>1, ResetFacts
  <2>. QED BY <1>0, <1>1, <1>3, <1>6, <1>8, <2>1, <2>2, <2>3
           DEF TypeInv, TypeOK, lifecycle, loop, control, display, Chunks
<1>9. CASE /\ utterances' = utterances + 1
           /\ spoken' = spoken \cup {utterances'}
           /\ mixed' = Mixing(heard)
           /\ heard' = << >>
           /\ Answer("ok")
           /\ UNCHANGED <<sent, task, outgoing, pending, faults>>
  <2>1. utterances' \in 0..MaxChunks /\ spoken' \subseteq Utterances
    BY <1>0, <1>5, <1>9 DEF TypeOK
  <2>2. mixed' \subseteq Utterances
    BY <1>0, <1>5, <1>9, MixingTyped
  <2>3. reply' \in {"ok", reply}
    BY <1>9 DEF Answer
  <2>4. heard' \in Seq(Input) /\ \A i \in 1..Len(heard') : heard'[i].kind = "audio"
    BY <1>9
  <2>. QED BY SMTT(20), <1>0, <1>1, <1>3, <1>6, <1>9, <2>1, <2>2, <2>3, <2>4
           DEF TypeInv, TypeOK, lifecycle, loop, control, display
<1>10. Answer("failed") => reply' \in {reply, "failed"}
  BY DEF Answer
<1>. QED BY <1>7, <1>8, <1>9, <1>10 DEF Serve

\* The session's other steps keep the types.
LEMMA TypeSession ==
  ASSUME TypeInv, FlowInv, SegmentInv,
         \/ Provider \/ LoseSocket \/ SendEvent \/ CloseSession \/ FinishSession
         \/ Buffer \/ Connect \/ RefuseConnection \/ StopConnecting
  PROVE  TypeInv'
<1>0. /\ TypeOK /\ events \in Seq(Said) /\ outgoing \in Seq(Said)
      /\ Len(events) <= EventCapacity /\ Len(outgoing) <= 1
      /\ audio \in Seq(Input) /\ Len(audio) <= AudioCapacity
      /\ \A i \in 1..Len(heard) : heard[i].kind = "audio"
  BY DEF TypeInv, TypeOK
<1>1. CASE Provider
  <2>1. PICK kind \in {"partial", "final", "failed"}, u \in spoken \cup {None} :
               Recognize([kind |-> kind, id |-> u])
    BY <1>1 DEF Provider
  <2>. DEFINE e == [kind |-> kind, id |-> u]
  <2>2. e.id \in spoken \/ e = Reset
    BY <2>1 DEF Recognize
  <2>3. e \in Said /\ e \in Event
    <3>1. spoken \subseteq Utterances /\ None \notin Utterances
      <4>1. spoken \subseteq Utterances
        BY <1>0 DEF TypeOK
      <4>2. None \notin Utterances
        BY ONLY Bounds DEF Utterances
      <4>. QED BY ONLY <4>1, <4>2
    <3>2. CASE e = Reset
      BY <3>2, ResetFacts, SaidFields
    <3>3. CASE u \in spoken
      BY <3>1, <3>3 DEF Said, Event
    <3>. QED BY <2>2, <3>2, <3>3
  <2>4. e.kind = "final" => e.id \in Utterances
    BY <2>3, SaidFields
  <2>. HIDE DEF e
  <2>5. /\ messages' = messages - 1 /\ messages > 0 /\ outgoing' = <<e>>
        /\ received' = IF e.kind = "final" THEN received \cup {e.id} ELSE received
        /\ UNCHANGED <<lifecycle, loop, channels, task, replay, pending, heard,
                       spoken, utterances, sent, mixed, control, display, faults,
                       dropped>>
    BY <2>1 DEF Recognize, e
  <2>6. messages' \in 0..MaxMessages
    BY <1>0, <2>5, Bounds DEF TypeOK
  <2>7. received' \subseteq Utterances
    BY <1>0, <2>4, <2>5 DEF TypeOK
  <2>8. outgoing' \in Seq(Said) /\ outgoing' \in Seq(Event) /\ Len(outgoing') <= 1
    BY <2>3, <2>5, ShortFacts
  <2>. QED BY <1>0, <2>5, <2>6, <2>7, <2>8
           DEF TypeInv, TypeOK, lifecycle, loop, channels, control, display
<1>2. CASE LoseSocket
  <2>1. /\ faults' \in 0..MaxFaults /\ outgoing' = <<Reset>> /\ pending' = << >>
        /\ task' \in {"ended", "connecting"}
    BY <1>0, <1>2, FaultTyped DEF LoseSocket, Disconnect
  <2>2. outgoing' \in Seq(Said) /\ outgoing' \in Seq(Event) /\ Len(outgoing') <= 1
    <3>1. outgoing' \in Seq(Said) /\ Len(outgoing') = 1
      BY <2>1, ResetFacts
    <3>. QED BY <3>1, SaidFields, SeqFacts
  <2>3. pending' \in Seq(Input) /\ Chunks(pending') <= BufferLimit
    BY <2>1, ResetFacts
  <2>. QED BY <1>0, <1>2, <2>1, <2>2, <2>3
           DEF LoseSocket, TypeInv, TypeOK, lifecycle, loop, channels, provider,
               control, display, Chunks
<1>3. CASE SendEvent
  <2>1. /\ Head(outgoing) \in Said /\ outgoing' \in Seq(Said)
        /\ Len(outgoing') = Len(outgoing) - 1 /\ Len(outgoing) \in Nat
    BY <1>0, <1>3, TailFacts DEF SendEvent
  <2>2. events' \in Seq(Said) /\ Len(events') = Len(events) + 1
    BY <1>0, <1>3, <2>1, AppendFacts DEF SendEvent
  <2>3. Len(events') <= EventCapacity /\ Len(outgoing') <= 1
    <3>1. Len(events) \in Nat /\ Len(events) < EventCapacity
      BY <1>0, <1>3, SeqFacts DEF SendEvent
    <3>. QED BY <1>0, <2>1, <2>2, <3>1, Bounds
  <2>4. events' \in Seq(Event) /\ outgoing' \in Seq(Event)
    BY <2>1, <2>2, SaidFields, SeqFacts
  <2>. QED BY <1>0, <1>3, <2>1, <2>2, <2>3, <2>4
           DEF SendEvent, TypeInv, TypeOK, lifecycle, loop, provider, control,
               display
<1>4. CASE CloseSession
  <2>. DEFINE queued == replay \o audio
              M == {i \in ToSet(queued) : i.kind = "audio"}
              rest == Keep(queued, M)
  <2>1. /\ heard' = << >> /\ replay' = << >> /\ audio' = << >>
        /\ UNCHANGED <<lifecycle, loop, events, reply, stopped, pending, messages,
                       received, control, display, dropped>>
    BY <1>4 DEF CloseSession
  <2>2. /\ << >> \in Seq(Input) /\ Len(<< >>) <= AudioCapacity
        /\ \A i \in 1..Len(<< >>) : << >>[i].kind = "audio"
    BY Bounds
  <2>3. CASE /\ Fault /\ outgoing' = <<Reset>> /\ task' = "ended"
             /\ UNCHANGED <<sent, utterances, spoken, mixed>>
    <3>1. faults' \in 0..MaxFaults
      BY <1>0, <2>3, FaultTyped
    <3>2. outgoing' \in Seq(Said) /\ outgoing' \in Seq(Event) /\ Len(outgoing') <= 1
      <4>1. outgoing' \in Seq(Said) /\ Len(outgoing') = 1
        BY <2>3, ResetFacts
      <4>. QED BY <4>1, SaidFields, SeqFacts
    <3>. QED BY <1>0, <2>1, <2>2, <2>3, <3>1, <3>2
             DEF TypeInv, TypeOK, lifecycle, loop, control, display
  <2>4. CASE /\ sent' = IF rest = << >> THEN sent ELSE Last(rest).n
             /\ IF heard \o rest = << >> THEN UNCHANGED <<utterances, spoken, mixed>>
                ELSE /\ utterances' = utterances + 1
                     /\ spoken' = spoken \cup {utterances'}
                     /\ mixed' = Mixing(heard \o rest)
             /\ task' = "finishing" /\ UNCHANGED <<outgoing, faults>>
    <3>0. /\ queued \in Seq(Input) /\ Way = queued /\ task = "serving"
          /\ heard \in Seq(Input)
      <4>1. replay \in Seq(Input) /\ pending = << >> /\ task = "serving"
        BY <1>0, <1>4 DEF CloseSession, FlowInv, TaskFlow, TypeOK
      <4>2. Way = queued
        BY <4>1 DEF Way
      <4>. QED BY <1>0, <4>1, <4>2, StreamFacts
    <3>. HIDE DEF queued, M
    <3>1. rest \in Seq(Input) /\ Len(rest) <= Len(queued)
      BY <3>0, KeepProperties
    <3>. HIDE DEF rest
    <3>2. sent' \in 0..MaxChunks
      <4>1. CASE rest = << >>
        BY <1>0, <2>4, <4>1 DEF TypeOK
      <4>2. CASE rest # << >>
        <5>1. Len(rest) \in 1..Len(rest) /\ rest[Len(rest)] \in Input
          BY <3>1, <4>2
        <5>. QED BY <2>4, <4>2, <5>1, InputFields DEF Last
      <4>. QED BY <4>1, <4>2
    <3>3. /\ utterances' \in 0..MaxChunks /\ spoken' \subseteq Utterances
          /\ mixed' \subseteq Utterances
      <4>1. CASE heard \o rest = << >>
        BY <1>0, <2>4, <4>1 DEF TypeOK
      <4>2. CASE heard \o rest # << >>
        <5>1. /\ Len(heard) \in Nat /\ Len(rest) \in Nat /\ Len(queued) \in Nat
          BY <3>0, <3>1, SeqFacts
        <5>2. Len(heard) # 0 \/ Len(rest) # 0
          BY <3>0, <3>1, <4>2
        <5>3. Len(Stream) = Len(heard) + Len(queued)
          BY <1>0, <3>0, StreamFacts
        <5>4. 1 \in 1..Len(Stream)
          BY <3>1, <5>1, <5>2, <5>3
        <5>5. utterances + 1 \in Utterances /\ utterances + 1 \in 0..MaxChunks
          BY <5>4, AnotherUtterance
        <5>6. mixed' \subseteq Utterances
          BY <1>0, <2>4, <4>2, <5>5, MixingTyped
        <5>. QED BY <1>0, <2>4, <4>2, <5>5, <5>6 DEF TypeOK
      <4>. QED BY <4>1, <4>2
    <3>. QED BY <1>0, <2>1, <2>2, <2>4, <3>2, <3>3
             DEF TypeInv, TypeOK, lifecycle, loop, control, display
  <2>. QED BY <1>4, <2>3, <2>4 DEF CloseSession
<1>5. CASE FinishSession \/ StopConnecting
  BY <1>5 DEF FinishSession, StopConnecting, TypeInv, TypeOK, lifecycle, loop,
              channels, provider, control, display
<1>6. CASE Buffer
  <2>1. /\ Head(audio) \in Input /\ audio' \in Seq(Input)
        /\ Len(audio') = Len(audio) - 1 /\ Len(audio) \in Nat
    BY <1>0, <1>6, TailFacts DEF Buffer
  <2>2. Len(audio') <= AudioCapacity
    BY <1>0, <2>1, Bounds
  <2>3. pending' \in Seq(Input) /\ Chunks(pending') <= BufferLimit
    <3>1. pending \in Seq(Input) /\ Chunks(pending) <= BufferLimit
      BY <1>0 DEF TypeOK
    <3>2. /\ Push(pending, Head(audio)) \in Seq(Input)
          /\ Chunks(Push(pending, Head(audio))) <= BufferLimit
      BY <2>1, <3>1, PushFacts
    <3>3. pending' = Push(pending, Head(audio))
      BY <1>6 DEF Buffer
    <3>. QED BY <3>2, <3>3
  <2>4. dropped' \in BOOLEAN /\ reply' \in {"ok", reply}
    <3>1. dropped \in BOOLEAN
      BY <1>0 DEF TypeOK
    <3>. QED BY <1>6, <3>1 DEF Buffer, Acknowledge
  <2>. QED BY <1>0, <1>6, <2>1, <2>2, <2>3, <2>4
           DEF Buffer, TypeInv, TypeOK, lifecycle, loop, provider, control,
               display, Chunks
<1>7. CASE Connect
  <2>1. replay' \in Seq(Input)
    <3>1. replay \in Seq(Input) /\ pending \in Seq(Input)
      BY <1>0 DEF TypeOK
    <3>. QED BY <1>7, <3>1, ConcatFacts DEF Connect, Replayed
  <2>2. pending' \in Seq(Input) /\ Chunks(pending') <= BufferLimit
    BY <1>7, ResetFacts DEF Connect
  <2>3. heard' = << >> /\ spoken' = {} /\ task' = "serving"
    BY <1>7 DEF Connect
  <2>4. heard' \in Seq(Input) /\ \A i \in 1..Len(heard') : heard'[i].kind = "audio"
    BY <2>3
  <2>. QED BY SMTT(20), <1>0, <1>7, <2>1, <2>2, <2>3, <2>4
           DEF Connect, TypeInv, TypeOK, lifecycle, loop, channels, control,
               display, Chunks
<1>8. CASE RefuseConnection
  <2>1. faults' \in 0..MaxFaults /\ outgoing' = <<Reset>>
    BY <1>0, <1>8, FaultTyped DEF RefuseConnection
  <2>2. outgoing' \in Seq(Said) /\ outgoing' \in Seq(Event) /\ Len(outgoing') <= 1
    <3>1. outgoing' \in Seq(Said) /\ Len(outgoing') = 1
      BY <2>1, ResetFacts
    <3>. QED BY <3>1, SaidFields, SeqFacts
  <2>. QED BY <1>0, <1>8, <2>1, <2>2
           DEF RefuseConnection, TypeInv, TypeOK, lifecycle, loop, channels,
               provider, control, display
<1>. QED BY <1>1, <1>2, <1>3, <1>4, <1>5, <1>6, <1>7, <1>8

\* Every step keeps the types.
LEMMA TypeStep ==
  ASSUME TypeInv, FlowInv, SegmentInv, [Next]_vars
  PROVE  TypeInv'
<1>1. CASE UNCHANGED vars
  BY <1>1 DEF vars, lifecycle, loop, channels, session, provider, control,
              display, TypeInv, TypeOK, Chunks
<1>. QED BY <1>1, TypePipeline, TypePublish, TypeServe, TypeSession
         DEF Next, Environment, Pipeline, Session
-----------------------------------------------------------------------------
(* Effects, replies and tasks                                              *)

\* An effect that is no chunk is alone.
LEMMA OneEffect ==
  ASSUME TypeInv, EffectsFlow, effects # << >>, Head(effects).kind \notin Chunk
  PROVE  /\ Len(effects) = 1 /\ effects[1] = Head(effects)
         /\ Tail(effects) = << >>
         /\ \A i \in 1..Len(effects) : effects[i] = Head(effects)
<1>1. /\ Len(effects) \in Nat \ {0} /\ 1 \in 1..Len(effects)
      /\ Head(effects) = effects[1] /\ Tail(effects) \in Seq(Work)
      /\ Len(Tail(effects)) = Len(effects) - 1
  BY EffectsTail
<1>2. Len(effects) = 1
  BY <1>1 DEF EffectsFlow
<1>3. Tail(effects) = << >>
  <2>1. Len(Tail(effects)) = 0
    BY <1>1, <1>2
  <2>. QED BY <1>1, <2>1, EmptyFacts
<1>. QED BY <1>1, <1>2, <1>3

\* Without a commit among the effects, none is in the channel.
LEMMA NoCommit ==
  ASSUME TypeInv, ReplyFlow, ~Committing
  PROVE  reply = "none" /\ \A i \in 1..Len(audio) : audio[i].kind = "audio"
<1>1. reply = "none"
  BY DEF ReplyFlow
<1>2. \A i \in 1..Len(audio) : audio[i].kind \in {"audio", "commit"}
  BY SeqFacts, InputFields DEF TypeInv, TypeOK
<1>. QED BY <1>1, <1>2 DEF ReplyFlow

\* Nothing is being executed at the top of the loop and while it selects.
LEMMA Idle ==
  ASSUME TypeInv, FlowInv, run \notin {"busy", "flushing"} \/ effects = << >>
  PROVE  /\ effects = << >> /\ Len(effects) = 0 /\ ~Committing /\ reply = "none"
         /\ \A i \in 1..Len(audio) : audio[i].kind = "audio"
<1>1. effects = << >> /\ Len(effects) = 0
  BY DEF FlowInv, EffectsFlow
<1>2. ~Committing
  BY <1>1 DEF Committing
<1>. QED BY <1>1, <1>2, NoCommit DEF FlowInv

\* Where the effects are one event, or none, they are in order.
LEMMA FewEffects ==
  ASSUME \/ effects' = << >>
         \/ \E e \in Said : effects' = <<e>>,
         effects' # << >> => run' \in {"busy", "flushing"},
         run' = "busy" => effects' # << >>,
         streaming' => pre_roll' = << >>
  PROVE  EffectsFlow' /\ ~Committing'
<1>1. CASE effects' = << >>
  BY <1>1 DEF EffectsFlow, Committing
<1>2. ASSUME NEW e \in Said, effects' = <<e>>
      PROVE  EffectsFlow' /\ ~Committing'
  <2>1. e.kind \notin Chunk /\ e.kind # "commit" /\ e.kind # "process"
    BY SaidFields DEF Chunk
  <2>2. Len(effects') = 1 /\ \A i \in 1..Len(effects') : effects'[i] = e
    BY <1>2
  <2>. QED BY <2>1, <2>2 DEF EffectsFlow, Committing
<1>. QED BY <1>1, <1>2

\* Every step of the pipeline keeps the effects in order.
LEMMA EffectsStep ==
  ASSUME TypeInv, FlowInv, Pipeline \/ ReadAudio \/ FailStorage
  PROVE  EffectsFlow'
<1>0. /\ EffectsFlow /\ effects \in Seq(Work) /\ events \in Seq(Said)
      /\ drained \in Seq(Said)
  BY DEF TypeInv, FlowInv
<1>1. CASE LoopTop \/ SeeStop
  <2>1. effects = << >> /\ effects' = effects
    BY <1>1, Idle DEF LoopTop, SeeStop
  <2>. QED BY <1>0, <1>1, <2>1, FewEffects
           DEF LoopTop, SeeStop, Leave, EffectsFlow
<1>2. CASE ReadAudio
  <2>1. CASE /\ ~streaming /\ UNCHANGED <<effects, streaming>> /\ run' = "top"
    <3>1. effects = << >>
      BY <1>2, Idle DEF ReadAudio
    <3>. QED BY <2>1, <3>1, FewEffects
  <2>2. CASE /\ streaming' = TRUE /\ pre_roll' = << >> /\ run' = "busy"
             /\ effects' = [i \in 1..Len(pre_roll) + 1 |->
                         IF i <= Len(pre_roll)
                         THEN [kind |-> "flush", n |-> pre_roll[i]]
                         ELSE [kind |-> "process", n |-> read']]
    <3>1. /\ pre_roll \in Seq(1..MaxChunks) /\ read' \in 1..MaxChunks
          /\ Len(pre_roll) \in Nat
      <4>1. read \in 0..MaxChunks /\ read < MaxChunks /\ read' = read + 1
        BY <1>2 DEF ReadAudio, TypeInv, TypeOK
      <4>2. pre_roll \in Seq(1..MaxChunks)
        BY DEF TypeInv, TypeOK
      <4>. QED BY <4>1, <4>2, Bounds, SeqFacts
    <3>2. /\ Len(effects') = Len(pre_roll) + 1 /\ effects' # << >>
          /\ \A i \in 1..Len(effects') :
               effects'[i].kind = IF i <= Len(pre_roll) THEN "flush"
                                                        ELSE "process"
      BY <2>2, <3>1, TriggerFacts
    <3>3. \A i \in 1..Len(effects') :
            /\ effects'[i].kind \in Chunk /\ effects'[i].kind # "commit"
            /\ effects'[i].kind = "process" => i = Len(effects')
      BY <3>1, <3>2 DEF Chunk
    <3>. QED BY <2>2, <3>2, <3>3 DEF EffectsFlow
  <2>. QED BY <1>2, <2>1, <2>2 DEF ReadAudio
<1>3. CASE ReceiveEvent
  <2>1. Head(events) \in Said
    BY <1>0, <1>3, TailFacts DEF ReceiveEvent
  <2>2. effects' = << >> \/ effects' = <<Head(events)>>
    BY <1>3, <2>1, HandleTyped DEF ReceiveEvent, TypeInv
  <2>. QED BY <1>0, <1>3, <2>1, <2>2, FewEffects
           DEF ReceiveEvent, EffectsFlow
<1>4. CASE SendAudio
  <2>1. /\ effects # << >> /\ run = "busy" /\ Head(effects).kind \in Chunk
    BY <1>0, <1>4 DEF SendAudio, EffectsFlow, Chunk
  <2>2. /\ Len(effects) \in Nat \ {0} /\ 1 \in 1..Len(effects)
        /\ Head(effects) = effects[1]
        /\ Tail(effects) \in Seq(Work) /\ Len(Tail(effects)) = Len(effects) - 1
        /\ \A i \in 1..Len(effects)-1 : Tail(effects)[i] = effects[i+1]
    BY <2>1, EffectsTail
  <2>3. streaming /\ pre_roll = << >> /\ pre_roll' = pre_roll
    BY <1>0, <1>4, <2>1, <2>2 DEF EffectsFlow, SendAudio
  <2>4. CASE Execute(Tail(effects)) /\ UNCHANGED streaming
    <3>1. /\ Len(effects') = Len(effects) - 1
          /\ \A i \in 1..Len(effects') : i+1 \in 1..Len(effects)
                                         /\ effects'[i] = effects[i+1]
      BY <2>2, <2>4 DEF Execute
    <3>2. \A i \in 1..Len(effects') :
            /\ effects'[i].kind \in Chunk \/ Len(effects) = 1
            /\ effects'[i].kind = "process" => i+1 = Len(effects)
            /\ effects'[i].kind # "commit"
      BY <1>0, <2>3, <3>1 DEF EffectsFlow
    <3>3. \A i \in 1..Len(effects') :
            /\ effects'[i].kind \in Chunk
            /\ effects'[i].kind = "process" => i = Len(effects')
            /\ effects'[i].kind # "commit"
      <4>. TAKE i \in 1..Len(effects')
      <4>1. \A n \in Nat \ {0} : \A k \in 1..n-1 : n # 1 /\ (k+1 = n => k = n-1)
        OBVIOUS
      <4>2. Len(effects) # 1 /\ (i+1 = Len(effects) => i = Len(effects)-1)
        BY <2>2, <3>1, <4>1
      <4>. QED BY <3>1, <3>2, <4>2
    <3>4. run' = IF effects' = << >> THEN "top" ELSE "busy"
      BY <2>1, <2>4 DEF Execute
    <3>. QED BY <2>3, <2>4, <3>3, <3>4 DEF EffectsFlow
  <2>5. CASE /\ Head(effects).kind = "process" /\ streaming' = FALSE
             /\ Execute(Append(Tail(effects), [kind |-> "commit", n |-> 0]))
    <3>1. Len(effects) = 1
      BY <1>0, <2>2, <2>5 DEF EffectsFlow
    <3>2. Len(Tail(effects)) = 0
      BY <2>2, <3>1
    <3>. DEFINE c == [kind |-> "commit", n |-> 0]
    <3>5. Append(Tail(effects), c) = <<c>> /\ Append(Tail(effects), c) # << >>
      BY <2>2, <3>2, EmptyFacts
    <3>3. effects' = <<c>> /\ run' = "busy"
      BY <2>1, <2>5, <3>5 DEF Execute
    <3>4. /\ Len(effects') = 1 /\ effects' # << >>
          /\ \A i \in 1..Len(effects') : effects'[i].kind = "commit"
      BY <3>3
    <3>. QED BY <2>5, <3>3, <3>4 DEF EffectsFlow, Chunk
  <2>. QED BY <1>4, <2>4, <2>5 DEF SendAudio
<1>5. CASE SendCommit \/ Collect \/ Drained
  BY <1>0, <1>5 DEF SendCommit, Collect, Drained, EffectsFlow
<1>6. CASE TakeReply
  <2>1. Committing
    BY <1>6 DEF TakeReply, FlowInv, ReplyFlow
  <2>2. PICK i \in 1..Len(effects) : effects[i].kind = "commit"
    BY <2>1 DEF Committing
  <2>3. effects # << >> /\ run = "busy" /\ ~streaming /\ Len(effects) = 1
    BY <1>0, <2>2 DEF EffectsFlow, Chunk
  <2>4. \A x : /\ Tail(effects) = << >> /\ Append(Tail(effects), x) = <<x>>
              /\ Append(Tail(effects), x) # << >>
    <3>1. Tail(effects) \in Seq(Work) /\ Len(Tail(effects)) = Len(effects) - 1
      BY <2>3, EffectsTail
    <3>2. Len(Tail(effects)) = 0
      BY <2>3, <3>1
    <3>. QED BY <3>1, <3>2, EmptyFacts
  <2>5. [kind |-> "failed", id |-> FailureId] \in Said
    <3>1. active \subseteq Utterances
      BY DEF TypeInv, TypeOK
    <3>. QED BY <3>1 DEF Said, Event, FailureId
  <2>6. \/ effects' = << >> /\ run' = "top"
        \/ effects' = <<[kind |-> "failed", id |-> FailureId]>> /\ run' = "busy"
    BY <1>6, <2>3, <2>4 DEF TakeReply, Execute
  <2>. QED BY <1>6, <2>3, <2>5, <2>6, FewEffects DEF TakeReply
<1>7. CASE Publish
  <2>1. effects # << >> /\ Head(effects).kind \notin Chunk
    BY <1>7 DEF Publish, Chunk
  <2>2. effects' = << >> /\ (run' = "busy" => FALSE)
    BY <1>0, <1>7, <2>1, OneEffect DEF Publish, Execute
  <2>. QED BY <1>0, <1>7, <2>2, FewEffects DEF Publish, EffectsFlow
<1>8. CASE FailStorage
  BY <1>0, <1>8, FewEffects DEF FailStorage, Leave, EffectsFlow
<1>9. CASE Flush
  <2>1. Head(drained) \in Said
    BY <1>0, <1>9, TailFacts DEF Flush
  <2>2. effects' = << >> \/ effects' = <<Head(drained)>>
    BY <1>9, <2>1, HandleTyped DEF Flush, TypeInv
  <2>. QED BY <1>0, <1>9, <2>1, <2>2, FewEffects DEF Flush, EffectsFlow
<1>10. CASE Finish
  BY <1>0, <1>10, FewEffects DEF Finish, EffectsFlow
<1>. QED BY <1>1, <1>2, <1>3, <1>4, <1>5, <1>6, <1>7, <1>8, <1>9, <1>10
         DEF Pipeline

\* The session's steps, and the pipeline's.
SessionStep == \/ Serve \/ Provider \/ LoseSocket \/ SendEvent \/ CloseSession
               \/ FinishSession \/ Buffer \/ Connect \/ RefuseConnection
               \/ StopConnecting

PipelineStep == Pipeline \/ ReadAudio \/ FailStorage

\* A step is the session's, the pipeline's, a request to stop, or none.
LEMMA Kinds ==
  ASSUME [Next]_vars
  PROVE  \/ SessionStep \/ PipelineStep
         \/ UNCHANGED <<lifecycle, loop, channels, session, provider, display,
                        faults, dropped>>
<1>1. CASE UNCHANGED vars
  BY <1>1 DEF vars
<1>2. CASE \E d \in BOOLEAN : RequestStop(d)
  BY <1>2 DEF RequestStop
<1>. QED BY <1>1, <1>2 DEF Next, Environment, Session, SessionStep, PipelineStep

\* The session leaves the pipeline's own state alone.
LEMMA SessionFrame ==
  ASSUME SessionStep
  PROVE  UNCHANGED <<lifecycle, loop, control, display, stopped>>
BY DEF SessionStep, Serve, Provider, Recognize, LoseSocket, SendEvent,
       CloseSession, FinishSession, Buffer, Connect, RefuseConnection,
       StopConnecting, channels

\* The pipeline leaves the session's own state alone.
LEMMA PipelineFrame ==
  ASSUME PipelineStep
  PROVE  UNCHANGED <<session, provider, control, dropped>>
BY DEF PipelineStep, Pipeline, LoopTop, SeeStop, ReadAudio, ReceiveEvent,
       SendAudio, SendCommit, TakeReply, Publish, FailStorage, Collect, Drained,
       Flush, Finish

\* Without a commit to wait for, the channel may take audio.
LEMMA NoReply ==
  ASSUME TypeInv, reply' = "none",
         \A i \in 1..Len(audio') : audio'[i].kind # "commit"
  PROVE  ReplyFlow'
BY DEF ReplyFlow

\* The session takes the first input of the channel.
LEMMA TakenInput ==
  ASSUME TypeInv, ReplyFlow, audio # << >>, audio' = Tail(audio),
         UNCHANGED effects, Head(audio).kind = "audio" => reply' = reply
  PROVE  ReplyFlow'
<1>1. audio \in Seq(Input)
  BY DEF TypeInv, TypeOK
<1>2. /\ Len(audio) \in Nat \ {0} /\ Head(audio) = audio[1]
      /\ Head(audio) \in Input
      /\ Len(Tail(audio)) = Len(audio) - 1
      /\ \A i \in 1..Len(audio)-1 : Tail(audio)[i] = audio[i+1]
  BY <1>1, TailFacts
<1>3. Len(audio') = Len(audio) - 1
      /\ \A i \in 1..Len(audio') : i+1 \in 1..Len(audio)
                                   /\ audio'[i] = audio[i+1]
  BY <1>2
<1>4. Head(audio).kind \in {"audio", "commit"}
  BY <1>2, InputFields
<1>5. CASE Head(audio).kind = "audio"
  <2>1. \A i \in 1..Len(audio') : audio'[i].kind = "commit" =>
          i+1 = Len(audio) /\ reply = "awaited"
    BY <1>3 DEF ReplyFlow
  <2>2. \A i \in 1..Len(audio') : i+1 = Len(audio) => i = Len(audio')
    <3>1. \A n \in Nat \ {0} : \A k \in 1..n-1 : k+1 = n => k = n-1
      OBVIOUS
    <3>2. \A i \in 1..Len(audio)-1 : i+1 = Len(audio) => i = Len(audio)-1
      BY <1>2, <3>1
    <3>. QED BY <1>3, <3>2
  <2>3. reply' = reply /\ (Committing <=> Committing')
    BY <1>5 DEF Committing
  <2>. QED BY <2>1, <2>2, <2>3 DEF ReplyFlow
<1>6. CASE Head(audio).kind = "commit"
  <2>1. 1 \in 1..Len(audio)
    BY <1>2
  <2>2. 1 = Len(audio) /\ reply = "awaited"
    BY <1>2, <1>6, <2>1 DEF ReplyFlow
  <2>3. Committing'
    BY <2>2 DEF ReplyFlow, Committing
  <2>4. ~ \E i \in 1..Len(audio') : TRUE
    BY <1>3, <2>2
  <2>. QED BY <2>3, <2>4 DEF ReplyFlow
<1>. QED BY <1>4, <1>5, <1>6

\* Where a chunk or an event is first, no commit is to be sent.
LEMMA NotCommitting ==
  ASSUME TypeInv, FlowInv, effects # << >>, Head(effects).kind # "commit"
  PROVE  ~Committing
<1>1. EffectsFlow /\ Len(effects) \in Nat \ {0} /\ 1 \in 1..Len(effects)
      /\ Head(effects) = effects[1]
  BY EffectsTail DEF FlowInv
<1>2. CASE Head(effects).kind \in Chunk
  BY <1>1, <1>2 DEF EffectsFlow, Committing
<1>3. CASE Head(effects).kind \notin Chunk
  BY <1>1, <1>3, OneEffect DEF Committing
<1>. QED BY <1>2, <1>3

\* The pipeline waits for the reply to its last commit only.
LEMMA ReplyStep ==
  ASSUME TypeInv, FlowInv, SessionStep \/ PipelineStep
  PROVE  ReplyFlow'
<1>0. ReplyFlow /\ EffectsFlow
  BY DEF FlowInv
<1>1. CASE Serve
  <2>1. CASE replay # << >>
    BY <1>0, <1>1, <2>1 DEF Serve, TakeInput, Answer, ReplyFlow, Committing, loop
  <2>2. CASE replay = << >>
    <3>1. audio # << >> /\ audio' = Tail(audio) /\ NextInput = Head(audio)
          /\ UNCHANGED effects
      BY <1>1, <2>2 DEF Serve, TakeInput, NextInput, loop
    <3>2. NextInput.kind = "audio" => reply' = reply
      BY <1>1 DEF Serve
    <3>. QED BY <1>0, <3>1, <3>2, TakenInput
  <2>. QED BY <2>1, <2>2
<1>2. CASE Buffer
  <2>1. audio # << >> /\ audio' = Tail(audio) /\ UNCHANGED effects
        /\ (Head(audio).kind = "audio" => reply' = reply)
    BY <1>2 DEF Buffer, Acknowledge, loop
  <2>. QED BY <1>0, <2>1, TakenInput
<1>3. CASE CloseSession
  <2>1. audio' = << >> /\ reply' = reply /\ effects' = effects
    BY <1>3 DEF CloseSession, loop
  <2>. QED BY <1>0, <2>1 DEF ReplyFlow, Committing
<1>4. CASE \/ Provider \/ LoseSocket \/ SendEvent \/ FinishSession \/ Connect
           \/ RefuseConnection \/ StopConnecting
  <2>1. UNCHANGED <<audio, reply, effects>>
    BY <1>4 DEF Provider, Recognize, LoseSocket, SendEvent, FinishSession,
                Connect, RefuseConnection, StopConnecting, channels, loop
  <2>. QED BY <1>0, <2>1 DEF ReplyFlow, Committing
<1>5. CASE SendAudio
  <2>1. Head(effects).kind \in Chunk /\ run = "busy"
    BY <1>5 DEF SendAudio, Chunk
  <2>2. ~Committing
    BY <1>0, <2>1, NotCommitting DEF EffectsFlow, Chunk
  <2>3. /\ reply = "none" /\ audio \in Seq(Input)
        /\ \A i \in 1..Len(audio) : audio[i].kind = "audio"
    BY <1>0, <2>2, NoCommit DEF TypeInv, TypeOK
  <2>. DEFINE x == Audio(Head(effects).n)
  <2>4. x.kind = "audio"
    BY DEF Audio
  <2>. HIDE DEF x
  <2>5. audio' = Append(audio, x) /\ reply' = reply
    BY <1>5 DEF SendAudio, x
  <2>6. \A i \in 1..Len(audio') : audio'[i].kind = "audio"
    BY <2>3, <2>4, <2>5
  <2>. QED BY <2>3, <2>5, <2>6, NoReply
<1>6. CASE SendCommit
  <2>1. /\ audio' = Append(audio, Commit) /\ reply' = "awaited"
        /\ reply = "none" /\ effects' = effects /\ run = "busy"
        /\ Head(effects).kind = "commit"
    BY <1>6 DEF SendCommit
  <2>2. Committing'
    <3>1. effects # << >>
      BY <1>0, <2>1 DEF EffectsFlow
    <3>. QED BY <2>1, <3>1, EffectsTail DEF Committing
  <2>3. audio \in Seq(Input) /\ \A i \in 1..Len(audio) : audio[i].kind # "commit"
    BY <1>0, <2>1 DEF ReplyFlow, TypeInv, TypeOK
  <2>4. \A i \in 1..Len(audio') : i # Len(audio') => audio'[i].kind # "commit"
    BY <2>1, <2>3
  <2>. QED BY <2>1, <2>2, <2>4 DEF ReplyFlow
<1>7. CASE TakeReply
  <2>1. reply \in {"ok", "failed"} /\ reply' = "none" /\ audio' = audio
    BY <1>7 DEF TakeReply
  <2>. QED BY <1>0, <2>1, NoReply DEF ReplyFlow
<1>8. CASE \/ LoopTop \/ SeeStop \/ ReadAudio \/ ReceiveEvent \/ Publish
           \/ FailStorage \/ Collect \/ Drained \/ Flush \/ Finish
  <2>1. UNCHANGED <<audio, reply>>
    BY <1>8 DEF LoopTop, SeeStop, ReadAudio, ReceiveEvent, Publish, FailStorage,
                Collect, Drained, Flush, Finish, channels
  <2>2. ~Committing
    <3>1. CASE run \notin {"busy", "flushing"} \/ effects = << >>
      BY <3>1, Idle
    <3>2. CASE Publish \/ FailStorage
      <4>1. effects # << >> /\ Head(effects).kind # "commit"
        BY <3>2 DEF Publish, FailStorage
      <4>. QED BY <4>1, NotCommitting
    <3>. QED BY <1>8, <3>1, <3>2
             DEF LoopTop, SeeStop, ReadAudio, ReceiveEvent, Collect, Drained,
                 Flush, Finish
  <2>. QED BY <1>0, <2>1, <2>2, NoCommit, NoReply
<1>. QED BY <1>1, <1>2, <1>3, <1>4, <1>5, <1>6, <1>7, <1>8
         DEF SessionStep, PipelineStep, Pipeline

\* The session is told to stop when the loop is left, and not before.
LEMMA TaskStep ==
  ASSUME TypeInv, FlowInv, SessionStep \/ PipelineStep
  PROVE  TaskFlow'
<1>0. TaskFlow /\ stopped \in BOOLEAN
  BY DEF FlowInv, TypeInv, TypeOK
<1>1. CASE SessionStep
  <2>1. UNCHANGED <<run, stopped>>
    BY <1>1, SessionFrame DEF loop
  <2>2. \/ task' = task /\ (pending' = pending \/ pending' = << >>)
        \/ task' = task /\ task = "connecting"
        \/ task' = "ended" /\ stopped
        \/ task' = "finishing" /\ stopped
        \/ task' = "connecting"
        \/ task' = "serving" /\ pending' = << >>
        \/ task' = "ended" /\ task = "finishing"
    BY <1>1 DEF SessionStep, Serve, Provider, Recognize, LoseSocket, SendEvent,
                CloseSession, FinishSession, Buffer, Connect, RefuseConnection,
                StopConnecting, Disconnect, session
  <2>. QED BY <1>0, <2>1, <2>2 DEF TaskFlow
<1>2. CASE PipelineStep
  <2>1. UNCHANGED <<task, pending>>
    BY <1>2, PipelineFrame DEF session
  <2>2. \/ Leave /\ run \notin Left
        \/ stopped' = stopped /\ (run' \in Left <=> run \in Left)
    BY <1>2 DEF PipelineStep, Pipeline, LoopTop, SeeStop, ReadAudio, ReceiveEvent,
                SendAudio, SendCommit, TakeReply, Publish, FailStorage, Collect,
                Drained, Flush, Finish, Execute, Left, channels
  <2>3. Leave => stopped' /\ run' \in Left
    BY DEF Leave, Left
  <2>. QED BY <1>0, <2>1, <2>2, <2>3 DEF TaskFlow
<1>. QED BY <1>1, <1>2

\* Every step keeps effects, replies and tasks in order.
LEMMA FlowStep ==
  ASSUME TypeInv, FlowInv, [Next]_vars
  PROVE  FlowInv'
<1>1. CASE SessionStep
  <2>1. UNCHANGED <<run, effects, streaming, pre_roll>>
    BY <1>1, SessionFrame DEF loop
  <2>2. EffectsFlow'
    BY <2>1 DEF EffectsFlow, FlowInv
  <2>. QED BY <1>1, <2>2, ReplyStep, TaskStep DEF FlowInv
<1>2. CASE PipelineStep
  BY <1>2, EffectsStep, ReplyStep, TaskStep DEF FlowInv, PipelineStep
<1>3. CASE UNCHANGED <<loop, channels, session>>
  BY <1>3 DEF loop, channels, session, FlowInv, EffectsFlow, ReplyFlow, TaskFlow,
              Committing
<1>. QED BY <1>1, <1>2, <1>3, Kinds
-----------------------------------------------------------------------------
(* The stream                                                              *)

\* Sequences that are put together and taken apart.
LEMMA Joined ==
  ASSUME NEW S, NEW u \in Seq(S), NEW v \in Seq(S), NEW x \in S
  PROVE  /\ u \o Append(v, x) = Append(u \o v, x)
         /\ << >> \o v = v /\ v \o << >> = v
         /\ v # << >> => Append(u, Head(v)) \o Tail(v) = u \o v
<1>1. /\ Len(u) \in Nat /\ Len(v) \in Nat
      /\ u \o Append(v, x) = Append(u \o v, x)
  OBVIOUS
<1>2. << >> \o v = v /\ v \o << >> = v
  OBVIOUS
<1>3. v # << >> => Append(u, Head(v)) \o Tail(v) = u \o v
  OBVIOUS
<1>. QED BY <1>1, <1>2, <1>3

\* What is behind a part of a sequence is the sequence without that part.
LEMMA CutFront ==
  ASSUME NEW u \in Seq(Input), NEW v \in Seq(Input)
  PROVE  /\ Cut(v, v, 0, 0) /\ Cut(v, u \o v, 0, Len(u))
         /\ v # << >> => Cut(Tail(v), u \o v, 0, Len(u) + 1)
<1>1. /\ Len(u) \in Nat /\ Len(v) \in Nat /\ Len(u \o v) = Len(u) + Len(v)
      /\ \A j \in 1..Len(u)+Len(v) :
           (u \o v)[j] = IF j <= Len(u) THEN u[j] ELSE v[j-Len(u)]
  BY ConcatFacts, SeqFacts
<1>2. Cut(v, v, 0, 0)
  BY <1>1 DEF Cut
<1>3. \A i \in 1..Len(v) : (u \o v)[i+Len(u)] = v[i]
  BY <1>1
<1>4. Cut(v, u \o v, 0, Len(u))
  BY <1>1, <1>3 DEF Cut
<1>5. ASSUME v # << >>
      PROVE  Cut(Tail(v), u \o v, 0, Len(u) + 1)
  <2>1. /\ Len(Tail(v)) = Len(v) - 1 /\ Len(v) \in Nat \ {0}
        /\ \A i \in 1..Len(v)-1 : Tail(v)[i] = v[i+1]
    BY <1>5, TailFacts
  <2>2. \A i \in 1..Len(v)-1 : (u \o v)[(i+1)+Len(u)] = v[i+1]
    BY <1>3, <2>1
  <2>3. \A i \in 1..Len(v)-1 : (i+1)+Len(u) = i+(Len(u)+1)
    BY <1>1
  <2>4. \A i \in 1..Len(Tail(v)) : Tail(v)[i] = (u \o v)[i+(Len(u)+1)]
    BY <2>1, <2>2, <2>3
  <2>. QED BY <1>1, <2>1, <2>4 DEF Cut
<1>. QED BY <1>2, <1>4, <1>5

\* What is cut from a part is cut from the whole.
LEMMA CutMiddle ==
  ASSUME NEW u \in Seq(Input), NEW p \in Seq(Input), NEW r \in Seq(Input),
         NEW v \in Seq(Input), NEW d, Cut(r, p, 0, d)
  PROVE  Cut((u \o r) \o v, (u \o p) \o v, Len(u), d)
<1>1. /\ Len(u) \in Nat /\ Len(p) \in Nat /\ Len(r) \in Nat /\ Len(v) \in Nat
      /\ d \in Nat /\ d <= Len(p) /\ Len(r) = Len(p) - d
      /\ \A i \in 1..Len(r) : r[i] = p[i+d]
  BY SeqFacts DEF Cut
<1>. DEFINE ur == u \o r
            up == u \o p
            x == ur \o v
            y == up \o v
<1>2. /\ ur \in Seq(Input) /\ Len(ur) = Len(u) + Len(r)
      /\ \A j \in 1..Len(u)+Len(r) :
           ur[j] = IF j <= Len(u) THEN u[j] ELSE r[j-Len(u)]
      /\ up \in Seq(Input) /\ Len(up) = Len(u) + Len(p)
      /\ \A j \in 1..Len(u)+Len(p) :
           up[j] = IF j <= Len(u) THEN u[j] ELSE p[j-Len(u)]
  BY ConcatFacts
<1>. HIDE DEF ur, up
<1>3. /\ Len(x) = Len(ur) + Len(v)
      /\ \A j \in 1..Len(ur)+Len(v) :
           x[j] = IF j <= Len(ur) THEN ur[j] ELSE v[j-Len(ur)]
      /\ Len(y) = Len(up) + Len(v)
      /\ \A j \in 1..Len(up)+Len(v) :
           y[j] = IF j <= Len(up) THEN up[j] ELSE v[j-Len(up)]
  <2>1. ur \in Seq(Input) /\ up \in Seq(Input)
    BY <1>2
  <2>. QED BY <2>1, ConcatFacts
<1>. HIDE DEF x, y
<1>4. Len(x) = Len(y) - d /\ Len(u) + d <= Len(y)
  BY <1>1, <1>2, <1>3
<1>5. ASSUME NEW i \in 1..Len(x)
      PROVE  x[i] = IF i <= Len(u) THEN y[i] ELSE y[i+d]
  <2>1. CASE i <= Len(u)
    <3>1. i \in 1..Len(ur)+Len(v) /\ i <= Len(ur) /\ i \in 1..Len(u)+Len(r)
          /\ i \in 1..Len(up)+Len(v) /\ i <= Len(up) /\ i \in 1..Len(u)+Len(p)
      BY <1>1, <1>2, <1>3, <2>1
    <3>. QED BY <1>2, <1>3, <2>1, <3>1
  <2>2. CASE ~(i <= Len(u)) /\ i <= Len(ur)
    <3>1. /\ i \in 1..Len(ur)+Len(v) /\ i \in 1..Len(u)+Len(r)
          /\ i-Len(u) \in 1..Len(r) /\ (i-Len(u))+d = (i+d)-Len(u)
          /\ i+d \in 1..Len(up)+Len(v) /\ i+d <= Len(up)
          /\ i+d \in 1..Len(u)+Len(p) /\ ~(i+d <= Len(u))
      BY <1>1, <1>2, <1>3, <2>2
    <3>2. x[i] = r[i-Len(u)]
      BY <1>2, <1>3, <2>2, <3>1
    <3>3. y[i+d] = p[(i+d)-Len(u)]
      BY <1>2, <1>3, <3>1
    <3>4. r[i-Len(u)] = p[(i+d)-Len(u)]
      BY <1>1, <3>1
    <3>. QED BY <2>2, <3>2, <3>3, <3>4
  <2>3. CASE ~(i <= Len(u)) /\ ~(i <= Len(ur))
    <3>1. /\ i \in 1..Len(ur)+Len(v) /\ i+d \in 1..Len(up)+Len(v)
          /\ ~(i+d <= Len(up)) /\ i-Len(ur) = (i+d)-Len(up)
      BY <1>1, <1>2, <1>3, <2>3
    <3>2. x[i] = v[i-Len(ur)] /\ y[i+d] = v[(i+d)-Len(up)]
      BY <1>3, <2>3, <3>1
    <3>. QED BY <2>3, <3>1, <3>2
  <2>. QED BY <2>1, <2>2, <2>3
<1>6. Cut(x, y, Len(u), d)
  BY <1>1, <1>4, <1>5 DEF Cut
<1>. QED BY <1>6 DEF x, y, ur, up

(***************************************************************************)
(* What a step of the session does to the stream: it commits an utterance, *)
(* closes it, loses the front of it, or, in the reconnect buffer, drops    *)
(* some of it.                                                             *)
(***************************************************************************)
Committed ==
  /\ task = "serving" /\ task' = "serving" /\ utterances' = utterances + 1
  /\ Len(heard) + 1 \in 1..Len(Stream)
  /\ Stream[Len(heard)+1].kind = "commit"
  /\ Cut(Stream', Stream, 0, Len(heard) + 1)
  /\ mixed' = Mixing(heard)
  /\ UNCHANGED dropped

Closed ==
  /\ task = "serving" /\ task' \in {"finishing", "ended"} /\ Stream' = << >>
  /\ \/ UNCHANGED <<utterances, mixed>>
     \/ /\ utterances' = utterances + 1 /\ 1 \in 1..Len(Stream)
        /\ mixed' \subseteq mixed \cup {utterances'}
  /\ UNCHANGED dropped

Shortened ==
  /\ \/ UNCHANGED dropped /\ \E d \in Nat : Cut(Stream', Stream, 0, d)
     \/ dropped' /\ \E a, d \in Nat : Cut(Stream', Stream, a, d)
  /\ task' \in {"serving", "connecting"} => task \in {"serving", "connecting"}
  /\ UNCHANGED <<utterances, mixed>>

\* Serving takes the head of the way.
LEMMA StreamServe ==
  ASSUME TypeInv, FlowInv, Serve
  PROVE  Committed \/ Shortened
<1>0. /\ task = "serving" /\ (replay # << >> \/ audio # << >>) /\ TakeInput
      /\ UNCHANGED dropped /\ TypeOK
  BY DEF Serve, TypeInv
<1>1. /\ pending = << >> /\ Way # << >> /\ NextInput = Head(Way)
      /\ replay' \in Seq(Input) /\ audio' \in Seq(Input)
      /\ replay' \o audio' = Tail(Way)
  BY <1>0, NextFacts
<1>2. /\ Way \in Seq(Input) /\ heard \in Seq(Input) /\ Stream \in Seq(Input)
      /\ Stream = heard \o Way
  BY <1>0, StreamFacts DEF Stream
<1>3. pending' = << >>
  BY <1>1 DEF Serve, Disconnect
<1>4. Way' = Tail(Way)
  <2>1. replay' \o << >> = replay'
    BY <1>1
  <2>. QED BY <1>1, <1>3, <2>1 DEF Way
<1>5. /\ Len(Way) \in Nat \ {0} /\ Head(Way) = Way[1] /\ Head(Way) \in Input
      /\ Tail(Way) \in Seq(Input)
  BY <1>1, <1>2, TailFacts
<1>6. CASE task' # "serving" /\ UNCHANGED <<utterances, mixed>>
  <2>1. Stream' = Tail(Way)
    <3>1. << >> \o Tail(Way) = Tail(Way)
      BY <1>5
    <3>. QED BY <1>4, <1>6, <3>1 DEF Stream
  <2>2. Cut(Stream', Stream, 0, Len(heard) + 1)
    BY <1>1, <1>2, <2>1, CutFront
  <2>3. Len(heard) + 1 \in Nat
    BY <1>2, SeqFacts
  <2>. QED BY <1>0, <1>6, <2>2, <2>3 DEF Shortened
<1>7. CASE /\ heard' = Append(heard, NextInput) /\ task' = task
           /\ UNCHANGED <<utterances, mixed>>
  <2>1. Stream' = Append(heard, Head(Way)) \o Tail(Way)
    BY <1>0, <1>1, <1>4, <1>7 DEF Stream
  <2>2. Stream' = Stream
    BY SMTT(20), <1>1, <1>2, <1>5, <2>1, Joined
  <2>3. Cut(Stream', Stream, 0, 0)
    BY <1>2, <2>2, CutFront
  <2>. QED BY <1>0, <1>7, <2>3 DEF Shortened
<1>8. CASE /\ NextInput.kind # "audio" /\ heard' = << >> /\ task' = task
           /\ utterances' = utterances + 1
           /\ mixed' = Mixing(heard)
  <2>1. Stream' = Tail(Way)
    <3>1. << >> \o Tail(Way) = Tail(Way)
      BY <1>5
    <3>. QED BY <1>0, <1>4, <1>8, <3>1 DEF Stream
  <2>2. Cut(Stream', Stream, 0, Len(heard) + 1)
    BY <1>1, <1>2, <2>1, CutFront
  <2>3. /\ Len(heard) + 1 \in 1..Len(Stream)
        /\ Stream[Len(heard)+1] = Way[1]
    <3>1. 1 \in 1..Len(Way)
      BY <1>5
    <3>. QED BY <1>0, <3>1, StreamFacts
  <2>4. Way[1].kind = "commit"
    BY <1>1, <1>5, <1>8, InputFields
  <2>. QED BY <1>0, <1>8, <2>2, <2>3, <2>4 DEF Committed
<1>. QED BY <1>0, <1>6, <1>7, <1>8 DEF Serve, Disconnect

\* The other steps of the session.
LEMMA StreamOther ==
  ASSUME TypeInv, FlowInv, SessionStep, ~Serve
  PROVE  Closed \/ Shortened
<1>0. /\ TypeOK /\ Stream \in Seq(Input) /\ Way \in Seq(Input)
      /\ heard \in Seq(Input) /\ replay \in Seq(Input)
      /\ pending \in Seq(Input) /\ audio \in Seq(Input)
  BY StreamFacts DEF TypeInv
<1>1. ASSUME Stream' = Stream, UNCHANGED <<utterances, mixed, dropped>>,
             task' \in {"serving", "connecting"} =>
               task \in {"serving", "connecting"}
      PROVE  Shortened
  <2>1. Cut(Stream', Stream, 0, 0)
    BY <1>0, <1>1, CutFront
  <2>. QED BY <1>1, <2>1 DEF Shortened
<1>2. CASE Provider \/ SendEvent \/ RefuseConnection
  <2>1. UNCHANGED <<task, heard, replay, pending, audio, utterances, mixed,
                    dropped>>
    BY <1>2 DEF Provider, Recognize, SendEvent, RefuseConnection, provider,
                channels, session
  <2>2. Stream' = Stream
    BY <2>1 DEF Stream, Way
  <2>. QED BY <1>1, <2>1, <2>2
<1>3. CASE FinishSession \/ StopConnecting
  <2>1. /\ UNCHANGED <<heard, replay, pending, audio, utterances, mixed, dropped>>
        /\ task # "serving" /\ task' = "ended"
    BY <1>3 DEF FinishSession, StopConnecting, provider, channels
  <2>2. Stream' = Stream
    BY <2>1 DEF Stream, Way
  <2>. QED BY <1>1, <2>1, <2>2
<1>4. CASE LoseSocket
  <2>1. /\ UNCHANGED <<replay, audio, utterances, mixed, dropped>>
        /\ task = "serving" /\ task' # "serving" /\ pending' = << >>
        /\ pending = << >>
    BY <1>4 DEF LoseSocket, Disconnect, channels, provider, FlowInv, TaskFlow
  <2>2. Way' = Way
    BY <2>1 DEF Way
  <2>3. Stream' = Way /\ Stream = heard \o Way
    BY <1>0, <2>1, <2>2, Joined DEF Stream
  <2>4. Cut(Stream', Stream, 0, Len(heard)) /\ Len(heard) \in Nat
    BY <1>0, <2>3, CutFront, SeqFacts
  <2>. QED BY <2>1, <2>4 DEF Shortened
<1>5. CASE Connect
  <2>1. /\ UNCHANGED <<audio, utterances, mixed, dropped>> /\ heard' = << >>
        /\ task = "connecting" /\ task' = "serving"
        /\ replay' = replay \o pending /\ pending' = << >>
    BY <1>5 DEF Connect, Replayed, channels
  <2>2. (replay \o pending) \o << >> = replay \o pending
    BY <1>0
  <2>3. Way' = Way
    BY <2>1, <2>2 DEF Way
  <2>4. Stream' = Stream
    BY <2>1, <2>3 DEF Stream
  <2>. QED BY <1>1, <2>1, <2>4
<1>6. CASE CloseSession
  <2>1. /\ heard' = << >> /\ replay' = << >> /\ audio' = << >>
        /\ pending' = pending /\ pending = << >> /\ task = "serving"
        /\ task' \in {"finishing", "ended"}
        /\ UNCHANGED dropped
    BY <1>6 DEF CloseSession, FlowInv, TaskFlow
  <2>2. << >> \o << >> = << >>
    OBVIOUS
  <2>3. Stream' = << >>
    BY <2>1, <2>2 DEF Stream, Way
  <2>4. \/ UNCHANGED <<utterances, mixed>>
        \/ /\ utterances' = utterances + 1 /\ 1 \in 1..Len(Stream)
           /\ mixed' \subseteq mixed \cup {utterances'}
    <3>. DEFINE queued == replay \o audio
                rest == Keep(queued, {i \in ToSet(queued) : i.kind = "audio"})
    <3>1. \/ UNCHANGED <<utterances, mixed>>
          \/ /\ utterances' = utterances + 1 /\ heard \o rest # << >>
             /\ mixed' = Mixing(heard \o rest)
      BY <1>6 DEF CloseSession
    <3>2. queued \in Seq(Input) /\ Way = queued
      <4>1. replay \o << >> = replay
        BY <1>0
      <4>. QED BY <1>0, <2>1, <4>1, ConcatFacts DEF Way
    <3>. HIDE DEF queued
    <3>3. rest \in Seq(Input) /\ Len(rest) <= Len(queued)
      BY <3>2, KeepProperties
    <3>. HIDE DEF rest
    <3>4. heard \o rest # << >> => Len(heard) # 0 \/ Len(rest) # 0
      BY <1>0, <3>3
    <3>5. /\ Len(heard) \in Nat /\ Len(rest) \in Nat /\ Len(queued) \in Nat
          /\ Len(Stream) = Len(heard) + Len(queued)
      BY <1>0, <2>1, <3>2, <3>3, StreamFacts, SeqFacts
    <3>6. heard \o rest # << >> => 1 \in 1..Len(Stream)
      BY <3>3, <3>4, <3>5
    <3>7. Mixing(heard \o rest) \subseteq mixed \cup {utterances + 1}
      BY <1>0, MixingTyped
    <3>. QED BY <3>1, <3>6, <3>7
  <2>. QED BY <2>1, <2>3, <2>4 DEF Closed
<1>7. CASE Buffer
  <2>. DEFINE x == Head(audio)
              rest == Tail(audio)
              pushed == Push(pending, x)
              longer == Append(pending, x)
  <2>1. /\ task = "connecting" /\ task' = task /\ audio # << >>
        /\ UNCHANGED <<replay, utterances, mixed>>
        /\ audio' = rest /\ pending' = pushed
        /\ dropped' = (dropped \/ Chunks(longer) > BufferLimit)
    BY <1>7 DEF Buffer, provider
  <2>2. x \in Input /\ rest \in Seq(Input) /\ longer \in Seq(Input)
        /\ Len(longer) = Len(pending) + 1
    BY <1>0, <2>1, TailFacts, AppendFacts
  <2>3. Chunks(pending) <= BufferLimit
    BY <1>0 DEF TypeOK
  <2>4. /\ pushed \in Seq(Input)
        /\ \/ pushed = longer
           \/ /\ Chunks(longer) > BufferLimit
              /\ \E d \in 1..Len(pending)+1 : Cut(pushed, longer, 0, d)
    BY <1>0, <2>2, <2>3, PushFacts
  <2>. DEFINE before == (replay \o longer) \o rest
              after == (replay \o pushed) \o rest
  <2>5. Stream = before
    <3>1. replay \o pending \in Seq(Input)
      BY <1>0, ConcatFacts
    <3>2. Append(replay \o pending, x) \o rest = (replay \o pending) \o audio
      BY ZenonT(30), <1>0, <2>1, <2>2, <3>1, Joined
    <3>3. Append(replay \o pending, x) = replay \o longer
      <4>1. \A y \in Input :
              Append(replay \o pending, y) = replay \o Append(pending, y)
        <5>. TAKE y \in Input
        <5>. QED BY SMTT(20), <1>0, Joined
      <4>. QED BY <2>2, <4>1
    <3>4. Way = before
      BY <3>2, <3>3 DEF Way
    <3>. QED BY <1>0, <2>1, <3>4, StreamFacts
  <2>6. Stream' = after
    <3>1. replay \o pushed \in Seq(Input)
      BY <1>0, <2>4, ConcatFacts
    <3>2. after \in Seq(Input)
      BY <2>2, <3>1, ConcatFacts
    <3>3. << >> \o after = after
      BY <3>2
    <3>4. Way' = after
      BY <2>1 DEF Way
    <3>. QED BY <2>1, <3>3, <3>4 DEF Stream
  <2>7. CASE pushed = longer /\ ~(Chunks(longer) > BufferLimit)
    <3>1. dropped' = dropped
      <4>1. dropped \in BOOLEAN
        BY <1>0 DEF TypeOK
      <4>. HIDE DEF longer
      <4>. QED BY <2>1, <2>7, <4>1
    <3>. QED BY <1>1, <2>1, <2>5, <2>6, <2>7, <3>1
  <2>8. CASE pushed = longer /\ Chunks(longer) > BufferLimit
    <3>1. Cut(Stream', Stream, 0, 0) /\ dropped'
      BY <1>0, <2>1, <2>5, <2>6, <2>8, CutFront
    <3>. QED BY <2>1, <3>1 DEF Shortened
  <2>9. ASSUME Chunks(longer) > BufferLimit,
               NEW d \in 1..Len(pending)+1, Cut(pushed, longer, 0, d)
        PROVE  Shortened
    <3>1. d \in Nat /\ Len(replay) \in Nat
      BY <1>0, <2>9, SeqFacts
    <3>. HIDE DEF pushed, longer, rest
    <3>2. Cut(after, before, Len(replay), d)
      BY <1>0, <2>2, <2>4, <2>9, CutMiddle
    <3>3. dropped'
      BY <2>1, <2>9
    <3>. QED BY <2>1, <2>5, <2>6, <3>1, <3>2, <3>3 DEF Shortened
  <2>. QED BY <2>4, <2>7, <2>8, <2>9
<1>. QED BY <1>2, <1>3, <1>4, <1>5, <1>6, <1>7 DEF SessionStep

\* The pipeline adds to the stream, or leaves it alone.
LEMMA StreamPipeline ==
  ASSUME TypeInv, FlowInv, PipelineStep
  PROVE  \/ /\ SendAudio
            /\ \E x \in Input : x.kind = "audio" /\ x.segment = segment
                                /\ x.n = Head(effects).n
                                /\ Way' = Append(Way, x)
                                /\ Stream' = Append(Stream, x)
         \/ /\ SendCommit
            /\ Commit \in Input /\ Commit.kind = "commit"
            /\ Commit.segment = segment
            /\ Way' = Append(Way, Commit)
            /\ Stream' = Append(Stream, Commit)
         \/ /\ ~SendAudio /\ ~SendCommit
            /\ Way' = Way /\ Stream' = Stream /\ UNCHANGED segment
<1>0. UNCHANGED <<replay, pending, heard, task>>
  BY PipelineFrame DEF session, provider
<1>1. /\ TypeOK /\ Way \in Seq(Input) /\ heard \in Seq(Input)
      /\ replay \o pending \in Seq(Input) /\ audio \in Seq(Input)
      /\ segment \in Nat
  BY StreamFacts, ConcatFacts DEF TypeInv, TypeOK
<1>2. ASSUME NEW x \in Input, audio' = Append(audio, x)
      PROVE  Way' = Append(Way, x) /\ Stream' = Append(Stream, x)
  <2>1. Way' = Append(Way, x)
    <3>1. (replay \o pending) \o Append(audio, x)
            = Append((replay \o pending) \o audio, x)
      BY <1>1, Joined
    <3>. QED BY <1>0, <1>2, <3>1 DEF Way
  <2>2. CASE task = "serving"
    <3>1. heard \o Append(Way, x) = Append(heard \o Way, x)
      BY <1>1, Joined
    <3>. QED BY <1>0, <2>1, <2>2, <3>1 DEF Stream
  <2>3. CASE task # "serving"
    <3>1. << >> \o Append(Way, x) = Append(<< >> \o Way, x)
      BY <1>1
    <3>. QED BY <1>0, <2>1, <2>3, <3>1 DEF Stream
  <2>. QED BY <2>1, <2>2, <2>3
<1>3. CASE SendAudio
  <2>. DEFINE x == Audio(Head(effects).n)
  <2>1. x \in Input
    <3>1. effects # << >> /\ Head(effects).kind \in Chunk
      BY <1>3 DEF SendAudio, FlowInv, EffectsFlow, Chunk
    <3>2. Head(effects).n \in 0..MaxChunks
      BY <3>1, EffectsTail, WorkFields, Bounds
    <3>. QED BY <1>1, <3>2 DEF Audio, Input
  <2>2. x.kind = "audio" /\ x.segment = segment /\ x.n = Head(effects).n
    BY DEF Audio
  <2>3. audio' = Append(audio, x)
    BY <1>3 DEF SendAudio
  <2>. HIDE DEF x
  <2>4. Way' = Append(Way, x) /\ Stream' = Append(Stream, x)
    BY <1>2, <2>1, <2>3
  <2>. QED BY <1>3, <2>1, <2>2, <2>4
<1>4. CASE SendCommit
  <2>1. /\ Commit \in Input /\ Commit.kind = "commit"
        /\ Commit.segment = segment
    <3>1. 0 \in 0..MaxChunks
      BY Bounds
    <3>. QED BY <1>1, <3>1 DEF Commit, Input
  <2>2. audio' = Append(audio, Commit)
    BY <1>4 DEF SendCommit
  <2>3. Way' = Append(Way, Commit) /\ Stream' = Append(Stream, Commit)
    BY <1>2, <2>1, <2>2
  <2>. QED BY <1>4, <2>1, <2>3
<1>5. CASE ~SendAudio /\ ~SendCommit
  <2>1. UNCHANGED <<audio, segment>>
    BY <1>5 DEF PipelineStep, Pipeline, LoopTop, SeeStop, ReadAudio, ReceiveEvent,
                TakeReply, Publish, FailStorage, Collect, Drained, Flush, Finish,
                channels
  <2>. QED BY <1>0, <1>5, <2>1 DEF Way, Stream
<1>. QED BY <1>3, <1>4, <1>5

\* The session leaves the pipeline's segment open or closed.
LEMMA OpenSession ==
  ASSUME TypeInv, FlowInv, SessionStep
  PROVE  Open' <=> Open
<1>1. UNCHANGED <<streaming, effects>>
  BY SessionFrame DEF loop
<1>2. Committing' <=> Committing
  BY <1>1 DEF Committing
<1>3. reply' = reply \/ (reply # "none" /\ reply' # "none")
  <2>1. audio # << >> /\ Head(audio).kind # "audio" => reply = "awaited"
    <3>1. audio \in Seq(Input)
      BY DEF TypeInv, TypeOK
    <3>2. ASSUME audio # << >>, Head(audio).kind # "audio"
          PROVE  reply = "awaited"
      <4>1. /\ 1 \in 1..Len(audio) /\ Head(audio) = audio[1]
            /\ Head(audio) \in Input
        BY <3>1, <3>2, TailFacts
      <4>2. audio[1].kind = "commit"
        BY <3>2, <4>1, InputFields
      <4>. QED BY <4>1, <4>2 DEF FlowInv, ReplyFlow
    <3>. QED BY <3>2
  <2>2. CASE Serve
    <3>1. \/ reply' = reply
          \/ /\ replay = << >> /\ audio # << >> /\ NextInput.kind # "audio"
             /\ reply' \in {"ok", "failed"}
      BY <2>2 DEF Serve, Answer
    <3>2. replay = << >> => NextInput = Head(audio)
      BY DEF NextInput
    <3>. QED BY <2>1, <3>1, <3>2
  <2>3. CASE Buffer
    <3>1. /\ audio # << >>
          /\ \/ reply' = reply
             \/ Head(audio).kind = "commit" /\ reply' = "ok"
      BY <2>3 DEF Buffer, Acknowledge
    <3>. QED BY <2>1, <3>1
  <2>4. CASE ~Serve /\ ~Buffer
    BY <2>4 DEF SessionStep, Provider, Recognize, LoseSocket, SendEvent,
                CloseSession, FinishSession, Connect, RefuseConnection,
                StopConnecting, channels
  <2>. QED BY <2>2, <2>3, <2>4
<1>. QED BY <1>1, <1>2, <1>3 DEF Open

\* Where the segment is opened and closed by the pipeline.
LEMMA OpenPipeline ==
  ASSUME TypeInv, FlowInv, PipelineStep
  PROVE  /\ SendAudio => Open /\ Open'
         /\ SendCommit => Open /\ ~Open'
         /\ ~SendAudio /\ ~SendCommit => (Open => Open')
         /\ Open' => Open \/ ReadAudio
<1>0. EffectsFlow /\ streaming \in BOOLEAN
  BY DEF FlowInv, TypeInv, TypeOK
<1>1. CASE SendAudio
  <2>1. /\ effects # << >> /\ Head(effects).kind \in Chunk /\ run = "busy"
    BY <1>0, <1>1 DEF SendAudio, EffectsFlow, Chunk
  <2>2. streaming
    BY <1>0, <2>1, EffectsTail DEF EffectsFlow
  <2>3. reply' = "none"
    <3>1. ~Committing
      BY <2>1, NotCommitting DEF Chunk
    <3>2. reply = "none"
      BY <3>1, NoCommit DEF FlowInv
    <3>. QED BY <1>1, <3>2 DEF SendAudio
  <2>4. CASE UNCHANGED streaming
    BY <1>1, <2>2, <2>4 DEF Open, SendAudio, SendCommit
  <2>5. CASE effects' = Append(Tail(effects), [kind |-> "commit", n |-> 0])
    <3>. DEFINE c == [kind |-> "commit", n |-> 0]
    <3>1. c.kind = "commit" /\ c \in Work
      BY DEF Work
    <3>. HIDE DEF c
    <3>2. Tail(effects) \in Seq(Work) /\ Len(Tail(effects)) \in Nat
      BY <2>1, EffectsTail, SeqFacts
    <3>3. /\ Len(effects') = Len(Tail(effects)) + 1
          /\ effects'[Len(Tail(effects)) + 1] = c
      BY <2>5, <3>1, <3>2, AppendFacts DEF c
    <3>4. Committing'
      BY <3>1, <3>2, <3>3 DEF Committing
    <3>. QED BY <1>1, <2>2, <2>3, <3>4 DEF Open, SendAudio, SendCommit
  <2>. QED BY <1>1, <2>4, <2>5 DEF SendAudio, Execute
<1>2. CASE SendCommit
  <2>1. /\ effects # << >> /\ Head(effects).kind = "commit" /\ run = "busy"
        /\ reply = "none" /\ reply' = "awaited" /\ UNCHANGED streaming
    BY <1>0, <1>2 DEF SendCommit, EffectsFlow
  <2>2. Committing /\ ~streaming
    BY <1>0, <2>1, EffectsTail DEF EffectsFlow, Committing
  <2>3. ~SendAudio
    BY <2>1 DEF SendAudio
  <2>. QED BY <1>2, <2>1, <2>2, <2>3 DEF Open
<1>3. CASE TakeReply
  <2>1. Committing /\ reply # "none"
    BY <1>3 DEF TakeReply, FlowInv, ReplyFlow
  <2>2. ~streaming /\ effects # << >> /\ Head(effects).kind = "commit"
    <3>1. PICK i \in 1..Len(effects) : effects[i].kind = "commit"
      BY <2>1 DEF Committing
    <3>2. ~streaming /\ effects # << >>
      BY <1>0, <3>1 DEF EffectsFlow
    <3>. QED BY <2>1, <3>2, NotCommitting
  <2>3. ~Committing'
    <3>1. Tail(effects) = << >>
      BY <1>0, <2>2, OneEffect DEF Chunk
    <3>. DEFINE f == [kind |-> "failed", id |-> FailureId]
    <3>2. f.kind # "commit"
      OBVIOUS
    <3>. HIDE DEF f
    <3>3. effects' = << >> \/ effects' = <<f>>
      <4>1. Append(<< >>, f) = <<f>>
        OBVIOUS
      <4>. QED BY <1>3, <3>1, <4>1 DEF TakeReply, Execute, f
    <3>4. CASE effects' = << >>
      BY <3>4 DEF Committing
    <3>5. CASE effects' = <<f>>
      <4>1. \A i \in 1..Len(effects') : effects'[i] = f
        BY <3>5
      <4>. QED BY <3>2, <4>1 DEF Committing
    <3>. QED BY <3>3, <3>4, <3>5
  <2>4. ~Open /\ ~Open'
    BY <1>3, <2>1, <2>2, <2>3 DEF Open, TakeReply
  <2>5. ~SendAudio /\ ~SendCommit
    BY <2>1, <2>2 DEF SendAudio, SendCommit
  <2>. QED BY <2>4, <2>5
<1>4. CASE ReadAudio
  <2>1. ~Committing
    BY <1>4, Idle DEF ReadAudio
  <2>2. UNCHANGED streaming \/ streaming' = TRUE
    BY <1>4 DEF ReadAudio
  <2>3. ~SendAudio /\ ~SendCommit
    BY <1>4 DEF ReadAudio, SendAudio, SendCommit
  <2>. QED BY <1>4, <2>1, <2>2, <2>3 DEF Open
<1>5. CASE \/ LoopTop \/ SeeStop \/ ReceiveEvent \/ Publish \/ FailStorage
           \/ Collect \/ Drained \/ Flush \/ Finish
  <2>1. UNCHANGED streaming
    BY <1>5 DEF LoopTop, SeeStop, ReceiveEvent, Publish, FailStorage, Collect,
                Drained, Flush, Finish
  <2>2. ~Committing
    <3>1. CASE run \notin {"busy", "flushing"} \/ effects = << >>
      BY <3>1, Idle
    <3>2. CASE Publish \/ FailStorage
      <4>1. effects # << >> /\ Head(effects).kind # "commit"
        BY <3>2 DEF Publish, FailStorage
      <4>. QED BY <4>1, NotCommitting
    <3>. QED BY <1>5, <3>1, <3>2
             DEF LoopTop, SeeStop, ReceiveEvent, Collect, Drained, Flush, Finish
  <2>3. ~Committing'
    <3>1. CASE UNCHANGED effects
      BY <2>2, <3>1 DEF Committing
    <3>2. CASE effects' = << >>
      BY <3>2 DEF Committing
    <3>3. ASSUME NEW e \in Said, effects' = <<e>>
          PROVE  ~Committing'
      <4>1. e.kind # "commit" /\ \A i \in 1..Len(effects') : effects'[i] = e
        BY <3>3, SaidFields
      <4>. QED BY <4>1 DEF Committing
    <3>4. CASE Publish
      <4>1. effects # << >> /\ Head(effects).kind \notin Chunk
        BY <3>4 DEF Publish, Chunk
      <4>. QED BY <1>0, <3>2, <3>4, <4>1, OneEffect DEF Publish, Execute
    <3>5. CASE ReceiveEvent
      <4>1. Head(events) \in Said
        BY <3>5, TailFacts DEF ReceiveEvent, TypeInv
      <4>. QED BY <3>2, <3>3, <3>5, <4>1, HandleTyped DEF ReceiveEvent, TypeInv
    <3>6. CASE Flush
      <4>1. Head(drained) \in Said
        BY <3>6, TailFacts DEF Flush, TypeInv
      <4>. QED BY <3>2, <3>3, <3>6, <4>1, HandleTyped DEF Flush, TypeInv
    <3>. QED BY <1>5, <3>1, <3>2, <3>4, <3>5, <3>6
             DEF LoopTop, SeeStop, FailStorage, Collect, Drained, Finish
  <2>4. ~SendAudio /\ ~SendCommit
    <3>1. CASE run # "busy"
      BY <3>1 DEF SendAudio, SendCommit
    <3>2. CASE Publish \/ FailStorage
      BY <3>2 DEF Publish, FailStorage, SendAudio, SendCommit
    <3>. QED BY <1>5, <3>1, <3>2
             DEF LoopTop, SeeStop, ReceiveEvent, Collect, Drained, Flush, Finish
  <2>. QED BY <2>1, <2>2, <2>3, <2>4 DEF Open
<1>. QED BY <1>1, <1>2, <1>3, <1>4, <1>5 DEF PipelineStep, Pipeline
-----------------------------------------------------------------------------
(* Segments and utterances                                                 *)

\* Where each element of the shorter sequence was in the longer one.
LEMMA CutMap ==
  ASSUME NEW r \in Seq(Input), NEW q \in Seq(Input), NEW a, NEW d,
         Cut(r, q, a, d)
  PROVE  \E f \in [1..Len(r) -> 1..Len(q)] :
           /\ \A i \in 1..Len(r) : r[i] = q[f[i]]
           /\ \A i, j \in 1..Len(r) : i < j => f[i] < f[j]
           /\ a = 0 => \A i \in 1..Len(r) : f[i] = i + d
<1>. DEFINE f == [i \in 1..Len(r) |-> IF i <= a THEN i ELSE i + d]
<1>1. /\ Len(r) \in Nat /\ Len(q) \in Nat /\ a \in Nat /\ d \in Nat
      /\ a + d <= Len(q) /\ Len(r) = Len(q) - d
      /\ \A i \in 1..Len(r) : r[i] = IF i <= a THEN q[i] ELSE q[i+d]
  BY SeqFacts DEF Cut
<1>2. \A i \in 1..Len(r) : i \in 1..Len(q) /\ i + d \in 1..Len(q)
  BY <1>1
<1>3. f \in [1..Len(r) -> 1..Len(q)]
  BY <1>2
<1>4. \A i \in 1..Len(r) : r[i] = q[f[i]]
  BY <1>1
<1>5. \A i, j \in 1..Len(r) : i < j => f[i] < f[j]
  BY <1>1
<1>6. a = 0 => \A i \in 1..Len(r) : f[i] = i + d
  BY <1>1
<1>. QED BY <1>3, <1>4, <1>5, <1>6

StreamOK == Stream \in Seq(Input) /\ Way \in Seq(Input)

\* The stream is made of input, ...
LEMMA StreamTyped == TypeOK => StreamOK
BY StreamFacts DEF StreamOK

\* ... and will be.
LEMMA StreamLater == TypeOK' => StreamOK'
BY StreamTyped, PTL

\* The session keeps the segments in order.
LEMMA SegmentSession ==
  ASSUME TypeInv, FlowInv, SegmentInv, TypeInv', SessionStep
  PROVE  SegmentInv'
<1>0. /\ UNCHANGED <<segment, read>> /\ (Open' <=> Open)
      /\ Stream \in Seq(Input) /\ Stream' \in Seq(Input)
      /\ utterances \in Nat /\ segment \in Nat /\ read \in Nat
  <2>1. TypeOK /\ TypeOK'
    BY DEF TypeInv
  <2>3. Stream \in Seq(Input) /\ Stream' \in Seq(Input)
    BY <2>1, StreamTyped, StreamLater DEF StreamOK
  <2>4. utterances \in Nat /\ segment \in Nat /\ read \in Nat
    BY <2>1, Bounds DEF TypeOK
  <2>. QED BY <2>3, <2>4, OpenSession, SessionFrame DEF loop
<1>1. \A i \in 1..Len(Stream) : Stream[i].segment \in Nat
  BY <1>0, SeqFacts, InputFields
<1>2. CASE Shortened
  <2>1. PICK a \in Nat, d \in Nat : Cut(Stream', Stream, a, d)
    BY <1>2 DEF Shortened
  <2>2. PICK f \in [1..Len(Stream') -> 1..Len(Stream)] :
               /\ \A i \in 1..Len(Stream') : Stream'[i] = Stream[f[i]]
               /\ \A i, j \in 1..Len(Stream') : i < j => f[i] < f[j]
    BY <1>0, <2>1, CutMap
  <2>3. \A i \in 1..Len(Stream') : f[i] \in 1..Len(Stream)
    BY <2>2
  <2>4. \A i \in 1..Len(Stream') :
          /\ utterances' < Stream'[i].segment /\ Stream'[i].segment <= segment'
          /\ Stream'[i].kind = "commit" => Stream'[i].segment < segment'
          /\ Stream'[i].segment = segment' => Open'
    BY <1>0, <1>2, <2>2, <2>3 DEF SegmentInv, Shortened
  <2>5. \A i, j \in 1..Len(Stream') : i < j =>
          /\ Stream'[i].segment <= Stream'[j].segment
          /\ Stream'[i].kind = "commit" => Stream'[i].segment < Stream'[j].segment
    BY <2>2, <2>3 DEF SegmentInv
  <2>. QED BY <1>0, <1>2, <2>4, <2>5 DEF SegmentInv, Shortened
<1>3. CASE Committed
  <2>. DEFINE c == Len(heard) + 1
  <2>1. /\ c \in 1..Len(Stream) /\ Stream[c].kind = "commit"
        /\ Cut(Stream', Stream, 0, c) /\ utterances' = utterances + 1
        /\ task = "serving"
    BY <1>3 DEF Committed
  <2>. HIDE DEF c
  <2>2. PICK f \in [1..Len(Stream') -> 1..Len(Stream)] :
               /\ \A i \in 1..Len(Stream') : Stream'[i] = Stream[f[i]]
               /\ \A i, j \in 1..Len(Stream') : i < j => f[i] < f[j]
               /\ \A i \in 1..Len(Stream') : f[i] = i + c
    BY SMTT(20), <1>0, <2>1, CutMap
  <2>3. \A i \in 1..Len(Stream') : f[i] \in 1..Len(Stream) /\ c < f[i]
    BY <2>1, <2>2
  <2>4. /\ utterances < Stream[c].segment /\ Stream[c].segment < segment
        /\ \A j \in 1..Len(Stream) :
             c < j => Stream[c].segment < Stream[j].segment
    BY <2>1 DEF SegmentInv
  <2>5. utterances' < segment'
    BY <1>0, <1>1, <2>1, <2>4
  <2>6. \A i \in 1..Len(Stream') : utterances' < Stream'[i].segment
    <3>1. \A j \in 1..Len(Stream) : c < j => utterances + 1 < Stream[j].segment
      BY <1>0, <1>1, <2>1, <2>4
    <3>. QED BY <2>1, <2>2, <2>3, <3>1
  <2>7. \A i \in 1..Len(Stream') :
          /\ Stream'[i].segment <= segment'
          /\ Stream'[i].kind = "commit" => Stream'[i].segment < segment'
          /\ Stream'[i].segment = segment' => Open'
    BY <1>0, <2>2, <2>3 DEF SegmentInv
  <2>8. \A i, j \in 1..Len(Stream') : i < j =>
          /\ Stream'[i].segment <= Stream'[j].segment
          /\ Stream'[i].kind = "commit" => Stream'[i].segment < Stream'[j].segment
    BY <2>2, <2>3 DEF SegmentInv
  <2>9. utterances' <= read'
    BY <1>0, <2>1, AnotherUtterance
  <2>. QED BY <1>0, <2>5, <2>6, <2>7, <2>8, <2>9 DEF SegmentInv
<1>4. CASE Closed
  <2>1. utterances' <= read'
    <3>1. CASE utterances' = utterances
      BY <1>0, <3>1 DEF SegmentInv
    <3>2. CASE utterances' = utterances + 1 /\ 1 \in 1..Len(Stream)
      BY <1>0, <3>2, AnotherUtterance
    <3>. QED BY <1>4, <3>1, <3>2 DEF Closed
  <2>2. Stream' = << >> /\ task' \notin {"serving", "connecting"}
    BY <1>4 DEF Closed
  <2>. QED BY <1>0, <2>1, <2>2 DEF SegmentInv
<1>. QED BY <1>2, <1>3, <1>4, StreamServe, StreamOther

\* The pipeline keeps the segments in order.
LEMMA SegmentPipeline ==
  ASSUME TypeInv, FlowInv, SegmentInv, PipelineStep
  PROVE  SegmentInv'
<1>0. /\ UNCHANGED <<task, utterances>> /\ Stream \in Seq(Input)
      /\ utterances \in Nat /\ segment \in Nat /\ read \in Nat
      /\ Len(Stream) \in Nat
  <2>1. TypeOK
    BY DEF TypeInv
  <2>2. Stream \in Seq(Input) /\ Len(Stream) \in Nat
    BY <2>1, StreamFacts, SeqFacts
  <2>3. utterances \in Nat /\ segment \in Nat /\ read \in Nat
    BY <2>1, Bounds DEF TypeOK
  <2>. QED BY <2>2, <2>3, PipelineFrame DEF session, provider
<1>1. \A i \in 1..Len(Stream) : Stream[i].segment \in Nat
  BY <1>0, SeqFacts, InputFields
<1>2. /\ \A i \in 1..Len(Stream) :
           /\ utterances < Stream[i].segment /\ Stream[i].segment <= segment
           /\ Stream[i].kind = "commit" => Stream[i].segment < segment
           /\ Stream[i].segment = segment => Open
      /\ \A i, j \in 1..Len(Stream) : i < j =>
           /\ Stream[i].segment <= Stream[j].segment
           /\ Stream[i].kind = "commit" => Stream[i].segment < Stream[j].segment
      /\ segment <= read + 1 /\ (Open => segment <= read)
      /\ utterances <= read
      /\ task \in {"serving", "connecting"} => utterances < segment
  BY DEF SegmentInv
<1>3. run \notin Left => utterances < segment
  BY <1>0, <1>2 DEF FlowInv, TaskFlow, TypeInv, TypeOK
<1>4. ASSUME NEW x \in Input, x.segment = segment,
             Stream' = Append(Stream, x), utterances < segment, Open,
             read' = read,
             segment' \in Nat, segment <= segment', segment' <= segment + 1,
             x.kind = "commit" => segment < segment',
             segment' = segment => Open', Open' => segment' = segment
      PROVE  SegmentInv'
  <2>1. /\ Len(Stream') = Len(Stream) + 1
        /\ \A i \in 1..Len(Stream)+1 :
             Stream'[i] = IF i <= Len(Stream) THEN Stream[i] ELSE x
    BY <1>0, <1>4, AppendFacts
  <2>2. \A i \in 1..Len(Stream') : i \in 1..Len(Stream) \/ i = Len(Stream) + 1
    BY <1>0, <2>1
  <2>3. /\ \A i \in 1..Len(Stream) : Stream'[i] = Stream[i]
        /\ Stream'[Len(Stream)+1] = x
    BY <1>0, <2>1
  <2>4. \A i \in 1..Len(Stream) :
          /\ utterances < Stream[i].segment /\ Stream[i].segment <= segment'
          /\ Stream[i].kind = "commit" => Stream[i].segment < segment'
          /\ Stream[i].segment = segment' => segment' = segment
    BY <1>0, <1>1, <1>2, <1>4
  <2>5. \A i \in 1..Len(Stream') :
          /\ utterances' < Stream'[i].segment /\ Stream'[i].segment <= segment'
          /\ Stream'[i].kind = "commit" => Stream'[i].segment < segment'
          /\ Stream'[i].segment = segment' => Open'
    <3>. TAKE i \in 1..Len(Stream')
    <3>1. CASE i \in 1..Len(Stream)
      BY <1>0, <1>4, <2>3, <2>4, <3>1
    <3>2. CASE i = Len(Stream) + 1
      BY <1>0, <1>4, <2>3, <3>2
    <3>. QED BY <2>2, <3>1, <3>2
  <2>6. \A i, j \in 1..Len(Stream') : i < j =>
          /\ Stream'[i].segment <= Stream'[j].segment
          /\ Stream'[i].kind = "commit" => Stream'[i].segment < Stream'[j].segment
    <3>. SUFFICES ASSUME NEW i \in 1..Len(Stream'), NEW j \in 1..Len(Stream'),
                         i < j
                  PROVE  /\ Stream'[i].segment <= Stream'[j].segment
                         /\ Stream'[i].kind = "commit" =>
                              Stream'[i].segment < Stream'[j].segment
      OBVIOUS
    <3>1. i \in 1..Len(Stream)
      BY <1>0, <2>1
    <3>2. CASE j \in 1..Len(Stream)
      BY <1>2, <2>3, <3>1, <3>2
    <3>3. CASE j = Len(Stream) + 1
      BY <1>2, <1>4, <2>3, <3>1, <3>3
    <3>. QED BY <2>2, <3>2, <3>3
  <2>7. segment' <= read' + 1 /\ (Open' => segment' <= read')
    BY <1>0, <1>2, <1>4
  <2>8. utterances' <= read'
        /\ (task' \in {"serving", "connecting"} => utterances' < segment')
    BY <1>0, <1>2, <1>4
  <2>. QED BY <2>5, <2>6, <2>7, <2>8 DEF SegmentInv
<1>5. CASE SendAudio
  <2>1. PICK x \in Input : x.segment = segment /\ x.kind = "audio"
                           /\ Stream' = Append(Stream, x)
    BY <1>5, StreamPipeline DEF SendAudio, SendCommit
  <2>2. segment' = segment /\ read' = read /\ run = "busy"
    BY <1>5 DEF SendAudio
  <2>3. utterances < segment
    BY <1>3, <2>2 DEF Left
  <2>4. Open /\ Open'
    BY <1>5, OpenPipeline
  <2>. QED BY <1>0, <1>4, <2>1, <2>2, <2>3, <2>4
<1>6. CASE SendCommit
  <2>1. /\ Commit \in Input /\ Commit.segment = segment
        /\ Stream' = Append(Stream, Commit)
    BY <1>6, StreamPipeline DEF SendAudio, SendCommit
  <2>2. segment' = segment + 1 /\ read' = read /\ run = "busy"
    BY <1>6 DEF SendCommit
  <2>3. utterances < segment
    BY <1>3, <2>2 DEF Left
  <2>4. Open /\ ~Open'
    BY <1>6, OpenPipeline
  <2>5. segment <= segment' /\ segment' <= segment + 1 /\ segment < segment'
        /\ segment' \in Nat /\ segment' # segment
    BY <1>0, <2>2
  <2>. QED BY <1>4, <2>1, <2>2, <2>3, <2>4, <2>5
<1>7. CASE ~SendAudio /\ ~SendCommit
  <2>1. Stream' = Stream /\ UNCHANGED segment
    BY <1>7, StreamPipeline
  <2>2. (Open => Open') /\ (Open' => Open \/ ReadAudio)
    BY <1>7, OpenPipeline
  <2>3. read' = read \/ (ReadAudio /\ read' = read + 1)
    BY <1>7 DEF PipelineStep, Pipeline, LoopTop, SeeStop, ReadAudio, ReceiveEvent,
                TakeReply, Publish, FailStorage, Collect, Drained, Flush, Finish
  <2>4. ReadAudio => read' = read + 1
    BY DEF ReadAudio
  <2>5. read' \in Nat /\ read <= read' /\ (Open' => segment <= read')
    BY <1>0, <1>2, <2>2, <2>3, <2>4
  <2>6. segment <= read' + 1 /\ utterances <= read'
    <3>1. segment <= read + 1 /\ utterances <= read
      BY <1>2
    <3>2. read' \in Nat /\ read <= read'
      BY <2>5
    <3>3. segment \in Nat /\ read \in Nat /\ utterances \in Nat
      BY <1>0
    <3>4. \A k, m, n \in Nat : m <= n =>
            (k <= m + 1 => k <= n + 1) /\ (k <= m => k <= n)
      OBVIOUS
    <3>. QED BY <3>1, <3>2, <3>3, <3>4
  <2>. QED BY <1>0, <1>2, <2>1, <2>2, <2>5, <2>6 DEF SegmentInv
<1>. QED BY <1>5, <1>6, <1>7

\* Every step keeps types, flow and segments.
LEMMA CloudStep ==
  ASSUME TypeInv, FlowInv, SegmentInv, [Next]_vars
  PROVE  TypeInv' /\ FlowInv' /\ SegmentInv'
<1>1. TypeInv' /\ FlowInv'
  BY TypeStep, FlowStep
<1>2. CASE UNCHANGED <<lifecycle, loop, channels, session, provider>>
  <2>1. Stream' = Stream
    BY <1>2 DEF channels, session, provider, Stream, Way
  <2>2. Open' <=> Open
    BY <1>2 DEF loop, channels, Open, Committing
  <2>3. UNCHANGED <<segment, read, utterances, task>>
    BY <1>2 DEF loop, session, provider
  <2>4. \A i \in 1..Len(Stream') :
          /\ utterances' < Stream'[i].segment /\ Stream'[i].segment <= segment'
          /\ Stream'[i].kind = "commit" => Stream'[i].segment < segment'
          /\ Stream'[i].segment = segment' => Open'
    BY <2>1, <2>2, <2>3 DEF SegmentInv
  <2>5. \A i, j \in 1..Len(Stream') : i < j =>
          /\ Stream'[i].segment <= Stream'[j].segment
          /\ Stream'[i].kind = "commit" => Stream'[i].segment < Stream'[j].segment
    BY <2>1 DEF SegmentInv
  <2>6. /\ segment' <= read' + 1 /\ utterances' <= read'
        /\ (task' \in {"serving", "connecting"} => utterances' < segment')
    BY <2>3 DEF SegmentInv
  <2>7. Open' => segment' <= read'
    BY <2>2, <2>3 DEF SegmentInv
  <2>. QED BY <1>1, <2>4, <2>5, <2>6, <2>7 DEF SegmentInv
<1>. QED BY <1>1, <1>2, Kinds, SegmentSession, SegmentPipeline

\* Nothing has happened yet.
LEMMA CloudInit == Init => TypeInv /\ FlowInv /\ SegmentInv
<1>. SUFFICES ASSUME Init PROVE TypeInv /\ FlowInv /\ SegmentInv
  OBVIOUS
<1>1. /\ \A S : << >> \in Seq(S)
      /\ Len(<< >>) = 0 /\ << >> \o << >> = << >>
      /\ \A n \in Nat : 0 <= n /\ 0 \in 0..n /\ n \in 0..n
  OBVIOUS
<1>2. TypeOK
  <2>1. Chunks(<< >>) <= BufferLimit
    BY ResetFacts
  <2>2. [u \in Utterances |-> 0] \in [Utterances -> Nat]
    OBVIOUS
  <2>. QED BY <1>1, <2>1, <2>2, Bounds DEF Init, TypeOK
<1>3. TypeInv
  BY <1>1, <1>2 DEF TypeInv, Init
<1>4. FlowInv
  BY <1>1 DEF FlowInv, EffectsFlow, ReplyFlow, TaskFlow, Init, Left
<1>5. SegmentInv
  <2>1. Stream = << >>
    BY <1>1 DEF Stream, Way, Init
  <2>2. ~Open
    BY <1>1 DEF Open, Committing, Init
  <2>. QED BY <1>1, <2>1, <2>2 DEF SegmentInv, Init
<1>. QED BY <1>3, <1>4, <1>5

\* Types, flow and segments in every state.
LEMMA CloudAlways == Spec => [](TypeInv /\ FlowInv /\ SegmentInv)
BY CloudInit, CloudStep, PTL DEF Spec

(***************************************************************************)
(* The pipeline and the session keep their types and bounds, above all     *)
(* that no more utterances are committed than chunks were captured.        *)
(***************************************************************************)
THEOREM CloudTypeCorrect == Spec => []TypeOK
<1>1. TypeInv => TypeOK
  BY DEF TypeInv
<1>. QED BY <1>1, CloudAlways, PTL
-----------------------------------------------------------------------------
(* Segments are kept apart                                                 *)

\* A commit stands between any two segments of q, ...
Apart(q) ==
  \A i, j \in 1..Len(q) : i < j /\ q[i].segment < q[j].segment =>
    \E k \in i..j-1 : q[k].kind = "commit"

\* ... and after each segment before n.
Ended(q, n) ==
  \A i \in 1..Len(q) : q[i].segment < n =>
    \E k \in i..Len(q) : q[k].kind = "commit"

\* What is behind the front of a sequence is as far apart as the whole.
LEMMA ApartBehind ==
  ASSUME NEW r \in Seq(Input), NEW q \in Seq(Input), NEW d, Cut(r, q, 0, d),
         NEW n, Apart(q), Ended(q, n)
  PROVE  Apart(r) /\ Ended(r, n)
<1>1. /\ Len(r) \in Nat /\ Len(q) \in Nat /\ d \in Nat
      /\ Len(r) = Len(q) - d
      /\ \A i \in 1..Len(r) : r[i] = q[i+d]
  BY SeqFacts DEF Cut
<1>2. \A i \in 1..Len(r) : i+d \in 1..Len(q)
  BY <1>1
<1>3. \A i \in 1..Len(r) : \A k \in i+d..Len(q) :
        k-d \in i..Len(r) /\ k-d \in 1..Len(r) /\ (k-d)+d = k
  BY <1>1
<1>4. ASSUME NEW i \in 1..Len(r), NEW j \in 1..Len(r), i < j,
             r[i].segment < r[j].segment
      PROVE  \E k \in i..j-1 : r[k].kind = "commit"
  <2>1. i+d < j+d /\ q[i+d].segment < q[j+d].segment
    BY <1>1, <1>4
  <2>2. PICK k \in i+d..(j+d)-1 : q[k].kind = "commit"
    BY <1>2, <2>1 DEF Apart
  <2>3. k \in i+d..Len(q) /\ k-d \in i..j-1
    BY <1>1, <2>2
  <2>4. r[k-d] = q[k]
    BY <1>1, <1>3, <2>3
  <2>. QED BY <2>2, <2>3, <2>4
<1>5. ASSUME NEW i \in 1..Len(r), r[i].segment < n
      PROVE  \E k \in i..Len(r) : r[k].kind = "commit"
  <2>1. PICK k \in i+d..Len(q) : q[k].kind = "commit"
    BY <1>1, <1>2, <1>5 DEF Ended
  <2>2. k-d \in i..Len(r) /\ r[k-d] = q[k]
    BY <1>1, <1>3, <2>1
  <2>. QED BY <2>1, <2>2
<1>. QED BY <1>4, <1>5 DEF Apart, Ended

\* The session keeps the segments of the stream apart.
LEMMA ApartSession ==
  ASSUME TypeInv, FlowInv, SegmentInv, ApartInv, TypeInv', SessionStep
  PROVE  ApartInv'
<1>0. /\ segment' = segment /\ Stream \in Seq(Input) /\ Stream' \in Seq(Input)
      /\ heard \in Seq(Input)
  <2>1. TypeOK /\ TypeOK'
    BY DEF TypeInv
  <2>2. heard \in Seq(Input)
    BY <2>1 DEF TypeOK
  <2>. QED BY <2>1, <2>2, StreamTyped, StreamLater, SessionFrame
           DEF StreamOK, loop
<1>1. ASSUME ~dropped, BoundariesKept', Apart(Stream'), Ended(Stream', segment)
      PROVE  ApartInv'
  BY <1>0, <1>1 DEF ApartInv, Apart, Ended
<1>2. ~dropped => BoundariesKept /\ Apart(Stream) /\ Ended(Stream, segment)
  BY DEF ApartInv, Apart, Ended
<1>6. BoundariesKept /\ task = "serving" => mixed = {}
  BY DEF BoundariesKept
<1>3. CASE Shortened
  <2>1. CASE dropped'
    BY <2>1 DEF ApartInv
  <2>2. CASE ~dropped'
    <3>1. PICK d \in Nat : Cut(Stream', Stream, 0, d)
      BY <1>3, <2>2 DEF Shortened
    <3>2. /\ ~dropped /\ UNCHANGED <<mixed, utterances>>
          /\ task \in {"finishing", "ended"} => task' \in {"finishing", "ended"}
      <4>1. task' \in {"serving", "connecting", "finishing", "ended"}
        BY DEF TypeInv, TypeOK
      <4>. QED BY <1>3, <2>2, <4>1 DEF Shortened
    <3>4. BoundariesKept'
      BY <1>2, <3>2 DEF BoundariesKept
    <3>3. Apart(Stream') /\ Ended(Stream', segment)
      BY <1>0, <1>2, <3>1, <3>2, ApartBehind
    <3>. QED BY <1>1, <3>2, <3>3, <3>4
  <2>. QED BY <2>1, <2>2
<1>4. CASE Committed
  <2>1. CASE dropped'
    BY <2>1 DEF ApartInv
  <2>2. CASE ~dropped'
    <3>. DEFINE c == Len(heard) + 1
    <3>1. /\ ~dropped /\ task = "serving" /\ Cut(Stream', Stream, 0, c)
          /\ c \in 1..Len(Stream)
          /\ mixed' = Mixing(heard)
      BY <1>4, <2>2 DEF Committed
    <3>2. Apart(Stream') /\ Ended(Stream', segment)
      BY <1>0, <1>2, <3>1, ApartBehind
    <3>3. /\ DOMAIN heard = 1..Len(heard) /\ Len(heard) \in Nat
          /\ \A i \in 1..Len(heard) : /\ i \in 1..Len(Stream)
                                      /\ Stream[i] = heard[i]
                                      /\ heard[i].kind = "audio"
                                      /\ heard[i].segment \in Nat
      <4>1. \A i \in 1..Len(heard) : heard[i].segment \in Nat
        BY <1>0, SeqFacts, InputFields
      <4>2. DOMAIN heard = 1..Len(heard) /\ Len(heard) \in Nat
            /\ Len(Stream) \in Nat
        BY <1>0, SeqFacts
      <4>3. \A i \in 1..Len(heard) : i \in 1..Len(Stream)
        BY <3>1, <4>2
      <4>. QED BY <3>1, <4>1, <4>2, <4>3, StreamFacts DEF TypeInv
    <3>4. \A i, j \in 1..Len(heard) :
            i < j => ~(heard[i].segment < heard[j].segment)
      <4>. SUFFICES ASSUME NEW i \in 1..Len(heard), NEW j \in 1..Len(heard),
                           i < j, heard[i].segment < heard[j].segment
                    PROVE  FALSE
        OBVIOUS
      <4>1. PICK k \in i..j-1 : Stream[k].kind = "commit"
        BY <1>2, <3>1, <3>3 DEF Apart
      <4>2. k \in 1..Len(heard)
        BY <3>3
      <4>. QED BY <3>3, <4>1, <4>2
    <3>5. \A i, j \in 1..Len(heard) :
            i < j => heard[i].segment <= heard[j].segment
      BY <3>3 DEF SegmentInv
    <3>6. \A i, j \in 1..Len(heard) : i < j => heard[i].segment = heard[j].segment
      BY <3>3, <3>4, <3>5
    <3>7. \A i, j \in 1..Len(heard) : i < j \/ j < i \/ i = j
      BY <3>3
    <3>8. \A i, j \in 1..Len(heard) : heard[i].segment = heard[j].segment
      BY <3>6, <3>7
    <3>9. BoundariesKept'
      <4>1. mixed' = mixed /\ mixed = {}
        BY <1>2, <1>6, <3>1, <3>3, <3>8 DEF Mixing
      <4>. QED BY <4>1 DEF BoundariesKept
    <3>. QED BY <1>1, <3>1, <3>2, <3>9
  <2>. QED BY <2>1, <2>2
<1>5. CASE Closed
  <2>1. /\ Stream' = << >> /\ dropped' = dropped /\ task = "serving"
        /\ task' \in {"finishing", "ended"}
        /\ mixed' = mixed \/ mixed' \subseteq mixed \cup {utterances'}
    BY <1>5 DEF Closed
  <2>2. Apart(Stream') /\ Ended(Stream', segment)
    BY <2>1 DEF Apart, Ended
  <2>3. ~dropped => BoundariesKept'
    BY <1>2, <1>6, <2>1 DEF BoundariesKept
  <2>. QED BY <1>1, <2>1, <2>2, <2>3 DEF ApartInv
<1>. QED BY <1>3, <1>4, <1>5, StreamServe, StreamOther

\* So does the pipeline.
LEMMA ApartPipeline ==
  ASSUME TypeInv, FlowInv, SegmentInv, ApartInv, PipelineStep
  PROVE  ApartInv'
<1>0. /\ UNCHANGED <<mixed, utterances, task, dropped>> /\ Stream \in Seq(Input)
      /\ Len(Stream) \in Nat /\ segment \in Nat
  <2>1. TypeOK
    BY DEF TypeInv
  <2>2. Stream \in Seq(Input) /\ Len(Stream) \in Nat
    BY <2>1, StreamFacts, SeqFacts
  <2>. QED BY <2>1, <2>2, PipelineFrame DEF provider, session, TypeOK
<1>1. CASE dropped
  BY <1>0, <1>1 DEF ApartInv
<1>2. CASE ~dropped
  <2>1. BoundariesKept /\ Apart(Stream) /\ Ended(Stream, segment)
    BY <1>2 DEF ApartInv, Apart, Ended
  <2>2. SUFFICES Apart(Stream') /\ Ended(Stream', segment')
    BY <1>0, <2>1 DEF ApartInv, Apart, Ended, BoundariesKept
  <2>3. ASSUME NEW x \in Input, x.segment = segment, Stream' = Append(Stream, x),
               \/ segment' = segment
               \/ x.kind = "commit"
        PROVE  Apart(Stream') /\ Ended(Stream', segment')
    <3>1. /\ Len(Stream') = Len(Stream) + 1
          /\ \A i \in 1..Len(Stream) : Stream'[i] = Stream[i]
          /\ Stream'[Len(Stream)+1] = x
          /\ \A i \in 1..Len(Stream') :
               i \in 1..Len(Stream) \/ i = Len(Stream) + 1
      BY <1>0, <2>3, AppendFacts
    <3>2. \A i \in 1..Len(Stream) : Stream[i].segment < segment =>
            \E k \in i..Len(Stream) : Stream'[k].kind = "commit"
      <4>. SUFFICES ASSUME NEW i \in 1..Len(Stream), Stream[i].segment < segment
                    PROVE  \E k \in i..Len(Stream) : Stream'[k].kind = "commit"
        OBVIOUS
      <4>1. PICK k \in i..Len(Stream) : Stream[k].kind = "commit"
        BY <2>1 DEF Ended
      <4>2. k \in 1..Len(Stream)
        BY <1>0
      <4>. QED BY <3>1, <4>1, <4>2
    <3>3. ASSUME NEW i \in 1..Len(Stream'), NEW j \in 1..Len(Stream'), i < j,
                 Stream'[i].segment < Stream'[j].segment
          PROVE  \E k \in i..j-1 : Stream'[k].kind = "commit"
      <4>1. i \in 1..Len(Stream)
        BY <1>0, <3>1, <3>3
      <4>2. CASE j \in 1..Len(Stream)
        <5>1. PICK k \in i..j-1 : Stream[k].kind = "commit"
          BY <2>1, <3>1, <3>3, <4>1, <4>2 DEF Apart
        <5>2. k \in 1..Len(Stream)
          BY <1>0, <4>1, <4>2
        <5>. QED BY <3>1, <5>1, <5>2
      <4>3. CASE j = Len(Stream) + 1
        <5>1. j-1 = Len(Stream)
          BY <1>0, <4>3
        <5>. QED BY <2>3, <3>1, <3>2, <3>3, <4>1, <4>3, <5>1
      <4>. QED BY <3>1, <4>2, <4>3
    <3>4. ASSUME NEW i \in 1..Len(Stream'), Stream'[i].segment < segment'
          PROVE  \E k \in i..Len(Stream') : Stream'[k].kind = "commit"
      <4>1. CASE x.kind = "commit"
        <5>1. Len(Stream)+1 \in i..Len(Stream')
          BY <1>0, <3>1
        <5>. QED BY <3>1, <4>1, <5>1
      <4>2. CASE segment' = segment
        <5>1. i # Len(Stream) + 1
          BY <1>0, <2>3, <3>1, <3>4, <4>2
        <5>2. i \in 1..Len(Stream) /\ Stream[i].segment < segment
          BY <3>1, <3>4, <4>2, <5>1
        <5>3. PICK k \in i..Len(Stream) : Stream'[k].kind = "commit"
          BY <3>2, <5>2
        <5>4. k \in i..Len(Stream')
          BY <1>0, <3>1
        <5>. QED BY <5>3, <5>4
      <4>. QED BY <2>3, <4>1, <4>2
    <3>. QED BY <3>3, <3>4 DEF Apart, Ended
  <2>4. CASE SendAudio
    <3>1. PICK x \in Input : x.segment = segment /\ x.kind = "audio"
                             /\ Stream' = Append(Stream, x)
      BY <2>4, StreamPipeline DEF SendAudio, SendCommit
    <3>2. segment' = segment
      BY <2>4 DEF SendAudio
    <3>. QED BY <2>3, <3>1, <3>2
  <2>5. CASE SendCommit
    <3>1. /\ Commit \in Input /\ Commit.segment = segment
          /\ Commit.kind = "commit" /\ Stream' = Append(Stream, Commit)
      BY <2>5, StreamPipeline DEF SendAudio, SendCommit
    <3>. QED BY <2>3, <3>1
  <2>6. CASE ~SendAudio /\ ~SendCommit
    <3>1. Stream' = Stream /\ UNCHANGED segment
      BY <2>6, StreamPipeline
    <3>. QED BY <2>1, <3>1
  <2>. QED BY <2>4, <2>5, <2>6
<1>. QED BY <1>1, <1>2

\* Every step keeps the segments of the stream apart.
LEMMA ApartStep ==
  ASSUME TypeInv, FlowInv, SegmentInv, ApartInv, [Next]_vars
  PROVE  ApartInv'
<1>1. TypeInv'
  BY TypeStep
<1>2. CASE UNCHANGED <<loop, channels, session, provider, dropped>>
  <2>1. Stream' = Stream
    BY <1>2 DEF channels, session, provider, Stream, Way
  <2>2. UNCHANGED <<segment, mixed, utterances, task, dropped>>
    BY <1>2 DEF loop, provider, session
  <2>. QED BY <2>1, <2>2 DEF ApartInv, BoundariesKept
<1>. QED BY <1>1, <1>2, Kinds, ApartSession, ApartPipeline

(***************************************************************************)
(* An utterance holds the audio of one local segment, unless the reconnect *)
(* buffer had to drop input or, for the last one, the stop folded what was *)
(* queued into it.                                                         *)
(***************************************************************************)
THEOREM SegmentsAreKeptApart == Spec => []SegmentsKeptApart
<1>1. Init => ApartInv
  <2>. SUFFICES ASSUME Init PROVE ApartInv
    OBVIOUS
  <2>1. << >> \o << >> = << >> /\ Len(<< >>) = 0
    OBVIOUS
  <2>2. Stream = << >>
    BY <2>1 DEF Stream, Way, Init
  <2>. QED BY <2>1, <2>2 DEF ApartInv, BoundariesKept, Init
<1>2. ApartInv => SegmentsKeptApart
  BY DEF ApartInv, SegmentsKeptApart
<1>. QED BY <1>1, <1>2, CloudAlways, ApartStep, PTL DEF Spec
-----------------------------------------------------------------------------
(* The order of the audio                                                  *)

\* The session takes input from the way, or leaves it alone.
LEMMA WaySession ==
  ASSUME TypeInv, FlowInv, SessionStep
  PROVE  \/ sent' = sent /\ \E a, d \in Nat : Cut(Way', Way, a, d)
         \/ /\ Way # << >> /\ Way[1].kind = "audio" /\ sent' = Way[1].n
            /\ Cut(Way', Way, 0, 1)
         \/ /\ Way' = << >>
            /\ \E i \in 1..Len(Way) : Way[i].kind = "audio" /\ sent' = Way[i].n
<1>0. /\ TypeOK /\ Way \in Seq(Input)
      /\ heard \in Seq(Input) /\ replay \in Seq(Input)
      /\ pending \in Seq(Input) /\ audio \in Seq(Input)
  BY StreamFacts DEF TypeInv
<1>1. ASSUME Way' = Way, sent' = sent
      PROVE  sent' = sent /\ \E a, d \in Nat : Cut(Way', Way, a, d)
  <2>1. Cut(Way', Way, 0, 0)
    BY <1>0, <1>1, CutFront
  <2>. QED BY <1>1, <2>1
<1>2. CASE Serve
  <2>1. /\ pending = << >> /\ Way # << >> /\ NextInput = Head(Way)
        /\ replay' \in Seq(Input) /\ replay' \o audio' = Tail(Way)
    BY <1>2, NextFacts DEF Serve
  <2>2. Way' = Tail(Way)
    <3>1. pending' = << >>
      BY <1>2, <2>1 DEF Serve, Disconnect
    <3>2. replay' \o << >> = replay'
      BY <2>1
    <3>. QED BY <2>1, <3>1, <3>2 DEF Way
  <2>3. Cut(Way', Way, 0, 1)
    <3>1. << >> \in Seq(Input) /\ Len(<< >>) = 0 /\ << >> \o Way = Way
      BY <1>0
    <3>2. Cut(Tail(Way), << >> \o Way, 0, Len(<< >>) + 1)
      BY <1>0, <2>1, <3>1, CutFront
    <3>3. Len(<< >>) + 1 = 1
      BY <3>1
    <3>. QED BY <2>2, <3>1, <3>2, <3>3
  <2>4. Head(Way) = Way[1]
    BY <1>0, <2>1, TailFacts
  <2>5. sent' = sent \/ (NextInput.kind = "audio" /\ sent' = NextInput.n)
    BY <1>2 DEF Serve
  <2>. QED BY <2>1, <2>3, <2>4, <2>5
<1>3. CASE \/ Provider \/ SendEvent \/ RefuseConnection \/ FinishSession
           \/ StopConnecting
  <2>1. UNCHANGED <<replay, pending, audio, sent>>
    BY <1>3 DEF Provider, Recognize, SendEvent, RefuseConnection, FinishSession,
                StopConnecting, provider, channels, session
  <2>2. Way' = Way
    BY <2>1 DEF Way
  <2>. QED BY <1>1, <2>1, <2>2
<1>4. CASE LoseSocket
  <2>1. /\ UNCHANGED <<replay, audio, sent>> /\ pending' = << >>
        /\ pending = << >>
    BY <1>4 DEF LoseSocket, Disconnect, channels, provider, FlowInv, TaskFlow
  <2>2. Way' = Way
    BY <2>1 DEF Way
  <2>. QED BY <1>1, <2>1, <2>2
<1>5. CASE Connect
  <2>1. /\ UNCHANGED <<audio, sent>>
        /\ replay' = replay \o pending /\ pending' = << >>
    BY <1>5 DEF Connect, Replayed, channels
  <2>2. (replay \o pending) \o << >> = replay \o pending
    BY <1>0
  <2>3. Way' = Way
    BY <2>1, <2>2 DEF Way
  <2>. QED BY <1>1, <2>1, <2>3
<1>6. CASE CloseSession
  <2>. DEFINE queued == replay \o audio
              M == {i \in ToSet(queued) : i.kind = "audio"}
              rest == Keep(queued, M)
  <2>1. /\ replay' = << >> /\ audio' = << >>
        /\ pending' = pending /\ pending = << >>
        /\ sent' = sent \/ (rest # << >> /\ sent' = Last(rest).n)
    BY <1>6 DEF CloseSession, FlowInv, TaskFlow
  <2>2. Way' = << >> /\ Way = queued /\ queued \in Seq(Input)
    <3>1. << >> \o << >> = << >> /\ replay \o << >> = replay
      BY <1>0
    <3>. QED BY <1>0, <2>1, <3>1, ConcatFacts DEF Way
  <2>3. CASE sent' = sent
    <3>1. Len(Way) \in Nat /\ Len(<< >>) = 0
      BY <1>0, SeqFacts
    <3>2. Cut(Way', Way, 0, Len(Way))
      BY <2>2, <3>1 DEF Cut
    <3>. QED BY <2>3, <3>1, <3>2
  <2>4. CASE rest # << >> /\ sent' = Last(rest).n
    <3>. HIDE DEF queued
    <3>1. rest \in Seq(Input) /\ ToSet(rest) = ToSet(queued) \cap M
      BY <2>2, KeepProperties
    <3>. HIDE DEF rest
    <3>2. Len(rest) \in 1..Len(rest) /\ rest[Len(rest)] \in ToSet(rest)
      <4>1. Len(rest) \in Nat \ {0} /\ DOMAIN rest = 1..Len(rest)
        BY <2>4, <3>1
      <4>. QED BY <4>1 DEF ToSet
    <3>3. rest[Len(rest)] \in ToSet(queued) /\ rest[Len(rest)].kind = "audio"
      BY <3>1, <3>2
    <3>4. PICK i \in 1..Len(queued) : queued[i] = rest[Len(rest)]
      BY <2>2, <3>3, SeqFacts DEF ToSet
    <3>. QED BY <2>2, <2>4, <3>3, <3>4 DEF Last
  <2>. QED BY <2>1, <2>3, <2>4
<1>7. CASE Buffer
  <2>1. /\ task = "connecting" /\ task' = task /\ sent' = sent
    BY <1>7 DEF Buffer, provider
  <2>2. Way = Stream /\ Way' = Stream'
    <3>1. Way' = replay' \o pending' \o audio'
      BY DEF Way
    <3>2. Way' \in Seq(Input)
      <4>1. /\ audio # << >> /\ audio' = Tail(audio) /\ replay' = replay
            /\ pending' = Push(pending, Head(audio))
        BY <1>7 DEF Buffer
      <4>2. /\ Head(audio) \in Input /\ Tail(audio) \in Seq(Input)
            /\ Chunks(pending) <= BufferLimit
        BY <1>0, <4>1, TailFacts DEF TypeOK
      <4>3. pending' \in Seq(Input)
        BY <1>0, <4>1, <4>2, PushFacts
      <4>4. replay \o pending' \in Seq(Input)
        BY <1>0, <4>3, ConcatFacts
      <4>. QED BY <3>1, <4>1, <4>2, <4>4, ConcatFacts
    <3>3. << >> \o Way' = Way'
      BY <3>2
    <3>. QED BY <1>0, <2>1, <3>3, StreamFacts DEF Stream
  <2>3. Shortened
    <3>1. ~Serve /\ ~Closed
      BY <2>1 DEF Serve, Closed
    <3>. QED BY <1>7, <3>1, StreamOther DEF SessionStep
  <2>4. \E a, d \in Nat : Cut(Stream', Stream, a, d)
    BY <2>3 DEF Shortened
  <2>. QED BY <2>1, <2>2, <2>4
<1>. QED BY <1>2, <1>3, <1>4, <1>5, <1>6, <1>7 DEF SessionStep

\* The session keeps the audio in order.
LEMMA OrderSession ==
  ASSUME TypeInv, FlowInv, OrderInv, TypeInv', SessionStep
  PROVE  OrderInv'
<1>0. /\ UNCHANGED <<effects, pre_roll, read>>
      /\ Way \in Seq(Input) /\ Way' \in Seq(Input) /\ Len(Way) \in Nat
  <2>1. TypeOK /\ TypeOK'
    BY DEF TypeInv
  <2>2. Way \in Seq(Input) /\ Way' \in Seq(Input)
    BY <2>1, StreamTyped, StreamLater DEF StreamOK
  <2>. QED BY <2>2, SeqFacts, SessionFrame DEF loop
<1>1. ASSUME NEW a, NEW d, Cut(Way', Way, a, d), sent' <= read,
             \A i \in 1..Len(Way') : Way'[i].kind = "audio" => sent' < Way'[i].n,
             \A i \in 1..Len(effects) :
               effects[i].kind \in Chunk => sent' < effects[i].n,
             \A i \in 1..Len(pre_roll) : sent' < pre_roll[i]
      PROVE  OrderInv'
  <2>1. PICK f \in [1..Len(Way') -> 1..Len(Way)] :
               /\ \A i \in 1..Len(Way') : Way'[i] = Way[f[i]]
               /\ \A i, j \in 1..Len(Way') : i < j => f[i] < f[j]
    BY <1>0, <1>1, CutMap
  <2>2. \A i \in 1..Len(Way') : f[i] \in 1..Len(Way)
    BY <2>1
  <2>3. \A i \in 1..Len(Way') : Way'[i].kind = "audio" =>
          /\ Way'[i].n <= read
          /\ \A j \in 1..Len(effects) :
               effects[j].kind \in Chunk => Way'[i].n < effects[j].n
          /\ \A j \in 1..Len(pre_roll) : Way'[i].n < pre_roll[j]
    BY SMTT(20), <2>1, <2>2 DEF OrderInv
  <2>4. \A i, j \in 1..Len(Way') :
          Way'[i].kind = "audio" /\ i < j /\ Way'[j].kind = "audio" =>
            Way'[i].n < Way'[j].n
    BY <2>1, <2>2 DEF OrderInv
  <2>5. \A i \in 1..Len(effects) : effects[i].kind \in Chunk =>
          /\ effects[i].n <= read
          /\ \A j \in 1..Len(effects) :
               i < j /\ effects[j].kind \in Chunk => effects[i].n < effects[j].n
    BY DEF OrderInv
  <2>6. \A i \in 1..Len(pre_roll) :
          /\ pre_roll[i] <= read
          /\ \A j \in 1..Len(pre_roll) : i < j => pre_roll[i] < pre_roll[j]
    BY DEF OrderInv
  <2>. QED BY <1>0, <1>1, <2>3, <2>4, <2>5, <2>6 DEF OrderInv
<1>2. CASE sent' = sent /\ \E a, d \in Nat : Cut(Way', Way, a, d)
  <2>1. PICK a \in Nat, d \in Nat : Cut(Way', Way, a, d)
    BY <1>2
  <2>2. PICK f \in [1..Len(Way') -> 1..Len(Way)] :
               \A i \in 1..Len(Way') : Way'[i] = Way[f[i]]
    BY <1>0, <2>1, CutMap
  <2>3. \A i \in 1..Len(Way') : f[i] \in 1..Len(Way)
    BY <2>2
  <2>4. \A i \in 1..Len(Way') : Way'[i].kind = "audio" => sent' < Way'[i].n
    BY <1>2, <2>2, <2>3 DEF OrderInv
  <2>5. /\ sent' <= read
        /\ \A i \in 1..Len(effects) :
             effects[i].kind \in Chunk => sent' < effects[i].n
        /\ \A i \in 1..Len(pre_roll) : sent' < pre_roll[i]
    BY <1>2 DEF OrderInv
  <2>. QED BY <1>1, <2>1, <2>4, <2>5
<1>3. ASSUME NEW k \in 1..Len(Way), Way[k].kind = "audio", sent' = Way[k].n
      PROVE  /\ sent' <= read
             /\ \A j \in 1..Len(Way) :
                  k < j /\ Way[j].kind = "audio" => sent' < Way[j].n
             /\ \A i \in 1..Len(effects) :
                  effects[i].kind \in Chunk => sent' < effects[i].n
             /\ \A i \in 1..Len(pre_roll) : sent' < pre_roll[i]
  BY <1>3 DEF OrderInv
<1>4. CASE Way # << >> /\ Way[1].kind = "audio" /\ sent' = Way[1].n
           /\ Cut(Way', Way, 0, 1)
  <2>1. 1 \in 1..Len(Way)
    BY <1>0, <1>4
  <2>2. PICK f \in [1..Len(Way') -> 1..Len(Way)] :
               \A i \in 1..Len(Way') : Way'[i] = Way[f[i]] /\ f[i] = i + 1
    BY <1>0, <1>4, CutMap
  <2>3. \A i \in 1..Len(Way') : f[i] \in 1..Len(Way) /\ 1 < f[i]
    BY <2>2
  <2>4. \A i \in 1..Len(Way') : Way'[i].kind = "audio" => sent' < Way'[i].n
    BY <1>3, <1>4, <2>1, <2>2, <2>3
  <2>. QED BY <1>1, <1>3, <1>4, <2>1, <2>4
<1>5. ASSUME Way' = << >>,
             NEW k \in 1..Len(Way), Way[k].kind = "audio", sent' = Way[k].n
      PROVE  OrderInv'
  <2>1. Cut(Way', Way, 0, Len(Way)) /\ Len(Way') = 0
    BY <1>0, <1>5 DEF Cut
  <2>2. \A i \in 1..Len(Way') : Way'[i].kind = "audio" => sent' < Way'[i].n
    BY <2>1
  <2>. QED BY <1>1, <1>3, <1>5, <2>1, <2>2
<1>. QED BY <1>2, <1>4, <1>5, WaySession

\* The pipeline adds the next chunk behind the others.
LEMMA OrderPipeline ==
  ASSUME TypeInv, FlowInv, OrderInv, PipelineStep
  PROVE  OrderInv'
<1>0. /\ UNCHANGED sent /\ Way \in Seq(Input) /\ Len(Way) \in Nat
      /\ effects \in Seq(Work) /\ pre_roll \in Seq(1..MaxChunks)
      /\ read \in Nat /\ sent \in Nat /\ EffectsFlow
      /\ Len(pre_roll) \in Nat
  <2>1. TypeOK /\ effects \in Seq(Work) /\ EffectsFlow
    BY DEF TypeInv, FlowInv
  <2>2. Way \in Seq(Input) /\ Len(Way) \in Nat
    BY <2>1, StreamFacts, SeqFacts
  <2>3. pre_roll \in Seq(1..MaxChunks) /\ read \in Nat /\ sent \in Nat
    BY <2>1, Bounds DEF TypeOK
  <2>. QED BY <2>1, <2>2, <2>3, SeqFacts, PipelineFrame DEF provider
<1>1. ASSUME UNCHANGED <<pre_roll, read>>, Way' = Way,
             \A i \in 1..Len(effects') : effects'[i].kind \notin Chunk
      PROVE  OrderInv'
  BY <1>0, <1>1 DEF OrderInv
<1>2. CASE SendAudio
  <2>1. PICK x \in Input : /\ x.kind = "audio" /\ x.n = Head(effects).n
                           /\ Way' = Append(Way, x)
    BY <1>2, StreamPipeline DEF SendAudio, SendCommit
  <2>2. /\ effects # << >> /\ Head(effects).kind \in Chunk /\ run = "busy"
        /\ UNCHANGED <<pre_roll, read>>
    BY <1>0, <1>2 DEF SendAudio, EffectsFlow, Chunk
  <2>3. /\ Len(effects) \in Nat \ {0} /\ 1 \in 1..Len(effects)
        /\ Head(effects) = effects[1]
        /\ Tail(effects) \in Seq(Work) /\ Len(Tail(effects)) = Len(effects) - 1
        /\ \A i \in 1..Len(effects)-1 : Tail(effects)[i] = effects[i+1]
    BY <2>2, EffectsTail
  <2>4. streaming /\ pre_roll = << >>
    BY <1>0, <2>2, <2>3 DEF EffectsFlow
  <2>. DEFINE c == [kind |-> "commit", n |-> 0]
  <2>5. c \in Work /\ c.kind \notin Chunk
    BY DEF Work, Chunk
  <2>6. effects' = Tail(effects) \/ effects' = Append(Tail(effects), c)
    BY <1>2 DEF SendAudio, Execute
  <2>. HIDE DEF c
  <2>7. \A i \in 1..Len(effects') : effects'[i].kind \in Chunk =>
          i+1 \in 1..Len(effects) /\ 1 < i+1 /\ effects'[i] = effects[i+1]
    <3>1. CASE effects' = Tail(effects)
      BY <2>3, <3>1
    <3>2. CASE effects' = Append(Tail(effects), c)
      <4>. DEFINE t == Tail(effects)
      <4>1. t \in Seq(Work) /\ Len(t) = Len(effects) - 1
            /\ \A i \in 1..Len(t) : t[i] = effects[i+1]
        BY <2>3
      <4>. HIDE DEF t
      <4>2. /\ Len(effects') = Len(t) + 1
            /\ \A i \in 1..Len(t)+1 : effects'[i] = IF i <= Len(t) THEN t[i] ELSE c
        BY ZenonT(30), <2>5, <3>2, <4>1, AppendFacts DEF t
      <4>3. \A i \in 1..Len(effects') : effects'[i].kind \in Chunk => i \in 1..Len(t)
        BY <2>3, <2>5, <4>1, <4>2
      <4>4. \A i \in 1..Len(t) : i+1 \in 1..Len(effects) /\ 1 < i+1 /\ i <= Len(t)
                                 /\ i \in 1..Len(t)+1
        BY <2>3, <4>1
      <4>. QED BY <4>1, <4>2, <4>3, <4>4
    <3>. QED BY <2>6, <3>1, <3>2
  <2>8. /\ sent < x.n /\ x.n <= read
        /\ \A j \in 1..Len(effects) :
             1 < j /\ effects[j].kind \in Chunk => x.n < effects[j].n
        /\ \A i \in 1..Len(Way) : Way[i].kind = "audio" => Way[i].n < x.n
    BY <2>1, <2>2, <2>3 DEF OrderInv
  <2>9. /\ Len(Way') = Len(Way) + 1
        /\ \A i \in 1..Len(Way) : Way'[i] = Way[i]
        /\ Way'[Len(Way)+1] = x
        /\ \A i \in 1..Len(Way') : i \in 1..Len(Way) \/ i = Len(Way) + 1
    BY <1>0, <2>1, AppendFacts
  <2>10. \A i \in 1..Len(Way') : Way'[i].kind = "audio" =>
           /\ sent < Way'[i].n /\ Way'[i].n <= read
           /\ \A j \in 1..Len(effects') :
                effects'[j].kind \in Chunk => Way'[i].n < effects'[j].n
    <3>. SUFFICES ASSUME NEW i \in 1..Len(Way'), Way'[i].kind = "audio"
                  PROVE  /\ sent < Way'[i].n /\ Way'[i].n <= read
                         /\ \A j \in 1..Len(effects') : effects'[j].kind \in Chunk
                              => Way'[i].n < effects'[j].n
      OBVIOUS
    <3>1. CASE i \in 1..Len(Way)
      BY <2>7, <2>9, <3>1 DEF OrderInv
    <3>2. CASE i = Len(Way) + 1
      BY <2>7, <2>8, <2>9, <3>2
    <3>. QED BY <2>9, <3>1, <3>2
  <2>11. \A i, j \in 1..Len(Way') :
           Way'[i].kind = "audio" /\ i < j /\ Way'[j].kind = "audio" =>
             Way'[i].n < Way'[j].n
    <3>. SUFFICES ASSUME NEW i \in 1..Len(Way'), NEW j \in 1..Len(Way'),
                         Way'[i].kind = "audio", i < j, Way'[j].kind = "audio"
                  PROVE  Way'[i].n < Way'[j].n
      OBVIOUS
    <3>1. i \in 1..Len(Way)
      BY <1>0, <2>9
    <3>2. CASE j \in 1..Len(Way)
      BY <2>9, <3>1, <3>2 DEF OrderInv
    <3>3. CASE j = Len(Way) + 1
      BY <2>8, <2>9, <3>1, <3>3
    <3>. QED BY <2>9, <3>2, <3>3
  <2>12. \A i \in 1..Len(effects') : effects'[i].kind \in Chunk =>
           /\ sent < effects'[i].n /\ effects'[i].n <= read
           /\ \A j \in 1..Len(effects') : i < j /\ effects'[j].kind \in Chunk
                => effects'[i].n < effects'[j].n
    <3>1. \A i, j \in 1..Len(effects') : i < j => i+1 < j+1
      OBVIOUS
    <3>. QED BY <2>7, <3>1 DEF OrderInv
  <2>13. sent <= read /\ Len(pre_roll) = 0
    BY <2>4 DEF OrderInv
  <2>. QED BY <1>0, <2>2, <2>10, <2>11, <2>12, <2>13 DEF OrderInv
<1>3. CASE SendCommit
  <2>1. /\ Commit \in Input /\ Commit.kind = "commit"
        /\ Way' = Append(Way, Commit)
    BY <1>3, StreamPipeline DEF SendAudio, SendCommit
  <2>2. UNCHANGED <<effects, pre_roll, read>>
    BY <1>3 DEF SendCommit
  <2>3. /\ Len(Way') = Len(Way) + 1
        /\ \A i \in 1..Len(Way) : Way'[i] = Way[i]
        /\ Way'[Len(Way)+1] = Commit
        /\ \A i \in 1..Len(Way') : i \in 1..Len(Way) \/ i = Len(Way) + 1
    BY <1>0, <2>1, AppendFacts
  <2>4. \A i \in 1..Len(Way') : Way'[i].kind = "audio" =>
          i \in 1..Len(Way) /\ Way'[i] = Way[i]
    BY <2>1, <2>3
  <2>. QED BY <1>0, <2>2, <2>4 DEF OrderInv
<1>4. CASE ReadAudio
  <2>1. /\ Way' = Way /\ read' = read + 1 /\ read' \in 1..MaxChunks
        /\ effects = << >>
    <3>1. Way' = Way
      BY <1>4, StreamPipeline DEF ReadAudio, SendAudio, SendCommit
    <3>2. read' = read + 1 /\ read < MaxChunks
      BY <1>4 DEF ReadAudio
    <3>3. read' \in 1..MaxChunks
      BY <1>0, <3>2, Bounds
    <3>. QED BY <1>4, <3>1, <3>2, <3>3, Idle DEF ReadAudio
  <2>2. \A i \in 1..Len(Way) : Way[i].n \in Nat
    BY <1>0, SeqFacts, InputFields
  <2>3. \A i \in 1..Len(pre_roll) : pre_roll[i] \in Nat
    <3>1. \A i \in 1..Len(pre_roll) : pre_roll[i] \in 1..MaxChunks
      BY <1>0, SeqFacts
    <3>. QED BY <3>1, Bounds
  <2>4. /\ \A i \in 1..Len(Way) : Way[i].kind = "audio" =>
             Way[i].n < read' /\ Way[i].n <= read'
        /\ \A i \in 1..Len(pre_roll) : pre_roll[i] < read' /\ pre_roll[i] <= read'
        /\ sent < read' /\ sent <= read'
    <3>1. /\ \A i \in 1..Len(Way) : Way[i].kind = "audio" => Way[i].n <= read
          /\ \A i \in 1..Len(pre_roll) : pre_roll[i] <= read
          /\ sent <= read
      BY DEF OrderInv
    <3>2. \A n \in Nat : n <= read => n < read' /\ n <= read'
      BY <1>0, <2>1
    <3>. QED BY <1>0, <2>2, <2>3, <3>1, <3>2
  <2>. DEFINE kept == Append(pre_roll, read')
  <2>5. /\ kept \in Seq(1..MaxChunks) /\ Len(kept) = Len(pre_roll) + 1
        /\ \A i \in 1..Len(pre_roll) : kept[i] = pre_roll[i]
        /\ kept[Len(pre_roll)+1] = read'
        /\ \A i \in 1..Len(kept) : i \in 1..Len(pre_roll) \/ i = Len(pre_roll) + 1
    BY <1>0, <2>1, AppendFacts
  <2>. HIDE DEF kept
  <2>6. \A i \in 1..Len(kept) :
          /\ sent < kept[i] /\ kept[i] <= read'
          /\ \A j \in 1..Len(Way) : Way[j].kind = "audio" => Way[j].n < kept[i]
    <3>. TAKE i \in 1..Len(kept)
    <3>1. CASE i \in 1..Len(pre_roll)
      BY <2>4, <2>5, <3>1 DEF OrderInv
    <3>2. CASE i = Len(pre_roll) + 1
      <4>1. read' <= read'
        BY <1>0, <2>1
      <4>. QED BY <2>4, <2>5, <3>2, <4>1
    <3>. QED BY <2>5, <3>1, <3>2
  <2>7. \A i, j \in 1..Len(kept) : i < j => kept[i] < kept[j]
    <3>. SUFFICES ASSUME NEW i \in 1..Len(kept), NEW j \in 1..Len(kept), i < j
                  PROVE  kept[i] < kept[j]
      OBVIOUS
    <3>1. i \in 1..Len(pre_roll)
      BY <1>0, <2>5
    <3>2. CASE j \in 1..Len(pre_roll)
      BY <2>5, <3>1, <3>2 DEF OrderInv
    <3>3. CASE j = Len(pre_roll) + 1
      BY <2>4, <2>5, <3>1, <3>3
    <3>. QED BY <2>5, <3>2, <3>3
  <2>8. CASE /\ pre_roll' = IF Len(kept) > PreRoll THEN Tail(kept) ELSE kept
             /\ UNCHANGED effects
    <3>1. \E d \in {0, 1} : Len(pre_roll') = Len(kept) - d
            /\ \A i \in 1..Len(pre_roll') : i+d \in 1..Len(kept)
                                            /\ pre_roll'[i] = kept[i+d]
      <4>1. kept # << >>
        BY <1>0, <2>5
      <4>2. /\ Len(kept) \in Nat \ {0} /\ Len(Tail(kept)) = Len(kept) - 1
            /\ \A i \in 1..Len(kept)-1 : Tail(kept)[i] = kept[i+1]
        BY <2>5, <4>1, TailFacts
      <4>3. CASE pre_roll' = Tail(kept)
        <5>1. \A i \in 1..Len(pre_roll') : i+1 \in 1..Len(kept)
                                           /\ pre_roll'[i] = kept[i+1]
          BY <4>2, <4>3
        <5>. QED BY <4>2, <4>3, <5>1
      <4>4. CASE pre_roll' = kept
        <5>1. \A i \in 1..Len(pre_roll') : i+0 \in 1..Len(kept)
                                           /\ pre_roll'[i] = kept[i+0]
          BY <4>2, <4>4
        <5>2. Len(pre_roll') = Len(kept) - 0
          BY <4>2, <4>4
        <5>. QED BY <5>1, <5>2
      <4>. QED BY <2>8, <4>3, <4>4
    <3>2. PICK d \in {0, 1} :
            \A i \in 1..Len(pre_roll') : i+d \in 1..Len(kept)
                                         /\ pre_roll'[i] = kept[i+d]
      BY <3>1
    <3>3. \A i \in 1..Len(pre_roll') :
            /\ sent < pre_roll'[i] /\ pre_roll'[i] <= read'
            /\ \A j \in 1..Len(Way) :
                 Way[j].kind = "audio" => Way[j].n < pre_roll'[i]
      BY <2>6, <3>2
    <3>4. \A i, j \in 1..Len(pre_roll') : i < j => pre_roll'[i] < pre_roll'[j]
      <4>1. \A i, j \in 1..Len(pre_roll') : i < j => i+d < j+d
        OBVIOUS
      <4>. QED BY <2>7, <3>2, <4>1
    <3>5. Len(effects') = 0
      BY <2>1, <2>8
    <3>6. \A i, j \in 1..Len(Way) :
            Way[i].kind = "audio" /\ i < j /\ Way[j].kind = "audio" =>
              Way[i].n < Way[j].n
      BY DEF OrderInv
    <3>7. \A i \in 1..Len(Way) : Way[i].kind = "audio" => sent < Way[i].n
      BY DEF OrderInv
    <3>. QED BY <1>0, <2>1, <2>4, <3>3, <3>4, <3>5, <3>6, <3>7 DEF OrderInv
  <2>9. CASE /\ pre_roll' = << >>
             /\ effects' = [i \in 1..Len(pre_roll) + 1 |->
                         IF i <= Len(pre_roll)
                         THEN [kind |-> "flush", n |-> pre_roll[i]]
                         ELSE [kind |-> "process", n |-> read']]
    <3>1. /\ Len(effects') = Len(pre_roll) + 1
          /\ \A i \in 1..Len(effects') :
               effects'[i].n = IF i <= Len(pre_roll) THEN pre_roll[i] ELSE read'
      BY <1>0, <2>1, <2>9, TriggerFacts
    <3>2. Len(effects') = Len(kept)
          /\ \A i \in 1..Len(effects') : effects'[i].n = kept[i]
      BY <1>0, <2>5, <3>1
    <3>3. Len(pre_roll') = 0
      BY <2>9
    <3>4. /\ \A i, j \in 1..Len(Way) :
               Way[i].kind = "audio" /\ i < j /\ Way[j].kind = "audio" =>
                 Way[i].n < Way[j].n
          /\ \A i \in 1..Len(Way) : Way[i].kind = "audio" => sent < Way[i].n
      BY DEF OrderInv
    <3>5. \A i \in 1..Len(effects') :
            /\ sent < effects'[i].n /\ effects'[i].n <= read'
            /\ \A j \in 1..Len(Way) :
                 Way[j].kind = "audio" => Way[j].n < effects'[i].n
      BY <2>6, <3>2
    <3>6. \A i, j \in 1..Len(effects') : i < j => effects'[i].n < effects'[j].n
      BY <2>7, <3>2
    <3>. QED BY <1>0, <2>1, <2>4, <3>3, <3>4, <3>5, <3>6 DEF OrderInv
  <2>. QED BY <1>4, <2>8, <2>9 DEF ReadAudio, kept
<1>5. CASE ~SendAudio /\ ~SendCommit /\ ~ReadAudio
  <2>1. Way' = Way
    BY <1>5, StreamPipeline
  <2>2. UNCHANGED <<pre_roll, read>>
    BY <1>5 DEF PipelineStep, Pipeline, LoopTop, SeeStop, ReceiveEvent,
                TakeReply, Publish, FailStorage, Collect, Drained, Flush, Finish
  <2>3. \A i \in 1..Len(effects') : effects'[i].kind \notin Chunk
    <3>1. EffectsFlow'
      BY EffectsStep DEF PipelineStep
    <3>2. ASSUME NEW i \in 1..Len(effects'), effects'[i].kind \in Chunk
          PROVE  FALSE
      <4>1. run' = "busy" /\ streaming' /\ effects' # << >>
        BY <3>1, <3>2 DEF EffectsFlow
      <4>2. streaming' = streaming
        BY <1>5 DEF PipelineStep, Pipeline, LoopTop, SeeStop, ReceiveEvent,
                    TakeReply, Publish, FailStorage, Collect, Drained, Flush,
                    Finish
      <4>3. CASE \/ LoopTop \/ SeeStop \/ Collect \/ Drained \/ Finish
                 \/ FailStorage
        <5>1. effects' = effects \/ effects' = << >>
          BY <4>3 DEF LoopTop, SeeStop, Collect, Drained, Finish, FailStorage
        <5>2. ~FailStorage => effects = << >>
          BY <4>3, Idle DEF LoopTop, SeeStop, Collect, Drained, Finish
        <5>. QED BY <4>1, <5>1, <5>2 DEF FailStorage
      <4>4. CASE ReceiveEvent \/ Flush
        <5>1. \E e \in Said : effects' = << >> \/ effects' = <<e>>
          <6>1. CASE ReceiveEvent
            <7>1. Head(events) \in Said
              BY <6>1, TailFacts DEF ReceiveEvent, TypeInv
            <7>. QED BY <6>1, <7>1, HandleTyped DEF ReceiveEvent, TypeInv
          <6>2. CASE Flush
            <7>1. Head(drained) \in Said
              BY <6>2, TailFacts DEF Flush, TypeInv
            <7>. QED BY <6>2, <7>1, HandleTyped DEF Flush, TypeInv
          <6>. QED BY <4>4, <6>1, <6>2
        <5>2. PICK e \in Said : effects' = <<e>>
          BY <4>1, <5>1
        <5>3. e.kind \notin Chunk /\ effects'[i] = e
          BY <3>2, <5>2, SaidFields DEF Chunk
        <5>. QED BY <3>2, <5>3
      <4>5. CASE Publish
        <5>1. effects # << >> /\ Head(effects).kind \notin Chunk
          BY <4>5 DEF Publish, Chunk
        <5>2. effects' = << >>
          BY <1>0, <4>5, <5>1, OneEffect DEF Publish, Execute
        <5>. QED BY <4>1, <5>2
      <4>6. CASE TakeReply
        <5>1. Committing
          BY <4>6 DEF TakeReply, FlowInv, ReplyFlow
        <5>2. ~streaming
          BY <1>0, <5>1 DEF EffectsFlow, Committing
        <5>. QED BY <4>1, <4>2, <5>2
      <4>. QED BY <1>5, <4>3, <4>4, <4>5, <4>6 DEF PipelineStep, Pipeline
    <3>. QED BY <3>2
  <2>. QED BY <1>1, <2>1, <2>2, <2>3
<1>. QED BY <1>2, <1>3, <1>4, <1>5

\* Every step keeps the audio in order.
LEMMA OrderStep ==
  ASSUME TypeInv, FlowInv, SegmentInv, OrderInv, [Next]_vars
  PROVE  OrderInv'
<1>1. TypeInv'
  BY TypeStep
<1>2. CASE UNCHANGED <<loop, channels, session, provider>>
  <2>1. Way' = Way /\ UNCHANGED <<effects, pre_roll, read, sent>>
    BY <1>2 DEF channels, session, provider, loop, Way
  <2>. QED BY <2>1 DEF OrderInv
<1>. QED BY <1>1, <1>2, Kinds, OrderSession, OrderPipeline

\* The inductive invariant says what AudioInOrder says of the whole.
LEMMA OrderMeans ==
  ASSUME TypeInv, FlowInv, OrderInv
  PROVE  AudioInOrder
<1>. DEFINE S == Input \cup Work
            way == Way \o effects
            M == {x \in ToSet(way) : x.kind \in {"audio", "flush", "process"}}
            chunks == Keep(way, M)
            c == [i \in DOMAIN chunks |-> chunks[i].n]
            up == <<sent>> \o (c \o pre_roll)
<1>0. /\ Way \in Seq(Input) /\ effects \in Seq(Work)
      /\ pre_roll \in Seq(Nat) /\ sent \in Nat
      /\ Len(Way) \in Nat /\ Len(effects) \in Nat /\ Len(pre_roll) \in Nat
  <2>1. TypeOK /\ effects \in Seq(Work)
    BY DEF TypeInv
  <2>2. pre_roll \in Seq(1..MaxChunks) /\ sent \in Nat
    BY <2>1, Bounds DEF TypeOK
  <2>3. \A i \in 1..Len(pre_roll) : pre_roll[i] \in Nat
    <3>1. \A i \in 1..Len(pre_roll) : pre_roll[i] \in 1..MaxChunks
      BY <2>2, SeqFacts
    <3>. QED BY <3>1, Bounds
  <2>4. pre_roll \in Seq(Nat)
    BY <2>2, <2>3
  <2>. QED BY <2>1, <2>2, <2>4, StreamTyped, SeqFacts DEF StreamOK
<1>1. /\ way \in Seq(S) /\ Len(way) = Len(Way) + Len(effects)
      /\ \A j \in 1..Len(Way)+Len(effects) :
           way[j] = IF j <= Len(Way) THEN Way[j] ELSE effects[j-Len(Way)]
  <2>1. Way \in Seq(S) /\ effects \in Seq(S)
    BY <1>0
  <2>. HIDE DEF S
  <2>. QED BY <2>1, ConcatFacts
<1>. HIDE DEF way
<1>2. \A j \in 1..Len(way) : way[j].kind \in {"audio", "flush", "process"} =>
        \/ /\ j \in 1..Len(Way) /\ way[j] = Way[j] /\ Way[j].kind = "audio"
        \/ /\ ~(j <= Len(Way)) /\ j-Len(Way) \in 1..Len(effects)
           /\ way[j] = effects[j-Len(Way)] /\ effects[j-Len(Way)].kind \in Chunk
  <2>. SUFFICES ASSUME NEW j \in 1..Len(way),
                       way[j].kind \in {"audio", "flush", "process"}
                PROVE  \/ /\ j \in 1..Len(Way) /\ way[j] = Way[j]
                          /\ Way[j].kind = "audio"
                       \/ /\ ~(j <= Len(Way)) /\ j-Len(Way) \in 1..Len(effects)
                          /\ way[j] = effects[j-Len(Way)]
                          /\ effects[j-Len(Way)].kind \in Chunk
    OBVIOUS
  <2>1. CASE j <= Len(Way)
    <3>1. j \in 1..Len(Way) /\ way[j] = Way[j] /\ Way[j] \in Input
      BY <1>0, <1>1, <2>1, SeqFacts
    <3>2. Way[j].kind \in {"audio", "commit"}
      BY <3>1, InputFields
    <3>. QED BY <3>1, <3>2
  <2>2. CASE ~(j <= Len(Way))
    <3>1. j-Len(Way) \in 1..Len(effects)
      BY <1>0, <1>1, <2>2
    <3>2. way[j] = effects[j-Len(Way)] /\ effects[j-Len(Way)] \in Work
      BY <1>0, <1>1, <2>2, <3>1, SeqFacts
    <3>3. \/ effects[j-Len(Way)].kind \in Chunk
          \/ effects[j-Len(Way)].kind
               \in {"commit", "partial", "final", "failed"}
      BY <3>2, WorkFields, SaidFields
    <3>. QED BY <2>2, <3>1, <3>2, <3>3
  <2>. QED BY <2>1, <2>2
<1>3. \A i \in 1..Len(way) : way[i].kind \in {"audio", "flush", "process"} =>
        /\ sent < way[i].n
        /\ \A j \in 1..Len(pre_roll) : way[i].n < pre_roll[j]
  <2>. SUFFICES ASSUME NEW i \in 1..Len(way),
                       way[i].kind \in {"audio", "flush", "process"}
                PROVE  /\ sent < way[i].n
                       /\ \A j \in 1..Len(pre_roll) : way[i].n < pre_roll[j]
    OBVIOUS
  <2>1. CASE i \in 1..Len(Way) /\ way[i] = Way[i] /\ Way[i].kind = "audio"
    BY <2>1 DEF OrderInv
  <2>2. ASSUME NEW k \in 1..Len(effects), way[i] = effects[k],
               effects[k].kind \in Chunk
        PROVE  /\ sent < way[i].n
               /\ \A j \in 1..Len(pre_roll) : way[i].n < pre_roll[j]
    <3>1. sent < way[i].n
      BY <2>2 DEF OrderInv
    <3>2. pre_roll = << >>
      BY <2>2 DEF FlowInv, EffectsFlow
    <3>. QED BY <3>1, <3>2
  <2>. QED BY <1>2, <2>1, <2>2
<1>4. \A i, j \in 1..Len(way) :
        /\ way[i].kind \in {"audio", "flush", "process"}
        /\ way[j].kind \in {"audio", "flush", "process"}
        /\ i < j
        => way[i].n < way[j].n
  <2>. SUFFICES ASSUME NEW i \in 1..Len(way), NEW j \in 1..Len(way), i < j,
                       way[i].kind \in {"audio", "flush", "process"},
                       way[j].kind \in {"audio", "flush", "process"}
                PROVE  way[i].n < way[j].n
    OBVIOUS
  <2>1. CASE i \in 1..Len(Way) /\ way[i] = Way[i] /\ Way[i].kind = "audio"
    <3>1. CASE j \in 1..Len(Way) /\ way[j] = Way[j] /\ Way[j].kind = "audio"
      BY <2>1, <3>1 DEF OrderInv
    <3>2. CASE /\ j-Len(Way) \in 1..Len(effects)
               /\ way[j] = effects[j-Len(Way)]
               /\ effects[j-Len(Way)].kind \in Chunk
      BY <2>1, <3>2 DEF OrderInv
    <3>. QED BY <1>2, <3>1, <3>2
  <2>2. CASE /\ ~(i <= Len(Way)) /\ i-Len(Way) \in 1..Len(effects)
             /\ way[i] = effects[i-Len(Way)]
             /\ effects[i-Len(Way)].kind \in Chunk
    <3>1. ~(j \in 1..Len(Way)) /\ i-Len(Way) < j-Len(Way)
      BY <1>0, <1>1, <2>2
    <3>2. /\ j-Len(Way) \in 1..Len(effects) /\ way[j] = effects[j-Len(Way)]
          /\ effects[j-Len(Way)].kind \in Chunk
      BY <1>2, <3>1
    <3>. QED BY <2>2, <3>1, <3>2 DEF OrderInv
  <2>. QED BY <1>2, <2>1, <2>2
<1>5. PICK g \in [1..Len(chunks) -> 1..Len(way)] :
        /\ \A i, j \in 1..Len(chunks) : i < j => g[i] < g[j]
        /\ \A i \in 1..Len(chunks) : chunks[i] = way[g[i]] /\ chunks[i] \in M
  <2>. HIDE DEF S, M
  <2>1. \E g : Embeds(g, chunks, way, Len(way), M)
    BY <1>1, KeepProperties
  <2>. HIDE DEF chunks
  <2>. QED BY <2>1 DEF Embeds
<1>6. chunks \in Seq(S)
  <2>. HIDE DEF S, M
  <2>. QED BY <1>1, KeepProperties
<1>7. \A i \in 1..Len(chunks) :
        /\ g[i] \in 1..Len(way) /\ chunks[i] = way[g[i]]
        /\ way[g[i]].kind \in {"audio", "flush", "process"}
  BY <1>5
<1>. HIDE DEF M, chunks, S
<1>8. /\ Len(chunks) \in Nat /\ DOMAIN chunks = 1..Len(chunks)
  BY <1>6, SeqFacts
<1>9. \A i \in 1..Len(chunks) :
        /\ chunks[i].n \in Nat /\ sent < chunks[i].n
        /\ \A j \in 1..Len(pre_roll) : chunks[i].n < pre_roll[j]
        /\ \A j \in 1..Len(chunks) : i < j => chunks[i].n < chunks[j].n
  <2>1. \A i \in 1..Len(way) : way[i].kind \in {"audio", "flush", "process"} =>
          way[i].n \in Nat
    <3>. SUFFICES ASSUME NEW i \in 1..Len(way),
                         way[i].kind \in {"audio", "flush", "process"}
                  PROVE  way[i].n \in Nat
      OBVIOUS
    <3>1. CASE i \in 1..Len(Way) /\ way[i] = Way[i]
      <4>1. Way[i] \in Input
        BY <1>0, <3>1, SeqFacts
      <4>. QED BY <3>1, <4>1, InputFields
    <3>2. ASSUME NEW k \in 1..Len(effects), way[i] = effects[k],
                 effects[k].kind \in Chunk
          PROVE  way[i].n \in Nat
      <4>1. effects[k] \in Work
        BY <1>0, SeqFacts
      <4>. QED BY <3>2, <4>1, WorkFields
    <3>. QED BY <1>2, <3>1, <3>2
  <2>. QED BY <1>3, <1>4, <1>5, <1>7, <2>1
<1>10. /\ c \in Seq(Nat) /\ Len(c) = Len(chunks)
       /\ \A i \in 1..Len(chunks) : c[i] = chunks[i].n
  BY <1>8, <1>9
<1>. HIDE DEF c
<1>11. /\ c \o pre_roll \in Seq(Nat)
       /\ Len(c \o pre_roll) = Len(c) + Len(pre_roll)
       /\ \A j \in 1..Len(c)+Len(pre_roll) :
            (c \o pre_roll)[j] = IF j <= Len(c) THEN c[j]
                                                ELSE pre_roll[j-Len(c)]
  BY <1>0, <1>10, ConcatFacts
<1>. DEFINE d == c \o pre_roll
<1>12. \A i \in 1..Len(d) : sent < d[i] /\ \A j \in 1..Len(d) : i < j => d[i] < d[j]
  <2>. HIDE DEF d
  <2>. SUFFICES ASSUME NEW i \in 1..Len(d)
                PROVE  sent < d[i] /\ \A j \in 1..Len(d) : i < j => d[i] < d[j]
    OBVIOUS
  <2>0. /\ Len(c) \in Nat /\ Len(d) = Len(c) + Len(pre_roll)
        /\ \A j \in 1..Len(d) : d[j] = IF j <= Len(c) THEN c[j]
                                                      ELSE pre_roll[j-Len(c)]
    BY <1>10, <1>11, SeqFacts DEF d
  <2>1. \A j \in 1..Len(d) :
          \/ j \in 1..Len(chunks) /\ d[j] = chunks[j].n
          \/ /\ ~(j <= Len(c)) /\ j-Len(c) \in 1..Len(pre_roll)
             /\ d[j] = pre_roll[j-Len(c)]
    <3>. TAKE j \in 1..Len(d)
    <3>1. CASE j <= Len(c)
      BY <1>10, <2>0, <3>1
    <3>2. CASE ~(j <= Len(c))
      <4>1. j-Len(c) \in 1..Len(pre_roll)
        BY <1>0, <2>0, <3>2
      <4>. QED BY <2>0, <3>2, <4>1
    <3>. QED BY <3>1, <3>2
  <2>2. CASE i \in 1..Len(chunks) /\ d[i] = chunks[i].n
    BY <1>9, <2>1, <2>2
  <2>3. CASE /\ ~(i <= Len(c)) /\ i-Len(c) \in 1..Len(pre_roll)
             /\ d[i] = pre_roll[i-Len(c)]
    <3>1. sent < d[i]
      BY <2>3 DEF OrderInv
    <3>2. ASSUME NEW j \in 1..Len(d), i < j PROVE d[i] < d[j]
      <4>1. ~(j \in 1..Len(chunks)) /\ i-Len(c) < j-Len(c)
        BY <1>8, <1>10, <2>0, <2>3, <3>2
      <4>2. j-Len(c) \in 1..Len(pre_roll) /\ d[j] = pre_roll[j-Len(c)]
        BY <2>1, <4>1
      <4>. QED BY <2>3, <4>1, <4>2 DEF OrderInv
    <3>. QED BY <3>1, <3>2
  <2>. QED BY <2>1, <2>2, <2>3
<1>13. /\ Len(up) = 1 + Len(d) /\ Len(d) \in Nat
       /\ \A j \in 1..1+Len(d) : up[j] = IF j <= 1 THEN sent ELSE d[j-1]
  <2>1. d \in Seq(Nat) /\ Len(d) \in Nat
    BY <1>11, SeqFacts
  <2>. HIDE DEF d
  <2>2. <<sent>> \in Seq(Nat) /\ Len(<<sent>>) = 1 /\ <<sent>>[1] = sent
    BY <1>0
  <2>3. /\ Len(<<sent>> \o d) = Len(<<sent>>) + Len(d)
        /\ \A j \in 1..Len(<<sent>>)+Len(d) :
             (<<sent>> \o d)[j] = IF j <= Len(<<sent>>) THEN <<sent>>[j]
                                                        ELSE d[j-Len(<<sent>>)]
    BY <2>1, <2>2, ConcatFacts
  <2>. QED BY <2>1, <2>2, <2>3 DEF d
<1>. HIDE DEF d, up
<1>14. \A i \in 1..Len(up)-1 : up[i] < up[i+1]
  <2>. TAKE i \in 1..Len(up)-1
  <2>1. i \in 1..Len(d) /\ i+1 \in 1..1+Len(d) /\ ~(i+1 <= 1) /\ (i+1)-1 = i
    BY <1>13
  <2>2. up[i+1] = d[i]
    BY <1>13, <2>1
  <2>3. CASE i = 1
    <3>1. up[1] = sent
      BY <1>13
    <3>. QED BY <1>12, <2>1, <2>2, <2>3, <3>1
  <2>4. CASE i # 1
    <3>1. i-1 \in 1..Len(d) /\ i-1 < i /\ i \in 1..1+Len(d) /\ ~(i <= 1)
      BY <1>13, <2>1, <2>4
    <3>2. up[i] = d[i-1]
      BY <1>13, <3>1
    <3>. QED BY <1>12, <2>1, <2>2, <3>1, <3>2
  <2>. QED BY <2>3, <2>4
<1>15. Upcoming = d
  BY DEF Upcoming, Way, way, M, chunks, c, d
<1>16. AudioInOrder <=> \A i \in 1..Len(up)-1 : up[i] < up[i+1]
  BY <1>15 DEF AudioInOrder, up, d
<1>. QED BY <1>14, <1>16

(***************************************************************************)
(* The providers hear every chunk once at most and in the order it was     *)
(* captured, whatever was in the channel, the replay and the reconnect     *)
(* buffer.                                                                 *)
(***************************************************************************)
THEOREM AudioStaysInOrder == Spec => []AudioInOrder
<1>1. Init => OrderInv
  <2>. SUFFICES ASSUME Init PROVE OrderInv
    OBVIOUS
  <2>1. << >> \o << >> = << >> /\ Len(<< >>) = 0 /\ 0 <= 0
    OBVIOUS
  <2>2. Way = << >>
    BY <2>1 DEF Way, Init
  <2>. QED BY <2>1, <2>2 DEF OrderInv, Init
<1>2. TypeInv /\ FlowInv /\ OrderInv => AudioInOrder
  BY OrderMeans
<1>. QED BY <1>1, <1>2, CloudAlways, OrderStep, PTL DEF Spec
-----------------------------------------------------------------------------
(* Recognition results and the display                                     *)

Outcome == {"partial", "final", "failed"}

\* q holds chunks and commits only.
Mute(q) == \A i \in 1..Len(q) : q[i].kind \in {"flush", "process", "commit"}

\* Where no event is, none ends an utterance; and where one is.
LEMMA EndsFacts ==
  /\ \A q, kinds, u : Mute(q) /\ kinds \subseteq Outcome => ~Ends(q, kinds, u)
  /\ Mute(<< >>) /\ \A kinds, u : ~Ends(<< >>, kinds, u)
  /\ \A e, kinds, u : Ends(<<e>>, kinds, u) <=> e.kind \in kinds /\ e.id = u
<1>1. ASSUME NEW q, NEW kinds, NEW u, Mute(q), kinds \subseteq Outcome
      PROVE  ~Ends(q, kinds, u)
  BY <1>1 DEF Mute, Ends, Outcome
<1>2. Mute(<< >>) /\ \A kinds, u : ~Ends(<< >>, kinds, u)
  <2>1. Len(<< >>) = 0
    OBVIOUS
  <2>. QED BY <2>1 DEF Mute, Ends
<1>3. ASSUME NEW e, NEW kinds, NEW u
      PROVE  Ends(<<e>>, kinds, u) <=> e.kind \in kinds /\ e.id = u
  <2>1. Len(<<e>>) = 1 /\ <<e>>[1] = e /\ 1 \in 1..1 /\ \A i \in 1..1 : i = 1
    OBVIOUS
  <2>. QED BY <2>1 DEF Ends
<1>. QED BY <1>1, <1>2, <1>3

\* The events of a sequence and of its parts.
LEMMA EndsParts ==
  ASSUME NEW q \in Seq(Said), NEW kinds, NEW u
  PROVE  /\ \A e \in Said : Ends(Append(q, e), kinds, u) <=>
                Ends(q, kinds, u) \/ (e.kind \in kinds /\ e.id = u)
         /\ q # << >> => (Ends(q, kinds, u) <=>
                Ends(Tail(q), kinds, u)
                \/ (Head(q).kind \in kinds /\ Head(q).id = u))
<1>0. Len(q) \in Nat
  OBVIOUS
<1>1. ASSUME NEW e \in Said
      PROVE  Ends(Append(q, e), kinds, u) <=>
                Ends(q, kinds, u) \/ (e.kind \in kinds /\ e.id = u)
  <2>. DEFINE r == Append(q, e)
  <2>1. /\ Len(r) = Len(q) + 1
        /\ \A i \in 1..Len(q) : r[i] = q[i] /\ i \in 1..Len(q)+1
        /\ r[Len(q)+1] = e /\ Len(q)+1 \in 1..Len(q)+1
        /\ \A i \in 1..Len(q)+1 : i \in 1..Len(q) \/ i = Len(q)+1
    BY <1>0, AppendFacts
  <2>. HIDE DEF r
  <2>. QED BY <2>1 DEF Ends, r
<1>2. ASSUME q # << >>
      PROVE  Ends(q, kinds, u) <=>
                Ends(Tail(q), kinds, u)
                \/ (Head(q).kind \in kinds /\ Head(q).id = u)
  <2>. DEFINE r == Tail(q)
  <2>1. /\ Len(r) = Len(q) - 1 /\ Head(q) = q[1] /\ 1 \in 1..Len(q)
        /\ \A i \in 1..Len(q)-1 : r[i] = q[i+1] /\ i+1 \in 1..Len(q)
        /\ \A i \in 1..Len(q) : i = 1 \/ (i-1 \in 1..Len(q)-1 /\ (i-1)+1 = i)
    <3>1. /\ Len(r) = Len(q) - 1 /\ Head(q) = q[1] /\ Len(q) \in Nat \ {0}
          /\ \A i \in 1..Len(q)-1 : r[i] = q[i+1]
      BY <1>2, TailFacts
    <3>. QED BY <3>1
  <2>. HIDE DEF r
  <2>2. Ends(r, kinds, u) => Ends(q, kinds, u)
    BY <2>1 DEF Ends
  <2>3. ASSUME Ends(q, kinds, u), ~(q[1].kind \in kinds /\ q[1].id = u)
        PROVE  Ends(r, kinds, u)
    <3>1. PICK i \in 1..Len(q) : q[i].kind \in kinds /\ q[i].id = u
      BY <2>3 DEF Ends
    <3>2. i # 1
      BY <2>3, <3>1
    <3>3. i-1 \in 1..Len(r) /\ r[i-1] = q[i]
      BY <2>1, <3>2
    <3>. QED BY <3>1, <3>3 DEF Ends
  <2>4. q[1].kind \in kinds /\ q[1].id = u => Ends(q, kinds, u)
    BY <2>1 DEF Ends
  <2>. QED BY <2>1, <2>2, <2>3, <2>4 DEF r
<1>. QED BY <1>1, <1>2

\* The pipeline handles what the session has sent.
LEMMA Handling ==
  ASSUME TypeInv, FlowInv, ReceiveEvent \/ Flush
  PROVE  /\ effects = << >> /\ UNCHANGED display
         /\ \E e \in Said, throttled \in BOOLEAN :
              /\ HandleEvent(e, throttled)
              /\ ReceiveEvent => e = Head(events)
              /\ Flush => e = Head(drained)
<1>1. CASE ReceiveEvent
  <2>1. Head(events) \in Said
    BY <1>1, TailFacts DEF ReceiveEvent, TypeInv
  <2>2. effects = << >> /\ UNCHANGED display /\ ~Flush
    BY <1>1, Idle DEF ReceiveEvent, Flush
  <2>3. \E throttled \in BOOLEAN : HandleEvent(Head(events), throttled)
    BY <1>1 DEF ReceiveEvent
  <2>. QED BY <2>1, <2>2, <2>3
<1>2. CASE Flush
  <2>1. Head(drained) \in Said
    BY <1>2, TailFacts DEF Flush, TypeInv
  <2>2. effects = << >> /\ UNCHANGED display /\ ~ReceiveEvent
    BY <1>2 DEF Flush, ReceiveEvent
  <2>3. HandleEvent(Head(drained), FALSE)
    BY <1>2 DEF Flush
  <2>. QED BY <2>1, <2>2, <2>3
<1>. QED BY <1>1, <1>2

\* What handling an event means.
LEMMA HandleKinds ==
  ASSUME NEW e \in Said, NEW throttled, HandleEvent(e, throttled)
  PROVE  \/ /\ effects' = << >> /\ UNCHANGED lifecycle
            /\ e.kind \in {"partial", "final"}
            /\ e.kind = "final" => Terminated(e.id)
         \/ /\ e.kind = "partial" /\ effects' = <<e>>
            /\ active' = active \cup {e.id} /\ UNCHANGED <<terminated, forgotten>>
         \/ /\ e.kind = "final" /\ effects' = <<e>> /\ e.id \in Utterances
            /\ ~Terminated(e.id) /\ Terminate(e.id)
         \/ /\ e.kind = "failed" /\ effects' = <<e>> /\ e.id \in Utterances
            /\ Terminate(e.id)
         \/ /\ e.kind = "failed" /\ effects' = <<e>> /\ e.id = None
            /\ Forget
<1>1. /\ e.kind \in {"partial", "final", "failed"}
      /\ e.kind # "failed" => e.id \in Utterances
      /\ e.id \in Utterances \cup {None}
  BY SaidFields
<1>2. CASE e.kind = "partial"
  BY <1>2 DEF HandleEvent
<1>3. CASE e.kind = "final"
  BY <1>1, <1>3 DEF HandleEvent
<1>4. CASE e.kind = "failed"
  BY <1>1, <1>4 DEF HandleEvent
<1>. QED BY <1>1, <1>2, <1>3, <1>4

\* The reply to a commit reports one failed utterance at most.
LEMMA Replying ==
  ASSUME TypeInv, FlowInv, TakeReply
  PROVE  /\ Mute(effects) /\ UNCHANGED display
         /\ \/ effects' = << >> /\ UNCHANGED lifecycle
            \/ \E f \in Said :
                 /\ f.kind = "failed" /\ effects' = <<f>>
                 /\ \/ f.id = None /\ UNCHANGED lifecycle
                    \/ f.id \in Utterances /\ Terminate(f.id)
<1>1. Committing /\ EffectsFlow
  BY DEF TakeReply, FlowInv, ReplyFlow
<1>2. effects # << >> /\ Head(effects).kind = "commit"
  BY <1>1, NotCommitting DEF Committing, EffectsFlow
<1>3. /\ Tail(effects) = << >>
      /\ \A i \in 1..Len(effects) : effects[i] = Head(effects)
  BY <1>1, <1>2, OneEffect DEF Chunk
<1>4. Mute(effects)
  BY <1>2, <1>3 DEF Mute
<1>. DEFINE f == [kind |-> "failed", id |-> FailureId]
<1>5. /\ f \in Said /\ f.kind = "failed" /\ f.id = FailureId
      /\ FailureId \in Utterances \cup {None}
  <2>1. active \subseteq Utterances
    BY DEF TypeInv, TypeOK
  <2>. QED BY <2>1 DEF Said, Event, FailureId
<1>. HIDE DEF f
<1>6. \/ effects' = << >> /\ UNCHANGED lifecycle
      \/ /\ effects' = <<f>>
         /\ IF FailureId = None THEN UNCHANGED lifecycle ELSE Terminate(FailureId)
  <2>1. Append(<< >>, f) = <<f>>
    OBVIOUS
  <2>. QED BY <1>3, <2>1 DEF TakeReply, Execute, f
<1>7. UNCHANGED display
  BY DEF TakeReply
<1>. QED BY <1>4, <1>5, <1>6, <1>7

\* What is published is the only effect.
LEMMA Publishing ==
  ASSUME TypeInv, FlowInv, Publish \/ FailStorage
  PROVE  /\ effects' = << >> /\ UNCHANGED lifecycle
         /\ Head(effects) \in Said /\ effects = <<Head(effects)>>
<1>1. /\ effects # << >> /\ Head(effects).kind \notin Chunk
      /\ Head(effects).kind \in {"partial", "final", "failed"}
  BY DEF Publish, FailStorage, Chunk
<1>2. /\ Len(effects) = 1 /\ Tail(effects) = << >>
      /\ effects \in Seq(Work) /\ Head(effects) \in Work
  BY <1>1, OneEffect, EffectsTail DEF FlowInv, TypeInv
<1>3. effects = <<Head(effects)>>
  BY <1>2
<1>4. Head(effects) \in Said
  BY <1>1, <1>2, WorkFields
<1>. QED BY <1>2, <1>3, <1>4 DEF Publish, FailStorage, Execute

\* The other steps of the pipeline handle audio, or nothing.
LEMMA Silent ==
  ASSUME TypeInv, FlowInv,
         \/ LoopTop \/ SeeStop \/ ReadAudio \/ SendAudio \/ SendCommit
         \/ Collect \/ Drained
  PROVE  UNCHANGED <<lifecycle, display>> /\ Mute(effects) /\ Mute(effects')
<1>0. UNCHANGED <<lifecycle, display>> /\ EffectsFlow
  BY DEF LoopTop, SeeStop, ReadAudio, SendAudio, SendCommit, Collect, Drained,
         FlowInv
<1>1. CASE LoopTop \/ SeeStop \/ Collect \/ Drained
  <2>1. effects = << >> /\ effects' = << >>
    BY <1>1, Idle DEF LoopTop, SeeStop, Collect, Drained
  <2>. QED BY <1>0, <2>1, EndsFacts
<1>2. CASE ReadAudio
  <2>1. effects = << >>
    BY <1>2, Idle DEF ReadAudio
  <2>2. CASE effects' = effects
    BY <1>0, <2>1, <2>2, EndsFacts
  <2>3. CASE effects' = [i \in 1..Len(pre_roll) + 1 |->
                         IF i <= Len(pre_roll)
                         THEN [kind |-> "flush", n |-> pre_roll[i]]
                         ELSE [kind |-> "process", n |-> read']]
    <3>1. pre_roll \in Seq(1..MaxChunks) /\ read' \in 1..MaxChunks
      <4>1. read \in 0..MaxChunks /\ read < MaxChunks /\ read' = read + 1
        BY <1>2 DEF ReadAudio, TypeInv, TypeOK
      <4>. QED BY <4>1, Bounds DEF TypeInv, TypeOK
    <3>2. Mute(effects')
      BY <2>3, <3>1, TriggerFacts DEF Mute
    <3>. QED BY <1>0, <2>1, <3>2, EndsFacts
  <2>. QED BY <1>2, <2>2, <2>3 DEF ReadAudio
<1>3. CASE SendCommit
  <2>1. effects # << >> /\ Head(effects).kind = "commit" /\ effects' = effects
    BY <1>0, <1>3 DEF SendCommit, EffectsFlow
  <2>2. \A i \in 1..Len(effects) : effects[i] = Head(effects)
    BY <1>0, <2>1, OneEffect DEF Chunk
  <2>. QED BY <1>0, <2>1, <2>2 DEF Mute
<1>4. CASE SendAudio
  <2>1. effects # << >> /\ Head(effects).kind \in Chunk
    BY <1>0, <1>4 DEF SendAudio, EffectsFlow, Chunk
  <2>2. /\ Len(effects) \in Nat \ {0}
        /\ Tail(effects) \in Seq(Work) /\ Len(Tail(effects)) = Len(effects) - 1
        /\ \A i \in 1..Len(effects)-1 : Tail(effects)[i] = effects[i+1]
    BY <2>1, EffectsTail
  <2>3. Mute(effects)
    <3>1. 1 \in 1..Len(effects) /\ Head(effects) = effects[1]
      BY <2>1, EffectsTail
    <3>2. streaming
      BY <1>0, <2>1, <3>1 DEF EffectsFlow
    <3>3. \A i \in 1..Len(effects) : effects[i].kind \in Chunk
      <4>. TAKE i \in 1..Len(effects)
      <4>1. CASE Len(effects) = 1
        BY <2>1, <3>1, <4>1
      <4>2. CASE Len(effects) # 1
        BY <1>0, <4>2 DEF EffectsFlow
      <4>. QED BY <4>1, <4>2
    <3>. QED BY <3>3 DEF Mute, Chunk
  <2>. DEFINE t == Tail(effects)
              c == [kind |-> "commit", n |-> 0]
  <2>4. Mute(t) /\ Len(t) \in Nat /\ t \in Seq(Work)
    <3>1. \A i \in 1..Len(t) : i+1 \in 1..Len(effects) /\ t[i] = effects[i+1]
      BY <2>2
    <3>. QED BY <2>2, <2>3, <3>1 DEF Mute
  <2>5. c.kind = "commit" /\ c \in Work
    BY DEF Work
  <2>6. effects' = t \/ effects' = Append(t, c)
    BY <1>4 DEF SendAudio, Execute
  <2>. HIDE DEF t, c
  <2>7. Mute(Append(t, c))
    BY <2>4, <2>5, AppendFacts DEF Mute
  <2>. QED BY <1>0, <2>3, <2>4, <2>6, <2>7
<1>. QED BY <1>1, <1>2, <1>3, <1>4

\* The kinds of the pipeline's steps.
LEMMA PipelineKinds ==
  ASSUME PipelineStep
  PROVE  \/ LoopTop \/ SeeStop \/ ReadAudio \/ SendAudio \/ SendCommit
         \/ Collect \/ Drained \/ ReceiveEvent \/ Flush \/ TakeReply
         \/ Publish \/ FailStorage \/ Finish
BY DEF PipelineStep, Pipeline

\* Previews are tracked by every step.
LEMMA PreviewStep ==
  ASSUME TypeInv, FlowInv, PreviewInv, [Next]_vars
  PROVE  PreviewInv'
<1>0. shown \subseteq Utterances /\ None \notin Utterances
  <2>1. shown \subseteq Utterances
    BY DEF TypeInv, TypeOK
  <2>2. None \notin Utterances
    BY Bounds DEF Utterances
  <2>. QED BY <2>1, <2>2
<1>1. \A q, u : /\ Mute(q) => /\ ~Ends(q, {"partial"}, u)
                             /\ ~Ends(q, {"final", "failed"}, u)
                             /\ ~Ends(q, {"failed"}, u)
                /\ q = << >> => Mute(q)
  BY EndsFacts DEF Outcome
<1>2. \A e, u : /\ Ends(<<e>>, {"partial"}, u) <=> e.kind = "partial" /\ e.id = u
                /\ Ends(<<e>>, {"final", "failed"}, u) <=>
                     e.kind \in {"final", "failed"} /\ e.id = u
                /\ Ends(<<e>>, {"failed"}, u) <=> e.kind = "failed" /\ e.id = u
  BY EndsFacts
<1>3. Mute(effects) => shown \subseteq active
  BY <1>1 DEF PreviewInv, Ending
<1>4. ASSUME Mute(effects'), shown' \subseteq active'
      PROVE  PreviewInv'
  BY <1>1, <1>4 DEF PreviewInv, Ending
<1>5. ASSUME Mute(effects), NEW e \in Said, effects' = <<e>>, UNCHANGED shown,
             \/ e.kind = "partial" /\ active' = active \cup {e.id}
             \/ e.kind \in {"final", "failed"} /\ active' = active \ {e.id}
             \/ e.kind = "failed" /\ e.id = None
      PROVE  PreviewInv'
  <2>1. \A u \in Utterances : Ends(effects', {"partial"}, u) => u \in active'
    BY <1>2, <1>5
  <2>2. \A u \in shown' : \/ u \in active'
                          \/ Ends(effects', {"final", "failed"}, u)
                          \/ Ends(effects', {"failed"}, None)
    <3>. SUFFICES ASSUME NEW u \in shown
                  PROVE  \/ u \in active'
                         \/ Ends(effects', {"final", "failed"}, u)
                         \/ Ends(effects', {"failed"}, None)
      BY <1>5
    <3>1. u \in active
      BY <1>3, <1>5
    <3>2. CASE e.kind = "partial" /\ active' = active \cup {e.id}
      BY <3>1, <3>2
    <3>3. CASE e.kind \in {"final", "failed"} /\ active' = active \ {e.id}
      <4>1. u = e.id => Ends(effects', {"final", "failed"}, u)
        BY <1>2, <1>5, <3>3
      <4>. QED BY <3>1, <3>3, <4>1
    <3>4. CASE e.kind = "failed" /\ e.id = None
      BY <1>2, <1>5, <3>4
    <3>. QED BY <1>5, <3>2, <3>3, <3>4
  <2>. QED BY <2>1, <2>2 DEF PreviewInv, Ending
<1>6. CASE ReceiveEvent \/ Flush
  <2>1. effects = << >> /\ Mute(effects) /\ UNCHANGED shown
    BY <1>1, <1>6, Handling DEF display
  <2>2. PICK e \in Said, throttled \in BOOLEAN : HandleEvent(e, throttled)
    BY <1>6, Handling
  <2>3. CASE effects' = << >> /\ UNCHANGED lifecycle
    BY <1>1, <1>3, <1>4, <2>1, <2>3 DEF lifecycle
  <2>4. CASE e.kind = "partial" /\ effects' = <<e>>
             /\ active' = active \cup {e.id}
    BY <1>5, <2>1, <2>4
  <2>5. CASE e.kind \in {"final", "failed"} /\ effects' = <<e>> /\ Terminate(e.id)
    <3>1. active' = active \ {e.id}
      BY <2>5 DEF Terminate
    <3>. QED BY <1>5, <2>1, <2>5, <3>1
  <2>6. CASE e.kind = "failed" /\ effects' = <<e>> /\ e.id = None
    BY <1>5, <2>1, <2>6
  <2>. QED BY <2>2, <2>3, <2>4, <2>5, <2>6, HandleKinds
<1>7. CASE TakeReply
  <2>1. Mute(effects) /\ UNCHANGED shown
    BY <1>7, Replying DEF display
  <2>2. CASE effects' = << >> /\ UNCHANGED lifecycle
    BY <1>1, <1>3, <1>4, <2>1, <2>2 DEF lifecycle
  <2>3. ASSUME NEW f \in Said, f.kind = "failed", effects' = <<f>>,
               \/ f.id = None /\ UNCHANGED lifecycle
               \/ f.id \in Utterances /\ Terminate(f.id)
        PROVE  PreviewInv'
    <3>1. Terminate(f.id) => active' = active \ {f.id}
      BY DEF Terminate
    <3>. QED BY <1>5, <2>1, <2>3, <3>1
  <2>. QED BY <1>7, <2>2, <2>3, Replying
<1>8. CASE Publish \/ FailStorage
  <2>. DEFINE e == Head(effects)
  <2>1. /\ effects' = << >> /\ Mute(effects') /\ active' = active
        /\ e \in Said /\ effects = <<e>>
    BY <1>1, <1>8, Publishing DEF lifecycle
  <2>2. \/ e.kind = "partial" /\ shown' = shown \cup {e.id}
        \/ e.kind \in {"final", "failed"} /\ shown' = Hidden(e)
    BY <1>8 DEF Publish, FailStorage
  <2>3. /\ e.kind # "failed" => e.id \in Utterances
        /\ e.kind \in {"partial", "final", "failed"}
    BY <2>1, SaidFields
  <2>. HIDE DEF e
  <2>4. \A u \in shown : \/ u \in active
                         \/ e.kind \in {"final", "failed"} /\ e.id = u
                         \/ e.kind = "failed" /\ e.id = None
    BY <1>2, <2>1 DEF PreviewInv, Ending
  <2>5. e.kind = "partial" => e.id \in active
    BY <1>2, <2>1, <2>3 DEF PreviewInv, Ending
  <2>6. shown' \subseteq active
    <3>1. CASE e.kind = "partial" /\ shown' = shown \cup {e.id}
      BY <2>4, <2>5, <3>1
    <3>2. CASE e.kind \in {"final", "failed"} /\ shown' = Hidden(e)
      BY <2>4, <3>2 DEF Hidden
    <3>. QED BY <2>2, <3>1, <3>2
  <2>. QED BY <1>4, <2>1, <2>6
<1>9. CASE Finish
  BY <1>1, <1>4, <1>9 DEF Finish
<1>10. CASE \/ LoopTop \/ SeeStop \/ ReadAudio \/ SendAudio \/ SendCommit
            \/ Collect \/ Drained
  <2>1. /\ UNCHANGED <<lifecycle, display>> /\ Mute(effects) /\ Mute(effects')
    BY <1>10, Silent
  <2>. QED BY <1>3, <1>4, <2>1 DEF lifecycle, display
<1>11. CASE UNCHANGED <<effects, active, shown>>
  BY <1>11 DEF PreviewInv, Ending, Ends
<1>12. SessionStep => UNCHANGED <<effects, active, shown>>
  BY SessionFrame DEF lifecycle, loop, display
<1>. QED BY <1>6, <1>7, <1>8, <1>9, <1>10, <1>11, <1>12, Kinds, PipelineKinds
         DEF lifecycle, loop, display

(***************************************************************************)
(* No preview stays on display when its utterance is over.                 *)
(***************************************************************************)
THEOREM PreviewsAreTracked == Spec => []PreviewsTracked
<1>1. Init => PreviewInv
  BY EndsFacts DEF Init, PreviewInv, Ending
<1>2. TypeInv /\ PreviewInv => PreviewsTracked
  <2>. SUFFICES ASSUME TypeInv, PreviewInv, NEW u \in shown
                PROVE  \/ u \in active
                       \/ \E i \in DOMAIN effects :
                            effects[i].kind \in {"final", "failed"}
                            /\ effects[i].id \in {u, None}
    BY DEF PreviewsTracked
  <2>1. DOMAIN effects = 1..Len(effects)
    BY SeqFacts DEF TypeInv
  <2>2. CASE Ending({"final", "failed"}, u)
    BY <2>1, <2>2 DEF Ending, Ends
  <2>3. CASE Ending({"failed"}, None)
    BY <2>1, <2>3 DEF Ending, Ends
  <2>. QED BY <2>2, <2>3 DEF PreviewInv
<1>. QED BY <1>1, <1>2, CloudAlways, PreviewStep, PTL DEF Spec

\* What has terminated stays known, or has been forgotten.
LEMMA TerminateKeeps ==
  ASSUME TypeInv, NEW v \in Utterances, Terminate(v)
  PROVE  /\ forgotten \subseteq forgotten' /\ Terminated(v)'
         /\ \A u : Terminated(u) => Terminated(u)' \/ u \in forgotten'
         /\ \A u : Terminated(u)' => Terminated(u) \/ u = v
<1>1. /\ terminated \in Seq(Utterances) /\ Len(terminated) \in Nat
      /\ DOMAIN terminated = 1..Len(terminated)
      /\ RecentTerminations \in Nat \ {0}
  BY SeqFacts, Bounds DEF TypeInv, TypeOK
<1>2. CASE Terminated(v) /\ UNCHANGED <<terminated, forgotten>>
  BY <1>2 DEF Terminated
<1>3. CASE terminated' = Append(terminated, v) /\ UNCHANGED forgotten
  <2>1. /\ DOMAIN terminated' = 1..Len(terminated)+1
        /\ \A i \in 1..Len(terminated) : terminated'[i] = terminated[i]
                                         /\ i \in 1..Len(terminated)+1
        /\ terminated'[Len(terminated)+1] = v
        /\ Len(terminated)+1 \in 1..Len(terminated)+1
        /\ \A i \in 1..Len(terminated)+1 :
             i \in 1..Len(terminated) \/ i = Len(terminated)+1
    BY <1>1, <1>3, AppendFacts, SeqFacts
  <2>. QED BY <1>1, <1>3, <2>1 DEF Terminated
<1>4. CASE /\ terminated' = Append(Tail(terminated), v)
           /\ forgotten' = forgotten \cup {Head(terminated)}
           /\ ~(Len(terminated) < RecentTerminations)
  <2>. DEFINE t == Tail(terminated)
  <2>1. /\ t \in Seq(Utterances) /\ Head(terminated) = terminated[1]
        /\ Len(t) = Len(terminated) - 1 /\ Len(terminated) \in Nat \ {0}
        /\ \A i \in 1..Len(terminated)-1 : t[i] = terminated[i+1]
    <3>1. terminated # << >>
      BY <1>1, <1>4
    <3>. QED BY <1>1, <3>1, TailFacts
  <2>. HIDE DEF t
  <2>2. /\ DOMAIN terminated' = 1..Len(t)+1
        /\ \A i \in 1..Len(t) : terminated'[i] = t[i] /\ i \in 1..Len(t)+1
        /\ terminated'[Len(t)+1] = v
        /\ Len(t)+1 \in 1..Len(t)+1
        /\ \A i \in 1..Len(t)+1 : i \in 1..Len(t) \/ i = Len(t)+1
    <3>1. Len(t) \in Nat
      BY <2>1
    <3>2. terminated' = Append(t, v)
      BY <1>4 DEF t
    <3>. QED BY <2>1, <3>1, <3>2, AppendFacts, SeqFacts
  <2>3. Terminated(v)'
    BY <2>2 DEF Terminated
  <2>4. ASSUME NEW u, Terminated(u) PROVE Terminated(u)' \/ u \in forgotten'
    <3>1. PICK i \in 1..Len(terminated) : terminated[i] = u
      BY <1>1, <2>4 DEF Terminated
    <3>2. CASE i = 1
      BY <1>4, <2>1, <3>1, <3>2
    <3>3. CASE i # 1
      <4>1. i-1 \in 1..Len(t) /\ i-1 \in 1..Len(terminated)-1 /\ (i-1)+1 = i
        BY <2>1, <3>3
      <4>2. terminated'[i-1] = u /\ i-1 \in DOMAIN terminated'
        BY <2>1, <2>2, <3>1, <4>1
      <4>. QED BY <4>2 DEF Terminated
    <3>. QED BY <3>2, <3>3
  <2>5. ASSUME NEW u, Terminated(u)' PROVE Terminated(u) \/ u = v
    <3>1. PICK i \in 1..Len(t)+1 : terminated'[i] = u
      BY <2>2, <2>5 DEF Terminated
    <3>2. CASE i \in 1..Len(t)
      <4>1. i+1 \in 1..Len(terminated) /\ i \in 1..Len(terminated)-1
        BY <2>1, <3>2
      <4>2. terminated[i+1] = u
        BY <2>1, <2>2, <3>1, <3>2, <4>1
      <4>. QED BY <1>1, <4>1, <4>2 DEF Terminated
    <3>3. CASE i = Len(t)+1
      BY <2>2, <3>1, <3>3
    <3>. QED BY <2>2, <3>2, <3>3
  <2>. QED BY <1>4, <2>3, <2>4, <2>5
<1>. QED BY <1>2, <1>3, <1>4 DEF Terminate

\* So is what a reset lets go.
LEMMA ForgetKeeps ==
  ASSUME Forget
  PROVE  /\ forgotten \subseteq forgotten'
         /\ \A u : Terminated(u) => u \in forgotten'
         /\ terminated' = << >> /\ \A u : ~Terminated(u)'
<1>1. DOMAIN << >> = {}
  OBVIOUS
<1>. QED BY <1>1 DEF Forget, Terminated, ToSet

\* What an unchanged lifecycle, a termination and a reset have in common.
LEMMA LifecycleKeeps ==
  ASSUME TypeInv,
         UNCHANGED lifecycle \/ (\E v \in Utterances : Terminate(v)) \/ Forget
  PROVE  /\ forgotten \subseteq forgotten'
         /\ \A u : Terminated(u) => Terminated(u)' \/ u \in forgotten'
<1>1. CASE UNCHANGED lifecycle
  BY <1>1 DEF lifecycle, Terminated
<1>2. CASE \E v \in Utterances : Terminate(v)
  BY <1>2, TerminateKeeps
<1>3. CASE Forget
  BY <1>3, ForgetKeeps
<1>. QED BY <1>1, <1>2, <1>3

\* Every step keeps utterances from being published twice.
LEMMA OnceStep ==
  ASSUME TypeInv, FlowInv, OnceInv, [Next]_vars
  PROVE  OnceInv'
<1>. SUFFICES ASSUME NEW u \in Utterances
              PROVE  /\ finals'[u] > 1 => u \in forgotten'
                     /\ finals'[u] > 0 \/ Ends(effects', {"final"}, u) =>
                          Terminated(u)' \/ u \in forgotten'
                     /\ finals'[u] > 0 /\ Ends(effects', {"final"}, u) =>
                          u \in forgotten'
  BY DEF OnceInv, Ending
<1>1. /\ finals[u] > 1 => u \in forgotten
      /\ finals[u] > 0 \/ Ends(effects, {"final"}, u) =>
           Terminated(u) \/ u \in forgotten
      /\ finals[u] > 0 /\ Ends(effects, {"final"}, u) => u \in forgotten
  BY DEF OnceInv, Ending
<1>2. \A e : Ends(<<e>>, {"final"}, u) <=> e.kind = "final" /\ e.id = u
  BY EndsFacts
<1>3. \A q : Mute(q) => ~Ends(q, {"final"}, u)
  BY EndsFacts DEF Outcome
<1>4. ~Ends(<< >>, {"final"}, u)
  BY EndsFacts
<1>. DEFINE Keeps == UNCHANGED lifecycle \/ (\E v \in Utterances : Terminate(v))
                     \/ Forget
<1>5. Keeps => /\ forgotten \subseteq forgotten'
               /\ Terminated(u) => Terminated(u)' \/ u \in forgotten'
  BY LifecycleKeeps
<1>6. ASSUME Keeps, UNCHANGED finals, ~Ends(effects', {"final"}, u)
      PROVE  /\ finals'[u] > 1 => u \in forgotten'
             /\ finals'[u] > 0 => Terminated(u)' \/ u \in forgotten'
  BY <1>1, <1>5, <1>6
<1>. HIDE DEF Keeps
<1>7. CASE ReceiveEvent \/ Flush
  <2>1. effects = << >> /\ UNCHANGED finals
    BY <1>7, Handling DEF display
  <2>2. PICK e \in Said, throttled \in BOOLEAN : HandleEvent(e, throttled)
    BY <1>7, Handling
  <2>3. CASE e.kind = "final" /\ effects' = <<e>> /\ e.id \in Utterances
             /\ ~Terminated(e.id) /\ Terminate(e.id)
    <3>1. Keeps /\ Terminated(e.id)'
      BY <2>3, TerminateKeeps DEF Keeps
    <3>2. CASE u = e.id
      BY <1>1, <1>5, <2>1, <2>3, <3>1, <3>2
    <3>3. CASE u # e.id
      <4>1. ~Ends(effects', {"final"}, u)
        BY <1>2, <2>3, <3>3
      <4>. QED BY <1>6, <2>1, <3>1, <4>1
    <3>. QED BY <3>2, <3>3
  <2>4. ASSUME effects' = << >> \/ (effects' = <<e>> /\ e.kind # "final"), Keeps
        PROVE  /\ finals'[u] > 1 => u \in forgotten'
               /\ finals'[u] > 0 => Terminated(u)' \/ u \in forgotten'
               /\ ~Ends(effects', {"final"}, u)
    <3>1. ~Ends(effects', {"final"}, u)
      BY <1>2, <1>4, <2>4
    <3>. QED BY <1>6, <2>1, <2>4, <3>1
  <2>5. CASE effects' = << >> /\ UNCHANGED lifecycle
    BY <2>4, <2>5 DEF Keeps
  <2>6. CASE e.kind = "partial" /\ effects' = <<e>>
             /\ UNCHANGED <<terminated, forgotten>>
    <3>1. ~Ends(effects', {"final"}, u)
      BY <1>2, <2>6
    <3>. QED BY <1>1, <2>1, <2>6, <3>1 DEF Terminated
  <2>7. CASE e.kind = "failed" /\ effects' = <<e>> /\ e.id \in Utterances
             /\ Terminate(e.id)
    BY <2>4, <2>7 DEF Keeps
  <2>8. CASE e.kind = "failed" /\ effects' = <<e>> /\ Forget
    BY <2>4, <2>8 DEF Keeps
  <2>. QED BY <2>2, <2>3, <2>5, <2>6, <2>7, <2>8, HandleKinds
<1>8. CASE TakeReply
  <2>1. UNCHANGED finals
    BY <1>8, Replying DEF display
  <2>2. CASE effects' = << >> /\ UNCHANGED lifecycle
    BY <1>4, <1>6, <2>1, <2>2 DEF Keeps
  <2>3. ASSUME NEW f \in Said, f.kind = "failed", effects' = <<f>>,
               \/ f.id = None /\ UNCHANGED lifecycle
               \/ f.id \in Utterances /\ Terminate(f.id)
        PROVE  Keeps /\ ~Ends(effects', {"final"}, u)
    BY <1>2, <2>3 DEF Keeps
  <2>. QED BY <1>6, <1>8, <2>1, <2>2, <2>3, Replying
<1>9. CASE Publish \/ FailStorage
  <2>. DEFINE e == Head(effects)
  <2>1. /\ effects' = << >> /\ Keeps /\ e \in Said /\ effects = <<e>>
        /\ UNCHANGED <<terminated, forgotten>>
    BY <1>9, Publishing DEF Keeps, lifecycle
  <2>2. \/ UNCHANGED finals
        \/ e.kind = "final" /\ finals' = [finals EXCEPT ![e.id] = @ + 1]
    BY <1>9 DEF Publish, FailStorage
  <2>3. finals \in [Utterances -> Nat]
    BY DEF TypeInv, TypeOK
  <2>4. e.kind = "final" /\ e.id = u => Ends(effects, {"final"}, u)
    BY <1>2, <2>1
  <2>5. ~Ends(effects', {"final"}, u)
    BY <1>4, <2>1
  <2>. HIDE DEF e
  <2>6. CASE UNCHANGED finals
    BY <1>6, <2>1, <2>5, <2>6
  <2>7. CASE e.kind = "final" /\ finals' = [finals EXCEPT ![e.id] = @ + 1]
    <3>1. CASE u # e.id
      <4>1. finals'[u] = finals[u]
        BY <2>3, <2>7, <3>1
      <4>. QED BY <1>1, <2>1, <2>5, <4>1 DEF Terminated
    <3>2. CASE u = e.id
      <4>1. finals'[u] = finals[u] + 1 /\ finals[u] \in Nat
        BY <2>3, <2>7, <3>2
      <4>2. Ends(effects, {"final"}, u)
        BY <2>4, <2>7, <3>2
      <4>3. finals'[u] > 1 => finals[u] > 0
        BY <4>1
      <4>. QED BY <1>1, <2>1, <2>5, <4>2, <4>3 DEF Terminated
    <3>. QED BY <3>1, <3>2
  <2>. QED BY <2>2, <2>6, <2>7
<1>10. CASE Finish
  <2>1. UNCHANGED finals /\ Keeps /\ effects' = << >>
    BY <1>10 DEF Finish, Keeps
  <2>. QED BY <1>4, <1>6, <2>1
<1>11. CASE \/ LoopTop \/ SeeStop \/ ReadAudio \/ SendAudio \/ SendCommit
            \/ Collect \/ Drained
  <2>1. UNCHANGED finals /\ Keeps /\ Mute(effects')
    BY <1>11, Silent DEF display, Keeps
  <2>. QED BY <1>3, <1>6, <2>1
<1>12. CASE UNCHANGED <<effects, lifecycle, finals>>
  BY <1>1, <1>12 DEF Terminated, lifecycle
<1>13. SessionStep => UNCHANGED <<effects, lifecycle, finals>>
  BY SessionFrame DEF loop, display
<1>. QED BY <1>7, <1>8, <1>9, <1>10, <1>11, <1>12, <1>13, Kinds, PipelineKinds
         DEF loop, display

(***************************************************************************)
(* A subtitle is published once, as long as its utterance is remembered.   *)
(***************************************************************************)
THEOREM SubtitlesAreFinalOnce == Spec => []FinalOnce
<1>1. Init => OnceInv
  <2>1. ASSUME Init, NEW u \in Utterances
        PROVE  finals[u] = 0 /\ ~Ending({"final"}, u)
    BY <2>1, EndsFacts DEF Init, Ending
  <2>2. ~(0 > 0) /\ ~(0 > 1)
    OBVIOUS
  <2>. QED BY <2>1, <2>2 DEF OnceInv
<1>2. OnceInv => FinalOnce
  BY DEF OnceInv, FinalOnce
<1>. QED BY <1>1, <1>2, CloudAlways, OnceStep, PTL DEF Spec

\* The other steps ask for a stop, once, or change nothing.
LEMMA Asking ==
  ASSUME [Next]_vars
  PROVE  \/ SessionStep \/ PipelineStep
         \/ /\ UNCHANGED <<lifecycle, loop, channels, session, provider, display>>
            /\ UNCHANGED control \/ (~stop /\ stop')
<1>1. CASE UNCHANGED vars
  BY <1>1 DEF vars
<1>2. CASE \E d \in BOOLEAN : RequestStop(d)
  BY <1>2 DEF RequestStop
<1>. QED BY <1>1, <1>2 DEF Next, Environment, Session, SessionStep, PipelineStep

\* A session that is over takes no step.
LEMMA OverSession ==
  ASSUME OverInv, SessionStep
  PROVE  run \notin {"flushing", "ended"} /\ OverInv'
<1>1. ~(outgoing = << >> /\ task = "ended")
  BY DEF SessionStep, Serve, Provider, Recognize, LoseSocket, SendEvent,
         CloseSession, FinishSession, Buffer, Connect, RefuseConnection,
         StopConnecting
<1>2. run \notin {"flushing", "ended"}
  BY <1>1 DEF OverInv
<1>. QED BY <1>2, SessionFrame DEF OverInv, loop, control

\* How the pipeline comes to flush what is left, and to its end.
LEMMA OverPipeline ==
  ASSUME OverInv, PipelineStep
  PROVE  OverInv'
<1>0. UNCHANGED <<task, outgoing, stop, discard>>
  BY PipelineFrame DEF session, control
<1>1. CASE Drained
  BY <1>0, <1>1 DEF OverInv, Drained, Collected, SessionOver, channels
<1>2. CASE Finish
  BY <1>0, <1>2 DEF OverInv, Finish, channels
<1>3. CASE LoopTop \/ SeeStop
  BY <1>0, <1>3 DEF OverInv, LoopTop, SeeStop, Leave
<1>4. CASE ReadAudio \/ ReceiveEvent
  BY <1>0, <1>4 DEF OverInv, ReadAudio, ReceiveEvent, channels
<1>5. CASE SendAudio \/ SendCommit \/ TakeReply \/ Publish
  <2>1. UNCHANGED <<events, drained>> /\ (run' = run \/ run' = "top")
    BY <1>5 DEF SendAudio, SendCommit, TakeReply, Publish, Execute, channels
  <2>. QED BY <1>0, <2>1 DEF OverInv
<1>6. CASE FailStorage
  BY <1>0, <1>6 DEF OverInv, FailStorage, Leave
<1>7. CASE Collect
  BY <1>0, <1>7 DEF OverInv, Collect
<1>8. CASE Flush
  BY <1>0, <1>8 DEF OverInv, Flush, channels
<1>. QED BY <1>1, <1>2, <1>3, <1>4, <1>5, <1>6, <1>7, <1>8, PipelineKinds

\* Every step keeps OverInv.
LEMMA OverStep ==
  ASSUME OverInv, [Next]_vars
  PROVE  OverInv'
<1>1. CASE /\ UNCHANGED <<lifecycle, loop, channels, session, provider, display>>
           /\ UNCHANGED control \/ (~stop /\ stop')
  BY <1>1 DEF OverInv, loop, channels, session, control
<1>. QED BY <1>1, OverSession, OverPipeline, Asking

\* Only an utterance terminates.
LEMMA OnlyUtterances ==
  ASSUME TypeInv
  PROVE  \A u : Terminated(u) => u \in Utterances /\ u # None
<1>1. /\ DOMAIN terminated = 1..Len(terminated)
      /\ \A i \in 1..Len(terminated) : terminated[i] \in Utterances
  BY SeqFacts DEF TypeInv, TypeOK
<1>2. \A u \in Utterances : u # None
  BY Bounds DEF Utterances
<1>. QED BY <1>1, <1>2 DEF Terminated

\* Every step keeps the end of what has terminated.
LEMMA DoneStep ==
  ASSUME TypeInv, FlowInv, DoneInv, [Next]_vars
  PROVE  DoneInv'
<1>. DEFINE Over(q, u) == Ends(q, {"final", "failed"}, u)
<1>. SUFFICES ASSUME NEW u, Terminated(u)'
              PROVE  u \in settled' \/ Over(effects', u)
  BY DEF DoneInv, Ending
<1>1. Terminated(u) => u \in settled \/ Over(effects, u)
  BY DEF DoneInv, Ending
<1>2. /\ \A e : Over(<<e>>, u) <=> e.kind \in {"final", "failed"} /\ e.id = u
      /\ \A q : Mute(q) => ~Over(q, u)
      /\ Mute(<< >>)
  BY EndsFacts DEF Outcome
<1>. HIDE DEF Over
<1>3. ASSUME Mute(effects), UNCHANGED <<terminated, settled>>
      PROVE  u \in settled'
  BY <1>1, <1>2, <1>3 DEF Terminated
<1>4. ASSUME Mute(effects), UNCHANGED settled, NEW e \in Said,
             e.kind \in {"final", "failed"}, effects' = <<e>>,
             e.id \in Utterances, Terminate(e.id)
      PROVE  u \in settled' \/ Over(effects', u)
  <2>1. Terminated(u) \/ u = e.id
    BY <1>4, TerminateKeeps
  <2>2. u = e.id => Over(effects', u)
    BY <1>2, <1>4
  <2>. QED BY <1>1, <1>2, <1>4, <2>1, <2>2
<1>5. CASE ReceiveEvent \/ Flush
  <2>1. effects = << >> /\ Mute(effects) /\ UNCHANGED settled
    BY <1>2, <1>5, Handling DEF display
  <2>2. PICK e \in Said, throttled \in BOOLEAN : HandleEvent(e, throttled)
    BY <1>5, Handling
  <2>3. CASE UNCHANGED terminated
    BY <1>3, <2>1, <2>3
  <2>4. CASE e.kind \in {"final", "failed"} /\ effects' = <<e>>
             /\ e.id \in Utterances /\ Terminate(e.id)
    BY <1>4, <2>1, <2>4
  <2>5. ~Forget
    BY ForgetKeeps
  <2>. QED BY <2>2, <2>3, <2>4, <2>5, HandleKinds DEF lifecycle
<1>6. CASE TakeReply
  <2>1. Mute(effects) /\ UNCHANGED settled
    BY <1>6, Replying DEF display
  <2>2. CASE UNCHANGED lifecycle
    BY <1>3, <2>1, <2>2 DEF lifecycle
  <2>3. ASSUME NEW f \in Said, f.kind = "failed", effects' = <<f>>,
               f.id \in Utterances, Terminate(f.id)
        PROVE  u \in settled' \/ Over(effects', u)
    BY <1>4, <2>1, <2>3
  <2>. QED BY <1>6, <2>2, <2>3, Replying
<1>7. CASE Publish \/ FailStorage
  <2>. DEFINE e == Head(effects)
  <2>1. /\ effects = <<e>> /\ UNCHANGED terminated
    BY <1>7, Publishing DEF lifecycle
  <2>2. /\ settled \subseteq settled'
        /\ e.kind \in {"final", "failed"} => settled' = settled \cup ({e.id} \ {None})
                                             \/ settled' = settled \cup {e.id}
    BY <1>7 DEF Publish, FailStorage
  <2>. HIDE DEF e
  <2>3. Terminated(u) /\ u # None
    BY <2>1, OnlyUtterances DEF Terminated
  <2>4. u \in settled \/ (e.kind \in {"final", "failed"} /\ e.id = u)
    BY <1>1, <1>2, <2>1, <2>3
  <2>. QED BY <2>2, <2>3, <2>4
<1>8. ~Finish
  BY ForgetKeeps DEF Finish
<1>9. CASE \/ LoopTop \/ SeeStop \/ ReadAudio \/ SendAudio \/ SendCommit
           \/ Collect \/ Drained
  BY <1>3, <1>9, Silent DEF lifecycle, display
<1>10. CASE UNCHANGED <<effects, lifecycle, settled>>
  BY <1>1, <1>10 DEF Terminated, lifecycle
<1>11. SessionStep => UNCHANGED <<effects, lifecycle, settled>>
  BY SessionFrame DEF loop, display
<1>. QED BY <1>5, <1>6, <1>7, <1>8, <1>9, <1>10, <1>11, Kinds, PipelineKinds
         DEF loop, display

\* Every step keeps the final results that are on their way.
LEMMA ReceivedStep ==
  ASSUME TypeInv, FlowInv, OverInv, DoneInv, ReceivedInv, [Next]_vars
  PROVE  ReceivedInv'
<1>. DEFINE Over(q, u) == Ends(q, {"final", "failed"}, u)
            OnWay(u) == \/ u \in settled \/ Over(effects, u)
                        \/ HasFinal(outgoing, u) \/ HasFinal(events, u)
                        \/ HasFinal(drained, u)
<1>1. ~discard /\ ~failed => \A u \in received : OnWay(u)
  BY DEF ReceivedInv, Ending
<1>2. UNCHANGED <<effects, outgoing, events, drained, settled>> =>
        \A u : OnWay(u)' <=> OnWay(u)
  BY DEF Ends, HasFinal
<1>3. CASE /\ UNCHANGED <<lifecycle, loop, channels, session, provider, display>>
           /\ UNCHANGED control \/ (~stop /\ stop')
  <2>1. ~discard' => ~discard
    BY <1>3 DEF OverInv, control
  <2>2. UNCHANGED <<effects, outgoing, events, drained, settled, received, failed>>
    BY <1>3 DEF loop, channels, session, provider, display
  <2>. QED BY <1>1, <1>2, <2>1, <2>2 DEF ReceivedInv, Ending
<1>. SUFFICES ASSUME SessionStep \/ PipelineStep, ~discard', ~failed',
                     NEW u \in received'
              PROVE  OnWay(u)'
  BY <1>3, Asking DEF ReceivedInv, Ending
<1>4. ~discard /\ ~failed
  <2>1. SessionStep => UNCHANGED <<discard, failed>>
    BY SessionFrame DEF control, loop
  <2>2. PipelineStep => UNCHANGED discard
    BY PipelineFrame DEF control
  <2>3. PipelineStep => failed' = failed \/ failed'
    BY DEF PipelineStep, Pipeline, LoopTop, SeeStop, ReadAudio, ReceiveEvent,
           SendAudio, SendCommit, TakeReply, Publish, FailStorage, Collect,
           Drained, Flush, Finish
  <2>. QED BY <2>1, <2>2, <2>3
<1>5. u \in received => OnWay(u)
  BY <1>1, <1>4
<1>6. /\ {events, outgoing, drained} \subseteq Seq(Said)
      /\ received \subseteq Utterances
  BY DEF TypeInv, TypeOK
<1>7. /\ \A e : Over(<<e>>, u) <=> e.kind \in {"final", "failed"} /\ e.id = u
      /\ \A e : HasFinal(<<e>>, u) <=> e.kind = "final" /\ e.id = u
      /\ \A q : Mute(q) => ~Over(q, u)
      /\ Mute(<< >>) /\ ~HasFinal(<< >>, u)
  BY EndsFacts DEF Outcome, HasFinal
<1>8. \A q \in Seq(Said) :
        /\ \A e \in Said : HasFinal(Append(q, e), u) <=>
             HasFinal(q, u) \/ (e.kind = "final" /\ e.id = u)
        /\ q # << >> => (HasFinal(q, u) <=>
             HasFinal(Tail(q), u) \/ (Head(q).kind = "final" /\ Head(q).id = u))
  BY EndsParts DEF HasFinal
<1>. HIDE DEF Over, HasFinal
<1>9. CASE SessionStep
  <2>1. UNCHANGED <<effects, drained, settled>>
    BY <1>9, SessionFrame DEF loop, display
  <2>2. CASE Provider
    <3>1. PICK kind \in {"partial", "final", "failed"}, v \in spoken \cup {None} :
               Recognize([kind |-> kind, id |-> v])
      BY <2>2 DEF Provider
    <3>. DEFINE e == [kind |-> kind, id |-> v]
    <3>2. /\ outgoing = << >> /\ outgoing' = <<e>> /\ UNCHANGED events
          /\ received' = IF e.kind = "final" THEN received \cup {e.id} ELSE received
      BY <3>1 DEF Recognize, channels
    <3>. HIDE DEF e
    <3>. QED BY <1>5, <1>7, <2>1, <3>2
  <2>3. CASE SendEvent
    <3>1. /\ outgoing # << >> /\ UNCHANGED received
          /\ events' = Append(events, Head(outgoing))
          /\ outgoing' = Tail(outgoing)
      BY <2>3 DEF SendEvent, provider
    <3>2. Head(outgoing) \in Said
      BY <1>6, <3>1, TailFacts
    <3>. QED BY <1>5, <1>6, <1>8, <2>1, <3>1, <3>2
  <2>4. CASE ~Provider /\ ~SendEvent
    <3>1. outgoing = << >> /\ UNCHANGED <<events, received>>
      BY <1>9, <2>4 DEF SessionStep, Serve, LoseSocket, CloseSession,
         FinishSession, Buffer, Connect, RefuseConnection, StopConnecting,
         channels, provider
    <3>. QED BY <1>5, <1>7, <2>1, <3>1
  <2>. QED BY <2>2, <2>3, <2>4
<1>10. CASE PipelineStep
  <2>0. UNCHANGED <<outgoing, received>>
    BY <1>10, PipelineFrame DEF session, provider
  <2>1. OnWay(u)
    BY <1>5, <2>0
  <2>2. CASE ReceiveEvent \/ Flush
    <3>1. effects = << >> /\ UNCHANGED settled
      BY <2>2, Handling DEF display
    <3>2. PICK e \in Said, throttled \in BOOLEAN :
               /\ HandleEvent(e, throttled)
               /\ ReceiveEvent => e = Head(events)
               /\ Flush => e = Head(drained)
      BY <2>2, Handling
    <3>3. \/ HasFinal(events', u) \/ HasFinal(drained', u) \/ u \in settled
          \/ HasFinal(outgoing, u) \/ (e.kind = "final" /\ e.id = u)
      <4>1. CASE ReceiveEvent
        <5>1. events # << >> /\ events' = Tail(events) /\ UNCHANGED drained
          BY <4>1 DEF ReceiveEvent
        <5>. QED BY <1>6, <1>7, <1>8, <2>1, <3>1, <3>2, <4>1, <5>1
      <4>2. CASE Flush
        <5>1. /\ drained # << >> /\ drained' = Tail(drained)
              /\ UNCHANGED events
          BY <4>2 DEF Flush, channels
        <5>. QED BY <1>6, <1>7, <1>8, <2>1, <3>1, <3>2, <4>2, <5>1
      <4>. QED BY <2>2, <4>1, <4>2
    <3>4. e.kind = "final" /\ e.id = u => u \in settled \/ Over(effects', u)
      <4>1. Terminated(u) => u \in settled
        <5>1. ~Ending({"final", "failed"}, u)
          BY <3>1, EndsFacts DEF Ending
        <5>. QED BY <5>1 DEF DoneInv
      <4>. QED BY <1>7, <3>2, <4>1, HandleKinds
    <3>. QED BY <2>0, <3>1, <3>3, <3>4
  <2>3. CASE Collect
    <3>1. UNCHANGED settled /\ Mute(effects) /\ events # << >>
          /\ events' = Tail(events)
      BY <2>3, Silent DEF display, Collect
    <3>2. drained' = Append(drained, Head(events))
      BY <1>4, <2>3 DEF Collect, OverInv
    <3>3. Head(events) \in Said
      BY <1>6, <3>1, TailFacts
    <3>. QED BY <1>6, <1>7, <1>8, <2>0, <2>1, <3>1, <3>2, <3>3
  <2>4. CASE \/ TakeReply \/ Finish \/ LoopTop \/ SeeStop \/ ReadAudio
             \/ SendAudio \/ SendCommit \/ Drained
    <3>1. UNCHANGED <<settled, events, drained>>
      BY <2>4 DEF TakeReply, Finish, LoopTop, SeeStop, ReadAudio, SendAudio,
         SendCommit, Drained, display, channels
    <3>2. Mute(effects)
      BY <1>7, <2>4, Replying, Silent DEF Finish
    <3>. QED BY <1>7, <2>0, <2>1, <3>1, <3>2
  <2>5. CASE Publish
    <3>. DEFINE e == Head(effects)
    <3>1. effects = <<e>> /\ UNCHANGED <<events, drained>>
      BY <2>5, Publishing DEF Publish, channels
    <3>2. /\ settled \subseteq settled'
          /\ e.kind \in {"final", "failed"} => settled' = settled \cup ({e.id} \ {None})
                                               \/ settled' = settled \cup {e.id}
      BY <2>5 DEF Publish
    <3>. HIDE DEF e
    <3>3. u # None
      BY <1>6, <2>0, Bounds DEF Utterances
    <3>. QED BY <1>7, <2>0, <2>1, <3>1, <3>2, <3>3
  <2>6. ~FailStorage
    BY DEF FailStorage
  <2>. QED BY <1>10, <2>2, <2>3, <2>4, <2>5, <2>6, PipelineKinds
<1>. QED BY <1>9, <1>10

(***************************************************************************)
(* What the provider has recognized when the user stops is not lost.       *)
(***************************************************************************)
THEOREM FinalResultsSurvive == Spec => []FinalsSurviveStop
<1>1. Init => KeptInv
  <2>. SUFFICES ASSUME Init PROVE KeptInv
    OBVIOUS
  <2>1. DOMAIN << >> = {}
    OBVIOUS
  <2>2. OverInv
    BY DEF Init, OverInv
  <2>3. DoneInv
    BY <2>1 DEF Init, DoneInv, Terminated
  <2>4. ReceivedInv
    BY DEF Init, ReceivedInv
  <2>. QED BY <2>2, <2>3, <2>4 DEF KeptInv
<1>2. TypeInv /\ FlowInv /\ KeptInv /\ [Next]_vars => KeptInv'
  BY OverStep, DoneStep, ReceivedStep DEF KeptInv
<1>3. FlowInv /\ KeptInv => FinalsSurviveStop
  <2>. SUFFICES ASSUME FlowInv, KeptInv, run = "ended", ~discard, ~failed,
                       NEW u \in received
                PROVE  u \in settled
    BY DEF FinalsSurviveStop
  <2>1. /\ effects = << >> /\ outgoing = << >> /\ events = << >>
        /\ drained = << >>
    BY DEF FlowInv, EffectsFlow, KeptInv, OverInv
  <2>. QED BY <2>1, EndsFacts DEF KeptInv, ReceivedInv, Ending, HasFinal
<1>. QED BY <1>1, <1>2, <1>3, CloudAlways, PTL DEF Spec
=============================================================================
