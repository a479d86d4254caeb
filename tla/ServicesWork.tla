---------------------------- MODULE ServicesWork ----------------------------
(***************************************************************************)
(* The services' work is accounted for: what is shown as going on is       *)
(* worked on, what is shown as done was done, and nothing that was said is *)
(* lost or heard twice.                                                    *)
(***************************************************************************)
EXTENDS ServicesAnswers

-----------------------------------------------------------------------------
(* SegmentedUpload: outcomes once and in order, speech in one upload       *)

\* The first of a sequence, and the rest of it
LEMMA TakenFirst ==
  ASSUME NEW S, NEW q \in Seq(S), q # << >>
  PROVE  /\ Len(q) \in Nat \ {0} /\ Head(q) = q[1] /\ q[1] \in S
         /\ Tail(q) \in Seq(S) /\ Len(Tail(q)) = Len(q) - 1
         /\ \A i \in 1..Len(Tail(q)) : Tail(q)[i] = q[i + 1] /\ i + 1 \in 1..Len(q)
OBVIOUS

\* A sequence with one more
LEMMA AddedLast ==
  ASSUME NEW S, NEW q \in Seq(S), NEW x \in S
  PROVE  /\ Append(q, x) \in Seq(S) /\ Len(Append(q, x)) = Len(q) + 1
         /\ Len(q) \in Nat
         /\ Append(q, x)[Len(q) + 1] = x
         /\ \A i \in 1..Len(q) : Append(q, x)[i] = q[i] /\ i \in 1..Len(Append(q, x))
         /\ \A i \in 1..Len(Append(q, x)) :
              IF i = Len(q) + 1 THEN Append(q, x)[i] = x
              ELSE i \in 1..Len(q) /\ Append(q, x)[i] = q[i]
OBVIOUS

UploadTypes ==
  /\ upJobs \in Seq(Seq(Nat)) /\ upQueue \in Seq(Nat) /\ upEvents \in Seq(Nat)
  /\ upShown \in Seq(Nat) /\ upJob \in Nat /\ upDropped \in BOOLEAN
  /\ upPhase \in {"open", "draining", "publishing", "closed"}
  /\ upWorker \in {"idle", "uploading", "answering", "ended"}

\* The outcomes that were handled, those that wait, the one that is worked on
\* and those that are queued follow each other without a gap.
OutcomeInv ==
  /\ UploadTypes
  /\ \A k \in 1..Len(upShown) : upShown[k] = k
  /\ upPhase \in {"publishing", "closed"} => upWorker = "ended"
  /\ upWorker = "ended" => upPhase # "open"
  /\ upPhase = "closed" => upEvents = << >>
  /\ upPhase = "closed" /\ ~upDropped => Len(upShown) = Len(upJobs)
  /\ upPhase # "closed" =>
       /\ \A i \in 1..Len(upEvents) : upEvents[i] = Len(upShown) + i
       /\ upWorker \in {"uploading", "answering"} =>
            /\ upJob = Len(upShown) + Len(upEvents) + 1
            /\ Len(upQueue) = Len(upJobs) - upJob
            /\ \A i \in 1..Len(upQueue) : upQueue[i] = upJob + i
       /\ upWorker = "idle" =>
            /\ Len(upQueue) = Len(upJobs) - (Len(upShown) + Len(upEvents))
            /\ \A i \in 1..Len(upQueue) :
                 upQueue[i] = Len(upShown) + Len(upEvents) + i
       /\ upWorker = "ended" => Len(upJobs) = Len(upShown) + Len(upEvents)

Rising(a) == \A i, j \in 1..Len(a) : i < j => a[i] <= a[j]
In(n, a) == \E i \in 1..Len(a) : a[i] = n

\* What is spoken is in one place: the buffer or one job.
SpeechInv ==
  /\ upSegment \in Nat \ {0} /\ upSpeaking \in BOOLEAN
  /\ upAudio \in Seq(Nat) /\ \A i \in 1..Len(upAudio) : upAudio[i] \in 1..upSegment
  /\ Rising(upAudio)
  /\ In(upSegment, upAudio) <=> upSpeaking
  /\ upJobs \in Seq(Seq(Nat))
  /\ \A k \in 1..Len(upJobs) : Rising(upJobs[k])
  /\ \A k \in 1..Len(upJobs) : \A n : In(n, upJobs[k]) =>
       /\ n \in Nat /\ n < upSegment /\ ~In(n, upAudio)
       /\ \A l \in 1..Len(upJobs) : In(n, upJobs[l]) => k = l
  /\ \A n \in upValid : n \in Nat /\ n < upSegment
  /\ upRefused \subseteq upValid
  /\ \A n \in upRefused : n + 1 = upSegment => In(n, upAudio)
  /\ \A n \in upValid \ upRefused : \E k \in 1..Len(upJobs) : In(n, upJobs[k])
  /\ \A n \in upRefused : n + 1 \in upValid \ upRefused =>
       \A k \in 1..Len(upJobs) : In(n, upJobs[k]) <=> In(n + 1, upJobs[k])

UploadInv == OutcomeInv /\ SpeechInv

LEMMA UploadStart ==
  ASSUME Upload!UploadInit
  PROVE  UploadInv
<1>1. /\ upPhase = "open" /\ upSegment = 1 /\ upSpeaking = FALSE /\ upAudio = << >>
      /\ upJobs = << >> /\ upQueue = << >> /\ upWorker = "idle" /\ upJob = 0
      /\ upEvents = << >> /\ upShown = << >> /\ upRefused = {} /\ upValid = {}
      /\ upDropped = FALSE
  BY DEF Upload!UploadInit
<1>2. Len(<< >>) = 0 /\ \A S : << >> \in Seq(S)
  OBVIOUS
<1>3. UploadTypes
  BY <1>1, <1>2 DEF UploadTypes
<1>4. OutcomeInv
  <2>1. /\ Len(upJobs) = 0 /\ Len(upQueue) = 0 /\ Len(upEvents) = 0
        /\ Len(upShown) = 0 /\ upPhase = "open" /\ upWorker = "idle"
    BY <1>1, <1>2
  <2>. QED BY <1>3, <2>1 DEF OutcomeInv
<1>5. \A n : ~In(n, upAudio)
  BY <1>1, <1>2 DEF In
<1>6. SpeechInv
  <2>1. /\ Len(upJobs) = 0 /\ Len(upAudio) = 0 /\ upSegment = 1
        /\ upSpeaking = FALSE /\ upRefused = {} /\ upValid = {}
        /\ upAudio \in Seq(Nat) /\ upJobs \in Seq(Seq(Nat))
    BY <1>1, <1>2
  <2>2. 1..Len(upJobs) = {} /\ 1..Len(upAudio) = {} /\ upSegment \in Nat \ {0}
    BY <2>1
  <2>3. Rising(upAudio)
    BY <2>2 DEF Rising
  <2>. QED BY <1>5, <2>1, <2>2, <2>3 DEF SpeechInv
<1>. QED BY <1>4, <1>6 DEF UploadInv

\* How long the sequences are
LEMMA UploadLens ==
  ASSUME OutcomeInv
  PROVE  /\ Len(upJobs) \in Nat /\ Len(upQueue) \in Nat /\ Len(upEvents) \in Nat
         /\ Len(upShown) \in Nat /\ upJob \in Nat /\ UploadTypes
BY DEF OutcomeInv, UploadTypes

\* A commit that is accepted
LEMMA OutcomesCommitted ==
  ASSUME OutcomeInv, upPhase = "open",
         upJobs' \in Seq(Seq(Nat)), upQueue' \in Seq(Nat),
         Len(upJobs') = Len(upJobs) + 1, Len(upQueue') = Len(upQueue) + 1,
         upQueue'[Len(upQueue) + 1] = Len(upJobs) + 1,
         \A i \in 1..Len(upQueue) : upQueue'[i] = upQueue[i],
         UNCHANGED <<upPhase, upWorker, upJob, upEvents, upShown, upDropped>>
  PROVE  OutcomeInv'
<1>1. /\ Len(upJobs) \in Nat /\ Len(upQueue) \in Nat /\ Len(upEvents) \in Nat
      /\ Len(upShown) \in Nat /\ upJob \in Nat
  BY UploadLens
<1>2. \A i \in 1..Len(upQueue') : i = Len(upQueue) + 1 \/ i \in 1..Len(upQueue)
  BY <1>1
<1>3. CASE upWorker \in {"uploading", "answering"}
  <2>1. /\ upJob = Len(upShown) + Len(upEvents) + 1
        /\ Len(upQueue) = Len(upJobs) - upJob
        /\ \A i \in 1..Len(upQueue) : upQueue[i] = upJob + i
    BY <1>3 DEF OutcomeInv
  <2>2. /\ Len(upQueue') = Len(upJobs') - upJob
        /\ \A i \in 1..Len(upQueue') : upQueue'[i] = upJob + i
    <3>1. Len(upQueue') = Len(upJobs') - upJob
      BY <1>1, <2>1
    <3>2. upQueue'[Len(upQueue) + 1] = upJob + (Len(upQueue) + 1)
      BY <1>1, <2>1
    <3>3. \A i \in 1..Len(upQueue) : upQueue'[i] = upJob + i
      BY <2>1
    <3>. QED BY <1>2, <3>1, <3>2, <3>3
  <2>. QED BY <1>3, <2>1, <2>2 DEF OutcomeInv, UploadTypes
<1>4. CASE upWorker = "idle"
  <2>1. /\ Len(upQueue) = Len(upJobs) - (Len(upShown) + Len(upEvents))
        /\ \A i \in 1..Len(upQueue) : upQueue[i] = Len(upShown) + Len(upEvents) + i
    BY <1>4 DEF OutcomeInv
  <2>2. /\ Len(upQueue') = Len(upJobs') - (Len(upShown) + Len(upEvents))
        /\ \A i \in 1..Len(upQueue') :
             upQueue'[i] = Len(upShown) + Len(upEvents) + i
    <3>1. Len(upQueue') = Len(upJobs') - (Len(upShown) + Len(upEvents))
      BY <1>1, <2>1
    <3>2. upQueue'[Len(upQueue) + 1] = Len(upShown) + Len(upEvents) + (Len(upQueue) + 1)
      BY <1>1, <2>1
    <3>3. \A i \in 1..Len(upQueue) : upQueue'[i] = Len(upShown) + Len(upEvents) + i
      BY <2>1
    <3>. QED BY <1>2, <3>1, <3>2, <3>3
  <2>. QED BY <1>4, <2>2 DEF OutcomeInv, UploadTypes
<1>5. upWorker \in {"uploading", "answering", "idle"}
  BY DEF OutcomeInv, UploadTypes
<1>. QED BY <1>3, <1>4, <1>5

\* An outcome is handled; the rest of them may be dropped with it.
LEMMA OutcomesHandled ==
  ASSUME OutcomeInv, Len(upEvents) # 0, upPhase # "closed",
         upShown' \in Seq(Nat), Len(upShown') = Len(upShown) + 1,
         upShown'[Len(upShown) + 1] = upEvents[1],
         \A i \in 1..Len(upShown) : upShown'[i] = upShown[i],
         \/ /\ upEvents' \in Seq(Nat) /\ Len(upEvents') = Len(upEvents) - 1
            /\ \A i \in 1..Len(upEvents') : upEvents'[i] = upEvents[i + 1]
            /\ \/ upPhase' = upPhase
               \/ upPhase = "open" /\ upPhase' = "draining"
         \/ /\ upPhase = "publishing" /\ upPhase' = "closed"
            /\ upEvents' = << >> /\ upDropped' = TRUE,
         upDropped' \in BOOLEAN,
         UNCHANGED <<upJobs, upQueue, upWorker, upJob>>
  PROVE  OutcomeInv'
<1>1. /\ Len(upJobs) \in Nat /\ Len(upQueue) \in Nat /\ Len(upEvents) \in Nat \ {0}
      /\ Len(upShown) \in Nat /\ upJob \in Nat
  BY UploadLens
<1>2. \A i \in 1..Len(upEvents) : upEvents[i] = Len(upShown) + i
  BY DEF OutcomeInv
<1>3. \A k \in 1..Len(upShown') : upShown'[k] = k
  <2>1. \A k \in 1..Len(upShown) : upShown[k] = k
    BY DEF OutcomeInv
  <2>2. upEvents[1] = Len(upShown) + 1
    BY <1>1, <1>2
  <2>3. \A k \in 1..Len(upShown') : k = Len(upShown) + 1 \/ k \in 1..Len(upShown)
    BY <1>1
  <2>. QED BY <2>1, <2>2, <2>3
<1>4. CASE upPhase' = "closed"
  <2>1. upPhase = "publishing" /\ upEvents' = << >> /\ upDropped' = TRUE
    BY <1>4
  <2>2. upWorker' = "ended" /\ upEvents' \in Seq(Nat)
    BY <2>1 DEF OutcomeInv
  <2>3. UploadTypes'
    BY <1>4, <2>1, <2>2, UploadLens DEF UploadTypes
  <2>. QED BY <1>3, <1>4, <2>1, <2>2, <2>3 DEF OutcomeInv
<1>5. CASE upPhase' # "closed"
  <2>1. /\ upEvents' \in Seq(Nat) /\ Len(upEvents') = Len(upEvents) - 1
        /\ \A i \in 1..Len(upEvents') : upEvents'[i] = upEvents[i + 1]
        /\ \/ upPhase' = upPhase
           \/ upPhase = "open" /\ upPhase' = "draining"
    BY <1>5
  <2>2. Len(upShown') + Len(upEvents') = Len(upShown) + Len(upEvents)
    BY <1>1, <2>1
  <2>3. \A i \in 1..Len(upEvents') : upEvents'[i] = Len(upShown') + i
    BY <1>1, <1>2, <2>1
  <2>4. UploadTypes'
    BY <2>1, UploadLens DEF UploadTypes
  <2>5. \/ upPhase' = upPhase
        \/ upPhase = "open" /\ upPhase' = "draining"
    BY <2>1
  <2>. QED BY <1>3, <1>5, <2>2, <2>3, <2>4, <2>5 DEF OutcomeInv
<1>. QED BY <1>4, <1>5

\* The worker takes the next job.
LEMMA OutcomesTaken ==
  ASSUME OutcomeInv, Upload!TakeJob
  PROVE  OutcomeInv'
<1>1. /\ upWorker = "idle"
      /\ UNCHANGED <<upPhase, upJobs, upEvents, upShown, upDropped>>
      /\ Len(upQueue) \in Nat /\ Len(upShown) \in Nat /\ Len(upEvents) \in Nat
      /\ Len(upJobs) \in Nat
  BY DEF Upload!TakeJob, Upload!session, OutcomeInv, UploadTypes
<1>2. CASE upQueue # << >>
  <2>1. upWorker' = "uploading" /\ upJob' = Head(upQueue) /\ upQueue' = Tail(upQueue)
    BY <1>2 DEF Upload!TakeJob
  <2>2. /\ Len(upQueue) # 0 /\ upJob' = upQueue[1] /\ upJob' \in Nat
        /\ upQueue' \in Seq(Nat) /\ Len(upQueue') = Len(upQueue) - 1
        /\ \A i \in 1..Len(upQueue') :
             upQueue'[i] = upQueue[i + 1] /\ i + 1 \in 1..Len(upQueue)
    <3>1. upQueue \in Seq(Nat)
      BY UploadLens DEF UploadTypes
    <3>. QED BY <1>2, <2>1, <3>1, TakenFirst
  <2>3. upPhase # "closed" =>
          /\ upJob' = Len(upShown) + Len(upEvents) + 1
          /\ Len(upQueue') = Len(upJobs) - upJob'
          /\ \A i \in 1..Len(upQueue') : upQueue'[i] = upJob' + i
    BY <1>1, <2>2 DEF OutcomeInv
  <2>. QED BY <1>1, <2>1, <2>2, <2>3 DEF OutcomeInv, UploadTypes
<1>3. CASE upQueue = << >>
  <2>1. /\ upPhase = "draining" /\ upWorker' = "ended"
        /\ upQueue' = upQueue /\ upJob' = upJob
    BY <1>3 DEF Upload!TakeJob
  <2>2. Len(upQueue) = 0
    BY <1>3
  <2>. QED BY <1>1, <2>1, <2>2 DEF OutcomeInv, UploadTypes
<1>. QED BY <1>2, <1>3

\* The worker sends its answer.
LEMMA OutcomesSent ==
  ASSUME OutcomeInv, Upload!SendEvent
  PROVE  OutcomeInv'
<1>1. /\ upWorker = "answering" /\ upWorker' = "idle"
      /\ upEvents' = Append(upEvents, upJob)
      /\ UNCHANGED <<upPhase, upJobs, upQueue, upJob, upShown, upDropped>>
      /\ Len(upShown) \in Nat /\ upJob \in Nat /\ Len(upJobs) \in Nat
  BY DEF Upload!SendEvent, Upload!session, OutcomeInv, UploadTypes
<1>2. /\ upEvents' \in Seq(Nat) /\ Len(upEvents') = Len(upEvents) + 1
      /\ Len(upEvents) \in Nat
      /\ \A i \in 1..Len(upEvents') :
           IF i = Len(upEvents) + 1 THEN upEvents'[i] = upJob
           ELSE i \in 1..Len(upEvents) /\ upEvents'[i] = upEvents[i]
  <2>1. upEvents \in Seq(Nat) /\ upJob \in Nat
    BY UploadLens DEF UploadTypes
  <2>. QED BY <1>1, <2>1, AddedLast
<1>3. /\ \A i \in 1..Len(upEvents) : upEvents[i] = Len(upShown) + i
      /\ upJob = Len(upShown) + Len(upEvents) + 1
      /\ Len(upQueue) = Len(upJobs) - upJob
      /\ \A i \in 1..Len(upQueue) : upQueue[i] = upJob + i
      /\ upPhase # "closed"
  BY <1>1 DEF OutcomeInv
<1>4. /\ \A i \in 1..Len(upEvents') : upEvents'[i] = Len(upShown) + i
      /\ Len(upQueue) = Len(upJobs) - (Len(upShown) + Len(upEvents'))
      /\ \A i \in 1..Len(upQueue) : upQueue[i] = Len(upShown) + Len(upEvents') + i
  <2>1. Len(upShown) + Len(upEvents') = upJob
    BY <1>1, <1>2, <1>3
  <2>2. \A i \in 1..Len(upEvents') : upEvents'[i] = Len(upShown) + i
    <3>1. upJob = Len(upShown) + (Len(upEvents) + 1)
      BY <1>1, <1>2, <1>3
    <3>. QED BY <1>2, <1>3, <3>1
  <2>. QED BY <1>3, <2>1, <2>2
<1>. QED BY <1>1, <1>2, <1>3, <1>4 DEF OutcomeInv, UploadTypes

\* The first event is taken, and shown.
LEMMA EventsTaken ==
  ASSUME OutcomeInv, upEvents # << >>, upShown' = Append(upShown, Head(upEvents))
  PROVE  /\ Len(upEvents) # 0
         /\ upShown' \in Seq(Nat) /\ Len(upShown') = Len(upShown) + 1
         /\ upShown'[Len(upShown) + 1] = upEvents[1]
         /\ \A i \in 1..Len(upShown) : upShown'[i] = upShown[i]
         /\ Tail(upEvents) \in Seq(Nat) /\ Len(Tail(upEvents)) = Len(upEvents) - 1
         /\ \A i \in 1..Len(Tail(upEvents)) : Tail(upEvents)[i] = upEvents[i + 1]
<1>1. upEvents \in Seq(Nat) /\ upShown \in Seq(Nat)
  BY UploadLens DEF UploadTypes
<1>2. /\ Len(upEvents) # 0 /\ Head(upEvents) = upEvents[1] /\ upEvents[1] \in Nat
      /\ Tail(upEvents) \in Seq(Nat) /\ Len(Tail(upEvents)) = Len(upEvents) - 1
      /\ \A i \in 1..Len(Tail(upEvents)) : Tail(upEvents)[i] = upEvents[i + 1]
  BY <1>1, TakenFirst
<1>. QED BY <1>1, <1>2, AddedLast

LEMMA OutcomeStep ==
  ASSUME UploadInv, Upload!UploadNext \/ UNCHANGED uploads
  PROVE  OutcomeInv'
<1>0. OutcomeInv /\ upAudio \in Seq(Nat)
  BY DEF UploadInv, SpeechInv
<1>1. CASE UNCHANGED uploads \/ Upload!Discard
  <2>1. UNCHANGED <<upPhase, upJobs, upQueue, upWorker, upJob, upEvents, upShown,
                    upDropped>>
    BY <1>1 DEF uploads, Upload!Discard, Upload!EndSegment
  <2>. QED BY <1>0, <2>1 DEF OutcomeInv, UploadTypes
<1>2. CASE Upload!Speak \/ Upload!StopDraining
  <2>1. /\ UNCHANGED <<upJobs, upQueue, upWorker, upJob, upEvents, upShown, upDropped>>
        /\ upPhase = "open" /\ upPhase' \in {"open", "draining"}
    BY <1>2 DEF Upload!Speak, Upload!StopDraining, Upload!session
  <2>. QED BY <1>0, <2>1 DEF OutcomeInv, UploadTypes
<1>3. CASE Upload!Commit
  <2>1. /\ upPhase = "open"
        /\ UNCHANGED <<upPhase, upWorker, upJob, upEvents, upShown, upDropped>>
        /\ \/ UNCHANGED <<upJobs, upQueue>>
           \/ /\ upJobs' = Append(upJobs, upAudio)
              /\ upQueue' = Append(upQueue, Len(upJobs'))
    BY <1>3 DEF Upload!Commit, Upload!EndSegment
  <2>2. CASE UNCHANGED <<upJobs, upQueue>>
    BY <1>0, <2>1, <2>2 DEF OutcomeInv, UploadTypes
  <2>3. CASE /\ upJobs' = Append(upJobs, upAudio)
             /\ upQueue' = Append(upQueue, Len(upJobs'))
    <3>1. /\ upJobs' \in Seq(Seq(Nat)) /\ Len(upJobs') = Len(upJobs) + 1
          /\ Len(upJobs') \in Nat
      BY <1>0, <2>3, AddedLast, UploadLens DEF UploadTypes
    <3>2. /\ upQueue' \in Seq(Nat) /\ Len(upQueue') = Len(upQueue) + 1
          /\ upQueue'[Len(upQueue) + 1] = Len(upJobs) + 1
          /\ \A i \in 1..Len(upQueue) : upQueue'[i] = upQueue[i]
      BY <1>0, <2>3, <3>1, AddedLast, UploadLens DEF UploadTypes
    <3>. QED BY <1>0, <2>1, <3>1, <3>2, OutcomesCommitted
  <2>. QED BY <2>1, <2>2, <2>3
<1>4. CASE Upload!Receive
  <2>1. /\ upPhase = "open" /\ upEvents # << >> /\ upEvents' = Tail(upEvents)
        /\ upShown' = Append(upShown, Head(upEvents))
        /\ upPhase' \in {upPhase, "draining"} /\ upDropped' \in {upDropped, TRUE}
        /\ UNCHANGED <<upJobs, upQueue, upWorker, upJob>>
    BY <1>4 DEF Upload!Receive, Upload!session
  <2>2. upDropped' \in BOOLEAN
    BY <1>0, <2>1 DEF OutcomeInv, UploadTypes
  <2>. QED BY <1>0, <2>1, <2>2, OutcomesHandled, EventsTaken
<1>5. CASE Upload!StopDiscarding
  <2>1. /\ upPhase' = "closed" /\ upDropped' = TRUE /\ upQueue' = << >>
        /\ upWorker' = "ended" /\ upEvents' = << >>
        /\ UNCHANGED <<upJobs, upJob, upShown>>
    BY <1>5 DEF Upload!StopDiscarding, Upload!session
  <2>. QED BY <1>0, <2>1 DEF OutcomeInv, UploadTypes
<1>6. CASE Upload!Drain
  <2>1. /\ upPhase = "draining" /\ upWorker = "ended" /\ upPhase' = "publishing"
        /\ UNCHANGED <<upJobs, upQueue, upWorker, upJob, upEvents, upShown, upDropped>>
    BY <1>6 DEF Upload!Drain, Upload!session
  <2>. QED BY <1>0, <2>1 DEF OutcomeInv, UploadTypes
<1>7. CASE Upload!Publish
  <2>1. /\ upPhase = "publishing" /\ UNCHANGED <<upJobs, upQueue, upWorker, upJob>>
    BY <1>7 DEF Upload!Publish, Upload!session
  <2>2. CASE upEvents = << >>
    <3>1. upPhase' = "closed" /\ UNCHANGED <<upEvents, upShown, upDropped>>
      BY <1>7, <2>2 DEF Upload!Publish
    <3>2. Len(upEvents) = 0 /\ Len(upShown) \in Nat
      BY <1>0, <2>2 DEF OutcomeInv, UploadTypes
    <3>. QED BY <1>0, <2>1, <2>2, <3>1, <3>2 DEF OutcomeInv, UploadTypes
  <2>3. CASE upEvents # << >>
    <3>1. /\ upShown' = Append(upShown, Head(upEvents))
          /\ \/ upEvents' = Tail(upEvents) /\ UNCHANGED <<upPhase, upDropped>>
             \/ upEvents' = << >> /\ upPhase' = "closed" /\ upDropped' = TRUE
      BY <1>7, <2>3 DEF Upload!Publish
    <3>2. upDropped' \in BOOLEAN
      BY <1>0, <3>1 DEF OutcomeInv, UploadTypes
    <3>3. /\ Len(upEvents) # 0
          /\ upShown' \in Seq(Nat) /\ Len(upShown') = Len(upShown) + 1
          /\ upShown'[Len(upShown) + 1] = upEvents[1]
          /\ \A i \in 1..Len(upShown) : upShown'[i] = upShown[i]
          /\ Tail(upEvents) \in Seq(Nat) /\ Len(Tail(upEvents)) = Len(upEvents) - 1
          /\ \A i \in 1..Len(Tail(upEvents)) : Tail(upEvents)[i] = upEvents[i + 1]
      BY <1>0, <2>3, <3>1, EventsTaken
    <3>4. CASE upEvents' = Tail(upEvents) /\ UNCHANGED <<upPhase, upDropped>>
      BY <1>0, <2>1, <3>2, <3>3, <3>4, OutcomesHandled
    <3>5. CASE upEvents' = << >> /\ upPhase' = "closed" /\ upDropped' = TRUE
      BY <1>0, <2>1, <3>2, <3>3, <3>5, OutcomesHandled
    <3>. QED BY <3>1, <3>4, <3>5
  <2>. QED BY <2>2, <2>3
<1>8. CASE Upload!Upload
  <2>1. /\ upWorker = "uploading" /\ upWorker' = "answering"
        /\ UNCHANGED <<upPhase, upJobs, upQueue, upJob, upEvents, upShown, upDropped>>
    BY <1>8 DEF Upload!Upload, Upload!session
  <2>. QED BY <1>0, <2>1 DEF OutcomeInv, UploadTypes
<1>. QED BY <1>0, <1>1, <1>2, <1>3, <1>4, <1>5, <1>6, <1>7, <1>8, OutcomesTaken,
            OutcomesSent DEF Upload!UploadNext, Upload!Worker

\* One more in a sequence
LEMMA InAppended ==
  ASSUME NEW S, NEW a \in Seq(S), NEW x \in S
  PROVE  \A n : In(n, Append(a, x)) <=> In(n, a) \/ n = x
<1>1. /\ Len(a) \in Nat /\ Len(Append(a, x)) = Len(a) + 1
      /\ Append(a, x)[Len(a) + 1] = x
      /\ \A i \in 1..Len(a) : Append(a, x)[i] = a[i]
  BY AddedLast
<1>2. \A i \in 1..Len(Append(a, x)) : i \in 1..Len(a) \/ i = Len(a) + 1
  BY <1>1
<1>3. /\ \A i \in 1..Len(a) : i \in 1..Len(Append(a, x))
      /\ Len(a) + 1 \in 1..Len(Append(a, x))
  BY <1>1
<1>. QED BY <1>1, <1>2, <1>3 DEF In

\* Somebody speaks.
LEMMA SpeechSpoken ==
  ASSUME SpeechInv, upAudio' = Append(upAudio, upSegment), upSpeaking' = TRUE,
         UNCHANGED <<upSegment, upJobs, upRefused, upValid>>
  PROVE  SpeechInv'
<1>1. upAudio \in Seq(Nat) /\ upSegment \in Nat \ {0}
  BY DEF SpeechInv
<1>2. /\ upAudio' \in Seq(Nat) /\ Len(upAudio') = Len(upAudio) + 1
      /\ Len(upAudio) \in Nat
      /\ upAudio'[Len(upAudio) + 1] = upSegment
      /\ \A i \in 1..Len(upAudio) : upAudio'[i] = upAudio[i]
  BY <1>1, AddedLast
<1>3. \A i \in 1..Len(upAudio') : i = Len(upAudio) + 1 \/ i \in 1..Len(upAudio)
  BY <1>2
<1>4. \A i \in 1..Len(upAudio') : upAudio'[i] \in 1..upSegment
  <2>1. upSegment \in 1..upSegment
    BY <1>1
  <2>. QED BY <1>2, <1>3, <2>1 DEF SpeechInv
<1>5. Rising(upAudio')
  <2>. SUFFICES ASSUME NEW i \in 1..Len(upAudio'), NEW j \in 1..Len(upAudio'), i < j
                PROVE  upAudio'[i] <= upAudio'[j]
    BY DEF Rising
  <2>1. i \in 1..Len(upAudio)
    BY <1>2
  <2>2. upAudio[i] \in 1..upSegment /\ upAudio'[i] = upAudio[i]
    BY <1>2, <2>1 DEF SpeechInv
  <2>3. CASE j = Len(upAudio) + 1
    BY <1>1, <1>2, <2>2, <2>3
  <2>4. CASE j \in 1..Len(upAudio)
    BY <1>2, <2>1, <2>2, <2>4 DEF SpeechInv, Rising
  <2>. QED BY <1>3, <2>3, <2>4
<1>6. \A n : In(n, upAudio') <=> In(n, upAudio) \/ n = upSegment
  BY <1>1, InAppended
<1>7. \A k \in 1..Len(upJobs) : \A n : In(n, upJobs[k]) =>
        /\ n \in Nat /\ n < upSegment /\ ~In(n, upAudio')
        /\ \A l \in 1..Len(upJobs) : In(n, upJobs[l]) => k = l
  <2>1. \A k \in 1..Len(upJobs) : \A n : In(n, upJobs[k]) =>
          /\ n \in Nat /\ n < upSegment /\ ~In(n, upAudio)
          /\ \A l \in 1..Len(upJobs) : In(n, upJobs[l]) => k = l
    BY DEF SpeechInv
  <2>2. ~(upSegment < upSegment)
    BY <1>1
  <2>. QED BY <1>6, <2>1, <2>2
<1>8. /\ upSegment \in Nat \ {0} /\ upJobs \in Seq(Seq(Nat))
      /\ \A k \in 1..Len(upJobs) : Rising(upJobs[k])
      /\ \A n \in upValid : n \in Nat /\ n < upSegment
      /\ upRefused \subseteq upValid
      /\ \A n \in upRefused : n + 1 = upSegment => In(n, upAudio')
      /\ \A n \in upValid \ upRefused : \E k \in 1..Len(upJobs) : In(n, upJobs[k])
      /\ \A n \in upRefused : n + 1 \in upValid \ upRefused =>
           \A k \in 1..Len(upJobs) : In(n, upJobs[k]) <=> In(n + 1, upJobs[k])
  BY <1>6 DEF SpeechInv
<1>. QED BY <1>2, <1>4, <1>5, <1>6, <1>7, <1>8 DEF SpeechInv

\* A segment ends without a job: without speech, or refused, which keeps what
\* is buffered.
LEMMA SpeechEnds ==
  ASSUME SpeechInv, upSpeaking, upSpeaking' = FALSE, upSegment' = upSegment + 1,
         upJobs' = upJobs,
         \/ upAudio' = << >> /\ UNCHANGED <<upValid, upRefused>>
         \/ /\ upAudio' = upAudio
            /\ upValid' = upValid \cup {upSegment}
            /\ upRefused' = upRefused \cup {upSegment}
  PROVE  SpeechInv'
<1>1. upSegment \in Nat \ {0} /\ upSegment' \in Nat \ {0} /\ In(upSegment, upAudio)
  BY DEF SpeechInv
<1>2. /\ upAudio' \in Seq(Nat)
      /\ \A i \in 1..Len(upAudio') : upAudio'[i] \in 1..upSegment'
      /\ \A n : In(n, upAudio') => In(n, upAudio) /\ n \in 1..upSegment
      /\ Rising(upAudio')
  <2>1. CASE upAudio' = << >>
    <3>1. Len(upAudio') = 0 /\ upAudio' \in Seq(Nat)
      BY <2>1
    <3>. QED BY <3>1 DEF In, Rising
  <2>2. CASE upAudio' = upAudio
    <3>1. \A n \in 1..upSegment : n \in 1..upSegment'
      BY <1>1
    <3>. QED BY <2>2, <3>1 DEF SpeechInv, In
  <2>. QED BY <2>1, <2>2
<1>3. ~In(upSegment', upAudio')
  BY <1>1, <1>2
<1>4. /\ upJobs \in Seq(Seq(Nat)) /\ \A k \in 1..Len(upJobs) : Rising(upJobs[k])
      /\ \A k \in 1..Len(upJobs) : \A n : In(n, upJobs[k]) =>
           /\ n \in Nat /\ n < upSegment /\ ~In(n, upAudio)
           /\ \A l \in 1..Len(upJobs) : In(n, upJobs[l]) => k = l
      /\ \A n \in upValid : n \in Nat /\ n < upSegment
      /\ upRefused \subseteq upValid
      /\ \A n \in upRefused : n + 1 = upSegment => In(n, upAudio)
      /\ \A n \in upValid \ upRefused : \E k \in 1..Len(upJobs) : In(n, upJobs[k])
      /\ \A n \in upRefused : n + 1 \in upValid \ upRefused =>
           \A k \in 1..Len(upJobs) : In(n, upJobs[k]) <=> In(n + 1, upJobs[k])
  BY DEF SpeechInv
<1>5. \A n \in Nat : n < upSegment => n < upSegment' /\ n + 1 # upSegment'
  BY <1>1
<1>6. \A k \in 1..Len(upJobs) : \A n : In(n, upJobs[k]) =>
        /\ n \in Nat /\ n < upSegment' /\ ~In(n, upAudio')
        /\ \A l \in 1..Len(upJobs) : In(n, upJobs[l]) => k = l
  BY <1>2, <1>4, <1>5
<1>7. CASE upAudio' = << >> /\ UNCHANGED <<upValid, upRefused>>
  <2>1. /\ \A n \in upValid : n \in Nat /\ n < upSegment'
        /\ \A n \in upRefused : n + 1 # upSegment'
    BY <1>4, <1>5
  <2>. QED BY <1>1, <1>2, <1>3, <1>4, <1>6, <1>7, <2>1 DEF SpeechInv
<1>8. CASE /\ upAudio' = upAudio
           /\ upValid' = upValid \cup {upSegment}
           /\ upRefused' = upRefused \cup {upSegment}
  <2>1. /\ \A n \in upValid' : n \in Nat /\ n < upSegment'
        /\ upRefused' \subseteq upValid'
        /\ \A n \in upRefused' : n + 1 = upSegment' => In(n, upAudio')
    BY <1>1, <1>4, <1>5, <1>8
  <2>2. upValid' \ upRefused' = upValid \ upRefused
    <3>1. upSegment \notin upValid
      BY <1>1, <1>4
    <3>. QED BY <1>8, <3>1
  <2>3. \A n \in upRefused' : n + 1 \in upValid \ upRefused =>
          \A k \in 1..Len(upJobs) : In(n, upJobs[k]) <=> In(n + 1, upJobs[k])
    <3>1. upSegment + 1 \notin upValid
      BY <1>1, <1>4
    <3>. QED BY <1>4, <1>8, <3>1
  <2>. QED BY <1>1, <1>2, <1>3, <1>4, <1>6, <2>1, <2>2, <2>3 DEF SpeechInv
<1>. QED BY <1>7, <1>8

\* A commit is accepted: what was buffered is a job.
LEMMA SpeechCommitted ==
  ASSUME SpeechInv, upSpeaking, upSpeaking' = FALSE, upSegment' = upSegment + 1,
         upJobs' = Append(upJobs, upAudio), upAudio' = << >>,
         upValid' = upValid \cup {upSegment}, upRefused' = upRefused
  PROVE  SpeechInv'
<1>1. upSegment \in Nat \ {0} /\ upSegment' \in Nat \ {0} /\ In(upSegment, upAudio)
  BY DEF SpeechInv
<1>2. /\ upJobs \in Seq(Seq(Nat)) /\ \A k \in 1..Len(upJobs) : Rising(upJobs[k])
      /\ \A k \in 1..Len(upJobs) : \A n : In(n, upJobs[k]) =>
           /\ n \in Nat /\ n < upSegment /\ ~In(n, upAudio)
           /\ \A l \in 1..Len(upJobs) : In(n, upJobs[l]) => k = l
      /\ \A n \in upValid : n \in Nat /\ n < upSegment
      /\ upRefused \subseteq upValid
      /\ \A n \in upRefused : n + 1 = upSegment => In(n, upAudio)
      /\ \A n \in upValid \ upRefused : \E k \in 1..Len(upJobs) : In(n, upJobs[k])
      /\ \A n \in upRefused : n + 1 \in upValid \ upRefused =>
           \A k \in 1..Len(upJobs) : In(n, upJobs[k]) <=> In(n + 1, upJobs[k])
      /\ upAudio \in Seq(Nat) /\ Rising(upAudio)
      /\ \A i \in 1..Len(upAudio) : upAudio[i] \in 1..upSegment
  BY DEF SpeechInv
<1>3. /\ upJobs' \in Seq(Seq(Nat)) /\ Len(upJobs') = Len(upJobs) + 1
      /\ Len(upJobs) \in Nat
      /\ upJobs'[Len(upJobs) + 1] = upAudio
      /\ \A k \in 1..Len(upJobs) : upJobs'[k] = upJobs[k]
  BY <1>2, AddedLast
<1>. DEFINE last == Len(upJobs) + 1
<1>4. /\ \A k \in 1..Len(upJobs') : k = last \/ k \in 1..Len(upJobs)
      /\ last \in 1..Len(upJobs') /\ last \notin 1..Len(upJobs)
      /\ \A k \in 1..Len(upJobs) : k \in 1..Len(upJobs')
  BY <1>3
<1>5. upJobs'[last] = upAudio
  BY <1>3
<1>. HIDE DEF last
<1>6. upAudio' \in Seq(Nat) /\ Len(upAudio') = 0
  OBVIOUS
<1>7. Rising(upAudio') /\ \A n : ~In(n, upAudio')
  BY <1>6 DEF Rising, In
<1>8. \A n : In(n, upAudio) => n \in Nat /\ n < upSegment'
  BY <1>1, <1>2 DEF In
<1>9. \A n \in Nat : n < upSegment => n < upSegment' /\ n + 1 # upSegment'
  BY <1>1
<1>10. \A k \in 1..Len(upJobs') : \A n : In(n, upJobs'[k]) =>
         /\ n \in Nat /\ n < upSegment' /\ ~In(n, upAudio')
         /\ \A l \in 1..Len(upJobs') : In(n, upJobs'[l]) => k = l
  <2>. SUFFICES ASSUME NEW k \in 1..Len(upJobs'), NEW n, In(n, upJobs'[k])
                PROVE  /\ n \in Nat /\ n < upSegment' /\ ~In(n, upAudio')
                       /\ \A l \in 1..Len(upJobs') : In(n, upJobs'[l]) => k = l
    OBVIOUS
  <2>1. CASE k = last
    <3>1. In(n, upAudio)
      BY <1>5, <2>1
    <3>2. \A l \in 1..Len(upJobs) : ~In(n, upJobs[l])
      BY <1>2, <3>1
    <3>. QED BY <1>3, <1>4, <1>7, <1>8, <2>1, <3>1, <3>2
  <2>2. CASE k \in 1..Len(upJobs)
    <3>1. In(n, upJobs[k])
      BY <1>3, <2>2
    <3>2. /\ n \in Nat /\ n < upSegment /\ ~In(n, upAudio)
          /\ \A l \in 1..Len(upJobs) : In(n, upJobs[l]) => k = l
      BY <1>2, <2>2, <3>1
    <3>3. n < upSegment'
      BY <1>9, <3>2
    <3>4. \A l \in 1..Len(upJobs') : In(n, upJobs'[l]) => k = l
      BY <1>3, <1>4, <1>5, <3>2
    <3>. QED BY <1>7, <3>2, <3>3, <3>4
  <2>. QED BY <1>4, <2>1, <2>2
<1>11. \A k \in 1..Len(upJobs') : Rising(upJobs'[k])
  BY <1>2, <1>3, <1>4, <1>5
<1>12. /\ \A n \in upValid' : n \in Nat /\ n < upSegment'
       /\ upRefused' \subseteq upValid'
       /\ \A n \in upRefused' : n + 1 # upSegment'
       /\ upSegment \notin upValid
  BY <1>1, <1>2, <1>9
<1>13. \A n \in upValid' \ upRefused' : \E k \in 1..Len(upJobs') : In(n, upJobs'[k])
  <2>1. CASE TRUE
    <3>1. ASSUME NEW n \in upValid \ upRefused
          PROVE  \E k \in 1..Len(upJobs') : In(n, upJobs'[k])
      BY <1>2, <1>3, <1>4
    <3>2. In(upSegment, upJobs'[last])
      BY <1>1, <1>5
    <3>. QED BY <1>4, <3>1, <3>2
  <2>. QED BY <2>1
<1>14. \A n \in upRefused' : n + 1 \in upValid' \ upRefused' =>
         \A k \in 1..Len(upJobs') : In(n, upJobs'[k]) <=> In(n + 1, upJobs'[k])
  <2>. SUFFICES ASSUME NEW n \in upRefused, n + 1 \in upValid' \ upRefused,
                       NEW k \in 1..Len(upJobs')
                PROVE  In(n, upJobs'[k]) <=> In(n + 1, upJobs'[k])
    OBVIOUS
  <2>1. CASE n + 1 = upSegment
    <3>1. In(n, upAudio) /\ In(n + 1, upAudio)
      BY <1>1, <1>2, <2>1
    <3>2. \A l \in 1..Len(upJobs) : ~In(n, upJobs[l]) /\ ~In(n + 1, upJobs[l])
      BY <1>2, <3>1
    <3>. QED BY <1>3, <1>4, <1>5, <3>1, <3>2
  <2>2. CASE n + 1 # upSegment
    <3>1. n + 1 \in upValid \ upRefused
      BY <2>2
    <3>2. \A l \in 1..Len(upJobs) : In(n, upJobs[l]) <=> In(n + 1, upJobs[l])
      BY <1>2, <3>1
    <3>3. PICK l \in 1..Len(upJobs) : In(n + 1, upJobs[l])
      BY <1>2, <3>1
    <3>4. ~In(n, upAudio) /\ ~In(n + 1, upAudio)
      BY <1>2, <3>2, <3>3
    <3>. QED BY <1>3, <1>4, <1>5, <3>2, <3>4
  <2>. QED BY <2>1, <2>2
<1>15. /\ ~In(upSegment', upAudio') /\ upSpeaking' = FALSE
       /\ \A i \in 1..Len(upAudio') : upAudio'[i] \in 1..upSegment'
  BY <1>6, <1>7
<1>16. \A n \in upRefused' : n + 1 = upSegment' => In(n, upAudio')
  BY <1>12
<1>. HIDE DEF last
<1>. QED BY <1>1, <1>3, <1>6, <1>7, <1>10, <1>11, <1>12, <1>13, <1>14, <1>15, <1>16
         DEF SpeechInv

LEMMA SpeechStep ==
  ASSUME UploadInv, Upload!UploadNext \/ UNCHANGED uploads
  PROVE  SpeechInv'
<1>0. SpeechInv
  BY DEF UploadInv
<1>1. CASE Upload!Speak
  <2>1. /\ UNCHANGED <<upSegment, upJobs, upRefused, upValid>>
        /\ \/ upAudio' = Append(upAudio, upSegment) /\ upSpeaking' = TRUE
           \/ UNCHANGED <<upAudio, upSpeaking>>
    BY <1>1 DEF Upload!Speak
  <2>2. CASE UNCHANGED <<upAudio, upSpeaking>>
    BY <1>0, <2>1, <2>2 DEF SpeechInv
  <2>. QED BY <1>0, <2>1, <2>2, SpeechSpoken
<1>2. CASE Upload!Discard
  <2>1. /\ upSpeaking /\ upSpeaking' = FALSE /\ upSegment' = upSegment + 1
        /\ upJobs' = upJobs /\ upAudio' = << >> /\ UNCHANGED <<upValid, upRefused>>
    BY <1>2 DEF Upload!Discard, Upload!EndSegment
  <2>. QED BY <1>0, <2>1, SpeechEnds
<1>3. CASE Upload!Commit
  <2>1. /\ upSpeaking /\ upSpeaking' = FALSE /\ upSegment' = upSegment + 1
        /\ upValid' = upValid \cup {upSegment}
        /\ \/ /\ upJobs' = Append(upJobs, upAudio) /\ upAudio' = << >>
              /\ upRefused' = upRefused
           \/ /\ upRefused' = upRefused \cup {upSegment}
              /\ UNCHANGED <<upJobs, upAudio>>
    BY <1>3 DEF Upload!Commit, Upload!EndSegment
  <2>. QED BY <1>0, <2>1, SpeechEnds, SpeechCommitted
<1>4. CASE UNCHANGED <<upSegment, upSpeaking, upAudio, upJobs, upRefused, upValid>>
  BY <1>0, <1>4 DEF SpeechInv
<1>. QED BY <1>1, <1>2, <1>3, <1>4
         DEF Upload!UploadNext, Upload!Worker, uploads, Upload!session,
             Upload!Receive, Upload!StopDraining, Upload!StopDiscarding, Upload!Drain,
             Upload!Publish, Upload!TakeJob, Upload!Upload, Upload!SendEvent

LEMMA UploadStep ==
  ASSUME UploadInv, Upload!UploadNext \/ UNCHANGED uploads
  PROVE  UploadInv'
BY OutcomeStep, SpeechStep DEF UploadInv

\* What the invariants say of the uploads
LEMMA UploadsInOrder ==
  ASSUME UploadInv
  PROVE  Upload!OutcomesInOrder /\ Upload!SpeechIsUploadedOnce
<1>1. Upload!OutcomesInOrder
  <2>1. upShown \in Seq(Nat) /\ \A k \in 1..Len(upShown) : upShown[k] = k
    BY UploadLens DEF UploadInv, OutcomeInv, UploadTypes
  <2>2. upShown = [k \in 1..Len(upShown) |-> k]
    BY <2>1
  <2>. QED BY <2>2 DEF UploadInv, OutcomeInv, Upload!OutcomesInOrder
<1>2. \A n : Upload!InJob(n) = {k \in 1..Len(upJobs) : In(n, upJobs[k])}
  <2>1. DOMAIN upJobs = 1..Len(upJobs) /\ \A k \in 1..Len(upJobs) : upJobs[k] \in Seq(Nat)
    BY DEF UploadInv, SpeechInv
  <2>2. \A a \in Seq(Nat) : \A n : n \in Upload!Range(a) <=> In(n, a)
    BY DEF Upload!Range, In
  <2>. QED BY <2>1, <2>2 DEF Upload!InJob
<1>3. \A n : Upload!Cardinality(Upload!InJob(n)) <= 1
  <2>. SUFFICES ASSUME NEW n PROVE Upload!Cardinality(Upload!InJob(n)) <= 1
    OBVIOUS
  <2>1. \A S : Upload!Cardinality(S) = Cardinality(S)
    BY DEF Upload!Cardinality, Cardinality
  <2>2. \A k, l \in Upload!InJob(n) : k = l
    BY <1>2 DEF UploadInv, SpeechInv
  <2>3. Upload!InJob(n) = {} \/ \E k : Upload!InJob(n) = {k}
    BY <2>2
  <2>4. Cardinality(Upload!InJob(n)) \in {0, 1}
    BY <2>3, FS_EmptySet, FS_Singleton
  <2>. QED BY <2>1, <2>4
<1>4. \A n \in upValid \ upRefused : Upload!InJob(n) # {}
  BY <1>2 DEF UploadInv, SpeechInv
<1>5. \A n \in upRefused : n + 1 \in upValid \ upRefused =>
        Upload!InJob(n) = Upload!InJob(n + 1)
  BY <1>2 DEF UploadInv, SpeechInv
<1>6. \A k \in DOMAIN upJobs, i, j \in 1..MaxAudio :
        i < j /\ j <= Len(upJobs[k]) => upJobs[k][i] <= upJobs[k][j]
  <2>. SUFFICES ASSUME NEW k \in DOMAIN upJobs, NEW i \in 1..MaxAudio,
                       NEW j \in 1..MaxAudio, i < j, j <= Len(upJobs[k])
                PROVE  upJobs[k][i] <= upJobs[k][j]
    OBVIOUS
  <2>1. k \in 1..Len(upJobs) /\ Rising(upJobs[k]) /\ upJobs[k] \in Seq(Nat)
    <3>1. /\ upJobs \in Seq(Seq(Nat))
          /\ \A l \in 1..Len(upJobs) : Rising(upJobs[l])
      BY DEF UploadInv, SpeechInv
    <3>2. DOMAIN upJobs = 1..Len(upJobs)
      BY <3>1
    <3>3. k \in 1..Len(upJobs)
      BY <3>2
    <3>. QED BY <3>1, <3>3
  <2>2. i \in 1..Len(upJobs[k]) /\ j \in 1..Len(upJobs[k])
    BY <2>1, UploadBounds DEF Upload!UploadAssumption
  <2>. QED BY <2>1, <2>2 DEF Rising
<1>. QED BY <1>1, <1>3, <1>4, <1>5, <1>6 DEF Upload!SpeechIsUploadedOnce

-----------------------------------------------------------------------------
(* VisionQuestion: what is shown as going on                               *)

Works(kind) ==
  \E t \in vqTasks : t.mode = "desktop" /\ t.id = vqDesktop.id /\ t.kind = kind
Answers == \E t \in vqTasks : t.mode = "vr" /\ t.id = vqVr.id
\* The panel's question was answered after its n-th update.
Answered(n) ==
  \E j \in n + 1..Len(vqUpdates) :
    vqUpdates[j].id = vqVr.id /\ vqUpdates[j].kind \in {"answer", "error"}

DeskInv ==
  /\ vqDesktop.state \in {"capturing", "selecting"} => Works("capture")
  /\ vqDesktop.state = "recording" =>
       /\ Works("record") /\ vqDesktop.recording # None
       /\ <<"desktop", vqDesktop.id>> \in vqHolding
  /\ vqDesktop.state = "finalizing_asr" => Works("finalize")
  /\ vqDesktop.state = "requesting" => Works("ask")

(***************************************************************************)
(* A task answers the panel's question, or has answered it, from the       *)
(* moment the microphone is released.  An update that a request has begun  *)
(* is followed by the answer, unless its task still works on it.           *)
(***************************************************************************)
PanelInv ==
  /\ vqVr.view = "listening" => vqVr.session /\ <<"vr", vqVr.id>> \in vqHolding
  /\ vqVr.view \in {"finalizing", "requesting"} => Answers \/ Answered(0)
  /\ \A t \in vqTasks : t.mode = "vr" =>
       t.id <= vqVr.id /\ (vqVr.session => t.id # vqVr.id)
  /\ \A i \in 1..Len(vqUpdates) :
       /\ vqUpdates[i].id <= vqVr.id
       /\ vqUpdates[i].id = vqVr.id /\ vqUpdates[i].kind = "requesting" =>
            Answers \/ Answered(i)

\* Nothing happens to the manager, and the tasks it waits for go on.
LEMMA DeskStays ==
  ASSUME DeskInv,
         vqDesktop'.state = vqDesktop.state, vqDesktop'.id = vqDesktop.id,
         vqDesktop'.recording = vqDesktop.recording,
         <<"desktop", vqDesktop.id>> \in vqHolding =>
           <<"desktop", vqDesktop.id>> \in vqHolding',
         \A t \in vqTasks :
           /\ t.mode = "desktop" /\ t.id = vqDesktop.id
           /\ t.kind = "record" => vqDesktop.recording # None
           => \E s \in vqTasks' : /\ s.mode = "desktop" /\ s.id = vqDesktop.id
                                  /\ s.kind = t.kind
  PROVE  DeskInv'
<1>1. \A kind : Works(kind) /\ (kind = "record" => vqDesktop.recording # None)
                  => Works(kind)'
  BY DEF Works
<1>. QED BY <1>1 DEF DeskInv

\* Nothing is going on.
LEMMA DeskRests ==
  ASSUME vqDesktop'.state \in {"idle", "editing", "disabled", "complete", "error"}
  PROVE  DeskInv'
BY DEF DeskInv

LEMMA DeskIdles ==
  ASSUME NEW d \in DesktopState
  PROVE  /\ Vision!Cancelled(d).state \in {"idle", "editing", "disabled"}
         /\ Vision!Cleared(d).state \in {"idle", "editing", "disabled"}
<1>1. \A e : Vision!Idle(e) \in {"idle", "editing", "disabled"}
  BY DEF Vision!Idle
<1>2. Vision!Cancelled(d).state \in {"idle", "editing", "disabled"}
  <2>. DEFINE c == [d EXCEPT !.id = @ + 1, !.recording = None]
  <2>1. "state" \in DOMAIN c
    BY DEF DesktopState
  <2>2. Vision!Cancelled(d) = [c EXCEPT !.state = Vision!Idle(c)]
    BY DEF Vision!Cancelled
  <2>. HIDE DEF c
  <2>. QED BY <1>1, <2>1, <2>2
<1>3. Vision!Cleared(d).state \in {"idle", "editing", "disabled"}
  <2>. DEFINE c == [Vision!Cancelled(d) EXCEPT !.image = None, !.answer = None,
                                               !.cleared = d.id + 1]
  <2>1. "state" \in DOMAIN c
    BY VisionDesktops DEF DesktopState
  <2>2. Vision!Cleared(d) = [c EXCEPT !.state = Vision!Idle(c)]
    BY DEF Vision!Cleared
  <2>. HIDE DEF c
  <2>. QED BY <1>1, <2>1, <2>2
<1>. QED BY <1>2, <1>3

LEMMA DeskDesktop ==
  ASSUME VisionTypes, DeskInv, Vision!Desktop
  PROVE  DeskInv'
<1>0. vqDesktop \in DesktopState /\ vqSettings \in Nat
  BY DEF VisionTypes
<1>1. ASSUME NEW kind, NEW data,
             Vision!Task("desktop", kind, vqDesktop'.id, data) \in vqTasks'
      PROVE  Works(kind)'
  BY <1>1 DEF Works, Vision!Task
<1>. DEFINE c == Vision!Cancelled(vqDesktop)
<1>2. c \in DesktopState /\ c.id = vqDesktop.id + 1
  BY <1>0, VisionDesktops
<1>3. CASE Vision!CaptureStart
  <2>1. /\ vqDesktop' = [c EXCEPT !.state = "capturing"]
        /\ Vision!Task("desktop", "capture", vqDesktop.id + 1, << >>) \in vqTasks'
    BY <1>3 DEF Vision!CaptureStart
  <2>. HIDE DEF c
  <2>2. vqDesktop'.id = vqDesktop.id + 1 /\ vqDesktop'.state = "capturing"
    BY <1>2, <2>1 DEF DesktopState
  <2>3. Works("capture")'
    BY <1>1, <2>1, <2>2
  <2>. QED BY <2>2, <2>3 DEF DeskInv
<1>4. CASE Vision!CaptureRefused
  <2>1. vqDesktop'.state = "error"
    BY <1>0, <1>4 DEF Vision!CaptureRefused, DesktopState
  <2>. QED BY <2>1, DeskRests
<1>5. CASE Vision!CancelDesktop \/ Vision!CloseDesktop
  <2>1. vqDesktop'.state \in {"idle", "editing", "disabled"}
    BY <1>0, <1>5, DeskIdles DEF Vision!CancelDesktop, Vision!CloseDesktop
  <2>. QED BY <2>1, DeskRests
<1>6. CASE Vision!StopDesktop
  <2>. DEFINE d == [vqDesktop EXCEPT !.service = FALSE, !.available = FALSE]
  <2>1. d \in DesktopState
    BY <1>0 DEF DesktopState
  <2>2. vqDesktop' = Vision!Cleared(d)
    BY <1>6 DEF Vision!StopDesktop
  <2>. HIDE DEF d
  <2>3. vqDesktop'.state \in {"idle", "editing", "disabled"}
    BY <2>1, <2>2, DeskIdles
  <2>. QED BY <2>3, DeskRests
<1>7. CASE Vision!StartDesktop
  <2>1. /\ vqDesktop' = [vqDesktop EXCEPT !.service = TRUE]
        /\ vqTasks' = vqTasks /\ vqHolding' = vqHolding
    BY <1>7 DEF Vision!StartDesktop, Vision!microphone, Vision!session
  <2>2. /\ vqDesktop'.state = vqDesktop.state /\ vqDesktop'.id = vqDesktop.id
        /\ vqDesktop'.recording = vqDesktop.recording
    BY <1>0, <2>1 DEF DesktopState
  <2>. QED BY <2>1, <2>2, DeskStays
<1>8. CASE Vision!Configure
  <2>. DEFINE d == [vqDesktop EXCEPT !.available = vqEnabled]
  <2>1. /\ vqTasks' = vqTasks
        /\ IF d.available
           THEN /\ vqDesktop' = IF d.state = "disabled" THEN [d EXCEPT !.state = "idle"]
                                                        ELSE d
                /\ vqHolding' = vqHolding
           ELSE vqDesktop' = Vision!Cleared(d)
    BY <1>8 DEF Vision!Configure, Vision!session
  <2>2. /\ d \in DesktopState /\ d.state = vqDesktop.state /\ d.id = vqDesktop.id
        /\ d.recording = vqDesktop.recording
    BY <1>0 DEF DesktopState, VisionTypes
  <2>. HIDE DEF d
  <2>3. CASE d.available /\ d.state = "disabled"
    <3>1. vqDesktop'.state = "idle"
      BY <2>1, <2>2, <2>3 DEF DesktopState
    <3>. QED BY <3>1, DeskRests
  <2>4. CASE d.available /\ d.state # "disabled"
    <3>1. vqDesktop' = d /\ vqHolding' = vqHolding
      BY <2>1, <2>4
    <3>. QED BY <2>1, <2>2, <3>1, DeskStays
  <2>5. CASE ~d.available
    <3>1. vqDesktop'.state \in {"idle", "editing", "disabled"}
      BY <2>1, <2>2, <2>5, DeskIdles
    <3>. QED BY <3>1, DeskRests
  <2>. QED BY <2>3, <2>4, <2>5
<1>9. CASE Vision!Ask
  <2>1. /\ vqDesktop' = [c EXCEPT !.state = "requesting", !.answer = None]
        /\ Vision!Task("desktop", "ask", vqDesktop.id + 1, <<vqDesktop.image>>)
             \in vqTasks'
    BY <1>9 DEF Vision!Ask
  <2>. HIDE DEF c
  <2>2. vqDesktop'.id = vqDesktop.id + 1 /\ vqDesktop'.state = "requesting"
    BY <1>2, <2>1 DEF DesktopState
  <2>3. Works("ask")'
    BY <1>1, <2>1, <2>2
  <2>. QED BY <2>2, <2>3 DEF DeskInv
<1>10. CASE Vision!StartRecording
  <2>1. CASE /\ Vision!Begin(Vision!NextQuestion)
             /\ vqDesktop' = [c EXCEPT !.state = "recording", !.recording = vqSettings]
             /\ Vision!Task("desktop", "record", vqDesktop.id + 1, << >>) \in vqTasks'
    <3>. HIDE DEF c
    <3>1. /\ vqDesktop'.id = vqDesktop.id + 1 /\ vqDesktop'.state = "recording"
          /\ vqDesktop'.recording = vqSettings
      BY <1>2, <2>1 DEF DesktopState
    <3>2. Works("record")'
      BY <1>1, <2>1, <3>1
    <3>3. <<"desktop", vqDesktop'.id>> \in vqHolding'
      BY <2>1, <3>1 DEF Vision!Begin, Vision!NextQuestion
    <3>4. vqSettings # None
      BY <1>0, VisionBounds DEF Vision!QuestionAssumption
    <3>. QED BY <3>1, <3>2, <3>3, <3>4 DEF DeskInv
  <2>2. CASE vqDesktop' = [vqDesktop EXCEPT !.state = "error"]
    <3>1. vqDesktop'.state = "error"
      BY <1>0, <2>2 DEF DesktopState
    <3>. QED BY <3>1, DeskRests
  <2>. QED BY <1>10, <2>1, <2>2 DEF Vision!StartRecording
<1>11. CASE Vision!FinishRecording
  <2>1. /\ vqDesktop' = [vqDesktop EXCEPT !.state = "finalizing_asr", !.recording = None]
        /\ Vision!Task("desktop", "finalize", vqDesktop.id, <<vqDesktop.recording>>)
             \in vqTasks'
    BY <1>11 DEF Vision!FinishRecording
  <2>2. vqDesktop'.id = vqDesktop.id /\ vqDesktop'.state = "finalizing_asr"
    BY <1>0, <2>1 DEF DesktopState
  <2>3. Works("finalize")'
    BY <1>1, <2>1, <2>2
  <2>. QED BY <2>2, <2>3 DEF DeskInv
<1>. QED BY <1>3, <1>4, <1>5, <1>6, <1>7, <1>8, <1>9, <1>10, <1>11
         DEF Vision!Desktop

(***************************************************************************)
(* What a step of the task t does to the others and to the microphone.  It *)
(* goes on as n, or it ends; an update it sends is about itself, and it    *)
(* ends with an answer.                                                    *)
(***************************************************************************)
GoesOn(t) ==
  \E n \in vqTasks' : /\ n.mode = t.mode /\ n.id = t.id /\ n.kind = t.kind
                      /\ vqTasks' = (vqTasks \ {t}) \cup {n}

LEMMA WorkLeaves ==
  ASSUME VisionTypes, ContentInv, NEW t \in vqTasks,
         Vision!Work(t) \/ Vision!Selected(t)
  PROVE  /\ vqVr' = vqVr
         /\ GoesOn(t) \/ Vision!Ends(t)
         /\ \A q \in vqHolding : q \in vqHolding' \/ q = <<t.mode, t.id>>
                                 \/ q = <<"desktop", vqDesktop.id>>
         /\ \/ vqUpdates' = vqUpdates
            \/ t.mode = "vr" /\ GoesOn(t) /\ Vision!Send(t, "requesting")
            \/ t.mode = "vr" /\ \E kind \in {"answer", "error"} : Vision!Send(t, kind)
         /\ t.mode = "vr" /\ Vision!Current(t) =>
              GoesOn(t) \/ \E kind \in {"answer", "error"} : Vision!Send(t, kind)
<1>0. t \in TaskState /\ vqTasks \subseteq TaskState
      /\ (t.mode = "vr" <=> t.kind = "answer")
  BY DEF VisionTypes, ContentInv, TaskState
<1>1. ASSUME NEW n, n.mode = t.mode, n.id = t.id, n.kind = t.kind,
             vqTasks' = (vqTasks \ {t}) \cup {n}
      PROVE  GoesOn(t)
  BY <1>1 DEF GoesOn
<1>2. ASSUME NEW stage, Vision!At(t, stage)
      PROVE  GoesOn(t)
  <2>. DEFINE n == [t EXCEPT !.stage = stage]
  <2>1. n.mode = t.mode /\ n.id = t.id /\ n.kind = t.kind
    BY <1>0 DEF TaskState
  <2>2. vqTasks' = (vqTasks \ {t}) \cup {n}
    BY <1>2 DEF Vision!At
  <2>. HIDE DEF n
  <2>. QED BY <1>1, <2>1, <2>2
<1>3. \A q : Vision!Drop(q) => \A p \in vqHolding : p \in vqHolding' \/ p = q
  BY DEF Vision!Drop
<1>4. vqVr' = vqVr
  BY DEF Vision!Work, Vision!Selected, Vision!ScreenTaken, Vision!CaptureEnds,
      Vision!AskStarts, Vision!AskEnds, Vision!RecordEnds, Vision!FinalizeEnds,
      Vision!AnswerFinalized, Vision!AnswerEnds, Vision!DropTask
<1>5. CASE Vision!ScreenTaken(t) \/ Vision!Selected(t) \/ Vision!CaptureEnds(t)
  <2>1. t.mode # "vr" /\ vqUpdates' = vqUpdates /\ vqHolding' = vqHolding
        /\ ((\E stage : Vision!At(t, stage)) \/ Vision!Ends(t))
    BY <1>0, <1>5 DEF Vision!ScreenTaken, Vision!Selected, Vision!CaptureEnds,
       Vision!microphone, Vision!session
  <2>. QED BY <1>2, <1>4, <2>1
<1>6. CASE Vision!AskStarts(t)
  <2>. DEFINE n == [t EXCEPT !.stage = "request", !.data = Append(@, vqSettings)]
  <2>1. n.mode = t.mode /\ n.id = t.id /\ n.kind = t.kind
    BY <1>0 DEF TaskState
  <2>2. vqTasks' = (vqTasks \ {t}) \cup {n} /\ vqUpdates' = vqUpdates
        /\ vqHolding' = vqHolding /\ t.mode # "vr"
    BY <1>0, <1>6 DEF Vision!AskStarts, Vision!microphone, Vision!session
  <2>. HIDE DEF n
  <2>3. GoesOn(t)
    BY <1>1, <2>1, <2>2
  <2>. QED BY <1>4, <2>2, <2>3
<1>7. CASE Vision!AskEnds(t) \/ Vision!RecordEnds(t) \/ Vision!FinalizeEnds(t)
  <2>1. /\ t.mode # "vr" /\ vqUpdates' = vqUpdates /\ Vision!Ends(t)
        /\ \/ vqHolding' = vqHolding
           \/ Vision!Drop(<<"desktop", vqDesktop.id>>)
           \/ Vision!Drop(<<t.mode, t.id>>)
    BY <1>0, <1>7 DEF Vision!AskEnds, Vision!RecordEnds, Vision!FinalizeEnds,
       Vision!microphone, Vision!session, Vision!Unheld, Vision!Question
  <2>. QED BY <1>3, <1>4, <2>1
<1>8. CASE Vision!AnswerFinalized(t)
  <2>1. /\ t.mode = "vr" /\ Vision!Send(t, "requesting")
        /\ Vision!Drop(<<t.mode, t.id>>) /\ Vision!At(t, "request")
    BY <1>0, <1>8 DEF Vision!AnswerFinalized
  <2>2. GoesOn(t)
    BY <1>2, <2>1
  <2>. QED BY <1>3, <1>4, <2>1, <2>2
<1>9. CASE Vision!AnswerEnds(t)
  <2>1. /\ t.mode = "vr" /\ Vision!Ends(t) /\ Vision!Drop(<<t.mode, t.id>>)
        /\ \E kind \in {"answer", "error"} : Vision!Send(t, kind)
    BY <1>0, <1>9 DEF Vision!AnswerEnds
  <2>. QED BY <1>3, <1>4, <2>1
<1>10. CASE Vision!DropTask(t)
  <2>1. /\ Vision!Ends(t) /\ vqUpdates' = vqUpdates
        /\ t.mode = "vr" => ~Vision!Current(t)
        /\ vqHolding' = vqHolding \/ Vision!Drop(<<t.mode, t.id>>)
    BY <1>0, <1>10 DEF Vision!DropTask, Vision!session
  <2>. QED BY <1>3, <1>4, <2>1
<1>. QED BY <1>5, <1>6, <1>7, <1>8, <1>9, <1>10 DEF Vision!Work

LEMMA DeskWork ==
  ASSUME VisionTypes, ContentInv, DeskInv, NEW t \in vqTasks,
         Vision!Work(t) \/ Vision!Selected(t)
  PROVE  DeskInv'
<1>0. /\ vqDesktop \in DesktopState /\ t \in TaskState
      /\ t.mode = "vr" => t.kind = "answer"
      /\ t.mode # "vr" => t.mode = "desktop"
      /\ t.kind # "answer" => t.mode = "desktop"
  BY DEF VisionTypes, ContentInv, TaskState
<1>. DEFINE Others == \A s \in vqTasks : s # t => s \in vqTasks'
            Same   == vqDesktop' = vqDesktop
            StillHeld   == <<"desktop", vqDesktop.id>> \in vqHolding =>
                        <<"desktop", vqDesktop.id>> \in vqHolding'
            Mine   == t.mode = "desktop" /\ t.id = vqDesktop.id
                      /\ (t.kind = "record" => vqDesktop.recording # None)
<1>1. GoesOn(t) \/ Vision!Ends(t)
  BY WorkLeaves
<1>2. Others
  BY <1>1 DEF GoesOn, Vision!Ends
<1>3. Same /\ StillHeld /\ (GoesOn(t) \/ ~Mine) => DeskInv'
  <2>. SUFFICES ASSUME Same, StillHeld, GoesOn(t) \/ ~Mine PROVE DeskInv'
    OBVIOUS
  <2>1. ASSUME NEW s \in vqTasks, s.mode = "desktop", s.id = vqDesktop.id,
               s.kind = "record" => vqDesktop.recording # None
        PROVE  \E n \in vqTasks' : /\ n.mode = "desktop" /\ n.id = vqDesktop.id
                                   /\ n.kind = s.kind
    BY <1>2, <2>1 DEF GoesOn
  <2>. QED BY <2>1, DeskStays
<1>4. ASSUME NEW state \in {"selecting", "idle", "editing", "complete", "error"},
             vqDesktop'.state = state, state = "selecting" => Works("capture")'
      PROVE  DeskInv'
  BY <1>4 DEF DeskInv
<1>5. vqHolding' = vqHolding => StillHeld
  OBVIOUS
<1>6. ~Mine /\ (vqHolding' = vqHolding \/ Vision!Drop(<<t.mode, t.id>>))
        /\ t.kind # "record" => StillHeld
  BY <1>0 DEF Vision!Drop
<1>7. \A state \in {"selecting", "idle", "editing", "complete", "error"} :
        [vqDesktop EXCEPT !.state = state].state = state
  BY <1>0 DEF DesktopState
<1>8. CASE Vision!ScreenTaken(t)
  <2>1. t.kind = "capture" /\ vqHolding' = vqHolding
    BY <1>8 DEF Vision!ScreenTaken, Vision!microphone, Vision!session
  <2>2. CASE /\ Vision!Current(t) /\ Vision!At(t, "select")
             /\ vqDesktop' = [vqDesktop EXCEPT !.state = "selecting"]
    <3>1. GoesOn(t)
      <4>. DEFINE n == [t EXCEPT !.stage = "select"]
      <4>1. n.mode = t.mode /\ n.id = t.id /\ n.kind = t.kind
        BY <1>0 DEF TaskState
      <4>2. vqTasks' = (vqTasks \ {t}) \cup {n}
        BY <2>2 DEF Vision!At
      <4>. HIDE DEF n
      <4>. QED BY <4>1, <4>2 DEF GoesOn
    <3>2. vqDesktop'.id = vqDesktop.id /\ vqDesktop'.state = "selecting"
      BY <1>0, <2>2 DEF DesktopState
    <3>3. Works("capture")'
      BY <1>0, <2>1, <2>2, <3>1, <3>2 DEF Works, GoesOn, Vision!Current
    <3>. QED BY <1>4, <3>2, <3>3
  <2>3. CASE Vision!Update(t, [vqDesktop EXCEPT !.state = "error"])
    <3>1. CASE Vision!Current(t)
      BY <1>4, <1>7, <2>3, <3>1 DEF Vision!Update
    <3>2. CASE ~Vision!Current(t)
      <4>1. Same /\ ~Mine
        BY <1>0, <2>3, <3>2 DEF Vision!Update, Vision!Current
      <4>. QED BY <1>3, <1>5, <2>1, <4>1
    <3>. QED BY <3>1, <3>2
  <2>. QED BY <1>8, <2>2, <2>3 DEF Vision!ScreenTaken
<1>9. CASE Vision!Selected(t)
  <2>1. Same /\ vqHolding' = vqHolding /\ \E stage : Vision!At(t, stage)
    BY <1>9 DEF Vision!Selected, Vision!microphone, Vision!session
  <2>2. GoesOn(t)
    <3>1. PICK stage : Vision!At(t, stage)
      BY <2>1
    <3>. DEFINE n == [t EXCEPT !.stage = stage]
    <3>2. n.mode = t.mode /\ n.id = t.id /\ n.kind = t.kind
      BY <1>0 DEF TaskState
    <3>3. vqTasks' = (vqTasks \ {t}) \cup {n}
      BY <3>1 DEF Vision!At
    <3>. HIDE DEF n
    <3>. QED BY <3>2, <3>3 DEF GoesOn
  <2>. QED BY <1>3, <1>5, <2>1, <2>2
<1>10. CASE Vision!CaptureEnds(t)
  <2>1. t.kind = "capture" /\ vqHolding' = vqHolding
    BY <1>10 DEF Vision!CaptureEnds, Vision!microphone, Vision!session
  <2>2. CASE Vision!Current(t)
    <3>1. vqDesktop'.state \in {"editing", "idle", "error"}
      <4>1. \/ vqDesktop' = [vqDesktop EXCEPT !.image = t.id, !.answer = None,
                                              !.state = "editing"]
            \/ \E state \in {"editing", "idle", "error"} :
                 vqDesktop' = [vqDesktop EXCEPT !.state = state]
        BY <1>10, <2>2 DEF Vision!CaptureEnds, Vision!Update
      <4>2. [vqDesktop EXCEPT !.image = t.id, !.answer = None,
                              !.state = "editing"].state = "editing"
        BY <1>0 DEF DesktopState
      <4>. QED BY <1>7, <4>1, <4>2
    <3>. QED BY <1>4, <3>1
  <2>3. CASE ~Vision!Current(t)
    <3>1. Same /\ ~Mine
      BY <1>0, <1>10, <2>1, <2>3 DEF Vision!CaptureEnds, Vision!Update, Vision!Current
    <3>. QED BY <1>3, <1>5, <2>1, <3>1
  <2>. QED BY <2>2, <2>3
<1>11. CASE Vision!AskStarts(t)
  <2>1. Same /\ vqHolding' = vqHolding
    BY <1>11 DEF Vision!AskStarts, Vision!microphone, Vision!session
  <2>. DEFINE n == [t EXCEPT !.stage = "request", !.data = Append(@, vqSettings)]
  <2>2. n.mode = t.mode /\ n.id = t.id /\ n.kind = t.kind
    BY <1>0 DEF TaskState
  <2>3. vqTasks' = (vqTasks \ {t}) \cup {n}
    BY <1>11 DEF Vision!AskStarts
  <2>. HIDE DEF n
  <2>4. GoesOn(t)
    BY <2>2, <2>3 DEF GoesOn
  <2>. QED BY <1>3, <1>5, <2>1, <2>4
<1>12. CASE Vision!AskEnds(t)
  <2>1. t.kind = "ask" /\ vqHolding' = vqHolding
    BY <1>12 DEF Vision!AskEnds, Vision!microphone, Vision!session
  <2>2. CASE Vision!Current(t)
    <3>1. vqDesktop'.state \in {"complete", "error"}
      <4>1. \/ vqDesktop' = [vqDesktop EXCEPT !.answer = t.data[1],
                                              !.state = "complete"]
            \/ vqDesktop' = [vqDesktop EXCEPT !.state = "error"]
        BY <1>12, <2>2 DEF Vision!AskEnds, Vision!Update
      <4>2. [vqDesktop EXCEPT !.answer = t.data[1], !.state = "complete"].state
              = "complete"
        BY <1>0 DEF DesktopState
      <4>. QED BY <1>7, <4>1, <4>2
    <3>. QED BY <1>4, <3>1
  <2>3. CASE ~Vision!Current(t)
    <3>1. Same /\ ~Mine
      BY <1>0, <1>12, <2>1, <2>3 DEF Vision!AskEnds, Vision!Update, Vision!Current
    <3>. QED BY <1>3, <1>5, <2>1, <3>1
  <2>. QED BY <2>2, <2>3
<1>13. CASE Vision!RecordEnds(t)
  <2>1. CASE Vision!Current(t) /\ vqDesktop.recording # None
    <3>1. vqDesktop' = [vqDesktop EXCEPT !.recording = None, !.state = "error"]
      BY <1>13, <2>1 DEF Vision!RecordEnds
    <3>2. vqDesktop'.state = "error"
      BY <1>0, <3>1 DEF DesktopState
    <3>. QED BY <1>4, <3>2
  <2>2. CASE ~(Vision!Current(t) /\ vqDesktop.recording # None)
    <3>1. Same /\ vqHolding' = vqHolding /\ t.kind = "record"
      BY <1>13, <2>2 DEF Vision!RecordEnds, Vision!session
    <3>2. ~Mine
      BY <1>0, <2>2, <3>1 DEF Vision!Current
    <3>. QED BY <1>3, <1>5, <3>1, <3>2
  <2>. QED BY <2>1, <2>2
<1>14. CASE Vision!FinalizeEnds(t)
  <2>1. CASE Vision!Current(t)
    <3>1. \E state \in {"editing", "error"} :
            vqDesktop' = [vqDesktop EXCEPT !.state = state]
      BY <1>14, <2>1 DEF Vision!FinalizeEnds, Vision!Update
    <3>. QED BY <1>4, <1>7, <3>1
  <2>2. CASE ~Vision!Current(t)
    <3>1. Same /\ ~Mine /\ Vision!Drop(<<t.mode, t.id>>) /\ t.kind # "record"
      BY <1>0, <1>14, <2>2 DEF Vision!FinalizeEnds, Vision!Update, Vision!Current
    <3>. QED BY <1>3, <1>6, <3>1
  <2>. QED BY <2>1, <2>2
<1>15. CASE Vision!AnswerFinalized(t) \/ Vision!AnswerEnds(t)
  <2>1. t.kind = "answer" /\ Same /\ Vision!Drop(<<t.mode, t.id>>)
    BY <1>15 DEF Vision!AnswerFinalized, Vision!AnswerEnds
  <2>2. t.mode = "vr"
    BY <2>1 DEF ContentInv
  <2>. QED BY <1>3, <1>6, <2>1, <2>2
<1>16. CASE Vision!DropTask(t)
  <2>1. /\ Same
        /\ t.kind = "record" => vqHolding' = vqHolding
        /\ vqHolding' = vqHolding \/ Vision!Drop(<<t.mode, t.id>>)
        /\ ~Vision!Current(t) \/ (t.kind = "record" /\ vqDesktop.recording = None)
    BY <1>16 DEF Vision!DropTask, Vision!session
  <2>2. ~Mine
    BY <1>0, <2>1 DEF Vision!Current
  <2>. QED BY <1>3, <1>5, <1>6, <2>1, <2>2
<1>. QED BY <1>8, <1>9, <1>10, <1>11, <1>12, <1>13, <1>14, <1>15, <1>16
         DEF Vision!Work

LEMMA DeskStart ==
  ASSUME Vision!QuestionInit
  PROVE  DeskInv /\ PanelInv
<1>1. /\ vqDesktop.state = "idle" /\ vqVr.view = "none" /\ vqTasks = {}
      /\ Len(vqUpdates) = 0
  BY DEF Vision!QuestionInit
<1>. QED BY <1>1 DEF DeskInv, PanelInv

LEMMA DeskStep ==
  ASSUME VisionInv, DeskInv, Vision!QuestionNext \/ UNCHANGED questions
  PROVE  DeskInv'
<1>1. CASE Vision!Headset
  <2>1. vqDesktop' = vqDesktop /\ vqTasks \subseteq vqTasks'
    BY <1>1 DEF Vision!Headset, Vision!VrBegin, Vision!VrRelease, Vision!VrLost,
         Vision!VrClose, Vision!VrTick
  <2>2. \A q : Vision!Drop(<<"vr", q>>) =>
          \A n : <<"desktop", n>> \in vqHolding => <<"desktop", n>> \in vqHolding'
    BY DEF Vision!Drop
  <2>3. \A q : Vision!Begin(q) => vqHolding \subseteq vqHolding'
    BY DEF Vision!Begin
  <2>4. <<"desktop", vqDesktop.id>> \in vqHolding =>
          <<"desktop", vqDesktop.id>> \in vqHolding'
    BY <1>1, <2>2, <2>3 DEF Vision!Headset, Vision!VrBegin, Vision!VrRelease,
         Vision!VrLost, Vision!VrClose, Vision!VrTick, Vision!VrQuestion,
         Vision!microphone, Vision!session
  <2>. QED BY <2>1, <2>4, DeskStays
<1>2. CASE Vision!Around \/ UNCHANGED questions
  <2>1. vqDesktop' = vqDesktop /\ vqTasks' = vqTasks /\ vqHolding' = vqHolding
    BY <1>2 DEF Vision!Around, Vision!Recognize, Vision!CloseDevice,
                Vision!ChangeSettings, Vision!microphone, Vision!session, questions
  <2>. QED BY <2>1, DeskStays
<1>. QED BY <1>1, <1>2, DeskDesktop, DeskWork DEF Vision!QuestionNext, VisionInv

\* The panel is another one, that waits for nothing.
LEMMA PanelRenewed ==
  ASSUME VisionTypes, PanelInv, vqVr'.id \in Nat, vqVr.id < vqVr'.id,
         vqVr'.view \notin {"finalizing", "requesting"},
         vqVr'.view = "listening" =>
           vqVr'.session /\ <<"vr", vqVr'.id>> \in vqHolding',
         vqTasks' \subseteq vqTasks,
         vqUpdates' \in {vqUpdates, << >>}
  PROVE  PanelInv'
<1>0. /\ vqVr.id \in Nat /\ vqUpdates \in Seq(UpdateState)
      /\ \A t \in vqTasks : t.id \in Nat
      /\ \A i \in 1..Len(vqUpdates) : vqUpdates[i].id \in Nat
  <2>1. vqUpdates \in Seq(UpdateState)
    BY DEF VisionTypes
  <2>2. \A i \in 1..Len(vqUpdates) : vqUpdates[i] \in UpdateState
    BY <2>1
  <2>3. \A u \in UpdateState : u.id \in Nat
    BY DEF UpdateState
  <2>. QED BY <2>1, <2>2, <2>3 DEF VisionTypes, PanelState, TaskState
<1>1. \A n \in Nat : n <= vqVr.id => n <= vqVr'.id /\ n # vqVr'.id
  BY <1>0
<1>2. \A t \in vqTasks' : t.mode = "vr" =>
        t.id <= vqVr'.id /\ (vqVr'.session => t.id # vqVr'.id)
  BY <1>0, <1>1 DEF PanelInv
<1>3. \A i \in 1..Len(vqUpdates') :
        vqUpdates'[i].id <= vqVr'.id /\ vqUpdates'[i].id # vqVr'.id
  <2>1. CASE vqUpdates' = vqUpdates
    BY <1>0, <1>1, <2>1 DEF PanelInv
  <2>2. CASE vqUpdates' = << >>
    BY <2>2
  <2>. QED BY <2>1, <2>2
<1>. QED BY <1>2, <1>3 DEF PanelInv

\* Nothing happens to the panel, and its task goes on.
LEMMA PanelStays ==
  ASSUME PanelInv, vqVr' = vqVr, vqUpdates' = vqUpdates,
         vqVr.session /\ <<"vr", vqVr.id>> \in vqHolding =>
           <<"vr", vqVr.id>> \in vqHolding',
         \A s \in vqTasks' : s.mode = "vr" =>
           \E t \in vqTasks : t.mode = "vr" /\ s.id = t.id,
         \A t \in vqTasks : t.mode = "vr" /\ t.id = vqVr.id =>
           \E s \in vqTasks' : s.mode = "vr" /\ s.id = vqVr.id
  PROVE  PanelInv'
<1>1. Answers => Answers'
  BY DEF Answers
<1>2. \A n : Answered(n)' <=> Answered(n)
  BY DEF Answered
<1>. QED BY <1>1, <1>2 DEF PanelInv

\* A task sends an update about itself, and goes on, or sends its answer.
LEMMA PanelHears ==
  ASSUME VisionTypes, PanelInv, vqVr' = vqVr,
         NEW t \in vqTasks, t.mode = "vr",
         NEW kind \in {"requesting", "answer", "error"}, Vision!Send(t, kind),
         vqVr.session /\ <<"vr", vqVr.id>> \in vqHolding =>
           <<"vr", vqVr.id>> \in vqHolding',
         \A s \in vqTasks' : s.mode = "vr" =>
           \E u \in vqTasks : u.mode = "vr" /\ s.id = u.id,
         \A u \in vqTasks : u.mode = "vr" /\ u.id # t.id =>
           \E s \in vqTasks' : s.mode = "vr" /\ s.id = u.id,
         kind = "requesting" => \E s \in vqTasks' : s.mode = "vr" /\ s.id = t.id
  PROVE  PanelInv'
<1>0. vqVr.id \in Nat /\ t.id \in Nat /\ vqUpdates \in Seq(UpdateState)
  BY DEF VisionTypes, PanelState, TaskState
<1>. DEFINE u == [id |-> t.id, kind |-> kind]
<1>1. u \in UpdateState /\ u.id = t.id /\ u.kind = kind
  BY <1>0 DEF UpdateState
<1>2. vqUpdates' = Append(vqUpdates, u)
  BY DEF Vision!Send
<1>. HIDE DEF u
<1>3. /\ Len(vqUpdates) \in Nat /\ Len(vqUpdates') = Len(vqUpdates) + 1
      /\ vqUpdates'[Len(vqUpdates) + 1] = u
      /\ \A i \in 1..Len(vqUpdates) : vqUpdates'[i] = vqUpdates[i]
  BY <1>0, <1>1, <1>2, AddedLast
<1>. DEFINE last == Len(vqUpdates) + 1
<1>4. \A i \in 1..Len(vqUpdates') : i \in 1..Len(vqUpdates) \/ i = last
  BY <1>3
<1>5. \A i \in 0..Len(vqUpdates) : last \in i + 1..Len(vqUpdates')
                                   /\ i + 1..Len(vqUpdates) \subseteq i + 1..Len(vqUpdates')
  BY <1>3
<1>6. vqUpdates'[last] = u
  BY <1>3
<1>. HIDE DEF last
\* Whoever waited goes on waiting, or has been answered.
<1>7. ASSUME NEW i \in 0..Len(vqUpdates), Answers \/ Answered(i)
      PROVE  Answers' \/ Answered(i)'
  <2>1. CASE Answered(i)
    <3>1. PICK j \in i + 1..Len(vqUpdates) :
            vqUpdates[j].id = vqVr.id /\ vqUpdates[j].kind \in {"answer", "error"}
      BY <2>1 DEF Answered
    <3>2. vqUpdates'[j] = vqUpdates[j] /\ j \in i + 1..Len(vqUpdates')
      BY <1>3, <1>5
    <3>. QED BY <3>1, <3>2 DEF Answered
  <2>2. CASE Answers /\ t.id # vqVr.id
    BY <2>2 DEF Answers
  <2>3. CASE t.id = vqVr.id /\ kind = "requesting"
    BY <2>3 DEF Answers
  <2>4. CASE t.id = vqVr.id /\ kind # "requesting"
    BY <1>1, <1>5, <1>6, <2>4 DEF Answered
  <2>. QED BY <1>7, <2>1, <2>2, <2>3, <2>4
<1>8. vqVr.view \in {"finalizing", "requesting"} => Answers' \/ Answered(0)'
  <2>1. 0 \in 0..Len(vqUpdates)
    BY <1>3
  <2>. QED BY <1>7, <2>1 DEF PanelInv
<1>9. ASSUME NEW i \in 1..Len(vqUpdates')
      PROVE  /\ vqUpdates'[i].id <= vqVr.id
             /\ vqUpdates'[i].id = vqVr.id /\ vqUpdates'[i].kind = "requesting" =>
                  Answers' \/ Answered(i)'
  <2>1. CASE i \in 1..Len(vqUpdates)
    <3>1. vqUpdates'[i] = vqUpdates[i] /\ i \in 0..Len(vqUpdates)
      BY <1>3, <2>1
    <3>. QED BY <1>7, <2>1, <3>1 DEF PanelInv
  <2>2. CASE i = last
    <3>1. vqUpdates'[i] = u /\ t.id <= vqVr.id
      BY <1>6, <2>2 DEF PanelInv
    <3>. QED BY <1>1, <3>1 DEF Answers
  <2>. QED BY <1>4, <2>1, <2>2
<1>. QED BY <1>8, <1>9 DEF PanelInv

LEMMA PanelWork ==
  ASSUME VisionTypes, ContentInv, PanelInv, NEW t \in vqTasks,
         Vision!Work(t) \/ Vision!Selected(t)
  PROVE  PanelInv'
<1>1. /\ vqVr' = vqVr
      /\ GoesOn(t) \/ Vision!Ends(t)
      /\ \A q \in vqHolding : q \in vqHolding' \/ q = <<t.mode, t.id>>
                              \/ q = <<"desktop", vqDesktop.id>>
      /\ \/ vqUpdates' = vqUpdates
         \/ t.mode = "vr" /\ GoesOn(t) /\ Vision!Send(t, "requesting")
         \/ t.mode = "vr" /\ \E kind \in {"answer", "error"} : Vision!Send(t, kind)
      /\ t.mode = "vr" /\ Vision!Current(t) =>
           GoesOn(t) \/ \E kind \in {"answer", "error"} : Vision!Send(t, kind)
  BY WorkLeaves
<1>2. vqVr.session /\ <<"vr", vqVr.id>> \in vqHolding => <<"vr", vqVr.id>> \in vqHolding'
  BY <1>1 DEF PanelInv
<1>3. \A s \in vqTasks' : s.mode = "vr" => \E u \in vqTasks : u.mode = "vr" /\ s.id = u.id
  BY <1>1 DEF GoesOn, Vision!Ends
<1>4. \A u \in vqTasks : u.mode = "vr" /\ u.id # t.id =>
        \E s \in vqTasks' : s.mode = "vr" /\ s.id = u.id
  BY <1>1 DEF GoesOn, Vision!Ends
<1>5. GoesOn(t) => \A u \in vqTasks : u.mode = "vr" =>
                     \E s \in vqTasks' : s.mode = "vr" /\ s.id = u.id
  BY DEF GoesOn
<1>6. CASE vqUpdates' = vqUpdates /\ ~\E kind \in {"answer", "error"} : Vision!Send(t, kind)
  <2>1. ASSUME NEW u \in vqTasks, u.mode = "vr", u.id = vqVr.id
        PROVE  \E s \in vqTasks' : s.mode = "vr" /\ s.id = vqVr.id
    <3>1. CASE u = t
      BY <1>1, <1>5, <1>6, <2>1, <3>1 DEF Vision!Current
    <3>2. CASE u # t
      BY <1>1, <2>1, <3>2 DEF GoesOn, Vision!Ends
    <3>. QED BY <3>1, <3>2
  <2>. QED BY <1>1, <1>2, <1>3, <1>6, <2>1, PanelStays
<1>7. CASE t.mode = "vr" /\ GoesOn(t) /\ Vision!Send(t, "requesting")
  BY <1>1, <1>2, <1>3, <1>4, <1>5, <1>7, PanelHears
<1>8. ASSUME t.mode = "vr", NEW kind \in {"answer", "error"}, Vision!Send(t, kind)
      PROVE  PanelInv'
  BY <1>1, <1>2, <1>3, <1>4, <1>8, PanelHears
<1>9. CASE vqUpdates' = vqUpdates /\ \E kind \in {"answer", "error"} : Vision!Send(t, kind)
  <2>1. PICK kind \in {"answer", "error"} : Vision!Send(t, kind)
    BY <1>9
  <2>2. Len(vqUpdates') = Len(vqUpdates) + 1
    BY <2>1, AddedLast DEF VisionTypes, Vision!Send
  <2>3. Len(vqUpdates) \in Nat
    BY DEF VisionTypes
  <2>. QED BY <1>9, <2>2, <2>3
<1>. QED BY <1>1, <1>6, <1>7, <1>8, <1>9

(***************************************************************************)
(* A run of updates, none of them about a later question, leaves a panel   *)
(* as it was until one is about its question: it shows that a request has  *)
(* begun only if that is the last it heard.                                *)
(***************************************************************************)
Heard(v, us, n, a) ==
  \/ a.id = v.id + 1 /\ a.view = "error" /\ ~a.session
  \/ /\ a.id = v.id /\ a.session = v.session
     /\ \/ a.view \in {"none", "complete"}
        \/ a.view = v.view /\ \A i \in 1..n : us[i].id # v.id
        \/ /\ a.view = "requesting"
           /\ \E i \in 1..n : /\ us[i].id = v.id /\ us[i].kind = "requesting"
                              /\ \A j \in i + 1..n : us[j].id # v.id

LEMMA PanelReceives ==
  ASSUME NEW v, GoodPanel(v), NEW us \in Seq(UpdateState),
         NEW n \in 0..Len(us) - 1, NEW a, GoodPanel(a), Heard(v, us, n, a),
         us[n + 1].id <= v.id
  PROVE  Heard(v, us, n + 1, Vision!Receive(a, us[n + 1]))
<1>. DEFINE u == us[n + 1]
<1>0. /\ u \in UpdateState /\ u.id \in Nat /\ v.id \in Nat /\ n \in Nat
      /\ u.kind \in {"requesting", "answer", "error"} /\ n + 1 \in Nat
  <2>1. n + 1 \in 1..Len(us) /\ n \in Nat
    OBVIOUS
  <2>2. u \in UpdateState
    BY <2>1
  <2>3. v.id \in Nat
    BY DEF GoodPanel, PanelState
  <2>. HIDE DEF u
  <2>. QED BY <2>1, <2>2, <2>3 DEF UpdateState
<1>1. \A i \in 1..n + 1 : i \in 1..n \/ i = n + 1
  BY <1>0
<1>2. n + 1 \in 1..n + 1 /\ \A i \in 1..n : i \in 1..n + 1
  BY <1>0
<1>. HIDE DEF u
<1>3. CASE a.id = v.id + 1
  <2>1. Vision!Receive(a, u) = a
    BY <1>0, <1>3 DEF Vision!Receive, u
  <2>. QED BY <1>0, <1>3, <2>1 DEF Heard, u
<1>4. CASE a.id = v.id /\ u.id # v.id
  <2>1. Vision!Receive(a, u) = a
    BY <1>4 DEF Vision!Receive
  <2>2. a.view = v.view /\ (\A i \in 1..n : us[i].id # v.id) =>
          \A i \in 1..n + 1 : us[i].id # v.id
    BY <1>1, <1>4 DEF u
  <2>3. ASSUME NEW i \in 1..n, \A j \in i + 1..n : us[j].id # v.id
        PROVE  i \in 1..n + 1 /\ \A j \in i + 1..n + 1 : us[j].id # v.id
    <3>1. \A j \in i + 1..n + 1 : j \in i + 1..n \/ j = n + 1
      BY <1>0
    <3>. QED BY <1>2, <1>4, <2>3, <3>1 DEF u
  <2>4. a.session = v.session
    BY <1>0, <1>4 DEF Heard
  <2>5. \/ a.view \in {"none", "complete"}
        \/ a.view = v.view /\ \A i \in 1..n : us[i].id # v.id
        \/ /\ a.view = "requesting"
           /\ \E i \in 1..n : /\ us[i].id = v.id /\ us[i].kind = "requesting"
                              /\ \A j \in i + 1..n : us[j].id # v.id
    BY <1>0, <1>4 DEF Heard
  <2>6. a.view = "requesting" /\ (\E i \in 1..n : /\ us[i].id = v.id
               /\ us[i].kind = "requesting" /\ \A j \in i + 1..n : us[j].id # v.id)
          => \E i \in 1..n + 1 : /\ us[i].id = v.id /\ us[i].kind = "requesting"
                                 /\ \A j \in i + 1..n + 1 : us[j].id # v.id
    BY <2>3
  <2>7. Heard(v, us, n + 1, a)
    BY <1>4, <2>2, <2>4, <2>5, <2>6 DEF Heard
  <2>. QED BY <2>1, <2>7 DEF u
<1>5. CASE a.id = v.id /\ u.id = v.id
  <2>1. a.session = v.session /\ u.id = a.id
    BY <1>0, <1>5 DEF Heard
  <2>2. CASE u.kind = "requesting" /\ a.view = "none"
    <3>1. Vision!Receive(a, u) = a
      BY <2>1, <2>2 DEF Vision!Receive
    <3>. QED BY <1>5, <2>1, <2>2, <3>1 DEF Heard, u
  <2>3. CASE u.kind = "requesting" /\ a.view # "none"
    <3>1. Vision!Receive(a, u) = [a EXCEPT !.view = "requesting"]
      BY <2>1, <2>3 DEF Vision!Receive
    <3>2. /\ Vision!Receive(a, u).id = a.id
          /\ Vision!Receive(a, u).session = a.session
          /\ Vision!Receive(a, u).view = "requesting"
      BY <3>1 DEF GoodPanel, PanelState
    <3>3. \A j \in n + 1 + 1..n + 1 : FALSE
      BY <1>0
    <3>4. \E i \in 1..n + 1 : /\ us[i].id = v.id /\ us[i].kind = "requesting"
                              /\ \A j \in i + 1..n + 1 : us[j].id # v.id
      BY <1>2, <1>5, <2>3, <3>3 DEF u
    <3>. QED BY <1>5, <2>1, <3>2, <3>4 DEF Heard, u
  <2>4. CASE u.kind = "answer"
    <3>1. Vision!Receive(a, u) =
            [a EXCEPT !.task = FALSE, !.view = "complete", !.answer = u.id]
      BY <2>1, <2>4 DEF Vision!Receive
    <3>2. /\ Vision!Receive(a, u).id = a.id
          /\ Vision!Receive(a, u).session = a.session
          /\ Vision!Receive(a, u).view = "complete"
      BY <3>1 DEF GoodPanel, PanelState
    <3>. QED BY <1>5, <2>1, <3>2 DEF Heard, u
  <2>5. CASE u.kind = "error"
    <3>1. Vision!Receive(a, u) = Vision!Failed(a)
      BY <2>1, <2>5 DEF Vision!Receive
    <3>2. Vision!Failed(a).id = a.id + 1 /\ Vision!Failed(a).view = "error"
          /\ Vision!Failed(a).session = FALSE
      BY DEF Vision!Failed, Vision!Hidden
    <3>. QED BY <1>5, <3>1, <3>2 DEF Heard, u
  <2>. QED BY <1>0, <2>2, <2>3, <2>4, <2>5
<1>. QED BY <1>0, <1>3, <1>4, <1>5 DEF Heard

LEMMA PanelReceived ==
  ASSUME NEW v, GoodPanel(v), NEW us \in Seq(UpdateState),
         \A i \in 1..Len(us) : us[i].id <= v.id
  PROVE  Heard(v, us, Len(us), Vision!Received(v, us))
<1>. DEFINE after == CHOOSE f : ReceivedRun(v, us, Len(us), f)
            T == {n \in Nat : n <= Len(us) =>
                    GoodPanel(after[n]) /\ Heard(v, us, n, after[n])}
<1>1. ReceivedRun(v, us, Len(us), after)
  BY Len(us) \in Nat, ReceivedRunExists
<1>2. Vision!Received(v, us) = after[Len(us)]
  BY DEF Vision!Received, ReceivedRun
<1>3. \A i \in 0..Len(us) :
        after[i] = IF i = 0 THEN v ELSE Vision!Receive(after[i-1], us[i])
  <2>. HIDE DEF after
  <2>. QED BY <1>1 DEF ReceivedRun
<1>. HIDE DEF after
<1>4. 0 \in T
  <2>1. after[0] = v
    BY <1>3
  <2>2. \A i \in 1..0 : FALSE
    OBVIOUS
  <2>3. Heard(v, us, 0, v)
    BY <2>2 DEF Heard
  <2>. QED BY <2>1, <2>3
<1>5. ASSUME NEW n \in Nat, n \in T PROVE n+1 \in T
  <2>1. SUFFICES ASSUME n+1 <= Len(us)
                 PROVE  GoodPanel(after[n+1]) /\ Heard(v, us, n+1, after[n+1])
    OBVIOUS
  <2>2. GoodPanel(after[n]) /\ Heard(v, us, n, after[n])
    BY <1>5, <2>1
  <2>3. after[n+1] = Vision!Receive(after[n], us[n+1])
    <3>1. n+1 \in 0..Len(us) /\ n+1 # 0 /\ (n+1)-1 = n
      BY <2>1
    <3>. QED BY <1>3, <3>1
  <2>4. us[n+1] \in UpdateState /\ us[n+1].id <= v.id /\ n \in 0..Len(us)-1
    <3>1. n+1 \in 1..Len(us)
      BY <2>1
    <3>. QED BY <3>1
  <2>5. Heard(v, us, n+1, after[n+1])
    BY <2>2, <2>3, <2>4, PanelReceives
  <2>. QED BY <2>2, <2>3, <2>4, <2>5, VisionPanels
<1>6. \A n \in Nat : n \in T
  <2>. HIDE DEF T
  <2>. QED BY <1>4, <1>5, NatInd
<1>7. Heard(v, us, Len(us), after[Len(us)])
  BY <1>6
<1>. QED BY <1>2, <1>7

LEMMA PanelTicks ==
  ASSUME VisionTypes, ContentInv, PanelInv, NEW timeout \in BOOLEAN,
         Vision!VrTick(timeout)
  PROVE  PanelInv'
<1>0. /\ GoodPanel(vqVr) /\ vqVr \in PanelState /\ vqVr.id \in Nat
      /\ vqUpdates \in Seq(UpdateState)
      /\ \A i \in 1..Len(vqUpdates) : vqUpdates[i].id \in Nat
  <2>1. vqUpdates \in Seq(UpdateState)
    BY DEF VisionTypes
  <2>2. \A i \in 1..Len(vqUpdates) : vqUpdates[i] \in UpdateState
    BY <2>1
  <2>3. \A u \in UpdateState : u.id \in Nat
    BY DEF UpdateState
  <2>. QED BY <2>1, <2>2, <2>3
       DEF VisionTypes, ContentInv, Vision!ContentIsCurrent, GoodPanel, PanelState
<1>1. PICK expired \in BOOLEAN : vqVr' = Vision!Ticked(timeout, expired)
  BY DEF Vision!VrTick
<1>2. /\ vqTasks' = vqTasks /\ vqUpdates' = << >>
      /\ ~(vqVr.session /\ ~vqVr'.session) => vqHolding' = vqHolding
  BY DEF Vision!VrTick, Vision!session
<1>. DEFINE v1 == IF vqVr.settings # None /\ ~Vision!Matches(vqVr.settings)
                  THEN Vision!Hidden(vqVr) ELSE vqVr
            v2 == IF v1.session /\ (timeout \/ vqRecognition = "failed")
                  THEN Vision!Failed(v1) ELSE v1
            v3 == Vision!Received(v2, vqUpdates)
            v4 == IF expired /\ v3.view \in {"complete", "error"}
                  THEN Vision!Hidden(v3) ELSE v3
            Later(v) == v.id \in Nat /\ vqVr.id < v.id /\ ~v.session
                        /\ v.view \in {"none", "complete", "error"}
<1>3. vqVr' = v4
  BY <1>1 DEF Vision!Ticked
<1>4. \A v : v.id \in Nat /\ vqVr.id <= v.id =>
               Later(Vision!Hidden(v)) /\ Later(Vision!Failed(v))
  BY <1>0 DEF Vision!Hidden, Vision!Failed
<1>5. v1 = vqVr \/ Later(v1)
  BY <1>0, <1>4
<1>6. GoodPanel(v1)
  BY <1>0, VisionPanels
<1>. HIDE DEF v1
<1>7. v2 = vqVr \/ Later(v2)
  <2>1. v1.id \in Nat /\ vqVr.id <= v1.id
    BY <1>0, <1>5
  <2>. QED BY <1>4, <1>5, <2>1
<1>8. GoodPanel(v2)
  BY <1>6, VisionPanels
<1>. HIDE DEF v2, Later
<1>9. v2.id \in Nat /\ vqVr.id <= v2.id
  BY <1>0, <1>7 DEF Later
<1>10. Heard(v2, vqUpdates, Len(vqUpdates), v3)
  <2>1. \A i \in 1..Len(vqUpdates) : vqUpdates[i].id <= v2.id
    BY <1>0, <1>9 DEF PanelInv
  <2>. QED BY <1>0, <1>8, <2>1, PanelReceived
<1>. HIDE DEF v3
<1>11. v3.id \in Nat /\ vqVr.id <= v3.id
  BY <1>0, <1>9, <1>10 DEF Heard
<1>12. Later(v3) \/ (v2 = vqVr /\ v3.id = vqVr.id)
  <2>1. CASE v3.id = v2.id + 1
    <3>1. v3.view = "error" /\ ~v3.session
      BY <1>9, <1>10, <2>1 DEF Heard
    <3>. QED BY <1>0, <1>9, <2>1, <3>1 DEF Later
  <2>2. CASE v3.id = v2.id /\ Later(v2)
    <3>1. \A i \in 1..Len(vqUpdates) : vqUpdates[i].id # v2.id
      BY <1>0, <2>2 DEF Later, PanelInv
    <3>2. v3.session = v2.session
          /\ (v3.view \in {"none", "complete"} \/ v3.view = v2.view)
      BY <1>9, <1>10, <2>2, <3>1 DEF Heard
    <3>. QED BY <2>2, <3>2 DEF Later
  <2>. QED BY <1>7, <1>10, <2>1, <2>2 DEF Heard
<1>13. CASE Later(vqVr')
  <2>1. vqTasks' \subseteq vqTasks /\ vqUpdates' \in {vqUpdates, << >>}
    BY <1>2
  <2>. QED BY <1>13, <2>1, PanelRenewed DEF Later
<1>14. CASE ~Later(vqVr')
  <2>1. vqVr' = v3 /\ v2 = vqVr /\ v3.id = vqVr.id
    BY <1>3, <1>4, <1>11, <1>12, <1>14
  <2>2. /\ v3.session = vqVr.session
        /\ \/ v3.view \in {"none", "complete"}
           \/ /\ v3.view = vqVr.view
              /\ \A i \in 1..Len(vqUpdates) : vqUpdates[i].id # vqVr.id
           \/ /\ v3.view = "requesting"
              /\ \E i \in 1..Len(vqUpdates) :
                   /\ vqUpdates[i].id = vqVr.id /\ vqUpdates[i].kind = "requesting"
                   /\ \A j \in i + 1..Len(vqUpdates) : vqUpdates[j].id # vqVr.id
    BY <1>0, <1>10, <2>1 DEF Heard
  <2>3. vqHolding' = vqHolding
    BY <1>2, <2>1, <2>2
  <2>4. vqVr'.view = "listening" => vqVr.view = "listening"
    BY <2>1, <2>2
  <2>5. vqVr'.view \in {"finalizing", "requesting"} => Answers
    <3>1. CASE /\ v3.view = vqVr.view
               /\ \A i \in 1..Len(vqUpdates) : vqUpdates[i].id # vqVr.id
      <4>1. ~Answered(0)
        BY <3>1 DEF Answered
      <4>. QED BY <2>1, <3>1, <4>1 DEF PanelInv
    <3>2. ASSUME NEW i \in 1..Len(vqUpdates),
                 vqUpdates[i].id = vqVr.id, vqUpdates[i].kind = "requesting",
                 \A j \in i + 1..Len(vqUpdates) : vqUpdates[j].id # vqVr.id
          PROVE  Answers
      <4>1. ~Answered(i)
        BY <3>2 DEF Answered
      <4>. QED BY <3>2, <4>1 DEF PanelInv
    <3>. QED BY <2>1, <2>2, <3>1, <3>2
  <2>6. Answers => Answers'
    BY <1>2, <2>1 DEF Answers
  <2>7. \A t \in vqTasks' : t.mode = "vr" =>
          t.id <= vqVr'.id /\ (vqVr'.session => t.id # vqVr'.id)
    BY <1>2, <2>1, <2>2 DEF PanelInv
  <2>8. Len(vqUpdates') = 0
    BY <1>2
  <2>9. vqVr'.view = "listening" => vqVr'.session /\ <<"vr", vqVr'.id>> \in vqHolding'
    BY <2>1, <2>2, <2>3, <2>4 DEF PanelInv
  <2>. QED BY <2>5, <2>6, <2>7, <2>8, <2>9 DEF PanelInv
<1>. QED BY <1>13, <1>14

LEMMA PanelHeadset ==
  ASSUME VisionTypes, ContentInv, PanelInv, Vision!Headset
  PROVE  PanelInv'
<1>0. /\ vqVr \in PanelState /\ vqVr.id \in Nat /\ vqSettings \in Nat
  BY DEF VisionTypes, PanelState
<1>1. \A v : /\ Vision!Hidden(v).id = v.id + 1 /\ Vision!Hidden(v).view = "none"
             /\ Vision!Failed(v).id = v.id + 1 /\ Vision!Failed(v).view = "error"
  BY DEF Vision!Hidden, Vision!Failed
<1>2. vqVr.id + 1 \in Nat /\ vqVr.id < vqVr.id + 1
  BY <1>0
<1>3. CASE Vision!VrBegin
  <2>. DEFINE v == [Vision!Hidden(vqVr) EXCEPT !.settings = vqSettings]
  <2>0. vqTasks' = vqTasks /\ vqUpdates' = vqUpdates
    BY <1>3 DEF Vision!VrBegin
  <2>1. CASE /\ Vision!Begin(<<"vr", v.id>>)
             /\ vqVr' = [v EXCEPT !.session = TRUE, !.view = "listening"]
    <3>1. v.id = vqVr.id + 1
      BY DEF Vision!Hidden
    <3>2. /\ vqVr'.id = vqVr.id + 1 /\ vqVr'.session = TRUE
          /\ vqVr'.view = "listening"
      BY <2>1 DEF Vision!Hidden
    <3>3. <<"vr", vqVr'.id>> \in vqHolding'
      BY <2>1, <3>1, <3>2 DEF Vision!Begin
    <3>. QED BY <1>2, <2>0, <3>2, <3>3, PanelRenewed
  <2>2. CASE vqVr' = Vision!Failed(v)
    <3>1. v.id = vqVr.id + 1
      BY DEF Vision!Hidden
    <3>. HIDE DEF v
    <3>2. vqVr'.id = v.id + 1 /\ vqVr'.view = "error"
      BY <1>1, <2>2
    <3>3. vqVr'.id \in Nat /\ vqVr.id < vqVr'.id
      BY <1>0, <3>1, <3>2
    <3>. QED BY <2>0, <3>2, <3>3, PanelRenewed
  <2>. QED BY <1>3, <2>1, <2>2 DEF Vision!VrBegin
<1>4. CASE Vision!VrRelease
  <2>. DEFINE n == Vision!Task("vr", "answer", vqVr.id, <<vqVr.settings>>)
  <2>1. /\ vqVr' = [vqVr EXCEPT !.session = FALSE, !.task = TRUE, !.view = "finalizing"]
        /\ vqTasks' = vqTasks \cup {n} /\ vqUpdates' = vqUpdates
    BY <1>4 DEF Vision!VrRelease
  <2>2. n.mode = "vr" /\ n.id = vqVr.id
    BY DEF Vision!Task
  <2>. HIDE DEF n
  <2>3. vqVr'.id = vqVr.id /\ ~vqVr'.session /\ vqVr'.view = "finalizing"
    BY <1>0, <2>1 DEF PanelState
  <2>4. Answers'
    BY <2>1, <2>2, <2>3 DEF Answers
  <2>5. \A t \in vqTasks' : t.mode = "vr" => t.id <= vqVr'.id
    BY <1>0, <2>1, <2>2, <2>3 DEF PanelInv
  <2>. QED BY <2>1, <2>3, <2>4, <2>5 DEF PanelInv
<1>5. CASE Vision!VrLost \/ Vision!VrClose
  <2>1. /\ vqTasks' = vqTasks /\ vqUpdates' = vqUpdates
        /\ vqVr' = Vision!Hidden(vqVr) \/ vqVr' = Vision!Failed(vqVr)
    BY <1>5 DEF Vision!VrLost, Vision!VrClose
  <2>2. vqVr'.id = vqVr.id + 1 /\ vqVr'.view \in {"none", "error"}
    BY <1>1, <2>1
  <2>. QED BY <1>2, <2>1, <2>2, PanelRenewed
<1>. QED BY <1>3, <1>4, <1>5, PanelTicks DEF Vision!Headset

LEMMA PanelStep ==
  ASSUME VisionInv, PanelInv, Vision!QuestionNext \/ UNCHANGED questions
  PROVE  PanelInv'
<1>1. CASE Vision!Desktop
  <2>1. /\ vqVr' = vqVr /\ vqUpdates' = vqUpdates /\ vqTasks \subseteq vqTasks'
    BY <1>1 DEF Vision!Desktop, Vision!CaptureStart, Vision!CaptureRefused,
      Vision!CancelDesktop, Vision!CloseDesktop, Vision!StopDesktop,
      Vision!StartDesktop, Vision!Configure, Vision!Ask, Vision!StartRecording,
      Vision!FinishRecording
  <2>2. \A s \in vqTasks' : s \in vqTasks \/ s.mode = "desktop"
    BY <1>1 DEF Vision!Desktop, Vision!CaptureStart, Vision!CaptureRefused,
      Vision!CancelDesktop, Vision!CloseDesktop, Vision!StopDesktop,
      Vision!StartDesktop, Vision!Configure, Vision!Ask, Vision!StartRecording,
      Vision!FinishRecording, Vision!Task
  <2>3. Vision!Unheld => \A n : <<"vr", n>> \in vqHolding => <<"vr", n>> \in vqHolding'
    BY DEF Vision!Unheld, Vision!Drop, Vision!Question
  <2>4. \A q : Vision!Begin(q) => vqHolding \subseteq vqHolding'
    BY DEF Vision!Begin
  <2>5. <<"vr", vqVr.id>> \in vqHolding => <<"vr", vqVr.id>> \in vqHolding'
    BY <1>1, <2>3, <2>4 DEF Vision!Desktop, Vision!CaptureStart,
      Vision!CaptureRefused, Vision!CancelDesktop, Vision!CloseDesktop,
      Vision!StopDesktop, Vision!StartDesktop, Vision!Configure, Vision!Ask,
      Vision!StartRecording, Vision!FinishRecording, Vision!microphone, Vision!session
  <2>. QED BY <2>1, <2>2, <2>5, PanelStays
<1>2. CASE Vision!Around \/ UNCHANGED questions
  <2>1. /\ vqVr' = vqVr /\ vqUpdates' = vqUpdates /\ vqTasks' = vqTasks
        /\ vqHolding' = vqHolding
    BY <1>2 DEF Vision!Around, Vision!Recognize, Vision!CloseDevice,
                Vision!ChangeSettings, Vision!microphone, Vision!session, questions
  <2>. QED BY <2>1, PanelStays
<1>. QED BY <1>1, <1>2, PanelHeadset, PanelWork DEF Vision!QuestionNext, VisionInv

\* What the invariants say of the questions
LEMMA QuestionsAreWorkedOn ==
  ASSUME VisionTypes, DeskInv, PanelInv
  PROVE  Vision!BusyIsWorkedOn
<1>1. \A kind : Works(kind) => \E t \in vqTasks :
                  t.mode = "desktop" /\ Vision!Current(t) /\ t.kind = kind
  BY DEF Works, Vision!Current
<1>2. Answers => \E t \in vqTasks : t.mode = "vr" /\ Vision!Current(t)
  BY DEF Answers, Vision!Current
<1>3. Answered(0) => \E i \in DOMAIN vqUpdates :
        vqUpdates[i].id = vqVr.id /\ vqUpdates[i].kind \in {"answer", "error"}
  <2>1. DOMAIN vqUpdates = 1..Len(vqUpdates)
    BY DEF VisionTypes
  <2>. QED BY <2>1 DEF Answered
<1>. QED BY <1>1, <1>2, <1>3
         DEF DeskInv, PanelInv, Vision!BusyIsWorkedOn, Vision!Busy, Vision!Question,
             Vision!VrQuestion

-----------------------------------------------------------------------------
(* SubtitleFeed: what was announced of the opened conversation             *)

\* e brings the fact f; one of the announcements in s does.
Brought(f, e) ==
  \/ e.kind = "final" /\ f = Feed!Text(e.of)
  \/ e.kind = "completed" /\ f = Feed!Translation(e.of)
Carries(f, s) == \E i \in 1..Len(s) : Brought(f, s[i])

\* f is shown, missed, on its way, or on a page that was read.
Found(f) ==
  \/ f \in fePool \/ f \in feMissed
  \/ Carries(f, feEvents) \/ Carries(f, feResults)
  \/ feRequest # None /\ f \in feRequest.page

(***************************************************************************)
(* The request is the last one made; one that is late is of an earlier     *)
(* version.  Unless a page is still to be read, what was announced of the  *)
(* opened conversation is found.                                           *)
(***************************************************************************)
ErasedInv ==
  /\ feTranslation \in [Speeches -> {"none", "saved", "completed"}]
  /\ feOpen \in BOOLEAN /\ feFocused \in BOOLEAN
  /\ \A u \in Speeches : feTranslation[u] # "none" =>
       feSpeech[u] = "over" /\ feRow[u] # None
  /\ feRequest # None =>
       /\ feRequest.conversation = feOpened /\ feRequest.version = feVersion
       /\ feRequest.kind = "context" => feFocused
  /\ feLate # None => feLate.version < feVersion
  /\ feOpen /\ ~feFocused /\ (feRequest # None => feRequest.page # None) =>
       \A f \in Feed!Announced : feRow[f[1]] = feOpened => Found(f)

LEMMA FeedBrings ==
  ASSUME NEW S, NEW s \in Seq(S)
  PROVE  \A f : f \in Feed!Brings(s) <=> Carries(f, s)
<1>1. Feed!Range(s) = {s[i] : i \in 1..Len(s)}
  BY DEF Feed!Range
<1>2. \A f : Carries(f, s) <=>
        \/ \E e \in Feed!Range(s) : e.kind = "final" /\ f = Feed!Text(e.of)
        \/ \E e \in Feed!Range(s) : e.kind = "completed" /\ f = Feed!Translation(e.of)
  BY <1>1 DEF Carries, Brought
<1>. QED BY <1>2 DEF Feed!Brings

\* What is announced
LEMMA FeedAnnounced ==
  \A f : f \in Feed!Announced <=>
    \/ \E u \in Speeches : feSpeech[u] = "over" /\ feRow[u] # None /\ f = Feed!Text(u)
    \/ \E u \in Speeches : feTranslation[u] = "completed" /\ f = Feed!Translation(u)
BY DEF Feed!Announced

\* A fact is about its speech.
LEMMA FeedFacts ==
  \A u : Feed!Text(u)[1] = u /\ Feed!Translation(u)[1] = u
BY DEF Feed!Text, Feed!Translation

\* What is announced of speech has a conversation.
LEMMA AnnouncedOf ==
  ASSUME ErasedInv, NEW f \in Feed!Announced
  PROVE  f[1] \in Speeches /\ feRow[f[1]] # None
BY FeedAnnounced, FeedFacts DEF ErasedInv

(***************************************************************************)
(* Announcements that are dropped are missed, and those nobody can receive *)
(* yet.                                                                    *)
(***************************************************************************)
LEMMA AnnouncesBrought ==
  ASSUME FeedTypes, NEW a \in Seq(FeedEvents), Feed!Announce(a)
  PROVE  /\ feMissed \subseteq feMissed'
         /\ \A f : Carries(f, feEvents) => Carries(f, feEvents') \/ f \in feMissed'
         /\ feOpen => \A f : Carries(f, a) => Carries(f, feEvents') \/ f \in feMissed'
<1>. DEFINE all == feEvents \o a
            cut == IF Len(all) > FeedCapacity THEN Len(all) - FeedCapacity ELSE 0
<1>1. CASE ~feSubscribed
  <2>1. /\ feEvents' = feEvents /\ feMissed' = feMissed \cup Feed!Unheard(a)
        /\ feOpen => Feed!Unheard(a) = Feed!Brings(a)
    BY <1>1 DEF Feed!Announce, Feed!Unheard
  <2>. QED BY <2>1, FeedBrings
<1>2. CASE feSubscribed
  <2>1. /\ feEvents' = SubSeq(all, cut + 1, Len(all))
        /\ feMissed' = feMissed \cup Feed!Brings(SubSeq(all, 1, cut))
    BY <1>2 DEF Feed!Announce
  <2>2. feEvents \in Seq(FeedEvents)
    BY DEF FeedTypes
  <2>3. /\ all \in Seq(FeedEvents) /\ Len(all) = Len(feEvents) + Len(a)
        /\ Len(feEvents) \in Nat /\ Len(a) \in Nat
        /\ \A j \in 1..Len(all) :
             all[j] = IF j <= Len(feEvents) THEN feEvents[j] ELSE a[j - Len(feEvents)]
    BY <2>2, ConcatFacts
  <2>4. cut \in 0..Len(all)
    BY <2>3, FeedBounds DEF Feed!FeedAssumption
  <2>. HIDE DEF all, cut
  <2>5. /\ Len(feEvents') = Len(all) - cut
        /\ \A j \in 1..Len(all) - cut : feEvents'[j] = all[j + cut]
    BY <2>1, <2>3, <2>4
  <2>. DEFINE old == SubSeq(all, 1, cut)
  <2>6. /\ old \in Seq(FeedEvents) /\ Len(old) = cut
        /\ \A j \in 1..cut : old[j] = all[j]
    BY <2>3, <2>4
  <2>7. \A f : f \in Feed!Brings(old) <=> Carries(f, old)
    BY <2>6, FeedBrings
  <2>8. feMissed' = feMissed \cup Feed!Brings(old)
    BY <2>1
  <2>. HIDE DEF old
  <2>9. ASSUME NEW f, NEW j \in 1..Len(all), Brought(f, all[j])
        PROVE  Carries(f, feEvents') \/ f \in feMissed'
    <3>1. CASE j <= cut
      <4>1. j \in 1..Len(old) /\ old[j] = all[j]
        BY <2>4, <2>6, <3>1
      <4>. QED BY <2>7, <2>8, <2>9, <4>1 DEF Carries
    <3>2. CASE j > cut
      <4>1. /\ j - cut \in 1..Len(feEvents') /\ j - cut \in 1..Len(all) - cut
            /\ (j - cut) + cut = j
        BY <2>3, <2>4, <2>5, <3>2
      <4>2. feEvents'[j - cut] = all[j]
        BY <2>5, <4>1
      <4>. QED BY <2>9, <4>1, <4>2 DEF Carries
    <3>. QED BY <2>3, <2>4, <3>1, <3>2
  <2>10. ASSUME NEW f, Carries(f, feEvents)
         PROVE  Carries(f, feEvents') \/ f \in feMissed'
    <3>1. PICK j \in 1..Len(feEvents) : Brought(f, feEvents[j])
      BY <2>10 DEF Carries
    <3>2. j \in 1..Len(all) /\ all[j] = feEvents[j]
      BY <2>3
    <3>. QED BY <2>9, <3>1, <3>2
  <2>11. ASSUME NEW f, Carries(f, a)
         PROVE  Carries(f, feEvents') \/ f \in feMissed'
    <3>1. PICK j \in 1..Len(a) : Brought(f, a[j])
      BY <2>11 DEF Carries
    <3>2. /\ j + Len(feEvents) \in 1..Len(all)
          /\ ~(j + Len(feEvents) <= Len(feEvents))
          /\ (j + Len(feEvents)) - Len(feEvents) = j
      BY <2>3
    <3>3. all[j + Len(feEvents)] = a[j]
      BY <2>3, <3>2
    <3>. QED BY <2>9, <3>1, <3>2, <3>3
  <2>. QED BY <2>8, <2>10, <2>11
<1>. QED BY <1>1, <1>2

\* What a step of the publisher announces is found.
LEMMA ErasedPublished ==
  ASSUME FeedInv, ErasedInv, Feed!Window,
         feTranslation' \in [Speeches -> {"none", "saved", "completed"}],
         \A u \in Speeches : feTranslation'[u] # "none" =>
           feSpeech'[u] = "over" /\ feRow'[u] # None,
         \A u \in Speeches : feRow'[u] = feRow[u] \/ feSpeech'[u] # "over",
         \A u \in Speeches : feSpeech'[u] = "over" /\ feRow'[u] # None =>
           \/ feSpeech[u] = "over"
           \/ feOpen => \/ Carries(Feed!Text(u), feEvents')
                        \/ Feed!Text(u) \in feMissed',
         \A u \in Speeches : feTranslation'[u] = "completed" =>
           \/ feTranslation[u] = "completed"
           \/ feOpen => \/ Carries(Feed!Translation(u), feResults')
                        \/ Feed!Translation(u) \in feMissed',
         feMissed \subseteq feMissed',
         \A f : Carries(f, feEvents) => Carries(f, feEvents') \/ f \in feMissed',
         \A f : Carries(f, feResults) => Carries(f, feResults') \/ f \in feMissed'
  PROVE  ErasedInv'
<1>1. /\ feOpen' = feOpen /\ feFocused' = feFocused /\ feOpened' = feOpened
      /\ feVersion' = feVersion /\ feRequest' = feRequest /\ feLate' = feLate
      /\ fePool' = fePool
  BY DEF Feed!Window, Feed!socket, Feed!view
<1>2. \A f : Found(f) => Found(f)'
  BY <1>1 DEF Found
<1>3. ASSUME feOpen, ~feFocused, feRequest # None => feRequest.page # None,
             NEW f \in Feed!Announced', feRow'[f[1]] = feOpened
      PROVE  Found(f)'
  <2>0. \A g \in Feed!Announced : feRow[g[1]] = feOpened => Found(g)
    BY <1>3 DEF ErasedInv
  <2>1. ASSUME NEW u \in Speeches, feSpeech'[u] = "over", feRow'[u] # None,
               f = Feed!Text(u)
        PROVE  Found(f)'
    <3>1. CASE feSpeech[u] = "over"
      <4>1. feRow[u] = feRow'[u] /\ f[1] = u
        BY <2>1, FeedFacts
      <4>2. f \in Feed!Announced /\ feRow[f[1]] = feOpened
        BY <1>3, <2>1, <3>1, <4>1, FeedAnnounced
      <4>. QED BY <1>2, <2>0, <4>2
    <3>2. CASE feSpeech[u] # "over"
      BY <1>3, <2>1, <3>2 DEF Found
    <3>. QED BY <3>1, <3>2
  <2>2. ASSUME NEW u \in Speeches, feTranslation'[u] = "completed",
               f = Feed!Translation(u)
        PROVE  Found(f)'
    <3>1. CASE feTranslation[u] = "completed"
      <4>1. feRow[u] = feRow'[u] /\ f[1] = u
        BY <2>2, FeedFacts
      <4>2. f \in Feed!Announced /\ feRow[f[1]] = feOpened
        BY <1>3, <2>2, <3>1, <4>1, FeedAnnounced
      <4>. QED BY <1>2, <2>0, <4>2
    <3>2. CASE feTranslation[u] # "completed"
      BY <1>3, <2>2, <3>2 DEF Found
    <3>. QED BY <3>1, <3>2
  <2>3. \/ \E u \in Speeches : feSpeech'[u] = "over" /\ feRow'[u] # None
                                /\ f = Feed!Text(u)
        \/ \E u \in Speeches : feTranslation'[u] = "completed"
                                /\ f = Feed!Translation(u)
    BY <1>3, FeedAnnounced DEF Feed!Announced, Feed!Text, Feed!Translation
  <2>. QED BY <2>1, <2>2, <2>3
<1>. QED BY <1>1, <1>3 DEF ErasedInv

LEMMA ErasedPublish ==
  ASSUME FeedInv, ErasedInv, Feed!Publish
  PROVE  ErasedInv'
<1>0. FeedTypes /\ PoolInv
  BY DEF FeedInv
<1>1. /\ feSpeech \in [Speeches -> {"idle", "live", "stored", "over"}]
      /\ feRow \in [Speeches -> Conversations \cup {None}]
      /\ feTranslation \in [Speeches -> {"none", "saved", "completed"}]
      /\ feResults \in Seq([kind : {"completed"}, of : Speeches])
      /\ \A u \in Speeches : feTranslation[u] # "none" =>
           feSpeech[u] = "over" /\ feRow[u] # None
      /\ \A u \in Speeches :
           /\ feRow[u] # None => feSpeech[u] \in {"stored", "over"}
           /\ feSpeech[u] = "stored" => feRow[u] # None
  BY <1>0 DEF FeedTypes, PoolInv, ErasedInv
<1>2. Feed!Window
  BY DEF Feed!Publish, Feed!Preview, Feed!Cancel, Feed!Stored, Feed!Translate,
         Feed!TranslationCompleted, Feed!Store, Feed!ResetSession, Feed!Block,
         Feed!AnnounceBlocked
<1>. DEFINE Quietly ==
              /\ feMissed \subseteq feMissed'
              /\ \A f : Carries(f, feEvents) => Carries(f, feEvents') \/ f \in feMissed'
              /\ \A f : Carries(f, feResults) => Carries(f, feResults') \/ f \in feMissed'
\* Translations stay, and no subtitle is new.
<1>3. ASSUME Quietly, feTranslation' = feTranslation,
             \A u \in Speeches :
               /\ feRow'[u] = feRow[u] \/ feSpeech'[u] # "over"
               /\ feSpeech[u] = "over" => feSpeech'[u] = "over" /\ feRow'[u] = feRow[u]
               /\ feSpeech'[u] = "over" =>
                    feSpeech[u] \in {"over", "live"}
      PROVE  ErasedInv'
  <2>1. \A u \in Speeches : feTranslation'[u] # "none" =>
          feSpeech'[u] = "over" /\ feRow'[u] # None
    BY <1>1, <1>3
  <2>2. \A u \in Speeches : feSpeech'[u] = "over" /\ feRow'[u] # None =>
          feSpeech[u] = "over"
    BY <1>1, <1>3
  <2>. QED BY <1>1, <1>2, <1>3, <2>1, <2>2, ErasedPublished
<1>4. feEvents' = feEvents /\ feResults' = feResults /\ feMissed' = feMissed => Quietly
  OBVIOUS
<1>5. ASSUME NEW a \in Seq(FeedEvents), Feed!Announce(a), feResults' = feResults
      PROVE  /\ Quietly
             /\ feOpen => \A f : Carries(f, a) => Carries(f, feEvents') \/ f \in feMissed'
  BY <1>0, <1>5, AnnouncesBrought
<1>6. ASSUME NEW u \in Speeches, Feed!Preview(u) \/ Feed!Cancel(u)
      PROVE  ErasedInv'
  <2>1. PICK a \in Seq(FeedEvents) : Feed!Announce(a)
    BY <1>6, FeedEventTypes DEF Feed!Preview, Feed!Cancel
  <2>2. /\ feResults' = feResults /\ feTranslation' = feTranslation /\ feRow' = feRow
        /\ \/ feSpeech[u] = "idle" /\ feSpeech' = [feSpeech EXCEPT ![u] = "live"]
           \/ feSpeech[u] = "live" /\ feSpeech' = [feSpeech EXCEPT ![u] = "over"]
    BY <1>6 DEF Feed!Preview, Feed!Cancel
  <2>3. \A v \in Speeches :
          /\ feSpeech[v] = "over" => feSpeech'[v] = "over" /\ feRow'[v] = feRow[v]
          /\ feSpeech'[v] = "over" => feSpeech[v] \in {"over", "live"}
    BY <1>1, <2>2
  <2>4. Quietly
    BY <1>5, <2>1, <2>2
  <2>. QED BY <1>3, <2>2, <2>3, <2>4
<1>7. ASSUME NEW u \in Speeches, Feed!Stored(u)
      PROVE  ErasedInv'
  <2>1. /\ feSpeech[u] = "stored" /\ feSpeech' = [feSpeech EXCEPT ![u] = "over"]
        /\ feRow' = feRow /\ feTranslation' = feTranslation /\ feResults' = feResults
        /\ \/ Feed!Announce(<<Feed!Event("final", u)>>)
           \/ feMissed' = feMissed \cup {Feed!Text(u)} /\ feEvents' = feEvents
    BY <1>7 DEF Feed!Stored
  <2>2. Quietly /\ (feOpen => \/ Carries(Feed!Text(u), feEvents')
                              \/ Feed!Text(u) \in feMissed')
    <3>1. CASE feMissed' = feMissed \cup {Feed!Text(u)} /\ feEvents' = feEvents
      BY <2>1, <3>1
    <3>2. CASE Feed!Announce(<<Feed!Event("final", u)>>)
      <4>. DEFINE a == <<Feed!Event("final", u)>>
      <4>1. a \in Seq(FeedEvents) /\ Len(a) = 1 /\ a[1] = Feed!Event("final", u)
        BY FeedEventTypes
      <4>2. Feed!Announce(a)
        BY <3>2
      <4>. HIDE DEF a
      <4>3. Carries(Feed!Text(u), a)
        BY <4>1 DEF Carries, Brought, Feed!Event
      <4>. QED BY <1>5, <2>1, <4>1, <4>2, <4>3
    <3>. QED BY <2>1, <3>1, <3>2
  <2>3. ASSUME NEW v \in Speeches
        PROVE  /\ feSpeech[v] = "over" => feSpeech'[v] = "over"
               /\ feSpeech'[v] = "over" => feSpeech[v] = "over" \/ v = u
    BY <1>1, <2>1
  <2>4. \A v \in Speeches : feTranslation'[v] # "none" =>
          feSpeech'[v] = "over" /\ feRow'[v] # None
    BY <1>1, <2>1, <2>3
  <2>5. \A v \in Speeches : feSpeech'[v] = "over" /\ feRow'[v] # None =>
          \/ feSpeech[v] = "over"
          \/ feOpen => \/ Carries(Feed!Text(v), feEvents')
                       \/ Feed!Text(v) \in feMissed'
    BY <2>2, <2>3
  <2>. QED BY <1>1, <1>2, <2>1, <2>2, <2>4, <2>5, ErasedPublished
<1>8. ASSUME NEW u \in Speeches, Feed!Translate(u)
      PROVE  ErasedInv'
  <2>1. /\ feSpeech[u] = "over" /\ feRow[u] # None
        /\ feTranslation' = [feTranslation EXCEPT ![u] = "saved"]
        /\ feSpeech' = feSpeech /\ feRow' = feRow /\ feEvents' = feEvents
        /\ feResults' = feResults /\ feMissed' = feMissed
    BY <1>8 DEF Feed!Translate
  <2>2. /\ feTranslation' \in [Speeches -> {"none", "saved", "completed"}]
        /\ \A v \in Speeches : v = u \/ feTranslation'[v] = feTranslation[v]
        /\ feTranslation'[u] = "saved"
    BY <1>1, <2>1
  <2>. QED BY <1>1, <1>2, <1>4, <2>1, <2>2, ErasedPublished
<1>9. ASSUME NEW u \in Speeches, Feed!TranslationCompleted(u)
      PROVE  ErasedInv'
  <2>. DEFINE e   == Feed!Event("completed", u)
              all == Append(feResults, e)
              R   == [kind : {"completed"}, of : Speeches]
  <2>1. /\ feTranslation[u] = "saved"
        /\ feTranslation' = [feTranslation EXCEPT ![u] = "completed"]
        /\ feSpeech' = feSpeech /\ feRow' = feRow /\ feEvents' = feEvents
    BY <1>9 DEF Feed!TranslationCompleted
  <2>2. \/ feResults' = Tail(all) /\ feMissed' = feMissed \cup Feed!Brings(<<Head(all)>>)
        \/ feResults' = all /\ feMissed' = feMissed
        \/ ~feSubscribed /\ feResults' = feResults
           /\ feMissed' = feMissed \cup Feed!Unheard(<<e>>)
    BY <1>9 DEF Feed!TranslationCompleted
  <2>3. e \in R /\ Brought(Feed!Translation(u), e)
    BY DEF Feed!Event, Brought
  <2>. HIDE DEF e
  <2>4. /\ all \in Seq(R) /\ Len(all) = Len(feResults) + 1 /\ Len(feResults) \in Nat
        /\ all[Len(feResults) + 1] = e
        /\ \A i \in 1..Len(feResults) : all[i] = feResults[i]
    BY <1>1, <2>3, AddedLast
  <2>5. \A f : Carries(f, feResults) => Carries(f, all)
    BY <2>4 DEF Carries
  <2>6. Carries(Feed!Translation(u), all)
    BY <2>3, <2>4 DEF Carries
  <2>. HIDE DEF all
  <2>7. CASE feResults' = Tail(all) /\ feMissed' = feMissed \cup Feed!Brings(<<Head(all)>>)
    <3>1. /\ Head(all) = all[1] /\ Head(all) \in R
          /\ Len(Tail(all)) = Len(all) - 1
          /\ \A i \in 1..Len(all) - 1 : Tail(all)[i] = all[i + 1]
      <4>1. all # << >>
        BY <2>4
      <4>. HIDE DEF R
      <4>. QED BY <2>4, <4>1, TakenFirst
    <3>2. <<Head(all)>> \in Seq(R) /\ Len(<<Head(all)>>) = 1
          /\ <<Head(all)>>[1] = all[1]
      <4>. DEFINE h == Head(all)
      <4>1. h \in R /\ h = all[1]
        BY <3>1
      <4>. HIDE DEF h
      <4>2. <<h>> \in Seq(R) /\ Len(<<h>>) = 1 /\ <<h>>[1] = all[1]
        BY <4>1
      <4>. QED BY <4>2 DEF h
    <3>3. \A f : Carries(f, <<Head(all)>>) => f \in Feed!Brings(<<Head(all)>>)
      BY <3>2, FeedBrings
    <3>4. ASSUME NEW f, Carries(f, all)
          PROVE  Carries(f, feResults') \/ f \in feMissed'
      <4>1. PICK j \in 1..Len(all) : Brought(f, all[j])
        BY <3>4 DEF Carries
      <4>2. CASE j = 1
        BY <2>7, <3>2, <3>3, <4>1, <4>2 DEF Carries
      <4>3. CASE j # 1
        <5>1. j - 1 \in 1..Len(all) - 1 /\ (j - 1) + 1 = j
          BY <2>4, <4>3
        <5>2. Tail(all)[j - 1] = all[j] /\ j - 1 \in 1..Len(Tail(all))
          BY <3>1, <5>1
        <5>. QED BY <2>7, <4>1, <5>2 DEF Carries
      <4>. QED BY <4>2, <4>3
    <3>5. Quietly
      BY <2>1, <2>5, <2>7, <3>4
    <3>6. Carries(Feed!Translation(u), feResults') \/ Feed!Translation(u) \in feMissed'
      BY <2>6, <3>4
    <3>7. /\ feTranslation' \in [Speeches -> {"none", "saved", "completed"}]
          /\ \A v \in Speeches : v = u \/ feTranslation'[v] = feTranslation[v]
      BY <1>1, <2>1
    <3>. QED BY <1>1, <1>2, <2>1, <3>5, <3>6, <3>7, ErasedPublished
  <2>8. CASE feResults' = all /\ feMissed' = feMissed
    <3>1. Quietly
      BY <2>1, <2>5, <2>8
    <3>2. /\ feTranslation' \in [Speeches -> {"none", "saved", "completed"}]
          /\ \A v \in Speeches : v = u \/ feTranslation'[v] = feTranslation[v]
      BY <1>1, <2>1
    <3>. QED BY <1>1, <1>2, <2>1, <2>6, <2>8, <3>1, <3>2, ErasedPublished
  <2>9. CASE ~feSubscribed /\ feResults' = feResults
             /\ feMissed' = feMissed \cup Feed!Unheard(<<e>>)
    <3>1. Quietly
      BY <2>1, <2>9
    <3>2. feOpen => Feed!Translation(u) \in feMissed'
      <4>1. <<e>> \in Seq(R) /\ Len(<<e>>) = 1 /\ <<e>>[1] = e
        BY <2>3
      <4>2. Carries(Feed!Translation(u), <<e>>)
        BY <2>3, <4>1 DEF Carries
      <4>3. Feed!Translation(u) \in Feed!Brings(<<e>>)
        BY <4>1, <4>2, FeedBrings
      <4>4. feOpen /\ ~feSubscribed => Feed!Unheard(<<e>>) = Feed!Brings(<<e>>)
        BY DEF Feed!Unheard
      <4>. QED BY <2>9, <4>3, <4>4
    <3>3. /\ feTranslation' \in [Speeches -> {"none", "saved", "completed"}]
          /\ \A v \in Speeches : v = u \/ feTranslation'[v] = feTranslation[v]
      BY <1>1, <2>1
    <3>. QED BY <1>1, <1>2, <2>1, <3>1, <3>2, <3>3, ErasedPublished
  <2>. QED BY <2>2, <2>7, <2>8, <2>9
<1>10. ASSUME NEW u \in Speeches, NEW c \in Conversations, Feed!Store(u, c)
       PROVE  ErasedInv'
  <2>1. /\ feSpeech[u] \in {"idle", "live"} /\ feSpeech' = [feSpeech EXCEPT ![u] = "stored"]
        /\ feRow' = [feRow EXCEPT ![u] = c] /\ feTranslation' = feTranslation
        /\ feEvents' = feEvents /\ feResults' = feResults /\ feMissed' = feMissed
    BY <1>10 DEF Feed!Store
  <2>2. ASSUME NEW v \in Speeches
        PROVE  /\ feRow'[v] = feRow[v] \/ feSpeech'[v] # "over"
               /\ feSpeech[v] = "over" => feSpeech'[v] = "over" /\ feRow'[v] = feRow[v]
               /\ feSpeech'[v] = "over" => feSpeech[v] = "over"
    BY <1>1, <2>1
  <2>. QED BY <1>3, <1>4, <2>1, <2>2
<1>11. CASE Feed!Block
  <2>1. /\ feSpeech' = feSpeech /\ feRow' = feRow /\ feTranslation' = feTranslation
        /\ feEvents' = feEvents /\ feResults' = feResults /\ feMissed' = feMissed
    BY <1>11 DEF Feed!Block
  <2>. QED BY <1>3, <1>4, <2>1
<1>12. CASE Feed!ResetSession \/ Feed!AnnounceBlocked
  <2>1. /\ feRow' = feRow /\ feTranslation' = feTranslation /\ feResults' = feResults
    BY <1>12 DEF Feed!ResetSession, Feed!AnnounceBlocked
  <2>2. \A v \in Speeches : \/ feSpeech'[v] = feSpeech[v]
                            \/ feSpeech[v] = "live" /\ feSpeech'[v] = "over"
    <3>1. \/ feSpeech' = [v \in Speeches |->
                IF feSpeech[v] = "live" THEN "over" ELSE feSpeech[v]]
          \/ feSpeech' = [v \in Speeches |->
                IF v \in feRevoking /\ feSpeech[v] = "live" THEN "over"
                                                            ELSE feSpeech[v]]
      BY <1>12 DEF Feed!ResetSession, Feed!AnnounceBlocked
    <3>. QED BY <3>1
  <2>3. Quietly
    <3>1. CASE Feed!ResetSession
      BY <1>5, <2>1, <3>1, FeedEventTypes DEF Feed!ResetSession
    <3>2. CASE Feed!AnnounceBlocked
      <4>1. PICK o \in Feed!Bijection(1..Feed!Cardinality(feRevoking), feRevoking) :
              Feed!Announce([i \in DOMAIN o |-> Feed!Event("cancelled", o[i])])
        BY <3>2 DEF Feed!AnnounceBlocked
      <4>. DEFINE n == Cardinality(feRevoking)
                  a == [i \in DOMAIN o |-> Feed!Event("cancelled", o[i])]
      <4>2. feRevoking \in SUBSET Speeches
        BY <1>0 DEF FeedTypes
      <4>3. n \in Nat /\ o \in [1..n -> feRevoking]
        BY <4>2, FeedOrders
      <4>4. a \in Seq(FeedEvents)
        <5>1. DOMAIN o = 1..n
          BY <4>3
        <5>2. \A m \in 1..n : a[m] \in FeedEvents
          BY <4>2, <4>3, <5>1, FeedEventTypes
        <5>. HIDE DEF n
        <5>3. a = [i \in 1..n |-> Feed!Event("cancelled", o[i])]
          BY <5>1
        <5>4. a \in [1..n -> FeedEvents]
          BY <5>2, <5>3
        <5>. QED BY <4>3, <5>3, <5>4
      <4>5. Feed!Announce(a)
        BY <4>1
      <4>. QED BY <1>5, <2>1, <4>4, <4>5
    <3>. QED BY <1>12, <3>1, <3>2
  <2>. QED BY <1>3, <2>1, <2>2, <2>3
<1>. QED BY <1>6, <1>7, <1>8, <1>9, <1>10, <1>11, <1>12 DEF Feed!Publish

LEMMA NoRequest == None \notin Requests
BY FeedBounds DEF Requests, Facts, Feed!FeedAssumption

\* A request that is made is one, and waits for its page.
LEMMA FeedMade ==
  ASSUME NEW k \in {"open", "context", "refresh"}, NEW c \in Conversations,
         NEW v \in Nat
  PROVE  /\ Feed!NewRequest(k, c, v) # None
         /\ Feed!NewRequest(k, c, v).kind = k /\ Feed!NewRequest(k, c, v).page = None
         /\ Feed!NewRequest(k, c, v).conversation = c
         /\ Feed!NewRequest(k, c, v).version = v
BY FeedRequests, NoRequest DEF Feed!NewRequest

\* A step of the window leaves the publisher alone.
LEMMA ErasedWindow ==
  ASSUME ErasedInv, UNCHANGED Feed!server,
         feOpen' \in BOOLEAN, feFocused' \in BOOLEAN,
         feRequest' # None =>
           /\ feRequest'.conversation = feOpened' /\ feRequest'.version = feVersion'
           /\ feRequest'.kind = "context" => feFocused',
         feLate' # None => feLate'.version < feVersion',
         feOpen' /\ ~feFocused' /\ (feRequest' # None => feRequest'.page # None) =>
           \A f \in Feed!Announced : feRow[f[1]] = feOpened' => Found(f)'
  PROVE  ErasedInv'
<1>1. feTranslation' = feTranslation /\ feSpeech' = feSpeech /\ feRow' = feRow
  BY DEF Feed!server
<1>2. \A f : f \in Feed!Announced' <=> f \in Feed!Announced
  BY <1>1, Zenon DEF Feed!Announced, Feed!Text, Feed!Translation
<1>. QED BY <1>1, <1>2 DEF ErasedInv

\* It finds what was found, and opens nothing.
LEMMA ErasedFinds ==
  ASSUME ErasedInv, UNCHANGED Feed!server, feOpen' = feOpen,
         feOpened' = feOpened /\ feFocused' = feFocused /\ feVersion' = feVersion,
         feRequest' = feRequest \/ feRequest' = None,
         feRequest # None /\ feRequest.page = None /\ feRequest' # feRequest
           => \A f \in Feed!Announced : f \in fePool' \cup feMissed',
         feLate' \in {feLate, None},
         \A f : ~feFocused /\ feRow[f[1]] = feOpened /\ Found(f) => Found(f)'
  PROVE  ErasedInv'
<1>1. /\ feOpen' \in BOOLEAN /\ feFocused' \in BOOLEAN
      /\ feRequest' # None =>
           /\ feRequest'.conversation = feOpened' /\ feRequest'.version = feVersion'
           /\ feRequest'.kind = "context" => feFocused'
      /\ feLate' # None => feLate'.version < feVersion'
  BY DEF ErasedInv
<1>2. ASSUME feOpen', ~feFocused', feRequest' # None => feRequest'.page # None,
             NEW f \in Feed!Announced, feRow[f[1]] = feOpened'
      PROVE  Found(f)'
  <2>1. CASE feRequest # None /\ feRequest.page = None
    <3>1. f \in fePool' \/ f \in feMissed'
      BY <1>2, <2>1
    <3>. QED BY <3>1 DEF Found
  <2>2. CASE feRequest # None => feRequest.page # None
    BY <1>2, <2>2 DEF ErasedInv
  <2>. QED BY <2>1, <2>2
<1>. QED BY <1>1, <1>2, ErasedWindow

LEMMA ErasedConnects ==
  ASSUME FeedInv, ErasedInv,
         Feed!Subscribe \/ Feed!Opened \/ Feed!Closed \/ Feed!ReceiveLag \/ Feed!Muted
  PROVE  ErasedInv'
<1>0. /\ UNCHANGED Feed!server
      /\ feOpened' = feOpened /\ feVersion' = feVersion /\ feLate' = feLate
      /\ fePool' = fePool /\ feFocused' = feFocused
  BY DEF Feed!Subscribe, Feed!Opened, Feed!Closed, Feed!ReceiveLag, Feed!Muted,
         Feed!view, Feed!socket
<1>1. CASE Feed!Subscribe \/ Feed!ReceiveLag \/ Feed!Muted
  <2>1. /\ feOpen' = feOpen /\ feRequest' = feRequest /\ feEvents' = feEvents
        /\ feResults' = feResults /\ feMissed' = feMissed
    BY <1>1 DEF Feed!Subscribe, Feed!ReceiveLag, Feed!Muted, Feed!view, Feed!socket
  <2>2. \A f : Found(f) => Found(f)'
    BY <1>0, <2>1 DEF Found
  <2>. QED BY <1>0, <2>1, <2>2, ErasedFinds
<1>2. CASE Feed!Closed
  <2>1. feOpen' = FALSE /\ feRequest' = feRequest
    BY <1>2 DEF Feed!Closed, Feed!view
  <2>. QED BY <1>0, <2>1, ErasedWindow DEF ErasedInv
<1>3. CASE Feed!Opened
  <2>0. feOpen' = TRUE
    BY <1>3 DEF Feed!Opened
  <2>1. CASE feOpened = None \/ feFocused
    <3>1. feRequest' = feRequest
      BY <1>3, <2>1 DEF Feed!Opened
    <3>2. \A f \in Feed!Announced : feRow[f[1]] = feOpened => feFocused
      BY <2>1, AnnouncedOf
    <3>. QED BY <1>0, <2>0, <3>1, <3>2, ErasedWindow DEF ErasedInv
  <2>2. CASE ~(feOpened = None \/ feFocused) /\ feRequest = None
    <3>1. feRequest' = Feed!NewRequest("refresh", feOpened, feVersion)
      BY <1>3, <2>2 DEF Feed!Opened
    <3>2. /\ feRequest'.conversation = feOpened' /\ feRequest'.version = feVersion'
          /\ feRequest'.kind = "refresh" /\ feRequest'.page = None
      BY <1>0, <3>1 DEF Feed!NewRequest
    <3>3. feRequest' # None
      <4>1. feOpened \in Conversations /\ feVersion \in Nat
        BY <2>2 DEF FeedInv, FeedTypes
      <4>. QED BY <3>1, <4>1, FeedMade
    <3>. QED BY <1>0, <2>0, <3>2, <3>3, ErasedWindow DEF ErasedInv
  <2>3. CASE ~(feOpened = None \/ feFocused) /\ feRequest # None
    <3>1. feRequest' = feRequest /\ feMissed' = feMissed \cup (Feed!Announced \ fePool)
      BY <1>3, <2>3 DEF Feed!Opened
    <3>2. \A f \in Feed!Announced : Found(f)'
      BY <1>0, <3>1 DEF Found
    <3>. QED BY <1>0, <2>0, <3>1, <3>2, ErasedWindow DEF ErasedInv
  <2>. QED BY <2>1, <2>2, <2>3
<1>. QED BY <1>1, <1>2, <1>3

LEMMA ErasedOpens ==
  ASSUME FeedInv, ErasedInv, feLate = None,
         \/ \E c \in Conversations : Feed!OpenConversation(c)
         \/ \E u \in Speeches : Feed!OpenConversationAt(u)
         \/ Feed!ReadPage \/ Feed!FailRequest
  PROVE  ErasedInv'
<1>0. /\ UNCHANGED Feed!server /\ feOpen' = feOpen /\ feEvents' = feEvents
      /\ feResults' = feResults
  BY DEF Feed!OpenConversation, Feed!OpenConversationAt, Feed!ReadPage,
         Feed!FailRequest, Feed!socket
<1>1. /\ feVersion \in Nat /\ feRequest \in Requests \cup {None}
      /\ feRow \in [Speeches -> Conversations \cup {None}]
      /\ feOpen \in BOOLEAN /\ feFocused \in BOOLEAN
  BY DEF FeedInv, FeedTypes, ErasedInv
<1>2. CASE \/ \E c \in Conversations : Feed!OpenConversation(c)
           \/ \E u \in Speeches : Feed!OpenConversationAt(u)
  <2>1. PICK c \in Conversations, k \in {"open", "context"}, found \in BOOLEAN :
          /\ Feed!ClearPool(c, found) /\ feRequest' = Feed!NewRequest(k, c, feVersion')
          /\ k = "context" => found
    <3>1. ASSUME NEW u \in Speeches, Feed!OpenConversationAt(u)
          PROVE  feRow[u] \in Conversations
      BY <1>1, <3>1 DEF Feed!OpenConversationAt
    <3>. QED BY <1>2, <3>1 DEF Feed!OpenConversation, Feed!OpenConversationAt
  <2>2. /\ feVersion' = feVersion + 1 /\ feOpened' = c /\ feFocused' = found
        /\ feLate' = IF feRequest # None /\ feRequest.page # None
                     THEN feRequest ELSE feLate
    BY <2>1 DEF Feed!ClearPool
  <2>3. /\ feRequest' # None /\ feRequest'.page = None /\ feRequest'.kind = k
        /\ feRequest'.conversation = c /\ feRequest'.version = feVersion'
    BY <1>1, <2>1, <2>2, FeedMade
  <2>4. feLate' # None => feLate'.version < feVersion'
    <3>1. feRequest # None => feRequest.version = feVersion
      BY DEF ErasedInv
    <3>. QED BY <1>1, <2>2, <3>1
  <2>. QED BY <1>0, <1>1, <2>1, <2>2, <2>3, <2>4, ErasedWindow
<1>3. CASE Feed!ReadPage
  <2>1. /\ feRequest # None /\ feRequest \in Requests
        /\ feRequest' = [feRequest EXCEPT !.page = Feed!Page(feRequest.conversation)]
        /\ feOpened' = feOpened /\ feFocused' = feFocused /\ feVersion' = feVersion
        /\ feLate' = feLate
    BY <1>1, <1>3 DEF Feed!ReadPage
  <2>2. /\ feRequest.conversation = feOpened /\ feRequest.version = feVersion
        /\ feRequest.kind = "context" => feFocused
    BY <2>1 DEF ErasedInv
  <2>. DEFINE p == Feed!Page(feOpened)
  <2>3. /\ feRequest'.page = p /\ feRequest'.conversation = feRequest.conversation
        /\ feRequest'.version = feRequest.version
        /\ feRequest'.kind = feRequest.kind
    BY <2>1, <2>2 DEF Requests
  <2>4. ASSUME NEW f \in Feed!Announced, feRow[f[1]] = feOpened
        PROVE  f \in p
    <3>1. CASE \E u \in Speeches : feSpeech[u] = "over" /\ feRow[u] # None
                                    /\ f = Feed!Text(u)
      BY <2>4, <3>1, FeedFacts DEF Feed!Page
    <3>2. CASE \E u \in Speeches : feTranslation[u] = "completed"
                                    /\ f = Feed!Translation(u)
      BY <2>4, <3>2, FeedFacts DEF Feed!Page
    <3>. QED BY <3>1, <3>2, FeedAnnounced
  <2>. HIDE DEF p
  <2>5. feRequest' # None =>
          \A f \in Feed!Announced : feRow[f[1]] = feOpened' => Found(f)'
    BY <2>1, <2>3, <2>4 DEF Found
  <2>6. feRequest' # None
    <3>1. feRequest' \in Requests
      <4>1. feRequest.conversation \in Conversations
        BY <2>1 DEF Requests
      <4>2. p \in SUBSET Facts
        BY <2>2, <4>1, FeedPage DEF p
      <4>. QED BY <2>1, <2>2, <4>2 DEF Requests, p
    <3>. QED BY <3>1, NoRequest
  <2>. QED BY <1>0, <1>1, <2>1, <2>2, <2>3, <2>5, <2>6, ErasedWindow DEF ErasedInv
<1>4. CASE Feed!FailRequest
  <2>1. /\ feRequest' = None /\ feMissed' = feMissed \cup (Feed!Announced \ fePool)
        /\ fePool' = fePool
        /\ feOpened' = feOpened /\ feFocused' = feFocused /\ feVersion' = feVersion
        /\ feLate' = feLate
    BY <1>4 DEF Feed!FailRequest
  <2>2. \A f \in Feed!Announced : Found(f)'
    BY <2>1 DEF Found
  <2>. QED BY <1>0, <1>1, <2>1, <2>2, ErasedWindow DEF ErasedInv
<1>. QED BY <1>2, <1>3, <1>4

LEMMA ErasedResponds ==
  ASSUME FeedInv, ErasedInv, Feed!RespondLate \/ Feed!Respond
  PROVE  ErasedInv'
<1>0. /\ UNCHANGED Feed!server /\ feOpen' = feOpen /\ feEvents' = feEvents
      /\ feResults' = feResults
      /\ feOpened' = feOpened /\ feFocused' = feFocused /\ feVersion' = feVersion
  BY DEF Feed!RespondLate, Feed!Respond, Feed!socket
<1>1. CASE Feed!RespondLate
  <2>1. /\ feLate # None /\ feLate' = None /\ feRequest' = feRequest
        /\ Feed!Take(feLate)
    BY <1>1 DEF Feed!RespondLate
  <2>2. ~Feed!IsCurrent(feLate)
    <3>1. /\ feLate \in Requests /\ feVersion \in Nat /\ feLate.version < feVersion
      BY <2>1 DEF FeedInv, FeedTypes, ErasedInv
    <3>. QED BY <3>1 DEF Feed!IsCurrent, Requests
  <2>3. fePool' = fePool /\ feMissed' = feMissed
    BY <2>1, <2>2 DEF Feed!Take
  <2>4. \A f : Found(f) => Found(f)'
    BY <1>0, <2>1, <2>3 DEF Found
  <2>. QED BY <1>0, <2>1, <2>4, ErasedFinds
<1>2. CASE Feed!Respond
  <2>1. /\ feRequest # None /\ feRequest.page # None /\ feRequest' = None
        /\ feLate' = feLate /\ Feed!Take(feRequest)
    BY <1>2 DEF Feed!Respond
  <2>2. Feed!IsCurrent(feRequest) /\ (feRequest.kind = "context" => feFocused)
    BY <2>1 DEF ErasedInv, Feed!IsCurrent
  <2>3. /\ feMissed' = feMissed \ feRequest.page
        /\ fePool' = Feed!Merged(feRequest)
    BY <2>1, <2>2 DEF Feed!Take
  <2>4. ~feFocused => fePool' = fePool \cup feRequest.page
    BY <2>2, <2>3 DEF Feed!Merged
  <2>5. ASSUME NEW f, ~feFocused, Found(f)
        PROVE  Found(f)'
    BY <1>0, <2>3, <2>4, <2>5 DEF Found
  <2>. QED BY <1>0, <2>1, <2>5, ErasedFinds
<1>. QED BY <1>1, <1>2

\* What the first announcement brings is shown, or missed.
LEMMA ErasedReceivesResult ==
  ASSUME FeedInv, ErasedInv, Feed!ReceiveResult
  PROVE  ErasedInv'
<1>0. /\ UNCHANGED Feed!server /\ feOpen' = feOpen /\ feEvents' = feEvents
      /\ feOpened' = feOpened /\ feFocused' = feFocused /\ feVersion' = feVersion
      /\ feRequest' = feRequest /\ feLate' = feLate
      /\ feResults # << >> /\ feResults' = Tail(feResults)
  BY DEF Feed!ReceiveResult, Feed!socket, Feed!view
<1>. DEFINE R == [kind : {"completed"}, of : Speeches]
            e == Head(feResults)
<1>1. feResults \in Seq(R)
  BY DEF FeedInv, FeedTypes
<1>2. /\ \/ fePool' = fePool \cup {Feed!Translation(e.of)} /\ feMissed' = feMissed
         \/ feMissed' = feMissed \cup {Feed!Translation(e.of)} /\ fePool' = fePool
  BY DEF Feed!ReceiveResult
<1>3. \A s \in R : s.kind = "completed"
  OBVIOUS
<1>. HIDE DEF R
<1>4. /\ e = feResults[1] /\ e \in R /\ feResults' \in Seq(R)
      /\ Len(feResults') = Len(feResults) - 1 /\ Len(feResults) \in Nat
      /\ \A i \in 1..Len(feResults) - 1 : feResults'[i] = feResults[i + 1]
  BY <1>0, <1>1, TakenFirst
<1>. HIDE DEF e
<1>5. ASSUME NEW f, Carries(f, feResults)
      PROVE  Carries(f, feResults') \/ f \in fePool' \/ f \in feMissed'
  <2>1. PICK i \in 1..Len(feResults) : Brought(f, feResults[i])
    BY <1>5 DEF Carries
  <2>2. CASE i = 1
    <3>1. e.kind = "completed" /\ Brought(f, e)
      BY <1>3, <1>4, <2>1, <2>2
    <3>2. f = Feed!Translation(e.of)
      BY <3>1 DEF Brought
    <3>. QED BY <1>2, <3>2
  <2>3. CASE i # 1
    <3>1. i - 1 \in 1..Len(feResults) - 1 /\ (i - 1) + 1 = i
      BY <1>4, <2>3
    <3>2. feResults'[i - 1] = feResults[i] /\ i - 1 \in 1..Len(feResults')
      BY <1>4, <3>1
    <3>. QED BY <2>1, <3>2 DEF Carries
  <2>. QED BY <2>2, <2>3
<1>6. \A f : Found(f) => Found(f)'
  BY <1>0, <1>2, <1>5 DEF Found
<1>. QED BY <1>0, <1>6, ErasedFinds

LEMMA ErasedReceivesEvent ==
  ASSUME FeedInv, ErasedInv, Feed!ReceiveEvent
  PROVE  ErasedInv'
<1>0. /\ UNCHANGED Feed!server /\ feOpen' = feOpen /\ feResults' = feResults
      /\ feOpened' = feOpened /\ feFocused' = feFocused /\ feVersion' = feVersion
      /\ feRequest' = feRequest /\ feLate' = feLate
      /\ feEvents # << >> /\ feEvents' = Tail(feEvents)
  BY DEF Feed!ReceiveEvent, Feed!socket, Feed!view
<1>. DEFINE e == Head(feEvents)
<1>1. feEvents \in Seq(FeedEvents)
  BY DEF FeedInv, FeedTypes
<1>2. /\ e = feEvents[1] /\ e \in FeedEvents /\ feEvents' \in Seq(FeedEvents)
      /\ Len(feEvents') = Len(feEvents) - 1 /\ Len(feEvents) \in Nat
      /\ \A i \in 1..Len(feEvents) - 1 : feEvents'[i] = feEvents[i + 1]
  BY <1>0, <1>1, TakenFirst
<1>3. \/ e.kind \in {"partial", "final"} /\ feMissed' = feMissed \cup Feed!Brings(<<e>>)
         /\ fePool' = fePool
      \/ e.kind \in {"partial", "cancelled"} /\ fePool' = fePool /\ feMissed' = feMissed
      \/ /\ e.kind = "final" /\ feMissed' = feMissed
         /\ fePool' = IF Feed!Shows(e.of) THEN fePool \cup {Feed!Text(e.of)} ELSE fePool
      \/ e = Feed!Reset /\ fePool' = fePool /\ feMissed' = feMissed
  BY DEF Feed!ReceiveEvent
<1>4. e = Feed!Reset => e.kind = "reset"
  BY DEF Feed!Reset, Feed!Event
<1>5. e.kind # "completed"
  BY <1>2, <1>4 DEF FeedEvents
<1>6. \A f : Brought(f, e) => f \in Feed!Brings(<<e>>)
  <2>. HIDE DEF e
  <2>1. <<e>> \in Seq(FeedEvents) /\ Len(<<e>>) = 1 /\ <<e>>[1] = e
    BY <1>2
  <2>2. \A f : f \in Feed!Brings(<<e>>) <=> Carries(f, <<e>>)
    BY <2>1, FeedBrings
  <2>3. ASSUME NEW f, Brought(f, e)
        PROVE  Carries(f, <<e>>)
    <3>1. 1 \in 1..Len(<<e>>) /\ Brought(f, <<e>>[1])
      BY <2>1, <2>3
    <3>. QED BY <3>1, Zenon DEF Carries
  <2>. QED BY <2>2, <2>3
<1>. HIDE DEF e
<1>7. ASSUME NEW f, ~feFocused, feRow[f[1]] = feOpened, Brought(f, e)
      PROVE  f \in fePool' \/ f \in feMissed'
  <2>1. e.kind = "final" /\ f = Feed!Text(e.of)
    BY <1>5, <1>7 DEF Brought
  <2>2. Feed!Shows(e.of)
    BY <1>7, <2>1, FeedFacts DEF Feed!Shows
  <2>3. e.kind \notin {"partial", "cancelled", "reset"}
    BY <2>1
  <2>. QED BY <1>3, <1>4, <1>6, <1>7, <2>1, <2>2, <2>3
<1>8. ASSUME NEW f, ~feFocused, feRow[f[1]] = feOpened, Carries(f, feEvents)
      PROVE  Carries(f, feEvents') \/ f \in fePool' \/ f \in feMissed'
  <2>1. PICK i \in 1..Len(feEvents) : Brought(f, feEvents[i])
    BY <1>8 DEF Carries
  <2>2. CASE i = 1
    BY <1>2, <1>7, <1>8, <2>1, <2>2
  <2>3. CASE i # 1
    <3>1. i - 1 \in 1..Len(feEvents) - 1 /\ (i - 1) + 1 = i
      BY <1>2, <2>3
    <3>2. feEvents'[i - 1] = feEvents[i] /\ i - 1 \in 1..Len(feEvents')
      BY <1>2, <3>1
    <3>. QED BY <2>1, <3>2 DEF Carries
  <2>. QED BY <2>2, <2>3
<1>9. fePool \subseteq fePool' /\ feMissed \subseteq feMissed'
  BY <1>3
<1>10. ASSUME NEW f, ~feFocused, feRow[f[1]] = feOpened, Found(f)
       PROVE  Found(f)'
  BY <1>0, <1>8, <1>9, <1>10 DEF Found
<1>. QED BY <1>0, <1>10, ErasedFinds

LEMMA ErasedStart ==
  ASSUME Feed!FeedInit
  PROVE  ErasedInv
<1>1. /\ feTranslation = [u \in Speeches |-> "none"] /\ feOpen = FALSE
      /\ feFocused = FALSE /\ feRequest = None /\ feLate = None
  BY DEF Feed!FeedInit
<1>. QED BY <1>1 DEF ErasedInv

LEMMA ErasedStep ==
  ASSUME FeedInv, ErasedInv, Feed!FeedNext \/ UNCHANGED feed
  PROVE  ErasedInv'
<1>1. CASE UNCHANGED feed
  <2>1. /\ UNCHANGED Feed!server /\ feOpen' = feOpen /\ feEvents' = feEvents
        /\ feResults' = feResults /\ feRequest' = feRequest /\ feLate' = feLate
        /\ feOpened' = feOpened /\ feFocused' = feFocused /\ feVersion' = feVersion
        /\ fePool' = fePool /\ feMissed' = feMissed
    BY <1>1 DEF feed, Feed!server
  <2>2. \A f : Found(f) => Found(f)'
    BY <2>1 DEF Found
  <2>. QED BY <2>1, <2>2, ErasedFinds
<1>2. CASE Feed!RespondLate
  BY <1>2, ErasedResponds
<1>3. CASE feLate = None /\ Feed!Publish
  BY <1>3, ErasedPublish
<1>4. CASE feLate = None /\ Feed!Follow
  BY <1>4, ErasedConnects, ErasedOpens, ErasedResponds, ErasedReceivesResult,
     ErasedReceivesEvent DEF Feed!Follow
<1>. QED BY <1>1, <1>2, <1>3, <1>4 DEF Feed!FeedNext

\* What was announced of the opened conversation is shown, unless it was missed.
LEMMA FeedErasesNothing ==
  ASSUME ErasedInv
  PROVE  Feed!NothingIsErased
<1>. SUFFICES ASSUME Feed!Connected, ~feFocused, feRequest = None, feLate = None,
                     feEvents = << >>, feResults = << >>,
                     NEW f \in Feed!Announced, f \notin feMissed,
                     feRow[f[1]] = feOpened
              PROVE  f \in fePool
  BY DEF Feed!NothingIsErased
<1>1. Found(f)
  BY DEF ErasedInv, Feed!Connected
<1>2. ~Carries(f, << >>)
  BY DEF Carries
<1>. QED BY <1>1, <1>2 DEF Found

-----------------------------------------------------------------------------
(* QuestionAudio: a question is what was said                              *)

AudioWindow ==
  [start : Nat, end : Nat \cup {None}, samples : Seq(Int), coveredStart : BOOLEAN,
   startupGap : BOOLEAN, complete : BOOLEAN, error : BOOLEAN]

\* The samples in s follow each other from the start of the window w on.
FromStart(s, w) == \A i \in 1..Len(s) : s[i] = w.start + i - 1

(***************************************************************************)
(* A window without an error is what the device took until the time mark,  *)
(* and what was sent of it, s, is its beginning.                           *)
(***************************************************************************)
Recorded(w, mark, s) ==
  /\ w \in AudioWindow
  /\ w.complete => w.end # None
  /\ ~w.error =>
     /\ w.end # None => w.end <= HeldFor
     /\ ~w.coveredStart => Len(w.samples) = 0 /\ Len(s) = 0
     /\ w.coveredStart =>
        /\ FromStart(w.samples, w) /\ FromStart(s, w)
        /\ w.complete => Len(w.samples) = IF w.end > w.start THEN w.end - w.start ELSE 0
        /\ ~w.complete =>
           /\ mark # None /\ mark > w.start /\ Len(w.samples) = mark - w.start
           /\ IF w.end = None THEN mark <= HeldFor ELSE mark < w.end

\* What was sent was said; who has read to the end has read the window.
RecordInv ==
  /\ auNow \in Nat /\ auWatermark \in Int \cup {None}
  /\ auReleasing \in Nat \cup {None} /\ auReader \in {"reading", "failed", "done"}
  /\ auReleasing # None => auReleasing <= auNow
  /\ auDevice \in {"opening", "lost"} => auWatermark = None
  /\ auSent \in Seq(Int) /\ \A i \in 1..Len(auSent) : auSent[i] < auNow
  /\ auWindow # None =>
     /\ Recorded(auWindow, auWatermark, auSent)
     /\ auReleasing # None => auWindow.end = None
     /\ auWindow.end # None => auWindow.end <= auNow
     /\ auReader = "done" =>
          /\ auWindow.complete /\ ~auWindow.error /\ auWindow.coveredStart
          /\ Len(auSent) = auWindow.end - auWindow.start

LEMMA AudioFacts ==
  /\ HeldFor \in Nat /\ Grace \in Nat /\ Skew \in Nat /\ MaxChunk \in Nat
  /\ None \notin Int
BY AudioBounds DEF Audio!AudioAssumption

\* A window that failed is recorded, whatever was sent.
LEMMA RecordFails ==
  ASSUME NEW w \in AudioWindow, NEW mark, NEW s, w.complete => w.end # None
  PROVE  /\ Recorded(Audio!Failed(w), mark, s)
         /\ Audio!Failed(w).error /\ Audio!Failed(w).end = w.end
<1>. DEFINE f == Audio!Failed(w)
<1>1. << >> \in Seq(Int)
  OBVIOUS
<1>2. /\ f \in AudioWindow /\ f.complete = w.complete /\ f.end = w.end /\ f.error = TRUE
  BY <1>1 DEF Audio!Failed, AudioWindow
<1>. HIDE DEF f
<1>3. Recorded(f, mark, s)
  BY <1>2 DEF Recorded
<1>. QED BY <1>2, <1>3 DEF f

\* Range
LEMMA RangeFacts ==
  ASSUME NEW a \in Int, NEW b \in Int
  PROVE  /\ Audio!Range(a, b) \in Seq(Int)
         /\ Len(Audio!Range(a, b)) = IF b > a THEN b - a ELSE 0
         /\ \A i \in 1..Len(Audio!Range(a, b)) : Audio!Range(a, b)[i] = a + i - 1
<1>. DEFINE n == IF b > a THEN b - a ELSE 0
<1>1. n \in Nat
  OBVIOUS
<1>2. Audio!Range(a, b) = [i \in 1..n |-> a + i - 1]
  BY DEF Audio!Range
<1>. HIDE DEF n
<1>3. /\ Audio!Range(a, b) \in [1..n -> Int] /\ Len(Audio!Range(a, b)) = n
      /\ Audio!Range(a, b) \in Seq(Int)
  BY <1>1, <1>2
<1>. QED BY <1>2, <1>3 DEF n

\* The samples before t: all those before it come first.
LEMMA BeforeFacts ==
  ASSUME NEW s \in Seq(Int), NEW t \in Int
  PROVE  /\ Audio!Before(s, t) \in 0..Len(s)
         /\ \A i \in 1..Audio!Before(s, t) : s[i] < t
         /\ Audio!Before(s, t) < Len(s) => s[Audio!Before(s, t) + 1] >= t
<1>. DEFINE M == {x \in Int : x >= t}
            k == FirstIn(s, M)
<1>1. /\ k \in 1..Len(s)+1 /\ (k <= Len(s) => s[k] \in M)
      /\ \A j \in 1..k-1 : s[j] \notin M
  <2>. HIDE DEF M
  <2>. QED BY FirstInProperties
<1>2. Audio!Before(s, t) = k - 1
  BY DEF Audio!Before, Audio!FirstIn, FirstIn
<1>. HIDE DEF k
<1>3. \A j \in 1..Len(s) : s[j] \in Int
  OBVIOUS
<1>4. Len(s) \in Nat
  OBVIOUS
<1>5. ASSUME NEW j \in 1..k-1
      PROVE  s[j] < t
  <2>1. s[j] \notin M /\ s[j] \in Int
    BY <1>1, <1>3, <1>4
  <2>. QED BY <2>1
<1>6. k <= Len(s) => s[k] >= t
  BY <1>1
<1>. HIDE DEF M
<1>. QED BY <1>1, <1>2, <1>4, <1>5, <1>6

\* The first chunk that reaches into the window is its beginning.
LEMMA RecordCovers ==
  ASSUME NEW w, NEW mark \in Int \cup {None}, NEW s, Recorded(w, mark, s),
         ~w.complete, ~w.error, NEW from \in Int, NEW to \in Int,
         to > from, to > w.start, mark # None => mark = from
  PROVE  LET c == Audio!Covered(w, from)
         IN  /\ c \in AudioWindow /\ c.end = w.end /\ ~c.complete
             /\ ~c.error =>
                /\ c.coveredStart /\ c.start < to
                /\ FromStart(c.samples, c) /\ FromStart(s, c)
                /\ Audio!Greater(from, c.start) = c.start + Len(c.samples)
                /\ c.end # None => c.end <= HeldFor
                /\ Len(c.samples) > 0 => from < to /\ (c.end # None => from < c.end)
<1>0. w \in AudioWindow /\ w.start \in Nat /\ Len(w.samples) \in Nat
  BY DEF Recorded, AudioWindow
<1>1. CASE w.coveredStart
  <2>1. Audio!Covered(w, from) = w
    BY <1>1 DEF Audio!Covered
  <2>2. /\ mark = from /\ mark > w.start /\ Len(w.samples) = mark - w.start
        /\ FromStart(w.samples, w) /\ FromStart(s, w)
        /\ w.end # None => w.end <= HeldFor /\ mark < w.end
    BY <1>1 DEF Recorded
  <2>3. Audio!Greater(from, w.start) = w.start + Len(w.samples)
    BY <1>0, <2>2 DEF Audio!Greater
  <2>. QED BY <1>0, <1>1, <2>1, <2>2, <2>3
<1>2. CASE ~w.coveredStart
  <2>1. /\ Len(w.samples) = 0 /\ Len(s) = 0 /\ (w.end # None => w.end <= HeldFor)
    BY <1>2 DEF Recorded
  <2>. DEFINE at == IF w.startupGap THEN Audio!Greater(w.start, from) ELSE w.start
  <2>2. at \in Nat /\ at < to
    BY <1>0 DEF Audio!Greater
  <2>3. CASE from > at
    <3>1. Audio!Covered(w, from) = Audio!Failed(w)
      BY <1>2, <2>3 DEF Audio!Covered
    <3>2. /\ Audio!Failed(w) \in AudioWindow /\ Audio!Failed(w).end = w.end
          /\ Audio!Failed(w).error /\ ~Audio!Failed(w).complete
      <4>1. << >> \in Seq(Int)
        OBVIOUS
      <4>. QED BY <1>0, <4>1 DEF Audio!Failed, AudioWindow
    <3>. QED BY <3>1, <3>2
  <2>4. CASE ~(from > at)
    <3>1. Audio!Covered(w, from) =
            [w EXCEPT !.start = at, !.startupGap = FALSE, !.coveredStart = TRUE]
      BY <1>2, <2>4 DEF Audio!Covered
    <3>. HIDE DEF at
    <3>. DEFINE c == Audio!Covered(w, from)
    <3>2. /\ c \in AudioWindow /\ c.end = w.end /\ c.complete = w.complete
          /\ c.start = at /\ c.samples = w.samples /\ c.coveredStart /\ c.error = w.error
      BY <1>0, <2>2, <3>1 DEF AudioWindow
    <3>. HIDE DEF c
    <3>3. Audio!Greater(from, c.start) = c.start + Len(c.samples)
      BY <2>1, <2>2, <2>4, <3>2 DEF Audio!Greater
    <3>4. FromStart(c.samples, c) /\ FromStart(s, c)
      BY <2>1, <3>2 DEF FromStart
    <3>5. /\ c \in AudioWindow /\ c.end = w.end /\ ~c.complete /\ c.coveredStart
          /\ c.start < to /\ (c.end # None => c.end <= HeldFor) /\ ~(Len(c.samples) > 0)
      BY <2>1, <2>2, <3>2
    <3>. QED BY <1>2, <3>3, <3>4, <3>5 DEF c
  <2>. QED BY <2>3, <2>4
<1>. QED BY <1>1, <1>2

\* What a chunk adds to a window
LEMMA RecordCollects ==
  ASSUME NEW c \in AudioWindow, ~c.complete, NEW from \in Int, NEW to \in Int,
         NEW s,
         ~c.error =>
           /\ c.coveredStart /\ c.start < to
           /\ FromStart(c.samples, c) /\ FromStart(s, c)
           /\ Audio!Greater(from, c.start) = c.start + Len(c.samples)
           /\ c.end # None => c.end <= HeldFor
           /\ Len(c.samples) > 0 => from < to /\ (c.end # None => from < c.end)
  PROVE  /\ Recorded(Audio!Collected(c, from, to), to, s)
         /\ Audio!Collected(c, from, to).end = c.end
<1>0. c.start \in Nat /\ c.end \in Nat \cup {None} /\ c.samples \in Seq(Int)
  BY DEF AudioWindow
<1>. DEFINE stop  == Audio!StopOf(c)
            fails == stop > HeldFor \/ (c.end = None /\ to > HeldFor)
            first == Audio!Greater(from, c.start)
            new   == Audio!Range(first, Audio!Less(to, stop))
            all   == c.samples \o new
<1>1. CASE c.error
  <2>1. Audio!Collected(c, from, to) = c
    BY <1>1 DEF Audio!Collected
  <2>. QED BY <1>1, <2>1 DEF Recorded
<1>2. CASE ~c.error /\ fails
  <2>1. Audio!Collected(c, from, to) = Audio!Failed(c)
    BY <1>2 DEF Audio!Collected
  <2>. QED BY <2>1, RecordFails
<1>3. CASE ~c.error /\ ~fails
  <2>1. Audio!Collected(c, from, to) =
          [c EXCEPT !.samples = @ \o new, !.complete = c.end # None /\ to >= c.end]
    BY <1>3 DEF Audio!Collected
  <2>2. /\ c.end = None => stop = HeldFor
        /\ c.end # None => stop = c.end
        /\ stop \in Int /\ HeldFor \in Nat
    BY <1>0, AudioFacts DEF Audio!StopOf
  <2>3. /\ first = c.start + Len(c.samples) /\ first \in Int
        /\ Len(c.samples) \in Nat
        /\ Len(c.samples) > 0 => first = from
    BY <1>0, <1>3 DEF Audio!Greater
  <2>. DEFINE b    == Audio!Less(to, stop)
              size == Len(c.samples)
              more == IF b > first THEN b - first ELSE 0
  <2>4. b = (IF to < stop THEN to ELSE stop) /\ b \in Int
    BY <2>2 DEF Audio!Less
  <2>5. /\ new \in Seq(Int) /\ Len(new) = more /\ more \in Nat
        /\ \A i \in 1..Len(new) : new[i] = first + i - 1
    <3>. HIDE DEF b, first
    <3>1. first \in Int /\ b \in Int
      BY <2>3, <2>4
    <3>2. /\ Audio!Range(first, b) \in Seq(Int)
          /\ Len(Audio!Range(first, b)) = IF b > first THEN b - first ELSE 0
          /\ \A i \in 1..Len(Audio!Range(first, b)) :
               Audio!Range(first, b)[i] = first + i - 1
      BY <3>1, RangeFacts
    <3>. QED BY <3>1, <3>2 DEF b
  <2>6. c.end = None => ~(to > HeldFor)
    BY <1>3
  <2>. HIDE DEF stop, fails, first, new
  <2>7. /\ all \in Seq(Int) /\ Len(all) = size + more /\ size \in Nat
        /\ \A i \in 1..size + more :
             all[i] = IF i <= size THEN c.samples[i] ELSE new[i - size]
    <3>. HIDE DEF b, more
    <3>1. /\ c.samples \o new \in Seq(Int)
          /\ Len(c.samples \o new) = Len(c.samples) + Len(new)
          /\ \A i \in 1..Len(c.samples) + Len(new) :
               (c.samples \o new)[i] = IF i <= Len(c.samples) THEN c.samples[i]
                                       ELSE new[i - Len(c.samples)]
      <4>1. c.samples \in Seq(Int) /\ new \in Seq(Int)
        BY <1>0, <2>5
      <4>. QED BY <4>1, ConcatFacts
    <3>. QED BY <2>3, <2>5, <3>1
  <2>. DEFINE d == Audio!Collected(c, from, to)
  <2>. HIDE DEF all
  <2>8. d = [c EXCEPT !.samples = all, !.complete = c.end # None /\ to >= c.end]
    BY <2>1 DEF all
  <2>9. /\ d \in AudioWindow /\ d.start = c.start /\ d.end = c.end /\ d.samples = all
        /\ d.coveredStart = c.coveredStart /\ d.error = c.error
        /\ d.complete = (c.end # None /\ to >= c.end)
    BY <2>7, <2>8 DEF AudioWindow
  <2>. HIDE DEF d
  <2>10. FromStart(all, c)
    <3>1. ASSUME NEW i \in 1..Len(all)
          PROVE  all[i] = c.start + i - 1
      <4>1. CASE i <= size
        <5>1. i \in 1..Len(c.samples) /\ all[i] = c.samples[i]
          BY <2>5, <2>7, <4>1
        <5>. QED BY <1>3, <5>1 DEF FromStart
      <4>2. CASE ~(i <= size)
        <5>. HIDE DEF size, more
        <5>1. i - size \in 1..Len(new) /\ all[i] = new[i - size] /\ i \in Int
          BY <2>5, <2>7, <4>2
        <5>2. all[i] = first + (i - size) - 1
          BY <2>5, <5>1
        <5>3. first = c.start + size
          BY <2>3 DEF size
        <5>4. size \in Nat /\ c.start \in Nat /\ i \in Int
          BY <1>0, <2>7, <5>1
        <5>5. c.start + size + (i - size) - 1 = c.start + i - 1
          BY <5>4
        <5>. QED BY <5>2, <5>3, <5>5
      <4>. QED BY <4>1, <4>2
    <3>. QED BY <3>1 DEF FromStart
  <2>11. /\ Len(all) = size + more /\ size \in Nat /\ first = c.start + size
         /\ first \in Int /\ (size > 0 => first = from)
    BY <2>3, <2>7
  <2>12. /\ c.end # None /\ to >= c.end =>
              Len(all) = IF c.end > c.start THEN c.end - c.start ELSE 0
         /\ ~(c.end # None /\ to >= c.end) => Len(all) = to - c.start
    <3>1. /\ c.start < to
          /\ size > 0 => from < to /\ (c.end # None => from < c.end)
      BY <1>3
    <3>. HIDE DEF size
    <3>2. CASE c.end # None /\ to >= c.end
      <4>1. c.end \in Nat /\ b = c.end
        BY <1>0, <2>2, <2>4, <3>2
      <4>2. c.start \in Nat /\ to \in Int /\ size \in Nat
        BY <1>0, <2>11
      <4>. HIDE DEF b
      <4>3. size > 0 => c.start + size < c.end
        BY <2>11, <3>1, <3>2
      <4>4. more = IF c.end > c.start + size THEN c.end - (c.start + size) ELSE 0
        BY <2>11, <4>1
      <4>. HIDE DEF more
      <4>5. size + more = IF c.end > c.start THEN c.end - c.start ELSE 0
        BY <4>1, <4>2, <4>3, <4>4
      <4>. QED BY <2>11, <3>2, <4>5
    <3>3. CASE ~(c.end # None /\ to >= c.end)
      <4>1. b = to
        <5>1. CASE c.end # None
          BY <1>0, <2>2, <2>4, <3>3, <5>1
        <5>2. CASE c.end = None
          BY <2>2, <2>4, <2>6, <5>2
        <5>. QED BY <5>1, <5>2
      <4>2. c.start \in Nat /\ to \in Int /\ size \in Nat
        BY <1>0, <2>11
      <4>. HIDE DEF b
      <4>3. size > 0 => c.start + size < to
        BY <2>11, <3>1
      <4>4. more = IF to > c.start + size THEN to - (c.start + size) ELSE 0
        BY <2>11, <4>1
      <4>. HIDE DEF more
      <4>5. size + more = to - c.start
        BY <3>1, <4>2, <4>3, <4>4
      <4>. QED BY <2>11, <3>3, <4>5
    <3>. QED BY <3>2, <3>3
  <2>13. /\ to # None /\ to > c.start
         /\ ~(c.end # None /\ to >= c.end) =>
              IF c.end = None THEN to <= HeldFor ELSE to < c.end
    BY <1>0, <1>3, <2>2, <2>6, AudioFacts
  <2>14. FromStart(all, d) /\ FromStart(s, d)
    BY <1>3, <2>9, <2>10 DEF FromStart
  <2>15. c.coveredStart /\ (c.end # None => c.end <= HeldFor)
    BY <1>3
  <2>. QED BY <2>9, <2>12, <2>13, <2>14, <2>15 DEF Recorded, d
<1>. QED BY <1>1, <1>2, <1>3

\* A chunk that ends before the window begins adds nothing to it.
LEMMA RecordPasses ==
  ASSUME NEW w, NEW mark \in Int \cup {None}, NEW s, Recorded(w, mark, s),
         ~w.complete, ~w.error, NEW from \in Int, NEW to \in Int,
         to > from, ~(to > w.start), mark # None => mark = from
  PROVE  /\ Recorded(Audio!Collected(w, from, to), to, s)
         /\ Audio!Collected(w, from, to).end = w.end
<1>0. /\ w \in AudioWindow /\ w.start \in Nat /\ w.end \in Nat \cup {None}
      /\ w.samples \in Seq(Int)
  BY DEF Recorded, AudioWindow
<1>1. ~w.coveredStart
  <2>1. w.coveredStart => mark # None /\ mark > w.start
    BY DEF Recorded
  <2>. QED BY <1>0, <2>1
<1>2. Len(w.samples) = 0 /\ Len(s) = 0 /\ (w.end # None => w.end <= HeldFor)
  BY <1>1 DEF Recorded
<1>. DEFINE stop  == Audio!StopOf(w)
            fails == stop > HeldFor \/ (w.end = None /\ to > HeldFor)
            new   == Audio!Range(Audio!Greater(from, w.start), Audio!Less(to, stop))
            all   == w.samples \o new
<1>3. CASE fails
  <2>1. Audio!Collected(w, from, to) = Audio!Failed(w)
    BY <1>3 DEF Audio!Collected
  <2>. QED BY <1>0, <2>1, RecordFails
<1>4. CASE ~fails
  <2>1. Audio!Collected(w, from, to) =
          [w EXCEPT !.samples = @ \o new, !.complete = w.end # None /\ to >= w.end]
    BY <1>4 DEF Audio!Collected
  <2>2. stop \in Int
    BY <1>0, AudioFacts DEF Audio!StopOf
  <2>3. /\ Audio!Greater(from, w.start) \in Int /\ Audio!Less(to, stop) \in Int
        /\ ~(Audio!Less(to, stop) > Audio!Greater(from, w.start))
    BY <1>0, <2>2 DEF Audio!Greater, Audio!Less
  <2>4. new \in Seq(Int) /\ Len(new) = 0
    BY <2>3, RangeFacts
  <2>. HIDE DEF stop, fails, new
  <2>5. all \in Seq(Int) /\ Len(all) = 0
    BY <1>0, <1>2, <2>4, ConcatFacts
  <2>. DEFINE d == Audio!Collected(w, from, to)
  <2>. HIDE DEF all
  <2>6. d = [w EXCEPT !.samples = all, !.complete = w.end # None /\ to >= w.end]
    BY <2>1 DEF all
  <2>7. /\ d \in AudioWindow /\ d.start = w.start /\ d.end = w.end /\ d.samples = all
        /\ d.coveredStart = w.coveredStart /\ d.error = w.error
        /\ d.complete = (w.end # None /\ to >= w.end)
    BY <1>0, <2>5, <2>6 DEF AudioWindow
  <2>. HIDE DEF d
  <2>. QED BY <1>1, <1>2, <2>5, <2>7 DEF Recorded, d
<1>. QED BY <1>3, <1>4

\* A window that is complete, has failed or is not covered waits for no time.
LEMMA RecordWaits ==
  ASSUME NEW w, NEW mark, NEW later, NEW s, Recorded(w, mark, s),
         w.complete \/ w.error \/ ~w.coveredStart
  PROVE  Recorded(w, later, s)
BY DEF Recorded

\* The window w that is released at t when the device is at mark
ReleasedAt(w, mark, t) ==
  LET r == [w EXCEPT !.end = t, !.samples = Audio!Trimmed(@, t)]
  IN  IF t > HeldFor THEN Audio!Failed(r)
      ELSE [r EXCEPT !.complete = ~r.error /\ mark # None /\ mark >= t]

LEMMA RecordReleases ==
  ASSUME NEW w, NEW mark \in Int \cup {None}, NEW s, Recorded(w, mark, s),
         w.end = None, NEW t \in Nat
  PROVE  Recorded(ReleasedAt(w, mark, t), mark, s) /\ ReleasedAt(w, mark, t).end = t
<1>0. /\ w \in AudioWindow /\ w.start \in Nat /\ w.samples \in Seq(Int)
      /\ ~w.complete /\ t # None
  BY AudioFacts DEF Recorded, AudioWindow
<1>. DEFINE cut == Audio!Trimmed(w.samples, t)
            n   == Audio!Before(w.samples, t)
            r   == [w EXCEPT !.end = t, !.samples = Audio!Trimmed(@, t)]
            d   == IF t > HeldFor THEN Audio!Failed(r)
                   ELSE [r EXCEPT !.complete = ~r.error /\ mark # None /\ mark >= t]
<1>1. /\ n \in 0..Len(w.samples) /\ Len(w.samples) \in Nat
      /\ \A i \in 1..n : w.samples[i] < t
      /\ n < Len(w.samples) => w.samples[n + 1] >= t
  <2>. HIDE DEF r, d
  <2>1. w.samples \in Seq(Int) /\ t \in Int
    BY <1>0
  <2>2. Len(w.samples) \in Nat
    BY <2>1
  <2>. QED BY <2>1, <2>2, BeforeFacts
<1>2. /\ cut \in Seq(Int) /\ Len(cut) = n
      /\ \A i \in 1..n : cut[i] = w.samples[i]
  <2>1. cut = SubSeq(w.samples, 1, n)
    BY DEF Audio!Trimmed
  <2>. HIDE DEF n
  <2>. QED BY <1>0, <1>1, <2>1
<1>. HIDE DEF cut, n
<1>3. r = [w EXCEPT !.end = t, !.samples = cut]
  BY DEF cut
<1>4. /\ r \in AudioWindow /\ r.start = w.start /\ r.end = t /\ r.samples = cut
      /\ r.coveredStart = w.coveredStart /\ r.error = w.error /\ ~r.complete
  BY <1>0, <1>2, <1>3 DEF AudioWindow
<1>. HIDE DEF r
<1>5. CASE t > HeldFor
  <2>1. d = Audio!Failed(r)
    BY <1>5
  <2>. HIDE DEF d
  <2>2. Recorded(d, mark, s) /\ d.end = t
    BY <1>4, <2>1, RecordFails
  <2>. QED BY <2>2 DEF d, r, ReleasedAt
<1>6. CASE ~(t > HeldFor)
  <2>1. d = [r EXCEPT !.complete = ~r.error /\ mark # None /\ mark >= t]
    BY <1>6
  <2>2. /\ d \in AudioWindow /\ d.start = w.start /\ d.end = t /\ d.samples = cut
        /\ d.coveredStart = w.coveredStart /\ d.error = w.error
        /\ d.complete = (~w.error /\ mark # None /\ mark >= t)
    BY <1>4, <2>1 DEF AudioWindow
  <2>. HIDE DEF d
  <2>3. ASSUME ~w.error, ~w.coveredStart
        PROVE  Len(cut) = 0 /\ Len(s) = 0
    <3>1. Len(w.samples) = 0 /\ Len(s) = 0
      BY <2>3 DEF Recorded
    <3>. QED BY <1>1, <1>2, <3>1
  <2>4. ASSUME ~w.error, w.coveredStart
        PROVE  /\ FromStart(cut, w) /\ FromStart(s, w)
               /\ mark \in Int /\ mark # None /\ mark > w.start
               /\ mark >= t => Len(cut) = IF t > w.start THEN t - w.start ELSE 0
               /\ ~(mark >= t) => Len(cut) = mark - w.start /\ mark < t
    <3>1. /\ FromStart(w.samples, w) /\ FromStart(s, w)
          /\ mark # None /\ mark > w.start /\ Len(w.samples) = mark - w.start
      BY <1>0, <2>4 DEF Recorded
    <3>2. \A i \in 1..n : w.samples[i] = w.start + i - 1
      BY <1>1, <3>1 DEF FromStart
    <3>3. FromStart(cut, w)
      BY <1>2, <3>2 DEF FromStart
    <3>4. n < Len(w.samples) => w.start + n >= t
      <4>1. n < Len(w.samples) => w.samples[n + 1] = w.start + (n + 1) - 1
        BY <1>1, <3>1 DEF FromStart
      <4>2. n \in Nat /\ w.start \in Nat
        BY <1>0, <1>1
      <4>3. w.start + (n + 1) - 1 = w.start + n
        BY <4>2
      <4>. QED BY <1>1, <4>1, <4>3
    <3>5. n > 0 => w.start + n - 1 < t
      BY <1>1, <3>2
    <3>6. n \in Nat /\ n <= mark - w.start /\ w.start \in Nat /\ mark \in Int
      BY <1>0, <1>1, <3>1
    <3>7. n < mark - w.start => w.start + n >= t
      BY <3>1, <3>4
    <3>8. mark >= t => n = IF t > w.start THEN t - w.start ELSE 0
      BY <3>5, <3>6, <3>7
    <3>9. ~(mark >= t) => n = mark - w.start
      BY <3>6, <3>7
    <3>. QED BY <1>2, <3>1, <3>3, <3>6, <3>8, <3>9
  <2>5. d.start = w.start => (FromStart(cut, w) => FromStart(cut, d))
                             /\ (FromStart(s, w) => FromStart(s, d))
    BY DEF FromStart
  <2>6. ~(t > HeldFor) => t <= HeldFor
    BY AudioFacts
  <2>7. Recorded(d, mark, s)
    BY <1>0, <1>6, <2>2, <2>3, <2>4, <2>5, <2>6 DEF Recorded
  <2>. QED BY <2>2, <2>7 DEF d, r, ReleasedAt
<1>. QED BY <1>5, <1>6

\* A step that leaves the reader and the owner alone
LEMMA RecordGoesOn ==
  ASSUME RecordInv, auNow' = auNow, auReleasing' = auReleasing,
         auReader' = auReader, auSent' = auSent,
         auWatermark' \in Int \cup {None},
         auDevice' \in {"opening", "lost"} => auWatermark' = None,
         auWindow' # None =>
           /\ auWindow # None /\ auWindow'.end = auWindow.end
           /\ Recorded(auWindow', auWatermark', auSent)
           /\ auWindow.complete => auWindow' = auWindow
  PROVE  RecordInv'
<1>1. ASSUME auWindow' # None
      PROVE  /\ Recorded(auWindow, auWatermark, auSent)'
             /\ auReleasing' # None => auWindow'.end = None
             /\ auWindow'.end # None => auWindow'.end <= auNow'
             /\ auReader' = "done" =>
                  /\ auWindow'.complete /\ ~auWindow'.error /\ auWindow'.coveredStart
                  /\ Len(auSent') = auWindow'.end - auWindow'.start
  <2>1. /\ auReleasing # None => auWindow.end = None
        /\ auWindow.end # None => auWindow.end <= auNow
        /\ auReader = "done" =>
             /\ auWindow.complete /\ ~auWindow.error /\ auWindow.coveredStart
             /\ Len(auSent) = auWindow.end - auWindow.start
    BY <1>1 DEF RecordInv
  <2>2. Recorded(auWindow, auWatermark, auSent)'
    <3>1. Recorded(auWindow', auWatermark', auSent')
      BY <1>1
    <3>. QED BY <3>1, Zenon DEF Recorded, FromStart
  <2>. QED BY <1>1, <2>1, <2>2
<1>2. /\ auNow' \in Nat /\ auReleasing' \in Nat \cup {None}
      /\ auReader' \in {"reading", "failed", "done"}
      /\ auReleasing' # None => auReleasing' <= auNow'
      /\ auSent' \in Seq(Int) /\ \A i \in 1..Len(auSent') : auSent'[i] < auNow'
  BY DEF RecordInv
<1>. QED BY <1>1, <1>2 DEF RecordInv

\* The device stops.
LEMMA RecordStops ==
  ASSUME RecordInv, NEW terminal \in BOOLEAN, Audio!Stopped(terminal),
         auNow' = auNow, auReleasing' = auReleasing, auReader' = auReader,
         auSent' = auSent
  PROVE  RecordInv'
<1>1. auWatermark' = None
  BY DEF Audio!Stopped
<1>2. ASSUME auWindow' # None
      PROVE  /\ auWindow # None /\ auWindow'.end = auWindow.end
             /\ Recorded(auWindow', auWatermark', auSent)
             /\ auWindow.complete => auWindow' = auWindow
  <2>1. /\ auWindow # None
        /\ auWindow' = IF Audio!Preserved(terminal) THEN auWindow
                       ELSE Audio!Failed(auWindow)
    BY <1>2 DEF Audio!Stopped, Audio!Held
  <2>2. Recorded(auWindow, auWatermark, auSent)
    BY <2>1 DEF RecordInv
  <2>3. CASE Audio!Preserved(terminal)
    <3>1. auWindow.complete \/ ~auWindow.coveredStart
      BY <2>3 DEF Audio!Preserved
    <3>2. Recorded(auWindow, auWatermark', auSent)
      BY <2>2, <3>1, RecordWaits
    <3>. QED BY <2>1, <2>3, <3>2
  <2>4. CASE ~Audio!Preserved(terminal)
    <3>1. ~auWindow.complete
      BY <2>4 DEF Audio!Preserved
    <3>2. auWindow \in AudioWindow
      BY <2>2 DEF Recorded
    <3>3. /\ Recorded(Audio!Failed(auWindow), auWatermark', auSent)
          /\ Audio!Failed(auWindow).end = auWindow.end
      BY <3>1, <3>2, RecordFails
    <3>. QED BY <2>1, <2>4, <3>1, <3>3
  <2>. QED BY <2>3, <2>4
<1>. QED BY <1>1, <1>2, RecordGoesOn

LEMMA RecordPush ==
  ASSUME RecordInv, NEW from \in Int, NEW to \in Int, to > from,
         auWatermark # None => from = auWatermark, Audio!Push(from, to)
  PROVE  RecordInv'
<1>1. /\ auWatermark' = to /\ auDevice = "open" /\ auDevice' = auDevice
      /\ auNow' = auNow /\ auReleasing' = auReleasing /\ auReader' = auReader
      /\ auSent' = auSent
      /\ auWindow' =
           IF ~Audio!Held \/ auWindow.complete \/ auWindow.error THEN auWindow
           ELSE IF auWatermark # None /\ auWatermark # from
           THEN Audio!Failed(auWindow)
           ELSE IF to > auWindow.start
           THEN Audio!Collected(Audio!Covered(auWindow, from), from, to)
           ELSE Audio!Collected(auWindow, from, to)
  BY DEF Audio!Push
<1>. DEFINE w == auWindow
            m == auWatermark
<1>2. ASSUME auWindow' # None
      PROVE  /\ w # None /\ auWindow'.end = w.end
             /\ Recorded(auWindow', to, auSent)
             /\ w.complete => auWindow' = w
  <2>1. w # None
    BY <1>1, <1>2 DEF Audio!Held
  <2>2. Recorded(w, m, auSent) /\ m \in Int \cup {None}
    BY <2>1 DEF RecordInv
  <2>3. CASE w.complete \/ w.error
    <3>1. auWindow' = w
      BY <1>1, <2>3
    <3>2. Recorded(w, to, auSent)
      BY <2>2, <2>3, RecordWaits
    <3>. QED BY <2>1, <3>1, <3>2
  <2>4. CASE ~(w.complete \/ w.error) /\ to > w.start
    <3>. DEFINE c == Audio!Covered(w, from)
    <3>1. auWindow' = Audio!Collected(c, from, to)
      BY <1>1, <2>1, <2>4 DEF Audio!Held
    <3>2. /\ c \in AudioWindow /\ c.end = w.end /\ ~c.complete
          /\ ~c.error =>
             /\ c.coveredStart /\ c.start < to
             /\ FromStart(c.samples, c) /\ FromStart(auSent, c)
             /\ Audio!Greater(from, c.start) = c.start + Len(c.samples)
             /\ c.end # None => c.end <= HeldFor
             /\ Len(c.samples) > 0 => from < to /\ (c.end # None => from < c.end)
      BY <2>2, <2>4, RecordCovers
    <3>. HIDE DEF c
    <3>3. /\ Recorded(Audio!Collected(c, from, to), to, auSent)
          /\ Audio!Collected(c, from, to).end = c.end
      BY <3>2, RecordCollects
    <3>. QED BY <2>1, <2>4, <3>1, <3>2, <3>3
  <2>5. CASE ~(w.complete \/ w.error) /\ ~(to > w.start)
    <3>1. auWindow' = Audio!Collected(w, from, to)
      BY <1>1, <2>1, <2>5 DEF Audio!Held
    <3>2. /\ Recorded(Audio!Collected(w, from, to), to, auSent)
          /\ Audio!Collected(w, from, to).end = w.end
      BY <2>2, <2>5, RecordPasses
    <3>. QED BY <2>1, <2>5, <3>1, <3>2
  <2>. QED BY <2>3, <2>4, <2>5
<1>3. auWatermark' \in Int \cup {None}
  BY <1>1
<1>4. auDevice' \notin {"opening", "lost"}
  BY <1>1
<1>. QED BY <1>1, <1>2, <1>3, <1>4, RecordGoesOn

LEMMA RecordDevice ==
  ASSUME RecordInv, Audio!Device
  PROVE  RecordInv'
<1>1. CASE Audio!Started
  <2>1. /\ auWatermark' = None /\ auWatermark = None /\ auWindow' = auWindow
        /\ auNow' = auNow /\ auReleasing' = auReleasing /\ auReader' = auReader
        /\ auSent' = auSent
    BY <1>1 DEF Audio!Started, RecordInv
  <2>2. auWindow' # None => Recorded(auWindow', auWatermark', auSent)
    BY <2>1 DEF RecordInv
  <2>. QED BY <2>1, <2>2, RecordGoesOn
<1>2. CASE Audio!Lose
  BY <1>2, RecordStops DEF Audio!Lose
<1>3. CASE Audio!Discontinuity
  <2>1. /\ auWatermark' = None /\ auNow' = auNow /\ auReleasing' = auReleasing
        /\ auReader' = auReader /\ auSent' = auSent
        /\ auWindow' = IF Audio!Held /\ ~auWindow.complete THEN Audio!Failed(auWindow)
                       ELSE auWindow
    BY <1>3 DEF Audio!Discontinuity
  <2>2. ASSUME auWindow' # None
        PROVE  /\ auWindow # None /\ auWindow'.end = auWindow.end
               /\ Recorded(auWindow', auWatermark', auSent)
               /\ auWindow.complete => auWindow' = auWindow
    <3>1. auWindow # None
      BY <2>1, <2>2 DEF Audio!Held
    <3>2. Recorded(auWindow, auWatermark, auSent)
      BY <3>1 DEF RecordInv
    <3>3. CASE auWindow.complete
      <4>1. Recorded(auWindow, auWatermark', auSent)
        BY <3>2, <3>3, RecordWaits
      <4>. QED BY <2>1, <3>1, <3>3, <4>1
    <3>4. CASE ~auWindow.complete
      <4>1. auWindow \in AudioWindow
        BY <3>2 DEF Recorded
      <4>2. /\ Recorded(Audio!Failed(auWindow), auWatermark', auSent)
            /\ Audio!Failed(auWindow).end = auWindow.end
        BY <3>4, <4>1, RecordFails
      <4>. QED BY <2>1, <3>1, <3>4, <4>2 DEF Audio!Held
    <3>. QED BY <3>3, <3>4
  <2>. QED BY <2>1, <2>2, RecordGoesOn
<1>4. CASE Audio!Produce
  <2>. DEFINE From(n) == IF auWatermark = None THEN auNow - n ELSE auWatermark
  <2>1. PICK n \in 1..MaxChunk : Audio!Push(From(n), From(n) + n)
    BY <1>4 DEF Audio!Produce
  <2>2. /\ From(n) \in Int /\ From(n) + n \in Int /\ From(n) + n > From(n)
        /\ auWatermark # None => From(n) = auWatermark
    BY AudioFacts DEF RecordInv
  <2>. HIDE DEF From
  <2>. QED BY <2>1, <2>2, RecordPush
<1>. QED BY <1>1, <1>2, <1>3, <1>4 DEF Audio!Device

LEMMA RecordOwner ==
  ASSUME RecordInv, Audio!Owner
  PROVE  RecordInv'
<1>1. CASE Audio!Release
  <2>1. /\ auWindow.end = None /\ auReleasing' = auNow /\ auWindow' = auWindow
        /\ auNow' = auNow /\ auDevice' = auDevice /\ auWatermark' = auWatermark
        /\ auReader' = auReader /\ auSent' = auSent
    BY <1>1 DEF Audio!Release
  <2>2. auWindow # None => Recorded(auWindow, auWatermark, auSent)'
    <3>1. auWindow # None => Recorded(auWindow, auWatermark, auSent)
      BY DEF RecordInv
    <3>. QED BY <2>1, <3>1, Zenon DEF Recorded, FromStart
  <2>3. auNow' \in Nat /\ auReleasing' <= auNow'
    BY <2>1 DEF RecordInv
  <2>. QED BY <2>1, <2>2, <2>3 DEF RecordInv
<1>2. CASE Audio!Drop
  <2>1. /\ auWindow' = None /\ auReleasing' = auReleasing
        /\ auNow' = auNow /\ auDevice' = auDevice /\ auWatermark' = auWatermark
        /\ auReader' = auReader /\ auSent' = auSent
    BY <1>2 DEF Audio!Drop
  <2>. QED BY <2>1 DEF RecordInv
<1>3. CASE Audio!ReleaseAt
  <2>. DEFINE d == ReleasedAt(auWindow, auWatermark, auReleasing)
  <2>1. /\ auReleasing # None /\ auReleasing' = None
        /\ auNow' = auNow /\ auDevice' = auDevice /\ auWatermark' = auWatermark
        /\ auReader' = auReader /\ auSent' = auSent
        /\ auWindow' = IF ~Audio!Held THEN auWindow ELSE d
    BY <1>3 DEF Audio!ReleaseAt, ReleasedAt
  <2>. HIDE DEF d
  <2>2. CASE auWindow = None
    <3>1. auWindow' = None
      BY <2>1, <2>2 DEF Audio!Held
    <3>. QED BY <2>1, <3>1 DEF RecordInv
  <2>3. CASE auWindow # None
    <3>1. /\ Recorded(auWindow, auWatermark, auSent) /\ auWindow.end = None
          /\ auReleasing \in Nat /\ auWatermark \in Int \cup {None}
          /\ auReleasing <= auNow
          /\ auReader = "done" => auWindow.complete
      BY <2>1, <2>3 DEF RecordInv
    <3>2. Recorded(d, auWatermark, auSent) /\ d.end = auReleasing
      BY <3>1, RecordReleases DEF d
    <3>3. auReader # "done"
      BY <3>1 DEF Recorded
    <3>4. auWindow' = d
      BY <2>1, <2>3 DEF Audio!Held
    <3>5. Recorded(auWindow, auWatermark, auSent)'
      <4>1. Recorded(auWindow', auWatermark', auSent')
        BY <2>1, <3>2, <3>4
      <4>. QED BY <4>1, Zenon DEF Recorded, FromStart
    <3>. QED BY <2>1, <3>1, <3>2, <3>3, <3>4, <3>5 DEF RecordInv
  <2>. QED BY <2>2, <2>3
<1>. QED BY <1>1, <1>2, <1>3 DEF Audio!Owner

LEMMA RecordWorker ==
  ASSUME RecordInv, Audio!Worker
  PROVE  RecordInv'
<1>1. CASE Audio!WorkerDone
  <2>1. /\ auWindow' = auWindow /\ auReleasing' = auReleasing /\ auDevice' = "closed"
        /\ auNow' = auNow /\ auWatermark' = auWatermark
        /\ auReader' = auReader /\ auSent' = auSent
    BY <1>1 DEF Audio!WorkerDone, Audio!CloseDevice
  <2>2. /\ auWindow # None => Recorded(auWindow, auWatermark, auSent)
        /\ auWatermark \in Int \cup {None}
    BY DEF RecordInv
  <2>. QED BY <2>1, <2>2, RecordGoesOn
<1>2. CASE Audio!WorkerFails \/ Audio!WorkerCancelled \/ Audio!OpenFails
  <2>1. PICK terminal \in BOOLEAN : Audio!Stopped(terminal)
    BY <1>2 DEF Audio!WorkerFails, Audio!WorkerCancelled, Audio!OpenFails
  <2>2. /\ auNow' = auNow /\ auReleasing' = auReleasing /\ auReader' = auReader
        /\ auSent' = auSent
    BY <1>2 DEF Audio!WorkerFails, Audio!WorkerCancelled, Audio!OpenFails
  <2>. QED BY <2>1, <2>2, RecordStops
<1>. QED BY <1>1, <1>2 DEF Audio!Worker

\* An element, a part, and equality of sequences
LEMMA ItemOf ==
  ASSUME NEW S, NEW q \in Seq(S), NEW i \in 1..Len(q)
  PROVE  q[i] \in S
OBVIOUS

LEMMA PartOf ==
  ASSUME NEW S, NEW q \in Seq(S), NEW m \in Nat, NEW n \in Nat, m <= n, n <= Len(q)
  PROVE  /\ SubSeq(q, m + 1, n) \in Seq(S) /\ Len(SubSeq(q, m + 1, n)) = n - m
         /\ \A i \in 1..n - m : SubSeq(q, m + 1, n)[i] = q[i + m] /\ i + m \in 1..Len(q)
OBVIOUS

LEMMA SameItems ==
  ASSUME NEW S, NEW p \in Seq(S), NEW q \in Seq(S), Len(p) = Len(q),
         \A i \in 1..Len(p) : p[i] = q[i]
  PROVE  p = q
<1>1. /\ p = [i \in 1..Len(p) |-> p[i]] /\ q = [i \in 1..Len(q) |-> q[i]]
  OBVIOUS
<1>. QED BY <1>1

LEMMA RecordReader ==
  ASSUME RecordInv, Audio!Reader
  PROVE  RecordInv'
<1>0. /\ auNow' = auNow /\ auDevice' = auDevice /\ auWatermark' = auWatermark
      /\ auWindow' = auWindow /\ auReleasing' = auReleasing
  BY DEF Audio!Reader, Audio!ReaderFails, Audio!ReaderSends, Audio!ReaderNotices,
         Audio!ReaderEnds
<1>1. CASE Audio!ReaderFails \/ Audio!ReaderNotices
  <2>1. auSent' = auSent /\ auReader' \in {auReader, "failed"}
    BY <1>1 DEF Audio!ReaderFails, Audio!ReaderNotices
  <2>2. auWindow # None => Recorded(auWindow, auWatermark, auSent)'
    <3>1. auWindow # None => Recorded(auWindow, auWatermark, auSent)
      BY DEF RecordInv
    <3>. QED BY <1>0, <2>1, <3>1, Zenon DEF Recorded, FromStart
  <2>. QED BY <1>0, <2>1, <2>2 DEF RecordInv
<1>2. CASE Audio!ReaderSends \/ Audio!ReaderEnds
  <2>. DEFINE w == auWindow
              k == Audio!Safe
  <2>1. w # None /\ ~w.error /\ auReader = "reading"
    BY <1>2 DEF Audio!ReaderSends, Audio!ReaderEnds, Audio!MayRead, Audio!Held
  <2>2. /\ Recorded(w, auWatermark, auSent) /\ auNow \in Nat
        /\ auSent \in Seq(Int) /\ (w.end # None => w.end <= auNow)
        /\ \A i \in 1..Len(auSent) : auSent[i] < auNow
    BY <2>1 DEF RecordInv
  <2>3. /\ w.start \in Nat /\ w.end \in Nat \cup {None} /\ w.samples \in Seq(Int)
        /\ Len(w.samples) \in Nat /\ Len(auSent) \in Nat
    BY <2>2 DEF Recorded, AudioWindow
  <2>4. /\ Audio!Until \in Int /\ Audio!Until <= auNow
        /\ w.end # None => Audio!Until = w.end
    BY <2>2, <2>3, AudioFacts DEF Audio!Until, Audio!Less
  <2>5. /\ k \in 0..Len(w.samples)
        /\ \A i \in 1..k : w.samples[i] < auNow
        /\ k < Len(w.samples) => w.samples[k + 1] >= Audio!Until
    <3>. DEFINE t == Audio!Until
    <3>1. t \in Int /\ t <= auNow
      BY <2>4
    <3>. HIDE DEF t
    <3>2. /\ Audio!Before(w.samples, t) \in 0..Len(w.samples)
          /\ \A i \in 1..Audio!Before(w.samples, t) : w.samples[i] < t
          /\ Audio!Before(w.samples, t) < Len(w.samples) =>
               w.samples[Audio!Before(w.samples, t) + 1] >= t
      BY <2>3, <3>1, BeforeFacts
    <3>3. k = Audio!Before(w.samples, t)
      BY DEF Audio!Safe, t
    <3>. HIDE DEF k
    <3>4. ASSUME NEW i \in 1..k
          PROVE  i \in 1..Len(w.samples) /\ w.samples[i] \in Int
      <4>1. k \in Nat /\ k <= Len(w.samples)
        BY <2>3, <3>2, <3>3
      <4>2. i \in 1..Len(w.samples)
        BY <2>3, <4>1
      <4>. QED BY <2>3, <4>2, ItemOf
    <3>5. ASSUME NEW i \in 1..k PROVE w.samples[i] < auNow
      <4>1. w.samples[i] < t /\ w.samples[i] \in Int
        BY <3>2, <3>3, <3>4
      <4>. QED BY <2>2, <3>1, <4>1
    <3>. QED BY <3>2, <3>3, <3>5 DEF t
  <2>. HIDE DEF k
  <2>6. CASE Audio!ReaderSends
    <3>1. /\ k > Len(auSent) /\ auReader' = auReader
          /\ auSent' = auSent \o SubSeq(w.samples, Len(auSent) + 1, k)
      BY <2>6 DEF Audio!ReaderSends, k
    <3>0. k \in Nat /\ k <= Len(w.samples)
      BY <2>3, <2>5
    <3>2. w.coveredStart /\ FromStart(w.samples, w) /\ FromStart(auSent, w)
      <4>1. ~w.coveredStart => Len(w.samples) = 0
        BY <2>1, <2>2 DEF Recorded
      <4>2. w.coveredStart
        <5>1. Len(w.samples) # 0
          BY <2>3, <3>0, <3>1
        <5>. QED BY <4>1, <5>1
      <4>. QED BY <2>1, <2>2, <4>2 DEF Recorded
    <3>. DEFINE n    == Len(auSent)
                more == SubSeq(w.samples, n + 1, k)
    <3>3. /\ more \in Seq(Int) /\ Len(more) = k - n
          /\ \A i \in 1..k - n : more[i] = w.samples[i + n]
      <4>1. w.samples \in Seq(Int) /\ n \in Nat /\ n <= k
        BY <2>3, <3>0, <3>1
      <4>. HIDE DEF n
      <4>. QED BY <3>0, <4>1, PartOf
    <3>. HIDE DEF more
    <3>4. /\ auSent \o more \in Seq(Int) /\ Len(auSent \o more) = n + Len(more)
          /\ \A i \in 1..n + Len(more) :
               (auSent \o more)[i] = IF i <= n THEN auSent[i] ELSE more[i - n]
      <4>1. auSent \in Seq(Int) /\ more \in Seq(Int)
        BY <2>2, <3>3
      <4>. QED BY <4>1, ConcatFacts
    <3>5. auSent' = auSent \o more
      BY <3>1 DEF more
    <3>6. n \in Nat /\ k \in Nat /\ k > n /\ k <= Len(w.samples)
      BY <2>3, <2>5, <3>1
    <3>. HIDE DEF n
    <3>7. /\ auSent' \in Seq(Int) /\ Len(auSent') = k
          /\ \A i \in 1..k : auSent'[i] = IF i <= n THEN auSent[i] ELSE w.samples[i]
      <4>1. Len(auSent') = k
        BY <3>3, <3>4, <3>5, <3>6
      <4>2. ASSUME NEW i \in 1..k
            PROVE  auSent'[i] = IF i <= n THEN auSent[i] ELSE w.samples[i]
        <5>1. auSent'[i] = IF i <= n THEN auSent[i] ELSE more[i - n]
          BY <3>3, <3>4, <3>5, <3>6
        <5>2. ~(i <= n) => i - n \in 1..k - n /\ (i - n) + n = i
          BY <3>6
        <5>. QED BY <3>3, <5>1, <5>2
      <4>. QED BY <3>4, <3>5, <4>1, <4>2
    <3>8. ASSUME NEW i \in 1..Len(auSent')
          PROVE  auSent'[i] < auNow /\ auSent'[i] = w.start + i - 1
      <4>1. i \in 1..k /\ i \in 1..Len(w.samples)
        BY <2>3, <3>6, <3>7
      <4>2. w.samples[i] < auNow /\ w.samples[i] = w.start + i - 1
        BY <2>5, <3>2, <4>1 DEF FromStart
      <4>3. i <= n => auSent[i] < auNow /\ auSent[i] = w.start + i - 1
        BY <2>2, <3>2, <3>6, <4>1 DEF FromStart, n
      <4>. QED BY <3>7, <4>1, <4>2, <4>3
    <3>9. Recorded(w, auWatermark, auSent')
      BY <2>2, <3>2, <3>8 DEF Recorded, FromStart
    <3>10. Recorded(auWindow, auWatermark, auSent)'
      <4>1. Recorded(auWindow', auWatermark', auSent')
        BY <1>0, <3>9
      <4>. QED BY <4>1, Zenon DEF Recorded, FromStart
    <3>. QED BY <1>0, <2>1, <3>1, <3>7, <3>8, <3>10 DEF RecordInv
  <2>7. CASE Audio!ReaderEnds
    <3>1. /\ w.complete /\ k = Len(auSent) /\ auSent # << >> /\ auReader' = "done"
          /\ auSent' = auSent
      BY <2>7 DEF Audio!ReaderEnds, k
    <3>2. Len(auSent) > 0
      BY <2>2, <3>1
    <3>3. /\ w.coveredStart /\ w.end # None /\ FromStart(w.samples, w)
          /\ Len(w.samples) = IF w.end > w.start THEN w.end - w.start ELSE 0
      BY <2>1, <2>2, <3>1, <3>2 DEF Recorded
    <3>4. k = Len(w.samples)
      <4>1. k < Len(w.samples) => w.samples[k + 1] = w.start + (k + 1) - 1
        BY <2>3, <2>5, <3>3 DEF FromStart
      <4>2. k < Len(w.samples) => w.samples[k + 1] >= w.end
        BY <2>4, <2>5, <3>3
      <4>3. k \in Nat /\ k <= Len(w.samples)
        BY <2>3, <2>5
      <4>4. w.end \in Nat /\ w.start \in Nat /\ Len(w.samples) \in Nat
        BY <2>3, <3>3, AudioFacts
      <4>5. ASSUME k < Len(w.samples) PROVE FALSE
        <5>1. w.start + (k + 1) - 1 >= w.end
          BY <4>1, <4>2, <4>5
        <5>2. w.start + k >= w.end
          BY <4>3, <4>4, <5>1
        <5>. QED BY <3>3, <4>3, <4>4, <4>5, <5>2
      <4>. QED BY <4>3, <4>4, <4>5
    <3>5. Len(auSent) = w.end - w.start
      BY <2>3, <3>1, <3>2, <3>3, <3>4
    <3>6. Recorded(auWindow, auWatermark, auSent)'
      BY <1>0, <2>2, <3>1, Zenon DEF Recorded, FromStart
    <3>. QED BY <1>0, <2>1, <3>1, <3>3, <3>5, <3>6 DEF RecordInv
  <2>. QED BY <1>2, <2>6, <2>7
<1>. QED BY <1>1, <1>2 DEF Audio!Reader

LEMMA RecordStart ==
  ASSUME Audio!AudioInit \/ AudioOver
  PROVE  RecordInv
<1>0. << >> \in Seq(Int) /\ Len(<< >>) = 0
  OBVIOUS
<1>1. CASE Audio!AudioInit
  <2>1. /\ auNow = 0 /\ auWatermark = None /\ auReleasing = None
        /\ auReader = "reading" /\ auSent = << >>
        /\ auWindow = [start |-> 0, end |-> None, samples |-> << >>,
                       coveredStart |-> FALSE, startupGap |-> TRUE,
                       complete |-> FALSE, error |-> FALSE]
    BY <1>1 DEF Audio!AudioInit
  <2>2. auWindow \in AudioWindow
    BY <1>0, <2>1 DEF AudioWindow
  <2>. QED BY <1>0, <2>1, <2>2 DEF RecordInv, Recorded
<1>2. CASE AudioOver
  <2>1. /\ auNow = Audio!MaxTime + Grace /\ auWatermark = None /\ auWindow = None
        /\ auReleasing = None /\ auReader = "failed" /\ auSent = << >>
    BY <1>2 DEF AudioOver
  <2>2. auNow \in Nat
    BY <2>1, AudioFacts DEF Audio!MaxTime
  <2>. QED BY <1>0, <2>1, <2>2 DEF RecordInv
<1>. QED BY <1>1, <1>2

LEMMA RecordStep ==
  ASSUME RecordInv, Audio!AudioNext \/ UNCHANGED audio
  PROVE  RecordInv'
<1>1. CASE UNCHANGED audio
  <2>1. /\ auWindow' = auWindow /\ auReleasing' = auReleasing /\ auDevice' = auDevice
        /\ auNow' = auNow /\ auWatermark' = auWatermark
        /\ auReader' = auReader /\ auSent' = auSent
    BY <1>1 DEF audio
  <2>2. auWindow # None => Recorded(auWindow, auWatermark, auSent)'
    <3>1. auWindow # None => Recorded(auWindow, auWatermark, auSent)
      BY DEF RecordInv
    <3>. QED BY <2>1, <3>1, Zenon DEF Recorded, FromStart
  <2>. QED BY <2>1, <2>2 DEF RecordInv
<1>2. CASE Audio!Tick
  <2>1. /\ auWindow' = auWindow /\ auReleasing' = auReleasing /\ auDevice' = auDevice
        /\ auNow' = auNow + 1 /\ auWatermark' = auWatermark
        /\ auReader' = auReader /\ auSent' = auSent
    BY <1>2 DEF Audio!Tick
  <2>2. auWindow # None => Recorded(auWindow, auWatermark, auSent)'
    <3>1. auWindow # None => Recorded(auWindow, auWatermark, auSent)
      BY DEF RecordInv
    <3>. QED BY <2>1, <3>1, Zenon DEF Recorded, FromStart
  <2>3. /\ auNow' \in Nat /\ (auReleasing' # None => auReleasing' <= auNow')
        /\ auReleasing' \in Nat \cup {None}
    BY <2>1 DEF RecordInv
  <2>4. \A i \in 1..Len(auSent') : auSent'[i] < auNow'
    <3>1. \A i \in 1..Len(auSent) : auSent[i] \in Int /\ auSent[i] < auNow
      BY DEF RecordInv
    <3>. QED BY <2>1, <3>1 DEF RecordInv
  <2>5. auWindow # None =>
          /\ auReleasing # None => auWindow.end = None
          /\ auWindow.end # None => auWindow.end <= auNow'
    <3>1. auWindow # None => auWindow.end \in Nat \cup {None}
      BY DEF RecordInv, Recorded, AudioWindow
    <3>. QED BY <2>1, <3>1 DEF RecordInv
  <2>. QED BY <2>1, <2>2, <2>3, <2>4, <2>5 DEF RecordInv
<1>. QED BY <1>1, <1>2, RecordDevice, RecordOwner, RecordWorker, RecordReader
         DEF Audio!AudioNext

\* A question that was read to its end is whole, and nothing was sent that was
\* not said.
LEMMA QuestionWasSaid ==
  ASSUME RecordInv
  PROVE  Audio!QuestionIsWhole /\ Audio!SentWasSaid
<1>0. auSent \in Seq(Int) /\ Len(auSent) \in Nat
  BY DEF RecordInv
<1>1. Audio!SentWasSaid
  BY <1>0 DEF RecordInv, Audio!SentWasSaid
<1>2. ASSUME auReader = "done", auWindow # None
      PROVE  /\ auSent = Audio!Range(auWindow.start, auWindow.end)
             /\ auWindow.start >= 0
  <2>1. /\ Recorded(auWindow, auWatermark, auSent)
        /\ auWindow.complete /\ ~auWindow.error /\ auWindow.coveredStart
        /\ Len(auSent) = auWindow.end - auWindow.start
    BY <1>2 DEF RecordInv
  <2>2. /\ auWindow.start \in Nat /\ auWindow.end \in Nat
        /\ FromStart(auSent, auWindow)
    BY <2>1 DEF Recorded, AudioWindow
  <2>. DEFINE a == auWindow.start
              b == auWindow.end
              r == Audio!Range(a, b)
  <2>3. /\ r \in Seq(Int) /\ Len(r) = IF b > a THEN b - a ELSE 0
        /\ \A i \in 1..Len(r) : r[i] = a + i - 1
    <3>1. a \in Int /\ b \in Int
      BY <2>2
    <3>. HIDE DEF a, b
    <3>. QED BY <3>1, RangeFacts
  <2>. HIDE DEF r
  <2>4. Len(r) = Len(auSent)
    BY <1>0, <2>1, <2>2, <2>3
  <2>5. \A i \in 1..Len(auSent) : auSent[i] = r[i]
    BY <2>2, <2>3, <2>4 DEF FromStart
  <2>6. auSent = r
    BY <1>0, <2>3, <2>4, <2>5, SameItems
  <2>. QED BY <2>2, <2>6 DEF r
<1>. QED BY <1>1, <1>2 DEF Audio!QuestionIsWhole, Audio!Held

-----------------------------------------------------------------------------
(* LiveSession: audio reaches the provider once and in order               *)

Ordered(s) ==
  s \in Seq(Nat) /\ \A i, j \in 1..Len(s) : i < j => s[i] < s[j]
Below(S, T) == \A x \in S, y \in T : x < y

\* The set of a sequence
LEMMA SetOf ==
  ASSUME NEW S, NEW s \in Seq(S)
  PROVE  \A x : x \in ToSet(s) <=> \E i \in 1..Len(s) : s[i] = x
<1>1. DOMAIN s = 1..Len(s)
  OBVIOUS
<1>. QED BY <1>1 DEF ToSet

LEMMA EmptySet == ToSet(<< >>) = {} /\ Ordered(<< >>)
<1>1. DOMAIN << >> = {} /\ << >> \in Seq(Nat) /\ Len(<< >>) = 0
  OBVIOUS
<1>. QED BY <1>1 DEF ToSet, Ordered

\* An ordered sequence with one more, without its first, and with another
LEMMA OrderedAppend ==
  ASSUME NEW s, Ordered(s), NEW x \in Nat, \A y \in ToSet(s) : y < x
  PROVE  /\ Ordered(Append(s, x)) /\ Len(Append(s, x)) = Len(s) + 1
         /\ ToSet(Append(s, x)) = ToSet(s) \cup {x}
<1>. DEFINE t == Append(s, x)
<1>1. s \in Seq(Nat) /\ \A i, j \in 1..Len(s) : i < j => s[i] < s[j]
  BY DEF Ordered
<1>2. /\ t \in Seq(Nat) /\ Len(t) = Len(s) + 1 /\ Len(s) \in Nat
      /\ t[Len(s) + 1] = x
      /\ \A i \in 1..Len(s) : t[i] = s[i] /\ i \in 1..Len(t)
      /\ \A i \in 1..Len(t) :
           IF i = Len(s) + 1 THEN t[i] = x ELSE i \in 1..Len(s) /\ t[i] = s[i]
  BY <1>1, AddedLast
<1>. HIDE DEF t
<1>3. \A y : y \in ToSet(s) <=> \E i \in 1..Len(s) : s[i] = y
  BY <1>1, SetOf
<1>4. \A y : y \in ToSet(t) <=> \E i \in 1..Len(t) : t[i] = y
  BY <1>2, SetOf
<1>5. ToSet(t) = ToSet(s) \cup {x}
  <2>1. Len(s) + 1 \in 1..Len(t)
    BY <1>2
  <2>. QED BY <1>2, <1>3, <1>4, <2>1
<1>6. ASSUME NEW i \in 1..Len(t), NEW j \in 1..Len(t), i < j
      PROVE  t[i] < t[j]
  <2>1. i \in 1..Len(s) /\ t[i] = s[i]
    <3>1. i # Len(s) + 1
      BY <1>2, <1>6
    <3>. QED BY <1>2, <3>1
  <2>2. CASE j = Len(s) + 1
    <3>1. s[i] \in ToSet(s) /\ t[j] = x
      BY <1>2, <1>3, <2>1, <2>2
    <3>. QED BY <2>1, <3>1
  <2>3. CASE j # Len(s) + 1
    <3>1. j \in 1..Len(s) /\ t[j] = s[j]
      BY <1>2, <2>3
    <3>. QED BY <1>1, <1>6, <2>1, <3>1
  <2>. QED BY <2>2, <2>3
<1>. QED BY <1>2, <1>5, <1>6 DEF Ordered, t

LEMMA OrderedTail ==
  ASSUME NEW s, Ordered(s), s # << >>
  PROVE  /\ Ordered(Tail(s)) /\ Len(Tail(s)) = Len(s) - 1
         /\ Head(s) \in Nat /\ Head(s) = s[1]
         /\ ToSet(s) = {Head(s)} \cup ToSet(Tail(s))
         /\ \A y \in ToSet(Tail(s)) : Head(s) < y
<1>. DEFINE t == Tail(s)
            h == Head(s)
<1>1. s \in Seq(Nat) /\ \A i, j \in 1..Len(s) : i < j => s[i] < s[j]
  BY DEF Ordered
<1>2. /\ Len(s) \in Nat \ {0} /\ h = s[1] /\ s[1] \in Nat
      /\ t \in Seq(Nat) /\ Len(t) = Len(s) - 1
      /\ \A i \in 1..Len(t) : t[i] = s[i + 1] /\ i + 1 \in 1..Len(s)
  BY <1>1, TakenFirst
<1>. HIDE DEF t, h
<1>3. \A y : y \in ToSet(s) <=> \E i \in 1..Len(s) : s[i] = y
  BY <1>1, SetOf
<1>4. \A y : y \in ToSet(t) <=> \E i \in 1..Len(t) : t[i] = y
  BY <1>2, SetOf
<1>5. ASSUME NEW i \in 1..Len(s)
      PROVE  i = 1 \/ (i - 1 \in 1..Len(t) /\ t[i - 1] = s[i])
  <2>1. i # 1 => i - 1 \in 1..Len(t) /\ (i - 1) + 1 = i
    BY <1>2
  <2>. QED BY <1>2, <2>1
<1>6. ToSet(s) = {h} \cup ToSet(t)
  <2>1. 1 \in 1..Len(s)
    BY <1>2
  <2>2. ASSUME NEW y \in ToSet(s) PROVE y \in {h} \cup ToSet(t)
    <3>1. PICK i \in 1..Len(s) : s[i] = y
      BY <1>3, <2>2
    <3>. QED BY <1>2, <1>4, <1>5, <3>1
  <2>3. ASSUME NEW y \in {h} \cup ToSet(t) PROVE y \in ToSet(s)
    BY <1>2, <1>3, <1>4, <2>1, <2>3
  <2>. QED BY <2>2, <2>3
<1>7. ASSUME NEW y \in ToSet(t) PROVE h < y
  <2>1. PICK i \in 1..Len(t) : t[i] = y
    BY <1>4, <1>7
  <2>2. i + 1 \in 1..Len(s) /\ 1 \in 1..Len(s) /\ 1 < i + 1
    BY <1>2, <2>1
  <2>. QED BY <1>1, <1>2, <2>1, <2>2
<1>8. ASSUME NEW i \in 1..Len(t), NEW j \in 1..Len(t), i < j
      PROVE  t[i] < t[j]
  <2>1. i + 1 \in 1..Len(s) /\ j + 1 \in 1..Len(s) /\ i + 1 < j + 1
    BY <1>2, <1>8
  <2>. QED BY <1>1, <1>2, <2>1
<1>. QED BY <1>2, <1>6, <1>7, <1>8 DEF Ordered, t, h

LEMMA OrderedConcat ==
  ASSUME NEW a, NEW b, Ordered(a), Ordered(b), Below(ToSet(a), ToSet(b))
  PROVE  Ordered(a \o b) /\ ToSet(a \o b) = ToSet(a) \cup ToSet(b)
<1>. DEFINE c == a \o b
            n == Len(a)
<1>1. /\ a \in Seq(Nat) /\ \A i, j \in 1..Len(a) : i < j => a[i] < a[j]
      /\ b \in Seq(Nat) /\ \A i, j \in 1..Len(b) : i < j => b[i] < b[j]
  BY DEF Ordered
<1>2. /\ c \in Seq(Nat) /\ Len(c) = n + Len(b)
      /\ \A j \in 1..n + Len(b) : c[j] = IF j <= n THEN a[j] ELSE b[j - n]
  BY <1>1, ConcatFacts
<1>3. n \in Nat /\ Len(b) \in Nat
  BY <1>1
<1>. HIDE DEF c
<1>4. \A y : y \in ToSet(a) <=> \E i \in 1..Len(a) : a[i] = y
  BY <1>1, SetOf
<1>5. \A y : y \in ToSet(b) <=> \E i \in 1..Len(b) : b[i] = y
  BY <1>1, SetOf
<1>6. \A y : y \in ToSet(c) <=> \E i \in 1..Len(c) : c[i] = y
  BY <1>2, SetOf
<1>. HIDE DEF n
<1>7. ASSUME NEW i \in 1..Len(c)
      PROVE  \/ i \in 1..n /\ c[i] = a[i]
             \/ i > n /\ i - n \in 1..Len(b) /\ c[i] = b[i - n]
  BY <1>2, <1>3
<1>8. ToSet(c) = ToSet(a) \cup ToSet(b)
  <2>1. ASSUME NEW y \in ToSet(c) PROVE y \in ToSet(a) \cup ToSet(b)
    BY <1>4, <1>5, <1>6, <1>7, <2>1 DEF n
  <2>2. ASSUME NEW y \in ToSet(a) PROVE y \in ToSet(c)
    <3>1. PICK i \in 1..n : a[i] = y
      BY <1>4, <2>2 DEF n
    <3>2. i \in 1..Len(c) /\ c[i] = a[i]
      BY <1>2, <1>3, <3>1
    <3>. QED BY <1>6, <3>1, <3>2
  <2>3. ASSUME NEW y \in ToSet(b) PROVE y \in ToSet(c)
    <3>1. PICK i \in 1..Len(b) : b[i] = y
      BY <1>5, <2>3
    <3>2. i + n \in 1..Len(c) /\ ~(i + n <= n) /\ (i + n) - n = i
      BY <1>2, <1>3, <3>1
    <3>3. c[i + n] = b[i]
      BY <1>2, <3>2
    <3>. QED BY <1>6, <3>1, <3>2, <3>3
  <2>. QED BY <2>1, <2>2, <2>3
<1>9. ASSUME NEW i \in 1..Len(c), NEW j \in 1..Len(c), i < j
      PROVE  c[i] < c[j]
  <2>1. CASE i \in 1..n /\ c[i] = a[i] /\ j \in 1..n /\ c[j] = a[j]
    BY <1>1, <1>9, <2>1 DEF n
  <2>2. CASE /\ i \in 1..n /\ c[i] = a[i]
             /\ j > n /\ j - n \in 1..Len(b) /\ c[j] = b[j - n]
    <3>1. c[i] \in ToSet(a) /\ c[j] \in ToSet(b)
      BY <1>4, <1>5, <2>2 DEF n
    <3>. QED BY <3>1 DEF Below
  <2>3. CASE /\ i > n /\ i - n \in 1..Len(b) /\ c[i] = b[i - n]
             /\ j > n /\ j - n \in 1..Len(b) /\ c[j] = b[j - n]
    <3>1. i - n < j - n
      BY <1>3, <1>9, <2>3
    <3>. QED BY <1>1, <2>3, <3>1
  <2>4. ~(j \in 1..n /\ i > n)
    BY <1>3, <1>9
  <2>. QED BY <1>7, <2>1, <2>2, <2>3, <2>4
<1>. QED BY <1>2, <1>8, <1>9 DEF Ordered, c

\* The newest n of an ordered sequence
LEMMA OrderedNewest ==
  ASSUME NEW s, Ordered(s), NEW n \in Nat
  PROVE  LET t == Live!Newest(s, n)
             d == Len(s) - Len(t)
         IN  /\ Ordered(t) /\ ToSet(t) \subseteq ToSet(s)
             /\ Len(t) = IF Len(s) > n THEN n ELSE Len(s)
             /\ \A i \in 1..Len(t) : t[i] = s[i + d] /\ i + d \in 1..Len(s)
<1>. DEFINE m == IF Len(s) > n THEN Len(s) - n ELSE 0
            t == Live!Newest(s, n)
<1>1. s \in Seq(Nat) /\ \A i, j \in 1..Len(s) : i < j => s[i] < s[j]
  BY DEF Ordered
<1>2. Len(s) \in Nat
  BY <1>1
<1>3. m \in Nat /\ m <= Len(s)
  BY <1>2
<1>4. t = SubSeq(s, m + 1, Len(s))
  <2>1. (IF Len(s) > n THEN Len(s) - n + 1 ELSE 1) = m + 1
    BY <1>2
  <2>. QED BY <2>1 DEF Live!Newest
<1>. HIDE DEF m, t
<1>5. /\ t \in Seq(Nat) /\ Len(t) = Len(s) - m
      /\ \A i \in 1..Len(s) - m : t[i] = s[i + m] /\ i + m \in 1..Len(s)
  BY <1>1, <1>2, <1>3, <1>4, PartOf
<1>6. Len(s) - Len(t) = m
  BY <1>2, <1>3, <1>5
<1>7. \A y : y \in ToSet(s) <=> \E i \in 1..Len(s) : s[i] = y
  BY <1>1, SetOf
<1>8. \A y : y \in ToSet(t) <=> \E i \in 1..Len(t) : t[i] = y
  BY <1>5, SetOf
<1>9. ASSUME NEW i \in 1..Len(t), NEW j \in 1..Len(t), i < j
      PROVE  t[i] < t[j]
  <2>1. /\ i + m \in 1..Len(s) /\ j + m \in 1..Len(s)
        /\ t[i] = s[i + m] /\ t[j] = s[j + m]
    BY <1>5
  <2>2. i + m < j + m
    BY <1>3, <1>9
  <2>. QED BY <1>1, <2>1, <2>2
<1>10. Len(t) = IF Len(s) > n THEN n ELSE Len(s)
  BY <1>2, <1>5 DEF m
<1>11. ToSet(t) \subseteq ToSet(s)
  BY <1>5, <1>7, <1>8
<1>. QED BY <1>5, <1>6, <1>9, <1>10, <1>11 DEF Ordered, t

\* The last chunk that was taken from the input, and the chunks that are held
LastTaken == liSaid - Len(liInput)
Taken ==
  ToSet(liSent) \cup ToSet(liReplay) \cup ToSet(liResume.audio) \cup ToSet(liPending)
All == Taken \cup ToSet(liInput)

(***************************************************************************)
(* The input is what was said last.  What was taken from it stands in      *)
(* line: what is sent, what is replayed, and what a suspended or a broken  *)
(* session collects.                                                       *)
(***************************************************************************)
Phases == {"running", "closing", "suspended", "resuming", "waiting", "draining",
           "quiet", "reconnecting", "ending", "over"}
LineInv ==
  /\ liSaid \in Nat /\ liInput \in Seq(Nat) /\ Len(liInput) <= liSaid
  /\ \A i \in 1..Len(liInput) : liInput[i] = LastTaken + i
  /\ liPhase \in Phases
  /\ liResume \in [audio : Seq(Nat), triggers : Nat, ready : BOOLEAN]
  /\ Ordered(liSent) /\ Ordered(liReplay)
  /\ Ordered(liResume.audio) /\ Ordered(liPending)
  /\ \A x \in Taken : x <= LastTaken
  /\ Below(ToSet(liSent), ToSet(liReplay))
  /\ Below(ToSet(liSent) \cup ToSet(liReplay),
           ToSet(liResume.audio) \cup ToSet(liPending))
  /\ liPhase \in {"running", "draining", "over", "quiet", "reconnecting"} =>
       liResume = Live!NoResume
  /\ liPhase \notin {"quiet", "reconnecting"} => liPending = << >>

LEMMA LineFacts ==
  ASSUME LineInv
  PROVE  /\ Ordered(liInput) /\ LastTaken \in Nat /\ Len(liInput) \in Nat
         /\ LastTaken + Len(liInput) = liSaid
         /\ \A y \in ToSet(liInput) : y > LastTaken /\ y <= liSaid /\ y \in Nat
         /\ \A y \in Nat : y > LastTaken /\ y <= liSaid => y \in ToSet(liInput)
<1>1. /\ liSaid \in Nat /\ liInput \in Seq(Nat) /\ Len(liInput) <= liSaid
      /\ \A i \in 1..Len(liInput) : liInput[i] = LastTaken + i
  BY DEF LineInv
<1>2. Len(liInput) \in Nat
  BY <1>1
<1>3. LastTaken \in Nat /\ LastTaken + Len(liInput) = liSaid
  BY <1>1, <1>2 DEF LastTaken
<1>4. \A y : y \in ToSet(liInput) <=> \E i \in 1..Len(liInput) : liInput[i] = y
  BY <1>1, SetOf
<1>5. Ordered(liInput)
  <2>1. \A i, j \in 1..Len(liInput) : i < j => LastTaken + i < LastTaken + j
    BY <1>2, <1>3
  <2>. QED BY <1>1, <2>1 DEF Ordered
<1>6. ASSUME NEW y \in ToSet(liInput)
      PROVE  y > LastTaken /\ y <= liSaid /\ y \in Nat
  <2>1. PICK i \in 1..Len(liInput) : liInput[i] = y
    BY <1>4
  <2>2. y = LastTaken + i
    BY <1>1, <2>1
  <2>. QED BY <1>2, <1>3, <2>2
<1>7. ASSUME NEW y \in Nat, y > LastTaken, y <= liSaid
      PROVE  y \in ToSet(liInput)
  <2>1. y - LastTaken \in 1..Len(liInput) /\ LastTaken + (y - LastTaken) = y
    BY <1>2, <1>3, <1>7
  <2>. QED BY <1>1, <1>4, <2>1
<1>. QED BY <1>2, <1>3, <1>5, <1>6, <1>7

\* A chunk leaves the input.
LEMMA LineShortens ==
  ASSUME LineInv, liInput # << >>, liInput' = Tail(liInput), liSaid' = liSaid
  PROVE  /\ Head(liInput) = LastTaken + 1 /\ LastTaken' = LastTaken + 1
         /\ liSaid' \in Nat /\ liInput' \in Seq(Nat) /\ Len(liInput') <= liSaid'
         /\ \A i \in 1..Len(liInput') : liInput'[i] = LastTaken' + i
         /\ ToSet(liInput) = {LastTaken + 1} \cup ToSet(liInput')
<1>1. /\ liSaid \in Nat /\ liInput \in Seq(Nat) /\ Len(liInput) <= liSaid
      /\ \A i \in 1..Len(liInput) : liInput[i] = LastTaken + i
  BY DEF LineInv
<1>2. /\ Ordered(liInput) /\ LastTaken \in Nat /\ Len(liInput) \in Nat
  BY LineFacts
<1>3. /\ Len(liInput) \in Nat \ {0} /\ Head(liInput) = liInput[1]
      /\ liInput' \in Seq(Nat) /\ Len(liInput') = Len(liInput) - 1
      /\ \A i \in 1..Len(liInput') :
           liInput'[i] = liInput[i + 1] /\ i + 1 \in 1..Len(liInput)
  BY <1>1, TakenFirst
<1>4. Head(liInput) = LastTaken + 1
  <2>1. 1 \in 1..Len(liInput)
    BY <1>3
  <2>. QED BY <1>1, <1>3, <2>1
<1>5. LastTaken' = LastTaken + 1
  BY <1>1, <1>2, <1>3 DEF LastTaken
<1>6. ASSUME NEW i \in 1..Len(liInput')
      PROVE  liInput'[i] = LastTaken' + i
  <2>1. liInput'[i] = LastTaken + (i + 1)
    BY <1>1, <1>3
  <2>. QED BY <1>2, <1>3, <1>5, <2>1
<1>7. ToSet(liInput) = {LastTaken + 1} \cup ToSet(liInput')
  BY <1>2, <1>4, OrderedTail
<1>. QED BY <1>1, <1>2, <1>3, <1>4, <1>5, <1>6, <1>7

\* The next chunk of a connection comes from the replay or from the input.
LEMMA LineTaken ==
  ASSUME LineInv, liReplay \o liInput # << >>, Live!Taken, liSaid' = liSaid,
         liPhase \in {"running", "draining"}
  PROVE  LET x == Live!NextChunk IN
         /\ x \in Nat /\ Ordered(liReplay')
         /\ liSaid' \in Nat /\ liInput' \in Seq(Nat) /\ Len(liInput') <= liSaid'
         /\ \A i \in 1..Len(liInput') : liInput'[i] = LastTaken' + i
         /\ \A y \in ToSet(liSent) : y < x
         /\ \A y \in ToSet(liReplay') : x < y
         /\ ToSet(liReplay') \subseteq ToSet(liReplay)
         /\ x <= LastTaken' /\ LastTaken <= LastTaken'
         /\ LastTaken \in Nat /\ LastTaken' \in Nat
         /\ ToSet(liReplay) \cup ToSet(liInput) =
              {x} \cup ToSet(liReplay') \cup ToSet(liInput')
         /\ \/ LastTaken' = LastTaken + 1 /\ x = LastTaken'
            \/ LastTaken' = LastTaken /\ liInput' = liInput
<1>1. /\ Ordered(liReplay) /\ Ordered(liSent) /\ Below(ToSet(liSent), ToSet(liReplay))
      /\ \A y \in Taken : y <= LastTaken
      /\ liSaid \in Nat /\ liInput \in Seq(Nat) /\ Len(liInput) <= liSaid
      /\ \A i \in 1..Len(liInput) : liInput[i] = LastTaken + i
  BY DEF LineInv
<1>2. LastTaken \in Nat
  BY LineFacts
<1>3. ToSet(liReplay) \subseteq Taken /\ ToSet(liSent) \subseteq Taken
  BY DEF Taken
<1>4. liReplay \in Seq(Nat) /\ liSent \in Seq(Nat)
  BY <1>1 DEF Ordered
<1>5. CASE liReplay # << >>
  <2>1. liReplay' = Tail(liReplay) /\ liInput' = liInput
    BY <1>5 DEF Live!Taken
  <2>2. Live!NextChunk = Head(liReplay)
    <3>1. /\ Len(liReplay \o liInput) = Len(liReplay) + Len(liInput)
          /\ \A j \in 1..Len(liReplay) + Len(liInput) :
               (liReplay \o liInput)[j] = IF j <= Len(liReplay) THEN liReplay[j]
                                          ELSE liInput[j - Len(liReplay)]
          /\ liReplay \o liInput \in Seq(Nat)
      BY <1>1, <1>4, ConcatFacts
    <3>2. Len(liReplay) \in Nat \ {0} /\ Head(liReplay) = liReplay[1]
      BY <1>4, <1>5, TakenFirst
    <3>3. Head(liReplay \o liInput) = (liReplay \o liInput)[1]
      BY <3>1, TakenFirst
    <3>4. Len(liInput) \in Nat
      BY <1>1
    <3>5. (liReplay \o liInput)[1] = liReplay[1]
      BY <3>1, <3>2, <3>4
    <3>. QED BY <3>2, <3>3, <3>5 DEF Live!NextChunk
  <2>. DEFINE x == Live!NextChunk
  <2>3. /\ Ordered(liReplay') /\ x \in Nat
        /\ ToSet(liReplay) = {x} \cup ToSet(liReplay')
        /\ \A y \in ToSet(liReplay') : x < y
    BY <1>1, <1>5, <2>1, <2>2, OrderedTail
  <2>4. LastTaken' = LastTaken
    BY <2>1 DEF LastTaken
  <2>. HIDE DEF x
  <2>5. \A y \in ToSet(liSent) : y < x
    BY <1>1, <2>3 DEF Below
  <2>6. x <= LastTaken'
    BY <1>1, <1>3, <2>3, <2>4
  <2>. QED BY <1>1, <1>2, <2>1, <2>3, <2>4, <2>5, <2>6 DEF x
<1>6. CASE liReplay = << >>
  <2>1. liReplay' = << >> /\ liInput' = Tail(liInput)
    BY <1>6 DEF Live!Taken
  <2>2. liReplay \o liInput = liInput
    BY <1>1, <1>6
  <2>3. Live!NextChunk = Head(liInput) /\ liInput # << >>
    BY <2>2 DEF Live!NextChunk
  <2>4. /\ Head(liInput) = LastTaken + 1 /\ LastTaken' = LastTaken + 1
        /\ liSaid' \in Nat /\ liInput' \in Seq(Nat) /\ Len(liInput') <= liSaid'
        /\ \A i \in 1..Len(liInput') : liInput'[i] = LastTaken' + i
        /\ ToSet(liInput) = {LastTaken + 1} \cup ToSet(liInput')
    BY <2>1, <2>3, LineShortens
  <2>. DEFINE x == Live!NextChunk
  <2>5. x = LastTaken + 1 /\ x \in Nat
    BY <1>2, <2>3, <2>4
  <2>. HIDE DEF x
  <2>6. ToSet(liReplay') = {} /\ ToSet(liReplay) = {} /\ Ordered(liReplay')
    BY <1>6, <2>1, EmptySet
  <2>7. ASSUME NEW y \in ToSet(liSent) PROVE y < x
    <3>1. y \in Nat /\ y <= LastTaken
      <4>1. y \in Nat
        BY <1>4, SetOf, ItemOf
      <4>. QED BY <1>1, <1>3, <4>1
    <3>. QED BY <1>2, <2>5, <3>1
  <2>8. LastTaken' \in Nat /\ x <= LastTaken' /\ LastTaken <= LastTaken'
    BY <1>2, <2>4, <2>5
  <2>. QED BY <1>2, <2>4, <2>5, <2>6, <2>7, <2>8 DEF x
<1>. QED BY <1>5, <1>6

LEMMA ConcatSet ==
  ASSUME NEW a \in Seq(Nat), NEW b \in Seq(Nat)
  PROVE  a \o b \in Seq(Nat) /\ ToSet(a \o b) = ToSet(a) \cup ToSet(b)
<1>. DEFINE c == a \o b
            n == Len(a)
<1>1. /\ c \in Seq(Nat) /\ Len(c) = n + Len(b)
      /\ \A j \in 1..n + Len(b) : c[j] = IF j <= n THEN a[j] ELSE b[j - n]
  BY ConcatFacts
<1>2. n \in Nat /\ Len(b) \in Nat
  OBVIOUS
<1>. HIDE DEF c
<1>3. \A y : y \in ToSet(a) <=> \E i \in 1..Len(a) : a[i] = y
  BY SetOf
<1>4. \A y : y \in ToSet(b) <=> \E i \in 1..Len(b) : b[i] = y
  BY SetOf
<1>5. \A y : y \in ToSet(c) <=> \E i \in 1..Len(c) : c[i] = y
  BY <1>1, SetOf
<1>. HIDE DEF n
<1>6. ASSUME NEW y \in ToSet(c) PROVE y \in ToSet(a) \cup ToSet(b)
  <2>1. PICK i \in 1..Len(c) : c[i] = y
    BY <1>5, <1>6
  <2>2. \/ i \in 1..n /\ c[i] = a[i]
        \/ i - n \in 1..Len(b) /\ c[i] = b[i - n]
    BY <1>1, <1>2
  <2>. QED BY <1>3, <1>4, <2>1, <2>2 DEF n
<1>7. ASSUME NEW y \in ToSet(a) PROVE y \in ToSet(c)
  <2>1. PICK i \in 1..n : a[i] = y
    BY <1>3, <1>7 DEF n
  <2>2. i \in 1..Len(c) /\ c[i] = a[i]
    BY <1>1, <1>2, <2>1
  <2>. QED BY <1>5, <2>1, <2>2
<1>8. ASSUME NEW y \in ToSet(b) PROVE y \in ToSet(c)
  <2>1. PICK i \in 1..Len(b) : b[i] = y
    BY <1>4, <1>8
  <2>2. i + n \in 1..Len(c) /\ ~(i + n <= n) /\ (i + n) - n = i
    BY <1>1, <1>2, <2>1
  <2>3. c[i + n] = b[i]
    BY <1>1, <2>2
  <2>. QED BY <1>5, <2>1, <2>2, <2>3
<1>. QED BY <1>1, <1>6, <1>7, <1>8 DEF c

\* What is held is in order, and is what the parts hold.
LEMMA LineHeld ==
  ASSUME LineInv
  PROVE  /\ Ordered(Live!Held) /\ ToSet(Live!Held) = All
         /\ All \subseteq Nat /\ Taken \subseteq Nat
         /\ ToSet(liReplay \o liResume.audio \o liPending \o liInput) =
              ToSet(liReplay) \cup ToSet(liResume.audio) \cup ToSet(liPending)
                \cup ToSet(liInput)
<1>. DEFINE a == liResume.audio
<1>1. /\ Ordered(liSent) /\ Ordered(liReplay) /\ Ordered(a) /\ Ordered(liPending)
      /\ \A x \in Taken : x <= LastTaken
      /\ Below(ToSet(liSent), ToSet(liReplay))
      /\ Below(ToSet(liSent) \cup ToSet(liReplay), ToSet(a) \cup ToSet(liPending))
  BY DEF LineInv
<1>2. a = << >> \/ liPending = << >>
  BY DEF LineInv, Live!NoResume
<1>. HIDE DEF a
<1>3. /\ Ordered(liInput) /\ LastTaken \in Nat
      /\ \A y \in ToSet(liInput) : y > LastTaken /\ y \in Nat
  BY LineFacts
<1>4. /\ liSent \in Seq(Nat) /\ liReplay \in Seq(Nat) /\ a \in Seq(Nat)
      /\ liPending \in Seq(Nat) /\ liInput \in Seq(Nat)
  BY <1>1, <1>3 DEF Ordered
<1>5. Ordered(liSent \o liReplay)
      /\ ToSet(liSent \o liReplay) = ToSet(liSent) \cup ToSet(liReplay)
  BY <1>1, OrderedConcat
<1>6. Below(ToSet(liSent \o liReplay), ToSet(a))
  BY <1>1, <1>5 DEF Below
<1>7. /\ Ordered((liSent \o liReplay) \o a)
      /\ ToSet((liSent \o liReplay) \o a) =
           ToSet(liSent) \cup ToSet(liReplay) \cup ToSet(a)
  BY <1>1, <1>5, <1>6, OrderedConcat
<1>8. Below(ToSet((liSent \o liReplay) \o a), ToSet(liPending))
  <2>1. CASE a = << >>
    BY <1>1, <1>7, <2>1, EmptySet DEF Below
  <2>2. CASE liPending = << >>
    BY <2>2, EmptySet DEF Below
  <2>. QED BY <1>2, <2>1, <2>2
<1>9. /\ Ordered(((liSent \o liReplay) \o a) \o liPending)
      /\ ToSet(((liSent \o liReplay) \o a) \o liPending) = Taken
  BY <1>1, <1>7, <1>8, OrderedConcat DEF Taken, a
<1>10. Taken \subseteq Nat
  <2>1. \A s \in Seq(Nat) : ToSet(s) \subseteq Nat
    BY SetOf, ItemOf
  <2>. QED BY <1>4, <2>1 DEF Taken, a
<1>11. Below(Taken, ToSet(liInput))
  <2>1. ASSUME NEW x \in Taken, NEW y \in ToSet(liInput) PROVE x < y
    <3>1. x \in Nat /\ x <= LastTaken /\ y \in Nat /\ y > LastTaken
      BY <1>1, <1>3, <1>10
    <3>. QED BY <1>3, <3>1
  <2>. QED BY <2>1 DEF Below
<1>12. Ordered(Live!Held) /\ ToSet(Live!Held) = All
  BY <1>3, <1>9, <1>11, OrderedConcat DEF Live!Held, All, a
<1>13. All \subseteq Nat
  BY <1>3, <1>10 DEF All
<1>14. liReplay \o a \in Seq(Nat) /\ ToSet(liReplay \o a) = ToSet(liReplay) \cup ToSet(a)
  BY <1>4, ConcatSet
<1>15. /\ (liReplay \o a) \o liPending \in Seq(Nat)
       /\ ToSet((liReplay \o a) \o liPending) =
            ToSet(liReplay) \cup ToSet(a) \cup ToSet(liPending)
  BY <1>4, <1>14, ConcatSet
<1>16. ToSet(((liReplay \o a) \o liPending) \o liInput) =
         ToSet(liReplay) \cup ToSet(a) \cup ToSet(liPending) \cup ToSet(liInput)
  BY <1>4, <1>15, ConcatSet
<1>. QED BY <1>10, <1>12, <1>13, <1>16 DEF a

\* What was said and is neither held nor given up
Unkept == {k \in 1..liSaid : k \notin All \cup liLost}
Retains ==
  /\ \A k : k \in Unkept' => k \in Unkept
  /\ liLost \subseteq liLost' /\ LastTaken <= LastTaken'

\* Nothing moves but the phase.
LEMMA LineStays ==
  ASSUME LineInv, UNCHANGED <<liSaid, liInput, liReplay, liResume, liPending, liSent>>,
         liLost \subseteq liLost', liPhase' \in Phases,
         liPhase' \in {"running", "draining", "over", "quiet", "reconnecting"} =>
           liResume = Live!NoResume,
         liPhase' \notin {"quiet", "reconnecting"} => liPending = << >>
  PROVE  LineInv' /\ Retains /\ LastTaken' = LastTaken /\ All' = All
<1>1. LastTaken' = LastTaken /\ Taken' = Taken /\ All' = All
  BY DEF LastTaken, Taken, All
<1>2. LastTaken \in Nat
  BY LineFacts
<1>3. LineInv'
  BY <1>1 DEF LineInv, Live!NoResume
<1>. QED BY <1>1, <1>2, <1>3 DEF Retains, Unkept

\* The task is about to end.
LEMMA LineEnding ==
  ASSUME LineInv, Live!Ending, liPhase \notin {"quiet", "reconnecting"},
         UNCHANGED <<liSaid, liSent>>
  PROVE  LineInv' /\ Retains
<1>1. /\ UNCHANGED <<liSaid, liInput, liReplay, liResume, liPending, liSent, liLost>>
      /\ liPhase' = "ending"
  BY DEF Live!Ending, Live!buffers
<1>2. liPending = << >>
  BY DEF LineInv
<1>. QED BY <1>1, <1>2, LineStays DEF Phases

\* The task ends.
LEMMA LineOver ==
  ASSUME LineInv, Live!Drop, liSaid' = liSaid, liSent' = liSent
  PROVE  LineInv' /\ Retains
<1>1. /\ liPhase' = "over" /\ liInput' = << >> /\ liReplay' = << >>
      /\ liResume' = Live!NoResume /\ liPending' = << >>
      /\ liLost' = liLost \cup ToSet(liReplay \o liResume.audio \o liPending \o liInput)
  BY DEF Live!Drop, Live!Range, ToSet
<1>2. /\ liSaid \in Nat /\ Ordered(liSent) /\ \A x \in Taken : x <= LastTaken
  BY DEF LineInv
<1>3. LastTaken \in Nat /\ LastTaken <= liSaid
  BY LineFacts
<1>4. LastTaken' = liSaid
  BY <1>1, <1>2 DEF LastTaken
<1>5. Live!NoResume.audio = << >>
      /\ Live!NoResume \in [audio : Seq(Nat), triggers : Nat, ready : BOOLEAN]
  BY DEF Live!NoResume
<1>6. Taken' = ToSet(liSent) /\ All' = ToSet(liSent)
  BY <1>1, <1>5, EmptySet DEF Taken, All
<1>7. ASSUME NEW x \in Taken' PROVE x <= liSaid
  <2>1. x \in Taken /\ x \in Nat /\ x <= LastTaken
    BY <1>2, <1>6, <1>7, LineHeld DEF Taken
  <2>. QED BY <1>2, <1>3, <2>1
<1>8. liInput' \in Seq(Nat) /\ Len(liInput') = 0
  BY <1>1
<1>9. LineInv'
  <2>1. Below(ToSet(liSent), {}) /\ Below(ToSet(liSent) \cup {}, {} \cup {})
    BY DEF Below
  <2>2. ToSet(liReplay') = {} /\ ToSet(liPending') = {} /\ ToSet(liResume'.audio) = {}
        /\ Ordered(liReplay') /\ Ordered(liPending') /\ Ordered(liResume'.audio)
    BY <1>1, <1>5, EmptySet
  <2>3. /\ liSaid' \in Nat /\ Len(liInput') <= liSaid'
        /\ \A i \in 1..Len(liInput') : liInput'[i] = LastTaken' + i
    BY <1>2, <1>8
  <2>4. \A x \in Taken' : x <= LastTaken'
    BY <1>4, <1>7
  <2>. QED BY <1>1, <1>2, <1>5, <1>8, <2>1, <2>2, <2>3, <2>4 DEF LineInv, Phases
<1>10. ASSUME NEW k \in Unkept' PROVE k \in Unkept
  BY <1>1, <1>6, <1>10, LineHeld DEF Unkept, All, Taken
<1>. QED BY <1>1, <1>3, <1>4, <1>9, <1>10 DEF Retains

\* Something is said.
LEMMA LinePuts ==
  ASSUME LineInv, Live!Put,
         UNCHANGED <<liPhase, liReplay, liSent, liResume, liPending, liLost>>
  PROVE  LineInv' /\ Retains /\ LastTaken' = LastTaken
<1>1. liSaid' = liSaid + 1 /\ liInput' = Append(liInput, liSaid + 1)
  BY DEF Live!Put
<1>2. /\ liSaid \in Nat /\ liInput \in Seq(Nat) /\ Len(liInput) <= liSaid
      /\ \A i \in 1..Len(liInput) : liInput[i] = LastTaken + i
  BY DEF LineInv
<1>3. LastTaken \in Nat /\ Len(liInput) \in Nat /\ LastTaken + Len(liInput) = liSaid
      /\ Ordered(liInput) /\ \A y \in ToSet(liInput) : y \in Nat /\ y <= liSaid
  BY LineFacts
<1>4. /\ liInput' \in Seq(Nat) /\ Len(liInput') = Len(liInput) + 1
      /\ \A i \in 1..Len(liInput') :
           IF i = Len(liInput) + 1 THEN liInput'[i] = liSaid + 1
           ELSE i \in 1..Len(liInput) /\ liInput'[i] = liInput[i]
  <2>1. liInput \in Seq(Nat) /\ liSaid + 1 \in Nat
    BY <1>2
  <2>. QED BY <1>1, <2>1, AddedLast
<1>5. LastTaken' = LastTaken
  BY <1>1, <1>2, <1>3, <1>4 DEF LastTaken
<1>6. ASSUME NEW i \in 1..Len(liInput') PROVE liInput'[i] = LastTaken + i
  <2>1. CASE i = Len(liInput) + 1
    <3>1. liInput'[i] = liSaid + 1
      BY <1>4, <2>1
    <3>. QED BY <1>2, <1>3, <2>1, <3>1
  <2>2. CASE i # Len(liInput) + 1
    BY <1>2, <1>4, <2>2
  <2>. QED BY <2>1, <2>2
<1>7. Taken' = Taken
  BY <1>1 DEF Taken
<1>8. LineInv'
  BY <1>1, <1>2, <1>3, <1>4, <1>5, <1>6, <1>7 DEF LineInv
<1>9. ToSet(liInput') = ToSet(liInput) \cup {liSaid + 1}
  <2>1. liSaid + 1 \in Nat /\ \A y \in ToSet(liInput) : y < liSaid + 1
    BY <1>2, <1>3
  <2>. QED BY <1>1, <1>3, <2>1, OrderedAppend
<1>10. All' = All \cup {liSaid + 1}
  BY <1>7, <1>9 DEF All
<1>11. ASSUME NEW k \in Unkept' PROVE k \in Unkept
  <2>1. k \in 1..liSaid + 1 /\ k # liSaid + 1 /\ k \notin All \cup liLost
    BY <1>1, <1>10, <1>11 DEF Unkept
  <2>. QED BY <1>2, <2>1 DEF Unkept
<1>. QED BY <1>1, <1>3, <1>5, <1>8, <1>11 DEF Retains

\* It may have to wait for room.
LEMMA LineSays ==
  ASSUME LineInv, Live!Say \/ Live!WaitEnds
  PROVE  LineInv' /\ Retains /\ LastTaken' = LastTaken
<1>1. /\ Live!Put \/ UNCHANGED <<liSaid, liInput>>
      /\ UNCHANGED <<liPhase, liReplay, liSent, liResume, liPending, liLost>>
  BY DEF Live!Say, Live!WaitEnds, Live!connected, Live!buffers
<1>2. CASE Live!Put
  BY <1>1, <1>2, LinePuts
<1>3. CASE UNCHANGED <<liSaid, liInput>>
  <2>1. /\ liPhase' \in Phases
        /\ liPhase' \in {"running", "draining", "over", "quiet", "reconnecting"} =>
             liResume = Live!NoResume
        /\ liPhase' \notin {"quiet", "reconnecting"} => liPending = << >>
    BY <1>1 DEF LineInv
  <2>. QED BY <1>1, <1>3, <2>1, LineStays
<1>. QED BY <1>1, <1>2, <1>3

\* The next chunk is sent, by a connection that stays or that is closed.
LEMMA LineSends ==
  ASSUME LineInv, liReplay \o liInput # << >>, Live!Taken,
         liPhase \in {"running", "draining"},
         liSent' = Append(liSent, Live!NextChunk),
         liPhase' \in {"running", "draining", "closing"},
         UNCHANGED <<liSaid, liResume, liPending, liLost>>
  PROVE  LineInv' /\ Retains
<1>. DEFINE x == Live!NextChunk
<1>1. /\ x \in Nat /\ Ordered(liReplay')
      /\ liSaid' \in Nat /\ liInput' \in Seq(Nat) /\ Len(liInput') <= liSaid'
      /\ \A i \in 1..Len(liInput') : liInput'[i] = LastTaken' + i
      /\ \A y \in ToSet(liSent) : y < x
      /\ \A y \in ToSet(liReplay') : x < y
      /\ ToSet(liReplay') \subseteq ToSet(liReplay)
      /\ x <= LastTaken' /\ LastTaken <= LastTaken'
      /\ LastTaken \in Nat /\ LastTaken' \in Nat
      /\ ToSet(liReplay) \cup ToSet(liInput) =
           {x} \cup ToSet(liReplay') \cup ToSet(liInput')
  BY LineTaken
<1>2. /\ Ordered(liSent) /\ Below(ToSet(liSent), ToSet(liReplay))
      /\ \A y \in Taken : y <= LastTaken
      /\ liResume = Live!NoResume /\ liPending = << >>
      /\ liResume \in [audio : Seq(Nat), triggers : Nat, ready : BOOLEAN]
  BY DEF LineInv
<1>3. liSent' = Append(liSent, x)
  OBVIOUS
<1>. HIDE DEF x
<1>4. Ordered(liSent') /\ ToSet(liSent') = ToSet(liSent) \cup {x}
  BY <1>1, <1>2, <1>3, OrderedAppend
<1>5. ToSet(liResume'.audio) = {} /\ ToSet(liPending') = {}
      /\ ToSet(liResume.audio) = {} /\ ToSet(liPending) = {}
      /\ Ordered(liResume'.audio) /\ Ordered(liPending')
  BY <1>2, EmptySet DEF Live!NoResume
<1>6. Taken' = ToSet(liSent) \cup {x} \cup ToSet(liReplay') /\ Taken \subseteq Nat
  BY <1>4, <1>5, LineHeld DEF Taken
<1>7. ASSUME NEW y \in Taken' PROVE y <= LastTaken'
  <2>1. CASE y = x
    BY <1>1, <2>1
  <2>2. CASE y # x
    <3>1. y \in Taken /\ y \in Nat
      BY <1>1, <1>6, <1>7, <2>2 DEF Taken
    <3>2. y <= LastTaken
      BY <1>2, <3>1
    <3>. QED BY <1>1, <3>1, <3>2
  <2>. QED BY <2>1, <2>2
<1>8. Below(ToSet(liSent'), ToSet(liReplay'))
  BY <1>1, <1>2, <1>4 DEF Below
<1>9. Below(ToSet(liSent') \cup ToSet(liReplay'),
            ToSet(liResume'.audio) \cup ToSet(liPending'))
  BY <1>5 DEF Below
<1>10. LineInv'
  BY <1>1, <1>2, <1>4, <1>5, <1>7, <1>8, <1>9 DEF LineInv, Phases
<1>11. All' = All
  BY <1>1, <1>4, <1>5 DEF All, Taken
<1>. QED BY <1>1, <1>10, <1>11 DEF Retains, Unkept

\* Sending it has failed.
LEMMA LineDrops ==
  ASSUME LineInv, liReplay \o liInput # << >>, Live!Taken,
         liPhase = "running", liPhase' \in {"quiet", "reconnecting"},
         UNCHANGED <<liSaid, liSent, liResume>>, liPending' = << >>,
         liLost' = liLost \cup {Live!NextChunk}
  PROVE  LineInv' /\ Retains
<1>. DEFINE x == Live!NextChunk
<1>1. /\ x \in Nat /\ Ordered(liReplay')
      /\ liSaid' \in Nat /\ liInput' \in Seq(Nat) /\ Len(liInput') <= liSaid'
      /\ \A i \in 1..Len(liInput') : liInput'[i] = LastTaken' + i
      /\ ToSet(liReplay') \subseteq ToSet(liReplay)
      /\ LastTaken <= LastTaken' /\ LastTaken \in Nat /\ LastTaken' \in Nat
      /\ ToSet(liReplay) \cup ToSet(liInput) =
           {x} \cup ToSet(liReplay') \cup ToSet(liInput')
  BY LineTaken
<1>2. /\ Ordered(liSent) /\ Below(ToSet(liSent), ToSet(liReplay))
      /\ \A y \in Taken : y <= LastTaken
      /\ liResume = Live!NoResume /\ liPending = << >>
      /\ liResume \in [audio : Seq(Nat), triggers : Nat, ready : BOOLEAN]
  BY DEF LineInv
<1>3. liLost' = liLost \cup {x}
  OBVIOUS
<1>. HIDE DEF x
<1>4. liResume' = Live!NoResume /\ liPending' = << >>
  BY <1>2
<1>5. ToSet(liResume'.audio) = {} /\ ToSet(liPending') = {}
      /\ ToSet(liResume.audio) = {} /\ ToSet(liPending) = {}
      /\ Ordered(liResume'.audio) /\ Ordered(liPending')
  BY <1>2, <1>4, EmptySet DEF Live!NoResume
<1>6. Taken' = ToSet(liSent) \cup ToSet(liReplay') /\ Taken \subseteq Nat
  BY <1>5, LineHeld DEF Taken
<1>7. ASSUME NEW y \in Taken' PROVE y <= LastTaken'
  <2>1. y \in Taken /\ y \in Nat
    BY <1>1, <1>6, <1>7 DEF Taken
  <2>2. y <= LastTaken
    BY <1>2, <2>1
  <2>. QED BY <1>1, <2>1, <2>2
<1>8. Below(ToSet(liSent'), ToSet(liReplay'))
  BY <1>1, <1>2 DEF Below
<1>9. Below(ToSet(liSent') \cup ToSet(liReplay'),
            ToSet(liResume'.audio) \cup ToSet(liPending'))
  BY <1>5 DEF Below
<1>10. LineInv'
  BY <1>1, <1>2, <1>4, <1>5, <1>7, <1>8, <1>9 DEF LineInv, Phases
<1>11. All \cup liLost \subseteq (All \cup liLost)'
  BY <1>1, <1>3, <1>5 DEF All, Taken
<1>12. \A k : k \in Unkept' => k \in Unkept
  BY <1>11 DEF Unkept
<1>. QED BY <1>1, <1>3, <1>10, <1>12 DEF Retains

\* A chunk from the input joins a buffer, which keeps its newest.
LEMMA LineJoins ==
  ASSUME LineInv, liInput # << >>, NEW s, Ordered(s), ToSet(s) \subseteq Taken,
         NEW n \in Nat
  PROVE  LET t == Append(s, Head(liInput))
             u == Live!Newest(t, n)
         IN  /\ Head(liInput) = LastTaken + 1
             /\ Ordered(t) /\ Len(t) = Len(s) + 1 /\ Len(s) \in Nat
             /\ t[Len(s) + 1] = LastTaken + 1 /\ \A i \in 1..Len(s) : t[i] = s[i]
             /\ ToSet(t) = ToSet(s) \cup {LastTaken + 1}
             /\ Ordered(u) /\ ToSet(u) \subseteq ToSet(t)
             /\ Len(u) = IF Len(t) > n THEN n ELSE Len(t)
             /\ \A i \in 1..Len(u) :
                  u[i] = t[i + (Len(t) - Len(u))] /\ i + (Len(t) - Len(u)) \in 1..Len(t)
<1>. DEFINE t == Append(s, Head(liInput))
            u == Live!Newest(t, n)
<1>1. Head(liInput) = LastTaken + 1
  <2>1. /\ liSaid \in Nat /\ liInput \in Seq(Nat) /\ Len(liInput) <= liSaid
        /\ \A i \in 1..Len(liInput) : liInput[i] = LastTaken + i
    BY DEF LineInv
  <2>2. Len(liInput) \in Nat \ {0} /\ Head(liInput) = liInput[1]
    BY <2>1, TakenFirst
  <2>3. 1 \in 1..Len(liInput)
    BY <2>2
  <2>. QED BY <2>1, <2>2, <2>3
<1>2. \A y \in Taken : y \in Nat /\ y <= LastTaken
  BY LineHeld DEF LineInv
<1>3. LastTaken \in Nat
  BY LineFacts
<1>4. LastTaken + 1 \in Nat /\ \A y \in ToSet(s) : y < LastTaken + 1
  BY <1>2, <1>3
<1>5. /\ Ordered(Append(s, LastTaken + 1))
      /\ Len(Append(s, LastTaken + 1)) = Len(s) + 1
      /\ ToSet(Append(s, LastTaken + 1)) = ToSet(s) \cup {LastTaken + 1}
  BY <1>4, OrderedAppend
<1>6. s \in Seq(Nat)
  BY DEF Ordered
<1>7. /\ Len(s) \in Nat
      /\ Append(s, LastTaken + 1)[Len(s) + 1] = LastTaken + 1
      /\ \A i \in 1..Len(s) : Append(s, LastTaken + 1)[i] = s[i]
  BY <1>4, <1>6, AddedLast
<1>8. /\ Ordered(t) /\ Len(t) = Len(s) + 1 /\ Len(s) \in Nat
      /\ t[Len(s) + 1] = LastTaken + 1 /\ \A i \in 1..Len(s) : t[i] = s[i]
      /\ ToSet(t) = ToSet(s) \cup {LastTaken + 1}
  BY <1>1, <1>5, <1>7
<1>. HIDE DEF t
<1>9. /\ Ordered(u) /\ ToSet(u) \subseteq ToSet(t)
      /\ Len(u) = IF Len(t) > n THEN n ELSE Len(t)
      /\ \A i \in 1..Len(u) :
           u[i] = t[i + (Len(t) - Len(u))] /\ i + (Len(t) - Len(u)) \in 1..Len(t)
  BY <1>8, OrderedNewest
<1>. QED BY <1>1, <1>8, <1>9 DEF t

LEMMA LineCollects ==
  ASSUME LineInv, liInput # << >>, liInput' = Tail(liInput),
         UNCHANGED <<liSaid, liSent, liReplay>>,
         Ordered(liResume'.audio), Ordered(liPending'),
         ToSet(liResume'.audio) \cup ToSet(liPending') \subseteq
           ToSet(liResume.audio) \cup ToSet(liPending) \cup {LastTaken + 1},
         liResume' \in [audio : Seq(Nat), triggers : Nat, ready : BOOLEAN],
         liPhase' \in Phases,
         liPhase' \in {"running", "draining", "over", "quiet", "reconnecting"} =>
           liResume' = Live!NoResume,
         liPhase' \notin {"quiet", "reconnecting"} => liPending' = << >>
  PROVE  LineInv'
<1>1. /\ LastTaken' = LastTaken + 1
      /\ liSaid' \in Nat /\ liInput' \in Seq(Nat) /\ Len(liInput') <= liSaid'
      /\ \A i \in 1..Len(liInput') : liInput'[i] = LastTaken' + i
  BY LineShortens
<1>2. /\ Ordered(liSent) /\ Ordered(liReplay) /\ Below(ToSet(liSent), ToSet(liReplay))
      /\ Below(ToSet(liSent) \cup ToSet(liReplay),
               ToSet(liResume.audio) \cup ToSet(liPending))
  BY DEF LineInv
<1>3. \A y \in Taken : y \in Nat /\ y <= LastTaken
  BY LineHeld DEF LineInv
<1>4. LastTaken \in Nat
  BY LineFacts
<1>5. \A y \in Taken : y < LastTaken + 1
  BY <1>3, <1>4
<1>6. Taken' \subseteq Taken \cup {LastTaken + 1}
  BY DEF Taken
<1>7. ASSUME NEW y \in Taken' PROVE y <= LastTaken'
  <2>1. y \in Taken \/ y = LastTaken + 1
    BY <1>6
  <2>2. CASE y \in Taken
    <3>1. y \in Nat /\ y <= LastTaken
      BY <1>3, <2>2
    <3>. QED BY <1>1, <1>4, <3>1
  <2>3. CASE y = LastTaken + 1
    BY <1>1, <1>4, <2>3
  <2>. QED BY <2>1, <2>2, <2>3
<1>8. Below(ToSet(liSent) \cup ToSet(liReplay),
            ToSet(liResume'.audio) \cup ToSet(liPending'))
  <2>1. ToSet(liSent) \cup ToSet(liReplay) \subseteq Taken
    BY DEF Taken
  <2>. QED BY <1>2, <1>5, <2>1 DEF Below
<1>. QED BY <1>1, <1>2, <1>7, <1>8 DEF LineInv

\* A connection is there again, and replays a buffer unless it is old.
LEMMA LineReplays ==
  ASSUME LineInv, NEW b, b \in {liResume.audio, liPending},
         b = liResume.audio => liPending = << >> \/ liPending = b,
         b = liPending => liResume.audio = << >> \/ liResume.audio = b,
         \/ liReplay' = liReplay \o b /\ liLost' = liLost
         \/ liReplay' = liReplay /\ liLost' = liLost \cup ToSet(b),
         liPhase' = "running", liResume' = Live!NoResume, liPending' = << >>,
         UNCHANGED <<liSaid, liSent, liInput>>
  PROVE  LineInv' /\ Retains
<1>1. /\ Ordered(liSent) /\ Ordered(liReplay) /\ Below(ToSet(liSent), ToSet(liReplay))
      /\ Ordered(liResume.audio) /\ Ordered(liPending)
      /\ Below(ToSet(liSent) \cup ToSet(liReplay),
               ToSet(liResume.audio) \cup ToSet(liPending))
  BY DEF LineInv
<1>2. Ordered(b) /\ ToSet(b) = ToSet(liResume.audio) \cup ToSet(liPending)
  BY <1>1, EmptySet
<1>3. /\ Ordered(liReplay \o b) /\ ToSet(liReplay \o b) = ToSet(liReplay) \cup ToSet(b)
  <2>1. Below(ToSet(liReplay), ToSet(b))
    BY <1>1, <1>2 DEF Below
  <2>. QED BY <1>1, <1>2, <2>1, OrderedConcat
<1>4. Ordered(liReplay') /\ ToSet(liReplay') \subseteq ToSet(liReplay) \cup ToSet(b)
      /\ ToSet(liReplay) \cup ToSet(b) \cup liLost \subseteq ToSet(liReplay') \cup liLost'
      /\ liLost \subseteq liLost'
  BY <1>1, <1>3
<1>5. ToSet(liResume'.audio) = {} /\ ToSet(liPending') = {}
      /\ Ordered(liResume'.audio) /\ Ordered(liPending')
      /\ liResume' \in [audio : Seq(Nat), triggers : Nat, ready : BOOLEAN]
  BY EmptySet DEF Live!NoResume
<1>6. LastTaken' = LastTaken /\ LastTaken \in Nat
  BY LineFacts DEF LastTaken
<1>7. Taken' \subseteq Taken
  BY <1>2, <1>4, <1>5 DEF Taken
<1>8. Below(ToSet(liSent), ToSet(liReplay'))
  BY <1>1, <1>2, <1>4 DEF Below
<1>9. Below(ToSet(liSent') \cup ToSet(liReplay'),
            ToSet(liResume'.audio) \cup ToSet(liPending'))
  BY <1>5 DEF Below
<1>10. LineInv'
  BY <1>1, <1>4, <1>5, <1>6, <1>7, <1>8, <1>9 DEF LineInv, Phases
<1>11. All \cup liLost \subseteq (All \cup liLost)'
  BY <1>2, <1>4 DEF All, Taken
<1>12. \A k : k \in Unkept' => k \in Unkept
  BY <1>11 DEF Unkept
<1>. QED BY <1>4, <1>6, <1>10, <1>12 DEF Retains

LEMMA LineCollect ==
  ASSUME LineInv, Live!Collect
  PROVE  LineInv' /\ (liResume'.ready => Retains)
<1>. DEFINE x == Head(liInput)
            a == liResume.audio
            t == Append(a, x)
            r == Live!Push(x)
<1>1. /\ liPhase \in {"closing", "suspended", "resuming", "waiting"}
      /\ liInput # << >> /\ liInput' = Tail(liInput) /\ liResume' = r
      /\ liLost' = IF r.ready THEN liLost \cup (ToSet(t) \ ToSet(r.audio)) ELSE liLost
      /\ UNCHANGED <<liSaid, liSent, liReplay, liPhase, liPending>>
  BY DEF Live!Collect, Live!connected, Live!pipeline, Live!Range, ToSet
<1>2. /\ liResume \in [audio : Seq(Nat), triggers : Nat, ready : BOOLEAN]
      /\ Ordered(a) /\ liPhase \in Phases /\ liPending = << >>
  BY <1>1 DEF LineInv
<1>3. PreRoll \in Nat /\ Recent \in Nat
  BY LiveBounds DEF Live!LiveAssumption
<1>4. /\ r.audio \in {t, Live!Newest(t, PreRoll), Live!Newest(t, Recent)}
      /\ r.triggers \in {0, liResume.triggers + 1} /\ r.ready \in BOOLEAN
      /\ r = [audio |-> r.audio, triggers |-> r.triggers, ready |-> r.ready]
  <2>1. liResume.ready \in BOOLEAN
    BY <1>2
  <2>. QED BY <2>1 DEF Live!Push
<1>. HIDE DEF r
<1>5. ToSet(a) \subseteq Taken
  BY DEF Taken
<1>. HIDE DEF a
<1>6. \A n \in Nat : /\ Ordered(t) /\ ToSet(t) = ToSet(a) \cup {LastTaken + 1}
                     /\ x = LastTaken + 1
                     /\ Ordered(Live!Newest(t, n)) /\ ToSet(Live!Newest(t, n)) \subseteq ToSet(t)
  BY <1>1, <1>2, <1>5, LineJoins
<1>. HIDE DEF t
<1>7. /\ Ordered(r.audio) /\ ToSet(r.audio) \subseteq ToSet(a) \cup {LastTaken + 1}
      /\ ToSet(t) = ToSet(a) \cup {LastTaken + 1}
  BY <1>3, <1>4, <1>6
<1>8. r \in [audio : Seq(Nat), triggers : Nat, ready : BOOLEAN]
  <2>1. liResume.triggers \in Nat
    BY <1>2
  <2>2. r.triggers \in Nat /\ r.audio \in Seq(Nat)
    BY <1>4, <1>7, <2>1 DEF Ordered
  <2>. QED BY <1>4, <2>2
<1>9. LineInv'
  <2>1. /\ Ordered(liResume'.audio) /\ Ordered(liPending')
        /\ ToSet(liResume'.audio) \cup ToSet(liPending') \subseteq
             ToSet(a) \cup ToSet(liPending) \cup {LastTaken + 1}
    BY <1>1, <1>2, <1>7, EmptySet
  <2>2. /\ liPhase' \notin {"running", "draining", "over", "quiet", "reconnecting"}
        /\ liPhase' \in Phases /\ liPending' = << >>
    BY <1>1, <1>2
  <2>3. /\ liInput # << >> /\ liInput' = Tail(liInput)
        /\ UNCHANGED <<liSaid, liSent, liReplay>>
        /\ liResume' \in [audio : Seq(Nat), triggers : Nat, ready : BOOLEAN]
    BY <1>1, <1>8
  <2>. QED BY <2>1, <2>2, <2>3, LineCollects DEF a
<1>10. ASSUME r.ready PROVE Retains
  <2>1. ToSet(liInput) = {LastTaken + 1} \cup ToSet(liInput')
        /\ LastTaken' = LastTaken + 1 /\ LastTaken \in Nat
    BY <1>1, LineShortens, LineFacts
  <2>2. ToSet(a) \cup ToSet(liInput) \cup liLost \subseteq
          ToSet(liResume'.audio) \cup ToSet(liInput') \cup liLost'
    BY <1>1, <1>7, <1>10, <2>1
  <2>3. All \cup liLost \subseteq (All \cup liLost)'
    BY <1>1, <2>2 DEF All, Taken, a
  <2>4. \A k : k \in Unkept' => k \in Unkept
    BY <1>1, <2>3 DEF Unkept
  <2>. QED BY <1>1, <2>1, <2>4 DEF Retains
<1>. QED BY <1>1, <1>9, <1>10

LEMMA LineBuffer ==
  ASSUME LineInv, Live!Buffer
  PROVE  LineInv' /\ Retains
<1>. DEFINE x == Head(liInput)
            t == Append(liPending, x)
            n == IF Live!Realtime THEN Recent ELSE Long
<1>1. /\ liPhase \in {"quiet", "reconnecting"} /\ liPhase' \in {"quiet", "reconnecting"}
      /\ liInput # << >> /\ liInput' = Tail(liInput)
      /\ liPending' = Live!Newest(t, n)
      /\ liLost' = liLost \cup (ToSet(t) \ ToSet(liPending'))
      /\ UNCHANGED <<liSaid, liSent, liReplay, liResume>>
  BY DEF Live!Buffer, Live!connected, Live!pipeline, Live!Range, ToSet
<1>2. /\ liResume \in [audio : Seq(Nat), triggers : Nat, ready : BOOLEAN]
      /\ Ordered(liPending) /\ Ordered(liResume.audio) /\ liResume = Live!NoResume
  BY <1>1 DEF LineInv
<1>3. n \in Nat
  BY LiveBounds DEF Live!LiveAssumption
<1>4. ToSet(liPending) \subseteq Taken
  BY DEF Taken
<1>. HIDE DEF n
<1>5. /\ Ordered(t) /\ ToSet(t) = ToSet(liPending) \cup {LastTaken + 1}
      /\ Ordered(Live!Newest(t, n)) /\ ToSet(Live!Newest(t, n)) \subseteq ToSet(t)
  BY <1>1, <1>2, <1>3, <1>4, LineJoins
<1>. HIDE DEF t
<1>6. LineInv'
  <2>1. /\ Ordered(liResume'.audio) /\ Ordered(liPending')
        /\ ToSet(liResume'.audio) \cup ToSet(liPending') \subseteq
             ToSet(liResume.audio) \cup ToSet(liPending) \cup {LastTaken + 1}
    BY <1>1, <1>2, <1>5
  <2>2. liPhase' \in Phases /\ liResume' = Live!NoResume
        /\ liResume' \in [audio : Seq(Nat), triggers : Nat, ready : BOOLEAN]
    BY <1>1, <1>2 DEF Phases
  <2>. QED BY <1>1, <2>1, <2>2, LineCollects
<1>7. ToSet(liInput) = {LastTaken + 1} \cup ToSet(liInput')
      /\ LastTaken' = LastTaken + 1 /\ LastTaken \in Nat
  BY <1>1, LineShortens, LineFacts
<1>8. All \cup liLost \subseteq (All \cup liLost)'
  BY <1>1, <1>5, <1>7 DEF All, Taken
<1>9. \A k : k \in Unkept' => k \in Unkept
  BY <1>1, <1>8 DEF Unkept
<1>. QED BY <1>1, <1>6, <1>7, <1>9 DEF Retains

LEMMA LineConnects ==
  ASSUME LineInv, Live!Resumed \/ Live!Reconnected
  PROVE  LineInv' /\ Retains
<1>1. CASE Live!Resumed
  <2>1. /\ \/ liReplay' = liReplay \o liResume.audio /\ liLost' = liLost
           \/ liReplay' = liReplay /\ liLost' = liLost \cup ToSet(liResume.audio)
        /\ liPhase = "resuming" /\ liPhase' = "running" /\ liResume' = Live!NoResume
        /\ UNCHANGED <<liSaid, liSent, liInput, liPending>>
    BY <1>1 DEF Live!Resumed, Live!pipeline, Live!Range, ToSet
  <2>2. liPending = << >>
    BY <2>1 DEF LineInv
  <2>. QED BY <2>1, <2>2, LineReplays
<1>2. CASE Live!Reconnected
  <2>1. /\ \/ liReplay' = liReplay \o liPending /\ liLost' = liLost
           \/ liReplay' = liReplay /\ liLost' = liLost \cup ToSet(liPending)
        /\ liPhase = "reconnecting" /\ liPhase' = "running" /\ liPending' = << >>
        /\ UNCHANGED <<liSaid, liSent, liInput, liResume>>
    BY <1>2 DEF Live!Reconnected, Live!pipeline, Live!Range, ToSet
  <2>2. liResume = Live!NoResume /\ liResume.audio = << >>
    BY <2>1 DEF LineInv, Live!NoResume
  <2>. QED BY <2>1, <2>2, LineReplays
<1>. QED BY <1>1, <1>2

LEMMA LineMoves ==
  ASSUME LineInv, Live!LiveNext
  PROVE  LineInv' /\ (Retains \/ (Live!Collect /\ ~liResume'.ready))
<1>1. CASE Live!Stop \/ Live!Message \/ Live!StopSeen \/ Live!Resume \/ Live!BackoffEnds
           \/ Live!ReconnectFails \/ Live!TakeEvent \/ Live!SendEvent
  <2>1. /\ UNCHANGED <<liSaid, liInput, liReplay, liResume, liPending, liSent, liLost>>
        /\ \/ liPhase' = liPhase
           \/ liPhase = "running" /\ liPhase' = "draining"
           \/ liPhase \in {"suspended", "waiting"} /\ liPhase' = "resuming"
           \/ liPhase = "reconnecting" /\ liPhase' \in {"quiet", "reconnecting"}
    BY <1>1 DEF Live!Stop, Live!Message, Live!StopSeen, Live!Resume, Live!BackoffEnds,
                Live!ReconnectFails, Live!TakeEvent, Live!SendEvent, Live!pipeline,
                Live!connected, Live!buffers
  <2>2. liPhase' \in Phases
    BY <2>1 DEF LineInv, Phases
  <2>3. /\ liPhase' \in {"running", "draining", "over", "quiet", "reconnecting"} =>
             liResume = Live!NoResume
        /\ liPhase' \notin {"quiet", "reconnecting"} => liPending = << >>
    BY <2>1 DEF LineInv
  <2>. QED BY <2>1, <2>2, <2>3, LineStays
<1>2. CASE Live!Disconnect
  <2>1. CASE liStopped
    <3>1. Live!Ending /\ liPhase = "running" /\ UNCHANGED <<liSaid, liSent>>
      BY <1>2, <2>1 DEF Live!Disconnect, Live!pipeline
    <3>. QED BY <3>1, LineEnding
  <2>2. CASE ~liStopped
    <3>1. /\ liPhase = "running" /\ liPhase' \in {"quiet", "reconnecting"}
          /\ liPending' = << >> /\ UNCHANGED <<liSaid, liSent, liResume>>
          /\ \/ UNCHANGED <<liReplay, liInput, liLost>>
             \/ /\ liReplay \o liInput # << >> /\ Live!Taken
                /\ liLost' = liLost \cup {Live!NextChunk}
      BY <1>2, <2>2 DEF Live!Disconnect, Live!Broken, Live!pipeline
    <3>2. liPending = << >> /\ liResume = Live!NoResume
      BY <3>1 DEF LineInv
    <3>3. CASE UNCHANGED <<liReplay, liInput, liLost>>
      BY <3>1, <3>2, <3>3, LineStays DEF Phases
    <3>. QED BY <3>1, <3>3, LineDrops
  <2>. QED BY <2>1, <2>2
<1>3. CASE Live!CloseEnds
  <2>1. CASE liStopped /\ ~liResume.ready
    <3>1. Live!Ending /\ liPhase = "closing" /\ UNCHANGED <<liSaid, liSent>>
      BY <1>3, <2>1 DEF Live!CloseEnds, Live!pipeline
    <3>. QED BY <3>1, LineEnding
  <2>2. CASE ~(liStopped /\ ~liResume.ready)
    <3>1. /\ liPhase = "closing" /\ liPhase' = "suspended"
          /\ UNCHANGED <<liSaid, liInput, liReplay, liResume, liPending, liSent, liLost>>
      BY <1>3, <2>2 DEF Live!CloseEnds, Live!pipeline, Live!buffers
    <3>2. liPending = << >>
      BY <3>1 DEF LineInv
    <3>. QED BY <3>1, <3>2, LineStays DEF Phases
  <2>. QED BY <2>1, <2>2
<1>4. CASE Live!ResumeFails
  <2>1. CASE liStopped \/ ~Live!HasCapacity
    <3>1. Live!Ending /\ liPhase = "resuming" /\ UNCHANGED <<liSaid, liSent>>
      BY <1>4, <2>1 DEF Live!ResumeFails, Live!pipeline
    <3>. QED BY <3>1, LineEnding
  <2>2. CASE ~(liStopped \/ ~Live!HasCapacity)
    <3>1. /\ liPhase = "resuming" /\ liPhase' = "waiting"
          /\ UNCHANGED <<liSaid, liInput, liReplay, liResume, liPending, liSent, liLost>>
      BY <1>4, <2>2 DEF Live!ResumeFails, Live!pipeline, Live!buffers
    <3>2. liPending = << >>
      BY <3>1 DEF LineInv
    <3>. QED BY <3>1, <3>2, LineStays DEF Phases
  <2>. QED BY <2>1, <2>2
<1>5. CASE Live!StopWithout \/ Live!Over
  <2>1. Live!Drop /\ UNCHANGED <<liSaid, liSent>>
    BY <1>5 DEF Live!StopWithout, Live!Over, Live!pipeline
  <2>. QED BY <2>1, LineOver
<1>6. CASE Live!Take \/ Live!Drain
  <2>1. /\ liPhase \in {"running", "draining"} /\ liReplay \o liInput # << >> /\ Live!Taken
        /\ liSent' = Append(liSent, Live!NextChunk)
        /\ liPhase' = liPhase \/ liPhase' = "closing"
        /\ UNCHANGED <<liSaid, liResume, liPending, liLost>>
    BY <1>6 DEF Live!Take, Live!Drain, Live!pipeline, Live!buffers
  <2>. QED BY <2>1, LineSends
<1>7. CASE \/ Live!Say \/ Live!WaitEnds \/ Live!Collect \/ Live!Buffer \/ Live!Resumed
           \/ Live!Reconnected
  BY <1>7, LineSays, LineCollect, LineBuffer, LineConnects
<1>8. CASE Live!DrainEnds
  <2>1. Live!Ending /\ liPhase = "draining" /\ UNCHANGED <<liSaid, liSent>>
    BY <1>8 DEF Live!DrainEnds, Live!pipeline
  <2>. QED BY <2>1, LineEnding
<1>. QED BY <1>1, <1>2, <1>3, <1>4, <1>5, <1>6, <1>7, <1>8
         DEF Live!LiveNext, Live!Connects, Live!Works, Live!Listens

LEMMA LineStep ==
  ASSUME LineInv, Live!LiveNext \/ UNCHANGED live
  PROVE  LineInv'
<1>1. CASE UNCHANGED live
  <2>1. /\ LastTaken' = LastTaken /\ Taken' = Taken
    BY <1>1 DEF live, LastTaken, Taken
  <2>. QED BY <1>1, <2>1 DEF live, LineInv
<1>. QED BY <1>1, LineMoves

LEMMA LineStart ==
  ASSUME Live!LiveInit
  PROVE  LineInv
<1>1. /\ liSaid = 0 /\ liInput = << >> /\ liPhase = "running" /\ liReplay = << >>
      /\ liResume = Live!NoResume /\ liPending = << >> /\ liSent = << >>
  BY DEF Live!LiveInit
<1>2. /\ liResume.audio = << >>
      /\ liResume \in [audio : Seq(Nat), triggers : Nat, ready : BOOLEAN]
  BY <1>1 DEF Live!NoResume
<1>3. Taken = {}
  BY <1>1, <1>2, EmptySet DEF Taken
<1>4. liInput \in Seq(Nat) /\ Len(liInput) = 0
  BY <1>1
<1>. QED BY <1>1, <1>2, <1>3, <1>4, EmptySet DEF LineInv, Below, Phases

LEMMA LineInOrder ==
  ASSUME LineInv
  PROVE  Live!AudioInOrder
BY LineHeld DEF Ordered, Live!AudioInOrder

-----------------------------------------------------------------------------
(* LiveSession: nothing is given up without a reason                       *)

GivenInv ==
  /\ liFailures \in Nat
  /\ liPhase = "draining" => liStopped
  /\ liPhase \in {"quiet", "reconnecting"} => liFailures > 0
  /\ liPhase = "ending" => liStopped \/ liFailures > 0
  /\ Live!NothingIsGivenUp

LEMMA GivenStep ==
  ASSUME GivenInv, Live!LiveNext \/ UNCHANGED live
  PROVE  GivenInv'
<1>0. liFailures \in Nat /\ liFailures + 1 \in Nat /\ liFailures + 1 > 0
  BY DEF GivenInv
<1>1. CASE UNCHANGED live
  BY <1>1 DEF live, GivenInv, Live!NothingIsGivenUp
\* once it is stopped or has failed, anything goes
<1>2. ASSUME liKind' = liKind, liStopped => liStopped',
             \/ liStopped' /\ liFailures' \in {liFailures, liFailures + 1}
             \/ liFailures' = liFailures + 1,
             liPhase' = "draining" => liStopped',
             liPhase' \in {"quiet", "reconnecting"} => liFailures' > 0
      PROVE  GivenInv'
  BY <1>0, <1>2 DEF GivenInv, Live!NothingIsGivenUp
<1>3. ASSUME liKind' = liKind, liStopped => liStopped', liFailures' = liFailures,
             liKind \in {"plain", "openai"} /\ liFailures = 0 => liLost' = liLost,
             liPhase' = "draining" => liPhase = "draining",
             liPhase' \in {"quiet", "reconnecting"} =>
               liPhase \in {"quiet", "reconnecting"},
             liPhase' = "ending" => liPhase = "ending"
      PROVE  GivenInv'
  BY <1>0, <1>3 DEF GivenInv, Live!NothingIsGivenUp
<1>4. CASE \/ Live!Say \/ Live!TakeEvent \/ Live!SendEvent \/ Live!Message
           \/ Live!Resume \/ Live!BackoffEnds \/ Live!Take \/ Live!Drain
  <2>1. /\ UNCHANGED <<liKind, liStopped, liFailures, liLost>>
        /\ liPhase' \in {liPhase, "closing", "resuming"}
    BY <1>4 DEF Live!Say, Live!TakeEvent, Live!SendEvent, Live!Message, Live!Resume,
       Live!BackoffEnds, Live!Take, Live!Drain, Live!pipeline, Live!connected, Live!buffers
  <2>. QED BY <1>3, <2>1
<1>5. CASE Live!Stop \/ Live!StopSeen \/ Live!StopWithout
  <2>1. /\ liStopped' /\ liFailures' = liFailures /\ liKind' = liKind
        /\ liPhase' \in {liPhase, "draining", "over"}
    BY <1>5 DEF Live!Stop, Live!StopSeen, Live!StopWithout, Live!Drop, Live!pipeline
  <2>2. liPhase' \in {"quiet", "reconnecting"} => liFailures' > 0
    BY <2>1 DEF GivenInv
  <2>. QED BY <1>2, <2>1, <2>2
<1>6. CASE Live!Disconnect
  <2>1. /\ liFailures' = liFailures + 1 /\ liKind' = liKind /\ liStopped' = liStopped
        /\ liPhase' \in {"ending", "quiet", "reconnecting"}
    BY <1>6 DEF Live!Disconnect, Live!Fails, Live!Ending, Live!Broken, Live!pipeline
  <2>. QED BY <1>0, <1>2, <2>1
<1>7. CASE Live!ResumeFails \/ Live!ReconnectFails
  <2>1. /\ liFailures' = liFailures + 1 /\ liKind' = liKind /\ liStopped' = liStopped
        /\ liPhase' \in {"ending", "waiting", "quiet", "reconnecting"}
    BY <1>7 DEF Live!ResumeFails, Live!ReconnectFails, Live!Fails, Live!Ending,
       Live!pipeline
  <2>. QED BY <1>0, <1>2, <2>1
<1>8. CASE Live!DrainEnds
  <2>1. /\ liFailures' \in {liFailures, liFailures + 1} /\ liKind' = liKind
        /\ liStopped' = liStopped /\ liPhase' = "ending" /\ liPhase = "draining"
    BY <1>8 DEF Live!DrainEnds, Live!Fails, Live!Ending, Live!pipeline
  <2>2. liStopped'
    BY <2>1 DEF GivenInv
  <2>. QED BY <1>2, <2>1, <2>2
<1>9. CASE Live!CloseEnds
  <2>1. /\ liFailures' = liFailures /\ liKind' = liKind /\ liStopped' = liStopped
        /\ liLost' = liLost /\ liPhase' \in {"ending", "suspended"}
        /\ liStopped \/ liPhase' = "suspended"
    BY <1>9 DEF Live!CloseEnds, Live!Ending, Live!pipeline
  <2>2. CASE liStopped
    BY <1>2, <2>1, <2>2
  <2>3. CASE ~liStopped
    BY <1>3, <2>1, <2>3
  <2>. QED BY <2>2, <2>3
<1>10. CASE Live!Collect
  <2>. DEFINE t == Append(liResume.audio, Head(liInput))
              r == Live!Push(Head(liInput))
  <2>1. /\ liFailures' = liFailures /\ liKind' = liKind /\ liStopped' = liStopped
        /\ liPhase' = liPhase
        /\ liLost' = IF r.ready THEN liLost \cup (ToSet(t) \ ToSet(r.audio)) ELSE liLost
    BY <1>10 DEF Live!Collect, Live!pipeline, Live!Range, ToSet
  <2>2. r.ready /\ ~Live!Realtime => r.audio = t
    BY DEF Live!Push
  <2>. HIDE DEF r, t
  <2>3. liKind \in {"plain", "openai"} => liLost' = liLost
    BY <2>1, <2>2 DEF Live!Realtime
  <2>. QED BY <1>3, <2>1, <2>3
<1>11. CASE Live!Resumed
  <2>1. /\ liFailures' = liFailures /\ liKind' = liKind /\ liStopped' = liStopped
        /\ liPhase' = "running"
    BY <1>11 DEF Live!Resumed, Live!pipeline
  <2>2. PICK old \in {FALSE, Live!Realtime} :
          liLost' = IF old THEN liLost \cup Live!Range(liResume.audio) ELSE liLost
    BY <1>11 DEF Live!Resumed
  <2>3. Live!Realtime \/ liLost' = liLost
    <3>1. Live!Realtime \in BOOLEAN
      BY DEF Live!Realtime
    <3>2. CASE Live!Realtime
      BY <3>2
    <3>3. CASE ~Live!Realtime
      <4>1. old = FALSE
        BY <2>2, <3>1, <3>3
      <4>. QED BY <2>2, <4>1
    <3>. QED BY <3>2, <3>3
  <2>. QED BY <1>3, <2>1, <2>3 DEF Live!Realtime
<1>12. CASE Live!Buffer \/ Live!Reconnected
  <2>1. /\ liFailures' = liFailures /\ liKind' = liKind /\ liStopped' = liStopped
        /\ liPhase \in {"quiet", "reconnecting"}
        /\ liPhase' \in {"running", "quiet", "reconnecting"}
    BY <1>12 DEF Live!Buffer, Live!Reconnected, Live!pipeline
  <2>2. liFailures # 0
    BY <1>0, <2>1 DEF GivenInv
  <2>. QED BY <1>3, <2>1, <2>2
<1>13. CASE Live!WaitEnds
  <2>1. /\ UNCHANGED <<liKind, liFailures, liLost, liPhase>>
        /\ liStopped => liStopped'
    BY <1>13 DEF Live!WaitEnds
  <2>. QED BY <1>3, <2>1
<1>14. CASE Live!Over
  <2>1. /\ UNCHANGED <<liKind, liStopped, liFailures>>
        /\ liPhase = "ending" /\ liPhase' = "over"
    BY <1>14 DEF Live!Over, Live!Drop, Live!pipeline
  <2>2. liStopped \/ liFailures # 0
    BY <1>0, <2>1 DEF GivenInv
  <2>. QED BY <1>2, <1>3, <2>1, <2>2
<1>. QED BY <1>1, <1>4, <1>5, <1>6, <1>7, <1>8, <1>9, <1>10, <1>11, <1>12, <1>13, <1>14
         DEF Live!LiveNext, Live!Connects, Live!Works, Live!Listens

LEMMA GivenStart ==
  ASSUME Live!LiveInit
  PROVE  GivenInv
BY DEF Live!LiveInit, GivenInv, Live!NothingIsGivenUp

-----------------------------------------------------------------------------
(* LiveSession: what is spoken is kept                                     *)

(***************************************************************************)
(* What was forgotten lies behind what is collected and was not spoken.    *)
(* A suspended session that has not noticed speech has collected all of    *)
(* what was said last, and no two chunks of speech in a row among it.      *)
(***************************************************************************)
Collected ==
  /\ LastTaken - Len(liResume.audio) >= 0
  /\ \A i \in 1..Len(liResume.audio) :
       liResume.audio[i] = (LastTaken - Len(liResume.audio)) + i
  /\ \A j \in (LastTaken - Len(liResume.audio))..(LastTaken - 1) :
       ~(j \in Live!Heard /\ j + 1 \in Live!Heard)
  /\ LastTaken \in Live!Heard => liResume.triggers >= 1

KeptInv ==
  /\ liSpeech \in Talks
  /\ liPhase \in {"resuming", "waiting"} => liResume.ready
  /\ ~liHeldBack => \A k \in Unkept : ~Live!Spoken(k) /\ k + 2 <= LastTaken
  /\ ~liHeldBack /\ liPhase \in {"closing", "suspended"} =>
       /\ liReplay = << >>
       /\ ~liResume.ready => Collected

\* What is heard shrinks.
LEMMA HeardShrinks ==
  ASSUME liSpeech' = liSpeech, liLost \subseteq liLost'
  PROVE  /\ Live!Heard' \subseteq Live!Heard
         /\ \A k : Live!Spoken(k)' => Live!Spoken(k)
<1>1. Live!Heard' \subseteq Live!Heard
  BY DEF Live!Heard
<1>. QED BY <1>1 DEF Live!Spoken

LEMMA KeptSame ==
  ASSUME LineInv, LineInv', KeptInv, Retains, liSpeech' = liSpeech,
         liHeldBack => liHeldBack',
         liPhase' \in {"resuming", "waiting"} => liResume'.ready,
         ~liHeldBack' /\ liPhase' \in {"closing", "suspended"} =>
           liReplay' = << >> /\ (~liResume'.ready => Collected')
  PROVE  KeptInv'
<1>1. ASSUME ~liHeldBack', NEW k \in Unkept'
      PROVE  ~Live!Spoken(k)' /\ k + 2 <= LastTaken'
  <2>1. k \in Unkept /\ ~liHeldBack /\ LastTaken <= LastTaken'
    BY <1>1 DEF Retains
  <2>2. ~Live!Spoken(k) /\ k + 2 <= LastTaken
    BY <2>1 DEF KeptInv
  <2>3. ~Live!Spoken(k)'
    BY <2>2, HeardShrinks DEF Retains
  <2>4. LastTaken \in Nat /\ LastTaken' \in Nat /\ k \in Nat
    <3>1. LastTaken' \in Nat
      <4>1. liSaid' \in Nat /\ liInput' \in Seq(Nat) /\ Len(liInput') <= liSaid'
        BY DEF LineInv
      <4>2. Len(liInput') \in Nat
        BY <4>1
      <4>. QED BY <4>1, <4>2 DEF LastTaken
    <3>2. liSaid \in Nat
      BY DEF LineInv
    <3>. QED BY <2>1, <3>1, <3>2, LineFacts DEF Unkept
  <2>. QED BY <2>1, <2>2, <2>3, <2>4
<1>2. liSpeech' \in Talks
  BY DEF KeptInv
<1>. QED BY <1>1, <1>2 DEF KeptInv

LEMMA CollectedStays ==
  ASSUME Collected, liSpeech' = liSpeech, liLost \subseteq liLost',
         LastTaken' = LastTaken, liResume' = liResume
  PROVE  Collected'
<1>1. Live!Heard' \subseteq Live!Heard
  BY HeardShrinks
<1>. QED BY <1>1 DEF Collected

\* A connection is closed when what it sent last is silence.
LEMMA KeptTake ==
  ASSUME LineInv, LineInv', KeptInv, LiveInv, Retains, Live!Take
  PROVE  KeptInv'
<1>. DEFINE x == Live!NextChunk
            a == Live!Active(liActivity, x \in liSpeech)
<1>1. /\ liPhase = "running" /\ liReplay \o liInput # << >> /\ Live!Taken
      /\ liSent' = Append(liSent, x)
      /\ UNCHANGED <<liSpeech, liSaid, liResume, liPending, liLost>>
      /\ IF Live!Idle(a)
         THEN liPhase' = "closing" /\ liHeldBack' = (liHeldBack \/ liReplay' # << >>)
         ELSE liPhase' = liPhase /\ liHeldBack' = liHeldBack
  BY DEF Live!Take, Live!pipeline, Live!buffers
<1>2. liResume = Live!NoResume
  BY <1>1 DEF LineInv
<1>3. CASE ~Live!Idle(a)
  BY <1>1, <1>3, KeptSame
<1>4. CASE Live!Idle(a)
  <2>1. x \notin liSpeech
    <3>1. Long \in Nat \ {0}
      BY LiveBounds DEF Live!LiveAssumption
    <3>2. a.silent # 0
      BY <1>4, <3>1 DEF Live!Idle
    <3>. QED BY <3>2 DEF Live!Active
  <2>2. /\ x \in Nat /\ x <= LastTaken' /\ LastTaken \in Nat /\ LastTaken' \in Nat
        /\ \/ LastTaken' = LastTaken + 1 /\ x = LastTaken'
           \/ LastTaken' = LastTaken /\ liInput' = liInput
        /\ \A y \in ToSet(liSent) : y < x
        /\ ToSet(liReplay) \cup ToSet(liInput) =
             {x} \cup ToSet(liReplay') \cup ToSet(liInput')
    BY <1>1, LineTaken
  <2>. HIDE DEF x, a
  <2>3. ASSUME ~liHeldBack', LastTaken' \in Live!Heard PROVE FALSE
    <3>1. liReplay' = << >> /\ ~liHeldBack /\ LastTaken' \in liSpeech /\ LastTaken' \notin liLost
      BY <1>1, <1>4, <2>3 DEF Live!Heard
    <3>2. LastTaken' # x
      BY <2>1, <3>1
    <3>3. LastTaken' = LastTaken /\ liInput' = liInput
      BY <2>2, <3>2
    <3>4. LastTaken \notin All
      <4>1. ToSet(liResume.audio) = {} /\ ToSet(liPending) = {}
        BY <1>1, <1>2, EmptySet DEF LineInv, Live!NoResume
      <4>2. LastTaken \notin ToSet(liInput)
        BY <2>2, LineFacts
      <4>3. LastTaken \notin ToSet(liSent)
        BY <2>2, <3>3
      <4>4. LastTaken \notin ToSet(liReplay)
        BY <2>2, <3>1, <3>2, <3>3, <4>2, EmptySet
      <4>. QED BY <4>1, <4>2, <4>3, <4>4 DEF All, Taken
    <3>5. LastTaken \in 1..liSaid
      <4>1. LastTaken \in 1..MaxChunks
        BY <3>1, <3>3, LiveBounds DEF KeptInv, Live!LiveAssumption
      <4>2. LastTaken + Len(liInput) = liSaid /\ Len(liInput) \in Nat
        BY LineFacts
      <4>3. LastTaken # 0
        BY <2>2, <4>1, LiveBounds DEF Live!LiveAssumption
      <4>. QED BY <2>2, <4>2, <4>3
    <3>6. LastTaken + 2 <= LastTaken
      BY <3>1, <3>3, <3>4, <3>5 DEF KeptInv, Unkept
    <3>. QED BY <2>2, <3>6
  <2>4. ASSUME ~liHeldBack' PROVE liReplay' = << >> /\ Collected'
    <3>1. liReplay' = << >> /\ LastTaken' \notin Live!Heard'
      BY <1>1, <1>4, <2>3, <2>4 DEF Live!Heard
    <3>2. Len(liResume'.audio) = 0
      BY <1>1, <1>2 DEF Live!NoResume
    <3>3. /\ \A m \in Nat : m - 0 >= 0 /\ \A j \in (m - 0)..(m - 1) : FALSE
          /\ \A i \in 1..0 : FALSE
      OBVIOUS
    <3>. QED BY <2>2, <3>1, <3>2, <3>3 DEF Collected
  <2>5. liPhase' = "closing" /\ (liHeldBack => liHeldBack')
    BY <1>1, <1>4
  <2>. QED BY <1>1, <2>4, <2>5, KeptSame
<1>. QED BY <1>3, <1>4

\* A session that has not noticed speech collects what is said and forgets what
\* is old.
LEMMA KeptCollect ==
  ASSUME LineInv, LineInv', KeptInv, Live!Collect, ~liResume'.ready
  PROVE  KeptInv'
<1>. DEFINE x == Head(liInput)
            a == liResume.audio
            t == Append(a, x)
            r == Live!Push(x)
<1>1. /\ liPhase \in {"closing", "suspended", "resuming", "waiting"}
      /\ liInput # << >> /\ liInput' = Tail(liInput) /\ liResume' = r
      /\ liLost' = liLost
      /\ UNCHANGED <<liSpeech, liSaid, liSent, liReplay, liPhase, liPending, liHeldBack>>
  BY DEF Live!Collect, Live!pipeline, Live!connected
<1>2. /\ ~liResume.ready /\ r.audio = Live!Newest(t, PreRoll) /\ ~(r.triggers >= 2)
      /\ r.triggers = IF x \in liSpeech THEN liResume.triggers + 1 ELSE 0
  <2>1. ~r.ready
    BY <1>1
  <2>. QED BY <2>1 DEF Live!Push
<1>. HIDE DEF r
<1>3. /\ Ordered(a) /\ liResume.triggers \in Nat
  BY DEF LineInv
<1>4. PreRoll \in Nat /\ PreRoll >= 2
  BY LiveBounds DEF Live!LiveAssumption
<1>5. ToSet(a) \subseteq Taken
  BY DEF Taken
<1>. DEFINE L == LastTaken
            n == Len(a)
            u == r.audio
            d == Len(t) - Len(u)
<1>6. /\ x = L + 1
      /\ Len(t) = n + 1 /\ n \in Nat
      /\ t[n + 1] = L + 1 /\ \A i \in 1..n : t[i] = a[i]
      /\ ToSet(t) = ToSet(a) \cup {L + 1}
      /\ Ordered(t) /\ Ordered(u)
      /\ Len(u) = IF Len(t) > PreRoll THEN PreRoll ELSE Len(t)
      /\ \A i \in 1..Len(u) : u[i] = t[i + d] /\ i + d \in 1..Len(t)
  <2>. DEFINE w == Live!Newest(t, PreRoll)
  <2>1. liInput # << >> /\ u = w
    BY <1>1, <1>2
  <2>. HIDE DEF u
  <2>2. /\ x = L + 1
        /\ Len(t) = n + 1 /\ n \in Nat
        /\ t[n + 1] = L + 1 /\ \A i \in 1..n : t[i] = a[i]
        /\ ToSet(t) = ToSet(a) \cup {L + 1}
        /\ Ordered(t) /\ Ordered(w)
        /\ Len(w) = IF Len(t) > PreRoll THEN PreRoll ELSE Len(t)
        /\ \A i \in 1..Len(w) : /\ w[i] = t[i + (Len(t) - Len(w))]
                                /\ i + (Len(t) - Len(w)) \in 1..Len(t)
    <3>1. PreRoll \in Nat /\ Ordered(a) /\ liInput # << >>
      BY <1>3, <1>4, <2>1
    <3>. HIDE DEF a
    <3>. QED BY <1>5, <3>1, LineJoins
  <2>. HIDE DEF w, t, x, n
  <2>. QED BY <2>1, <2>2
<1>7. /\ LastTaken' = L + 1 /\ L \in Nat
      /\ ToSet(liInput) = {L + 1} \cup ToSet(liInput')
  BY <1>1, LineShortens, LineFacts
<1>. HIDE DEF t
<1>8. liPhase \in {"closing", "suspended"}
  BY <1>1, <1>2 DEF KeptInv
<1>9. ASSUME liHeldBack PROVE KeptInv'
  BY <1>1, <1>8, <1>9 DEF KeptInv
<1>10. ASSUME ~liHeldBack PROVE KeptInv'
  <2>1. /\ liReplay = << >> /\ L - n >= 0
        /\ \A i \in 1..n : a[i] = (L - n) + i
        /\ \A j \in (L - n)..(L - 1) : ~(j \in Live!Heard /\ j + 1 \in Live!Heard)
        /\ L \in Live!Heard => liResume.triggers >= 1
    BY <1>2, <1>8, <1>10 DEF KeptInv, Collected
  <2>2. Live!Heard' = Live!Heard
    BY <1>1 DEF Live!Heard
  <2>3. x \in Live!Heard => x \in liSpeech
    BY DEF Live!Heard
  <2>. HIDE DEF a, n, x
  <2>4. \A i \in 1..Len(t) : t[i] = (L - n) + i
    <3>1. ASSUME NEW i \in 1..Len(t) PROVE t[i] = (L - n) + i
      <4>1. CASE i = n + 1
        BY <1>6, <1>7, <4>1
      <4>2. CASE i # n + 1
        <5>1. i \in 1..n
          BY <1>6, <4>2
        <5>. QED BY <1>6, <2>1, <5>1
      <4>. QED BY <4>1, <4>2
    <3>. QED BY <3>1
  <2>5. ASSUME NEW j \in (L - n)..L PROVE ~(j \in Live!Heard /\ j + 1 \in Live!Heard)
    <3>1. CASE j = L
      <4>1. ASSUME L \in Live!Heard, L + 1 \in Live!Heard PROVE FALSE
        <5>1. r.triggers = liResume.triggers + 1 /\ liResume.triggers >= 1
          BY <1>2, <1>6, <2>1, <2>3, <4>1
        <5>. QED BY <1>2, <1>3, <5>1
      <4>. QED BY <3>1, <4>1
    <3>2. CASE j # L
      <4>1. j \in (L - n)..(L - 1)
        BY <1>6, <1>7, <3>2
      <4>. QED BY <2>1, <4>1
    <3>. QED BY <3>1, <3>2
  <2>6. /\ d \in Nat /\ Len(u) \in Nat /\ Len(u) = n + 1 - d
        /\ (L + 1) - Len(u) = (L - n) + d
        /\ d > 0 => Len(u) >= 2
    <3>1. Len(t) = n + 1 /\ n \in Nat
      BY <1>6
    <3>. HIDE DEF u
    <3>2. Len(u) = IF n + 1 > PreRoll THEN PreRoll ELSE n + 1
      BY <1>6, <3>1 DEF u
    <3>3. Len(u) \in Nat /\ n + 1 - Len(u) \in Nat
      BY <1>4, <3>1, <3>2
    <3>4. n + 1 - Len(u) > 0 => Len(u) >= 2
      BY <1>4, <3>1, <3>2
    <3>5. d = n + 1 - Len(u)
      BY <3>1
    <3>. HIDE DEF d
    <3>. QED BY <1>7, <3>1, <3>3, <3>4, <3>5
  <2>. HIDE DEF u
  <2>7. ASSUME NEW i \in 1..Len(u) PROVE u[i] = ((L + 1) - Len(u)) + i
    <3>1. u[i] = t[i + d] /\ i + d \in 1..Len(t)
      BY <1>6 DEF u
    <3>2. u[i] = (L - n) + (i + d)
      BY <2>4, <3>1
    <3>. HIDE DEF d
    <3>. QED BY <1>6, <1>7, <2>6, <3>2
  <2>. HIDE DEF d
  <2>8. Collected'
    <3>1. liResume'.audio = u /\ liResume'.triggers = r.triggers
      BY <1>1 DEF u
    <3>2. (L + 1) - Len(u) >= 0
      BY <1>6, <1>7, <2>1, <2>6
    <3>3. ASSUME NEW j \in ((L + 1) - Len(u))..((L + 1) - 1)
          PROVE  ~(j \in Live!Heard /\ j + 1 \in Live!Heard)
      <4>1. j \in (L - n)..L
        BY <1>6, <1>7, <2>6
      <4>. QED BY <2>5, <4>1
    <3>4. L + 1 \in Live!Heard => r.triggers >= 1
      BY <1>2, <1>3, <1>6, <2>3
    <3>. QED BY <1>7, <2>2, <2>7, <3>1, <3>2, <3>3, <3>4 DEF Collected
  <2>9. ASSUME NEW k \in Unkept' PROVE ~Live!Spoken(k)' /\ k + 2 <= L + 1
    <3>0. k \in 1..liSaid /\ liSaid \in Nat /\ k \in Nat
      <4>1. liSaid \in Nat /\ k \in 1..liSaid
        BY <1>1, <2>9 DEF Unkept, LineInv
      <4>. QED BY <4>1
    <3>1. CASE k \in Unkept
      <4>1. ~Live!Spoken(k) /\ k + 2 <= L
        BY <1>10, <3>1 DEF KeptInv
      <4>. QED BY <1>1, <1>7, <3>0, <4>1, HeardShrinks
    <3>2. CASE k \notin Unkept
      <4>1. k \in ToSet(t) /\ k \notin ToSet(u)
        <5>1. k \in All /\ k \notin All'
          BY <1>1, <2>9, <3>0, <3>2 DEF Unkept
        <5>. QED BY <1>1, <1>6, <1>7, <5>1 DEF All, Taken, u, a
      <4>2. PICK i \in 1..Len(t) : t[i] = k
        BY <1>6, <4>1, SetOf DEF Ordered
      <4>3. i <= d
        <5>1. ASSUME i > d PROVE FALSE
          <6>1. i - d \in 1..Len(u) /\ (i - d) + d = i
            BY <1>6, <2>6, <4>2, <5>1
          <6>2. u[i - d] = t[i]
            BY <1>6, <6>1 DEF u, d
          <6>. QED BY <1>6, <4>1, <4>2, <6>1, <6>2, SetOf DEF Ordered
        <5>. QED BY <2>6, <4>2, <5>1
      <4>4. k = (L - n) + i /\ i \in Nat /\ i >= 1
        BY <2>4, <4>2
      <4>5. k + 2 <= L + 1 /\ k - 1 \in (L - n)..L /\ k \in (L - n)..L
            /\ k + 1 \in (L - n)..L
        BY <1>6, <1>7, <2>1, <2>6, <4>3, <4>4
      <4>6. /\ ~(k - 1 \in Live!Heard /\ (k - 1) + 1 \in Live!Heard)
            /\ ~(k \in Live!Heard /\ k + 1 \in Live!Heard)
            /\ ~(k + 1 \in Live!Heard /\ (k + 1) + 1 \in Live!Heard)
        BY <2>5, <4>5
      <4>7. (k - 1) + 1 = k /\ (k + 1) + 1 = k + 2
        BY <3>0
      <4>8. ~Live!Spoken(k)
        BY <4>6, <4>7 DEF Live!Spoken
      <4>9. ~Live!Spoken(k)'
        BY <1>1, <4>8, HeardShrinks
      <4>. QED BY <4>5, <4>9
    <3>. QED BY <3>1, <3>2
  <2>. QED BY <1>1, <1>7, <1>8, <2>1, <2>8, <2>9 DEF KeptInv
<1>. QED BY <1>9, <1>10

LEMMA KeptStep ==
  ASSUME LineInv, LineInv', KeptInv, LiveInv, Live!LiveNext \/ UNCHANGED live
  PROVE  KeptInv'
<1>1. CASE UNCHANGED live
  <2>1. /\ LastTaken' = LastTaken /\ All' = All /\ LastTaken \in Nat
    BY <1>1, LineFacts DEF live, LastTaken, All, Taken
  <2>2. Retains
    BY <1>1, <2>1 DEF live, Retains, Unkept
  <2>3. ~liHeldBack' /\ liPhase' \in {"closing", "suspended"} =>
           liReplay' = << >> /\ (~liResume'.ready => Collected')
    BY <1>1, <2>1, CollectedStays DEF live, KeptInv
  <2>4. liSpeech' = liSpeech /\ liHeldBack' = liHeldBack
        /\ (liPhase' \in {"resuming", "waiting"} => liResume'.ready)
    BY <1>1 DEF live, KeptInv
  <2>. QED BY <2>2, <2>3, <2>4, KeptSame
<1>2. CASE Live!Take
  <2>1. Retains
    BY <1>2, LineMoves DEF Live!LiveNext, Live!Works, Live!Take, Live!Collect
  <2>. QED BY <1>2, <2>1, KeptTake
<1>3. CASE Live!Collect /\ ~liResume'.ready
  BY <1>3, KeptCollect
<1>4. ASSUME Live!LiveNext, ~Live!Take, ~(Live!Collect /\ ~liResume'.ready)
      PROVE  KeptInv'
  <2>1. Retains
    BY <1>4, LineMoves
  <2>2. liSpeech' = liSpeech /\ liHeldBack' = liHeldBack
    BY <1>4 DEF Live!LiveNext, Live!Connects, Live!Works, Live!Listens, Live!Say,
       Live!Stop, Live!Message, Live!WaitEnds, Live!TakeEvent, Live!SendEvent, Live!Over,
       Live!Disconnect, Live!StopSeen, Live!StopWithout, Live!Resumed,
       Live!ResumeFails, Live!Reconnected, Live!ReconnectFails, Live!Drain,
       Live!DrainEnds, Live!Collect, Live!CloseEnds, Live!Resume, Live!BackoffEnds,
       Live!Buffer, Live!pipeline, Live!connected
  <2>3. \/ liPhase' \notin {"resuming", "waiting", "closing", "suspended"}
        \/ liPhase' = "resuming" /\ liPhase = "suspended" /\ liResume.ready
             /\ liResume' = liResume
        \/ liPhase' \in {"resuming", "waiting"} /\ liPhase \in {"resuming", "waiting"}
             /\ liResume' = liResume
        \/ liPhase' = liPhase /\ liReplay' = liReplay /\ liResume'.ready
        \/ /\ liPhase' \in {"closing", "suspended"} /\ liPhase \in {"closing", "suspended"}
           /\ liReplay' = liReplay /\ liResume' = liResume
           /\ Live!Say \/ Live!WaitEnds \/ (liSaid' = liSaid /\ liInput' = liInput)
    <3>1. CASE \/ Live!Say \/ Live!Stop \/ Live!Message \/ Live!Listens
               \/ Live!SendEvent
      <4>1. /\ liPhase' = liPhase /\ liReplay' = liReplay /\ liResume' = liResume
            /\ Live!Say \/ Live!WaitEnds \/ (liSaid' = liSaid /\ liInput' = liInput)
        BY <3>1 DEF Live!Listens, Live!TakeEvent, Live!WaitEnds, Live!Say, Live!Stop,
           Live!Message, Live!SendEvent, Live!pipeline, Live!connected, Live!buffers
      <4>. QED BY <4>1
    <3>2. CASE \/ Live!Disconnect \/ Live!StopSeen \/ Live!Drain \/ Live!DrainEnds
               \/ Live!StopWithout \/ Live!Over \/ Live!Resumed \/ Live!Reconnected
               \/ Live!ReconnectFails \/ Live!Buffer
      <4>1. CASE Live!Buffer \/ Live!Drain
        BY <4>1 DEF Live!Buffer, Live!Drain
      <4>2. CASE Live!Disconnect
        BY <4>2 DEF Live!Disconnect, Live!Ending, Live!Broken
      <4>. QED BY <3>2, <4>1, <4>2
               DEF Live!StopSeen, Live!DrainEnds, Live!StopWithout, Live!Resumed,
                   Live!Reconnected, Live!ReconnectFails, Live!Over, Live!Drop, Live!Ending
    <3>3. CASE Live!ResumeFails \/ Live!BackoffEnds
      <4>1. \/ liPhase' = "ending"
            \/ liPhase' \in {"resuming", "waiting"} /\ liPhase \in {"resuming", "waiting"}
                 /\ liResume' = liResume
        BY <3>3 DEF Live!ResumeFails, Live!BackoffEnds, Live!Ending, Live!buffers
      <4>. QED BY <4>1
    <3>4. CASE Live!CloseEnds
      <4>1. \/ liPhase' = "ending"
            \/ /\ liPhase' = "suspended" /\ liPhase = "closing"
               /\ UNCHANGED <<liReplay, liResume, liSaid, liInput>>
        BY <3>4 DEF Live!CloseEnds, Live!Ending, Live!pipeline, Live!buffers
      <4>. QED BY <4>1
    <3>5. CASE Live!Resume
      BY <3>5 DEF Live!Resume, Live!buffers
    <3>6. CASE Live!Collect
      <4>1. liPhase' = liPhase /\ liReplay' = liReplay /\ liResume'.ready
        BY <1>4, <3>6 DEF Live!Collect, Live!connected
      <4>. QED BY <4>1
    <3>. QED BY <1>4, <3>1, <3>2, <3>3, <3>4, <3>5, <3>6
             DEF Live!LiveNext, Live!Connects, Live!Works
  <2>4. liPhase' \in {"resuming", "waiting"} => liResume'.ready
    BY <2>3 DEF KeptInv
  <2>5. ASSUME ~liHeldBack', liPhase' \in {"closing", "suspended"}
        PROVE  liReplay' = << >> /\ (~liResume'.ready => Collected')
    <3>1. /\ liPhase \in {"closing", "suspended"} /\ liReplay' = liReplay
          /\ \/ liResume'.ready
             \/ /\ liResume' = liResume
                /\ Live!Say \/ Live!WaitEnds \/ (liSaid' = liSaid /\ liInput' = liInput)
      BY <2>3, <2>5
    <3>2. liReplay = << >> /\ (~liResume.ready => Collected)
      BY <2>2, <2>5, <3>1 DEF KeptInv
    <3>3. ASSUME ~liResume'.ready PROVE Collected'
      <4>1. LastTaken' = LastTaken
        BY <3>1, <3>3, LineSays DEF LastTaken
      <4>2. liLost \subseteq liLost' /\ liResume' = liResume /\ Collected
        BY <2>1, <3>1, <3>2, <3>3 DEF Retains
      <4>. QED BY <2>2, <4>1, <4>2, CollectedStays
    <3>. QED BY <3>1, <3>2, <3>3
  <2>. QED BY <2>1, <2>2, <2>4, <2>5, KeptSame
<1>. QED BY <1>1, <1>2, <1>3, <1>4

LEMMA KeptStart ==
  ASSUME Live!LiveInit
  PROVE  KeptInv
<1>1. liSaid = 0 /\ liSpeech \in Talks /\ liPhase = "running"
  BY DEF Live!LiveInit
<1>2. Unkept = {}
  BY <1>1 DEF Unkept
<1>. QED BY <1>1, <1>2 DEF KeptInv

LEMMA LiveSpeechIsKept ==
  ASSUME LineInv, KeptInv
  PROVE  Live!SpeechIsKept
<1>1. Live!Range(Live!Held) = All
  BY LineHeld DEF Live!Range, ToSet
<1>. QED BY <1>1 DEF KeptInv, Unkept, Live!SpeechIsKept

-----------------------------------------------------------------------------
(* All of the work is accounted for                                        *)

WorkInv ==
  /\ TransInv /\ UploadInv
  /\ VisionInv /\ DeskInv /\ PanelInv
  /\ RecordInv
  /\ FeedInv /\ ErasedInv
  /\ LiveInv /\ LineInv /\ GivenInv /\ KeptInv

LEMMA WorkStart ==
  ASSUME MCInit
  PROVE  WorkInv
<1>1. Init /\ Upload!UploadInit /\ Vision!QuestionInit /\ Feed!FeedInit /\ Live!LiveInit
  BY DEF MCInit
<1>2. Audio!AudioInit \/ AudioOver
  BY DEF MCInit
<1>. QED BY <1>1, <1>2, TransStart, UploadStart, VisionStart, DeskStart, RecordStart,
            FeedStart, ErasedStart, LiveStart, LineStart, GivenStart, KeptStart
         DEF WorkInv

LEMMA WorkStep ==
  ASSUME WorkInv,
         [MCNext]_<<focus, vars, uploads, runtime, scans, questions, audio, feed,
                    live, stores>>
  PROVE  WorkInv'
<1>1. /\ Next \/ UNCHANGED vars
      /\ Upload!UploadNext \/ UNCHANGED uploads
      /\ Audio!AudioNext \/ UNCHANGED audio
  BY DEF MCNext
<1>2. /\ Vision!QuestionNext \/ UNCHANGED questions
      /\ Feed!FeedNext \/ UNCHANGED feed
      /\ Live!LiveNext \/ UNCHANGED live
  BY ServicesMove
<1>3. TransInv' /\ UploadInv' /\ RecordInv'
  BY <1>1, TransStep, UploadStep, RecordStep DEF WorkInv
<1>4. VisionInv' /\ DeskInv' /\ PanelInv'
  BY <1>2, VisionStep, DeskStep, PanelStep DEF WorkInv
<1>5. FeedInv' /\ ErasedInv'
  BY <1>2, FeedStep, ErasedStep DEF WorkInv
<1>6. LiveInv' /\ LineInv' /\ GivenInv'
  BY <1>2, LiveStep, LineStep, GivenStep DEF WorkInv
<1>7. KeptInv'
  BY <1>2, <1>6, KeptStep DEF WorkInv
<1>. QED BY <1>3, <1>4, <1>5, <1>6, <1>7 DEF WorkInv

\* All of the work is accounted for: a translation that is shown as done is
\* stored and one that is shown as running is worked on, outcomes of uploads
\* come once and in order, somebody works on a question that is shown as going
\* on, its audio is what was said, the window erases nothing, and sessions of
\* live translation send what was said in order, or give it up for a reason;
\* with any number of messages, uploads, questions, subtitles and chunks.
THEOREM WorkIsAccountedForHolds == MCSpec => []WorkIsAccountedFor
<1>1. MCInit => WorkInv
  BY WorkStart
<1>2. WorkInv /\ [MCNext]_<<focus, vars, uploads, runtime, scans, questions, audio,
                            feed, live, stores>> => WorkInv'
  BY WorkStep
<1>3. WorkInv => WorkIsAccountedFor
  <2>. SUFFICES ASSUME WorkInv PROVE WorkIsAccountedFor
    OBVIOUS
  <2>1. /\ CompletedIsStored /\ StartedIsWorkedOn
        /\ Upload!OutcomesInOrder /\ Upload!SpeechIsUploadedOnce
    BY TranslationsAccounted, UploadsInOrder DEF WorkInv
  <2>2. /\ Vision!BusyIsWorkedOn /\ Audio!QuestionIsWhole /\ Audio!SentWasSaid
        /\ Feed!NothingIsErased
    BY QuestionsAreWorkedOn, QuestionWasSaid, FeedErasesNothing DEF WorkInv, VisionInv
  <2>3. Live!AudioInOrder /\ Live!SpeechIsKept /\ Live!NothingIsGivenUp
    BY LineInOrder, LiveSpeechIsKept DEF WorkInv, GivenInv
  <2>. QED BY <2>1, <2>2, <2>3 DEF WorkIsAccountedFor
<1>. QED BY <1>1, <1>2, <1>3, PTL DEF MCSpec
=============================================================================
