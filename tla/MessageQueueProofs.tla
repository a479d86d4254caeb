------------------------- MODULE MessageQueueProofs -------------------------
(***************************************************************************)
(* Laws of the display-queue operations.  Keep is defined by recursion, so *)
(* its laws need induction; it is derived from the well-foundedness of <   *)
(* on the natural numbers, in a form the SMT solver can use.               *)
(***************************************************************************)
EXTENDS MessageQueue, SequencesExt, WellFoundedInduction, TLAPS

(***************************************************************************)
(* A nonempty set of natural numbers has a least element.                  *)
(***************************************************************************)
LEMMA LeastNat ==
  ASSUME NEW T, T \subseteq Nat, T # {}
  PROVE  \E n \in T : \A m \in T : n <= m
<1>1. IsWellFoundedOn(OpToRel(<, Nat), Nat)
  BY NatLessThanWellFounded
<1>2. PICK n \in T : \A m \in T : ~(<<m, n>> \in OpToRel(<, Nat))
  BY <1>1, WFMin
<1>3. \A m \in T : ~(m < n)
  BY <1>2 DEF OpToRel
<1>. QED BY <1>3

(***************************************************************************)
(* Induction on the natural numbers, for a set instead of a predicate.     *)
(***************************************************************************)
LEMMA NatInd ==
  ASSUME NEW T, 0 \in T, \A n \in Nat : n \in T => n+1 \in T
  PROVE  \A n \in Nat : n \in T
<1>. SUFFICES ASSUME Nat \ T # {} PROVE FALSE
  OBVIOUS
<1>1. PICK n \in Nat \ T : \A m \in Nat \ T : n <= m
  BY LeastNat
<1>2. n # 0 /\ n - 1 \in Nat /\ n-1 \notin Nat \ T
  BY <1>1
<1>. QED BY <1>1, <1>2

-----------------------------------------------------------------------------
(* Keep                                                                    *)

(***************************************************************************)
(* kept is the run of Keep's recursion over the first n elements of q.     *)
(***************************************************************************)
KeepRun(q, M, n, kept) ==
  kept = [i \in 0..n |->
            IF i = 0 THEN << >>
            ELSE IF q[i] \in M THEN Append(kept[i-1], q[i]) ELSE kept[i-1]]

\* The run of Keep exists up to every length: Keep is well defined.
LEMMA KeepRunExists ==
  ASSUME NEW q, NEW M, NEW n \in Nat
  PROVE  \E kept : KeepRun(q, M, n, kept)
<1>. DEFINE T == {k \in Nat : \E f : KeepRun(q, M, k, f)}
<1>1. 0 \in T
  <2>1. KeepRun(q, M, 0, [i \in 0..0 |-> << >>])
    BY DEF KeepRun
  <2>. QED BY <2>1
<1>2. ASSUME NEW k \in Nat, k \in T PROVE k+1 \in T
  <2>1. PICK f : KeepRun(q, M, k, f)
    BY <1>2
  <2>. DEFINE last == IF q[k+1] \in M THEN Append(f[k], q[k+1]) ELSE f[k]
              g == [i \in 0..k+1 |-> IF i = k+1 THEN last ELSE f[i]]
  <2>2. \A i \in 0..k : g[i] = f[i]
    OBVIOUS
  <2>3. \A i \in 0..k : f[i] = IF i = 0 THEN << >>
            ELSE IF q[i] \in M THEN Append(f[i-1], q[i]) ELSE f[i-1]
    BY <2>1 DEF KeepRun
  <2>4. ASSUME NEW i \in 0..k+1
        PROVE  g[i] = IF i = 0 THEN << >>
            ELSE IF q[i] \in M THEN Append(g[i-1], q[i]) ELSE g[i-1]
    <3>1. CASE i = k+1
      <4>1. g[i] = last /\ i # 0 /\ i-1 = k /\ k \in 0..k /\ g[k] = f[k]
        BY <3>1, <2>2
      <4>. QED BY <4>1, <3>1
    <3>2. CASE i \in 0..k
      <4>1. g[i] = f[i] /\ (i # 0 => g[i-1] = f[i-1])
        BY <3>2, <2>2
      <4>. QED BY <4>1, <3>2, <2>3
    <3>. QED BY <3>1, <3>2
  <2>5. KeepRun(q, M, k+1, g)
    <3>. DEFINE h == [i \in 0..k+1 |->
            IF i = 0 THEN << >>
            ELSE IF q[i] \in M THEN Append(g[i-1], q[i]) ELSE g[i-1]]
    <3>. SUFFICES g = h BY DEF KeepRun
    <3>1. \A i \in 0..k+1 : g[i] = h[i]
      BY <2>4
    <3>2. g = [i \in 0..k+1 |-> g[i]] /\ h = [i \in 0..k+1 |-> h[i]]
      OBVIOUS
    <3>. HIDE DEF g, h
    <3>. QED BY <3>1, <3>2
  <2>. HIDE DEF g
  <2>. QED BY <2>5
<1>3. \A k \in Nat : k \in T
  <2>. HIDE DEF T
  <2>. QED BY <1>1, <1>2, NatInd
<1>. QED BY <1>3

\* Keep(q, M) is the last value of such a run.
LEMMA KeepIsRun ==
  ASSUME NEW q, NEW M, Len(q) \in Nat
  PROVE  \E kept : KeepRun(q, M, Len(q), kept) /\ Keep(q, M) = kept[Len(q)]
<1>. DEFINE f == CHOOSE kept : KeepRun(q, M, Len(q), kept)
<1>1. KeepRun(q, M, Len(q), f)
  BY KeepRunExists
<1>2. Keep(q, M) = f[Len(q)]
  BY DEF Keep, KeepRun
<1>. QED BY <1>1, <1>2

(***************************************************************************)
(* g embeds r in the first n elements of q: it is increasing and reaches   *)
(* exactly the positions whose element is in M.                            *)
(***************************************************************************)
Embeds(g, r, q, n, M) ==
  /\ g \in [1..Len(r) -> 1..n]
  /\ \A j, k \in 1..Len(r) : j < k => g[j] < g[k]
  /\ \A k \in 1..Len(r) : r[k] = q[g[k]] /\ r[k] \in M
  /\ \A i \in 1..n : q[i] \in M => \E k \in 1..Len(r) : g[k] = i

\* Every prefix of a run is an order-preserving selection of q.
LEMMA RunEmbeds ==
  ASSUME NEW S, NEW q \in Seq(S), NEW M, NEW kept,
         KeepRun(q, M, Len(q), kept)
  PROVE  \A n \in 0..Len(q) :
           /\ kept[n] \in Seq(S) /\ Len(kept[n]) <= n
           /\ \E g : Embeds(g, kept[n], q, n, M)
<1>. DEFINE Good(n) == /\ kept[n] \in Seq(S) /\ Len(kept[n]) <= n
                      /\ \E g : Embeds(g, kept[n], q, n, M)
            T == {n \in Nat : n <= Len(q) => Good(n)}
<1>0. \A i \in 0..Len(q) : kept[i] = IF i = 0 THEN << >>
            ELSE IF q[i] \in M THEN Append(kept[i-1], q[i]) ELSE kept[i-1]
  BY DEF KeepRun
<1>len. Len(q) \in Nat
  OBVIOUS
<1>1. 0 \in T
  <2>1. kept[0] = << >>
    BY <1>0, <1>len
  <2>2. Embeds([k \in 1..0 |-> k], << >>, q, 0, M)
    BY DEF Embeds
  <2>3. << >> \in Seq(S) /\ Len(<< >>) = 0
    OBVIOUS
  <2>4. Good(0)
    BY <2>1, <2>2, <2>3
  <2>. QED BY <2>4
<1>2. ASSUME NEW n \in Nat, n \in T PROVE n+1 \in T
  <2>. SUFFICES ASSUME n+1 <= Len(q) PROVE Good(n+1)
    OBVIOUS
  <2>. DEFINE r == kept[n]
  <2>1. Good(n)
    BY <1>2
  <2>2. PICK g : Embeds(g, r, q, n, M)
    BY <2>1
  <2>3. r \in Seq(S) /\ Len(r) \in Nat /\ Len(r) <= n /\ q[n+1] \in S
    BY <2>1
  <2>4. CASE q[n+1] \in M
    <3>. DEFINE s == Append(r, q[n+1])
                h == [k \in 1..Len(r)+1 |-> IF k = Len(r)+1 THEN n+1 ELSE g[k]]
    <3>1. kept[n+1] = s
      <4>1. n+1 \in 0..Len(q) /\ n+1 # 0 /\ (n+1)-1 = n
        BY <1>len
      <4>. QED BY <4>1, <1>0, <2>4
    <3>2. s \in Seq(S) /\ Len(s) = Len(r)+1 /\ s[Len(r)+1] = q[n+1]
          /\ \A k \in 1..Len(r) : s[k] = r[k]
      BY <2>3
    <3>3. Embeds(h, s, q, n+1, M)
      <4>. HIDE DEF s, r
      <4>1. h \in [1..Len(s) -> 1..n+1]
        BY <3>2, <2>2, <2>3 DEF Embeds
      <4>2. \A j, k \in 1..Len(s) : j < k => h[j] < h[k]
        <5>. SUFFICES ASSUME NEW j \in 1..Len(s), NEW k \in 1..Len(s), j < k
                      PROVE  h[j] < h[k]
          OBVIOUS
        <5>1. j \in 1..Len(r) /\ h[j] = g[j] /\ g[j] \in 1..n
          <6>1. j \in 1..Len(r) /\ j # Len(r)+1 /\ j \in 1..Len(r)+1
            BY <3>2, <2>3
          <6>2. g[j] \in 1..n
            BY <6>1, <2>2 DEF Embeds
          <6>. QED BY <6>1, <6>2
        <5>2. CASE k = Len(r)+1
          BY <5>1, <5>2, <3>2, <2>3
        <5>3. CASE k \in 1..Len(r)
          BY <5>1, <5>3, <3>2, <2>2, <2>3 DEF Embeds
        <5>4. k = Len(r)+1 \/ k \in 1..Len(r)
          BY <3>2, <2>3
        <5>. QED BY <5>2, <5>3, <5>4
      <4>3. \A k \in 1..Len(s) : s[k] = q[h[k]] /\ s[k] \in M
        <5>1. \A k \in 1..Len(r) : s[k] = q[h[k]] /\ s[k] \in M
          <6>1. \A k \in 1..Len(r) : k \in 1..Len(r)+1 /\ k # Len(r)+1
            BY <2>3
          <6>2. \A k \in 1..Len(r) : r[k] = q[g[k]] /\ r[k] \in M
            BY <2>2 DEF Embeds
          <6>. QED BY <6>1, <6>2, <3>2
        <5>2. s[Len(r)+1] = q[h[Len(r)+1]] /\ s[Len(r)+1] \in M
          BY <3>2, <2>3, <2>4
        <5>3. \A k \in 1..Len(s) : k \in 1..Len(r) \/ k = Len(r)+1
          BY <3>2, <2>3
        <5>. QED BY <5>1, <5>2, <5>3
      <4>4. ASSUME NEW i \in 1..n+1, q[i] \in M
            PROVE  \E k \in 1..Len(s) : h[k] = i
        <5>1. CASE i = n+1
          <6>1. Len(r)+1 \in 1..Len(s) /\ h[Len(r)+1] = n+1
            BY <3>2, <2>3
          <6>. QED BY <5>1, <6>1
        <5>2. CASE i \in 1..n
          <6>1. PICK k \in 1..Len(r) : g[k] = i
            BY <5>2, <4>4, <2>2 DEF Embeds
          <6>2. k \in 1..Len(s) /\ h[k] = g[k]
            BY <3>2, <2>3
          <6>. QED BY <6>1, <6>2
        <5>3. i = n+1 \/ i \in 1..n
          OBVIOUS
        <5>. QED BY <5>1, <5>2, <5>3
      <4>. QED BY <4>1, <4>2, <4>3, <4>4 DEF Embeds
    <3>. QED BY <3>1, <3>2, <3>3, <2>3
  <2>5. CASE q[n+1] \notin M
    <3>1. kept[n+1] = r
      <4>1. n+1 \in 0..Len(q) /\ n+1 # 0 /\ (n+1)-1 = n
        BY <1>len
      <4>. QED BY <4>1, <1>0, <2>5
    <3>2. Embeds(g, r, q, n+1, M)
      <4>. HIDE DEF r
      <4>. QED BY <2>2, <2>3, <2>5 DEF Embeds
    <3>. QED BY <3>1, <3>2, <2>3
  <2>. QED BY <2>4, <2>5
<1>3. \A n \in Nat : n \in T
  <2>. HIDE DEF T
  <2>. QED BY <1>1, <1>2, NatInd
<1>. QED BY <1>3

(***************************************************************************)
(* What retain returns: a sequence over the same set, no longer than q,    *)
(* whose elements are those of q that are in M, in the order of q.         *)
(***************************************************************************)
THEOREM KeepProperties ==
  ASSUME NEW S, NEW q \in Seq(S), NEW M
  PROVE  /\ Keep(q, M) \in Seq(S)
         /\ Len(Keep(q, M)) <= Len(q)
         /\ \E g : Embeds(g, Keep(q, M), q, Len(q), M)
         /\ ToSet(Keep(q, M)) = ToSet(q) \cap M
<1>1. PICK kept : KeepRun(q, M, Len(q), kept) /\ Keep(q, M) = kept[Len(q)]
  BY KeepIsRun
<1>2. /\ Keep(q, M) \in Seq(S)
      /\ Len(Keep(q, M)) <= Len(q)
      /\ \E g : Embeds(g, Keep(q, M), q, Len(q), M)
  BY <1>1, RunEmbeds
<1>3. ToSet(Keep(q, M)) = ToSet(q) \cap M
  <2>. DEFINE r == Keep(q, M)
  <2>1. PICK g : Embeds(g, r, q, Len(q), M)
    BY <1>2
  <2>2. DOMAIN r = 1..Len(r) /\ DOMAIN q = 1..Len(q)
    BY <1>2
  <2>. HIDE DEF r
  <2>3. ToSet(r) \subseteq ToSet(q) \cap M
    BY <2>1, <2>2 DEF Embeds, ToSet
  <2>4. ASSUME NEW i \in 1..Len(q), q[i] \in M PROVE q[i] \in ToSet(r)
    <3>1. PICK k \in 1..Len(r) : g[k] = i
      BY <2>1, <2>4 DEF Embeds
    <3>. QED BY <3>1, <2>1, <2>2 DEF Embeds, ToSet
  <2>. QED BY <2>2, <2>3, <2>4 DEF r, ToSet
<1>. QED BY <1>2, <1>3

-----------------------------------------------------------------------------
(* position, insert and remove                                             *)

(***************************************************************************)
(* FirstIn is the first position of an element of M, or one past the end.  *)
(***************************************************************************)
LEMMA FirstInProperties ==
  ASSUME NEW S, NEW q \in Seq(S), NEW M
  PROVE  /\ FirstIn(q, M) \in 1..Len(q)+1
         /\ FirstIn(q, M) <= Len(q) => q[FirstIn(q, M)] \in M
         /\ \A j \in 1..FirstIn(q, M)-1 : q[j] \notin M
<1>. DEFINE T == {i \in 1..Len(q)+1 : i <= Len(q) => q[i] \in M}
<1>1. Len(q) \in Nat /\ Len(q)+1 \in T
  OBVIOUS
<1>2. PICK n \in T : \A m \in T : n <= m
  <2>. HIDE DEF T
  <2>1. T \subseteq Nat /\ T # {}
    BY <1>1 DEF T
  <2>. QED BY <2>1, LeastNat
<1>3. \A j \in 1..n-1 : q[j] \notin M
  BY <1>1, <1>2
<1>4. n \in 1..Len(q)+1 /\ (n <= Len(q) => q[n] \in M)
  OBVIOUS
<1>. QED BY <1>3, <1>4 DEF FirstIn

\* Length and elements of a concatenation.
LEMMA ConcatFacts ==
  ASSUME NEW S, NEW u \in Seq(S), NEW v \in Seq(S)
  PROVE  /\ u \o v \in Seq(S) /\ Len(u \o v) = Len(u) + Len(v)
         /\ \A j \in 1..Len(u)+Len(v) :
              (u \o v)[j] = IF j <= Len(u) THEN u[j] ELSE v[j-Len(u)]
  OBVIOUS

\* VecDeque::insert: elements before i stay, e is at i, the rest moves back.
LEMMA InsertAtProperties ==
  ASSUME NEW S, NEW q \in Seq(S), NEW e \in S, NEW i \in 1..Len(q)+1
  PROVE  /\ InsertAt(q, i, e) \in Seq(S)
         /\ Len(InsertAt(q, i, e)) = Len(q) + 1
         /\ \A j \in 1..Len(q)+1 :
              InsertAt(q, i, e)[j] = IF j < i THEN q[j]
                                     ELSE IF j = i THEN e ELSE q[j-1]
<1>. DEFINE a == SubSeq(q, 1, i-1)
            b == SubSeq(q, i, Len(q))
<1>1. a \in Seq(S) /\ Len(a) = i-1 /\ \A j \in 1..i-1 : a[j] = q[j]
  OBVIOUS
<1>2. /\ b \in Seq(S) /\ Len(b) = Len(q)-i+1
      /\ \A j \in 1..Len(q)-i+1 : b[j] = q[j+i-1]
  OBVIOUS
<1>3. /\ <<e>> \in Seq(S) /\ Len(<<e>>) = 1 /\ <<e>>[1] = e
  OBVIOUS
<1>. HIDE DEF a, b
<1>. DEFINE c == a \o <<e>>
<1>4. /\ c \in Seq(S) /\ Len(c) = i
      /\ \A j \in 1..i : c[j] = IF j < i THEN q[j] ELSE e
  BY <1>1, <1>3
<1>. HIDE DEF c
<1>5. /\ c \o b \in Seq(S) /\ Len(c \o b) = Len(q)+1
      /\ \A j \in 1..Len(q)+1 :
           (c \o b)[j] = IF j <= i THEN c[j] ELSE b[j-i]
  <2>1. /\ c \o b \in Seq(S) /\ Len(c \o b) = Len(c)+Len(b)
        /\ \A j \in 1..Len(c)+Len(b) :
             (c \o b)[j] = IF j <= Len(c) THEN c[j] ELSE b[j-Len(c)]
    BY <1>2, <1>4, ConcatFacts
  <2>2. Len(c) = i /\ Len(c)+Len(b) = Len(q)+1
    BY <1>2, <1>4
  <2>. QED BY <2>1, <2>2
<1>6. InsertAt(q, i, e) = c \o b
  BY DEF InsertAt, a, b, c
<1>. QED BY <1>2, <1>4, <1>5, <1>6

\* VecDeque::remove: elements before i stay, the rest moves forward.
LEMMA RemoveAtProperties ==
  ASSUME NEW S, NEW q \in Seq(S), NEW i \in 1..Len(q)
  PROVE  /\ RemoveAt(q, i) \in Seq(S)
         /\ Len(RemoveAt(q, i)) = Len(q) - 1
         /\ \A j \in 1..Len(q)-1 :
              RemoveAt(q, i)[j] = IF j < i THEN q[j] ELSE q[j+1]
<1>. DEFINE a == SubSeq(q, 1, i-1)
            b == SubSeq(q, i+1, Len(q))
<1>1. a \in Seq(S) /\ Len(a) = i-1 /\ \A j \in 1..i-1 : a[j] = q[j]
  OBVIOUS
<1>2. /\ b \in Seq(S) /\ Len(b) = Len(q)-i
      /\ \A j \in 1..Len(q)-i : b[j] = q[j+i]
  OBVIOUS
<1>. HIDE DEF a, b
<1>3. /\ a \o b \in Seq(S) /\ Len(a \o b) = Len(q)-1
      /\ \A j \in 1..Len(q)-1 :
           (a \o b)[j] = IF j <= i-1 THEN a[j] ELSE b[j-(i-1)]
  <2>1. /\ a \o b \in Seq(S) /\ Len(a \o b) = Len(a)+Len(b)
        /\ \A j \in 1..Len(a)+Len(b) :
             (a \o b)[j] = IF j <= Len(a) THEN a[j] ELSE b[j-Len(a)]
    BY <1>1, <1>2, ConcatFacts
  <2>2. Len(a) = i-1 /\ Len(a)+Len(b) = Len(q)-1
    BY <1>1, <1>2
  <2>. QED BY <2>1, <2>2
<1>4. RemoveAt(q, i) = a \o b
  BY DEF RemoveAt, a, b
<1>5. ASSUME NEW j \in 1..Len(q)-1
      PROVE  (a \o b)[j] = IF j < i THEN q[j] ELSE q[j+1]
  <2>1. CASE j <= i-1
    <3>1. j < i /\ a[j] = q[j] /\ (a \o b)[j] = a[j]
      BY <2>1, <1>1, <1>3
    <3>. QED BY <3>1
  <2>2. CASE ~(j <= i-1)
    <3>1. ~(j < i) /\ (a \o b)[j] = b[j-(i-1)] /\ j-(i-1) \in 1..Len(q)-i
      BY <2>2, <1>3
    <3>2. b[j-(i-1)] = q[j-(i-1)+i] /\ j-(i-1)+i = j+1
      BY <3>1, <1>2
    <3>. QED BY <3>1, <3>2
  <2>. QED BY <2>1, <2>2
<1>. QED BY <1>3, <1>4, <1>5
=============================================================================
