--------------------------- MODULE SequenceLemmas ---------------------------
(***************************************************************************)
(* Lemmas about natural numbers and sequences that the proofs share.       *)
(***************************************************************************)
EXTENDS Integers, Sequences, SequencesExt, SequenceTheorems, WellFoundedInduction, TLAPS

\* A nonempty set of naturals has a least element.
LEMMA LeastNatural ==
    ASSUME NEW S, S \subseteq Nat, S # {}
    PROVE  \E m \in S : \A k \in S : m <= k
<1> DEFINE R == OpToRel(<, Nat)
<1>1. ASSUME NEW k \in Nat, NEW m \in Nat, k < m PROVE <<k, m>> \in R
  BY <1>1, Zenon DEF OpToRel
<1> HIDE DEF R
<1>2. PICK m \in S : \A k \in S : ~ (<<k, m>> \in R)
  BY WFMin, NatLessThanWellFounded DEF R
<1>3. \A k \in S : ~ (k < m)
  BY <1>1, <1>2
<1> QED
  BY <1>3

\* What removing an element leaves of a sequence.
LEMMA RemoveAtSeq ==
    ASSUME NEW S, NEW s \in Seq(S), NEW i \in DOMAIN s
    PROVE  /\ RemoveAt(s, i) \in Seq(S)
           /\ Len(RemoveAt(s, i)) = Len(s) - 1
           /\ \A j \in DOMAIN RemoveAt(s, i) :
                  /\ IF j < i THEN j \in DOMAIN s ELSE j + 1 \in DOMAIN s
                  /\ RemoveAt(s, i)[j] = IF j < i THEN s[j] ELSE s[j + 1]
<1> DEFINE front == SubSeq(s, 1, i - 1)
           back  == SubSeq(s, i + 1, Len(s))
<1>1. i \in 1..Len(s) /\ Len(s) \in Nat /\ DOMAIN s = 1..Len(s) /\ \A j \in 1..Len(s) : s[j] \in S
  BY LenProperties
<1>2. /\ front \in Seq(S) /\ Len(front) = i - 1
      /\ \A j \in 1..(i - 1) : front[j] = s[j]
  <2>1. \A j \in 1..(i - 1) : s[j] \in S
    BY <1>1
  <2>2. i - 1 \in Int
    BY <1>1
  <2> HIDE DEF front
  <2>3. /\ SubSeq(s, 1, i - 1) \in Seq(S)
        /\ Len(SubSeq(s, 1, i - 1)) = IF 1 <= i - 1 THEN (i - 1) - 1 + 1 ELSE 0
        /\ \A j \in 1..((i - 1) - 1 + 1) : SubSeq(s, 1, i - 1)[j] = s[1 + j - 1]
    BY <2>1, <2>2, SubSeqProperties
  <2> QED
    BY <1>1, <2>3 DEF front
<1>3. /\ back \in Seq(S) /\ Len(back) = Len(s) - i
      /\ \A j \in 1..(Len(s) - i) : back[j] = s[i + j]
  <2>1. \A j \in (i + 1)..Len(s) : s[j] \in S
    BY <1>1
  <2>2. i + 1 \in Int /\ Len(s) \in Int
    BY <1>1
  <2>3. /\ SubSeq(s, i + 1, Len(s)) \in Seq(S)
        /\ Len(SubSeq(s, i + 1, Len(s))) = IF i + 1 <= Len(s) THEN Len(s) - (i + 1) + 1 ELSE 0
        /\ \A j \in 1..(Len(s) - (i + 1) + 1) : SubSeq(s, i + 1, Len(s))[j] = s[(i + 1) + j - 1]
    BY <2>1, <2>2, SubSeqProperties
  <2>4. back \in Seq(S)
    BY <2>3
  <2>5. Len(back) = Len(s) - i
    BY <1>1, <2>3
  <2>6. ASSUME NEW j \in 1..(Len(s) - i) PROVE back[j] = s[i + j]
    <3>1. j \in 1..(Len(s) - (i + 1) + 1) /\ (i + 1) + j - 1 = i + j
      BY <1>1, <2>6
    <3>2. back[j] = s[(i + 1) + j - 1]
      BY <2>3, <3>1
    <3> QED
      BY <3>1, <3>2
  <2> QED
    BY <2>4, <2>5, <2>6
<1> DEFINE r == front \o back
<1>4. RemoveAt(s, i) = r
  BY DEF RemoveAt
<1> HIDE DEF front, back
<1>5. /\ r \in Seq(S)
      /\ Len(r) = Len(front) + Len(back)
      /\ \A j \in 1..(Len(front) + Len(back)) :
             r[j] = IF j <= Len(front) THEN front[j] ELSE back[j - Len(front)]
  BY <1>2, <1>3, ConcatProperties
<1> HIDE DEF r
<1>6. Len(r) = Len(s) - 1 /\ DOMAIN r = 1..(Len(s) - 1)
  <2>1. Len(r) = Len(s) - 1
    BY <1>1, <1>2, <1>3, <1>5
  <2> QED
    BY <1>5, <2>1, LenProperties
<1>7. ASSUME NEW j \in 1..(Len(s) - 1)
      PROVE  r[j] = IF j < i THEN s[j] ELSE s[j + 1]
  <2>1. j \in Int /\ i \in Int /\ Len(s) \in Int
    BY <1>1, <1>7
  <2>2. CASE j < i
    <3>1. r[j] = front[j] /\ front[j] = s[j]
      BY <1>1, <1>2, <1>3, <1>5, <1>7, <2>2
    <3> QED
      BY <2>2, <3>1
  <2>3. CASE ~(j < i)
    <3>1. r[j] = back[j - (i - 1)]
      BY <1>1, <1>2, <1>3, <1>5, <1>7, <2>3
    <3>2. j - (i - 1) \in 1..(Len(s) - i) /\ i + (j - (i - 1)) = j + 1
      BY <1>1, <1>7, <2>3
    <3>3. back[j - (i - 1)] = s[j + 1]
      BY <1>3, <3>2
    <3> QED
      BY <2>3, <3>1, <3>3
  <2> QED
    BY <2>2, <2>3
<1>8. \A j \in DOMAIN r : IF j < i THEN j \in DOMAIN s ELSE j + 1 \in DOMAIN s
  BY <1>1, <1>6
<1> QED
  BY <1>4, <1>5, <1>6, <1>7, <1>8

\* Appending to a sequence.
LEMMA AppendSeq ==
    ASSUME NEW S, NEW s \in Seq(S), NEW e \in S
    PROVE  /\ Append(s, e) \in Seq(S)
           /\ \A j \in DOMAIN Append(s, e) : IF j \in DOMAIN s THEN Append(s, e)[j] = s[j]
                                           ELSE Append(s, e)[j] = e /\ j = Len(s) + 1
<1>1. /\ Append(s, e) \in Seq(S)
      /\ Len(Append(s, e)) = Len(s) + 1
      /\ \A j \in 1..Len(s) : Append(s, e)[j] = s[j]
      /\ Append(s, e)[Len(s) + 1] = e
  BY AppendProperties
<1>2. Len(s) \in Nat /\ DOMAIN s = 1..Len(s) /\ DOMAIN Append(s, e) = 1..(Len(s) + 1)
  BY <1>1, LenProperties
<1> QED
  BY <1>1, <1>2

\* The head of a sequence is its first element, the tail the others.
LEMMA HeadTailSeq ==
    ASSUME NEW S, NEW s \in Seq(S), s # <<>>
    PROVE  /\ Head(s) \in S /\ Tail(s) \in Seq(S)
           /\ 1 \in DOMAIN s /\ Head(s) = s[1]
           /\ \A j \in DOMAIN Tail(s) : j + 1 \in DOMAIN s /\ Tail(s)[j] = s[j + 1]
<1>1. /\ Head(s) \in S /\ Tail(s) \in Seq(S)
      /\ Len(Tail(s)) = Len(s) - 1
      /\ \A j \in 1..Len(Tail(s)) : Tail(s)[j] = s[j + 1]
  BY HeadTailProperties
<1>2. /\ Len(s) \in Nat /\ DOMAIN s = 1..Len(s)
      /\ Len(Tail(s)) \in Nat /\ DOMAIN Tail(s) = 1..Len(Tail(s))
  BY <1>1, LenProperties
<1>3. Head(s) = s[1]
  OBVIOUS
<1> QED
  BY <1>1, <1>2, <1>3

\* What is left after a removal was at another place before.
LEMMA RemoveAtElements ==
    ASSUME NEW S, NEW s \in Seq(S), NEW i \in DOMAIN s
    PROVE  \A j \in DOMAIN RemoveAt(s, i) : \E k \in DOMAIN s : k # i /\ RemoveAt(s, i)[j] = s[k]
<1>1. i \in Nat /\ DOMAIN s \subseteq Nat
  BY LenProperties
<1>2. DOMAIN RemoveAt(s, i) \subseteq Nat
  BY RemoveAtSeq, LenProperties
<1> QED
  BY <1>1, <1>2, RemoveAtSeq

\* Two places of what is left were two places before.
LEMMA RemoveAtInjective ==
    ASSUME NEW S, NEW s \in Seq(S), NEW i \in DOMAIN s,
           NEW j \in DOMAIN RemoveAt(s, i), NEW k \in DOMAIN RemoveAt(s, i)
    PROVE  \E a, b \in DOMAIN s :
               /\ a # i /\ b # i /\ (a = b => j = k)
               /\ RemoveAt(s, i)[j] = s[a] /\ RemoveAt(s, i)[k] = s[b]
<1>1. i \in Nat /\ j \in Nat /\ k \in Nat
  BY RemoveAtSeq, LenProperties
<1> DEFINE shift(n) == IF n < i THEN n ELSE n + 1
<1>2. /\ shift(j) \in DOMAIN s /\ RemoveAt(s, i)[j] = s[shift(j)]
      /\ shift(k) \in DOMAIN s /\ RemoveAt(s, i)[k] = s[shift(k)]
  BY RemoveAtSeq
<1>3. shift(j) # i /\ shift(k) # i /\ (shift(j) = shift(k) => j = k)
  BY <1>1
<1> QED
  BY <1>2, <1>3

\* What is in a sequence after an append was in it before, or is new.
LEMMA AppendElements ==
    ASSUME NEW S, NEW s \in Seq(S), NEW e \in S
    PROVE  \A j \in DOMAIN Append(s, e) :
               Append(s, e)[j] = e \/ \E k \in DOMAIN s : Append(s, e)[j] = s[k]
  BY AppendSeq

\* What a sequence over S holds is in S.
LEMMA SeqElement ==
    ASSUME NEW S, NEW s \in Seq(S), NEW i \in DOMAIN s
    PROVE  s[i] \in S
  BY LenProperties

\* A sequence cut after its first k elements.
LEMMA SplitSeq ==
    ASSUME NEW S, NEW s \in Seq(S), NEW k \in 0..Len(s)
    PROVE  /\ SubSeq(s, 1, k) \in Seq(S) /\ Len(SubSeq(s, 1, k)) = k
           /\ \A i \in 1..k : SubSeq(s, 1, k)[i] = s[i]
           /\ SubSeq(s, k + 1, Len(s)) \in Seq(S) /\ Len(SubSeq(s, k + 1, Len(s))) = Len(s) - k
           /\ \A i \in 1..(Len(s) - k) : SubSeq(s, k + 1, Len(s))[i] = s[k + i]
<1>1. Len(s) \in Nat /\ k \in Int /\ k + 1 \in Int /\ \A i \in 1..Len(s) : s[i] \in S
  BY LenProperties
<1>2. (\A i \in 1..k : s[i] \in S) /\ \A i \in (k + 1)..Len(s) : s[i] \in S
  BY <1>1
<1>3. /\ SubSeq(s, 1, k) \in Seq(S)
      /\ Len(SubSeq(s, 1, k)) = IF 1 <= k THEN k - 1 + 1 ELSE 0
      /\ \A i \in 1..(k - 1 + 1) : SubSeq(s, 1, k)[i] = s[1 + i - 1]
  BY <1>1, <1>2, SubSeqProperties
<1>4. /\ SubSeq(s, k + 1, Len(s)) \in Seq(S)
      /\ Len(SubSeq(s, k + 1, Len(s))) = IF k + 1 <= Len(s) THEN Len(s) - (k + 1) + 1 ELSE 0
      /\ \A i \in 1..(Len(s) - (k + 1) + 1) : SubSeq(s, k + 1, Len(s))[i] = s[(k + 1) + i - 1]
  BY <1>1, <1>2, SubSeqProperties
<1>5. Len(SubSeq(s, 1, k)) = k /\ Len(SubSeq(s, k + 1, Len(s))) = Len(s) - k
  BY <1>1, <1>3, <1>4
<1>6. ASSUME NEW i \in 1..k PROVE SubSeq(s, 1, k)[i] = s[i]
  <2>1. i \in 1..(k - 1 + 1) /\ 1 + i - 1 = i
    BY <1>1
  <2> QED
    BY <1>3, <2>1
<1>7. ASSUME NEW i \in 1..(Len(s) - k) PROVE SubSeq(s, k + 1, Len(s))[i] = s[k + i]
  <2>1. i \in 1..(Len(s) - (k + 1) + 1) /\ (k + 1) + i - 1 = k + i
    BY <1>1
  <2> QED
    BY <1>4, <2>1
<1> QED
  BY <1>3, <1>4, <1>5, <1>6, <1>7

\* What a concatenation holds.
LEMMA ConcatHolds ==
    ASSUME NEW S, NEW s \in Seq(S), NEW r \in Seq(S)
    PROVE  /\ s \o r \in Seq(S)
           /\ \A i \in DOMAIN s : \E j \in DOMAIN (s \o r) : (s \o r)[j] = s[i]
           /\ \A i \in DOMAIN r : \E j \in DOMAIN (s \o r) : (s \o r)[j] = r[i]
           /\ \A j \in DOMAIN (s \o r) :
                  \/ \E i \in DOMAIN s : (s \o r)[j] = s[i]
                  \/ \E i \in DOMAIN r : (s \o r)[j] = r[i]
<1> DEFINE c == s \o r
<1>1. /\ c \in Seq(S) /\ Len(c) = Len(s) + Len(r)
      /\ \A i \in 1..(Len(s) + Len(r)) : c[i] = IF i <= Len(s) THEN s[i] ELSE r[i - Len(s)]
  BY ConcatProperties
<1> HIDE DEF c
<1>2. /\ Len(s) \in Nat /\ Len(r) \in Nat
      /\ DOMAIN s = 1..Len(s) /\ DOMAIN r = 1..Len(r) /\ DOMAIN c = 1..(Len(s) + Len(r))
  BY <1>1, LenProperties
<1>3. ASSUME NEW i \in DOMAIN s PROVE i \in DOMAIN c /\ c[i] = s[i]
  BY <1>1, <1>2
<1>4. ASSUME NEW i \in DOMAIN r PROVE Len(s) + i \in DOMAIN c /\ c[Len(s) + i] = r[i]
  <2>1. Len(s) + i \in 1..(Len(s) + Len(r)) /\ ~(Len(s) + i <= Len(s)) /\ Len(s) + i - Len(s) = i
    BY <1>2
  <2> QED
    BY <1>1, <1>2, <2>1
<1>5. ASSUME NEW j \in DOMAIN c
      PROVE  (\E i \in DOMAIN s : c[j] = s[i]) \/ \E i \in DOMAIN r : c[j] = r[i]
  <2>1. CASE j <= Len(s)
    BY <1>1, <1>2, <2>1
  <2>2. CASE ~(j <= Len(s))
    <3>1. j - Len(s) \in DOMAIN r /\ c[j] = r[j - Len(s)]
      BY <1>1, <1>2, <2>2
    <3> QED
      BY <3>1
  <2> QED
    BY <2>1, <2>2
<1> QED
  BY <1>1, <1>3, <1>4, <1>5 DEF c

\* A property of the naturals that holds of 0 and of n + 1 whenever it holds of n:
\* the set of the numbers that have it is all of Nat.
LEMMA NatInductiveSet ==
    ASSUME NEW P, 0 \in P, \A n \in Nat : n \in P => n + 1 \in P
    PROVE  Nat \subseteq P
<1> SUFFICES ASSUME Nat \ P # {} PROVE FALSE
  OBVIOUS
<1>1. PICK m \in Nat \ P : \A k \in Nat \ P : m <= k
  BY LeastNatural
<1>2. m # 0 /\ m \in Nat
  BY <1>1
<1>3. m - 1 \in Nat /\ m - 1 \in P
  BY <1>1, <1>2
<1>4. (m - 1) + 1 \in P
  BY <1>3
<1> QED
  BY <1>1, <1>4

(* The recursion of FlattenSeq.                                            *)

FlatBody(ss, g, i) == IF i = 1 THEN ss[i] ELSE g[i - 1] \o ss[i]
IsFlat(ss, N, g) == g = [i \in 1..N |-> FlatBody(ss, g, i)]

LEMMA FlatStep ==
    ASSUME NEW ss, NEW g, NEW p \in Nat, p # 0
    PROVE  FlatBody(ss, g, p + 1) = g[p] \o ss[p + 1]
<1>1. p + 1 # 1 /\ p + 1 - 1 = p
  OBVIOUS
<1> DEFINE q == p + 1
<1>2. q # 1 /\ q - 1 = p
  BY <1>1
<1> HIDE DEF q
<1>3. FlatBody(ss, g, q) = g[q - 1] \o ss[q]
  BY <1>2, Zenon DEF FlatBody
<1>4. FlatBody(ss, g, q) = g[p] \o ss[q]
  BY <1>2, <1>3, Zenon
<1> QED
  BY <1>4 DEF q

LEMMA ConcatFrom ==
    ASSUME NEW T, NEW a \in Seq(T), NEW b \in Seq(T), NEW j \in DOMAIN (a \o b)
    PROVE  (\E i \in DOMAIN a : (a \o b)[j] = a[i]) \/ \E i \in DOMAIN b : (a \o b)[j] = b[i]
  BY ConcatHolds

LEMMA FlatExists ==
    ASSUME NEW ss, NEW N \in Nat
    PROVE  \E g : IsFlat(ss, N, g)
<1> DEFINE P == {n \in Nat : \E g : IsFlat(ss, n, g)}
<1>1. 0 \in P
  <2>1. IsFlat(ss, 0, [i \in 1..0 |-> 0])
    BY DEF IsFlat
  <2> QED
    BY <2>1
<1>2. ASSUME NEW n \in Nat, n \in P PROVE n + 1 \in P
  <2>1. PICK g : g = [k \in 1..n |-> FlatBody(ss, g, k)]
    BY <1>2 DEF IsFlat
  <2> DEFINE h == [k \in 1..(n + 1) |-> FlatBody(ss, g, k)]
  <2>2. ASSUME NEW k \in 1..(n + 1) PROVE FlatBody(ss, g, k) = FlatBody(ss, h, k)
    <3>1. CASE k = 1
      BY <3>1 DEF FlatBody
    <3>2. CASE k # 1
      <4>1. k - 1 \in 1..n /\ k - 1 \in 1..(n + 1)
        BY <3>2
      <4>2. g[k - 1] = FlatBody(ss, g, k - 1)
        BY <2>1, <4>1, Zenon
      <4>3. h[k - 1] = FlatBody(ss, g, k - 1)
        BY <4>1
      <4> QED
        BY <4>2, <4>3 DEF FlatBody
    <3> QED
      BY <3>1, <3>2
  <2>3. h = [k \in 1..(n + 1) |-> FlatBody(ss, h, k)]
    BY <2>2
  <2> HIDE DEF h
  <2>4. IsFlat(ss, n + 1, h)
    BY <2>3 DEF IsFlat
  <2> QED
    BY <2>4
<1>3. Nat \subseteq P
  <2> HIDE DEF P
  <2> QED BY <1>1, <1>2, NatInductiveSet
<1> QED
  BY <1>3

\* A flattened sequence holds what the sequences in it hold.
LEMMA FlattenHolds ==
    ASSUME NEW T, NEW ss \in Seq(Seq(T))
    PROVE  /\ FlattenSeq(ss) \in Seq(T)
           /\ \A i \in DOMAIN ss : \A k \in DOMAIN ss[i] :
                 \E n \in DOMAIN FlattenSeq(ss) : FlattenSeq(ss)[n] = ss[i][k]
           /\ \A n \in DOMAIN FlattenSeq(ss) :
                 \E i \in DOMAIN ss : \E k \in DOMAIN ss[i] : FlattenSeq(ss)[n] = ss[i][k]
<1> DEFINE g == CHOOSE g : IsFlat(ss, Len(ss), g)
<1>0. Len(ss) \in Nat /\ DOMAIN ss = 1..Len(ss) /\ \A i \in 1..Len(ss) : ss[i] \in Seq(T)
  BY LenProperties
<1>1. IsFlat(ss, Len(ss), g)
  BY <1>0, FlatExists, Zenon
<1>2. FlattenSeq(ss) = IF Len(ss) = 0 THEN ss ELSE g[Len(ss)]
  BY Zenon DEF FlattenSeq, IsFlat, FlatBody
<1> HIDE DEF g
<1>3. \A i \in 1..Len(ss) : g[i] = FlatBody(ss, g, i)
  BY <1>1, Zenon DEF IsFlat
<1> DEFINE Ok(n) ==
             /\ g[n] \in Seq(T)
             /\ \A i \in 1..n : \A k \in DOMAIN ss[i] : \E m \in DOMAIN g[n] : g[n][m] = ss[i][k]
             /\ \A m \in DOMAIN g[n] : \E i \in 1..n : \E k \in DOMAIN ss[i] : g[n][m] = ss[i][k]
           P == {n \in Nat : n + 1 <= Len(ss) => Ok(n + 1)}
<1>4. 0 \in P
  <2> HIDE DEF Ok
  <2> SUFFICES ASSUME 1 <= Len(ss) PROVE Ok(1)
    OBVIOUS
  <2> USE DEF Ok
  <2>1. 1 \in 1..Len(ss) /\ ss[1] \in Seq(T)
    BY <1>0
  <2>2. g[1] = ss[1]
    BY <1>3, <2>1 DEF FlatBody
  <2> QED
    BY <2>1, <2>2
<1>5. ASSUME NEW n \in Nat, n \in P PROVE n + 1 \in P
  <2> DEFINE p == n + 1
  <2> HIDE DEF Ok
  <2> SUFFICES ASSUME p + 1 <= Len(ss) PROVE Ok(p + 1)
    OBVIOUS
  <2> USE DEF Ok
  <2>1. /\ p \in Nat /\ p # 0 /\ p <= Len(ss) /\ p + 1 \in 1..Len(ss) /\ p + 1 # 1 /\ p + 1 - 1 = p
        /\ ss[p + 1] \in Seq(T)
    BY <1>0
  <2>2. Ok(p)
    BY <1>5, <2>1
  <2> HIDE DEF p
  <2> DEFINE a == g[p]
             b == ss[p + 1]
             c == g[p + 1]
  <2>3. c = a \o b /\ a \in Seq(T) /\ b \in Seq(T)
    <3>1. g[p + 1] = FlatBody(ss, g, p + 1)
      BY <1>3, <2>1, Zenon
    <3>2. c = a \o b
      BY <2>1, <3>1, FlatStep
    <3>3. a \in Seq(T) /\ b \in Seq(T)
      BY <2>1, <2>2, Zenon
    <3> QED
      BY <2>1, <3>2, <3>3, Zenon
  <2>4. /\ \A i \in 1..p : \A k \in DOMAIN ss[i] : \E m \in DOMAIN a : a[m] = ss[i][k]
        /\ \A m \in DOMAIN a : \E i \in 1..p : \E k \in DOMAIN ss[i] : a[m] = ss[i][k]
    BY <2>2
  <2> HIDE DEF a, b, c
  <2>5. /\ c \in Seq(T)
        /\ \A i \in DOMAIN a : \E j \in DOMAIN c : c[j] = a[i]
        /\ \A i \in DOMAIN b : \E j \in DOMAIN c : c[j] = b[i]
        /\ \A j \in DOMAIN c : (\E i \in DOMAIN a : c[j] = a[i]) \/ \E i \in DOMAIN b : c[j] = b[i]
    <3>1. a \in Seq(T) /\ b \in Seq(T)
      BY <2>3
    <3> DEFINE d == a \o b
    <3>2. d \in Seq(T) /\ \A i \in DOMAIN a : \E j \in DOMAIN d : d[j] = a[i]
      BY <3>1, ConcatHolds
    <3>3. \A i \in DOMAIN b : \E j \in DOMAIN d : d[j] = b[i]
      BY <3>1, ConcatHolds
    <3>4. ASSUME NEW j \in DOMAIN d
          PROVE  (\E i \in DOMAIN a : d[j] = a[i]) \/ \E i \in DOMAIN b : d[j] = b[i]
      BY <3>1, ConcatFrom
    <3>5. c = d
      BY <2>3
    <3> QED
      BY <3>2, <3>3, <3>4, <3>5, Zenon
  <2>6. \A i \in 1..(p + 1) : i \in 1..p \/ i = p + 1
    BY <2>1
  <2>7. \A i \in 1..(p + 1) : \A k \in DOMAIN ss[i] : \E m \in DOMAIN c : c[m] = ss[i][k]
    <3> SUFFICES ASSUME NEW i \in 1..(p + 1), NEW k \in DOMAIN ss[i]
                 PROVE  \E m \in DOMAIN c : c[m] = ss[i][k]
      OBVIOUS
    <3>1. CASE i = p + 1
      BY <2>5, <3>1 DEF b
    <3>2. CASE i \in 1..p
      <4>1. PICK m \in DOMAIN a : a[m] = ss[i][k]
        BY <2>4, <3>2
      <4> QED
        BY <2>5, <4>1
    <3> QED
      BY <2>6, <3>1, <3>2
  <2>8. \A m \in DOMAIN c : \E i \in 1..(p + 1) : \E k \in DOMAIN ss[i] : c[m] = ss[i][k]
    <3> SUFFICES ASSUME NEW m \in DOMAIN c
                 PROVE  \E i \in 1..(p + 1) : \E k \in DOMAIN ss[i] : c[m] = ss[i][k]
      OBVIOUS
    <3>1. CASE \E i \in DOMAIN a : c[m] = a[i]
      <4>1. PICK i \in 1..p : \E k \in DOMAIN ss[i] : c[m] = ss[i][k]
        BY <2>4, <3>1
      <4>2. i \in 1..(p + 1)
        BY <2>1
      <4> QED
        BY <4>1, <4>2
    <3>2. CASE \E i \in DOMAIN b : c[m] = b[i]
      <4>1. p + 1 \in 1..(p + 1)
        BY <2>1
      <4> QED
        BY <3>2, <4>1 DEF b
    <3> QED
      BY <2>5, <3>1, <3>2
  <2> QED
    BY <2>5, <2>7, <2>8 DEF c
<1>6. Nat \subseteq P
  <2> HIDE DEF P
  <2> QED BY <1>4, <1>5, NatInductiveSet
<1>7. CASE Len(ss) = 0
  <2>1. ss = <<>> /\ FlattenSeq(ss) = <<>>
    BY <1>2, <1>7, EmptySeq
  <2>2. DOMAIN FlattenSeq(ss) = {} /\ DOMAIN ss = {}
    BY <1>0, <1>7, <2>1
  <2>3. <<>> \in Seq(T)
    OBVIOUS
  <2> QED
    BY <2>1, <2>2, <2>3, Zenon
<1>8. CASE Len(ss) # 0
  <2>1. Len(ss) - 1 \in Nat /\ Len(ss) - 1 + 1 = Len(ss)
    BY <1>0, <1>8
  <2>2. Len(ss) - 1 \in P
    BY <1>6, <2>1
  <2>3. Ok(Len(ss))
    BY <1>0, <2>1, <2>2
  <2>4. FlattenSeq(ss) = g[Len(ss)]
    BY <1>2, <1>8
  <2>5. DOMAIN ss = 1..Len(ss)
    BY <1>0
  <2> DEFINE f == FlattenSeq(ss)
  <2>6. f = g[Len(ss)]
    BY <2>4
  <2> HIDE DEF f
  <2>7. f \in Seq(T)
    BY <2>3, <2>6
  <2>8. \A i \in DOMAIN ss : \A k \in DOMAIN ss[i] : \E n \in DOMAIN f : f[n] = ss[i][k]
    BY <2>3, <2>5, <2>6
  <2>9. \A n \in DOMAIN f : \E i \in DOMAIN ss : \E k \in DOMAIN ss[i] : f[n] = ss[i][k]
    <3>1. \A n \in DOMAIN g[Len(ss)] : \E i \in 1..Len(ss) : \E k \in DOMAIN ss[i] :
             g[Len(ss)][n] = ss[i][k]
      BY <2>3
    <3> QED
      BY <2>5, <2>6, <3>1
  <2> QED
    BY <2>7, <2>8, <2>9 DEF f
<1> QED
  BY <1>7, <1>8

\* Where the elements of a concatenation come from.
LEMMA ConcatParts ==
    ASSUME NEW S, NEW s \in Seq(S), NEW r \in Seq(S), NEW d, d = s \o r
    PROVE  /\ d \in Seq(S)
           /\ \A i \in DOMAIN s : i \in DOMAIN d /\ d[i] = s[i]
           /\ \A i \in DOMAIN r : \E j \in DOMAIN d : j = i + Len(s) /\ d[j] = r[i]
           /\ \A j \in DOMAIN d : \/ j \in DOMAIN s /\ d[j] = s[j]
                                  \/ \E i \in DOMAIN r : j = i + Len(s) /\ d[j] = r[i]
<1>1. /\ d \in Seq(S) /\ Len(d) = Len(s) + Len(r)
      /\ \A i \in 1..(Len(s) + Len(r)) : d[i] = IF i <= Len(s) THEN s[i] ELSE r[i - Len(s)]
  BY ConcatProperties
<1>2. /\ DOMAIN s = 1..Len(s) /\ DOMAIN r = 1..Len(r) /\ DOMAIN d = 1..(Len(s) + Len(r))
      /\ Len(s) \in Nat /\ Len(r) \in Nat
  BY <1>1, LenProperties
<1>3. ASSUME NEW i \in DOMAIN s PROVE i \in DOMAIN d /\ d[i] = s[i]
  BY <1>1, <1>2
<1>4. ASSUME NEW i \in DOMAIN r PROVE \E j \in DOMAIN d : j = i + Len(s) /\ d[j] = r[i]
  <2>1. i + Len(s) \in DOMAIN d /\ d[i + Len(s)] = r[i]
    BY <1>1, <1>2
  <2> QED
    BY <2>1
<1>5. ASSUME NEW j \in DOMAIN d
      PROVE  \/ j \in DOMAIN s /\ d[j] = s[j]
             \/ \E i \in DOMAIN r : j = i + Len(s) /\ d[j] = r[i]
  <2>1. CASE j <= Len(s)
    BY <1>1, <1>2, <2>1
  <2>2. CASE ~(j <= Len(s))
    <3>1. j - Len(s) \in DOMAIN r /\ j = (j - Len(s)) + Len(s) /\ d[j] = r[j - Len(s)]
      BY <1>1, <1>2, <2>2
    <3> QED
      BY <3>1
  <2> QED
    BY <2>1, <2>2
<1> QED
  BY <1>1, <1>3, <1>4, <1>5

\* What an event loop leaves: the head is taken, and r is added.
LEMMA TailConcatParts ==
    ASSUME NEW S, NEW s \in Seq(S), s # <<>>, NEW r \in Seq(S), NEW d, d = Tail(s) \o r
    PROVE  /\ d \in Seq(S)
           /\ 1 \in DOMAIN s /\ Head(s) = s[1] /\ Head(s) \in S
           /\ \A i \in DOMAIN s : i # 1 => \E j \in DOMAIN d : i = j + 1 /\ d[j] = s[i]
           /\ \A i \in DOMAIN r : \E j \in DOMAIN d : j = i + (Len(s) - 1) /\ d[j] = r[i]
           /\ \A j \in DOMAIN d : \/ j + 1 \in DOMAIN s /\ j + 1 # 1 /\ d[j] = s[j + 1]
                                  \/ \E i \in DOMAIN r : j = i + (Len(s) - 1) /\ d[j] = r[i]
<1> DEFINE t == Tail(s)
<1>1. /\ t \in Seq(S) /\ Len(t) = Len(s) - 1 /\ Head(s) \in S /\ Head(s) = s[1]
      /\ \A i \in 1..(Len(s) - 1) : t[i] = s[i + 1]
  BY HeadTailProperties
<1>2. /\ DOMAIN s = 1..Len(s) /\ DOMAIN t = 1..(Len(s) - 1) /\ Len(s) \in Nat /\ Len(s) # 0
  BY <1>1, LenProperties, EmptySeq
<1> HIDE DEF t
<1>3. d = t \o r
  BY DEF t
<1>4. /\ d \in Seq(S)
      /\ \A i \in DOMAIN t : i \in DOMAIN d /\ d[i] = t[i]
      /\ \A i \in DOMAIN r : \E j \in DOMAIN d : j = i + Len(t) /\ d[j] = r[i]
      /\ \A j \in DOMAIN d : \/ j \in DOMAIN t /\ d[j] = t[j]
                             \/ \E i \in DOMAIN r : j = i + Len(t) /\ d[j] = r[i]
  <2>1. d \in Seq(S) /\ \A i \in DOMAIN t : i \in DOMAIN d /\ d[i] = t[i]
    BY <1>1, <1>3, ConcatParts
  <2>2. \A i \in DOMAIN r : \E j \in DOMAIN d : j = i + Len(t) /\ d[j] = r[i]
    BY <1>1, <1>3, ConcatParts
  <2>3. \A j \in DOMAIN d : \/ j \in DOMAIN t /\ d[j] = t[j]
                            \/ \E i \in DOMAIN r : j = i + Len(t) /\ d[j] = r[i]
    BY <1>1, <1>3, ConcatParts
  <2> QED
    BY <2>1, <2>2, <2>3
<1>5. ASSUME NEW i \in DOMAIN s, i # 1 PROVE \E j \in DOMAIN d : i = j + 1 /\ d[j] = s[i]
  <2>1. i - 1 \in DOMAIN t /\ i = (i - 1) + 1 /\ t[i - 1] = s[i]
    BY <1>1, <1>2, <1>5
  <2> QED
    BY <1>4, <2>1
<1>6. ASSUME NEW j \in DOMAIN d
      PROVE  \/ j + 1 \in DOMAIN s /\ j + 1 # 1 /\ d[j] = s[j + 1]
             \/ \E i \in DOMAIN r : j = i + (Len(s) - 1) /\ d[j] = r[i]
  <2>1. CASE j \in DOMAIN t /\ d[j] = t[j]
    BY <1>1, <1>2, <2>1
  <2> QED
    BY <1>1, <1>4, <2>1
<1>7. 1 \in DOMAIN s
  BY <1>2
<1>8. \A i \in DOMAIN r : \E j \in DOMAIN d : j = i + (Len(s) - 1) /\ d[j] = r[i]
  BY <1>1, <1>4
<1>9. d \in Seq(S) /\ Head(s) = s[1] /\ Head(s) \in S
  BY <1>1, <1>4
<1> QED
  BY <1>5, <1>6, <1>7, <1>8, <1>9, Zenon

LEMMA AppendElement ==
    ASSUME NEW S, NEW s \in Seq(S), NEW e \in S, NEW d, d = Append(s, e)
    PROVE  /\ d \in Seq(S)
           /\ \A i \in DOMAIN s : i \in DOMAIN d /\ d[i] = s[i]
           /\ Len(s) + 1 \in DOMAIN d /\ d[Len(s) + 1] = e
           /\ \A i \in DOMAIN d : (i \in DOMAIN s /\ d[i] = s[i]) \/ (i = Len(s) + 1 /\ d[i] = e)
<1>1. /\ DOMAIN s = 1..Len(s) /\ Len(s) \in Nat
      /\ d \in Seq(S) /\ DOMAIN d = 1..(Len(s) + 1)
  BY LenProperties, AppendProperties
<1>2. (\A i \in 1..Len(s) : d[i] = s[i]) /\ d[Len(s) + 1] = e
  BY AppendProperties
<1> QED
  BY <1>1, <1>2

LEMMA ConcatOne ==
    ASSUME NEW S, NEW s \in Seq(S), NEW e \in S
    PROVE  s \o <<e>> = Append(s, e)
  OBVIOUS
=============================================================================
