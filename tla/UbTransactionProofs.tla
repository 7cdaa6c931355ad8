----------------------- MODULE UbTransactionProofs -----------------------
(***************************************************************************)
(* Proofs about the transaction layer.                                     *)
(***************************************************************************)
EXTENDS UbTransaction, SequenceLemmas, FiniteSetTheorems

(***************************************************************************)
(* Erasing from a vector.                                                  *)
(***************************************************************************)

\* The recursion of Without.
KeptBody(s, S, g, n) ==
    IF n = 0 THEN <<>> ELSE IF s[n] \in S THEN g[n - 1] ELSE Append(g[n - 1], s[n])

IsKept(s, S, N, g) == g = [n \in 0..N |-> KeptBody(s, S, g, n)]

LEMMA KeptExists ==
    ASSUME NEW s, NEW S, NEW N \in Nat
    PROVE  \E g : IsKept(s, S, N, g)
<1> DEFINE P == {n \in Nat : \E g : IsKept(s, S, n, g)}
<1>1. 0 \in P
  <2> DEFINE g == [n \in 0..0 |-> <<>>]
  <2>1. g = [n \in 0..0 |-> KeptBody(s, S, g, n)]
    BY DEF KeptBody
  <2> QED
    BY <2>1 DEF IsKept
<1>2. ASSUME NEW n \in Nat, n \in P PROVE n + 1 \in P
  <2>1. PICK g : g = [k \in 0..n |-> KeptBody(s, S, g, k)]
    BY <1>2 DEF IsKept
  <2> DEFINE h == [k \in 0..(n + 1) |-> KeptBody(s, S, g, k)]
  <2>2. ASSUME NEW k \in 0..(n + 1) PROVE KeptBody(s, S, g, k) = KeptBody(s, S, h, k)
    <3>1. CASE k = 0
      BY <3>1 DEF KeptBody
    <3>2. CASE k # 0
      <4>1. k - 1 \in 0..n /\ k - 1 \in 0..(n + 1)
        BY <3>2
      <4>2. g[k - 1] = KeptBody(s, S, g, k - 1)
        BY <2>1, <4>1, Zenon
      <4>3. h[k - 1] = KeptBody(s, S, g, k - 1)
        BY <4>1
      <4> QED
        BY <4>2, <4>3 DEF KeptBody
    <3> QED
      BY <3>1, <3>2
  <2>3. h = [k \in 0..(n + 1) |-> KeptBody(s, S, h, k)]
    BY <2>2
  <2> HIDE DEF h
  <2>4. IsKept(s, S, n + 1, h)
    BY <2>3 DEF IsKept
  <2> QED
    BY <2>4
<1>3. Nat \subseteq P
  <2> HIDE DEF P
  <2> QED BY <1>1, <1>2, NatInductiveSet
<1> QED
  BY <1>3

\* q is s without the elements of S: m says where the elements of q are in s.
IsErasure(q, s, S, m) ==
    /\ m \in [DOMAIN q -> DOMAIN s]
    /\ \A i, k \in DOMAIN q : i < k => m[i] < m[k]
    /\ \A i \in DOMAIN q : s[m[i]] \notin S /\ q[i] = s[m[i]]
    /\ \A n \in DOMAIN s : s[n] \notin S => \E i \in DOMAIN q : m[i] = n

\* What is left of a sequence, in the order it had.
LEMMA WithoutSeq ==
    ASSUME NEW T, NEW s \in Seq(T), NEW S, NEW q, q = Without(s, S)
    PROVE  /\ q \in Seq(T)
           /\ \E m : IsErasure(q, s, S, m)
<1> DEFINE g == CHOOSE g : IsKept(s, S, Len(s), g)
<1>0. Len(s) \in Nat /\ DOMAIN s = 1..Len(s) /\ \A i \in 1..Len(s) : s[i] \in T
  BY LenProperties
<1>1. IsKept(s, S, Len(s), g)
  BY <1>0, KeptExists, Zenon
<1>2. q = g[Len(s)]
  BY Zenon DEF Without, IsKept, KeptBody
<1> HIDE DEF g
<1>3. \A n \in 0..Len(s) : g[n] = KeptBody(s, S, g, n)
  BY <1>1, Zenon DEF IsKept
<1> DEFINE Map(n, m) ==
             /\ m \in [DOMAIN g[n] -> 1..n]
             /\ \A i, k \in DOMAIN g[n] : i < k => m[i] < m[k]
             /\ \A i \in DOMAIN g[n] : s[m[i]] \notin S /\ g[n][i] = s[m[i]]
             /\ \A k \in 1..n : s[k] \notin S => \E i \in DOMAIN g[n] : m[i] = k
           Ok(n) == g[n] \in Seq(T) /\ \E m : Map(n, m)
           P == {n \in Nat : n <= Len(s) => Ok(n)}
<1>4. 0 \in P
  <2>1. g[0] = <<>>
    BY <1>0, <1>3 DEF KeptBody
  <2>2. g[0] \in Seq(T) /\ DOMAIN g[0] = {}
    BY <2>1
  <2>3. Map(0, <<>>)
    BY <2>1, <2>2
  <2> QED
    BY <2>2, <2>3
<1>5. ASSUME NEW n \in Nat, n \in P PROVE n + 1 \in P
  <2> SUFFICES ASSUME n + 1 <= Len(s) PROVE Ok(n + 1)
    OBVIOUS
  <2>1. n \in 0..Len(s) /\ n + 1 \in 0..Len(s) /\ n + 1 \in 1..Len(s) /\ n <= Len(s)
    BY <1>0
  <2>2. Ok(n)
    BY <1>5, <2>1
  <2>3. g[n] \in Seq(T)
    BY <2>2
  <2>4. PICK m : Map(n, m)
    BY <2>2
  <2>5. g[n + 1] = IF s[n + 1] \in S THEN g[n] ELSE Append(g[n], s[n + 1])
    BY <1>3, <2>1 DEF KeptBody
  <2>6. CASE s[n + 1] \in S
    <3>1. g[n + 1] = g[n]
      BY <2>5, <2>6
    <3>2. Map(n + 1, m)
      BY <2>4, <2>6, <3>1
    <3> QED
      BY <2>3, <3>1, <3>2
  <2>7. CASE s[n + 1] \notin S
    <3> DEFINE r == g[n]
               h == g[n + 1]
    <3>1. /\ h \in Seq(T) /\ Len(r) \in Nat /\ DOMAIN r = 1..Len(r) /\ DOMAIN h = 1..(Len(r) + 1)
          /\ \A i \in 1..Len(r) : h[i] = r[i]
          /\ h[Len(r) + 1] = s[n + 1]
      <4>1. s[n + 1] \in T /\ h = Append(r, s[n + 1])
        BY <1>0, <2>1, <2>5, <2>7
      <4> QED
        BY <2>3, <4>1, AppendProperties, LenProperties
    <3> DEFINE m2 == [i \in DOMAIN h |-> IF i \in DOMAIN r THEN m[i] ELSE n + 1]
    <3>2. /\ m \in [DOMAIN r -> 1..n]
          /\ \A i, k \in DOMAIN r : i < k => m[i] < m[k]
          /\ \A i \in DOMAIN r : s[m[i]] \notin S /\ r[i] = s[m[i]]
          /\ \A k \in 1..n : s[k] \notin S => \E i \in DOMAIN r : m[i] = k
      BY <2>4
    <3> HIDE DEF r, h
    <3>3. m2 \in [DOMAIN h -> 1..(n + 1)]
      BY <3>1, <3>2
    <3>4. \A i, k \in DOMAIN h : i < k => m2[i] < m2[k]
      BY <3>1, <3>2
    <3>5. \A i \in DOMAIN h : s[m2[i]] \notin S /\ h[i] = s[m2[i]]
      BY <2>7, <3>1, <3>2
    <3>6. \A k \in 1..(n + 1) : s[k] \notin S => \E i \in DOMAIN h : m2[i] = k
      <4> SUFFICES ASSUME NEW k \in 1..(n + 1), s[k] \notin S PROVE \E i \in DOMAIN h : m2[i] = k
        OBVIOUS
      <4>1. CASE k = n + 1
        <5>1. Len(r) + 1 \in DOMAIN h /\ m2[Len(r) + 1] = n + 1
          BY <3>1
        <5> QED
          BY <4>1, <5>1
      <4>2. CASE k \in 1..n
        <5>1. PICK i \in DOMAIN r : m[i] = k
          BY <3>2, <4>2
        <5>2. i \in DOMAIN h /\ m2[i] = k
          BY <3>1, <5>1
        <5> QED
          BY <5>2
      <4> QED
        BY <4>1, <4>2
    <3>7. Map(n + 1, m2)
      BY <3>3, <3>4, <3>5, <3>6 DEF h
    <3> HIDE DEF Map, m2
    <3>8. \E m1 : Map(n + 1, m1)
      BY <3>7
    <3> QED
      BY <3>1, <3>8 DEF h
  <2> QED
    BY <2>6, <2>7
<1>6. Nat \subseteq P
  <2> HIDE DEF P
  <2> QED BY <1>4, <1>5, NatInductiveSet
<1>7. Ok(Len(s))
  BY <1>0, <1>6
<1>8. PICK m : Map(Len(s), m)
  BY <1>7
<1>9. IsErasure(q, s, S, m)
  BY <1>0, <1>2, <1>8 DEF IsErasure
<1>10. q \in Seq(T)
  BY <1>2, <1>7
<1> QED
  BY <1>9, <1>10
(***************************************************************************)
(* The inductive invariant.                                                *)
(***************************************************************************)

End(w) == w.start + w.size

\* SSN x is in the range of a WQE.
Covers(w, x) == w.start <= x /\ x < End(w)

\* The WQEs of a jetty are in the order of their ids and of their SSN ranges;
\* what is not among them any more is acknowledged.
WqesOK(j) ==
    /\ \A i \in DOMAIN wqes[j] :
           /\ wqes[j][i].id < msnCnt[j] /\ End(wqes[j][i]) <= ssnCnt[j]
           /\ wqes[j][i].canSend => wqes[j][i].sent > 0
    /\ \A i, k \in DOMAIN wqes[j] :
           i < k => wqes[j][i].id < wqes[j][k].id /\ End(wqes[j][i]) <= wqes[j][k].start
    /\ \A x \in Nat :
           sndUna[j] <= x /\ x < ssnCnt[j] => \E i \in DOMAIN wqes[j] : Covers(wqes[j][i], x)

\* m_jettyOrderedWqe holds the ids of the RO and SO WQEs, in order.
OrderedOK(j) ==
    /\ \A i, k \in DOMAIN ordered[j] : i < k => ordered[j][i] < ordered[j][k]
    /\ \A i \in DOMAIN ordered[j] :
           \E k \in DOMAIN wqes[j] : wqes[j][k].order # "NO" /\ wqes[j][k].id = ordered[j][i]
    /\ \A k \in DOMAIN wqes[j] :
           wqes[j][k].order # "NO" => \E i \in DOMAIN ordered[j] : ordered[j][i] = wqes[j][k].id

\* StrongOrder, of one jetty.
StrongOrderOf(j) ==
    \A i, k \in DOMAIN wqes[j] :
        k < i /\ wqes[j][i].order = "SO" /\ wqes[j][k].order # "NO" => wqes[j][i].sent = 0

\* What is acknowledged was sent.
WindowOK(j) ==
    /\ sndUna[j] <= sndNxt[j]
    /\ \A b \in acked[j] : sndUna[j] + b < sndNxt[j]

JettyInv == \A j \in Jetties : WqesOK(j) /\ OrderedOK(j) /\ StrongOrderOf(j) /\ WindowOK(j)

\* The orders that let no WQE of a jetty overtake another: one behind an SO WQE
\* that waits can only be an SO WQE.
NoneOvertakes == MaxWqes <= 2 \/ "SO" \notin Orders \/ Orders \subseteq {"SO"}

\* Then WQEs are sent in the order of their SSN ranges.
SentInOrder ==
    \A j \in Jetties :
        /\ sndNxt[j] <= ssnCnt[j]
        /\ \A i \in DOMAIN wqes[j] : wqes[j][i].order \in Orders
        /\ \A i \in DOMAIN wqes[j] :
               LET w == wqes[j][i]
               IN  w.sent = IF sndNxt[j] <= w.start THEN 0
                            ELSE IF sndNxt[j] >= End(w) THEN w.size ELSE sndNxt[j] - w.start

\* A segment without its number, and with its channel.
Info(t, s) == [tp |-> t, jetty |-> s.jetty, wqe |-> s.wqe, ssn |-> s.ssn]

InfoSet == [tp : Tps, jetty : Jetties, wqe : Nat, ssn : Nat]

\* The segments in the vectors v and in the finish events of e.
UncompletedIn(v, e) ==
    {c \in InfoSet : \/ \E i \in DOMAIN v[c.tp] : Info(c.tp, v[c.tp][i]) = c
                     \/ \E k \in DOMAIN e : e[k].kind = "finish" /\ Info(e[k].tp, e[k].seg) = c}

\* The segments that were taken and are not complete.
Uncompleted == UncompletedIn(vec, events)

SameSsn(s, r) == s.jetty = r.jetty /\ s.ssn = r.ssn

\* No SSN of a jetty is at two places of the vectors v and the events e.
DistinctIn(v, e) ==
    /\ \A t, u \in Tps : \A i \in DOMAIN v[t], k \in DOMAIN v[u] :
           SameSsn(v[t][i], v[u][k]) => t = u /\ i = k
    /\ \A i, k \in DOMAIN e :
           e[i].kind = "finish" /\ e[k].kind = "finish" /\ SameSsn(e[i].seg, e[k].seg) => i = k
    /\ \A t \in Tps : \A i \in DOMAIN v[t], k \in DOMAIN e :
           e[k].kind = "finish" => ~SameSsn(v[t][i], e[k].seg)

Distinct == DistinctIn(vec, events)

\* The SSN x of jetty j is acknowledged.
Complete(j, x) == x < sndUna[j] \/ x - sndUna[j] \in acked[j]

SegmentsOK ==
    /\ \A c \in Uncompleted : c.ssn < sndNxt[c.jetty] /\ ~Complete(c.jetty, c.ssn)
    /\ \A j \in Jetties : \A x \in Nat :
           x < sndNxt[j] /\ ~Complete(j, x) => \E c \in Uncompleted : c.jetty = j /\ c.ssn = x

\* A segment belongs to the WQE whose SSN range it is in.
OwnersOK ==
    \A c \in Uncompleted :
        /\ c.wqe < msnCnt[c.jetty]
        /\ \A i \in DOMAIN wqes[c.jetty] :
               LET w == wqes[c.jetty][i]
               IN  w.id = c.wqe <=> w.start <= c.ssn /\ c.ssn < End(w)

\* Bindings are two-sided, the jetty of a segment is bound to its channel, and a
\* channel that is gone has no jetty.
BindingsOK ==
    /\ \A j \in Jetties : msnCnt[j] <= MaxWqes /\ (msnCnt[j] = 0 => group[j] = <<>>)
    /\ \A j \in Jetties : group[j] = <<>> \/ group[j] = Paths[j]
    /\ \A t \in Tps : \A i \in DOMAIN related[t] :
           \E k \in DOMAIN group[related[t][i]] : group[related[t][i]][k] = t
    /\ \A c \in Uncompleted : \E i \in DOMAIN related[c.tp] : related[c.tp][i] = c.jetty
    /\ \A t \in Tps : ~exists[t] => related[t] = <<>>

SegmentInv ==
    Distinct /\ SegmentsOK /\ BindingsOK /\ (NoneOvertakes => SentInOrder /\ OwnersOK)

\* A round that begins resets a flag only when the finish event that will do so
\* again is pending; a channel that nobody will ask is full, and asks when it has
\* room again.
RoundsOK ==
    \A t \in Tps :
        /\ scheduling[t] => Pending("finish", t)
        /\ exists[t] /\ Turns(t) # {} =>
               \/ Pending("schedule", t) \/ Pending("finish", t)
               \/ full[t] /\ (IsWqeSegmentLimited(vec[t]) \/ (acking # <<>> /\ acking[1] = t))

(***************************************************************************)
(* Types.                                                                  *)
(***************************************************************************)

\* The parts of an event.
LEMMA EventParts ==
    ASSUME NEW e \in Event
    PROVE  /\ e.kind \in {"schedule", "finish"} /\ e.tp \in Tps
           /\ e.kind = "finish" => e.seg \in Segment
           /\ e.kind = "schedule" => e.obj \in Nat
  BY DEF Event

\* The bitmap has a first clear bit.
LEMMA RunLengthOK ==
    ASSUME NEW b \in SUBSET (0..(OooThreshold - 1)), OooThreshold \in Nat
    PROVE  /\ RunLength(b) \in 0..OooThreshold
           /\ RunLength(b) \notin b
           /\ \A i \in 0..(RunLength(b) - 1) : i \in b
<1> DEFINE S == {n \in Nat : n \notin b}
<1>1. OooThreshold \in S
  OBVIOUS
<1>2. PICK m \in S : \A k \in S : m <= k
  <2>1. S \subseteq Nat /\ S # {}
    BY <1>1
  <2> HIDE DEF S
  <2> QED
    BY <2>1, LeastNatural
<1>3. m \in 0..OooThreshold /\ m \notin b /\ 0..(m - 1) \subseteq b
  <2>1. m \in Nat /\ m \notin b /\ m <= OooThreshold
    BY <1>1, <1>2
  <2>2. \A i \in 0..(m - 1) : i \in b
    <3> SUFFICES ASSUME NEW i \in 0..(m - 1), i \notin b PROVE FALSE
      OBVIOUS
    <3>1. i \in S
      OBVIOUS
    <3>2. m <= i
      BY <1>2, <3>1
    <3> QED
      BY <2>1, <3>2
  <2> QED
    BY <2>1, <2>2
<1> DEFINE P(n) == n \notin b /\ 0..(n - 1) \subseteq b
           R == CHOOSE n \in 0..OooThreshold : P(n)
<1>4. \E n \in 0..OooThreshold : P(n)
  BY <1>3
<1> HIDE DEF P
<1>5. R \in 0..OooThreshold /\ P(R)
  BY <1>4
<1>6. R = RunLength(b)
  BY DEF RunLength, P
<1> HIDE DEF R
<1> QED
  BY <1>5, <1>6 DEF P

\* The place GetNextWqeSegment stops at.
LEMMA FirstSendableOK ==
    ASSUME JettyOK, NEW j \in Jetties, Sendable(j) # {}
    PROVE  /\ FirstSendable(j) \in Sendable(j)
           /\ \A k \in Sendable(j) : FirstSendable(j) <= k
<1>1. Sendable(j) \subseteq Nat
  <2>1. wqes[j] \in Seq(Wqe)
    BY DEF JettyOK
  <2>2. DOMAIN wqes[j] \subseteq Nat
    BY <2>1, LenProperties
  <2> QED
    BY <2>2 DEF Sendable
<1>2. \E m \in Sendable(j) : \A k \in Sendable(j) : m <= k
  BY <1>1, LeastNatural
<1> QED
  BY <1>2, Zenon DEF FirstSendable

\* A round asks the jetties of its channel.
LEMMA TurnOK ==
    ASSUME ChannelOK, NEW t \in Tps, NEW i \in 0..(Len(related[t]) - 1)
    PROVE  /\ Len(related[t]) \in Nat \ {0}
           /\ Turn(t, i) \in 0..(Len(related[t]) - 1)
           /\ Turn(t, i) + 1 \in DOMAIN related[t]
           /\ Asked(t, i) \in Jetties
<1>1. related[t] \in Seq(Jetties) /\ rrIndex[t] \in Nat
  BY DEF ChannelOK
<1>2. Len(related[t]) \in Nat /\ DOMAIN related[t] = 1..Len(related[t])
  BY <1>1, LenProperties
<1> DEFINE n == Len(related[t])
           base == IF rrIndex[t] > n THEN 0 ELSE rrIndex[t]
<1>3. Turn(t, i) = (base + i) % n
  BY DEF Turn, StartIndex
<1>4. n \in Nat \ {0} /\ base \in Nat /\ i \in Nat
  BY <1>1, <1>2
<1> HIDE DEF base
<1>5. (base + i) % n \in 0..(n - 1)
  <2> HIDE DEF n
  <2> QED
    BY <1>4
<1>6. Turn(t, i) \in 0..(n - 1)
  BY <1>3, <1>5
<1>7. Turn(t, i) + 1 \in 1..n
  BY <1>4, <1>6
<1> QED
  BY <1>1, <1>2, <1>4, <1>6, <1>7, SeqElement DEF Asked

\* The jetty a round takes from.
LEMMA FirstTurnOK ==
    ASSUME ChannelOK, NEW t \in Tps, Turns(t) # {}
    PROVE  /\ FirstTurn(t) \in 0..(Len(related[t]) - 1)
           /\ Asked(t, FirstTurn(t)) \in Jetties
           /\ HasSegment(Asked(t, FirstTurn(t)))
<1>1. Turns(t) \subseteq Nat
  BY DEF Turns
<1>2. \E m \in Turns(t) : \A k \in Turns(t) : m <= k
  BY <1>1, LeastNatural
<1>3. FirstTurn(t) \in Turns(t)
  BY <1>2, Zenon DEF FirstTurn
<1> QED
  BY <1>3, TurnOK DEF Turns

\* A segment is taken from a WQE.
LEMMA SentWqe ==
    ASSUME NEW w \in Wqe
    PROVE  /\ Sent(w) \in Wqe
           /\ Sent(w).sent = w.sent + 1 /\ Sent(w).canSend = TRUE
           /\ Sent(w).id = w.id /\ Sent(w).order = w.order
           /\ Sent(w).start = w.start /\ Sent(w).size = w.size
<1> DEFINE v == [w EXCEPT !.sent = @ + 1]
<1>1. /\ v \in Wqe /\ v.sent = w.sent + 1
      /\ v.id = w.id /\ v.order = w.order /\ v.start = w.start /\ v.size = w.size
  BY DEF Wqe
<1>2. Sent(w) = [v EXCEPT !.canSend = TRUE]
  BY DEF Sent
<1> HIDE DEF v
<1> QED
  BY <1>1, <1>2 DEF Wqe

\* What GetNextWqeSegment does to the WQEs.
LEMMA TakenWqe ==
    ASSUME JettyOK, NEW j \in Jetties, Sendable(j) # {}, GetNextWqeSegment(j),
           NEW i, i = FirstSendable(j), NEW w, w = wqes[j][i]
    PROVE  /\ i \in DOMAIN wqes[j] /\ w \in Wqe
           /\ w.sent < w.size /\ (w.canSend \/ IsOrderedByInitiator(j, w))
           /\ \A k \in Sendable(j) : i <= k
           /\ wqes' \in [Jetties -> Seq(Wqe)]
           /\ \A k \in Jetties \ {j} : wqes'[k] = wqes[k]
           /\ DOMAIN wqes'[j] = DOMAIN wqes[j]
           /\ \A k \in DOMAIN wqes[j] :
                  wqes'[j][k] = IF k = i THEN Sent(w) ELSE wqes[j][k]
           /\ sndNxt' \in [Jetties -> Nat]
           /\ \A k \in Jetties : sndNxt'[k] = IF k = j THEN sndNxt[j] + 1 ELSE sndNxt[k]
<1>1. wqes \in [Jetties -> Seq(Wqe)] /\ wqes[j] \in Seq(Wqe) /\ sndNxt \in [Jetties -> Nat]
  BY DEF JettyOK
<1>2. i \in Sendable(j) /\ \A k \in Sendable(j) : i <= k
  BY FirstSendableOK
<1>3. i \in DOMAIN wqes[j] /\ w.sent < w.size /\ (w.canSend \/ IsOrderedByInitiator(j, w))
  BY <1>2 DEF Sendable
<1>4. w \in Wqe
  BY <1>1, <1>3, SeqElement
<1> DEFINE v == Sent(w)
           q == [wqes[j] EXCEPT ![i] = v]
<1>5. v \in Wqe
  BY <1>4, SentWqe
<1>6. wqes' = [wqes EXCEPT ![j] = q]
  BY <1>1, <1>3 DEF GetNextWqeSegment
<1>7. q \in Seq(Wqe) /\ DOMAIN q = DOMAIN wqes[j]
      /\ \A k \in DOMAIN wqes[j] : q[k] = IF k = i THEN v ELSE wqes[j][k]
  BY <1>1, <1>3, <1>5, ExceptSeq
<1> HIDE DEF q, v
<1>8. wqes' \in [Jetties -> Seq(Wqe)] /\ wqes'[j] = q /\ \A k \in Jetties \ {j} : wqes'[k] = wqes[k]
  BY <1>1, <1>6, <1>7
<1>9. sndNxt' = [sndNxt EXCEPT ![j] = @ + 1]
  BY DEF GetNextWqeSegment
<1>10. /\ sndNxt' \in [Jetties -> Nat]
       /\ \A k \in Jetties : sndNxt'[k] = IF k = j THEN sndNxt[j] + 1 ELSE sndNxt[k]
  BY <1>1, <1>9
<1> QED
  BY <1>2, <1>3, <1>4, <1>7, <1>8, <1>10 DEF v

\* Rounds asked for, and nothing else.
OnlyRounds(x) == x \in Seq(Event) /\ \A k \in DOMAIN x : x[k].kind = "schedule"

LEMMA ScheduleEvent ==
    ASSUME ChannelOK, NEW t \in Tps
    PROVE  Schedule(t) \in Event /\ Schedule(t).kind = "schedule" /\ Schedule(t).tp = t
  BY DEF ChannelOK, Schedule, Event

LEMMA TriggerOK ==
    ASSUME ChannelOK, NEW q \in Seq(Tps)
    PROVE  /\ OnlyRounds(Trigger(q))
           /\ \A i \in DOMAIN q : i \in DOMAIN Trigger(q) /\ Trigger(q)[i].tp = q[i]
<1>1. DOMAIN q = 1..Len(q) /\ Len(q) \in Nat /\ \A i \in DOMAIN q : q[i] \in Tps
  BY LenProperties
<1>2. \A i \in DOMAIN q : Schedule(q[i]) \in Event /\ Schedule(q[i]).kind = "schedule"
                          /\ Schedule(q[i]).tp = q[i]
  BY <1>1, ScheduleEvent
<1> DEFINE x == [i \in DOMAIN q |-> Schedule(q[i])]
<1>3. x \in Seq(Event)
  BY <1>1, <1>2
<1>4. Trigger(q) = x
  BY DEF Trigger
<1>5. DOMAIN x = DOMAIN q /\ \A i \in DOMAIN q : x[i] = Schedule(q[i])
  OBVIOUS
<1> HIDE DEF x
<1> QED
  BY <1>2, <1>3, <1>4, <1>5 DEF OnlyRounds

LEMMA NoRounds == OnlyRounds(<<>>)
  BY DEF OnlyRounds

LEMMA OneRound ==
    ASSUME ChannelOK, NEW t \in Tps
    PROVE  /\ OnlyRounds(<<Schedule(t)>>)
           /\ 1 \in DOMAIN <<Schedule(t)>> /\ <<Schedule(t)>>[1] = Schedule(t)
<1>1. Schedule(t) \in Event /\ Schedule(t).kind = "schedule"
  BY ScheduleEvent
<1> QED
  BY <1>1 DEF OnlyRounds

LEMMA MoreRounds ==
    ASSUME NEW x, OnlyRounds(x), NEW y, OnlyRounds(y)
    PROVE  OnlyRounds(x \o y)
<1>1. x \in Seq(Event) /\ y \in Seq(Event)
  BY DEF OnlyRounds
<1> DEFINE d == x \o y
<1>2. d = x \o y
  OBVIOUS
<1> HIDE DEF d
<1>3. d \in Seq(Event) /\ \A k \in DOMAIN d : \/ k \in DOMAIN x /\ d[k] = x[k]
                                             \/ \E i \in DOMAIN y : d[k] = y[i]
  BY <1>1, <1>2, ConcatParts
<1>4. \A k \in DOMAIN d : d[k].kind = "schedule"
  BY <1>3 DEF OnlyRounds
<1> QED
  BY <1>3, <1>4 DEF OnlyRounds, d

\* A WQE of the jetty is complete when its window begins at u.
SomeComplete(j, u) == \E k \in DOMAIN wqes[j] : IsWqeCompleted(wqes[j][k], u)

\* Every channel of q is asked for a round.
AllAsked(q, x) == \A i \in DOMAIN q : \E k \in DOMAIN x : x[k].tp = q[i]

\* The rounds of CompletionEvents: of every channel of the jetty if it was limited,
\* and again if a WQE completes.
LEMMA CompletionEventsOK ==
    ASSUME JettyOK, ChannelOK, NEW j \in Jetties, NEW u, group'[j] \in Seq(Tps),
           NEW x, x = CompletionEvents(j, u)
    PROVE  /\ OnlyRounds(x)
           /\ IsLimited(j) => AllAsked(group[j], x)
           /\ SomeComplete(j, u) => AllAsked(group'[j], x)
<1> DEFINE done == {i \in DOMAIN wqes[j] : IsWqeCompleted(wqes[j][i], u)}
           first == IF IsLimited(j) THEN Trigger(group[j]) ELSE <<>>
           again == [i \in 1..Cardinality(done) |-> Trigger(group'[j])]
           rest == FlattenSeq(again)
<1>1. x = first \o rest
  BY DEF CompletionEvents
<1>2. IsFiniteSet(done)
  <2>1. wqes[j] \in Seq(Wqe)
    BY DEF JettyOK
  <2>2. DOMAIN wqes[j] = 1..Len(wqes[j]) /\ Len(wqes[j]) \in Nat
    BY <2>1, LenProperties
  <2>3. IsFiniteSet(1..Len(wqes[j]))
    BY <2>2, FS_Interval
  <2>4. done \subseteq 1..Len(wqes[j])
    BY <2>2
  <2> QED
    BY <2>3, <2>4, FS_Subset
<1>3. Cardinality(done) \in Nat /\ (done # {} => Cardinality(done) >= 1)
  <2>1. Cardinality(done) \in Nat /\ (Cardinality(done) = 0 <=> done = {})
    BY <1>2, FS_CardinalityType, FS_EmptySet
  <2> QED
    BY <2>1
<1>4. group[j] \in Seq(Tps)
  BY DEF ChannelOK
<1>5. Trigger(group'[j]) \in Seq(Event)
  BY TriggerOK DEF OnlyRounds
<1>6. /\ again \in Seq(Seq(Event)) /\ DOMAIN again = 1..Cardinality(done)
      /\ \A i \in DOMAIN again : again[i] = Trigger(group'[j])
  <2> HIDE DEF done
  <2> QED
    BY <1>3, <1>5
<1> HIDE DEF again
<1>7. /\ rest \in Seq(Event)
      /\ \A i \in DOMAIN again : \A k \in DOMAIN again[i] :
            \E n \in DOMAIN rest : rest[n] = again[i][k]
      /\ \A n \in DOMAIN rest : \E i \in DOMAIN again : \E k \in DOMAIN again[i] : rest[n] = again[i][k]
  BY <1>6, FlattenHolds
<1> HIDE DEF rest
<1>8. OnlyRounds(rest)
  <2>1. \A k \in DOMAIN Trigger(group'[j]) : Trigger(group'[j])[k].kind = "schedule"
    BY TriggerOK DEF OnlyRounds
  <2>2. ASSUME NEW n \in DOMAIN rest PROVE rest[n].kind = "schedule"
    <3>1. PICK i \in DOMAIN again : \E k \in DOMAIN again[i] : rest[n] = again[i][k]
      BY <1>7
    <3> QED
      BY <1>6, <2>1, <3>1
  <2> QED
    BY <1>7, <2>2 DEF OnlyRounds
<1>9. OnlyRounds(first)
  BY <1>4, TriggerOK, NoRounds
<1>10. OnlyRounds(x)
  BY <1>1, <1>8, <1>9, MoreRounds
<1>11. /\ \A i \in DOMAIN first : \E k \in DOMAIN x : x[k] = first[i]
       /\ \A i \in DOMAIN rest : \E k \in DOMAIN x : x[k] = rest[i]
  <2>1. first \in Seq(Event) /\ rest \in Seq(Event)
    BY <1>8, <1>9 DEF OnlyRounds
  <2> HIDE DEF first
  <2> QED
    <3>1. /\ \A i \in DOMAIN first : i \in DOMAIN x /\ x[i] = first[i]
          /\ \A i \in DOMAIN rest : \E k \in DOMAIN x : k = i + Len(first) /\ x[k] = rest[i]
      BY <1>1, <2>1, ConcatParts
    <3> QED
      BY <3>1
<1>12. ASSUME IsLimited(j), NEW i \in DOMAIN group[j]
       PROVE  \E k \in DOMAIN x : x[k].tp = group[j][i]
  <2>1. first = Trigger(group[j])
    BY <1>12
  <2>2. i \in DOMAIN first /\ first[i].tp = group[j][i]
    BY <1>4, <2>1, TriggerOK
  <2>3. PICK k \in DOMAIN x : x[k] = first[i]
    BY <1>11, <2>2
  <2> QED
    BY <2>2, <2>3
<1>13. ASSUME NEW w \in DOMAIN wqes[j], IsWqeCompleted(wqes[j][w], u), NEW i \in DOMAIN group'[j]
       PROVE  \E k \in DOMAIN x : x[k].tp = group'[j][i]
  <2>1. 1 \in DOMAIN again
    <3>1. done # {}
      BY <1>13
    <3> HIDE DEF done
    <3> QED
      BY <1>3, <1>6, <3>1
  <2>2. again[1] = Trigger(group'[j])
    BY <1>6, <2>1
  <2>3. i \in DOMAIN again[1] /\ again[1][i].tp = group'[j][i]
    BY <2>2, TriggerOK
  <2>4. PICK n \in DOMAIN rest : rest[n] = again[1][i]
    BY <1>7, <2>1, <2>3
  <2>5. PICK k \in DOMAIN x : x[k] = rest[n]
    BY <1>11
  <2> QED
    BY <2>3, <2>4, <2>5
<1> HIDE DEF done
<1>14. IsLimited(j) => AllAsked(group[j], x)
  BY <1>12 DEF AllAsked
<1>15. SomeComplete(j, u) => AllAsked(group'[j], x)
  BY <1>13 DEF SomeComplete, AllAsked
<1> QED
  BY <1>10, <1>14, <1>15

\* What CheckAndRemoveCompletedWqe does to the WQEs of a jetty.
LEMMA RemovedWqes ==
    ASSUME JettyOK, NEW j \in Jetties, NEW u, RemoveCompleted(j, u),
           NEW done, done = {w \in ToSet(wqes[j]) : IsWqeCompleted(w, u)}
    PROVE  /\ wqes' \in [Jetties -> Seq(Wqe)]
           /\ \A k \in Jetties \ {j} : wqes'[k] = wqes[k]
           /\ \E m : IsErasure(wqes'[j], wqes[j], done, m)
<1>1. wqes \in [Jetties -> Seq(Wqe)] /\ wqes[j] \in Seq(Wqe)
  BY DEF JettyOK
<1>2. wqes' = [wqes EXCEPT ![j] = Without(@, done)]
  BY DEF RemoveCompleted
<1>4. wqes'[j] = Without(wqes[j], done) /\ \A k \in Jetties \ {j} : wqes'[k] = wqes[k]
  BY <1>1, <1>2
<1>5. Without(wqes[j], done) \in Seq(Wqe)
  BY <1>1, WithoutSeq
<1>6. wqes' \in [Jetties -> Seq(Wqe)]
  BY <1>1, <1>2, <1>5
<1>7. PICK q : q = Without(wqes[j], done)
  OBVIOUS
<1>8. PICK m : IsErasure(q, wqes[j], done, m)
  BY <1>1, <1>7, WithoutSeq
<1>9. IsErasure(q, wqes[j], done, m) /\ wqes'[j] = q
  BY <1>4, <1>7, <1>8
<1> QED
  BY <1>4, <1>6, <1>9

\* What it does to the ids of the ordered ones.
LEMMA RemovedIds ==
    ASSUME JettyOK, NEW j \in Jetties, NEW u, RemoveCompleted(j, u),
           NEW ids, ids = {w.id : w \in {w \in ToSet(wqes[j]) : IsWqeCompleted(w, u)}}
    PROVE  /\ ordered' \in [Jetties -> Seq(Nat)]
           /\ \A k \in Jetties \ {j} : ordered'[k] = ordered[k]
           /\ \E m : IsErasure(ordered'[j], ordered[j], ids, m)
<1>1. ordered \in [Jetties -> Seq(Nat)] /\ ordered[j] \in Seq(Nat)
  BY DEF JettyOK
<1>2. ordered' = [ordered EXCEPT ![j] = Without(@, ids)]
  BY DEF RemoveCompleted
<1>3. ordered'[j] = Without(ordered[j], ids) /\ \A k \in Jetties \ {j} : ordered'[k] = ordered[k]
  BY <1>1, <1>2
<1>4. Without(ordered[j], ids) \in Seq(Nat)
  BY <1>1, WithoutSeq
<1>5. ordered' \in [Jetties -> Seq(Nat)]
  BY <1>1, <1>2, <1>4
<1>6. PICK q : q = Without(ordered[j], ids)
  OBVIOUS
<1>7. PICK m : IsErasure(q, ordered[j], ids, m)
  BY <1>1, <1>6, WithoutSeq
<1>8. ordered'[j] = q
  BY <1>3, <1>6
<1> QED
  BY <1>3, <1>5, <1>7, <1>8

\* What it does to the bindings.
LEMMA RemovedBindings ==
    ASSUME ChannelOK, NEW j \in Jetties, NEW u, RemoveCompleted(j, u)
    PROVE  /\ group' \in [Jetties -> Seq(Tps)] /\ related' \in [Tps -> Seq(Jetties)]
           /\ exists' \in [Tps -> BOOLEAN] /\ made' = made
<1>1. CASE RemoveUselessTps(j)
  <2>1. group' = [group EXCEPT ![j] = <<>>]
        /\ related' = [t \in Tps |-> Without(related[t], {j})]
        /\ exists' = [t \in Tps |-> exists[t] /\ related'[t] # <<>>]
        /\ made' = made
    BY <1>1 DEF RemoveUselessTps
  <2>2. \A t \in Tps : Without(related[t], {j}) \in Seq(Jetties)
    BY WithoutSeq DEF ChannelOK
  <2>3. related' \in [Tps -> Seq(Jetties)]
    BY <2>1, <2>2
  <2>4. exists' \in [Tps -> BOOLEAN]
    <3>1. \A t \in Tps : (exists[t] /\ related'[t] # <<>>) \in BOOLEAN
      OBVIOUS
    <3> QED
      BY <2>1, <3>1, Zenon
  <2>5. group' \in [Jetties -> Seq(Tps)]
    BY <2>1 DEF ChannelOK
  <2> QED
    BY <2>1, <2>3, <2>4, <2>5
<1>2. CASE UNCHANGED bindVars
  BY <1>2 DEF bindVars, ChannelOK
<1> QED
  BY <1>1, <1>2 DEF RemoveCompleted

\* The segment a round takes.
LEMMA NextSegmentOK ==
    ASSUME JettyOK, NEW j \in Jetties, Sendable(j) # {}
    PROVE  /\ NextSegment(j) \in Segment
           /\ FirstSendable(j) \in DOMAIN wqes[j]
           /\ NextSegment(j).jetty = j /\ NextSegment(j).ssn = sndNxt[j]
           /\ NextSegment(j).wqe = wqes[j][FirstSendable(j)].id
<1>1. FirstSendable(j) \in DOMAIN wqes[j]
  BY FirstSendableOK DEF Sendable
<1>2. wqes[j] \in Seq(Wqe) /\ sndNxt[j] \in Nat
  BY DEF JettyOK
<1>3. wqes[j][FirstSendable(j)] \in Wqe
  BY <1>1, <1>2, SeqElement
<1>4. wqes[j][FirstSendable(j)].id \in Nat
  BY <1>3 DEF Wqe
<1> QED
  BY <1>1, <1>2, <1>4 DEF NextSegment, Segment

LEMMA FinishOK ==
    ASSUME JettyOK, ChannelOK, NEW t \in Tps, Turns(t) # {},
           NEW e, e = [kind |-> "finish", tp |-> t, seg |-> NextSegment(Asked(t, FirstTurn(t)))]
    PROVE  /\ Finish(t) \in Seq(Event) /\ e \in Event /\ e.kind = "finish" /\ e.tp = t
           /\ DOMAIN Finish(t) = {1} /\ Finish(t)[1] = e
           /\ e.seg = NextSegment(Asked(t, FirstTurn(t)))
<1>1. NextSegment(Asked(t, FirstTurn(t))) \in Segment
  <2>1. Asked(t, FirstTurn(t)) \in Jetties /\ Sendable(Asked(t, FirstTurn(t))) # {}
    BY FirstTurnOK DEF HasSegment
  <2> QED
    BY <2>1, NextSegmentOK
<1>2. e \in Event
  BY <1>1 DEF Event
<1>3. Finish(t) = <<e>>
  BY DEF Finish
<1> QED
  BY <1>2, <1>3

\* A round keeps the types of what it changes.
LEMMA RoundTypes ==
    ASSUME TypeOK, events # <<>>, NEW t \in Tps, NEW q, NEW busy \in BOOLEAN,
           ScheduleWqeSegment(t, q, busy)
    PROVE  /\ wqes' \in [Jetties -> Seq(Wqe)] /\ sndNxt' \in [Jetties -> Nat]
           /\ rrIndex' \in [Tps -> Nat] /\ scheduling' \in [Tps -> BOOLEAN]
           /\ full' \in [Tps -> BOOLEAN] /\ events' \in Seq(Event)
<1>1. JettyOK /\ ChannelOK /\ events \in Seq(Event)
  BY DEF TypeOK
<1>2. Tail(events) \in Seq(Event)
  BY <1>1, HeadTailProperties
<1>3. CASE RoundStops(t, q, busy) /\ events' = Tail(events)
  <2>1. (full[t] \/ (exists[t] /\ ~busy /\ related[t] # <<>> /\ IsWqeSegmentLimited(q))) \in BOOLEAN
    OBVIOUS
  <2>2. full' \in [Tps -> BOOLEAN]
    BY <1>1, <1>3, <2>1 DEF RoundStops, ChannelOK
  <2>3. StartIndex(t) \in Nat
    BY <1>1 DEF StartIndex, ChannelOK
  <2>4. rrIndex' \in [Tps -> Nat]
    BY <1>1, <1>3, <2>3 DEF RoundStops, ChannelOK
  <2> QED
    BY <1>1, <1>2, <1>3, <2>2, <2>4 DEF RoundStops, JettyOK, ChannelOK
<1>4. CASE RoundTakes(t, q, busy) /\ events' = Tail(events) \o Finish(t)
  <2>1. Turns(t) # {} /\ GetNextWqeSegment(Asked(t, FirstTurn(t)))
    BY <1>4 DEF RoundTakes
  <2>2. /\ Asked(t, FirstTurn(t)) \in Jetties /\ Sendable(Asked(t, FirstTurn(t))) # {}
        /\ FirstTurn(t) \in 0..(Len(related[t]) - 1)
    BY <1>1, <2>1, FirstTurnOK DEF HasSegment
  <2>3. wqes' \in [Jetties -> Seq(Wqe)] /\ sndNxt' \in [Jetties -> Nat]
    BY <1>1, <2>1, <2>2, TakenWqe
  <2>4. rrIndex' \in [Tps -> Nat]
    <3> DEFINE n == Len(related[t])
               r == Turn(t, FirstTurn(t))
    <3>1. n \in Nat \ {0} /\ r \in Nat
      BY <1>1, <2>2, TurnOK
    <3>2. rrIndex' = [rrIndex EXCEPT ![t] = (r + 1) % n]
      BY <1>4 DEF RoundTakes
    <3> HIDE DEF n, r
    <3>3. (r + 1) % n \in Nat
      BY <3>1
    <3> QED
      BY <1>1, <3>2, <3>3 DEF ChannelOK
  <2>5. scheduling' \in [Tps -> BOOLEAN]
    <3>1. (Len(q) <= 1) \in BOOLEAN
      OBVIOUS
    <3> QED
      BY <1>1, <1>4, <3>1 DEF RoundTakes, ChannelOK
  <2>6. full' \in [Tps -> BOOLEAN]
    BY <1>1, <1>4 DEF RoundTakes, ChannelOK
  <2>7. events' \in Seq(Event)
    <3>1. Finish(t) \in Seq(Event)
      BY <1>1, <2>1, FinishOK
    <3> QED
      BY <1>2, <1>4, <3>1, ConcatHolds
  <2> QED
    BY <2>3, <2>4, <2>5, <2>6, <2>7
<1> QED
  BY <1>3, <1>4 DEF ScheduleWqeSegment

LEMMA RunScheduleTypes ==
    ASSUME TypeOK, RunSchedule
    PROVE  TypeOK'
<1>1. events # <<>> /\ events \in Seq(Event) /\ Head(events) \in Event
  <2>1. events # <<>> /\ events \in Seq(Event)
    BY DEF RunSchedule, Running, TypeOK
  <2> QED
    BY <2>1, HeadTailProperties
<1> DEFINE t == Head(events).tp
           q == IF Head(events).obj = made[t] THEN vec[t] ELSE <<>>
<1>2. t \in Tps
  BY <1>1, EventParts
<1>3. scheduling[t] \in BOOLEAN
  BY <1>2 DEF TypeOK, ChannelOK
<1>4. ScheduleWqeSegment(t, q, scheduling[t])
  BY DEF RunSchedule
<1> HIDE DEF q
<1>5. /\ wqes' \in [Jetties -> Seq(Wqe)] /\ sndNxt' \in [Jetties -> Nat]
      /\ rrIndex' \in [Tps -> Nat] /\ scheduling' \in [Tps -> BOOLEAN]
      /\ full' \in [Tps -> BOOLEAN] /\ events' \in Seq(Event)
  BY <1>1, <1>2, <1>3, <1>4, RoundTypes
<1>6. UNCHANGED <<ordered, msnCnt, ssnCnt, sndUna, acked, bindVars, vec, pushed, una, acking>>
  BY DEF RunSchedule
<1> QED
  BY <1>5, <1>6 DEF TypeOK, JettyOK, ChannelOK, bindVars

LEMMA FinishTypes ==
    ASSUME TypeOK, OnScheduleWqeSegmentFinish
    PROVE  TypeOK'
<1>1. /\ events # <<>> /\ events \in Seq(Event) /\ Head(events) \in Event
      /\ Head(events).kind = "finish"
  <2>1. events # <<>> /\ events \in Seq(Event) /\ Head(events).kind = "finish"
    BY DEF OnScheduleWqeSegmentFinish, Running, TypeOK
  <2> QED
    BY <2>1, HeadTailProperties
<1> DEFINE t == Head(events).tp
           s == [Head(events).seg EXCEPT !.num = pushed[t]]
<1>2. t \in Tps /\ Head(events).seg \in Segment
  BY <1>1, EventParts
<1>3. vec \in [Tps -> Seq(Segment)] /\ pushed \in [Tps -> Nat]
  BY DEF TypeOK, ChannelOK
<1>4. s \in Segment
  BY <1>2, <1>3 DEF Segment
<1>5. /\ ScheduleWqeSegment(t, Append(vec[t], s), FALSE)
      /\ vec' = [vec EXCEPT ![t] = Append(@, s)]
      /\ pushed' = [pushed EXCEPT ![t] = @ + 1]
      /\ UNCHANGED <<ordered, msnCnt, ssnCnt, sndUna, acked, bindVars, una, acking>>
  BY DEF OnScheduleWqeSegmentFinish
<1> HIDE DEF s
<1>6. /\ wqes' \in [Jetties -> Seq(Wqe)] /\ sndNxt' \in [Jetties -> Nat]
      /\ rrIndex' \in [Tps -> Nat] /\ scheduling' \in [Tps -> BOOLEAN]
      /\ full' \in [Tps -> BOOLEAN] /\ events' \in Seq(Event)
  BY <1>1, <1>2, <1>5, RoundTypes
<1>7. vec' \in [Tps -> Seq(Segment)] /\ pushed' \in [Tps -> Nat]
  <2>1. Append(vec[t], s) \in Seq(Segment)
    BY <1>2, <1>3, <1>4, AppendProperties
  <2> QED
    BY <1>2, <1>3, <1>5, <2>1
<1> QED
  BY <1>5, <1>6, <1>7 DEF TypeOK, JettyOK, ChannelOK, bindVars

\* A jetty is bound to the channels of its paths.
LEMMA BindTypes ==
    ASSUME ChannelOK, NEW j \in Jetties, Bind(j)
    PROVE  ChannelOK'
<1> DEFINE ts == ToSet(Paths[j])
           new == {t \in ts : ~exists[t]}
<1>1. Paths[j] \in Seq(Tps)
  BY ConstantsAssumption
<1>2. group' \in [Jetties -> Seq(Tps)]
  BY <1>1 DEF Bind, ChannelOK
<1>3. related' \in [Tps -> Seq(Jetties)]
  <2>1. related' = [t \in Tps |-> IF t \in ts THEN Append(related[t], j) ELSE related[t]]
    BY DEF Bind
  <2>2. \A t \in Tps : related[t] \in Seq(Jetties) /\ Append(related[t], j) \in Seq(Jetties)
    BY AppendProperties DEF ChannelOK
  <2> HIDE DEF ts
  <2> QED
    BY <2>1, <2>2
<1>4. exists' \in [Tps -> BOOLEAN]
  <2>1. exists' = [t \in Tps |-> exists[t] \/ t \in ts]
    BY DEF Bind
  <2>2. \A t \in Tps : (exists[t] \/ t \in ts) \in BOOLEAN
    OBVIOUS
  <2> HIDE DEF ts
  <2> QED
    BY <2>1, <2>2
<1>5. made' \in [Tps -> Nat]
  <2>1. made' = [t \in Tps |-> IF t \in new THEN made[t] + 1 ELSE made[t]]
    BY DEF Bind
  <2> HIDE DEF new
  <2> QED
    BY <2>1 DEF ChannelOK
<1>6. /\ rrIndex' = [t \in Tps |-> IF t \in new THEN 0 ELSE rrIndex[t]]
      /\ scheduling' = [t \in Tps |-> IF t \in new THEN FALSE ELSE scheduling[t]]
      /\ vec' = [t \in Tps |-> IF t \in new THEN <<>> ELSE vec[t]]
      /\ full' = [t \in Tps |-> IF t \in new THEN FALSE ELSE full[t]]
      /\ pushed' = [t \in Tps |-> IF t \in new THEN 0 ELSE pushed[t]]
      /\ una' = [t \in Tps |-> IF t \in new THEN 0 ELSE una[t]]
  BY DEF Bind
<1> HIDE DEF new
<1>7. rrIndex' \in [Tps -> Nat] /\ pushed' \in [Tps -> Nat] /\ una' \in [Tps -> Nat]
  BY <1>6 DEF ChannelOK
<1>8. scheduling' \in [Tps -> BOOLEAN] /\ full' \in [Tps -> BOOLEAN]
  BY <1>6 DEF ChannelOK
<1>9. vec' \in [Tps -> Seq(Segment)]
  BY <1>6 DEF ChannelOK
<1> QED
  BY <1>2, <1>3, <1>4, <1>5, <1>7, <1>8, <1>9 DEF ChannelOK

\* The rounds a new WQE asks for: of every path of its jetty.
PushRounds(j) ==
    [i \in DOMAIN Paths[j] |-> [kind |-> "schedule", tp |-> Paths[j][i], obj |-> made'[Paths[j][i]]]]

LEMMA PushRoundsOK ==
    ASSUME made' \in [Tps -> Nat], NEW j \in Jetties, NEW x, x = PushRounds(j)
    PROVE  /\ OnlyRounds(x)
           /\ \A i \in DOMAIN Paths[j] : i \in DOMAIN x /\ x[i].tp = Paths[j][i]
<1> DEFINE q == Paths[j]
           e(i) == [kind |-> "schedule", tp |-> q[i], obj |-> made'[q[i]]]
<1>1. q \in Seq(Tps)
  BY ConstantsAssumption
<1>2. DOMAIN q = 1..Len(q) /\ Len(q) \in Nat /\ \A i \in DOMAIN q : q[i] \in Tps
  BY <1>1, LenProperties
<1>3. \A i \in DOMAIN q : e(i) \in Event /\ e(i).kind = "schedule" /\ e(i).tp = q[i]
  <2> HIDE DEF q
  <2> QED
    BY <1>2 DEF Event
<1>4. x = [i \in DOMAIN q |-> e(i)]
  BY DEF PushRounds
<1> HIDE DEF e, q
<1>5. x \in Seq(Event)
  BY <1>2, <1>3, <1>4
<1>6. DOMAIN x = DOMAIN q /\ \A i \in DOMAIN q : x[i] = e(i)
  BY <1>4
<1> QED
  BY <1>3, <1>5, <1>6 DEF OnlyRounds, q

\* A WQE that is pushed.
NewWqe(j, o, n) ==
    [id |-> msnCnt[j], order |-> o, start |-> ssnCnt[j], size |-> n, sent |-> 0, canSend |-> FALSE]

LEMMA PushedWqe ==
    ASSUME JettyOK, NEW j \in Jetties, NEW o \in Orders, NEW n \in WqeSizes, PushWqe(j, o, n),
           NEW w, w = NewWqe(j, o, n)
    PROVE  /\ w \in Wqe /\ n \in Nat \ {0} /\ o \in {"NO", "RO", "SO"}
           /\ wqes' \in [Jetties -> Seq(Wqe)]
           /\ wqes'[j] = Append(wqes[j], w) /\ \A k \in Jetties \ {j} : wqes'[k] = wqes[k]
           /\ ordered' \in [Jetties -> Seq(Nat)]
           /\ ordered'[j] = IF o = "NO" THEN ordered[j] ELSE Append(ordered[j], msnCnt[j])
           /\ \A k \in Jetties \ {j} : ordered'[k] = ordered[k]
           /\ msnCnt' \in [Jetties -> Nat] /\ ssnCnt' \in [Jetties -> Nat]
           /\ \A k \in Jetties : msnCnt'[k] = IF k = j THEN msnCnt[j] + 1 ELSE msnCnt[k]
           /\ \A k \in Jetties : ssnCnt'[k] = IF k = j THEN ssnCnt[j] + n ELSE ssnCnt[k]
           /\ UNCHANGED <<sndNxt, sndUna, acked>>
<1>1. n \in Nat \ {0} /\ o \in {"NO", "RO", "SO"}
  BY ConstantsAssumption
<1>2. /\ wqes \in [Jetties -> Seq(Wqe)] /\ ordered \in [Jetties -> Seq(Nat)]
      /\ msnCnt \in [Jetties -> Nat] /\ ssnCnt \in [Jetties -> Nat]
  BY DEF JettyOK
<1>3. w \in Wqe
  BY <1>1, <1>2 DEF NewWqe, Wqe
<1>4. /\ wqes' = [wqes EXCEPT ![j] = Append(@, w)]
      /\ ordered' = [ordered EXCEPT ![j] = IF o = "NO" THEN @ ELSE Append(@, msnCnt[j])]
      /\ msnCnt' = [msnCnt EXCEPT ![j] = @ + 1] /\ ssnCnt' = [ssnCnt EXCEPT ![j] = @ + n]
      /\ UNCHANGED <<sndNxt, sndUna, acked>>
  BY DEF PushWqe, NewWqe
<1>5. Append(wqes[j], w) \in Seq(Wqe) /\ Append(ordered[j], msnCnt[j]) \in Seq(Nat)
  BY <1>2, <1>3, AppendProperties
<1>6. /\ wqes' \in [Jetties -> Seq(Wqe)]
      /\ wqes'[j] = Append(wqes[j], w) /\ \A k \in Jetties \ {j} : wqes'[k] = wqes[k]
  BY <1>2, <1>4, <1>5
<1>7. /\ ordered' \in [Jetties -> Seq(Nat)]
      /\ ordered'[j] = IF o = "NO" THEN ordered[j] ELSE Append(ordered[j], msnCnt[j])
      /\ \A k \in Jetties \ {j} : ordered'[k] = ordered[k]
  BY <1>2, <1>4, <1>5
<1>8. /\ msnCnt' \in [Jetties -> Nat] /\ ssnCnt' \in [Jetties -> Nat]
      /\ \A k \in Jetties : msnCnt'[k] = IF k = j THEN msnCnt[j] + 1 ELSE msnCnt[k]
      /\ \A k \in Jetties : ssnCnt'[k] = IF k = j THEN ssnCnt[j] + n ELSE ssnCnt[k]
  BY <1>1, <1>2, <1>4
<1> QED
  BY <1>1, <1>3, <1>4, <1>6, <1>7, <1>8

LEMMA PushTypes ==
    ASSUME TypeOK, NEW j \in Jetties, NEW o \in Orders, NEW n \in WqeSizes, PushWqe(j, o, n)
    PROVE  TypeOK'
<1>1. JettyOK /\ ChannelOK /\ events \in Seq(Event)
  BY DEF TypeOK
<1>2. JettyOK'
  <2>1. PICK w : w = NewWqe(j, o, n)
    OBVIOUS
  <2> QED
    BY <1>1, <2>1, PushedWqe DEF JettyOK
<1>3. ChannelOK'
  <2>1. CASE msnCnt[j] = 0
    BY <1>1, <2>1, BindTypes DEF PushWqe
  <2>2. CASE msnCnt[j] # 0
    <3>1. UNCHANGED <<bindVars, tpVars, roundVars>>
      BY <2>2 DEF PushWqe
    <3> QED
      BY <1>1, <3>1 DEF ChannelOK, bindVars, tpVars, roundVars
  <2> QED
    BY <2>1, <2>2
<1>4. events' \in Seq(Event)
  <2>1. events' = events \o PushRounds(j)
    BY DEF PushWqe, PushRounds
  <2>2. PushRounds(j) \in Seq(Event)
    BY <1>3, PushRoundsOK DEF ChannelOK, OnlyRounds
  <2> QED
    BY <1>1, <2>1, <2>2, ConcatHolds
<1>5. acking' = acking
  BY DEF PushWqe
<1> QED
  BY <1>2, <1>3, <1>4, <1>5 DEF TypeOK

LEMMA RecvTypes ==
    ASSUME TypeOK, NEW t \in Tps, NEW n, RecvTpAck(t, n)
    PROVE  TypeOK'
<1>1. una[t] \in Nat /\ pushed[t] \in Nat /\ una \in [Tps -> Nat]
  BY DEF TypeOK, ChannelOK
<1>2. n \in Nat
  BY <1>1 DEF RecvTpAck
<1>3. una' \in [Tps -> Nat]
  BY <1>1, <1>2 DEF RecvTpAck
<1>4. acking' \in Tps \X (Nat \ {0})
  BY DEF RecvTpAck
<1> QED
  BY <1>3, <1>4 DEF RecvTpAck, TypeOK, JettyOK, ChannelOK, jettyVars, bindVars, roundVars

\* The segment the walk is at.
LEMMA AtAckedOK ==
    ASSUME TypeOK, AtAcked, NEW s, s = vec[acking[1]][acking[2]]
    PROVE  /\ acking[1] \in Tps /\ acking[2] \in Nat \ {0}
           /\ acking[2] \in DOMAIN vec[acking[1]]
           /\ s \in Segment /\ s.jetty \in Jetties /\ s.ssn \in Nat
           /\ vec[acking[1]] \in Seq(Segment)
<1>1. acking \in Tps \X (Nat \ {0})
  BY DEF TypeOK, AtAcked
<1>2. vec[acking[1]] \in Seq(Segment) /\ acking[1] \in Tps /\ acking[2] \in Nat \ {0}
  BY <1>1 DEF TypeOK, ChannelOK
<1>3. acking[2] \in DOMAIN vec[acking[1]]
  BY <1>2, LenProperties DEF AtAcked
<1>4. s \in Segment
  BY <1>2, <1>3, SeqElement
<1> QED
  BY <1>2, <1>3, <1>4 DEF Segment

\* The rounds a refused segment asks for.
RefuseRounds(j, x) == IF InWindow(j, x) /\ IsLimited(j) THEN Trigger(group[j]) ELSE <<>>

LEMMA RefuseTypes ==
    ASSUME TypeOK, RefuseSegment
    PROVE  TypeOK'
<1>1. PICK s : s = vec[acking[1]][acking[2]]
  OBVIOUS
<1>2. AtAcked
  BY DEF RefuseSegment
<1>3. s.jetty \in Jetties /\ acking[1] \in Tps /\ acking[2] \in Nat \ {0}
  BY <1>1, <1>2, AtAckedOK
<1>4. events' = events \o RefuseRounds(s.jetty, s.ssn)
  BY <1>1 DEF RefuseSegment, RefuseRounds
<1>5. OnlyRounds(RefuseRounds(s.jetty, s.ssn))
  <2>1. group[s.jetty] \in Seq(Tps) /\ ChannelOK
    BY <1>3 DEF TypeOK, ChannelOK
  <2> QED
    BY <2>1, TriggerOK, NoRounds DEF RefuseRounds
<1>6. events' \in Seq(Event)
  BY <1>4, <1>5, ConcatHolds DEF TypeOK, OnlyRounds
<1>7. acking' \in Tps \X (Nat \ {0})
  <2>1. acking \in Tps \X (Nat \ {0})
    BY <1>2 DEF TypeOK, AtAcked
  <2>2. acking' = [acking EXCEPT ![2] = @ + 1]
    BY DEF RefuseSegment
  <2>3. acking' = <<acking[1], acking[2] + 1>>
    BY <2>1, <2>2
  <2> QED
    BY <1>3, <2>3
<1> QED
  BY <1>6, <1>7 DEF RefuseSegment, TypeOK, JettyOK, ChannelOK, jettyVars, bindVars, tpVars, roundVars

LEMMA AckDoneTypes ==
    ASSUME TypeOK, AckDone
    PROVE  TypeOK'
<1> DEFINE t == acking[1]
           room == full[t] /\ ~IsWqeSegmentLimited(vec[t])
<1>1. t \in Tps
  BY DEF AckDone, TypeOK
<1>2. /\ full' = [full EXCEPT ![t] = @ /\ ~room]
      /\ events' = events \o (IF room THEN <<Schedule(t)>> ELSE <<>>)
      /\ acking' = <<>>
  BY DEF AckDone
<1>3. full' \in [Tps -> BOOLEAN]
  <2>1. (full[t] /\ ~room) \in BOOLEAN
    OBVIOUS
  <2> HIDE DEF room, t
  <2> QED
    BY <1>1, <1>2, <2>1 DEF TypeOK, ChannelOK
<1>4. events' \in Seq(Event)
  <2>1. OnlyRounds(<<Schedule(t)>>) /\ OnlyRounds(<<>>)
    BY <1>1, OneRound, NoRounds DEF TypeOK
  <2> HIDE DEF room, t
  <2> QED
    BY <1>2, <2>1, ConcatHolds DEF TypeOK, OnlyRounds
<1> QED
  BY <1>2, <1>3, <1>4 DEF AckDone, TypeOK, JettyOK, ChannelOK, jettyVars, bindVars, roundVars

\* The window of a jetty moves to the first segment that is not acknowledged.
LEMMA ShiftOK ==
    ASSUME NEW bits \in SUBSET (0..(OooThreshold - 1)), OooThreshold \in Nat,
           NEW n, n = RunLength(bits)
    PROVE  /\ n \in Nat /\ n \notin bits /\ \A i \in 0..(n - 1) : i \in bits
           /\ RightShiftBitset(bits, n) \in SUBSET (0..(OooThreshold - 1))
<1>1. n \in 0..OooThreshold /\ n \notin bits /\ \A i \in 0..(n - 1) : i \in bits
  BY RunLengthOK
<1>2. n \in Nat
  BY <1>1
<1>3. ASSUME NEW b \in RightShiftBitset(bits, n) PROVE b \in 0..(OooThreshold - 1)
  <2>1. PICK i \in bits : i >= n /\ b = i - n
    BY DEF RightShiftBitset
  <2>2. i \in 0..(OooThreshold - 1)
    OBVIOUS
  <2> QED
    BY <1>2, <2>1, <2>2
<1> QED
  BY <1>1, <1>2, <1>3

\* s is the segment that completes, of jetty j; with its bit the bitmap is bits, and
\* the window of j moves by n.
WindowMoves(s, j, bits, n) ==
    /\ s = vec[acking[1]][acking[2]] /\ j = s.jetty
    /\ bits = acked[j] \cup {s.ssn - sndUna[j]} /\ n = RunLength(bits)
    /\ j \in Jetties /\ s.ssn \in Nat /\ InWindow(j, s.ssn)
    /\ s.ssn - sndUna[j] \in 0..(OooThreshold - 1)
    /\ bits \in SUBSET (0..(OooThreshold - 1))
    /\ n \in Nat /\ n \notin bits /\ \A i \in 0..(n - 1) : i \in bits
    /\ sndUna' \in [Jetties -> Nat]
    /\ \A k \in Jetties : sndUna'[k] = IF k = j THEN sndUna[j] + n ELSE sndUna[k]
    /\ acked' \in [Jetties -> SUBSET (0..(OooThreshold - 1))]
    /\ \A k \in Jetties : acked'[k] = IF k = j THEN RightShiftBitset(bits, n) ELSE acked[k]
    /\ RemoveCompleted(j, sndUna[j] + n)
    /\ UNCHANGED <<msnCnt, ssnCnt, sndNxt>>

LEMMA CompletedWindow ==
    ASSUME TypeOK, CompleteSegment
    PROVE  \E s, j, bits, n : WindowMoves(s, j, bits, n)
<1>a. PICK s : s = vec[acking[1]][acking[2]]
  OBVIOUS
<1>b. PICK j : j = s.jetty
  OBVIOUS
<1>c. PICK bits : bits = acked[j] \cup {s.ssn - sndUna[j]}
  OBVIOUS
<1>d. PICK n : n = RunLength(bits)
  OBVIOUS
<1>1. AtAcked
  BY DEF CompleteSegment
<1>2. j \in Jetties /\ s.ssn \in Nat
  BY <1>1, <1>a, <1>b, AtAckedOK
<1>3. sndUna[j] \in Nat /\ sndNxt[j] \in Nat /\ acked[j] \in SUBSET (0..(OooThreshold - 1))
  BY <1>2 DEF TypeOK, JettyOK
<1>4. /\ InWindow(j, s.ssn) /\ s.ssn - sndUna[j] < OooThreshold
      /\ sndUna' = [sndUna EXCEPT ![j] = @ + n]
      /\ acked' = [acked EXCEPT ![j] = RightShiftBitset(bits, n)]
      /\ RemoveCompleted(j, sndUna[j] + n)
      /\ UNCHANGED <<msnCnt, ssnCnt, sndNxt>>
  BY <1>a, <1>b, <1>c, <1>d DEF CompleteSegment
<1>5. OooThreshold \in Nat \ {0}
  BY ConstantsAssumption
<1>6. s.ssn - sndUna[j] \in 0..(OooThreshold - 1)
  <2>1. sndUna[j] <= s.ssn /\ s.ssn - sndUna[j] < OooThreshold
    BY <1>4 DEF InWindow
  <2> DEFINE a == s.ssn
             b == sndUna[j]
  <2>2. a \in Nat /\ b \in Nat /\ OooThreshold \in Nat /\ b <= a /\ a - b < OooThreshold
    BY <1>2, <1>3, <1>5, <2>1
  <2> HIDE DEF a, b
  <2>3. a - b \in 0..(OooThreshold - 1)
    BY <2>2
  <2> QED
    BY <2>3 DEF a, b
<1>7. bits \in SUBSET (0..(OooThreshold - 1))
  BY <1>3, <1>6, <1>c
<1>8. /\ n \in Nat /\ n \notin bits /\ \A i \in 0..(n - 1) : i \in bits
      /\ RightShiftBitset(bits, n) \in SUBSET (0..(OooThreshold - 1))
  BY <1>5, <1>7, <1>d, ShiftOK
<1>9. sndUna[j] + n \in Nat
  <2>1. \A a, b \in Nat : a + b \in Nat
    OBVIOUS
  <2> QED
    BY <1>3, <1>8, <2>1, Zenon
<1>10. /\ sndUna' \in [Jetties -> Nat]
       /\ \A k \in Jetties : sndUna'[k] = IF k = j THEN sndUna[j] + n ELSE sndUna[k]
  <2>1. sndUna \in [Jetties -> Nat]
    BY DEF TypeOK, JettyOK
  <2> DEFINE m == sndUna[j] + n
  <2>2. sndUna' = [sndUna EXCEPT ![j] = m] /\ m \in Nat
    BY <1>4, <1>9
  <2> HIDE DEF m
  <2>3. /\ sndUna' \in [Jetties -> Nat]
        /\ \A k \in Jetties : sndUna'[k] = IF k = j THEN m ELSE sndUna[k]
    BY <1>2, <2>1, <2>2
  <2> QED
    BY <2>3 DEF m
<1>11. /\ acked' \in [Jetties -> SUBSET (0..(OooThreshold - 1))]
       /\ \A k \in Jetties : acked'[k] = IF k = j THEN RightShiftBitset(bits, n) ELSE acked[k]
  BY <1>2, <1>4, <1>8 DEF TypeOK, JettyOK
<1>12. WindowMoves(s, j, bits, n)
  BY <1>2, <1>4, <1>6, <1>7, <1>8, <1>10, <1>11, <1>a, <1>b, <1>c, <1>d, Zenon DEF WindowMoves
<1> QED
  BY <1>12

\* The rounds a completed segment asks for.
LEMMA CompletedRounds ==
    ASSUME TypeOK, CompleteSegment, group' \in [Jetties -> Seq(Tps)],
           NEW s, NEW j, NEW bits, NEW n, WindowMoves(s, j, bits, n), NEW u, u = sndUna[j] + n
    PROVE  \E x \in Seq(Event) :
              /\ OnlyRounds(x) /\ events' = events \o x
              /\ IsLimited(j) => AllAsked(group[j], x)
              /\ SomeComplete(j, u) => AllAsked(group'[j], x)
<1> DEFINE t == acking[1]
           y == CompletionEvents(j, u)
           z == IF Len(vec[t]) <= 2 THEN <<Schedule(t)>> ELSE <<>>
           x == y \o z
<1>1. /\ s = vec[acking[1]][acking[2]] /\ j = s.jetty /\ j \in Jetties
      /\ bits = acked[j] \cup {s.ssn - sndUna[j]} /\ n = RunLength(bits)
  BY DEF WindowMoves
<1>2. t \in Tps /\ j \in Jetties /\ JettyOK /\ ChannelOK /\ events \in Seq(Event)
  BY <1>1, AtAckedOK DEF CompleteSegment, TypeOK
<1>3. group'[j] \in Seq(Tps)
  BY <1>2
<1>4. PICK y1 : y1 = CompletionEvents(j, u)
  OBVIOUS
<1>5. /\ OnlyRounds(y1)
      /\ IsLimited(j) => AllAsked(group[j], y1)
      /\ SomeComplete(j, u) => AllAsked(group'[j], y1)
  BY <1>2, <1>3, <1>4, CompletionEventsOK
<1>6. OnlyRounds(z)
  BY <1>2, OneRound, NoRounds
<1>7. events' = (events \o y) \o z
  BY <1>1 DEF CompleteSegment
<1> HIDE DEF y, z
<1>8. y = y1
  BY <1>4 DEF y
<1>9. y \in Seq(Event) /\ z \in Seq(Event)
  BY <1>5, <1>6, <1>8 DEF OnlyRounds
<1>10. events' = events \o x
  BY <1>2, <1>7, <1>9, ConcatAssociative
<1>11. OnlyRounds(x)
  BY <1>5, <1>6, <1>8, MoreRounds
<1>12. \A k \in DOMAIN y1 : k \in DOMAIN x /\ x[k] = y1[k]
  BY <1>8, <1>9, ConcatParts
<1> HIDE DEF x
<1>13. x \in Seq(Event)
  BY <1>11 DEF OnlyRounds
<1>14. \A q : AllAsked(q, y1) => AllAsked(q, x)
  BY <1>12 DEF AllAsked
<1>15. /\ IsLimited(j) => AllAsked(group[j], x)
       /\ SomeComplete(j, u) => AllAsked(group'[j], x)
  BY <1>5, <1>14
<1> QED
  BY <1>10, <1>11, <1>13, <1>15

LEMMA CompleteTypes ==
    ASSUME TypeOK, CompleteSegment
    PROVE  TypeOK'
<1>1. PICK s, j, bits, n : WindowMoves(s, j, bits, n)
  BY CompletedWindow
<1>5. /\ j \in Jetties
      /\ sndUna' \in [Jetties -> Nat] /\ acked' \in [Jetties -> SUBSET (0..(OooThreshold - 1))]
      /\ RemoveCompleted(j, sndUna[j] + n)
      /\ UNCHANGED <<msnCnt, ssnCnt, sndNxt>>
  BY <1>1 DEF WindowMoves
<1>6. wqes' \in [Jetties -> Seq(Wqe)] /\ ordered' \in [Jetties -> Seq(Nat)]
  <2>1. JettyOK
    BY DEF TypeOK
  <2> QED
    BY <1>5, <2>1, RemovedWqes, RemovedIds
<1>7. /\ group' \in [Jetties -> Seq(Tps)] /\ related' \in [Tps -> Seq(Jetties)]
      /\ exists' \in [Tps -> BOOLEAN] /\ made' = made
  <2>1. ChannelOK
    BY DEF TypeOK
  <2> QED
    BY <1>5, <2>1, RemovedBindings
<1>8. events' \in Seq(Event)
  <2>1. PICK u : u = sndUna[j] + n
    OBVIOUS
  <2>2. PICK x \in Seq(Event) : events' = events \o x
    BY <1>1, <1>7, <2>1, CompletedRounds
  <2> QED
    BY <2>2, ConcatHolds DEF TypeOK
<1>9. vec' \in [Tps -> Seq(Segment)]
  <2>1. vec \in [Tps -> Seq(Segment)] /\ acking[1] \in Tps /\ acking[2] \in DOMAIN vec[acking[1]]
    BY AtAckedOK DEF CompleteSegment, TypeOK, ChannelOK
  <2>2. RemoveAt(vec[acking[1]], acking[2]) \in Seq(Segment)
    BY <2>1, RemoveAtSeq
  <2>3. vec' = [vec EXCEPT ![acking[1]] = RemoveAt(@, acking[2])]
    BY DEF CompleteSegment
  <2> QED
    BY <2>1, <2>2, <2>3
<1>10. UNCHANGED <<pushed, una, full, roundVars, acking>>
  BY DEF CompleteSegment
<1> QED
  BY <1>5, <1>6, <1>7, <1>8, <1>9, <1>10 DEF TypeOK, JettyOK, ChannelOK, roundVars

LEMMA TypeInit == Init => TypeOK
<1> SUFFICES ASSUME Init PROVE TypeOK
  OBVIOUS
<1>1. OooThreshold \in Nat \ {0}
  BY ConstantsAssumption
<1>2. JettyOK
  BY DEF Init, JettyOK
<1>3. ChannelOK
  BY DEF Init, ChannelOK
<1> QED
  BY <1>2, <1>3 DEF Init, TypeOK

LEMMA TypeStep == TypeOK /\ [Next]_vars => TypeOK'
<1> SUFFICES ASSUME TypeOK, [Next]_vars PROVE TypeOK'
  OBVIOUS
<1>1. ASSUME NEW j \in Jetties, NEW o \in Orders, NEW n \in WqeSizes, PushWqe(j, o, n) PROVE TypeOK'
  BY <1>1, PushTypes
<1>2. CASE RunSchedule
  BY <1>2, RunScheduleTypes
<1>3. CASE OnScheduleWqeSegmentFinish
  BY <1>3, FinishTypes
<1>4. ASSUME NEW t \in Tps, NEW n \in una[t]..pushed[t], RecvTpAck(t, n) PROVE TypeOK'
  BY <1>4, RecvTypes
<1>5. CASE RefuseSegment
  BY <1>5, RefuseTypes
<1>6. CASE CompleteSegment
  BY <1>6, CompleteTypes
<1>7. CASE AckDone
  BY <1>7, AckDoneTypes
<1>8. CASE UNCHANGED vars
  BY <1>8 DEF vars, jettyVars, bindVars, tpVars, roundVars, TypeOK, JettyOK, ChannelOK
<1> QED
  BY <1>1, <1>2, <1>3, <1>4, <1>5, <1>6, <1>7, <1>8 DEF Next, RunEvent, WalkAcked

\* UbTransaction, UbJetty: every handler keeps the queues, counters and bitmaps of
\* jetties and channels well formed; the bitmap never exceeds its width.
THEOREM TransactionTypeCorrect == Spec => []TypeOK
  BY TypeInit, TypeStep, PTL DEF Spec

(***************************************************************************)
(* The WQEs of a jetty: their order, and what is not sent before its turn. *)
(***************************************************************************)

\* A round takes the next segment of jetty j.
Takes(j) ==
    /\ HasSegment(j) /\ GetNextWqeSegment(j)
    /\ UNCHANGED <<ordered, msnCnt, ssnCnt, sndUna, acked>>

\* A round takes a segment or leaves the jetties alone.
LEMMA RoundStep ==
    ASSUME TypeOK, NEW t \in Tps, NEW q, NEW busy, ScheduleWqeSegment(t, q, busy),
           UNCHANGED <<ordered, msnCnt, ssnCnt, sndUna, acked>>
    PROVE  \/ RoundStops(t, q, busy) /\ events' = Tail(events) /\ UNCHANGED jettyVars
           \/ /\ RoundTakes(t, q, busy) /\ events' = Tail(events) \o Finish(t)
              /\ Turns(t) # {} /\ Asked(t, FirstTurn(t)) \in Jetties /\ Takes(Asked(t, FirstTurn(t)))
<1>1. CASE RoundStops(t, q, busy) /\ events' = Tail(events)
  BY <1>1 DEF RoundStops, jettyVars
<1>2. CASE RoundTakes(t, q, busy) /\ events' = Tail(events) \o Finish(t)
  <2>1. Turns(t) # {} /\ GetNextWqeSegment(Asked(t, FirstTurn(t)))
    BY <1>2 DEF RoundTakes
  <2>2. Asked(t, FirstTurn(t)) \in Jetties /\ HasSegment(Asked(t, FirstTurn(t)))
    BY <2>1, FirstTurnOK DEF TypeOK
  <2> QED
    BY <1>2, <2>1, <2>2 DEF Takes
<1> QED
  BY <1>1, <1>2 DEF ScheduleWqeSegment

LEMMA JettySteps ==
    ASSUME TypeOK, [Next]_vars
    PROVE  \/ UNCHANGED jettyVars
           \/ \E j \in Jetties : Takes(j)
           \/ \E j \in Jetties, o \in Orders, n \in WqeSizes : PushWqe(j, o, n)
           \/ CompleteSegment
<1>1. ASSUME RunSchedule PROVE UNCHANGED jettyVars \/ \E j \in Jetties : Takes(j)
  <2>1. PICK t : t = Head(events).tp
    OBVIOUS
  <2>2. t \in Tps
    <3>1. events # <<>> /\ events \in Seq(Event)
      BY <1>1 DEF RunSchedule, Running, TypeOK
    <3>2. Head(events) \in Event
      BY <3>1, HeadTailProperties
    <3> QED
      BY <2>1, <3>2, EventParts
  <2>3. \E q : ScheduleWqeSegment(t, q, scheduling[t])
    BY <1>1, <2>1 DEF RunSchedule
  <2>4. UNCHANGED <<ordered, msnCnt, ssnCnt, sndUna, acked>>
    BY <1>1 DEF RunSchedule
  <2> QED
    BY <2>2, <2>3, <2>4, RoundStep
<1>2. ASSUME OnScheduleWqeSegmentFinish PROVE UNCHANGED jettyVars \/ \E j \in Jetties : Takes(j)
  <2>1. PICK t : t = Head(events).tp
    OBVIOUS
  <2>2. t \in Tps
    <3>1. events # <<>> /\ events \in Seq(Event)
      BY <1>2 DEF OnScheduleWqeSegmentFinish, Running, TypeOK
    <3>2. Head(events) \in Event
      BY <3>1, HeadTailProperties
    <3> QED
      BY <2>1, <3>2, EventParts
  <2>3. \E q : ScheduleWqeSegment(t, q, FALSE)
    BY <1>2, <2>1 DEF OnScheduleWqeSegmentFinish
  <2>4. UNCHANGED <<ordered, msnCnt, ssnCnt, sndUna, acked>>
    BY <1>2 DEF OnScheduleWqeSegmentFinish
  <2> QED
    BY <2>2, <2>3, <2>4, RoundStep
<1>3. ASSUME NEW t \in Tps, NEW n, RecvTpAck(t, n) PROVE UNCHANGED jettyVars
  BY <1>3 DEF RecvTpAck
<1>4. ASSUME RefuseSegment PROVE UNCHANGED jettyVars
  BY <1>4 DEF RefuseSegment
<1>5. ASSUME AckDone PROVE UNCHANGED jettyVars
  BY <1>5 DEF AckDone
<1>6. ASSUME UNCHANGED vars PROVE UNCHANGED jettyVars
  BY <1>6 DEF vars
<1> QED
  BY <1>1, <1>2, <1>3, <1>4, <1>5, <1>6 DEF Next, RunEvent, WalkAcked

\* A taken segment leaves the WQEs where they are.
LEMMA TakenShape ==
    ASSUME TypeOK, NEW j \in Jetties, Takes(j)
    PROVE  /\ \A k \in Jetties : DOMAIN wqes'[k] = DOMAIN wqes[k]
           /\ \A k \in Jetties : \A i \in DOMAIN wqes[k] :
                 /\ wqes[k][i] \in Wqe /\ wqes'[k][i] \in Wqe
                 /\ wqes'[k][i].id = wqes[k][i].id /\ wqes'[k][i].order = wqes[k][i].order
                 /\ wqes'[k][i].start = wqes[k][i].start /\ wqes'[k][i].size = wqes[k][i].size
                 /\ End(wqes'[k][i]) = End(wqes[k][i])
                 /\ ~(k = j /\ i = FirstSendable(j)) => wqes'[k][i] = wqes[k][i]
           /\ LET w == wqes[j][FirstSendable(j)]
                  v == wqes'[j][FirstSendable(j)]
              IN  v.sent = w.sent + 1
<1>1. JettyOK /\ Sendable(j) # {} /\ GetNextWqeSegment(j)
  BY DEF TypeOK, Takes, HasSegment
<1>2. PICK f : f = FirstSendable(j)
  OBVIOUS
<1>3. PICK w : w = wqes[j][f]
  OBVIOUS
<1>4. /\ f \in DOMAIN wqes[j] /\ w \in Wqe
      /\ wqes' \in [Jetties -> Seq(Wqe)]
      /\ \A k \in Jetties \ {j} : wqes'[k] = wqes[k]
      /\ DOMAIN wqes'[j] = DOMAIN wqes[j]
      /\ \A k \in DOMAIN wqes[j] : wqes'[j][k] = IF k = f THEN Sent(w) ELSE wqes[j][k]
  BY <1>1, <1>2, <1>3, TakenWqe
<1>5. /\ Sent(w) \in Wqe /\ Sent(w).sent = w.sent + 1
      /\ Sent(w).id = w.id /\ Sent(w).order = w.order
      /\ Sent(w).start = w.start /\ Sent(w).size = w.size
  BY <1>4, SentWqe
<1>6. \A k \in Jetties : wqes[k] \in Seq(Wqe)
  BY <1>1 DEF JettyOK
<1>7. \A k \in Jetties : \A i \in DOMAIN wqes[k] : wqes[k][i] \in Wqe
  BY <1>6, SeqElement
<1>8. \A k \in Jetties : DOMAIN wqes'[k] = DOMAIN wqes[k]
  BY <1>4
<1>9. ASSUME NEW k \in Jetties, NEW i \in DOMAIN wqes[k], ~(k = j /\ i = f) PROVE wqes'[k][i] = wqes[k][i]
  BY <1>4, <1>9
<1>10. wqes[j][f] = w /\ wqes'[j][f] = Sent(w)
  BY <1>3, <1>4
<1>11. ASSUME NEW k \in Jetties, NEW i \in DOMAIN wqes[k]
       PROVE /\ wqes'[k][i] \in Wqe
             /\ wqes'[k][i].id = wqes[k][i].id /\ wqes'[k][i].order = wqes[k][i].order
             /\ wqes'[k][i].start = wqes[k][i].start /\ wqes'[k][i].size = wqes[k][i].size
  <2>1. CASE k = j /\ i = f
    BY <1>5, <1>10, <2>1
  <2>2. CASE ~(k = j /\ i = f)
    BY <1>7, <1>9, <2>2
  <2> QED
    BY <2>1, <2>2
<1>12. \A k \in Jetties : \A i \in DOMAIN wqes[k] : End(wqes'[k][i]) = End(wqes[k][i])
  BY <1>11 DEF End
<1> QED
  BY <1>2, <1>5, <1>7, <1>8, <1>9, <1>10, <1>11, <1>12

LEMMA JettyTaken ==
    ASSUME TypeOK, JettyInv, NEW j \in Jetties, Takes(j)
    PROVE  JettyInv'
<1>1. PICK f : f = FirstSendable(j)
  OBVIOUS
<1>2. /\ \A k \in Jetties : DOMAIN wqes'[k] = DOMAIN wqes[k]
      /\ \A k \in Jetties : \A i \in DOMAIN wqes[k] :
            /\ wqes[k][i] \in Wqe /\ wqes'[k][i] \in Wqe
            /\ wqes'[k][i].id = wqes[k][i].id /\ wqes'[k][i].order = wqes[k][i].order
            /\ wqes'[k][i].start = wqes[k][i].start /\ wqes'[k][i].size = wqes[k][i].size
            /\ End(wqes'[k][i]) = End(wqes[k][i])
            /\ ~(k = j /\ i = f) => wqes'[k][i] = wqes[k][i]
      /\ wqes'[j][f].sent = wqes[j][f].sent + 1
  BY <1>1, TakenShape
<1>3. UNCHANGED <<ordered, msnCnt, ssnCnt, sndUna, acked>>
  BY DEF Takes
<1>4. JettyOK /\ Sendable(j) # {} /\ GetNextWqeSegment(j)
  BY DEF TypeOK, Takes, HasSegment
<1>5. PICK w : w = wqes[j][f]
  OBVIOUS
<1>6. /\ f \in DOMAIN wqes[j] /\ w \in Wqe /\ (w.canSend \/ IsOrderedByInitiator(j, w))
      /\ \A k \in Jetties : sndNxt'[k] = IF k = j THEN sndNxt[j] + 1 ELSE sndNxt[k]
  BY <1>1, <1>4, <1>5, TakenWqe
<1> SUFFICES ASSUME NEW k \in Jetties
             PROVE  WqesOK(k)' /\ OrderedOK(k)' /\ StrongOrderOf(k)' /\ WindowOK(k)'
  BY DEF JettyInv
<1>7. WqesOK(k) /\ OrderedOK(k) /\ StrongOrderOf(k) /\ WindowOK(k)
  BY DEF JettyInv
<1>8. WqesOK(k)'
  <2>1. ASSUME NEW i \in DOMAIN wqes[k] PROVE wqes'[k][i].canSend => wqes'[k][i].sent > 0
    <3>1. CASE k = j /\ i = f
      <4>1. w.sent \in Nat
        BY <1>6 DEF Wqe
      <4> QED
        BY <1>2, <1>5, <3>1, <4>1
    <3>2. CASE ~(k = j /\ i = f)
      BY <1>2, <1>7, <3>2 DEF WqesOK
    <3> QED
      BY <3>1, <3>2
  <2>2. \A i \in DOMAIN wqes'[k] :
           /\ wqes'[k][i].id < msnCnt'[k] /\ End(wqes'[k][i]) <= ssnCnt'[k]
           /\ wqes'[k][i].canSend => wqes'[k][i].sent > 0
    BY <1>2, <1>3, <1>7, <2>1 DEF WqesOK
  <2>3. \A a, b \in DOMAIN wqes'[k] :
           a < b => wqes'[k][a].id < wqes'[k][b].id /\ End(wqes'[k][a]) <= wqes'[k][b].start
    BY <1>2, <1>7 DEF WqesOK
  <2>4. ASSUME NEW x \in Nat, sndUna'[k] <= x, x < ssnCnt'[k]
        PROVE  \E i \in DOMAIN wqes'[k] : Covers(wqes'[k][i], x)
    <3>1. PICK i \in DOMAIN wqes[k] : Covers(wqes[k][i], x)
      BY <1>3, <1>7, <2>4 DEF WqesOK
    <3>2. Covers(wqes'[k][i], x)
      BY <1>2, <3>1 DEF Covers
    <3> QED
      BY <1>2, <3>2
  <2> QED
    BY <2>2, <2>3, <2>4 DEF WqesOK
<1>9. OrderedOK(k)'
  <2>1. ordered' = ordered
    BY <1>3
  <2>2. \A i \in DOMAIN ordered[k] :
           \E a \in DOMAIN wqes'[k] : wqes'[k][a].order # "NO" /\ wqes'[k][a].id = ordered[k][i]
    <3> SUFFICES ASSUME NEW i \in DOMAIN ordered[k]
                 PROVE  \E a \in DOMAIN wqes'[k] :
                           wqes'[k][a].order # "NO" /\ wqes'[k][a].id = ordered[k][i]
      OBVIOUS
    <3>1. PICK a \in DOMAIN wqes[k] : wqes[k][a].order # "NO" /\ wqes[k][a].id = ordered[k][i]
      BY <1>7 DEF OrderedOK
    <3> QED
      BY <1>2, <3>1
  <2>3. \A a \in DOMAIN wqes'[k] :
           wqes'[k][a].order # "NO" => \E i \in DOMAIN ordered[k] : ordered[k][i] = wqes'[k][a].id
    BY <1>2, <1>7 DEF OrderedOK
  <2>4. \A a, b \in DOMAIN ordered[k] : a < b => ordered[k][a] < ordered[k][b]
    BY <1>7 DEF OrderedOK
  <2> QED
    BY <2>1, <2>2, <2>3, <2>4 DEF OrderedOK
<1>10. StrongOrderOf(k)'
  <2> SUFFICES ASSUME NEW i \in DOMAIN wqes[k], NEW b \in DOMAIN wqes[k], b < i,
                      wqes[k][i].order = "SO", wqes[k][b].order # "NO"
               PROVE  wqes'[k][i].sent = 0
    BY <1>2 DEF StrongOrderOf
  <2>1. wqes[k][i].sent = 0
    BY <1>7 DEF StrongOrderOf
  <2>2. ~(k = j /\ i = f)
    <3> SUFFICES ASSUME k = j, i = f PROVE FALSE
      OBVIOUS
    <3>1. ~w.canSend
      BY <1>5, <1>7, <2>1 DEF WqesOK
    <3>2. Head(ordered[j]) = w.id
      BY <1>5, <1>6, <3>1 DEF IsOrderedByInitiator
    <3>3. PICK a \in DOMAIN ordered[j] : ordered[j][a] = wqes[j][b].id
      BY <1>7 DEF OrderedOK
    <3>4. /\ ordered[j] \in Seq(Nat) /\ DOMAIN ordered[j] = 1..Len(ordered[j])
          /\ Len(ordered[j]) \in Nat
      BY <1>4, LenProperties DEF JettyOK
    <3>5. ordered[j] # <<>>
      BY <3>3
    <3>6. 1 \in DOMAIN ordered[j] /\ Head(ordered[j]) = ordered[j][1]
      BY <3>4, <3>5, HeadTailSeq
    <3>7. ordered[j][1] <= ordered[j][a]
      <4>1. ordered[j][1] \in Nat /\ ordered[j][a] \in Nat
        BY <3>3, <3>4, <3>6, SeqElement
      <4>2. a = 1 \/ 1 < a
        BY <3>3, <3>4
      <4>3. 1 < a => ordered[j][1] < ordered[j][a]
        BY <1>7, <3>6 DEF OrderedOK
      <4> QED
        BY <4>1, <4>2, <4>3
    <3>8. wqes[j][b].id < wqes[j][f].id /\ wqes[j][b].id \in Nat /\ wqes[j][f].id \in Nat
      BY <1>2, <1>7 DEF WqesOK, Wqe
    <3> QED
      BY <1>5, <3>2, <3>3, <3>6, <3>7, <3>8
  <2> QED
    BY <1>2, <2>1, <2>2
<1>11. WindowOK(k)'
  <2>1. /\ sndNxt[k] \in Nat /\ sndUna[k] \in Nat /\ acked[k] \in SUBSET (0..(OooThreshold - 1))
        /\ sndUna'[k] = sndUna[k] /\ acked'[k] = acked[k]
    BY <1>3, <1>4 DEF JettyOK
  <2>2. sndNxt'[k] \in Nat /\ sndNxt[k] <= sndNxt'[k]
    BY <1>6, <2>1
  <2>3. sndUna[k] <= sndNxt'[k]
    BY <1>7, <2>1, <2>2 DEF WindowOK
  <2>4. \A b \in acked[k] : sndUna[k] + b < sndNxt'[k]
    <3> SUFFICES ASSUME NEW b \in acked[k] PROVE sndUna[k] + b < sndNxt'[k]
      OBVIOUS
    <3>1. sndUna[k] + b < sndNxt[k] /\ b \in Int
      BY <1>7, <2>1 DEF WindowOK
    <3> QED
      BY <2>1, <2>2, <3>1
  <2> QED
    BY <2>1, <2>3, <2>4 DEF WindowOK
<1> QED
  BY <1>8, <1>9, <1>10, <1>11

LEMMA JettyPushed ==
    ASSUME TypeOK, JettyInv, NEW j \in Jetties, NEW o \in Orders, NEW n \in WqeSizes, PushWqe(j, o, n)
    PROVE  JettyInv'
<1>1. PICK w : w = NewWqe(j, o, n)
  OBVIOUS
<1>2. JettyOK
  BY DEF TypeOK
<1>3. /\ w \in Wqe /\ n \in Nat \ {0} /\ o \in {"NO", "RO", "SO"}
      /\ wqes'[j] = Append(wqes[j], w) /\ \A k \in Jetties \ {j} : wqes'[k] = wqes[k]
      /\ ordered'[j] = IF o = "NO" THEN ordered[j] ELSE Append(ordered[j], msnCnt[j])
      /\ \A k \in Jetties \ {j} : ordered'[k] = ordered[k]
      /\ \A k \in Jetties : msnCnt'[k] = IF k = j THEN msnCnt[j] + 1 ELSE msnCnt[k]
      /\ \A k \in Jetties : ssnCnt'[k] = IF k = j THEN ssnCnt[j] + n ELSE ssnCnt[k]
      /\ UNCHANGED <<sndNxt, sndUna, acked>>
  BY <1>1, <1>2, PushedWqe
<1>4. /\ w.id = msnCnt[j] /\ w.order = o /\ w.start = ssnCnt[j] /\ w.size = n /\ w.sent = 0
      /\ w.canSend = FALSE
  BY <1>1 DEF NewWqe
<1> SUFFICES ASSUME NEW k \in Jetties
             PROVE  WqesOK(k)' /\ OrderedOK(k)' /\ StrongOrderOf(k)' /\ WindowOK(k)'
  BY DEF JettyInv
<1>5. WqesOK(k) /\ OrderedOK(k) /\ StrongOrderOf(k) /\ WindowOK(k)
  BY DEF JettyInv
<1>6. WindowOK(k)'
  BY <1>3, <1>5 DEF WindowOK
<1>7. CASE k # j
  <2>1. /\ wqes'[k] = wqes[k] /\ ordered'[k] = ordered[k] /\ msnCnt'[k] = msnCnt[k]
        /\ ssnCnt'[k] = ssnCnt[k] /\ sndUna'[k] = sndUna[k]
    BY <1>3, <1>7
  <2>2. WqesOK(k)'
    BY <1>5, <2>1 DEF WqesOK
  <2>3. OrderedOK(k)'
    BY <1>5, <2>1 DEF OrderedOK
  <2>4. StrongOrderOf(k)'
    BY <1>5, <2>1 DEF StrongOrderOf
  <2> QED
    BY <1>6, <2>2, <2>3, <2>4
<1>8. CASE k = j
  <2> DEFINE q == wqes'[j]
             N == Len(wqes[j])
  <2>1. /\ wqes[j] \in Seq(Wqe) /\ N \in Nat /\ DOMAIN wqes[j] = 1..N
        /\ ordered[j] \in Seq(Nat) /\ Len(ordered[j]) \in Nat /\ DOMAIN ordered[j] = 1..Len(ordered[j])
        /\ msnCnt[j] \in Nat /\ ssnCnt[j] \in Nat
    BY <1>2, LenProperties DEF JettyOK
  <2>2. \A i \in 1..N : wqes[j][i] \in Wqe
    BY <2>1, SeqElement
  <2>3. /\ DOMAIN q = 1..(N + 1) /\ q[N + 1] = w
        /\ \A i \in 1..N : q[i] = wqes[j][i]
    BY <1>3, <2>1, AppendProperties, LenProperties
  <2>4. \A i \in 1..N : /\ wqes[j][i].id < msnCnt[j] /\ wqes[j][i].id \in Nat
                        /\ End(wqes[j][i]) <= ssnCnt[j] /\ End(wqes[j][i]) \in Nat
    <3> SUFFICES ASSUME NEW i \in 1..N
                 PROVE  /\ wqes[j][i].id < msnCnt[j] /\ wqes[j][i].id \in Nat
                        /\ End(wqes[j][i]) <= ssnCnt[j] /\ End(wqes[j][i]) \in Nat
      OBVIOUS
    <3>1. i \in DOMAIN wqes[j] /\ wqes[j][i] \in Wqe
      BY <2>1, <2>2
    <3>2. wqes[j][i].id < msnCnt[j] /\ End(wqes[j][i]) <= ssnCnt[j]
      BY <1>5, <1>8, <3>1 DEF WqesOK
    <3>3. wqes[j][i].id \in Nat /\ End(wqes[j][i]) \in Nat
      BY <3>1 DEF Wqe, End
    <3> QED
      BY <3>2, <3>3
  <2>5. End(w) = ssnCnt[j] + n
    BY <1>4 DEF End
  <2>6. msnCnt'[j] = msnCnt[j] + 1 /\ ssnCnt'[j] = ssnCnt[j] + n
    BY <1>3
  <2> HIDE DEF q, N
  <2>7. ASSUME NEW i \in DOMAIN q
        PROVE  /\ q[i].id < msnCnt'[j] /\ End(q[i]) <= ssnCnt'[j]
               /\ q[i].canSend => q[i].sent > 0
    <3>1. CASE i = N + 1
      <4>1. q[i] = w
        BY <2>3, <3>1
      <4> QED
        BY <1>3, <1>4, <2>1, <2>5, <2>6, <4>1
    <3>2. CASE i \in 1..N
      <4>1. q[i] = wqes[j][i]
        BY <2>3, <3>2
      <4>2. wqes[j][i].canSend => wqes[j][i].sent > 0
        BY <1>5, <1>8, <2>1, <3>2 DEF WqesOK
      <4>3. /\ wqes[j][i].id < msnCnt[j] /\ wqes[j][i].id \in Nat
            /\ End(wqes[j][i]) <= ssnCnt[j] /\ End(wqes[j][i]) \in Nat
        BY <2>4, <3>2
      <4>4. /\ msnCnt'[j] = msnCnt[j] + 1 /\ ssnCnt'[j] = ssnCnt[j] + n
            /\ msnCnt[j] \in Nat /\ ssnCnt[j] \in Nat /\ n \in Nat
        BY <1>3, <1>4, <2>1, <2>6
      <4>5. wqes[j][i].id < msnCnt'[j] /\ End(wqes[j][i]) <= ssnCnt'[j]
        BY <4>3, <4>4
      <4> QED
        BY <4>1, <4>2, <4>5
    <3> QED
      BY <2>1, <2>3, <3>1, <3>2
  <2>8. ASSUME NEW a \in DOMAIN q, NEW b \in DOMAIN q, a < b
        PROVE  q[a].id < q[b].id /\ End(q[a]) <= q[b].start
    <3>1. a \in 1..N /\ q[a] = wqes[j][a]
      BY <2>1, <2>3, <2>8
    <3>2. CASE b = N + 1
      BY <1>4, <2>3, <2>4, <3>1, <3>2
    <3>3. CASE b \in 1..N
      BY <1>5, <1>8, <2>1, <2>3, <2>8, <3>1, <3>3 DEF WqesOK
    <3> QED
      BY <2>1, <2>3, <3>2, <3>3
  <2>9. ASSUME NEW x \in Nat, sndUna'[j] <= x, x < ssnCnt'[j]
        PROVE  \E i \in DOMAIN q : Covers(q[i], x)
    <3>1. CASE x < ssnCnt[j]
      <4>1. PICK i \in DOMAIN wqes[j] : Covers(wqes[j][i], x)
        BY <1>3, <1>5, <1>8, <2>9, <3>1 DEF WqesOK
      <4>2. i \in DOMAIN q /\ q[i] = wqes[j][i]
        BY <2>1, <2>3
      <4> QED
        BY <4>1, <4>2
    <3>2. CASE ~(x < ssnCnt[j])
      <4>1. w.start <= x /\ x < End(w)
        BY <1>3, <1>4, <2>1, <2>5, <2>6, <2>9, <3>2
      <4>2. N + 1 \in DOMAIN q
        BY <2>1, <2>3
      <4> QED
        BY <2>3, <4>1, <4>2 DEF Covers
    <3> QED
      BY <3>1, <3>2
  <2>10. WqesOK(j)'
    BY <2>7, <2>8, <2>9 DEF WqesOK, q
  <2>11. StrongOrderOf(j)'
    <3> SUFFICES ASSUME NEW i \in DOMAIN q, NEW b \in DOMAIN q, b < i,
                        q[i].order = "SO", q[b].order # "NO"
                 PROVE  q[i].sent = 0
      BY DEF StrongOrderOf, q
    <3>1. CASE i = N + 1
      BY <1>4, <2>3, <3>1
    <3>2. CASE i \in 1..N
      <4>1. b \in 1..N /\ q[i] = wqes[j][i] /\ q[b] = wqes[j][b]
        BY <2>1, <2>3, <3>2
      <4> QED
        BY <1>5, <1>8, <2>1, <3>2, <4>1 DEF StrongOrderOf
    <3> QED
      BY <2>1, <2>3, <3>1, <3>2
  <2>12. OrderedOK(j)'
    <3> DEFINE r == ordered'[j]
               M == Len(ordered[j])
    <3>1. \A i \in 1..M : ordered[j][i] < msnCnt[j] /\ ordered[j][i] \in Nat
      <4> SUFFICES ASSUME NEW i \in 1..M PROVE ordered[j][i] < msnCnt[j] /\ ordered[j][i] \in Nat
        OBVIOUS
      <4>1. PICK a \in DOMAIN wqes[j] : wqes[j][a].order # "NO" /\ wqes[j][a].id = ordered[j][i]
        BY <1>5, <1>8, <2>1 DEF OrderedOK
      <4> QED
        BY <2>1, <2>4, <4>1
    <3>2. \A i \in 1..M : \E a \in DOMAIN q : q[a].order # "NO" /\ q[a].id = ordered[j][i]
      <4> SUFFICES ASSUME NEW i \in 1..M
                   PROVE  \E a \in DOMAIN q : q[a].order # "NO" /\ q[a].id = ordered[j][i]
        OBVIOUS
      <4>1. PICK a \in DOMAIN wqes[j] : wqes[j][a].order # "NO" /\ wqes[j][a].id = ordered[j][i]
        BY <1>5, <1>8, <2>1 DEF OrderedOK
      <4>2. a \in DOMAIN q /\ q[a] = wqes[j][a]
        BY <2>1, <2>3
      <4> QED
        BY <4>1, <4>2
    <3>3. CASE o = "NO"
      <4>1. r = ordered[j]
        BY <1>3, <3>3
      <4>2. \A a \in DOMAIN q : q[a].order # "NO" => \E i \in DOMAIN r : r[i] = q[a].id
        <5> SUFFICES ASSUME NEW a \in DOMAIN q, q[a].order # "NO"
                     PROVE  \E i \in DOMAIN r : r[i] = q[a].id
          OBVIOUS
        <5>1. a \in 1..N /\ q[a] = wqes[j][a]
          BY <1>4, <2>1, <2>3, <3>3
        <5> QED
          <6>1. a \in DOMAIN wqes[j] /\ wqes[j][a].order # "NO"
            BY <2>1, <5>1
          <6>2. PICK i \in DOMAIN ordered[j] : ordered[j][i] = wqes[j][a].id
            BY <1>5, <1>8, <6>1 DEF OrderedOK
          <6> QED
            BY <4>1, <5>1, <6>2
      <4>3. \A a, b \in DOMAIN r : a < b => r[a] < r[b]
        BY <1>5, <1>8, <4>1 DEF OrderedOK
      <4>4. \A i \in DOMAIN r : \E a \in DOMAIN q : q[a].order # "NO" /\ q[a].id = r[i]
        BY <2>1, <3>2, <4>1
      <4> QED
        BY <4>2, <4>3, <4>4 DEF OrderedOK, q
    <3>4. CASE o # "NO"
      <4>1. r = Append(ordered[j], msnCnt[j])
        BY <1>3, <3>4
      <4>2. /\ DOMAIN r = 1..(M + 1) /\ r[M + 1] = msnCnt[j]
            /\ \A i \in 1..M : r[i] = ordered[j][i]
        BY <2>1, <4>1, AppendProperties, LenProperties
      <4> HIDE DEF r, M
      <4>3. ASSUME NEW a \in DOMAIN q, q[a].order # "NO"
            PROVE  \E i \in DOMAIN r : r[i] = q[a].id
        <5>1. CASE a = N + 1
          <6>1. M + 1 \in DOMAIN r /\ r[M + 1] = q[a].id
            BY <1>4, <2>1, <2>3, <4>2, <5>1 DEF M
          <6> QED
            BY <6>1
        <5>2. CASE a \in 1..N
          <6>1. PICK i \in DOMAIN ordered[j] : ordered[j][i] = wqes[j][a].id
            BY <1>5, <1>8, <2>1, <2>3, <4>3, <5>2 DEF OrderedOK
          <6>2. i \in DOMAIN r /\ r[i] = q[a].id
            BY <2>1, <2>3, <4>2, <5>2, <6>1 DEF M
          <6> QED
            BY <6>2
        <5> QED
          BY <2>1, <2>3, <5>1, <5>2
      <4>4. ASSUME NEW a \in DOMAIN r, NEW b \in DOMAIN r, a < b PROVE r[a] < r[b]
        <5>1. M \in Nat /\ DOMAIN ordered[j] = 1..M
          BY <2>1 DEF M
        <5>2. a \in 1..M /\ r[a] = ordered[j][a]
          BY <4>2, <4>4, <5>1
        <5>3. CASE b = M + 1
          BY <3>1, <4>2, <5>2, <5>3
        <5>4. CASE b \in 1..M
          BY <1>5, <1>8, <4>2, <4>4, <5>1, <5>2, <5>4 DEF OrderedOK
        <5> QED
          BY <4>2, <5>1, <5>3, <5>4
      <4>5. ASSUME NEW i \in DOMAIN r PROVE \E a \in DOMAIN q : q[a].order # "NO" /\ q[a].id = r[i]
        <5>1. CASE i = M + 1
          <6>1. N + 1 \in DOMAIN q /\ q[N + 1].order # "NO" /\ q[N + 1].id = r[i]
            BY <1>4, <2>1, <2>3, <3>4, <4>2, <5>1
          <6> QED
            BY <6>1
        <5>2. CASE i \in 1..M
          BY <3>2, <4>2, <5>2
        <5>3. M \in Nat
          BY <2>1 DEF M
        <5> QED
          BY <4>2, <5>1, <5>2, <5>3
      <4> QED
        BY <4>3, <4>4, <4>5 DEF OrderedOK, q, r
    <3> QED
      BY <3>3, <3>4
  <2> QED
    BY <1>6, <1>8, <2>10, <2>11, <2>12
<1> QED
  BY <1>7, <1>8

\* What is left of the WQEs when those that are complete at u are erased.
LEMMA LeftWqes ==
    ASSUME JettyOK, NEW j \in Jetties, NEW u, RemoveCompleted(j, u)
    PROVE  \E m \in [DOMAIN wqes'[j] -> DOMAIN wqes[j]] :
              /\ \A i, k \in DOMAIN wqes'[j] : i < k => m[i] < m[k]
              /\ \A i \in DOMAIN wqes'[j] : wqes'[j][i] = wqes[j][m[i]]
              /\ \A i \in DOMAIN wqes'[j] : ~IsWqeCompleted(wqes[j][m[i]], u)
              /\ \A n \in DOMAIN wqes[j] :
                    ~IsWqeCompleted(wqes[j][n], u) => \E i \in DOMAIN wqes'[j] : m[i] = n
<1>1. PICK done : done = {w \in ToSet(wqes[j]) : IsWqeCompleted(w, u)}
  OBVIOUS
<1>2. PICK m : IsErasure(wqes'[j], wqes[j], done, m)
  BY <1>1, RemovedWqes
<1>3. \A n \in DOMAIN wqes[j] : wqes[j][n] \in done <=> IsWqeCompleted(wqes[j][n], u)
  BY <1>1 DEF ToSet
<1>4. PICK q : q = wqes'[j]
  OBVIOUS
<1>5. IsErasure(q, wqes[j], done, m)
  BY <1>2, <1>4
<1>6. m \in [DOMAIN q -> DOMAIN wqes[j]]
  BY <1>5 DEF IsErasure
<1>7. \A i \in DOMAIN q : m[i] \in DOMAIN wqes[j]
  BY <1>6
<1>8. \A i \in DOMAIN q : ~IsWqeCompleted(wqes[j][m[i]], u)
  BY <1>3, <1>5, <1>7 DEF IsErasure
<1>9. \A n \in DOMAIN wqes[j] :
         ~IsWqeCompleted(wqes[j][n], u) => \E i \in DOMAIN q : m[i] = n
  BY <1>3, <1>5 DEF IsErasure
<1>10. /\ \A i, k \in DOMAIN q : i < k => m[i] < m[k]
       /\ \A i \in DOMAIN q : q[i] = wqes[j][m[i]]
  BY <1>5 DEF IsErasure
<1> QED
  BY <1>4, <1>6, <1>8, <1>9, <1>10

LEMMA JettyCompleted ==
    ASSUME TypeOK, JettyInv, CompleteSegment
    PROVE  JettyInv'
<1>1. PICK s, j, bits, n : WindowMoves(s, j, bits, n)
  BY CompletedWindow
<1>5. /\ j \in Jetties /\ s.ssn \in Nat /\ InWindow(j, s.ssn)
      /\ s.ssn - sndUna[j] \in 0..(OooThreshold - 1)
      /\ bits \in SUBSET (0..(OooThreshold - 1))
      /\ n \in Nat /\ n \notin bits /\ \A i \in 0..(n - 1) : i \in bits
      /\ \A k \in Jetties : sndUna'[k] = IF k = j THEN sndUna[j] + n ELSE sndUna[k]
      /\ \A k \in Jetties : acked'[k] = IF k = j THEN RightShiftBitset(bits, n) ELSE acked[k]
      /\ RemoveCompleted(j, sndUna[j] + n)
      /\ UNCHANGED <<msnCnt, ssnCnt, sndNxt>>
  BY <1>1 DEF WindowMoves
<1>6. JettyOK
  BY DEF TypeOK
<1>7. PICK u : u = sndUna[j] + n
  OBVIOUS
<1>8. PICK ids : ids = {w.id : w \in {w \in ToSet(wqes[j]) : IsWqeCompleted(w, u)}}
  OBVIOUS
<1>9. RemoveCompleted(j, u)
  BY <1>5, <1>7
<1>10. /\ \A k \in Jetties \ {j} : wqes'[k] = wqes[k]
       /\ \A k \in Jetties \ {j} : ordered'[k] = ordered[k]
  BY <1>5, <1>6, <1>9, RemovedWqes, RemovedIds
<1>11. /\ sndUna[j] \in Nat /\ sndNxt[j] \in Nat /\ u \in Nat /\ sndUna[j] <= u
       /\ sndUna'[j] = u
  <2>1. sndUna[j] \in Nat /\ sndNxt[j] \in Nat
    BY <1>5, <1>6 DEF JettyOK
  <2>2. sndUna'[j] = u
    BY <1>5, <1>7
  <2>3. \A a, b \in Nat : a + b \in Nat /\ a <= a + b
    OBVIOUS
  <2> QED
    BY <1>5, <1>7, <2>1, <2>2, <2>3
<1> SUFFICES ASSUME NEW k \in Jetties
             PROVE  WqesOK(k)' /\ OrderedOK(k)' /\ StrongOrderOf(k)' /\ WindowOK(k)'
  BY DEF JettyInv
<1>12. WqesOK(k) /\ OrderedOK(k) /\ StrongOrderOf(k) /\ WindowOK(k)
  BY DEF JettyInv
<1>13. CASE k # j
  <2>1. /\ wqes'[k] = wqes[k] /\ ordered'[k] = ordered[k] /\ msnCnt'[k] = msnCnt[k]
        /\ ssnCnt'[k] = ssnCnt[k] /\ sndUna'[k] = sndUna[k] /\ acked'[k] = acked[k]
        /\ sndNxt'[k] = sndNxt[k]
    BY <1>5, <1>10, <1>13
  <2>2. WqesOK(k)'
    BY <1>12, <2>1 DEF WqesOK
  <2>3. OrderedOK(k)'
    BY <1>12, <2>1 DEF OrderedOK
  <2>4. StrongOrderOf(k)'
    BY <1>12, <2>1 DEF StrongOrderOf
  <2>5. WindowOK(k)'
    BY <1>12, <2>1 DEF WindowOK
  <2> QED
    BY <2>2, <2>3, <2>4, <2>5
<1>14. CASE k = j
  <2>1. PICK q : q = wqes'[j]
    OBVIOUS
  <2>2. PICK p : p = wqes[j]
    OBVIOUS
  <2>3. PICK m \in [DOMAIN q -> DOMAIN p] :
           /\ \A a, b \in DOMAIN q : a < b => m[a] < m[b]
           /\ \A i \in DOMAIN q : q[i] = p[m[i]]
           /\ \A i \in DOMAIN q : ~IsWqeCompleted(p[m[i]], u)
           /\ \A i \in DOMAIN p : ~IsWqeCompleted(p[i], u) => \E a \in DOMAIN q : m[a] = i
    BY <1>5, <1>6, <1>9, <2>1, <2>2, LeftWqes
  <2>4. \A i \in DOMAIN q : m[i] \in DOMAIN p
    BY <2>3
  <2>5. /\ \A i \in DOMAIN p :
              /\ p[i].id < msnCnt[j] /\ End(p[i]) <= ssnCnt[j]
              /\ p[i].canSend => p[i].sent > 0
        /\ \A a, b \in DOMAIN p :
              a < b => p[a].id < p[b].id /\ End(p[a]) <= p[b].start
        /\ \A x \in Nat :
              sndUna[j] <= x /\ x < ssnCnt[j] => \E i \in DOMAIN p : Covers(p[i], x)
    BY <1>12, <1>14, <2>2 DEF WqesOK
  <2>6. /\ p \in Seq(Wqe) /\ Len(p) \in Nat /\ DOMAIN p = 1..Len(p)
        /\ \A i \in DOMAIN p : p[i] \in Wqe
    BY <1>5, <1>6, <2>2, LenProperties, SeqElement DEF JettyOK
  <2>7. msnCnt'[j] = msnCnt[j] /\ ssnCnt'[j] = ssnCnt[j] /\ sndNxt'[j] = sndNxt[j]
    BY <1>5
  <2>8. WqesOK(j)'
    <3>1. \A i \in DOMAIN q :
             /\ q[i].id < msnCnt[j] /\ End(q[i]) <= ssnCnt[j]
             /\ q[i].canSend => q[i].sent > 0
      BY <2>3, <2>4, <2>5
    <3>2. \A a, b \in DOMAIN q : a < b => q[a].id < q[b].id /\ End(q[a]) <= q[b].start
      BY <2>3, <2>4, <2>5
    <3>3. ASSUME NEW x \in Nat, u <= x, x < ssnCnt[j]
          PROVE  \E i \in DOMAIN q : Covers(q[i], x)
      <4>1. sndUna[j] <= x
        BY <1>11, <3>3
      <4>2. PICK i \in DOMAIN p : Covers(p[i], x)
        BY <2>5, <3>3, <4>1
      <4>3. ~IsWqeCompleted(p[i], u)
        <5>1. p[i].start \in Nat /\ p[i].size \in Nat /\ x < p[i].start + p[i].size
          BY <2>6, <4>2 DEF Wqe, Covers, End
        <5>2. ~(p[i].start + p[i].size - 1 < u)
          BY <1>11, <3>3, <5>1
        <5> QED
          BY <5>2 DEF IsWqeCompleted
      <4>4. PICK a \in DOMAIN q : m[a] = i
        BY <2>3, <4>3
      <4> QED
        BY <2>3, <4>2, <4>4
    <3> QED
      BY <1>11, <2>1, <2>7, <3>1, <3>2, <3>3 DEF WqesOK
  <2>9. StrongOrderOf(j)'
    <3>1. \A a, b \in DOMAIN p : b < a /\ p[a].order = "SO" /\ p[b].order # "NO" => p[a].sent = 0
      BY <1>12, <1>14, <2>2 DEF StrongOrderOf
    <3>2. \A a, b \in DOMAIN q : b < a /\ q[a].order = "SO" /\ q[b].order # "NO" => q[a].sent = 0
      BY <2>3, <2>4, <3>1
    <3> QED
      BY <2>1, <3>2 DEF StrongOrderOf
  <2>10. WindowOK(j)'
    <3>1. \A b \in bits : b \in Nat /\ sndUna[j] + b < sndNxt[j]
      <4> SUFFICES ASSUME NEW b \in bits PROVE b \in Nat /\ sndUna[j] + b < sndNxt[j]
        OBVIOUS
      <4>1. b \in Nat
        BY <1>5
      <4>2. CASE b \in acked[j]
        BY <1>12, <1>14, <4>1, <4>2 DEF WindowOK
      <4>3. CASE b = s.ssn - sndUna[j]
        <5>1. s.ssn \in Nat /\ s.ssn < sndNxt[j]
          BY <1>5 DEF InWindow
        <5>2. \A a, c \in Nat : c + (a - c) = a
          OBVIOUS
        <5> QED
          BY <1>11, <4>1, <4>3, <5>1, <5>2
      <4> QED
        BY <1>1, <4>2, <4>3 DEF WindowMoves
    <3>2. u <= sndNxt[j]
      <4>1. CASE n = 0
        <5>1. sndUna[j] <= sndNxt[j]
          BY <1>12, <1>14 DEF WindowOK
        <5> QED
          BY <1>7, <1>11, <4>1, <5>1
      <4>2. CASE n # 0
        <5>1. n - 1 \in 0..(n - 1)
          BY <1>5, <4>2
        <5>2. n - 1 \in bits
          BY <1>5, <5>1, Zenon
        <5>3. sndUna[j] + (n - 1) < sndNxt[j]
          BY <3>1, <5>2
        <5>4. \A a, b, c \in Nat : a + (b - 1) < c => a + b <= c
          OBVIOUS
        <5> QED
          BY <1>5, <1>7, <1>11, <5>3, <5>4
      <4> QED
        BY <4>1, <4>2
    <3>3. \A b \in RightShiftBitset(bits, n) : u + b < sndNxt[j]
      <4> SUFFICES ASSUME NEW b \in RightShiftBitset(bits, n) PROVE u + b < sndNxt[j]
        OBVIOUS
      <4>1. PICK i \in bits : i >= n /\ b = i - n
        BY DEF RightShiftBitset
      <4>2. i \in Nat /\ sndUna[j] + i < sndNxt[j]
        BY <3>1
      <4>3. \A a, c, d \in Nat : (a + c) + (d - c) = a + d
        OBVIOUS
      <4>4. u + b = sndUna[j] + i
        BY <1>5, <1>7, <1>11, <4>1, <4>2, <4>3
      <4> QED
        BY <4>2, <4>4
    <3>4. acked'[j] = RightShiftBitset(bits, n)
      BY <1>5
    <3> QED
      BY <1>11, <2>7, <3>2, <3>3, <3>4 DEF WindowOK
  <2>11. OrderedOK(j)'
    <3>1. PICK r : r = ordered'[j]
      OBVIOUS
    <3>2. PICK e : e = ordered[j]
      OBVIOUS
    <3>3. PICK f : IsErasure(r, e, ids, f)
      BY <1>5, <1>6, <1>8, <1>9, <3>1, <3>2, RemovedIds
    <3>4. /\ f \in [DOMAIN r -> DOMAIN e]
          /\ \A a, b \in DOMAIN r : a < b => f[a] < f[b]
          /\ \A i \in DOMAIN r : e[f[i]] \notin ids /\ r[i] = e[f[i]]
          /\ \A i \in DOMAIN e : e[i] \notin ids => \E a \in DOMAIN r : f[a] = i
      BY <3>3 DEF IsErasure
    <3>5. \A i \in DOMAIN r : f[i] \in DOMAIN e
      BY <3>4
    <3>6. /\ \A a, b \in DOMAIN e : a < b => e[a] < e[b]
          /\ \A i \in DOMAIN e : \E k1 \in DOMAIN p : p[k1].order # "NO" /\ p[k1].id = e[i]
          /\ \A k1 \in DOMAIN p : p[k1].order # "NO" => \E i \in DOMAIN e : e[i] = p[k1].id
      BY <1>12, <1>14, <2>2, <3>2 DEF OrderedOK
    <3>7. \A i \in DOMAIN p : p[i].id \in ids <=> IsWqeCompleted(p[i], u)
      <4> SUFFICES ASSUME NEW i \in DOMAIN p PROVE p[i].id \in ids <=> IsWqeCompleted(p[i], u)
        OBVIOUS
      <4>1. IsWqeCompleted(p[i], u) => p[i].id \in ids
        BY <1>8, <2>2 DEF ToSet
      <4>2. ASSUME p[i].id \in ids PROVE IsWqeCompleted(p[i], u)
        <5>1. PICK w \in ToSet(p) : IsWqeCompleted(w, u) /\ w.id = p[i].id
          BY <1>8, <2>2, <4>2
        <5>2. PICK a \in DOMAIN p : w = p[a]
          BY <5>1 DEF ToSet
        <5>3. a = i
          <6>1. p[a].id \in Nat /\ p[i].id \in Nat /\ a \in Nat /\ i \in Nat
            BY <2>6 DEF Wqe
          <6>2. ~(p[a].id < p[i].id) /\ ~(p[i].id < p[a].id)
            BY <5>1, <5>2, <6>1
          <6>3. ~(a < i) /\ ~(i < a)
            BY <2>5, <6>2
          <6> QED
            BY <6>1, <6>3
        <5> QED
          BY <5>1, <5>2, <5>3
      <4> QED
        BY <4>1, <4>2
    <3>8. \A a, b \in DOMAIN r : a < b => r[a] < r[b]
      BY <3>4, <3>5, <3>6
    <3>9. ASSUME NEW i \in DOMAIN r
          PROVE  \E a \in DOMAIN q : q[a].order # "NO" /\ q[a].id = r[i]
      <4>1. PICK k1 \in DOMAIN p : p[k1].order # "NO" /\ p[k1].id = e[f[i]]
        BY <3>5, <3>6
      <4>2. ~IsWqeCompleted(p[k1], u)
        BY <3>4, <3>7, <4>1
      <4>3. PICK a \in DOMAIN q : m[a] = k1
        BY <2>3, <4>2
      <4> QED
        BY <2>3, <3>4, <4>1, <4>3
    <3>10. ASSUME NEW a \in DOMAIN q, q[a].order # "NO"
           PROVE  \E i \in DOMAIN r : r[i] = q[a].id
      <4>1. m[a] \in DOMAIN p /\ q[a] = p[m[a]] /\ ~IsWqeCompleted(p[m[a]], u)
        BY <2>3, <2>4
      <4>2. PICK i \in DOMAIN e : e[i] = p[m[a]].id
        BY <3>6, <3>10, <4>1
      <4>3. e[i] \notin ids
        BY <3>7, <4>1, <4>2
      <4>4. PICK b \in DOMAIN r : f[b] = i
        BY <3>4, <4>3
      <4> QED
        BY <3>4, <4>1, <4>2, <4>4
    <3> QED
      BY <2>1, <3>1, <3>8, <3>9, <3>10 DEF OrderedOK
  <2> QED
    BY <1>14, <2>8, <2>9, <2>10, <2>11
<1> QED
  BY <1>13, <1>14

LEMMA JettyInit == Init => JettyInv
  BY DEF Init, JettyInv, WqesOK, OrderedOK, StrongOrderOf, WindowOK

LEMMA JettyStep == TypeOK /\ JettyInv /\ [Next]_vars => JettyInv'
<1> SUFFICES ASSUME TypeOK, JettyInv, [Next]_vars PROVE JettyInv'
  OBVIOUS
<1>1. CASE UNCHANGED jettyVars
  BY <1>1 DEF jettyVars, JettyInv, WqesOK, OrderedOK, StrongOrderOf, WindowOK
<1>2. ASSUME NEW j \in Jetties, Takes(j) PROVE JettyInv'
  BY <1>2, JettyTaken
<1>3. ASSUME NEW j \in Jetties, NEW o \in Orders, NEW n \in WqeSizes, PushWqe(j, o, n) PROVE JettyInv'
  BY <1>3, JettyPushed
<1>4. CASE CompleteSegment
  BY <1>4, JettyCompleted
<1> QED
  BY <1>1, <1>2, <1>3, <1>4, JettySteps

LEMMA JettyAlways == Spec => [](TypeOK /\ JettyInv)
<1>1. Init => TypeOK /\ JettyInv
  BY TypeInit, JettyInit
<1>2. (TypeOK /\ JettyInv) /\ [Next]_vars => (TypeOK /\ JettyInv)'
  BY TypeStep, JettyStep
<1> QED
  BY <1>1, <1>2, PTL DEF Spec

\* UbJetty::GetNextWqeSegment in mode ROI: for any number of jetties, channels and
\* WQEs, and whatever completes in between, no segment of an SO WQE is taken before
\* the RO and SO WQEs pushed to its jetty before it are complete.
THEOREM StrongOrderKept == Spec => []StrongOrder
<1>1. TypeOK /\ JettyInv => StrongOrder
  BY DEF JettyInv, StrongOrderOf, StrongOrder
<1> QED
  BY <1>1, JettyAlways, PTL
(***************************************************************************)
(* The segments that are outstanding, and what moves them.                 *)
(***************************************************************************)

LEMMA InfoOK ==
    ASSUME NEW t \in Tps, NEW s \in Segment
    PROVE  /\ Info(t, s) \in InfoSet
           /\ Info(t, s).tp = t /\ Info(t, s).jetty = s.jetty
           /\ Info(t, s).wqe = s.wqe /\ Info(t, s).ssn = s.ssn
  BY DEF Info, InfoSet, Segment

LEMMA InfoSame ==
    ASSUME NEW t \in Tps, NEW s \in Segment, NEW u \in Tps, NEW r \in Segment, Info(t, s) = Info(u, r)
    PROVE  t = u /\ SameSsn(s, r)
  BY InfoOK DEF SameSsn

\* The same segments are outstanding at both.
SameSegments(v, e, w, d) == \A c : c \in UncompletedIn(w, d) <=> c \in UncompletedIn(v, e)

LEMMA UncompletedHas ==
    ASSUME NEW v, NEW e, NEW c
    PROVE  c \in UncompletedIn(v, e) <=>
             /\ c \in InfoSet
             /\ \/ \E i \in DOMAIN v[c.tp] : Info(c.tp, v[c.tp][i]) = c
                \/ \E k \in DOMAIN e : e[k].kind = "finish" /\ Info(e[k].tp, e[k].seg) = c
  BY DEF UncompletedIn

LEMMA UncompletedPlace ==
    ASSUME NEW v, NEW e, NEW c \in UncompletedIn(v, e)
    PROVE  /\ c \in InfoSet /\ c.tp \in Tps
           /\ \/ \E i \in DOMAIN v[c.tp] : Info(c.tp, v[c.tp][i]) = c
              \/ \E k \in DOMAIN e : e[k].kind = "finish" /\ Info(e[k].tp, e[k].seg) = c
  BY DEF UncompletedIn, InfoSet

LEMMA VectorUncompleted ==
    ASSUME NEW v \in [Tps -> Seq(Segment)], NEW e, NEW t \in Tps, NEW i \in DOMAIN v[t]
    PROVE  Info(t, v[t][i]) \in UncompletedIn(v, e)
<1>1. v[t][i] \in Segment
  BY SeqElement
<1>2. Info(t, v[t][i]) \in InfoSet /\ Info(t, v[t][i]).tp = t
  BY <1>1, InfoOK
<1> QED
  BY <1>2, UncompletedHas

LEMMA FinishUncompleted ==
    ASSUME NEW v, NEW e \in Seq(Event), NEW k \in DOMAIN e, e[k].kind = "finish"
    PROVE  /\ Info(e[k].tp, e[k].seg) \in UncompletedIn(v, e)
           /\ e[k].tp \in Tps /\ e[k].seg \in Segment
<1>1. e[k] \in Event
  BY SeqElement
<1>2. e[k].tp \in Tps /\ e[k].seg \in Segment
  BY <1>1, EventParts
<1>3. Info(e[k].tp, e[k].seg) \in InfoSet
  BY <1>2, InfoOK
<1> QED
  BY <1>2, <1>3, UncompletedHas

\* Rounds that are asked for carry no segment.
LEMMA RoundsCarryNone ==
    ASSUME NEW v \in [Tps -> Seq(Segment)], NEW e \in Seq(Event), NEW x \in Seq(Event), OnlyRounds(x),
           DistinctIn(v, e), NEW d, d = e \o x
    PROVE  DistinctIn(v, d) /\ UncompletedIn(v, d) = UncompletedIn(v, e)
<1>1. /\ d \in Seq(Event)
      /\ \A i \in DOMAIN e : i \in DOMAIN d /\ d[i] = e[i]
      /\ \A i \in DOMAIN d : (i \in DOMAIN e /\ d[i] = e[i]) \/ \E k \in DOMAIN x : d[i] = x[k]
  BY ConcatParts
<1>2. \A i \in DOMAIN d : d[i].kind = "finish" => i \in DOMAIN e /\ d[i] = e[i]
  BY <1>1 DEF OnlyRounds
<1>3. DistinctIn(v, d)
  BY <1>2 DEF DistinctIn
<1>4. ASSUME NEW c PROVE c \in UncompletedIn(v, d) <=> c \in UncompletedIn(v, e)
  <2>1. ASSUME NEW k \in DOMAIN e, e[k].kind = "finish", Info(e[k].tp, e[k].seg) = c
        PROVE  \E i \in DOMAIN d : d[i].kind = "finish" /\ Info(d[i].tp, d[i].seg) = c
    BY <1>1, <2>1
  <2>2. ASSUME NEW k \in DOMAIN d, d[k].kind = "finish", Info(d[k].tp, d[k].seg) = c
        PROVE  \E i \in DOMAIN e : e[i].kind = "finish" /\ Info(e[i].tp, e[i].seg) = c
    BY <1>2, <2>2
  <2> QED
    BY <2>1, <2>2, UncompletedHas
<1> QED
  BY <1>3, <1>4

\* Nor does the round that is run.
LEMMA RoundRunCarriesNone ==
    ASSUME NEW v \in [Tps -> Seq(Segment)], NEW e \in Seq(Event), e # <<>>, Head(e).kind # "finish",
           DistinctIn(v, e), NEW d, d = Tail(e)
    PROVE  d \in Seq(Event) /\ DistinctIn(v, d) /\ UncompletedIn(v, d) = UncompletedIn(v, e)
<1>1. /\ d \in Seq(Event) /\ 1 \in DOMAIN e /\ Head(e) = e[1]
      /\ \A i \in DOMAIN d : i + 1 \in DOMAIN e /\ d[i] = e[i + 1]
  BY HeadTailSeq
<1>2. \A i \in DOMAIN e : i # 1 => i - 1 \in DOMAIN d /\ d[i - 1] = e[i]
  BY <1>1
<1>3. DOMAIN d \subseteq Nat /\ DOMAIN e \subseteq Nat
  BY <1>1
<1>4. DistinctIn(v, d)
  BY <1>1, <1>3 DEF DistinctIn
<1>5. ASSUME NEW c PROVE c \in UncompletedIn(v, d) <=> c \in UncompletedIn(v, e)
  <2>1. ASSUME NEW k \in DOMAIN e, e[k].kind = "finish", Info(e[k].tp, e[k].seg) = c
        PROVE  \E i \in DOMAIN d : d[i].kind = "finish" /\ Info(d[i].tp, d[i].seg) = c
    <3>1. k # 1
      BY <1>1, <2>1
    <3> QED
      BY <1>2, <2>1, <3>1
  <2>2. ASSUME NEW k \in DOMAIN d, d[k].kind = "finish", Info(d[k].tp, d[k].seg) = c
        PROVE  \E i \in DOMAIN e : e[i].kind = "finish" /\ Info(e[i].tp, e[i].seg) = c
    BY <1>1, <2>2
  <2> QED
    BY <2>1, <2>2, UncompletedHas
<1> QED
  BY <1>1, <1>4, <1>5

\* A segment that reaches the vector of its channel, whatever number it gets.
LEMMA FinishMoves ==
    ASSUME NEW v \in [Tps -> Seq(Segment)], NEW e \in Seq(Event), e # <<>>, Head(e).kind = "finish",
           NEW t \in Tps, t = Head(e).tp, NEW s \in Segment, Info(t, s) = Info(t, Head(e).seg),
           NEW w \in [Tps -> Seq(Segment)], w[t] = Append(v[t], s), \A u \in Tps \ {t} : w[u] = v[u],
           DistinctIn(v, e), NEW d, d = Tail(e)
    PROVE  /\ d \in Seq(Event) /\ DistinctIn(w, d)
           /\ SameSegments(v, e, w, d)
<1>1. /\ d \in Seq(Event) /\ 1 \in DOMAIN e /\ Head(e) = e[1]
      /\ \A i \in DOMAIN d : i + 1 \in DOMAIN e /\ d[i] = e[i + 1]
  BY HeadTailSeq
<1>2. \A i \in DOMAIN e : i # 1 => i - 1 \in DOMAIN d /\ d[i - 1] = e[i]
  BY <1>1
<1>3. DOMAIN d \subseteq Nat /\ DOMAIN e \subseteq Nat
  BY <1>1
<1>4. e[1].kind = "finish" /\ e[1].tp = t /\ e[1].seg \in Segment
  BY <1>1, FinishUncompleted
<1>5. SameSsn(s, e[1].seg) /\ SameSsn(e[1].seg, s)
  BY <1>1, <1>4, InfoSame DEF SameSsn
<1>6. /\ v[t] \in Seq(Segment) /\ Len(v[t]) \in Nat /\ DOMAIN v[t] = 1..Len(v[t])
      /\ w[t] = Append(v[t], s) /\ \A u \in Tps \ {t} : w[u] = v[u]
  BY LenProperties
<1>7. /\ DOMAIN w[t] = 1..(Len(v[t]) + 1) /\ w[t][Len(v[t]) + 1] = s
      /\ \A i \in DOMAIN v[t] : i \in DOMAIN w[t] /\ w[t][i] = v[t][i]
  BY <1>6, AppendProperties
<1>8. \A u \in Tps : \A i \in DOMAIN w[u] :
         \/ i \in DOMAIN v[u] /\ w[u][i] = v[u][i]
         \/ u = t /\ i = Len(v[t]) + 1 /\ w[u][i] = s
  <2> SUFFICES ASSUME NEW u \in Tps, NEW i \in DOMAIN w[u]
               PROVE  \/ i \in DOMAIN v[u] /\ w[u][i] = v[u][i]
                      \/ u = t /\ i = Len(v[t]) + 1 /\ w[u][i] = s
    OBVIOUS
  <2>1. CASE u = t
    <3>1. i \in 1..(Len(v[t]) + 1)
      BY <1>7, <2>1
    <3>2. i \in 1..Len(v[t]) \/ i = Len(v[t]) + 1
      BY <1>6, <3>1
    <3>3. i \in DOMAIN v[t] \/ i = Len(v[t]) + 1
      BY <1>6, <3>2
    <3> QED
      BY <1>7, <2>1, <3>3
  <2>2. CASE u # t
    BY <1>6, <2>2
  <2> QED
    BY <2>1, <2>2
<1>9. \A u \in Tps : \A i \in DOMAIN v[u] : i \in DOMAIN w[u] /\ w[u][i] = v[u][i]
  <2> SUFFICES ASSUME NEW u \in Tps, NEW i \in DOMAIN v[u] PROVE i \in DOMAIN w[u] /\ w[u][i] = v[u][i]
    OBVIOUS
  <2>1. CASE u = t
    BY <1>7, <2>1
  <2>2. CASE u # t
    BY <1>6, <2>2
  <2> QED
    BY <2>1, <2>2
<1>10. DistinctIn(w, d)
  <2>1. ASSUME NEW x \in Tps, NEW u \in Tps, NEW i \in DOMAIN w[x], NEW k \in DOMAIN w[u],
               SameSsn(w[x][i], w[u][k])
        PROVE  x = u /\ i = k
    <3>1. CASE i \in DOMAIN v[x] /\ w[x][i] = v[x][i] /\ k \in DOMAIN v[u] /\ w[u][k] = v[u][k]
      BY <2>1, <3>1 DEF DistinctIn
    <3>2. \A y \in Tps : \A a \in DOMAIN v[y] : ~SameSsn(v[y][a], s) /\ ~SameSsn(s, v[y][a])
      <4>1. \A y \in Tps : \A a \in DOMAIN v[y] : ~SameSsn(v[y][a], e[1].seg)
        BY <1>1, <1>4 DEF DistinctIn
      <4> QED
        BY <1>5, <4>1 DEF SameSsn
    <3> QED
      BY <1>8, <2>1, <3>1, <3>2
  <2>2. \A i, k \in DOMAIN d : d[i].kind = "finish" /\ d[k].kind = "finish" /\ SameSsn(d[i].seg, d[k].seg) => i = k
    BY <1>1, <1>3 DEF DistinctIn
  <2>3. ASSUME NEW u \in Tps, NEW i \in DOMAIN w[u], NEW k \in DOMAIN d, d[k].kind = "finish"
        PROVE  ~SameSsn(w[u][i], d[k].seg)
    <3>1. k + 1 \in DOMAIN e /\ d[k] = e[k + 1] /\ k + 1 # 1
      BY <1>1, <1>3
    <3>2. CASE i \in DOMAIN v[u] /\ w[u][i] = v[u][i]
      BY <2>3, <3>1, <3>2 DEF DistinctIn
    <3>3. CASE w[u][i] = s
      <4>1. ~SameSsn(e[1].seg, e[k + 1].seg)
        BY <1>1, <1>4, <2>3, <3>1 DEF DistinctIn
      <4> QED
        BY <1>5, <3>1, <3>3, <4>1 DEF SameSsn
    <3> QED
      BY <1>8, <3>2, <3>3
  <2> QED
    BY <2>1, <2>2, <2>3 DEF DistinctIn
<1>11. ASSUME NEW c PROVE c \in UncompletedIn(w, d) <=> c \in UncompletedIn(v, e)
  <2>1. ASSUME c \in UncompletedIn(v, e) PROVE c \in UncompletedIn(w, d)
    <3>1. c \in InfoSet /\ c.tp \in Tps
      BY <2>1, UncompletedHas DEF InfoSet
    <3>2. ASSUME NEW i \in DOMAIN v[c.tp], Info(c.tp, v[c.tp][i]) = c
          PROVE  \E k \in DOMAIN w[c.tp] : Info(c.tp, w[c.tp][k]) = c
      BY <1>9, <3>1, <3>2
    <3>3. ASSUME NEW k \in DOMAIN e, e[k].kind = "finish", Info(e[k].tp, e[k].seg) = c, k # 1
          PROVE  \E i \in DOMAIN d : d[i].kind = "finish" /\ Info(d[i].tp, d[i].seg) = c
      BY <1>2, <3>3
    <3>4. ASSUME Info(e[1].tp, e[1].seg) = c
          PROVE  \E k \in DOMAIN w[c.tp] : Info(c.tp, w[c.tp][k]) = c
      <4>1. c.tp = t
        BY <1>4, <3>4, InfoOK
      <4>2. Len(v[t]) + 1 \in DOMAIN w[t] /\ Info(t, w[t][Len(v[t]) + 1]) = c
        BY <1>1, <1>4, <1>6, <1>7, <3>4
      <4> QED
        BY <4>1, <4>2
    <3>5. \/ \E i \in DOMAIN v[c.tp] : Info(c.tp, v[c.tp][i]) = c
          \/ \E k \in DOMAIN e : e[k].kind = "finish" /\ Info(e[k].tp, e[k].seg) = c
      BY <2>1, UncompletedPlace
    <3>6. \/ \E i \in DOMAIN w[c.tp] : Info(c.tp, w[c.tp][i]) = c
          \/ \E k \in DOMAIN d : d[k].kind = "finish" /\ Info(d[k].tp, d[k].seg) = c
      BY <3>2, <3>3, <3>4, <3>5
    <3> QED
      BY <3>1, <3>6, UncompletedHas
  <2>2. ASSUME c \in UncompletedIn(w, d) PROVE c \in UncompletedIn(v, e)
    <3>1. c \in InfoSet /\ c.tp \in Tps
      BY <2>2, UncompletedHas DEF InfoSet
    <3>2. ASSUME NEW i \in DOMAIN w[c.tp], Info(c.tp, w[c.tp][i]) = c
          PROVE  \/ \E k \in DOMAIN v[c.tp] : Info(c.tp, v[c.tp][k]) = c
                 \/ \E k \in DOMAIN e : e[k].kind = "finish" /\ Info(e[k].tp, e[k].seg) = c
      <4>1. CASE i \in DOMAIN v[c.tp] /\ w[c.tp][i] = v[c.tp][i]
        BY <3>2, <4>1
      <4>2. CASE c.tp = t /\ w[c.tp][i] = s
        BY <1>1, <1>4, <3>2, <4>2
      <4> QED
        BY <1>8, <3>1, <4>1, <4>2
    <3>3. ASSUME NEW k \in DOMAIN d, d[k].kind = "finish", Info(d[k].tp, d[k].seg) = c
          PROVE  \E i \in DOMAIN e : e[i].kind = "finish" /\ Info(e[i].tp, e[i].seg) = c
      BY <1>1, <3>3
    <3> QED
      BY <2>2, <3>1, <3>2, <3>3, UncompletedHas
  <2> QED
    BY <2>1, <2>2
<1> QED
  BY <1>1, <1>10, <1>11 DEF SameSegments

\* A segment that a round takes, of an SSN that is nowhere yet.
LEMMA RoundAdds ==
    ASSUME NEW v \in [Tps -> Seq(Segment)], NEW e \in Seq(Event), NEW f \in Event, f.kind = "finish",
           \A c \in UncompletedIn(v, e) : ~(c.jetty = f.seg.jetty /\ c.ssn = f.seg.ssn),
           DistinctIn(v, e), NEW d, d = Append(e, f)
    PROVE  /\ DistinctIn(v, d)
           /\ \A c : c \in UncompletedIn(v, d) <=> c \in UncompletedIn(v, e) \/ c = Info(f.tp, f.seg)
<1>1. /\ d \in Seq(Event)
      /\ \A i \in DOMAIN e : i \in DOMAIN d /\ d[i] = e[i]
      /\ Len(e) + 1 \in DOMAIN d /\ d[Len(e) + 1] = f
      /\ \A i \in DOMAIN d : (i \in DOMAIN e /\ d[i] = e[i]) \/ (i = Len(e) + 1 /\ d[i] = f)
  BY AppendElement
<1>2. f.tp \in Tps /\ f.seg \in Segment
  BY EventParts
<1>3. ASSUME NEW t \in Tps, NEW i \in DOMAIN v[t]
      PROVE  ~SameSsn(v[t][i], f.seg)
  <2>1. Info(t, v[t][i]) \in UncompletedIn(v, e) /\ v[t][i] \in Segment
    BY VectorUncompleted, SeqElement
  <2> QED
    BY <1>2, <2>1, InfoOK DEF SameSsn
<1>4. ASSUME NEW k \in DOMAIN e, e[k].kind = "finish"
      PROVE  ~SameSsn(e[k].seg, f.seg) /\ ~SameSsn(f.seg, e[k].seg)
  <2>1. Info(e[k].tp, e[k].seg) \in UncompletedIn(v, e) /\ e[k].tp \in Tps /\ e[k].seg \in Segment
    BY <1>4, FinishUncompleted
  <2> QED
    BY <1>2, <2>1, InfoOK DEF SameSsn
<1>5. DistinctIn(v, d)
  <2>1. \A t, u \in Tps : \A i \in DOMAIN v[t], k \in DOMAIN v[u] :
           SameSsn(v[t][i], v[u][k]) => t = u /\ i = k
    BY DEF DistinctIn
  <2>2. ASSUME NEW i \in DOMAIN d, NEW k \in DOMAIN d, d[i].kind = "finish", d[k].kind = "finish",
               SameSsn(d[i].seg, d[k].seg)
        PROVE  i = k
    <3>1. CASE i \in DOMAIN e /\ d[i] = e[i] /\ k \in DOMAIN e /\ d[k] = e[k]
      BY <2>2, <3>1 DEF DistinctIn
    <3> QED
      BY <1>1, <1>4, <2>2, <3>1
  <2>3. ASSUME NEW t \in Tps, NEW i \in DOMAIN v[t], NEW k \in DOMAIN d, d[k].kind = "finish"
        PROVE  ~SameSsn(v[t][i], d[k].seg)
    <3>1. CASE k \in DOMAIN e /\ d[k] = e[k]
      BY <2>3, <3>1 DEF DistinctIn
    <3>2. CASE d[k] = f
      BY <1>3, <3>2
    <3> QED
      BY <1>1, <3>1, <3>2
  <2> QED
    BY <2>1, <2>2, <2>3 DEF DistinctIn
<1>6. Info(f.tp, f.seg) \in UncompletedIn(v, d)
  BY <1>1, FinishUncompleted
<1>7. ASSUME NEW c, c # Info(f.tp, f.seg) PROVE c \in UncompletedIn(v, d) <=> c \in UncompletedIn(v, e)
  <2>1. ASSUME NEW k \in DOMAIN e, e[k].kind = "finish", Info(e[k].tp, e[k].seg) = c
        PROVE  \E i \in DOMAIN d : d[i].kind = "finish" /\ Info(d[i].tp, d[i].seg) = c
    BY <1>1, <2>1
  <2>2. ASSUME NEW k \in DOMAIN d, d[k].kind = "finish", Info(d[k].tp, d[k].seg) = c
        PROVE  \E i \in DOMAIN e : e[i].kind = "finish" /\ Info(e[i].tp, e[i].seg) = c
    BY <1>1, <1>7, <2>2
  <2> QED
    BY <2>1, <2>2, UncompletedHas
<1>8. Info(f.tp, f.seg) \in UncompletedIn(v, e) \cup {Info(f.tp, f.seg)}
  OBVIOUS
<1> QED
  BY <1>5, <1>6, <1>7

\* A segment that is complete leaves the vector of its channel.
LosesSegment(v, w, e, g) ==
    /\ UncompletedIn(w, e) = UncompletedIn(v, e) \ {g}
    /\ \A c \in UncompletedIn(w, e) : ~(c.jetty = g.jetty /\ c.ssn = g.ssn)

LEMMA CompleteDrops ==
    ASSUME NEW v \in [Tps -> Seq(Segment)], NEW e \in Seq(Event), NEW t \in Tps, NEW n \in DOMAIN v[t],
           NEW w \in [Tps -> Seq(Segment)], w[t] = RemoveAt(v[t], n), \A u \in Tps \ {t} : w[u] = v[u],
           DistinctIn(v, e), NEW g, g = Info(t, v[t][n])
    PROVE  DistinctIn(w, e) /\ LosesSegment(v, w, e, g)
<1>1. /\ v[t] \in Seq(Segment) /\ Len(v[t]) \in Nat /\ DOMAIN v[t] = 1..Len(v[t])
      /\ w[t] = RemoveAt(v[t], n) /\ \A u \in Tps \ {t} : w[u] = v[u]
  BY LenProperties
<1>2. \A i, k \in DOMAIN w[t] : \E a, b \in DOMAIN v[t] :
         a # n /\ b # n /\ (a = b => i = k) /\ w[t][i] = v[t][a] /\ w[t][k] = v[t][b]
  <2> SUFFICES ASSUME NEW q, q = RemoveAt(v[t], n), NEW i \in DOMAIN q, NEW k \in DOMAIN q
               PROVE  \E a, b \in DOMAIN v[t] :
                         a # n /\ b # n /\ (a = b => i = k) /\ q[i] = v[t][a] /\ q[k] = v[t][b]
    BY <1>1
  <2>1. v[t] \in Seq(Segment)
    BY <1>1
  <2> QED
    BY <2>1, RemoveAtInjective
<1>3. \A k \in DOMAIN v[t] : k # n => \E i \in DOMAIN w[t] : w[t][i] = v[t][k]
  <2> SUFFICES ASSUME NEW k \in DOMAIN v[t], k # n PROVE \E i \in DOMAIN w[t] : w[t][i] = v[t][k]
    OBVIOUS
  <2>1. /\ w[t] \in Seq(Segment) /\ Len(w[t]) = Len(v[t]) - 1
        /\ \A j \in DOMAIN w[t] : w[t][j] = IF j < n THEN v[t][j] ELSE v[t][j + 1]
    <3>1. v[t] \in Seq(Segment) /\ w[t] = RemoveAt(v[t], n)
      BY <1>1
    <3>2. /\ RemoveAt(v[t], n) \in Seq(Segment)
          /\ Len(RemoveAt(v[t], n)) = Len(v[t]) - 1
          /\ \A j \in DOMAIN RemoveAt(v[t], n) :
                /\ IF j < n THEN j \in DOMAIN v[t] ELSE j + 1 \in DOMAIN v[t]
                /\ RemoveAt(v[t], n)[j] = IF j < n THEN v[t][j] ELSE v[t][j + 1]
      BY <3>1, RemoveAtSeq
    <3> QED
      BY <3>1, <3>2
  <2>2. DOMAIN w[t] = 1..(Len(v[t]) - 1)
    BY <2>1, LenProperties
  <2>3. CASE k < n
    BY <1>1, <2>1, <2>2, <2>3
  <2>4. CASE k > n
    <3>1. k - 1 \in DOMAIN w[t] /\ ~(k - 1 < n) /\ (k - 1) + 1 = k
      BY <1>1, <2>2, <2>4
    <3> QED
      BY <2>1, <3>1
  <2> QED
    BY <1>1, <2>3, <2>4
<1>4. \A u \in Tps : \A i \in DOMAIN w[u] : \E a \in DOMAIN v[u] : w[u][i] = v[u][a] /\ ~(u = t /\ a = n)
  <2> SUFFICES ASSUME NEW u \in Tps, NEW i \in DOMAIN w[u]
               PROVE  \E a \in DOMAIN v[u] : w[u][i] = v[u][a] /\ ~(u = t /\ a = n)
    OBVIOUS
  <2>1. CASE u = t
    BY <1>2, <2>1
  <2>2. CASE u # t
    BY <1>1, <2>2
  <2> QED
    BY <2>1, <2>2
<1>5. DistinctIn(w, e)
  <2>1. ASSUME NEW x \in Tps, NEW u \in Tps, NEW i \in DOMAIN w[x], NEW k \in DOMAIN w[u],
               SameSsn(w[x][i], w[u][k])
        PROVE  x = u /\ i = k
    <3>1. x = u
      BY <1>4, <2>1 DEF DistinctIn
    <3>2. CASE x = t
      <4>1. PICK a \in DOMAIN v[t], b \in DOMAIN v[t] :
                (a = b => i = k) /\ w[t][i] = v[t][a] /\ w[t][k] = v[t][b]
        BY <1>2, <3>1, <3>2
      <4>2. a = b
        BY <2>1, <3>1, <3>2, <4>1 DEF DistinctIn
      <4> QED
        BY <3>1, <4>1, <4>2
    <3>3. CASE x # t
      BY <1>1, <2>1, <3>1, <3>3 DEF DistinctIn
    <3> QED
      BY <3>2, <3>3
  <2>2. \A i, k \in DOMAIN e :
           e[i].kind = "finish" /\ e[k].kind = "finish" /\ SameSsn(e[i].seg, e[k].seg) => i = k
    BY DEF DistinctIn
  <2>3. \A u \in Tps : \A i \in DOMAIN w[u], k \in DOMAIN e :
           e[k].kind = "finish" => ~SameSsn(w[u][i], e[k].seg)
    BY <1>4 DEF DistinctIn
  <2> QED
    BY <2>1, <2>2, <2>3 DEF DistinctIn
<1>6. v[t][n] \in Segment /\ g \in InfoSet /\ g.tp = t /\ g.jetty = v[t][n].jetty /\ g.ssn = v[t][n].ssn
  BY <1>1, SeqElement, InfoOK
<1>7. ASSUME NEW c \in UncompletedIn(w, e)
      PROVE  c \in UncompletedIn(v, e) /\ ~(c.jetty = g.jetty /\ c.ssn = g.ssn)
  <2>1. c \in InfoSet /\ c.tp \in Tps
    BY UncompletedHas DEF InfoSet
  <2>2. CASE \E i \in DOMAIN w[c.tp] : Info(c.tp, w[c.tp][i]) = c
    <3>1. PICK i \in DOMAIN w[c.tp] : Info(c.tp, w[c.tp][i]) = c
      BY <2>2
    <3>2. PICK a \in DOMAIN v[c.tp] : w[c.tp][i] = v[c.tp][a] /\ ~(c.tp = t /\ a = n)
      BY <1>4, <2>1
    <3>3. Info(c.tp, v[c.tp][a]) = c /\ v[c.tp][a] \in Segment
      BY <2>1, <3>1, <3>2, SeqElement
    <3>4. c \in UncompletedIn(v, e)
      BY <2>1, <3>3, UncompletedHas
    <3>5. ~SameSsn(v[c.tp][a], v[t][n])
      BY <2>1, <3>2 DEF DistinctIn
    <3>6. c.jetty = v[c.tp][a].jetty /\ c.ssn = v[c.tp][a].ssn
      BY <2>1, <3>3, InfoOK
    <3> QED
      BY <1>6, <3>4, <3>5, <3>6 DEF SameSsn
  <2>3. CASE \E k \in DOMAIN e : e[k].kind = "finish" /\ Info(e[k].tp, e[k].seg) = c
    <3>1. PICK k \in DOMAIN e : e[k].kind = "finish" /\ Info(e[k].tp, e[k].seg) = c
      BY <2>3
    <3>2. e[k].tp \in Tps /\ e[k].seg \in Segment
      BY <3>1, FinishUncompleted
    <3>3. c \in UncompletedIn(v, e)
      BY <2>1, <3>1, UncompletedHas
    <3>4. ~SameSsn(v[t][n], e[k].seg)
      BY <3>1 DEF DistinctIn
    <3>5. c.jetty = e[k].seg.jetty /\ c.ssn = e[k].seg.ssn
      BY <3>1, <3>2, InfoOK
    <3> QED
      BY <1>6, <3>3, <3>4, <3>5 DEF SameSsn
  <2>4. \/ \E i \in DOMAIN w[c.tp] : Info(c.tp, w[c.tp][i]) = c
        \/ \E k \in DOMAIN e : e[k].kind = "finish" /\ Info(e[k].tp, e[k].seg) = c
    BY DEF UncompletedIn
  <2> QED
    BY <2>2, <2>3, <2>4
<1>8. ASSUME NEW c \in UncompletedIn(v, e), c # g PROVE c \in UncompletedIn(w, e)
  <2>1. c \in InfoSet /\ c.tp \in Tps
    BY UncompletedHas DEF InfoSet
  <2>2. ASSUME NEW i \in DOMAIN v[c.tp], Info(c.tp, v[c.tp][i]) = c
        PROVE  \E k \in DOMAIN w[c.tp] : Info(c.tp, w[c.tp][k]) = c
    <3>1. CASE c.tp = t
      <4>1. i # n
        BY <1>8, <2>2, <3>1
      <4> QED
        BY <1>3, <2>2, <3>1, <4>1
    <3>2. CASE c.tp # t
      BY <1>1, <2>1, <2>2, <3>2
    <3> QED
      BY <3>1, <3>2
  <2>3. \/ \E i \in DOMAIN v[c.tp] : Info(c.tp, v[c.tp][i]) = c
        \/ \E k \in DOMAIN e : e[k].kind = "finish" /\ Info(e[k].tp, e[k].seg) = c
    BY DEF UncompletedIn
  <2> QED
    BY <2>1, <2>2, <2>3, UncompletedHas
<1>9. g \notin UncompletedIn(w, e)
  BY <1>7
<1> QED
  BY <1>5, <1>7, <1>8, <1>9 DEF LosesSegment

\* The windows of the jetties and their WQEs, what says which segments are complete.
windowVars == <<wqes, msnCnt, ssnCnt, sndNxt, sndUna, acked>>

\* What a step does to the segments that are outstanding.
Keeps == Distinct' /\ Uncompleted' = Uncompleted

\* A round of t takes the next segment of j.
TakesFor(t, j) ==
    /\ j \in Jetties /\ t \in Tps /\ Takes(j) /\ UNCHANGED bindVars
    /\ \E i \in DOMAIN related[t] : related[t][i] = j
    /\ NextSegment(j) \in Segment
    /\ Distinct' /\ Uncompleted' = Uncompleted \cup {Info(t, NextSegment(j))}

\* A segment of j is complete and gone.
Drops(s, t) ==
    /\ t \in Tps /\ s \in Segment /\ Info(t, s) \in Uncompleted
    /\ Distinct' /\ Uncompleted' = Uncompleted \ {Info(t, s)}
    /\ \A c \in Uncompleted' : ~(c.jetty = s.jetty /\ c.ssn = s.ssn)

LEMMA RoundSegments ==
    ASSUME TypeOK, SegmentsOK, NEW e, e = Tail(events), e \in Seq(Event),
           vec' \in [Tps -> Seq(Segment)], DistinctIn(vec', e), UncompletedIn(vec', e) = Uncompleted,
           NEW t \in Tps, NEW q, NEW busy, ScheduleWqeSegment(t, q, busy),
           UNCHANGED <<ordered, msnCnt, ssnCnt, sndUna, acked>>, UNCHANGED bindVars
    PROVE  \/ Keeps /\ UNCHANGED windowVars
           \/ \E u, j : TakesFor(u, j)
<1>1. CASE RoundStops(t, q, busy) /\ events' = Tail(events) /\ UNCHANGED jettyVars
  <2>1. events' = e
    BY <1>1
  <2>2. Keeps
    BY <2>1 DEF Keeps, Distinct, Uncompleted
  <2>3. UNCHANGED windowVars
    BY <1>1 DEF jettyVars, windowVars
  <2> QED
    BY <2>2, <2>3
<1>2. CASE /\ RoundTakes(t, q, busy) /\ events' = Tail(events) \o Finish(t)
           /\ Turns(t) # {} /\ Asked(t, FirstTurn(t)) \in Jetties /\ Takes(Asked(t, FirstTurn(t)))
  <2>1. PICK j : j = Asked(t, FirstTurn(t))
    OBVIOUS
  <2>2. PICK f : f = [kind |-> "finish", tp |-> t, seg |-> NextSegment(j)]
    OBVIOUS
  <2>3. JettyOK /\ ChannelOK /\ j \in Jetties /\ Sendable(j) # {} /\ Takes(j)
    BY <1>2, <2>1 DEF TypeOK, Takes, HasSegment
  <2>4. /\ NextSegment(j) \in Segment
        /\ NextSegment(j).jetty = j /\ NextSegment(j).ssn = sndNxt[j]
    BY <2>3, NextSegmentOK
  <2>5. f \in Event /\ f.kind = "finish" /\ f.tp = t /\ f.seg = NextSegment(j)
    BY <2>2, <2>4 DEF Event
  <2>6. Finish(t) = <<f>>
    BY <2>1, <2>2 DEF Finish
  <2>7. events' = Append(e, f)
    BY <1>2, <2>5, <2>6, ConcatOne
  <2>8. \A c \in UncompletedIn(vec', e) : ~(c.jetty = f.seg.jetty /\ c.ssn = f.seg.ssn)
    <3> SUFFICES ASSUME NEW c \in Uncompleted, c.jetty = j, c.ssn = sndNxt[j] PROVE FALSE
      BY <2>4, <2>5
    <3>1. sndNxt[j] < sndNxt[j] /\ sndNxt[j] \in Nat
      BY <2>3 DEF SegmentsOK, JettyOK
    <3> QED
      BY <3>1
  <2>9. PICK v : v = vec'
    OBVIOUS
  <2>10. PICK d : d = Append(e, f)
    OBVIOUS
  <2>14. /\ v \in [Tps -> Seq(Segment)] /\ DistinctIn(v, e)
         /\ \A c \in UncompletedIn(v, e) : ~(c.jetty = f.seg.jetty /\ c.ssn = f.seg.ssn)
    BY <2>8, <2>9
  <2>11. DistinctIn(v, d) /\ UncompletedIn(v, d) = UncompletedIn(v, e) \cup {Info(f.tp, f.seg)}
    <3>1. DistinctIn(v, d)
      BY <2>5, <2>10, <2>14, RoundAdds
    <3>2. \A c : c \in UncompletedIn(v, d) <=> c \in UncompletedIn(v, e) \/ c = Info(f.tp, f.seg)
      BY <2>5, <2>10, <2>14, RoundAdds
    <3>3. \A c : c \in UncompletedIn(v, d) <=> c \in UncompletedIn(v, e) \cup {Info(f.tp, f.seg)}
      BY <3>2
    <3> QED
      BY <3>1, <3>3
  <2>12. Distinct' /\ Uncompleted' = Uncompleted \cup {Info(t, NextSegment(j))}
    BY <2>5, <2>7, <2>9, <2>10, <2>11 DEF Distinct, Uncompleted
  <2>13. \E i \in DOMAIN related[t] : related[t][i] = j
    <3>1. FirstTurn(t) \in 0..(Len(related[t]) - 1)
      BY <1>2, <2>3, FirstTurnOK
    <3>2. Turn(t, FirstTurn(t)) + 1 \in DOMAIN related[t]
      BY <2>3, <3>1, TurnOK
    <3> QED
      BY <2>1, <3>2 DEF Asked
  <2> QED
    BY <2>3, <2>4, <2>12, <2>13 DEF TakesFor
<1> QED
  BY <1>1, <1>2, RoundStep

LEMMA RunScheduleSegments ==
    ASSUME TypeOK, TypeOK', SegmentInv, RunSchedule
    PROVE  \/ Keeps /\ UNCHANGED windowVars /\ UNCHANGED bindVars
           \/ \E t, j : TakesFor(t, j)
<1>1. PICK e : e = Tail(events)
  OBVIOUS
<1>2. PICK t : t = Head(events).tp
  OBVIOUS
<1>3. PICK q : q = IF Head(events).obj = made[t] THEN vec[t] ELSE <<>>
  OBVIOUS
<1>4. /\ events \in Seq(Event) /\ vec \in [Tps -> Seq(Segment)]
      /\ DistinctIn(vec, events) /\ Uncompleted = UncompletedIn(vec, events) /\ SegmentsOK
  BY DEF TypeOK, ChannelOK, SegmentInv, Distinct, Uncompleted
<1>5. /\ events # <<>> /\ Head(events).kind # "finish" /\ vec' = vec
      /\ ScheduleWqeSegment(t, q, scheduling[t])
      /\ UNCHANGED <<ordered, msnCnt, ssnCnt, sndUna, acked>> /\ UNCHANGED bindVars
  BY <1>2, <1>3 DEF RunSchedule, Running
<1>6. t \in Tps
  BY <1>2, <1>4, <1>5, HeadTailSeq, EventParts
<1>7. e \in Seq(Event) /\ DistinctIn(vec, e) /\ UncompletedIn(vec, e) = UncompletedIn(vec, events)
  BY <1>1, <1>4, <1>5, RoundRunCarriesNone
<1>8. vec' \in [Tps -> Seq(Segment)] /\ DistinctIn(vec', e) /\ UncompletedIn(vec', e) = Uncompleted
  BY <1>4, <1>5, <1>7
<1> QED
  BY <1>1, <1>4, <1>5, <1>6, <1>7, <1>8, RoundSegments

LEMMA FinishSegments ==
    ASSUME TypeOK, TypeOK', SegmentInv, OnScheduleWqeSegmentFinish
    PROVE  \/ Keeps /\ UNCHANGED windowVars /\ UNCHANGED bindVars
           \/ \E t, j : TakesFor(t, j)
<1>1. PICK e : e = Tail(events)
  OBVIOUS
<1>2. PICK t : t = Head(events).tp
  OBVIOUS
<1>3. PICK s : s = [Head(events).seg EXCEPT !.num = pushed[t]]
  OBVIOUS
<1>4. /\ events \in Seq(Event) /\ vec \in [Tps -> Seq(Segment)]
      /\ DistinctIn(vec, events) /\ Uncompleted = UncompletedIn(vec, events) /\ SegmentsOK
  BY DEF TypeOK, ChannelOK, SegmentInv, Distinct, Uncompleted
<1>5. /\ events # <<>> /\ Head(events).kind = "finish"
      /\ vec' = [vec EXCEPT ![t] = Append(@, s)]
      /\ ScheduleWqeSegment(t, Append(vec[t], s), FALSE)
      /\ UNCHANGED <<ordered, msnCnt, ssnCnt, sndUna, acked>> /\ UNCHANGED bindVars
  BY <1>2, <1>3 DEF OnScheduleWqeSegmentFinish, Running
<1>6. t \in Tps /\ Head(events).seg \in Segment
  BY <1>2, <1>4, <1>5, HeadTailSeq, EventParts
<1>7. s \in Segment /\ Info(t, s) = Info(t, Head(events).seg)
  <2>1. pushed[t] \in Nat
    BY <1>6 DEF TypeOK, ChannelOK
  <2> QED
    BY <1>3, <1>6, <2>1 DEF Segment, Info
<1>8. PICK w : w = vec'
  OBVIOUS
<1>9. w \in [Tps -> Seq(Segment)] /\ w[t] = Append(vec[t], s) /\ \A u \in Tps \ {t} : w[u] = vec[u]
  BY <1>4, <1>5, <1>6, <1>8 DEF TypeOK, ChannelOK
<1>10. e \in Seq(Event) /\ DistinctIn(w, e) /\ UncompletedIn(w, e) = UncompletedIn(vec, events)
  <2>1. e \in Seq(Event)
    BY <1>1, <1>4, <1>5, HeadTailSeq
  <2>2. DistinctIn(w, e)
    BY <1>1, <1>2, <1>4, <1>5, <1>6, <1>7, <1>9, FinishMoves
  <2>3. SameSegments(vec, events, w, e)
    BY <1>1, <1>2, <1>4, <1>5, <1>6, <1>7, <1>9, FinishMoves
  <2>4. UncompletedIn(w, e) = UncompletedIn(vec, events)
    BY <2>3 DEF SameSegments
  <2> QED
    BY <2>1, <2>2, <2>4
<1>11. vec' \in [Tps -> Seq(Segment)] /\ DistinctIn(vec', e) /\ UncompletedIn(vec', e) = Uncompleted
  BY <1>4, <1>8, <1>9, <1>10
<1> QED
  BY <1>1, <1>4, <1>5, <1>6, <1>10, <1>11, RoundSegments

\* A step that asks for rounds and leaves the vectors alone.
LEMMA AskKeeps ==
    ASSUME TypeOK, SegmentInv, vec' = vec, NEW x, OnlyRounds(x), events' = events \o x
    PROVE  Keeps
<1>1. /\ events \in Seq(Event) /\ vec \in [Tps -> Seq(Segment)] /\ x \in Seq(Event)
      /\ DistinctIn(vec, events) /\ Uncompleted = UncompletedIn(vec, events)
  BY DEF TypeOK, ChannelOK, SegmentInv, Distinct, Uncompleted, OnlyRounds
<1>2. PICK d : d = events \o x
  OBVIOUS
<1>3. DistinctIn(vec, d) /\ UncompletedIn(vec, d) = UncompletedIn(vec, events)
  BY <1>1, <1>2, RoundsCarryNone
<1> QED
  BY <1>1, <1>2, <1>3 DEF Keeps, Distinct, Uncompleted

\* A channel that is gone has no segment, and none is on its way to it.
LEMMA GoneIsIdle ==
    ASSUME TypeOK, BindingsOK, NEW t \in Tps, ~exists[t]
    PROVE  vec[t] = <<>> /\ \A i \in DOMAIN events : ~(events[i].kind = "finish" /\ events[i].tp = t)
<1>1. events \in Seq(Event) /\ vec \in [Tps -> Seq(Segment)]
  BY DEF TypeOK, ChannelOK
<1>2. ASSUME NEW c \in Uncompleted, c.tp = t PROVE FALSE
  <2>1. \E i \in DOMAIN related[t] : related[t][i] = c.jetty
    BY <1>2 DEF BindingsOK
  <2>2. related[t] = <<>>
    BY DEF BindingsOK
  <2> QED
    BY <2>1, <2>2
<1>3. ASSUME NEW i \in DOMAIN vec[t] PROVE FALSE
  <2>1. Info(t, vec[t][i]) \in Uncompleted /\ vec[t][i] \in Segment
    BY <1>1, VectorUncompleted, SeqElement DEF Uncompleted
  <2> QED
    BY <1>2, <2>1, InfoOK
<1>4. vec[t] = <<>>
  <2>1. vec[t] \in Seq(Segment) /\ Len(vec[t]) \in Nat /\ DOMAIN vec[t] = 1..Len(vec[t])
    BY <1>1, LenProperties
  <2>2. Len(vec[t]) = 0
    BY <1>3, <2>1
  <2> QED
    BY <2>1, <2>2, EmptySeq
<1>5. ASSUME NEW i \in DOMAIN events, events[i].kind = "finish", events[i].tp = t PROVE FALSE
  <2>1. Info(t, events[i].seg) \in Uncompleted /\ events[i].seg \in Segment
    BY <1>1, <1>5, FinishUncompleted DEF Uncompleted
  <2> QED
    BY <1>2, <2>1, InfoOK
<1> QED
  BY <1>4, <1>5

LEMMA PushKeeps ==
    ASSUME TypeOK, TypeOK', SegmentInv, NEW j \in Jetties, NEW o \in Orders, NEW n \in WqeSizes,
           PushWqe(j, o, n)
    PROVE  Keeps
<1>1. vec' = vec
  <2>1. CASE msnCnt[j] = 0
    <3> DEFINE new == {t \in ToSet(Paths[j]) : ~exists[t]}
    <3>1. vec' = [t \in Tps |-> IF t \in new THEN <<>> ELSE vec[t]]
      BY <2>1 DEF PushWqe, Bind
    <3>2. \A t \in Tps : t \in new => vec[t] = <<>>
      BY GoneIsIdle DEF SegmentInv
    <3>3. vec \in [Tps -> Seq(Segment)]
      BY DEF TypeOK, ChannelOK
    <3> HIDE DEF new
    <3>4. \A t \in Tps : vec'[t] = vec[t]
      BY <3>1, <3>2
    <3> QED
      BY <3>1, <3>3, <3>4
  <2>2. CASE msnCnt[j] # 0
    BY <2>2 DEF PushWqe, tpVars
  <2> QED
    BY <2>1, <2>2
<1>2. OnlyRounds(PushRounds(j)) /\ events' = events \o PushRounds(j)
  <2>1. made' \in [Tps -> Nat]
    BY DEF TypeOK, ChannelOK
  <2>2. events' = events \o PushRounds(j)
    BY DEF PushWqe, PushRounds
  <2> QED
    BY <2>1, <2>2, PushRoundsOK
<1> QED
  BY <1>1, <1>2, AskKeeps

LEMMA RefuseKeeps ==
    ASSUME TypeOK, SegmentInv, RefuseSegment
    PROVE  Keeps
<1>1. PICK s : s = vec[acking[1]][acking[2]]
  OBVIOUS
<1>2. AtAcked /\ vec' = vec
  BY DEF RefuseSegment, tpVars
<1>3. s.jetty \in Jetties
  BY <1>1, <1>2, AtAckedOK
<1>4. events' = events \o RefuseRounds(s.jetty, s.ssn)
  BY <1>1 DEF RefuseSegment, RefuseRounds
<1>5. OnlyRounds(RefuseRounds(s.jetty, s.ssn))
  <2>1. group[s.jetty] \in Seq(Tps) /\ ChannelOK
    BY <1>3 DEF TypeOK, ChannelOK
  <2> QED
    BY <2>1, TriggerOK, NoRounds DEF RefuseRounds
<1> QED
  BY <1>2, <1>4, <1>5, AskKeeps

LEMMA AckDoneKeeps ==
    ASSUME TypeOK, SegmentInv, AckDone
    PROVE  Keeps
<1>1. PICK t : t = acking[1]
  OBVIOUS
<1>2. PICK x : x = IF full[t] /\ ~IsWqeSegmentLimited(vec[t]) THEN <<Schedule(t)>> ELSE <<>>
  OBVIOUS
<1>3. events' = events \o x /\ vec' = vec
  BY <1>1, <1>2 DEF AckDone
<1>4. t \in Tps
  BY <1>1 DEF TypeOK, AckDone
<1>5. OnlyRounds(x)
  BY <1>2, <1>4, OneRound, NoRounds DEF TypeOK
<1> QED
  BY <1>3, <1>5, AskKeeps

LEMMA CompleteDropsIt ==
    ASSUME TypeOK, TypeOK', SegmentInv, CompleteSegment
    PROVE  Drops(vec[acking[1]][acking[2]], acking[1])
<1>0. PICK t : t = acking[1]
  OBVIOUS
<1>1. PICK s : s = vec[t][acking[2]]
  OBVIOUS
<1>2. t \in Tps /\ acking[2] \in DOMAIN vec[t] /\ s \in Segment
  <2>1. AtAcked
    BY DEF CompleteSegment
  <2> QED
    BY <1>0, <1>1, <2>1, AtAckedOK
<1>3. PICK n : n = acking[2]
  OBVIOUS
<1>4. PICK w : w = vec'
  OBVIOUS
<1>5. PICK g : g = Info(t, s)
  OBVIOUS
<1>6. /\ events \in Seq(Event) /\ vec \in [Tps -> Seq(Segment)] /\ w \in [Tps -> Seq(Segment)]
      /\ DistinctIn(vec, events) /\ group' \in [Jetties -> Seq(Tps)]
  BY <1>4 DEF TypeOK, ChannelOK, SegmentInv, Distinct
<1>7. w[t] = RemoveAt(vec[t], n) /\ \A u \in Tps \ {t} : w[u] = vec[u]
  <2>1. vec' = [vec EXCEPT ![t] = RemoveAt(@, n)]
    BY <1>0, <1>3 DEF CompleteSegment
  <2> QED
    BY <1>2, <1>4, <1>6, <2>1
<1>8. g = Info(t, vec[t][n]) /\ n \in DOMAIN vec[t]
  BY <1>1, <1>2, <1>3, <1>5
<1>9. DistinctIn(w, events) /\ LosesSegment(vec, w, events, g)
  BY <1>2, <1>6, <1>7, <1>8, CompleteDrops
<1>10. /\ UncompletedIn(w, events) = UncompletedIn(vec, events) \ {g}
       /\ \A c \in UncompletedIn(w, events) : ~(c.jetty = g.jetty /\ c.ssn = g.ssn)
  BY <1>9 DEF LosesSegment
<1>11. PICK x \in Seq(Event) : OnlyRounds(x) /\ events' = events \o x
  BY <1>6, CompletedWindow, CompletedRounds
<1>12. PICK d : d = events \o x
  OBVIOUS
<1>13. DistinctIn(w, d) /\ UncompletedIn(w, d) = UncompletedIn(w, events)
  BY <1>6, <1>9, <1>11, <1>12, RoundsCarryNone
<1>14. Distinct' /\ Uncompleted' = Uncompleted \ {Info(t, s)}
  BY <1>4, <1>5, <1>10, <1>11, <1>12, <1>13 DEF Distinct, Uncompleted
<1>15. \A c \in Uncompleted' : ~(c.jetty = s.jetty /\ c.ssn = s.ssn)
  BY <1>2, <1>4, <1>5, <1>10, <1>11, <1>12, <1>13, InfoOK DEF Uncompleted
<1>16. Info(t, s) \in Uncompleted
  BY <1>1, <1>2, <1>3, <1>6, <1>8, VectorUncompleted DEF Uncompleted
<1> QED
  BY <1>0, <1>1, <1>2, <1>14, <1>15, <1>16 DEF Drops

\* What a step does to the segments: nothing, or a WQE is pushed, or a round takes
\* one, or one is complete.
LEMMA SegmentSteps ==
    ASSUME TypeOK, TypeOK', SegmentInv, [Next]_vars
    PROVE  \/ Keeps /\ UNCHANGED windowVars /\ UNCHANGED bindVars
           \/ \E j \in Jetties, o \in Orders, n \in WqeSizes : PushWqe(j, o, n) /\ Keeps
           \/ \E t, j : TakesFor(t, j)
           \/ CompleteSegment /\ Drops(vec[acking[1]][acking[2]], acking[1])
<1>1. ASSUME UNCHANGED <<vec, events>> PROVE Keeps
  <2>1. vec' = vec /\ events' = events
    BY <1>1
  <2>2. DistinctIn(vec', events') /\ UncompletedIn(vec', events') = UncompletedIn(vec, events)
    BY <2>1 DEF SegmentInv, Distinct
  <2> QED
    BY <2>2 DEF Keeps, Distinct, Uncompleted
<1>2. CASE UNCHANGED vars
  BY <1>1, <1>2 DEF vars, tpVars, jettyVars, windowVars
<1>3. CASE RunSchedule
  BY <1>3, RunScheduleSegments
<1>4. CASE OnScheduleWqeSegmentFinish
  BY <1>4, FinishSegments
<1>5. ASSUME NEW t \in Tps, NEW n, RecvTpAck(t, n)
      PROVE  Keeps /\ UNCHANGED windowVars /\ UNCHANGED bindVars
  BY <1>1, <1>5 DEF RecvTpAck, jettyVars, windowVars
<1>6. CASE RefuseSegment
  BY <1>6, RefuseKeeps DEF RefuseSegment, jettyVars, windowVars
<1>7. CASE AckDone
  BY <1>7, AckDoneKeeps DEF AckDone, jettyVars, windowVars
<1>8. CASE CompleteSegment
  BY <1>8, CompleteDropsIt
<1>9. ASSUME NEW j \in Jetties, NEW o \in Orders, NEW n \in WqeSizes, PushWqe(j, o, n)
      PROVE  Keeps
  BY <1>9, PushKeeps
<1>10. CASE \E j \in Jetties, o \in Orders, n \in WqeSizes : PushWqe(j, o, n)
  BY <1>9, <1>10
<1>11. CASE \E t \in Tps : \E n \in una[t]..pushed[t] : RecvTpAck(t, n)
  BY <1>5, <1>11
<1> QED
  BY <1>2, <1>3, <1>4, <1>6, <1>7, <1>8, <1>10, <1>11 DEF Next, RunEvent, WalkAcked

(***************************************************************************)
(* Who is sent first.                                                      *)
(***************************************************************************)

LEMMA WqeParts ==
    ASSUME JettyOK, NEW j \in Jetties, NEW n \in DOMAIN wqes[j]
    PROVE  /\ wqes[j][n] \in Wqe /\ wqes[j][n].id \in Nat /\ wqes[j][n].sent \in Nat
           /\ wqes[j][n].start \in Nat /\ wqes[j][n].size \in Nat \ {0}
           /\ wqes[j][n].order \in {"NO", "RO", "SO"}
           /\ End(wqes[j][n]) = wqes[j][n].start + wqes[j][n].size
<1>1. wqes[j] \in Seq(Wqe)
  BY DEF JettyOK
<1>2. wqes[j][n] \in Wqe
  BY <1>1, SeqElement
<1> QED
  BY <1>2 DEF Wqe, End

\* The first WQE of a jetty is never blocked.
LEMMA FirstNotBlocked ==
    ASSUME JettyOK, NEW j \in Jetties, WqesOK(j), OrderedOK(j), 1 \in DOMAIN wqes[j], wqes[j][1].order # "NO"
    PROVE  Head(ordered[j]) = wqes[j][1].id
<1>1. /\ ordered[j] \in Seq(Nat) /\ DOMAIN ordered[j] \subseteq Nat /\ wqes[j] \in Seq(Wqe)
      /\ DOMAIN wqes[j] = 1..Len(wqes[j]) /\ Len(wqes[j]) \in Nat
      /\ DOMAIN ordered[j] = 1..Len(ordered[j]) /\ Len(ordered[j]) \in Nat
  BY LenProperties DEF JettyOK
<1>2. \A i \in DOMAIN wqes[j] : wqes[j][i].id \in Nat
  BY WqeParts
<1>3. PICK i \in DOMAIN ordered[j] : ordered[j][i] = wqes[j][1].id
  BY DEF OrderedOK
<1>4. 1 \in DOMAIN ordered[j] /\ Head(ordered[j]) = ordered[j][1]
  BY <1>1, <1>3
<1>5. CASE i = 1
  BY <1>3, <1>4, <1>5
<1>6. CASE i # 1
  <2>1. ordered[j][1] < ordered[j][i]
    <3>1. 1 < i
      BY <1>1, <1>3, <1>6
    <3> QED
      BY <1>3, <1>4, <3>1 DEF OrderedOK
  <2>2. PICK k \in DOMAIN wqes[j] : wqes[j][k].id = ordered[j][1]
    BY <1>4 DEF OrderedOK
  <2>3. wqes[j][k].id < wqes[j][1].id
    BY <1>3, <2>1, <2>2
  <2>4. 1 < k
    BY <1>1, <1>2, <2>3
  <2>5. wqes[j][1].id < wqes[j][k].id
    BY <2>4 DEF WqesOK
  <2> QED
    BY <1>2, <2>3, <2>5
<1> QED
  BY <1>5, <1>6

\* Those before the WQE that is taken from are sent.
LEMMA NoneIsOvertaken ==
    ASSUME TypeOK, JettyInv, BindingsOK, NoneOvertakes, SentInOrder, NEW j \in Jetties, Sendable(j) # {},
           NEW k \in DOMAIN wqes[j], k < FirstSendable(j)
    PROVE  ~(wqes[j][k].sent < wqes[j][k].size)
<1>1. PICK i : i = FirstSendable(j)
  OBVIOUS
<1>2. JettyOK /\ WqesOK(j) /\ OrderedOK(j) /\ StrongOrderOf(j)
  BY DEF TypeOK, JettyInv
<1>3. i \in Sendable(j) /\ \A n \in Sendable(j) : i <= n
  BY <1>1, <1>2, FirstSendableOK
<1>4. i \in DOMAIN wqes[j] /\ (wqes[j][i].canSend \/ IsOrderedByInitiator(j, wqes[j][i]))
  BY <1>3 DEF Sendable
<1>5. DOMAIN wqes[j] = 1..Len(wqes[j]) /\ Len(wqes[j]) \in Nat /\ wqes[j] \in Seq(Wqe)
  BY <1>2, LenProperties DEF JettyOK
<1>6. \A n \in DOMAIN wqes[j] :
         wqes[j][n].id \in Nat /\ wqes[j][n].sent \in Nat /\ wqes[j][n].order \in {"NO", "RO", "SO"}
  BY <1>2, WqeParts
<1> SUFFICES ASSUME wqes[j][k].sent < wqes[j][k].size PROVE FALSE
  OBVIOUS
<1>7. k < i /\ k \notin Sendable(j)
  BY <1>1, <1>3, <1>4, <1>5
<1>8. wqes[j][k].order = "SO" /\ Head(ordered[j]) # wqes[j][k].id
  BY <1>7 DEF Sendable, IsOrderedByInitiator
<1>9. k # 1
  BY <1>2, <1>8, FirstNotBlocked
<1>10. 1 \in DOMAIN wqes[j] /\ 1 < k /\ 1 < i
  BY <1>4, <1>5, <1>7, <1>9
<1>11. wqes[j][1].id < wqes[j][k].id /\ wqes[j][k].id < wqes[j][i].id /\ wqes[j][i].id < msnCnt[j]
  BY <1>2, <1>4, <1>7, <1>10 DEF WqesOK
<1>12. ~(MaxWqes <= 2)
  <2>1. msnCnt[j] \in Nat /\ msnCnt[j] <= MaxWqes /\ MaxWqes \in Nat
    BY <1>2, ConstantsAssumption DEF JettyOK, BindingsOK
  <2> QED
    BY <1>4, <1>6, <1>10, <1>11, <2>1
<1>13. wqes[j][k].order \in Orders /\ wqes[j][i].order \in Orders /\ wqes[j][1].order \in Orders
  BY <1>4, <1>10 DEF SentInOrder
<1>14. Orders \subseteq {"SO"}
  BY <1>8, <1>12, <1>13 DEF NoneOvertakes
<1>15. wqes[j][i].order = "SO" /\ wqes[j][1].order = "SO"
  BY <1>13, <1>14
<1>16. wqes[j][i].sent = 0
  BY <1>2, <1>4, <1>10, <1>15 DEF StrongOrderOf
<1>17. ~wqes[j][i].canSend
  BY <1>2, <1>4, <1>16 DEF WqesOK
<1>18. Head(ordered[j]) = wqes[j][i].id
  BY <1>4, <1>15, <1>17 DEF IsOrderedByInitiator
<1>19. Head(ordered[j]) = wqes[j][1].id
  BY <1>2, <1>10, <1>15, FirstNotBlocked
<1> QED
  BY <1>4, <1>6, <1>10, <1>11, <1>18, <1>19

\* The SSN that is given out is in the range of the WQE it is taken from.
LEMMA TakenInRange ==
    ASSUME TypeOK, JettyInv, BindingsOK, NoneOvertakes, SentInOrder, NEW j \in Jetties, Sendable(j) # {}
    PROVE  Covers(wqes[j][FirstSendable(j)], sndNxt[j])
<1>1. PICK i : i = FirstSendable(j)
  OBVIOUS
<1>2. JettyOK /\ WqesOK(j) /\ WindowOK(j)
  BY DEF TypeOK, JettyInv
<1>3. i \in DOMAIN wqes[j] /\ wqes[j][i].sent < wqes[j][i].size
  BY <1>1, <1>2, FirstSendableOK DEF Sendable
<1>4. /\ DOMAIN wqes[j] = 1..Len(wqes[j]) /\ Len(wqes[j]) \in Nat /\ wqes[j] \in Seq(Wqe)
      /\ sndNxt[j] \in Nat /\ sndUna[j] \in Nat /\ ssnCnt[j] \in Nat
  BY <1>2, LenProperties DEF JettyOK
<1>5. \A n \in DOMAIN wqes[j] :
         /\ wqes[j][n].sent \in Nat /\ wqes[j][n].start \in Nat /\ wqes[j][n].size \in Nat \ {0}
         /\ End(wqes[j][n]) = wqes[j][n].start + wqes[j][n].size
  BY <1>2, WqeParts
<1>6. \A n \in DOMAIN wqes[j] :
         wqes[j][n].sent = IF sndNxt[j] <= wqes[j][n].start THEN 0
                           ELSE IF sndNxt[j] >= End(wqes[j][n]) THEN wqes[j][n].size
                           ELSE sndNxt[j] - wqes[j][n].start
  BY DEF SentInOrder
<1>7. sndNxt[j] < End(wqes[j][i])
  BY <1>3, <1>4, <1>5, <1>6
<1>8. ASSUME sndNxt[j] < wqes[j][i].start PROVE FALSE
  <2>1. End(wqes[j][i]) <= ssnCnt[j] /\ sndUna[j] <= sndNxt[j]
    BY <1>2, <1>3 DEF WqesOK, WindowOK
  <2>2. sndNxt[j] < ssnCnt[j]
    BY <1>3, <1>4, <1>5, <1>7, <2>1
  <2>3. PICK k \in DOMAIN wqes[j] : Covers(wqes[j][k], sndNxt[j])
    BY <1>2, <1>4, <2>1, <2>2 DEF WqesOK
  <2>4. wqes[j][k].start <= sndNxt[j] /\ sndNxt[j] < End(wqes[j][k])
    BY <2>3 DEF Covers
  <2>5. wqes[j][k].sent < wqes[j][k].size
    BY <1>4, <1>5, <1>6, <2>4
  <2>6. ~(k < i)
    BY <1>1, <2>5, NoneIsOvertaken
  <2>7. ~(i < k)
    <3>1. i < k => End(wqes[j][i]) <= wqes[j][k].start
      BY <1>2, <1>3 DEF WqesOK
    <3> QED
      BY <1>3, <1>4, <1>5, <1>7, <1>8, <2>4, <3>1
  <2>8. k = i
    BY <1>3, <1>4, <2>6, <2>7
  <2> QED
    BY <1>3, <1>4, <1>5, <1>8, <2>4, <2>8
<1> QED
  BY <1>1, <1>3, <1>4, <1>5, <1>7, <1>8 DEF Covers

(***************************************************************************)
(* A WQE is pushed.                                                        *)
(***************************************************************************)

LEMMA PushedShape ==
    ASSUME JettyOK, NEW j \in Jetties, NEW o \in Orders, NEW n \in WqeSizes, PushWqe(j, o, n),
           NEW k \in Jetties, NEW i \in DOMAIN wqes'[k]
    PROVE  \/ i \in DOMAIN wqes[k] /\ wqes'[k][i] = wqes[k][i]
           \/ k = j /\ wqes'[k][i] = NewWqe(j, o, n)
<1>1. PICK w : w = NewWqe(j, o, n)
  OBVIOUS
<1>2. /\ w \in Wqe /\ wqes'[j] = Append(wqes[j], w)
      /\ \A u \in Jetties \ {j} : wqes'[u] = wqes[u]
  BY <1>1, PushedWqe
<1>3. CASE k = j
  <2>1. wqes[j] \in Seq(Wqe)
    BY DEF JettyOK
  <2>2. PICK q : q = Append(wqes[j], w)
    OBVIOUS
  <2>3. i \in DOMAIN q /\ wqes'[k] = q
    BY <1>2, <1>3, <2>2
  <2>4. (i \in DOMAIN wqes[j] /\ q[i] = wqes[j][i]) \/ q[i] = w
    BY <1>2, <2>1, <2>2, <2>3, AppendElement
  <2> QED
    BY <1>1, <1>3, <2>3, <2>4
<1>4. CASE k # j
  BY <1>2, <1>4
<1> QED
  BY <1>3, <1>4

LEMMA PushOrder ==
    ASSUME TypeOK, SegmentsOK, SentInOrder, OwnersOK, Keeps,
           NEW j \in Jetties, NEW o \in Orders, NEW n \in WqeSizes, PushWqe(j, o, n)
    PROVE  SentInOrder' /\ OwnersOK'
<1>1. JettyOK
  BY DEF TypeOK
<1>2. PICK w : w = NewWqe(j, o, n)
  OBVIOUS
<1>3. /\ w.id = msnCnt[j] /\ w.order = o /\ w.start = ssnCnt[j] /\ w.sent = 0
  BY <1>2 DEF NewWqe
<1>4. /\ n \in Nat
      /\ \A k \in Jetties : msnCnt'[k] = IF k = j THEN msnCnt[j] + 1 ELSE msnCnt[k]
      /\ \A k \in Jetties : ssnCnt'[k] = IF k = j THEN ssnCnt[j] + n ELSE ssnCnt[k]
      /\ UNCHANGED <<sndNxt, sndUna, acked>>
  BY <1>1, <1>2, PushedWqe
<1>5. \A k \in Jetties : msnCnt[k] \in Nat /\ ssnCnt[k] \in Nat /\ sndNxt[k] \in Nat /\ sndNxt[k] <= ssnCnt[k]
  BY <1>1 DEF JettyOK, SentInOrder
<1>6. ASSUME NEW k \in Jetties, NEW i \in DOMAIN wqes'[k]
      PROVE  \/ i \in DOMAIN wqes[k] /\ wqes'[k][i] = wqes[k][i]
             \/ k = j /\ wqes'[k][i] = w
  BY <1>1, <1>2, <1>6, PushedShape
<1>7. SentInOrder'
  <2> SUFFICES ASSUME NEW k \in Jetties
               PROVE  /\ sndNxt[k] <= ssnCnt'[k]
                      /\ \A i \in DOMAIN wqes'[k] : wqes'[k][i].order \in Orders
                      /\ \A i \in DOMAIN wqes'[k] :
                            LET v == wqes'[k][i]
                            IN  v.sent = IF sndNxt[k] <= v.start THEN 0
                                         ELSE IF sndNxt[k] >= End(v) THEN v.size ELSE sndNxt[k] - v.start
    BY <1>4 DEF SentInOrder
  <2>1. sndNxt[k] <= ssnCnt'[k]
    BY <1>4, <1>5
  <2>2. ASSUME NEW i \in DOMAIN wqes'[k]
        PROVE  /\ wqes'[k][i].order \in Orders
               /\ LET v == wqes'[k][i]
                  IN  v.sent = IF sndNxt[k] <= v.start THEN 0
                               ELSE IF sndNxt[k] >= End(v) THEN v.size ELSE sndNxt[k] - v.start
    <3>1. CASE i \in DOMAIN wqes[k] /\ wqes'[k][i] = wqes[k][i]
      BY <3>1 DEF SentInOrder
    <3>2. CASE k = j /\ wqes'[k][i] = w
      BY <1>3, <1>5, <3>2
    <3> QED
      BY <1>6, <3>1, <3>2
  <2> QED
    BY <2>1, <2>2
<1>8. OwnersOK'
  <2>1. Uncompleted' = Uncompleted
    BY DEF Keeps
  <2> SUFFICES ASSUME NEW c \in Uncompleted
               PROVE  /\ c.wqe < msnCnt'[c.jetty]
                      /\ \A i \in DOMAIN wqes'[c.jetty] :
                            LET v == wqes'[c.jetty][i]
                            IN  v.id = c.wqe <=> v.start <= c.ssn /\ c.ssn < End(v)
    BY <2>1 DEF OwnersOK
  <2>2. c.jetty \in Jetties /\ c.wqe \in Nat /\ c.ssn \in Nat
    BY UncompletedPlace DEF Uncompleted, InfoSet
  <2>3. c.wqe < msnCnt[c.jetty] /\ c.ssn < sndNxt[c.jetty]
    BY DEF OwnersOK, SegmentsOK
  <2>4. c.wqe < msnCnt'[c.jetty]
    BY <1>4, <1>5, <2>2, <2>3
  <2>5. ASSUME NEW i \in DOMAIN wqes'[c.jetty]
        PROVE  LET v == wqes'[c.jetty][i]
               IN  v.id = c.wqe <=> v.start <= c.ssn /\ c.ssn < End(v)
    <3>1. CASE i \in DOMAIN wqes[c.jetty] /\ wqes'[c.jetty][i] = wqes[c.jetty][i]
      BY <3>1 DEF OwnersOK
    <3>2. CASE c.jetty = j /\ wqes'[c.jetty][i] = w
      <4>1. w.id # c.wqe
        BY <1>3, <1>5, <2>2, <2>3, <3>2
      <4>2. ~(w.start <= c.ssn)
        BY <1>3, <1>5, <2>2, <2>3, <3>2
      <4> QED
        BY <3>2, <4>1, <4>2
    <3> QED
      BY <1>6, <2>2, <3>1, <3>2
  <2> QED
    BY <2>4, <2>5
<1> QED
  BY <1>7, <1>8

LEMMA PushBindings ==
    ASSUME TypeOK, TypeOK', BindingsOK, Keeps,
           NEW j \in Jetties, NEW o \in Orders, NEW n \in WqeSizes, PushWqe(j, o, n)
    PROVE  BindingsOK'
<1>1. /\ msnCnt \in [Jetties -> Nat] /\ group \in [Jetties -> Seq(Tps)] /\ related \in [Tps -> Seq(Jetties)]
      /\ exists \in [Tps -> BOOLEAN] /\ MaxWqes \in Nat
  BY ConstantsAssumption DEF TypeOK, JettyOK, ChannelOK
<1>2. msnCnt' = [msnCnt EXCEPT ![j] = @ + 1] /\ msnCnt[j] < MaxWqes
  BY DEF PushWqe
<1>3. Uncompleted' = Uncompleted
  BY DEF Keeps
<1>4. \A c \in Uncompleted : c.jetty \in Jetties /\ c.tp \in Tps
  BY UncompletedPlace DEF Uncompleted, InfoSet
<1>5. \A k \in Jetties : msnCnt'[k] <= MaxWqes /\ (msnCnt'[k] = 0 => k # j /\ msnCnt[k] = 0)
  <2> SUFFICES ASSUME NEW k \in Jetties
               PROVE  msnCnt'[k] <= MaxWqes /\ (msnCnt'[k] = 0 => k # j /\ msnCnt[k] = 0)
    OBVIOUS
  <2>1. CASE k = j
    <3>1. msnCnt'[k] = msnCnt[j] + 1 /\ msnCnt[j] \in Nat
      BY <1>1, <1>2, <2>1
    <3> QED
      BY <1>1, <1>2, <3>1
  <2>2. CASE k # j
    BY <1>1, <1>2, <2>2 DEF BindingsOK
  <2> QED
    BY <2>1, <2>2
<1>6. CASE msnCnt[j] # 0
  <2>1. UNCHANGED <<group, related, exists>>
    BY <1>6 DEF PushWqe, bindVars
  <2>2. \A k \in Jetties : msnCnt'[k] = 0 => group'[k] = <<>>
    BY <1>5, <2>1 DEF BindingsOK
  <2> QED
    BY <1>3, <1>5, <2>1, <2>2 DEF BindingsOK
<1>7. CASE msnCnt[j] = 0
  <2> DEFINE ts == ToSet(Paths[j])
  <2>1. /\ group' = [group EXCEPT ![j] = Paths[j]]
        /\ related' = [t \in Tps |-> IF t \in ts THEN Append(related[t], j) ELSE related[t]]
        /\ exists' = [t \in Tps |-> exists[t] \/ t \in ts]
    BY <1>7 DEF PushWqe, Bind
  <2>2. /\ group'[j] = Paths[j] /\ \A k \in Jetties \ {j} : group'[k] = group[k]
        /\ \A t \in Tps : related'[t] = IF t \in ts THEN Append(related[t], j) ELSE related[t]
        /\ \A t \in Tps : ~exists'[t] => ~exists[t] /\ t \notin ts
    BY <1>1, <2>1
  <2>3. \A t \in ts : \E k \in DOMAIN Paths[j] : Paths[j][k] = t
    BY DEF ToSet
  <2> HIDE DEF ts
  <2>4. group[j] = <<>>
    BY <1>7 DEF BindingsOK
  <2>5. \A k \in Jetties : msnCnt'[k] = 0 => group'[k] = <<>>
    BY <1>5, <2>2 DEF BindingsOK
  <2>6. \A k \in Jetties : group'[k] = <<>> \/ group'[k] = Paths[k]
    BY <2>2 DEF BindingsOK
  <2>7. ASSUME NEW t \in Tps, NEW i \in DOMAIN related'[t]
        PROVE  \E k \in DOMAIN group'[related'[t][i]] : group'[related'[t][i]][k] = t
    <3>1. ASSUME i \in DOMAIN related[t], related'[t][i] = related[t][i]
          PROVE  \E k \in DOMAIN group'[related'[t][i]] : group'[related'[t][i]][k] = t
      <4>1. related[t][i] \in Jetties
        BY <1>1, <3>1, SeqElement
      <4>2. PICK k \in DOMAIN group[related[t][i]] : group[related[t][i]][k] = t
        BY <3>1 DEF BindingsOK
      <4>3. related[t][i] # j
        BY <2>4, <4>2
      <4> QED
        BY <2>2, <3>1, <4>1, <4>2, <4>3
    <3>2. CASE t \in ts
      <4>1. PICK q : q = Append(related[t], j)
        OBVIOUS
      <4>2. related'[t] = q /\ i \in DOMAIN q /\ related[t] \in Seq(Jetties)
        BY <1>1, <2>2, <2>7, <3>2, <4>1
      <4>3. (i \in DOMAIN related[t] /\ q[i] = related[t][i]) \/ q[i] = j
        BY <4>1, <4>2, AppendElement
      <4>4. CASE q[i] = j
        <5>1. \E k \in DOMAIN Paths[j] : Paths[j][k] = t
          BY <2>3, <3>2
        <5> QED
          BY <2>2, <4>2, <4>4, <5>1
      <4> QED
        BY <3>1, <4>2, <4>3, <4>4
    <3>3. CASE t \notin ts
      BY <2>2, <2>7, <3>1, <3>3
    <3> QED
      BY <3>2, <3>3
  <2>8. ASSUME NEW c \in Uncompleted PROVE \E i \in DOMAIN related'[c.tp] : related'[c.tp][i] = c.jetty
    <3>1. PICK i \in DOMAIN related[c.tp] : related[c.tp][i] = c.jetty
      BY DEF BindingsOK
    <3>2. CASE c.tp \in ts
      <4>1. PICK q : q = Append(related[c.tp], j)
        OBVIOUS
      <4>2. related[c.tp] \in Seq(Jetties) /\ related'[c.tp] = q
        BY <1>1, <1>4, <2>2, <3>2, <4>1
      <4>3. i \in DOMAIN q /\ q[i] = related[c.tp][i]
        BY <4>1, <4>2, AppendElement
      <4> QED
        BY <3>1, <4>2, <4>3
    <3>3. CASE c.tp \notin ts
      BY <1>4, <2>2, <3>1, <3>3
    <3> QED
      BY <3>2, <3>3
  <2>9. \A t \in Tps : ~exists'[t] => related'[t] = <<>>
    BY <2>2 DEF BindingsOK
  <2> QED
    BY <1>3, <1>5, <2>5, <2>6, <2>7, <2>8, <2>9 DEF BindingsOK
<1> QED
  BY <1>6, <1>7

LEMMA SegmentPushed ==
    ASSUME TypeOK, TypeOK', JettyInv, SegmentInv, Keeps,
           NEW j \in Jetties, NEW o \in Orders, NEW n \in WqeSizes, PushWqe(j, o, n)
    PROVE  SegmentInv'
<1>1. Distinct' /\ Uncompleted' = Uncompleted
  BY DEF Keeps
<1>2. UNCHANGED <<sndNxt, sndUna, acked>>
  BY DEF PushWqe
<1>3. SegmentsOK'
  BY <1>1, <1>2 DEF SegmentInv, SegmentsOK, Complete
<1>4. BindingsOK'
  BY PushBindings DEF SegmentInv
<1>5. NoneOvertakes => SentInOrder' /\ OwnersOK'
  BY PushOrder DEF SegmentInv
<1> QED
  BY <1>1, <1>3, <1>4, <1>5 DEF SegmentInv, NoneOvertakes

(***************************************************************************)
(* A round takes a segment.                                                *)
(***************************************************************************)

LEMMA TakeOrder ==
    ASSUME TypeOK, JettyInv, BindingsOK, NoneOvertakes, SentInOrder, OwnersOK, NEW t, NEW j, TakesFor(t, j)
    PROVE  SentInOrder' /\ OwnersOK'
<1>1. JettyOK /\ j \in Jetties /\ t \in Tps /\ Sendable(j) # {} /\ Takes(j)
  BY DEF TypeOK, TakesFor, Takes, HasSegment
<1>2. PICK f : f = FirstSendable(j)
  OBVIOUS
<1>3. f \in DOMAIN wqes[j]
  BY <1>1, <1>2, NextSegmentOK
<1>4. Covers(wqes[j][f], sndNxt[j])
  BY <1>1, <1>2, TakenInRange
<1>5. /\ \A k \in Jetties : DOMAIN wqes'[k] = DOMAIN wqes[k]
      /\ \A k \in Jetties : \A i \in DOMAIN wqes[k] :
            /\ wqes'[k][i].id = wqes[k][i].id /\ wqes'[k][i].order = wqes[k][i].order
            /\ wqes'[k][i].start = wqes[k][i].start /\ wqes'[k][i].size = wqes[k][i].size
            /\ End(wqes'[k][i]) = End(wqes[k][i])
            /\ ~(k = j /\ i = f) => wqes'[k][i] = wqes[k][i]
      /\ wqes'[j][f].sent = wqes[j][f].sent + 1
  BY <1>1, <1>2, TakenShape
<1>6. /\ \A k \in Jetties : sndNxt'[k] = IF k = j THEN sndNxt[j] + 1 ELSE sndNxt[k]
      /\ UNCHANGED <<msnCnt, ssnCnt>>
  <2>1. UNCHANGED <<msnCnt, ssnCnt>> /\ sndNxt' = [sndNxt EXCEPT ![j] = @ + 1]
    BY <1>1 DEF Takes, GetNextWqeSegment
  <2>2. sndNxt \in [Jetties -> Nat]
    BY <1>1 DEF JettyOK
  <2> QED
    BY <1>1, <2>1, <2>2
<1>7. sndNxt[j] \in Nat /\ ssnCnt[j] \in Nat
  BY <1>1 DEF JettyOK
<1>8. \A i \in DOMAIN wqes[j] :
         /\ wqes[j][i].id \in Nat /\ wqes[j][i].sent \in Nat /\ wqes[j][i].start \in Nat
         /\ wqes[j][i].size \in Nat \ {0} /\ End(wqes[j][i]) = wqes[j][i].start + wqes[j][i].size
  BY <1>1, WqeParts
<1>9. wqes[j][f].start <= sndNxt[j] /\ sndNxt[j] < End(wqes[j][f])
  BY <1>4 DEF Covers
<1>10. WqesOK(j) /\ DOMAIN wqes[j] \subseteq Nat
  <2>1. wqes[j] \in Seq(Wqe)
    BY <1>1 DEF JettyOK
  <2> QED
    BY <1>1, <2>1 DEF JettyInv
\* The other WQEs of the jetty are before or behind.
<1>11. ASSUME NEW i \in DOMAIN wqes[j], i # f
       PROVE  /\ End(wqes[j][i]) <= sndNxt[j] \/ sndNxt[j] < wqes[j][i].start
              /\ wqes[j][i].id # wqes[j][f].id
  <2>1. i \in Nat /\ f \in Nat
    BY <1>3, <1>10
  <2>2. CASE i < f
    <3>1. wqes[j][i].id < wqes[j][f].id /\ End(wqes[j][i]) <= wqes[j][f].start
      BY <1>3, <1>10, <2>2 DEF WqesOK
    <3> QED
      BY <1>3, <1>7, <1>8, <1>9, <3>1
  <2>3. CASE f < i
    <3>1. wqes[j][f].id < wqes[j][i].id /\ End(wqes[j][f]) <= wqes[j][i].start
      BY <1>3, <1>10, <2>3 DEF WqesOK
    <3> QED
      BY <1>3, <1>7, <1>8, <1>9, <3>1
  <2> QED
    BY <1>11, <2>1, <2>2, <2>3
<1>12. \A k \in Jetties : \A i \in DOMAIN wqes[k] :
          wqes[k][i].sent = IF sndNxt[k] <= wqes[k][i].start THEN 0
                            ELSE IF sndNxt[k] >= End(wqes[k][i]) THEN wqes[k][i].size
                            ELSE sndNxt[k] - wqes[k][i].start
  BY DEF SentInOrder
<1>13. ASSUME NEW k \in Jetties, NEW i \in DOMAIN wqes[k]
       PROVE  wqes'[k][i].sent = IF sndNxt'[k] <= wqes[k][i].start THEN 0
                                 ELSE IF sndNxt'[k] >= End(wqes[k][i]) THEN wqes[k][i].size
                                 ELSE sndNxt'[k] - wqes[k][i].start
  <2>1. CASE k # j
    BY <1>5, <1>6, <1>12, <2>1
  <2>2. CASE k = j /\ i # f
    <3>1. wqes'[k][i].sent = wqes[k][i].sent
      BY <1>5, <2>2
    <3>2. End(wqes[j][i]) <= sndNxt[j] \/ sndNxt[j] < wqes[j][i].start
      BY <1>11, <2>2
    <3>3. sndNxt'[k] = sndNxt[j] + 1
      BY <1>6, <2>2
    <3>4. wqes[j][i].sent = IF sndNxt[j] <= wqes[j][i].start THEN 0
                            ELSE IF sndNxt[j] >= End(wqes[j][i]) THEN wqes[j][i].size
                            ELSE sndNxt[j] - wqes[j][i].start
      BY <1>12, <2>2
    <3>5. /\ wqes[j][i].start \in Nat /\ wqes[j][i].size \in Nat \ {0}
          /\ End(wqes[j][i]) = wqes[j][i].start + wqes[j][i].size
      BY <1>8, <2>2
    <3> QED
      BY <1>7, <2>2, <3>1, <3>2, <3>3, <3>4, <3>5
  <2>3. CASE k = j /\ i = f
    <3>1. wqes'[k][i].sent = wqes[j][f].sent + 1
      BY <1>5, <2>3
    <3>2. sndNxt'[k] = sndNxt[j] + 1
      BY <1>6, <2>3
    <3>3. wqes[j][f].sent = IF sndNxt[j] <= wqes[j][f].start THEN 0
                            ELSE IF sndNxt[j] >= End(wqes[j][f]) THEN wqes[j][f].size
                            ELSE sndNxt[j] - wqes[j][f].start
      BY <1>12, <2>3
    <3>4. /\ wqes[j][f].start \in Nat /\ wqes[j][f].size \in Nat \ {0}
          /\ End(wqes[j][f]) = wqes[j][f].start + wqes[j][f].size
      BY <1>8, <2>3
    <3> QED
      BY <1>7, <1>9, <2>3, <3>1, <3>2, <3>3, <3>4
  <2> QED
    BY <2>1, <2>2, <2>3
<1>14. SentInOrder'
  <2>1. \A k \in Jetties : sndNxt'[k] <= ssnCnt'[k]
    <3>1. sndNxt[j] + 1 <= ssnCnt[j]
      <4>1. End(wqes[j][f]) <= ssnCnt[j]
        BY <1>3, <1>10 DEF WqesOK
      <4> QED
        BY <1>3, <1>7, <1>8, <1>9, <4>1
    <3> QED
      BY <1>6, <3>1 DEF SentInOrder
  <2>2. \A k \in Jetties : \A i \in DOMAIN wqes'[k] : wqes'[k][i].order \in Orders
    BY <1>5 DEF SentInOrder
  <2>3. \A k \in Jetties : \A i \in DOMAIN wqes'[k] :
           wqes'[k][i].sent = IF sndNxt'[k] <= wqes'[k][i].start THEN 0
                              ELSE IF sndNxt'[k] >= End(wqes'[k][i]) THEN wqes'[k][i].size
                              ELSE sndNxt'[k] - wqes'[k][i].start
    BY <1>5, <1>13
  <2> QED
    BY <2>1, <2>2, <2>3 DEF SentInOrder
<1>15. PICK s : s = NextSegment(j)
  OBVIOUS
<1>16. s \in Segment /\ s.jetty = j /\ s.ssn = sndNxt[j] /\ s.wqe = wqes[j][f].id
  BY <1>1, <1>2, <1>15, NextSegmentOK
<1>17. OwnersOK'
  <2>1. \A c \in Uncompleted' : c \in Uncompleted \/ c = Info(t, s)
    BY <1>15 DEF TakesFor
  <2> SUFFICES ASSUME NEW c \in Uncompleted'
               PROVE  /\ c.wqe < msnCnt[c.jetty]
                      /\ \A i \in DOMAIN wqes'[c.jetty] :
                            LET v == wqes'[c.jetty][i]
                            IN  v.id = c.wqe <=> v.start <= c.ssn /\ c.ssn < End(v)
    BY <1>6 DEF OwnersOK
  <2>2. CASE c \in Uncompleted
    <3>1. c.jetty \in Jetties
      BY <2>2, UncompletedPlace DEF Uncompleted, InfoSet
    <3>2. /\ c.wqe < msnCnt[c.jetty]
          /\ \A i \in DOMAIN wqes[c.jetty] :
                LET v == wqes[c.jetty][i]
                IN  v.id = c.wqe <=> v.start <= c.ssn /\ c.ssn < End(v)
      BY <2>2 DEF OwnersOK
    <3> QED
      BY <1>5, <3>1, <3>2
  <2>3. CASE c = Info(t, s)
    <3>1. c.jetty = j /\ c.ssn = sndNxt[j] /\ c.wqe = wqes[j][f].id
      BY <1>1, <1>16, <2>3, InfoOK
    <3>2. wqes[j][f].id < msnCnt[j]
      BY <1>3, <1>10 DEF WqesOK
    <3>3. ASSUME NEW i \in DOMAIN wqes[j]
          PROVE  wqes[j][i].id = wqes[j][f].id
                   <=> wqes[j][i].start <= sndNxt[j] /\ sndNxt[j] < End(wqes[j][i])
      <4>1. CASE i = f
        BY <1>9, <4>1
      <4>2. CASE i # f
        <5>1. End(wqes[j][i]) <= sndNxt[j] \/ sndNxt[j] < wqes[j][i].start
          BY <1>11, <4>2
        <5>2. wqes[j][i].id # wqes[j][f].id
          BY <1>11, <4>2
        <5> QED
          BY <1>7, <1>8, <5>1, <5>2
      <4> QED
        BY <4>1, <4>2
    <3> QED
      BY <1>1, <1>5, <3>1, <3>2, <3>3
  <2> QED
    BY <2>1, <2>2, <2>3
<1> QED
  BY <1>14, <1>17

LEMMA TakeSegments ==
    ASSUME TypeOK, JettyInv, SegmentsOK, NEW t, NEW j, TakesFor(t, j)
    PROVE  SegmentsOK'
<1>1. JettyOK /\ j \in Jetties /\ t \in Tps /\ Sendable(j) # {} /\ Takes(j)
  BY DEF TypeOK, TakesFor, Takes, HasSegment
<1>2. /\ sndUna' = sndUna /\ acked' = acked
      /\ \A k \in Jetties : sndNxt'[k] = IF k = j THEN sndNxt[j] + 1 ELSE sndNxt[k]
  <2>1. UNCHANGED <<sndUna, acked>> /\ sndNxt' = [sndNxt EXCEPT ![j] = @ + 1]
    BY <1>1 DEF Takes, GetNextWqeSegment
  <2>2. sndNxt \in [Jetties -> Nat]
    BY <1>1 DEF JettyOK
  <2> QED
    BY <1>1, <2>1, <2>2
<1>3. \A k \in Jetties : sndNxt[k] \in Nat /\ sndUna[k] \in Nat /\ acked[k] \subseteq Nat
  BY <1>1, ConstantsAssumption DEF JettyOK
<1>4. \A k, x : Complete(k, x)' <=> Complete(k, x)
  BY <1>2 DEF Complete
<1>5. PICK s : s = NextSegment(j)
  OBVIOUS
<1>6. s \in Segment /\ s.jetty = j /\ s.ssn = sndNxt[j]
  BY <1>1, <1>5, NextSegmentOK
<1>7. \A c : c \in Uncompleted' <=> c \in Uncompleted \/ c = Info(t, s)
  BY <1>5 DEF TakesFor
<1>8. Info(t, s).jetty = j /\ Info(t, s).ssn = sndNxt[j]
  BY <1>1, <1>6, InfoOK
<1>9. ~Complete(j, sndNxt[j])
  <2>1. WindowOK(j)
    BY <1>1 DEF JettyInv
  <2>2. ~(sndNxt[j] < sndUna[j])
    BY <1>1, <1>3, <2>1 DEF WindowOK
  <2>3. ASSUME sndNxt[j] - sndUna[j] \in acked[j] PROVE FALSE
    <3>1. sndUna[j] + (sndNxt[j] - sndUna[j]) < sndNxt[j]
      BY <2>1, <2>3 DEF WindowOK
    <3> QED
      BY <1>1, <1>3, <3>1
  <2> QED
    BY <2>2, <2>3 DEF Complete
<1>10. ASSUME NEW c \in Uncompleted' PROVE c.ssn < sndNxt'[c.jetty] /\ ~Complete(c.jetty, c.ssn)'
  <2>1. CASE c \in Uncompleted
    <3>1. c.jetty \in Jetties /\ c.ssn \in Nat
      BY <2>1, UncompletedPlace DEF Uncompleted, InfoSet
    <3>2. c.ssn < sndNxt[c.jetty] /\ ~Complete(c.jetty, c.ssn)
      BY <2>1 DEF SegmentsOK
    <3> QED
      BY <1>2, <1>3, <1>4, <3>1, <3>2
  <2>2. CASE c = Info(t, s)
    BY <1>1, <1>2, <1>3, <1>4, <1>8, <1>9, <2>2
  <2> QED
    BY <1>7, <2>1, <2>2
<1>11. ASSUME NEW k \in Jetties, NEW x \in Nat, x < sndNxt'[k], ~Complete(k, x)'
       PROVE  \E c \in Uncompleted' : c.jetty = k /\ c.ssn = x
  <2>1. CASE x < sndNxt[k]
    <3>1. PICK c \in Uncompleted : c.jetty = k /\ c.ssn = x
      BY <1>4, <1>11, <2>1 DEF SegmentsOK
    <3> QED
      BY <1>7, <3>1
  <2>2. CASE ~(x < sndNxt[k])
    <3>1. k = j /\ x = sndNxt[j]
      BY <1>2, <1>3, <1>11, <2>2
    <3> QED
      BY <1>7, <1>8, <3>1
  <2> QED
    BY <2>1, <2>2
<1> QED
  BY <1>10, <1>11 DEF SegmentsOK

LEMMA SegmentTaken ==
    ASSUME TypeOK, TypeOK', JettyInv, SegmentInv, NEW t, NEW j, TakesFor(t, j)
    PROVE  SegmentInv'
<1>1. SegmentsOK'
  BY TakeSegments DEF SegmentInv
<1>2. NoneOvertakes => SentInOrder' /\ OwnersOK'
  BY TakeOrder DEF SegmentInv
<1>3. BindingsOK'
  <2>1. UNCHANGED <<group, related, exists>> /\ msnCnt' = msnCnt
    BY DEF TakesFor, bindVars, Takes
  <2>2. NextSegment(j) \in Segment /\ NextSegment(j).jetty = j /\ t \in Tps
    BY NextSegmentOK DEF TypeOK, TakesFor, Takes, HasSegment
  <2>3. \A c \in Uncompleted' : c \in Uncompleted \/ (c.tp = t /\ c.jetty = j)
    BY <2>2, InfoOK DEF TakesFor
  <2>4. \E i \in DOMAIN related[t] : related[t][i] = j
    BY DEF TakesFor
  <2>5. \A c \in Uncompleted' : \E i \in DOMAIN related[c.tp] : related[c.tp][i] = c.jetty
    BY <2>3, <2>4 DEF SegmentInv, BindingsOK
  <2> QED
    BY <2>1, <2>5 DEF SegmentInv, BindingsOK
<1>4. Distinct'
  BY DEF TakesFor
<1> QED
  BY <1>1, <1>2, <1>3, <1>4 DEF SegmentInv, NoneOvertakes

(***************************************************************************)
(* A segment is complete.                                                  *)
(***************************************************************************)

\* The completion of s moves the window of its jetty j to u: its SSN is
\* acknowledged, and no other.
Completes(s, j, u) ==
    /\ s = vec[acking[1]][acking[2]] /\ j = s.jetty /\ j \in Jetties /\ s.ssn \in Nat
    /\ u \in Nat /\ sndUna'[j] = u /\ RemoveCompleted(j, u)
    /\ \A x \in Nat : Complete(j, x)' <=> Complete(j, x) \/ x = s.ssn
    /\ \A k \in Jetties \ {j} : \A x \in Nat : Complete(k, x)' <=> Complete(k, x)
    /\ UNCHANGED <<msnCnt, ssnCnt, sndNxt>>

LEMMA CompletedSsns ==
    ASSUME TypeOK, CompleteSegment
    PROVE  \E s, j, u : Completes(s, j, u)
<1>1. PICK s, j, bits, n : WindowMoves(s, j, bits, n)
  BY CompletedWindow
<1>2. /\ s = vec[acking[1]][acking[2]] /\ j = s.jetty
      /\ bits = acked[j] \cup {s.ssn - sndUna[j]} /\ n = RunLength(bits)
  BY <1>1 DEF WindowMoves
<1>5. /\ j \in Jetties /\ s.ssn \in Nat /\ InWindow(j, s.ssn)
      /\ s.ssn - sndUna[j] \in 0..(OooThreshold - 1)
  BY <1>1 DEF WindowMoves
<1>6. bits \in SUBSET (0..(OooThreshold - 1))
  BY <1>1 DEF WindowMoves
<1>7. n \in Nat /\ n \notin bits /\ \A i \in 0..(n - 1) : i \in bits
  BY <1>1 DEF WindowMoves
<1>8. \A k \in Jetties : sndUna'[k] = IF k = j THEN sndUna[j] + n ELSE sndUna[k]
  BY <1>1 DEF WindowMoves
<1>9. \A k \in Jetties : acked'[k] = IF k = j THEN RightShiftBitset(bits, n) ELSE acked[k]
  BY <1>1 DEF WindowMoves
<1>10. RemoveCompleted(j, sndUna[j] + n) /\ UNCHANGED <<msnCnt, ssnCnt, sndNxt>>
  BY <1>1 DEF WindowMoves
<1>11. PICK una0 : una0 = sndUna[j]
  OBVIOUS
<1>12. una0 \in Nat
  BY <1>5, <1>11 DEF TypeOK, JettyOK
<1>13. PICK b0 : b0 = s.ssn - una0
  OBVIOUS
<1>14. b0 \in Nat /\ s.ssn = una0 + b0
  BY <1>5, <1>11, <1>12, <1>13
<1>15. \A b \in Nat : b \in bits <=> b \in acked[j] \/ b = b0
  BY <1>2, <1>11, <1>13
<1>16. \A b \in Nat : b \in RightShiftBitset(bits, n) <=> b + n \in bits
  <2> SUFFICES ASSUME NEW b \in Nat PROVE b \in RightShiftBitset(bits, n) <=> b + n \in bits
    OBVIOUS
  <2>1. ASSUME b \in RightShiftBitset(bits, n) PROVE b + n \in bits
    <3>1. PICK i \in bits : i >= n /\ b = i - n
      BY <2>1 DEF RightShiftBitset
    <3>2. i \in Nat
      BY <1>6, <3>1
    <3>3. \A a, c \in Nat : (a - c) + c = a
      OBVIOUS
    <3>4. b + n = i
      BY <1>7, <3>1, <3>2, <3>3
    <3> QED
      BY <3>1, <3>4
  <2>2. ASSUME b + n \in bits PROVE b \in RightShiftBitset(bits, n)
    <3>1. b + n >= n /\ b = (b + n) - n
      BY <1>7
    <3> QED
      BY <2>2, <3>1 DEF RightShiftBitset
  <2> QED
    BY <2>1, <2>2
<1>17. \A x \in Nat : Complete(j, x)' <=> Complete(j, x) \/ x = s.ssn
  <2> SUFFICES ASSUME NEW x \in Nat PROVE Complete(j, x)' <=> Complete(j, x) \/ x = s.ssn
    OBVIOUS
  <2>1. Complete(j, x) <=> x < una0 \/ x - una0 \in acked[j]
    BY <1>11 DEF Complete
  <2>2. Complete(j, x)' <=> x < una0 + n \/ x - (una0 + n) \in RightShiftBitset(bits, n)
    BY <1>5, <1>8, <1>9, <1>11 DEF Complete
  <2>3. CASE x < una0
    <3>1. \A a, c \in Nat : x < a => x < a + c
      OBVIOUS
    <3>2. x < una0 + n
      BY <1>7, <1>12, <2>3, <3>1
    <3> QED
      BY <2>1, <2>2, <2>3, <3>2
  <2>4. CASE ~(x < una0)
    <3>1. PICK b \in Nat : x = una0 + b /\ x - una0 = b
      <4>1. x - una0 \in Nat /\ x = una0 + (x - una0)
        BY <1>12, <2>4
      <4> QED
        BY <4>1
    <3>2. x = s.ssn <=> b = b0
      BY <1>12, <1>14, <3>1
    <3>3. Complete(j, x) \/ x = s.ssn <=> b \in bits
      BY <1>15, <2>1, <2>4, <3>1, <3>2
    <3>4. CASE b < n
      <4>1. x < una0 + n /\ b \in 0..(n - 1)
        BY <1>7, <1>12, <3>1, <3>4
      <4>2. b \in bits
        BY <1>7, <4>1, Zenon
      <4> QED
        BY <2>2, <3>3, <4>1, <4>2
    <3>5. CASE ~(b < n)
      <4>1. PICK d \in Nat : b = d + n
        <5>1. b - n \in Nat /\ b = (b - n) + n
          BY <1>7, <3>1, <3>5
        <5> QED
          BY <5>1
      <4>2. ~(x < una0 + n) /\ x - (una0 + n) = d
        BY <1>7, <1>12, <3>1, <4>1
      <4>3. d \in RightShiftBitset(bits, n) <=> b \in bits
        BY <1>16, <4>1
      <4> QED
        BY <2>2, <3>3, <4>2, <4>3
    <3> QED
      BY <3>4, <3>5
  <2> QED
    BY <2>3, <2>4
<1>18. \A k \in Jetties \ {j} : \A x \in Nat : Complete(k, x)' <=> Complete(k, x)
  BY <1>8, <1>9 DEF Complete
<1>19. PICK u : u = sndUna[j] + n
  OBVIOUS
<1>20. u \in Nat /\ sndUna'[j] = u
  BY <1>5, <1>7, <1>8, <1>11, <1>12, <1>19
<1>21. Completes(s, j, u)
  BY <1>2, <1>5, <1>10, <1>17, <1>18, <1>19, <1>20 DEF Completes
<1> QED
  BY <1>21

LEMMA DropSegments ==
    ASSUME TypeOK, SegmentsOK, NEW s, NEW j, NEW u, Completes(s, j, u), NEW t, Drops(s, t)
    PROVE  SegmentsOK'
<1>1. /\ t \in Tps /\ s \in Segment /\ Uncompleted' = Uncompleted \ {Info(t, s)}
      /\ \A c \in Uncompleted' : ~(c.jetty = s.jetty /\ c.ssn = s.ssn)
  BY DEF Drops
<1>2. /\ j = s.jetty /\ j \in Jetties /\ sndNxt' = sndNxt
      /\ \A x \in Nat : Complete(j, x)' <=> Complete(j, x) \/ x = s.ssn
      /\ \A k \in Jetties \ {j} : \A x \in Nat : Complete(k, x)' <=> Complete(k, x)
  BY DEF Completes
<1>3. Info(t, s).jetty = j /\ Info(t, s).ssn = s.ssn
  BY <1>1, <1>2, InfoOK
<1>4. ASSUME NEW c \in Uncompleted' PROVE c.ssn < sndNxt'[c.jetty] /\ ~Complete(c.jetty, c.ssn)'
  <2>1. c \in Uncompleted
    BY <1>1
  <2>2. c.jetty \in Jetties /\ c.ssn \in Nat
    BY <2>1, UncompletedPlace DEF Uncompleted, InfoSet
  <2>3. c.ssn < sndNxt[c.jetty] /\ ~Complete(c.jetty, c.ssn)
    BY <2>1 DEF SegmentsOK
  <2> QED
    BY <1>1, <1>2, <2>2, <2>3
<1>5. ASSUME NEW k \in Jetties, NEW x \in Nat, x < sndNxt'[k], ~Complete(k, x)'
      PROVE  \E c \in Uncompleted' : c.jetty = k /\ c.ssn = x
  <2>1. ~Complete(k, x) /\ ~(k = j /\ x = s.ssn)
    BY <1>2, <1>5
  <2>2. PICK c \in Uncompleted : c.jetty = k /\ c.ssn = x
    BY <1>2, <1>5, <2>1 DEF SegmentsOK
  <2>3. c # Info(t, s)
    BY <1>3, <2>1, <2>2
  <2> QED
    BY <1>1, <2>2, <2>3
<1> QED
  BY <1>4, <1>5 DEF SegmentsOK

LEMMA DropOrder ==
    ASSUME TypeOK, SentInOrder, OwnersOK, NEW s, NEW j, NEW u, Completes(s, j, u), NEW t, Drops(s, t)
    PROVE  SentInOrder' /\ OwnersOK'
<1>1. JettyOK /\ j \in Jetties /\ RemoveCompleted(j, u) /\ UNCHANGED <<msnCnt, ssnCnt, sndNxt>>
  BY DEF TypeOK, Completes
<1>2. \A k \in Jetties \ {j} : wqes'[k] = wqes[k]
  BY <1>1, RemovedWqes
<1>3. PICK m \in [DOMAIN wqes'[j] -> DOMAIN wqes[j]] :
         \A i \in DOMAIN wqes'[j] : wqes'[j][i] = wqes[j][m[i]]
  BY <1>1, LeftWqes
<1>4. \A k \in Jetties : \A i \in DOMAIN wqes'[k] : \E a \in DOMAIN wqes[k] : wqes'[k][i] = wqes[k][a]
  <2> SUFFICES ASSUME NEW k \in Jetties, NEW i \in DOMAIN wqes'[k]
               PROVE  \E a \in DOMAIN wqes[k] : wqes'[k][i] = wqes[k][a]
    OBVIOUS
  <2>1. CASE k = j
    BY <1>3, <2>1
  <2>2. CASE k # j
    BY <1>2, <2>2
  <2> QED
    BY <2>1, <2>2
<1>5. SentInOrder'
  BY <1>1, <1>4 DEF SentInOrder
<1>6. \A c \in Uncompleted' : c \in Uncompleted /\ c.jetty \in Jetties
  BY UncompletedPlace DEF Drops, Uncompleted, InfoSet
<1>7. OwnersOK'
  <2> SUFFICES ASSUME NEW c \in Uncompleted'
               PROVE  /\ c.wqe < msnCnt[c.jetty]
                      /\ \A i \in DOMAIN wqes'[c.jetty] :
                            LET v == wqes'[c.jetty][i]
                            IN  v.id = c.wqe <=> v.start <= c.ssn /\ c.ssn < End(v)
    BY <1>1 DEF OwnersOK
  <2> QED
    BY <1>4, <1>6 DEF OwnersOK
<1> QED
  BY <1>5, <1>7

\* What unbinding jetty j leaves of the jetties of a channel, r, is q.
Unbound(q, r, j) ==
    /\ \A i \in DOMAIN q : q[i] # j /\ \E n \in DOMAIN r : q[i] = r[n]
    /\ \A n \in DOMAIN r : r[n] # j => \E i \in DOMAIN q : q[i] = r[n]
    /\ r = <<>> => q = <<>>

LEMMA UnboundJetties ==
    ASSUME NEW r \in Seq(Jetties), NEW j
    PROVE  Unbound(Without(r, {j}), r, j)
<1>1. PICK p : p = Without(r, {j})
  OBVIOUS
<1>2. p \in Seq(Jetties)
  BY <1>1, WithoutSeq
<1>3. PICK m : IsErasure(p, r, {j}, m)
  BY <1>1, WithoutSeq
<1>4. \A i \in DOMAIN p : m[i] \in DOMAIN r /\ p[i] = r[m[i]] /\ p[i] # j
  BY <1>3 DEF IsErasure
<1>5. \A n \in DOMAIN r : r[n] # j => \E i \in DOMAIN p : p[i] = r[n]
  BY <1>3 DEF IsErasure
<1>6. ASSUME r = <<>> PROVE p = <<>>
  <2>1. DOMAIN r = {}
    BY <1>6
  <2>2. DOMAIN p = {}
    BY <1>4, <2>1
  <2>3. Len(p) \in Nat /\ DOMAIN p = 1..Len(p)
    BY <1>2
  <2>4. Len(p) = 0
    BY <2>2, <2>3
  <2> QED
    BY <1>2, <2>4, EmptySeq
<1>7. Unbound(p, r, j)
  BY <1>4, <1>5, <1>6 DEF Unbound
<1> QED
  BY <1>1, <1>7

\* With useless channels removed, a jetty has one WQE, and when it is complete
\* none of its segments is outstanding.
LEMMA NothingLeft ==
    ASSUME TypeOK, TypeOK', JettyInv, BindingsOK, RemoveUseless, SegmentsOK', OwnersOK,
           NEW s, NEW j, NEW u, Completes(s, j, u), NEW t, Drops(s, t), SomeComplete(j, u)
    PROVE  \A c \in Uncompleted' : c.jetty # j
<1> SUFFICES ASSUME NEW c \in Uncompleted', c.jetty = j
             PROVE  FALSE
  OBVIOUS
<1>1. j \in Jetties /\ u \in Nat /\ sndUna'[j] = u
  BY DEF Completes
<1>2. PICK k \in DOMAIN wqes[j] : IsWqeCompleted(wqes[j][k], u)
  BY DEF SomeComplete
<1>3. wqes[j][k].id \in Nat /\ wqes[j][k].start \in Nat /\ wqes[j][k].size \in Nat \ {0}
      /\ End(wqes[j][k]) = wqes[j][k].start + wqes[j][k].size
  BY <1>1, <1>2, WqeParts DEF TypeOK
<1>4. wqes[j][k].id < msnCnt[j]
  BY <1>1, <1>2 DEF JettyInv, WqesOK
<1>5. msnCnt[j] <= MaxWqes /\ MaxWqes <= 1 /\ msnCnt[j] \in Nat /\ MaxWqes \in Nat
  BY <1>1, ConstantsAssumption DEF BindingsOK, TypeOK, JettyOK
<1>6. c \in Uncompleted
  BY DEF Drops
<1>7. c.wqe \in Nat /\ c.ssn \in Nat
  BY <1>6, UncompletedPlace DEF Uncompleted, InfoSet
<1>8. /\ c.wqe < msnCnt[j]
      /\ wqes[j][k].id = c.wqe <=> wqes[j][k].start <= c.ssn /\ c.ssn < End(wqes[j][k])
  BY <1>2, <1>6 DEF OwnersOK
<1>9. c.wqe = 0 /\ wqes[j][k].id = 0
  <2>1. \A a, b, d \in Nat : a < b /\ b <= d /\ d <= 1 => a = 0
    OBVIOUS
  <2> QED
    BY <1>3, <1>4, <1>5, <1>7, <1>8, <2>1
<1>10. c.ssn < End(wqes[j][k])
  BY <1>8, <1>9
<1>11. End(wqes[j][k]) - 1 < u
  <2>1. wqes[j][k].start + wqes[j][k].size - 1 < u
    BY <1>2 DEF IsWqeCompleted
  <2> QED
    BY <1>3, <2>1
<1>12. c.ssn < u
  BY <1>1, <1>3, <1>7, <1>10, <1>11
<1>13. ~Complete(j, c.ssn)'
  BY DEF SegmentsOK
<1> QED
  BY <1>1, <1>12, <1>13 DEF Complete

LEMMA DropBindings ==
    ASSUME TypeOK, TypeOK', JettyInv, BindingsOK, SegmentsOK', NoneOvertakes => OwnersOK,
           NEW s, NEW j, NEW u, Completes(s, j, u), NEW t, Drops(s, t)
    PROVE  BindingsOK'
<1>1. j \in Jetties /\ RemoveCompleted(j, u) /\ msnCnt' = msnCnt
  BY DEF Completes
<1>2. \A c \in Uncompleted' : c \in Uncompleted /\ c.jetty \in Jetties /\ c.tp \in Tps
  BY UncompletedPlace DEF Drops, Uncompleted, InfoSet
<1>3. CASE UNCHANGED bindVars
  <2>1. UNCHANGED <<group, related, exists>>
    BY <1>3 DEF bindVars
  <2> QED
    BY <1>1, <1>2, <2>1 DEF BindingsOK
<1>4. CASE ~UNCHANGED bindVars
  <2>1. RemoveUseless /\ RemoveUselessTps(j) /\ SomeComplete(j, u)
    <3>1. RemoveUseless /\ {w \in ToSet(wqes[j]) : IsWqeCompleted(w, u)} # {} /\ RemoveUselessTps(j)
      BY <1>1, <1>4 DEF RemoveCompleted
    <3> QED
      BY <3>1 DEF SomeComplete, ToSet
  <2>2. NoneOvertakes
    BY <2>1, ConstantsAssumption DEF NoneOvertakes
  <2>3. \A c \in Uncompleted' : c.jetty # j
    BY <2>1, <2>2, NothingLeft
  <2>4. /\ group' = [group EXCEPT ![j] = <<>>]
        /\ related' = [v \in Tps |-> Without(related[v], {j})]
        /\ exists' = [v \in Tps |-> exists[v] /\ related'[v] # <<>>]
    BY <2>1 DEF RemoveUselessTps
  <2>5. group \in [Jetties -> Seq(Tps)] /\ related \in [Tps -> Seq(Jetties)]
    BY DEF TypeOK, ChannelOK
  <2>6. group'[j] = <<>> /\ \A k \in Jetties \ {j} : group'[k] = group[k]
    BY <1>1, <2>4, <2>5
  <2>7. \A v \in Tps : Unbound(related'[v], related[v], j)
    BY <2>4, <2>5, UnboundJetties
  <2>8. \A k \in Jetties : msnCnt'[k] <= MaxWqes /\ (msnCnt'[k] = 0 => group'[k] = <<>>)
    BY <1>1, <2>6 DEF BindingsOK
  <2>9. \A k \in Jetties : group'[k] = <<>> \/ group'[k] = Paths[k]
    BY <2>6 DEF BindingsOK
  <2>10. ASSUME NEW v \in Tps, NEW i \in DOMAIN related'[v]
         PROVE  \E k \in DOMAIN group'[related'[v][i]] : group'[related'[v][i]][k] = v
    <3>1. PICK n \in DOMAIN related[v] : related'[v][i] = related[v][n]
      BY <2>7, <2>10 DEF Unbound
    <3>2. related[v][n] \in Jetties /\ related[v][n] # j
      BY <2>5, <2>7, <2>10, <3>1, SeqElement DEF Unbound
    <3> QED
      BY <2>6, <3>1, <3>2 DEF BindingsOK
  <2>11. \A c \in Uncompleted' : \E i \in DOMAIN related'[c.tp] : related'[c.tp][i] = c.jetty
    BY <1>2, <2>3, <2>7 DEF BindingsOK, Unbound
  <2>12. \A v \in Tps : ~exists'[v] => related'[v] = <<>>
    BY <2>4, <2>7 DEF BindingsOK, Unbound
  <2> QED
    BY <2>8, <2>9, <2>10, <2>11, <2>12 DEF BindingsOK
<1> QED
  BY <1>3, <1>4

LEMMA SegmentDropped ==
    ASSUME TypeOK, TypeOK', JettyInv, SegmentInv, CompleteSegment,
           Drops(vec[acking[1]][acking[2]], acking[1])
    PROVE  SegmentInv'
<1>1. PICK s, j, u : Completes(s, j, u)
  BY CompletedSsns
<1>2. PICK t : t = acking[1]
  OBVIOUS
<1>3. Drops(s, t)
  BY <1>1, <1>2 DEF Completes
<1>4. SegmentsOK'
  BY <1>1, <1>3, DropSegments DEF SegmentInv
<1>5. BindingsOK'
  BY <1>1, <1>3, <1>4, DropBindings DEF SegmentInv
<1>6. NoneOvertakes => SentInOrder' /\ OwnersOK'
  BY <1>1, <1>3, DropOrder DEF SegmentInv
<1>7. Distinct'
  BY <1>3 DEF Drops
<1> QED
  BY <1>4, <1>5, <1>6, <1>7 DEF SegmentInv, NoneOvertakes

LEMMA SegmentInit == Init => SegmentInv
<1> SUFFICES ASSUME Init PROVE SegmentInv
  OBVIOUS
<1>1. /\ vec = [t \in Tps |-> <<>>] /\ events = <<>>
      /\ wqes = [j \in Jetties |-> <<>>] /\ msnCnt = [j \in Jetties |-> 0] /\ ssnCnt = [j \in Jetties |-> 0]
      /\ sndNxt = [j \in Jetties |-> 0]
      /\ group = [j \in Jetties |-> <<>>] /\ related = [t \in Tps |-> <<>>]
  BY DEF Init
<1>2. \A t \in Tps : DOMAIN vec[t] = {}
  BY <1>1
<1>3. DOMAIN events = {}
  BY <1>1
<1>4. Distinct
  BY <1>2, <1>3 DEF Distinct, DistinctIn
<1>5. Uncompleted = {}
  <2> SUFFICES ASSUME NEW c \in Uncompleted PROVE FALSE
    OBVIOUS
  <2>1. /\ c.tp \in Tps
        /\ \/ \E i \in DOMAIN vec[c.tp] : Info(c.tp, vec[c.tp][i]) = c
           \/ \E k \in DOMAIN events : events[k].kind = "finish" /\ Info(events[k].tp, events[k].seg) = c
    BY UncompletedPlace DEF Uncompleted
  <2> QED
    BY <1>2, <1>3, <2>1
<1>6. SegmentsOK
  BY <1>1, <1>5 DEF SegmentsOK
<1>7. BindingsOK
  BY <1>1, <1>5, ConstantsAssumption DEF BindingsOK
<1>8. SentInOrder /\ OwnersOK
  BY <1>1, <1>5 DEF SentInOrder, OwnersOK
<1> QED
  BY <1>4, <1>6, <1>7, <1>8 DEF SegmentInv

LEMMA SegmentStep == TypeOK /\ JettyInv /\ SegmentInv /\ [Next]_vars => SegmentInv'
<1> SUFFICES ASSUME TypeOK, JettyInv, SegmentInv, [Next]_vars PROVE SegmentInv'
  OBVIOUS
<1>1. TypeOK'
  BY TypeStep
<1>2. CASE Keeps /\ UNCHANGED windowVars /\ UNCHANGED bindVars
  <2>1. /\ Distinct' /\ Uncompleted' = Uncompleted
        /\ UNCHANGED <<wqes, msnCnt, ssnCnt, sndNxt, sndUna, acked>> /\ UNCHANGED <<group, related, exists>>
    BY <1>2 DEF Keeps, windowVars, bindVars
  <2>2. SegmentsOK'
    BY <2>1 DEF SegmentInv, SegmentsOK, Complete
  <2>3. BindingsOK'
    BY <2>1 DEF SegmentInv, BindingsOK
  <2>4. NoneOvertakes => SentInOrder' /\ OwnersOK'
    BY <2>1 DEF SegmentInv, SentInOrder, OwnersOK
  <2> QED
    BY <2>1, <2>2, <2>3, <2>4 DEF SegmentInv, NoneOvertakes
<1>3. CASE \E j \in Jetties, o \in Orders, n \in WqeSizes : PushWqe(j, o, n) /\ Keeps
  BY <1>1, <1>3, SegmentPushed
<1>4. CASE \E t, j : TakesFor(t, j)
  BY <1>1, <1>4, SegmentTaken
<1>5. CASE CompleteSegment /\ Drops(vec[acking[1]][acking[2]], acking[1])
  BY <1>1, <1>5, SegmentDropped
<1> QED
  BY <1>1, <1>2, <1>3, <1>4, <1>5, SegmentSteps

LEMMA SegmentAlways == Spec => [](TypeOK /\ JettyInv /\ SegmentInv)
<1>1. Init => TypeOK /\ JettyInv /\ SegmentInv
  BY TypeInit, JettyInit, SegmentInit
<1>2. TypeOK /\ JettyInv /\ SegmentInv /\ [Next]_vars => (TypeOK /\ JettyInv /\ SegmentInv)'
  BY TypeStep, JettyStep, SegmentStep
<1> QED
  BY <1>1, <1>2, PTL DEF Spec

(***************************************************************************)
(* What the invariant says of the segments.                                *)
(***************************************************************************)

\* Held, of the vectors v and the events e.
InVectorOf(v, t) == {v[t][i] : i \in DOMAIN v[t]}
InVectors(v) == UNION {InVectorOf(v, t) : t \in Tps}
InFinish(e) == {e[i].seg : i \in {k \in DOMAIN e : e[k].kind = "finish"}}
HeldIn(v, e, j) == {s \in InFinish(e) \cup InVectors(v) : s.jetty = j}

LEMMA HeldIsHeldIn ==
    ASSUME NEW j
    PROVE  Held(j) = HeldIn(vec, events, j) /\ Held(j)' = HeldIn(vec', events', j)
BY DEF Held, HeldIn, InFinish, InVectors, InVectorOf, OnTheWay, InVector

\* Where a segment is.
LEMMA HeldPlace ==
    ASSUME NEW v, NEW e, NEW j, NEW s \in HeldIn(v, e, j)
    PROVE  /\ s.jetty = j
           /\ \/ \E t \in Tps : \E i \in DOMAIN v[t] : v[t][i] = s
              \/ \E k \in DOMAIN e : e[k].kind = "finish" /\ e[k].seg = s
BY DEF HeldIn, InFinish, InVectors, InVectorOf

LEMMA HeldUncompleted ==
    ASSUME NEW v \in [Tps -> Seq(Segment)], NEW e \in Seq(Event), NEW j, NEW s \in HeldIn(v, e, j)
    PROVE  s \in Segment /\ s.jetty = j /\ \E t \in Tps : Info(t, s) \in UncompletedIn(v, e)
<1>1. CASE \E t \in Tps : \E i \in DOMAIN v[t] : v[t][i] = s
  <2>1. PICK t, i : t \in Tps /\ i \in DOMAIN v[t] /\ v[t][i] = s
    BY <1>1
  <2>2. t \in Tps /\ v[t] \in Seq(Segment)
    BY <2>1
  <2>3. s \in Segment
    BY <2>1, <2>2, SeqElement
  <2>4. Info(t, s) \in UncompletedIn(v, e)
    BY <2>1, VectorUncompleted
  <2>5. s.jetty = j
    BY HeldPlace
  <2> QED
    BY <2>2, <2>3, <2>4, <2>5
<1>2. CASE \E k \in DOMAIN e : e[k].kind = "finish" /\ e[k].seg = s
  <2>1. PICK k \in DOMAIN e : e[k].kind = "finish" /\ e[k].seg = s
    BY <1>2
  <2>2. Info(e[k].tp, e[k].seg) \in UncompletedIn(v, e) /\ e[k].tp \in Tps /\ e[k].seg \in Segment
    BY <2>1, FinishUncompleted
  <2> QED
    BY <2>1, <2>2, HeldPlace
<1> QED
  BY <1>1, <1>2, HeldPlace

\* An outstanding segment is held.
LEMMA UncompletedHeld ==
    ASSUME NEW v \in [Tps -> Seq(Segment)], NEW e \in Seq(Event), NEW c \in UncompletedIn(v, e)
    PROVE  \E s \in HeldIn(v, e, c.jetty) : s.ssn = c.ssn
<1>1. /\ c.tp \in Tps
      /\ \/ \E i \in DOMAIN v[c.tp] : Info(c.tp, v[c.tp][i]) = c
         \/ \E k \in DOMAIN e : e[k].kind = "finish" /\ Info(e[k].tp, e[k].seg) = c
  BY UncompletedPlace
<1>2. CASE \E i \in DOMAIN v[c.tp] : Info(c.tp, v[c.tp][i]) = c
  <2>1. PICK i \in DOMAIN v[c.tp] : Info(c.tp, v[c.tp][i]) = c
    BY <1>2
  <2>2. PICK s : s = v[c.tp][i]
    OBVIOUS
  <2>3. v[c.tp] \in Seq(Segment)
    BY <1>1
  <2>4. s \in Segment
    BY <2>2, <2>3, SeqElement
  <2>5. s.jetty = c.jetty /\ s.ssn = c.ssn
    BY <1>1, <2>1, <2>2, <2>4, InfoOK
  <2>6. s \in HeldIn(v, e, c.jetty)
    BY <1>1, <2>2, <2>5 DEF HeldIn, InVectors, InVectorOf
  <2> QED
    BY <2>5, <2>6
<1>3. CASE \E k \in DOMAIN e : e[k].kind = "finish" /\ Info(e[k].tp, e[k].seg) = c
  <2>1. PICK k \in DOMAIN e : e[k].kind = "finish" /\ Info(e[k].tp, e[k].seg) = c
    BY <1>3
  <2>2. e[k].tp \in Tps /\ e[k].seg \in Segment
    BY <2>1, FinishUncompleted
  <2>3. e[k].seg.jetty = c.jetty /\ e[k].seg.ssn = c.ssn
    BY <2>1, <2>2, InfoOK
  <2>4. e[k].seg \in HeldIn(v, e, c.jetty)
    BY <2>1, <2>3 DEF HeldIn, InFinish
  <2> QED
    BY <2>3, <2>4
<1> QED
  BY <1>1, <1>2, <1>3

LEMMA InvImpliesAccounted == TypeOK /\ JettyInv /\ SegmentInv => SegmentsAccountedFor
<1> SUFFICES ASSUME TypeOK, JettyInv, SegmentInv, NEW j \in Jetties
             PROVE  /\ {s.ssn : s \in Held(j)} =
                           (sndUna[j]..(sndNxt[j] - 1)) \ {sndUna[j] + b : b \in acked[j]}
                    /\ \A s, r \in Held(j) : s.ssn = r.ssn => s = r
  BY DEF SegmentsAccountedFor
<1>1. vec \in [Tps -> Seq(Segment)] /\ events \in Seq(Event)
  BY DEF TypeOK, ChannelOK
<1>2. sndUna[j] \in Nat /\ sndNxt[j] \in Nat /\ acked[j] \in SUBSET (0..(OooThreshold - 1))
  BY DEF TypeOK, JettyOK
<1>3. Held(j) = HeldIn(vec, events, j)
  BY HeldIsHeldIn
<1>4. PICK lo \in Nat, hi \in Nat : lo = sndUna[j] /\ hi = sndNxt[j]
  BY <1>2
<1>5. \A x \in Nat : Complete(j, x) <=> x < lo \/ x - lo \in acked[j]
  BY <1>4 DEF Complete
<1>6. ASSUME NEW x
      PROVE  x \in (lo..(hi - 1)) \ {lo + b : b \in acked[j]} <=> x \in Nat /\ x < hi /\ ~Complete(j, x)
  <2>1. ASSUME x \in (lo..(hi - 1)) \ {lo + b : b \in acked[j]}
        PROVE  x \in Nat /\ x < hi /\ ~Complete(j, x)
    <3>1. x \in Nat /\ x < hi /\ ~(x < lo) /\ x = lo + (x - lo)
      BY <1>4, <2>1
    <3>2. x - lo \notin acked[j]
      BY <2>1, <3>1
    <3> QED
      BY <1>5, <3>1, <3>2
  <2>2. ASSUME x \in Nat, x < hi, ~Complete(j, x)
        PROVE  x \in (lo..(hi - 1)) \ {lo + b : b \in acked[j]}
    <3>1. ~(x < lo) /\ x - lo \notin acked[j]
      BY <1>5, <2>2
    <3>2. x \in lo..(hi - 1)
      BY <2>2, <3>1
    <3>3. \A b \in Nat : x = lo + b => x - lo = b
      BY <2>2
    <3>4. acked[j] \subseteq Nat
      BY <1>2
    <3> QED
      BY <3>1, <3>2, <3>3, <3>4
  <2> QED
    BY <2>1, <2>2
<1>7. ASSUME NEW s \in Held(j) PROVE s.ssn \in Nat /\ s.ssn < hi /\ ~Complete(j, s.ssn)
  <2>1. s \in Segment /\ s.jetty = j /\ \E t \in Tps : Info(t, s) \in UncompletedIn(vec, events)
    BY <1>1, <1>3, HeldUncompleted
  <2>2. PICK t \in Tps : Info(t, s) \in Uncompleted
    BY <2>1 DEF Uncompleted
  <2>3. Info(t, s).jetty = j /\ Info(t, s).ssn = s.ssn /\ s.ssn \in Nat
    BY <2>1, InfoOK DEF Segment
  <2> QED
    BY <1>4, <2>2, <2>3 DEF SegmentInv, SegmentsOK
<1>8. ASSUME NEW x \in Nat, x < hi, ~Complete(j, x) PROVE \E s \in Held(j) : s.ssn = x
  <2>1. PICK c \in Uncompleted : c.jetty = j /\ c.ssn = x
    BY <1>4, <1>8 DEF SegmentInv, SegmentsOK
  <2> QED
    BY <1>1, <1>3, <2>1, UncompletedHeld DEF Uncompleted
<1>9. {s.ssn : s \in Held(j)} = (lo..(hi - 1)) \ {lo + b : b \in acked[j]}
  <2>1. \A x : x \in {s.ssn : s \in Held(j)} <=> x \in Nat /\ x < hi /\ ~Complete(j, x)
    BY <1>7, <1>8
  <2> QED
    BY <1>6, <2>1
<1>10. ASSUME NEW s \in Held(j), NEW r \in Held(j), s.ssn = r.ssn PROVE s = r
  <2>1. DistinctIn(vec, events)
    BY DEF SegmentInv, Distinct
  <2>2. s \in HeldIn(vec, events, j) /\ r \in HeldIn(vec, events, j)
    BY <1>3
  <2>3. SameSsn(s, r) /\ SameSsn(r, s)
    BY <1>10, <2>2, HeldPlace DEF SameSsn
  <2>4. CASE \E t \in Tps : \E i \in DOMAIN vec[t] : vec[t][i] = s
    <3>1. PICK t, i : t \in Tps /\ i \in DOMAIN vec[t] /\ vec[t][i] = s
      BY <2>4
    <3>2. CASE \E w \in Tps : \E k \in DOMAIN vec[w] : vec[w][k] = r
      BY <2>1, <2>3, <3>1, <3>2 DEF DistinctIn
    <3>3. CASE \E k \in DOMAIN events : events[k].kind = "finish" /\ events[k].seg = r
      BY <2>1, <2>3, <3>1, <3>3 DEF DistinctIn
    <3> QED
      BY <2>2, <3>2, <3>3, HeldPlace
  <2>5. CASE \E k \in DOMAIN events : events[k].kind = "finish" /\ events[k].seg = s
    <3>1. PICK k \in DOMAIN events : events[k].kind = "finish" /\ events[k].seg = s
      BY <2>5
    <3>2. CASE \E w \in Tps : \E i \in DOMAIN vec[w] : vec[w][i] = r
      BY <2>1, <2>3, <3>1, <3>2 DEF DistinctIn
    <3>3. CASE \E i \in DOMAIN events : events[i].kind = "finish" /\ events[i].seg = r
      BY <2>1, <2>3, <3>1, <3>3 DEF DistinctIn
    <3> QED
      BY <2>2, <3>2, <3>3, HeldPlace
  <2> QED
    BY <2>2, <2>4, <2>5, HeldPlace
<1> QED
  BY <1>4, <1>9, <1>10

\* UbTransaction, UbJetty: from the moment a round takes a segment to the moment it
\* is complete, exactly one segment stands for each SSN, in a finish event or in
\* the vector of one channel: none is lost or doubled, however rounds, acks out of
\* order, refusals and the removal of channels come between.
THEOREM EverySegmentAccountedFor == Spec => []SegmentsAccountedFor
<1>1. TypeOK /\ JettyInv /\ SegmentInv => SegmentsAccountedFor
  BY InvImpliesAccounted
<1> QED
  BY <1>1, SegmentAlways, PTL

LEMMA InvImpliesIdle == TypeOK /\ SegmentInv => DestroyedIsIdle
<1> SUFFICES ASSUME TypeOK, SegmentInv, NEW t \in Tps, ~exists[t]
             PROVE  vec[t] = <<>> /\ ~Pending("finish", t)
  BY DEF DestroyedIsIdle
<1> QED
  BY GoneIsIdle DEF SegmentInv, Pending

\* TpConnectionManager::RemoveUselessTps: a TP is destroyed only when it holds no
\* segment and no finish event is on its way to it.
THEOREM DestroyedTpsAreIdle == Spec => []DestroyedIsIdle
<1>1. TypeOK /\ JettyInv /\ SegmentInv => DestroyedIsIdle
  BY InvImpliesIdle
<1> QED
  BY <1>1, SegmentAlways, PTL

(***************************************************************************)
(* A WQE is complete.                                                      *)
(***************************************************************************)

\* Only a completed segment takes a WQE from its jetty, and only one that is
\* complete.
LEMMA OnlyCompleteGo ==
    ASSUME TypeOK, [Next]_vars, NEW j \in Jetties, NEW n \in DOMAIN wqes[j],
           \A k \in DOMAIN wqes'[j] : wqes'[j][k].id # wqes[j][n].id
    PROVE  CompleteSegment /\ \E s, u : Completes(s, j, u) /\ IsWqeCompleted(wqes[j][n], u)
<1>1. CASE UNCHANGED jettyVars
  BY <1>1 DEF jettyVars
<1>2. CASE \E k \in Jetties : Takes(k)
  <2>1. DOMAIN wqes'[j] = DOMAIN wqes[j] /\ wqes'[j][n].id = wqes[j][n].id
    BY <1>2, TakenShape
  <2> QED
    BY <2>1
<1>3. CASE \E k \in Jetties, o \in Orders, m \in WqeSizes : PushWqe(k, o, m)
  <2>1. PICK k, o, m : k \in Jetties /\ o \in Orders /\ m \in WqeSizes /\ PushWqe(k, o, m)
    BY <1>3
  <2>2. PICK w : w = NewWqe(k, o, m)
    OBVIOUS
  <2>3. w \in Wqe /\ wqes'[k] = Append(wqes[k], w) /\ \A i \in Jetties \ {k} : wqes'[i] = wqes[i]
    BY <2>1, <2>2, PushedWqe DEF TypeOK
  <2>4. CASE k = j
    <3>1. PICK q : q = Append(wqes[j], w)
      OBVIOUS
    <3>2. wqes[j] \in Seq(Wqe) /\ wqes'[j] = q
      BY <2>3, <2>4, <3>1 DEF TypeOK, JettyOK
    <3>3. n \in DOMAIN q /\ q[n] = wqes[j][n]
      BY <2>3, <3>1, <3>2, AppendElement
    <3> QED
      BY <3>2, <3>3
  <2>5. CASE k # j
    BY <2>3, <2>5
  <2> QED
    BY <2>4, <2>5
<1>4. CASE CompleteSegment
  <2>1. PICK s, k, u : Completes(s, k, u)
    BY <1>4, CompletedSsns
  <2>2. k \in Jetties /\ RemoveCompleted(k, u) /\ JettyOK
    BY <2>1 DEF Completes, TypeOK
  <2>3. CASE k # j
    <3>1. wqes'[j] = wqes[j]
      BY <2>2, <2>3, RemovedWqes
    <3> QED
      BY <3>1
  <2>4. CASE k = j
    <3>1. PICK m \in [DOMAIN wqes'[j] -> DOMAIN wqes[j]] :
             /\ \A i \in DOMAIN wqes'[j] : wqes'[j][i] = wqes[j][m[i]]
             /\ \A i \in DOMAIN wqes[j] :
                   ~IsWqeCompleted(wqes[j][i], u) => \E l \in DOMAIN wqes'[j] : m[l] = i
      BY <2>2, <2>4, LeftWqes
    <3>2. IsWqeCompleted(wqes[j][n], u)
      BY <3>1
    <3> QED
      BY <1>4, <2>1, <2>4, <3>2
  <2> QED
    BY <2>3, <2>4
<1> QED
  BY <1>1, <1>2, <1>3, <1>4, JettySteps

\* The WQEs that a step reports complete.
LEMMA GoneWasWhole ==
    ASSUME TypeOK, TypeOK', JettyInv, JettyInv', SegmentInv, SegmentInv', NoneOvertakes, [Next]_vars,
           NEW j \in Jetties, NEW n \in DOMAIN wqes[j],
           \A k \in DOMAIN wqes'[j] : wqes'[j][k].id # wqes[j][n].id
    PROVE  /\ wqes[j][n].sent = wqes[j][n].size
           /\ \A s \in Held(j)' : s.wqe # wqes[j][n].id
<1>1. PICK s0, u : CompleteSegment /\ Completes(s0, j, u) /\ IsWqeCompleted(wqes[j][n], u)
  BY OnlyCompleteGo
<1>2. u \in Nat /\ sndUna'[j] = u /\ sndNxt' = sndNxt
  BY <1>1 DEF Completes
<1>3. /\ wqes[j][n].start \in Nat /\ wqes[j][n].size \in Nat \ {0}
      /\ End(wqes[j][n]) = wqes[j][n].start + wqes[j][n].size
  BY WqeParts DEF TypeOK
<1>4. End(wqes[j][n]) <= u
  <2>1. wqes[j][n].start + wqes[j][n].size - 1 < u
    BY <1>1 DEF IsWqeCompleted
  <2> QED
    BY <1>2, <1>3, <2>1
<1>5. sndNxt[j] \in Nat
  BY DEF TypeOK, JettyOK
<1>6. u <= sndNxt[j]
  BY <1>2 DEF JettyInv, WindowOK
<1>7. wqes[j][n].sent = wqes[j][n].size
  <2>1. wqes[j][n].sent = IF sndNxt[j] <= wqes[j][n].start THEN 0
                          ELSE IF sndNxt[j] >= End(wqes[j][n]) THEN wqes[j][n].size
                          ELSE sndNxt[j] - wqes[j][n].start
    BY DEF SegmentInv, SentInOrder
  <2> QED
    BY <1>2, <1>3, <1>4, <1>5, <1>6, <2>1
<1>8. ASSUME NEW s \in Held(j)', s.wqe = wqes[j][n].id PROVE FALSE
  <2>1. vec' \in [Tps -> Seq(Segment)] /\ events' \in Seq(Event)
    BY DEF TypeOK, ChannelOK
  <2>2. s \in HeldIn(vec', events', j)
    BY HeldIsHeldIn
  <2>3. s \in Segment /\ s.jetty = j /\ \E t \in Tps : Info(t, s) \in UncompletedIn(vec', events')
    BY <2>1, <2>2, HeldUncompleted
  <2>4. PICK t \in Tps : Info(t, s) \in Uncompleted'
    BY <2>3 DEF Uncompleted
  <2>5. Info(t, s).jetty = j /\ Info(t, s).ssn = s.ssn /\ Info(t, s).wqe = s.wqe /\ s.ssn \in Nat
    BY <2>3, InfoOK DEF Segment
  <2>6. Drops(vec[acking[1]][acking[2]], acking[1])
    BY <1>1, CompleteDropsIt
  <2>7. Info(t, s) \in Uncompleted
    BY <2>4, <2>6 DEF Drops
  <2>8. s.ssn < End(wqes[j][n])
    BY <1>8, <2>5, <2>7 DEF SegmentInv, OwnersOK
  <2>9. ~Complete(j, s.ssn)'
    BY <2>4, <2>5 DEF SegmentInv, SegmentsOK
  <2>10. ~(s.ssn < u)
    BY <1>2, <2>9 DEF Complete
  <2> QED
    BY <1>2, <1>3, <1>4, <2>5, <2>8, <2>10
<1> QED
  BY <1>7, <1>8

\* UbJetty::CheckAndRemoveCompletedWqe: where the orders let no WQE of a jetty
\* overtake another, a WQE is reported complete only when every segment of it was
\* sent and none is unacknowledged.  With three WQEs of mixed orders TLC shows one that
\* overtakes a blocked SO WQE making that one complete unsent: the hypothesis is needed.
THEOREM WqesCompleteWhole == ASSUME NoneOvertakes PROVE Spec => CompletedWhole
<1>1. ASSUME TypeOK, TypeOK', JettyInv, JettyInv', SegmentInv, SegmentInv', [Next]_vars
      PROVE  [\A j \in Jetties : \A w \in ToSet(wqes[j]) :
                 (\A x \in ToSet(wqes'[j]) : x.id # w.id) =>
                     /\ w.sent = w.size
                     /\ \A s \in Held(j)' : s.wqe # w.id]_vars
  <2> SUFFICES ASSUME NEW j \in Jetties, NEW w \in ToSet(wqes[j]),
                      \A x \in ToSet(wqes'[j]) : x.id # w.id
               PROVE  w.sent = w.size /\ \A s \in Held(j)' : s.wqe # w.id
    OBVIOUS
  <2>1. PICK n \in DOMAIN wqes[j] : wqes[j][n] = w
    BY DEF ToSet
  <2>2. \A k \in DOMAIN wqes'[j] : wqes'[j][k].id # wqes[j][n].id
    BY <2>1 DEF ToSet
  <2>3. /\ wqes[j][n].sent = wqes[j][n].size
        /\ \A s \in Held(j)' : s.wqe # wqes[j][n].id
    BY <1>1, <2>2, GoneWasWhole
  <2> QED
    BY <2>1, <2>3
<1> QED
  BY <1>1, SegmentAlways, PTL DEF Spec, CompletedWhole

(***************************************************************************)
(* The rounds.                                                             *)
(***************************************************************************)

\* A jetty of channel t has a segment.
Wanted(t) == \E i \in DOMAIN related[t] : HasSegment(related[t][i])

\* A round asks every jetty of its channel, wherever it begins.
LEMMA TurnsOfAll == ChannelOK => \A t \in Tps : Turns(t) # {} <=> Wanted(t)
<1> SUFFICES ASSUME ChannelOK, NEW t \in Tps
             PROVE  Turns(t) # {} <=> Wanted(t)
  OBVIOUS
<1>1. ASSUME Turns(t) # {} PROVE Wanted(t)
  <2>1. PICK i \in 0..(Len(related[t]) - 1) : HasSegment(Asked(t, i))
    BY <1>1 DEF Turns
  <2>2. Turn(t, i) + 1 \in DOMAIN related[t]
    BY TurnOK
  <2> QED
    BY <2>1, <2>2 DEF Wanted, Asked
<1>2. ASSUME Wanted(t) PROVE Turns(t) # {}
  <2>1. PICK p \in DOMAIN related[t] : HasSegment(related[t][p])
    BY <1>2 DEF Wanted
  <2>2. PICK n \in Nat : n = Len(related[t]) /\ DOMAIN related[t] = 1..n
    <3>1. related[t] \in Seq(Jetties)
      BY DEF ChannelOK
    <3> QED
      BY <3>1
  <2>3. PICK base : base = IF rrIndex[t] > n THEN 0 ELSE rrIndex[t]
    OBVIOUS
  <2>4. base \in 0..n
    BY <2>2, <2>3 DEF ChannelOK
  <2>5. n > 0 /\ p - 1 \in 0..(n - 1) /\ p = (p - 1) + 1
    BY <2>1, <2>2
  <2>6. \E i \in 0..(n - 1) : (base + i) % n = p - 1
    <3>0. \A a \in Nat, m \in Nat \ {0} : a < m => a % m = a
      OBVIOUS
    <3>1. \A a \in Nat, m \in Nat \ {0} : a < m => (a + m) % m = a
      OBVIOUS
    <3>4. p - 1 \in Nat /\ n \in Nat \ {0} /\ p - 1 < n
      BY <2>2, <2>5
    <3>2. CASE base <= p - 1
      <4>1. (p - 1) - base \in 0..(n - 1) /\ base + ((p - 1) - base) = p - 1
        BY <2>4, <2>5, <3>2
      <4>2. (p - 1) % n = p - 1
        BY <3>0, <3>4
      <4> QED
        BY <4>1, <4>2
    <3>3. CASE ~(base <= p - 1)
      <4>1. (p - 1) - base + n \in 0..(n - 1) /\ base + ((p - 1) - base + n) = (p - 1) + n
        BY <2>2, <2>4, <2>5, <3>3
      <4>2. ((p - 1) + n) % n = p - 1
        BY <3>1, <3>4
      <4> QED
        BY <4>1, <4>2
    <3> QED
      BY <3>2, <3>3
  <2>7. PICK i \in 0..(n - 1) : (base + i) % n = p - 1
    BY <2>6
  <2>8. Turn(t, i) = p - 1
    BY <2>2, <2>3, <2>7 DEF Turn, StartIndex
  <2>9. Asked(t, i) = related[t][p]
    BY <2>5, <2>8 DEF Asked
  <2>10. i \in Turns(t)
    BY <2>1, <2>2, <2>7, <2>9 DEF Turns
  <2> QED
    BY <2>10
<1> QED
  BY <1>1, <1>2

LEMMA TurnsOfAllNext == (ChannelOK => \A t \in Tps : Turns(t) # {} <=> Wanted(t))'
BY TurnsOfAll, PTL

LEMMA InvImpliesNoLostRound == ChannelOK /\ RoundsOK => NoLostRound
BY DEF RoundsOK, NoLostRound

\* Every event of e is in d, but for the first in CarriesTail.
CarriesAll(d, e) == \A i \in DOMAIN e : \E n \in DOMAIN d : d[n] = e[i]
CarriesTail(d, e) == \A i \in DOMAIN e : e[i] = Head(e) \/ \E n \in DOMAIN d : d[n] = e[i]

LEMMA EventsAdded ==
    ASSUME NEW e \in Seq(Event), NEW x \in Seq(Event)
    PROVE  CarriesAll(e \o x, e) /\ CarriesAll(e \o x, x)
<1>1. PICK d : d = e \o x
  OBVIOUS
<1>2. \A i \in DOMAIN e : i \in DOMAIN d /\ d[i] = e[i]
  BY <1>1, ConcatParts
<1>3. \A i \in DOMAIN x : \E n \in DOMAIN d : n = i + Len(e) /\ d[n] = x[i]
  BY <1>1, ConcatParts
<1>4. CarriesAll(d, e) /\ CarriesAll(d, x)
  BY <1>2, <1>3 DEF CarriesAll
<1> QED
  BY <1>1, <1>4

LEMMA EventsAfterHead ==
    ASSUME NEW e \in Seq(Event), e # <<>>, NEW x \in Seq(Event)
    PROVE  CarriesTail(Tail(e) \o x, e) /\ CarriesAll(Tail(e) \o x, x)
<1>1. PICK r : r = Tail(e)
  OBVIOUS
<1>2. r \in Seq(Event) /\ Head(e) = e[1]
  BY <1>1, HeadTailSeq
<1>3. PICK d : d = r \o x
  OBVIOUS
<1>4. CarriesAll(d, r) /\ CarriesAll(d, x)
  BY <1>2, <1>3, EventsAdded
<1>5. \A i \in DOMAIN e : i # 1 => \E n \in DOMAIN r : r[n] = e[i]
  <2>1. /\ Len(e) \in Nat /\ DOMAIN e = 1..Len(e) /\ Len(r) = Len(e) - 1 /\ DOMAIN r = 1..Len(r)
        /\ \A n \in 1..Len(r) : r[n] = e[n + 1]
    BY <1>1, <1>2, HeadTailProperties, LenProperties
  <2> SUFFICES ASSUME NEW i \in DOMAIN e, i # 1 PROVE \E n \in DOMAIN r : r[n] = e[i]
    OBVIOUS
  <2>2. i - 1 \in DOMAIN r /\ (i - 1) + 1 = i
    BY <2>1
  <2>3. r[i - 1] = e[i]
    BY <2>1, <2>2
  <2> QED
    BY <2>2, <2>3
<1>6. CarriesTail(d, e)
  <2> SUFFICES ASSUME NEW i \in DOMAIN e PROVE e[i] = Head(e) \/ \E n \in DOMAIN d : d[n] = e[i]
    BY DEF CarriesTail
  <2>1. CASE i = 1
    BY <1>2, <2>1
  <2>2. CASE i # 1
    BY <1>4, <1>5, <2>2 DEF CarriesAll
  <2> QED
    BY <2>1, <2>2
<1> QED
  BY <1>1, <1>3, <1>4, <1>6

\* An event that is pending stays so when events are added.
LEMMA StillPending ==
    ASSUME TypeOK, NEW x \in Seq(Event), events' = events \o x, NEW kind, NEW t, Pending(kind, t)
    PROVE  Pending(kind, t)'
<1>1. CarriesAll(events', events)
  BY EventsAdded DEF TypeOK
<1> QED
  BY <1>1 DEF CarriesAll, Pending

\* An event that is added is pending.
LEMMA NowPending ==
    ASSUME TypeOK, NEW x \in Seq(Event), events' = events \o x, NEW k \in DOMAIN x
    PROVE  Pending(x[k].kind, x[k].tp)'
<1>1. CarriesAll(events', x)
  BY EventsAdded DEF TypeOK
<1> QED
  BY <1>1 DEF CarriesAll, Pending

\* When the head is run, every event of another kind or channel stays pending.
LEMMA TailPending ==
    ASSUME TypeOK, events # <<>>, NEW x \in Seq(Event), events' = Tail(events) \o x,
           NEW kind, NEW t, Pending(kind, t), Head(events).kind # kind \/ Head(events).tp # t
    PROVE  Pending(kind, t)'
<1>1. CarriesTail(events', events)
  BY EventsAfterHead DEF TypeOK
<1>2. PICK i \in DOMAIN events : events[i].kind = kind /\ events[i].tp = t
  BY DEF Pending
<1>3. events[i] # Head(events)
  BY <1>2
<1> QED
  BY <1>1, <1>2, <1>3 DEF CarriesTail, Pending

LEMMA AddedPending ==
    ASSUME TypeOK, events # <<>>, NEW x \in Seq(Event), events' = Tail(events) \o x, NEW k \in DOMAIN x
    PROVE  Pending(x[k].kind, x[k].tp)'
<1>1. CarriesAll(events', x)
  BY EventsAfterHead DEF TypeOK
<1> QED
  BY <1>1 DEF CarriesAll, Pending

\* A round takes a WQE's segment or none: no jetty gets one.
LEMMA RoundWantsNoMore ==
    ASSUME TypeOK, UNCHANGED <<ordered, sndUna, related>>,
           UNCHANGED <<wqes, sndNxt>> \/ \E j \in Jetties : Takes(j) /\ Sendable(j) # {},
           NEW t \in Tps, Wanted(t)'
    PROVE  Wanted(t)
<1>1. PICK i \in DOMAIN related[t] : HasSegment(related[t][i])'
  BY DEF Wanted
<1>2. PICK k \in Jetties : k = related[t][i]
  <2>1. related[t] \in Seq(Jetties)
    BY DEF TypeOK, ChannelOK
  <2>2. related[t][i] \in Jetties
    BY <2>1, SeqElement
  <2> QED
    BY <2>2
<1>3. HasSegment(k)'
  BY <1>1, <1>2
<1>4. HasSegment(k)
  <2>1. CASE UNCHANGED <<wqes, sndNxt>>
    BY <1>3, <2>1 DEF HasSegment, IsLimited, Sendable, IsOrderedByInitiator
  <2>2. CASE \E j \in Jetties : Takes(j) /\ Sendable(j) # {}
    <3>1. PICK j \in Jetties : Takes(j) /\ Sendable(j) # {}
      BY <2>2
    <3>2. /\ DOMAIN wqes'[k] = DOMAIN wqes[k]
          /\ \A n \in DOMAIN wqes[k] :
                /\ wqes'[k][n].id = wqes[k][n].id /\ wqes'[k][n].order = wqes[k][n].order
                /\ wqes'[k][n].size = wqes[k][n].size
                /\ ~(k = j /\ n = FirstSendable(j)) => wqes'[k][n] = wqes[k][n]
      BY <3>1, TakenShape
    <3>3. FirstSendable(j) \in Sendable(j)
      BY <3>1, FirstSendableOK DEF TypeOK
    <3>4. ASSUME NEW n \in Sendable(k)' PROVE n \in Sendable(k)
      <4>1. CASE k = j /\ n = FirstSendable(j)
        BY <3>3, <4>1
      <4>2. CASE ~(k = j /\ n = FirstSendable(j))
        <5>1. n \in DOMAIN wqes'[k] /\ wqes'[k][n].sent < wqes'[k][n].size
              /\ (wqes'[k][n].canSend \/ (wqes'[k][n].order = "SO" => Head(ordered[k]) = wqes'[k][n].id))
          BY <3>4 DEF Sendable, IsOrderedByInitiator
        <5>2. n \in DOMAIN wqes[k] /\ wqes'[k][n] = wqes[k][n]
          BY <3>2, <4>2, <5>1
        <5> QED
          BY <5>1, <5>2 DEF Sendable, IsOrderedByInitiator
      <4> QED
        BY <4>1, <4>2
    <3>5. IsLimited(k) => IsLimited(k)'
      <4>1. /\ sndNxt[k] \in Nat /\ sndUna[k] \in Nat /\ JettyInflight \in Nat
            /\ sndNxt'[k] = IF k = j THEN sndNxt[k] + 1 ELSE sndNxt[k]
        <5>1. sndNxt \in [Jetties -> Nat] /\ sndUna \in [Jetties -> Nat]
          BY DEF TypeOK, JettyOK
        <5>2. sndNxt' = [sndNxt EXCEPT ![j] = @ + 1]
          BY <3>1 DEF Takes, GetNextWqeSegment
        <5> QED
          BY <5>1, <5>2, ConstantsAssumption
      <4>2. sndNxt'[k] - sndUna[k] >= sndNxt[k] - sndUna[k]
        BY <4>1
      <4> QED
        BY <4>1, <4>2 DEF IsLimited
    <3> QED
      BY <1>3, <3>4, <3>5 DEF HasSegment
  <2> QED
    BY <2>1, <2>2
<1> QED
  BY <1>2, <1>4 DEF Wanted

\* RoundsOK, of one channel.
RoundOK(t) ==
    /\ scheduling[t] => Pending("finish", t)
    /\ exists[t] /\ Wanted(t) =>
           \/ Pending("schedule", t) \/ Pending("finish", t)
           \/ full[t] /\ (IsWqeSegmentLimited(vec[t]) \/ (acking # <<>> /\ acking[1] = t))

LEMMA RoundsOfAll == ChannelOK => (RoundsOK <=> \A t \in Tps : RoundOK(t))
<1> SUFFICES ASSUME ChannelOK PROVE RoundsOK <=> \A t \in Tps : RoundOK(t)
  OBVIOUS
<1>1. \A t \in Tps : Turns(t) # {} <=> Wanted(t)
  BY TurnsOfAll
<1> QED
  BY <1>1 DEF RoundsOK, RoundOK

LEMMA RoundsOfAllNext == (ChannelOK => (RoundsOK <=> \A t \in Tps : RoundOK(t)))'
BY RoundsOfAll, PTL

\* A round of t, whose vector is q when the round begins.
LEMMA RoundKeepsRounds ==
    ASSUME TypeOK, RoundsOK, events # <<>>, NEW t \in Tps, t = Head(events).tp, NEW q, NEW busy \in BOOLEAN,
           ScheduleWqeSegment(t, q, busy), UNCHANGED <<ordered, msnCnt, ssnCnt, sndUna, acked, acking>>,
           UNCHANGED bindVars, \A u \in Tps \ {t} : vec'[u] = vec[u],
           busy => Pending("finish", t) /\ Head(events).kind # "finish",
           IsWqeSegmentLimited(q) => vec'[t] = q
    PROVE  \A u \in Tps : RoundOK(u)'
<1>1. ChannelOK /\ JettyOK /\ events \in Seq(Event)
  BY DEF TypeOK
<1>2. \A u \in Tps : RoundOK(u)
  BY <1>1, RoundsOfAll
<1>3. UNCHANGED <<related, exists>>
  BY DEF bindVars
<1>4. /\ full \in [Tps -> BOOLEAN] /\ scheduling \in [Tps -> BOOLEAN]
  BY <1>1 DEF ChannelOK
<1>5. \/ /\ RoundStops(t, q, busy) /\ events' = Tail(events) /\ UNCHANGED jettyVars
      \/ /\ RoundTakes(t, q, busy) /\ events' = Tail(events) \o Finish(t)
         /\ Turns(t) # {} /\ Asked(t, FirstTurn(t)) \in Jetties /\ Takes(Asked(t, FirstTurn(t)))
  BY RoundStep
<1>6. \E x \in Seq(Event) : events' = Tail(events) \o x
  <2>1. CASE events' = Tail(events)
    <3>1. Tail(events) \in Seq(Event)
      BY <1>1, HeadTailSeq
    <3>2. Tail(events) \o <<>> = Tail(events) /\ <<>> \in Seq(Event)
      BY <3>1, ConcatEmptySeq
    <3> QED
      BY <2>1, <3>2
  <2>2. CASE events' = Tail(events) \o Finish(t) /\ Turns(t) # {}
    BY <1>1, <2>2, FinishOK
  <2> QED
    BY <1>5, <2>1, <2>2
<1>7. ASSUME NEW u \in Tps, Wanted(u)' PROVE Wanted(u)
  <2>1. UNCHANGED <<wqes, sndNxt>> \/ \E j \in Jetties : Takes(j) /\ Sendable(j) # {}
    <3>1. CASE UNCHANGED jettyVars
      BY <3>1 DEF jettyVars
    <3>2. CASE Turns(t) # {} /\ Takes(Asked(t, FirstTurn(t)))
      BY <1>1, <3>2, FirstTurnOK DEF HasSegment
    <3> QED
      BY <1>5, <3>1, <3>2
  <2> QED
    BY <1>3, <1>7, <2>1, RoundWantsNoMore
<1>8. ASSUME NEW u \in Tps \ {t} PROVE RoundOK(u)'
  <2>1. \A kind : Pending(kind, u) => Pending(kind, u)'
    BY <1>6, TailPending
  <2>2. full'[u] = full[u] /\ scheduling'[u] = scheduling[u]
    BY <1>4, <1>5 DEF RoundStops, RoundTakes
  <2>3. vec'[u] = vec[u]
    OBVIOUS
  <2> QED
    BY <1>2, <1>3, <1>7, <2>1, <2>2, <2>3 DEF RoundOK
<1>9. RoundOK(t)'
  <2>1. CASE RoundTakes(t, q, busy) /\ events' = Tail(events) \o Finish(t) /\ Turns(t) # {}
    <3>1. Finish(t) \in Seq(Event) /\ 1 \in DOMAIN Finish(t) /\ Finish(t)[1].kind = "finish" /\ Finish(t)[1].tp = t
      <4>1. PICK e : e = [kind |-> "finish", tp |-> t, seg |-> NextSegment(Asked(t, FirstTurn(t)))]
        OBVIOUS
      <4>2. /\ Finish(t) \in Seq(Event) /\ e.kind = "finish" /\ e.tp = t
            /\ DOMAIN Finish(t) = {1} /\ Finish(t)[1] = e
        BY <1>1, <2>1, <4>1, FinishOK
      <4> QED
        BY <4>2
    <3>2. Pending("finish", t)'
      BY <2>1, <3>1, AddedPending
    <3> QED
      BY <3>2 DEF RoundOK
  <2>2. CASE RoundStops(t, q, busy)
    <3>1. scheduling'[t] = busy
          /\ full'[t] = (full[t] \/ (exists[t] /\ ~busy /\ related[t] # <<>> /\ IsWqeSegmentLimited(q)))
      BY <1>4, <2>2 DEF RoundStops
    <3>2. CASE busy
      <4>1. Pending("finish", t)'
        BY <1>6, <3>2, TailPending
      <4> QED
        BY <4>1 DEF RoundOK
    <3>3. CASE ~busy
      <4> SUFFICES ASSUME exists'[t], Wanted(t)'
                   PROVE  full'[t] /\ IsWqeSegmentLimited(vec'[t])
        BY <3>1, <3>3 DEF RoundOK, IsWqeSegmentLimited
      <4>1. exists[t] /\ Wanted(t) /\ Turns(t) # {}
        BY <1>1, <1>3, <1>7, TurnsOfAll
      <4>2. related[t] # <<>>
        BY <4>1 DEF Wanted
      <4>3. IsWqeSegmentLimited(q)
        BY <2>2, <3>3, <4>1 DEF RoundStops
      <4> QED
        BY <3>1, <3>3, <4>1, <4>2, <4>3
    <3> QED
      BY <3>2, <3>3
  <2> QED
    BY <1>5, <2>1, <2>2
<1> QED
  BY <1>8, <1>9

LEMMA RunScheduleRounds ==
    ASSUME TypeOK, RoundsOK, RunSchedule
    PROVE  \A u \in Tps : RoundOK(u)'
<1>1. events # <<>> /\ events \in Seq(Event) /\ Head(events).kind = "schedule"
  BY DEF RunSchedule, Running, TypeOK
<1>2. Head(events) \in Event
  BY <1>1, HeadTailSeq
<1>3. PICK t \in Tps : t = Head(events).tp
  BY <1>2, EventParts
<1>4. PICK q : q = IF Head(events).obj = made[t] THEN vec[t] ELSE <<>>
  OBVIOUS
<1>5. PICK busy \in BOOLEAN : busy = scheduling[t]
  BY DEF TypeOK, ChannelOK
<1>6. ScheduleWqeSegment(t, q, busy)
  BY <1>3, <1>4, <1>5 DEF RunSchedule
<1>7. UNCHANGED <<ordered, msnCnt, ssnCnt, sndUna, acked, acking>> /\ UNCHANGED bindVars /\ vec' = vec
  BY DEF RunSchedule
<1>8. busy => Pending("finish", t) /\ Head(events).kind # "finish"
  BY <1>1, <1>5 DEF RoundsOK
<1>9. IsWqeSegmentLimited(q) => vec'[t] = q
  <2>1. Len(<<>>) = 0 /\ MaxWqeSegs \in Nat \ {0}
    BY ConstantsAssumption
  <2>2. ~IsWqeSegmentLimited(<<>>)
    BY <2>1 DEF IsWqeSegmentLimited
  <2> QED
    BY <1>4, <1>7, <2>2
<1> QED
  BY <1>1, <1>3, <1>6, <1>7, <1>8, <1>9, RoundKeepsRounds

LEMMA FinishRounds ==
    ASSUME TypeOK, RoundsOK, OnScheduleWqeSegmentFinish
    PROVE  \A u \in Tps : RoundOK(u)'
<1>1. events # <<>> /\ events \in Seq(Event)
  BY DEF OnScheduleWqeSegmentFinish, Running, TypeOK
<1>2. Head(events) \in Event
  BY <1>1, HeadTailSeq
<1>3. PICK t \in Tps : t = Head(events).tp
  BY <1>2, EventParts
<1>4. PICK s : s = [Head(events).seg EXCEPT !.num = pushed[t]]
  OBVIOUS
<1>5. PICK q : q = Append(vec[t], s)
  OBVIOUS
<1>6. ScheduleWqeSegment(t, q, FALSE) /\ vec' = [vec EXCEPT ![t] = Append(@, s)]
  BY <1>3, <1>4, <1>5 DEF OnScheduleWqeSegmentFinish
<1>7. vec'[t] = q /\ \A u \in Tps \ {t} : vec'[u] = vec[u]
  BY <1>5, <1>6 DEF TypeOK, ChannelOK
<1>8. UNCHANGED <<ordered, msnCnt, ssnCnt, sndUna, acked, acking>> /\ UNCHANGED bindVars
  BY DEF OnScheduleWqeSegmentFinish
<1>9. PICK busy \in BOOLEAN : busy = FALSE
  OBVIOUS
<1>10. ScheduleWqeSegment(t, q, busy) /\ ~busy
  BY <1>6, <1>9
<1> QED
  BY <1>1, <1>3, <1>7, <1>8, <1>10, RoundKeepsRounds

\* A new WQE asks for a round of every channel of its jetty.
LEMMA PushKeepsRounds ==
    ASSUME TypeOK, TypeOK', BindingsOK, RoundsOK,
           NEW j \in Jetties, NEW o \in Orders, NEW n \in WqeSizes, PushWqe(j, o, n)
    PROVE  \A u \in Tps : RoundOK(u)'
<1>1. ChannelOK /\ JettyOK /\ related \in [Tps -> Seq(Jetties)]
  BY DEF TypeOK, ChannelOK
<1>2. \A u \in Tps : RoundOK(u)
  BY <1>1, RoundsOfAll
<1>3. PICK x : x = PushRounds(j)
  OBVIOUS
<1>4. OnlyRounds(x) /\ \A i \in DOMAIN Paths[j] : i \in DOMAIN x /\ x[i].tp = Paths[j][i]
  BY <1>3, PushRoundsOK DEF TypeOK, ChannelOK
<1>5. x \in Seq(Event) /\ events' = events \o x
  BY <1>3, <1>4 DEF OnlyRounds, PushWqe, PushRounds
<1>6. acking = <<>> /\ acking' = <<>>
  BY DEF PushWqe
<1>7. ASSUME NEW u \in Tps PROVE scheduling'[u] => Pending("finish", u)'
  <2>1. scheduling'[u] => scheduling[u]
    <3>1. CASE msnCnt[j] = 0
      BY <3>1 DEF PushWqe, Bind
    <3>2. CASE msnCnt[j] # 0
      BY <3>2 DEF PushWqe, roundVars
    <3> QED
      BY <3>1, <3>2
  <2> QED
    BY <1>2, <1>5, <2>1, StillPending DEF RoundOK
<1>8. ASSUME NEW u \in Tps, \E i \in DOMAIN Paths[j] : Paths[j][i] = u PROVE Pending("schedule", u)'
  <2>1. PICK i \in DOMAIN Paths[j] : Paths[j][i] = u
    BY <1>8
  <2>2. i \in DOMAIN x /\ x[i].tp = u /\ x[i].kind = "schedule"
    BY <1>4, <2>1 DEF OnlyRounds
  <2> QED
    BY <1>5, <2>2, NowPending
<1>9. ASSUME NEW u \in Tps, ~\E i \in DOMAIN Paths[j] : Paths[j][i] = u,
             exists'[u], Wanted(u)'
      PROVE  \/ Pending("schedule", u)' \/ Pending("finish", u)'
             \/ full'[u] /\ IsWqeSegmentLimited(vec'[u])
  <2>1. /\ related'[u] = related[u] /\ exists'[u] = exists[u] /\ full'[u] = full[u] /\ vec'[u] = vec[u]
    <3>1. CASE msnCnt[j] = 0
      <4>1. u \notin ToSet(Paths[j])
        BY <1>9 DEF ToSet
      <4>2. Bind(j)
        BY <3>1 DEF PushWqe
      <4>3. related'[u] = related[u]
        BY <4>1, <4>2 DEF Bind
      <4>4. exists'[u] = (exists[u] \/ u \in ToSet(Paths[j])) /\ exists[u] \in BOOLEAN /\ exists'[u] \in BOOLEAN
        BY <4>2 DEF Bind, TypeOK, ChannelOK
      <4>5. full'[u] = full[u] /\ vec'[u] = vec[u]
        BY <4>1, <4>2 DEF Bind
      <4> QED
        BY <4>1, <4>3, <4>4, <4>5
    <3>2. CASE msnCnt[j] # 0
      BY <3>2 DEF PushWqe, bindVars, tpVars
    <3> QED
      BY <3>1, <3>2
  <2>2. PICK i \in DOMAIN related[u] : HasSegment(related[u][i])'
    BY <1>9, <2>1 DEF Wanted
  <2>3. PICK k \in Jetties : k = related[u][i]
    <3>1. related[u] \in Seq(Jetties)
      BY <1>1
    <3>2. related[u][i] \in Jetties
      BY <3>1, SeqElement
    <3> QED
      BY <3>2
  <2>4. k # j
    <3>1. \E p \in DOMAIN group[k] : group[k][p] = u
      BY <2>3 DEF BindingsOK
    <3>2. group[k] = Paths[k]
      BY <3>1 DEF BindingsOK
    <3> QED
      BY <1>9, <3>1, <3>2
  <2>5. wqes'[k] = wqes[k] /\ ordered'[k] = ordered[k] /\ sndNxt' = sndNxt /\ sndUna' = sndUna
    BY <1>1, <2>4, PushedWqe
  <2>6. HasSegment(k)
    <3>1. HasSegment(k)'
      BY <2>1, <2>2, <2>3
    <3>2. IsLimited(k)' <=> IsLimited(k)
      BY <2>5 DEF IsLimited
    <3>3. Sendable(k)' = Sendable(k)
      BY <2>5 DEF Sendable, IsOrderedByInitiator
    <3> QED
      BY <3>1, <3>2, <3>3 DEF HasSegment
  <2>7. Wanted(u)
    BY <2>3, <2>6 DEF Wanted
  <2>8. \/ Pending("schedule", u) \/ Pending("finish", u)
        \/ full[u] /\ IsWqeSegmentLimited(vec[u])
    BY <1>2, <1>6, <1>9, <2>1, <2>7 DEF RoundOK
  <2> QED
    BY <1>5, <2>1, <2>8, StillPending
<1> QED
  BY <1>7, <1>8, <1>9 DEF RoundOK, IsWqeSegmentLimited

LEMMA RecvRounds ==
    ASSUME TypeOK, RoundsOK, NEW t \in Tps, NEW n, RecvTpAck(t, n)
    PROVE  \A u \in Tps : RoundOK(u)'
<1>1. \A u \in Tps : RoundOK(u)
  BY RoundsOfAll DEF TypeOK
<1>2. acking = <<>> /\ UNCHANGED <<wqes, ordered, sndNxt, sndUna, related, exists, vec, full, scheduling, events>>
  BY DEF RecvTpAck, jettyVars, bindVars, roundVars
<1> SUFFICES ASSUME NEW u \in Tps PROVE RoundOK(u)'
  OBVIOUS
<1>3. /\ Wanted(u)' <=> Wanted(u)
      /\ \A kind : Pending(kind, u)' <=> Pending(kind, u)
  BY <1>2 DEF Wanted, HasSegment, IsLimited, Sendable, IsOrderedByInitiator, Pending
<1> QED
  BY <1>1, <1>2, <1>3 DEF RoundOK

\* A step that adds events and leaves the jetties, their bindings and the channels
\* alone, but for the full flag of some.
LEMMA AskKeepsRounds ==
    ASSUME TypeOK, RoundsOK, NEW x \in Seq(Event), events' = events \o x,
           UNCHANGED <<wqes, ordered, sndNxt, sndUna, related, exists, vec, scheduling>>,
           NEW u \in Tps,
           full[u] /\ (IsWqeSegmentLimited(vec[u]) \/ (acking # <<>> /\ acking[1] = u)) =>
              \/ Pending("schedule", u)'
              \/ full'[u] /\ (IsWqeSegmentLimited(vec[u]) \/ (acking' # <<>> /\ acking'[1] = u))
    PROVE  RoundOK(u)'
<1>1. RoundOK(u)
  BY RoundsOfAll DEF TypeOK
<1>2. \A kind : Pending(kind, u) => Pending(kind, u)'
  BY StillPending
<1>3. Wanted(u)' <=> Wanted(u)
  BY DEF Wanted, HasSegment, IsLimited, Sendable, IsOrderedByInitiator
<1> QED
  BY <1>1, <1>2, <1>3 DEF RoundOK, IsWqeSegmentLimited

LEMMA RefuseKeepsRounds ==
    ASSUME TypeOK, RoundsOK, RefuseSegment
    PROVE  \A u \in Tps : RoundOK(u)'
<1>1. PICK s : s = vec[acking[1]][acking[2]]
  OBVIOUS
<1>2. AtAcked /\ s.jetty \in Jetties /\ acking[1] \in Tps /\ acking[2] \in Nat
  BY <1>1, AtAckedOK DEF RefuseSegment
<1>3. PICK x : x = RefuseRounds(s.jetty, s.ssn)
  OBVIOUS
<1>4. events' = events \o x
  BY <1>1, <1>3 DEF RefuseSegment, RefuseRounds
<1>5. x \in Seq(Event)
  <2>1. group[s.jetty] \in Seq(Tps) /\ ChannelOK
    BY <1>2 DEF TypeOK, ChannelOK
  <2>2. OnlyRounds(x)
    BY <1>3, <2>1, TriggerOK, NoRounds DEF RefuseRounds
  <2> QED
    BY <2>2 DEF OnlyRounds
<1>6. acking # <<>> /\ acking' # <<>> /\ acking'[1] = acking[1]
  <2>1. acking # <<>> /\ acking \in Tps \X (Nat \ {0})
    BY <1>2 DEF AtAcked, TypeOK
  <2>2. acking' = [acking EXCEPT ![2] = @ + 1]
    BY DEF RefuseSegment
  <2>3. acking' \in Tps \X (Nat \ {0}) /\ acking'[1] = acking[1]
    BY <2>1, <2>2
  <2> QED
    BY <2>1, <2>3
<1>7. UNCHANGED <<wqes, ordered, sndNxt, sndUna, related, exists, vec, scheduling, full>>
  BY DEF RefuseSegment, jettyVars, bindVars, tpVars, roundVars
<1> QED
  BY <1>4, <1>5, <1>6, <1>7, AskKeepsRounds

LEMMA AckDoneRounds ==
    ASSUME TypeOK, RoundsOK, AckDone
    PROVE  \A u \in Tps : RoundOK(u)'
<1>1. acking # <<>> /\ acking' = <<>>
  BY DEF AckDone
<1>2. PICK t \in Tps : t = acking[1]
  BY <1>1 DEF TypeOK
<1>3. PICK room : room = (full[t] /\ ~IsWqeSegmentLimited(vec[t]))
  OBVIOUS
<1>4. PICK x : x = IF room THEN <<Schedule(t)>> ELSE <<>>
  OBVIOUS
<1>5. events' = events \o x
  BY <1>2, <1>3, <1>4 DEF AckDone
<1>6. x \in Seq(Event)
  BY <1>4, OneRound, NoRounds DEF OnlyRounds, TypeOK
<1>7. room => Pending("schedule", t)'
  <2> SUFFICES ASSUME room PROVE Pending("schedule", t)'
    OBVIOUS
  <2>1. 1 \in DOMAIN x /\ x[1].kind = "schedule" /\ x[1].tp = t
    BY <1>4, OneRound, ScheduleEvent DEF TypeOK
  <2> QED
    BY <1>5, <1>6, <2>1, NowPending
<1>8. UNCHANGED <<wqes, ordered, sndNxt, sndUna, related, exists, vec, scheduling>>
  BY DEF AckDone, jettyVars, bindVars, roundVars
<1>9. ASSUME NEW u \in Tps, full[u], IsWqeSegmentLimited(vec[u]) \/ acking[1] = u
      PROVE  Pending("schedule", u)' \/ (full'[u] /\ IsWqeSegmentLimited(vec[u]))
  <2>1. full' = [full EXCEPT ![t] = @ /\ ~room] /\ full \in [Tps -> BOOLEAN]
    BY <1>2, <1>3 DEF AckDone, TypeOK, ChannelOK
  <2>2. CASE u = t
    <3>1. full'[u] = (full[u] /\ ~room)
      BY <2>1, <2>2
    <3> QED
      BY <1>3, <1>7, <1>9, <2>2, <3>1
  <2>3. CASE u # t
    <3>1. full'[u] = full[u]
      BY <2>1, <2>3
    <3> QED
      BY <1>2, <1>9, <2>3, <3>1
  <2> QED
    BY <2>2, <2>3
<1> QED
  BY <1>1, <1>5, <1>6, <1>8, <1>9, AskKeepsRounds

\* When no WQE completes, no blocked WQE of the jetty gets its turn.
LEMMA NoneFreed ==
    ASSUME JettyOK, NEW j \in Jetties, NEW u, RemoveCompleted(j, u), ~SomeComplete(j, u), Sendable(j)' # {}
    PROVE  Sendable(j) # {}
<1>1. PICK ids : ids = {w.id : w \in {w \in ToSet(wqes[j]) : IsWqeCompleted(w, u)}}
  OBVIOUS
<1>2. PICK done : done = {w \in ToSet(wqes[j]) : IsWqeCompleted(w, u)}
  OBVIOUS
<1>3. ids = {}
  BY <1>1 DEF SomeComplete, ToSet
<1>4. PICK m : IsErasure(ordered'[j], ordered[j], ids, m)
  BY <1>1, RemovedIds
<1>5. PICK p : IsErasure(wqes'[j], wqes[j], done, p)
  BY <1>2, RemovedWqes
<1>6. ordered[j] \in Seq(Nat) /\ ordered'[j] \in Seq(Nat)
  BY <1>1, RemovedIds DEF JettyOK
<1>7. Head(ordered'[j]) = Head(ordered[j])
  <2>1. PICK r \in Seq(Nat) : r = ordered[j]
    BY <1>6
  <2>2. PICK q \in Seq(Nat) : q = ordered'[j]
    BY <1>6
  <2>3. /\ DOMAIN r = 1..Len(r) /\ Len(r) \in Nat /\ DOMAIN q = 1..Len(q) /\ Len(q) \in Nat
        /\ \A i \in DOMAIN q : m[i] \in DOMAIN r /\ q[i] = r[m[i]]
        /\ \A i, k \in DOMAIN q : i < k => m[i] < m[k]
        /\ \A n \in DOMAIN r : \E i \in DOMAIN q : m[i] = n
    <3>1. IsErasure(q, r, {}, m)
      BY <1>3, <1>4, <2>1, <2>2
    <3> QED
      BY <3>1, LenProperties DEF IsErasure
  <2>4. CASE r = <<>>
    <3>1. DOMAIN q = {}
      BY <2>3, <2>4
    <3>2. Len(q) = 0
      BY <2>3, <3>1
    <3>3. q = <<>>
      BY <3>2, EmptySeq
    <3> QED
      BY <2>1, <2>2, <2>4, <3>3
  <2>5. CASE r # <<>>
    <3>1. 1 \in DOMAIN r /\ Head(r) = r[1]
      BY <2>5, HeadTailSeq
    <3>2. PICK i \in DOMAIN q : m[i] = 1
      BY <2>3, <3>1
    <3>3. 1 \in DOMAIN q
      BY <2>3, <3>2
    <3>4. m[1] \in Nat /\ m[1] >= 1
      <4>1. m[1] \in 1..Len(r)
        BY <2>3, <3>3
      <4> QED
        BY <2>3, <4>1
    <3>5. i = 1
      <4>1. ~(1 < i)
        BY <2>3, <3>2, <3>3, <3>4
      <4> QED
        BY <2>3, <3>2, <4>1
    <3>6. q[1] = r[1]
      BY <2>3, <3>2, <3>3, <3>5
    <3>7. q # <<>>
      BY <3>3
    <3>8. Head(q) = q[1]
      BY <3>7, HeadTailSeq
    <3> QED
      BY <2>1, <2>2, <3>1, <3>6, <3>8
  <2> QED
    BY <2>4, <2>5
<1>8. PICK n : n \in Sendable(j)'
  OBVIOUS
<1>9. /\ n \in DOMAIN wqes'[j] /\ wqes'[j][n].sent < wqes'[j][n].size
      /\ wqes'[j][n].canSend \/ (wqes'[j][n].order = "SO" => Head(ordered'[j]) = wqes'[j][n].id)
  BY <1>8 DEF Sendable, IsOrderedByInitiator
<1>10. p[n] \in DOMAIN wqes[j] /\ wqes'[j][n] = wqes[j][p[n]]
  BY <1>5, <1>9 DEF IsErasure
<1>11. p[n] \in Sendable(j)
  BY <1>7, <1>9, <1>10 DEF Sendable, IsOrderedByInitiator
<1> QED
  BY <1>11

LEMMA CompleteKeepsRounds ==
    ASSUME TypeOK, TypeOK', BindingsOK, BindingsOK', RoundsOK, CompleteSegment
    PROVE  \A v \in Tps : RoundOK(v)'
<1>1. ChannelOK /\ JettyOK /\ events \in Seq(Event)
  BY DEF TypeOK
<1>2. PICK s, j, bits, by : WindowMoves(s, j, bits, by)
  BY CompletedWindow
<1>3. PICK u : u = sndUna[j] + by
  OBVIOUS
<1>6. PICK x \in Seq(Event) :
         /\ OnlyRounds(x) /\ events' = events \o x
         /\ IsLimited(j) => AllAsked(group[j], x)
         /\ SomeComplete(j, u) => AllAsked(group'[j], x)
  <2>1. group' \in [Jetties -> Seq(Tps)]
    BY DEF TypeOK, ChannelOK
  <2> QED
    BY <1>2, <1>3, <2>1, CompletedRounds
<1>7. j \in Jetties /\ RemoveCompleted(j, u)
  BY <1>2, <1>3 DEF WindowMoves
<1>8. /\ \A k \in Jetties \ {j} : wqes'[k] = wqes[k]
      /\ \A k \in Jetties \ {j} : ordered'[k] = ordered[k]
  BY <1>1, <1>7, RemovedWqes, RemovedIds
<1>9. sndNxt' = sndNxt /\ \A k \in Jetties \ {j} : sndUna'[k] = sndUna[k]
  BY <1>2 DEF WindowMoves
<1>10. UNCHANGED <<full, scheduling, acking>> /\ AtAcked
  BY DEF CompleteSegment, roundVars
<1>11. PICK t \in Tps : t = acking[1]
  BY <1>10, AtAckedOK
<1>12. acking # <<>> /\ \A v \in Tps \ {t} : vec'[v] = vec[v]
  BY <1>1, <1>10, <1>11 DEF AtAcked, CompleteSegment, ChannelOK
<1>13. \A v \in Tps : RoundOK(v)
  BY <1>1, RoundsOfAll
<1>14. \A v \in Tps : exists'[v] => exists[v]
  <2>1. CASE RemoveUselessTps(j)
    BY <2>1 DEF RemoveUselessTps
  <2>2. CASE UNCHANGED bindVars
    BY <2>2 DEF bindVars
  <2> QED
    BY <1>7, <2>1, <2>2 DEF RemoveCompleted
<1>15. \A v \in Tps : \A i \in DOMAIN related'[v] : \E n \in DOMAIN related[v] : related'[v][i] = related[v][n]
  <2>1. CASE RemoveUselessTps(j)
    <3>1. related' = [v \in Tps |-> Without(related[v], {j})] /\ related \in [Tps -> Seq(Jetties)]
      BY <1>1, <2>1 DEF RemoveUselessTps, ChannelOK
    <3>2. \A v \in Tps : Unbound(related'[v], related[v], j)
      BY <3>1, UnboundJetties
    <3> QED
      BY <3>2 DEF Unbound
  <2>2. CASE UNCHANGED bindVars
    BY <2>2 DEF bindVars
  <2> QED
    BY <1>7, <2>1, <2>2 DEF RemoveCompleted
<1> SUFFICES ASSUME NEW v \in Tps PROVE RoundOK(v)'
  OBVIOUS
<1>16. \A kind : Pending(kind, v) => Pending(kind, v)'
  BY <1>6, StillPending
<1>17. ASSUME NEW q \in Seq(Tps), AllAsked(q, x), \E i \in DOMAIN q : q[i] = v
       PROVE  Pending("schedule", v)'
  <2>1. PICK k \in DOMAIN x : x[k].tp = v
    BY <1>17 DEF AllAsked
  <2>2. x[k].kind = "schedule"
    BY <1>6 DEF OnlyRounds
  <2> QED
    BY <1>6, <2>1, <2>2, NowPending
<1>18. ASSUME exists'[v], Wanted(v)'
       PROVE  \/ Pending("schedule", v)' \/ Pending("finish", v)'
              \/ full'[v] /\ (IsWqeSegmentLimited(vec'[v]) \/ (acking' # <<>> /\ acking'[1] = v))
  <2>1. PICK i \in DOMAIN related'[v] : HasSegment(related[v][i])'
    BY <1>18 DEF Wanted
  <2>2. PICK k \in Jetties : k = related'[v][i]
    <3>1. related'[v] \in Seq(Jetties)
      BY DEF TypeOK, ChannelOK
    <3>2. related'[v][i] \in Jetties
      BY <3>1, SeqElement
    <3> QED
      BY <3>2
  <2>3. HasSegment(k)'
    BY <2>1, <2>2
  <2>4. PICK n \in DOMAIN related[v] : related[v][n] = k
    BY <1>15, <2>2
  <2>5. CASE HasSegment(k)
    <3>1. Wanted(v) /\ exists[v]
      BY <1>14, <1>18, <2>4, <2>5 DEF Wanted
    <3>2. \/ Pending("schedule", v) \/ Pending("finish", v)
          \/ full[v] /\ (IsWqeSegmentLimited(vec[v]) \/ (acking # <<>> /\ acking[1] = v))
      BY <1>13, <3>1 DEF RoundOK
    <3>3. CASE v = t
      BY <1>10, <1>11, <1>12, <1>16, <3>2, <3>3
    <3>4. CASE v # t
      BY <1>10, <1>12, <1>16, <3>2, <3>4
    <3> QED
      BY <3>3, <3>4
  <2>6. CASE ~HasSegment(k)
    <3>1. k = j
      <4> SUFFICES ASSUME k # j PROVE FALSE
        OBVIOUS
      <4>1. wqes'[k] = wqes[k] /\ ordered'[k] = ordered[k] /\ sndNxt' = sndNxt /\ sndUna'[k] = sndUna[k]
        BY <1>8, <1>9
      <4>2. IsLimited(k)' <=> IsLimited(k)
        BY <4>1 DEF IsLimited
      <4>3. Sendable(k)' = Sendable(k)
        BY <4>1 DEF Sendable, IsOrderedByInitiator
      <4> QED
        BY <2>3, <2>6, <4>2, <4>3 DEF HasSegment
    <3>2. CASE IsLimited(j)
      <4>1. \E p \in DOMAIN group[j] : group[j][p] = v
        BY <2>4, <3>1 DEF BindingsOK
      <4>2. group[j] \in Seq(Tps)
        BY <1>1, <1>7 DEF ChannelOK
      <4> QED
        BY <1>6, <1>17, <3>2, <4>1, <4>2
    <3>3. CASE ~IsLimited(j)
      <4>1. Sendable(j) = {} /\ Sendable(j)' # {}
        BY <2>3, <2>6, <3>1, <3>3 DEF HasSegment
      <4>2. SomeComplete(j, u)
        BY <1>1, <1>7, <4>1, NoneFreed
      <4>3. \E p \in DOMAIN group'[related'[v][i]] : group'[related'[v][i]][p] = v
        BY <2>1 DEF BindingsOK
      <4>5. \E p \in DOMAIN group'[j] : group'[j][p] = v
        BY <2>2, <3>1, <4>3
      <4>4. group'[j] \in Seq(Tps)
        BY <1>7 DEF TypeOK, ChannelOK
      <4> QED
        BY <1>6, <1>17, <4>2, <4>4, <4>5
    <3> QED
      BY <3>2, <3>3
  <2> QED
    BY <2>5, <2>6
<1> QED
  BY <1>10, <1>13, <1>16, <1>18 DEF RoundOK

LEMMA RoundsInit == Init => RoundsOK
BY DEF Init, RoundsOK

LEMMA RoundsStep ==
    TypeOK /\ TypeOK' /\ SegmentInv /\ SegmentInv' /\ RoundsOK /\ [Next]_vars => RoundsOK'
<1> SUFFICES ASSUME TypeOK, TypeOK', SegmentInv, SegmentInv', RoundsOK, [Next]_vars
             PROVE  \A u \in Tps : RoundOK(u)'
  BY RoundsOfAllNext DEF TypeOK
<1>1. BindingsOK /\ BindingsOK'
  BY DEF SegmentInv
<1>2. CASE \E j \in Jetties, o \in Orders, n \in WqeSizes : PushWqe(j, o, n)
  BY <1>1, <1>2, PushKeepsRounds
<1>3. CASE RunEvent
  BY <1>3, RunScheduleRounds, FinishRounds DEF RunEvent
<1>4. CASE \E t \in Tps : \E n \in una[t]..pushed[t] : RecvTpAck(t, n)
  BY <1>4, RecvRounds
<1>5. CASE WalkAcked
  BY <1>1, <1>5, RefuseKeepsRounds, CompleteKeepsRounds, AckDoneRounds DEF WalkAcked
<1>6. CASE UNCHANGED vars
  <2>1. UNCHANGED <<wqes, ordered, sndNxt, sndUna, related, exists, vec, full, scheduling, events, acking>>
    BY <1>6 DEF vars, jettyVars, bindVars, tpVars, roundVars
  <2>2. \A u \in Tps : RoundOK(u)
    BY RoundsOfAll DEF TypeOK
  <2> SUFFICES ASSUME NEW u \in Tps PROVE RoundOK(u)'
    OBVIOUS
  <2>3. /\ Wanted(u)' <=> Wanted(u)
        /\ \A kind : Pending(kind, u)' <=> Pending(kind, u)
    BY <2>1 DEF Wanted, HasSegment, IsLimited, Sendable, IsOrderedByInitiator, Pending
  <2> QED
    BY <2>1, <2>2, <2>3 DEF RoundOK
<1> QED
  BY <1>2, <1>3, <1>4, <1>5, <1>6 DEF Next

\* UbTransportChannel, UbTransaction: however channels fill and empty, jetties
\* reach and leave their limit, and ordered WQEs block and free each other, a
\* channel with room and a jetty that has a segment for it has a round pending.
THEOREM RoundsNeverLost == Spec => []NoLostRound
<1>1. Init => RoundsOK
  BY RoundsInit
<1>2. TypeOK /\ TypeOK' /\ SegmentInv /\ SegmentInv' /\ RoundsOK /\ [Next]_vars => RoundsOK'
  BY RoundsStep
<1>3. TypeOK /\ RoundsOK => NoLostRound
  BY InvImpliesNoLostRound DEF TypeOK
<1> QED
  BY <1>1, <1>2, <1>3, SegmentAlways, PTL DEF Spec
=============================================================================
