----------------------------- MODULE UbAlpsProofs -----------------------------
(***************************************************************************)
(* Proofs about UbAlps, for every set of TPs and paths, every scenario and *)
(* every window.                                                           *)
(***************************************************************************)
EXTENDS UbAlps, SequenceLemmas, FiniteSetTheorems, TLAPS

Ack == [psn : Nat, cum : Nat]

\* The actions, with what they are about.
LEMMA Steps ==
    ASSUME [Next]_vars
    PROVE  \/ AllocateNothing
           \/ \E t \in Tps, p \in Paths : GetNextPacketForAlps(t, p)
           \/ \E t \in Tps : NextSendTime(t)
           \/ \E t \in Tps, p \in Paths : RecvDataPacketForAlps(t, p)
           \/ \E t \in Tps, p \in Paths : RecvTpAckForAlps(t, p)
           \/ \E p \in Paths : Timeout(p) \/ EarlyTimeout(p)
           \/ \E t \in Tps, p \in Paths : \E i \in DOMAIN data[p][t] : LoseData(t, p, i)
           \/ \E t \in Tps, p \in Paths : \E i \in DOMAIN acks[p][t] : LoseAck(t, p, i)
           \/ UNCHANGED vars
  BY Zenon DEF Next, Allocate, Pace, Arrive, Lose

-----------------------------------------------------------------------------
(* Type correctness.                                                       *)

\* The types of everything but the segments.
TypeInv == SenderOK /\ AlpsOK /\ ReceiverOK /\ NetworkOK /\ segs = [t \in Tps |-> segs[t]]

LEMMA WireValue ==
    ASSUME NEW psn \in Int
    PROVE  /\ Wire(psn) \in 0..(PsnMod - 1)
           /\ psn >= 0 => Wire(psn) <= psn
           /\ psn = -1 => Wire(psn) = PsnMod - 1
<1>1. PsnMod \in Nat \ {0}
  BY ConstantsAssumption
<1>2. psn % PsnMod \in 0..(PsnMod - 1)
  BY <1>1
<1>3. psn >= 0 => psn % PsnMod <= psn
  BY <1>1
<1>4. (-1) % PsnMod = PsnMod - 1
  BY <1>1
<1> QED
  BY <1>2, <1>3, <1>4 DEF Wire

\* The advance of m_psnRecvNxt stops at the first bit that is not set.
LEMMA RunLengthValue ==
    ASSUME NEW b, b \subseteq 0..(OooThreshold - 1), 0 \in b
    PROVE  /\ RunLength(b) \in 1..OooThreshold
           /\ RunLength(b) \notin b
           /\ 0..(RunLength(b) - 1) \subseteq b
<1>1. OooThreshold \in Nat \ {0}
  BY ConstantsAssumption
<1> DEFINE clear == {n \in 1..OooThreshold : n \notin b}
<1>2. OooThreshold \in clear /\ clear \subseteq Nat
  BY <1>1
<1>3. PICK n \in clear : \A k \in clear : n <= k
  BY <1>2, LeastNatural
<1>4. 0..(n - 1) \subseteq b
  BY <1>1, <1>3
<1>5. \E m \in 1..OooThreshold : m \notin b /\ 0..(m - 1) \subseteq b
  BY <1>3, <1>4
<1> QED
  BY <1>5 DEF RunLength

\* An ack takes a part of the path out, up to the packet it matches.
LEMMA PoppedValue ==
    ASSUME AlpsOK, NEW p \in Paths, NEW t \in Tps, NEW psn
    PROVE  /\ Popped(p, t, psn) \in 0..Len(pending[p])
           /\ Matched(p, t, psn) =>
                  /\ Popped(p, t, psn) \in 1..Len(pending[p])
                  /\ pending[p][Popped(p, t, psn)].psn = psn
                  /\ pending[p][Popped(p, t, psn)].srcTpn = t
<1> DEFINE hits == {i \in DOMAIN pending[p] : pending[p][i].psn = psn /\ pending[p][i].srcTpn = t}
<1>1. pending[p] \in Seq(PendingPkt)
  BY DEF AlpsOK
<1>2. Len(pending[p]) \in Nat /\ DOMAIN pending[p] = 1..Len(pending[p])
  BY <1>1, LenProperties
<1>3. Matched(p, t, psn) <=> hits # {}
  BY DEF Matched
<1>4. CASE hits = {}
  BY <1>2, <1>3, <1>4 DEF Popped
<1>5. CASE hits # {}
  <2>1. hits \subseteq Nat
    BY <1>2
  <2>2. \E i \in hits : \A k \in hits : i <= k
    BY <1>5, <2>1, LeastNatural
  <2>3. Popped(p, t, psn) \in hits
    BY <1>5, <2>2 DEF Popped
  <2> QED
    BY <1>2, <2>3
<1> QED
  BY <1>4, <1>5

Holding(q, x) == \E i \in DOMAIN q : q[i] = x

\* What an ack of t with this PSN does to path p: it takes out k packets and files
\* the first n of them, all or all but the one it acknowledges.
AckEffect(p, t, psn, k, n) ==
    LET q     == pending[p]
        filed == SubSeq(q, 1, n)
        rest  == SubSeq(q, k + 1, Len(q))
    IN  /\ n = k \/ (n = k - 1 /\ q[k].psn = psn /\ q[k].srcTpn = t)
        /\ filed \in Seq(PendingPkt) /\ rest \in Seq(PendingPkt)
        /\ Len(rest) = Len(q) - k
        /\ \A i \in DOMAIN filed : Holding(q, filed[i])
        /\ \A i \in DOMAIN rest : Holding(q, rest[i])
        /\ \A i \in DOMAIN q : (i = k /\ n = k - 1) \/ Holding(filed, q[i]) \/ Holding(rest, q[i])
        /\ pending' = [pending EXCEPT ![p] = rest]
        /\ retrans' = [retrans EXCEPT ![t] = retrans[t] \o filed]
        /\ tpBits' = [tpBits EXCEPT ![t] = Release(scen.tpLimit, tpBits[t], k)]
        /\ pathBits' = [pathBits EXCEPT ![p] = Release(scen.pathLimit, pathBits[p], k)]
        /\ rto' = [rto EXCEPT ![p] = IF k = Len(q) THEN NoTp ELSE t]

LEMMA AckFiles ==
    ASSUME AlpsOK, NEW p \in Paths, NEW t \in Tps, NEW psn, HandleAlpsAckByPsn(p, t, psn)
    PROVE  \E k, n \in 0..Len(pending[p]) : AckEffect(p, t, psn, k, n)
<1> DEFINE q == pending[p]
           k == Popped(p, t, psn)
           n == IF Matched(p, t, psn) THEN k - 1 ELSE k
           filed == SubSeq(q, 1, n)
           rest  == SubSeq(q, k + 1, Len(q))
<1>1. q \in Seq(PendingPkt)
  BY DEF AlpsOK
<1>2. k \in 0..Len(q) /\ (Matched(p, t, psn) => k \in 1..Len(q) /\ q[k].psn = psn /\ q[k].srcTpn = t)
  BY PoppedValue
<1>3. /\ pending' = [pending EXCEPT ![p] = rest]
      /\ retrans' = [retrans EXCEPT ![t] = retrans[t] \o filed]
      /\ tpBits' = [tpBits EXCEPT ![t] = Release(scen.tpLimit, tpBits[t], k)]
      /\ pathBits' = [pathBits EXCEPT ![p] = Release(scen.pathLimit, pathBits[p], k)]
      /\ rto' = [rto EXCEPT ![p] = IF k = Len(q) THEN NoTp ELSE t]
  BY DEF HandleAlpsAckByPsn
<1>4. /\ n = k \/ (n = k - 1 /\ q[k].psn = psn /\ q[k].srcTpn = t)
      /\ n <= k /\ n \in 0..Len(q)
  BY <1>2
<1>5. Len(q) \in Nat /\ DOMAIN q = 1..Len(q)
  BY <1>1, LenProperties
<1> HIDE DEF q, k, n
<1>6. /\ filed \in Seq(PendingPkt) /\ Len(filed) = n /\ \A i \in 1..n : filed[i] = q[i]
  BY <1>1, <1>4, SplitSeq
<1>7. /\ rest \in Seq(PendingPkt) /\ Len(rest) = Len(q) - k
      /\ \A i \in 1..(Len(q) - k) : rest[i] = q[k + i]
  BY <1>1, <1>2, SplitSeq
<1> HIDE DEF filed, rest
<1>8. DOMAIN filed = 1..n /\ DOMAIN rest = 1..(Len(q) - k)
  BY <1>6, <1>7, LenProperties
<1>9. \A i \in DOMAIN filed : Holding(q, filed[i])
  BY <1>4, <1>5, <1>6, <1>8 DEF Holding
<1>10. \A i \in DOMAIN rest : Holding(q, rest[i])
  <2>1. \A i \in DOMAIN rest : k + i \in DOMAIN q /\ rest[i] = q[k + i]
    BY <1>2, <1>5, <1>7, <1>8
  <2> QED
    BY <2>1 DEF Holding
<1>11. ASSUME NEW j \in DOMAIN q
       PROVE  (j = k /\ n = k - 1) \/ Holding(filed, q[j]) \/ Holding(rest, q[j])
  <2> USE DEF Holding
  <2>1. CASE j <= n
    BY <1>4, <1>5, <1>6, <1>8, <2>1
  <2>2. CASE j > k
    <3>1. j - k \in 1..(Len(q) - k) /\ k + (j - k) = j
      BY <1>2, <1>5, <2>2
    <3> QED
      BY <1>7, <1>8, <3>1
  <2>3. CASE ~(j <= n) /\ ~(j > k)
    BY <1>2, <1>4, <1>5, <2>3
  <2> QED
    BY <2>1, <2>2, <2>3
<1>12. AckEffect(p, t, psn, k, n)
  BY <1>3, <1>4, <1>6, <1>7, <1>9, <1>10, <1>11 DEF AckEffect, q, filed, rest
<1> QED
  BY <1>2, <1>4, <1>12 DEF q

\* What a round of the allocator sends: a packet x, filed or new, goes out on the
\* path and a copy of it waits there.
LEMMA SendEffect ==
    ASSUME TypeInv, NEW t \in Tps, NEW p \in Paths, GetNextPacketForAlps(t, p)
    PROVE  \E x \in PendingPkt :
               /\ x.srcTpn = t
               /\ pending' = [pending EXCEPT ![p] = Append(pending[p], x)]
               /\ pending[p] \in Seq(PendingPkt)
               /\ data' = [data EXCEPT ![p][x.owner] = Append(data[p][x.owner], x.psn)]
               /\ \/ /\ retrans[t] # <<>> /\ retrans[t] \in Seq(PendingPkt)
                     /\ x.psn = Head(retrans[t]).psn /\ x.owner = Head(retrans[t]).owner
                     /\ retrans' = [retrans EXCEPT ![t] = Tail(retrans[t])]
                     /\ sndNxt' = sndNxt
                  \/ /\ retrans[t] = <<>> /\ x.psn = sndNxt[t] /\ x.owner = t
                     /\ sndNxt' = [sndNxt EXCEPT ![t] = sndNxt[t] + 1]
                     /\ retrans' = retrans
<1>1. retrans[t] \in Seq(PendingPkt) /\ pending[p] \in Seq(PendingPkt) /\ sndNxt[t] \in Nat
  BY DEF TypeInv, AlpsOK, SenderOK
<1>2. CASE Retransmit(t, p)
  <2> DEFINE h == Head(retrans[t])
             x == [psn |-> h.psn, srcTpn |-> t, owner |-> h.owner]
  <2>1. h \in PendingPkt
    BY <1>1, <1>2, HeadTailSeq DEF Retransmit
  <2>2. x \in PendingPkt /\ x.srcTpn = t /\ x.psn = h.psn /\ x.owner = h.owner
    BY <2>1 DEF PendingPkt
  <2>3. /\ retrans[t] # <<>>
        /\ pending' = [pending EXCEPT ![p] = Append(pending[p], x)]
        /\ data' = [data EXCEPT ![p][h.owner] = Append(data[p][h.owner], h.psn)]
        /\ retrans' = [retrans EXCEPT ![t] = Tail(retrans[t])]
        /\ sndNxt' = sndNxt
    BY <1>2 DEF Retransmit, Spray
  <2> HIDE DEF h, x
  <2>4. data' = [data EXCEPT ![p][x.owner] = Append(data[p][x.owner], x.psn)]
    BY <2>2, <2>3
  <2> QED
    BY <1>1, <2>2, <2>3, <2>4 DEF h
<1>3. CASE SendNew(t, p)
  <2> DEFINE x == [psn |-> sndNxt[t], srcTpn |-> t, owner |-> t]
  <2>1. x \in PendingPkt /\ x.srcTpn = t /\ x.psn = sndNxt[t] /\ x.owner = t
    BY <1>1 DEF PendingPkt
  <2>2. /\ retrans[t] = <<>>
        /\ pending' = [pending EXCEPT ![p] = Append(pending[p], x)]
        /\ data' = [data EXCEPT ![p][t] = Append(data[p][t], sndNxt[t])]
        /\ sndNxt' = [sndNxt EXCEPT ![t] = sndNxt[t] + 1]
        /\ retrans' = retrans
    BY <1>3 DEF SendNew, Spray
  <2> HIDE DEF x
  <2>3. data' = [data EXCEPT ![p][x.owner] = Append(data[p][x.owner], x.psn)]
    BY <2>1, <2>2
  <2> QED
    BY <1>1, <2>1, <2>2, <2>3
<1> QED
  BY <1>2, <1>3 DEF GetNextPacketForAlps

\* The receiver's window only moves forward, what it has received it keeps, and
\* every ack it sends names a received packet and a sound cumulative PSN.
LEMMA ReceiveEffect ==
    ASSUME TypeInv, NEW t \in Tps, NEW p \in Paths, RecvDataPacketForAlps(t, p)
    PROVE  /\ ReceiverOK'
           /\ \A u \in Tps : recvNxt[u] <= recvNxt'[u]
           /\ \A u \in Tps : \A psn \in Nat : Received(u, psn) => Received(u, psn)'
           /\ \/ acks' = acks
              \/ \E psn, cum \in Nat :
                    /\ acks' = [acks EXCEPT ![p][t] = Append(acks[p][t], [psn |-> psn, cum |-> cum])]
                    /\ Received(t, psn)' /\ CumSound(t, cum)'
<1>1. /\ recvNxt \in [Tps -> Nat] /\ bits \in [Tps -> SUBSET (0..(OooThreshold - 1))]
      /\ recvNxt[t] \in Nat /\ bits[t] \subseteq 0..(OooThreshold - 1)
      /\ OooThreshold \in Nat \ {0} /\ PsnMod \in Nat \ {0}
  BY ConstantsAssumption DEF TypeInv, ReceiverOK
<1>2. PICK psn \in Nat : psn = Head(data[p][t])
  <2>1. data[p][t] \in Seq(Nat)
    BY DEF TypeInv, NetworkOK
  <2> QED
    BY <2>1, HeadTailSeq DEF RecvDataPacketForAlps
<1>3. \/ RecvDrop(t, psn) \/ RecvRepeat(t, p, psn)
      \/ RecvOutOfOrder(t, p, psn) \/ RecvInOrder(t, p, psn)
  BY <1>2 DEF RecvDataPacketForAlps
<1>4. CASE RecvDrop(t, psn)
  BY <1>1, <1>4 DEF RecvDrop, recvVars, ReceiverOK, Received
<1>5. CASE RecvRepeat(t, p, psn)
  <2>1. recvNxt' = recvNxt /\ bits' = bits /\ Received(t, psn)
    BY <1>5 DEF RecvRepeat, recvVars
  <2>3. PICK cum \in Nat :
            cum = Wire(recvNxt[t] - 1) /\ (cum + 1 <= recvNxt[t] \/ cum = PsnMod - 1)
    <3>1. recvNxt[t] - 1 \in Int
      BY <1>1
    <3>2. /\ Wire(recvNxt[t] - 1) \in 0..(PsnMod - 1)
          /\ recvNxt[t] - 1 >= 0 => Wire(recvNxt[t] - 1) <= recvNxt[t] - 1
          /\ recvNxt[t] - 1 = -1 => Wire(recvNxt[t] - 1) = PsnMod - 1
      BY <3>1, WireValue
    <3> QED
      BY <1>1, <3>2
  <2>2. acks' = [acks EXCEPT ![p][t] = Append(acks[p][t], [psn |-> psn, cum |-> cum])]
    BY <1>5, <2>3 DEF RecvRepeat, Acknowledge
  <2>5. CumSound(t, cum)'
    BY <2>1, <2>3 DEF CumSound
  <2>6. Received(t, psn)' /\ \A u \in Tps : \A k \in Nat : Received(u, k) => Received(u, k)'
    BY <2>1 DEF Received
  <2>7. ReceiverOK' /\ \A u \in Tps : recvNxt[u] <= recvNxt'[u]
    BY <1>1, <2>1 DEF ReceiverOK
  <2> QED
    BY <2>2, <2>5, <2>6, <2>7
<1>6. CASE RecvOutOfOrder(t, p, psn)
  <2>1. /\ recvNxt' = recvNxt /\ bits' = [bits EXCEPT ![t] = bits[t] \cup {psn - recvNxt[t]}]
        /\ psn > recvNxt[t] /\ psn < recvNxt[t] + OooThreshold
    BY <1>6 DEF RecvOutOfOrder
  <2>3. PICK cum \in Nat : /\ cum = IF recvNxt[t] > 0 THEN Wire(recvNxt[t] - 1) ELSE 0
                           /\ cum + 1 <= recvNxt[t] \/ cum = 0
    <3>1. CASE recvNxt[t] > 0
      <4>1. Wire(recvNxt[t] - 1) \in 0..(PsnMod - 1) /\ Wire(recvNxt[t] - 1) <= recvNxt[t] - 1
        BY <1>1, <3>1, WireValue
      <4> QED
        BY <1>1, <3>1, <4>1
    <3>2. CASE ~(recvNxt[t] > 0)
      BY <3>2
    <3> QED
      BY <3>1, <3>2
  <2>2. acks' = [acks EXCEPT ![p][t] = Append(acks[p][t], [psn |-> psn, cum |-> cum])]
    BY <1>6, <2>3 DEF RecvOutOfOrder, Acknowledge
  <2>4. CumSound(t, cum)'
    BY <2>1, <2>3 DEF CumSound
  <2>5. Received(t, psn)' /\ \A u \in Tps : \A k \in Nat : Received(u, k) => Received(u, k)'
    BY <1>1, <2>1 DEF Received
  <2>6. ReceiverOK' /\ \A u \in Tps : recvNxt[u] <= recvNxt'[u]
    BY <1>1, <1>2, <2>1 DEF ReceiverOK
  <2> QED
    BY <2>2, <2>4, <2>5, <2>6
<1>7. CASE RecvInOrder(t, p, psn)
  <2>2. PICK n \in 1..OooThreshold :
            n = RunLength(bits[t] \cup {0}) /\ 0..(n - 1) \subseteq bits[t] \cup {0}
    <3>1. bits[t] \cup {0} \subseteq 0..(OooThreshold - 1)
      BY <1>1
    <3> QED
      BY <3>1, RunLengthValue
  <2>3. PICK cum \in Nat : cum = Wire(recvNxt[t] + n - 1) /\ cum + 1 <= recvNxt[t] + n
    <3>1. recvNxt[t] + n - 1 \in Int /\ recvNxt[t] + n - 1 >= 0
      BY <1>1
    <3>2. /\ Wire(recvNxt[t] + n - 1) \in 0..(PsnMod - 1)
          /\ Wire(recvNxt[t] + n - 1) <= recvNxt[t] + n - 1
      BY <3>1, WireValue
    <3> QED
      BY <1>1, <3>2
  <2>1. /\ psn = recvNxt[t]
        /\ recvNxt' = [recvNxt EXCEPT ![t] = recvNxt[t] + n]
        /\ bits' = [bits EXCEPT ![t] = RightShift(bits[t], n)]
        /\ acks' = [acks EXCEPT ![p][t] = Append(acks[p][t], [psn |-> psn, cum |-> cum])]
    BY <1>7, <2>2, <2>3 DEF RecvInOrder, Acknowledge
  <2>4. recvNxt'[t] = recvNxt[t] + n /\ bits'[t] = RightShift(bits[t], n)
    BY <1>1, <2>1
  <2>5. CumSound(t, cum)'
    BY <2>3, <2>4 DEF CumSound
  <2>6. ASSUME NEW u \in Tps, NEW k \in Nat, Received(u, k) PROVE Received(u, k)'
    <3>1. CASE u # t
      BY <1>1, <2>1, <2>6, <3>1 DEF Received
    <3>2. CASE u = t
      <4>1. CASE k < recvNxt[t] + n
        BY <2>4, <3>2, <4>1 DEF Received
      <4>2. CASE ~(k < recvNxt[t] + n)
        <5>1. k - recvNxt[t] \in bits[t] /\ k - recvNxt[t] >= n
          BY <1>1, <2>2, <2>6, <3>2, <4>2 DEF Received
        <5>2. (k - recvNxt[t]) - n \in RightShift(bits[t], n)
          BY <5>1 DEF RightShift
        <5>3. (k - recvNxt[t]) - n = k - (recvNxt[t] + n)
          BY <1>1, <2>2
        <5> QED
          BY <2>4, <3>2, <5>2, <5>3 DEF Received
      <4> QED
        BY <4>1, <4>2
    <3> QED
      BY <3>1, <3>2
  <2>7. Received(t, psn)'
    BY <1>1, <2>1, <2>2, <2>4 DEF Received
  <2>8. ReceiverOK' /\ \A u \in Tps : recvNxt[u] <= recvNxt'[u]
    <3>1. recvNxt[t] + n \in Nat /\ recvNxt[t] <= recvNxt[t] + n
      BY <1>1, <2>2
    <3>2. RightShift(bits[t], n) \subseteq 0..(OooThreshold - 1)
      BY <1>1, <2>2 DEF RightShift
    <3> QED
      BY <1>1, <2>1, <3>1, <3>2 DEF ReceiverOK
  <2> QED
    BY <2>1, <2>5, <2>6, <2>7, <2>8
<1> QED
  BY <1>3, <1>4, <1>5, <1>6, <1>7

LEMMA SenderStep ==
    ASSUME TypeInv, [Next]_vars PROVE SenderOK' /\ segs' = [t \in Tps |-> segs'[t]]
<1> USE DEF TypeInv, SenderOK, senderVars
<1>1. CASE AllocateNothing
  BY <1>1 DEF AllocateNothing
<1>2. ASSUME NEW t \in Tps, NEW p \in Paths, GetNextPacketForAlps(t, p)
      PROVE  SenderOK' /\ segs' = [u \in Tps |-> segs'[u]]
  <2>1. /\ UNCHANGED <<scen, segs, sndUna, exists, trigger>>
        /\ pacing' = [pacing EXCEPT ![t] = TRUE]
    BY <1>2 DEF GetNextPacketForAlps, Retransmit, SendNew, Spray
  <2>2. sndNxt' \in [Tps -> Nat]
    <3>1. sndNxt' = sndNxt \/ sndNxt' = [sndNxt EXCEPT ![t] = sndNxt[t] + 1]
      BY <1>2 DEF GetNextPacketForAlps, Retransmit, SendNew
    <3> QED
      BY <3>1
  <2> QED
    BY <2>1, <2>2
<1>3. ASSUME NEW t \in Tps, NextSendTime(t)
      PROVE  SenderOK' /\ segs' = [u \in Tps |-> segs'[u]]
  BY <1>3 DEF NextSendTime
<1>4. ASSUME NEW t \in Tps, NEW p \in Paths, RecvDataPacketForAlps(t, p)
      PROVE  SenderOK' /\ segs' = [u \in Tps |-> segs'[u]]
  BY <1>4 DEF RecvDataPacketForAlps
<1>5. ASSUME NEW t \in Tps, NEW p \in Paths, RecvTpAckForAlps(t, p)
      PROVE  SenderOK' /\ segs' = [u \in Tps |-> segs'[u]]
  <2>1. UNCHANGED <<scen, sndNxt, pacing>>
    BY <1>5 DEF RecvTpAckForAlps
  <2>2. CASE ~exists[t]
    <3>1. UNCHANGED <<sndUna, segs, exists, trigger>>
      BY <1>5, <2>2 DEF RecvTpAckForAlps
    <3> QED
      BY <2>1, <3>1
  <2>3. CASE exists[t]
    <3> DEFINE a   == Head(acks[p][t])
               una == IF a.cum + 1 > sndUna[t] THEN a.cum + 1 ELSE sndUna[t]
    <3>1. a \in Ack
      <4>1. acks[p][t] \in Seq(Ack) /\ acks[p][t] # <<>>
        BY <1>5 DEF RecvTpAckForAlps, NetworkOK, Ack
      <4> QED
        BY <4>1, HeadTailSeq
    <3>2. una \in Nat
      BY <3>1 DEF Ack
    <3>3. /\ sndUna' = [sndUna EXCEPT ![t] = una]
          /\ segs' = [segs EXCEPT ![t] = Incomplete(t, una)]
          /\ exists' = [exists EXCEPT ![t] = ~scen.remove \/ Incomplete(t, una) # {}]
          /\ trigger' = TRUE
      BY <1>5, <2>3 DEF RecvTpAckForAlps
    <3> HIDE DEF una
    <3>4. exists' \in [Tps -> BOOLEAN]
      BY <3>3
    <3>5. sndUna' \in [Tps -> Nat]
      BY <3>2, <3>3
    <3>6. segs' = [u \in Tps |-> segs'[u]]
      BY <3>3
    <3> QED
      BY <2>1, <3>3, <3>4, <3>5, <3>6
  <2> QED
    BY <2>2, <2>3
<1>6. ASSUME NEW p \in Paths, Timeout(p) \/ EarlyTimeout(p)
      PROVE  SenderOK' /\ segs' = [u \in Tps |-> segs'[u]]
  BY <1>6 DEF Timeout, EarlyTimeout, HandleTimeoutForLapsbypid
<1>7. ASSUME NEW t \in Tps, NEW p \in Paths, NEW i, LoseData(t, p, i) \/ LoseAck(t, p, i)
      PROVE  SenderOK' /\ segs' = [u \in Tps |-> segs'[u]]
  BY <1>7 DEF LoseData, LoseAck
<1>8. CASE UNCHANGED vars
  BY <1>8 DEF vars
<1> QED
  BY <1>1, <1>2, <1>3, <1>4, <1>5, <1>6, <1>7, <1>8, Steps

\* The counts of the in-flight limits never go below zero.
LEMMA CountValue ==
    ASSUME NEW limit, NEW n \in Nat, NEW k \in Nat
    PROVE  Add(limit, n) \in Nat /\ Release(limit, n, k) \in Nat
  BY DEF Add, Release

\* A timeout takes all of its path out and files it.
LEMMA TimeoutEffect ==
    ASSUME AlpsOK, NEW p \in Paths, HandleTimeoutForLapsbypid(p)
    PROVE  \E t \in Tps :
               /\ t = rto[p]
               /\ pending[p] \in Seq(PendingPkt) /\ retrans[t] \in Seq(PendingPkt)
               /\ Len(pending[p]) \in Nat
               /\ retrans' = [retrans EXCEPT ![t] = retrans[t] \o pending[p]]
               /\ tpBits' = [tpBits EXCEPT ![t] = Release(scen.tpLimit, tpBits[t], Len(pending[p]))]
               /\ pathBits' = [pathBits EXCEPT ![p] = Release(scen.pathLimit, pathBits[p], Len(pending[p]))]
               /\ pending' = [pending EXCEPT ![p] = <<>>]
               /\ rto' = [rto EXCEPT ![p] = NoTp]
<1>1. rto[p] \in Tps
  BY DEF HandleTimeoutForLapsbypid, AlpsOK
<1>2. pending[p] \in Seq(PendingPkt) /\ retrans[rto[p]] \in Seq(PendingPkt)
  BY <1>1 DEF AlpsOK
<1>3. Len(pending[p]) \in Nat
  BY <1>2, LenProperties
<1> QED
  BY <1>1, <1>2, <1>3 DEF HandleTimeoutForLapsbypid

LEMMA AlpsStep ==
    ASSUME TypeInv, [Next]_vars PROVE AlpsOK'
<1> USE DEF AlpsOK
<1>1. CASE UNCHANGED alpsVars
  BY <1>1 DEF alpsVars, TypeInv
<1>2. ASSUME NEW t \in Tps, NEW p \in Paths, GetNextPacketForAlps(t, p) PROVE AlpsOK'
  <2>1. PICK x \in PendingPkt :
            /\ pending' = [pending EXCEPT ![p] = Append(pending[p], x)]
            /\ pending[p] \in Seq(PendingPkt)
            /\ \/ /\ retrans[t] # <<>> /\ retrans[t] \in Seq(PendingPkt)
                  /\ retrans' = [retrans EXCEPT ![t] = Tail(retrans[t])]
               \/ retrans' = retrans
    BY <1>2, SendEffect
  <2>2. /\ rto' = [rto EXCEPT ![p] = t]
        /\ tpBits' = [tpBits EXCEPT ![t] = Add(scen.tpLimit, tpBits[t])]
        /\ pathBits' = [pathBits EXCEPT ![p] = Add(scen.pathLimit, pathBits[p])]
    BY <1>2 DEF GetNextPacketForAlps, Retransmit, SendNew, Spray
  <2>3. Append(pending[p], x) \in Seq(PendingPkt)
    BY <2>1, AppendSeq
  <2>4. pending' \in [Paths -> Seq(PendingPkt)]
    BY <2>1, <2>3 DEF TypeInv
  <2>5. retrans' \in [Tps -> Seq(PendingPkt)]
    <3>1. retrans[t] # <<>> /\ retrans[t] \in Seq(PendingPkt) => Tail(retrans[t]) \in Seq(PendingPkt)
      BY HeadTailSeq
    <3> QED
      BY <2>1, <3>1 DEF TypeInv
  <2>6. tpBits' \in [Tps -> Nat] /\ pathBits' \in [Paths -> Nat]
    <3>1. Add(scen.tpLimit, tpBits[t]) \in Nat /\ Add(scen.pathLimit, pathBits[p]) \in Nat
      BY CountValue DEF TypeInv
    <3> QED
      BY <2>2, <3>1 DEF TypeInv
  <2>7. rto' \in [Paths -> Tps \cup {NoTp}]
    BY <2>2 DEF TypeInv
  <2> QED
    BY <2>4, <2>5, <2>6, <2>7
<1>3. ASSUME NEW t \in Tps, NEW p \in Paths, RecvTpAckForAlps(t, p) PROVE AlpsOK'
  <2>1. CASE ~exists[t]
    BY <1>1, <1>3, <2>1 DEF RecvTpAckForAlps
  <2>2. CASE exists[t]
    <3>1. PICK psn : HandleAlpsAckByPsn(p, t, psn)
      BY <1>3, <2>2 DEF RecvTpAckForAlps
    <3>7. PICK k, n \in 0..Len(pending[p]) : AckEffect(p, t, psn, k, n)
      BY <3>1, AckFiles DEF TypeInv
    <3>2. /\ SubSeq(pending[p], 1, n) \in Seq(PendingPkt)
          /\ SubSeq(pending[p], k + 1, Len(pending[p])) \in Seq(PendingPkt)
          /\ pending' = [pending EXCEPT ![p] = SubSeq(pending[p], k + 1, Len(pending[p]))]
          /\ retrans' = [retrans EXCEPT ![t] = retrans[t] \o SubSeq(pending[p], 1, n)]
          /\ tpBits' = [tpBits EXCEPT ![t] = Release(scen.tpLimit, tpBits[t], k)]
          /\ pathBits' = [pathBits EXCEPT ![p] = Release(scen.pathLimit, pathBits[p], k)]
          /\ rto' = [rto EXCEPT ![p] = IF k = Len(pending[p]) THEN NoTp ELSE t]
      BY <3>7 DEF AckEffect
    <3>3. pending' \in [Paths -> Seq(PendingPkt)]
      BY <3>2 DEF TypeInv
    <3>4. retrans' \in [Tps -> Seq(PendingPkt)]
      <4>1. retrans[t] \o SubSeq(pending[p], 1, n) \in Seq(PendingPkt)
        <5>1. retrans[t] \in Seq(PendingPkt)
          BY DEF TypeInv
        <5> QED
          BY <3>2, <5>1, ConcatHolds
      <4> QED
        BY <3>2, <4>1 DEF TypeInv
    <3>5. tpBits' \in [Tps -> Nat] /\ pathBits' \in [Paths -> Nat]
      <4>1. k \in Nat
        BY <3>2
      <4>2. Release(scen.tpLimit, tpBits[t], k) \in Nat /\ Release(scen.pathLimit, pathBits[p], k) \in Nat
        BY <4>1, CountValue DEF TypeInv
      <4> QED
        BY <3>2, <4>2 DEF TypeInv
    <3>6. rto' \in [Paths -> Tps \cup {NoTp}]
      BY <3>2 DEF TypeInv
    <3> QED
      BY <3>3, <3>4, <3>5, <3>6
  <2> QED
    BY <2>1, <2>2
<1>4. ASSUME NEW p \in Paths, HandleTimeoutForLapsbypid(p) PROVE AlpsOK'
  <2>1. PICK t \in Tps :
            /\ pending[p] \in Seq(PendingPkt) /\ retrans[t] \in Seq(PendingPkt)
            /\ Len(pending[p]) \in Nat
            /\ retrans' = [retrans EXCEPT ![t] = retrans[t] \o pending[p]]
            /\ tpBits' = [tpBits EXCEPT ![t] = Release(scen.tpLimit, tpBits[t], Len(pending[p]))]
            /\ pathBits' = [pathBits EXCEPT ![p] = Release(scen.pathLimit, pathBits[p], Len(pending[p]))]
            /\ pending' = [pending EXCEPT ![p] = <<>>]
            /\ rto' = [rto EXCEPT ![p] = NoTp]
    BY <1>4, TimeoutEffect DEF TypeInv
  <2>2. retrans[t] \o pending[p] \in Seq(PendingPkt) /\ <<>> \in Seq(PendingPkt)
    BY <2>1, ConcatHolds, EmptySeq
  <2>3. pending' \in [Paths -> Seq(PendingPkt)] /\ retrans' \in [Tps -> Seq(PendingPkt)]
    BY <2>1, <2>2 DEF TypeInv
  <2>4. /\ Release(scen.tpLimit, tpBits[t], Len(pending[p])) \in Nat
        /\ Release(scen.pathLimit, pathBits[p], Len(pending[p])) \in Nat
    BY <2>1, CountValue DEF TypeInv
  <2>5. tpBits' \in [Tps -> Nat] /\ pathBits' \in [Paths -> Nat]
    BY <2>1, <2>4 DEF TypeInv
  <2>6. rto' \in [Paths -> Tps \cup {NoTp}]
    BY <2>1 DEF TypeInv
  <2> QED
    BY <2>3, <2>5, <2>6
<1>5. ASSUME NEW p \in Paths, Timeout(p) \/ EarlyTimeout(p) PROVE AlpsOK'
  BY <1>4, <1>5 DEF Timeout, EarlyTimeout
<1> QED
  BY <1>1, <1>2, <1>3, <1>5, Steps DEF AllocateNothing, NextSendTime, RecvDataPacketForAlps,
     LoseData, LoseAck, vars

LEMMA NetworkStep ==
    ASSUME TypeInv, [Next]_vars PROVE NetworkOK'
<1>1. /\ data \in [Paths -> [Tps -> Seq(Nat)]] /\ acks \in [Paths -> [Tps -> Seq(Ack)]]
      /\ lostData \in Nat /\ lostAcks \in Nat /\ early \in Nat
  BY DEF TypeInv, NetworkOK, Ack
<1> SUFFICES /\ data' \in [Paths -> [Tps -> Seq(Nat)]] /\ acks' \in [Paths -> [Tps -> Seq(Ack)]]
             /\ lostData' \in Nat /\ lostAcks' \in Nat /\ early' \in Nat
  BY DEF NetworkOK, Ack
<1> USE DEF budgetVars
<1>2. ASSUME NEW t \in Tps, NEW p \in Paths, GetNextPacketForAlps(t, p)
      PROVE  data' \in [Paths -> [Tps -> Seq(Nat)]] /\ UNCHANGED <<acks, budgetVars>>
  <2>1. PICK x \in PendingPkt : data' = [data EXCEPT ![p][x.owner] = Append(data[p][x.owner], x.psn)]
    BY <1>2, SendEffect
  <2>2. x.owner \in Tps /\ x.psn \in Nat
    BY DEF PendingPkt
  <2>3. data[p][x.owner] \in Seq(Nat)
    BY <1>1, <2>2
  <2>4. Append(data[p][x.owner], x.psn) \in Seq(Nat)
    BY <2>2, <2>3, AppendSeq
  <2> QED
    BY <1>1, <1>2, <2>1, <2>2, <2>4 DEF GetNextPacketForAlps
<1>3. ASSUME NEW t \in Tps, NEW p \in Paths, RecvDataPacketForAlps(t, p)
      PROVE  /\ data' \in [Paths -> [Tps -> Seq(Nat)]] /\ acks' \in [Paths -> [Tps -> Seq(Ack)]]
             /\ UNCHANGED budgetVars
  <2>1. data[p][t] \in Seq(Nat) /\ acks[p][t] \in Seq(Ack)
    BY <1>1
  <2>2. Tail(data[p][t]) \in Seq(Nat) /\ data' = [data EXCEPT ![p][t] = Tail(data[p][t])]
    BY <1>3, <2>1, HeadTailSeq DEF RecvDataPacketForAlps
  <2>3. ASSUME NEW psn \in Nat, NEW cum \in Nat,
               acks' = [acks EXCEPT ![p][t] = Append(acks[p][t], [psn |-> psn, cum |-> cum])]
        PROVE  acks' \in [Paths -> [Tps -> Seq(Ack)]]
    <3>1. [psn |-> psn, cum |-> cum] \in Ack
      BY DEF Ack
    <3>2. Append(acks[p][t], [psn |-> psn, cum |-> cum]) \in Seq(Ack)
      BY <2>1, <3>1, AppendSeq
    <3> QED
      BY <1>1, <2>3, <3>2
  <2>4. acks' \in [Paths -> [Tps -> Seq(Ack)]]
    <3>1. CASE acks' = acks
      BY <1>1, <3>1
    <3>2. CASE acks' # acks
      <4>1. PICK psn, cum \in Nat :
                /\ acks' = [acks EXCEPT ![p][t] = Append(acks[p][t], [psn |-> psn, cum |-> cum])]
                /\ Received(t, psn)' /\ CumSound(t, cum)'
        BY <1>3, <3>2, ReceiveEffect
      <4> QED
        BY <2>3, <4>1
    <3> QED
      BY <3>1, <3>2
  <2>5. UNCHANGED budgetVars
    BY <1>3 DEF RecvDataPacketForAlps
  <2> QED
    BY <1>1, <2>2, <2>4, <2>5
<1>4. ASSUME NEW t \in Tps, NEW p \in Paths, RecvTpAckForAlps(t, p)
      PROVE  acks' \in [Paths -> [Tps -> Seq(Ack)]] /\ UNCHANGED <<data, budgetVars>>
  <2>1. acks[p][t] \in Seq(Ack) /\ acks[p][t] # <<>>
    BY <1>1, <1>4 DEF RecvTpAckForAlps
  <2>2. Tail(acks[p][t]) \in Seq(Ack)
    BY <2>1, HeadTailSeq
  <2> QED
    BY <1>1, <1>4, <2>2 DEF RecvTpAckForAlps
<1>5. ASSUME NEW p \in Paths, Timeout(p) \/ EarlyTimeout(p)
      PROVE  UNCHANGED <<data, acks, lostData, lostAcks>> /\ early' \in Nat
  BY <1>1, <1>5 DEF Timeout, EarlyTimeout
<1>6. ASSUME NEW t \in Tps, NEW p \in Paths, NEW i \in DOMAIN data[p][t], LoseData(t, p, i)
      PROVE  data' \in [Paths -> [Tps -> Seq(Nat)]] /\ UNCHANGED <<acks, lostAcks, early>>
             /\ lostData' \in Nat
  <2>1. data[p][t] \in Seq(Nat)
    BY <1>1
  <2>2. RemoveAt(data[p][t], i) \in Seq(Nat)
    BY <2>1, RemoveAtSeq
  <2> QED
    BY <1>1, <1>6, <2>2 DEF LoseData
<1>7. ASSUME NEW t \in Tps, NEW p \in Paths, NEW i \in DOMAIN acks[p][t], LoseAck(t, p, i)
      PROVE  acks' \in [Paths -> [Tps -> Seq(Ack)]] /\ UNCHANGED <<data, lostData, early>>
             /\ lostAcks' \in Nat
  <2>1. acks[p][t] \in Seq(Ack)
    BY <1>1
  <2>2. RemoveAt(acks[p][t], i) \in Seq(Ack)
    BY <2>1, RemoveAtSeq
  <2> QED
    BY <1>1, <1>7, <2>2 DEF LoseAck
<1>8. CASE UNCHANGED <<data, acks, budgetVars>>
  BY <1>1, <1>8
<1> QED
  BY <1>1, <1>2, <1>3, <1>4, <1>5, <1>6, <1>7, <1>8, Steps DEF AllocateNothing, NextSendTime, vars

LEMMA ReceiverStep ==
    ASSUME TypeInv, [Next]_vars PROVE ReceiverOK'
<1>1. CASE UNCHANGED recvVars
  BY <1>1 DEF TypeInv, ReceiverOK, recvVars
<1>2. ASSUME NEW t \in Tps, NEW p \in Paths, RecvDataPacketForAlps(t, p) PROVE ReceiverOK'
  BY <1>2, ReceiveEffect
<1> QED
  BY <1>1, <1>2, Steps DEF AllocateNothing, GetNextPacketForAlps, NextSendTime, RecvTpAckForAlps,
     Timeout, EarlyTimeout, LoseData, LoseAck, vars

LEMMA TypeInit == Init => TypeInv
<1> SUFFICES ASSUME Init PROVE TypeInv
  OBVIOUS
<1>1. SenderOK /\ segs = [t \in Tps |-> segs[t]]
  BY DEF Init, SenderOK
<1>2. AlpsOK
  <2>1. <<>> \in Seq(PendingPkt)
    BY EmptySeq
  <2> QED
    BY <2>1 DEF Init, AlpsOK
<1>3. ReceiverOK
  BY DEF Init, ReceiverOK
<1>4. NetworkOK
  <2>1. <<>> \in Seq(Nat) /\ <<>> \in Seq([psn : Nat, cum : Nat])
    BY EmptySeq
  <2> QED
    BY <2>1 DEF Init, NetworkOK
<1> QED
  BY <1>1, <1>2, <1>3, <1>4 DEF TypeInv

LEMMA TypeStep == TypeInv /\ [Next]_vars => TypeInv'
  BY SenderStep, AlpsStep, ReceiverStep, NetworkStep DEF TypeInv

LEMMA TypeInvariant == Spec => []TypeInv
  BY TypeInit, TypeStep, PTL DEF Spec

\* Only an ack takes segments away.
LEMMA SegmentsStep ==
    ASSUME TypeInv, SegmentsOK, [Next]_vars PROVE SegmentsOK'
<1> USE DEF SegmentsOK
<1>1. ASSUME NEW t \in Tps, NEW p \in Paths, RecvTpAckForAlps(t, p) PROVE SegmentsOK'
  <2>1. \/ segs' = segs
        \/ \E una : segs' = [segs EXCEPT ![t] = Incomplete(t, una)]
    BY <1>1 DEF RecvTpAckForAlps
  <2>2. \A una : Incomplete(t, una) \subseteq segs[t]
    BY DEF Incomplete
  <2> QED
    BY <2>1, <2>2
<1>2. CASE UNCHANGED segs
  BY <1>2
<1> QED
  BY <1>1, <1>2, Steps DEF AllocateNothing, GetNextPacketForAlps, NextSendTime,
     RecvDataPacketForAlps, Timeout, EarlyTimeout, LoseData, LoseAck, senderVars, vars

\* Every variable of the two hosts keeps its type: the in-flight counts stay
\* naturals, the bitmap stays within its width and every packet that is kept or
\* filed is one of a TP.  That the loads are numbered with naturals is a premise:
\* it is a fact about a fold over a sequence.
THEOREM TypeCorrect ==
    ASSUME \A c \in Scenarios : \A t \in Tps :
               SegmentsOf(c.load[t]) \subseteq [start : Nat, size : Nat \ {0}]
    PROVE  Spec => []TypeOK
<1>1. Init => TypeInv /\ SegmentsOK
  BY TypeInit DEF Init, SegmentsOK
<1>2. TypeInv /\ SegmentsOK /\ [Next]_vars => SegmentsOK'
  BY SegmentsStep
<1>3. TypeInv /\ SegmentsOK => TypeOK
  BY DEF TypeInv, TypeOK
<1> QED
  BY <1>1, <1>2, <1>3, TypeInvariant, PTL DEF Spec

-----------------------------------------------------------------------------
(* The trigger of the port.                                                *)

\* A channel the allocator would serve has a round pending: the send timer, every
\* ack and every timeout trigger the port, and nothing else makes a channel
\* selectable.
THEOREM NoTriggerIsLost == Spec => []NoLostTrigger
<1>1. Init => NoLostTrigger
  BY DEF Init, NoLostTrigger
<1>2. NoLostTrigger /\ [Next]_vars => NoLostTrigger'
  <2> SUFFICES ASSUME NoLostTrigger, [Next]_vars PROVE NoLostTrigger'
    OBVIOUS
  <2> USE DEF NoLostTrigger
  <2>1. CASE AllocateNothing
    <3>1. \A t \in Tps : ~Selectable(t) /\ Selectable(t)' = Selectable(t)
      BY <2>1 DEF AllocateNothing, Selectable, IsEmpty, IsLimited, IsPerPathBdpFull, IsBdpLikeFull,
         IsInflightLimited, senderVars, alpsVars
    <3> QED
      BY <3>1
  <2>2. CASE trigger'
    BY <2>2
  <2>3. CASE UNCHANGED <<scen, senderVars, alpsVars, trigger>>
    BY <2>3 DEF Selectable, IsEmpty, IsLimited, IsPerPathBdpFull, IsBdpLikeFull,
       IsInflightLimited, senderVars, alpsVars
  <2>4. ASSUME NEW t \in Tps, NEW p \in Paths, RecvTpAckForAlps(t, p) PROVE NoLostTrigger'
    BY <2>2, <2>3, <2>4 DEF RecvTpAckForAlps, senderVars
  <2>5. ASSUME NEW p \in Paths, Timeout(p) \/ EarlyTimeout(p) PROVE NoLostTrigger'
    BY <2>2, <2>5 DEF Timeout, EarlyTimeout, HandleTimeoutForLapsbypid
  <2>6. ASSUME NEW t \in Tps, NEW p \in Paths, GetNextPacketForAlps(t, p) PROVE NoLostTrigger'
    BY <2>2, <2>6 DEF GetNextPacketForAlps
  <2> QED
    BY <2>1, <2>2, <2>3, <2>4, <2>5, <2>6, Steps DEF NextSendTime, RecvDataPacketForAlps, LoseData,
       LoseAck, vars
<1> QED
  BY <1>1, <1>2, PTL DEF Spec

-----------------------------------------------------------------------------
(* The acks.                                                               *)

AckInv == AcksSound /\ AcksOfReceived /\ AckedAheadOnlyOfZero

\* An ack on its way was so before the step, or was sent in it.
LEMMA AcksFrom ==
    ASSUME TypeInv, [Next]_vars, NEW p \in Paths, NEW t \in Tps, NEW j \in DOMAIN acks'[p][t]
    PROVE  \/ \E i \in DOMAIN acks[p][t] : acks'[p][t][j] = acks[p][t][i]
           \/ Received(t, acks[p][t][j].psn)' /\ CumSound(t, acks[p][t][j].cum)'
<1>1. acks \in [Paths -> [Tps -> Seq(Ack)]] /\ acks[p][t] \in Seq(Ack)
  BY DEF TypeInv, NetworkOK, Ack
<1>2. CASE acks'[p][t] = acks[p][t]
  BY <1>2
<1>3. ASSUME NEW u \in Tps, NEW q \in Paths, RecvDataPacketForAlps(u, q), acks'[p][t] # acks[p][t]
      PROVE  \/ \E i \in DOMAIN acks[p][t] : acks'[p][t][j] = acks[p][t][i]
             \/ Received(t, acks[p][t][j].psn)' /\ CumSound(t, acks[p][t][j].cum)'
  <2>1. PICK psn, cum \in Nat :
            /\ acks' = [acks EXCEPT ![q][u] = Append(acks[q][u], [psn |-> psn, cum |-> cum])]
            /\ Received(u, psn)' /\ CumSound(u, cum)'
    BY <1>3, ReceiveEffect
  <2>2. PICK a \in Ack : a = [psn |-> psn, cum |-> cum]
    BY DEF Ack
  <2>3. q = p /\ u = t
    BY <1>1, <1>3, <2>1
  <2>4. acks'[p][t] = Append(acks[p][t], a)
    BY <1>1, <2>1, <2>2, <2>3
  <2>5. acks'[p][t][j] = a \/ \E i \in DOMAIN acks[p][t] : acks'[p][t][j] = acks[p][t][i]
    BY <1>1, <2>4, AppendElements
  <2>6. a.psn = psn /\ a.cum = cum
    BY <2>2
  <2> QED
    BY <2>1, <2>3, <2>5, <2>6
<1>4. ASSUME NEW u \in Tps, NEW q \in Paths, RecvTpAckForAlps(u, q), acks'[p][t] # acks[p][t]
      PROVE  \E i \in DOMAIN acks[p][t] : acks'[p][t][j] = acks[p][t][i]
  <2>1. acks[q][u] # <<>> /\ acks' = [acks EXCEPT ![q][u] = Tail(acks[q][u])]
    BY <1>4 DEF RecvTpAckForAlps
  <2>2. q = p /\ u = t
    BY <1>1, <1>4, <2>1
  <2>3. acks'[p][t] = Tail(acks[p][t])
    BY <1>1, <2>1, <2>2
  <2> QED
    BY <1>1, <2>1, <2>2, <2>3, HeadTailSeq
<1>5. ASSUME NEW u \in Tps, NEW q \in Paths, NEW i \in DOMAIN acks[q][u], LoseAck(u, q, i),
             acks'[p][t] # acks[p][t]
      PROVE  \E k \in DOMAIN acks[p][t] : acks'[p][t][j] = acks[p][t][k]
  <2>1. acks' = [acks EXCEPT ![q][u] = RemoveAt(acks[q][u], i)]
    BY <1>5 DEF LoseAck
  <2>2. q = p /\ u = t
    BY <1>1, <1>5, <2>1
  <2>3. acks'[p][t] = RemoveAt(acks[p][t], i)
    BY <1>1, <2>1, <2>2
  <2> QED
    BY <1>1, <2>2, <2>3, RemoveAtElements
<1> QED
  BY <1>2, <1>3, <1>4, <1>5, Steps DEF AllocateNothing, GetNextPacketForAlps, NextSendTime,
     Timeout, EarlyTimeout, LoseData, vars

\* The receiver goes forward only.
LEMMA ReceiverGrows ==
    ASSUME TypeInv, [Next]_vars
    PROVE  /\ \A u \in Tps : recvNxt[u] <= recvNxt'[u]
           /\ \A u \in Tps : \A psn \in Nat : Received(u, psn) => Received(u, psn)'
<1>1. CASE UNCHANGED recvVars
  BY <1>1 DEF TypeInv, ReceiverOK, recvVars, Received
<1>2. ASSUME NEW t \in Tps, NEW p \in Paths, RecvDataPacketForAlps(t, p)
      PROVE  /\ \A u \in Tps : recvNxt[u] <= recvNxt'[u]
             /\ \A u \in Tps : \A psn \in Nat : Received(u, psn) => Received(u, psn)'
  BY <1>2, ReceiveEffect
<1> QED
  BY <1>1, <1>2, Steps DEF AllocateNothing, GetNextPacketForAlps, NextSendTime, RecvTpAckForAlps,
     Timeout, EarlyTimeout, LoseData, LoseAck, vars

LEMMA AckStep ==
    ASSUME TypeInv, AckInv, [Next]_vars PROVE AckInv'
<1>1. TypeInv' /\ PsnMod \in Nat \ {0}
  BY TypeStep, ConstantsAssumption
<1>2. ASSUME NEW p \in Paths, NEW t \in Tps, NEW j \in DOMAIN acks'[p][t]
      PROVE  Received(t, acks[p][t][j].psn)' /\ CumSound(t, acks[p][t][j].cum)'
  <2>1. CASE Received(t, acks[p][t][j].psn)' /\ CumSound(t, acks[p][t][j].cum)'
    BY <2>1
  <2>2. ASSUME NEW i \in DOMAIN acks[p][t], acks'[p][t][j] = acks[p][t][i]
        PROVE  Received(t, acks[p][t][j].psn)' /\ CumSound(t, acks[p][t][j].cum)'
    <3> DEFINE a == acks[p][t][i]
    <3>1. a \in Ack
      <4>1. acks[p][t] \in Seq(Ack)
        BY DEF TypeInv, NetworkOK, Ack
      <4> QED
        BY <4>1, SeqElement
    <3>2. PICK psn, cum \in Nat : psn = a.psn /\ cum = a.cum
      BY <3>1 DEF Ack
    <3>3. Received(t, psn) /\ CumSound(t, cum)
      BY <3>2 DEF AckInv, AcksSound, AcksOfReceived
    <3>4. Received(t, psn)'
      BY <3>3, ReceiverGrows
    <3>5. CumSound(t, cum)'
      <4>1. recvNxt[t] <= recvNxt'[t] /\ recvNxt[t] \in Nat /\ recvNxt'[t] \in Nat
        BY <1>1, ReceiverGrows DEF TypeInv, ReceiverOK
      <4> QED
        BY <3>3, <4>1 DEF CumSound
    <3>6. acks'[p][t][j].psn = psn /\ acks'[p][t][j].cum = cum
      BY <2>2, <3>2
    <3> QED
      BY <3>4, <3>5, <3>6
  <2> QED
    BY <1>2, <2>1, <2>2, AcksFrom
<1>3. AckedAheadOnlyOfZero'
  <2> SUFFICES ASSUME NEW t \in Tps
               PROVE  \/ sndUna'[t] <= recvNxt'[t]
                      \/ recvNxt'[t] = 0 /\ sndUna'[t] = 1
                      \/ sndUna'[t] = PsnMod
    BY DEF AckedAheadOnlyOfZero
  <2>1. /\ recvNxt[t] \in Nat /\ recvNxt'[t] \in Nat /\ sndUna[t] \in Nat /\ sndUna'[t] \in Nat
        /\ recvNxt[t] <= recvNxt'[t] /\ sndUna \in [Tps -> Nat]
    BY <1>1, ReceiverGrows DEF TypeInv, ReceiverOK, SenderOK
  <2>2. \/ sndUna[t] <= recvNxt[t]
        \/ recvNxt[t] = 0 /\ sndUna[t] = 1
        \/ sndUna[t] = PsnMod
    BY DEF AckInv, AckedAheadOnlyOfZero
  <2>3. CASE sndUna'[t] = sndUna[t]
    BY <2>1, <2>2, <2>3
  <2>4. ASSUME NEW u \in Tps, NEW p \in Paths, RecvTpAckForAlps(u, p), sndUna'[t] # sndUna[t]
        PROVE  \/ sndUna'[t] <= recvNxt'[t]
               \/ recvNxt'[t] = 0 /\ sndUna'[t] = 1
               \/ sndUna'[t] = PsnMod
    <3>1. exists[u]
      BY <2>4 DEF RecvTpAckForAlps
    <3> DEFINE a == Head(acks[p][u])
    <3>2. /\ sndUna' = [sndUna EXCEPT ![u] = IF a.cum + 1 > sndUna[u] THEN a.cum + 1 ELSE sndUna[u]]
          /\ acks[p][u] # <<>> /\ recvNxt' = recvNxt
      BY <2>4, <3>1 DEF RecvTpAckForAlps, recvVars
    <3>3. u = t /\ sndUna'[t] = a.cum + 1
      BY <2>1, <2>4, <3>2
    <3>4. 1 \in DOMAIN acks[p][u] /\ a = acks[p][u][1] /\ a \in Ack
      <4>1. acks[p][u] \in Seq(Ack)
        BY DEF TypeInv, NetworkOK, Ack
      <4> QED
        BY <3>2, <4>1, HeadTailSeq
    <3>5. a.cum \in Nat /\ CumSound(t, a.cum)
      BY <3>3, <3>4 DEF AckInv, AcksSound, Ack
    <3> HIDE DEF a
    <3> QED
      BY <1>1, <2>1, <3>2, <3>3, <3>5 DEF CumSound
  <2> QED
    BY <2>3, <2>4, Steps DEF AllocateNothing, GetNextPacketForAlps, NextSendTime,
       RecvDataPacketForAlps, Timeout, EarlyTimeout, LoseData, LoseAck, senderVars, vars
<1> QED
  BY <1>2, <1>3 DEF AckInv, AcksSound, AcksOfReceived

LEMMA AckInvariant == Spec => [](TypeInv /\ AckInv)
<1>1. Init => AckInv
  BY DEF Init, AckInv, AcksSound, AcksOfReceived, AckedAheadOnlyOfZero
<1>2. TypeInv /\ AckInv /\ [Next]_vars => AckInv'
  BY AckStep
<1> QED
  BY <1>1, <1>2, TypeInvariant, PTL DEF Spec

\* The cumulative ack of a TP runs ahead of its receiver only through the PSN 0 of
\* an out-of-order packet or the PSN 0 - 1 of a repeated one, for every loss,
\* timeout and order of the acks of the paths, the PSN wrapping or not.
THEOREM AcksRunAheadOnlyOfZero == Spec => []AckedAheadOnlyOfZero
<1>1. AckInv => AckedAheadOnlyOfZero
  BY DEF AckInv
<1> QED
  BY <1>1, AckInvariant, PTL

\* The in-flight count of a path is the number of packets that wait there, for
\* every scenario.
THEOREM PathsAreCounted == Spec => []PathCounted
<1>1. Init => PathCounted
  BY DEF Init, PathCounted
<1>2. TypeInv /\ PathCounted /\ [Next]_vars => PathCounted'
  <2> SUFFICES ASSUME TypeInv, PathCounted, [Next]_vars, scen'.pathLimit > 0, NEW p \in Paths
               PROVE  pathBits'[p] = Len(pending'[p])
    BY DEF PathCounted
  <2>1. scen' = scen
    BY Steps DEF AllocateNothing, GetNextPacketForAlps, NextSendTime, RecvDataPacketForAlps,
       RecvTpAckForAlps, Timeout, EarlyTimeout, LoseData, LoseAck, vars
  <2>2. /\ pathBits \in [Paths -> Nat] /\ pending \in [Paths -> Seq(PendingPkt)]
        /\ \A q \in Paths : Len(pending[q]) \in Nat /\ pathBits[q] = Len(pending[q])
        /\ scen.pathLimit > 0 /\ scen.pathLimit # 0
    <3>1. scen.pathLimit > 0
      BY <2>1
    <3>2. scen.pathLimit \in Nat
      BY ConstantsAssumption DEF TypeInv, SenderOK, Scenario
    <3> QED
      BY <3>1, <3>2, LenProperties DEF TypeInv, AlpsOK, PathCounted
  <2>3. CASE UNCHANGED <<pathBits, pending>>
    BY <2>2, <2>3
  <2>4. ASSUME NEW u \in Tps, NEW q \in Paths, GetNextPacketForAlps(u, q)
        PROVE  pathBits'[p] = Len(pending'[p])
    <3>1. PICK x \in PendingPkt : pending' = [pending EXCEPT ![q] = Append(pending[q], x)]
      BY <2>4, SendEffect
    <3>2. pathBits' = [pathBits EXCEPT ![q] = Add(scen.pathLimit, pathBits[q])]
      BY <2>4 DEF GetNextPacketForAlps, Retransmit, SendNew, Spray
    <3>3. Len(Append(pending[q], x)) = Len(pending[q]) + 1
      BY <2>2, AppendProperties
    <3> QED
      BY <2>2, <3>1, <3>2, <3>3 DEF Add
  <2>5. ASSUME NEW u \in Tps, NEW q \in Paths, RecvTpAckForAlps(u, q)
        PROVE  pathBits'[p] = Len(pending'[p])
    <3>1. CASE ~exists[u]
      BY <2>3, <2>5, <3>1 DEF RecvTpAckForAlps, alpsVars
    <3>2. CASE exists[u]
      <4>1. PICK psn : HandleAlpsAckByPsn(q, u, psn)
        BY <2>5, <3>2 DEF RecvTpAckForAlps
      <4>2. PICK k, n \in 0..Len(pending[q]) : AckEffect(q, u, psn, k, n)
        BY <4>1, AckFiles DEF TypeInv
      <4>3. /\ Len(SubSeq(pending[q], k + 1, Len(pending[q]))) = Len(pending[q]) - k
            /\ pending' = [pending EXCEPT ![q] = SubSeq(pending[q], k + 1, Len(pending[q]))]
            /\ pathBits' = [pathBits EXCEPT ![q] = Release(scen.pathLimit, pathBits[q], k)]
        BY <4>2 DEF AckEffect
      <4>4. Release(scen.pathLimit, pathBits[q], k) = Len(pending[q]) - k
        BY <2>2 DEF Release
      <4> QED
        BY <2>2, <4>3, <4>4
    <3> QED
      BY <3>1, <3>2
  <2>6. ASSUME NEW q \in Paths, Timeout(q) \/ EarlyTimeout(q)
        PROVE  pathBits'[p] = Len(pending'[p])
    <3>1. HandleTimeoutForLapsbypid(q)
      BY <2>6 DEF Timeout, EarlyTimeout
    <3>2. /\ pathBits' = [pathBits EXCEPT ![q] = Release(scen.pathLimit, pathBits[q], Len(pending[q]))]
          /\ pending' = [pending EXCEPT ![q] = <<>>]
      BY <3>1 DEF HandleTimeoutForLapsbypid
    <3>3. Release(scen.pathLimit, pathBits[q], Len(pending[q])) = 0 /\ Len(<<>>) = 0
      BY <2>2 DEF Release
    <3> QED
      BY <2>2, <3>2, <3>3
  <2> QED
    BY <2>3, <2>4, <2>5, <2>6, Steps DEF AllocateNothing, NextSendTime, RecvDataPacketForAlps,
       LoseData, LoseAck, alpsVars, vars
<1> QED
  BY <1>1, <1>2, TypeInvariant, PTL DEF Spec

-----------------------------------------------------------------------------
(* The copies, when one TP has the paths to itself.                        *)

\* Two buffers of packets of s make one.
LEMMA ConcatOwned ==
    ASSUME NEW S, NEW s, NEW q \in Seq(S), NEW r \in Seq(S),
           \A i \in DOMAIN q : q[i].owner = s, \A i \in DOMAIN r : r[i].owner = s
    PROVE  \A j \in DOMAIN (q \o r) : (q \o r)[j].owner = s
<1> SUFFICES ASSUME NEW j \in DOMAIN (q \o r) PROVE (q \o r)[j].owner = s
  OBVIOUS
<1>1. \/ \E i \in DOMAIN q : (q \o r)[j] = q[i]
      \/ \E i \in DOMAIN r : (q \o r)[j] = r[i]
  BY ConcatHolds
<1> QED
  BY <1>1

\* At the start nothing is sent but by s, the only TP with a load.
LEMMA OnlySendsInit ==
    ASSUME Init, NEW s \in Tps, \A t \in Tps \ {s} : scen.load[t] = <<>>
    PROVE  OnlySends(s)
<1>1. \A t \in Tps \ {s} : segs[t] = {}
  <2> SUFFICES ASSUME NEW t \in Tps \ {s} PROVE segs[t] = {}
    OBVIOUS
  <2>1. segs[t] = SegmentsOf(scen.load[t]) /\ scen.load[t] = <<>>
    BY DEF Init
  <2>2. DOMAIN <<>> = {}
    OBVIOUS
  <2>3. SegmentsOf(<<>>) = {}
    BY <2>2, Zenon DEF SegmentsOf
  <2> QED
    BY <2>1, <2>3
<1>2. \A t \in Tps : sndNxt[t] = 0 /\ retrans[t] = <<>>
  BY DEF Init
<1>3. \A p \in Paths : pending[p] = <<>> /\ rto[p] = NoTp
  BY DEF Init
<1>4. \A p \in Paths, t \in Tps : data[p][t] = <<>> /\ acks[p][t] = <<>>
  BY DEF Init
<1>5. DOMAIN <<>> = {}
  OBVIOUS
<1> QED
  BY <1>1, <1>2, <1>3, <1>4, <1>5 DEF OnlySends

LEMMA OnlySendsStep ==
    ASSUME NEW s \in Tps, TypeInv, OnlySends(s), [Next]_vars PROVE OnlySends(s)'
<1> DEFINE Own(q) == \A i \in DOMAIN q : q[i].srcTpn = s /\ q[i].owner = s
           Silent(t) == segs[t] = {} /\ sndNxt[t] = 0 /\ retrans[t] = <<>>
           Idle(p, t) == data[p][t] = <<>> /\ acks[p][t] = <<>>
<1>1. /\ segs = [t \in Tps |-> segs[t]] /\ sndNxt \in [Tps -> Nat]
      /\ retrans \in [Tps -> Seq(PendingPkt)] /\ pending \in [Paths -> Seq(PendingPkt)]
      /\ rto \in [Paths -> Tps \cup {NoTp}] /\ NoTp \notin Tps
      /\ data \in [Paths -> [Tps -> Seq(Nat)]] /\ acks \in [Paths -> [Tps -> Seq(Ack)]]
  BY ConstantsAssumption DEF TypeInv, SenderOK, AlpsOK, NetworkOK, Ack
<1>2. /\ \A t \in Tps \ {s} : Silent(t)
      /\ \A p \in Paths, t \in Tps \ {s} : Idle(p, t)
      /\ \A p \in Paths : Own(pending[p])
      /\ \A i \in DOMAIN retrans[s] : retrans[s][i].owner = s
      /\ \A p \in Paths : rto[p] \in {s, NoTp}
  BY DEF OnlySends
<1>3. CASE UNCHANGED <<segs, sndNxt, alpsVars, data, acks>>
  BY <1>3 DEF alpsVars, OnlySends
<1>4. ASSUME NEW t \in Tps, NEW p \in Paths, GetNextPacketForAlps(t, p)
      PROVE  OnlySends(s)'
  <2>1. t = s
    BY <1>2, <1>4 DEF GetNextPacketForAlps, Selectable, IsEmpty
  <2>2. PICK x \in PendingPkt :
            /\ x.srcTpn = t
            /\ pending' = [pending EXCEPT ![p] = Append(pending[p], x)]
            /\ pending[p] \in Seq(PendingPkt)
            /\ data' = [data EXCEPT ![p][x.owner] = Append(data[p][x.owner], x.psn)]
            /\ \/ /\ retrans[t] # <<>> /\ retrans[t] \in Seq(PendingPkt)
                  /\ x.psn = Head(retrans[t]).psn /\ x.owner = Head(retrans[t]).owner
                  /\ retrans' = [retrans EXCEPT ![t] = Tail(retrans[t])]
                  /\ sndNxt' = sndNxt
               \/ /\ retrans[t] = <<>> /\ x.psn = sndNxt[t] /\ x.owner = t
                  /\ sndNxt' = [sndNxt EXCEPT ![t] = sndNxt[t] + 1]
                  /\ retrans' = retrans
    BY <1>4, SendEffect
  <2>3. /\ x.owner = s
        /\ \A i \in DOMAIN retrans'[s] : retrans'[s][i].owner = s
    <3>1. CASE retrans[s] = <<>>
      BY <1>2, <2>1, <2>2, <3>1
    <3>2. CASE retrans[s] # <<>>
      <4>1. /\ 1 \in DOMAIN retrans[s] /\ Head(retrans[s]) = retrans[s][1]
            /\ \A j \in DOMAIN Tail(retrans[s]) :
                   j + 1 \in DOMAIN retrans[s] /\ Tail(retrans[s])[j] = retrans[s][j + 1]
        BY <1>1, <3>2, HeadTailSeq
      <4>2. x.owner = Head(retrans[s]).owner /\ retrans'[s] = Tail(retrans[s])
        BY <1>1, <2>1, <2>2, <3>2
      <4> QED
        BY <1>2, <4>1, <4>2
    <3> QED
      BY <3>1, <3>2
  <2>4. Own(pending'[p])
    <3>1. \A j \in DOMAIN Append(pending[p], x) :
              \/ Append(pending[p], x)[j] = x
              \/ \E k \in DOMAIN pending[p] : Append(pending[p], x)[j] = pending[p][k]
      BY <2>2, AppendElements
    <3>2. pending'[p] = Append(pending[p], x)
      BY <1>1, <2>2
    <3> QED
      BY <1>2, <2>1, <2>2, <2>3, <3>1, <3>2
  <2>5. /\ UNCHANGED <<segs, acks>> /\ rto' = [rto EXCEPT ![p] = s]
        /\ \A u \in Tps \ {s} : sndNxt'[u] = sndNxt[u] /\ retrans'[u] = retrans[u]
        /\ \A q \in Paths, u \in Tps \ {s} : data'[q][u] = data[q][u]
        /\ \A q \in Paths \ {p} : pending'[q] = pending[q]
    BY <1>1, <1>4, <2>1, <2>2, <2>3 DEF GetNextPacketForAlps, Retransmit, SendNew, Spray
  <2>6. \A u \in Tps \ {s} : segs'[u] = {} /\ sndNxt'[u] = 0 /\ retrans'[u] = <<>>
    BY <1>2, <2>5
  <2>7. \A q \in Paths, u \in Tps \ {s} : data'[q][u] = <<>> /\ acks'[q][u] = <<>>
    BY <1>2, <2>5
  <2>8. \A q \in Paths : Own(pending'[q])
    BY <1>2, <2>4, <2>5
  <2>9. \A q \in Paths : rto'[q] \in {s, NoTp}
    BY <1>1, <1>2, <2>5
  <2> QED
    BY <2>3, <2>6, <2>7, <2>8, <2>9 DEF OnlySends
<1>5. ASSUME NEW t \in Tps, NEW p \in Paths, RecvDataPacketForAlps(t, p)
      PROVE  OnlySends(s)'
  <2>1. t = s
    BY <1>2, <1>5 DEF RecvDataPacketForAlps
  <2>2. /\ UNCHANGED <<segs, sndNxt, pending, retrans, rto>>
        /\ data' = [data EXCEPT ![p][t] = Tail(data[p][t])]
    BY <1>5 DEF RecvDataPacketForAlps, senderVars, alpsVars
  <2>3. \/ acks' = acks
        \/ \E a : acks' = [acks EXCEPT ![p][t] = a]
    BY <1>5 DEF RecvDataPacketForAlps, RecvDrop, RecvRepeat, RecvOutOfOrder, RecvInOrder, Acknowledge
  <2>4. \A q \in Paths, u \in Tps \ {s} : data'[q][u] = <<>> /\ acks'[q][u] = <<>>
    BY <1>1, <1>2, <2>1, <2>2, <2>3
  <2> QED
    BY <2>2, <2>4 DEF OnlySends
<1>6. ASSUME NEW t \in Tps, NEW p \in Paths, RecvTpAckForAlps(t, p)
      PROVE  OnlySends(s)'
  <2>1. t = s
    BY <1>2, <1>6 DEF RecvTpAckForAlps
  <2>2. /\ UNCHANGED <<sndNxt, data>> /\ acks' = [acks EXCEPT ![p][s] = Tail(acks[p][s])]
    BY <1>6, <2>1 DEF RecvTpAckForAlps
  <2>3. \A u \in Tps \ {s} : segs'[u] = segs[u]
    <3>1. segs' = segs \/ \E una : segs' = [segs EXCEPT ![s] = Incomplete(s, una)]
      BY <1>6, <2>1 DEF RecvTpAckForAlps
    <3> QED
      BY <1>1, <3>1
  <2>4. /\ \A u \in Tps \ {s} : segs'[u] = {} /\ sndNxt'[u] = 0
        /\ \A q \in Paths, u \in Tps \ {s} : data'[q][u] = <<>> /\ acks'[q][u] = <<>>
    BY <1>1, <1>2, <2>2, <2>3
  <2>5. CASE ~exists[s]
    <3>1. UNCHANGED alpsVars
      BY <1>6, <2>1, <2>5 DEF RecvTpAckForAlps
    <3> QED
      BY <2>4, <3>1 DEF alpsVars, OnlySends
  <2>6. CASE exists[s]
    <3>1. PICK psn : HandleAlpsAckByPsn(p, s, psn)
      BY <1>6, <2>1, <2>6 DEF RecvTpAckForAlps
    <3>2. PICK k, n \in 0..Len(pending[p]) : AckEffect(p, s, psn, k, n)
      BY <3>1, AckFiles DEF TypeInv
    <3> DEFINE filed == SubSeq(pending[p], 1, n)
               rest  == SubSeq(pending[p], k + 1, Len(pending[p]))
    <3>3. /\ filed \in Seq(PendingPkt) /\ rest \in Seq(PendingPkt)
          /\ \A i \in DOMAIN filed : Holding(pending[p], filed[i])
          /\ \A i \in DOMAIN rest : Holding(pending[p], rest[i])
          /\ pending' = [pending EXCEPT ![p] = rest]
          /\ retrans' = [retrans EXCEPT ![s] = retrans[s] \o filed]
          /\ rto' = [rto EXCEPT ![p] = IF k = Len(pending[p]) THEN NoTp ELSE s]
      BY <3>2 DEF AckEffect
    <3> HIDE DEF filed, rest
    <3>4. Own(filed) /\ Own(rest)
      BY <1>2, <3>3 DEF Holding
    <3>5. \A i \in DOMAIN (retrans[s] \o filed) : (retrans[s] \o filed)[i].owner = s
      <4>1. retrans[s] \in Seq(PendingPkt) /\ \A i \in DOMAIN filed : filed[i].owner = s
        BY <1>1, <3>4
      <4> QED
        BY <1>2, <3>3, <4>1, ConcatOwned
    <3> QED
      BY <1>1, <1>2, <2>4, <3>3, <3>4, <3>5 DEF OnlySends
  <2> QED
    BY <2>5, <2>6
<1>7. ASSUME NEW p \in Paths, Timeout(p) \/ EarlyTimeout(p)
      PROVE  OnlySends(s)'
  <2>1. HandleTimeoutForLapsbypid(p) /\ UNCHANGED <<segs, sndNxt, data, acks>>
    BY <1>7 DEF Timeout, EarlyTimeout, senderVars
  <2>2. /\ rto[p] = s
        /\ retrans' = [retrans EXCEPT ![s] = retrans[s] \o pending[p]]
        /\ pending' = [pending EXCEPT ![p] = <<>>]
        /\ rto' = [rto EXCEPT ![p] = NoTp]
    BY <1>2, <2>1 DEF HandleTimeoutForLapsbypid
  <2>3. \A i \in DOMAIN (retrans[s] \o pending[p]) : (retrans[s] \o pending[p])[i].owner = s
    <3> DEFINE q == pending[p]
               r == retrans[s]
    <3>1. /\ r \in Seq(PendingPkt) /\ q \in Seq(PendingPkt)
          /\ \A i \in DOMAIN q : q[i].owner = s
          /\ \A i \in DOMAIN r : r[i].owner = s
      BY <1>1, <1>2
    <3> HIDE DEF q, r
    <3>2. \A i \in DOMAIN (r \o q) : (r \o q)[i].owner = s
      BY <3>1, ConcatOwned
    <3> QED
      BY <3>2 DEF q, r
  <2> QED
    BY <1>1, <1>2, <2>1, <2>2, <2>3 DEF OnlySends
<1>8. ASSUME NEW t \in Tps, NEW p \in Paths, NEW i \in DOMAIN data[p][t], LoseData(t, p, i)
      PROVE  OnlySends(s)'
  <2>1. t = s
    BY <1>2
  <2>2. UNCHANGED <<segs, sndNxt, alpsVars, acks>> /\ data' = [data EXCEPT ![p][t] = RemoveAt(data[p][t], i)]
    BY <1>8 DEF LoseData, senderVars
  <2> QED
    BY <1>1, <1>2, <2>1, <2>2 DEF alpsVars, OnlySends
<1>9. ASSUME NEW t \in Tps, NEW p \in Paths, NEW i \in DOMAIN acks[p][t], LoseAck(t, p, i)
      PROVE  OnlySends(s)'
  <2>1. t = s
    BY <1>2
  <2>2. UNCHANGED <<segs, sndNxt, alpsVars, data>> /\ acks' = [acks EXCEPT ![p][t] = RemoveAt(acks[p][t], i)]
    BY <1>9 DEF LoseAck, senderVars
  <2> QED
    BY <1>1, <1>2, <2>1, <2>2 DEF alpsVars, OnlySends
<1> QED
  BY <1>3, <1>4, <1>5, <1>6, <1>7, <1>8, <1>9, Steps DEF AllocateNothing, NextSendTime,
     senderVars, vars

\* A packet a buffer holds is held by what it is joined to.
LEMMA ConcatKeeps ==
    ASSUME NEW S, NEW q \in Seq(S), NEW r \in Seq(S), NEW t, NEW psn,
           Holds(q, t, psn) \/ Holds(r, t, psn)
    PROVE  Holds(q \o r, t, psn)
<1>1. ASSUME NEW i \in DOMAIN q PROVE \E j \in DOMAIN (q \o r) : (q \o r)[j] = q[i]
  BY ConcatHolds
<1>2. ASSUME NEW i \in DOMAIN r PROVE \E j \in DOMAIN (q \o r) : (q \o r)[j] = r[i]
  BY ConcatHolds
<1> QED
  BY <1>1, <1>2 DEF Holds

\* A packet added to a buffer joins those it holds.
LEMMA AppendKeeps ==
    ASSUME NEW S, NEW q \in Seq(S), NEW x \in S
    PROVE  /\ Holds(Append(q, x), x.owner, x.psn)
           /\ \A t, psn : Holds(q, t, psn) => Holds(Append(q, x), t, psn)
<1>1. /\ Len(Append(q, x)) = Len(q) + 1 /\ Append(q, x) \in Seq(S)
      /\ \A i \in 1..Len(q) : Append(q, x)[i] = q[i]
      /\ Append(q, x)[Len(q) + 1] = x
  BY AppendProperties
<1>2. /\ Len(q) \in Nat /\ DOMAIN q = 1..Len(q)
      /\ DOMAIN Append(q, x) = 1..(Len(q) + 1)
  BY <1>1, LenProperties
<1> QED
  BY <1>1, <1>2 DEF Holds

\* The head of a buffer, and what it holds besides.
LEMMA TailKeeps ==
    ASSUME NEW S, NEW q \in Seq(S), q # <<>>, NEW t, NEW psn, Holds(q, t, psn)
    PROVE  (Head(q).owner = t /\ Head(q).psn = psn) \/ Holds(Tail(q), t, psn)
<1>1. /\ Len(Tail(q)) = Len(q) - 1 /\ Tail(q) \in Seq(S)
      /\ \A i \in 1..Len(Tail(q)) : Tail(q)[i] = q[i + 1]
  BY HeadTailProperties
<1>2. /\ Len(q) \in Nat /\ DOMAIN q = 1..Len(q)
      /\ DOMAIN Tail(q) = 1..Len(Tail(q))
  BY <1>1, LenProperties
<1>3. Head(q) = q[1]
  BY HeadTailSeq
<1>4. PICK i \in DOMAIN q : q[i].psn = psn /\ q[i].owner = t
  BY DEF Holds
<1>5. CASE i = 1
  BY <1>3, <1>4, <1>5
<1>6. CASE i # 1
  <2>1. i - 1 \in DOMAIN Tail(q) /\ Tail(q)[i - 1] = q[i]
    BY <1>1, <1>2, <1>4, <1>6
  <2> QED
    BY <1>4, <2>1 DEF Holds
<1> QED
  BY <1>5, <1>6

\* A copy of packet psn of t waits for an ack or for its retransmission.
Copied(t, psn) == (\E p \in Paths : Holds(pending[p], t, psn)) \/ Holds(retrans[t], t, psn)

LEMMA CopiesKeptStep ==
    ASSUME NEW s \in Tps, TypeInv, AckInv, OnlySends(s), CopiesKept(s), [Next]_vars
    PROVE  CopiesKept(s)'
<1> SUFFICES ASSUME exists'[s], NEW psn \in 0..(sndNxt'[s] - 1)
             PROVE  Received(s, psn)' \/ Copied(s, psn)'
  BY DEF CopiesKept, Copied
<1>1. /\ psn \in Nat /\ sndNxt \in [Tps -> Nat] /\ exists \in [Tps -> BOOLEAN]
      /\ pending \in [Paths -> Seq(PendingPkt)] /\ retrans \in [Tps -> Seq(PendingPkt)]
      /\ \A p \in Paths, t \in Tps : acks[p][t] \in Seq(Ack)
  <2>1. sndNxt'[s] \in Nat
    BY TypeStep DEF TypeInv, SenderOK
  <2> QED
    BY <2>1 DEF TypeInv, SenderOK, AlpsOK, NetworkOK, Ack
<1>2. exists[s]
  <2>1. ASSUME NEW t \in Tps, NEW p \in Paths, RecvTpAckForAlps(t, p)
        PROVE  exists[s]
    <3>1. exists' = exists \/ (exists[t] /\ \E e : exists' = [exists EXCEPT ![t] = e])
      BY <2>1 DEF RecvTpAckForAlps
    <3> QED
      BY <1>1, <3>1
  <2> QED
    BY <2>1, Steps DEF AllocateNothing, GetNextPacketForAlps, NextSendTime, RecvDataPacketForAlps,
       Timeout, EarlyTimeout, LoseData, LoseAck, senderVars, vars
<1>3. psn < sndNxt[s] => Received(s, psn)' \/ Copied(s, psn)
  <2>1. Received(s, psn) => Received(s, psn)'
    BY <1>1, ReceiverGrows
  <2>2. psn < sndNxt[s] => psn \in 0..(sndNxt[s] - 1)
    BY <1>1
  <2> QED
    BY <1>2, <2>1, <2>2 DEF CopiesKept, Copied
<1>4. CASE UNCHANGED <<sndNxt, pending, retrans>>
  <2>1. psn < sndNxt[s]
    BY <1>1, <1>4
  <2> QED
    BY <1>3, <1>4, <2>1 DEF Copied
<1>5. ASSUME NEW t \in Tps, NEW p \in Paths, GetNextPacketForAlps(t, p)
      PROVE  Received(s, psn)' \/ Copied(s, psn)'
  <2>1. t = s
    BY <1>5 DEF OnlySends, GetNextPacketForAlps, Selectable, IsEmpty
  <2>2. PICK x \in PendingPkt :
            /\ x.srcTpn = t
            /\ pending' = [pending EXCEPT ![p] = Append(pending[p], x)]
            /\ pending[p] \in Seq(PendingPkt)
            /\ data' = [data EXCEPT ![p][x.owner] = Append(data[p][x.owner], x.psn)]
            /\ \/ /\ retrans[t] # <<>> /\ retrans[t] \in Seq(PendingPkt)
                  /\ x.psn = Head(retrans[t]).psn /\ x.owner = Head(retrans[t]).owner
                  /\ retrans' = [retrans EXCEPT ![t] = Tail(retrans[t])]
                  /\ sndNxt' = sndNxt
               \/ /\ retrans[t] = <<>> /\ x.psn = sndNxt[t] /\ x.owner = t
                  /\ sndNxt' = [sndNxt EXCEPT ![t] = sndNxt[t] + 1]
                  /\ retrans' = retrans
    BY <1>5, SendEffect
  <2>3. pending' = [pending EXCEPT ![p] = Append(pending[p], x)]
    BY <2>2
  <2>4. /\ Holds(pending'[p], x.owner, x.psn)
        /\ \A q \in Paths : Holds(pending[q], s, psn) => Holds(pending'[q], s, psn)
    <3>1. /\ Holds(Append(pending[p], x), x.owner, x.psn)
          /\ Holds(pending[p], s, psn) => Holds(Append(pending[p], x), s, psn)
      BY <2>2, AppendKeeps
    <3> QED
      BY <1>1, <2>3, <3>1
  <2>5. CASE retrans[t] # <<>>
    <3>1. psn < sndNxt[s] /\ retrans'[s] = Tail(retrans[s])
      BY <1>1, <2>1, <2>2, <2>5
    <3>2. Holds(retrans[s], s, psn) => Copied(s, psn)'
      <4>1. /\ x.psn = Head(retrans[s]).psn /\ x.owner = Head(retrans[s]).owner
            /\ retrans[s] # <<>> /\ retrans[s] \in Seq(PendingPkt)
        BY <2>1, <2>2, <2>5
      <4>2. Holds(retrans[s], s, psn) =>
                (x.owner = s /\ x.psn = psn) \/ Holds(Tail(retrans[s]), s, psn)
        BY <4>1, TailKeeps
      <4> QED
        BY <2>4, <3>1, <4>2 DEF Copied
    <3> QED
      BY <1>3, <2>4, <3>1, <3>2 DEF Copied
  <2>6. CASE retrans[t] = <<>>
    <3>1. /\ retrans' = retrans /\ x.psn = sndNxt[s] /\ x.owner = s
          /\ sndNxt'[s] = sndNxt[s] + 1
      BY <1>1, <2>1, <2>2, <2>6
    <3>2. psn < sndNxt[s] \/ psn = x.psn
      BY <1>1, <3>1
    <3> QED
      BY <1>3, <2>4, <3>1, <3>2 DEF Copied
  <2> QED
    BY <2>5, <2>6
<1>6. ASSUME NEW t \in Tps, NEW p \in Paths, RecvTpAckForAlps(t, p)
      PROVE  Received(s, psn)' \/ Copied(s, psn)'
  <2>1. t = s
    BY <1>6 DEF OnlySends, RecvTpAckForAlps
  <2>2. psn < sndNxt[s]
    BY <1>1, <1>6 DEF RecvTpAckForAlps
  <2>3. /\ HandleAlpsAckByPsn(p, s, Head(acks[p][s]).psn)
        /\ acks[p][s] # <<>>
    BY <1>2, <1>6, <2>1 DEF RecvTpAckForAlps
  <2>4. PICK a : a = Head(acks[p][s]).psn
    OBVIOUS
  <2>5. a \in Nat /\ Received(s, a)'
    <3>1. 1 \in DOMAIN acks[p][s] /\ Head(acks[p][s]) = acks[p][s][1] /\ Head(acks[p][s]) \in Ack
      BY <1>1, <2>3, HeadTailSeq
    <3>2. Received(s, acks[p][s][1].psn)
      BY <3>1 DEF AckInv, AcksOfReceived
    <3>3. a \in Nat /\ Received(s, a)
      BY <2>4, <3>1, <3>2 DEF Ack
    <3> QED
      BY <3>3, ReceiverGrows
  <2>6. PICK k, n \in 0..Len(pending[p]) : AckEffect(p, s, a, k, n)
    BY <2>3, <2>4, AckFiles DEF TypeInv
  <2> DEFINE filed == SubSeq(pending[p], 1, n)
             rest  == SubSeq(pending[p], k + 1, Len(pending[p]))
  <2>7. /\ n = k \/ (n = k - 1 /\ pending[p][k].psn = a)
        /\ filed \in Seq(PendingPkt)
        /\ \A i \in DOMAIN pending[p] :
               (i = k /\ n = k - 1) \/ Holding(filed, pending[p][i]) \/ Holding(rest, pending[p][i])
        /\ pending' = [pending EXCEPT ![p] = rest]
        /\ retrans' = [retrans EXCEPT ![s] = retrans[s] \o filed]
    BY <2>6 DEF AckEffect
  <2>8. k \in Nat
    BY <1>1, <2>6, LenProperties
  <2> HIDE DEF filed, rest
  <2>9. /\ pending'[p] = rest /\ retrans'[s] = retrans[s] \o filed
        /\ \A q \in Paths \ {p} : pending'[q] = pending[q]
    BY <1>1, <2>7
  <2>10. Holds(retrans[s], s, psn) \/ Holds(filed, s, psn) => Copied(s, psn)'
    <3>1. retrans[s] \in Seq(PendingPkt)
      BY <1>1
    <3>2. Holds(retrans[s], s, psn) \/ Holds(filed, s, psn) => Holds(retrans[s] \o filed, s, psn)
      BY <2>7, <3>1, ConcatKeeps
    <3> QED
      BY <2>9, <3>2 DEF Copied
  <2>11. Holds(rest, s, psn) => Copied(s, psn)'
    BY <2>9 DEF Copied
  <2>12. Holds(pending[p], s, psn) =>
             psn = a \/ Holds(filed, s, psn) \/ Holds(rest, s, psn)
    <3> SUFFICES ASSUME NEW i \in DOMAIN pending[p],
                        pending[p][i].psn = psn, pending[p][i].owner = s
                 PROVE  psn = a \/ Holds(filed, s, psn) \/ Holds(rest, s, psn)
      BY DEF Holds
    <3>1. CASE i = k /\ n = k - 1
      BY <2>7, <2>8, <3>1
    <3>2. CASE Holding(filed, pending[p][i]) \/ Holding(rest, pending[p][i])
      BY <3>2 DEF Holding, Holds
    <3> QED
      BY <2>7, <3>1, <3>2
  <2>13. ASSUME NEW q \in Paths \ {p}, Holds(pending[q], s, psn)
         PROVE  Copied(s, psn)'
    BY <2>9, <2>13 DEF Copied
  <2> QED
    BY <1>3, <2>2, <2>5, <2>10, <2>11, <2>12, <2>13 DEF Copied
<1>7. ASSUME NEW p \in Paths, Timeout(p) \/ EarlyTimeout(p)
      PROVE  Received(s, psn)' \/ Copied(s, psn)'
  <2>1. HandleTimeoutForLapsbypid(p) /\ UNCHANGED sndNxt
    BY <1>7 DEF Timeout, EarlyTimeout, senderVars
  <2>2. /\ rto[p] = s
        /\ retrans' = [retrans EXCEPT ![s] = retrans[s] \o pending[p]]
        /\ pending' = [pending EXCEPT ![p] = <<>>]
    BY <2>1 DEF OnlySends, HandleTimeoutForLapsbypid
  <2>3. psn < sndNxt[s]
    BY <1>1, <2>1
  <2>4. /\ retrans'[s] = retrans[s] \o pending[p]
        /\ \A q \in Paths \ {p} : pending'[q] = pending[q]
    BY <1>1, <2>2
  <2>5. Holds(retrans[s], s, psn) \/ Holds(pending[p], s, psn) => Copied(s, psn)'
    <3>1. retrans[s] \in Seq(PendingPkt) /\ pending[p] \in Seq(PendingPkt)
      BY <1>1
    <3>2. Holds(retrans[s], s, psn) \/ Holds(pending[p], s, psn) => Holds(retrans[s] \o pending[p], s, psn)
      BY <3>1, ConcatKeeps
    <3> QED
      BY <2>4, <3>2 DEF Copied
  <2>6. ASSUME NEW q \in Paths \ {p}, Holds(pending[q], s, psn)
        PROVE  Copied(s, psn)'
    BY <2>4, <2>6 DEF Copied
  <2> QED
    BY <1>3, <2>3, <2>5, <2>6 DEF Copied
<1> QED
  BY <1>4, <1>5, <1>6, <1>7, Steps DEF AllocateNothing, NextSendTime, RecvDataPacketForAlps,
     LoseData, LoseAck, senderVars, alpsVars, vars

\* ub-transport.cc:471, "keep one packet copy per (pid queue) for ACK
\* matching/retrans": when one TP has the paths to itself, a packet it sent and
\* that has not arrived is on its way or a copy of it is kept, for any number of
\* paths, any losses of packets and acks, and timeouts that come at any time.
THEOREM NothingIsForgotten ==
    ASSUME NEW s \in Tps, \A c \in Scenarios : \A t \in Tps \ {s} : c.load[t] = <<>>
    PROVE  Spec => []NothingForgotten
<1> DEFINE Inv == OnlySends(s) /\ CopiesKept(s)
<1>1. Init => Inv
  <2> SUFFICES ASSUME Init PROVE Inv
    OBVIOUS
  <2>1. \A c \in Scenarios : \A t \in Tps \ {s} : c.load[t] = <<>>
    OBVIOUS
  <2>2. OnlySends(s)
    BY <2>1, OnlySendsInit DEF Init
  <2>3. CopiesKept(s)
    BY DEF Init, CopiesKept
  <2> QED
    BY <2>2, <2>3
<1>2. TypeInv /\ AckInv /\ Inv /\ [Next]_vars => Inv'
  BY OnlySendsStep, CopiesKeptStep
<1>3. TypeInv /\ Inv => NothingForgotten
  <2> SUFFICES ASSUME TypeInv, Inv, NEW t \in Tps, NEW psn \in 0..(sndNxt[t] - 1), exists[t]
               PROVE  Received(t, psn) \/ Copied(t, psn)
    BY DEF NothingForgotten, Copied
  <2>1. t = s
    BY DEF OnlySends
  <2> QED
    BY <2>1 DEF CopiesKept, Copied
<1> HIDE DEF Inv
<1> QED
  BY <1>1, <1>2, <1>3, AckInvariant, PTL DEF Spec

-----------------------------------------------------------------------------
(* The sums.                                                               *)

\* A sum, one summand apart.
LEMMA SumSplit ==
    ASSUME NEW S, IsFiniteSet(S), NEW f \in [S -> Nat], NEW x \in S,
           NEW rest, rest = UNION {{y} \X (1..f[y]) : y \in S \ {x}}
    PROVE  IsFiniteSet(rest) /\ Cardinality(rest) \in Nat /\ SumOf(f) = Cardinality(rest) + f[x]
<1> DEFINE col(y) == {y} \X (1..f[y])
           mine == col(x)
<1>1. \A y \in S : IsFiniteSet(col(y)) /\ Cardinality(col(y)) = f[y]
  <2> SUFFICES ASSUME NEW y \in S PROVE IsFiniteSet(col(y)) /\ Cardinality(col(y)) = f[y]
    OBVIOUS
  <2>1. f[y] \in Nat
    OBVIOUS
  <2>2. IsFiniteSet(1..f[y]) /\ Cardinality(1..f[y]) = f[y]
    BY <2>1, FS_Interval
  <2>3. IsFiniteSet({y}) /\ Cardinality({y}) = 1
    BY FS_Singleton
  <2>4. IsFiniteSet(col(y)) /\ Cardinality(col(y)) = Cardinality({y}) * Cardinality(1..f[y])
    BY <2>2, <2>3, FS_Product
  <2>5. 1 * f[y] = f[y]
    BY <2>1
  <2> QED
    BY <2>2, <2>3, <2>4, <2>5
<1>2. IsFiniteSet(rest)
  <2> DEFINE T == {col(y) : y \in S \ {x}}
             g == [y \in S \ {x} |-> col(y)]
  <2>1. IsFiniteSet(S \ {x})
    BY FS_RemoveElement
  <2>2. g \in Surjection(S \ {x}, T)
    BY DEF Surjection
  <2>3. IsFiniteSet(T)
    BY <2>1, <2>2, FS_Surjection
  <2>4. \A c \in T : IsFiniteSet(c)
    BY <1>1
  <2>5. rest = UNION T
    OBVIOUS
  <2> HIDE DEF T
  <2> QED
    BY <2>3, <2>4, <2>5, FS_UNION
<1>3. /\ DOMAIN f = S
      /\ UNION {col(y) : y \in S} = rest \cup mine
      /\ rest \cap mine = {}
  OBVIOUS
<1>4. SumOf(f) = Cardinality(rest \cup mine)
  BY <1>3 DEF SumOf
<1>5. Cardinality({}) = 0 /\ Cardinality(rest) \in Nat
  BY <1>2, FS_EmptySet, FS_CardinalityType
<1>6. IsFiniteSet(mine) /\ Cardinality(mine) = f[x]
  BY <1>1
<1> HIDE DEF mine
<1>7. Cardinality(rest \cup mine) = Cardinality(rest) + Cardinality(mine) - Cardinality(rest \cap mine)
  BY <1>2, <1>6, FS_Union
<1>8. f[x] \in Nat /\ rest \cap mine = {}
  BY <1>3
<1>9. Cardinality(rest \cap mine) = 0
  BY <1>5, <1>8
<1>10. SumOf(f) = Cardinality(rest) + f[x]
  BY <1>4, <1>5, <1>6, <1>7, <1>8, <1>9
<1> QED
  BY <1>2, <1>5, <1>10

\* What changing one summand does to a sum.
LEMMA SumChange ==
    ASSUME NEW S, IsFiniteSet(S), NEW f \in [S -> Nat], NEW x \in S, NEW m \in Nat
    PROVE  /\ SumOf(f) \in Nat /\ SumOf(f) >= f[x]
           /\ SumOf([f EXCEPT ![x] = m]) = SumOf(f) - f[x] + m
<1> DEFINE g == [f EXCEPT ![x] = m]
           rest == UNION {{y} \X (1..f[y]) : y \in S \ {x}}
<1>1. g \in [S -> Nat] /\ g[x] = m /\ \A y \in S \ {x} : g[y] = f[y]
  OBVIOUS
<1>2. rest = UNION {{y} \X (1..g[y]) : y \in S \ {x}}
  BY <1>1
<1>3. Cardinality(rest) \in Nat /\ SumOf(f) = Cardinality(rest) + f[x]
  BY SumSplit
<1> HIDE DEF rest, g
<1>4. SumOf(g) = Cardinality(rest) + g[x]
  BY <1>1, <1>2, SumSplit
<1>5. f[x] \in Nat
  OBVIOUS
<1> QED
  BY <1>1, <1>3, <1>4, <1>5 DEF g

\* A sum of one summand.
LEMMA SumAlone ==
    ASSUME NEW S, IsFiniteSet(S), NEW f \in [S -> Nat], NEW x \in S, \A y \in S \ {x} : f[y] = 0
    PROVE  SumOf(f) = f[x]
<1> DEFINE rest == UNION {{y} \X (1..f[y]) : y \in S \ {x}}
<1>1. rest = {}
  OBVIOUS
<1>2. SumOf(f) = Cardinality(rest) + f[x]
  BY SumSplit
<1>3. f[x] \in Nat /\ Cardinality(rest) = 0
  BY <1>1, FS_EmptySet
<1> QED
  BY <1>2, <1>3

-----------------------------------------------------------------------------
(* The counts of the TPs.                                                  *)

LEMMA ScenarioStays ==
    ASSUME [Next]_vars PROVE scen' = scen /\ Senders' = Senders
<1>1. scen' = scen
  BY Steps DEF AllocateNothing, GetNextPacketForAlps, NextSendTime, RecvDataPacketForAlps,
     RecvTpAckForAlps, Timeout, EarlyTimeout, LoseData, LoseAck, vars
<1> QED
  BY <1>1 DEF Senders

\* What waits on the paths, one path changed.
LEMMA WaitingChange ==
    ASSUME TypeInv, NEW p \in Paths, NEW q, Len(q) \in Nat, pending' = [pending EXCEPT ![p] = q]
    PROVE  /\ Len(pending[p]) \in Nat /\ Waiting \in Nat /\ Waiting >= Len(pending[p])
           /\ Waiting' = Waiting - Len(pending[p]) + Len(q)
<1> DEFINE lens == [r \in Paths |-> Len(pending[r])]
<1>1. pending \in [Paths -> Seq(PendingPkt)] /\ IsFiniteSet(Paths)
  BY ConstantsAssumption DEF TypeInv, AlpsOK
<1>2. lens \in [Paths -> Nat] /\ lens[p] = Len(pending[p])
  BY <1>1, LenProperties
<1>3. [r \in Paths |-> Len(pending'[r])] = [lens EXCEPT ![p] = Len(q)]
  BY <1>1
<1> HIDE DEF lens
<1>4. /\ SumOf(lens) \in Nat /\ SumOf(lens) >= lens[p]
      /\ SumOf([lens EXCEPT ![p] = Len(q)]) = SumOf(lens) - lens[p] + Len(q)
  BY <1>1, <1>2, SumChange
<1>5. Waiting = SumOf(lens) /\ Waiting' = SumOf([lens EXCEPT ![p] = Len(q)])
  BY <1>3 DEF Waiting, lens
<1>6. lens[p] \in Nat
  BY <1>2
<1> QED
  BY <1>2, <1>4, <1>5, <1>6

\* The counts of the TPs, one TP changed.
LEMMA CountedChange ==
    ASSUME TypeInv, NEW t \in Tps, NEW m \in Nat, tpBits' = [tpBits EXCEPT ![t] = m]
    PROVE  /\ tpBits[t] \in Nat /\ Counted \in Nat /\ Counted' = Counted - tpBits[t] + m
           /\ (\A u \in Tps \ {t} : tpBits[u] = 0) =>
                  Counted = tpBits[t] /\ \A u \in Tps \ {t} : tpBits'[u] = 0
<1>1. tpBits \in [Tps -> Nat] /\ IsFiniteSet(Tps)
  BY ConstantsAssumption DEF TypeInv, AlpsOK
<1>2. /\ SumOf(tpBits) \in Nat
      /\ SumOf([tpBits EXCEPT ![t] = m]) = SumOf(tpBits) - tpBits[t] + m
      /\ (\A u \in Tps \ {t} : tpBits[u] = 0) => SumOf(tpBits) = tpBits[t]
  <2> DEFINE f == tpBits
  <2>1. f \in [Tps -> Nat]
    BY <1>1
  <2> HIDE DEF f
  <2>2. /\ SumOf(f) \in Nat
        /\ SumOf([f EXCEPT ![t] = m]) = SumOf(f) - f[t] + m
    BY <1>1, <2>1, SumChange
  <2>3. (\A u \in Tps \ {t} : f[u] = 0) => SumOf(f) = f[t]
    BY <1>1, <2>1, SumAlone
  <2> QED
    BY <2>2, <2>3 DEF f
<1> QED
  BY <1>1, <1>2 DEF Counted

\* k packets of a path are taken out, and counted out of t.
LEMMA CountRelease ==
    ASSUME TypeInv, CountInv, scen' = scen, scen.tpLimit > 0,
           NEW t \in Tps, NEW p \in Paths, NEW q, NEW k \in 0..Len(pending[p]),
           Len(q) = Len(pending[p]) - k, Len(q) \in Nat,
           pending' = [pending EXCEPT ![p] = q],
           tpBits' = [tpBits EXCEPT ![t] = Release(scen.tpLimit, tpBits[t], k)],
           \A s \in Tps : Senders = {s} => t = s
    PROVE  CountInv'
<1> DEFINE m == Release(scen.tpLimit, tpBits[t], k)
<1>1. /\ Len(pending[p]) \in Nat /\ Waiting \in Nat /\ Waiting >= Len(pending[p])
      /\ Waiting' = Waiting - Len(pending[p]) + Len(q)
  BY WaitingChange
<1>2. tpBits[t] \in Nat /\ scen.tpLimit \in Nat
  BY ConstantsAssumption DEF TypeInv, AlpsOK, SenderOK, Scenario
<1>3. k \in Nat /\ m = (IF k > tpBits[t] THEN 0 ELSE tpBits[t] - k) /\ m \in Nat
  BY <1>1, <1>2 DEF Release
<1>4. tpBits' = [tpBits EXCEPT ![t] = m]
  OBVIOUS
<1> HIDE DEF m
<1>5. /\ Counted \in Nat /\ Counted' = Counted - tpBits[t] + m
      /\ (\A u \in Tps \ {t} : tpBits[u] = 0) =>
             Counted = tpBits[t] /\ \A u \in Tps \ {t} : tpBits'[u] = 0
  BY <1>3, <1>4, CountedChange
<1>6. Counted' >= Waiting'
  BY <1>1, <1>2, <1>3, <1>5 DEF CountInv
<1>7. ASSUME NEW s \in Tps, Senders = {s}
      PROVE  Counted' = Waiting' /\ \A u \in Tps \ {s} : tpBits'[u] = 0
  <2>1. s = t /\ Counted = Waiting /\ \A u \in Tps \ {t} : tpBits[u] = 0
    BY <1>7 DEF CountInv
  <2>2. Counted = tpBits[t] /\ \A u \in Tps \ {s} : tpBits'[u] = 0
    BY <1>5, <2>1
  <2>3. k <= Len(pending[p]) /\ m = tpBits[t] - k
    BY <1>1, <1>2, <1>3, <2>1, <2>2
  <2>4. Waiting' = Waiting - k
    BY <1>1, <1>3
  <2>5. Counted' = m
    BY <1>2, <1>3, <1>5, <2>2
  <2>6. m = Waiting - k
    BY <2>1, <2>2, <2>3
  <2> QED
    BY <2>2, <2>4, <2>5, <2>6
<1>8. Senders' = Senders
  BY DEF Senders
<1> QED
  BY <1>6, <1>7, <1>8 DEF CountInv

LEMMA CountStep ==
    ASSUME TypeInv, CountInv, [Next]_vars, \A s \in Tps : Senders = {s} => OnlySends(s)
    PROVE  CountInv'
<1> SUFFICES ASSUME scen.tpLimit > 0 PROVE CountInv'
  BY ScenarioStays DEF CountInv
<1>1. scen' = scen /\ Senders' = Senders
  BY ScenarioStays
<1>2. /\ pending \in [Paths -> Seq(PendingPkt)] /\ tpBits \in [Tps -> Nat] /\ NoTp \notin Tps
      /\ scen.tpLimit \in Nat
  BY ConstantsAssumption DEF TypeInv, AlpsOK, SenderOK, Scenario
<1>3. CASE UNCHANGED <<pending, tpBits>>
  BY <1>1, <1>3 DEF CountInv, Counted, Waiting
<1>4. ASSUME NEW t \in Tps, NEW p \in Paths, GetNextPacketForAlps(t, p) PROVE CountInv'
  <2>1. PICK x \in PendingPkt : pending' = [pending EXCEPT ![p] = Append(pending[p], x)]
    BY <1>4, SendEffect
  <2>2. tpBits' = [tpBits EXCEPT ![t] = Add(scen.tpLimit, tpBits[t])]
    BY <1>4 DEF GetNextPacketForAlps, Retransmit, SendNew, Spray
  <2>3. Add(scen.tpLimit, tpBits[t]) = tpBits[t] + 1 /\ tpBits[t] + 1 \in Nat
    BY <1>2 DEF Add
  <2>4. Len(Append(pending[p], x)) = Len(pending[p]) + 1 /\ Len(pending[p]) \in Nat
    BY <1>2, AppendProperties, LenProperties
  <2>5. Waiting \in Nat /\ Waiting' = Waiting + 1
    <3> DEFINE q == Append(pending[p], x)
    <3>1. Len(q) = Len(pending[p]) + 1 /\ Len(q) \in Nat /\ pending' = [pending EXCEPT ![p] = q]
      BY <2>1, <2>4
    <3> HIDE DEF q
    <3>2. Waiting \in Nat /\ Waiting' = Waiting - Len(pending[p]) + Len(q)
      BY <3>1, WaitingChange
    <3> DEFINE n == Len(pending[p])
               w == Waiting'
    <3>3. n \in Nat /\ Waiting \in Nat /\ w = Waiting - n + (n + 1)
      BY <2>4, <3>1, <3>2
    <3> HIDE DEF n, w
    <3>4. w = Waiting + 1
      BY <3>3
    <3> QED
      BY <3>2, <3>4 DEF w
  <2>6. /\ Counted \in Nat /\ Counted' = Counted + 1
        /\ (\A u \in Tps \ {t} : tpBits[u] = 0) => \A u \in Tps \ {t} : tpBits'[u] = 0
    <3> DEFINE m == tpBits[t] + 1
    <3>1. tpBits' = [tpBits EXCEPT ![t] = m] /\ m \in Nat
      BY <2>2, <2>3
    <3>2. tpBits[t] \in Nat /\ m = tpBits[t] + 1
      BY <1>2
    <3> HIDE DEF m
    <3>3. /\ Counted \in Nat /\ Counted' = Counted - tpBits[t] + m
          /\ (\A u \in Tps \ {t} : tpBits[u] = 0) => \A u \in Tps \ {t} : tpBits'[u] = 0
      BY <3>1, CountedChange
    <3> QED
      BY <3>2, <3>3
  <2>7. \A s \in Tps : Senders = {s} => t = s
    BY <1>4 DEF OnlySends, GetNextPacketForAlps, Selectable, IsEmpty
  <2> QED
    BY <1>1, <2>5, <2>6, <2>7 DEF CountInv
<1>5. ASSUME NEW t \in Tps, NEW p \in Paths, RecvTpAckForAlps(t, p) PROVE CountInv'
  <2>1. CASE ~exists[t]
    BY <1>3, <1>5, <2>1 DEF RecvTpAckForAlps, alpsVars
  <2>2. CASE exists[t]
    <3>1. PICK psn : HandleAlpsAckByPsn(p, t, psn)
      BY <1>5, <2>2 DEF RecvTpAckForAlps
    <3>2. PICK k, n \in 0..Len(pending[p]) : AckEffect(p, t, psn, k, n)
      BY <3>1, AckFiles DEF TypeInv
    <3> DEFINE rest == SubSeq(pending[p], k + 1, Len(pending[p]))
    <3>3. /\ rest \in Seq(PendingPkt) /\ Len(rest) = Len(pending[p]) - k
          /\ pending' = [pending EXCEPT ![p] = rest]
          /\ tpBits' = [tpBits EXCEPT ![t] = Release(scen.tpLimit, tpBits[t], k)]
      BY <3>2 DEF AckEffect
    <3> HIDE DEF rest
    <3>4. Len(rest) \in Nat
      BY <3>3, LenProperties
    <3>5. \A s \in Tps : Senders = {s} => t = s
      BY <1>5 DEF OnlySends, RecvTpAckForAlps
    <3> QED
      BY <1>1, <3>3, <3>4, <3>5, CountRelease
  <2> QED
    BY <2>1, <2>2
<1>6. ASSUME NEW p \in Paths, Timeout(p) \/ EarlyTimeout(p) PROVE CountInv'
  <2>1. HandleTimeoutForLapsbypid(p)
    BY <1>6 DEF Timeout, EarlyTimeout
  <2>2. PICK t \in Tps :
            /\ t = rto[p]
            /\ tpBits' = [tpBits EXCEPT ![t] = Release(scen.tpLimit, tpBits[t], Len(pending[p]))]
    BY <2>1, TimeoutEffect DEF TypeInv
  <2>3. pending' = [pending EXCEPT ![p] = <<>>]
    BY <2>1 DEF HandleTimeoutForLapsbypid
  <2>4. Len(pending[p]) \in Nat /\ Len(pending[p]) \in 0..Len(pending[p])
    BY <1>2, LenProperties
  <2>5. Len(<<>>) = 0
    OBVIOUS
  <2>6. \A s \in Tps : Senders = {s} => t = s
    BY <1>2, <2>2 DEF OnlySends
  <2>7. Len(<<>>) = Len(pending[p]) - Len(pending[p]) /\ Len(<<>>) \in Nat
    BY <2>4, <2>5
  <2> QED
    BY <1>1, <2>2, <2>3, <2>4, <2>6, <2>7, CountRelease
<1> QED
  BY <1>3, <1>4, <1>5, <1>6, Steps DEF AllocateNothing, NextSendTime, RecvDataPacketForAlps,
     LoseData, LoseAck, alpsVars, vars

-----------------------------------------------------------------------------
(* The order of a path, when one TP has the paths to itself.               *)

\* A packet that does not wait on the path yet is sent there.
LEMMA OrderSend ==
    ASSUME NEW q \in Seq(PendingPkt), NEW a \in Seq(Ack), NEW d \in Seq(Nat), InOrderOf(q, a, d),
           NEW x \in PendingPkt, ~Kept(q, x.psn)
    PROVE  InOrderOf(Append(q, x), a, Append(d, x.psn))
<1> DEFINE n == x.psn
           r == Append(q, x)
           e == Append(d, n)
<1>1. /\ \A i \in DOMAIN q : i \in DOMAIN r /\ r[i] = q[i]
      /\ Len(q) + 1 \in DOMAIN r /\ r[Len(q) + 1] = x
      /\ \A i \in DOMAIN r : (i \in DOMAIN q /\ r[i] = q[i]) \/ (i = Len(q) + 1 /\ r[i] = x)
  BY AppendElement
<1>2. n \in Nat
  BY DEF PendingPkt
<1>3. \A i \in DOMAIN e : (i \in DOMAIN d /\ e[i] = d[i]) \/ (i = Len(d) + 1 /\ e[i] = n)
  BY <1>2, AppendElement
<1>4. /\ DOMAIN q = 1..Len(q) /\ Len(q) \in Nat
      /\ DOMAIN d = 1..Len(d) /\ Len(d) \in Nat
  BY LenProperties
<1>5. x.psn = n
  OBVIOUS
<1>6. ~Kept(q, n)
  OBVIOUS
<1> HIDE DEF n, r, e
<1>7. \A y : Kept(q, y) => Kept(r, y)
  BY <1>1 DEF Kept
<1>8. Kept(r, n)
  BY <1>1, <1>5 DEF Kept
<1>9. ASSUME NEW y, NEW z, Kept(q, y), Kept(q, z), Before(q, y, z)
      PROVE  Before(r, y, z)
  <2>1. y # n /\ z # n
    BY <1>6, <1>9
  <2> QED
    BY <1>1, <1>5, <1>9, <2>1 DEF Before
<1>10. ASSUME NEW y, Kept(q, y)
       PROVE  Before(r, y, n)
  <2> SUFFICES ASSUME NEW i \in DOMAIN r, NEW k \in DOMAIN r, r[i].psn = y, r[k].psn = n
               PROVE  i < k
    BY DEF Before
  <2>1. y # n
    BY <1>6, <1>10
  <2>2. i \in DOMAIN q
    BY <1>1, <1>5, <2>1
  <2>3. k \notin DOMAIN q
    BY <1>1, <1>6 DEF Kept
  <2>4. k = Len(q) + 1
    BY <1>1, <2>3
  <2> QED
    BY <1>4, <2>2, <2>4
<1>11. /\ \A i \in DOMAIN a : Kept(q, a[i].psn)
       /\ \A i \in DOMAIN d : Kept(q, d[i])
       /\ \A i, k \in DOMAIN a : i < k => Before(q, a[i].psn, a[k].psn)
       /\ \A i, k \in DOMAIN d : i < k => Before(q, d[i], d[k])
       /\ \A i \in DOMAIN a, k \in DOMAIN d : Before(q, a[i].psn, d[k])
  BY DEF InOrderOf
<1>12. \A i \in DOMAIN e : Kept(r, e[i])
  BY <1>3, <1>7, <1>8, <1>11
<1>13. \A i, k \in DOMAIN a : i < k => Before(r, a[i].psn, a[k].psn)
  BY <1>9, <1>11
<1>14. ASSUME NEW i \in DOMAIN e, NEW k \in DOMAIN e, i < k PROVE Before(r, e[i], e[k])
  <2>1. i \in DOMAIN d /\ e[i] = d[i]
    BY <1>3, <1>4, <1>14
  <2> QED
    BY <1>3, <1>9, <1>10, <1>11, <1>14, <2>1
<1>15. \A i \in DOMAIN a, k \in DOMAIN e : Before(r, a[i].psn, e[k])
  BY <1>3, <1>9, <1>10, <1>11
<1> QED
  BY <1>7, <1>11, <1>12, <1>13, <1>14, <1>15 DEF InOrderOf, n, r, e

\* The next packet of the path is acknowledged.
LEMMA OrderReceive ==
    ASSUME NEW q, NEW a \in Seq(Ack), NEW d \in Seq(Nat), InOrderOf(q, a, d), d # <<>>,
           NEW y \in Ack, y.psn = Head(d)
    PROVE  InOrderOf(q, Append(a, y), Tail(d))
<1> DEFINE b == Append(a, y)
           e == Tail(d)
<1>1. \A i \in DOMAIN b : (i \in DOMAIN a /\ b[i] = a[i]) \/ (i = Len(a) + 1 /\ b[i] = y)
  BY AppendElement
<1>2. DOMAIN a = 1..Len(a) /\ Len(a) \in Nat /\ DOMAIN d \subseteq Nat /\ e \in Seq(Nat)
  BY LenProperties, HeadTailSeq
<1>3. 1 \in DOMAIN d /\ y.psn = d[1] /\ \A i \in DOMAIN e : i + 1 \in DOMAIN d /\ e[i] = d[i + 1]
  BY HeadTailSeq
<1>4. DOMAIN e \subseteq Nat \ {0}
  BY <1>2, LenProperties
<1> HIDE DEF b, e
<1>5. /\ \A i \in DOMAIN a : Kept(q, a[i].psn)
      /\ \A i \in DOMAIN d : Kept(q, d[i])
      /\ \A i, k \in DOMAIN a : i < k => Before(q, a[i].psn, a[k].psn)
      /\ \A i, k \in DOMAIN d : i < k => Before(q, d[i], d[k])
      /\ \A i \in DOMAIN a, k \in DOMAIN d : Before(q, a[i].psn, d[k])
  BY DEF InOrderOf
<1>6. ASSUME NEW i \in DOMAIN b PROVE Kept(q, b[i].psn)
  BY <1>1, <1>3, <1>5
<1>7. ASSUME NEW i \in DOMAIN e PROVE Kept(q, e[i])
  BY <1>3, <1>5
<1>8. ASSUME NEW i \in DOMAIN b, NEW k \in DOMAIN b, i < k PROVE Before(q, b[i].psn, b[k].psn)
  <2>1. i \in DOMAIN a /\ b[i] = a[i]
    BY <1>1, <1>2, <1>8
  <2> QED
    BY <1>1, <1>3, <1>5, <1>8, <2>1
<1>9. ASSUME NEW i \in DOMAIN e, NEW k \in DOMAIN e, i < k PROVE Before(q, e[i], e[k])
  <2>1. i + 1 < k + 1
    BY <1>4, <1>9
  <2> QED
    BY <1>3, <1>5, <2>1
<1>10. ASSUME NEW i \in DOMAIN b, NEW k \in DOMAIN e PROVE Before(q, b[i].psn, e[k])
  <2>1. k + 1 \in DOMAIN d /\ e[k] = d[k + 1] /\ 1 < k + 1
    BY <1>3, <1>4
  <2> QED
    BY <1>1, <1>3, <1>5, <2>1
<1> QED
  BY <1>6, <1>7, <1>8, <1>9, <1>10 DEF InOrderOf, b, e

\* Data packets are taken out of the path: those that stay keep their order.
LEMMA OrderLose ==
    ASSUME NEW q, NEW a, NEW d, InOrderOf(q, a, d), NEW e, NEW f,
           \A i \in DOMAIN e : f[i] \in DOMAIN d /\ e[i] = d[f[i]],
           \A i, k \in DOMAIN e : i < k => f[i] < f[k]
    PROVE  InOrderOf(q, a, e)
<1>1. /\ \A i \in DOMAIN a : Kept(q, a[i].psn)
      /\ \A i \in DOMAIN d : Kept(q, d[i])
      /\ \A i, k \in DOMAIN a : i < k => Before(q, a[i].psn, a[k].psn)
      /\ \A i, k \in DOMAIN d : i < k => Before(q, d[i], d[k])
      /\ \A i \in DOMAIN a, k \in DOMAIN d : Before(q, a[i].psn, d[k])
  BY DEF InOrderOf
<1>2. \A i \in DOMAIN e : Kept(q, e[i])
  BY <1>1
<1>3. \A i, k \in DOMAIN e : i < k => Before(q, e[i], e[k])
  BY <1>1
<1>4. \A i \in DOMAIN a, k \in DOMAIN e : Before(q, a[i].psn, e[k])
  BY <1>1
<1> QED
  BY <1>1, <1>2, <1>3, <1>4 DEF InOrderOf

\* The next ack of the path takes out the packets up to the one it names.
LEMMA OrderAck ==
    ASSUME NEW q \in Seq(PendingPkt), NEW a \in Seq(Ack), NEW d, InOrderOf(q, a, d), a # <<>>,
           NEW k \in DOMAIN q, q[k].psn = Head(a).psn
    PROVE  InOrderOf(SubSeq(q, k + 1, Len(q)), Tail(a), d)
<1> DEFINE r == SubSeq(q, k + 1, Len(q))
           b == Tail(a)
<1>1. DOMAIN q = 1..Len(q) /\ Len(q) \in Nat /\ k \in Nat /\ k \in 0..Len(q)
  BY LenProperties
<1>2. /\ r \in Seq(PendingPkt) /\ Len(r) = Len(q) - k
      /\ \A i \in 1..(Len(q) - k) : r[i] = q[k + i]
  BY <1>1, SplitSeq
<1>3. DOMAIN r = 1..(Len(q) - k)
  BY <1>2, LenProperties
<1>4. /\ 1 \in DOMAIN a /\ Head(a) = a[1] /\ b \in Seq(Ack)
      /\ \A i \in DOMAIN b : i + 1 \in DOMAIN a /\ b[i] = a[i + 1]
  BY HeadTailSeq
<1>5. DOMAIN b \subseteq Nat \ {0}
  BY <1>4, LenProperties
<1> HIDE DEF r, b
<1>6. /\ \A i \in DOMAIN a : Kept(q, a[i].psn)
      /\ \A i \in DOMAIN d : Kept(q, d[i])
      /\ \A i, j \in DOMAIN a : i < j => Before(q, a[i].psn, a[j].psn)
      /\ \A i, j \in DOMAIN d : i < j => Before(q, d[i], d[j])
      /\ \A i \in DOMAIN a, j \in DOMAIN d : Before(q, a[i].psn, d[j])
  BY DEF InOrderOf
<1>7. \A y : Kept(q, y) /\ Before(q, a[1].psn, y) => Kept(r, y)
  <2> SUFFICES ASSUME NEW y, NEW i \in DOMAIN q, q[i].psn = y, Before(q, a[1].psn, y)
               PROVE  Kept(r, y)
    BY DEF Kept
  <2>1. k < i
    BY <1>4 DEF Before
  <2>2. i - k \in DOMAIN r /\ k + (i - k) = i
    BY <1>1, <1>3, <2>1
  <2>3. r[i - k] = q[i]
    BY <1>2, <1>3, <2>2
  <2> QED
    BY <2>2, <2>3 DEF Kept
<1>8. \A y, z : Before(q, y, z) => Before(r, y, z)
  <2> SUFFICES ASSUME NEW y, NEW z, Before(q, y, z), NEW i \in DOMAIN r, NEW j \in DOMAIN r,
                      r[i].psn = y, r[j].psn = z
               PROVE  i < j
    BY DEF Before
  <2>1. k + i \in DOMAIN q /\ k + j \in DOMAIN q /\ i \in Nat /\ j \in Nat
    BY <1>1, <1>3
  <2>2. q[k + i].psn = y /\ q[k + j].psn = z
    BY <1>2, <1>3
  <2>3. k + i < k + j
    BY <2>1, <2>2 DEF Before
  <2> QED
    BY <1>1, <2>1, <2>3
<1>9. ASSUME NEW i \in DOMAIN b PROVE Kept(r, b[i].psn)
  <2>1. i + 1 \in DOMAIN a /\ b[i] = a[i + 1] /\ 1 < i + 1
    BY <1>4, <1>5
  <2> QED
    BY <1>4, <1>6, <1>7, <2>1
<1>10. \A i \in DOMAIN d : Kept(r, d[i])
  BY <1>4, <1>6, <1>7
<1>11. ASSUME NEW i \in DOMAIN b, NEW j \in DOMAIN b, i < j PROVE Before(r, b[i].psn, b[j].psn)
  <2>1. i + 1 < j + 1
    BY <1>5, <1>11
  <2> QED
    BY <1>4, <1>6, <1>8, <2>1
<1>12. \A i, j \in DOMAIN d : i < j => Before(r, d[i], d[j])
  BY <1>6, <1>8
<1>13. \A i \in DOMAIN b, j \in DOMAIN d : Before(r, b[i].psn, d[j])
  BY <1>4, <1>6, <1>8
<1> QED
  BY <1>9, <1>10, <1>11, <1>12, <1>13 DEF InOrderOf, r, b

LEMMA OrderNone == \A q : InOrderOf(q, <<>>, <<>>)
  BY DEF InOrderOf

\* Nothing is received but the packet that arrives.
LEMMA ReceiveAdds ==
    ASSUME TypeInv, NEW t \in Tps, NEW p \in Paths, RecvDataPacketForAlps(t, p),
           NEW n \in Nat, n = Head(data[p][t])
    PROVE  /\ \A k \in Nat : Received(t, k)' => Received(t, k) \/ k = n
           /\ ~Received(t, n) =>
                  \/ acks' = acks
                  \/ \E y \in Ack : /\ y.psn = n
                                    /\ acks' = [acks EXCEPT ![p][t] = Append(acks[p][t], y)]
           /\ acks' = acks => UNCHANGED recvVars
<1>1. /\ recvNxt \in [Tps -> Nat] /\ bits \in [Tps -> SUBSET (0..(OooThreshold - 1))]
      /\ recvNxt[t] \in Nat /\ bits[t] \subseteq 0..(OooThreshold - 1) /\ bits[t] \subseteq Nat
      /\ OooThreshold \in Nat \ {0} /\ PsnMod \in Nat \ {0}
  BY ConstantsAssumption DEF TypeInv, ReceiverOK
<1>2. \/ RecvDrop(t, n) \/ RecvRepeat(t, p, n)
      \/ RecvOutOfOrder(t, p, n) \/ RecvInOrder(t, p, n)
  BY DEF RecvDataPacketForAlps
<1>3. CASE RecvDrop(t, n)
  BY <1>3 DEF RecvDrop, recvVars, Received
<1>4. CASE RecvRepeat(t, p, n)
  BY <1>4 DEF RecvRepeat, recvVars, Received
<1>5. acks[p][t] \in Seq(Ack) /\ acks \in [Paths -> [Tps -> Seq(Ack)]]
  BY DEF TypeInv, NetworkOK, Ack
<1>6. ASSUME NEW y, acks' = [acks EXCEPT ![p][t] = Append(acks[p][t], y)] PROVE acks' # acks
  <2>1. Len(Append(acks[p][t], y)) = Len(acks[p][t]) + 1 /\ Len(acks[p][t]) \in Nat
    BY <1>5, LenProperties, AppendProperties
  <2>2. acks'[p][t] = Append(acks[p][t], y)
    BY <1>5, <1>6
  <2> QED
    BY <2>1, <2>2
<1>7. CASE RecvOutOfOrder(t, p, n)
  <2>1. /\ recvNxt' = recvNxt /\ bits' = [bits EXCEPT ![t] = bits[t] \cup {n - recvNxt[t]}]
        /\ n > recvNxt[t]
    BY <1>7 DEF RecvOutOfOrder
  <2>2. ASSUME NEW k \in Nat, Received(t, k)' PROVE Received(t, k) \/ k = n
    <3>1. recvNxt'[t] = recvNxt[t] /\ bits'[t] = bits[t] \cup {n - recvNxt[t]}
      BY <1>1, <2>1
    <3>2. k < recvNxt[t] \/ k - recvNxt[t] \in bits[t] \/ k - recvNxt[t] = n - recvNxt[t]
      BY <2>2, <3>1 DEF Received
    <3> QED
      BY <1>1, <3>2 DEF Received
  <2>3. PICK cum \in Nat : cum = IF recvNxt[t] > 0 THEN Wire(recvNxt[t] - 1) ELSE 0
    <3>1. recvNxt[t] - 1 \in Int
      BY <1>1
    <3>2. Wire(recvNxt[t] - 1) \in 0..(PsnMod - 1)
      BY <3>1, WireValue
    <3> QED
      BY <1>1, <3>2
  <2>4. PICK y \in Ack : y = [psn |-> n, cum |-> cum]
    BY DEF Ack
  <2>5. acks' = [acks EXCEPT ![p][t] = Append(acks[p][t], y)] /\ y.psn = n
    BY <1>7, <2>3, <2>4 DEF RecvOutOfOrder, Acknowledge
  <2> QED
    BY <1>6, <2>2, <2>5
<1>8. CASE RecvInOrder(t, p, n)
  <2>1. PICK m \in 1..OooThreshold :
            m = RunLength(bits[t] \cup {0}) /\ 0..(m - 1) \subseteq bits[t] \cup {0}
    <3>1. bits[t] \cup {0} \subseteq 0..(OooThreshold - 1)
      BY <1>1
    <3> QED
      BY <3>1, RunLengthValue
  <2>2. PICK cum \in Nat : cum = Wire(recvNxt[t] + m - 1)
    <3>1. recvNxt[t] + m - 1 \in Int
      BY <1>1
    <3>2. Wire(recvNxt[t] + m - 1) \in 0..(PsnMod - 1)
      BY <3>1, WireValue
    <3> QED
      BY <1>1, <3>2
  <2>3. PICK y \in Ack : y = [psn |-> n, cum |-> cum]
    BY DEF Ack
  <2>4. /\ n = recvNxt[t]
        /\ recvNxt' = [recvNxt EXCEPT ![t] = recvNxt[t] + m]
        /\ bits' = [bits EXCEPT ![t] = RightShift(bits[t], m)]
        /\ acks' = [acks EXCEPT ![p][t] = Append(acks[p][t], y)] /\ y.psn = n
    BY <1>8, <2>1, <2>2, <2>3 DEF RecvInOrder, Acknowledge
  <2>5. recvNxt'[t] = recvNxt[t] + m /\ bits'[t] = RightShift(bits[t], m)
    BY <1>1, <2>4
  <2>6. ASSUME NEW k \in Nat, Received(t, k)' PROVE Received(t, k) \/ k = n
    <3>1. CASE k < recvNxt[t]
      BY <3>1 DEF Received
    <3>2. CASE k >= recvNxt[t] /\ k < recvNxt[t] + m
      <4>1. k - recvNxt[t] \in 0..(m - 1)
        BY <1>1, <2>1, <3>2
      <4>2. k - recvNxt[t] \in bits[t] \/ k - recvNxt[t] = 0
        BY <2>1, <4>1
      <4> QED
        BY <1>1, <2>4, <4>2 DEF Received
    <3>3. CASE k >= recvNxt[t] + m
      <4>1. k - (recvNxt[t] + m) \in RightShift(bits[t], m)
        BY <1>1, <2>1, <2>5, <2>6, <3>3 DEF Received
      <4>2. PICK i \in bits[t] : k - (recvNxt[t] + m) = i - m
        BY <4>1 DEF RightShift
      <4>3. k - recvNxt[t] = i
        BY <1>1, <2>1, <4>2
      <4> QED
        BY <4>3 DEF Received
    <3> QED
      BY <1>1, <2>1, <3>1, <3>2, <3>3
  <2> QED
    BY <1>6, <2>4, <2>6
<1> QED
  BY <1>2, <1>3, <1>4, <1>7, <1>8

\* That all that is below r, or above it by an element of b, is below n.
LEMMA AllBelow ==
    ASSUME NEW r \in Nat, NEW b, b \subseteq Nat, NEW n \in Nat
    PROVE  (r <= n /\ \A i \in b : r + i < n) <=> \A k \in Nat : k < r \/ k - r \in b => k < n
<1>1. ASSUME r <= n, \A i \in b : r + i < n, NEW k \in Nat, k < r \/ k - r \in b
      PROVE  k < n
  <2>1. CASE k < r
    BY <1>1, <2>1
  <2>2. CASE k - r \in b
    <3>1. r + (k - r) < n
      BY <1>1, <2>2
    <3> QED
      BY <3>1
  <2> QED
    BY <1>1, <2>1, <2>2
<1>2. ASSUME \A k \in Nat : k < r \/ k - r \in b => k < n
      PROVE  r <= n /\ \A i \in b : r + i < n
  <2>1. r <= n
    <3> SUFFICES ASSUME n < r PROVE FALSE
      OBVIOUS
    <3> QED
      BY <1>2
  <2>2. ASSUME NEW i \in b PROVE r + i < n
    <3>1. i \in Nat /\ r + i \in Nat /\ (r + i) - r = i
      OBVIOUS
    <3> QED
      BY <1>2, <3>1
  <2> QED
    BY <2>1, <2>2
<1> QED
  BY <1>1, <1>2

\* The PSNs of what is kept.
LEMMA KeptPsns ==
    ASSUME TypeInv, NEW s \in Tps
    PROVE  /\ \A p \in Paths : \A i \in DOMAIN pending[p] : pending[p][i].psn \in Nat
           /\ \A i \in DOMAIN retrans[s] : retrans[s][i].psn \in Nat
           /\ \A p \in Paths : \A i \in DOMAIN acks[p][s] : acks[p][s][i].psn \in Nat
           /\ \A p \in Paths : \A i \in DOMAIN data[p][s] : data[p][s][i] \in Nat
<1>1. ASSUME NEW q \in Seq(PendingPkt), NEW i \in DOMAIN q PROVE q[i].psn \in Nat
  <2>1. q[i] \in PendingPkt
    BY SeqElement
  <2> QED
    BY <2>1 DEF PendingPkt
<1>2. ASSUME NEW a \in Seq(Ack), NEW i \in DOMAIN a PROVE a[i].psn \in Nat
  <2>1. a[i] \in Ack
    BY SeqElement
  <2> QED
    BY <2>1 DEF Ack
<1>3. ASSUME NEW d \in Seq(Nat), NEW i \in DOMAIN d PROVE d[i] \in Nat
  BY SeqElement
<1>4. /\ \A p \in Paths : pending[p] \in Seq(PendingPkt) /\ acks[p][s] \in Seq(Ack) /\ data[p][s] \in Seq(Nat)
      /\ retrans[s] \in Seq(PendingPkt)
  BY DEF TypeInv, AlpsOK, NetworkOK, Ack
<1> QED
  BY <1>1, <1>2, <1>3, <1>4

\* A packet that is sent: filed or new, of which no copy waits and which has not
\* been received.
LEMMA SentOnce ==
    ASSUME TypeInv, NEW s \in Tps, OnlySends(s), OneCopy(s), OnlySent(s), AckOnItsWay(s),
           NEW p \in Paths, GetNextPacketForAlps(s, p)
    PROVE  \E x \in PendingPkt :
               /\ pending' = [pending EXCEPT ![p] = Append(pending[p], x)]
               /\ data' = [data EXCEPT ![p][s] = Append(data[p][s], x.psn)]
               /\ sndNxt'[s] \in Nat /\ sndNxt[s] <= sndNxt'[s] /\ x.psn < sndNxt'[s]
               /\ ~Received(s, x.psn) /\ \A q \in Paths : ~Kept(pending[q], x.psn)
               /\ \A i \in DOMAIN retrans'[s] :
                      retrans'[s][i].psn # x.psn /\ \E k \in DOMAIN retrans[s] : retrans'[s][i] = retrans[s][k]
               /\ \A i, k \in DOMAIN retrans'[s] : retrans'[s][i].psn = retrans'[s][k].psn => i = k
<1>1. PICK x \in PendingPkt :
          /\ x.srcTpn = s
          /\ pending' = [pending EXCEPT ![p] = Append(pending[p], x)]
          /\ pending[p] \in Seq(PendingPkt)
          /\ data' = [data EXCEPT ![p][x.owner] = Append(data[p][x.owner], x.psn)]
          /\ \/ /\ retrans[s] # <<>> /\ retrans[s] \in Seq(PendingPkt)
                /\ x.psn = Head(retrans[s]).psn /\ x.owner = Head(retrans[s]).owner
                /\ retrans' = [retrans EXCEPT ![s] = Tail(retrans[s])]
                /\ sndNxt' = sndNxt
             \/ /\ retrans[s] = <<>> /\ x.psn = sndNxt[s] /\ x.owner = s
                /\ sndNxt' = [sndNxt EXCEPT ![s] = sndNxt[s] + 1]
                /\ retrans' = retrans
  BY SendEffect
<1>2. /\ sndNxt \in [Tps -> Nat] /\ retrans \in [Tps -> Seq(PendingPkt)]
      /\ recvNxt[s] \in Nat /\ bits[s] \subseteq Nat
  BY DEF TypeInv, SenderOK, AlpsOK, ReceiverOK
<1>3. \A n \in Nat : Received(s, n) => n < sndNxt[s]
  <2>1. sndNxt[s] \in Nat /\ recvNxt[s] <= sndNxt[s] /\ \A b \in bits[s] : recvNxt[s] + b < sndNxt[s]
    BY <1>2 DEF OnlySent
  <2>2. \A n \in Nat : n < recvNxt[s] \/ n - recvNxt[s] \in bits[s] => n < sndNxt[s]
    BY <1>2, <2>1, AllBelow
  <2> QED
    BY <2>2 DEF Received
<1>4. CASE retrans[s] # <<>>
  <2> DEFINE r == retrans[s]
             t == Tail(r)
  <2>1. r \in Seq(PendingPkt) /\ r # <<>> /\ retrans'[s] = t /\ sndNxt' = sndNxt
    BY <1>1, <1>2, <1>4
  <2>2. /\ 1 \in DOMAIN r /\ Head(r) = r[1] /\ t \in Seq(PendingPkt)
        /\ \A j \in DOMAIN t : j + 1 \in DOMAIN r /\ t[j] = r[j + 1]
    BY <2>1, HeadTailSeq
  <2>3. DOMAIN t \subseteq Nat \ {0}
    BY <2>2, LenProperties
  <2>4. x.psn = r[1].psn /\ x.owner = r[1].owner
    BY <1>1, <1>4, <2>2
  <2>5. /\ r[1].psn < sndNxt[s] /\ ~Received(s, r[1].psn) /\ r[1].owner = s
        /\ \A q \in Paths : ~Kept(pending[q], r[1].psn)
        /\ \A i, k \in DOMAIN r : r[i].psn = r[k].psn => i = k
    BY <2>2 DEF OnlySends, OneCopy, OnlySent, AckOnItsWay
  <2> HIDE DEF t
  <2>6. ASSUME NEW i \in DOMAIN t
        PROVE  t[i].psn # x.psn /\ \E k \in DOMAIN retrans[s] : t[i] = retrans[s][k]
    <3>1. i + 1 \in DOMAIN r /\ t[i] = r[i + 1] /\ i + 1 # 1
      BY <2>2, <2>3
    <3> QED
      BY <2>2, <2>4, <2>5, <3>1
  <2>7. ASSUME NEW i \in DOMAIN t, NEW k \in DOMAIN t, t[i].psn = t[k].psn PROVE i = k
    <3>1. i + 1 = k + 1
      BY <2>2, <2>5, <2>7
    <3> QED
      BY <2>3, <3>1
  <2>8. data' = [data EXCEPT ![p][s] = Append(data[p][s], x.psn)]
    BY <1>1, <2>4, <2>5
  <2>9. sndNxt'[s] \in Nat /\ sndNxt[s] <= sndNxt'[s] /\ x.psn < sndNxt'[s]
    BY <1>2, <2>1, <2>4, <2>5
  <2>10. ~Received(s, x.psn) /\ \A q \in Paths : ~Kept(pending[q], x.psn)
    BY <2>4, <2>5
  <2>11. pending' = [pending EXCEPT ![p] = Append(pending[p], x)]
    BY <1>1
  <2> QED
    BY <2>1, <2>6, <2>7, <2>8, <2>9, <2>10, <2>11
<1>5. CASE retrans[s] = <<>>
  <2>1. /\ x.psn = sndNxt[s] /\ sndNxt'[s] = sndNxt[s] + 1 /\ retrans'[s] = <<>>
        /\ data' = [data EXCEPT ![p][s] = Append(data[p][s], x.psn)]
    BY <1>1, <1>2, <1>5
  <2>2. ~Received(s, x.psn) /\ sndNxt'[s] \in Nat /\ sndNxt[s] <= sndNxt'[s] /\ x.psn < sndNxt'[s]
    BY <1>2, <1>3, <2>1
  <2>3. ASSUME NEW q \in Paths, NEW i \in DOMAIN pending[q] PROVE pending[q][i].psn # x.psn
    <3>1. pending[q][i].psn < sndNxt[s] /\ pending[q][i].psn \in Nat
      BY KeptPsns DEF OnlySent
    <3> QED
      BY <1>2, <2>1, <3>1
  <2>4. DOMAIN <<>> = {}
    OBVIOUS
  <2>5. pending' = [pending EXCEPT ![p] = Append(pending[p], x)]
    BY <1>1
  <2> QED
    BY <2>1, <2>2, <2>3, <2>4, <2>5 DEF Kept
<1> QED
  BY <1>4, <1>5

LEMMA SendInOrder ==
    ASSUME TypeInv, NEW s \in Tps, OnlySends(s), PathsInOrder(s),
           NEW p \in Paths, GetNextPacketForAlps(s, p)
    PROVE  PathsInOrder(s)'
<1>1. OneCopy(s) /\ OnlySent(s) /\ AckOnItsWay(s)
  BY DEF PathsInOrder
<1>2. PICK x \in PendingPkt :
          /\ pending' = [pending EXCEPT ![p] = Append(pending[p], x)]
          /\ data' = [data EXCEPT ![p][s] = Append(data[p][s], x.psn)]
          /\ sndNxt'[s] \in Nat /\ sndNxt[s] <= sndNxt'[s] /\ x.psn < sndNxt'[s]
          /\ ~Received(s, x.psn) /\ \A q \in Paths : ~Kept(pending[q], x.psn)
          /\ \A i \in DOMAIN retrans'[s] :
                 retrans'[s][i].psn # x.psn /\ \E k \in DOMAIN retrans[s] : retrans'[s][i] = retrans[s][k]
          /\ \A i, k \in DOMAIN retrans'[s] : retrans'[s][i].psn = retrans'[s][k].psn => i = k
  BY <1>1, SentOnce
<1>3. /\ pending \in [Paths -> Seq(PendingPkt)] /\ sndNxt[s] \in Nat
      /\ data \in [Paths -> [Tps -> Seq(Nat)]] /\ acks \in [Paths -> [Tps -> Seq(Ack)]]
      /\ recvNxt[s] \in Nat /\ bits[s] \subseteq Nat
      /\ \A q \in Paths : DOMAIN pending[q] = 1..Len(pending[q]) /\ Len(pending[q]) \in Nat
  BY LenProperties DEF TypeInv, SenderOK, AlpsOK, ReceiverOK, NetworkOK, Ack
<1>4. UNCHANGED <<acks, recvNxt, bits>>
  BY DEF GetNextPacketForAlps, recvVars
<1> DEFINE r == Append(pending[p], x)
           e == Append(data[p][s], x.psn)
<1>5. /\ pending'[p] = r /\ data'[p][s] = e
      /\ \A q \in Paths \ {p} : pending'[q] = pending[q] /\ data'[q][s] = data[q][s]
  BY <1>2, <1>3
<1>6. \A i \in DOMAIN r : \/ i \in DOMAIN pending[p] /\ r[i] = pending[p][i]
                          \/ i = Len(pending[p]) + 1 /\ r[i] = x
  <2>1. pending[p] \in Seq(PendingPkt)
    BY <1>3
  <2> QED
    BY <2>1, AppendElement
<1>7. \A i \in DOMAIN e : (i \in DOMAIN data[p][s] /\ e[i] = data[p][s][i]) \/ e[i] = x.psn
  <2>1. data[p][s] \in Seq(Nat) /\ x.psn \in Nat
    BY <1>3 DEF PendingPkt
  <2> QED
    BY <2>1, AppendElement
<1>8. InOrderOf(r, acks[p][s], e)
  <2>1. /\ pending[p] \in Seq(PendingPkt) /\ acks[p][s] \in Seq(Ack) /\ data[p][s] \in Seq(Nat)
        /\ InOrderOf(pending[p], acks[p][s], data[p][s]) /\ ~Kept(pending[p], x.psn)
    BY <1>2, <1>3 DEF PathsInOrder
  <2> QED
    BY <2>1, OrderSend
<1> HIDE DEF r, e
<1>9. \A q \in Paths : InOrderOf(pending'[q], acks'[q][s], data'[q][s])
  BY <1>4, <1>5, <1>8 DEF PathsInOrder
\* Of every packet, where its copy is in the paths.
<1>10. ASSUME NEW q \in Paths, NEW i \in DOMAIN pending'[q]
       PROVE  \/ i \in DOMAIN pending[q] /\ pending'[q][i] = pending[q][i]
              \/ q = p /\ i = Len(pending[p]) + 1 /\ pending'[q][i] = x
  BY <1>5, <1>6
<1>11. \A q \in Paths : \A i \in DOMAIN pending[q] : pending[q][i].psn # x.psn
  BY <1>2 DEF Kept
<1>12. OneCopy(s)'
  <2>1. ASSUME NEW q \in Paths, NEW u \in Paths, NEW i \in DOMAIN pending'[q], NEW k \in DOMAIN pending'[u],
               pending'[q][i].psn = pending'[u][k].psn
        PROVE  q = u /\ i = k
    <3>1. CASE i \in DOMAIN pending[q] /\ pending'[q][i] = pending[q][i]
      <4>1. k \in DOMAIN pending[u] /\ pending'[u][k] = pending[u][k]
        BY <1>10, <1>11, <2>1, <3>1
      <4> QED
        BY <1>1, <2>1, <3>1, <4>1 DEF OneCopy
    <3>2. CASE q = p /\ i = Len(pending[p]) + 1 /\ pending'[q][i] = x
      BY <1>10, <1>11, <2>1, <3>2
    <3> QED
      BY <1>10, <3>1, <3>2
  <2>2. ASSUME NEW k \in DOMAIN retrans'[s], NEW q \in Paths, NEW i \in DOMAIN pending'[q],
               pending'[q][i].psn = retrans'[s][k].psn
        PROVE  FALSE
    <3>1. PICK j \in DOMAIN retrans[s] : retrans'[s][k] = retrans[s][j]
      BY <1>2
    <3>2. pending'[q][i] = pending[q][i] /\ i \in DOMAIN pending[q]
      BY <1>2, <1>10, <2>2
    <3> QED
      BY <1>1, <2>2, <3>1, <3>2 DEF OneCopy, Kept
  <2> QED
    BY <1>2, <2>1, <2>2 DEF OneCopy, Kept
<1>13. OnlySent(s)'
  <2>1. ASSUME NEW q \in Paths, NEW i \in DOMAIN pending'[q] PROVE pending'[q][i].psn < sndNxt'[s]
    <3>1. CASE i \in DOMAIN pending[q] /\ pending'[q][i] = pending[q][i]
      <4>1. pending[q][i].psn < sndNxt[s] /\ pending[q][i].psn \in Nat
        BY <1>1, <3>1, KeptPsns DEF OnlySent
      <4> QED
        BY <1>2, <1>3, <3>1, <4>1
    <3> QED
      BY <1>2, <1>10, <3>1
  <2>2. ASSUME NEW i \in DOMAIN retrans'[s] PROVE retrans'[s][i].psn < sndNxt'[s]
    <3>1. PICK k \in DOMAIN retrans[s] : retrans'[s][i] = retrans[s][k]
      BY <1>2
    <3>2. retrans[s][k].psn < sndNxt[s] /\ retrans[s][k].psn \in Nat
      BY <1>1, KeptPsns DEF OnlySent
    <3> QED
      BY <1>2, <1>3, <3>1, <3>2
  <2>3. recvNxt'[s] <= sndNxt'[s] /\ \A b \in bits'[s] : recvNxt'[s] + b < sndNxt'[s]
    BY <1>1, <1>2, <1>3, <1>4 DEF OnlySent
  <2> QED
    BY <2>1, <2>2, <2>3 DEF OnlySent
<1>14. \A n : Received(s, n)' = Received(s, n)
  BY <1>4 DEF Received
<1>15. AckOnItsWay(s)'
  <2>1. ASSUME NEW q \in Paths, NEW i \in DOMAIN pending'[q], Received(s, pending'[q][i].psn)
        PROVE  \E k \in DOMAIN acks'[q][s] : acks'[q][s][k].psn = pending'[q][i].psn
    BY <1>1, <1>2, <1>4, <1>10, <2>1 DEF AckOnItsWay
  <2>2. ASSUME NEW q \in Paths, NEW i \in DOMAIN data'[q][s] PROVE ~Received(s, data'[q][s][i])
    BY <1>1, <1>2, <1>5, <1>7 DEF AckOnItsWay
  <2>3. ASSUME NEW i \in DOMAIN retrans'[s] PROVE ~Received(s, retrans'[s][i].psn)
    BY <1>1, <1>2 DEF AckOnItsWay
  <2> QED
    BY <1>14, <2>1, <2>2, <2>3 DEF AckOnItsWay
<1> QED
  BY <1>9, <1>12, <1>13, <1>15 DEF PathsInOrder

LEMMA ReceiveInOrder ==
    ASSUME TypeInv, NEW s \in Tps, OnlySends(s), PathsInOrder(s),
           NEW p \in Paths, RecvDataPacketForAlps(s, p)
    PROVE  PathsInOrder(s)'
<1>1. OneCopy(s) /\ OnlySent(s) /\ AckOnItsWay(s)
  BY DEF PathsInOrder
<1>2. /\ data \in [Paths -> [Tps -> Seq(Nat)]] /\ acks \in [Paths -> [Tps -> Seq(Ack)]]
      /\ pending \in [Paths -> Seq(PendingPkt)]
      /\ data[p][s] \in Seq(Nat) /\ acks[p][s] \in Seq(Ack) /\ pending[p] \in Seq(PendingPkt)
      /\ recvNxt[s] \in Nat /\ bits[s] \subseteq Nat /\ sndNxt[s] \in Nat
  BY DEF TypeInv, SenderOK, AlpsOK, ReceiverOK, NetworkOK, Ack
<1>3. /\ data[p][s] # <<>> /\ data' = [data EXCEPT ![p][s] = Tail(data[p][s])]
      /\ UNCHANGED <<pending, retrans, sndNxt>>
  BY DEF RecvDataPacketForAlps, alpsVars, senderVars
<1> DEFINE d == data[p][s]
           e == Tail(d)
           n == Head(d)
<1>4. /\ n \in Nat /\ e \in Seq(Nat) /\ 1 \in DOMAIN d /\ n = d[1]
      /\ \A j \in DOMAIN e : j + 1 \in DOMAIN d /\ e[j] = d[j + 1]
  BY <1>2, <1>3, HeadTailSeq
<1>5. DOMAIN e \subseteq Nat \ {0} /\ DOMAIN d \subseteq Nat
  BY <1>2, <1>4, LenProperties
<1>6. ~Received(s, n)
  BY <1>1, <1>4 DEF AckOnItsWay
<1>7. /\ \A k \in Nat : Received(s, k)' => Received(s, k) \/ k = n
      /\ \/ acks' = acks
         \/ \E y \in Ack : y.psn = n /\ acks' = [acks EXCEPT ![p][s] = Append(acks[p][s], y)]
      /\ acks' = acks => UNCHANGED recvVars
  BY <1>4, <1>6, ReceiveAdds
<1>8. InOrderOf(pending[p], acks[p][s], d)
  BY DEF PathsInOrder
<1>9. Kept(pending[p], n) /\ n < sndNxt[s]
  <2>1. Kept(pending[p], n)
    BY <1>4, <1>8 DEF InOrderOf
  <2> QED
    BY <1>1, <2>1 DEF OnlySent, Kept
<1>10. data'[p][s] = e /\ \A q \in Paths \ {p} : data'[q][s] = data[q][s]
  BY <1>2, <1>3
\* The packet is acknowledged, or dropped.
<1>11. \/ \E y \in Ack : y.psn = n /\ acks'[p][s] = Append(acks[p][s], y)
       \/ acks'[p][s] = acks[p][s] /\ UNCHANGED recvVars
  BY <1>2, <1>7
<1>12. \A q \in Paths \ {p} : acks'[q][s] = acks[q][s]
  BY <1>2, <1>7
<1> HIDE DEF e, n
<1>13. InOrderOf(pending'[p], acks'[p][s], data'[p][s])
  <2>1. ASSUME NEW y \in Ack, y.psn = n, acks'[p][s] = Append(acks[p][s], y)
        PROVE  InOrderOf(pending[p], acks'[p][s], e)
    <3> DEFINE q == pending[p]
               a == acks[p][s]
    <3>1. a \in Seq(Ack) /\ d \in Seq(Nat) /\ d # <<>> /\ InOrderOf(q, a, d) /\ y.psn = Head(d)
      BY <1>2, <1>3, <1>8, <2>1 DEF n
    <3> HIDE DEF q, a, d
    <3>2. InOrderOf(q, Append(a, y), Tail(d))
      BY <2>1, <3>1, OrderReceive
    <3> QED
      BY <2>1, <3>2 DEF q, a, e
  <2>2. ASSUME acks'[p][s] = acks[p][s] PROVE InOrderOf(pending[p], acks'[p][s], e)
    <3> DEFINE f == [j \in DOMAIN e |-> j + 1]
    <3>1. \A j \in DOMAIN e : f[j] \in DOMAIN d /\ e[j] = d[f[j]]
      BY <1>4
    <3>2. \A j, k \in DOMAIN e : j < k => f[j] < f[k]
      BY <1>5
    <3> HIDE DEF f
    <3> QED
      BY <1>8, <2>2, <3>1, <3>2, OrderLose
  <2>3. pending'[p] = pending[p] /\ data'[p][s] = e
    BY <1>3, <1>10
  <2>4. InOrderOf(pending[p], acks'[p][s], e)
    BY <1>11, <2>1, <2>2
  <2> QED
    BY <2>3, <2>4
<1>14. \A q \in Paths : InOrderOf(pending'[q], acks'[q][s], data'[q][s])
  BY <1>3, <1>10, <1>12, <1>13 DEF PathsInOrder
<1>15. OneCopy(s)'
  BY <1>1, <1>3 DEF OneCopy
<1>16. OnlySent(s)'
  <2>1. \A k \in Nat : Received(s, k) => k < sndNxt[s]
    <3>1. recvNxt[s] <= sndNxt[s] /\ \A b \in bits[s] : recvNxt[s] + b < sndNxt[s]
      BY <1>1 DEF OnlySent
    <3>2. \A k \in Nat : k < recvNxt[s] \/ k - recvNxt[s] \in bits[s] => k < sndNxt[s]
      BY <1>2, <3>1, AllBelow
    <3> QED
      BY <3>2 DEF Received
  <2>2. \A k \in Nat : Received(s, k)' => k < sndNxt'[s]
    BY <1>3, <1>7, <1>9, <2>1
  <2>3. recvNxt'[s] \in Nat /\ bits'[s] \subseteq Nat /\ sndNxt'[s] \in Nat
    <3>1. ReceiverOK'
      BY ReceiveEffect
    <3> QED
      BY <1>2, <1>3, <3>1, ConstantsAssumption DEF ReceiverOK
  <2>4. recvNxt'[s] <= sndNxt'[s] /\ \A b \in bits'[s] : recvNxt'[s] + b < sndNxt'[s]
    <3> DEFINE r == recvNxt'[s]
               b == bits'[s]
               m == sndNxt'[s]
    <3>1. \A k \in Nat : k < r \/ k - r \in b => k < m
      BY <2>2 DEF Received
    <3>2. r \in Nat /\ b \subseteq Nat /\ m \in Nat
      BY <2>3
    <3> HIDE DEF r, b, m
    <3>3. r <= m /\ \A i \in b : r + i < m
      BY <3>1, <3>2, AllBelow
    <3> QED
      BY <3>3 DEF r, b, m
  <2> QED
    BY <1>1, <1>3, <2>4 DEF OnlySent
<1>17. AckOnItsWay(s)'
  <2> DEFINE Now(m) == m < recvNxt'[s] \/ m - recvNxt'[s] \in bits'[s]
  <2>0. \A m \in Nat : Now(m) => Received(s, m) \/ m = n
    BY <1>7 DEF Received
  <2>1. ASSUME NEW q \in Paths, NEW i \in DOMAIN pending[q], NEW m \in Nat, m = pending[q][i].psn, Now(m)
        PROVE  \E k \in DOMAIN acks'[q][s] : acks'[q][s][k].psn = m
    <3>1. \A k \in DOMAIN acks[q][s] : k \in DOMAIN acks'[q][s] /\ acks'[q][s][k] = acks[q][s][k]
      <4>1. ASSUME NEW y \in Ack, acks'[p][s] = Append(acks[p][s], y)
            PROVE  \A k \in DOMAIN acks[p][s] : k \in DOMAIN acks'[p][s] /\ acks'[p][s][k] = acks[p][s][k]
        BY <1>2, <4>1, AppendElement
      <4> QED
        BY <1>11, <1>12, <4>1
    <3>2. CASE Received(s, m)
      <4>1. PICK k \in DOMAIN acks[q][s] : acks[q][s][k].psn = m
        BY <1>1, <2>1, <3>2 DEF AckOnItsWay
      <4> QED
        BY <3>1, <4>1
    <3>3. CASE ~Received(s, m)
      <4>1. m = n
        BY <2>0, <2>1, <3>3
      <4>2. q = p
        BY <1>1, <1>9, <2>1, <4>1 DEF OneCopy, Kept
      <4>3. ~UNCHANGED recvVars
        BY <2>1, <3>3 DEF Received, recvVars
      <4>4. PICK y \in Ack : y.psn = n /\ acks'[p][s] = Append(acks[p][s], y)
        BY <1>11, <4>3
      <4>5. /\ Len(acks[p][s]) + 1 \in DOMAIN acks'[p][s]
            /\ acks'[p][s][Len(acks[p][s]) + 1] = y
        BY <1>2, <4>4, AppendElement
      <4> QED
        BY <4>1, <4>2, <4>4, <4>5
    <3> QED
      BY <3>2, <3>3
  <2>2. ASSUME NEW q \in Paths, NEW i \in DOMAIN data'[q][s], NEW m \in Nat, m = data'[q][s][i]
        PROVE  ~Now(m)
    <3>1. PICK k \in DOMAIN data[q][s] : m = data[q][s][k] /\ (q = p => k = i + 1 /\ i \in Nat \ {0})
      BY <1>4, <1>5, <1>10, <2>2
    <3>2. ~Received(s, m)
      BY <1>1, <3>1 DEF AckOnItsWay
    <3>3. m # n
      <4>1. Kept(pending[q], m)
        BY <3>1 DEF PathsInOrder, InOrderOf
      <4>2. CASE q # p
        BY <1>1, <1>9, <4>1, <4>2 DEF OneCopy, Kept
      <4>3. CASE q = p
        <5>1. k \in DOMAIN d /\ 1 < k
          BY <3>1, <4>3
        <5>2. Before(pending[p], n, d[k])
          BY <1>4, <1>8, <5>1 DEF InOrderOf
        <5>3. \A j \in DOMAIN pending[p] : ~(j < j)
          BY <1>2, LenProperties
        <5>4. d[k] # n
          BY <1>9, <5>2, <5>3 DEF Before, Kept
        <5> QED
          BY <3>1, <4>3, <5>4
      <4> QED
        BY <4>2, <4>3
    <3> QED
      BY <2>0, <3>2, <3>3
  <2>3. ASSUME NEW i \in DOMAIN retrans[s], NEW m \in Nat, m = retrans[s][i].psn
        PROVE  ~Now(m)
    <3>1. ~Received(s, m)
      BY <1>1, <2>3 DEF AckOnItsWay
    <3>2. m # n
      BY <1>1, <1>9, <2>3 DEF OneCopy
    <3> QED
      BY <2>0, <3>1, <3>2
  <2>4. /\ \A q \in Paths : \A i \in DOMAIN pending[q] : pending[q][i].psn \in Nat
        /\ \A i \in DOMAIN retrans[s] : retrans[s][i].psn \in Nat
        /\ \A q \in Paths : \A i \in DOMAIN data'[q][s] : data'[q][s][i] \in Nat
    BY <1>4, <1>10, KeptPsns
  <2> HIDE DEF Now
  <2>6. \A q \in Paths : \A i \in DOMAIN pending[q] :
            Now(pending[q][i].psn) => \E k \in DOMAIN acks'[q][s] : acks'[q][s][k].psn = pending[q][i].psn
    BY <2>1, <2>4
  <2>7. \A q \in Paths : \A i \in DOMAIN data'[q][s] : ~Now(data'[q][s][i])
    BY <2>2, <2>4
  <2>8. \A i \in DOMAIN retrans[s] : ~Now(retrans[s][i].psn)
    BY <2>3, <2>4
  <2>9. pending' = pending /\ retrans' = retrans
    BY <1>3
  <2>10. \A q \in Paths : \A i \in DOMAIN pending'[q] :
             Now(pending'[q][i].psn) => \E k \in DOMAIN acks'[q][s] : acks'[q][s][k].psn = pending'[q][i].psn
    BY <2>6, <2>9
  <2>11. \A i \in DOMAIN retrans'[s] : ~Now(retrans'[s][i].psn)
    BY <2>8, <2>9
  <2>12. \A q \in Paths : \A i \in DOMAIN pending'[q] :
             Received(s, pending[q][i].psn)' =>
                 \E k \in DOMAIN acks'[q][s] : acks'[q][s][k].psn = pending'[q][i].psn
    BY <2>10 DEF Received, Now
  <2>13. \A q \in Paths : \A i \in DOMAIN data'[q][s] : ~Received(s, data[q][s][i])'
    BY <2>7 DEF Received, Now
  <2>14. \A i \in DOMAIN retrans'[s] : ~Received(s, retrans[s][i].psn)'
    BY <2>11 DEF Received, Now
  <2> QED
    BY <2>12, <2>13, <2>14 DEF AckOnItsWay
<1> QED
  BY <1>14, <1>15, <1>16, <1>17 DEF PathsInOrder

\* Of a path, the packets after the first k stay, and some of the first k, in their
\* order, are filed.
TakenOut(s, p, k, filed, rest) ==
    /\ k \in Nat /\ filed \in Seq(PendingPkt)
    /\ pending' = [pending EXCEPT ![p] = rest]
    /\ retrans' = [retrans EXCEPT ![s] = retrans[s] \o filed]
    /\ \A i \in DOMAIN filed : i \in DOMAIN pending[p] /\ i <= k /\ filed[i] = pending[p][i]
    /\ \A i \in DOMAIN rest : i \in Nat \ {0} /\ k + i \in DOMAIN pending[p] /\ rest[i] = pending[p][k + i]
    /\ UNCHANGED <<sndNxt, recvNxt, bits>>

LEMMA FilingKeepsCopies ==
    ASSUME TypeInv, NEW s \in Tps, OneCopy(s), OnlySent(s), NEW p \in Paths, NEW k, NEW filed, NEW rest,
           TakenOut(s, p, k, filed, rest)
    PROVE  OneCopy(s)' /\ OnlySent(s)'
<1>0. /\ k \in Nat /\ filed \in Seq(PendingPkt)
      /\ pending' = [pending EXCEPT ![p] = rest]
      /\ retrans' = [retrans EXCEPT ![s] = retrans[s] \o filed]
      /\ \A i \in DOMAIN filed : i \in DOMAIN pending[p] /\ i <= k /\ filed[i] = pending[p][i]
      /\ \A i \in DOMAIN rest : i \in Nat \ {0} /\ k + i \in DOMAIN pending[p] /\ rest[i] = pending[p][k + i]
      /\ UNCHANGED <<sndNxt, recvNxt, bits>>
  BY DEF TakenOut
<1>1. /\ pending \in [Paths -> Seq(PendingPkt)] /\ retrans \in [Tps -> Seq(PendingPkt)]
      /\ retrans[s] \in Seq(PendingPkt)
  BY DEF TypeInv, AlpsOK
<1> DEFINE r == retrans[s]
           q == pending[p]
           c == r \o filed
<1>2. retrans'[s] = c /\ pending'[p] = rest /\ \A u \in Paths \ {p} : pending'[u] = pending[u]
  BY <1>0, <1>1
<1>3. \A j \in DOMAIN c : \/ j \in DOMAIN r /\ c[j] = r[j]
                          \/ \E i \in DOMAIN filed : j = i + Len(r) /\ c[j] = filed[i]
  <2>1. r \in Seq(PendingPkt) /\ filed \in Seq(PendingPkt) /\ c = r \o filed
    BY <1>0, <1>1
  <2> HIDE DEF r, c
  <2> QED
    BY <2>1, ConcatParts
<1>4. DOMAIN q \subseteq Nat /\ DOMAIN r \subseteq Nat /\ Len(r) \in Nat
  BY <1>1, LenProperties
<1> HIDE DEF c
\* Where the copies were.
<1>5. ASSUME NEW j \in DOMAIN retrans'[s]
      PROVE  \/ j \in DOMAIN r /\ retrans'[s][j] = r[j]
             \/ \E i \in DOMAIN q : i <= k /\ j = i + Len(r) /\ retrans'[s][j] = q[i]
  <2>1. retrans'[s] = c
    BY <1>2
  <2>2. \A i \in DOMAIN filed : i \in DOMAIN q /\ i <= k /\ filed[i] = q[i]
    BY <1>0
  <2> HIDE DEF r, q
  <2>3. CASE j \in DOMAIN r /\ c[j] = r[j]
    BY <2>1, <2>3
  <2>4. ASSUME NEW i \in DOMAIN filed, j = i + Len(r), c[j] = filed[i]
        PROVE  \E n \in DOMAIN q : n <= k /\ j = n + Len(r) /\ retrans'[s][j] = q[n]
    BY <2>1, <2>2, <2>4
  <2> QED
    BY <1>3, <2>1, <2>3, <2>4
<1>6. ASSUME NEW u \in Paths, NEW j \in DOMAIN pending'[u]
      PROVE  \/ u # p /\ j \in DOMAIN pending[u] /\ pending'[u][j] = pending[u][j]
             \/ u = p /\ j \in Nat \ {0} /\ k + j \in DOMAIN q /\ pending'[u][j] = q[k + j]
  BY <1>0, <1>2
<1> HIDE DEF r, q
<1>7. ASSUME NEW u \in Paths, NEW v \in Paths, NEW i \in DOMAIN pending'[u], NEW j \in DOMAIN pending'[v],
             pending'[u][i].psn = pending'[v][j].psn
      PROVE  u = v /\ i = j
  <2>1. PICK a \in DOMAIN pending[u] : pending'[u][i] = pending[u][a] /\ (u # p => a = i)
                                       /\ (u = p => a = k + i /\ i \in Nat)
    BY <1>6 DEF q
  <2>2. PICK b \in DOMAIN pending[v] : pending'[v][j] = pending[v][b] /\ (v # p => b = j)
                                       /\ (v = p => b = k + j /\ j \in Nat)
    BY <1>6 DEF q
  <2>3. u = v /\ a = b
    BY <1>7, <2>1, <2>2 DEF OneCopy
  <2> QED
    BY <1>0, <2>1, <2>2, <2>3
<1>8. ASSUME NEW i \in DOMAIN retrans'[s], NEW j \in DOMAIN retrans'[s],
             retrans'[s][i].psn = retrans'[s][j].psn
      PROVE  i = j
  <2>1. CASE i \in DOMAIN r /\ retrans'[s][i] = r[i]
    <3>1. CASE j \in DOMAIN r /\ retrans'[s][j] = r[j]
      BY <1>8, <2>1, <3>1 DEF OneCopy, r
    <3>2. ASSUME NEW b \in DOMAIN q, retrans'[s][j] = q[b] PROVE FALSE
      BY <1>8, <2>1, <3>2 DEF OneCopy, Kept, r, q
    <3> QED
      BY <1>5, <3>1, <3>2
  <2>2. ASSUME NEW a \in DOMAIN q, i = a + Len(r), retrans'[s][i] = q[a] PROVE i = j
    <3>1. CASE j \in DOMAIN r /\ retrans'[s][j] = r[j]
      BY <1>8, <2>2, <3>1 DEF OneCopy, Kept, r, q
    <3>2. ASSUME NEW b \in DOMAIN q, j = b + Len(r), retrans'[s][j] = q[b] PROVE i = j
      <4>1. q[a].psn = q[b].psn
        BY <1>8, <2>2, <3>2
      <4>2. a = b
        BY <4>1 DEF OneCopy, q
      <4> QED
        BY <2>2, <3>2, <4>2
    <3> QED
      BY <1>5, <3>1, <3>2
  <2> QED
    BY <1>5, <2>1, <2>2
<1>9. ASSUME NEW i \in DOMAIN retrans'[s], NEW u \in Paths, NEW j \in DOMAIN pending'[u],
             pending'[u][j].psn = retrans'[s][i].psn
      PROVE  FALSE
  <2>1. PICK b \in DOMAIN pending[u] : pending'[u][j] = pending[u][b] /\ (u = p => b = k + j /\ j \in Nat \ {0})
    BY <1>6 DEF q
  <2>2. CASE i \in DOMAIN r /\ retrans'[s][i] = r[i]
    BY <1>9, <2>1, <2>2 DEF OneCopy, Kept, r
  <2>3. ASSUME NEW a \in DOMAIN q, a <= k, retrans'[s][i] = q[a] PROVE FALSE
    <3>1. u = p /\ a = b
      BY <1>9, <2>1, <2>3 DEF OneCopy, q
    <3> QED
      BY <1>0, <1>4, <2>1, <2>3, <3>1
  <2> QED
    BY <1>5, <2>2, <2>3
<1>10. ASSUME NEW u \in Paths, NEW i \in DOMAIN pending'[u] PROVE pending'[u][i].psn < sndNxt'[s]
  <2>1. PICK a \in DOMAIN pending[u] : pending'[u][i] = pending[u][a]
    BY <1>6 DEF q
  <2> QED
    BY <1>0, <2>1 DEF OnlySent
<1>11. ASSUME NEW i \in DOMAIN retrans'[s] PROVE retrans'[s][i].psn < sndNxt'[s]
  BY <1>0, <1>5 DEF OnlySent, r, q
<1> QED
  BY <1>0, <1>7, <1>8, <1>9, <1>10, <1>11 DEF OneCopy, OnlySent, Kept

\* The first ack of a path: what is taken out before the packet it names is lost.
LEMMA AckInOrder ==
    ASSUME TypeInv, NEW s \in Tps, OnlySends(s), PathsInOrder(s), exists[s],
           NEW p \in Paths, RecvTpAckForAlps(s, p)
    PROVE  PathsInOrder(s)'
<1>1. OneCopy(s) /\ OnlySent(s) /\ AckOnItsWay(s)
  BY DEF PathsInOrder
<1> DEFINE q == pending[p]
           a == acks[p][s]
           psn == Head(a).psn
           k == Popped(p, s, psn)
           filed == SubSeq(q, 1, k - 1)
           rest == SubSeq(q, k + 1, Len(q))
<1>2. /\ pending \in [Paths -> Seq(PendingPkt)] /\ retrans \in [Tps -> Seq(PendingPkt)]
      /\ acks \in [Paths -> [Tps -> Seq(Ack)]] /\ q \in Seq(PendingPkt) /\ a \in Seq(Ack)
  BY DEF TypeInv, AlpsOK, NetworkOK, Ack
<1>3. /\ a # <<>> /\ acks' = [acks EXCEPT ![p][s] = Tail(a)]
      /\ HandleAlpsAckByPsn(p, s, psn) /\ UNCHANGED <<sndNxt, recvNxt, bits, data>>
  BY DEF RecvTpAckForAlps, recvVars
<1>4. /\ 1 \in DOMAIN a /\ Head(a) = a[1]
      /\ \A j \in DOMAIN Tail(a) : j + 1 \in DOMAIN a /\ Tail(a)[j] = a[j + 1]
  BY <1>2, <1>3, HeadTailSeq
<1>5. InOrderOf(q, a, data[p][s])
  BY DEF PathsInOrder
<1>6. Matched(p, s, psn)
  <2>1. PICK i \in DOMAIN q : q[i].psn = psn
    BY <1>4, <1>5 DEF InOrderOf, Kept
  <2> QED
    BY <2>1 DEF Matched, OnlySends
<1>7. k \in 1..Len(q) /\ q[k].psn = psn
  BY <1>6, PoppedValue DEF TypeInv
<1>8. pending' = [pending EXCEPT ![p] = rest] /\ retrans' = [retrans EXCEPT ![s] = retrans[s] \o filed]
  BY <1>3, <1>6 DEF HandleAlpsAckByPsn
<1>9. Len(q) \in Nat /\ DOMAIN q = 1..Len(q) /\ DOMAIN a = 1..Len(a) /\ Len(a) \in Nat
  BY <1>2, LenProperties
<1> HIDE DEF k, psn
<1>10. /\ filed \in Seq(PendingPkt)
       /\ \A i \in DOMAIN filed : i \in DOMAIN q /\ i < k /\ filed[i] = q[i]
  <2>1. k - 1 \in 0..Len(q)
    BY <1>7, <1>9
  <2>2. filed \in Seq(PendingPkt) /\ Len(filed) = k - 1 /\ \A i \in 1..(k - 1) : filed[i] = q[i]
    BY <1>2, <2>1, SplitSeq
  <2> HIDE DEF filed
  <2>3. DOMAIN filed = 1..(k - 1)
    BY <2>2, LenProperties
  <2> QED
    BY <1>7, <1>9, <2>2, <2>3
<1>11. \A i \in DOMAIN rest : i \in Nat \ {0} /\ k + i \in DOMAIN q /\ rest[i] = q[k + i]
  <2>1. k \in 0..Len(q)
    BY <1>7
  <2>2. rest \in Seq(PendingPkt) /\ Len(rest) = Len(q) - k /\ \A i \in 1..(Len(q) - k) : rest[i] = q[k + i]
    BY <1>2, <2>1, SplitSeq
  <2> HIDE DEF rest
  <2>3. DOMAIN rest = 1..(Len(q) - k)
    BY <2>2, LenProperties
  <2> QED
    BY <1>7, <1>9, <2>2, <2>3
<1> HIDE DEF filed
<1>12. OneCopy(s)' /\ OnlySent(s)'
  <2> HIDE DEF rest
  <2>1. k \in Nat
    BY <1>7
  <2>2. \A i \in DOMAIN filed : i \in DOMAIN pending[p] /\ i <= k /\ filed[i] = pending[p][i]
    BY <1>7, <1>9, <1>10
  <2>3. TakenOut(s, p, k, filed, rest)
    BY <1>3, <1>8, <1>10, <1>11, <2>1, <2>2 DEF TakenOut
  <2> QED
    BY <1>1, <2>3, FilingKeepsCopies
<1>13. /\ pending'[p] = rest /\ acks'[p][s] = Tail(a) /\ data' = data
       /\ \A u \in Paths \ {p} : pending'[u] = pending[u] /\ acks'[u][s] = acks[u][s]
  BY <1>2, <1>3, <1>8
<1>14. \A u \in Paths : InOrderOf(pending'[u], acks'[u][s], data'[u][s])
  <2>1. InOrderOf(rest, Tail(a), data[p][s])
    <3>1. k \in DOMAIN q /\ q[k].psn = Head(a).psn
      BY <1>7, <1>9 DEF psn
    <3> HIDE DEF q, a
    <3> QED
      BY <1>2, <1>3, <1>5, <3>1, OrderAck DEF q, a
  <2> QED
    BY <1>13, <2>1 DEF PathsInOrder
<1> HIDE DEF rest
<1>15. \A n : Received(s, n)' = Received(s, n)
  BY <1>3 DEF Received
\* A packet before the one that is named has no ack on its way, hence is lost.
<1>16. ASSUME NEW i \in DOMAIN q, i < k PROVE ~Received(s, q[i].psn)
  <2> SUFFICES ASSUME NEW j \in DOMAIN a, a[j].psn = q[i].psn PROVE FALSE
    BY <1>1 DEF AckOnItsWay
  <2>1. CASE j = 1
    <3>1. q[i].psn = q[k].psn /\ k \in DOMAIN q
      BY <1>4, <1>7, <1>9, <2>1 DEF psn
    <3>2. i = k
      BY <1>1, <3>1 DEF OneCopy
    <3> QED
      BY <1>7, <1>9, <1>16, <3>2
  <2>2. CASE j # 1
    <3>1. 1 < j
      BY <1>9, <2>2
    <3>2. Before(q, a[1].psn, a[j].psn)
      BY <1>4, <1>5, <3>1 DEF InOrderOf
    <3>3. k < i
      BY <1>4, <1>7, <1>9, <3>2 DEF Before, psn
    <3> QED
      BY <1>7, <1>9, <1>16, <3>3
  <2> QED
    BY <2>1, <2>2
<1>17. AckOnItsWay(s)'
  <2>1. ASSUME NEW u \in Paths, NEW i \in DOMAIN pending'[u], Received(s, pending'[u][i].psn)
        PROVE  \E j \in DOMAIN acks'[u][s] : acks'[u][s][j].psn = pending'[u][i].psn
    <3>1. CASE u # p
      BY <1>1, <1>13, <2>1, <3>1 DEF AckOnItsWay
    <3>2. CASE u = p
      <4>1. i \in Nat \ {0} /\ k + i \in DOMAIN q /\ pending'[u][i] = q[k + i]
        BY <1>11, <1>13, <3>2
      <4>2. PICK j \in DOMAIN a : a[j].psn = q[k + i].psn
        BY <1>1, <2>1, <4>1 DEF AckOnItsWay
      <4>3. j # 1
        <5> SUFFICES ASSUME j = 1 PROVE FALSE
          OBVIOUS
        <5>1. q[k + i].psn = q[k].psn /\ k \in DOMAIN q
          BY <1>4, <1>7, <1>9, <4>2 DEF psn
        <5>2. k + i = k
          BY <1>1, <4>1, <5>1 DEF OneCopy
        <5> QED
          BY <1>7, <4>1, <5>2
      <4>4. j - 1 \in DOMAIN Tail(a) /\ Tail(a)[j - 1] = a[j]
        <5>1. /\ Tail(a) \in Seq(Ack) /\ Len(Tail(a)) = Len(a) - 1
              /\ \A m \in 1..Len(Tail(a)) : Tail(a)[m] = a[m + 1]
          BY <1>2, <1>3, HeadTailProperties
        <5>2. DOMAIN Tail(a) = 1..(Len(a) - 1)
          BY <5>1, LenProperties
        <5>3. j - 1 \in 1..(Len(a) - 1) /\ (j - 1) + 1 = j
          BY <1>9, <4>3
        <5> QED
          BY <5>1, <5>2, <5>3
      <4>5. PICK m \in DOMAIN Tail(a) : Tail(a)[m].psn = pending'[p][i].psn
        BY <3>2, <4>1, <4>2, <4>4
      <4> QED
        BY <1>13, <3>2, <4>5
    <3> QED
      BY <3>1, <3>2
  <2>2. ASSUME NEW u \in Paths, NEW i \in DOMAIN data'[u][s] PROVE ~Received(s, data'[u][s][i])
    BY <1>1, <1>13 DEF AckOnItsWay
  <2>3. ASSUME NEW i \in DOMAIN retrans'[s] PROVE ~Received(s, retrans'[s][i].psn)
    <3>1. retrans[s] \in Seq(PendingPkt) /\ retrans'[s] = retrans[s] \o filed
      BY <1>2, <1>8
    <3>2. \/ \E j \in DOMAIN retrans[s] : retrans'[s][i] = retrans[s][j]
          \/ \E j \in DOMAIN filed : retrans'[s][i] = filed[j]
      <4>1. i \in DOMAIN (retrans[s] \o filed)
        BY <3>1
      <4>2. \/ \E j \in DOMAIN retrans[s] : (retrans[s] \o filed)[i] = retrans[s][j]
            \/ \E j \in DOMAIN filed : (retrans[s] \o filed)[i] = filed[j]
        BY <1>10, <3>1, <4>1, ConcatFrom
      <4> QED
        BY <3>1, <4>2
    <3> QED
      BY <1>1, <1>10, <1>16, <3>2 DEF AckOnItsWay
  <2> QED
    BY <1>15, <2>1, <2>2, <2>3 DEF AckOnItsWay
<1> QED
  BY <1>12, <1>14, <1>17 DEF PathsInOrder

\* A timeout that finds nothing of the path on its way: all that waits is lost.
LEMMA TimeoutInOrder ==
    ASSUME TypeInv, NEW s \in Tps, OnlySends(s), PathsInOrder(s), NEW p \in Paths, Timeout(p)
    PROVE  PathsInOrder(s)'
<1>1. OneCopy(s) /\ OnlySent(s) /\ AckOnItsWay(s)
  BY DEF PathsInOrder
<1>2. /\ pending \in [Paths -> Seq(PendingPkt)] /\ retrans \in [Tps -> Seq(PendingPkt)]
      /\ pending[p] \in Seq(PendingPkt) /\ retrans[s] \in Seq(PendingPkt)
  BY DEF TypeInv, AlpsOK
<1>3. /\ rto[p] = s /\ data[p][s] = <<>> /\ acks[p][s] = <<>>
      /\ pending' = [pending EXCEPT ![p] = <<>>]
      /\ retrans' = [retrans EXCEPT ![s] = retrans[s] \o pending[p]]
      /\ UNCHANGED <<sndNxt, recvNxt, bits, data, acks>>
  BY ConstantsAssumption DEF Timeout, Quiet, HandleTimeoutForLapsbypid, OnlySends, senderVars, recvVars
<1>4. DOMAIN <<>> = {}
  OBVIOUS
<1>5. OneCopy(s)' /\ OnlySent(s)'
  <2> DEFINE k == Len(pending[p])
             filed == pending[p]
             rest == <<>>
  <2>1. \A i \in DOMAIN filed : i \in DOMAIN pending[p] /\ i <= k /\ filed[i] = pending[p][i]
    BY <1>2, LenProperties
  <2>2. \A i \in DOMAIN rest : i \in Nat \ {0} /\ k + i \in DOMAIN pending[p] /\ rest[i] = pending[p][k + i]
    BY <1>4
  <2>3. /\ filed \in Seq(PendingPkt) /\ pending' = [pending EXCEPT ![p] = rest]
        /\ retrans' = [retrans EXCEPT ![s] = retrans[s] \o filed]
    BY <1>2, <1>3
  <2>4. UNCHANGED <<sndNxt, recvNxt, bits>> /\ k \in Nat
    BY <1>2, <1>3, LenProperties
  <2> HIDE DEF k, filed, rest
  <2>5. TakenOut(s, p, k, filed, rest)
    BY <2>1, <2>2, <2>3, <2>4 DEF TakenOut
  <2> QED
    BY <1>1, <2>5, FilingKeepsCopies
<1>6. pending'[p] = <<>> /\ \A u \in Paths \ {p} : pending'[u] = pending[u]
  BY <1>2, <1>3
<1>7. \A u \in Paths : InOrderOf(pending'[u], acks'[u][s], data'[u][s])
  <2>1. InOrderOf(<<>>, <<>>, <<>>)
    BY OrderNone
  <2> QED
    BY <1>3, <1>6, <2>1 DEF PathsInOrder
<1>8. \A n : Received(s, n)' = Received(s, n)
  BY <1>3 DEF Received
<1>9. AckOnItsWay(s)'
  <2>1. ASSUME NEW u \in Paths, NEW i \in DOMAIN pending'[u], Received(s, pending'[u][i].psn)
        PROVE  \E j \in DOMAIN acks'[u][s] : acks'[u][s][j].psn = pending'[u][i].psn
    BY <1>1, <1>3, <1>4, <1>6, <2>1 DEF AckOnItsWay
  <2>2. ASSUME NEW u \in Paths, NEW i \in DOMAIN data'[u][s] PROVE ~Received(s, data'[u][s][i])
    BY <1>1, <1>3 DEF AckOnItsWay
  <2>3. ASSUME NEW i \in DOMAIN retrans'[s] PROVE ~Received(s, retrans'[s][i].psn)
    <3>1. retrans'[s] = retrans[s] \o pending[p]
      BY <1>2, <1>3
    <3>2. \/ \E j \in DOMAIN retrans[s] : retrans'[s][i] = retrans[s][j]
          \/ \E j \in DOMAIN pending[p] : retrans'[s][i] = pending[p][j]
      <4>1. i \in DOMAIN (retrans[s] \o pending[p])
        BY <3>1
      <4>2. \/ \E j \in DOMAIN retrans[s] : (retrans[s] \o pending[p])[i] = retrans[s][j]
            \/ \E j \in DOMAIN pending[p] : (retrans[s] \o pending[p])[i] = pending[p][j]
        BY <1>2, <4>1, ConcatFrom
      <4> QED
        BY <3>1, <4>2
    <3>3. \A j \in DOMAIN pending[p] : ~Received(s, pending[p][j].psn)
      BY <1>1, <1>3, <1>4 DEF AckOnItsWay
    <3> QED
      BY <1>1, <3>2, <3>3 DEF AckOnItsWay
  <2> QED
    BY <1>8, <2>1, <2>2, <2>3 DEF AckOnItsWay
<1> QED
  BY <1>5, <1>7, <1>9 DEF PathsInOrder

\* A switch drops a packet.
LEMMA LossInOrder ==
    ASSUME TypeInv, NEW s \in Tps, PathsInOrder(s), NEW p \in Paths,
           NEW i \in DOMAIN data[p][s], LoseData(s, p, i)
    PROVE  PathsInOrder(s)'
<1> DEFINE d == data[p][s]
           e == RemoveAt(d, i)
<1>1. /\ data' = [data EXCEPT ![p][s] = e]
      /\ UNCHANGED <<pending, retrans, sndNxt, recvNxt, bits, acks>>
  BY DEF LoseData, senderVars, alpsVars, recvVars
<1>2. data \in [Paths -> [Tps -> Seq(Nat)]] /\ d \in Seq(Nat)
  BY DEF TypeInv, NetworkOK
<1> DEFINE f == [j \in DOMAIN e |-> IF j < i THEN j ELSE j + 1]
<1>3. /\ e \in Seq(Nat)
      /\ \A j \in DOMAIN e : /\ IF j < i THEN j \in DOMAIN d ELSE j + 1 \in DOMAIN d
                             /\ e[j] = IF j < i THEN d[j] ELSE d[j + 1]
  BY <1>2, RemoveAtSeq
<1>4. i \in Nat /\ DOMAIN e \subseteq Nat
  BY <1>2, <1>3, LenProperties
<1> HIDE DEF e
<1>5. \A j \in DOMAIN e : f[j] \in DOMAIN d /\ e[j] = d[f[j]]
  BY <1>3
<1>6. \A j, k \in DOMAIN e : j < k => f[j] < f[k]
  BY <1>4
<1>7. data'[p][s] = e /\ \A u \in Paths \ {p} : data'[u][s] = data[u][s]
  BY <1>1, <1>2
<1>8. InOrderOf(pending[p], acks[p][s], e)
  <2>1. InOrderOf(pending[p], acks[p][s], d)
    BY DEF PathsInOrder
  <2> HIDE DEF d, f
  <2> QED
    BY <1>5, <1>6, <2>1, OrderLose
<1>9. \A u \in Paths : InOrderOf(pending'[u], acks'[u][s], data'[u][s])
  BY <1>1, <1>7, <1>8 DEF PathsInOrder
<1>10. OneCopy(s)' /\ OnlySent(s)'
  BY <1>1 DEF PathsInOrder, OneCopy, OnlySent
<1>11. \A n : Received(s, n)' = Received(s, n)
  BY <1>1 DEF Received
<1>12. AckOnItsWay(s)'
  <2>1. \A u \in Paths : \A j \in DOMAIN data'[u][s] : \E k \in DOMAIN data[u][s] : data'[u][s][j] = data[u][s][k]
    BY <1>5, <1>7
  <2> QED
    BY <1>1, <1>11, <2>1 DEF PathsInOrder, AckOnItsWay
<1> QED
  BY <1>9, <1>10, <1>12 DEF PathsInOrder

\* A step while s exists, no ack has been lost and no timeout has been early.
LEMMA OrderStep ==
    ASSUME TypeInv, NEW s \in Tps, OnlySends(s), [Next]_vars,
           exists[s] /\ lostAcks = 0 /\ early = 0 => PathsInOrder(s),
           exists'[s], lostAcks' = 0, early' = 0
    PROVE  PathsInOrder(s)'
<1>1. exists \in [Tps -> BOOLEAN] /\ lostAcks \in Nat /\ early \in Nat
  BY DEF TypeInv, SenderOK, NetworkOK
<1>2. exists[s]
  <2>1. ASSUME NEW t \in Tps, NEW p \in Paths, RecvTpAckForAlps(t, p)
        PROVE  exists[s]
    <3>1. exists' = exists \/ (exists[t] /\ \E e : exists' = [exists EXCEPT ![t] = e])
      BY <2>1 DEF RecvTpAckForAlps
    <3> QED
      BY <1>1, <3>1
  <2> QED
    BY <2>1, Steps DEF AllocateNothing, GetNextPacketForAlps, NextSendTime, RecvDataPacketForAlps,
       Timeout, EarlyTimeout, LoseData, LoseAck, senderVars, vars
<1>3. \A p \in Paths : ~EarlyTimeout(p)
  BY <1>1 DEF EarlyTimeout
<1>4. \A p \in Paths, t \in Tps : \A i \in DOMAIN acks[p][t] : ~LoseAck(t, p, i)
  BY <1>1 DEF LoseAck
<1>5. lostAcks = 0 /\ early = 0
  BY <1>3, <1>4, Steps DEF AllocateNothing, GetNextPacketForAlps, NextSendTime, RecvDataPacketForAlps,
     RecvTpAckForAlps, Timeout, LoseData, budgetVars, vars
<1>6. PathsInOrder(s)
  BY <1>2, <1>5
<1>7. DOMAIN <<>> = {}
  OBVIOUS
<1>8. CASE UNCHANGED <<pending, retrans, sndNxt, recvNxt, bits, data, acks>>
  BY <1>6, <1>8 DEF PathsInOrder, OneCopy, OnlySent, AckOnItsWay, Received
<1>9. ASSUME NEW t \in Tps, NEW p \in Paths, GetNextPacketForAlps(t, p) PROVE PathsInOrder(s)'
  <2>1. t = s
    BY <1>9 DEF OnlySends, GetNextPacketForAlps, Selectable, IsEmpty
  <2> QED
    BY <1>6, <1>9, <2>1, SendInOrder
<1>10. ASSUME NEW t \in Tps, NEW p \in Paths, RecvDataPacketForAlps(t, p) PROVE PathsInOrder(s)'
  <2>1. t = s
    BY <1>10 DEF OnlySends, RecvDataPacketForAlps
  <2> QED
    BY <1>6, <1>10, <2>1, ReceiveInOrder
<1>11. ASSUME NEW t \in Tps, NEW p \in Paths, RecvTpAckForAlps(t, p) PROVE PathsInOrder(s)'
  <2>1. t = s
    BY <1>11 DEF OnlySends, RecvTpAckForAlps
  <2> QED
    BY <1>2, <1>6, <1>11, <2>1, AckInOrder
<1>12. ASSUME NEW p \in Paths, Timeout(p) PROVE PathsInOrder(s)'
  BY <1>6, <1>12, TimeoutInOrder
<1>13. ASSUME NEW t \in Tps, NEW p \in Paths, NEW i \in DOMAIN data[p][t], LoseData(t, p, i)
       PROVE  PathsInOrder(s)'
  <2>1. t = s
    BY <1>7 DEF OnlySends
  <2> QED
    BY <1>6, <1>13, <2>1, LossInOrder
<1> QED
  BY <1>3, <1>4, <1>8, <1>9, <1>10, <1>11, <1>12, <1>13, Steps DEF AllocateNothing, NextSendTime,
     senderVars, alpsVars, recvVars, vars

LEMMA LossStep ==
    ASSUME TypeInv, LossInv, [Next]_vars PROVE LossInv'
<1> SUFFICES ASSUME NEW s \in Tps, Senders' = {s}
             PROVE  /\ OnlySends(s)'
                    /\ exists'[s] /\ lostAcks' = 0 /\ early' = 0 => PathsInOrder(s)'
  BY DEF LossInv
<1>1. Senders = {s}
  BY ScenarioStays
<1>2. OnlySends(s) /\ (exists[s] /\ lostAcks = 0 /\ early = 0 => PathsInOrder(s))
  BY <1>1 DEF LossInv
<1> QED
  BY <1>2, OnlySendsStep, OrderStep

LEMMA LossInit == Init => LossInv
<1> SUFFICES ASSUME Init, NEW s \in Tps, Senders = {s} PROVE OnlySends(s) /\ PathsInOrder(s)
  BY DEF LossInv
<1>1. OnlySends(s)
  <2>1. \A t \in Tps \ {s} : scen.load[t] = <<>>
    BY DEF Senders
  <2> QED
    BY <2>1, OnlySendsInit
<1>2. /\ \A p \in Paths : pending[p] = <<>> /\ acks[p][s] = <<>> /\ data[p][s] = <<>>
      /\ retrans[s] = <<>> /\ sndNxt[s] = 0 /\ recvNxt[s] = 0 /\ bits[s] = {}
  BY DEF Init
<1>3. DOMAIN <<>> = {}
  OBVIOUS
<1>4. \A p \in Paths : InOrderOf(pending[p], acks[p][s], data[p][s])
  BY <1>2, OrderNone
<1>5. OneCopy(s) /\ OnlySent(s) /\ AckOnItsWay(s)
  BY <1>2, <1>3 DEF OneCopy, OnlySent, AckOnItsWay, Kept
<1> QED
  BY <1>1, <1>4, <1>5 DEF PathsInOrder

\* One TP has the paths to itself.
LEMMA SenderAlone ==
    ASSUME Cardinality(Senders) = 1 PROVE \E s \in Tps : Senders = {s}
<1>1. IsFiniteSet(Tps) /\ Senders \in SUBSET Tps
  BY ConstantsAssumption DEF Senders
<1>2. IsFiniteSet(Senders)
  BY <1>1, FS_Subset
<1>3. PICK s : Senders = {s}
  BY <1>2, FS_Singleton
<1> QED
  BY <1>1, <1>3

\* With one TP, no lost ack and no early timeout a packet is retransmitted only if
\* it was lost, for any number of paths and any losses of packets: the acks of a
\* path come in the order its copies wait in, and of every packet there is one
\* copy.
THEOREM OnlyLostPacketsAreFiled == Spec => []OnlyLostAreFiled
<1>1. Init => LossInv
  BY LossInit
<1>2. TypeInv /\ LossInv /\ [Next]_vars => LossInv'
  BY LossStep
<1>3. LossInv => OnlyLostAreFiled
  <2> SUFFICES ASSUME LossInv, Cardinality(Senders) = 1, lostAcks = 0, early = 0,
                      NEW t \in Tps, exists[t], NEW i \in DOMAIN retrans[t]
               PROVE  ~Received(t, retrans[t][i].psn) /\ ~OnWire(t, retrans[t][i].psn)
    BY DEF OnlyLostAreFiled
  <2>1. PICK s \in Tps : Senders = {s}
    BY SenderAlone
  <2>2. OnlySends(s) /\ (exists[s] => PathsInOrder(s))
    BY <2>1 DEF LossInv
  <2>3. t = s
    <3>1. DOMAIN <<>> = {}
      OBVIOUS
    <3> QED
      BY <2>2, <3>1 DEF OnlySends
  <2>4. PathsInOrder(s)
    BY <2>2, <2>3
  <2>5. ~OnWire(s, retrans[s][i].psn)
    <3> SUFFICES ASSUME NEW p \in Paths, NEW k \in DOMAIN data[p][s], data[p][s][k] = retrans[s][i].psn
                 PROVE  FALSE
      BY DEF OnWire
    <3>1. Kept(pending[p], retrans[s][i].psn)
      BY <2>4 DEF PathsInOrder, InOrderOf
    <3> QED
      BY <2>3, <2>4, <3>1 DEF PathsInOrder, OneCopy
  <2> QED
    BY <2>3, <2>4, <2>5 DEF PathsInOrder, AckOnItsWay
<1> QED
  BY <1>1, <1>2, <1>3, TypeInvariant, PTL DEF Spec

\* A sum of nothing.
LEMMA SumZero ==
    ASSUME NEW S, NEW f \in [S -> Nat], \A x \in S : f[x] = 0
    PROVE  SumOf(f) = 0
<1>1. UNION {{x} \X (1..f[x]) : x \in DOMAIN f} = {}
  OBVIOUS
<1> QED
  BY <1>1, FS_EmptySet DEF SumOf

LEMMA CountInit == Init => CountInv
<1> SUFFICES ASSUME Init PROVE CountInv
  OBVIOUS
<1> DEFINE lens == [p \in Paths |-> Len(pending[p])]
<1>1. lens \in [Paths -> Nat] /\ \A p \in Paths : lens[p] = 0
  BY DEF Init
<1>2. tpBits \in [Tps -> Nat] /\ \A t \in Tps : tpBits[t] = 0
  BY DEF Init
<1> HIDE DEF lens
<1>3. SumOf(lens) = 0 /\ SumOf(tpBits) = 0
  BY <1>1, <1>2, SumZero
<1>4. Waiting = 0 /\ Counted = 0
  BY <1>3 DEF Waiting, Counted, lens
<1> QED
  BY <1>2, <1>4 DEF CountInv

\* The counts of the TPs never fall behind what waits on the paths, and agree with
\* it when one TP has the paths to itself; the count of a path is the number of
\* its unacknowledged packets.
THEOREM InflightIsCounted == Spec => []InflightMatchesPending
<1>1. Init => LossInv /\ CountInv
  BY LossInit, CountInit
<1>2. TypeInv /\ LossInv /\ CountInv /\ [Next]_vars => LossInv' /\ CountInv'
  BY LossStep, CountStep DEF LossInv
<1>3. CountInv /\ PathCounted => InflightMatchesPending
  BY SenderAlone DEF CountInv, InflightMatchesPending
<1> QED
  BY <1>1, <1>2, <1>3, TypeInvariant, PathsAreCounted, PTL DEF Spec
=============================================================================
