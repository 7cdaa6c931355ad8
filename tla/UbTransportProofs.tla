-------------------------- MODULE UbTransportProofs --------------------------
(***************************************************************************)
(* Proofs about UbTransport, for every value of its constants.             *)
(***************************************************************************)
EXTENDS UbTransport, SequenceLemmas, FiniteSetTheorems, TLAPS

-----------------------------------------------------------------------------
(* Lemmas about the operators of the channel.                              *)

\* The 24-bit field holds every PSN below PsnMod and turns -1 into the largest.
LEMMA WireValue ==
    ASSUME NEW psn \in Int
    PROVE  /\ Wire(psn) \in 0..(PsnMod - 1)
           /\ psn \in 0..(PsnMod - 1) => Wire(psn) = psn
           /\ psn = -1 => Wire(psn) = PsnMod - 1
<1>1. PsnMod \in Nat \ {0}
  BY ConstantsAssumption
<1>2. psn % PsnMod \in 0..(PsnMod - 1)
  BY <1>1
<1>3. psn \in 0..(PsnMod - 1) => psn % PsnMod = psn
  BY <1>1
<1>4. (-1) % PsnMod = PsnMod - 1
  BY <1>1
<1> QED
  BY <1>2, <1>3, <1>4 DEF Wire

\* The advance of m_psnRecvNxt stops at the first bit that is not set.
LEMMA RunLengthValue ==
    ASSUME NEW b, b \subseteq 0..(OooThreshold - 1), 0 \in b
    PROVE  /\ RunLength(b) \in 1..OooThreshold
           /\ RunLength(b) \notin b
           /\ 0..(RunLength(b) - 1) \subseteq b
<1>1. OooThreshold \in Nat \ {0}
  BY ConstantsAssumption
<1> DEFINE clear == {n \in 1..OooThreshold : n \notin b}
<1>2. OooThreshold \in clear /\ clear \subseteq Nat
  BY <1>1
<1>3. PICK n \in clear : \A k \in clear : n <= k
  BY <1>2, LeastNatural
<1>4. 0..(n - 1) \subseteq b
  BY <1>1, <1>3
<1>5. \E m \in 1..OooThreshold : m \notin b /\ 0..(m - 1) \subseteq b
  BY <1>3, <1>4
<1> QED
  BY <1>5 DEF RunLength

\* GetNextPacket cuts its packet from the unsent segment that starts first.
LEMMA CurrentSegmentFirst ==
    ASSUME segs \subseteq Segment, Unsent # {}
    PROVE  /\ CurrentSegment \in Unsent
           /\ \A t \in Unsent : CurrentSegment.start <= t.start
<1> DEFINE starts == {s.start : s \in Unsent}
<1>1. starts \subseteq Nat /\ starts # {}
  BY DEF Unsent, Segment
<1>2. PICK m \in starts : \A k \in starts : m <= k
  BY <1>1, LeastNatural
<1>3. \E s \in Unsent : \A t \in Unsent : s.start <= t.start
  BY <1>2
<1> QED
  BY <1>3 DEF CurrentSegment

-----------------------------------------------------------------------------
(* Type correctness.                                                       *)

\* TypeOK by itself is not inductive: ReTxAbort takes one attempt more.
AttemptsInv == AttemptsOK /\ (attemptsLeft > 0 \/ aborted = TRUE)

TypeInv == FlagsOK /\ SenderOK /\ AttemptsInv /\ ReceiverOK /\ NetworkOK

LEMMA TypeInit == Init => TypeInv
<1> SUFFICES ASSUME Init PROVE TypeInv
  OBVIOUS
<1>1. FlagsOK
  BY DEF Init, FlagsOK
<1>2. SenderOK
  BY DEF Init, SenderOK
<1>3. AttemptsInv
  BY ConstantsAssumption DEF Init, AttemptsInv, AttemptsOK
<1>4. ReceiverOK
  BY DEF Init, ReceiverOK
<1>5. NetworkOK
  <2>1. <<>> \in Seq(0..(PsnMod - 1)) /\ <<>> \in Seq([psn : 0..(PsnMod - 1), data : Nat])
    BY EmptySeq
  <2> QED
    BY <2>1, ConstantsAssumption DEF Init, NetworkOK
<1> QED
  BY <1>1, <1>2, <1>3, <1>4, <1>5 DEF TypeInv

\* The actions by the part of the state they change.
LEMMA Steps ==
    ASSUME [Next]_vars
    PROVE  \/ \E n \in WqeSizes : PushWqe(n)
           \/ ScheduleNothing \/ ScheduleSegment
           \/ AllocateNothing \/ GetNextPacket
           \/ ReTxTimeout \/ ReTxAbort
           \/ \E i \in DOMAIN dataNet : RecvDataPacket(i)
           \/ SendAck
           \/ \E i \in DOMAIN ackNet : RecvTpAck(i)
           \/ \E i \in DOMAIN dataNet : LoseData(i)
           \/ \E i \in DOMAIN ackNet : LoseAck(i)
           \/ UNCHANGED vars
  BY DEF Next, Transaction, Allocate, Timer, RecvData, RecvAck, Loss

\* Only the arrival of a data packet changes the receiver's window.
LEMMA ReceiverStep ==
    ASSUME [Next]_vars
    PROVE  UNCHANGED recvVars \/ \E i \in DOMAIN dataNet : RecvDataPacket(i)
  BY Steps DEF PushWqe, ScheduleNothing, ScheduleSegment, AllocateNothing, GetNextPacket,
     ReTxTimeout, ReTxAbort, SendAck, RecvTpAck, LoseData, LoseAck, vars

LEMMA FlagsStep ==
    ASSUME FlagsOK, [Next]_vars PROVE FlagsOK'
<1> USE DEF FlagsOK, jettyVars, senderVars, windowVars, timerVars
<1>1. ASSUME NEW n \in WqeSizes, PushWqe(n) PROVE FlagsOK'
  BY <1>1 DEF PushWqe
<1>2. CASE ScheduleNothing
  BY <1>2 DEF ScheduleNothing
<1>3. CASE ScheduleSegment
  BY <1>3 DEF ScheduleSegment
<1>4. CASE AllocateNothing
  BY <1>4 DEF AllocateNothing
<1>5. CASE GetNextPacket
  BY <1>5, ConstantsAssumption DEF GetNextPacket
<1>6. CASE ReTxTimeout
  BY <1>6 DEF ReTxTimeout
<1>7. CASE ReTxAbort
  BY <1>7 DEF ReTxAbort
<1>8. ASSUME NEW i \in DOMAIN dataNet, RecvDataPacket(i) PROVE FlagsOK'
  BY <1>8 DEF RecvDataPacket
<1>9. CASE SendAck
  BY <1>9 DEF SendAck
<1>10. ASSUME NEW i \in DOMAIN ackNet, RecvTpAck(i) PROVE FlagsOK'
  BY <1>10 DEF RecvTpAck
<1>11. ASSUME NEW i \in DOMAIN dataNet, LoseData(i) PROVE FlagsOK'
  BY <1>11 DEF LoseData
<1>12. ASSUME NEW i \in DOMAIN ackNet, LoseAck(i) PROVE FlagsOK'
  BY <1>12 DEF LoseAck
<1>13. CASE UNCHANGED vars
  BY <1>13 DEF vars
<1> QED
  BY <1>1, <1>2, <1>3, <1>4, <1>5, <1>6, <1>7, <1>8, <1>9, <1>10, <1>11, <1>12, <1>13, Steps

LEMMA SenderStep ==
    ASSUME SenderOK, NetworkOK, [Next]_vars PROVE SenderOK'
<1> USE DEF SenderOK, jettyVars, senderVars, windowVars, timerVars
<1>1. ASSUME NEW n \in WqeSizes, PushWqe(n) PROVE SenderOK'
  BY <1>1, ConstantsAssumption DEF PushWqe
<1>2. CASE ScheduleNothing
  BY <1>2 DEF ScheduleNothing
<1>3. CASE ScheduleSegment
  <2> DEFINE size == IF backlog > SegPkts THEN SegPkts ELSE backlog
  <2>1. size \in Nat \ {0} /\ backlog - size \in Nat
    BY <1>3, ConstantsAssumption DEF ScheduleSegment
  <2>2. /\ backlog' = backlog - size /\ psnCnt' = psnCnt + size
        /\ segs' = segs \cup {[start |-> psnCnt, size |-> size, sent |-> 0]}
        /\ UNCHANGED <<sndNxt, sndUna>>
    BY <1>3 DEF ScheduleSegment
  <2> HIDE DEF size
  <2>3. segs' \subseteq Segment
    BY <2>1, <2>2 DEF Segment
  <2> QED
    BY <2>1, <2>2, <2>3
<1>4. CASE AllocateNothing
  BY <1>4 DEF AllocateNothing
<1>5. CASE GetNextPacket
  <2>1. CurrentSegment \in Segment
    BY <1>5, CurrentSegmentFirst DEF GetNextPacket, Unsent
  <2>2. segs' \subseteq Segment
    <3>1. [CurrentSegment EXCEPT !.sent = @ + 1] \in Segment
      BY <2>1 DEF Segment
    <3> QED
      BY <1>5, <3>1 DEF GetNextPacket
  <2> QED
    BY <1>5, <2>2 DEF GetNextPacket
<1>6. CASE ReTxTimeout
  <2>1. ASSUME NEW s \in segs PROVE Rewind(s) \in Segment
    BY DEF Rewind, Segment
  <2>2. segs' \subseteq Segment
    BY <1>6, <2>1 DEF ReTxTimeout
  <2> QED
    BY <1>6, <2>2 DEF ReTxTimeout
<1>7. CASE ReTxAbort
  BY <1>7 DEF ReTxAbort
<1>8. ASSUME NEW i \in DOMAIN dataNet, RecvDataPacket(i) PROVE SenderOK'
  BY <1>8 DEF RecvDataPacket
<1>9. CASE SendAck
  BY <1>9 DEF SendAck
<1>10. ASSUME NEW i \in DOMAIN ackNet, RecvTpAck(i) PROVE SenderOK'
  <2>1. ackNet[i] \in 0..(PsnMod - 1)
    BY <1>10, SeqElement DEF NetworkOK
  <2> QED
    BY <1>10, <2>1, ConstantsAssumption DEF RecvTpAck, Incomplete
<1>11. ASSUME NEW i \in DOMAIN dataNet, LoseData(i) PROVE SenderOK'
  BY <1>11 DEF LoseData
<1>12. ASSUME NEW i \in DOMAIN ackNet, LoseAck(i) PROVE SenderOK'
  BY <1>12 DEF LoseAck
<1>13. CASE UNCHANGED vars
  BY <1>13 DEF vars
<1> QED
  BY <1>1, <1>2, <1>3, <1>4, <1>5, <1>6, <1>7, <1>8, <1>9, <1>10, <1>11, <1>12, <1>13, Steps

\* Only the timer and an ack change the attempts.
LEMMA AttemptsStep ==
    ASSUME AttemptsInv, [Next]_vars PROVE AttemptsInv'
<1> USE DEF AttemptsInv, AttemptsOK
<1>1. CASE ReTxTimeout
  BY <1>1, ConstantsAssumption DEF ReTxTimeout
<1>2. CASE ReTxAbort
  <2>1. aborted' = TRUE /\ attemptsLeft' = attemptsLeft - 1
    BY <1>2 DEF ReTxAbort
  <2>2. attemptsLeft > 0
    BY <1>2, Zenon DEF ReTxAbort
  <2>3. AttemptsOK'
    BY <2>1, <2>2, ConstantsAssumption
  <2> QED
    BY <2>1, <2>3, Zenon
<1>3. ASSUME NEW i \in DOMAIN ackNet, RecvTpAck(i) PROVE AttemptsInv'
  <2>1. /\ aborted' = aborted
        /\ attemptsLeft' \in {MaxRetransAttempts, attemptsLeft}
    BY <1>3 DEF RecvTpAck
  <2> QED
    BY <2>1, ConstantsAssumption
<1>4. CASE UNCHANGED <<attemptsLeft, aborted>>
  BY <1>4
<1> QED
  BY <1>1, <1>2, <1>3, <1>4, Steps DEF PushWqe, ScheduleNothing, ScheduleSegment, AllocateNothing,
     GetNextPacket, RecvDataPacket, SendAck, LoseData, LoseAck, vars, senderVars, timerVars

\* The advance in RecvInOrder, with its length named.
LEMMA InOrderAdvance ==
    ASSUME ReceiverOK, NEW psn, NEW data, RecvInOrder(psn, data)
    PROVE  \E n \in 1..OooThreshold :
               /\ n \notin bits /\ \A k \in 1..(n - 1) : k \in bits
               /\ recvNxt' = recvNxt + n
               /\ bits' = RightShift(bits, n)
               /\ ackQ' = Append(ackQ, Wire(recvNxt + n - 1))
<1> DEFINE n == RunLength(bits \cup {0})
<1>1. bits \cup {0} \subseteq 0..(OooThreshold - 1)
  BY ConstantsAssumption DEF ReceiverOK
<1>2. n \in 1..OooThreshold /\ n \notin bits \cup {0} /\ 0..(n - 1) \subseteq bits \cup {0}
  BY <1>1, RunLengthValue
<1>3. /\ recvNxt' = recvNxt + n
      /\ bits' = RightShift(bits, n)
      /\ ackQ' = Append(ackQ, Wire(recvNxt + n - 1))
  BY DEF RecvInOrder
<1> HIDE DEF n
<1>4. \A k \in 1..(n - 1) : k \in bits
  BY <1>2, ConstantsAssumption
<1> QED
  BY <1>2, <1>3, <1>4

LEMMA ReceiverTypeStep ==
    ASSUME ReceiverOK, NetworkOK, [Next]_vars PROVE ReceiverOK'
<1> USE DEF ReceiverOK
<1>1. CASE UNCHANGED recvVars
  BY <1>1 DEF recvVars
<1>2. ASSUME NEW i \in DOMAIN dataNet, RecvDataPacket(i) PROVE ReceiverOK'
  <2> DEFINE psn  == dataNet[i].psn
             data == dataNet[i].data
  <2>1. psn \in Nat /\ data \in Nat
    <3>1. dataNet[i] \in [psn : 0..(PsnMod - 1), data : Nat]
      BY <1>2, SeqElement DEF NetworkOK
    <3> QED
      BY <3>1, ConstantsAssumption
  <2>2. \/ RecvRepeat(psn) \/ RecvOverflow(psn)
        \/ RecvOutOfOrder(psn, data) \/ RecvInOrder(psn, data)
    BY <1>2 DEF RecvDataPacket
  <2> HIDE DEF psn, data
  <2>5. CASE RecvRepeat(psn) \/ RecvOverflow(psn)
    BY <2>5 DEF RecvRepeat, RecvOverflow, recvVars
  <2>3. CASE RecvOutOfOrder(psn, data)
    BY <2>1, <2>3, ConstantsAssumption DEF RecvOutOfOrder
  <2>4. CASE RecvInOrder(psn, data)
    <3>1. PICK n \in 1..OooThreshold : recvNxt' = recvNxt + n /\ bits' = RightShift(bits, n)
      BY <2>4, InOrderAdvance
    <3>2. recvNxt' \in Nat
      BY <3>1, ConstantsAssumption
    <3>3. bits' \subseteq 0..(OooThreshold - 1)
      BY <3>1, ConstantsAssumption DEF RightShift
    <3>4. got' \subseteq Nat
      BY <2>1, <2>4 DEF RecvInOrder
    <3> QED
      BY <3>2, <3>3, <3>4
  <2> QED
    BY <2>2, <2>3, <2>4, <2>5
<1> QED
  BY <1>1, <1>2, ReceiverStep

LEMMA NetworkTypeStep ==
    ASSUME SenderOK, ReceiverOK, NetworkOK, [Next]_vars PROVE NetworkOK'
<1> DEFINE Psn    == 0..(PsnMod - 1)
           Packet == [psn : 0..(PsnMod - 1), data : Nat]
<1>0. ackQ \in Seq(Psn) /\ ackNet \in Seq(Psn) /\ dataNet \in Seq(Packet) /\ losses \in 0..MaxLoss
  BY DEF NetworkOK
<1> HIDE DEF Psn, Packet
<1>1. CASE UNCHANGED <<ackQ, netVars>>
  BY <1>1 DEF NetworkOK, netVars
<1>2. CASE GetNextPacket
  <2>1. CurrentSegment \in Segment
    BY <1>2, CurrentSegmentFirst DEF GetNextPacket, Unsent, SenderOK
  <2> DEFINE p == [psn |-> Wire(sndNxt), data |-> CurrentSegment.start + CurrentSegment.sent]
  <2>2. p \in Packet
    BY <2>1, WireValue DEF Segment, SenderOK, Packet
  <2>3. dataNet' = Append(dataNet, p) /\ UNCHANGED <<ackQ, ackNet, losses>>
    BY <1>2 DEF GetNextPacket
  <2> HIDE DEF p
  <2>4. dataNet' \in Seq(Packet)
    BY <1>0, <2>2, <2>3, AppendSeq
  <2> QED
    BY <1>0, <2>3, <2>4 DEF NetworkOK, Psn, Packet
<1>3. ASSUME NEW i \in DOMAIN dataNet, RecvDataPacket(i) PROVE NetworkOK'
  <2>1. dataNet' \in Seq(Packet) /\ UNCHANGED <<ackNet, losses>>
    BY <1>0, <1>3, RemoveAtSeq DEF RecvDataPacket
  <2>2. ackQ' = ackQ \/ \E n \in Int : ackQ' = Append(ackQ, Wire(n))
    <3> DEFINE psn  == dataNet[i].psn
               data == dataNet[i].data
    <3>1. CASE RecvRepeat(psn)
      BY <3>1 DEF RecvRepeat, ReceiverOK
    <3>2. CASE RecvOverflow(psn)
      BY <3>2 DEF RecvOverflow
    <3>3. CASE RecvOutOfOrder(psn, data)
      BY <3>3 DEF RecvOutOfOrder
    <3>4. CASE RecvInOrder(psn, data)
      <4>1. PICK n \in 1..OooThreshold : ackQ' = Append(ackQ, Wire(recvNxt + n - 1))
        BY <3>4, InOrderAdvance
      <4>2. recvNxt + n - 1 \in Int
        BY ConstantsAssumption DEF ReceiverOK
      <4> QED
        BY <4>1, <4>2
    <3> QED
      BY <1>3, <3>1, <3>2, <3>3, <3>4 DEF RecvDataPacket
  <2>3. ackQ' \in Seq(Psn)
    <3>1. \A n \in Int : Wire(n) \in Psn
      BY WireValue DEF Psn
    <3>2. ASSUME NEW n \in Int, ackQ' = Append(ackQ, Wire(n)) PROVE ackQ' \in Seq(Psn)
      <4>1. Append(ackQ, Wire(n)) \in Seq(Psn)
        BY <1>0, <3>1, AppendSeq
      <4> QED
        BY <3>2, <4>1
    <3> QED
      BY <1>0, <2>2, <3>2
  <2> QED
    BY <1>0, <2>1, <2>3 DEF NetworkOK, Psn, Packet
<1>4. CASE SendAck
  <2>1. Head(ackQ) \in Psn /\ ackQ' \in Seq(Psn)
    BY <1>0, <1>4, HeadTailSeq DEF SendAck
  <2>2. ackNet' \in Seq(Psn)
    BY <1>0, <1>4, <2>1, AppendSeq DEF SendAck
  <2> QED
    BY <1>0, <1>4, <2>1, <2>2 DEF SendAck, NetworkOK, Psn, Packet
<1>5. ASSUME NEW i \in DOMAIN ackNet, RecvTpAck(i) PROVE NetworkOK'
  <2>1. ackNet' \in Seq(Psn) /\ UNCHANGED <<ackQ, dataNet, losses>>
    BY <1>0, <1>5, RemoveAtSeq DEF RecvTpAck
  <2> QED
    BY <1>0, <2>1 DEF NetworkOK, Psn, Packet
<1>6. ASSUME NEW i \in DOMAIN dataNet, LoseData(i) PROVE NetworkOK'
  <2>1. dataNet' \in Seq(Packet) /\ UNCHANGED <<ackQ, ackNet>> /\ losses' \in 0..MaxLoss
    BY <1>0, <1>6, RemoveAtSeq, ConstantsAssumption DEF LoseData
  <2> QED
    BY <1>0, <2>1 DEF NetworkOK, Psn, Packet
<1>7. ASSUME NEW i \in DOMAIN ackNet, LoseAck(i) PROVE NetworkOK'
  <2>1. ackNet' \in Seq(Psn) /\ UNCHANGED <<ackQ, dataNet>> /\ losses' \in 0..MaxLoss
    BY <1>0, <1>7, RemoveAtSeq, ConstantsAssumption DEF LoseAck
  <2> QED
    BY <1>0, <2>1 DEF NetworkOK, Psn, Packet
<1> QED
  BY <1>1, <1>2, <1>3, <1>4, <1>5, <1>6, <1>7, Steps DEF PushWqe, ScheduleNothing,
     ScheduleSegment, AllocateNothing, ReTxTimeout, ReTxAbort, netVars, vars

LEMMA TypeStep == TypeInv /\ [Next]_vars => TypeInv'
  BY FlagsStep, SenderStep, AttemptsStep, ReceiverTypeStep, NetworkTypeStep DEF TypeInv

LEMMA TypeInvariant == Spec => []TypeInv
  BY TypeInit, TypeStep, PTL DEF Spec

\* Every variable of the channel keeps its type; in particular the receive bitmap
\* stays within its width, every PSN within its header field, and the attempts
\* of the retransmission timer within their limit.
THEOREM TypeCorrect == Spec => []TypeOK
<1>1. TypeInv => TypeOK
  BY DEF TypeInv, AttemptsInv, TypeOK
<1> QED
  BY <1>1, TypeInvariant, PTL

-----------------------------------------------------------------------------
(* The invariant behind BitmapSound, as long as the PSN does not wrap.     *)

\* Everything the receiver counts has been numbered by the sender.
LEMMA RecvBelowCnt ==
    ASSUME ReceiverOK, SenderOK, ReceiverSound
    PROVE  recvNxt <= psnCnt /\ \A i \in bits : recvNxt + i < psnCnt
  BY DEF ReceiverOK, SenderOK, ReceiverSound, BitmapSound

\* A channel that is neither empty nor limited has an unsent segment that covers
\* m_psnSndNxt, sent exactly up to it.
LEMMA UnsentAtNext ==
    ASSUME SenderOK, ChannelInv, ~IsEmpty, ~IsInflightLimited
    PROVE  /\ sndNxt < psnCnt /\ sndUna <= sndNxt
           /\ \E c \in Unsent : Covers(c, sndNxt) /\ c.sent = sndNxt - c.start
<1>1. sndNxt < psnCnt /\ sndUna <= sndNxt
  BY DEF IsEmpty, IsInflightLimited, InflightLimited, SenderOK
<1>2. PICK c \in segs : Covers(c, sndNxt)
  BY <1>1 DEF ChannelInv, SegmentsSound, SegmentsCoverUna, SenderOK
<1>3. c \in Segment
  BY <1>2 DEF SenderOK
<1>4. c.start <= sndNxt /\ sndNxt < c.start + c.size /\ c.sent = sndNxt - c.start
  BY <1>2, <1>3 DEF Covers, ChannelInv, SegmentsSound, SentMatchesNext, SentAt, Segment, SenderOK
<1>5. c \in Unsent
  BY <1>2, <1>3, <1>4 DEF Unsent, Segment, SenderOK
<1> QED
  BY <1>1, <1>2, <1>4, <1>5

\* What GetNextPacket sends is packet m_psnSndNxt of the channel, with its own
\* number in the header, cut from the segment that covers it.
LEMMA PacketSent ==
    ASSUME MaxPsn < PsnMod, SenderOK, ChannelInv, GetNextPacket
    PROVE  /\ CurrentSegment \in segs
           /\ Covers(CurrentSegment, sndNxt)
           /\ CurrentSegment.sent = sndNxt - CurrentSegment.start
           /\ dataNet' = Append(dataNet, [psn |-> sndNxt, data |-> sndNxt])
           /\ sndNxt < psnCnt /\ sndUna <= sndNxt
<1> DEFINE s == CurrentSegment
<1>1. s \in Unsent /\ \A t \in Unsent : s.start <= t.start
  BY CurrentSegmentFirst DEF GetNextPacket, SenderOK
<1>2. s \in segs /\ s \in Segment /\ s.sent < s.size
  BY <1>1 DEF Unsent, SenderOK
<1>3. sndNxt < psnCnt /\ sndUna <= sndNxt
  BY UnsentAtNext DEF GetNextPacket
<1>4. dataNet' = Append(dataNet, [psn |-> Wire(sndNxt), data |-> s.start + s.sent])
  BY DEF GetNextPacket
<1> HIDE DEF s
<1>5. PICK c \in Unsent : Covers(c, sndNxt) /\ c.sent = sndNxt - c.start
  BY UnsentAtNext DEF GetNextPacket
<1>6. c \in segs /\ c \in Segment /\ c.start <= sndNxt /\ sndNxt < c.start + c.size
  BY <1>5 DEF Unsent, Covers, SenderOK
<1>7. sndNxt < s.start + s.size
  BY <1>2 DEF ChannelInv, SegmentsSound, SentMatchesNext, SentAt, Segment, SenderOK
<1>8. s = c
  <2>1. s.start <= c.start
    BY <1>1, <1>5
  <2>2. s = c \/ s.start + s.size <= c.start \/ c.start + c.size <= s.start
    BY <1>2, <1>6 DEF ChannelInv, SegmentsSound, SegmentsDisjoint
  <2> QED
    BY <1>2, <1>6, <1>7, <2>1, <2>2 DEF Segment, SenderOK
<1>9. Wire(sndNxt) = sndNxt
  <2>1. sndNxt \in 0..(PsnMod - 1)
    BY <1>3, ConstantsAssumption DEF ChannelInv, CountersSound, SenderOK
  <2> QED
    BY <2>1, WireValue DEF SenderOK
<1>10. s.start + s.sent = sndNxt
  BY <1>5, <1>6, <1>8 DEF Segment, SenderOK
<1> QED
  BY <1>2, <1>3, <1>4, <1>5, <1>8, <1>9, <1>10 DEF s

LEMMA ChannelInit == Init => ChannelInv
<1> SUFFICES ASSUME Init PROVE ChannelInv
  OBVIOUS
<1>1. SegmentsSound
  BY DEF Init, SegmentsSound, SegmentsDisjoint, SentMatchesNext, SegmentsCoverUna
<1>2. CountersSound
  BY ConstantsAssumption DEF Init, CountersSound
<1>3. NetworkSound
  BY DEF Init, NetworkSound
<1>4. ReceiverSound
  BY DEF Init, ReceiverSound, BitmapSound
<1> QED
  BY <1>1, <1>2, <1>3, <1>4 DEF ChannelInv

\* The state the segments are related to.
segmentVars == <<segs, psnCnt, sndNxt, sndUna>>

LEMMA SegmentsUnchanged ==
    ASSUME SegmentsSound, UNCHANGED segmentVars PROVE SegmentsSound'
  BY DEF SegmentsSound, SegmentsDisjoint, SentMatchesNext, SegmentsCoverUna, segmentVars

\* A new segment starts where the last one ends.
LEMMA SegmentsScheduleSegment ==
    ASSUME MaxPsn < PsnMod, SenderOK, ReceiverOK, ChannelInv, ScheduleSegment
    PROVE  SegmentsSound'
<1> USE DEF SenderOK
<1> DEFINE size == IF backlog > SegPkts THEN SegPkts ELSE backlog
           new  == [start |-> psnCnt, size |-> size, sent |-> 0]
<1>1. size \in Nat \ {0} /\ size <= backlog
  BY ConstantsAssumption DEF ScheduleSegment
<1>2. /\ segs' = segs \cup {new} /\ psnCnt' = psnCnt + size
      /\ sndNxt' = sndNxt /\ sndUna' = sndUna
  BY DEF ScheduleSegment
<1> HIDE DEF size
<1>3. new.start = psnCnt /\ new.size = size /\ new.sent = 0
  OBVIOUS
<1> HIDE DEF new
<1>4. SegmentsDisjoint'
  BY <1>1, <1>2, <1>3 DEF SegmentsDisjoint, SegmentsSound, ChannelInv, Segment
<1>5. SentMatchesNext'
  <2>1. SentAt(sndNxt - psnCnt, size) = 0
    BY <1>1 DEF SentAt, ChannelInv, CountersSound
  <2> QED
    BY <1>2, <1>3, <2>1 DEF SentMatchesNext, SegmentsSound, ChannelInv
<1>6. SegmentsCoverUna'
  <2>1. ASSUME NEW d \in sndUna'..(psnCnt' - 1) PROVE \E s \in segs' : Covers(s, d)
    <3>1. CASE d < psnCnt
      BY <1>1, <1>2, <2>1, <3>1 DEF SegmentsCoverUna, SegmentsSound, ChannelInv
    <3>2. CASE d >= psnCnt
      BY <1>1, <1>2, <1>3, <2>1, <3>2 DEF Covers
    <3> QED
      BY <2>1, <3>1, <3>2
  <2>2. ASSUME sndUna <= psnCnt', NEW s \in segs' PROVE sndUna < s.start + s.size
    <3>1. psnCnt' < PsnMod
      BY <1>1, <1>2, ConstantsAssumption DEF ChannelInv, CountersSound
    <3>2. sndUna <= psnCnt
      BY <1>1, <1>2, <2>2, <3>1, RecvBelowCnt, ConstantsAssumption
         DEF ChannelInv, CountersSound, ReceiverOK
    <3> QED
      BY <1>1, <1>2, <1>3, <2>2, <3>2 DEF SegmentsCoverUna, SegmentsSound, ChannelInv
  <2> QED
    BY <1>2, <2>1, <2>2 DEF SegmentsCoverUna
<1> QED
  BY <1>4, <1>5, <1>6 DEF SegmentsSound

\* The segment of the packet that is sent counts it, and no other one does.
LEMMA SegmentsGetNextPacket ==
    ASSUME MaxPsn < PsnMod, SenderOK, ChannelInv, GetNextPacket
    PROVE  SegmentsSound'
<1> USE DEF SenderOK
<1> DEFINE c   == CurrentSegment
           new == [c EXCEPT !.sent = @ + 1]
<1>1. c \in segs /\ Covers(c, sndNxt) /\ c.sent = sndNxt - c.start /\ sndNxt < psnCnt
  BY PacketSent
<1>2. /\ segs' = (segs \ {c}) \cup {new} /\ sndNxt' = sndNxt + 1
      /\ psnCnt' = psnCnt /\ sndUna' = sndUna
  BY DEF GetNextPacket
<1>3. c \in Segment
  BY <1>1
<1> HIDE DEF c
<1>4. new.start = c.start /\ new.size = c.size /\ new.sent = c.sent + 1
  BY <1>3 DEF Segment
<1> HIDE DEF new
<1>5. SegmentsDisjoint /\ SentMatchesNext /\ SegmentsCoverUna
  BY DEF ChannelInv, SegmentsSound
<1>6. SegmentsDisjoint'
  BY <1>1, <1>2, <1>3, <1>4, <1>5 DEF SegmentsDisjoint
<1>7. SentMatchesNext'
  <2>1. new.sent = SentAt(sndNxt + 1 - new.start, new.size)
    BY <1>1, <1>3, <1>4 DEF Covers, SentAt, Segment
  <2>2. ASSUME NEW t \in segs, t # c
        PROVE  SentAt(sndNxt + 1 - t.start, t.size) = SentAt(sndNxt - t.start, t.size)
    <3>1. t \in Segment
      BY <2>2
    <3>2. t.start + t.size <= c.start \/ c.start + c.size <= t.start
      BY <1>1, <1>5, <2>2 DEF SegmentsDisjoint
    <3> QED
      BY <1>1, <1>3, <3>1, <3>2 DEF Covers, SentAt, Segment
  <2>3. ASSUME NEW t \in segs' PROVE t.sent = SentAt(sndNxt + 1 - t.start, t.size)
    <3>1. CASE t = new
      BY <1>2, <2>1, <3>1
    <3>2. CASE t \in segs /\ t # c
      <4>1. t.sent = SentAt(sndNxt - t.start, t.size)
        BY <1>5, <3>2 DEF SentMatchesNext
      <4> QED
        BY <1>2, <2>2, <3>2, <4>1
    <3> QED
      BY <1>2, <2>3, <3>1, <3>2
  <2>4. ASSUME NEW t \in segs' PROVE t.start \in Nat /\ t.size \in Nat
    BY <1>2, <1>3, <1>4 DEF Segment
  <2>5. ASSUME NEW t \in segs' PROVE t.sent = SentAt(sndNxt' - t.start, t.size)
    BY <1>2, <2>3, <2>4 DEF SentAt
  <2> QED
    BY <2>5 DEF SentMatchesNext
<1>8. SegmentsCoverUna'
  BY <1>1, <1>2, <1>3, <1>4, <1>5 DEF SegmentsCoverUna, Covers
<1> QED
  BY <1>6, <1>7, <1>8 DEF SegmentsSound

\* An ack drops the segments below it and leaves the others alone.
LEMMA SegmentsRecvTpAck ==
    ASSUME SenderOK, NetworkOK, ChannelInv, NEW i \in DOMAIN ackNet, RecvTpAck(i)
    PROVE  SegmentsSound'
<1> USE DEF SenderOK
<1>1. ackNet[i] \in 0..(PsnMod - 1)
  BY SeqElement DEF NetworkOK
<1>2. /\ segs' = Incomplete(sndUna') /\ sndUna' \in Nat /\ sndUna <= sndUna'
      /\ psnCnt' = psnCnt /\ sndNxt' = sndNxt
  BY <1>1, ConstantsAssumption DEF RecvTpAck
<1>3. SegmentsDisjoint /\ SentMatchesNext /\ SegmentsCoverUna
  BY DEF ChannelInv, SegmentsSound
<1>4. \A s \in segs' : s \in segs /\ s \in Segment /\ sndUna' < s.start + s.size
  BY <1>2 DEF Incomplete
<1>5. SegmentsDisjoint'
  BY <1>2, <1>3, <1>4 DEF SegmentsDisjoint
<1>6. SentMatchesNext'
  BY <1>2, <1>3, <1>4 DEF SentMatchesNext
<1>7. SegmentsCoverUna'
  <2>1. ASSUME NEW d \in sndUna'..(psnCnt' - 1) PROVE \E s \in segs' : Covers(s, d)
    <3>1. d \in sndUna..(psnCnt - 1)
      BY <1>2, <2>1
    <3>2. PICK s \in segs : Covers(s, d)
      BY <1>3, <3>1 DEF SegmentsCoverUna
    <3>3. s \in segs'
      BY <1>2, <2>1, <3>2 DEF Incomplete, Covers, Segment
    <3> QED
      BY <3>2, <3>3
  <2> QED
    BY <1>4, <2>1 DEF SegmentsCoverUna
<1> QED
  BY <1>5, <1>6, <1>7 DEF SegmentsSound

\* The rollback leaves every segment with the packets below m_psnSndUna sent.
LEMMA SegmentsReTxTimeout ==
    ASSUME SenderOK, ChannelInv, ReTxTimeout
    PROVE  SegmentsSound'
<1> USE DEF SenderOK
<1>1. /\ segs' = {Rewind(s) : s \in segs}
      /\ sndNxt' = sndUna /\ sndUna' = sndUna /\ psnCnt' = psnCnt
  BY DEF ReTxTimeout
<1>2. SegmentsDisjoint /\ SentMatchesNext /\ SegmentsCoverUna
  BY DEF ChannelInv, SegmentsSound
<1>3. sndUna <= psnCnt
  BY DEF ReTxTimeout, ChannelInv, CountersSound
<1>4. ASSUME NEW s \in segs
      PROVE  /\ Rewind(s).start = s.start /\ Rewind(s).size = s.size
             /\ Rewind(s).sent = SentAt(sndUna - s.start, s.size)
  <2>1. s \in Segment /\ sndUna < s.start + s.size
    BY <1>2, <1>3, <1>4 DEF SegmentsCoverUna
  <2> QED
    BY <2>1 DEF Rewind, SentAt, Segment
<1>5. SegmentsDisjoint'
  BY <1>1, <1>2, <1>4 DEF SegmentsDisjoint
<1>6. SentMatchesNext'
  BY <1>1, <1>4 DEF SentMatchesNext
<1>7. SegmentsCoverUna'
  BY <1>1, <1>2, <1>4 DEF SegmentsCoverUna, Covers
<1> QED
  BY <1>5, <1>6, <1>7 DEF SegmentsSound

LEMMA SegmentsStep ==
    ASSUME MaxPsn < PsnMod, TypeInv, ChannelInv, [Next]_vars
    PROVE  SegmentsSound'
<1>1. SenderOK /\ ReceiverOK /\ NetworkOK /\ SegmentsSound
  BY DEF TypeInv, ChannelInv
<1>2. CASE UNCHANGED segmentVars
  BY <1>1, <1>2, SegmentsUnchanged
<1>3. CASE ScheduleSegment
  BY <1>1, <1>3, SegmentsScheduleSegment
<1>4. CASE GetNextPacket
  BY <1>1, <1>4, SegmentsGetNextPacket
<1>5. ASSUME NEW i \in DOMAIN ackNet, RecvTpAck(i) PROVE SegmentsSound'
  BY <1>1, <1>5, SegmentsRecvTpAck
<1>6. CASE ReTxTimeout
  BY <1>1, <1>6, SegmentsReTxTimeout
<1> QED
  BY <1>2, <1>3, <1>4, <1>5, <1>6, Steps DEF PushWqe, ScheduleNothing, AllocateNothing,
     ReTxAbort, RecvDataPacket, SendAck, LoseData, LoseAck, vars, senderVars, windowVars,
     segmentVars

\* A data packet in the network carries its own number, one the sender gave.
LEMMA ArrivingPacket ==
    ASSUME NetworkOK, NetworkSound, NEW i \in DOMAIN dataNet
    PROVE  /\ dataNet[i].psn \in Nat
           /\ dataNet[i].data = dataNet[i].psn
           /\ dataNet[i].psn < psnCnt
<1>1. dataNet[i] \in [psn : 0..(PsnMod - 1), data : Nat]
  BY SeqElement DEF NetworkOK
<1>2. dataNet[i].psn = dataNet[i].data /\ dataNet[i].data < psnCnt
  BY DEF NetworkSound
<1> QED
  BY <1>1, <1>2, ConstantsAssumption

\* m_psnRecvNxt, m_tpPsnCnt and m_psnSndUna never go back.
LEMMA CountersGrow ==
    ASSUME TypeInv, [Next]_vars
    PROVE  recvNxt <= recvNxt' /\ psnCnt <= psnCnt' /\ sndUna <= sndUna'
<1> USE DEF TypeInv, SenderOK, ReceiverOK
<1>1. recvNxt <= recvNxt'
  <2>1. CASE UNCHANGED recvVars
    BY <2>1 DEF recvVars
  <2>2. ASSUME NEW i \in DOMAIN dataNet, RecvDataPacket(i) PROVE recvNxt <= recvNxt'
    <3> DEFINE psn  == dataNet[i].psn
               data == dataNet[i].data
    <3>1. CASE RecvInOrder(psn, data)
      BY <3>1, InOrderAdvance, ConstantsAssumption
    <3>2. CASE recvNxt' = recvNxt
      BY <3>2
    <3> QED
      BY <2>2, <3>1, <3>2 DEF RecvDataPacket, RecvRepeat, RecvOverflow, RecvOutOfOrder, recvVars
  <2> QED
    BY <2>1, <2>2, ReceiverStep
<1>2. psnCnt <= psnCnt'
  <2>1. CASE ScheduleSegment
    BY <2>1, ConstantsAssumption DEF ScheduleSegment
  <2>2. CASE psnCnt' = psnCnt
    BY <2>2
  <2> QED
    BY <2>1, <2>2, Steps DEF PushWqe, ScheduleNothing, AllocateNothing, GetNextPacket, ReTxTimeout,
       ReTxAbort, RecvDataPacket, SendAck, RecvTpAck, LoseData, LoseAck, vars, senderVars, windowVars
<1>3. sndUna <= sndUna'
  <2>1. ASSUME NEW i \in DOMAIN ackNet, RecvTpAck(i) PROVE sndUna <= sndUna'
    <3>1. ackNet[i] \in 0..(PsnMod - 1)
      BY <2>1, SeqElement DEF NetworkOK
    <3> QED
      BY <2>1, <3>1, ConstantsAssumption DEF RecvTpAck
  <2>2. CASE sndUna' = sndUna
    BY <2>2
  <2> QED
    BY <2>1, <2>2, Steps DEF PushWqe, ScheduleNothing, ScheduleSegment, AllocateNothing,
       GetNextPacket, ReTxTimeout, ReTxAbort, RecvDataPacket, SendAck, LoseData, LoseAck, vars,
       senderVars, windowVars
<1> QED
  BY <1>1, <1>2, <1>3

LEMMA ReceiverSoundStep ==
    ASSUME TypeInv, ChannelInv, [Next]_vars
    PROVE  ReceiverSound'
<1> USE DEF ReceiverOK
<1>0. /\ SenderOK /\ ReceiverOK /\ NetworkOK /\ NetworkSound /\ psnCnt \in Nat /\ psnCnt' \in Nat
      /\ BitmapSound /\ psnCnt <= psnCnt' /\ \A d \in got : d < psnCnt
  BY CountersGrow, SenderStep DEF TypeInv, ChannelInv, ReceiverSound, SenderOK
<1>1. CASE UNCHANGED recvVars
  BY <1>0, <1>1 DEF recvVars, ReceiverSound, BitmapSound
<1>2. ASSUME NEW i \in DOMAIN dataNet, RecvDataPacket(i) PROVE ReceiverSound'
  <2> DEFINE psn  == dataNet[i].psn
             data == dataNet[i].data
  <2>1. psn \in Nat /\ data = psn /\ psn < psnCnt
    BY <1>0, <1>2, ArrivingPacket
  <2>2. \/ RecvRepeat(psn) \/ RecvOverflow(psn)
        \/ RecvOutOfOrder(psn, data) \/ RecvInOrder(psn, data)
    BY <1>2 DEF RecvDataPacket
  <2> HIDE DEF psn, data
  <2>6. psnCnt \in Nat /\ psnCnt' \in Nat /\ psnCnt <= psnCnt'
      /\ got \subseteq Nat /\ \A d \in got : d < psnCnt
    BY <1>0
  <2>3. CASE RecvRepeat(psn) \/ RecvOverflow(psn)
    <3>1. UNCHANGED recvVars
      BY <2>3 DEF RecvRepeat, RecvOverflow
    <3> QED
      BY <1>1, <3>1
  <2>4. CASE RecvOutOfOrder(psn, data)
    <3>1. /\ got' = got \cup {psn} /\ bits' = bits \cup {psn - recvNxt} /\ recvNxt' = recvNxt
      BY <2>1, <2>4 DEF RecvOutOfOrder
    <3>2. {recvNxt + k : k \in bits'} = {recvNxt + k : k \in bits} \cup {psn}
      BY <1>0, <2>1, <3>1
    <3>3. BitmapSound'
      BY <1>0, <3>1, <3>2 DEF BitmapSound
    <3>4. \A d \in got' : d < psnCnt'
      BY <2>1, <2>6, <3>1
    <3> QED
      BY <3>3, <3>4 DEF ReceiverSound
  <2>5. CASE RecvInOrder(psn, data)
    <3>1. PICK n \in 1..OooThreshold :
              /\ n \notin bits /\ \A k \in 1..(n - 1) : k \in bits
              /\ recvNxt' = recvNxt + n /\ bits' = RightShift(bits, n)
      BY <1>0, <2>5, InOrderAdvance
    <3>2. got' = got \cup {recvNxt} /\ psn = recvNxt
      BY <2>1, <2>5 DEF RecvInOrder
    <3>3. n \in Nat /\ n > 0 /\ recvNxt \in Nat /\ \A k \in bits : k \in Nat
      BY <1>0, <3>1, ConstantsAssumption
    <3>4. \A x : x \in got <=> x \in 0..(recvNxt - 1) \/ \E k \in bits : x = recvNxt + k
      BY <1>0 DEF BitmapSound
    <3>5. ASSUME NEW x \in got'
          PROVE  x \in 0..(recvNxt + n - 1) \/ \E k \in bits : k >= n /\ x = recvNxt + n + (k - n)
      BY <3>2, <3>3, <3>4, <3>5
    <3>6. ASSUME NEW x \in 0..(recvNxt + n - 1) PROVE x \in got'
      <4>1. CASE x <= recvNxt
        BY <3>2, <3>3, <3>4, <3>6, <4>1
      <4>2. CASE x > recvNxt
        <5>1. x - recvNxt \in 1..(n - 1)
          BY <3>3, <3>6, <4>2
        <5>2. x - recvNxt \in bits /\ x = recvNxt + (x - recvNxt)
          BY <3>1, <3>3, <3>6, <5>1
        <5> QED
          BY <3>2, <3>4, <5>2
      <4> QED
        BY <3>3, <3>6, <4>1, <4>2
    <3>7. ASSUME NEW k \in bits PROVE recvNxt + n + (k - n) \in got'
      BY <3>2, <3>3, <3>4, <3>7
    <3>8. BitmapSound'
      <4>1. bits' = {k - n : k \in {j \in bits : j >= n}}
        BY <3>1 DEF RightShift
      <4>2. ASSUME NEW x \in got'
            PROVE  x \in 0..(recvNxt + n - 1) \/ \E k \in bits' : x = recvNxt + n + k
        BY <3>5, <4>1, <4>2
      <4>3. ASSUME NEW k \in bits' PROVE recvNxt + n + k \in got'
        BY <3>7, <4>1, <4>3
      <4>4. got' = 0..(recvNxt + n - 1) \cup {recvNxt + n + k : k \in bits'}
        BY <3>6, <4>2, <4>3
      <4>5. recvNxt' = recvNxt + n
        BY <3>1
      <4> QED
        BY <3>3, <4>4, <4>5 DEF BitmapSound
    <3>9. \A d \in got' : d < psnCnt'
      BY <2>1, <2>6, <3>2
    <3> QED
      BY <3>8, <3>9 DEF ReceiverSound
  <2> QED
    BY <2>2, <2>3, <2>4, <2>5
<1> QED
  BY <1>1, <1>2, ReceiverStep

\* m_psnRecvNxt advances over packets the sender has numbered only.
LEMMA RecvNxtBelowPsnCnt ==
    ASSUME TypeInv, ChannelInv, NEW i \in DOMAIN dataNet, RecvDataPacket(i)
    PROVE  recvNxt' <= psnCnt
<1> DEFINE psn  == dataNet[i].psn
           data == dataNet[i].data
<1>1. ReceiverOK /\ recvNxt \in Nat /\ psnCnt \in Nat
  BY DEF TypeInv, SenderOK, ReceiverOK
<1>2. recvNxt <= psnCnt /\ \A k \in bits : recvNxt + k < psnCnt
  BY RecvBelowCnt DEF TypeInv, ChannelInv
<1>3. CASE RecvInOrder(psn, data)
  <2>1. PICK n \in 1..OooThreshold : recvNxt' = recvNxt + n /\ \A k \in 1..(n - 1) : k \in bits
    BY <1>1, <1>3, InOrderAdvance
  <2>2. n \in Nat \ {0} /\ (n = 1 \/ n - 1 \in bits)
    BY <2>1, ConstantsAssumption
  <2>3. recvNxt < psnCnt
    BY <1>3, ArrivingPacket DEF RecvInOrder, TypeInv, ChannelInv
  <2> QED
    BY <1>1, <1>2, <2>1, <2>2, <2>3
<1>4. CASE recvNxt' = recvNxt
  BY <1>2, <1>4
<1> QED
  BY <1>3, <1>4 DEF RecvDataPacket, RecvRepeat, RecvOverflow, RecvOutOfOrder, recvVars

LEMMA RecvNxtBelowPsnMod ==
    ASSUME MaxPsn < PsnMod, TypeInv, ChannelInv, [Next]_vars,
           NEW i \in DOMAIN dataNet, RecvDataPacket(i)
    PROVE  recvNxt' < PsnMod
<1>1. recvNxt' \in Nat /\ recvNxt' <= psnCnt
  BY RecvNxtBelowPsnCnt, ReceiverTypeStep DEF TypeInv, ReceiverOK
<1>2. psnCnt \in Nat /\ psnCnt < PsnMod
  BY ConstantsAssumption DEF TypeInv, SenderOK, ChannelInv, CountersSound
<1> QED
  BY <1>1, <1>2, ConstantsAssumption

\* An ack that RecvDataPacket queues is sound.
LEMMA NewAckSound ==
    ASSUME MaxPsn < PsnMod, TypeInv, ChannelInv, [Next]_vars,
           NEW i \in DOMAIN dataNet, RecvDataPacket(i)
    PROVE  ackQ' = ackQ \/ \E a \in 0..(PsnMod - 1) : ackQ' = Append(ackQ, a) /\ (a < recvNxt' \/ a = PsnMod - 1)
<1> DEFINE psn  == dataNet[i].psn
           data == dataNet[i].data
<1>1. recvNxt \in Nat /\ recvNxt' \in Nat /\ recvNxt <= recvNxt' /\ ReceiverOK
  BY CountersGrow, ReceiverTypeStep DEF TypeInv, ReceiverOK
<1>2. recvNxt < PsnMod /\ recvNxt' < PsnMod
  BY <1>1, RecvNxtBelowPsnMod, ConstantsAssumption
<1>3. CASE RecvRepeat(psn)
  <2>1. ackQ' = Append(ackQ, Wire(recvNxt - 1)) /\ recvNxt' = recvNxt
    BY <1>3 DEF RecvRepeat, recvVars
  <2>2. Wire(recvNxt - 1) \in 0..(PsnMod - 1)
    BY <1>1, WireValue
  <2>3. Wire(recvNxt - 1) < recvNxt \/ Wire(recvNxt - 1) = PsnMod - 1
    <3>1. CASE recvNxt = 0
      BY <3>1, WireValue
    <3>2. CASE recvNxt > 0
      <4>1. recvNxt - 1 \in 0..(PsnMod - 1)
        BY <1>1, <1>2, <3>2, ConstantsAssumption
      <4>2. Wire(recvNxt - 1) = recvNxt - 1
        BY <4>1, WireValue
      <4> QED
        BY <1>1, <4>2
    <3> QED
      BY <1>1, <3>1, <3>2
  <2> QED
    BY <1>1, <2>1, <2>2, <2>3
<1>4. CASE RecvInOrder(psn, data)
  <2>1. PICK n \in 1..OooThreshold :
            recvNxt' = recvNxt + n /\ ackQ' = Append(ackQ, Wire(recvNxt + n - 1))
    BY <1>1, <1>4, InOrderAdvance
  <2>2. recvNxt + n - 1 \in 0..(PsnMod - 1) /\ recvNxt + n - 1 < recvNxt'
    BY <1>1, <1>2, <2>1, ConstantsAssumption
  <2>3. Wire(recvNxt + n - 1) = recvNxt + n - 1
    BY <2>2, WireValue
  <2> QED
    BY <2>1, <2>2, <2>3
<1>5. CASE ackQ' = ackQ
  BY <1>5
<1> QED
  BY <1>3, <1>4, <1>5 DEF RecvDataPacket, RecvOverflow, RecvOutOfOrder

LEMMA NetworkSoundStep ==
    ASSUME MaxPsn < PsnMod, TypeInv, ChannelInv, [Next]_vars
    PROVE  NetworkSound'
<1>1. /\ SenderOK /\ NetworkOK /\ psnCnt \in Nat /\ psnCnt' \in Nat /\ psnCnt <= psnCnt'
      /\ recvNxt \in Nat /\ recvNxt' \in Nat /\ recvNxt <= recvNxt'
  BY CountersGrow, SenderStep, ReceiverTypeStep DEF TypeInv, SenderOK, ReceiverOK
<1>2. ASSUME NEW i \in DOMAIN dataNet
      PROVE  dataNet[i].psn = dataNet[i].data /\ dataNet[i].data < psnCnt'
  BY <1>1, <1>2, ArrivingPacket DEF ChannelInv
<1>3. ASSUME NEW i \in DOMAIN ackNet PROVE ackNet[i] < recvNxt' \/ ackNet[i] = PsnMod - 1
  <2>1. ackNet[i] \in 0..(PsnMod - 1) /\ AckSound(ackNet[i])
    BY <1>1, <1>3, SeqElement DEF NetworkOK, ChannelInv, NetworkSound
  <2> QED
    BY <1>1, <2>1 DEF AckSound
<1>4. ASSUME NEW i \in DOMAIN ackQ PROVE ackQ[i] < recvNxt' \/ ackQ[i] = PsnMod - 1
  <2>1. ackQ[i] \in 0..(PsnMod - 1) /\ AckSound(ackQ[i])
    BY <1>1, <1>4, SeqElement DEF NetworkOK, ChannelInv, NetworkSound
  <2> QED
    BY <1>1, <2>1 DEF AckSound
<1>5. \A i \in DOMAIN dataNet' : dataNet'[i].psn = dataNet'[i].data /\ dataNet'[i].data < psnCnt'
  <2>1. CASE GetNextPacket
    <3>1. dataNet' = Append(dataNet, [psn |-> sndNxt, data |-> sndNxt]) /\ sndNxt < psnCnt
      BY <1>1, <2>1, PacketSent DEF TypeInv
    <3> DEFINE p == [psn |-> sndNxt, data |-> sndNxt]
    <3>2. p \in [psn : 0..(PsnMod - 1), data : Nat]
      BY <1>1, <3>1, ConstantsAssumption DEF SenderOK, ChannelInv, CountersSound
    <3>3. p.psn = p.data /\ p.data < psnCnt
      BY <3>1
    <3>4. dataNet' = Append(dataNet, p) /\ psnCnt' = psnCnt
      BY <2>1, <3>1 DEF GetNextPacket
    <3> HIDE DEF p
    <3>5. \A j \in DOMAIN dataNet' : dataNet'[j] = p \/ \E k \in DOMAIN dataNet : dataNet'[j] = dataNet[k]
      BY <1>1, <3>2, <3>4, AppendElements DEF NetworkOK
    <3> QED
      BY <1>2, <3>3, <3>4, <3>5
  <2>2. ASSUME NEW i \in DOMAIN dataNet, dataNet' = RemoveAt(dataNet, i)
        PROVE  \A j \in DOMAIN dataNet' : \E k \in DOMAIN dataNet : dataNet'[j] = dataNet[k]
    BY <1>1, <2>2, RemoveAtElements DEF NetworkOK
  <2>3. CASE dataNet' = dataNet
    BY <1>2, <2>3
  <2> QED
    BY <1>2, <2>1, <2>2, <2>3, Steps DEF PushWqe, ScheduleNothing, ScheduleSegment,
       AllocateNothing, ReTxTimeout, ReTxAbort, RecvDataPacket, SendAck, RecvTpAck, LoseData,
       LoseAck, vars, netVars
<1>6. \A i \in DOMAIN ackQ' : ackQ'[i] < recvNxt' \/ ackQ'[i] = PsnMod - 1
  <2>1. ASSUME NEW i \in DOMAIN dataNet, RecvDataPacket(i)
        PROVE  \A j \in DOMAIN ackQ' : ackQ'[j] < recvNxt' \/ ackQ'[j] = PsnMod - 1
    <3>1. CASE ackQ' = ackQ
      BY <1>4, <3>1
    <3>2. ASSUME NEW a \in 0..(PsnMod - 1), ackQ' = Append(ackQ, a), a < recvNxt' \/ a = PsnMod - 1
          PROVE  \A j \in DOMAIN ackQ' : ackQ'[j] < recvNxt' \/ ackQ'[j] = PsnMod - 1
      <4>1. ackQ \in Seq(0..(PsnMod - 1))
        BY <1>1 DEF NetworkOK
      <4>2. \A j \in DOMAIN Append(ackQ, a) :
                Append(ackQ, a)[j] = a \/ \E k \in DOMAIN ackQ : Append(ackQ, a)[j] = ackQ[k]
        BY <3>2, <4>1, AppendElements
      <4> QED
        BY <1>4, <3>2, <4>2
    <3> QED
      BY <2>1, <3>1, <3>2, NewAckSound
  <2>2. CASE SendAck
    <3>1. \A j \in DOMAIN ackQ' : \E k \in DOMAIN ackQ : ackQ'[j] = ackQ[k]
      BY <1>1, <2>2, HeadTailSeq DEF SendAck, NetworkOK
    <3> QED
      BY <1>4, <3>1
  <2>3. CASE ackQ' = ackQ
    BY <1>4, <2>3
  <2> QED
    BY <2>1, <2>2, <2>3, Steps DEF PushWqe, ScheduleNothing, ScheduleSegment, AllocateNothing,
       GetNextPacket, ReTxTimeout, ReTxAbort, RecvTpAck, LoseData, LoseAck, vars
<1>7. \A i \in DOMAIN ackNet' : ackNet'[i] < recvNxt' \/ ackNet'[i] = PsnMod - 1
  <2>1. CASE SendAck
    <3>1. 1 \in DOMAIN ackQ /\ Head(ackQ) = ackQ[1] /\ Head(ackQ) \in 0..(PsnMod - 1)
      BY <1>1, <2>1, HeadTailSeq DEF SendAck, NetworkOK
    <3>2. \A j \in DOMAIN ackNet' :
              ackNet'[j] = ackQ[1] \/ \E k \in DOMAIN ackNet : ackNet'[j] = ackNet[k]
      <4>1. ackNet \in Seq(0..(PsnMod - 1))
        BY <1>1 DEF NetworkOK
      <4>2. ackNet' = Append(ackNet, ackQ[1]) /\ ackQ[1] \in 0..(PsnMod - 1)
        BY <2>1, <3>1 DEF SendAck
      <4> QED
        BY <4>1, <4>2, AppendElements
    <3> QED
      BY <1>3, <1>4, <3>1, <3>2
  <2>2. ASSUME NEW i \in DOMAIN ackNet, ackNet' = RemoveAt(ackNet, i)
        PROVE  \A j \in DOMAIN ackNet' : \E k \in DOMAIN ackNet : ackNet'[j] = ackNet[k]
    BY <1>1, <2>2, RemoveAtElements DEF NetworkOK
  <2>3. CASE ackNet' = ackNet
    BY <1>3, <2>3
  <2> QED
    BY <1>3, <2>1, <2>2, <2>3, Steps DEF PushWqe, ScheduleNothing, ScheduleSegment,
       AllocateNothing, GetNextPacket, ReTxTimeout, ReTxAbort, RecvDataPacket, RecvTpAck, LoseData,
       LoseAck, vars, netVars
<1> QED
  BY <1>5, <1>6, <1>7 DEF NetworkSound, AckSound

LEMMA CountersSoundStep ==
    ASSUME MaxPsn < PsnMod, TypeInv, ChannelInv, [Next]_vars
    PROVE  CountersSound'
<1>1. /\ SenderOK /\ ReceiverOK /\ NetworkOK /\ CountersSound
      /\ recvNxt \in Nat /\ recvNxt' \in Nat /\ recvNxt <= recvNxt'
      /\ MaxPsn \in Nat /\ PsnMod \in Nat /\ SegPkts \in Nat \ {0} /\ WqeSizes \subseteq Nat
  BY CountersGrow, ReceiverTypeStep, ConstantsAssumption DEF TypeInv, ReceiverOK, ChannelInv
<1> USE DEF CountersSound, SenderOK
<1>2. ASSUME NEW n \in WqeSizes, PushWqe(n) PROVE CountersSound'
  BY <1>1, <1>2 DEF PushWqe, senderVars, windowVars, timerVars, recvVars
<1>3. CASE ScheduleSegment
  BY <1>1, <1>3 DEF ScheduleSegment, timerVars, recvVars
<1>4. CASE GetNextPacket
  <2>1. sndNxt < psnCnt /\ sndUna <= sndNxt
    BY <1>1, <1>4, PacketSent
  <2> QED
    BY <1>1, <1>4, <2>1 DEF GetNextPacket, recvVars
<1>5. CASE ReTxTimeout
  BY <1>1, <1>5 DEF ReTxTimeout, jettyVars, recvVars
<1>6. ASSUME NEW i \in DOMAIN ackNet, RecvTpAck(i) PROVE CountersSound'
  <2>1. ackNet[i] \in 0..(PsnMod - 1) /\ AckSound(ackNet[i])
    BY <1>1, <1>6, SeqElement DEF NetworkOK, ChannelInv, NetworkSound
  <2>2. /\ segs' = Incomplete(sndUna') /\ sndUna' \in Nat
        /\ sndUna' = sndUna \/ sndUna' = ackNet[i] + 1
        /\ timer' => segs' # {}
    <3>1. /\ segs' = Incomplete(sndUna')
          /\ sndUna' = sndUna \/ sndUna' = ackNet[i] + 1
      BY <1>6 DEF RecvTpAck
    <3>2. timer' => segs' # {}
      BY <1>6, Zenon DEF RecvTpAck
    <3> QED
      BY <1>1, <2>1, <3>1, <3>2
  <2>3. UNCHANGED <<backlog, psnCnt, sndNxt, recvNxt>>
    BY <1>6 DEF RecvTpAck, recvVars
  <2>4. sndUna' <= recvNxt' \/ sndUna' = PsnMod
    BY <1>1, <2>1, <2>2, <2>3 DEF AckSound
  <2>5. timer' => sndUna' <= psnCnt'
    <3>1. ASSUME NEW s \in segs' PROVE sndUna' <= psnCnt
      <4>1. s \in segs /\ s \in Segment /\ sndUna' < s.start + s.size
        BY <1>1, <2>2, <3>1 DEF Incomplete
      <4>2. s.start + s.size <= psnCnt
        BY <4>1 DEF ChannelInv, SegmentsSound, SegmentsDisjoint
      <4> QED
        BY <1>1, <2>2, <4>1, <4>2 DEF Segment
    <3> QED
      BY <2>2, <2>3, <3>1
  <2> QED
    BY <1>1, <2>3, <2>4, <2>5
<1>7. ASSUME NEW i \in DOMAIN dataNet, RecvDataPacket(i) PROVE CountersSound'
  BY <1>1, <1>7 DEF RecvDataPacket, jettyVars, senderVars, windowVars, timerVars
<1>8. CASE UNCHANGED <<backlog, psnCnt, sndNxt, sndUna, timer, recvNxt>>
  BY <1>1, <1>8
<1> QED
  BY <1>2, <1>3, <1>4, <1>5, <1>6, <1>7, <1>8, Steps DEF ScheduleNothing, AllocateNothing, ReTxAbort,
     SendAck, LoseData, LoseAck, vars, jettyVars, senderVars, windowVars, timerVars, recvVars

LEMMA ChannelStep ==
    ASSUME MaxPsn < PsnMod, TypeInv, ChannelInv, [Next]_vars
    PROVE  ChannelInv'
  BY SegmentsStep, CountersSoundStep, NetworkSoundStep, ReceiverSoundStep DEF ChannelInv

LEMMA ChannelInvariant ==
    ASSUME MaxPsn < PsnMod
    PROVE  Spec => [](TypeInv /\ ChannelInv)
<1>1. Init => TypeInv /\ ChannelInv
  BY TypeInit, ChannelInit
<1>2. TypeInv /\ ChannelInv /\ [Next]_vars => TypeInv' /\ ChannelInv'
  BY TypeStep, ChannelStep
<1> QED
  BY <1>1, <1>2, PTL DEF Spec

\* Whatever the network loses, repeats or reorders, and however often the sender
\* rolls back, the receiver's m_psnRecvNxt and bitmap describe exactly what has
\* arrived, for every window, bitmap and segment size, until the PSN wraps.
THEOREM ReceiverStateCorrect ==
    ASSUME MaxPsn < PsnMod
    PROVE  Spec => []BitmapSound
<1>1. ChannelInv => BitmapSound
  BY DEF ChannelInv, ReceiverSound
<1> QED
  BY <1>1, ChannelInvariant, PTL

\* GetNextPacket never returns a null packet to the allocator of the port, which
\* enqueues whatever it gets: when IsEmpty and IsLimited let the channel through,
\* a segment has a packet left, even right after a rollback or a late ack.
THEOREM AllocatorGetsAPacket ==
    ASSUME MaxPsn < PsnMod
    PROVE  Spec => []NeverEmptyHanded
<1>1. TypeInv /\ ChannelInv => NeverEmptyHanded
  BY UnsentAtNext DEF TypeInv, NeverEmptyHanded
<1> QED
  BY <1>1, ChannelInvariant, PTL

LEMMA RepeatInGot ==
    ASSUME TypeInv, ChannelInv, NEW i \in DOMAIN dataNet, IsRepeatPacket(dataNet[i].psn)
    PROVE  dataNet[i].data \in got
<1> DEFINE psn == dataNet[i].psn
<1>1. psn \in Nat /\ dataNet[i].data = psn
  BY ArrivingPacket DEF TypeInv, ChannelInv
<1>2. psn < recvNxt \/ psn - recvNxt \in bits
  BY DEF IsRepeatPacket
<1>3. recvNxt \in Nat /\ got = 0..(recvNxt - 1) \cup {recvNxt + k : k \in bits}
  BY DEF TypeInv, ReceiverOK, ChannelInv, ReceiverSound, BitmapSound
<1> HIDE DEF psn
<1>4. CASE psn < recvNxt
  BY <1>1, <1>3, <1>4
<1>5. CASE psn - recvNxt \in bits
  <2>1. psn = recvNxt + (psn - recvNxt)
    BY <1>1, <1>3
  <2> QED
    BY <1>1, <1>3, <1>5, <2>1
<1> QED
  BY <1>2, <1>4, <1>5

\* A packet that IsRepeatPacket takes for a repeated one has arrived before: until
\* the PSN wraps, RecvDataPacket throws away no packet it needs as a repeat.
THEOREM RepeatsAreDuplicates ==
    ASSUME MaxPsn < PsnMod
    PROVE  Spec => []RepeatIsDuplicate
<1>1. TypeInv /\ ChannelInv => RepeatIsDuplicate
  BY RepeatInGot DEF RepeatIsDuplicate
<1> QED
  BY <1>1, ChannelInvariant, PTL

-----------------------------------------------------------------------------
(* Without retransmission, the default, every packet crosses the network   *)
(* once and no ack is ahead of the receiver.                               *)

LEMMA SentOnceInit == Init => SentOnceInv
  BY DEF Init, SentOnceInv, NotAckedAhead, DataSentOnce

\* The network holds a packet once, and only before it arrives.
LEMMA DataSentOnceStep ==
    ASSUME MaxPsn < PsnMod, TypeInv, ChannelInv, SentOnceInv, [Next]_vars
    PROVE  DataSentOnce'
<1> DEFINE Packet == [psn : 0..(PsnMod - 1), data : Nat]
<1>1. /\ dataNet \in Seq(Packet) /\ SenderOK /\ sndNxt \in Nat /\ got \subseteq Nat
      /\ \A i, j \in DOMAIN dataNet : dataNet[i].data = dataNet[j].data => i = j
      /\ \A i \in DOMAIN dataNet : dataNet[i].data < sndNxt /\ dataNet[i].data \notin got
      /\ \A d \in got : d < sndNxt
  BY DEF TypeInv, NetworkOK, SenderOK, ReceiverOK, SentOnceInv, DataSentOnce
<1>2. ASSUME NEW i \in DOMAIN dataNet PROVE dataNet[i].data \in Nat
  <2>1. dataNet[i] \in Packet
    BY <1>1, <1>2, SeqElement
  <2> QED
    BY <2>1
<1>3. CASE GetNextPacket
  <2> DEFINE p == [psn |-> sndNxt, data |-> sndNxt]
  <2>1. dataNet' = Append(dataNet, p) /\ sndNxt < psnCnt
    BY <1>1, <1>3, PacketSent
  <2>2. p \in Packet /\ p.data = sndNxt
    BY <1>1, <2>1, ConstantsAssumption DEF SenderOK, ChannelInv, CountersSound
  <2>3. sndNxt' = sndNxt + 1 /\ got' = got
    BY <1>3 DEF GetNextPacket, recvVars
  <2> HIDE DEF p, Packet
  <2>4. \A j \in DOMAIN dataNet' :
            IF j \in DOMAIN dataNet THEN dataNet'[j] = dataNet[j]
            ELSE dataNet'[j] = p /\ j = Len(dataNet) + 1
    BY <1>1, <2>1, <2>2, AppendSeq
  <2>5. \A i, j \in DOMAIN dataNet' : dataNet'[i].data = dataNet'[j].data => i = j
    BY <1>1, <1>2, <2>2, <2>4
  <2>6. \A i \in DOMAIN dataNet' : dataNet'[i].data < sndNxt + 1 /\ dataNet'[i].data \notin got
    BY <1>1, <1>2, <2>2, <2>4
  <2>7. \A d \in got : d < sndNxt + 1
    BY <1>1
  <2> QED
    BY <2>3, <2>5, <2>6, <2>7 DEF DataSentOnce
<1>4. ASSUME NEW i \in DOMAIN dataNet, dataNet' = RemoveAt(dataNet, i), sndNxt' = sndNxt,
             got' \subseteq got \cup {dataNet[i].data}
      PROVE  DataSentOnce'
  <2> HIDE DEF Packet
  <2>1. \A j, k \in DOMAIN dataNet' : \E a, b \in DOMAIN dataNet :
            /\ a # i /\ b # i /\ (a = b => j = k)
            /\ dataNet'[j] = dataNet[a] /\ dataNet'[k] = dataNet[b]
    BY <1>1, <1>4, RemoveAtInjective
  <2>2. \A j, k \in DOMAIN dataNet' : dataNet'[j].data = dataNet'[k].data => j = k
    BY <1>1, <2>1
  <2>3. ASSUME NEW j \in DOMAIN dataNet'
        PROVE  dataNet'[j].data < sndNxt' /\ dataNet'[j].data \notin got'
    <3>1. PICK a \in DOMAIN dataNet : a # i /\ dataNet'[j] = dataNet[a]
      BY <2>1, <2>3
    <3>2. dataNet[a].data < sndNxt /\ dataNet[a].data \notin got /\ dataNet[a].data # dataNet[i].data
      BY <1>1, <1>4, <3>1
    <3> QED
      BY <1>4, <3>1, <3>2
  <2>4. \A d \in got' : d < sndNxt'
    BY <1>1, <1>4
  <2> QED
    BY <2>2, <2>3, <2>4 DEF DataSentOnce
<1>5. ASSUME NEW i \in DOMAIN dataNet, RecvDataPacket(i) PROVE DataSentOnce'
  <2>1. /\ dataNet' = RemoveAt(dataNet, i) /\ sndNxt' = sndNxt
        /\ got' \subseteq got \cup {dataNet[i].data}
    BY <1>5 DEF RecvDataPacket, RecvRepeat, RecvOverflow, RecvOutOfOrder, RecvInOrder, recvVars,
       senderVars, windowVars
  <2> QED
    BY <1>5, <1>4, <2>1
<1>6. ASSUME NEW i \in DOMAIN dataNet, LoseData(i) PROVE DataSentOnce'
  <2>1. dataNet' = RemoveAt(dataNet, i) /\ sndNxt' = sndNxt /\ got' = got
    BY <1>6 DEF LoseData, recvVars, senderVars, windowVars
  <2> QED
    BY <1>6, <1>4, <2>1
<1>7. CASE UNCHANGED <<dataNet, sndNxt, got>>
  BY <1>1, <1>7 DEF DataSentOnce
<1>8. ~ReTxTimeout
  BY DEF ReTxTimeout, SentOnceInv
<1> QED
  BY <1>3, <1>5, <1>6, <1>7, <1>8, Steps DEF PushWqe, ScheduleNothing, ScheduleSegment,
     AllocateNothing, ReTxAbort, SendAck, RecvTpAck, LoseAck, vars, senderVars, windowVars, recvVars,
     netVars

\* Without retransmission a packet that arrives is never taken for a repeat.
LEMMA NoRepeat ==
    ASSUME TypeInv, ChannelInv, SentOnceInv, NEW i \in DOMAIN dataNet
    PROVE  ~IsRepeatPacket(dataNet[i].psn)
  BY RepeatInGot DEF SentOnceInv, DataSentOnce

LEMMA NotAckedAheadStep ==
    ASSUME MaxPsn < PsnMod, TypeInv, ChannelInv, SentOnceInv, [Next]_vars
    PROVE  NotAckedAhead'
<1>1. /\ NetworkOK /\ SenderOK /\ ReceiverOK /\ sndUna \in Nat /\ sndUna <= recvNxt
      /\ recvNxt \in Nat /\ recvNxt' \in Nat /\ recvNxt <= recvNxt'
  BY CountersGrow, ReceiverTypeStep
     DEF TypeInv, SenderOK, ReceiverOK, SentOnceInv, NotAckedAhead
<1>2. ASSUME NEW i \in DOMAIN ackNet PROVE ackNet[i] \in Nat /\ ackNet[i] < recvNxt
  <2>1. ackNet[i] \in 0..(PsnMod - 1)
    BY <1>1, <1>2, SeqElement DEF NetworkOK
  <2> QED
    BY <2>1 DEF SentOnceInv, NotAckedAhead
<1>3. ASSUME NEW i \in DOMAIN ackQ PROVE ackQ[i] \in Nat /\ ackQ[i] < recvNxt
  <2>1. ackQ[i] \in 0..(PsnMod - 1)
    BY <1>1, <1>3, SeqElement DEF NetworkOK
  <2> QED
    BY <2>1 DEF SentOnceInv, NotAckedAhead
<1>4. sndUna' <= recvNxt'
  <2>1. ASSUME NEW i \in DOMAIN ackNet, RecvTpAck(i) PROVE sndUna' <= recvNxt'
    <3>1. recvNxt' = recvNxt /\ (sndUna' = sndUna \/ sndUna' = ackNet[i] + 1)
      BY <2>1 DEF RecvTpAck, recvVars
    <3> QED
      BY <1>1, <1>2, <3>1
  <2>2. CASE sndUna' = sndUna
    BY <1>1, <2>2
  <2> QED
    BY <2>1, <2>2, Steps DEF PushWqe, ScheduleNothing, ScheduleSegment, AllocateNothing,
       GetNextPacket, ReTxTimeout, ReTxAbort, RecvDataPacket, SendAck, LoseData, LoseAck, vars,
       senderVars, windowVars
<1>5. \A j \in DOMAIN ackQ' : ackQ'[j] < recvNxt'
  <2>1. ASSUME NEW i \in DOMAIN dataNet, RecvDataPacket(i)
        PROVE  \A j \in DOMAIN ackQ' : ackQ'[j] < recvNxt'
    <3>1. CASE ackQ' = ackQ
      BY <1>1, <1>3, <3>1
    <3>2. CASE RecvInOrder(dataNet[i].psn, dataNet[i].data)
      <4>1. PICK n \in 1..OooThreshold :
                recvNxt' = recvNxt + n /\ ackQ' = Append(ackQ, Wire(recvNxt + n - 1))
        BY <1>1, <3>2, InOrderAdvance
      <4>2. recvNxt' < PsnMod
        BY <2>1, RecvNxtBelowPsnMod
      <4>3. recvNxt + n - 1 \in 0..(PsnMod - 1) /\ recvNxt + n - 1 < recvNxt'
        BY <1>1, <4>1, <4>2, ConstantsAssumption
      <4> DEFINE a == Wire(recvNxt + n - 1)
      <4>4. a \in 0..(PsnMod - 1) /\ a < recvNxt'
        BY <4>3, WireValue
      <4> HIDE DEF a
      <4>5. \A j \in DOMAIN Append(ackQ, a) :
                Append(ackQ, a)[j] = a \/ \E k \in DOMAIN ackQ : Append(ackQ, a)[j] = ackQ[k]
        <5>1. ackQ \in Seq(0..(PsnMod - 1))
          BY <1>1 DEF NetworkOK
        <5> QED
          BY <4>4, <5>1, AppendElements
      <4>6. ackQ' = Append(ackQ, a)
        BY <4>1 DEF a
      <4> QED
        BY <1>1, <1>3, <4>4, <4>5, <4>6
    <3> QED
      BY <2>1, <3>1, <3>2, NoRepeat DEF RecvDataPacket, RecvRepeat, RecvOverflow, RecvOutOfOrder
  <2>2. CASE SendAck
    <3>1. \A j \in DOMAIN ackQ' : \E k \in DOMAIN ackQ : ackQ'[j] = ackQ[k]
      BY <1>1, <2>2, HeadTailSeq DEF SendAck, NetworkOK
    <3> QED
      BY <1>1, <1>3, <3>1
  <2>3. CASE ackQ' = ackQ
    BY <1>1, <1>3, <2>3
  <2> QED
    BY <2>1, <2>2, <2>3, Steps DEF PushWqe, ScheduleNothing, ScheduleSegment, AllocateNothing,
       GetNextPacket, ReTxTimeout, ReTxAbort, RecvTpAck, LoseData, LoseAck, vars
<1>6. \A j \in DOMAIN ackNet' : ackNet'[j] < recvNxt'
  <2>1. CASE SendAck
    <3>1. 1 \in DOMAIN ackQ /\ Head(ackQ) = ackQ[1] /\ Head(ackQ) \in 0..(PsnMod - 1)
      BY <1>1, <2>1, HeadTailSeq DEF SendAck, NetworkOK
    <3>2. \A j \in DOMAIN ackNet' :
              ackNet'[j] = ackQ[1] \/ \E k \in DOMAIN ackNet : ackNet'[j] = ackNet[k]
      <4>1. ackNet \in Seq(0..(PsnMod - 1))
        BY <1>1 DEF NetworkOK
      <4>2. ackNet' = Append(ackNet, ackQ[1]) /\ ackQ[1] \in 0..(PsnMod - 1)
        BY <2>1, <3>1 DEF SendAck
      <4> QED
        BY <4>1, <4>2, AppendElements
    <3> QED
      BY <1>1, <1>2, <1>3, <3>1, <3>2
  <2>2. ASSUME NEW i \in DOMAIN ackNet, ackNet' = RemoveAt(ackNet, i)
        PROVE  \A j \in DOMAIN ackNet' : ackNet'[j] < recvNxt'
    <3>1. \A j \in DOMAIN ackNet' : \E k \in DOMAIN ackNet : ackNet'[j] = ackNet[k]
      BY <1>1, <2>2, RemoveAtElements DEF NetworkOK
    <3> QED
      BY <1>1, <1>2, <3>1
  <2>3. CASE ackNet' = ackNet
    BY <1>1, <1>2, <2>3
  <2> QED
    BY <2>1, <2>2, <2>3, Steps DEF PushWqe, ScheduleNothing, ScheduleSegment,
       AllocateNothing, GetNextPacket, ReTxTimeout, ReTxAbort, RecvDataPacket, RecvTpAck, LoseData,
       LoseAck, vars, netVars
<1> QED
  BY <1>4, <1>5, <1>6 DEF NotAckedAhead

LEMMA SentOnceStep ==
    ASSUME MaxPsn < PsnMod, ~EnableRetrans, TypeInv, ChannelInv, SentOnceInv, [Next]_vars
    PROVE  SentOnceInv'
<1>1. ~timer'
  BY Steps, Zenon DEF PushWqe, ScheduleNothing, ScheduleSegment, AllocateNothing, GetNextPacket,
     ReTxTimeout, ReTxAbort, RecvDataPacket, SendAck, RecvTpAck, LoseData, LoseAck, vars,
     senderVars, timerVars, SentOnceInv
<1> QED
  BY <1>1, DataSentOnceStep, NotAckedAheadStep DEF SentOnceInv

LEMMA SentOnceInvariant ==
    ASSUME MaxPsn < PsnMod, ~EnableRetrans
    PROVE  Spec => [](TypeInv /\ ChannelInv /\ SentOnceInv)
<1>1. Init => TypeInv /\ ChannelInv /\ SentOnceInv
  BY TypeInit, ChannelInit, SentOnceInit
<1>2. TypeInv /\ ChannelInv /\ SentOnceInv /\ [Next]_vars
      => TypeInv' /\ ChannelInv' /\ SentOnceInv'
  BY TypeStep, ChannelStep, SentOnceStep
<1> QED
  BY <1>1, <1>2, PTL DEF Spec

\* In the default configuration the sender takes a packet for acknowledged only
\* after the receiver has it, whatever the network loses or reorders.
THEOREM AcksAreHonest ==
    ASSUME MaxPsn < PsnMod, ~EnableRetrans
    PROVE  Spec => []AckedWereReceived
<1>1. SentOnceInv => AckedWereReceived
  BY DEF SentOnceInv, NotAckedAhead, AckedWereReceived
<1> QED
  BY <1>1, SentOnceInvariant, PTL

\* In the default configuration RecvTpAck completes a segment, and with the last
\* one the WQE of the application, only after all its packets have arrived.
THEOREM CompletionsAreHonest ==
    ASSUME MaxPsn < PsnMod, ~EnableRetrans
    PROVE  Spec => []CompletedWereReceived
<1>1. TypeInv /\ ChannelInv /\ SentOnceInv => CompletedWereReceived
  <2> SUFFICES ASSUME TypeInv, ChannelInv, SentOnceInv, NEW d \in 0..(psnCnt - 1),
                      \A s \in segs : d < s.start \/ d >= s.start + s.size
               PROVE  d \in got
    BY DEF CompletedWereReceived
  <2>1. SenderOK /\ psnCnt \in Nat /\ sndUna \in Nat /\ recvNxt \in Nat /\ sndUna <= recvNxt
    BY DEF TypeInv, SenderOK, ReceiverOK, SentOnceInv, NotAckedAhead
  <2>2. d < sndUna
    <3> SUFFICES ASSUME d >= sndUna PROVE FALSE
      BY <2>1
    <3>1. PICK s \in segs : Covers(s, d)
      BY <2>1 DEF ChannelInv, SegmentsSound, SegmentsCoverUna
    <3> QED
      BY <2>1, <3>1 DEF Covers, SenderOK, Segment
  <2> QED
    BY <2>1, <2>2 DEF ChannelInv, ReceiverSound, BitmapSound
<1> QED
  BY <1>1, SentOnceInvariant, PTL

\* In the default configuration the channel implements reliable transfer: m_tpPsnCnt,
\* m_psnRecvNxt and m_psnSndUna are what is accepted, delivered and confirmed.
THEOREM ChannelIsReliable ==
    ASSUME MaxPsn < PsnMod, ~EnableRetrans
    PROVE  Spec => ReliableSpec
<1>1. Init => Reliable!Init
  BY DEF Init, Reliable!Init
<1>2. TypeInv /\ ChannelInv /\ SentOnceInv /\ [Next]_vars => [Reliable!Next]_(Reliable!vars)
  <2> SUFFICES ASSUME TypeInv, ChannelInv, SentOnceInv, [Next]_vars
               PROVE  [Reliable!Next]_(Reliable!vars)
    OBVIOUS
  <2> USE DEF Reliable!Next, Reliable!Accept, Reliable!Deliver, Reliable!Confirm, Reliable!vars
  <2>1. /\ psnCnt \in Nat /\ psnCnt' \in Nat /\ psnCnt <= psnCnt'
        /\ recvNxt \in Nat /\ recvNxt' \in Nat /\ recvNxt <= recvNxt'
        /\ sndUna \in Nat /\ sndUna' \in Nat /\ sndUna <= sndUna'
    BY CountersGrow, TypeStep DEF TypeInv, SenderOK, ReceiverOK
  <2>2. CASE ScheduleSegment
    BY <2>1, <2>2 DEF ScheduleSegment, recvVars
  <2>3. ASSUME NEW i \in DOMAIN dataNet, RecvDataPacket(i) PROVE [Reliable!Next]_(Reliable!vars)
    BY <2>1, <2>3, RecvNxtBelowPsnCnt DEF RecvDataPacket, senderVars, windowVars
  <2>4. ASSUME NEW i \in DOMAIN ackNet, RecvTpAck(i) PROVE [Reliable!Next]_(Reliable!vars)
    <3>1. psnCnt' = psnCnt /\ recvNxt' = recvNxt
      BY <2>4 DEF RecvTpAck, recvVars
    <3>2. sndUna' <= recvNxt'
      BY SentOnceStep DEF SentOnceInv, NotAckedAhead
    <3> QED
      BY <2>1, <3>1, <3>2
  <2>5. CASE UNCHANGED <<psnCnt, recvNxt, sndUna>>
    BY <2>5
  <2> QED
    BY <2>2, <2>3, <2>4, <2>5, Steps DEF PushWqe, ScheduleNothing, AllocateNothing, GetNextPacket,
       ReTxTimeout, ReTxAbort, SendAck, LoseData, LoseAck, vars, senderVars, windowVars, recvVars
<1> QED
  BY <1>1, <1>2, SentOnceInvariant, PTL DEF Spec, ReliableSpec, Reliable!Spec

\* With or without retransmission, on a network that loses, repeats and reorders
\* as it likes, the channel implements reliable transfer but for the one ack of
\* PSN 0 - 1: RecvTpAck confirms nothing else that has not been delivered.
THEOREM OnlyUnderflowIsUnreliable ==
    ASSUME MaxPsn < PsnMod
    PROVE  Spec => ReliableButForUnderflow
<1>1. Init => Reliable!Init
  BY DEF Init, Reliable!Init
<1>2. TypeInv /\ ChannelInv /\ [Next]_vars => [Reliable!Next \/ ConfirmUnderflow]_(Reliable!vars)
  <2> SUFFICES ASSUME TypeInv, ChannelInv, [Next]_vars
               PROVE  [Reliable!Next \/ ConfirmUnderflow]_(Reliable!vars)
    OBVIOUS
  <2> USE DEF Reliable!Next, Reliable!Accept, Reliable!Deliver, Reliable!Confirm, Reliable!vars
  <2>1. /\ psnCnt \in Nat /\ psnCnt' \in Nat /\ psnCnt <= psnCnt'
        /\ recvNxt \in Nat /\ recvNxt' \in Nat /\ recvNxt <= recvNxt'
        /\ sndUna \in Nat /\ sndUna' \in Nat /\ sndUna <= sndUna'
    BY CountersGrow, TypeStep DEF TypeInv, SenderOK, ReceiverOK
  <2>2. CASE ScheduleSegment
    BY <2>1, <2>2 DEF ScheduleSegment, recvVars
  <2>3. ASSUME NEW i \in DOMAIN dataNet, RecvDataPacket(i) PROVE [Reliable!Next]_(Reliable!vars)
    BY <2>1, <2>3, RecvNxtBelowPsnCnt DEF RecvDataPacket, senderVars, windowVars
  <2>4. ASSUME NEW i \in DOMAIN ackNet, RecvTpAck(i)
        PROVE  [Reliable!Next \/ ConfirmUnderflow]_(Reliable!vars)
    <3>1. psnCnt' = psnCnt /\ recvNxt' = recvNxt
      BY <2>4 DEF RecvTpAck, recvVars
    <3>2. sndUna' <= recvNxt' \/ sndUna' = PsnMod
      BY CountersSoundStep DEF CountersSound
    <3>3. CASE sndUna' <= recvNxt'
      BY <2>1, <3>1, <3>3
    <3>4. CASE sndUna' = PsnMod
      BY <3>1, <3>4 DEF ConfirmUnderflow
    <3> QED
      BY <3>2, <3>3, <3>4
  <2>5. CASE UNCHANGED <<psnCnt, recvNxt, sndUna>>
    BY <2>5
  <2> QED
    BY <2>2, <2>3, <2>4, <2>5, Steps DEF PushWqe, ScheduleNothing, AllocateNothing, GetNextPacket,
       ReTxTimeout, ReTxAbort, SendAck, LoseData, LoseAck, vars, senderVars, windowVars, recvVars
<1> QED
  BY <1>1, <1>2, ChannelInvariant, PTL DEF Spec, ReliableButForUnderflow, Reliable!Init

(***************************************************************************)
(* UbTransport forgets nobody: no trigger of the port, no scheduling round *)
(* and no timer is lost, and the receiver's bitmap holds the window.       *)
(***************************************************************************)

-----------------------------------------------------------------------------
(* The trigger of the port.                                                *)

LEMMA WakeupStep ==
    ASSUME WakeupInv, [Next]_vars PROVE WakeupInv'
<1> USE DEF WakeupInv, IsEmpty, IsInflightLimited, windowVars, senderVars, timerVars
<1>1. ASSUME NEW n \in WqeSizes, PushWqe(n) PROVE WakeupInv'
  BY <1>1 DEF PushWqe
<1>2. CASE ScheduleNothing
  BY <1>2 DEF ScheduleNothing
<1>3. CASE ScheduleSegment
  BY <1>3 DEF ScheduleSegment
<1>4. CASE AllocateNothing
  BY <1>4, Zenon DEF AllocateNothing
<1>5. CASE GetNextPacket
  BY <1>5 DEF GetNextPacket
<1>6. CASE ReTxTimeout
  BY <1>6 DEF ReTxTimeout
<1>7. CASE ReTxAbort
  BY <1>7 DEF ReTxAbort
<1>8. ASSUME NEW i \in DOMAIN dataNet, RecvDataPacket(i) PROVE WakeupInv'
  BY <1>8 DEF RecvDataPacket
<1>9. CASE SendAck
  BY <1>9 DEF SendAck
<1>10. ASSUME NEW i \in DOMAIN ackNet, RecvTpAck(i) PROVE WakeupInv'
  <2> DEFINE una == ackNet[i] + 1
  <2>1. /\ segs' \subseteq segs /\ psnCnt' = psnCnt /\ sndNxt' = sndNxt /\ aborted' = aborted
        /\ sndUna' = IF una > sndUna THEN una ELSE sndUna
        /\ windowLimited' = (windowLimited /\ ~Reopens(una))
        /\ trigger' = (trigger \/ Reopens(una) \/ Caqm)
    BY <1>10 DEF RecvTpAck, Incomplete
  <2> HIDE DEF una
  <2> SUFFICES ASSUME ~aborted', ~IsEmpty', ~trigger'
               PROVE  windowLimited' /\ IsInflightLimited'
    BY Zenon
  <2>2. ~trigger /\ ~Reopens(una)
    BY <2>1, Zenon
  <2>3. ~IsEmpty
    BY <2>1
  <2>4. windowLimited /\ IsInflightLimited
    BY <2>1, <2>2, <2>3, Zenon
  <2>5. windowLimited'
    BY <2>1, <2>2, <2>4, Zenon
  <2>6. CASE una > sndUna
    BY <2>1, <2>2, <2>4, <2>6 DEF Reopens
  <2>7. CASE ~(una > sndUna)
    BY <2>1, <2>4, <2>7
  <2> QED
    BY <2>5, <2>6, <2>7
<1>11. ASSUME NEW i \in DOMAIN dataNet, LoseData(i) PROVE WakeupInv'
  BY <1>11 DEF LoseData
<1>12. ASSUME NEW i \in DOMAIN ackNet, LoseAck(i) PROVE WakeupInv'
  BY <1>12 DEF LoseAck
<1>13. CASE UNCHANGED vars
  BY <1>13 DEF vars
<1> QED
  BY <1>1, <1>2, <1>3, <1>4, <1>5, <1>6, <1>7, <1>8, <1>9, <1>10, <1>11, <1>12, <1>13, Steps

\* A channel with a packet to send and an open window always has a round of the
\* allocator pending, for every window, vector and number of losses: between
\* m_sendWindowLimited, RecvTpAck and ReTxTimeout no trigger is lost.
THEOREM NoTriggerIsLost == Spec => []NoLostTrigger
<1>1. Init => WakeupInv
  BY DEF Init, WakeupInv, IsEmpty
<1>2. WakeupInv /\ [Next]_vars => WakeupInv'
  BY WakeupStep
<1>3. WakeupInv => NoLostTrigger
  BY DEF WakeupInv, NoLostTrigger
<1> QED
  BY <1>1, <1>2, <1>3, PTL DEF Spec

-----------------------------------------------------------------------------
(* The scheduling round of the jetty.                                      *)

\* Segments start at different packets.
LEMMA StartsDiffer ==
    ASSUME SenderOK, ChannelInv, NEW s \in segs, NEW t \in segs, s.start = t.start
    PROVE  s = t
<1>1. s \in Segment /\ t \in Segment
  BY DEF SenderOK
<1> QED
  BY <1>1 DEF ChannelInv, SegmentsSound, SegmentsDisjoint, Segment

\* Cutting a packet from a segment keeps the number of segments.
LEMMA CutKeepsCount ==
    ASSUME SenderOK, ChannelInv, IsFiniteSet(segs), GetNextPacket
    PROVE  IsFiniteSet(segs') /\ Cardinality(segs') = Cardinality(segs)
<1> DEFINE c == CurrentSegment
           d == [c EXCEPT !.sent = @ + 1]
<1>1. c \in segs /\ c \in Segment
  BY CurrentSegmentFirst DEF GetNextPacket, Unsent, SenderOK
<1>2. segs' = (segs \ {c}) \cup {d}
  BY DEF GetNextPacket
<1>3. d.start = c.start
  BY <1>1 DEF Segment
<1> HIDE DEF c, d
<1>4. d \notin segs \ {c}
  BY <1>1, <1>3, StartsDiffer
<1>5. /\ IsFiniteSet(segs \ {c}) /\ Cardinality(segs \ {c}) = Cardinality(segs) - 1
      /\ Cardinality(segs) \in Nat
  BY <1>1, FS_RemoveElement, FS_CardinalityType
<1>6. IsFiniteSet((segs \ {c}) \cup {d}) /\ Cardinality((segs \ {c}) \cup {d}) = Cardinality(segs \ {c}) + 1
  BY <1>4, <1>5, FS_AddElement
<1> QED
  BY <1>2, <1>5, <1>6

\* So does the rollback of a timeout.
LEMMA RewindKeepsCount ==
    ASSUME SenderOK, ChannelInv, IsFiniteSet(segs), ReTxTimeout
    PROVE  IsFiniteSet(segs') /\ Cardinality(segs') = Cardinality(segs)
<1> DEFINE f == [s \in segs |-> Rewind(s)]
<1>1. segs' = {Rewind(s) : s \in segs}
  BY DEF ReTxTimeout
<1>2. \A s \in segs : Rewind(s).start = s.start
  BY DEF SenderOK, Segment, Rewind
<1>3. f \in Surjection(segs, segs')
  BY <1>1 DEF Surjection
<1>4. f \in Injection(segs, segs')
  <2>1. ASSUME NEW s \in segs, NEW t \in segs, f[s] = f[t] PROVE s = t
    BY <1>2, <2>1, StartsDiffer
  <2> QED
    BY <1>1, <2>1 DEF Injection, IsInjective
<1> HIDE DEF f
<1> QED
  BY <1>3, <1>4, FS_Surjection

LEMMA RequestStep ==
    ASSUME SenderOK, ChannelInv, RequestInv, [Next]_vars PROVE RequestInv'
<1> USE DEF RequestInv, IsWqeSegmentLimited, windowVars, senderVars, timerVars, jettyVars
<1>1. ASSUME NEW n \in WqeSizes, PushWqe(n) PROVE RequestInv'
  BY <1>1 DEF PushWqe
<1>2. CASE ScheduleNothing
  <2>1. backlog > 0 => IsWqeSegmentLimited(segs)
    BY <1>2 DEF ScheduleNothing
  <2>2. /\ tpFull' = (tpFull \/ IsWqeSegmentLimited(segs))
        /\ UNCHANGED <<segs, backlog>>
    BY <1>2, Zenon DEF ScheduleNothing
  <2> QED
    BY <2>1, <2>2, Zenon
<1>3. CASE ScheduleSegment
  BY <1>3, FS_AddElement DEF ScheduleSegment
<1>4. CASE AllocateNothing
  BY <1>4 DEF AllocateNothing
<1>5. CASE GetNextPacket
  <2>1. backlog' = backlog /\ tpFull' = tpFull /\ aborted' = aborted /\ (scheduled => scheduled')
    BY <1>5 DEF GetNextPacket
  <2> QED
    BY <1>5, <2>1, CutKeepsCount
<1>6. CASE ReTxTimeout
  <2>1. UNCHANGED <<backlog, scheduled, tpFull, aborted>>
    BY <1>6 DEF ReTxTimeout
  <2> QED
    BY <1>6, <2>1, RewindKeepsCount
<1>7. CASE ReTxAbort
  BY <1>7 DEF ReTxAbort
<1>8. ASSUME NEW i \in DOMAIN dataNet, RecvDataPacket(i) PROVE RequestInv'
  BY <1>8 DEF RecvDataPacket
<1>9. CASE SendAck
  BY <1>9 DEF SendAck
<1>10. ASSUME NEW i \in DOMAIN ackNet, RecvTpAck(i) PROVE RequestInv'
  <2> DEFINE una  == ackNet[i] + 1
             left == Incomplete(IF una > sndUna THEN una ELSE sndUna)
             room == tpFull /\ ~IsWqeSegmentLimited(left)
  <2>1. left \subseteq segs
    BY DEF Incomplete
  <2>2. /\ segs' = left /\ backlog' = backlog /\ aborted' = aborted
        /\ tpFull' = (tpFull /\ ~room)
        /\ scheduled' = (scheduled \/ room \/ (left # segs /\ Cardinality(left) < 2))
    BY <1>10 DEF RecvTpAck
  <2> HIDE DEF left
  <2>3. IsFiniteSet(segs')
    BY <2>1, <2>2, FS_Subset
  <2>4. ASSUME ~aborted', backlog' > 0, ~scheduled' PROVE tpFull' /\ IsWqeSegmentLimited(segs')
    <3>1. ~scheduled /\ ~room
      BY <2>2, <2>4, Zenon
    <3>2. tpFull
      BY <2>2, <2>4, <3>1
    <3> QED
      BY <2>2, <3>1, <3>2, Zenon
  <2> QED
    BY <2>3, <2>4
<1>11. ASSUME NEW i \in DOMAIN dataNet, LoseData(i) PROVE RequestInv'
  BY <1>11 DEF LoseData
<1>12. ASSUME NEW i \in DOMAIN ackNet, LoseAck(i) PROVE RequestInv'
  BY <1>12 DEF LoseAck
<1>13. CASE UNCHANGED vars
  BY <1>13 DEF vars
<1> QED
  BY <1>1, <1>2, <1>3, <1>4, <1>5, <1>6, <1>7, <1>8, <1>9, <1>10, <1>11, <1>12, <1>13, Steps

\* A jetty with packets left and a channel with room for a segment always have a
\* ScheduleWqeSegment pending: m_tpFullFlag loses no request, with or without
\* retransmission, whatever is lost.
THEOREM NoRequestIsLost ==
    ASSUME MaxPsn < PsnMod
    PROVE  Spec => []NoLostRequest
<1>1. Init => RequestInv
  BY FS_EmptySet DEF Init, RequestInv
<1>2. TypeInv /\ ChannelInv /\ RequestInv /\ [Next]_vars => RequestInv'
  BY RequestStep DEF TypeInv
<1>3. RequestInv => NoLostRequest
  BY DEF RequestInv, NoLostRequest
<1> QED
  BY <1>1, <1>2, <1>3, TypeInvariant, ChannelInvariant, PTL DEF Spec
-----------------------------------------------------------------------------
(* The retransmission timer.                                               *)

LEMMA TimerStep ==
    ASSUME MaxPsn < PsnMod, TypeInv, ChannelInv, TimerCoversInflight, [Next]_vars
    PROVE  TimerCoversInflight'
<1> USE DEF TimerCoversInflight, windowVars, senderVars, timerVars
<1>1. ASSUME NEW n \in WqeSizes, PushWqe(n) PROVE TimerCoversInflight'
  BY <1>1 DEF PushWqe
<1>2. CASE ScheduleNothing
  BY <1>2 DEF ScheduleNothing
<1>3. CASE ScheduleSegment
  BY <1>3 DEF ScheduleSegment
<1>4. CASE AllocateNothing
  BY <1>4 DEF AllocateNothing
<1>5. CASE GetNextPacket
  <2>1. timer' = (timer \/ EnableRetrans)
    BY <1>5 DEF GetNextPacket
  <2>2. segs' # {}
    BY <1>5 DEF GetNextPacket
  <2> QED
    BY <2>1, <2>2, Zenon
<1>6. CASE ReTxTimeout
  <2>1. timer /\ timer' = timer /\ aborted' = aborted /\ segs' = {Rewind(s) : s \in segs}
    BY <1>6 DEF ReTxTimeout
  <2>2. sndNxt' = sndUna' /\ sndUna' \in Nat
    BY <1>6 DEF ReTxTimeout, TypeInv, SenderOK
  <2> QED
    BY <2>1, <2>2
<1>7. CASE ReTxAbort
  BY <1>7 DEF ReTxAbort
<1>8. ASSUME NEW i \in DOMAIN dataNet, RecvDataPacket(i) PROVE TimerCoversInflight'
  BY <1>8 DEF RecvDataPacket
<1>9. CASE SendAck
  BY <1>9 DEF SendAck
<1>10. ASSUME NEW i \in DOMAIN ackNet, RecvTpAck(i) PROVE TimerCoversInflight'
  <2> DEFINE una == ackNet[i] + 1
             new == una > sndUna
  <2>1. /\ sndNxt' = sndNxt /\ psnCnt' = psnCnt /\ aborted' = aborted
        /\ sndUna' = IF new THEN una ELSE sndUna
        /\ timer' = (EnableRetrans /\ (timer \/ new) /\ segs' # {})
    BY <1>10 DEF RecvTpAck
  <2>2. sndUna' \in Nat /\ sndNxt \in Nat /\ psnCnt \in Nat /\ sndNxt <= psnCnt
    BY TypeStep DEF TypeInv, SenderOK, ChannelInv, CountersSound
  <2>3. SegmentsCoverUna'
    BY ChannelStep DEF ChannelInv, SegmentsSound
  <2>4. sndUna' < sndNxt' => segs' # {}
    BY <2>1, <2>2, <2>3 DEF SegmentsCoverUna
  <2> HIDE DEF new
  <2>5. ASSUME EnableRetrans, ~aborted', sndUna' < sndNxt' PROVE timer'
    <3>1. new \/ timer
      BY <2>1, <2>5
    <3> QED
      BY <2>1, <2>4, <2>5, <3>1, Zenon
  <2>6. ASSUME timer' PROVE segs' # {}
    BY <2>1, <2>6, Zenon
  <2> QED
    BY <2>5, <2>6
<1>11. ASSUME NEW i \in DOMAIN dataNet, LoseData(i) PROVE TimerCoversInflight'
  BY <1>11 DEF LoseData
<1>12. ASSUME NEW i \in DOMAIN ackNet, LoseAck(i) PROVE TimerCoversInflight'
  BY <1>12 DEF LoseAck
<1>13. CASE UNCHANGED vars
  BY <1>13 DEF vars
<1> QED
  BY <1>1, <1>2, <1>3, <1>4, <1>5, <1>6, <1>7, <1>8, <1>9, <1>10, <1>11, <1>12, <1>13, Steps

\* With retransmission enabled the timer runs whenever a packet is outstanding, so
\* a lost packet is always found, and it is cancelled with the last segment.
THEOREM TimerIsArmed ==
    ASSUME MaxPsn < PsnMod
    PROVE  Spec => []TimerCoversInflight
<1>1. Init => TimerCoversInflight
  BY DEF Init, TimerCoversInflight
<1>2. TypeInv /\ ChannelInv /\ TimerCoversInflight /\ [Next]_vars => TimerCoversInflight'
  BY TimerStep
<1> QED
  BY <1>1, <1>2, TypeInvariant, ChannelInvariant, PTL DEF Spec

-----------------------------------------------------------------------------
(* The window and the bitmap.                                              *)

LEMMA WindowStep ==
    ASSUME MaxPsn < PsnMod, TypeInv, ChannelInv, SentWithinWindow, [Next]_vars
    PROVE  SentWithinWindow'
<1> USE DEF SentWithinWindow, windowVars, senderVars
<1>1. /\ sndNxt \in Nat /\ sndUna \in Nat /\ sndNxt' \in Nat /\ sndUna' \in Nat
      /\ MaxInflight \in Nat
  BY TypeStep, ConstantsAssumption DEF TypeInv, SenderOK
<1>2. CASE GetNextPacket
  BY <1>1, <1>2 DEF GetNextPacket, IsInflightLimited, InflightLimited
<1>3. CASE ReTxTimeout
  BY <1>1, <1>3 DEF ReTxTimeout
<1>4. CASE sndNxt' = sndNxt
  <2>1. sndUna <= sndUna'
    BY CountersGrow
  <2>2. sndNxt <= sndUna + MaxInflight
    OBVIOUS
  <2>3. \A m, n, k, w \in Nat : m <= n /\ k <= m + w => k <= n + w
    OBVIOUS
  <2>4. sndNxt <= sndUna' + MaxInflight
    BY <1>1, <2>1, <2>2, <2>3
  <2> QED
    BY <1>4, <2>4
<1> QED
  BY <1>2, <1>3, <1>4, Steps DEF PushWqe, ScheduleNothing, ScheduleSegment, AllocateNothing,
     ReTxAbort, RecvDataPacket, SendAck, RecvTpAck, LoseData, LoseAck, vars

\* In the default configuration a bitmap at least as wide as the window takes every
\* packet that arrives: RecvDataPacket never drops one for being past its end.
THEOREM BitmapHoldsTheWindow ==
    ASSUME MaxPsn < PsnMod, ~EnableRetrans, MaxInflight <= OooThreshold
    PROVE  Spec => []WindowFitsBitmap
<1>1. Init => SentWithinWindow
  BY ConstantsAssumption DEF Init, SentWithinWindow
<1>2. TypeInv /\ ChannelInv /\ SentWithinWindow /\ [Next]_vars => SentWithinWindow'
  BY WindowStep
<1>3. TypeInv /\ ChannelInv /\ SentOnceInv /\ SentWithinWindow => WindowFitsBitmap
  <2> SUFFICES ASSUME TypeInv, ChannelInv, SentOnceInv, SentWithinWindow, NEW i \in DOMAIN dataNet
               PROVE  dataNet[i].psn < recvNxt + OooThreshold
    BY DEF WindowFitsBitmap
  <2>1. dataNet[i].psn = dataNet[i].data /\ dataNet[i].data < sndNxt /\ sndUna <= recvNxt
    BY DEF ChannelInv, NetworkSound, SentOnceInv, DataSentOnce, NotAckedAhead
  <2>2. dataNet[i].psn \in Nat
    <3>1. dataNet[i] \in [psn : 0..(PsnMod - 1), data : Nat]
      BY SeqElement DEF TypeInv, NetworkOK
    <3> QED
      BY <3>1, ConstantsAssumption
  <2>3. sndNxt \in Nat /\ sndUna \in Nat /\ recvNxt \in Nat /\ MaxInflight \in Nat /\ OooThreshold \in Nat
    BY ConstantsAssumption DEF TypeInv, SenderOK, ReceiverOK
  <2> QED
    BY <2>1, <2>2, <2>3 DEF SentWithinWindow
<1> QED
  BY <1>1, <1>2, <1>3, SentOnceInvariant, PTL DEF Spec

=============================================================================
