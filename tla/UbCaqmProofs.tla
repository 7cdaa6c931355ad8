---------------------------- MODULE UbCaqmProofs ----------------------------
(***************************************************************************)
(* Proofs about UbCaqm, for every value of its constants.                  *)
(***************************************************************************)
EXTENDS UbCaqm, SequenceLemmas, FiniteSetTheorems, TLAPS

-----------------------------------------------------------------------------
(* Lemmas about the operators of the module.                               *)

\* What CaqmAssumption says of the payload of the first n packets.
LEMMA BytesValue ==
    /\ \A n \in 0..MaxPsn : Bytes[n] \in Nat
    /\ \A m, n \in 0..MaxPsn : m <= n => Bytes[m] <= Bytes[n]
    /\ \A m, n \in 0..MaxPsn : m <= n /\ n - m <= MaxInflight => Bytes[n] - Bytes[m] <= WindowBytes
    /\ \A n \in 0..(MaxPsn - 1) : Payload(n) \in 1..Mtu
    /\ MaxPsn \in Nat /\ MaxInflight \in Nat
<1>1. \A n \in 0..(MaxPsn - 1) : n + 1 \in 1..MaxPsn /\ (n + 1) - 1 = n
  BY CaqmAssumption
<1>2. \A n \in 1..MaxPsn : Bytes[n] - Bytes[n - 1] \in 1..Mtu
  BY CaqmAssumption, Zenon
<1>3. \A n \in 0..(MaxPsn - 1) : Payload(n) \in 1..Mtu
  BY <1>1, <1>2 DEF Payload
<1>4. \A n \in 0..MaxPsn : Bytes[n] \in Nat
  BY CaqmAssumption
<1>5. \A m, n \in 0..MaxPsn :
          m <= n => /\ Bytes[m] <= Bytes[n]
                    /\ n - m <= MaxInflight => Bytes[n] - Bytes[m] <= WindowBytes
  BY CaqmAssumption, Zenon
<1> QED
  BY <1>3, <1>4, <1>5, CaqmAssumption

\* The window in bytes, and what it leaves of the 32 bits of a count.
LEMMA WindowValue ==
    /\ WindowBytes \in Nat /\ ResetNum \in Nat /\ ResetThreshold \in Nat /\ FieldMod \in Nat
    /\ WindowBytes < ResetNum /\ ResetNum <= ResetThreshold - WindowBytes
    /\ ResetThreshold + WindowBytes < FieldMod
<1>1. MaxInflight \in Nat /\ Mtu \in Nat
  BY CaqmAssumption
<1>2. WindowBytes \in Nat
  BY <1>1 DEF WindowBytes
<1> HIDE DEF WindowBytes
<1> QED
  BY <1>2, CaqmAssumption

\* The header of a packet in the network is one of three.
LEMMA HeaderValue ==
    ASSUME NEW p \in data, NetworkOK, NEW h \in SwitchForwardPacket(p)
    PROVE  h \in Header
<1>1. p.hint \in Nat
  BY DEF NetworkOK
<1> QED
  BY <1>1 DEF SwitchForwardPacket, Header

\* A packet goes to the records of the receiver.
LEMMA RecordValue ==
    ASSUME ReceiverOK, NEW psn \in recvNxt..(MaxPsn - 1), NEW h \in Header
    PROVE  /\ DOMAIN Record(psn, h) = DOMAIN recorded \cup {psn}
           /\ \A n \in DOMAIN Record(psn, h) :
                  n \in recvNxt..(MaxPsn - 1) /\ Record(psn, h)[n] \in Header
           /\ Record(psn, h)[psn] = h
<1>1. DOMAIN Record(psn, h) = DOMAIN recorded \cup {psn}
  BY DEF Record
<1>2. \A n \in DOMAIN Record(psn, h) : Record(psn, h)[n] = IF n = psn THEN h ELSE recorded[n]
  BY DEF Record
<1>3. recvNxt \in Nat /\ MaxPsn \in Nat
  BY BytesValue DEF ReceiverOK
<1>4. \A n \in DOMAIN recorded : n \in recvNxt..(MaxPsn - 1) /\ recorded[n] \in Header
  BY <1>3 DEF ReceiverOK
<1> QED
  BY <1>1, <1>2, <1>4

\* The receiver advances to the first packet that is missing.
LEMMA NextMissingValue ==
    ASSUME NEW all, recvNxt \in 0..MaxPsn, recvNxt \in DOMAIN all,
           DOMAIN all \subseteq 0..(MaxPsn - 1)
    PROVE  /\ NextMissing(all) \in (recvNxt + 1)..MaxPsn
           /\ NextMissing(all) \notin DOMAIN all
           /\ recvNxt..(NextMissing(all) - 1) \subseteq DOMAIN all
<1>1. MaxPsn \in Nat
  BY CaqmAssumption
<1> DEFINE missing == {n \in (recvNxt + 1)..MaxPsn : n \notin DOMAIN all}
<1>2. MaxPsn \in missing /\ missing \subseteq Nat
  BY <1>1
<1>3. PICK n \in missing : \A k \in missing : n <= k
  BY <1>2, LeastNatural
<1>4. recvNxt..(n - 1) \subseteq DOMAIN all
  BY <1>1, <1>3
<1>5. \E m \in (recvNxt + 1)..MaxPsn : m \notin DOMAIN all /\ recvNxt..(m - 1) \subseteq DOMAIN all
  BY <1>3, <1>4
<1> QED
  BY <1>5 DEF NextMissing

\* A count stays below the threshold of its reset.
LEMMA AdvanceValue ==
    ASSUME NEW seq \in 0..ResetThreshold, NEW size \in 0..WindowBytes
    PROVE  Advance(seq, size) \in 0..ResetThreshold
  BY WindowValue DEF Advance

\* An ack over packets that have arrived.
LEMMA AckValue ==
    ASSUME NEW all, NEW a \in Nat, NEW b \in Nat, NEW psn \in 0..(MaxPsn - 1), NEW seq \in Nat
    PROVE  /\ RecverGenAckCeTphHeader(all, a..b, psn, seq) \in Ack
           /\ RecverGenAckCeTphHeader(all, a..b, psn, seq).psn = psn
           /\ RecverGenAckCeTphHeader(all, a..b, psn, seq).seq = seq
<1>0. IsFiniteSet(a..b)
  BY FS_Interval
<1>1. ASSUME NEW T, T \subseteq a..b PROVE Cardinality(T) \in Nat
  <2>1. IsFiniteSet(T)
    BY <1>0, <1>1, FS_Subset
  <2> QED
    BY <2>1, FS_CardinalityType
<1> DEFINE marked == Cardinality({n \in a..b : all[n].c = 1})
           bytes  == GrantedBytes(all, a..b)
<1>2. marked \in Nat
  BY <1>1
<1>3. Cardinality(Granted(all, a..b, Mtu)) \in Nat /\ Cardinality(Granted(all, a..b, 1)) \in Nat
  BY <1>1 DEF Granted
<1>4. bytes \in Nat
  BY <1>3, CaqmAssumption DEF GrantedBytes
<1> HIDE DEF marked, bytes
<1>5. marked % CMod \in Nat /\ bytes % HintMod \in Nat
  BY <1>2, <1>4, CaqmAssumption
<1> QED
  BY <1>5 DEF RecverGenAckCeTphHeader, Ack, marked, bytes

\* The window never falls below one packet.
LEMMA ShrunkValue ==
    ASSUME NEW window \in Nat, NEW c \in Nat
    PROVE  Shrunk(window, c) \in Nat /\ Shrunk(window, c) >= Mtu
<1>1. Mtu \in Nat /\ BetaMtu \in Nat /\ GammaMtu \in Nat
  BY CaqmAssumption
<1>2. c * BetaMtu \in Int
  BY <1>1
<1> QED
  BY <1>1, <1>2 DEF Shrunk, Larger

-----------------------------------------------------------------------------
(* Type correctness.                                                       *)

LEMMA TypeInit == Init => TypeOK
<1> SUFFICES ASSUME Init PROVE TypeOK
  OBVIOUS
<1>0. MaxPsn \in Nat /\ ResetThreshold \in Nat /\ InitCwnd \in Nat /\ Carried \subseteq 0..ResetThreshold
  BY CaqmAssumption
<1>1. SenderOK
  <2>1. psnCnt = 0 /\ sndNxt = 0 /\ sndUna = 0 /\ 0 \in 0..MaxPsn
    BY <1>0 DEF Init
  <2>2. windowLimited \in BOOLEAN /\ trigger \in BOOLEAN
    BY Zenon DEF Init
  <2> QED
    BY <2>1, <2>2 DEF SenderOK
<1>2. CaqmOK
  <2>1. dataByteSent \in Nat
    BY <1>0 DEF Init
  <2> QED
    BY <1>0, <2>1 DEF Init, CaqmOK
<1>3. ReceiverOK
  BY BytesValue, CaqmAssumption DEF Init, ReceiverOK
<1>4. NetworkOK
  BY DEF Init, NetworkOK
<1> QED
  BY <1>1, <1>2, <1>3, <1>4 DEF TypeOK

\* The actions by the part of the state they change.
LEMMA Steps ==
    ASSUME [Next]_vars
    PROVE  \/ \E n \in 1..MaxPsn : PushWqeSegment(n)
           \/ AllocateNothing
           \/ GetNextPacket
           \/ \E p \in data : RecvDataPacket(p)
           \/ \E k \in DOMAIN acks : RecvTpAck(k)
           \/ StateReset
           \/ UNCHANGED vars
  BY DEF Next, Allocate, RecvData, RecvAck

\* What RecvInOrder does, with its operators replaced by their properties.
LEMMA InOrderStep ==
    ASSUME TypeOK, NEW p \in data, NEW h \in SwitchForwardPacket(p), RecvInOrder(p.psn, h)
    PROVE  \E next \in (recvNxt + 1)..MaxPsn, ack \in Ack :
               /\ p.psn = recvNxt /\ recvNxt' = next
               /\ recvNxt..(next - 1) \subseteq DOMAIN recorded \cup {p.psn}
               /\ DOMAIN recorded' \subseteq DOMAIN recorded
               /\ \A n \in DOMAIN recorded' : n \in (next + 1)..(MaxPsn - 1) /\ recorded'[n] \in Header
               /\ dataByteRecvd' = Advance(dataByteRecvd, Bytes[next] - Bytes[recvNxt])
               /\ dataByteRecvd' \in Nat
               /\ acks' = Append(acks, ack)
               /\ ack.psn = next - 1 /\ ack.seq = dataByteRecvd'
<1> DEFINE all  == Record(p.psn, h)
           next == NextMissing(all)
           seq  == Advance(dataByteRecvd, Bytes[next] - Bytes[recvNxt])
           ack  == RecverGenAckCeTphHeader(all, recvNxt..(next - 1), next - 1, seq)
<1>1. /\ p.psn = recvNxt /\ recvNxt' = next
      /\ recorded' = [n \in DOMAIN all \ (recvNxt..(next - 1)) |-> all[n]]
      /\ dataByteRecvd' = seq
      /\ acks' = Append(acks, ack)
  BY DEF RecvInOrder
<1>2. p.psn \in recvNxt..(MaxPsn - 1) /\ MaxPsn \in Nat /\ recvNxt \in 0..MaxPsn
  BY <1>1, BytesValue DEF TypeOK, NetworkOK, ReceiverOK
<1>3. h \in Header
  BY HeaderValue DEF TypeOK
<1>4. /\ DOMAIN all = DOMAIN recorded \cup {p.psn}
      /\ \A n \in DOMAIN all : n \in recvNxt..(MaxPsn - 1) /\ all[n] \in Header
  BY <1>2, <1>3, RecordValue DEF TypeOK
<1> HIDE DEF all
<1>5. recvNxt \in DOMAIN all /\ DOMAIN all \subseteq 0..(MaxPsn - 1)
  BY <1>1, <1>2, <1>4
<1>6. /\ next \in (recvNxt + 1)..MaxPsn /\ next \notin DOMAIN all
      /\ recvNxt..(next - 1) \subseteq DOMAIN all
  BY <1>2, <1>5, NextMissingValue
<1> HIDE DEF next
<1>7. seq \in Nat
  <2>1. Bytes[next] \in Nat /\ Bytes[recvNxt] \in Nat /\ Bytes[recvNxt] <= Bytes[next]
    BY <1>2, <1>6, BytesValue
  <2>2. dataByteRecvd \in Nat
    BY DEF TypeOK, ReceiverOK
  <2> QED
    BY <2>1, <2>2, WindowValue DEF Advance
<1> HIDE DEF seq
<1>8. ack \in Ack /\ ack.psn = next - 1 /\ ack.seq = seq
  <2>1. next - 1 \in 0..(MaxPsn - 1) /\ recvNxt \in Nat
    BY <1>2, <1>6
  <2> QED
    BY <2>1, <1>7, AckValue
<1> HIDE DEF ack
<1>9. DOMAIN recorded' = DOMAIN all \ (recvNxt..(next - 1))
  BY <1>1
<1>10. ASSUME NEW n \in DOMAIN recorded'
       PROVE  n \in (next + 1)..(MaxPsn - 1) /\ recorded'[n] \in Header /\ n \in DOMAIN recorded
  <2>1. n \in DOMAIN all /\ n \notin recvNxt..(next - 1) /\ recorded'[n] = all[n]
    BY <1>1, <1>9, <1>10
  <2>2. n \in recvNxt..(MaxPsn - 1) /\ all[n] \in Header /\ n # next
    BY <2>1, <1>4, <1>6
  <2>3. n \in (next + 1)..(MaxPsn - 1)
    BY <2>1, <2>2, <1>2, <1>6
  <2>4. n # p.psn
    BY <2>3, <1>1, <1>2, <1>6
  <2> QED
    BY <2>1, <2>2, <2>3, <2>4, <1>4
<1> QED
  BY <1>1, <1>4, <1>6, <1>7, <1>8, <1>10 DEF seq

LEMMA TypeStep == TypeOK /\ [Next]_vars => TypeOK'
<1> SUFFICES ASSUME TypeOK, [Next]_vars PROVE TypeOK'
  OBVIOUS
<1> USE DEF TypeOK
<1>0. MaxPsn \in Nat
  BY BytesValue
<1>1. ASSUME NEW n \in 1..MaxPsn, PushWqeSegment(n) PROVE TypeOK'
  BY <1>0, <1>1 DEF PushWqeSegment, SenderOK, CaqmOK, ReceiverOK, NetworkOK, caqmVars, recvVars
<1>2. CASE AllocateNothing
  BY <1>2 DEF AllocateNothing, SenderOK, CaqmOK, ReceiverOK, NetworkOK, caqmVars, recvVars
<1>3. CASE GetNextPacket
  <2>1. sndNxt \in 0..(MaxPsn - 1)
    BY <1>0, <1>3 DEF GetNextPacket, IsEmpty, SenderOK
  <2>2. SenderOK'
    BY <1>0, <1>3, <2>1 DEF GetNextPacket, SenderOK
  <2>3. CaqmOK'
    <3>1. Payload(sndNxt) \in Nat /\ FieldMod \in Nat \ {0}
      BY <2>1, BytesValue, WindowValue
    <3> DEFINE size == Payload(sndNxt)
    <3> HIDE DEF size
    <3>2. (dataByteSent + size) % FieldMod \in Nat /\ (inFlight + size) % FieldMod \in Nat
      BY <3>1 DEF CaqmOK, size
    <3> QED
      BY <1>3, <3>2 DEF GetNextPacket, SenderUpdateCongestionCtrlData, CaqmOK, size
  <2>4. ReceiverOK'
    BY <1>3 DEF GetNextPacket, ReceiverOK, recvVars
  <2>5. NetworkOK'
    <3>1. Hint \subseteq Nat
      BY CaqmAssumption DEF Hint
    <3> QED
      BY <1>3, <2>1, <3>1 DEF GetNextPacket, NetworkOK
  <2> QED
    BY <2>2, <2>3, <2>4, <2>5
<1>4. ASSUME NEW p \in data, RecvDataPacket(p) PROVE TypeOK'
  <2>1. PICK h \in SwitchForwardPacket(p) : RecvOutOfOrder(p.psn, h) \/ RecvInOrder(p.psn, h)
    BY <1>4 DEF RecvDataPacket
  <2>2. SenderOK' /\ CaqmOK'
    BY <1>4 DEF RecvDataPacket, SenderOK, CaqmOK, tpVars, caqmVars
  <2>3. data' \subseteq [psn : 0..(MaxPsn - 1), hint : Nat]
    BY <1>4 DEF RecvDataPacket, NetworkOK
  <2>4. CASE RecvOutOfOrder(p.psn, h)
    <3>1. h \in Header
      BY HeaderValue
    <3>2. p.psn \in (recvNxt + 1)..(MaxPsn - 1) /\ p.psn \in recvNxt..(MaxPsn - 1)
      BY <1>0, <2>4 DEF RecvOutOfOrder, NetworkOK, ReceiverOK
    <3>3. recorded' = Record(p.psn, h) /\ recvNxt' = recvNxt /\ dataByteRecvd' = dataByteRecvd
      BY <2>4 DEF RecvOutOfOrder
    <3>4. ASSUME NEW n \in DOMAIN recorded'
          PROVE  n \in (recvNxt + 1)..(MaxPsn - 1) /\ recorded'[n] \in Header
      <4>1. /\ DOMAIN recorded' = DOMAIN recorded \cup {p.psn}
            /\ n \in recvNxt..(MaxPsn - 1) /\ recorded'[n] \in Header
        BY <3>1, <3>2, <3>3, RecordValue, Zenon
      <4> QED
        BY <3>2, <4>1 DEF ReceiverOK
    <3> QED
      BY <2>2, <2>3, <2>4, <3>3, <3>4 DEF RecvOutOfOrder, ReceiverOK, NetworkOK
  <2>5. CASE RecvInOrder(p.psn, h)
    <3>1. PICK next \in (recvNxt + 1)..MaxPsn, ack \in Ack :
              /\ recvNxt' = next
              /\ \A n \in DOMAIN recorded' : n \in (next + 1)..(MaxPsn - 1) /\ recorded'[n] \in Header
              /\ dataByteRecvd' \in Nat
              /\ acks' = Append(acks, ack)
      BY <2>5, InOrderStep, Zenon
    <3>2. ReceiverOK'
      BY <1>0, <3>1 DEF ReceiverOK
    <3>3. acks' \in Seq(Ack)
      BY <3>1, AppendSeq DEF NetworkOK
    <3> QED
      BY <2>2, <2>3, <3>2, <3>3 DEF NetworkOK
  <2> QED
    BY <2>1, <2>4, <2>5
<1>5. ASSUME NEW k \in DOMAIN acks, RecvTpAck(k) PROVE TypeOK'
  <2>1. acks[k] \in Ack
    BY SeqElement DEF NetworkOK
  <2>2. acks[k].psn + 1 \in 1..MaxPsn /\ acks[k].seq \in Nat /\ acks[k].c \in Nat /\ acks[k].hint \in Nat
    BY <1>0, <2>1 DEF Ack
  <2>3. SenderOK'
    BY <1>0, <1>5, <2>2 DEF RecvTpAck, SenderOK, Larger
  <2>4. CaqmOK'
    <3>1. Sent(acks[k].seq) \in Nat
      BY WindowValue DEF Sent, CaqmOK
    <3>2. (Sent(acks[k].seq) - acks[k].seq) % FieldMod \in Nat
      BY <2>2, <3>1, WindowValue
    <3> DEFINE grown == IF acks[k].i = 1 THEN cwnd + acks[k].hint ELSE cwnd
    <3>4. grown \in Nat
      BY <2>2 DEF CaqmOK
    <3>3. Shrunk(grown, acks[k].c) \in Nat
      BY <2>2, <3>4, ShrunkValue, Zenon
    <3> QED
      BY <1>5, <2>2, <3>1, <3>2, <3>3 DEF RecvTpAck, SenderRecvAck, CaqmOK
  <2>5. ReceiverOK' /\ NetworkOK'
    BY <1>5, RemoveAtSeq DEF RecvTpAck, ReceiverOK, NetworkOK, recvVars
  <2> QED
    BY <2>3, <2>4, <2>5
<1>6. CASE StateReset
  BY <1>6 DEF StateReset, SenderOK, CaqmOK, ReceiverOK, NetworkOK, tpVars, recvVars
<1>7. CASE UNCHANGED vars
  BY <1>7 DEF vars, tpVars, caqmVars, recvVars, SenderOK, CaqmOK, ReceiverOK, NetworkOK
<1> QED
  BY <1>1, <1>2, <1>3, <1>4, <1>5, <1>6, <1>7, Steps

\* TypeOK holds whatever the switches mark and in whatever order acks arrive: the
\* counts of UbHostCaqm never go below zero, and no ack names a packet that the
\* channel was not given.
THEOREM TypeCorrect == Spec => []TypeOK
<1> QED
  BY TypeInit, TypeStep, PTL DEF Spec

-----------------------------------------------------------------------------
(* The counts of the two ends, over an ordered channel of acks.            *)

\* Where the k-th ack in the network will take the sender; 0 is where it is.
PsnAt(k) == IF k = 0 THEN sndUna ELSE acks[k].psn + 1
SeqAt(k) == IF k = 0 THEN lastSequence ELSE acks[k].seq

\* The receiver is not ahead of the sender, and the send window bounds what is out.
CountsOK == recvNxt <= sndNxt /\ sndNxt - sndUna <= MaxInflight

ArrivedOK ==
    /\ \A p \in data : p.psn < sndNxt
    /\ \A n \in DOMAIN recorded : n < sndNxt

\* From the sender to the receiver, each ack counts on from the one before it.
AcksOK ==
    /\ PsnAt(Len(acks)) = recvNxt /\ SeqAt(Len(acks)) = dataByteRecvd
    /\ \A k \in 0..Len(acks) : PsnAt(k) \in 0..MaxPsn /\ SeqAt(k) \in 0..ResetThreshold
    /\ \A j, k \in 0..Len(acks) : j <= k => PsnAt(j) <= PsnAt(k)
    /\ \A k \in 1..Len(acks) :
           SeqAt(k) = Advance(SeqAt(k - 1), Bytes[PsnAt(k)] - Bytes[PsnAt(k - 1)])

BytesOK ==
    /\ dataByteSent = lastSequence + (Bytes[sndNxt] - Bytes[sndUna])
    /\ inFlight = Bytes[sndNxt] - Bytes[sndUna]
    /\ cwnd >= Mtu

FlightInv == TypeOK /\ CountsOK /\ ArrivedOK /\ AcksOK /\ BytesOK

LEMMA FlightInit == Init => FlightInv
<1> SUFFICES ASSUME Init PROVE FlightInv
  OBVIOUS
<1>1. TypeOK
  BY TypeInit
<1>2. psnCnt = 0 /\ sndNxt = 0 /\ sndUna = 0 /\ recvNxt = 0 /\ MaxInflight \in Nat /\ MaxPsn \in Nat
  BY CaqmAssumption DEF Init
<1>3. CountsOK /\ ArrivedOK
  BY <1>2 DEF Init, CountsOK, ArrivedOK
<1>4. acks = <<>> /\ Len(acks) = 0
  BY DEF Init
<1>5. dataByteSent \in 0..ResetThreshold /\ lastSequence = dataByteSent /\ dataByteRecvd = dataByteSent
  BY CaqmAssumption DEF Init
<1>6. PsnAt(0) = 0 /\ SeqAt(0) = dataByteSent
  BY <1>2, <1>5 DEF PsnAt, SeqAt
<1>7. AcksOK
  BY <1>2, <1>4, <1>5, <1>6 DEF AcksOK
<1>8. Bytes[sndNxt] - Bytes[sndUna] = 0
  BY <1>2, BytesValue
<1>9. BytesOK
  <2>1. inFlight = 0 /\ cwnd >= Mtu
    BY CaqmAssumption DEF Init
  <2> QED
    BY <1>5, <1>8, <2>1 DEF BytesOK
<1> QED
  BY <1>1, <1>3, <1>7, <1>9 DEF FlightInv

\* What the invariant says of the three counters and of the bytes between them.
LEMMA FlightValue ==
    ASSUME FlightInv
    PROVE  /\ sndUna <= recvNxt /\ recvNxt <= sndNxt /\ sndNxt - sndUna <= MaxInflight
           /\ sndUna \in 0..MaxPsn /\ recvNxt \in 0..MaxPsn /\ sndNxt \in 0..MaxPsn
           /\ lastSequence \in 0..ResetThreshold /\ dataByteRecvd \in 0..ResetThreshold
           /\ Len(acks) \in Nat
<1>1. Len(acks) \in Nat
  BY LenProperties DEF FlightInv, TypeOK, NetworkOK
<1>2. PsnAt(0) <= PsnAt(Len(acks)) /\ SeqAt(0) \in 0..ResetThreshold /\ SeqAt(Len(acks)) \in 0..ResetThreshold
  BY <1>1 DEF FlightInv, AcksOK
<1>3. sndUna <= recvNxt /\ lastSequence \in 0..ResetThreshold /\ dataByteRecvd \in 0..ResetThreshold
  BY <1>2 DEF FlightInv, AcksOK, PsnAt, SeqAt
<1> QED
  BY <1>1, <1>3 DEF FlightInv, CountsOK, TypeOK, SenderOK, ReceiverOK

\* A step that takes nothing from the acks and adds nothing to them.
LEMMA AcksUnchanged ==
    ASSUME AcksOK, UNCHANGED <<acks, sndUna, lastSequence, recvNxt, dataByteRecvd>>
    PROVE  AcksOK'
<1>1. ASSUME NEW k PROVE PsnAt(k)' = PsnAt(k) /\ SeqAt(k)' = SeqAt(k)
  BY DEF PsnAt, SeqAt
<1> QED
  BY <1>1 DEF AcksOK

\* A packet is sent: it fits what 32 bits can count.
LEMMA SendStep ==
    ASSUME FlightInv, GetNextPacket
    PROVE  CountsOK' /\ ArrivedOK' /\ BytesOK'
<1>1. /\ sndNxt \in 0..(MaxPsn - 1) /\ sndNxt - sndUna < MaxInflight /\ sndUna <= sndNxt
      /\ sndUna \in 0..MaxPsn /\ recvNxt \in 0..MaxPsn /\ recvNxt <= sndNxt
      /\ lastSequence \in 0..ResetThreshold
  BY FlightValue, BytesValue DEF FlightInv, TypeOK, SenderOK, GetNextPacket, IsEmpty, IsLimited, IsInflightLimited
<1>2. sndNxt' = sndNxt + 1 /\ sndUna' = sndUna /\ recvNxt' = recvNxt /\ recorded' = recorded
  BY DEF GetNextPacket, recvVars
<1>3. CountsOK'
  <2>1. MaxPsn \in Nat /\ MaxInflight \in Nat
    BY CaqmAssumption
  <2> QED
    BY <1>1, <1>2, <2>1 DEF CountsOK
<1>4. ArrivedOK'
  <2>1. \A q \in data' : q.psn = sndNxt \/ q \in data
    BY DEF GetNextPacket
  <2>2. \A q \in data : q.psn \in Nat
    BY DEF FlightInv, TypeOK, NetworkOK
  <2>3. \A n \in DOMAIN recorded : n \in Int
    BY DEF FlightInv, TypeOK, ReceiverOK
  <2> QED
    BY <1>1, <1>2, <2>1, <2>2, <2>3 DEF FlightInv, ArrivedOK
<1> DEFINE out == Bytes[sndNxt] - Bytes[sndUna]
           size == Payload(sndNxt)
<1>5. out + size = Bytes[sndNxt + 1] - Bytes[sndUna] /\ out \in Nat /\ size \in Nat /\ out + size <= WindowBytes
  <2>1. sndNxt + 1 \in 0..MaxPsn /\ sndNxt \in 0..MaxPsn /\ (sndNxt + 1) - sndUna <= MaxInflight /\ sndUna <= sndNxt + 1
    BY <1>1, BytesValue
  <2>2. Bytes[sndNxt + 1] - Bytes[sndUna] <= WindowBytes /\ Bytes[sndUna] <= Bytes[sndNxt]
    BY <1>1, <2>1, BytesValue
  <2>3. Bytes[sndNxt] \in Nat /\ Bytes[sndNxt + 1] \in Nat /\ Bytes[sndUna] \in Nat /\ size \in 1..Mtu
    BY <1>1, <2>1, BytesValue
  <2>4. Mtu \in Nat
    BY CaqmAssumption
  <2>5. size = Bytes[sndNxt + 1] - Bytes[sndNxt]
    BY DEF Payload
  <2> HIDE DEF size
  <2> QED
    BY <2>2, <2>3, <2>4, <2>5
<1>6. /\ dataByteSent' = (dataByteSent + size) % FieldMod /\ inFlight' = (inFlight + size) % FieldMod
      /\ dataByteSent = lastSequence + out /\ inFlight = out
      /\ cwnd' = cwnd /\ cwnd >= Mtu /\ lastSequence' = lastSequence
  BY DEF GetNextPacket, SenderUpdateCongestionCtrlData, FlightInv, BytesOK
<1>7. Bytes[sndNxt'] - Bytes[sndUna'] = out + size
  BY <1>2, <1>5
<1> HIDE DEF out, size
<1>8. dataByteSent' = lastSequence + (out + size) /\ inFlight' = out + size
  BY <1>1, <1>5, <1>6, WindowValue
<1> QED
  BY <1>3, <1>4, <1>6, <1>7, <1>8 DEF BytesOK

\* The receiver advances, and its ack counts on from the last one.
LEMMA InOrderAcks ==
    ASSUME FlightInv, NEW p \in data, NEW h \in SwitchForwardPacket(p), RecvInOrder(p.psn, h),
           UNCHANGED <<sndUna, sndNxt, lastSequence>>
    PROVE  recvNxt' <= sndNxt /\ AcksOK'
<1>1. PICK next \in (recvNxt + 1)..MaxPsn, ack \in Ack :
          /\ p.psn = recvNxt /\ recvNxt' = next
          /\ recvNxt..(next - 1) \subseteq DOMAIN recorded \cup {p.psn}
          /\ dataByteRecvd' = Advance(dataByteRecvd, Bytes[next] - Bytes[recvNxt])
          /\ acks' = Append(acks, ack)
          /\ ack.psn = next - 1 /\ ack.seq = dataByteRecvd'
  BY InOrderStep, Zenon DEF FlightInv
<1>2. recvNxt \in 0..MaxPsn /\ sndNxt \in 0..MaxPsn /\ sndUna \in 0..MaxPsn /\ sndUna <= recvNxt
      /\ sndNxt - sndUna <= MaxInflight /\ dataByteRecvd \in 0..ResetThreshold /\ MaxPsn \in Nat
      /\ Len(acks) \in Nat
  BY FlightValue, BytesValue
<1>3. next - 1 < sndNxt
  <2>1. next - 1 \in DOMAIN recorded \cup {p.psn}
    BY <1>1, <1>2
  <2> QED
    BY <2>1 DEF FlightInv, ArrivedOK
<1>4. next <= sndNxt /\ next \in 0..MaxPsn
  BY <1>2, <1>3
<1>5. Bytes[next] - Bytes[recvNxt] \in 0..WindowBytes
  <2>1. next - recvNxt <= MaxInflight /\ recvNxt <= next
    BY <1>2, <1>4, BytesValue
  <2>2. Bytes[next] - Bytes[recvNxt] <= WindowBytes /\ Bytes[recvNxt] <= Bytes[next]
    BY <1>2, <1>4, <2>1, BytesValue
  <2>3. Bytes[next] \in Nat /\ Bytes[recvNxt] \in Nat
    BY <1>2, <1>4, BytesValue
  <2> QED
    BY <2>2, <2>3, WindowValue
<1>6. dataByteRecvd' \in 0..ResetThreshold
  BY <1>1, <1>2, <1>5, AdvanceValue
<1>0. PICK L \in Nat : L = Len(acks)
  BY <1>2
<1>7. /\ acks' \in Seq(Ack) /\ Len(acks') = L + 1
      /\ \A k \in 1..L : acks'[k] = acks[k]
      /\ acks'[L + 1] = ack
  BY <1>0, <1>1 DEF FlightInv, TypeOK, NetworkOK
<1>8. ASSUME NEW k \in 0..L PROVE PsnAt(k)' = PsnAt(k) /\ SeqAt(k)' = SeqAt(k)
  BY <1>2, <1>7 DEF PsnAt, SeqAt
<1>9. PsnAt(L + 1)' = next /\ SeqAt(L + 1)' = dataByteRecvd'
  <2>1. L + 1 # 0 /\ (next - 1) + 1 = next
    BY <1>0, <1>2
  <2> QED
    BY <1>1, <1>7, <2>1 DEF PsnAt, SeqAt
<1>10. /\ PsnAt(L) = recvNxt /\ SeqAt(L) = dataByteRecvd
       /\ \A k \in 0..L : PsnAt(k) \in 0..MaxPsn /\ SeqAt(k) \in 0..ResetThreshold
       /\ \A j, k \in 0..L : j <= k => PsnAt(j) <= PsnAt(k)
       /\ \A k \in 1..L : SeqAt(k) = Advance(SeqAt(k - 1), Bytes[PsnAt(k)] - Bytes[PsnAt(k - 1)])
  BY <1>0 DEF FlightInv, AcksOK
<1>12. PsnAt(Len(acks))' = recvNxt' /\ SeqAt(Len(acks))' = dataByteRecvd'
  <2>1. PsnAt(Len(acks))' = PsnAt(L + 1)' /\ SeqAt(Len(acks))' = SeqAt(L + 1)'
    BY <1>7 DEF PsnAt, SeqAt
  <2> QED
    BY <1>1, <1>9, <2>1
<1>13. ASSUME NEW k \in 0..(L + 1) PROVE PsnAt(k)' \in 0..MaxPsn /\ SeqAt(k)' \in 0..ResetThreshold
  <2>1. CASE k \in 0..L
    BY <2>1, <1>8, <1>10
  <2>2. CASE k = L + 1
    BY <2>2, <1>4, <1>6, <1>9
  <2> QED
    BY <2>1, <2>2, <1>0
<1>14. ASSUME NEW j \in 0..(L + 1), NEW k \in 0..(L + 1), j <= k PROVE PsnAt(j)' <= PsnAt(k)'
  <2>1. CASE k \in 0..L
    <3>1. j \in 0..L
      BY <2>1, <1>0, <1>14
    <3> QED
      BY <2>1, <3>1, <1>8, <1>10, <1>14
  <2>2. CASE k = L + 1 /\ j \in 0..L
    <3>1. PsnAt(j) <= PsnAt(L) /\ PsnAt(j) \in 0..MaxPsn
      BY <2>2, <1>10, <1>0
    <3>2. PsnAt(j)' <= next
      BY <2>2, <3>1, <1>2, <1>8, <1>10
    <3> QED
      BY <2>2, <3>2, <1>9
  <2>3. CASE k = L + 1 /\ j = L + 1
    BY <2>3, <1>4, <1>9
  <2> QED
    BY <2>1, <2>2, <2>3, <1>0
<1>15. ASSUME NEW k \in 1..(L + 1)
       PROVE  SeqAt(k)' = Advance(SeqAt(k - 1)', Bytes[PsnAt(k)'] - Bytes[PsnAt(k - 1)'])
  <2>1. k - 1 \in 0..L
    BY <1>0
  <2>2. PsnAt(k - 1)' = PsnAt(k - 1) /\ SeqAt(k - 1)' = SeqAt(k - 1)
    BY <2>1, <1>8
  <2>3. CASE k \in 1..L
    <3>1. PsnAt(k)' = PsnAt(k) /\ SeqAt(k)' = SeqAt(k)
      BY <2>3, <1>8, <1>0
    <3> QED
      BY <2>2, <2>3, <3>1, <1>10
  <2>4. CASE k = L + 1
    <3>1. k - 1 = L
      BY <2>4, <1>0
    <3> QED
      BY <2>2, <2>4, <3>1, <1>1, <1>9, <1>10
  <2> QED
    BY <2>3, <2>4, <1>0
<1>16. AcksOK'
  BY <1>7, <1>12, <1>13, <1>14, <1>15 DEF AcksOK
<1> QED
  BY <1>1, <1>4, <1>16

\* The first ack is taken: both ends have counted the same bytes, and have taken
\* 2^31 off at the same packet.
LEMMA AckStep ==
    ASSUME FlightInv, acks # <<>>, RecvTpAck(1)
    PROVE  CountsOK' /\ AcksOK' /\ BytesOK'
<1>1. PICK L \in Nat : L = Len(acks) /\ L >= 1
  BY LenProperties, EmptySeq DEF FlightInv, TypeOK, NetworkOK
<1>2. /\ PsnAt(L) = recvNxt /\ SeqAt(L) = dataByteRecvd
      /\ \A k \in 0..L : PsnAt(k) \in 0..MaxPsn /\ SeqAt(k) \in 0..ResetThreshold
      /\ \A j, k \in 0..L : j <= k => PsnAt(j) <= PsnAt(k)
      /\ \A k \in 1..L : SeqAt(k) = Advance(SeqAt(k - 1), Bytes[PsnAt(k)] - Bytes[PsnAt(k - 1)])
  BY <1>1 DEF FlightInv, AcksOK
<1>3. /\ sndUna \in 0..MaxPsn /\ recvNxt \in 0..MaxPsn /\ sndNxt \in 0..MaxPsn
      /\ recvNxt <= sndNxt /\ sndNxt - sndUna <= MaxInflight /\ MaxPsn \in Nat /\ MaxInflight \in Nat
      /\ lastSequence \in 0..ResetThreshold
  BY FlightValue, BytesValue
<1>4. PICK una \in 0..MaxPsn, seq \in 0..ResetThreshold : una = PsnAt(1) /\ seq = SeqAt(1)
  BY <1>1, <1>2
<1>5. una = acks[1].psn + 1 /\ seq = acks[1].seq
  BY <1>4 DEF PsnAt, SeqAt
<1>6. sndUna <= una /\ una <= recvNxt
  <2>1. PsnAt(0) <= PsnAt(1) /\ PsnAt(1) <= PsnAt(L)
    BY <1>1, <1>2
  <2> QED
    BY <2>1, <1>2, <1>4 DEF PsnAt
<1>7. /\ sndUna' = una /\ lastSequence' = seq /\ sndNxt' = sndNxt /\ recvNxt' = recvNxt
      /\ dataByteRecvd' = dataByteRecvd /\ acks' = RemoveAt(acks, 1)
      /\ dataByteSent' = Sent(seq) /\ inFlight' = (Sent(seq) - seq) % FieldMod
  <2>1. Larger(una, sndUna) = una
    BY <1>3, <1>6 DEF Larger
  <2> QED
    BY <2>1, <1>5 DEF RecvTpAck, SenderRecvAck, recvVars
<1>8. CountsOK'
  BY <1>3, <1>6, <1>7 DEF CountsOK
<1>9. /\ Len(acks') = L - 1
      /\ \A k \in 1..(L - 1) : acks'[k] = acks[k + 1]
  <2>1. acks \in Seq(Ack) /\ 1 \in DOMAIN acks
    BY <1>1 DEF FlightInv, TypeOK, NetworkOK
  <2>2. /\ acks' \in Seq(Ack) /\ Len(acks') = Len(acks) - 1
        /\ \A k \in DOMAIN acks' : acks'[k] = IF k < 1 THEN acks[k] ELSE acks[k + 1]
    BY <1>7, <2>1, RemoveAtSeq
  <2>3. DOMAIN acks' = 1..(L - 1)
    BY <1>1, <2>2
  <2> QED
    BY <1>1, <2>2, <2>3
<1>10. ASSUME NEW k \in 0..(L - 1) PROVE PsnAt(k)' = PsnAt(k + 1) /\ SeqAt(k)' = SeqAt(k + 1)
  <2>1. CASE k = 0
    BY <2>1, <1>4, <1>7 DEF PsnAt, SeqAt
  <2>2. CASE k \in 1..(L - 1)
    BY <2>2, <1>9 DEF PsnAt, SeqAt
  <2> QED
    BY <2>1, <2>2, <1>1
<1>11. AcksOK'
  <2>1. PsnAt(Len(acks))' = PsnAt(L - 1)' /\ SeqAt(Len(acks))' = SeqAt(L - 1)'
    BY <1>9 DEF PsnAt, SeqAt
  <2>2. L - 1 \in 0..(L - 1) /\ (L - 1) + 1 = L
    BY <1>1
  <2>3. PsnAt(Len(acks))' = recvNxt' /\ SeqAt(Len(acks))' = dataByteRecvd'
    BY <2>1, <2>2, <1>2, <1>7, <1>10
  <2>4. ASSUME NEW k \in 0..(L - 1) PROVE PsnAt(k)' \in 0..MaxPsn /\ SeqAt(k)' \in 0..ResetThreshold
    <3>1. k + 1 \in 0..L
      BY <1>1
    <3> QED
      BY <3>1, <1>2, <1>10
  <2>5. ASSUME NEW j \in 0..(L - 1), NEW k \in 0..(L - 1), j <= k PROVE PsnAt(j)' <= PsnAt(k)'
    <3>1. j + 1 \in 0..L /\ k + 1 \in 0..L /\ j + 1 <= k + 1
      BY <1>1, <2>5
    <3> QED
      BY <3>1, <1>2, <1>10
  <2>6. ASSUME NEW k \in 1..(L - 1)
        PROVE  SeqAt(k)' = Advance(SeqAt(k - 1)', Bytes[PsnAt(k)'] - Bytes[PsnAt(k - 1)'])
    <3>1. k \in 0..(L - 1) /\ k - 1 \in 0..(L - 1) /\ k + 1 \in 1..L /\ (k + 1) - 1 = k /\ (k - 1) + 1 = k
      BY <1>1
    <3>2. PsnAt(k)' = PsnAt(k + 1) /\ SeqAt(k)' = SeqAt(k + 1)
      BY <3>1, <1>10
    <3>3. PsnAt(k - 1)' = PsnAt(k) /\ SeqAt(k - 1)' = SeqAt(k)
      BY <3>1, <1>10
    <3>4. SeqAt(k + 1) = Advance(SeqAt(k), Bytes[PsnAt(k + 1)] - Bytes[PsnAt(k)])
      BY <3>1, <1>2
    <3> QED
      BY <3>2, <3>3, <3>4
  <2> QED
    BY <1>9, <2>3, <2>4, <2>5, <2>6 DEF AcksOK
<1>12. BytesOK'
  <2>1. /\ Bytes[una] \in Nat /\ Bytes[sndUna] \in Nat /\ Bytes[sndNxt] \in Nat
        /\ Bytes[sndUna] <= Bytes[una] /\ Bytes[una] <= Bytes[sndNxt]
        /\ Bytes[sndNxt] - Bytes[sndUna] <= WindowBytes
    <3>1. una <= sndNxt /\ sndUna <= sndNxt
      BY <1>3, <1>6
    <3> QED
      BY <3>1, <1>3, <1>6, BytesValue
  <2> DEFINE d   == Bytes[una] - Bytes[sndUna]
             out == Bytes[sndNxt] - Bytes[una]
  <2>2. d \in Nat /\ out \in Nat /\ d + out <= WindowBytes /\ Bytes[sndNxt] - Bytes[sndUna] = d + out
    BY <2>1, WindowValue
  <2>3. seq = Advance(lastSequence, d)
    <3>1. SeqAt(1) = Advance(SeqAt(0), Bytes[PsnAt(1)] - Bytes[PsnAt(0)])
      <4>1. 1 \in 1..L /\ 1 - 1 = 0
        BY <1>1
      <4> QED
        BY <4>1, <1>2
    <3>2. SeqAt(0) = lastSequence /\ PsnAt(0) = sndUna
      BY DEF PsnAt, SeqAt
    <3> QED
      BY <3>1, <3>2, <1>4
  <2>4. dataByteSent = lastSequence + (d + out)
    BY <2>2 DEF FlightInv, BytesOK
  <2>5. Bytes[sndNxt'] - Bytes[sndUna'] = out
    BY <1>7
  <2> HIDE DEF d, out
  <2>6. Sent(seq) = seq + out
    <3>1. CASE lastSequence + d > ResetThreshold
      <4>1. seq = lastSequence + d - ResetNum
        BY <2>3, <3>1 DEF Advance
      <4>2. seq < lastSequence /\ lastSequence > ResetNum
        BY <4>1, <3>1, <2>2, <1>3, WindowValue
      <4>3. (dataByteSent - ResetNum) % FieldMod = seq + out
        BY <4>1, <4>2, <2>2, <2>4, <1>3, WindowValue
      <4> QED
        BY <4>2, <4>3 DEF Sent
    <3>2. CASE ~(lastSequence + d > ResetThreshold)
      <4>1. seq = lastSequence + d
        BY <2>3, <3>2 DEF Advance
      <4>2. ~(seq < lastSequence)
        BY <4>1, <2>2, <1>3
      <4> QED
        BY <4>1, <4>2, <2>2, <2>4, <1>3 DEF Sent
    <3> QED
      BY <3>1, <3>2
  <2>7. inFlight' = out
    <3>1. Sent(seq) - seq = out
      BY <1>4, <2>2, <2>6
    <3>2. out % FieldMod = out
      BY <2>2, WindowValue
    <3> QED
      BY <1>7, <3>1, <3>2
  <2>8. cwnd' >= Mtu
    <3>1. acks[1] \in Ack
      BY <1>1, SeqElement DEF FlightInv, TypeOK, NetworkOK
    <3> DEFINE grown == IF acks[1].i = 1 THEN cwnd + acks[1].hint ELSE cwnd
    <3>2. acks[1].c \in Nat /\ grown \in Nat
      BY <3>1 DEF Ack, FlightInv, TypeOK, CaqmOK
    <3>3. cwnd' = Shrunk(grown, acks[1].c)
      BY DEF RecvTpAck, SenderRecvAck
    <3> HIDE DEF grown
    <3> QED
      BY <3>2, <3>3, ShrunkValue
  <2> QED
    BY <1>7, <2>5, <2>6, <2>7, <2>8 DEF BytesOK
<1> QED
  BY <1>8, <1>11, <1>12

LEMMA FlightStep == ~Adaptive /\ FlightInv /\ [Next]_vars => FlightInv'
<1> SUFFICES ASSUME ~Adaptive, FlightInv, [Next]_vars PROVE FlightInv'
  OBVIOUS
<1>0. TypeOK'
  BY TypeStep DEF FlightInv
<1>1. ASSUME UNCHANGED <<sndNxt, sndUna, cwnd, inFlight, dataByteSent, lastSequence, recvNxt, recorded,
                         dataByteRecvd, data, acks>>
      PROVE  FlightInv'
  <2>1. AcksOK'
    BY <1>1, AcksUnchanged DEF FlightInv
  <2> QED
    BY <1>0, <1>1, <2>1 DEF FlightInv, CountsOK, ArrivedOK, BytesOK
<1>2. ASSUME NEW n \in 1..MaxPsn, PushWqeSegment(n) PROVE FlightInv'
  BY <1>1, <1>2 DEF PushWqeSegment, caqmVars, recvVars
<1>3. CASE AllocateNothing
  BY <1>1, <1>3 DEF AllocateNothing, caqmVars, recvVars
<1>4. CASE GetNextPacket
  <2>1. AcksOK'
    BY <1>4, AcksUnchanged DEF FlightInv, GetNextPacket, recvVars
  <2> QED
    BY <1>0, <1>4, <2>1, SendStep DEF FlightInv
<1>5. ASSUME NEW p \in data, RecvDataPacket(p) PROVE FlightInv'
  <2>1. PICK h \in SwitchForwardPacket(p) : RecvOutOfOrder(p.psn, h) \/ RecvInOrder(p.psn, h)
    BY <1>5 DEF RecvDataPacket
  <2>2. UNCHANGED <<sndNxt, sndUna, cwnd, inFlight, dataByteSent, lastSequence>> /\ data' \subseteq data
    BY <1>5 DEF RecvDataPacket, tpVars, caqmVars
  <2>3. BytesOK'
    BY <2>2 DEF FlightInv, BytesOK
  <2>4. CASE RecvOutOfOrder(p.psn, h)
    <3>1. AcksOK' /\ CountsOK'
      BY <2>2, <2>4, AcksUnchanged DEF RecvOutOfOrder, FlightInv, CountsOK
    <3>2. DOMAIN recorded' = DOMAIN recorded \cup {p.psn}
      BY <2>4 DEF RecvOutOfOrder, Record
    <3>3. ArrivedOK'
      BY <2>2, <3>2 DEF FlightInv, ArrivedOK
    <3> QED
      BY <1>0, <2>3, <3>1, <3>3 DEF FlightInv
  <2>5. CASE RecvInOrder(p.psn, h)
    <3>1. recvNxt' <= sndNxt /\ AcksOK'
      BY <2>2, <2>5, InOrderAcks
    <3>2. DOMAIN recorded' \subseteq DOMAIN recorded
      BY <2>5, InOrderStep DEF FlightInv
    <3>3. ArrivedOK'
      BY <2>2, <3>2 DEF FlightInv, ArrivedOK
    <3>4. CountsOK'
      BY <2>2, <3>1 DEF FlightInv, CountsOK
    <3> QED
      BY <1>0, <2>3, <3>1, <3>3, <3>4 DEF FlightInv
  <2> QED
    BY <2>1, <2>4, <2>5
<1>6. ASSUME NEW k \in DOMAIN acks, RecvTpAck(k) PROVE FlightInv'
  <2>1. k = 1
    BY <1>6 DEF RecvTpAck
  <2>2. acks # <<>>
    BY <2>1, <1>6
  <2>3. CountsOK' /\ AcksOK' /\ BytesOK'
    BY <1>6, <2>1, <2>2, AckStep
  <2>4. ArrivedOK'
    BY <1>6 DEF RecvTpAck, recvVars, FlightInv, ArrivedOK
  <2> QED
    BY <1>0, <2>3, <2>4 DEF FlightInv
<1>7. CASE StateReset
  BY <1>1, <1>7 DEF StateReset, tpVars, recvVars
<1>8. CASE UNCHANGED vars
  BY <1>1, <1>8 DEF vars, tpVars, caqmVars, recvVars
<1> QED
  BY <1>2, <1>3, <1>4, <1>5, <1>6, <1>7, <1>8, Steps

LEMMA FlightAlways == ASSUME ~Adaptive PROVE Spec => []FlightInv
<1>1. FlightInv /\ [Next]_vars => FlightInv'
  BY FlightStep
<1> QED
  BY <1>1, FlightInit, PTL DEF Spec

\* While acks stay in order, what the window is compared with is the payload that
\* is not acknowledged: the two ends take 2^31 off their counts at the same packet,
\* and no count passes 32 bits.
THEOREM CountsAgree == ASSUME ~Adaptive PROVE Spec => []InFlightIsUnacked
<1>1. FlightInv => InFlightIsUnacked
  BY DEF FlightInv, BytesOK, InFlightIsUnacked
<1> QED
  BY <1>1, FlightAlways, PTL

LEMMA ProbeFits == FlightInv => ProbeIsSent
<1> SUFFICES ASSUME FlightInv, ~IsEmpty, ~IsLimited PROVE Payload(sndNxt) <= Rest(cwnd, inFlight)
  BY DEF ProbeIsSent
<1>1. /\ sndNxt \in 0..(MaxPsn - 1) /\ sndUna \in 0..MaxPsn /\ Mtu \in Nat /\ cwnd \in Nat /\ cwnd >= Mtu
      /\ inFlight = Bytes[sndNxt] - Bytes[sndUna]
  BY FlightValue, BytesValue, CaqmAssumption DEF IsEmpty, FlightInv, TypeOK, SenderOK, CaqmOK, BytesOK
<1>2. Payload(sndNxt) \in 1..Mtu
  BY <1>1, BytesValue
<1>3. Payload(sndNxt) <= Mtu
  BY <1>1, <1>2
<1>4. CASE ~(Rest(cwnd, inFlight) < Mtu)
  <2>1. Rest(cwnd, inFlight) \in Int
    BY <1>1 DEF Rest, FlightInv, TypeOK, CaqmOK
  <2> QED
    BY <1>1, <1>2, <1>4, <2>1
<1>5. CASE sndNxt = sndUna
  <2>1. inFlight = 0
    <3>1. Bytes[sndNxt] \in Nat
      BY <1>1, <1>5, BytesValue
    <3> QED
      BY <3>1, <1>1, <1>5
  <2>2. Rest(cwnd, inFlight) = cwnd
    BY <2>1, <1>1 DEF Rest
  <2> QED
    BY <1>1, <1>2, <2>2
<1> QED
  BY <1>4, <1>5 DEF IsLimited

\* While acks stay in order, a channel that the allocator finds open has a packet to
\* give: a cut window is an MTU at least, and nothing is counted in flight when
\* everything was acknowledged.
THEOREM OpenChannelSends == ASSUME ~Adaptive PROVE Spec => []ProbeIsSent
<1> QED
  BY ProbeFits, FlightAlways, PTL

=============================================================================
