------------------------------- MODULE UbCaqm -------------------------------
(***************************************************************************)
(* A transport channel whose congestion control, CAQM (UbHostCaqm), is     *)
(* enabled.  The sender keeps a window in bytes beside the send window in  *)
(* packets; switches mark packets or refuse their request for a larger     *)
(* window; the receiver counts the bytes it has in sequence and returns    *)
(* the count, with what the switches said, in its acks.                    *)
(*                                                                         *)
(* The network is lossless and sprays data; acks are routed per flow, so   *)
(* they stay in order unless routing is adaptive.  Nothing is sent again,  *)
(* the default; segments, and what else UbTransport has, are left out.     *)
(* Bytes are counted in units; packets in the network are named by PSN.    *)
(***************************************************************************)
EXTENDS Integers, Sequences, FiniteSets, SequencesExt

CONSTANTS
    MaxPsn,         \* bound: packets handed over in one behaviour
    Bytes,          \* n: payload of the first n packets
    Mtu,            \* UB_MTU_BYTE, the largest payload
    MaxInflight,    \* m_maxInflightPacketSize, the send window in packets
    InitCwnd,       \* the attribute UbCaqmCwnd
    BetaMtu,        \* beta * MTU, the cut of the window for one mark
    GammaMtu,       \* gamma * MTU, the low limit of the window
    Carried,        \* bytes the channel may have carried, and acknowledged, before
    FieldMod,       \* 2^32: byte counts and the sequence in an ack have 32 bits
    ResetThreshold, \* 0.9 * 2^32
    ResetNum,       \* 2^31
    HintMod,        \* 2^16: the sum of hints in an ack has 16 bits
    CMod,           \* 2^8: the number of marks in an ack has 8 bits
    Adaptive        \* adaptive routing: acks may be reordered

WindowBytes == MaxInflight * Mtu

ASSUME CaqmAssumption ==
    /\ MaxPsn \in Nat /\ MaxInflight \in Nat \ {0} /\ Mtu \in Nat \ {0, 1}
    /\ Bytes \in [0..MaxPsn -> Nat]
    /\ \A n \in 1..MaxPsn : Bytes[n] - Bytes[n - 1] \in 1..Mtu
    /\ \A m, n \in 0..MaxPsn :
           m <= n => /\ Bytes[m] <= Bytes[n]
                     /\ n - m <= MaxInflight => Bytes[n] - Bytes[m] <= WindowBytes
    /\ InitCwnd \in Nat /\ InitCwnd >= Mtu
    /\ BetaMtu \in Nat /\ GammaMtu \in Nat /\ HintMod \in Nat \ {0} /\ CMod \in Nat \ {0}
    /\ FieldMod \in Nat /\ ResetThreshold \in Nat /\ ResetNum \in Nat
    /\ Carried \subseteq 0..ResetThreshold
    /\ ResetNum > WindowBytes
    /\ ResetThreshold - WindowBytes >= ResetNum
    /\ ResetThreshold + WindowBytes < FieldMod
    /\ Adaptive \in BOOLEAN

VARIABLES
    psnCnt,         \* m_tpPsnCnt
    sndNxt,         \* m_psnSndNxt
    sndUna,         \* m_psnSndUna
    windowLimited,  \* m_sendWindowLimited
    trigger,        \* the sender's port has a round of its allocator to run
    cwnd,           \* m_cwnd
    inFlight,       \* m_inFlight
    dataByteSent,   \* m_dataByteSent
    lastSequence,   \* m_lastSequence
    slowStart,      \* m_congestionState is SLOW_START
    resetPending,   \* m_congestionStateResetEvent is pending
    recvNxt,        \* the receiver's m_psnRecvNxt
    recorded,       \* m_recvdPsn*Map: the header of each packet past recvNxt that arrived
    dataByteRecvd,  \* m_dataByteRecvd
    data,           \* data packets in the network: [psn, hint]
    acks            \* acks in the network: [psn, seq, c, i, hint]

tpVars      == <<psnCnt, sndNxt, sndUna, windowLimited>>
caqmVars    == <<cwnd, inFlight, dataByteSent, lastSequence, slowStart, resetPending>>
recvVars    == <<recvNxt, recorded, dataByteRecvd>>
vars == <<tpVars, trigger, caqmVars, recvVars, data, acks>>

Init ==
    /\ psnCnt = 0 /\ sndNxt = 0 /\ sndUna = 0
    /\ windowLimited = FALSE /\ trigger = FALSE
    /\ cwnd = InitCwnd /\ inFlight = 0
    /\ dataByteSent \in Carried /\ lastSequence = dataByteSent
    /\ slowStart = TRUE /\ resetPending = FALSE
    /\ recvNxt = 0 /\ recorded = <<>> /\ dataByteRecvd = dataByteSent
    /\ data = {} /\ acks = <<>>

-----------------------------------------------------------------------------
(* Sending.                                                                *)

Payload(psn) == Bytes[psn + 1] - Bytes[psn]

\* GetRestCwnd: a window that was cut may be below what is in flight.
Rest(window, flight) == IF window >= flight THEN window - flight ELSE 0

IsInflightLimited == sndNxt - sndUna >= MaxInflight

IsEmpty == sndNxt >= psnCnt

\* UbTransportChannel::IsLimited: below an MTU only a probe goes, when nothing is
\* in flight.
IsLimited ==
    \/ IsInflightLimited
    \/ Rest(cwnd, inFlight) < Mtu /\ ~(sndNxt < psnCnt /\ sndNxt = sndUna)

\* The channel is given n more packets.
PushWqeSegment(n) ==
    /\ psnCnt + n <= MaxPsn
    /\ psnCnt' = psnCnt + n /\ trigger' = TRUE
    /\ UNCHANGED <<sndNxt, sndUna, windowLimited, caqmVars, recvVars, data, acks>>

\* A round of the allocator that leaves the channel alone.
AllocateNothing ==
    /\ trigger /\ (IsEmpty \/ IsLimited)
    /\ trigger' = FALSE
    /\ windowLimited' = (windowLimited \/ (~IsEmpty /\ IsInflightLimited))
    /\ UNCHANGED <<psnCnt, sndNxt, sndUna, caqmVars, recvVars, data, acks>>

\* SenderGenNetworkHeader: an MTU in slow start or below an MTU; else one, when
\* enough has accumulated, which the receiver takes for one byte.
Hint == IF slowStart \/ cwnd < Mtu THEN {Mtu} ELSE {0, 1}

SenderUpdateCongestionCtrlData(size) ==
    /\ dataByteSent' = (dataByteSent + size) % FieldMod
    /\ inFlight' = (inFlight + size) % FieldMod

\* GetNextPacket, when the packet fits the window; the port runs the next round
\* when it has left.
GetNextPacket ==
    /\ trigger /\ ~IsEmpty /\ ~IsLimited
    /\ Payload(sndNxt) <= Rest(cwnd, inFlight)
    /\ \E h \in Hint : data' = data \cup {[psn |-> sndNxt, hint |-> h]}
    /\ SenderUpdateCongestionCtrlData(Payload(sndNxt))
    /\ sndNxt' = sndNxt + 1
    /\ UNCHANGED <<psnCnt, sndUna, windowLimited, trigger, cwnd, lastSequence, slowStart, resetPending>>
    /\ UNCHANGED <<recvVars, acks>>

-----------------------------------------------------------------------------
(* Switches and the receiver.                                              *)

\* SwitchForwardPacket of the switches on the way: they let the request pass, they
\* refuse it, or they mark the packet.
SwitchForwardPacket(p) ==
    {[c |-> 0, i |-> 1, hint |-> p.hint], [c |-> 0, i |-> 0, hint |-> p.hint],
     [c |-> 1, i |-> 0, hint |-> p.hint]}

\* m_dataByteRecvd after size more bytes.
Advance(seq, size) ==
    IF seq + size > ResetThreshold THEN seq + size - ResetNum ELSE seq + size

\* The packets of ps, whose headers are all, that were granted their hint h.
Granted(all, ps, h) == {n \in ps : all[n].c = 0 /\ all[n].i = 1 /\ all[n].hint = h}

GrantedBytes(all, ps) ==
    Mtu * Cardinality(Granted(all, ps, Mtu)) + Cardinality(Granted(all, ps, 1))

\* RecverGenAckCeTphHeader for the packets in ps: how many were marked, whether one
\* was granted a larger window, and the sum of what was granted.
RecverGenAckCeTphHeader(all, ps, psn, seq) ==
    [psn |-> psn, seq |-> seq,
     c |-> Cardinality({n \in ps : all[n].c = 1}) % CMod,
     i |-> IF \E n \in ps : all[n].c = 0 /\ all[n].i = 1 THEN 1 ELSE 0,
     hint |-> GrantedBytes(all, ps) % HintMod]

\* RecverRecordPacketData.
Record(psn, h) == [n \in DOMAIN recorded \cup {psn} |-> IF n = psn THEN h ELSE recorded[n]]

\* A packet out of order is recorded, and not acknowledged.
RecvOutOfOrder(psn, h) ==
    /\ psn > recvNxt
    /\ recorded' = Record(psn, h)
    /\ UNCHANGED <<recvNxt, dataByteRecvd, acks>>

\* The first packet that is missing when those in all have arrived.
NextMissing(all) ==
    CHOOSE n \in (recvNxt + 1)..MaxPsn : n \notin DOMAIN all /\ recvNxt..(n - 1) \subseteq DOMAIN all

RecvInOrder(psn, h) ==
    /\ psn = recvNxt
    /\ LET all  == Record(psn, h)
           next == NextMissing(all)
           seq  == Advance(dataByteRecvd, Bytes[next] - Bytes[recvNxt])
       IN  /\ recvNxt' = next
           /\ recorded' = [n \in DOMAIN all \ (recvNxt..(next - 1)) |-> all[n]]
           /\ dataByteRecvd' = seq
           /\ acks' = Append(acks, RecverGenAckCeTphHeader(all, recvNxt..(next - 1), next - 1, seq))

RecvDataPacket(p) ==
    /\ p \in data
    /\ data' = data \ {p}
    /\ \E h \in SwitchForwardPacket(p) : RecvOutOfOrder(p.psn, h) \/ RecvInOrder(p.psn, h)
    /\ UNCHANGED <<tpVars, trigger, caqmVars>>

-----------------------------------------------------------------------------
(* Acks at the sender.                                                     *)

Larger(a, b) == IF a > b THEN a ELSE b

\* The window of SenderRecvAck after c marks: cut for each, to half an MTU, which
\* the last step takes back to one.
ShrunkMutant(window, c) ==
    IF c = 0 THEN window ELSE Larger(window - c * BetaMtu, Mtu \div 2)

Shrunk(window, c) ==
    Larger(Mtu, IF c = 0 THEN window
                ELSE IF window > Mtu THEN Larger(window - c * BetaMtu, Mtu \div 2)
                ELSE Larger(window \div 2, GammaMtu))

\* m_dataByteSent is not taken back when the sequence was.
SentMutant(seq) == dataByteSent

\* m_dataByteSent is taken back when the sequence of an ack was.
Sent(seq) ==
    IF seq < lastSequence /\ lastSequence > ResetNum
    THEN (dataByteSent - ResetNum) % FieldMod ELSE dataByteSent

SenderRecvAck(a) ==
    /\ dataByteSent' = Sent(a.seq)
    /\ lastSequence' = a.seq
    /\ inFlight' = (Sent(a.seq) - a.seq) % FieldMod
    /\ IF a.c > 0 \/ a.i = 0
       THEN slowStart' = FALSE /\ resetPending' = TRUE
       ELSE UNCHANGED <<slowStart, resetPending>>
    /\ cwnd' = Shrunk(IF a.i = 1 THEN cwnd + a.hint ELSE cwnd, a.c)

\* The window is not looked at again.
OpensMutant(una) == una > sndUna /\ windowLimited /\ sndNxt - una < MaxInflight

\* RecvTpAck triggers the port: the send window opens, or the other one is open.
Opens(una) ==
    \/ una > sndUna /\ windowLimited /\ sndNxt - una < MaxInflight
    \/ Rest(cwnd', inFlight') >= Mtu

\* UbTransportChannel::RecvTpAck on the k-th ack.
RecvTpAck(k) ==
    /\ k \in DOMAIN acks /\ (k = 1 \/ Adaptive)
    /\ SenderRecvAck(acks[k])
    /\ LET una == acks[k].psn + 1
       IN  /\ sndUna' = Larger(una, sndUna)
           /\ windowLimited' = (windowLimited /\ ~(una > sndUna /\ sndNxt - una < MaxInflight))
           /\ trigger' = (trigger \/ Opens(una))
    /\ acks' = RemoveAt(acks, k)
    /\ UNCHANGED <<psnCnt, sndNxt, recvVars, data>>

StateReset ==
    /\ resetPending
    /\ slowStart' = TRUE /\ resetPending' = FALSE
    /\ UNCHANGED <<tpVars, trigger, cwnd, inFlight, dataByteSent, lastSequence, recvVars, data, acks>>

-----------------------------------------------------------------------------
Allocate == AllocateNothing \/ GetNextPacket
RecvData == \E p \in data : RecvDataPacket(p)
RecvAck  == \E k \in DOMAIN acks : RecvTpAck(k)

Next ==
    \/ \E n \in 1..MaxPsn : PushWqeSegment(n)
    \/ Allocate
    \/ RecvData
    \/ RecvAck
    \/ StateReset

Spec == Init /\ [][Next]_vars

\* Rounds that are triggered run, and the lossless network delivers; that the
\* congestion state is reset is not needed.
Fairness == WF_vars(Allocate) /\ WF_vars(RecvData) /\ WF_vars(RecvAck)

FairSpec == Spec /\ Fairness

-----------------------------------------------------------------------------
Header == [c : {0, 1}, i : {0, 1}, hint : Nat]
Ack    == [psn : 0..(MaxPsn - 1), seq : Nat, c : Nat, i : {0, 1}, hint : Nat]

SenderOK ==
    /\ psnCnt \in 0..MaxPsn /\ sndNxt \in 0..MaxPsn /\ sndUna \in 0..MaxPsn
    /\ windowLimited \in BOOLEAN /\ trigger \in BOOLEAN

CaqmOK ==
    /\ cwnd \in Nat /\ inFlight \in Nat /\ dataByteSent \in Nat /\ lastSequence \in Nat
    /\ slowStart \in BOOLEAN /\ resetPending \in BOOLEAN

ReceiverOK ==
    /\ recvNxt \in 0..MaxPsn /\ dataByteRecvd \in Nat
    /\ \A n \in DOMAIN recorded : n \in (recvNxt + 1)..(MaxPsn - 1) /\ recorded[n] \in Header

NetworkOK ==
    /\ data \subseteq [psn : 0..(MaxPsn - 1), hint : Nat]
    /\ acks \in Seq(Ack)

TypeOK == SenderOK /\ CaqmOK /\ ReceiverOK /\ NetworkOK

\* UbHostCaqm::m_inFlight, "data that was sent and whose ack has not come": what
\* the window is compared with is exactly the payload of the packets that are
\* not acknowledged, also while the byte counts of the two ends are taken back
\* by 2^31 one after the other.
InFlightIsUnacked == inFlight = Bytes[sndNxt] - Bytes[sndUna]

\* UbTransportChannel::IsLimited, "allow one probe packet when there is pending
\* data and no packet in flight", and the allocator, which takes a packet from
\* a channel that is not limited without a look at it: GetNextPacket has one to
\* give, however the window was cut.
ProbeIsSent == ~IsEmpty /\ ~IsLimited => Payload(sndNxt) <= Rest(cwnd, inFlight)

\* The two windows together never stop a channel for good: everything handed to
\* it is sent and acknowledged.
AllAcknowledged == <>[](sndUna = psnCnt)

=============================================================================
