---------------------------- MODULE UbTransport ----------------------------
(***************************************************************************)
(* One direction of a transport channel (TP) of the unified bus: the       *)
(* sending UbTransportChannel with the part of UbTransaction that feeds it *)
(* WQE segments, the receiving UbTransportChannel, and the network between *)
(* them.  The other direction shares only the port, so it is left out.     *)
(*                                                                         *)
(* A packet number (PSN) counts MTUs.  Data packet number k of the channel *)
(* is the k-th MTU handed to it, so payloads are the numbers 0, 1, 2 ...   *)
(* and a packet carries its payload beside the PSN of its header.  The     *)
(* retransmission timer has no clock: it may expire whenever it is armed.  *)
(***************************************************************************)
EXTENDS Integers, Sequences, FiniteSets, SequencesExt

CONSTANTS
    WqeSizes,           \* sizes, in packets, of the WQEs an application pushes
    MaxPsn,             \* bound: packets pushed in one behaviour
    SegPkts,            \* UB_WQE_TA_SEGMENT_BYTE / UB_MTU_BYTE
    MaxWqeSegs,         \* m_maxQueueSize, segments a channel may hold
    MaxInflight,        \* m_maxInflightPacketSize, the send window
    OooThreshold,       \* m_psnOooThreshold, the width of the receive bitmap
    PsnMod,             \* 2^24: the header carries 24 bits of the PSN
    EnableRetrans,      \* m_isRetransEnable
    Caqm,               \* UB_CC_ALGO is CAQM: disabled, its window is unlimited
    MaxRetransAttempts, \* m_maxRetransAttempts
    Reorder,            \* the network may reorder (packet spray, multi-path)
    MaxLoss             \* bound: packets and acks the network drops

ASSUME ConstantsAssumption ==
    /\ WqeSizes \subseteq Nat \ {0}
    /\ MaxPsn \in Nat
    /\ SegPkts \in Nat \ {0}
    /\ MaxWqeSegs \in Nat \ {0}
    /\ MaxInflight \in Nat \ {0}
    /\ OooThreshold \in Nat \ {0}
    /\ PsnMod \in Nat \ {0}
    /\ EnableRetrans \in BOOLEAN
    /\ Caqm \in BOOLEAN
    /\ MaxRetransAttempts \in Nat \ {0}
    /\ Reorder \in BOOLEAN
    /\ MaxLoss \in Nat

VARIABLES
    backlog,        \* packets of the current WQE its jetty has not handed out
    scheduled,      \* a ScheduleWqeSegment event for this channel is pending
    segs,           \* m_wqeSegmentVector: [start, size, sent], sent from bytesLeft
    psnCnt,         \* m_tpPsnCnt
    sndNxt,         \* m_psnSndNxt
    sndUna,         \* m_psnSndUna
    windowLimited,  \* m_sendWindowLimited
    tpFull,         \* m_tpFullFlag
    trigger,        \* the sender's port has a round of its allocator to run
    timer,          \* m_retransEvent is pending
    attemptsLeft,   \* m_retransAttemptsLeft
    aborted,        \* the assertion in ReTxTimeout stopped the program
    recvNxt,        \* the receiver's m_psnRecvNxt
    bits,           \* the set bits of the receiver's m_recvPsnBitset
    ackQ,           \* the receiver's m_ackQ, as the PSNs of its acks
    got,            \* history: payloads the receiver has accepted
    dataNet,        \* data packets in the network: [psn, data]
    ackNet,         \* PSNs of the acks in the network
    losses          \* packets and acks dropped so far

jettyVars  == <<backlog, scheduled>>
windowVars == <<segs, psnCnt, sndNxt, sndUna, windowLimited, tpFull>>
timerVars  == <<timer, attemptsLeft, aborted>>
senderVars == <<windowVars, timerVars, trigger>>
recvVars   == <<recvNxt, bits, got>>
netVars    == <<dataNet, ackNet, losses>>
vars == <<jettyVars, senderVars, recvVars, ackQ, netVars>>

Segment == [start : Nat, size : Nat \ {0}, sent : Nat]

Init ==
    /\ backlog = 0 /\ scheduled = FALSE
    /\ segs = {} /\ psnCnt = 0 /\ sndNxt = 0 /\ sndUna = 0
    /\ windowLimited = FALSE /\ tpFull = FALSE /\ trigger = FALSE
    /\ timer = FALSE /\ attemptsLeft = MaxRetransAttempts
    /\ aborted = FALSE
    /\ recvNxt = 0 /\ bits = {} /\ ackQ = <<>> /\ got = {}
    /\ dataNet = <<>> /\ ackNet = <<>> /\ losses = 0

-----------------------------------------------------------------------------
(* What the code computes from this state.                                 *)

\* UbTransportHeader::SetPsn keeps the low 24 bits.
Wire(psn) == psn % PsnMod

\* A window of one packet more.
InflightLimitedMutant(nxt, una) == nxt < una \/ nxt - una > MaxInflight

\* The subtraction is unsigned: below zero it is near 2^64, hence limited.
InflightLimited(nxt, una) == nxt < una \/ nxt - una >= MaxInflight

IsInflightLimited == InflightLimited(sndNxt, sndUna)

\* Empty only when there is no segment, sent or not.
IsEmptyMutant == segs = {}

IsEmpty == segs = {} \/ sndNxt >= psnCnt

Unsent == {s \in segs : s.sent < s.size}

IsWqeSegmentLimited(v) == Cardinality(v) >= MaxWqeSegs

\* The first segment of the vector that is not sent completely.
CurrentSegment == CHOOSE s \in Unsent : \A t \in Unsent : s.start <= t.start

IsRepeatPacket(psn) == psn < recvNxt \/ psn - recvNxt \in bits

\* How far a packet with the expected PSN advances m_psnRecvNxt.
RunLength(b) == CHOOSE n \in 1..OooThreshold : n \notin b /\ 0..(n - 1) \subseteq b

\* A shift that forgets to clear the bits it moves out.
RightShiftUncleared(b, n) == {i - n : i \in b}

\* A shift by one place too few.
RightShiftShort(b, n) == {i - n + 1 : i \in {j \in b : j >= n}}

RightShift(b, n) == {i - n : i \in {j \in b : j >= n}}

\* The places of a channel the network may deliver from.
Deliverable(net) == IF Reorder THEN DOMAIN net ELSE DOMAIN net \cap {1}

-----------------------------------------------------------------------------
(* The transaction layer of the sending node.                              *)

\* UbFunction::PushWqeToJetty: a task hands its WQE to its jetty, which asks
\* for a scheduling round of the channel it is bound to.
PushWqe(n) ==
    /\ ~aborted /\ backlog = 0 /\ psnCnt + n <= MaxPsn
    /\ backlog' = n
    /\ scheduled' = TRUE
    /\ UNCHANGED <<senderVars, recvVars, ackQ, netVars>>

\* The full channel is not remembered.
ScheduleNothingMutant ==
    /\ ~aborted /\ scheduled
    /\ IsWqeSegmentLimited(segs) \/ backlog = 0
    /\ scheduled' = FALSE
    /\ UNCHANGED <<backlog, senderVars, recvVars, ackQ, netVars>>

\* UbTransaction::ScheduleWqeSegment finds the channel full, or the jetty with
\* nothing to hand out.
ScheduleNothing ==
    /\ ~aborted /\ scheduled
    /\ IsWqeSegmentLimited(segs) \/ backlog = 0
    /\ tpFull' = (tpFull \/ IsWqeSegmentLimited(segs))
    /\ scheduled' = FALSE
    /\ UNCHANGED <<backlog, segs, psnCnt, sndNxt, sndUna, windowLimited>>
    /\ UNCHANGED <<timerVars, trigger, recvVars, ackQ, netVars>>

\* UbTransaction::ScheduleWqeSegment takes the next segment of the jetty and
\* OnScheduleWqeSegmentFinish, at the same instant, numbers it, pushes it,
\* triggers the port and schedules again.
ScheduleSegment ==
    /\ ~aborted /\ scheduled
    /\ ~IsWqeSegmentLimited(segs) /\ backlog > 0
    /\ LET size == IF backlog > SegPkts THEN SegPkts ELSE backlog
       IN  /\ backlog' = backlog - size
           /\ segs' = segs \cup {[start |-> psnCnt, size |-> size, sent |-> 0]}
           /\ psnCnt' = psnCnt + size
    /\ trigger' = TRUE
    /\ UNCHANGED <<scheduled, sndNxt, sndUna, windowLimited, tpFull>>
    /\ UNCHANGED <<timerVars, recvVars, ackQ, netVars>>

-----------------------------------------------------------------------------
(* The sending channel.                                                    *)

\* The allocator's round finds the channel empty or limited by its window:
\* nothing is sent, and the port stays idle until the next trigger.
AllocateNothing ==
    /\ ~aborted /\ trigger
    /\ IsEmpty \/ IsInflightLimited
    /\ windowLimited' = (windowLimited \/ ~IsEmpty)
    /\ trigger' = FALSE
    /\ UNCHANGED <<segs, psnCnt, sndNxt, sndUna, tpFull>>
    /\ UNCHANGED <<jettyVars, timerVars, recvVars, ackQ, netVars>>

\* The allocator's round takes UbTransportChannel::GetNextPacket; when the
\* packet has left, the port runs the next round.
GetNextPacket ==
    /\ ~aborted /\ trigger
    /\ ~IsEmpty /\ ~IsInflightLimited /\ Unsent # {}
    /\ LET s == CurrentSegment
       IN  /\ dataNet' = Append(dataNet, [psn |-> Wire(sndNxt), data |-> s.start + s.sent])
           /\ segs' = (segs \ {s}) \cup {[s EXCEPT !.sent = @ + 1]}
    /\ sndNxt' = sndNxt + 1
    /\ timer' = (timer \/ EnableRetrans)
    /\ scheduled' = (scheduled \/ sndNxt + 1 = psnCnt)
    /\ UNCHANGED <<backlog, psnCnt, sndUna, windowLimited, tpFull, trigger>>
    /\ UNCHANGED <<attemptsLeft, aborted, recvVars, ackQ, ackNet, losses>>

\* A segment is complete one packet early.
IncompleteMutant(una) == {s \in segs : una + 1 < s.start + s.size}

\* A segment is complete one packet late: the last of them never is.
IncompleteLate(una) == {s \in segs : una <= s.start + s.size}

\* The segments RecvTpAck keeps when everything below una is acknowledged.
Incomplete(una) == {s \in segs : una < s.start + s.size}

\* An ack up to una opens a window the allocator has found closed.
Reopens(una) == una > sndUna /\ windowLimited /\ ~InflightLimited(sndNxt, una)

\* UbTransportChannel::RecvTpAck on the i-th ack of the network.  With the
\* unlimited window of CAQM every ack triggers the port.
RecvTpAck(i) ==
    /\ ~aborted /\ i \in Deliverable(ackNet)
    /\ LET una  == ackNet[i] + 1
           new  == una > sndUna
           left == Incomplete(IF new THEN una ELSE sndUna)
           room == tpFull /\ ~IsWqeSegmentLimited(left)
       IN  /\ sndUna' = IF new THEN una ELSE sndUna
           /\ windowLimited' = (windowLimited /\ ~Reopens(una))
           /\ trigger' = (trigger \/ Reopens(una) \/ Caqm)
           /\ attemptsLeft' = IF new /\ EnableRetrans THEN MaxRetransAttempts ELSE attemptsLeft
           /\ segs' = left
           /\ tpFull' = (tpFull /\ ~room)
           /\ scheduled' = (scheduled \/ room \/ (left # segs /\ Cardinality(left) < 2))
           /\ timer' = (EnableRetrans /\ (timer \/ new) /\ left # {})
    /\ ackNet' = RemoveAt(ackNet, i)
    /\ UNCHANGED <<backlog, psnCnt, sndNxt, aborted, recvVars, ackQ, dataNet, losses>>

\* The segment that una falls into keeps the bytes it has sent.
RewindMutant(s) == IF s.start > sndUna THEN [s EXCEPT !.sent = 0] ELSE s

\* ReTxTimeout: what is left of a segment's sending after the rollback to una.
Rewind(s) ==
    IF s.start > sndUna THEN [s EXCEPT !.sent = 0]
    ELSE IF s.start + s.size > sndUna THEN [s EXCEPT !.sent = sndUna - s.start]
    ELSE s

\* A timeout that does not trigger the port.
ReTxTimeoutMutant ==
    /\ ~aborted /\ timer /\ attemptsLeft > 1
    /\ attemptsLeft' = attemptsLeft - 1
    /\ sndNxt' = sndUna
    /\ segs' = {Rewind(s) : s \in segs}
    /\ UNCHANGED <<psnCnt, sndUna, windowLimited, tpFull, trigger, timer, aborted>>
    /\ UNCHANGED <<jettyVars, recvVars, ackQ, netVars>>

\* UbTransportChannel::ReTxTimeout: go back to the first unacknowledged packet,
\* arm the timer again and trigger the port.
ReTxTimeout ==
    /\ ~aborted /\ timer /\ attemptsLeft > 1
    /\ attemptsLeft' = attemptsLeft - 1
    /\ sndNxt' = sndUna
    /\ segs' = {Rewind(s) : s \in segs}
    /\ trigger' = TRUE
    /\ UNCHANGED <<psnCnt, sndUna, windowLimited, tpFull, timer, aborted>>
    /\ UNCHANGED <<jettyVars, recvVars, ackQ, netVars>>

\* ReTxTimeout when its assertion fails: the program stops.
ReTxAbort ==
    /\ ~aborted /\ timer /\ attemptsLeft <= 1
    /\ attemptsLeft' = attemptsLeft - 1
    /\ aborted' = TRUE
    /\ UNCHANGED <<timer, jettyVars, windowVars, trigger, recvVars, ackQ, netVars>>

-----------------------------------------------------------------------------
(* The receiving channel.                                                  *)

\* The repeated ack names the next PSN, not the last one.
RecvRepeatMutant(psn) ==
    /\ IsRepeatPacket(psn)
    /\ ackQ' = Append(ackQ, Wire(recvNxt))
    /\ UNCHANGED recvVars

\* RecvDataPacket on a PSN it has: the ack repeats the last one.
RecvRepeat(psn) ==
    /\ IsRepeatPacket(psn)
    /\ ackQ' = Append(ackQ, Wire(recvNxt - 1))
    /\ UNCHANGED recvVars

\* RecvDataPacket on a PSN past the bitmap: dropped without an ack.
RecvOverflow(psn) ==
    /\ psn >= recvNxt + OooThreshold
    /\ UNCHANGED <<recvVars, ackQ>>

\* An out-of-order packet is acknowledged with its own PSN.
RecvOutOfOrderMutant(psn, data) ==
    /\ ~IsRepeatPacket(psn) /\ psn > recvNxt /\ psn < recvNxt + OooThreshold
    /\ bits' = bits \cup {psn - recvNxt}
    /\ got' = got \cup {data}
    /\ ackQ' = Append(ackQ, psn)
    /\ UNCHANGED recvNxt

\* RecvDataPacket on a PSN inside the bitmap but not the next: recorded only.
RecvOutOfOrder(psn, data) ==
    /\ ~IsRepeatPacket(psn) /\ psn > recvNxt /\ psn < recvNxt + OooThreshold
    /\ bits' = bits \cup {psn - recvNxt}
    /\ got' = got \cup {data}
    /\ UNCHANGED <<recvNxt, ackQ>>

\* RecvDataPacket on the next PSN: advance over the bitmap, shift it and
\* acknowledge the last PSN in sequence.
RecvInOrder(psn, data) ==
    /\ ~IsRepeatPacket(psn) /\ psn = recvNxt
    /\ LET n == RunLength(bits \cup {0})
       IN  /\ recvNxt' = recvNxt + n
           /\ bits' = RightShift(bits, n)
           /\ ackQ' = Append(ackQ, Wire(recvNxt + n - 1))
    /\ got' = got \cup {data}

\* UbTransportChannel::RecvDataPacket on the i-th data packet of the network.
RecvDataPacket(i) ==
    /\ ~aborted /\ i \in Deliverable(dataNet)
    /\ LET p == dataNet[i]
       IN  \/ RecvRepeat(p.psn)
           \/ RecvOverflow(p.psn)
           \/ RecvOutOfOrder(p.psn, p.data)
           \/ RecvInOrder(p.psn, p.data)
    /\ dataNet' = RemoveAt(dataNet, i)
    /\ UNCHANGED <<jettyVars, senderVars, ackNet, losses>>

\* GetNextPacket of the receiving channel: acks go first and know no window.
SendAck ==
    /\ ~aborted /\ ackQ # <<>>
    /\ ackNet' = Append(ackNet, Head(ackQ))
    /\ ackQ' = Tail(ackQ)
    /\ UNCHANGED <<jettyVars, senderVars, recvVars, dataNet, losses>>

-----------------------------------------------------------------------------
(* The network: switches with full buffers, failed channels and the fault  *)
(* module drop packets and acks.                                           *)

LoseData(i) ==
    /\ ~aborted /\ losses < MaxLoss
    /\ i \in DOMAIN dataNet
    /\ dataNet' = RemoveAt(dataNet, i)
    /\ losses' = losses + 1
    /\ UNCHANGED <<jettyVars, senderVars, recvVars, ackQ, ackNet>>

LoseAck(i) ==
    /\ ~aborted /\ losses < MaxLoss
    /\ i \in DOMAIN ackNet
    /\ ackNet' = RemoveAt(ackNet, i)
    /\ losses' = losses + 1
    /\ UNCHANGED <<jettyVars, senderVars, recvVars, ackQ, dataNet>>

-----------------------------------------------------------------------------
Transaction == ScheduleNothing \/ ScheduleSegment
Allocate    == AllocateNothing \/ GetNextPacket
Timer       == ReTxTimeout \/ ReTxAbort
RecvData    == \E i \in DOMAIN dataNet : RecvDataPacket(i)
RecvAck     == \E i \in DOMAIN ackNet : RecvTpAck(i)
Loss        == \/ \E i \in DOMAIN dataNet : LoseData(i)
               \/ \E i \in DOMAIN ackNet : LoseAck(i)

Next ==
    \/ \E n \in WqeSizes : PushWqe(n)
    \/ Transaction
    \/ Allocate
    \/ Timer
    \/ RecvData
    \/ SendAck
    \/ RecvAck
    \/ Loss

Spec == Init /\ [][Next]_vars

\* The simulator runs every event it has scheduled and the links deliver what
\* they do not drop; a new WQE, a loss and an expiry of the timer before its
\* time are never owed.
Fairness ==
    /\ WF_vars(Transaction)
    /\ WF_vars(Allocate)
    /\ WF_vars(RecvData)
    /\ WF_vars(SendAck)
    /\ WF_vars(RecvAck)

FairSpec == Spec /\ Fairness

-----------------------------------------------------------------------------
(* Properties.                                                             *)

\* What the channel promises: see ReliableTransfer.
Reliable == INSTANCE ReliableTransfer WITH
    accepted <- psnCnt, delivered <- recvNxt, confirmed <- sndUna

\* The channel implements reliable transfer: a packet is confirmed to the sender
\* only after it is delivered in sequence, delivered only after it is accepted,
\* and neither is ever taken back.
ReliableSpec == Reliable!Spec

\* The sender takes a PSN of 0 - 1 for an ack of all it ever sent.
ConfirmUnderflow == sndUna' = PsnMod /\ UNCHANGED <<psnCnt, recvNxt>>

\* With retransmission a repeated packet that meets a receiver still waiting for
\* packet 0 is answered with this PSN.  Whatever is lost, sent twice or late, no
\* other step leaves reliable transfer, before such an ack or after it.
ReliableButForUnderflow ==
    Reliable!Init /\ [][Reliable!Next \/ ConfirmUnderflow]_(Reliable!vars)

\* The same with progress: what is accepted is delivered and confirmed.
ReliableFairSpec == Reliable!FairSpec

FlagsOK ==
    /\ scheduled \in BOOLEAN /\ windowLimited \in BOOLEAN /\ tpFull \in BOOLEAN
    /\ trigger \in BOOLEAN /\ timer \in BOOLEAN /\ aborted \in BOOLEAN

SenderOK ==
    /\ backlog \in Nat /\ segs \subseteq Segment
    /\ psnCnt \in Nat /\ sndNxt \in Nat /\ sndUna \in Nat

AttemptsOK == attemptsLeft \in 0..MaxRetransAttempts

ReceiverOK == recvNxt \in Nat /\ bits \subseteq 0..(OooThreshold - 1) /\ got \subseteq Nat

NetworkOK ==
    /\ ackQ \in Seq(0..(PsnMod - 1)) /\ ackNet \in Seq(0..(PsnMod - 1))
    /\ dataNet \in Seq([psn : 0..(PsnMod - 1), data : Nat])
    /\ losses \in 0..MaxLoss

TypeOK == FlagsOK /\ SenderOK /\ AttemptsOK /\ ReceiverOK /\ NetworkOK

\* The receiver's window describes exactly the payloads it has accepted:
\* everything below m_psnRecvNxt has arrived, bit i of the bitmap is set if
\* and only if payload m_psnRecvNxt + i has, and nothing else has.  Numbering
\* on the sender (PSN against the bytes left of a segment, across a rollback)
\* and the shift of the bitmap must both be right for this.
BitmapSound == got = 0..(recvNxt - 1) \cup {recvNxt + i : i \in bits}

\* RecvTpAck drops a segment, and reports it to the jetty as complete, only
\* when the receiver has all of its packets: no cumulative ack, early,
\* repeated or reordered, runs ahead of the receiver.
CompletedWereReceived ==
    \A d \in 0..(psnCnt - 1) :
        (\A s \in segs : d < s.start \/ d >= s.start + s.size) => d \in got

\* What the sender takes for acknowledged has been received: the window never
\* slides past a packet the receiver still needs.
AckedWereReceived == sndUna <= recvNxt

\* The receiver's bitmap, 2048 by default, is as wide as the sender's window:
\* no packet of the window arrives past its end, where RecvDataPacket drops it.
WindowFitsBitmap ==
    \A i \in DOMAIN dataNet : dataNet[i].psn < recvNxt + OooThreshold

\* The allocator enqueues what GetNextPacket returns without looking: when the
\* channel is neither empty nor limited, there is a segment to cut a packet from.
NeverEmptyHanded == ~IsEmpty /\ ~IsInflightLimited => Unsent # {}

\* A channel with a packet to send and an open window has a round of the
\* allocator pending: no trigger is lost between window, ack and timeout.
NoLostTrigger == ~aborted /\ ~IsEmpty /\ ~IsInflightLimited => trigger

\* A jetty with packets left and a channel with room for a segment have a
\* scheduling round pending: m_tpFullFlag loses no request.
NoLostRequest == ~aborted /\ backlog > 0 /\ ~IsWqeSegmentLimited(segs) => scheduled

\* With retransmission enabled the timer runs while a packet is outstanding,
\* and never runs on for a channel whose segments are all complete.
TimerCoversInflight ==
    EnableRetrans /\ ~aborted =>
        /\ sndUna < sndNxt => timer
        /\ timer => segs # {}

\* A WQE handed to the jetty is sent, acknowledged and dropped from the
\* channel, through every full window and every full segment vector.
EveryWqeCompletes == []<>(backlog = 0 /\ segs = {})

\* ub-transport.cc:1039, of the ack to a repeated packet: it "confirms the
\* largest PSN received in sequence", so its PSN is below m_psnRecvNxt.
AckIsLargestInSequence == \A i \in DOMAIN ackQ : ackQ[i] < recvNxt

\* ub-transport.cc:1035, of the branch IsRepeatPacket selects: "a repeated packet
\* has been received", so its payload has arrived before.
RepeatIsDuplicate ==
    \A i \in DOMAIN dataNet : IsRepeatPacket(dataNet[i].psn) => dataNet[i].data \in got

\* ub-transport.h:142: IsInflightLimited is "True if inflight packets exceed
\* maximum limit".
LimitedOnlyWhenFull == IsInflightLimited => sndNxt - sndUna >= MaxInflight

-----------------------------------------------------------------------------
(* The inductive invariant behind BitmapSound, AckedWereReceived and       *)
(* CompletedWereReceived, when the PSN does not wrap (MaxPsn < PsnMod).    *)

Covers(s, d) == s.start <= d /\ d < s.start + s.size

\* How much of a segment is sent when the send pointer is n packets into it.
SentAt(n, size) == IF n <= 0 THEN 0 ELSE IF n >= size THEN size ELSE n

\* Segments hold packets that were numbered, in disjoint ranges.
SegmentsDisjoint ==
    /\ \A s \in segs : s.start + s.size <= psnCnt
    /\ \A s, t \in segs : s = t \/ s.start + s.size <= t.start \/ t.start + t.size <= s.start

\* The bytes left of the segments and m_psnSndNxt tell the same.
SentMatchesNext == \A s \in segs : s.sent = SentAt(sndNxt - s.start, s.size)

\* The segments that are left are exactly those with an unacknowledged packet.
SegmentsCoverUna ==
    /\ \A d \in sndUna..(psnCnt - 1) : \E s \in segs : Covers(s, d)
    /\ sndUna <= psnCnt => \A s \in segs : sndUna < s.start + s.size

SegmentsSound == SegmentsDisjoint /\ SentMatchesNext /\ SegmentsCoverUna

\* An ack names a packet below m_psnRecvNxt, or is the 0 - 1 of a repeated
\* packet that meets a receiver still waiting for packet 0.
AckSound(a) == a < recvNxt \/ a = PsnMod - 1

CountersSound ==
    /\ sndNxt <= psnCnt /\ psnCnt + backlog <= MaxPsn
    /\ timer => sndUna <= psnCnt
    /\ sndUna <= recvNxt \/ sndUna = PsnMod

NetworkSound ==
    /\ \A i \in DOMAIN dataNet : dataNet[i].psn = dataNet[i].data /\ dataNet[i].data < psnCnt
    /\ \A i \in DOMAIN ackNet : AckSound(ackNet[i])
    /\ \A i \in DOMAIN ackQ : AckSound(ackQ[i])

ReceiverSound == (\A d \in got : d < psnCnt) /\ BitmapSound

\* Every counter, segment, packet and ack of the channel agrees with the others.
ChannelInv == SegmentsSound /\ CountersSound /\ NetworkSound /\ ReceiverSound

\* Every packet crosses the network once.
DataSentOnce ==
    /\ \A i, j \in DOMAIN dataNet : dataNet[i].data = dataNet[j].data => i = j
    /\ \A i \in DOMAIN dataNet : dataNet[i].data < sndNxt /\ dataNet[i].data \notin got
    /\ \A d \in got : d < sndNxt

\* No ack is ahead of the receiver.
NotAckedAhead ==
    /\ sndUna <= recvNxt
    /\ \A i \in DOMAIN ackNet : ackNet[i] < recvNxt
    /\ \A i \in DOMAIN ackQ : ackQ[i] < recvNxt

\* What holds in addition without retransmission.
SentOnceInv == ~timer /\ DataSentOnce /\ NotAckedAhead

-----------------------------------------------------------------------------
(* The inductive forms of NoLostTrigger, NoLostRequest and                 *)
(* WindowFitsBitmap.                                                       *)

\* A channel waits without a round only where the allocator has found the window
\* closed, has remembered that, and no ack has opened it since.
WakeupInv == ~aborted /\ ~IsEmpty /\ ~trigger => windowLimited /\ IsInflightLimited

\* A jetty waits without a scheduling round only for a channel whose vector is
\* full and which has remembered that.
RequestInv ==
    /\ IsFiniteSet(segs)
    /\ ~aborted /\ backlog > 0 /\ ~scheduled => tpFull /\ IsWqeSegmentLimited(segs)

\* The sender never runs further ahead than its window.
SentWithinWindow == sndNxt <= sndUna + MaxInflight
=============================================================================
