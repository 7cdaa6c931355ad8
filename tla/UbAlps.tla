------------------------------- MODULE UbAlps -------------------------------
(***************************************************************************)
(* ALPS between two hosts: the transport channels (TPs) of the sending     *)
(* host spray packets over the paths of one PST entry, and one routing     *)
(* process keeps, for all of them, the unacknowledged packets per path     *)
(* (m_pendingByPid), one timeout per path and the packets to retransmit    *)
(* per TP (m_retransBuffer).  The receiving channels acknowledge every     *)
(* packet over the reverse path, with its own PSN in the ALPS tag and the  *)
(* cumulative PSN in the transport header.                                 *)
(*                                                                         *)
(* The TPs of one pair of hosts differ in priority, so a path is FIFO for  *)
(* each TP and not between two of them; acks wait in a queue per TP and    *)
(* are paced per TP.  All packets have one size, the unit of the in-flight *)
(* limits.  Rates and delays only choose paths and times: a path is chosen *)
(* freely among those that are not full, and the send timer of a TP fires  *)
(* some time after a packet.  Hosts have one port, as UbHostAlps assumes.  *)
(***************************************************************************)
EXTENDS Integers, Sequences, FiniteSets, SequencesExt

CONSTANTS
    Tps,            \* TPs between the two hosts
    Paths,          \* PitEntries of their PST entry
    NoTp,           \* no timeout is pending
    Scenarios,      \* the cases an instance is run in, see Scenario
    MaxInflight,    \* m_maxInflightPacketSize, the send window
    OooThreshold,   \* m_psnOooThreshold, the width of the receive bitmap
    PsnMod          \* 2^24: the header carries 24 bits of the PSN

\* load: sizes in packets of the segments each TP is given, which are in its
\* vector from the start (the vector takes two; UbTransport has the requests for
\* more); tpLimit, pathLimit:
\* in-flight limits, 0 when they are disabled; remove: m_removeUselessTp.
\* Bounds: dataLoss and ackLoss, packets and acks the network drops; early,
\* timeouts that race an answer still under way.
Scenario == [load : [Tps -> Seq(Nat \ {0})], tpLimit : Nat, pathLimit : Nat,
             remove : BOOLEAN, dataLoss : Nat, ackLoss : Nat, early : Nat]

ASSUME ConstantsAssumption ==
    /\ IsFiniteSet(Tps) /\ IsFiniteSet(Paths)
    /\ NoTp \notin Tps
    /\ Scenarios \subseteq Scenario
    /\ MaxInflight \in Nat \ {0}
    /\ OooThreshold \in Nat \ {0}
    /\ PsnMod \in Nat \ {0}

VARIABLES
    scen,       \* the scenario of this behaviour
    segs,       \* TP: m_wqeSegmentVector, as [start, size]
    sndNxt,     \* TP: m_psnSndNxt
    sndUna,     \* TP: m_psnSndUna
    exists,     \* TP: it is in m_numToTp of both hosts
    pacing,     \* TP: m_nextSendTimerEvent is pending, m_nextSendTime is ahead
    tpBits,     \* TP: m_bdpLikeInFlightBits, in packets
    pathBits,   \* path: m_perPathBdpInFlightBits, in packets
    pending,    \* path: m_pendingByPid
    rto,        \* path: the TP that its pending timeout was set for, or NoTp
    retrans,    \* TP: m_retransBuffer
    trigger,    \* the host's port has a round of its allocator to run
    recvNxt,    \* TP: the receiver's m_psnRecvNxt
    bits,       \* TP: the set bits of the receiver's m_recvPsnBitset
    data,       \* path, TP: PSNs of the data packets on their way
    acks,       \* path, TP: acks on their way, as [psn, cum]
    lostData,   \* data packets dropped so far
    lostAcks,   \* acks dropped so far
    early       \* timeouts so far that raced an answer

senderVars  == <<segs, sndNxt, sndUna, exists, pacing>>
alpsVars    == <<tpBits, pathBits, pending, rto, retrans>>
recvVars    == <<recvNxt, bits>>
budgetVars  == <<lostData, lostAcks, early>>
vars == <<scen, senderVars, alpsVars, trigger, recvVars, data, acks, budgetVars>>

\* PendingPkt: its PSN, the TP that sent it last, and the TP of its header.
PendingPkt == [psn : Nat, srcTpn : Tps, owner : Tps]

Total(sizes) == FoldSeq(LAMBDA n, sum : n + sum, 0, sizes)

\* The segments of a load, numbered one after the other.
SegmentsOf(sizes) ==
    {[start |-> Total(SubSeq(sizes, 1, i - 1)), size |-> sizes[i]] : i \in DOMAIN sizes}

Init ==
    /\ scen \in Scenarios
    /\ segs = [t \in Tps |-> SegmentsOf(scen.load[t])]
    /\ sndNxt = [t \in Tps |-> 0] /\ sndUna = [t \in Tps |-> 0]
    /\ exists = [t \in Tps |-> TRUE] /\ pacing = [t \in Tps |-> FALSE]
    /\ tpBits = [t \in Tps |-> 0] /\ pathBits = [p \in Paths |-> 0]
    /\ pending = [p \in Paths |-> <<>>] /\ rto = [p \in Paths |-> NoTp]
    /\ retrans = [t \in Tps |-> <<>>]
    /\ trigger = TRUE
    /\ recvNxt = [t \in Tps |-> 0] /\ bits = [t \in Tps |-> {}]
    /\ data = [p \in Paths |-> [t \in Tps |-> <<>>]]
    /\ acks = [p \in Paths |-> [t \in Tps |-> <<>>]]
    /\ lostData = 0 /\ lostAcks = 0 /\ early = 0

-----------------------------------------------------------------------------
(* What the allocator asks a channel.                                      *)

Wire(psn) == psn % PsnMod

\* The subtraction is unsigned: below zero it is near 2^64, hence limited.
IsInflightLimited(t) == sndNxt[t] < sndUna[t] \/ sndNxt[t] - sndUna[t] >= MaxInflight

\* A buffer of packets to retransmit does not make a channel non-empty.
IsEmptyMutant(t) == segs[t] = {} \/ sndNxt[t] >= Total(scen.load[t])

IsEmpty(t) ==
    retrans[t] = <<>> /\ (segs[t] = {} \/ sndNxt[t] >= Total(scen.load[t]))

IsPerPathBdpFull(p) == scen.pathLimit > 0 /\ pathBits[p] > scen.pathLimit

IsBdpLikeFull(t) == scen.tpLimit > 0 /\ tpBits[t] > scen.tpLimit

\* UbTransportChannel::IsLimited: a retransmission is held back by the in-flight
\* limits and not by the window.
IsLimited(t) ==
    \/ \A p \in Paths : IsPerPathBdpFull(p)
    \/ IsBdpLikeFull(t)
    \/ retrans[t] = <<>> /\ IsInflightLimited(t)

\* SelectNextIngressQueueForALPS may select t: its rate allows a packet now.
Selectable(t) == exists[t] /\ ~pacing[t] /\ ~IsEmpty(t) /\ ~IsLimited(t)

-----------------------------------------------------------------------------
(* Sending.                                                                *)

\* The in-flight counts are not kept when the limits are disabled.
Add(limit, n) == IF limit > 0 THEN n + 1 ELSE n

\* AddAplsTagForDatapacketOnHost and AddAplsTagForRetransPacketOnHost on path p:
\* count the packet, RecordAlpsSentPacket, and wait for the rate of t.
Spray(t, p, psn, owner) ==
    /\ pending' = [pending EXCEPT ![p] = Append(@, [psn |-> psn, srcTpn |-> t, owner |-> owner])]
    /\ rto' = [rto EXCEPT ![p] = t]
    /\ tpBits' = [tpBits EXCEPT ![t] = Add(scen.tpLimit, @)]
    /\ pathBits' = [pathBits EXCEPT ![p] = Add(scen.pathLimit, @)]
    /\ data' = [data EXCEPT ![p][owner] = Append(@, psn)]
    /\ pacing' = [pacing EXCEPT ![t] = TRUE]

\* GetNextPacketForAlps takes a packet from m_retransBuffer.
Retransmit(t, p) ==
    /\ retrans[t] # <<>>
    /\ Spray(t, p, Head(retrans[t]).psn, Head(retrans[t]).owner)
    /\ retrans' = [retrans EXCEPT ![t] = Tail(@)]
    /\ UNCHANGED sndNxt

\* GetNextPacketForAlps cuts a new packet from a segment.
SendNew(t, p) ==
    /\ retrans[t] = <<>>
    /\ Spray(t, p, sndNxt[t], t)
    /\ sndNxt' = [sndNxt EXCEPT ![t] = @ + 1]
    /\ UNCHANGED retrans

\* A round of the allocator sends; the port runs the next one when the packet
\* has left.
GetNextPacketForAlps(t, p) ==
    /\ trigger /\ Selectable(t) /\ ~IsPerPathBdpFull(p)
    /\ Retransmit(t, p) \/ SendNew(t, p)
    /\ UNCHANGED <<scen, segs, sndUna, exists, trigger, recvVars, acks, budgetVars>>

\* A round that finds nothing to send.
AllocateNothing ==
    /\ trigger /\ \A t \in Tps : ~Selectable(t)
    /\ trigger' = FALSE
    /\ UNCHANGED <<scen, senderVars, alpsVars, recvVars, data, acks, budgetVars>>

\* The send timer comes to nothing.
NextSendTimeMutant(t) ==
    /\ pacing[t]
    /\ pacing' = [pacing EXCEPT ![t] = FALSE]
    /\ UNCHANGED <<scen, segs, sndNxt, sndUna, exists, trigger>>
    /\ UNCHANGED <<alpsVars, recvVars, data, acks, budgetVars>>

\* m_nextSendTimerEvent triggers the allocator.
NextSendTime(t) ==
    /\ pacing[t]
    /\ pacing' = [pacing EXCEPT ![t] = FALSE]
    /\ trigger' = TRUE
    /\ UNCHANGED <<scen, segs, sndNxt, sndUna, exists, alpsVars, recvVars, data, acks, budgetVars>>

-----------------------------------------------------------------------------
(* Receiving data.                                                         *)

Received(t, psn) == psn < recvNxt[t] \/ psn - recvNxt[t] \in bits[t]

\* How far a packet with the expected PSN advances m_psnRecvNxt.
RunLength(b) == CHOOSE n \in 1..OooThreshold : n \notin b /\ 0..(n - 1) \subseteq b

RightShift(b, n) == {i - n : i \in {k \in b : k >= n}}

\* The ack of a packet goes back on the reverse of its path.
Acknowledge(t, p, psn, cum) ==
    acks' = [acks EXCEPT ![p][t] = Append(@, [psn |-> psn, cum |-> cum])]

\* Repeated: the ack repeats m_psnRecvNxt - 1, also when that is 0 - 1.
RecvRepeat(t, p, psn) ==
    /\ Received(t, psn)
    /\ Acknowledge(t, p, psn, Wire(recvNxt[t] - 1))
    /\ UNCHANGED recvVars

\* Past the bitmap, or for a TP that is gone: dropped without an ack.
RecvDrop(t, psn) ==
    /\ ~exists[t] \/ psn >= recvNxt[t] + OooThreshold
    /\ UNCHANGED <<recvVars, acks>>

\* Out of order: recorded, and acknowledged with PSN 0 while packet 0 is missing.
RecvOutOfOrder(t, p, psn) ==
    /\ ~Received(t, psn) /\ psn > recvNxt[t] /\ psn < recvNxt[t] + OooThreshold
    /\ bits' = [bits EXCEPT ![t] = @ \cup {psn - recvNxt[t]}]
    /\ Acknowledge(t, p, psn, IF recvNxt[t] > 0 THEN Wire(recvNxt[t] - 1) ELSE 0)
    /\ UNCHANGED recvNxt

\* The ack names the first PSN that is missing.
RecvInOrderMutant(t, p, psn) ==
    /\ ~Received(t, psn) /\ psn = recvNxt[t]
    /\ LET n == RunLength(bits[t] \cup {0})
       IN  /\ recvNxt' = [recvNxt EXCEPT ![t] = @ + n]
           /\ bits' = [bits EXCEPT ![t] = RightShift(@, n)]
           /\ Acknowledge(t, p, psn, Wire(recvNxt[t] + n))

RecvInOrder(t, p, psn) ==
    /\ ~Received(t, psn) /\ psn = recvNxt[t]
    /\ LET n == RunLength(bits[t] \cup {0})
       IN  /\ recvNxt' = [recvNxt EXCEPT ![t] = @ + n]
           /\ bits' = [bits EXCEPT ![t] = RightShift(@, n)]
           /\ Acknowledge(t, p, psn, Wire(recvNxt[t] + n - 1))

\* SinkTpDataPacket and RecvDataPacketForAlps on the next packet of t on path p.
RecvDataPacketForAlps(t, p) ==
    /\ data[p][t] # <<>>
    /\ LET psn == Head(data[p][t])
       IN  \/ RecvDrop(t, psn)
           \/ exists[t] /\ (RecvRepeat(t, p, psn) \/ RecvOutOfOrder(t, p, psn) \/ RecvInOrder(t, p, psn))
    /\ data' = [data EXCEPT ![p][t] = Tail(@)]
    /\ UNCHANGED <<scen, senderVars, alpsVars, trigger, budgetVars>>

-----------------------------------------------------------------------------
(* Acks and timeouts at the sender.                                        *)

\* Not clamped at zero.
ReleaseMutant(limit, n, k) == IF limit = 0 THEN n ELSE n - k

\* AckBdpLikeInFlightBytes and AckPerPathBdpInFlightBytes never go below zero.
Release(limit, n, k) == IF limit = 0 THEN n ELSE IF k > n THEN 0 ELSE n - k

\* All packets are taken out and filed.
PoppedMutant(p, t, psn) == Len(pending[p])

\* How many packets of the path are taken out for an ack of t with this PSN: up
\* to the one it acknowledges, or all of them.
Popped(p, t, psn) ==
    LET hits == {i \in DOMAIN pending[p] : pending[p][i].psn = psn /\ pending[p][i].srcTpn = t}
    IN  IF hits = {} THEN Len(pending[p]) ELSE CHOOSE i \in hits : \A k \in hits : i <= k

Matched(p, t, psn) ==
    \E i \in DOMAIN pending[p] : pending[p][i].psn = psn /\ pending[p][i].srcTpn = t

\* The packets before the acknowledged one are dropped instead of filed.
HandleAlpsAckByPsnMutant(p, t, psn) ==
    LET k == Popped(p, t, psn)
    IN  /\ pending' = [pending EXCEPT ![p] = SubSeq(@, k + 1, Len(@))]
        /\ UNCHANGED retrans
        /\ tpBits' = [tpBits EXCEPT ![t] = Release(scen.tpLimit, @, k)]
        /\ pathBits' = [pathBits EXCEPT ![p] = Release(scen.pathLimit, @, k)]
        /\ rto' = [rto EXCEPT ![p] = IF k = Len(pending[p]) THEN NoTp ELSE t]

\* Every packet taken out is filed, the acknowledged one too, and none counted out
\* of the path.
FilingMutant(p, t, psn) ==
    LET k == Popped(p, t, psn)
    IN  /\ pending' = [pending EXCEPT ![p] = SubSeq(@, k + 1, Len(@))]
        /\ retrans' = [retrans EXCEPT ![t] = @ \o SubSeq(pending[p], 1, k)]
        /\ UNCHANGED <<tpBits, pathBits>>
        /\ rto' = [rto EXCEPT ![p] = IF k = Len(pending[p]) THEN NoTp ELSE t]

\* Everything that is taken out but the acknowledged packet is lost, and filed
\* under the TP of the ack; the timeout is set again, or cancelled.
HandleAlpsAckByPsn(p, t, psn) ==
    LET k == Popped(p, t, psn)
        lost == SubSeq(pending[p], 1, IF Matched(p, t, psn) THEN k - 1 ELSE k)
    IN  /\ pending' = [pending EXCEPT ![p] = SubSeq(@, k + 1, Len(@))]
        /\ retrans' = [retrans EXCEPT ![t] = @ \o lost]
        /\ tpBits' = [tpBits EXCEPT ![t] = Release(scen.tpLimit, @, k)]
        /\ pathBits' = [pathBits EXCEPT ![p] = Release(scen.pathLimit, @, k)]
        /\ rto' = [rto EXCEPT ![p] = IF k = Len(pending[p]) THEN NoTp ELSE t]

Incomplete(t, una) == {s \in segs[t] : una < s.start + s.size}

\* SinkTpDataPacket and RecvTpAckForAlps on the next ack of t from path p.  The
\* last segment to complete ends the task, which may destroy the TP.
RecvTpAckForAlps(t, p) ==
    /\ acks[p][t] # <<>>
    /\ acks' = [acks EXCEPT ![p][t] = Tail(@)]
    /\ IF exists[t]
       THEN LET a == Head(acks[p][t])
                una == IF a.cum + 1 > sndUna[t] THEN a.cum + 1 ELSE sndUna[t]
            IN  /\ HandleAlpsAckByPsn(p, t, a.psn)
                /\ sndUna' = [sndUna EXCEPT ![t] = una]
                /\ segs' = [segs EXCEPT ![t] = Incomplete(t, una)]
                /\ exists' = [exists EXCEPT ![t] = ~scen.remove \/ Incomplete(t, una) # {}]
                /\ trigger' = TRUE
       ELSE UNCHANGED <<alpsVars, sndUna, segs, exists, trigger>>
    /\ UNCHANGED <<scen, sndNxt, pacing, recvVars, data, budgetVars>>

\* Nothing of the path is on its way, in either direction.
Quiet(p) == \A t \in Tps : data[p][t] = <<>> /\ acks[p][t] = <<>>

\* The packets are taken out and not filed.
HandleTimeoutForLapsbypidMutant(p) ==
    LET t == rto[p]
    IN  /\ t # NoTp
        /\ UNCHANGED retrans
        /\ tpBits' = [tpBits EXCEPT ![t] = Release(scen.tpLimit, @, Len(pending[p]))]
        /\ pathBits' = [pathBits EXCEPT ![p] = Release(scen.pathLimit, @, Len(pending[p]))]
        /\ pending' = [pending EXCEPT ![p] = <<>>]
        /\ rto' = [rto EXCEPT ![p] = NoTp]
        /\ trigger' = TRUE

\* All packets of the path are lost, and filed under the TP that set the timeout.
HandleTimeoutForLapsbypid(p) ==
    LET t == rto[p]
    IN  /\ t # NoTp
        /\ retrans' = [retrans EXCEPT ![t] = @ \o pending[p]]
        /\ tpBits' = [tpBits EXCEPT ![t] = Release(scen.tpLimit, @, Len(pending[p]))]
        /\ pathBits' = [pathBits EXCEPT ![p] = Release(scen.pathLimit, @, Len(pending[p]))]
        /\ pending' = [pending EXCEPT ![p] = <<>>]
        /\ rto' = [rto EXCEPT ![p] = NoTp]
        /\ trigger' = TRUE

\* The timeout expires when the path has nothing more to answer ...
Timeout(p) ==
    /\ Quiet(p)
    /\ HandleTimeoutForLapsbypid(p)
    /\ UNCHANGED <<scen, senderVars, recvVars, data, acks, budgetVars>>

\* ... or before, when the path is slower than the millisecond it is set to.
EarlyTimeout(p) ==
    /\ ~Quiet(p) /\ early < scen.early
    /\ HandleTimeoutForLapsbypid(p)
    /\ early' = early + 1
    /\ UNCHANGED <<scen, senderVars, recvVars, data, acks, lostData, lostAcks>>

-----------------------------------------------------------------------------
(* The network: switches drop what finds their input buffer full.          *)

LoseData(t, p, i) ==
    /\ lostData < scen.dataLoss /\ i \in DOMAIN data[p][t]
    /\ data' = [data EXCEPT ![p][t] = RemoveAt(@, i)]
    /\ lostData' = lostData + 1
    /\ UNCHANGED <<scen, senderVars, alpsVars, trigger, recvVars, acks, lostAcks, early>>

LoseAck(t, p, i) ==
    /\ lostAcks < scen.ackLoss /\ i \in DOMAIN acks[p][t]
    /\ acks' = [acks EXCEPT ![p][t] = RemoveAt(@, i)]
    /\ lostAcks' = lostAcks + 1
    /\ UNCHANGED <<scen, senderVars, alpsVars, trigger, recvVars, data, lostData, early>>

-----------------------------------------------------------------------------
Allocate == AllocateNothing \/ \E t \in Tps, p \in Paths : GetNextPacketForAlps(t, p)
Pace     == \E t \in Tps : NextSendTime(t)
Arrive(t, p) == RecvDataPacketForAlps(t, p) \/ RecvTpAckForAlps(t, p)
Lose     == \E t \in Tps, p \in Paths :
                \/ \E i \in DOMAIN data[p][t] : LoseData(t, p, i)
                \/ \E i \in DOMAIN acks[p][t] : LoseAck(t, p, i)

Next ==
    \/ Allocate
    \/ Pace
    \/ \E t \in Tps, p \in Paths : Arrive(t, p)
    \/ \E p \in Paths : Timeout(p) \/ EarlyTimeout(p)
    \/ Lose

Spec == Init /\ [][Next]_vars

\* The simulator runs its events, the links deliver what they do not drop, and
\* the timeout of a path expires when no answer comes; a loss and a timeout
\* that comes too early are never owed.
Fairness ==
    /\ WF_vars(Allocate) /\ WF_vars(Pace)
    /\ \A t \in Tps, p \in Paths : WF_vars(Arrive(t, p))
    /\ \A p \in Paths : WF_vars(Timeout(p))

FairSpec == Spec /\ Fairness

-----------------------------------------------------------------------------
(* Properties.                                                             *)

SegmentsOK == segs \in [Tps -> SUBSET [start : Nat, size : Nat \ {0}]]

SenderOK ==
    /\ scen \in Scenarios
    /\ sndNxt \in [Tps -> Nat] /\ sndUna \in [Tps -> Nat]
    /\ exists \in [Tps -> BOOLEAN] /\ pacing \in [Tps -> BOOLEAN] /\ trigger \in BOOLEAN

AlpsOK ==
    /\ tpBits \in [Tps -> Nat] /\ pathBits \in [Paths -> Nat]
    /\ pending \in [Paths -> Seq(PendingPkt)] /\ retrans \in [Tps -> Seq(PendingPkt)]
    /\ rto \in [Paths -> Tps \cup {NoTp}]

ReceiverOK ==
    /\ recvNxt \in [Tps -> Nat] /\ bits \in [Tps -> SUBSET (0..(OooThreshold - 1))]

NetworkOK ==
    /\ data \in [Paths -> [Tps -> Seq(Nat)]]
    /\ acks \in [Paths -> [Tps -> Seq([psn : Nat, cum : Nat])]]
    /\ lostData \in Nat /\ lostAcks \in Nat /\ early \in Nat

TypeOK == SegmentsOK /\ SenderOK /\ AlpsOK /\ ReceiverOK /\ NetworkOK

OnWire(t, psn) == \E p \in Paths : \E i \in DOMAIN data[p][t] : data[p][t][i] = psn

Holds(q, t, psn) == \E i \in DOMAIN q : q[i].psn = psn /\ q[i].owner = t

\* ub-transport.cc:471, "keep one packet copy per (pid queue) for ACK
\* matching/retrans": a packet that was sent and has not arrived is on its way,
\* or a copy of it waits for an ack or for its retransmission.
NothingForgotten ==
    \A t \in Tps : \A psn \in 0..(sndNxt[t] - 1) :
        exists[t] =>
            \/ Received(t, psn)
            \/ OnWire(t, psn)
            \/ \E p \in Paths : Holds(pending[p], t, psn)
            \/ \E u \in Tps : Holds(retrans[u], t, psn)

\* The cumulative ack runs ahead of the receiver in the two known ways only: the
\* PSN 0 of an out-of-order packet, and the PSN 0 - 1 of a repeated one, both
\* while packet 0 is missing.
AckedAheadOnlyOfZero ==
    \A t \in Tps :
        \/ sndUna[t] <= recvNxt[t]
        \/ recvNxt[t] = 0 /\ sndUna[t] = 1
        \/ sndUna[t] = PsnMod

\* The sum of the numbers of a function, as that of the cells of its columns.
SumOf(n) == Cardinality(UNION {{x} \X (1..n[x]) : x \in DOMAIN n})

Waiting == SumOf([p \in Paths |-> Len(pending[p])])
Counted == SumOf(tpBits)
Senders == {t \in Tps : scen.load[t] # <<>>}

PathCounted == scen.pathLimit > 0 => \A p \in Paths : pathBits[p] = Len(pending[p])

\* The in-flight count of a path is the number of its unacknowledged packets, in
\* every order of acks, timeouts and retransmissions.  The counts of the TPs
\* never fall behind them in sum, and agree when one TP has the paths to itself.
InflightMatchesPending ==
    /\ PathCounted
    /\ scen.tpLimit > 0 => Counted >= Waiting
    /\ scen.tpLimit > 0 /\ Cardinality(Senders) = 1 => Counted = Waiting

\* A channel that the allocator would serve has a round pending: no trigger is
\* lost between rate, in-flight limits, window, acks and timeouts.
NoLostTrigger == \A t \in Tps : Selectable(t) => trigger

\* With one TP, no lost ack and no early timeout, a packet is retransmitted only
\* if it was lost: the FIFO order of a path makes every skipped packet a loss.
OnlyLostAreFiled ==
    Cardinality(Senders) = 1 /\ lostAcks = 0 /\ early = 0 =>
        \A t \in Tps : exists[t] => \A i \in DOMAIN retrans[t] :
            ~Received(t, retrans[t][i].psn) /\ ~OnWire(t, retrans[t][i].psn)

\* When no timeout comes too early and one TP has the paths to itself, the
\* retransmissions end: in the end nothing waits for an ack any more.  Otherwise
\* an ack that meets no copy of its packet files what the path still waits for,
\* the packets are sent again, and their second acks meet no copy in turn.
Settles ==
    scen.early = 0 /\ Cardinality(Senders) = 1 =>
        <>[](/\ \A t \in Tps : retrans[t] = <<>>
             /\ \A p \in Paths : pending[p] = <<>>)

\* A packet that is sent arrives, whatever is lost on the way and however early
\* a timeout is, as long as the TPs stay.
SentArrives ==
    \A t \in Tps : \A psn \in 0..2 :
        (~scen.remove /\ sndNxt[t] > psn) ~> Received(t, psn)

-----------------------------------------------------------------------------
(* The inductive invariants behind AckedAheadOnlyOfZero and, when one TP   *)
(* has the paths to itself, NothingForgotten and OnlyLostAreFiled.         *)

\* The cumulative PSN of an ack: received, or one of the two of packet 0.
CumSound(t, cum) == cum + 1 <= recvNxt[t] \/ cum = 0 \/ cum = PsnMod - 1

AcksSound ==
    \A p \in Paths, t \in Tps : \A i \in DOMAIN acks[p][t] : CumSound(t, acks[p][t][i].cum)

\* Every ack names a packet that has been received.
AcksOfReceived ==
    \A p \in Paths, t \in Tps : \A i \in DOMAIN acks[p][t] : Received(t, acks[p][t][i].psn)

\* Nothing is sent, kept or filed but by and for s.
OnlySends(s) ==
    /\ \A t \in Tps \ {s} : segs[t] = {} /\ sndNxt[t] = 0 /\ retrans[t] = <<>>
    /\ \A p \in Paths, t \in Tps \ {s} : data[p][t] = <<>> /\ acks[p][t] = <<>>
    /\ \A p \in Paths : \A i \in DOMAIN pending[p] :
           pending[p][i].srcTpn = s /\ pending[p][i].owner = s
    /\ \A i \in DOMAIN retrans[s] : retrans[s][i].owner = s
    /\ \A p \in Paths : rto[p] \in {s, NoTp}

\* A copy of every packet that was sent and has not been received is kept, the
\* packet being on its way or not.
CopiesKept(t) ==
    exists[t] =>
        \A psn \in 0..(sndNxt[t] - 1) :
            \/ Received(t, psn)
            \/ \E p \in Paths : Holds(pending[p], t, psn)
            \/ Holds(retrans[t], t, psn)

Kept(q, psn) == \E i \in DOMAIN q : q[i].psn = psn

Before(q, psn, later) ==
    \A i, k \in DOMAIN q : q[i].psn = psn /\ q[k].psn = later => i < k

\* The acks a and the data d of a path are about packets that wait there in q, in
\* the order of q: its acks about earlier ones than its data.
InOrderOf(q, a, d) ==
    /\ \A i \in DOMAIN a : Kept(q, a[i].psn)
    /\ \A i \in DOMAIN d : Kept(q, d[i])
    /\ \A i, k \in DOMAIN a : i < k => Before(q, a[i].psn, a[k].psn)
    /\ \A i, k \in DOMAIN d : i < k => Before(q, d[i], d[k])
    /\ \A i \in DOMAIN a, k \in DOMAIN d : Before(q, a[i].psn, d[k])

\* Of every packet of s there is one copy, which waits for an ack or is filed.
OneCopy(s) ==
    /\ \A p, q \in Paths : \A i \in DOMAIN pending[p], k \in DOMAIN pending[q] :
           pending[p][i].psn = pending[q][k].psn => p = q /\ i = k
    /\ \A i, k \in DOMAIN retrans[s] : retrans[s][i].psn = retrans[s][k].psn => i = k
    /\ \A k \in DOMAIN retrans[s], p \in Paths : ~Kept(pending[p], retrans[s][k].psn)

\* Nothing that s has not sent is kept, filed or received.
OnlySent(s) ==
    /\ \A p \in Paths : \A i \in DOMAIN pending[p] : pending[p][i].psn < sndNxt[s]
    /\ \A i \in DOMAIN retrans[s] : retrans[s][i].psn < sndNxt[s]
    /\ recvNxt[s] <= sndNxt[s] /\ \A b \in bits[s] : recvNxt[s] + b < sndNxt[s]

\* What has been received is not sent again: its ack is on its way to its copy.
AckOnItsWay(s) ==
    /\ \A p \in Paths : \A i \in DOMAIN pending[p] :
           Received(s, pending[p][i].psn) =>
               \E k \in DOMAIN acks[p][s] : acks[p][s][k].psn = pending[p][i].psn
    /\ \A p \in Paths : \A i \in DOMAIN data[p][s] : ~Received(s, data[p][s][i])
    /\ \A i \in DOMAIN retrans[s] : ~Received(s, retrans[s][i].psn)

PathsInOrder(s) ==
    /\ \A p \in Paths : InOrderOf(pending[p], acks[p][s], data[p][s])
    /\ OneCopy(s) /\ OnlySent(s) /\ AckOnItsWay(s)

\* With one TP, while it exists and no ack has been lost and no timeout was early.
LossInv ==
    \A s \in Tps : Senders = {s} =>
        OnlySends(s) /\ (exists[s] /\ lostAcks = 0 /\ early = 0 => PathsInOrder(s))

\* The counts of the TPs, against all that waits.
CountInv ==
    scen.tpLimit > 0 =>
        /\ Counted >= Waiting
        /\ \A s \in Tps : Senders = {s} =>
               Counted = Waiting /\ \A t \in Tps \ {s} : tpBits[t] = 0
=============================================================================
