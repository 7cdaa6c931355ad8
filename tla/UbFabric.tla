------------------------------ MODULE UbFabric ------------------------------
(***************************************************************************)
(* The data path of the nodes of a fabric: ports (UbPort, UbEgressQueue),  *)
(* links (UbLink), virtual output queues and their two accounts            *)
(* (UbQueueManager), allocators (UbRoundRobinAllocator), the forwarding of *)
(* UbSwitch, and the flow control of UbFlowControl between the ends of a   *)
(* link.                                                                   *)
(*                                                                         *)
(* A flow stands for a transport channel, or for the load/store path, of a *)
(* device: packets of one size on one VL.  Packets of a flow   *)
(* are alike.  Routes are fixed and never lead back to the ingress port.   *)
(***************************************************************************)
EXTENDS UbFlowControl, Sequences, FiniteSets

CONSTANTS
    Ports,          \* numbers of the ports of all nodes
    NodeOf,         \* node of a port
    Peer,           \* the port at the other end of its link
    Devices,        \* nodes of type UB_DEVICE; the others are switches
    Route,          \* Route[node][destination], the output port
    Flows,          \* sequence of [src, dst, vl, bytes, announced, via]
    Scenarios,      \* pairs of a value of the attribute FlowControl and the
                    \* number of packets of each flow
    InPortLimit,    \* m_inPortPriorityBufferLimit
    MaxEgressBytes  \* m_maxEgressBytes

FlowIds == DOMAIN Flows

\* What a packet of f that reaches p is: for this node, or for the port OutPort.
IsLocal(p, f) == NodeOf[p] \in Devices /\ Flows[f].dst = NodeOf[p]
OutPort(p, f) == Route[NodeOf[p]][Flows[f].dst]

\* The ports that a packet of f is sent from, on its way from Flows[f].src.
Way(f) ==
    LET along(S) == /\ Flows[f].src \in S
                    /\ \A p \in S : ~IsLocal(Peer[p], f) => OutPort(Peer[p], f) \in S
    IN  {p \in Ports : \A S \in SUBSET Ports : along(S) => p \in S}

ASSUME FabricAssumption ==
    /\ Ports \subseteq Nat /\ IsFiniteSet(Ports) /\ Peer \in [Ports -> Ports]
    /\ \A p \in Ports : Peer[Peer[p]] = p /\ Peer[p] # p
    /\ Flows \in Seq([src : Ports, dst : {NodeOf[p] : p \in Ports}, vl : VLs,
                      bytes : Nat \ {0}, announced : Nat, via : {"TP", "LDST"}])
    /\ Scenarios \subseteq FcTypes \X [FlowIds -> Nat]
    /\ InPortLimit \in Nat /\ MaxEgressBytes \in Nat
    \* Routes stay in the node and never lead back to the port a packet came by.
    /\ \A f \in FlowIds : \A p \in Way(f) :
          ~IsLocal(Peer[p], f) => /\ OutPort(Peer[p], f) \in Ports \ {Peer[p]}
                                  /\ NodeOf[OutPort(Peer[p], f)] = NodeOf[Peer[p]]

VARIABLES
    flowControl,    \* m_flowControlType of every node
    fc,             \* m_flowControl of each port
    voq,            \* m_voq[out][vl][in]
    inBuf, outBuf,  \* m_inPortBuffer[in][vl], m_outPortBuffer[out][vl]
    port,           \* of each port: busy, egress, wire, running, oneMore
    events,         \* of each port: its events of Simulator::ScheduleNow
    draining,       \* the events of ScheduleNow are being run
    rrIdx,          \* m_rrIdx[out][vl]
    left,           \* packets of a flow that its task has not handed over
    offered,        \* packets that the transport channel of a flow can send
    received,       \* history: packets of a flow that arrived
    dropped         \* history: packets of a flow that were dropped

vars == <<flowControl, fc, voq, inBuf, outBuf, port, events, draining,
          rrIdx, left, offered, received, dropped>>

PortsOf(p) == {i \in Ports : NodeOf[i] = NodeOf[p]}

\* A packet is of a flow, or a control frame that carries credits.
Data(f) == [flow |-> f, credits |-> NoFrame]
Control(credits) == [flow |-> 0, credits |-> credits]
IsData(pkt) == pkt.flow # 0
Bytes(pkt) == IF IsData(pkt) THEN Flows[pkt.flow].bytes ELSE CtrlBytes
AllBytes(pkts) == SumFunction([i \in DOMAIN pkts |-> Bytes(pkts[i])])

Voq(out, vl, in) == [type |-> "VOQ", out |-> out, vl |-> vl, in |-> in, flow |-> 0]
Tp(f) == [type |-> "TP", out |-> Flows[f].src, vl |-> Flows[f].vl,
          in |-> Flows[f].src, flow |-> f]

\* The elements of a set of numbers, the lowest first.
InOrder(S) ==
    CHOOSE q \in [1 .. Cardinality(S) -> S] :
        \A i, j \in DOMAIN q : i < j => q[i] < q[j]

\* m_ingressSources: the VOQs in the order of their input ports, then the TPs.
IngressSources ==
    [p \in Ports |-> [vl \in VLs |->
        LET tps == {f \in FlowIds : Flows[f].via = "TP" /\ Flows[f].src = p
                                    /\ Flows[f].vl = vl}
        IN  [i \in 1 .. Cardinality(PortsOf(p)) |->
               Voq(p, vl, InOrder(PortsOf(p))[i])]
            \o [i \in 1 .. Cardinality(tps) |-> Tp(InOrder(tps)[i])]]]

\* Of a port, a VL and a port of the same node.
VoqKeys == {k \in Ports \X VLs \X Ports : NodeOf[k[1]] = NodeOf[k[3]]}

Init ==
    /\ \E s \in Scenarios : flowControl = s[1] /\ left = s[2]
    /\ fc = [p \in Ports |-> FlowControlInit]
    /\ voq = [k \in VoqKeys |-> <<>>]
    /\ inBuf = [p \in Ports |-> [vl \in VLs |-> 0]]
    /\ outBuf = [p \in Ports |-> [vl \in VLs |-> 0]]
    /\ port = [p \in Ports |-> [busy |-> FALSE, egress |-> <<>>, wire |-> <<>>,
                                running |-> FALSE, oneMore |-> FALSE]]
    /\ events = [p \in Ports |-> <<>>] /\ draining = FALSE
    /\ rrIdx = [p \in Ports |-> [vl \in VLs |-> 0]]
    /\ offered = [f \in FlowIds |-> 0]
    /\ received = [f \in FlowIds |-> 0]
    /\ dropped = [f \in FlowIds |-> 0]

-----------------------------------------------------------------------------
(* The handlers call each other, so they are operators on the state s of   *)
(* the nodes, and an action takes on the state its calls leave.            *)

NodeState == [fc |-> fc, voq |-> voq, inBuf |-> inBuf, outBuf |-> outBuf,
              port |-> port, events |-> events]
Become(s) == /\ fc' = s.fc /\ voq' = s.voq /\ port' = s.port
             /\ inBuf' = s.inBuf /\ outBuf' = s.outBuf /\ events' = s.events

-----------------------------------------------------------------------------
(* A port.  The egress queue and the wire are sequences of packets.  A     *)
(* link has a fixed delay, so a packet is on the wire from the start of    *)
(* its transmission.                                                       *)

\* Simulator::ScheduleNow of an event of the port p.
ScheduleNow(s, p, event) == [s EXCEPT !.events[p] = Append(@, event)]

\* DequeuePacket with TransmitPacket and UbLink::TransmitStart.
DequeuePacket(s, p) ==
    LET sent == [s EXCEPT !.port[p].busy = TRUE, !.port[p].egress = Tail(@),
                          !.port[p].wire = Append(@, Head(s.port[p].egress))]
    IN  IF sent.port[p].egress = <<>> THEN ScheduleNow(sent, p, "TriggerAllocator")
        ELSE sent

TriggerTransmit(s, p) ==
    CASE s.port[p].busy -> s
      [] ~s.port[p].busy /\ s.port[p].egress = <<>> ->
            ScheduleNow(s, p, "TriggerAllocator")
      [] ~s.port[p].busy /\ s.port[p].egress # <<>> -> DequeuePacket(s, p)

\* While a round is under way another one is only noted.
TriggerAllocator(s, p) ==
    IF s.port[p].running THEN [s EXCEPT !.port[p].oneMore = TRUE]
    ELSE [s EXCEPT !.port[p].running = TRUE]

NotifyAllocationFinish(s, p) ==
    IF s.port[p].busy \/ s.port[p].egress = <<>> THEN s ELSE DequeuePacket(s, p)

\* The end of AllocateNextPacket.
RoundFinished(s, p) ==
    LET done == ScheduleNow([s EXCEPT !.port[p].running = FALSE,
                                      !.port[p].oneMore = FALSE],
                            p, "NotifyAllocationFinish")
    IN  IF s.port[p].oneMore THEN ScheduleNow(done, p, "TriggerAllocator") ELSE done

\* UbEgressQueue::DoEnqueue; the caller does not look at what it returns.
EgressBytes(pt) == AllBytes(pt.egress)
EgressHasRoom(pt, pkt) == EgressBytes(pt) + Bytes(pkt) <= MaxEgressBytes
DoEnqueue(pt, pkt) ==
    IF EgressHasRoom(pt, pkt) THEN [pt EXCEPT !.egress = Append(@, pkt)] ELSE pt

-----------------------------------------------------------------------------
(* Queues and control frames of a node.                                    *)

PushToVoq(s, pkt, in, out, vl) ==
    [s EXCEPT !.voq[<<out, vl, in>>] = Append(@, pkt),
              !.inBuf[in][vl] = @ + Bytes(pkt), !.outBuf[out][vl] = @ + Bytes(pkt)]

PushControlFrame(s, p, frame) == PushToVoq(s, Control(frame), p, p, 0)
PfcCheck(s, p) == CheckPfcThreshold(s.fc[p], s.inBuf[p])

\* The check made inside SendControlFrame can only pause VL 0, and the one
\* its own frame causes finds nothing more to change.
CheckAgain(s, p) ==
    LET check == PfcCheck(s, p)
        s1    == [s EXCEPT !.fc[p] = check.fc]
    IN  IF check.frame = NoFrame THEN s1
        ELSE TriggerTransmit(PushControlFrame(s1, p, check.frame), p)

\* SendControlFrame warns of a full buffer and goes on.
SendControlFrame(s, p, frame) ==
    LET s1 == PushControlFrame(s, p, frame)
    IN  TriggerTransmit(IF flowControl = "PFC" THEN CheckAgain(s1, p) ELSE s1, p)

\* CheckPfcThreshold with SendPfc; the rest of UbPfc::HandleReceivedPacket is
\* HandleReceivedControlPacket.
CheckPfc(s, p) ==
    LET check == PfcCheck(s, p)
        s1    == [s EXCEPT !.fc[p] = check.fc]
    IN  IF check.frame = NoFrame THEN s1 ELSE SendControlFrame(s1, p, check.frame)

SendPacket(s, pkt, in, out, vl) ==
    LET s1 == PushToVoq(s, pkt, in, out, vl)
    IN  TriggerTransmit(IF flowControl = "PFC" THEN CheckPfc(s1, in) ELSE s1, out)

\* ReleaseOccupiedCrd of the port p, then SendCrdAck of its frame.
ReturnCredits(s, p, pkt) ==
    LET release == ReleaseOccupiedCrd(s.fc[p], Flows[pkt.flow].vl, Bytes(pkt))
        s1      == [s EXCEPT !.fc[p] = release.fc]
    IN  IF release.frame = NoFrame THEN s1 ELSE SendControlFrame(s1, p, release.frame)

\* HandleReleaseOccupiedFlowControl of each class, for forwarded packets.
HandleReleaseOccupied(s, pkt, in, out) ==
    CASE in # out /\ flowControl \in CreditTypes -> ReturnCredits(s, in, pkt)
      [] in # out /\ flowControl = "PFC" -> CheckPfc(s, in)
      [] OTHER -> s

\* Used bytes are unsigned: below zero there is no room, until the sum wraps.
CheckInPortSpace(in, vl, bytes) ==
    inBuf[in][vl] + bytes \in 0 .. InPortLimit - 1

-----------------------------------------------------------------------------
(* The simulator.  Of the events of one instant those with a delay come    *)
(* first, then those of ScheduleNow in their order, and then time goes on. *)
(* An event of ScheduleNow looks at its own port only, so ports take turns *)
(* and a node whose events are pending is done before another node acts.   *)

Timed(p, s) ==
    /\ ~draining /\ \A q \in Ports : events[q] # <<>> => NodeOf[q] = NodeOf[p]
    /\ Become(s)
    /\ UNCHANGED <<flowControl, draining>>

RunScheduledNow ==
    /\ \E q \in Ports : events[q] # <<>>
    /\ LET p    == Min({q \in Ports : events[q] # <<>>})
           kind == Head(events[p])
           s    == [NodeState EXCEPT !.events[p] = Tail(@)]
       IN  Become(CASE kind = "TriggerTransmit" -> TriggerTransmit(s, p)
                    [] kind = "TriggerAllocator" -> TriggerAllocator(s, p)
                    [] kind = "NotifyAllocationFinish" -> NotifyAllocationFinish(s, p))
    /\ draining' = (\E q \in Ports : events'[q] # <<>>)
    /\ UNCHANGED <<flowControl, rrIdx, left, offered, received, dropped>>

-----------------------------------------------------------------------------
(* Work of the devices.                                                    *)

\* A channel has one more packet to send and says so to its port
\* (WqeSegmentTriggerPortTransmit, or an ack put in m_ackQ).
TpOffer(f) ==
    /\ Flows[f].via = "TP" /\ left[f] > 0
    /\ left' = [left EXCEPT ![f] = 0]
    /\ offered' = [offered EXCEPT ![f] = @ + left[f]]
    /\ Timed(Flows[f].src, TriggerTransmit(NodeState, Flows[f].src))
    /\ UNCHANGED <<rrIdx, received, dropped>>

\* UbLdstApi::SendPacket: PushPacketToVoq enters the packet in no account.
LdstSend(f) ==
    LET p == Flows[f].src
    IN  /\ Flows[f].via = "LDST" /\ left[f] > 0
        /\ left' = [left EXCEPT ![f] = @ - 1]
        /\ Timed(p, ScheduleNow([NodeState EXCEPT
                                !.voq[<<p, Flows[f].vl, p>>] = Append(@, Data(f))],
                             p, "TriggerTransmit"))
        /\ UNCHANGED <<rrIdx, offered, received, dropped>>

-----------------------------------------------------------------------------
(* Events of a port.                                                       *)

TransmitCompleteMutant(p) ==
    /\ port[p].busy
    /\ Timed(p, [NodeState EXCEPT !.port[p].busy = FALSE])
    /\ UNCHANGED <<rrIdx, left, offered, received, dropped>>

TransmitComplete(p) ==
    /\ port[p].busy
    /\ Timed(p, ScheduleNow([NodeState EXCEPT !.port[p].busy = FALSE],
                         p, "TriggerTransmit"))
    /\ UNCHANGED <<rrIdx, left, offered, received, dropped>>

QueueIsEmpty(q) ==
    IF q.type = "TP" THEN offered[q.flow] = 0 ELSE voq[<<q.out, q.vl, q.in>>] = <<>>

NextPacket(q) ==
    IF q.type = "TP" THEN Data(q.flow) ELSE Head(voq[<<q.out, q.vl, q.in>>])

\* A VOQ of packets generated here answers with the size of a control frame;
\* a channel leaves one header out of the size of its data packets.
GetNextPacketSize(q) ==
    CASE q.type = "TP" -> Flows[q.flow].announced
      [] q.type = "VOQ" /\ q.in = q.out -> CtrlBytes
      [] q.type = "VOQ" /\ q.in # q.out -> Bytes(NextPacket(q))

CanSend(p, q) == /\ ~QueueIsEmpty(q)
                 /\ ~IsFcLimited(flowControl, fc[p], q, GetNextPacketSize(q))

\* The VLs on which the port has something to send now.
Sendable(p) ==
    {vl \in VLs : \E i \in DOMAIN IngressSources[p][vl] :
                     CanSend(p, IngressSources[p][vl][i])}

AllocateNothing(p) ==
    /\ port[p].running /\ Sendable(p) = {}
    /\ Timed(p, RoundFinished(NodeState, p))
    /\ UNCHANGED <<rrIdx, left, offered, received, dropped>>

\* SelectNextIngressQueue: the lowest VL wins, and in it the first queue from
\* m_rrIdx on.
IsSelected(p, vl, i) ==
    LET queue    == IngressSources[p][vl]
        place(j) == (j - 1 - rrIdx[p][vl] + Len(queue)) % Len(queue)
    IN  /\ CanSend(p, queue[i])
        /\ \A lower \in Sendable(p) : vl <= lower
        /\ \A j \in DOMAIN queue : CanSend(p, queue[j]) => place(i) <= place(j)

RoundRobinMutant(p, vl, i) == i

\* m_rrIdx after the queue i was served; it counts from 0.
RoundRobin(p, vl, i) == i % Len(IngressSources[p][vl])

\* Handed to the flow control and to the egress queue; the accounts of the
\* queue manager still hold the packet while HandleReleaseOccupied runs.
Moved(s, p, q, pkt) ==
    HandleReleaseOccupied(
        [s EXCEPT !.fc[p] = HandleSentPacket(flowControl, @, q, q.vl, Bytes(pkt)),
                  !.port[p] = DoEnqueue(@, pkt)],
        pkt, q.in, p)

AllocateFromTp(p, q) ==
    /\ Timed(p, RoundFinished(Moved(NodeState, p, q, NextPacket(q)), p))
    /\ offered' = [offered EXCEPT ![q.flow] = @ - 1]

AllocateFromVoq(p, q) ==
    /\ LET pkt   == NextPacket(q)
           moved == Moved([NodeState EXCEPT !.voq[<<p, q.vl, q.in>>] = Tail(@)],
                          p, q, pkt)
       IN  Timed(p, RoundFinished(
                    IF IsGeneratedDataPacket(q) THEN moved
                    ELSE [moved EXCEPT !.inBuf[q.in][q.vl] = @ - Bytes(pkt),
                                       !.outBuf[p][q.vl] = @ - Bytes(pkt)], p))
    /\ UNCHANGED offered

\* The packet that finds the egress queue full is lost.
AllocateNextPacket(p) ==
    /\ port[p].running
    /\ \E vl \in VLs : \E i \in DOMAIN IngressSources[p][vl] :
          LET q   == IngressSources[p][vl][i]
              pkt == NextPacket(q)
          IN  /\ IsSelected(p, vl, i)
              /\ \/ q.type = "TP" /\ AllocateFromTp(p, q)
                 \/ q.type = "VOQ" /\ AllocateFromVoq(p, q)
              /\ rrIdx' = [rrIdx EXCEPT ![p][vl] = RoundRobin(p, vl, i)]
              /\ dropped' = [f \in FlowIds |->
                    IF pkt.flow = f /\ ~EgressHasRoom(port[p], pkt)
                    THEN dropped[f] + 1 ELSE dropped[f]]
    /\ UNCHANGED <<left, received>>

-----------------------------------------------------------------------------
(* UbPort::Receive of the packet that reaches p.  The gap between two      *)
(* packets is no longer than the delay of a link, so a packet arrives when *)
(* its transmission has completed.                                         *)

Arrivable(p) == Len(port[Peer[p]].wire) > IF port[Peer[p]].busy THEN 1 ELSE 0
Arriving(p) == Head(port[Peer[p]].wire)
Unwired(p) == [NodeState EXCEPT !.port[Peer[p]].wire = Tail(@)]

ReceiveControlFrameMutant(p) ==
    /\ Arrivable(p) /\ ~IsData(Arriving(p))
    /\ Timed(p, [Unwired(p) EXCEPT
                !.fc[p] = HandleReceivedControlPacket(flowControl, @,
                                                      Arriving(p).credits)])
    /\ UNCHANGED <<rrIdx, left, offered, received, dropped>>

ReceiveControlFrame(p) ==
    /\ Arrivable(p) /\ ~IsData(Arriving(p))
    /\ Timed(p, ScheduleNow([Unwired(p) EXCEPT
                !.fc[p] = HandleReceivedControlPacket(flowControl, @,
                                                      Arriving(p).credits)],
             p, "TriggerTransmit"))
    /\ UNCHANGED <<rrIdx, left, offered, received, dropped>>

SinkDataPacket(p) ==
    /\ Arrivable(p) /\ IsData(Arriving(p)) /\ IsLocal(p, Arriving(p).flow)
    /\ Timed(p, IF flowControl \in CreditTypes
             THEN ReturnCredits(Unwired(p), p, Arriving(p)) ELSE Unwired(p))
    /\ received' = [received EXCEPT ![Arriving(p).flow] = @ + 1]
    /\ UNCHANGED <<rrIdx, left, offered, dropped>>

\* What is dropped here keeps the credits it came with.
ForwardDataPacket(p) ==
    /\ Arrivable(p) /\ IsData(Arriving(p)) /\ ~IsLocal(p, Arriving(p).flow)
    /\ LET pkt == Arriving(p)
           vl  == Flows[pkt.flow].vl
           out == OutPort(p, pkt.flow)
       IN  \/ /\ CheckInPortSpace(p, vl, Bytes(pkt))
              /\ Timed(p, SendPacket(Unwired(p), pkt, p, out, vl))
              /\ UNCHANGED dropped
           \/ /\ ~CheckInPortSpace(p, vl, Bytes(pkt))
              /\ Timed(p, Unwired(p))
              /\ dropped' = [dropped EXCEPT ![pkt.flow] = @ + 1]
    /\ UNCHANGED <<rrIdx, left, offered, received>>

-----------------------------------------------------------------------------
PortStep(p) ==
    \/ TransmitComplete(p) \/ AllocateNothing(p) \/ AllocateNextPacket(p)
    \/ ReceiveControlFrame(p) \/ SinkDataPacket(p) \/ ForwardDataPacket(p)

Next ==
    \/ RunScheduledNow
    \/ \E f \in FlowIds : TpOffer(f) \/ LdstSend(f)
    \/ \E p \in Ports : PortStep(p)

Spec == Init /\ [][Next]_vars

-----------------------------------------------------------------------------
(* Properties.                                                             *)

\* The VOQ of the control frames of p, and the ones fed by its link.
ControlVoq(p) == voq[<<p, 0, p>>]
FedBy(p) == PortsOf(p) \ {p}

\* TypeOK: the state stays in its types; no counter of the flow control is
\* ever negative, although the code compares and subtracts signed numbers.
TypeOK ==
    /\ flowControl \in FcTypes
    /\ \A p \in Ports :
          /\ fc[p].txfree \in [VLs -> Nat] /\ fc[p].toReturn \in [VLs -> Nat]
          /\ fc[p].share \in Nat
          /\ \A told \in {fc[p].open, fc[p].snd, fc[p].last} :
                 told \in [VLs -> {0, CreditMax}]
          /\ port[p].busy \in BOOLEAN /\ port[p].running \in BOOLEAN
          /\ port[p].oneMore \in BOOLEAN
          /\ inBuf[p] \in [VLs -> Int] /\ outBuf[p] \in [VLs -> Int]
          /\ \A vl \in VLs : rrIdx[p][vl] < Len(IngressSources[p][vl])
    /\ \A counts \in {left, offered, received, dropped} : counts \in [FlowIds -> Nat]

\* Cells of data packets on a VL, and credits that frames carry for it.
CellsOn(vl, pkts) ==
    SumFunction([i \in DOMAIN pkts |->
        IF IsData(pkts[i]) /\ Flows[pkts[i].flow].vl = vl THEN Cells(Bytes(pkts[i])) ELSE 0])
CreditsIn(vl, pkts) ==
    SumFunction([i \in DOMAIN pkts |-> IF IsData(pkts[i]) THEN 0 ELSE pkts[i].credits[vl]])

\* The cells of a VL that p took credits for and the peer has not given back:
\* under way, in the VOQs the peer's link feeds, noted for return, or in the
\* credit frames on their way to p.
CellsOutstanding(p, vl) ==
    LET q == Peer[p]
    IN  CellsOn(vl, port[p].wire \o port[p].egress)
        + SumFunction([out \in FedBy(q) |-> CellsOn(vl, voq[<<out, vl, q>>])])
        + fc[q].toReturn[vl]
        + Grain * CreditsIn(vl, port[q].wire \o port[q].egress \o ControlVoq(q))

\* CreditsConserved: on every link the credits a port holds and the cells
\* outstanding always add up to what the port started with, per VL, and over
\* all VLs where the pool is shared (CbfcConsumeCrd, ReleaseOccupiedCrd,
\* CbfcRestoreCrd and the packets and frames between them).
CreditsConserved ==
    \A p \in Ports :
        /\ flowControl = "CBFC" =>
             \A vl \in VLs : fc[p].txfree[vl] + CellsOutstanding(p, vl) = InitCrd
        /\ flowControl = "CBFC_SHARED" =>
             fc[p].share
             + SumFunction([vl \in VLs |-> fc[p].txfree[vl] + CellsOutstanding(p, vl)])
             = SharedCrd + VlNum * InitCrd

\* CreditsWithinBuffer: a port never holds more credits for a VL than the
\* buffer of the connected port has cells (attribute CbfcInitCreditCell).
CreditsWithinBuffer ==
    flowControl = "CBFC" =>
        \A p \in Ports, vl \in VLs : fc[p].txfree[vl] <= InitCrd

\* LosslessUnderCredits: credits keep every buffer from overflowing, so
\* neither ForwardDataPacket nor the egress queue ever drops a packet.
LosslessUnderCredits ==
    flowControl \in CreditTypes => \A f \in FlowIds : dropped[f] = 0

\* ViewsAgree: both accounts of UbQueueManager are what the VOQs hold, of
\* forwarded packets and control frames, whatever calls come in between.
ViewsAgree ==
    \A p \in Ports, vl \in VLs :
        LET counted(out, in) == IF out # in \/ vl = 0
                                THEN AllBytes(voq[<<out, vl, in>>]) ELSE 0
        IN  /\ inBuf[p][vl] =
                  SumFunction([out \in PortsOf(p) |-> counted(out, p)])
            /\ outBuf[p][vl] =
                  SumFunction([in \in PortsOf(p) |-> counted(p, in)])

\* NoIdlePort: a port that neither sends, nor runs its allocator, nor has an
\* event to run, has an empty egress queue and no queue it could serve.
NoIdlePort ==
    \A p \in Ports :
        \/ port[p].busy \/ port[p].running \/ events[p] # <<>>
        \/ port[p].egress = <<>> /\ Sendable(p) = {}

\* PauseStateTold: the newest pause frame under way to the peer, or if there
\* is none the peer's own state, is what the port believes it told.
PauseStateTold ==
    flowControl = "PFC" =>
        \A p \in Ports :
            LET pkts   == port[p].wire \o port[p].egress \o ControlVoq(p)
                frames == {i \in DOMAIN pkts : ~IsData(pkts[i])}
            IN  fc[p].last = IF frames = {} THEN fc[Peer[p]].open
                             ELSE pkts[Max(frames)].credits

\* NothingLeftBehind: when nothing is under way any more, no packet is left in
\* a channel, a VOQ or an egress queue: no credit, pause or trigger is missing.
Quiet == \A p \in Ports : /\ ~port[p].busy /\ ~port[p].running
                          /\ events[p] = <<>> /\ port[p].wire = <<>>
NothingLeftBehind ==
    Quiet => /\ \A f \in FlowIds : offered[f] = 0
             /\ \A k \in VoqKeys : voq[k] = <<>>
             /\ \A p \in Ports : port[p].egress = <<>>

-----------------------------------------------------------------------------
(* Conditions that make the properties hold of every fabric, not only of   *)
(* the one that is checked.                                                *)

\* No work is done on the VL of the control frames.
NoWorkOnVlZero == \A f \in FlowIds : Flows[f].vl # 0

\* A packet of any kind, and three of them, have room in an egress queue.
FitInEgress(n) == \A bytes \in {CtrlBytes} \cup {Flows[f].bytes : f \in FlowIds} :
                      n * bytes <= MaxEgressBytes
EveryPacketFits == FitInEgress(1)
RoomForThree == FitInEgress(3)

\* Credits are taken for every packet: none is larger, in cells, than what its
\* queue announces, and the grains it makes due fit the credit field.
Announced(f) == IF Flows[f].via = "TP" THEN Flows[f].announced ELSE CtrlBytes
CreditsTaken ==
    \A f \in FlowIds : LET cells == Cells(Flows[f].bytes)
                       IN  /\ cells <= Cells(Announced(f))
                           /\ (Grain - 1 + cells) \div Grain <= CreditMax

\* The buffer of a VL holds the cells that credits let into it; the reserve of
\* the VL of the control frames is never used.
CellsAtMost(mode) ==
    IF mode = "CBFC" THEN InitCrd ELSE SharedCrd + (VlNum - 1) * InitCrd
BufferHoldsCredits ==
    \A s \in Scenarios : s[1] \in CreditTypes => CellBytes * CellsAtMost(s[1]) < InPortLimit
=============================================================================
