# Verification of the unified-bus model

This directory holds TLA+ models of the unified-bus simulation (`src/src/unified-bus`), the
configurations that check them with TLC, and proofs checked with TLAPS. Paths below are relative
to `src/src/unified-bus/model`.

## 1. The system

The program is an ns-3 module that simulates a fabric of hosts and switches. It is single-threaded:
everything happens in events run by the simulator in order of time, and events of the same time in
the order they were scheduled. What makes it hard is that one operation is spread over several
events (`Simulator::ScheduleNow`, transmission delays, timers), that state is tested in one event
and used in another, and that the network between two nodes drops and reorders.

A task of the traffic generator becomes a WQE on a jetty of its own; the transaction layer cuts it
into segments of 64 KB and hands them to transport channels (TPs); a TP cuts packets of 4 KB from
its segments when the port's allocator asks it for one, within its send window; packets cross ports,
links and the VOQs of switches under credit or pause flow control; the receiving TP reorders them
with a bitmap and returns cumulative acks; acks complete segments, segments WQEs, WQEs tasks.

| Component | State | Operations | Hard behaviour | What makes it correct |
|---|---|---|---|---|
| Transport channel (`protocol/ub-transport.*`) | segment vector, PSN counters, window and full flags, timer, ack queue, receive bitmap | `PushWqeSegment`, `GetNextPacket`, `RecvDataPacket`, `RecvTpAck`, `ReTxTimeout`, `IsEmpty`, `IsLimited` | reordering, loss, timeouts racing acks, counters that wrap, flags tested in another event than set | delivers and completes what it accepted, exactly once; never acknowledges what has not arrived; never stops with work left |
| Transaction layer (`protocol/ub-transaction.*`) | TP and jetty maps, scheduling status and round-robin index per TP, ordered WQEs per jetty | `ScheduleWqeSegment`, `OnScheduleWqeSegmentFinish`, `JettyBindTp`, `TpDeinit`, `AddWqe`, `WqeFinish` | several pending scheduling events of a TP, TP removed between two events | a segment goes to one TP once; strong order; no jetty starves |
| Function and jetty (`protocol/ub-function.*`) | WQE vector, SSN counters, ack bitmap | `PushWqe`, `GetNextWqeSegment`, `ProcessWqeSegmentComplete`, `CheckAndRemoveCompletedWqe` | SSNs given at push and at send, segments completed out of order over several TPs | a WQE is reported complete when all of its segments are |
| Flow control (`protocol/ub-flow-control.*`) | credits free, credits to return, shared credits, pause state | `IsFcLimited`, `HandleSentPacket`, `HandleReceivedPacket`, `HandleReleaseOccupiedFlowControl`, `HandleReceivedControlPacket` | lost credit frames, thresholds compared with stale buffers, field widths | credits are conserved; no buffer overflows; no pause is for ever |
| Queue manager, switch (`ub-queue-manager.*`, `ub-switch.*`) | VOQs, bytes used per input and per output | `SwitchHandlePacket`, `SendPacket`, `SendControlFrame`, `NotifySwitchDequeue` | two views of one buffer, updated in different calls | the views agree with the queues |
| Allocator (`ub-switch-allocator.*`) | running and one-more-round flags, round-robin indices | `TriggerAllocator`, `AllocateNextPacket` | a trigger during a round, null packets | no trigger is lost; every queue is served |
| Port and link (`ub-port.*`, `ub-link.*`) | send state, egress queue | `TriggerTransmit`, `DequeuePacket`, `TransmitPacket`, `TransmitComplete`, `NotifyAllocationFinish` | busy port triggered, full egress queue | a port with packets is never idle for ever |
| ALPS (`protocol/ub-alps*`, `protocol/ub-routing-process.*`) | per path: pending packets, timer, bytes in flight; per TP: retransmission buffer | `RecordAlpsSentPacket`, `HandleAlpsAckByPsn`, `HandleTimeoutForLapsbypid`, `PopAlpsRetransPacket` | paths shared by TPs, one ack moving several packets | a lost packet is retransmitted by its TP; bytes in flight are accounted once |
| CAQM (`protocol/ub-caqm.*`) | window, bytes in flight | `GetRestCwnd`, `SenderUpdateCongestionCtrlData`, `SenderRecvAck` | window shrinks below what is in flight | the channel is not stopped by its window |
| Routing (`protocol/ub-routing-process.*`) | routing tables | `GetOutPort`, `SelectAdaptiveOutPort` | | a packet does not go back where it came from |
| TP connection manager, controller (`ub-tp-connection-manager.*`, `ub-controller.*`) | connections and indexes, TP maps | `GetTpns`, `CreateNewTps`, `RemoveUselessTps`, `DestroyTp` | TP destroyed from inside its own handler | no TP with work is removed |
| Load/store path (`protocol/ub-ldst-api.*`, `ub-ldst-*`) | queues and outstanding counts of threads, responses awaited | `HandleLdstTask`, `PushTaskSegment`, `HandleLoadTask`, `UpdateTask`, `OnRecvAck` | segments of no bytes, ids cut to 16 bits | a task completes when its last response arrives |
| Traffic generator, application (`ub-traffic-gen.*`, `ub-app.*`) | task states, dependency graph | `AddTask`, `MarkTaskCompleted`, `ScheduleNextTasks`, `SendTraffic` | phases registered after the task that waits for them | a task runs once, after what it depends on |
| Fault injection (`ub-fault.*`) | drop and delay counters | `FaultDiagnosis`, `FaultCallback` | | |
| Headers, tags, configuration, traces (`protocol/ub-header.*`, `ub-*tag*`, `ub-utils.*`) | | (de)serialization, parsing, reporting | | I/O: only the width of the PSN field is modelled |

Components meet in calls (TP, transaction, jetty, application), in events (scheduling rounds,
allocator rounds, transmissions), in messages (packets, acks, credit frames) and in shared state (the
port that several TPs and VOQs feed, the paths that several TPs use). The hazards found while reading
are in `PROJECT.json`, each with the properties that watch it.

## 2. Plan

| # | Modules | Subject | State |
|---|---|---|---|
| 1 | `UbTransport`, `ReliableTransfer`, `UbTransportProofs` | the transport channel, what it promises, the proofs | checked and proved |
| 2 | `UbTransaction`, `MCUbTransaction`, `UbTransactionProofs` | jetties, SSNs, order types, scheduling events over several TPs, creation and removal of TPs | checked and proved |
| 3 | `UbFlowControl`, `UbFabric`, `MCUbFabric`, `UbFabricProofs`, `UbFabricCreditProofs` | flow control as operators; ports, links, VOQs, allocators and forwarding composed with it | checked and proved |
| 4 | `UbAlps`, `MCUbAlps`, `UbAlpsProofs` | path spraying: pending packets, timeouts and retransmission buffers of paths shared by TPs | checked and proved |
| 5 | `UbTrafficGen`, `UbLdst`, `UbTask`, `MCUbTask`, `UbTaskProofs` | the task graph, the load/store threads, and a node that composes both with `UbTransaction` | checked and proved |
| 6 | `UbCaqm`, `MCUbCaqm`, `UbCaqmProofs` | the congestion window against bytes in flight | checked and proved |
| 7 | | the deficit round robin allocator, the credits of CAQM switches, a TP made again over a lossy network | to do |

`SequenceLemmas` has the facts about sequences that the proofs share. The models meet at interfaces that
each keeps abstract on its side: `UbTransaction` has of a channel its segment vector and in-order
acknowledgement, which `UbTransport` establishes; `UbTransport`, `UbAlps` and `UbCaqm` have of the port one
pending allocator round (`trigger`), which `UbFabric` refines into ports, queues and links; `UbFabric` has
of a channel the number of packets it can send; `UbTask` EXTENDS `UbTransaction`, `UbLdst` and
`UbTrafficGen` and joins their actions.

## 3. `UbTransport`

### State and actions

One direction of a TP: sender, receiver, and the network between them. Packets are numbered by the
order in which the transaction layer hands them over, so that a payload *is* its number, and a packet in
the network is its header PSN with its payload; a segment is `[start, size, sent]` in packets, `sent`
standing for `m_size - m_bytesLeft`.

| Variables | Code |
|---|---|
| `backlog`, `scheduled` | bytes left of the jetty's WQE; a pending `ScheduleWqeSegment` event |
| `segs`, `psnCnt`, `sndNxt`, `sndUna`, `windowLimited`, `tpFull` | `m_wqeSegmentVector`, `m_tpPsnCnt`, `m_psnSndNxt`, `m_psnSndUna`, `m_sendWindowLimited`, `m_tpFullFlag` |
| `trigger` | the sender's port has a round of its allocator to run |
| `timer`, `attemptsLeft`, `aborted` | `m_retransEvent`, `m_retransAttemptsLeft`, the assertion of `ReTxTimeout` failed |
| `recvNxt`, `bits`, `ackQ` | `m_psnRecvNxt`, `m_recvPsnBitset`, `m_ackQ` of the receiving TP |
| `dataNet`, `ackNet`, `losses` | the network |
| `got` | history: payloads received |

Each action is a whole handler: `PushWqe` (`PushWqeToJetty`), `ScheduleNothing` and `ScheduleSegment`
(the outcomes of a scheduling round), `AllocateNothing` and `GetNextPacket` (the outcomes of an
allocator round), `RecvDataPacket` with its four branches, `SendAck`, `RecvTpAck`, `ReTxTimeout` and
`ReTxAbort`, and the losses of the network.

What is abstracted, and why it is sound for the properties stated:

- Several pending scheduling events of a channel are one (`scheduled`): a second round finds what the
  first one left, except while a segment is between `ScheduleWqeSegment` and
  `OnScheduleWqeSegmentFinish`, which run at the same instant and are one action here. The case in which
  several rounds fill the vector past its limit needs several jetties and belongs to `UbTransaction`.
- The port, its egress queue and the allocator's flags are the one bit `trigger`. The other TPs of the
  port, and flow control, delay a round and are covered by interleaving.
- The timer has no clock: it may expire whenever it is armed. This adds behaviours, it removes none.
- Congestion control is off (the default). The algorithm is CAQM by default all the same, and an ack then
  triggers the port every time, since the window of a disabled CAQM is unlimited (`ub-transport.cc:735`): the
  constant `Caqm`, on in the default configuration and off in `transport_retrans`. `ProcessWqeSegmentComplete` accepts every segment (true of
  one jetty that has at most 1000 segments on the channel, below the 2048 bits of its bitmap), and
  assertions are active: a failed one stops the program.
- The routing algorithm is not ALPS: its variants of the three handlers are separate code.

### Runs

| Run | Question | Bounds |
|---|---|---|
| `transport_spray` | default configuration: no retransmission, the network reorders, nothing is lost | WQEs of 2, 3 and 7 packets, 7 packets in all, segments of 2, window and bitmap of 3, vector of 3: the window closes and reopens, the vector fills (a WQE of 7 has 4 segments), the bitmap takes every pattern (16,816 states) |
| `transport_retrans` | retransmission over a FIFO network that loses packets or acks, bitmap (2) narrower than the window (3), an algorithm other than CAQM | 4 packets in WQEs of 1 and 3, 2 losses, one retransmission between two advances of `sndUna`, spurious timeouts at any time: packets arrive past the bitmap, every packet may be in flight more than once, and packet 0 may be lost twice (932,850 states) |
| `transport_ack_underflow`, `transport_window_underflow` | disagreements of the code with its comments, see below | the smallest instance that shows each |

`MaxPsn` bounds the packets of a behaviour, `MaxLoss` the losses; `MaxRetransAttempts` bounds
retransmissions as in the code. The interesting limits are relative (window against bitmap, segments
against vector), so small values reach them. `PsnMod` is 16, so that the PSN does not wrap. Deadlock is
not checked: a workload is finite, and a failed assertion stops the program. Acks are routed per flow by
default, so that the reordered acks of `transport_spray` need adaptive routing; it includes both.

What the passing runs show:

- `BitmapSound`: the receive window describes exactly what has arrived.
- `CompletedWereReceived`, `AckedWereReceived`: neither completion nor acknowledgement runs ahead.
- `WindowFitsBitmap`: with a bitmap as wide as the window no packet is dropped past its end.
- `NeverEmptyHanded`: the allocator, which does not test for null, is never given a null packet.
- `NoLostTrigger`, `NoLostRequest`, `TimerCoversInflight`: the flags that wake the sender miss nothing.
- `RepeatIsDuplicate`: only what has arrived is dropped as a repeat.
- `EveryWqeCompletes`: under fairness everything is sent, delivered and completed.
- `ReliableFairSpec`: the channel implements `ReliableTransfer` with its progress (`accepted` is `m_tpPsnCnt`,
  `delivered` `m_psnRecvNxt`, `confirmed` `m_psnSndUna`).
- `ReliableButForUnderflow`: with retransmission every step is one of `ReliableTransfer`, except that
  `m_psnSndUna` may jump to 2^24 on the ack described below; the run reaches that step.

### Fairness

`Fairness` is weak fairness of the scheduling rounds, the allocator rounds, the delivery of packets and
acks, and the sending of acks. Each is an event the simulator has in its queue once the action is enabled,
and it runs every event of its queue; the port takes the allocator's rounds again after each packet. New
WQEs, losses and timeouts are not fair. Fairness is used only in `transport_spray`, where nothing is
lost; with losses and no retransmission the code makes no promise, and with retransmission it may abort.

### Disagreements found

- A repeated out-of-order packet that meets a receiver still waiting for packet 0 is acknowledged with
  PSN 0 - 1, that is 2^24 - 1: the sender completes everything it holds (`AckIsLargestInSequence`). On a
  FIFO network packet 0 has to be lost twice for it, on one that reorders a retransmission is enough. With
  retransmission the channel is therefore not reliable (`ReliableSpec` fails on the instance of `transport_retrans`);
  `ReliableButForUnderflow` says that this ack is the only reason. `ReliableSpec`, `AckedWereReceived` and
  `CompletedWereReceived` are proved without retransmission.
- After a spurious timeout a late ack moves `m_psnSndUna` past `m_psnSndNxt`; the unsigned difference closes
  the window (`LimitedOnlyWhenFull`), and the channel may never send again.

Also noted, without a run of their own:

- `ReTxTimeout` decrements the attempts before it tests them (`ub-transport.cc:1420`), so one
  retransmission less is made than "Maximum retransmission attempts before aborting." (`:54`) says.
- PSNs have 64 bits in the channel and 24 in the header (`ub-header.cc:929`): after 2^24 packets a new
  packet is taken for a repeat. The models stay below the wrap and the theorems assume it.

### Proofs (`UbTransportProofs`)

| Theorem | Assumes | States |
|---|---|---|
| `TypeCorrect` | nothing | `Spec => []TypeOK` |
| `ReceiverStateCorrect` | `MaxPsn < PsnMod` | `Spec => []BitmapSound` |
| `AllocatorGetsAPacket` | `MaxPsn < PsnMod` | `Spec => []NeverEmptyHanded` |
| `RepeatsAreDuplicates` | `MaxPsn < PsnMod` | `Spec => []RepeatIsDuplicate` |
| `AcksAreHonest` | and `~EnableRetrans` | `Spec => []AckedWereReceived` |
| `CompletionsAreHonest` | and `~EnableRetrans` | `Spec => []CompletedWereReceived` |
| `ChannelIsReliable` | and `~EnableRetrans` | `Spec => ReliableSpec` |
| `OnlyUnderflowIsUnreliable` | `MaxPsn < PsnMod` | `Spec => ReliableButForUnderflow` |
| `NoTriggerIsLost` | nothing | `Spec => []NoLostTrigger` |
| `NoRequestIsLost` | `MaxPsn < PsnMod` | `Spec => []NoLostRequest` |
| `TimerIsArmed` | `MaxPsn < PsnMod` | `Spec => []TimerCoversInflight` |
| `BitmapHoldsTheWindow` | `~EnableRetrans`, `MaxInflight <= OooThreshold` | `Spec => []WindowFitsBitmap` |

`MaxPsn < PsnMod` says that the channel carries fewer packets than its header can number; it cannot be
dropped, since a packet whose PSN has wrapped is taken for a repeat. `~EnableRetrans` is the default, and
the run `transport_ack_underflow` shows that it cannot be dropped either. Both are hypotheses of the theorems that
need them, not assumptions of the module.

The proofs are in three layers, each an inductive invariant.

1. `TypeInv` is `TypeOK` with the lower bound on the attempts that the abort leaves.
2. `ChannelInv` relates the state that the code keeps redundantly: segments are disjoint and numbered
   (`SegmentsDisjoint`), their bytes left agree with `m_psnSndNxt` (`SentMatchesNext`, the reason
   `NeverEmptyHanded` holds), those left cover exactly what is not acknowledged (`SegmentsCoverUna`), acks
   in flight name a packet below `m_psnRecvNxt` or are the 0 - 1 above (`NetworkSound`), and
   `BitmapSound`. None of these is inductive alone: the shift of the bitmap needs the header PSN to be the
   payload's number, which needs the segments' numbers to agree with `m_psnSndNxt`.
3. `SentOnceInv` adds what holds when nothing is sent twice: a packet in the network has not arrived, hence
   no repeat is ever answered, hence no ack is ahead of the receiver.

The refinement then maps `RecvInOrder` to `Deliver`, `RecvTpAck` to `Confirm` or a stutter,
`ScheduleSegment` to `Accept`, and every other action to a stutter. `OnlyUnderflowIsUnreliable` needs only the second
layer: `CountersSound` leaves 2^24 as the one value of `m_psnSndUna` ahead of the receiver.

The four wake-up theorems need less. `WakeupInv` says that whenever the sender could send, a round is
pending or `m_sendWindowLimited` is set with the window full; `RequestInv` says the same of scheduling
rounds, `m_tpFullFlag` and the segment vector; `SentWithinWindow` says that without retransmission every
packet in the network is less than a window ahead of `m_psnSndUna`, and so of the receiver.

Only model-checked: the liveness properties, which are out of reach of the prover.

## 4. `UbTransaction`

### State and actions

The transaction layer of one sending node: its jetties, its TPs, and the events between them. A WQE is
`[id, order, start, size, sent, canSend]` in segments; a segment is `[jetty, wqe, ssn, num]`, `num` being its
place among the segments its channel was given.

| Variables | Code |
|---|---|
| `wqes`, `ordered`, `msnCnt`, `ssnCnt`, `sndNxt`, `sndUna`, `acked` | `m_wqeVector`, `m_jettyOrderedWqe`, `m_taMsnCnt`, `m_taSsnCnt`, `m_taSsnSndNxt`, `m_taSsnSndUna`, `m_ssnAckBitset` |
| `group`, `related`, `exists`, `made` | `m_jettyTpGroup`, `m_tpRelatedJetties`, `m_tpnMap`, and how many objects a TP number has had |
| `rrIndex`, `scheduling` | `m_tpRRIndex`, `m_tpSchedulingStatus` |
| `vec`, `pushed`, `una`, `full` | `m_wqeSegmentVector`, segments pushed and acknowledged, `m_tpFullFlag` |
| `events` | the `ScheduleNow` events in their order: rounds, and segments between `ScheduleWqeSegment` and `OnScheduleWqeSegmentFinish` |
| `acking` | `RecvTpAck` of a TP is at a place of its vector |

`PushWqe` is `SendTraffic` with `PushWqeToJetty`, and with `JettyBindTp` for the first WQE of a jetty.
`RunSchedule` and `OnScheduleWqeSegmentFinish` run the first event. `RecvTpAck` begins the walk over the
vector, `CompleteSegment` and `RefuseSegment` are its steps (`ProcessWqeSegmentComplete` accepting or
refusing), `AckDone` its end; nothing else happens during the walk. It is a walk because completing a
segment may complete a WQE, which removes TPs, the walking one among them.

Abstractions:

- Service mode ROI, the default; the other modes impose no order. `m_tpRelatedRemoteRequests` is never
  filled by the code, so it is left out. Jetties are bound to several TPs (multi-path).
- Acks and new tasks may come between any two `ScheduleNow` events. In the simulator they come only when
  no event of the instant is left; the model has more interleavings, none fewer.
- Empty WQEs are left out (a WQE of no bytes never completes when it is its jetty's first,
  `ub-function.cc:530`).
- Strong fairness is on acks that cover a whole segment, weak on the rest: an ack inside a segment keeps the
  node busy for its handler only, and a segment has finitely many packets. That the channel acknowledges
  what it was given is `EveryWqeCompletes` of `UbTransport`.

### Runs

| Run | Question | Bounds |
|---|---|---|
| `transaction_orders` | WQEs of every order over two channels that are acknowledged independently | one jetty, two TPs, two WQEs of 1 or 4 segments, vectors of 3, bitmap of 2: both channels fill, segments are acknowledged past the bitmap |
| `transaction_past_bitmap` | a segment acknowledged past the bitmap | one WQE of 5 segments on two TPs of unequal speed |

What the passing runs show:

- `SegmentsAccountedFor`: every SSN that was given out and is not acknowledged belongs to exactly one
  segment in flight, and the bitmap has the others.
- `CompletedWhole`: a WQE is reported complete when all of its segments are, as long as none overtakes (at
  most two WQEs at a jetty).
- `StrongOrder`: an SO WQE waits for all RO and SO WQEs before it.
- `NoLostRound`: a channel with room and a jetty with a segment for it have a round pending. The run has one
  jetty whose window stays open; for several, and for windows that close, see the theorem.

The removal of TPs, and that every task completes, is checked in the run `tasks` of section 7.

### Disagreements found

- A segment acknowledged past the jetty's bitmap is refused, and looked at again only when its channel gets
  another ack; the jetty's window (10000) is wider than the bitmap (2048), so there may be none to come
  (`AckedSegmentsComplete`).

Also noted: segments are numbered when they are sent, WQEs when they are pushed. With three WQEs at a jetty
and order types, which `UbApp` does not set, a WQE that overtakes a blocked SO WQE is sent under the SSNs of
the other, which is then reported complete unsent: `CompletedWhole` fails with `MaxWqes = 3`. And a comment
(`ub-transaction.cc:233`) says that a TP with more than one segment is skipped, but the
branch only resets the scheduling status and goes on, so that several rounds may fill the vector past
"Default limit on outstanding WQE segments per TP." (`ub-transport.cc:66`).

### Proofs (`UbTransactionProofs`)

| Theorem | Assumes | States |
|---|---|---|
| `TransactionTypeCorrect` | nothing | `Spec => []TypeOK` |
| `StrongOrderKept` | nothing | `Spec => []StrongOrder` |
| `EverySegmentAccountedFor` | nothing | `Spec => []SegmentsAccountedFor` |
| `DestroyedTpsAreIdle` | nothing | `Spec => []DestroyedIsIdle` |
| `WqesCompleteWhole` | `NoneOvertakes` | `Spec => CompletedWhole` |
| `RoundsNeverLost` | nothing | `Spec => []NoLostRound` |

They hold for any number of jetties, channels and WQEs, any binding of jetties to channels, and with the removal
of TPs on or off. `NoneOvertakes` says that no WQE can overtake another: at most two at a jetty, or no SO WQE, or
SO WQEs only. It cannot be dropped, see the overtaking WQE above; `UbApp` gives every task its own jetty.

The invariants, each with what makes it inductive:

1. `JettyInv`: the SSN ranges of the WQEs at a jetty follow each other up to `m_taSsnCnt` (`WqesOK`), the list of
   ordered WQEs is that of the RO and SO WQEs left, in their order (`OrderedOK`), and the bitmap is within the
   window with its first bit clear (`WindowOK`). `StrongOrderOf` then follows, since a blocked WQE is not at the
   head of the list until those before it have gone; it is part of the invariant, since a WQE that may send stays
   so.
2. `SegmentInv`: no two segments at different places have an SSN of the same jetty (`Distinct`), an SSN that was
   given out is uncompleted if and only if a segment has it (`SegmentsOK`), and bindings are two-sided, the jetty
   of a segment is bound to its channel, and a channel that is gone has no jetty (`BindingsOK`).
   `DestroyedIsIdle` is one of its consequences: when the last WQE of a jetty completes the jetty has no segment
   left, so that unbinding it leaves `BindingsOK` true. Under `NoneOvertakes`, `SentInOrder` (segments are taken
   in the order of the WQEs) gives `OwnersOK`: a segment belongs to the WQE whose range its SSN is in. Without
   it that is false, which is the defect noted above.
3. `RoundsOK`: a scheduling flag is set only while the event that resets it is pending, and a channel that nobody
   will ask is full and asks when it has room again. The first part is why a round that is skipped
   (`m_tpSchedulingStatus`) loses nothing, the second covers the time between an ack and the end of its handler.

What the folds and choices of the module compute (`Without`, `RunLength`, `FirstTurn`) is established by lemmas
first, by induction over the natural numbers in the form of `NatInductiveSet`: a set of numbers that has 0 and is
closed under successor. Only model-checked: liveness.

## 5. `UbFlowControl` and `UbFabric`

### State and actions

`UbFlowControl` has the flow control objects of a port as operators on a record; `UbFabric` has the nodes. The
handlers call each other in chains (a dequeued packet returns credits, which makes a frame, which enters a
VOQ, which triggers a port), so they are operators on the state of all nodes, named as in the code, and an
action takes on the state that its chain of calls leaves.

| Variables | Code |
|---|---|
| `fc` | `m_crdTxfree`, `m_crdToReturn`, `m_shareCrd`; `m_portCredits`, `m_pfcSndCredits`, `m_pfcLastSndCredits` |
| `voq`, `inBuf`, `outBuf` | `m_voq`, `m_inPortBuffer`, `m_outPortBuffer` |
| `port` | send state, egress queue, packets on the link, `m_isRunning`, `m_oneMoreRound` |
| `rrIdx` | `m_rrIdx` |
| `events`, `draining` | `ScheduleNow` events of a port; the simulator is running them |
| `left`, `offered` | packets that tasks have not handed over; packets that a channel can send |
| `received`, `dropped` | history |

Actions: `TpOffer`, `LdstSend` (work arrives), `AllocateNothing`, `AllocateNextPacket`, `TransmitComplete`,
`ReceiveControlFrame`, `SinkDataPacket`, `ForwardDataPacket`, `RunScheduledNow`.

Abstractions:

- Time is order: an allocator round, a transmission or a delivery takes any time. The events of one instant
  with a delay come before those of `ScheduleNow`, which run until none is left. An event of `ScheduleNow`
  reads and writes only its own port, so ports drain in the order of their numbers and other nodes wait;
  this leaves out interleavings that differ only in the order of independent events.
- A packet arrives after its transmission completed: the interframe gap is not longer than a link's delay.
- All packets of a channel are offered at once, by one trigger; its window and its acks belong to
  `UbTransport`.
- Routes are fixed and never return to the ingress port. Links do not fail and nothing is injected.
- The hook of the congestion control in `NotifySwitchDequeue` is off, the default.

### Runs

`fabric_flow_control` has two devices at a switch. Packets of the first device take three cells or one, with
credits for four (and a pool of one): the second large packet waits for credits, and a grain of two cells
leaves a remainder to wait for more. With pause frames three small packets are sent, two of them fill the
buffer to the upper threshold. Without flow control the buffer overflows. The load of each kind is a pair in
`Loads`. `fabric_credit_overrun` has one channel whose packets are a cell longer than announced.

- `CreditsConserved`: on each link, credits held, cells under way, cells noted and credits under way add up.
- `LosslessUnderCredits`: no packet is dropped under credits.
- `ViewsAgree`: the two accounts of the buffers are what the VOQs hold.
- `NoIdlePort`, `NothingLeftBehind`: no trigger, credit or pause is missing. Behaviours are finite, so that the
  second, about the states in which nothing moves any more, says what a liveness property would, and
  needs no fairness. Deadlock is not checked for the same reason.
- `PauseStateTold`: both ends of a link agree on a pause once the frames have arrived.

These hold under two conditions on the configuration, which the instance meets and the code does not check:
the credits of a VL cover the largest packet and a grain less one (cells below a grain are not returned),
and the lower pause threshold is above the largest packet (thresholds are compared before the departing packet
is subtracted). By default a buffer has 1048576 bytes (`ub-queue-manager.h:13`) and the thresholds are 1677721
and 1342176 (`ub-port.cc:15`), so that no port ever pauses and packets are dropped instead.

### Disagreements found

`UbTransportChannel::GetNextPacketSize` leaves the network header out. A packet that is a cell longer for it is
sent when only the announced cells are left, consumes none, and is given back in full: the port ends with
more credits than the buffer has cells (`CreditsWithinBuffer`).

Also noted:

- `HandleSentPacket` does not ask whether a queue is a VOQ: a channel of priority 0 looks like the queue of the
  control frames, and its packets consume no credits although the receiver returns them.
- A VOQ with packets generated on its own node announces the size of a control frame
  (`ub-queue-manager.cc:98`), so a load/store packet of more cells may consume nothing. The runs keep
  load/store packets to one cell.
- `PushPacketToVoq` enters a packet in no account (`ub-switch.cc:241`), and the allocator takes generated packets
  of VL 0 off the account: a load/store packet of priority 0 makes it wrap.
- Single wake-ups are redundant on the checked instance: `NoIdlePort` still holds when `TriggerAllocator` does not
  set `m_oneMoreRound`, and `NothingLeftBehind` when `DequeuePacket` triggers no round, since a round looks at the
  queues when it ends and every transmission ends in a trigger. Other combinations were not tried.

### Proofs (`UbFabricProofs`, `UbFabricCreditProofs`)

| Theorem | Assumes | States |
|---|---|---|
| `FabricTypeCorrect` | nothing | `Spec => []TypeOK` |
| `FabricViewsAgree` | `NoWorkOnVlZero` | `Spec => []ViewsAgree` |
| `FabricNoIdlePort` | `EveryPacketFits` | `Spec => []NoIdlePort` |
| `FabricEgressShort` | nothing | an egress queue never holds more than three packets |
| `FabricPauseStateTold` | `RoomForThree` | `Spec => []PauseStateTold` |
| `FabricCreditsConserved` | `NoWorkOnVlZero`, `RoomForThree`, `CreditsTaken`, `BufferHoldsCredits` | `Spec => []CreditsConserved` |
| `FabricLossless` | the same four | `Spec => []LosslessUnderCredits` |

They hold for any number of nodes, ports, VLs, flows and packets, and any routes that do not lead back. The
conditions stand at the end of `UbFabric`, and `MCUbFabric` asserts that the instance meets them. The code does not
check them. An egress queue has room for 512 KB by default (`ub-port.cc:41`) and a packet has at most 4096 bytes
of payload; on VL 0 the accounts of a load/store packet wrap, and a packet larger than announced takes no
credits (see above). `BufferHoldsCredits` holds for the default of plain credits, 1024 cells of 80 bytes for a buffer
of 1 MB, and fails for the default of shared credits. The cells of any VL that return fill the reserve of the
lowest VL first (`ub-flow-control.cc:412`), so VL 1 can come to hold the pool and the reserves of all others, 8192 and
15 times 1024 cells or 1.88 MB: with those defaults nothing proved here excludes a drop. `FabricAssumption` says
of the routes only what a packet meets on its way (`Way`).

A step is a chain of calls. For each handler a lemma (`...Does`) says what it makes of a state `s`, as a relation
between `s` and the state `t` that it leaves (`Pumped` for an attempt to transmit, `Pushed`, `Tells` for a
frame, `Enqueued`, `CreditsReturned`, `RoundEnd` ...); for each action a lemma composes them (`ServeVoqShape`,
`ForwardShape` ...); and an invariant then has one lemma for each relation. The sums that the model takes over
functions are folds over a `CHOOSE`, so the first part of the module shows that any element may be taken out of
a sum (`SumRemove`), by induction over the parts of a finite set in the form of a set of naturals closed
under successor.

- `TypeInv` has the types of all queues, and where packets are: a packet of a flow is on a port only if the port is
  on its way (`PlacedStates`). That `TypeOK` has naturals rests on the guards of the consuming handlers.
- `Balanced` is `ViewsAgree` on a state of the nodes. Within a step it is broken by a known number of bytes
  (`Agree` with an offset): a packet has left its VOQ and not yet the accounts while the frame of its
  credits is pushed, and the check of the thresholds reads the accounts.
- `AllAttended`: a port that has something to send sends, runs its allocator, or has an event to come that looks
  again (`Attends`); a round in which a call came has noted it. Each relation either leaves a port attended or does
  not affect what it could send (`Fate`).
- `AllShort` counts: rounds start only with an empty egress queue or were asked for by a call that came in a
  round, and events pile up at most twice (`Short`).
- `AllTold` follows the newest frame over VOQ, egress queue, wire and peer (`Newest`); it needs `AllShort`, since a
  frame that found the egress queue full would be lost and the peer never told.
- `Under` is what a port is to get back: cells of a VL on the line, in the VOQs that the peer's link feeds, noted
  there, and in frames under way. Every relation shifts a known number of cells (`Shift`, `Steady`), so that the credits a port
  holds and those it is to get back are a constant (`Law`) at the end of a step, though not between its calls.
  `Funded` adds that less than a grain is noted, without which the 6 bits of a frame could not tell all of it, and
  that the reserve of VL 0 is full. A dropped packet would break `Funded`, and that none is dropped rests on it:
  by `Balanced` the account of a buffer is at most `CellBytes` for each cell under way (`HeldInCells`), the
  constant bounds these (`UnderBound`), and `BufferHoldsCredits` leaves room for the next packet. Both are proved together
  (`CreditsWork`).

## 6. `UbAlps`

### State and actions

Path spraying between two hosts: several TPs send over the paths of one PST entry, and one routing process
keeps for all of them what is unacknowledged. A packet is its PSN and the TP of its header; the copy that is
kept has also the TP that sent it last.

| Variables | Code |
|---|---|
| `segs`, `sndNxt`, `sndUna`, `exists`, `pacing` | `m_wqeSegmentVector`, `m_psnSndNxt`, `m_psnSndUna`, `m_numToTp`, `m_nextSendTimerEvent` of each TP |
| `tpBits`, `pathBits` | `m_bdpLikeInFlightBits`, `m_perPathBdpInFlightBits`, in packets |
| `pending`, `rto`, `retrans` | `m_pendingByPid` and the timeout of each path, `m_retransBuffer` of each TP |
| `trigger` | the host's port has a round of its allocator to run |
| `recvNxt`, `bits` | `m_psnRecvNxt`, `m_recvPsnBitset` of the receiver |
| `data`, `acks` | the network: a FIFO per path and TP in each direction |
| `scen`, `lostData`, `lostAcks`, `early` | the scenario of the behaviour, and what it has used of its bounds |

Actions: `GetNextPacketForAlps` (`Retransmit`, `SendNew`), `AllocateNothing`, `NextSendTime`,
`RecvDataPacketForAlps` with its four branches, `RecvTpAckForAlps` with `HandleAlpsAckByPsn` and the removal
of a TP whose task ended, `Timeout` and `EarlyTimeout` (`HandleTimeoutForLapsbypid`), `LoseData`, `LoseAck`.

Abstractions: rates, latencies and path weights are floating point and only choose a path and a time, so both
are free; all packets have one size; hosts have one port, as `UbHostAlps` assumes (`HandleTimeoutForLapsbypid`
triggers port 0); a load is in the segment vector from the start, `UbTransport` has the requests for more. TPs
of one pair of hosts differ in priority, so a path keeps order for each TP and not between two.

### Runs

`alps_spray` (62,656 states) runs six scenarios over two paths, window 3 and bitmap 2: `Alone` (a lost
packet), `Limited` (in-flight limits of one packet as well), `Deaf` (a lost ack as well), `Late` (a timeout
that races an answer), `Shared` (two TPs), `Removed` (TPs that go when their tasks end). Bounds are in the
scenarios: one loss, one lost ack, one early timeout, three packets.

- `NothingForgotten`: a packet that was sent and has not arrived is on its way or a copy of it is kept.
- `AckedAheadOnlyOfZero`: the cumulative ack runs ahead of the receiver only as long as packet 0 is missing.
- `InflightMatchesPending`: the counts that the limits compare are the packets that wait.
- `NoLostTrigger`: a channel that could send has an allocator round pending.
- `OnlyLostAreFiled`: without lost acks and early timeouts nothing is sent twice in vain.
- `Settles`, `SentArrives`: retransmissions end, and every packet arrives.

Fairness: allocator rounds, the send timer, and a timeout with nothing left to race it are events that the
simulator has queued, and the links deliver what they do not drop; losses and early timeouts are not fair.

### Disagreements found

A packet skipped by an ack is filed under the TP of the ack, sent again by that TP, and matched by PSN and
sending TP only. When it is lost a second time, an ack of that TP's own packet with the same PSN takes the
only copy away (`NothingForgotten` in `alps_lost_twice`, with two TPs and two losses).

Also noted:

- An ack that meets no copy of its packet takes everything its path waits for and files it. After one timeout
  that was too early, or with two TPs on a path, the packets sent again are acknowledged twice, the second acks
  meet no copy in turn, and the retransmissions never end. `Settles` is stated without these two cases for
  that reason; the code names the effect in a message (`ub-routing-process.cc:612`).
- An out-of-order packet is acknowledged with PSN 0 while packet 0 is missing (`ub-transport.cc:1311`), so a
  segment of one packet is completed before it has arrived.
- What an ack takes out is released from the in-flight count of the ack's TP, whoever sent it: with two TPs the
  count of one leaks and that of the other is clamped at zero. Hence the inequality of
  `InflightMatchesPending`.
- Packets filed under a TP that is removed later stay in `m_retransBuffer` and are never sent.

### Proofs (`UbAlpsProofs`)

| Theorem | Assumes | States |
|---|---|---|
| `TypeCorrect` | a load gives typed segments (a fact about a fold) | `Spec => []TypeOK` |
| `NoTriggerIsLost` | nothing | `Spec => []NoLostTrigger` |
| `AcksRunAheadOnlyOfZero` | nothing | `Spec => []AckedAheadOnlyOfZero` |
| `InflightIsCounted` | nothing | `Spec => []InflightMatchesPending` |
| `OnlyLostPacketsAreFiled` | nothing | `Spec => []OnlyLostAreFiled` |
| `NothingIsForgotten` | only one TP has a load | `Spec => []NothingForgotten` |

They hold for any number of TPs, paths and losses. `AckInv` adds to the third that every ack in the network
names a packet that was received (`AcksOfReceived`) and a cumulative PSN the receiver had reached
(`AcksSound`). The last needs `OnlySends` (nothing is kept by or for another TP) and `CopiesKept`: a copy of
every packet that has not arrived is kept, also while the packet is on its way, which is stronger than the
property and inductive, since a copy is given up only for an ack of its packet. `alps_lost_twice` shows that
its premise cannot be dropped.

`OnlyLostPacketsAreFiled` rests on `LossInv`: while one TP is alone, no ack has been lost and no timeout was
early, the acks of a path and the packets on it name copies that wait there, in the order they wait in, the
acks before the packets (`InOrderOf`); there is one copy of every packet (`OneCopy`); and a packet that has been
received is not on its way again, its ack is (`AckOnItsWay`). So what an ack takes out before the copy it names
has no ack under way, and was lost. `InflightIsCounted` adds `PathsAreCounted` for the paths to `CountInv` for
the TPs: `SumOf` counts cells, so that the lemmas on finite sets say what one more or k fewer do to a sum, and a
count that is clamped at zero only widens the inequality. Only model-checked: liveness.

## 7. `UbTrafficGen`, `UbLdst` and `UbTask`

### State and actions

`UbTrafficGen` is the task graph: `ReadRecord` and `AddTask` for each record of the traffic file, `Start`,
`SendTraffic`, `MarkTaskCompleted` with `ScheduleNextTasks` (`file`, `read`, `phaseTasks`, `added`, `started`,
`dependencies`, `taskStates`, `readyTasks`, `sending` for the members of `UbTrafficGen`). `UbLdst` is the
load/store path of a node: `HandleLdstTask` cuts a task into a segment per thread, `PushTaskSegment` and
`HandleTask` send packets while slots are free, `RecvDataPacket` answers, `RecvResponse` and `UpdateTask`
count (`segments`, `completedNum`, `queue`, `outstanding`, `ldstEvents`, and the packets of each segment id in
`requests` and `responses`). Segment ids are cut to the width of the header, and a response is counted for
whatever segment its id names.

`UbTask` is a node: it EXTENDS both and `UbTransaction`, and joins their actions where `UbApp` joins the
components. `SendUrma` and `SendMem` are `UbApp::SendTraffic` for the two kinds of task; `OnTaskCompleted` and
`OnMemTaskCompleted` are a completion on one side and `MarkTaskCompleted` on the other in one step; the others
leave the rest alone.

Abstractions: one node sends all tasks and each URMA task has its jetty, as in `UbApp`; sizes are units of
which `DataSize` make a packet; the network of the load/store path is lossless, since nothing is sent again
there; the `ScheduleNow` events of the two paths are not ordered among each other.

### Run

`tasks` (409,108 states): two WQE tasks of 1 or 3 segments that share a TP, two memory tasks of 5 and 2 units
(two packets and one per thread), one slot for loads and two for stores on each of two threads, and three
traffic files in which the tasks of the later phase stand first. Removal of TPs is on.

- `DestroyedIsIdle`: a TP that is destroyed, also from inside its own `RecvTpAck`, has no segment and none on
  its way.
- `DependenciesKept`: a task starts only after every task of the phases it depends on.
- `SlotsConserved`: the free slots of a thread and its unanswered packets add up.
- `EveryTaskCompletes`: every task of the file completes.

Fairness: what the simulator has scheduled runs, links deliver; strong fairness is on acks that cover a whole
segment (see section 4).

Two conditions that the instance meets and the code does not check: with segment ids of 1 bit (`IdMod = 2`)
TLC finds `SlotsConserved` violated, which is what happens after 2^16 segments; with a memory task smaller than
the number of threads (`MemLength` 1) a segment of no bytes never completes and neither does the task
(`EveryTaskCompletes`). Also noted: `GetLdstThread` tests `threadId > m_threads.size()`
(`ub-ldst-instance.cc:133`) where `>=` is meant, and `UbApp` always names the threads 0 and 1
(`ub-app.cc:102`); phases that wait for each other in a cycle never start, without a message.

### Proofs

`UbTaskProofs` has first, of `UbTrafficGen`, `TrafficTypeCorrect` and `TrafficKeepsDependencies` for every
traffic file. Its
invariant says that a phase's tasks are those read so far, that everything is read before a task is added,
and that a task which left `PENDING` has only completed dependencies. Then `NodeRunsTheTraffic`,
`TaskSpec => TrafficSpec`, that is, each step of the node is a step of the task graph or leaves it alone; and
from it `NodeKeepsDependencies`. In the same way `NodeRunsTheTransactionLayer`, `TaskSpec => Spec`, carries what is
proved of the transaction layer over to the node: `NodeDestroysIdleTps`, and `NodeCompletesWqesWhole`, whose
hypothesis the node meets with its one WQE at each jetty (`TaskAssumption`).

`NodeConservesSlots` is `SlotsConserved` for every node whose segment ids fit in a header (`IdsFit`: one id for
each thread and memory task, the condition that the violation above shows to be needed). Its invariant is
`SlotsInv`, with one lemma for each step of a thread: events name segments there are, a queued segment is of the class of
its queue, and packets are only under way for segments there are. `SumUpTo` sums by recursion, and the lemmas
about it (by induction over the naturals) say what one more packet does to a sum, that `Share` gives the
segments of a queue exactly the packets that leave it (`SumTaken`), and that these arrive under as many ids in
the network (`SumArrive`). Lemmas about the node add how many segments there are: one per thread for each task given
to the threads, and no task is given twice (`SegmentsOfGiven`, `OnlyRunningIsSent`).

## 8. `UbCaqm`

### State and actions

A transport channel whose congestion control is enabled. Beside the send window in packets it has one in
bytes, which is compared with the bytes the receiver has not confirmed.

| Variables | Code |
|---|---|
| `psnCnt`, `sndNxt`, `sndUna`, `windowLimited`, `trigger` | as in `UbTransport` |
| `cwnd`, `inFlight`, `dataByteSent`, `lastSequence` | `m_cwnd`, `m_inFlight`, `m_dataByteSent`, `m_lastSequence` |
| `slowStart`, `resetPending` | `m_congestionState`, `m_congestionStateResetEvent` |
| `recvNxt`, `recorded`, `dataByteRecvd` | `m_psnRecvNxt`, `m_recvdPsn*Map`, `m_dataByteRecvd` |
| `data`, `acks` | the network |

`GetNextPacket` has the second look at the window that `IsLimited` does not imply; `RecvDataPacket` passes the
switches (`SwitchForwardPacket`), is recorded and, in order, acknowledged for all packets up to the next
missing one (`RecverGenAckCeTphHeader`); `RecvTpAck` has all of `SenderRecvAck` (`Sent`, `Shrunk`) and both
triggers of the port.

Abstractions: nothing is lost or sent again, the default; segments, bitmap and jetties are those of
`UbTransport`. A switch keeps counters of credits in floating point and resets them in real time: which of
its outcomes a packet meets (let pass, refuse, mark) is free. The accumulated hint of congestion avoidance is
0 or 1. `StateReset` may run whenever it is scheduled. `Bytes` gives the payload of the first n packets, and
`Carried` what the channel carried before, so that a behaviour may start just below the reset of the byte
counts (2^31 are taken off above 0.9 * 2^32).

### Run

`caqm_window` (27,460 states): five packets, every second of half an MTU, an MTU of 2, a send window of 3, a
window of 4 bytes, counts of 64 with their reset at 57 by 32, from 0 and from 54.

- `InFlightIsUnacked`: `m_inFlight` is the payload that is not acknowledged, also while sender and receiver
  take 2^31 off their counts one after the other.
- `ProbeIsSent`: a channel that is not limited has a packet that fits, so that the allocator, which takes a
  packet without a look, is never given a null pointer. It is a matter of how far the window can be cut.
- `AllAcknowledged`: the two windows together never stop the channel. Fairness is that of `UbTransport`.

### Notes

- Acks are routed per flow by default and stay in order. With adaptive routing (`Adaptive = TRUE`) TLC finds
  `InFlightIsUnacked` violated: an older ack sets `m_inFlight` back to what it was. `ProbeIsSent` then fails
  too: with nothing in flight and a stale count `IsLimited` lets the probe through "Avoid deadlock: allow one
  probe packet" (`ub-transport.cc:1617`), `GetNextPacket` returns a null pointer, and the allocator takes it.
- An attribute `UbCaqmCwnd` below an MTU has the same effect with the first packet.
- With retransmission a packet sent again is added to `m_dataByteSent` again, and counted once by the receiver:
  the window shrinks by it for good. Retransmission is therefore left out of the model.
- `m_HintE` has 16 bits: sixteen packets granted an MTU of 4096 in one ack grant nothing. `m_CE` has 8.
- The cuts to half an MTU and to `gamma * MTU` never show: `SenderRecvAck` raises the window to an MTU last.

### Proofs (`UbCaqmProofs`)

| Theorem | Assumes | States |
|---|---|---|
| `TypeCorrect` | nothing | `Spec => []TypeOK` |
| `CountsAgree` | `~Adaptive` | `Spec => []InFlightIsUnacked` |
| `OpenChannelSends` | `~Adaptive` | `Spec => []ProbeIsSent` |

`CaqmAssumption` says of the widths what the code has: the window in bytes is below 2^31, and threshold and
window together below 2^32. The inductive invariant `FlightInv` follows the acks in the network from the sender
to the receiver: each counts on from the one before it (`AcksOK`, with `PsnAt` and `SeqAt` for where an ack will
take the sender), the first from `m_lastSequence`, the last being what the receiver has now. A sequence that
falls back is then exactly one reset, and the two counts differ by the bytes in flight (`BytesOK`).
Only model-checked: `AllAcknowledged`.

## 9. What is not covered

- The deficit round robin allocator (`ub-switch-allocator.cc:364`), the credits that CAQM switches keep, the
  other service modes of the transaction layer, links that fail, and the time and probability of injected
  faults. A TP that is removed and made again under its number over a network with repeats
  (`ub-tp-connection-manager.cc:544`) would need `UbTask` over `UbAlps`.
- Rates, latencies and hints computed in floating point: the models leave their outcome open.
- Configuration, traces and reports, which are I/O, and the ns-3 core below the module, of which the models use
  that events run in the order of their times. The repository contains all of ns-3; these models are about
  `src/src/unified-bus` only, a small part of it.
- What the prover cannot do stays with TLC: liveness under fairness, and `NothingLeftBehind`, the safety property of
  `UbFabric` that stands for liveness: that a system at rest is done needs, beyond the invariants proved, an argument
  along the paths of waiting packets. All other invariants that the runs check are proved.

`PROJECT.json` lists every component with what is left out of it, and every hazard without a property says
why.
