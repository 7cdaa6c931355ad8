------------------------------- MODULE UbLdst -------------------------------
(***************************************************************************)
(* The load/store path of one node.  A memory task is cut into one segment *)
(* per thread; a thread sends the packets of its segments as long as it    *)
(* has a free slot of the segment's type (UbLdstThread), and each response *)
(* frees a slot (UbLdstApi, UbLdstInstance).  The network may reorder      *)
(* requests and responses; it is lossless, nothing is sent again.          *)
(* Sizes are in units of which DataSize make a packet.  ScheduleNow events *)
(* run in the order they were scheduled.                                   *)
(***************************************************************************)
EXTENDS Integers, Sequences, FiniteSets, SequencesExt

CONSTANTS
    MemTasks,
    ThreadIds,      \* the threads UbApp names, in order
    Outstanding,    \* type: m_loadOutstanding and m_storeOutstanding at the start
    DataSize,       \* m_dataSize, units carried by a packet
    IdMod           \* segment ids a packet header can tell apart

Types == {"LOAD", "STORE"}

ASSUME LdstAssumption ==
    /\ ThreadIds \in Seq(Nat) \ {<<>>} /\ IsInjective(ThreadIds)
    /\ Outstanding \in [Types -> Nat]
    /\ DataSize \in Nat \ {0} /\ IdMod \in Nat \ {0}

Threads == ToSet(ThreadIds)

VARIABLES
    segments,       \* m_taskSegmentsMap, the segment of id n at n + 1
    completedNum,   \* task: m_taskSegmentCompletedNum
    queue,          \* thread, type: m_loadQueue and m_storeQueue
    outstanding,    \* thread, type: m_loadOutstanding and m_storeOutstanding
    ldstEvents,     \* the ScheduleNow events, in order
    requests,       \* id on the wire: requests under way
    responses       \* id on the wire: responses under way

ldstVars == <<segments, completedNum, queue, outstanding, ldstEvents, requests, responses>>

\* left: packets not yet sent; waiting: m_waitingAckNum, which is unsigned, but
\* is only compared with 0.
TaskSegment == [task : MemTasks, type : Types, thread : Threads,
                psnCnt : Nat, left : Nat, waiting : Int]

WireIds == 0..(IdMod - 1)

LdstInit ==
    /\ segments = <<>> /\ completedNum = [k \in MemTasks |-> 0]
    /\ queue = [c \in Threads \X Types |-> <<>>]
    /\ outstanding = [c \in Threads \X Types |-> Outstanding[c[2]]]
    /\ ldstEvents = <<>>
    /\ requests = [w \in WireIds |-> 0] /\ responses = [w \in WireIds |-> 0]

\* A segment is of the class of its thread and type.
Class(s) == <<s.thread, s.type>>

-----------------------------------------------------------------------------
\* Units of the i-th of the n segments of a task; the last one takes the rest.
PartSize(length, n, i) ==
    (length \div n) + (IF i = n THEN length % n ELSE 0)

\* SetPacketInfo: a packet for each DataSize units begun.
PsnCnt(size) == (size + DataSize - 1) \div DataSize

\* UbLdstInstance::HandleLdstTask.
HandleLdstTask(k, type, length) ==
    LET n == Len(ThreadIds)
        Packets(i) == PsnCnt(PartSize(length, n, i))
    IN  /\ segments' = segments \o
               [i \in 1..n |-> [task |-> k, type |-> type, thread |-> ThreadIds[i],
                                psnCnt |-> Packets(i), left |-> Packets(i), waiting |-> 0]]
        /\ ldstEvents' = ldstEvents \o
               [i \in 1..n |-> [kind |-> "push", id |-> Len(segments) + i - 1]]
    /\ completedNum' = [completedNum EXCEPT ![k] = 0]
    /\ UNCHANGED <<queue, outstanding, requests, responses>>

LdstEvent(kind) == ldstEvents # <<>> /\ Head(ldstEvents).kind = kind

Handle(c) == <<[kind |-> "handle", class |-> c]>>

\* UbLdstThread::PushTaskSegment.
PushTaskSegment ==
    /\ LdstEvent("push")
    /\ LET id == Head(ldstEvents).id
           c == Class(segments[id + 1])
       IN  /\ segments' = [segments EXCEPT ![id + 1].waiting = segments[id + 1].psnCnt]
           /\ queue' = [queue EXCEPT ![c] = Append(@, id)]
           /\ ldstEvents' = Tail(ldstEvents) \o Handle(c)
    /\ UNCHANGED <<completedNum, outstanding, requests, responses>>

\* f[1] + ... + f[n].
SumUpTo(f, n) ==
    LET sum[i \in 0..n] == IF i = 0 THEN 0 ELSE sum[i - 1] + f[i]
    IN  sum[n]

\* Packets left in the first n segments of class c.
Left(c, n) == SumUpTo([i \in DOMAIN queue[c] |-> segments[queue[c][i] + 1].left], n)

\* Of the m packets class c sends, those of the i-th segment of its queue.
Share(c, m, i) ==
    LET before == Left(c, i - 1)
        left == segments[queue[c][i] + 1].left
    IN  IF m <= before THEN 0 ELSE IF m - before < left THEN m - before ELSE left

\* The packets class c can send: as it has slots, and segments to take them from.
Sends(c) ==
    LET total == Left(c, Len(queue[c]))
    IN  IF outstanding[c] < total THEN outstanding[c] ELSE total

\* The segment at which the slots ran out goes with those before it.
TakenOutMutant(c, m) == {i \in DOMAIN queue[c] : outstanding[c] > m \/ Left(c, i - 1) < m}

\* Places of the queue the loop takes out when it sends m packets: a segment with
\* nothing left goes when a further packet is looked for, with a slot for it.
TakenOut(c, m) == {i \in DOMAIN queue[c] : outstanding[c] > m \/ Left(c, i) < m}

\* HandleLoadTask and HandleStoreTask, one loop each.
HandleTask ==
    /\ LdstEvent("handle")
    /\ LET c == Head(ldstEvents).class
           q == queue[c]
           m == Sends(c)
           Sent(id) == LET at == {i \in DOMAIN q : q[i] = id}
                       IN  IF at = {} THEN 0 ELSE Share(c, m, CHOOSE i \in at : TRUE)
       IN  /\ outstanding' = [outstanding EXCEPT ![c] = @ - m]
           /\ segments' = [n \in DOMAIN segments |->
                  [segments[n] EXCEPT !.left = @ - Sent(n - 1)]]
           /\ requests' = [w \in WireIds |-> requests[w] +
                  SumUpTo([i \in DOMAIN q |-> IF q[i] % IdMod = w THEN Share(c, m, i) ELSE 0], Len(q))]
           /\ queue' = [queue EXCEPT ![c] = SubSeq(q, Cardinality(TakenOut(c, m)) + 1, Len(q))]
    /\ ldstEvents' = Tail(ldstEvents)
    /\ UNCHANGED <<completedNum, responses>>

\* UbLdstApi::RecvDataPacket at the destination.
RecvDataPacket(w) ==
    /\ requests[w] > 0
    /\ requests' = [requests EXCEPT ![w] = @ - 1]
    /\ responses' = [responses EXCEPT ![w] = @ + 1]
    /\ UNCHANGED <<segments, completedNum, queue, outstanding, ldstEvents>>

\* UbLdstApi::RecvResponse back at the node.
RecvResponse(w) ==
    /\ responses[w] > 0
    /\ responses' = [responses EXCEPT ![w] = @ - 1]
    /\ ldstEvents' = Append(ldstEvents, [kind |-> "ack", id |-> w])
    /\ UNCHANGED <<segments, completedNum, queue, outstanding, requests>>

\* UbLdstInstance::OnRecvAck: the id on the wire is taken for the segment's.
OnRecvAck ==
    /\ LdstEvent("ack")
    /\ ldstEvents' = Append(Tail(ldstEvents), [kind |-> "update", id |-> Head(ldstEvents).id])
    /\ UNCHANGED <<segments, completedNum, queue, outstanding, requests, responses>>

\* UpdateTask of the last response to a segment, and that of a task.
SegmentCompletes(id) == segments[id + 1].waiting = 1

TaskSegments(k) == {n \in DOMAIN segments : segments[n].task = k}

TaskDone(id) ==
    LET k == segments[id + 1].task
    IN  SegmentCompletes(id) /\ completedNum[k] + 1 = Cardinality(TaskSegments(k))

\* The slot of the class to which UpdateTask of segment s gives one back.
FreedMutant(s) == IF s.waiting = 1 THEN {} ELSE {Class(s)}

Freed(s) == {Class(s)}

\* UbLdstThread::UpdateTask and UbLdstInstance::OnTaskSegmentCompleted; what the
\* completion of a task causes is the application's.
UpdateTask ==
    /\ LdstEvent("update")
    /\ LET id == Head(ldstEvents).id
           s == segments[id + 1]
       IN  /\ segments' = [segments EXCEPT ![id + 1].waiting = @ - 1]
           /\ completedNum' = IF SegmentCompletes(id)
                              THEN [completedNum EXCEPT ![s.task] = @ + 1] ELSE completedNum
           /\ outstanding' = [c \in Threads \X Types |->
                  IF c \in Freed(s) THEN outstanding[c] + 1 ELSE outstanding[c]]
           /\ ldstEvents' = Tail(ldstEvents) \o Handle(Class(s))
    /\ UNCHANGED <<queue, requests, responses>>

LdstRun == PushTaskSegment \/ HandleTask \/ OnRecvAck

-----------------------------------------------------------------------------
LdstTypeOK ==
    /\ segments \in Seq(TaskSegment) /\ completedNum \in [MemTasks -> Nat]
    /\ queue \in [Threads \X Types -> Seq(Nat)] /\ outstanding \in [Threads \X Types -> Nat]
    /\ requests \in [WireIds -> Nat] /\ responses \in [WireIds -> Nat]

\* Responses that have come back for the segments of class c and are not yet
\* counted, and packets of the class in the network.
InEvents(c) ==
    Cardinality({i \in DOMAIN ldstEvents :
        ldstEvents[i].kind \in {"ack", "update"} /\ Class(segments[ldstEvents[i].id + 1]) = c})

InNetwork(c) ==
    SumUpTo([n \in 1..IdMod |-> IF n \in DOMAIN segments /\ Class(segments[n]) = c
                                THEN requests[n - 1] + responses[n - 1] ELSE 0], IdMod)

\* UbLdstThread, "Maximum number of outstanding STORE requests this thread may
\* issue": every slot of a thread is free or held by exactly one packet, a
\* request, a response, or a response not yet counted.  None is lost when a
\* segment ends or when loads and stores share the thread, so no more packets
\* than that are out and a thread does not run dry.
SlotsConserved ==
    \A c \in Threads \X Types : outstanding[c] + InNetwork(c) + InEvents(c) = Outstanding[c[2]]

=============================================================================
