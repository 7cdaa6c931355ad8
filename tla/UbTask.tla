------------------------------- MODULE UbTask -------------------------------
(***************************************************************************)
(* A node with its tasks (UbApp): the traffic generator starts a task, the *)
(* application gives it to a jetty of its own (URMA_WRITE) or to the       *)
(* load/store threads (MEM_STORE, MEM_LOAD), and what completes there      *)
(* completes the task, which starts those that waited for it.              *)
(* A jetty is named by its task.  The ScheduleNow events of the two paths  *)
(* are kept apart: their order among each other is left open.              *)
(***************************************************************************)
EXTENDS UbTransaction, UbTrafficGen, UbLdst

CONSTANT MemLength      \* sizes of the memory tasks, in units

ASSUME TaskAssumption ==
    /\ Tasks = Jetties \cup MemTasks /\ Jetties \cap MemTasks = {}
    /\ MemLength \in [MemTasks -> Nat]
    /\ MaxWqes = 1

taskSysVars == <<vars, trafficVars, ldstVars>>

TaskInit == Init /\ TrafficInit /\ LdstInit

\* The main program reads the file, adds its tasks and starts them.
Initiate ==
    /\ ReadRecord \/ AddTask \/ Start
    /\ UNCHANGED <<vars, ldstVars>>

\* UbApp::SendTraffic of a URMA_WRITE.
SendUrma(k) ==
    /\ SendTraffic(k)
    /\ \E o \in Orders, n \in WqeSizes : PushWqe(k, o, n)
    /\ UNCHANGED ldstVars

\* UbApp::SendTraffic of a MEM_STORE or a MEM_LOAD.
SendMem(k) ==
    /\ acking = <<>>
    /\ SendTraffic(k)
    /\ \E type \in Types : HandleLdstTask(k, type, MemLength[k])
    /\ UNCHANGED vars

-----------------------------------------------------------------------------
(* Steps of the transaction layer and of the load/store path.              *)

RunTransaction ==
    /\ RunEvent \/ RefuseSegment \/ AckDone
    /\ UNCHANGED <<trafficVars, ldstVars>>

Acknowledge(t, n) ==
    /\ RecvTpAck(t, n)
    /\ UNCHANGED <<trafficVars, ldstVars>>

\* A segment of task k completes, and with the jetty's WQE the task: UbApp's
\* OnTaskCompleted.
OnTaskCompleted(k) ==
    /\ CompleteSegment
    /\ vec[acking[1]][acking[2]].jetty = k
    /\ IF wqes[k] # <<>> /\ wqes'[k] = <<>> THEN MarkTaskCompleted(k) ELSE UNCHANGED trafficVars
    /\ UNCHANGED ldstVars

RunLdst ==
    /\ acking = <<>> /\ LdstRun
    /\ UNCHANGED <<vars, trafficVars>>

\* A response to task k is counted, and the last one completes the task: UbApp's
\* OnMemTaskCompleted.
OnMemTaskCompleted(k) ==
    /\ acking = <<>> /\ UpdateTask
    /\ segments[Head(ldstEvents).id + 1].task = k
    /\ IF TaskDone(Head(ldstEvents).id) THEN MarkTaskCompleted(k) ELSE UNCHANGED trafficVars
    /\ UNCHANGED vars

Deliver(w) ==
    /\ acking = <<>>
    /\ RecvDataPacket(w) \/ RecvResponse(w)
    /\ UNCHANGED <<vars, trafficVars>>

TaskNext ==
    \/ Initiate
    \/ \E k \in Jetties : SendUrma(k) \/ OnTaskCompleted(k)
    \/ \E k \in MemTasks : SendMem(k) \/ OnMemTaskCompleted(k)
    \/ RunTransaction
    \/ \E t \in Tps : \E n \in una[t]..pushed[t] : Acknowledge(t, n)
    \/ RunLdst
    \/ \E w \in WireIds : Deliver(w)

TaskSpec == TaskInit /\ [][TaskNext]_taskSysVars

\* Scheduled events run, handlers end, and the network delivers: packets of the
\* load/store path, and acks of what the channels were given (see UbTransaction).
TaskFairness ==
    /\ WF_taskSysVars(Initiate)
    /\ \A k \in Jetties : WF_taskSysVars(SendUrma(k))
    /\ \A k \in MemTasks : WF_taskSysVars(SendMem(k))
    /\ WF_taskSysVars(RunTransaction \/ \E k \in Jetties : OnTaskCompleted(k))
    /\ \A t \in Tps : SF_taskSysVars(\E n \in (una[t] + 1)..pushed[t] : Acknowledge(t, n))
    /\ WF_taskSysVars(RunLdst \/ \E k \in MemTasks : OnMemTaskCompleted(k))
    /\ \A w \in WireIds : WF_taskSysVars(Deliver(w))

FairTaskSpec == TaskSpec /\ TaskFairness

-----------------------------------------------------------------------------
\* Every task of the file completes, whatever tasks share its channels, its
\* threads and its slots, and whatever it waits for.
EveryTaskCompletes == <>(\A k \in Tasks : InFile(k) => taskStates[k] = "COMPLETED")

=============================================================================
