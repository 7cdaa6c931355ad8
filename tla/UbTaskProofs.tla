---------------------------- MODULE UbTaskProofs ----------------------------
(***************************************************************************)
(* The traffic generator starts a task only after the tasks it depends on, *)
(* for every traffic file.  A node with its tasks implements the traffic   *)
(* generator and the transaction layer, and its threads lose no slot: the  *)
(* steps of UbLdst keep what each of their slots stands for.               *)
(***************************************************************************)
EXTENDS UbTask, UbTransactionProofs, TLAPS

-----------------------------------------------------------------------------
(* The traffic generator.                                                  *)

Settled == {"READY", "RUNNING", "COMPLETED"}

\* The phases know every task that was read.
PhasesKnown ==
    \A i \in 1..read : file.order[i] \in phaseTasks[file.phase[file.order[i]]]

\* Tasks are added when all of the file was read.
AddedAfterRead == added > 0 => read = Len(file.order)

\* An added task knows every task of the file that it depends on.
DependenciesKnown ==
    \A k, d \in Tasks :
        taskStates[k] # "NONE" /\ InFile(d) /\ file.phase[d] \in file.dependOn[k]
            => d \in dependencies[k]

\* A task that is ready, or more, waits for nothing.
SettledWaitsForNothing ==
    \A k \in Tasks : taskStates[k] \in Settled =>
        \A d \in dependencies[k] : taskStates[d] = "COMPLETED"

TrafficInv ==
    /\ TrafficTypeOK /\ PhasesKnown /\ AddedAfterRead
    /\ DependenciesKnown /\ SettledWaitsForNothing

-----------------------------------------------------------------------------
\* The records of a file.
LEMMA FileType ==
    ASSUME TrafficTypeOK
    PROVE  /\ file.order \in Seq(Tasks) /\ Len(file.order) \in Nat
           /\ \A i \in 1..Len(file.order) : file.order[i] \in Tasks
           /\ file.phase \in [Tasks -> Phases] /\ file.dependOn \in [Tasks -> SUBSET Phases]
<1>1. file \in File
  BY TrafficAssumption DEF TrafficTypeOK
<1>2. file.order \in Seq(Tasks)
  BY <1>1 DEF File
<1> QED
  BY <1>1, <1>2 DEF File

LEMMA TrafficInitial == TrafficInit => TrafficInv
<1> SUFFICES ASSUME TrafficInit PROVE TrafficInv
  OBVIOUS
<1>1. file \in File
  BY TrafficAssumption DEF TrafficInit
<1>2. file.order \in Seq(Tasks)
  BY <1>1 DEF File
<1>3. Len(file.order) \in Nat
  BY <1>2
<1>4. TrafficTypeOK
  <2>1. read \in 0..Len(file.order) /\ added \in 0..Len(file.order)
    BY <1>3 DEF TrafficInit
  <2>2. started \in BOOLEAN
    BY DEF TrafficInit
  <2> QED
    BY <2>1, <2>2 DEF TrafficInit, TrafficTypeOK, TaskStates
<1>5. PhasesKnown /\ AddedAfterRead /\ DependenciesKnown /\ SettledWaitsForNothing
  BY <1>4 DEF TrafficInit, PhasesKnown, AddedAfterRead, DependenciesKnown, SettledWaitsForNothing, Settled
<1> QED
  BY <1>4, <1>5 DEF TrafficInv

\* One more record is read.
LEMMA ReadRecordKeeps ==
    ASSUME TrafficInv, ReadRecord
    PROVE  TrafficInv'
<1> DEFINE k == file.order[read + 1]
<1>1. /\ TrafficTypeOK /\ read < Len(file.order) /\ read' = read + 1 /\ read \in Nat
      /\ phaseTasks' = [phaseTasks EXCEPT ![file.phase[k]] = @ \cup {k}]
      /\ UNCHANGED <<file, added, started, dependencies, taskStates, readyTasks, sending>>
  BY DEF TrafficInv, ReadRecord, TrafficTypeOK, taskVars
<1>2. k \in Tasks /\ Len(file.order) \in Nat /\ file.phase \in [Tasks -> Phases]
      /\ \A i \in 1..Len(file.order) : file.order[i] \in Tasks
  BY <1>1, FileType
<1> HIDE DEF k
<1>3. phaseTasks' \in [Phases -> SUBSET Tasks]
  BY <1>1, <1>2 DEF TrafficTypeOK
<1>4. TrafficTypeOK'
  BY <1>1, <1>2, <1>3 DEF TrafficTypeOK
<1>5. PhasesKnown'
  <2> SUFFICES ASSUME NEW i \in 1..(read + 1)
               PROVE  file.order[i] \in phaseTasks'[file.phase[file.order[i]]]
    BY <1>1 DEF PhasesKnown
  <2>1. file.order[i] \in Tasks /\ file.phase[file.order[i]] \in Phases /\ file.phase[k] \in Phases
    BY <1>1, <1>2
  <2>2. CASE i = read + 1
    BY <1>1, <1>2, <2>1, <2>2 DEF k, TrafficTypeOK
  <2>3. CASE i # read + 1
    <3>1. i \in 1..read
      BY <1>1, <2>3
    <3>2. file.order[i] \in phaseTasks[file.phase[file.order[i]]]
      BY <3>1 DEF TrafficInv, PhasesKnown
    <3> QED
      BY <1>1, <2>1, <3>2 DEF TrafficTypeOK
  <2> QED
    BY <2>2, <2>3
<1>6. AddedAfterRead'
  BY <1>1, <1>2 DEF TrafficInv, AddedAfterRead
<1>7. DependenciesKnown' /\ SettledWaitsForNothing'
  BY <1>1 DEF TrafficInv, DependenciesKnown, SettledWaitsForNothing, InFile
<1> QED
  BY <1>4, <1>5, <1>6, <1>7 DEF TrafficInv

\* A task is added when the phases know the whole file.
LEMMA AddTaskKeeps ==
    ASSUME TrafficInv, AddTask
    PROVE  TrafficInv'
<1> DEFINE k == file.order[added + 1]
           deps == UNION {phaseTasks[n] : n \in file.dependOn[k]}
<1>1. /\ TrafficTypeOK /\ read = Len(file.order) /\ added < Len(file.order)
      /\ added' = added + 1 /\ added \in Nat
      /\ UNCHANGED <<file, read, phaseTasks, started, sending>>
  BY DEF TrafficInv, AddTask, TrafficTypeOK, readVars, FileRead
<1>2. /\ k \in Tasks /\ Len(file.order) \in Nat
      /\ \A i \in 1..Len(file.order) : file.order[i] \in Tasks
      /\ file.phase \in [Tasks -> Phases] /\ file.dependOn \in [Tasks -> SUBSET Phases]
  BY <1>1, FileType
<1>3. \/ taskStates[k] # "NONE" /\ UNCHANGED <<dependencies, taskStates, readyTasks>>
      \/ /\ taskStates[k] = "NONE"
         /\ dependencies' = [dependencies EXCEPT ![k] = deps]
         /\ taskStates' = [taskStates EXCEPT ![k] = IF deps = {} THEN "READY" ELSE "PENDING"]
         /\ readyTasks' = IF deps = {} THEN readyTasks \cup {k} ELSE readyTasks
  BY DEF AddTask
<1>4. deps \subseteq Tasks
  BY <1>1, <1>2 DEF TrafficTypeOK
<1>5. ASSUME NEW d \in Tasks, InFile(d), file.phase[d] \in file.dependOn[k]
      PROVE  d \in deps
  <2>1. PICK i \in 1..Len(file.order) : file.order[i] = d
    BY <1>5 DEF InFile
  <2>2. d \in phaseTasks[file.phase[d]]
    BY <1>1, <2>1 DEF TrafficInv, PhasesKnown
  <2> QED
    BY <1>5, <2>2
<1> HIDE DEF k, deps
<1>6. TrafficTypeOK'
  <2>1. added' \in 0..Len(file.order)
    BY <1>1, <1>2
  <2>2. dependencies' \in [Tasks -> SUBSET Tasks]
    BY <1>1, <1>2, <1>3, <1>4 DEF TrafficTypeOK
  <2>3. taskStates' \in [Tasks -> TaskStates]
    BY <1>1, <1>2, <1>3 DEF TrafficTypeOK, TaskStates
  <2>4. readyTasks' \subseteq Tasks
    BY <1>1, <1>2, <1>3 DEF TrafficTypeOK
  <2> QED
    BY <1>1, <2>1, <2>2, <2>3, <2>4 DEF TrafficTypeOK
<1>7. PhasesKnown' /\ AddedAfterRead'
  BY <1>1 DEF TrafficInv, PhasesKnown, AddedAfterRead
<1>8. DependenciesKnown'
  <2> SUFFICES ASSUME NEW x \in Tasks, NEW d \in Tasks, taskStates'[x] # "NONE",
                      InFile(d), file.phase[d] \in file.dependOn[x]
               PROVE  d \in dependencies'[x]
    BY <1>1 DEF DependenciesKnown, InFile
  <2>1. taskStates[x] # "NONE" => d \in dependencies[x]
    BY DEF TrafficInv, DependenciesKnown
  <2>2. CASE UNCHANGED <<dependencies, taskStates>>
    BY <2>1, <2>2
  <2>3. CASE /\ taskStates[k] = "NONE"
             /\ dependencies' = [dependencies EXCEPT ![k] = deps]
             /\ taskStates' = [taskStates EXCEPT ![k] = IF deps = {} THEN "READY" ELSE "PENDING"]
    <3>1. CASE x = k
      BY <1>1, <1>2, <1>5, <2>3, <3>1 DEF TrafficTypeOK
    <3>2. CASE x # k
      BY <1>1, <1>2, <2>1, <2>3, <3>2 DEF TrafficTypeOK
    <3> QED
      BY <3>1, <3>2
  <2> QED
    BY <1>3, <2>2, <2>3
<1>9. SettledWaitsForNothing'
  <2> SUFFICES ASSUME NEW x \in Tasks, taskStates'[x] \in Settled, NEW d \in dependencies'[x]
               PROVE  taskStates'[d] = "COMPLETED"
    BY DEF SettledWaitsForNothing
  <2>1. \A y \in Tasks : taskStates[y] \in Settled =>
            \A e \in dependencies[y] : taskStates[e] = "COMPLETED"
    BY DEF TrafficInv, SettledWaitsForNothing
  <2>2. CASE UNCHANGED <<dependencies, taskStates>>
    BY <2>1, <2>2
  <2>3. CASE /\ taskStates[k] = "NONE"
             /\ dependencies' = [dependencies EXCEPT ![k] = deps]
             /\ taskStates' = [taskStates EXCEPT ![k] = IF deps = {} THEN "READY" ELSE "PENDING"]
    <3>1. CASE x = k
      BY <1>1, <1>2, <2>3, <3>1 DEF TrafficTypeOK, Settled
    <3>2. CASE x # k
      <4>1. taskStates[x] \in Settled /\ d \in dependencies[x]
        BY <1>1, <1>2, <2>3, <3>2 DEF TrafficTypeOK
      <4>2. taskStates[d] = "COMPLETED" /\ d \in Tasks
        BY <1>1, <2>1, <4>1 DEF TrafficTypeOK
      <4> QED
        BY <1>1, <1>2, <2>3, <4>2 DEF TrafficTypeOK
    <3> QED
      BY <3>1, <3>2
  <2> QED
    BY <1>3, <2>2, <2>3
<1> QED
  BY <1>6, <1>7, <1>8, <1>9 DEF TrafficInv

\* ScheduleNextTasks makes ready tasks run and changes no other state.
LEMMA Scheduled ==
    ASSUME NEW STATE states, states \in [Tasks -> TaskStates], NEW STATE ready, ready \in SUBSET Tasks,
           sending \subseteq Tasks, ScheduleNextTasks(states, ready)
    PROVE  /\ taskStates' \in [Tasks -> TaskStates]
           /\ \A k \in Tasks : \/ taskStates'[k] = states[k]
                               \/ states[k] = "READY" /\ taskStates'[k] = "RUNNING"
           /\ readyTasks' = {} /\ sending' \subseteq Tasks
BY DEF ScheduleNextTasks, TaskStates

\* The states of the tasks change, and the file and the dependencies do not:
\* what is settled remains settled.
LEMMA StatesKeep ==
    ASSUME TrafficInv, UNCHANGED <<readVars, added, started, dependencies>>,
           taskStates' \in [Tasks -> TaskStates],
           readyTasks' \subseteq Tasks, sending' \subseteq Tasks,
           \A k \in Tasks : taskStates'[k] # "NONE" => taskStates[k] # "NONE",
           SettledWaitsForNothing'
    PROVE  TrafficInv'
<1>1. TrafficTypeOK'
  BY DEF TrafficInv, TrafficTypeOK, readVars
<1>2. PhasesKnown' /\ AddedAfterRead' /\ DependenciesKnown'
  BY DEF TrafficInv, PhasesKnown, AddedAfterRead, DependenciesKnown, InFile, readVars
<1> QED
  BY <1>1, <1>2 DEF TrafficInv

LEMMA StartKeeps ==
    ASSUME TrafficInv, Start
    PROVE  TrafficInv'
<1>1. /\ taskStates \in [Tasks -> TaskStates] /\ readyTasks \in SUBSET Tasks
      /\ sending \subseteq Tasks /\ dependencies \in [Tasks -> SUBSET Tasks]
  BY DEF TrafficInv, TrafficTypeOK
<1>2. ScheduleNextTasks(taskStates, readyTasks) /\ UNCHANGED <<readVars, added, dependencies>>
  BY DEF Start
<1>3. /\ taskStates' \in [Tasks -> TaskStates]
      /\ \A k \in Tasks : \/ taskStates'[k] = taskStates[k]
                          \/ taskStates[k] = "READY" /\ taskStates'[k] = "RUNNING"
      /\ readyTasks' = {} /\ sending' \subseteq Tasks
  BY <1>1, <1>2, Scheduled
<1>4. SettledWaitsForNothing'
  BY <1>1, <1>2, <1>3 DEF TrafficInv, SettledWaitsForNothing, Settled
<1>5. TrafficTypeOK'
  BY <1>2, <1>3 DEF TrafficInv, TrafficTypeOK, readVars, Start
<1>6. PhasesKnown' /\ AddedAfterRead' /\ DependenciesKnown'
  BY <1>2, <1>3 DEF TrafficInv, PhasesKnown, AddedAfterRead, DependenciesKnown, InFile, readVars
<1> QED
  BY <1>4, <1>5, <1>6 DEF TrafficInv

LEMMA MarkTaskCompletedKeeps ==
    ASSUME TrafficInv, NEW k \in Tasks, MarkTaskCompleted(k)
    PROVE  TrafficInv'
<1>1. CASE taskStates[k] # "RUNNING"
  <2>1. UNCHANGED trafficVars
    BY <1>1 DEF MarkTaskCompleted
  <2> QED
    BY <2>1 DEF TrafficInv, TrafficTypeOK, PhasesKnown, AddedAfterRead, DependenciesKnown,
                SettledWaitsForNothing, InFile, trafficVars, readVars, taskVars
<1>2. CASE taskStates[k] = "RUNNING"
  <2> DEFINE states == [d \in Tasks |-> IF d = k THEN "COMPLETED"
                                        ELSE IF d \in Released(k) THEN "READY"
                                        ELSE taskStates[d]]
  <2>1. /\ taskStates \in [Tasks -> TaskStates] /\ readyTasks \cup Released(k) \in SUBSET Tasks
        /\ sending \subseteq Tasks /\ dependencies \in [Tasks -> SUBSET Tasks]
        /\ states \in [Tasks -> TaskStates]
    BY DEF TrafficInv, TrafficTypeOK, TaskStates, Released
  <2>2. /\ ScheduleNextTasks(states, readyTasks \cup Released(k))
        /\ UNCHANGED <<readVars, added, started, dependencies>>
    BY <1>2 DEF MarkTaskCompleted
  <2> HIDE DEF states
  <2>3. /\ taskStates' \in [Tasks -> TaskStates]
        /\ \A d \in Tasks : \/ taskStates'[d] = states[d]
                            \/ states[d] = "READY" /\ taskStates'[d] = "RUNNING"
        /\ readyTasks' = {} /\ sending' \subseteq Tasks
    BY <2>1, <2>2, Scheduled
  <2>4. \A d \in Tasks : d = k \/ taskStates[d] = "COMPLETED" => taskStates'[d] = "COMPLETED"
    BY <1>2, <2>3 DEF states, Released
  <2>5. \A d \in Tasks : taskStates'[d] # "NONE" => taskStates[d] # "NONE"
    BY <1>2, <2>3 DEF states, Released
  <2>6. \A d \in Tasks : taskStates'[d] \in Settled => taskStates[d] \in Settled \/ d \in Released(k)
    BY <1>2, <2>3 DEF states, Settled
  <2>7. SettledWaitsForNothing'
    <3> SUFFICES ASSUME NEW x \in Tasks, taskStates'[x] \in Settled, NEW d \in dependencies[x]
                 PROVE  taskStates'[d] = "COMPLETED"
      BY <2>2 DEF SettledWaitsForNothing
    <3>1. d \in Tasks
      BY <2>1
    <3>2. d = k \/ taskStates[d] = "COMPLETED"
      BY <2>6 DEF TrafficInv, SettledWaitsForNothing, Released
    <3> QED
      BY <2>4, <3>1, <3>2
  <2> QED
    BY <2>2, <2>3, <2>5, <2>7, StatesKeep
<1> QED
  BY <1>1, <1>2

LEMMA TrafficStep == TrafficInv /\ [TrafficNext]_trafficVars => TrafficInv'
<1> SUFFICES ASSUME TrafficInv, [TrafficNext]_trafficVars PROVE TrafficInv'
  OBVIOUS
<1>1. CASE ReadRecord
  BY <1>1, ReadRecordKeeps
<1>2. CASE AddTask
  BY <1>2, AddTaskKeeps
<1>3. CASE Start
  BY <1>3, StartKeeps
<1>4. ASSUME NEW k \in Tasks, SendTraffic(k) PROVE TrafficInv'
  <2>1. /\ UNCHANGED <<readVars, added, started, dependencies, taskStates, readyTasks>>
        /\ sending' \subseteq sending
    BY <1>4 DEF SendTraffic
  <2> QED
    BY <2>1 DEF TrafficInv, TrafficTypeOK, PhasesKnown, AddedAfterRead, DependenciesKnown,
                SettledWaitsForNothing, InFile, readVars
<1>5. ASSUME NEW k \in Tasks, MarkTaskCompleted(k) PROVE TrafficInv'
  BY <1>5, MarkTaskCompletedKeeps
<1>6. CASE UNCHANGED trafficVars
  BY <1>6 DEF TrafficInv, TrafficTypeOK, PhasesKnown, AddedAfterRead, DependenciesKnown,
              SettledWaitsForNothing, InFile, trafficVars, readVars, taskVars
<1> QED
  BY <1>1, <1>2, <1>3, <1>4, <1>5, <1>6 DEF TrafficNext

\* A task that runs or ran was added and ready once.
LEMMA InvKeepsDependencies == TrafficInv => DependenciesKept
BY DEF TrafficInv, DependenciesKnown, SettledWaitsForNothing, Settled, DependenciesKept

-----------------------------------------------------------------------------
\* Every state of the traffic generator is type-correct.
THEOREM TrafficTypeCorrect == TrafficSpec => []TrafficTypeOK
<1>1. TrafficInv => TrafficTypeOK
  BY DEF TrafficInv
<1> QED
  BY <1>1, TrafficInitial, TrafficStep, PTL DEF TrafficSpec

\* UbTrafficGen::AddTask and MarkTaskCompleted: whatever the file and the order
\* in which its tasks complete, a task runs only after the tasks it depends on.
THEOREM TrafficKeepsDependencies == TrafficSpec => []DependenciesKept
BY TrafficInitial, TrafficStep, InvKeepsDependencies, PTL DEF TrafficSpec

-----------------------------------------------------------------------------
(* The node.                                                               *)

\* Every step of the node is a step of the traffic generator or none.
LEMMA TaskStepIsTrafficStep == [TaskNext]_taskSysVars => [TrafficNext]_trafficVars
<1> SUFFICES ASSUME [TaskNext]_taskSysVars PROVE [TrafficNext]_trafficVars
  OBVIOUS
<1>1. CASE Initiate
  BY <1>1 DEF Initiate, TrafficNext
<1>2. ASSUME NEW k \in Jetties, SendUrma(k) PROVE [TrafficNext]_trafficVars
  <2>1. k \in Tasks
    BY TaskAssumption
  <2> QED
    BY <1>2, <2>1 DEF SendUrma, TrafficNext
<1>3. ASSUME NEW k \in MemTasks, SendMem(k) PROVE [TrafficNext]_trafficVars
  <2>1. k \in Tasks
    BY TaskAssumption
  <2> QED
    BY <1>3, <2>1 DEF SendMem, TrafficNext
<1>4. ASSUME NEW k \in Jetties, OnTaskCompleted(k) PROVE [TrafficNext]_trafficVars
  <2>1. k \in Tasks
    BY TaskAssumption
  <2>2. MarkTaskCompleted(k) \/ UNCHANGED trafficVars
    BY <1>4 DEF OnTaskCompleted
  <2> QED
    BY <2>1, <2>2 DEF TrafficNext
<1>5. ASSUME NEW k \in MemTasks, OnMemTaskCompleted(k) PROVE [TrafficNext]_trafficVars
  <2>1. k \in Tasks
    BY TaskAssumption
  <2>2. MarkTaskCompleted(k) \/ UNCHANGED trafficVars
    BY <1>5 DEF OnMemTaskCompleted
  <2> QED
    BY <2>1, <2>2 DEF TrafficNext
<1>6. CASE RunTransaction
  BY <1>6 DEF RunTransaction
<1>7. ASSUME NEW t, NEW n, Acknowledge(t, n) PROVE [TrafficNext]_trafficVars
  BY <1>7 DEF Acknowledge
<1>8. CASE RunLdst
  BY <1>8 DEF RunLdst
<1>9. ASSUME NEW w, Deliver(w) PROVE [TrafficNext]_trafficVars
  BY <1>9 DEF Deliver
<1>10. CASE UNCHANGED taskSysVars
  BY <1>10 DEF taskSysVars
<1> QED
  BY <1>1, <1>2, <1>3, <1>4, <1>5, <1>6, <1>7, <1>8, <1>9, <1>10 DEF TaskNext

\* UbApp::OnTaskCompleted and OnMemTaskCompleted: the node, with its transaction
\* layer and its load/store path, runs the task graph as the generator says.
THEOREM NodeRunsTheTraffic == TaskSpec => TrafficSpec
<1>1. TaskInit => TrafficInit
  BY DEF TaskInit
<1> QED
  BY <1>1, TaskStepIsTrafficStep, PTL DEF TaskSpec, TrafficSpec

\* In every such node a task starts only after the tasks it depends on.
THEOREM NodeKeepsDependencies == TaskSpec => []DependenciesKept
BY NodeRunsTheTraffic, TrafficKeepsDependencies, PTL

\* Every step of the node is a step of the transaction layer or none.
LEMMA TaskStepIsTransactionStep == [TaskNext]_taskSysVars => [Next]_vars
<1> SUFFICES ASSUME [TaskNext]_taskSysVars PROVE [Next]_vars
  OBVIOUS
<1>1. CASE Initiate
  BY <1>1 DEF Initiate
<1>2. ASSUME NEW k \in Jetties, SendUrma(k) PROVE [Next]_vars
  BY <1>2 DEF SendUrma, Next
<1>3. ASSUME NEW k, SendMem(k) PROVE [Next]_vars
  BY <1>3 DEF SendMem
<1>4. ASSUME NEW k, OnTaskCompleted(k) PROVE [Next]_vars
  BY <1>4 DEF OnTaskCompleted, Next, WalkAcked
<1>5. ASSUME NEW k, OnMemTaskCompleted(k) PROVE [Next]_vars
  BY <1>5 DEF OnMemTaskCompleted
<1>6. CASE RunTransaction
  BY <1>6 DEF RunTransaction, Next, WalkAcked
<1>7. ASSUME NEW t \in Tps, NEW n \in una[t]..pushed[t], Acknowledge(t, n) PROVE [Next]_vars
  BY <1>7 DEF Acknowledge, Next
<1>8. CASE RunLdst
  BY <1>8 DEF RunLdst
<1>9. ASSUME NEW w, Deliver(w) PROVE [Next]_vars
  BY <1>9 DEF Deliver
<1>10. CASE UNCHANGED taskSysVars
  BY <1>10 DEF taskSysVars
<1> QED
  BY <1>1, <1>2, <1>3, <1>4, <1>5, <1>6, <1>7, <1>8, <1>9, <1>10 DEF TaskNext

\* UbApp drives the transaction layer: with tasks that wait for each other, share
\* channels and take them down when they complete, the jetties and channels of a
\* node do what the transaction layer says, and keep all that is proved of it.
THEOREM NodeRunsTheTransactionLayer == TaskSpec => Spec
<1>1. TaskInit => Init
  BY DEF TaskInit
<1> QED
  BY <1>1, TaskStepIsTransactionStep, PTL DEF TaskSpec, Spec

\* TpConnectionManager::RemoveUselessTps, called when a task completes: a TP that the
\* node destroys holds no segment and none is on its way to it.
THEOREM NodeDestroysIdleTps == TaskSpec => []DestroyedIsIdle
BY NodeRunsTheTransactionLayer, DestroyedTpsAreIdle, PTL

\* UbApp pushes one WQE to a jetty, so that none overtakes another: a task of a WQE
\* is reported complete only when every segment of it was sent and acknowledged.
THEOREM NodeCompletesWqesWhole == TaskSpec => CompletedWhole
<1>1. NoneOvertakes
  BY TaskAssumption DEF NoneOvertakes
<1>2. Spec => CompletedWhole
  BY <1>1, WqesCompleteWhole
<1> QED
  BY <1>2, NodeRunsTheTransactionLayer, PTL

-----------------------------------------------------------------------------
(* Sums.                                                                   *)

\* The recursion of SumUpTo.
SumBody(f, g, n) == IF n = 0 THEN 0 ELSE g[n - 1] + f[n]

IsSumTo(f, N, g) == g = [n \in 0..N |-> SumBody(f, g, n)]

LEMMA SumExists ==
    ASSUME NEW f, NEW N \in Nat
    PROVE  \E g : IsSumTo(f, N, g)
<1> DEFINE P == {n \in Nat : \E g : IsSumTo(f, n, g)}
<1>1. 0 \in P
  <2> DEFINE g == [n \in 0..0 |-> 0]
  <2>1. g = [n \in 0..0 |-> SumBody(f, g, n)]
    BY DEF SumBody
  <2> QED
    BY <2>1 DEF IsSumTo
<1>2. ASSUME NEW n \in Nat, n \in P PROVE n + 1 \in P
  <2>1. PICK g : g = [k \in 0..n |-> SumBody(f, g, k)]
    BY <1>2 DEF IsSumTo
  <2> DEFINE h == [k \in 0..(n + 1) |-> SumBody(f, g, k)]
  <2>2. ASSUME NEW k \in 0..(n + 1) PROVE SumBody(f, g, k) = SumBody(f, h, k)
    <3>1. CASE k = 0
      BY <3>1 DEF SumBody
    <3>2. CASE k # 0
      <4>1. k - 1 \in 0..n /\ k - 1 \in 0..(n + 1)
        BY <3>2
      <4>2. g[k - 1] = SumBody(f, g, k - 1)
        BY <2>1, <4>1, Zenon
      <4>3. h[k - 1] = SumBody(f, g, k - 1)
        BY <4>1
      <4> QED
        BY <4>2, <4>3 DEF SumBody
    <3> QED
      BY <3>1, <3>2
  <2>3. h = [k \in 0..(n + 1) |-> SumBody(f, h, k)]
    BY <2>2
  <2> HIDE DEF h
  <2>4. IsSumTo(f, n + 1, h)
    BY <2>3 DEF IsSumTo
  <2> QED
    BY <2>4
<1>3. Nat \subseteq P
  <2> HIDE DEF P
  <2> QED
    BY <1>1, <1>2, NatInductiveSet
<1> QED
  BY <1>3

\* The recursion has one value, however far it goes.
LEMMA SumUnique ==
    ASSUME NEW f, NEW N \in Nat, NEW M \in Nat, NEW g, NEW h, IsSumTo(f, N, g), IsSumTo(f, M, h)
    PROVE  \A n \in Nat : n <= N /\ n <= M => g[n] = h[n]
<1> DEFINE P == {n \in Nat : n <= N /\ n <= M => g[n] = h[n]}
<1>1. \A n \in 0..N : g[n] = SumBody(f, g, n)
  BY Zenon DEF IsSumTo
<1>2. \A n \in 0..M : h[n] = SumBody(f, h, n)
  BY Zenon DEF IsSumTo
<1>3. 0 \in P
  BY <1>1, <1>2 DEF SumBody
<1>4. ASSUME NEW n \in Nat, n \in P PROVE n + 1 \in P
  <2> SUFFICES ASSUME n + 1 <= N, n + 1 <= M PROVE g[n + 1] = h[n + 1]
    OBVIOUS
  <2>1. n + 1 \in 0..N /\ n + 1 \in 0..M /\ n <= N /\ n <= M /\ n + 1 # 0 /\ n + 1 - 1 = n
    OBVIOUS
  <2>2. g[n] = h[n]
    BY <1>4, <2>1
  <2>3. g[n + 1] = g[n + 1 - 1] + f[n + 1] /\ h[n + 1] = h[n + 1 - 1] + f[n + 1]
    BY <1>1, <1>2, <2>1 DEF SumBody
  <2> QED
    BY <2>1, <2>2, <2>3
<1>5. Nat \subseteq P
  <2> HIDE DEF P
  <2> QED
    BY <1>3, <1>4, NatInductiveSet
<1> QED
  BY <1>5

\* What SumUpTo computes.
LEMMA SumStep ==
    ASSUME NEW f, NEW n \in Nat
    PROVE  /\ SumUpTo(f, 0) = 0
           /\ SumUpTo(f, n + 1) = SumUpTo(f, n) + f[n + 1]
<1> DEFINE G(k) == CHOOSE g : IsSumTo(f, k, g)
<1>1. \A k \in Nat : IsSumTo(f, k, G(k))
  BY SumExists, Zenon
<1>2. \A k : SumUpTo(f, k) = G(k)[k]
  BY Zenon DEF SumUpTo, IsSumTo, SumBody
<1> HIDE DEF G
<1>3. \A k \in Nat : \A i \in 0..k : G(k)[i] = SumBody(f, G(k), i)
  BY <1>1, Zenon DEF IsSumTo
<1>4. SumUpTo(f, 0) = 0
  BY <1>2, <1>3 DEF SumBody
<1>5. n + 1 \in Nat /\ n + 1 # 0 /\ n + 1 - 1 = n /\ n + 1 \in 0..(n + 1)
  OBVIOUS
<1>6. G(n + 1)[n + 1] = G(n + 1)[n] + f[n + 1]
  <2>1. G(n + 1)[n + 1] = G(n + 1)[n + 1 - 1] + f[n + 1]
    BY <1>3, <1>5 DEF SumBody
  <2> QED
    BY <1>5, <2>1
<1>7. G(n + 1)[n] = G(n)[n]
  <2>1. n <= n + 1 /\ n <= n
    OBVIOUS
  <2> QED
    BY <1>1, <1>5, <2>1, SumUnique
<1> QED
  BY <1>2, <1>4, <1>6, <1>7

LEMMA SumNat ==
    ASSUME NEW f, NEW n \in Nat, \A i \in 1..n : f[i] \in Nat
    PROVE  SumUpTo(f, n) \in Nat
<1> DEFINE P == {k \in Nat : k <= n => SumUpTo(f, k) \in Nat}
<1>1. 0 \in P
  BY SumStep
<1>2. ASSUME NEW k \in Nat, k \in P PROVE k + 1 \in P
  <2> SUFFICES ASSUME k + 1 <= n PROVE SumUpTo(f, k + 1) \in Nat
    OBVIOUS
  <2>1. SumUpTo(f, k + 1) = SumUpTo(f, k) + f[k + 1]
    BY SumStep
  <2>2. k + 1 \in 1..n /\ k <= n
    OBVIOUS
  <2> QED
    BY <1>2, <2>1, <2>2
<1>3. Nat \subseteq P
  <2> HIDE DEF P
  <2> QED
    BY <1>1, <1>2, NatInductiveSet
<1> QED
  BY <1>3

\* Sums of the same numbers.
LEMMA SumAgree ==
    ASSUME NEW f, NEW g, NEW n \in Nat, \A i \in 1..n : f[i] = g[i]
    PROVE  SumUpTo(f, n) = SumUpTo(g, n)
<1> DEFINE P == {k \in Nat : k <= n => SumUpTo(f, k) = SumUpTo(g, k)}
<1>1. 0 \in P
  BY SumStep
<1>2. ASSUME NEW k \in Nat, k \in P PROVE k + 1 \in P
  <2> SUFFICES ASSUME k + 1 <= n PROVE SumUpTo(f, k + 1) = SumUpTo(g, k + 1)
    OBVIOUS
  <2>1. SumUpTo(f, k + 1) = SumUpTo(f, k) + f[k + 1]
    BY SumStep
  <2>2. SumUpTo(g, k + 1) = SumUpTo(g, k) + g[k + 1]
    BY SumStep
  <2>3. k + 1 \in 1..n /\ k <= n
    OBVIOUS
  <2> QED
    BY <1>2, <2>1, <2>2, <2>3
<1>3. Nat \subseteq P
  <2> HIDE DEF P
  <2> QED
    BY <1>1, <1>2, NatInductiveSet
<1> QED
  BY <1>3

\* A sum of zeros.
LEMMA SumZero ==
    ASSUME NEW f, NEW n \in Nat, \A i \in 1..n : f[i] = 0
    PROVE  SumUpTo(f, n) = 0
<1> DEFINE P == {k \in Nat : k <= n => SumUpTo(f, k) = 0}
<1>1. 0 \in P
  BY SumStep
<1>2. ASSUME NEW k \in Nat, k \in P PROVE k + 1 \in P
  <2> SUFFICES ASSUME k + 1 <= n PROVE SumUpTo(f, k + 1) = 0
    OBVIOUS
  <2>1. SumUpTo(f, k + 1) = SumUpTo(f, k) + f[k + 1]
    BY SumStep
  <2>2. k + 1 \in 1..n /\ k <= n
    OBVIOUS
  <2> QED
    BY <1>2, <2>1, <2>2
<1>3. Nat \subseteq P
  <2> HIDE DEF P
  <2> QED
    BY <1>1, <1>2, NatInductiveSet
<1> QED
  BY <1>3

\* One of the numbers changes by d.
LEMMA SumUpdate ==
    ASSUME NEW f, NEW g, NEW n \in Nat, NEW m \in 1..n, NEW d \in Int,
           \A i \in 1..n : f[i] \in Int,
           \A i \in 1..n : i # m => g[i] = f[i],
           g[m] = f[m] + d
    PROVE  SumUpTo(g, n) = SumUpTo(f, n) + d /\ SumUpTo(f, n) \in Int
<1> DEFINE P == {k \in Nat : k <= n =>
                    /\ SumUpTo(f, k) \in Int
                    /\ SumUpTo(g, k) = SumUpTo(f, k) + (IF m <= k THEN d ELSE 0)}
<1>1. 0 \in P
  BY SumStep
<1>2. ASSUME NEW k \in Nat, k \in P PROVE k + 1 \in P
  <2> SUFFICES ASSUME k + 1 <= n
               PROVE  /\ SumUpTo(f, k + 1) \in Int
                      /\ SumUpTo(g, k + 1) = SumUpTo(f, k + 1) + (IF m <= k + 1 THEN d ELSE 0)
    OBVIOUS
  <2> DEFINE F == SumUpTo(f, k)
             G == SumUpTo(g, k)
  <2>1. SumUpTo(f, k + 1) = F + f[k + 1]
    BY SumStep
  <2>2. SumUpTo(g, k + 1) = G + g[k + 1]
    BY SumStep
  <2>3. k + 1 \in 1..n /\ k <= n
    OBVIOUS
  <2>4. F \in Int /\ G = F + (IF m <= k THEN d ELSE 0)
    BY <1>2, <2>3
  <2>5. f[k + 1] \in Int /\ (m # k + 1 => g[k + 1] = f[k + 1]) /\ (m = k + 1 => g[k + 1] = f[k + 1] + d)
    BY <2>3
  <2> HIDE DEF F, G
  <2> QED
    BY <2>1, <2>2, <2>4, <2>5
<1>3. Nat \subseteq P
  <2> HIDE DEF P
  <2> QED
    BY <1>1, <1>2, NatInductiveSet
<1> QED
  BY <1>3

LEMMA SumShift ==
    ASSUME NEW f, NEW g, NEW n \in Nat, NEW m \in 1..n, NEW d \in Int,
           \A i \in 1..n : f[i] \in Int,
           \A i \in 1..n : i # m => g[i] = f[i],
           g[m] = f[m] + d
    PROVE  SumUpTo(g, n) = SumUpTo(f, n) + d
  BY SumUpdate

\* What is sent goes to the places q names: s[i] to place q[i].
SumAt(q, s, w, n) == SumUpTo([i \in DOMAIN q |-> IF q[i] = w THEN s[i] ELSE 0], n)

Arrive(f, q, s, n) == [w \in DOMAIN f |-> f[w] + SumAt(q, s, w, n)]

LEMMA SumArrive ==
    ASSUME NEW N \in Nat, NEW L \in Nat, NEW f \in [1..N -> Nat],
           NEW q \in [1..L -> 1..N], NEW s \in [1..L -> Nat]
    PROVE  SumUpTo(Arrive(f, q, s, L), N) = SumUpTo(f, N) + SumUpTo(s, L)
<1> DEFINE H(n) == Arrive(f, q, s, n)
           A(w) == [i \in DOMAIN q |-> IF q[i] = w THEN s[i] ELSE 0]
           P == {n \in Nat : n <= L => SumUpTo(H(n), N) = SumUpTo(f, N) + SumUpTo(s, n)}
<1>0. SumUpTo(f, N) \in Nat
  BY SumNat
<1>1. 0 \in P
  <2>1. \A w \in 1..N : H(0)[w] = f[w] + SumUpTo(A(w), 0)
    BY DEF Arrive, SumAt
  <2>2. \A w \in 1..N : SumUpTo(A(w), 0) = 0
    BY SumStep
  <2> HIDE DEF A, H
  <2>3. \A w \in 1..N : H(0)[w] = f[w]
    BY <2>1, <2>2
  <2>4. SumUpTo(H(0), N) = SumUpTo(f, N)
    BY <2>3, SumAgree
  <2>5. SumUpTo(s, 0) = 0
    BY SumStep
  <2> QED
    BY <1>0, <2>4, <2>5
<1>2. ASSUME NEW n \in Nat, n \in P PROVE n + 1 \in P
  <2> SUFFICES ASSUME n + 1 <= L PROVE SumUpTo(H(n + 1), N) = SumUpTo(f, N) + SumUpTo(s, n + 1)
    OBVIOUS
  <2>1. n + 1 \in 1..L /\ n <= L /\ q[n + 1] \in 1..N /\ s[n + 1] \in Nat
    OBVIOUS
  <2>2. \A k \in Nat, w \in 1..N : H(k)[w] = f[w] + SumUpTo(A(w), k)
    BY DEF Arrive, SumAt
  <2>3. \A w \in 1..N : SumUpTo(A(w), n + 1) = SumUpTo(A(w), n) + A(w)[n + 1]
    BY SumStep
  <2>4. \A w \in 1..N : A(w)[n + 1] = IF q[n + 1] = w THEN s[n + 1] ELSE 0
    BY <2>1
  <2>5. ASSUME NEW w \in 1..N PROVE SumUpTo(A(w), n) \in Nat
    <3>1. \A i \in 1..n : A(w)[i] \in Nat
      BY <2>1
    <3> HIDE DEF A
    <3> QED
      BY <3>1, SumNat
  <2>6. SumUpTo(H(n), N) = SumUpTo(f, N) + SumUpTo(s, n)
    BY <1>2, <2>1
  <2>7. SumUpTo(s, n + 1) = SumUpTo(s, n) + s[n + 1]
    BY SumStep
  <2>8. \A i \in 1..n : s[i] \in Nat
    BY <2>1
  <2>9. SumUpTo(s, n) \in Nat
    BY <2>8, SumNat
  <2> HIDE DEF A, H
  <2>10. \A w \in 1..N : H(n)[w] \in Int
    BY <2>2, <2>5
  <2>14. \A w \in 1..N : /\ H(n + 1)[w] = f[w] + SumUpTo(A(w), n + 1)
                          /\ H(n)[w] = f[w] + SumUpTo(A(w), n)
    <3>1. n + 1 \in Nat
      OBVIOUS
    <3> QED
      BY <2>2, <3>1, Zenon
  <2>11. \A w \in 1..N : w # q[n + 1] => H(n + 1)[w] = H(n)[w]
    <3> SUFFICES ASSUME NEW w \in 1..N, w # q[n + 1] PROVE H(n + 1)[w] = H(n)[w]
      OBVIOUS
    <3>1. SumUpTo(A(w), n + 1) = SumUpTo(A(w), n) + 0
      BY <2>3, <2>4
    <3>2. SumUpTo(A(w), n) \in Nat
      BY <2>5
    <3> QED
      BY <2>14, <3>1, <3>2
  <2>12. H(n + 1)[q[n + 1]] = H(n)[q[n + 1]] + s[n + 1]
    <3> DEFINE w == q[n + 1]
    <3>1. /\ H(n + 1)[w] = f[w] + SumUpTo(A(w), n + 1)
          /\ H(n)[w] = f[w] + SumUpTo(A(w), n)
          /\ SumUpTo(A(w), n + 1) = SumUpTo(A(w), n) + s[n + 1]
          /\ f[w] \in Nat /\ SumUpTo(A(w), n) \in Nat
      BY <2>1, <2>14, <2>3, <2>4, <2>5
    <3> DEFINE d == s[n + 1]
               a == SumUpTo(A(w), n)
               b == f[w]
               x == H(n + 1)[w]
               y == H(n)[w]
    <3>3. x = b + (a + d) /\ y = b + a
      BY <3>1
    <3>4. b \in Nat /\ a \in Nat /\ d \in Nat
      BY <2>1, <3>1
    <3> HIDE DEF w, d, a, b, x, y
    <3>2. x = y + d
      BY <3>3, <3>4
    <3> QED
      BY <3>2 DEF w, d, x, y
  <2>13. SumUpTo(H(n + 1), N) = SumUpTo(H(n), N) + s[n + 1]
    <3> DEFINE h == H(n)
               g == H(n + 1)
               w == q[n + 1]
               d == s[n + 1]
    <3>3. w \in 1..N /\ d \in Int
      BY <2>1
    <3>4. \A i \in 1..N : h[i] \in Int
      BY <2>10
    <3>5. \A i \in 1..N : i # w => g[i] = h[i]
      BY <2>11
    <3>6. g[w] = h[w] + d
      BY <2>12
    <3> HIDE DEF h, g, w, d
    <3>7. N \in Nat
      OBVIOUS
    <3>2. SumUpTo(g, N) = SumUpTo(h, N) + d
      BY ONLY <3>3, <3>4, <3>5, <3>6, <3>7, SumShift, ZenonT(60)
    <3> QED
      BY <3>2 DEF h, g, d
  <2> QED
    BY <1>0, <2>1, <2>6, <2>7, <2>9, <2>13
<1>3. Nat \subseteq P
  <2> HIDE DEF P
  <2> QED
    BY <1>1, <1>2, NatInductiveSet
<1> QED
  BY <1>3

\* m things are taken from the first of the numbers f on: what is taken of each.
Taken(f, m, i) ==
    LET before == SumUpTo(f, i - 1)
    IN  IF m <= before THEN 0 ELSE IF m - before < f[i] THEN m - before ELSE f[i]

TakenFrom(f, m, n) == [i \in 1..n |-> Taken(f, m, i)]

LEMMA SumTaken ==
    ASSUME NEW n \in Nat, NEW f \in [1..n -> Nat], NEW m \in Nat, m <= SumUpTo(f, n),
           NEW s, s = TakenFrom(f, m, n)
    PROVE  /\ s \in [1..n -> Nat] /\ \A i \in 1..n : s[i] <= f[i]
           /\ SumUpTo(s, n) = m
<1>0. s = [i \in 1..n |-> Taken(f, m, i)]
  BY DEF TakenFrom
<1>1. \A k \in Nat : k <= n => SumUpTo(f, k) \in Nat
  <2> SUFFICES ASSUME NEW k \in Nat, k <= n PROVE SumUpTo(f, k) \in Nat
    OBVIOUS
  <2>1. \A i \in 1..k : f[i] \in Nat
    OBVIOUS
  <2> QED
    BY <2>1, SumNat
<1>2. ASSUME NEW i \in 1..n PROVE Taken(f, m, i) \in Nat /\ Taken(f, m, i) <= f[i]
  <2>1. i - 1 \in Nat /\ i - 1 <= n /\ f[i] \in Nat
    OBVIOUS
  <2>2. SumUpTo(f, i - 1) \in Nat
    BY <1>1, <2>1
  <2> QED
    BY <2>1, <2>2 DEF Taken
<1> DEFINE P == {k \in Nat : k <= n =>
                    SumUpTo(s, k) = IF m <= SumUpTo(f, k) THEN m ELSE SumUpTo(f, k)}
<1>3. 0 \in P
  <2>1. SumUpTo(s, 0) = 0 /\ SumUpTo(f, 0) = 0
    BY SumStep
  <2> QED
    BY <2>1
<1>4. ASSUME NEW k \in Nat, k \in P PROVE k + 1 \in P
  <2> SUFFICES ASSUME k + 1 <= n
               PROVE SumUpTo(s, k + 1) = IF m <= SumUpTo(f, k + 1) THEN m ELSE SumUpTo(f, k + 1)
    OBVIOUS
  <2> DEFINE F == SumUpTo(f, k)
             G == SumUpTo(s, k)
  <2>1. SumUpTo(f, k + 1) = F + f[k + 1]
    BY SumStep
  <2>2. SumUpTo(s, k + 1) = G + s[k + 1]
    BY SumStep
  <2>3. k + 1 \in 1..n /\ k <= n /\ k + 1 - 1 = k
    OBVIOUS
  <2>4. F \in Nat /\ f[k + 1] \in Nat /\ G = IF m <= F THEN m ELSE F
    BY <1>1, <1>4, <2>3
  <2>5. s[k + 1] = IF m <= F THEN 0 ELSE IF m - F < f[k + 1] THEN m - F ELSE f[k + 1]
    BY <1>0, <2>3 DEF Taken
  <2> DEFINE x == f[k + 1]
  <2>6. /\ SumUpTo(f, k + 1) = F + x /\ x \in Nat /\ F \in Nat
        /\ SumUpTo(s, k + 1) = (IF m <= F THEN m ELSE F)
               + (IF m <= F THEN 0 ELSE IF m - F < x THEN m - F ELSE x)
    BY <2>1, <2>2, <2>4, <2>5
  <2> HIDE DEF F, G, x
  <2>7. CASE m <= F
    BY <2>6, <2>7
  <2>8. CASE ~(m <= F) /\ m - F < x
    BY <2>6, <2>8
  <2>9. CASE ~(m <= F) /\ ~(m - F < x)
    BY <2>6, <2>9
  <2> QED
    BY <2>7, <2>8, <2>9
<1>5. Nat \subseteq P
  <2> HIDE DEF P
  <2> QED
    BY <1>3, <1>4, NatInductiveSet
<1>6. SumUpTo(s, n) = m
  BY <1>1, <1>5
<1> QED
  BY <1>0, <1>2, <1>6

LEMMA SumTakes ==
    ASSUME NEW n \in Nat, NEW f \in [1..n -> Nat], NEW m \in Nat, m <= SumUpTo(f, n)
    PROVE  SumUpTo(TakenFrom(f, m, n), n) = m
  BY SumTaken

-----------------------------------------------------------------------------
(* Counting.                                                               *)

\* The places of e that hold something of S, and how many there are.
Places(e, S) == {i \in DOMAIN e : e[i] \in S}

LEMMA PlacesFinite ==
    ASSUME NEW T, NEW e \in Seq(T), NEW S
    PROVE  IsFiniteSet(Places(e, S)) /\ Cardinality(Places(e, S)) \in Nat
<1>1. Len(e) \in Nat /\ DOMAIN e = 1..Len(e)
  BY LenProperties
<1>2. IsFiniteSet(1..Len(e))
  BY <1>1, FS_Interval
<1>3. Places(e, S) \subseteq 1..Len(e)
  BY <1>1 DEF Places
<1>4. IsFiniteSet(Places(e, S))
  BY <1>2, <1>3, FS_Subset
<1> QED
  BY <1>4, FS_CardinalityType

LEMMA CountAppend ==
    ASSUME NEW T, NEW e \in Seq(T), NEW x \in T, NEW S
    PROVE  Cardinality(Places(Append(e, x), S))
               = Cardinality(Places(e, S)) + (IF x \in S THEN 1 ELSE 0)
<1> DEFINE d == Append(e, x)
           n == Len(e) + 1
<1>1. /\ \A i \in DOMAIN e : i \in DOMAIN d /\ d[i] = e[i]
      /\ n \in DOMAIN d /\ d[n] = x
      /\ \A i \in DOMAIN d : (i \in DOMAIN e /\ d[i] = e[i]) \/ (i = n /\ d[i] = x)
  BY AppendElement
<1>2. n \notin DOMAIN e
  BY LenProperties
<1> HIDE DEF d, n
<1>3. IsFiniteSet(Places(e, S)) /\ Cardinality(Places(e, S)) \in Nat
  BY PlacesFinite
<1>4. CASE x \in S
  <2>1. Places(d, S) = Places(e, S) \cup {n}
    BY <1>1, <1>4 DEF Places
  <2>2. n \notin Places(e, S)
    BY <1>2 DEF Places
  <2>3. Cardinality(Places(e, S) \cup {n}) = Cardinality(Places(e, S)) + 1
    BY <1>3, <2>2, FS_AddElement
  <2> QED
    BY <1>4, <2>1, <2>3 DEF d
<1>5. CASE x \notin S
  <2>1. Places(d, S) = Places(e, S)
    BY <1>1, <1>5 DEF Places
  <2> QED
    BY <1>3, <1>5, <2>1 DEF d
<1> QED
  BY <1>4, <1>5

LEMMA CountTail ==
    ASSUME NEW T, NEW e \in Seq(T), e # <<>>, NEW S
    PROVE  Cardinality(Places(e, S))
               = Cardinality(Places(Tail(e), S)) + (IF Head(e) \in S THEN 1 ELSE 0)
<1> DEFINE d == Tail(e)
           A == Places(e, S) \ {1}
           B == Places(d, S)
<1>1. /\ 1 \in DOMAIN e /\ Head(e) = e[1] /\ d \in Seq(T)
      /\ \A j \in DOMAIN d : j + 1 \in DOMAIN e /\ d[j] = e[j + 1]
  BY HeadTailSeq
<1>2. /\ DOMAIN d \subseteq Nat \ {0} /\ DOMAIN e \subseteq Nat \ {0}
      /\ \A i \in DOMAIN e : i # 1 => i - 1 \in DOMAIN d
  <2>1. Len(d) = Len(e) - 1 /\ Len(e) \in Nat
    BY LenProperties
  <2>2. DOMAIN d = 1..Len(d) /\ DOMAIN e = 1..Len(e)
    BY <1>1, LenProperties
  <2> QED
    BY <2>1, <2>2
<1>3. IsFiniteSet(B) /\ Cardinality(B) \in Nat
  BY <1>1, PlacesFinite
<1>4. IsFiniteSet(Places(e, S)) /\ Cardinality(Places(e, S)) \in Nat
  BY PlacesFinite
<1> HIDE DEF d
<1>5. \A i : i \in A <=> i \in DOMAIN e /\ i # 1 /\ i - 1 \in B
  BY <1>1, <1>2 DEF Places
<1>6. \A j : j \in B => j + 1 \in A /\ j \in Nat \ {0}
  BY <1>1, <1>2 DEF Places
<1>7. \A i : i \in A => i - 1 \in B /\ i \in Nat \ {0}
  BY <1>2, <1>5
<1>8. Cardinality(A) = Cardinality(B)
  <2> DEFINE f == [j \in B |-> j + 1]
  <2> HIDE DEF A, B
  <2>1. f \in [B -> A]
    BY <1>6
  <2>2. \A a, b \in B : f[a] = f[b] => a = b
    BY <1>6
  <2>3. \A a \in A : \E b \in B : f[b] = a
    <3> SUFFICES ASSUME NEW a \in A PROVE f[a - 1] = a /\ a - 1 \in B
      OBVIOUS
    <3> QED
      BY <1>7
  <2> HIDE DEF f
  <2>4. f \in Bijection(B, A)
    BY <2>1, <2>2, <2>3 DEF Bijection, Injection, Surjection, IsInjective
  <2>5. ExistsBijection(B, A)
    BY <2>4 DEF ExistsBijection
  <2> QED
    BY <1>3, <2>5, FS_Bijection
<1>9. Cardinality(A) = IF 1 \in Places(e, S) THEN Cardinality(Places(e, S)) - 1
                       ELSE Cardinality(Places(e, S))
  BY <1>4, FS_RemoveElement
<1>10. 1 \in Places(e, S) <=> Head(e) \in S
  BY <1>1 DEF Places
<1> HIDE DEF A, B
<1>11. Cardinality(B) + (IF Head(e) \in S THEN 1 ELSE 0) = Cardinality(Places(e, S))
  BY <1>3, <1>4, <1>8, <1>9, <1>10
<1> QED
  BY <1>11 DEF B, d

-----------------------------------------------------------------------------
(* The packets of a class, wherever they are.                              *)

LdstEvents == [kind : {"push", "ack", "update"}, id : Nat] \cup [kind : {"handle"}, class : Threads \X Types]

\* What InEvents and InNetwork count, in the events e, the requests and the
\* responses, for the segments sg.
Counts(x, sg, c) == x.kind \in {"ack", "update"} /\ Class(sg[x.id + 1]) = c

Weight(x, sg, c) == IF Counts(x, sg, c) THEN 1 ELSE 0

Counted(sg, c) == {x \in LdstEvents : Counts(x, sg, c)}

EventsIn(e, sg, c) == Cardinality({i \in DOMAIN e : Counts(e[i], sg, c)})

PacketsAt(req, resp, sg, c) ==
    [n \in 1..IdMod |-> IF n \in DOMAIN sg /\ Class(sg[n]) = c THEN req[n - 1] + resp[n - 1] ELSE 0]

NetworkIn(req, resp, sg, c) == SumUpTo(PacketsAt(req, resp, sg, c), IdMod)

\* The events d are the events e with x and without y.
Trades(d, e, x, y, sg) ==
    \A c : /\ EventsIn(d, sg, c) \in Nat /\ EventsIn(e, sg, c) \in Nat
           /\ EventsIn(d, sg, c) + Weight(y, sg, c) = EventsIn(e, sg, c) + Weight(x, sg, c)

\* The events d are the events e and x.
Gains(d, e, x, sg) == \A c : EventsIn(d, sg, c) = EventsIn(e, sg, c) + Weight(x, sg, c)

\* An event is about a segment there is.
Fits(x, sg) == x.kind # "handle" => x.id + 1 \in DOMAIN sg
EventsFit(e, sg) == e \in Seq(LdstEvents) /\ \A i \in DOMAIN e : Fits(e[i], sg)

\* A segment that is queued is of the class of the queue.
QueuesFit(q, sg) ==
    \A c \in Threads \X Types : \A i \in DOMAIN q[c] :
        q[c][i] + 1 \in DOMAIN sg /\ Class(sg[q[c][i] + 1]) = c

\* Packets are of segments there are.
NetworkFits(req, resp, sg) ==
    \A w \in WireIds : w + 1 \in DOMAIN sg \/ (req[w] = 0 /\ resp[w] = 0)

\* sg has become sh: there are more segments, or they have changed, but not their
\* classes.
SameClasses(sg, sh) == DOMAIN sg \subseteq DOMAIN sh /\ \A n \in DOMAIN sg : Class(sh[n]) = Class(sg[n])

SlotsInv ==
    /\ LdstTypeOK
    /\ EventsFit(ldstEvents, segments)
    /\ QueuesFit(queue, segments)
    /\ NetworkFits(requests, responses, segments)
    /\ SlotsConserved

LEMMA EventsKeep ==
    ASSUME NEW e, NEW sg, NEW sh, EventsFit(e, sg), SameClasses(sg, sh), NEW c
    PROVE  EventsFit(e, sh) /\ EventsIn(e, sh, c) = EventsIn(e, sg, c)
<1>1. \A i \in DOMAIN e : Fits(e[i], sg) /\ (e[i].kind = "handle" \/ e[i].id + 1 \in DOMAIN sg)
  BY DEF EventsFit, Fits
<1>2. \A i \in DOMAIN e : Fits(e[i], sh)
  BY <1>1 DEF Fits, SameClasses
<1>3. \A i \in DOMAIN e : Counts(e[i], sh, c) <=> Counts(e[i], sg, c)
  BY <1>1 DEF Counts, SameClasses
<1>4. {i \in DOMAIN e : Counts(e[i], sh, c)} = {i \in DOMAIN e : Counts(e[i], sg, c)}
  BY <1>3
<1> QED
  BY <1>2, <1>4 DEF EventsFit, EventsIn

\* The events that count for a class.
LEMMA EventsPlaces ==
    ASSUME NEW e \in Seq(LdstEvents), NEW sg, NEW c
    PROVE  EventsIn(e, sg, c) = Cardinality(Places(e, Counted(sg, c)))
<1>1. \A i \in DOMAIN e : e[i] \in LdstEvents
  BY SeqElement
<1>2. {i \in DOMAIN e : Counts(e[i], sg, c)} = Places(e, Counted(sg, c))
  BY <1>1 DEF Places, Counted
<1> QED
  BY <1>2 DEF EventsIn

LEMMA EventsNat ==
    ASSUME NEW e \in Seq(LdstEvents), NEW sg, NEW c
    PROVE  EventsIn(e, sg, c) \in Nat
<1> DEFINE S == Counted(sg, c)
<1>1. EventsIn(e, sg, c) = Cardinality(Places(e, S))
  BY EventsPlaces
<1> HIDE DEF S
<1> QED
  BY <1>1, PlacesFinite

\* One more event.
LEMMA EventsAppend ==
    ASSUME NEW e, NEW sg, EventsFit(e, sg), NEW x \in LdstEvents, Fits(x, sg), NEW d, d = Append(e, x)
    PROVE  /\ EventsFit(d, sg)
           /\ Gains(d, e, x, sg)
<1>1. e \in Seq(LdstEvents)
  BY DEF EventsFit
<1>2. /\ d \in Seq(LdstEvents)
      /\ \A i \in DOMAIN d : (i \in DOMAIN e /\ d[i] = e[i]) \/ (i = Len(e) + 1 /\ d[i] = x)
  BY <1>1, AppendElement
<1>3. EventsFit(d, sg)
  BY <1>2 DEF EventsFit
<1>4. ASSUME NEW c
      PROVE  EventsIn(d, sg, c) = EventsIn(e, sg, c) + Weight(x, sg, c)
  <2> DEFINE S == Counted(sg, c)
  <2>1. x \in S <=> Counts(x, sg, c)
    BY DEF Counted
  <2>4. d \in Seq(LdstEvents)
    BY <1>2
  <2>2. EventsIn(d, sg, c) = Cardinality(Places(d, S)) /\ EventsIn(e, sg, c) = Cardinality(Places(e, S))
    BY <1>1, <2>4, EventsPlaces
  <2> HIDE DEF S
  <2>3. Cardinality(Places(d, S)) = Cardinality(Places(e, S)) + (IF x \in S THEN 1 ELSE 0)
    BY <1>1, CountAppend
  <2> QED
    BY <2>1, <2>2, <2>3 DEF Weight
<1> QED
  BY <1>3, <1>4 DEF Gains

\* The first event is taken.
LEMMA EventsTail ==
    ASSUME NEW e, NEW sg, EventsFit(e, sg), e # <<>>, NEW d, d = Tail(e), NEW x, x = Head(e)
    PROVE  /\ EventsFit(d, sg) /\ x \in LdstEvents /\ Fits(x, sg)
           /\ Gains(e, d, x, sg)
<1>1. e \in Seq(LdstEvents)
  BY DEF EventsFit
<1>2. /\ d \in Seq(LdstEvents) /\ x \in LdstEvents
      /\ 1 \in DOMAIN e /\ x = e[1]
      /\ \A i \in DOMAIN d : i + 1 \in DOMAIN e /\ d[i] = e[i + 1]
  BY <1>1, HeadTailSeq
<1>3. EventsFit(d, sg) /\ Fits(x, sg)
  BY <1>2 DEF EventsFit
<1>4. ASSUME NEW c
      PROVE  EventsIn(e, sg, c) = EventsIn(d, sg, c) + Weight(x, sg, c)
  <2> DEFINE S == Counted(sg, c)
  <2>1. x \in S <=> Counts(x, sg, c)
    BY <1>2 DEF Counted
  <2>4. d \in Seq(LdstEvents)
    BY <1>2
  <2>2. EventsIn(d, sg, c) = Cardinality(Places(d, S)) /\ EventsIn(e, sg, c) = Cardinality(Places(e, S))
    BY <1>1, <2>4, EventsPlaces
  <2> HIDE DEF S
  <2>3. Cardinality(Places(e, S)) = Cardinality(Places(d, S)) + (IF x \in S THEN 1 ELSE 0)
    BY <1>1, CountTail
  <2> QED
    BY <2>1, <2>2, <2>3 DEF Weight
<1> QED
  BY <1>2, <1>3, <1>4 DEF Gains

\* The first event is run, and asks for x.
LEMMA EventsTailAppend ==
    ASSUME NEW e, NEW sg, EventsFit(e, sg), e # <<>>, NEW x \in LdstEvents, Fits(x, sg),
           NEW d, d = Append(Tail(e), x)
    PROVE  /\ EventsFit(d, sg)
           /\ Head(e) \in LdstEvents /\ Fits(Head(e), sg)
           /\ Trades(d, e, x, Head(e), sg)
<1> DEFINE b == Tail(e)
           h == Head(e)
<1>0. b = Tail(e) /\ h = Head(e) /\ d = Append(b, x)
  OBVIOUS
<1> HIDE DEF b, h
<1>1. EventsFit(b, sg) /\ h \in LdstEvents /\ Fits(h, sg)
  BY <1>0, EventsTail
<1>2. Gains(e, b, h, sg)
  BY <1>0, EventsTail
<1>3. EventsFit(d, sg)
  BY <1>0, <1>1, EventsAppend
<1>6. Gains(d, b, x, sg)
  BY <1>0, <1>1, EventsAppend
<1>4. \A c : EventsIn(d, sg, c) \in Nat /\ EventsIn(e, sg, c) \in Nat /\ EventsIn(b, sg, c) \in Nat
  BY <1>1, <1>3, EventsNat DEF EventsFit
<1>5. ASSUME NEW c
      PROVE  EventsIn(d, sg, c) + Weight(h, sg, c)
                 = EventsIn(e, sg, c) + Weight(x, sg, c)
  <2> DEFINE nd == EventsIn(d, sg, c)
             ne == EventsIn(e, sg, c)
             nb == EventsIn(b, sg, c)
             m == Weight(h, sg, c)
             n == Weight(x, sg, c)
  <2>1. nd = nb + n /\ ne = nb + m /\ nb \in Nat /\ m \in Nat /\ n \in Nat
    BY <1>2, <1>4, <1>6 DEF Gains, Weight
  <2> HIDE DEF nd, ne, nb, m, n
  <2>2. nd + m = ne + n
    BY <2>1
  <2> QED
    BY <2>2 DEF nd, ne, m, n
<1> QED
  BY <1>1, <1>3, <1>4, <1>5 DEF Trades, h

\* Segments that change keep their packets, and new ones have none.
LEMMA NetworkKeeps ==
    ASSUME NEW req, NEW resp, NEW sg, NEW sh,
           NetworkFits(req, resp, sg), SameClasses(sg, sh), NEW c
    PROVE  /\ NetworkFits(req, resp, sh)
           /\ NetworkIn(req, resp, sh, c) = NetworkIn(req, resp, sg, c)
<1> DEFINE f == PacketsAt(req, resp, sg, c)
           g == PacketsAt(req, resp, sh, c)
<1>1. IdMod \in Nat \ {0}
  BY LdstAssumption
<1>2. NetworkFits(req, resp, sh)
  BY DEF NetworkFits, SameClasses
<1>3. ASSUME NEW n \in 1..IdMod PROVE f[n] = g[n]
  <2>1. n - 1 \in WireIds /\ n - 1 + 1 = n
    BY <1>1 DEF WireIds
  <2>2. CASE n \in DOMAIN sg
    <3>1. n \in DOMAIN sh /\ Class(sh[n]) = Class(sg[n])
      BY <2>2 DEF SameClasses
    <3> QED
      BY <2>2, <3>1 DEF PacketsAt
  <2>3. CASE n \notin DOMAIN sg
    <3>1. req[n - 1] = 0 /\ resp[n - 1] = 0
      BY <2>1, <2>3 DEF NetworkFits
    <3> QED
      BY <2>3, <3>1 DEF PacketsAt
  <2> QED
    BY <2>2, <2>3
<1>4. SumUpTo(f, IdMod) = SumUpTo(g, IdMod)
  <2> HIDE DEF f, g
  <2> QED
    BY <1>1, <1>3, SumAgree
<1> QED
  BY <1>2, <1>4 DEF NetworkIn

LEMMA NetworkNat ==
    ASSUME NEW req \in [WireIds -> Nat], NEW resp \in [WireIds -> Nat], NEW sg, NEW c
    PROVE  /\ NetworkIn(req, resp, sg, c) \in Nat
           /\ \A n \in 1..IdMod : PacketsAt(req, resp, sg, c)[n] \in Nat
<1> DEFINE f == PacketsAt(req, resp, sg, c)
<1>1. IdMod \in Nat \ {0}
  BY LdstAssumption
<1>2. ASSUME NEW n \in 1..IdMod PROVE f[n] \in Nat
  <2>1. n - 1 \in WireIds
    BY <1>1 DEF WireIds
  <2> QED
    BY <2>1 DEF PacketsAt
<1> HIDE DEF f
<1>3. SumUpTo(f, IdMod) \in Nat
  BY <1>1, <1>2, SumNat
<1> QED
  BY <1>2, <1>3 DEF NetworkIn, f

-----------------------------------------------------------------------------
(* Steps.                                                                  *)

\* The slots of class c, free or held.
SlotsOf(out, req, resp, e, sg, c) == out[c] + NetworkIn(req, resp, sg, c) + EventsIn(e, sg, c)

LEMMA SlotsAre ==
    SlotsConserved <=>
        \A c \in Threads \X Types :
            SlotsOf(outstanding, requests, responses, ldstEvents, segments, c) = Outstanding[c[2]]
  BY DEF SlotsConserved, SlotsOf, InNetwork, NetworkIn, PacketsAt, InEvents, EventsIn, Counts

LEMMA SlotsAreNext ==
    SlotsConserved' <=>
        \A c \in Threads \X Types :
            SlotsOf(outstanding', requests', responses', ldstEvents', segments', c) = Outstanding[c[2]]
  BY DEF SlotsConserved, SlotsOf, InNetwork, NetworkIn, PacketsAt, InEvents, EventsIn, Counts

\* A step keeps the slots of every class if what it adds in one place it takes
\* from another.
SameSlots ==
    \A c \in Threads \X Types :
        SlotsOf(outstanding', requests', responses', ldstEvents', segments', c)
            = SlotsOf(outstanding, requests, responses, ldstEvents, segments, c)

LEMMA SlotsStep ==
    ASSUME SlotsInv, LdstTypeOK', EventsFit(ldstEvents', segments'), QueuesFit(queue', segments'),
           NetworkFits(requests', responses', segments'), SameSlots
    PROVE  SlotsInv'
<1>1. SlotsConserved
  BY DEF SlotsInv
<1>2. SlotsConserved'
  BY <1>1, SlotsAre, SlotsAreNext DEF SameSlots
<1> QED
  BY <1>2 DEF SlotsInv

\* Segments as they are in the state.
LEMMA SegmentParts ==
    ASSUME LdstTypeOK
    PROVE  /\ segments \in Seq(TaskSegment) /\ DOMAIN segments = 1..Len(segments) /\ Len(segments) \in Nat
           /\ \A n \in DOMAIN segments :
                  /\ segments[n] \in TaskSegment
                  /\ Class(segments[n]) \in Threads \X Types
                  /\ segments[n].left \in Nat /\ segments[n].psnCnt \in Nat /\ segments[n].waiting \in Int
<1>1. segments \in Seq(TaskSegment)
  BY DEF LdstTypeOK
<1>2. \A n \in DOMAIN segments : segments[n] \in TaskSegment
  BY <1>1, SeqElement
<1>3. \A s \in TaskSegment : /\ Class(s) \in Threads \X Types
                             /\ s.left \in Nat /\ s.psnCnt \in Nat /\ s.waiting \in Int
  BY DEF TaskSegment, Class
<1> QED
  BY <1>1, <1>2, <1>3, LenProperties

\* One segment changes, and stays of its class.
LEMMA SegmentChanges ==
    ASSUME LdstTypeOK, NEW n \in DOMAIN segments, NEW v \in Int, NEW sh,
           sh = [segments EXCEPT ![n].waiting = v]
    PROVE  sh \in Seq(TaskSegment) /\ SameClasses(segments, sh)
<1>1. /\ segments \in Seq(TaskSegment) /\ DOMAIN segments = 1..Len(segments) /\ Len(segments) \in Nat
      /\ \A k \in DOMAIN segments : segments[k] \in TaskSegment
  BY SegmentParts
<1> DEFINE s == segments[n]
           r == [s EXCEPT !.waiting = v]
<1>2. s \in TaskSegment
  BY <1>1
<1>3. r \in TaskSegment /\ Class(r) = Class(s)
  <2> HIDE DEF s
  <2> QED
    BY <1>2 DEF TaskSegment, Class
<1>4. sh = [segments EXCEPT ![n] = r]
  OBVIOUS
<1> HIDE DEF r
<1>5. /\ DOMAIN sh = DOMAIN segments
      /\ \A k \in DOMAIN segments : sh[k] = IF k = n THEN r ELSE segments[k]
      /\ sh = [k \in 1..Len(segments) |-> IF k = n THEN r ELSE segments[k]]
  BY <1>1, <1>4
<1>6. sh \in Seq(TaskSegment)
  BY <1>1, <1>3, <1>5
<1>7. \A k \in DOMAIN segments : Class(sh[k]) = Class(segments[k])
  BY <1>3, <1>5
<1> QED
  BY <1>5, <1>6, <1>7 DEF SameClasses

\* Queues as they are, for segments that keep their classes.
LEMMA QueuesKeep ==
    ASSUME NEW q, NEW sg, NEW sh, QueuesFit(q, sg), SameClasses(sg, sh)
    PROVE  QueuesFit(q, sh)
  BY DEF QueuesFit, SameClasses

LEMMA LdstInitial == LdstInit => SlotsInv
<1> SUFFICES ASSUME LdstInit PROVE SlotsInv
  OBVIOUS
<1>1. Outstanding \in [Types -> Nat] /\ IdMod \in Nat \ {0}
  BY LdstAssumption
<1>2. /\ segments = <<>> /\ ldstEvents = <<>> /\ completedNum = [k \in MemTasks |-> 0]
      /\ queue = [c \in Threads \X Types |-> <<>>]
      /\ outstanding = [c \in Threads \X Types |-> Outstanding[c[2]]]
      /\ requests = [w \in WireIds |-> 0] /\ responses = [w \in WireIds |-> 0]
  BY DEF LdstInit
<1>3. \A c \in Threads \X Types : c[2] \in Types /\ Outstanding[c[2]] \in Nat
  BY <1>1
<1>4. LdstTypeOK
  <2>1. segments \in Seq(TaskSegment)
    BY <1>2
  <2>2. outstanding \in [Threads \X Types -> Nat]
    BY <1>2, <1>3
  <2>3. queue \in [Threads \X Types -> Seq(Nat)]
    BY <1>2
  <2>4. completedNum \in [MemTasks -> Nat] /\ requests \in [WireIds -> Nat] /\ responses \in [WireIds -> Nat]
    BY <1>2
  <2> QED
    BY <2>1, <2>2, <2>3, <2>4 DEF LdstTypeOK
<1>5. EventsFit(ldstEvents, segments)
  BY <1>2 DEF EventsFit
<1>6. QueuesFit(queue, segments)
  BY <1>2 DEF QueuesFit
<1>7. NetworkFits(requests, responses, segments)
  BY <1>2 DEF NetworkFits
<1>8. ASSUME NEW c \in Threads \X Types
      PROVE  SlotsOf(outstanding, requests, responses, ldstEvents, segments, c) = Outstanding[c[2]]
  <2>1. EventsIn(ldstEvents, segments, c) = 0
    <3>1. {i \in DOMAIN ldstEvents : Counts(ldstEvents[i], segments, c)} = {}
      BY <1>2
    <3> QED
      BY <3>1, FS_EmptySet DEF EventsIn
  <2>2. NetworkIn(requests, responses, segments, c) = 0
    <3> DEFINE f == PacketsAt(requests, responses, segments, c)
    <3>1. \A n \in 1..IdMod : f[n] = 0
      BY <1>2 DEF PacketsAt
    <3> HIDE DEF f
    <3>2. SumUpTo(f, IdMod) = 0
      BY <1>1, <3>1, SumZero
    <3> QED
      BY <3>2 DEF NetworkIn, f
  <2>3. outstanding[c] = Outstanding[c[2]] /\ Outstanding[c[2]] \in Nat
    BY <1>2, <1>3
  <2> QED
    BY <2>1, <2>2, <2>3 DEF SlotsOf
<1>9. SlotsConserved
  BY <1>8, SlotsAre
<1> QED
  BY <1>4, <1>5, <1>6, <1>7, <1>9 DEF SlotsInv

\* UbLdstInstance::OnRecvAck: a response goes from one event to the next.
LEMMA OnRecvAckKeeps ==
    ASSUME SlotsInv, OnRecvAck
    PROVE  SlotsInv'
<1> DEFINE id == Head(ldstEvents).id
           x == [kind |-> "update", id |-> id]
           y == Head(ldstEvents)
<1>1. /\ LdstTypeOK /\ EventsFit(ldstEvents, segments) /\ QueuesFit(queue, segments)
      /\ NetworkFits(requests, responses, segments)
  BY DEF SlotsInv
<1>2. /\ ldstEvents # <<>> /\ y.kind = "ack" /\ ldstEvents' = Append(Tail(ldstEvents), x)
      /\ UNCHANGED <<segments, completedNum, queue, outstanding, requests, responses>>
  BY DEF OnRecvAck, LdstEvent
<1>3. y \in LdstEvents /\ Fits(y, segments)
  BY <1>1, <1>2, EventsTail
<1>4. y.id \in Nat /\ y.id + 1 \in DOMAIN segments
  BY <1>2, <1>3 DEF LdstEvents, Fits
<1>5. /\ x \in LdstEvents /\ Fits(x, segments)
      /\ \A c : Weight(x, segments, c) = Weight(y, segments, c)
  BY <1>2, <1>4 DEF LdstEvents, Fits, Weight, Counts
<1> HIDE DEF x, y
<1>6. EventsFit(ldstEvents', segments) /\ Trades(ldstEvents', ldstEvents, x, y, segments)
  BY <1>1, <1>2, <1>5, EventsTailAppend DEF y
<1>7. \A c : EventsIn(ldstEvents', segments, c) = EventsIn(ldstEvents, segments, c)
  <2> SUFFICES ASSUME NEW c PROVE EventsIn(ldstEvents', segments, c) = EventsIn(ldstEvents, segments, c)
    OBVIOUS
  <2>1. /\ EventsIn(ldstEvents', segments, c) \in Nat /\ EventsIn(ldstEvents, segments, c) \in Nat
        /\ EventsIn(ldstEvents', segments, c) + Weight(y, segments, c)
               = EventsIn(ldstEvents, segments, c) + Weight(x, segments, c)
    BY <1>6 DEF Trades
  <2>2. Weight(x, segments, c) = Weight(y, segments, c) /\ Weight(x, segments, c) \in Nat
    BY <1>5 DEF Weight
  <2> QED
    BY <2>1, <2>2
<1>8. SameSlots
  BY <1>2, <1>7 DEF SameSlots, SlotsOf
<1>9. LdstTypeOK'
  BY <1>1, <1>2 DEF LdstTypeOK
<1> QED
  BY <1>1, <1>2, <1>6, <1>8, <1>9, SlotsStep

\* Events are of segments, so that segments that keep their classes keep the count.
LEMMA TradesKeep ==
    ASSUME NEW d, NEW e, NEW x, NEW y, NEW sg, NEW sh, Trades(d, e, x, y, sg), NEW m \in Nat, NEW n \in Nat,
           NEW c, Weight(x, sg, c) = m, Weight(y, sg, c) = n,
           EventsFit(d, sg), SameClasses(sg, sh)
    PROVE  /\ EventsIn(d, sh, c) \in Nat /\ EventsIn(e, sg, c) \in Nat
           /\ EventsIn(d, sh, c) + n = EventsIn(e, sg, c) + m
<1>1. EventsIn(d, sh, c) = EventsIn(d, sg, c)
  BY EventsKeep
<1> QED
  BY <1>1 DEF Trades

\* UbLdstThread::PushTaskSegment: a segment enters the queue of its class.
LEMMA PushTaskSegmentKeeps ==
    ASSUME SlotsInv, PushTaskSegment
    PROVE  SlotsInv'
<1> DEFINE y == Head(ldstEvents)
           id == y.id
           s == segments[id + 1]
           c == Class(s)
           x == [kind |-> "handle", class |-> c]
<1>1. /\ LdstTypeOK /\ EventsFit(ldstEvents, segments) /\ QueuesFit(queue, segments)
      /\ NetworkFits(requests, responses, segments)
  BY DEF SlotsInv
<1>2. /\ ldstEvents # <<>> /\ y.kind = "push"
      /\ segments' = [segments EXCEPT ![id + 1].waiting = s.psnCnt]
      /\ queue' = [queue EXCEPT ![c] = Append(@, id)]
      /\ ldstEvents' = Tail(ldstEvents) \o <<x>>
      /\ UNCHANGED <<completedNum, outstanding, requests, responses>>
  BY DEF PushTaskSegment, LdstEvent, Handle
<1>3. y \in LdstEvents /\ Fits(y, segments) /\ Tail(ldstEvents) \in Seq(LdstEvents)
  BY <1>1, <1>2, EventsTail DEF EventsFit
<1>4. id \in Nat /\ id + 1 \in DOMAIN segments
  BY <1>2, <1>3 DEF LdstEvents, Fits
<1>5. c \in Threads \X Types /\ s.psnCnt \in Int
  BY <1>1, <1>4, SegmentParts
<1>6. segments' \in Seq(TaskSegment) /\ SameClasses(segments, segments')
  <2> HIDE DEF y
  <2>1. \E n \in DOMAIN segments : n = id + 1
    BY <1>4
  <2> HIDE DEF id
  <2>2. segments' = [segments EXCEPT ![id + 1].waiting = s.psnCnt]
    BY <1>2
  <2> HIDE DEF s
  <2> QED
    BY <1>1, <1>5, <2>1, <2>2, SegmentChanges
<1>7. x \in LdstEvents /\ Fits(x, segments)
      /\ \A b : Weight(x, segments, b) = 0 /\ Weight(y, segments, b) = 0
  BY <1>2, <1>5 DEF LdstEvents, Fits, Weight, Counts
<1> HIDE DEF x
<1>8. ldstEvents' = Append(Tail(ldstEvents), x)
  BY <1>2, <1>3, <1>7, ConcatOne
<1> HIDE DEF y
<1>9. EventsFit(ldstEvents', segments) /\ Trades(ldstEvents', ldstEvents, x, y, segments)
  BY <1>1, <1>2, <1>7, <1>8, EventsTailAppend DEF y
<1>10. EventsFit(ldstEvents', segments')
  BY <1>6, <1>9, EventsKeep
<1> HIDE DEF id, s, c
<1>11. NetworkFits(requests', responses', segments')
  BY <1>1, <1>2, <1>6, NetworkKeeps
<1>12. SameSlots
  <2> SUFFICES ASSUME NEW b \in Threads \X Types
               PROVE  SlotsOf(outstanding', requests', responses', ldstEvents', segments', b)
                          = SlotsOf(outstanding, requests, responses, ldstEvents, segments, b)
    BY DEF SameSlots
  <2>1. NetworkIn(requests', responses', segments', b) = NetworkIn(requests, responses, segments, b)
    <3>1. NetworkIn(requests, responses, segments', b) = NetworkIn(requests, responses, segments, b)
      BY <1>1, <1>6, NetworkKeeps
    <3>2. requests' = requests /\ responses' = responses
      BY <1>2
    <3> QED
      BY <3>1, <3>2
  <2>2. /\ EventsIn(ldstEvents', segments', b) \in Nat /\ EventsIn(ldstEvents, segments, b) \in Nat
        /\ EventsIn(ldstEvents', segments', b) + 0 = EventsIn(ldstEvents, segments, b) + 0
    BY <1>6, <1>7, <1>9, TradesKeep
  <2>3. EventsIn(ldstEvents', segments', b) = EventsIn(ldstEvents, segments, b)
    BY <2>2
  <2> QED
    BY <1>2, <2>1, <2>3 DEF SlotsOf
<1>13. queue' \in [Threads \X Types -> Seq(Nat)]
       /\ \A b \in Threads \X Types : queue'[b] = IF b = c THEN Append(queue[c], id) ELSE queue[b]
  <2>1. queue \in [Threads \X Types -> Seq(Nat)]
    BY <1>1 DEF LdstTypeOK
  <2> QED
    BY <1>2, <1>4, <1>5, <2>1, AppendProperties
<1>14. LdstTypeOK'
  BY <1>1, <1>2, <1>6, <1>13 DEF LdstTypeOK
<1>15. QueuesFit(queue', segments)
  <2> SUFFICES ASSUME NEW b \in Threads \X Types, NEW i \in DOMAIN queue'[b]
               PROVE  queue'[b][i] + 1 \in DOMAIN segments /\ Class(segments[queue'[b][i] + 1]) = b
    BY DEF QueuesFit
  <2>1. CASE b = c
    <3>1. queue[c] \in Seq(Nat) /\ queue'[c] = Append(queue[c], id)
      BY <1>1, <1>5, <1>13 DEF LdstTypeOK
    <3>2. queue'[c][i] = id \/ \E k \in DOMAIN queue[c] : queue'[c][i] = queue[c][k]
      BY <1>4, <2>1, <3>1, AppendElements
    <3>3. CASE queue'[c][i] = id
      BY <1>4, <2>1, <3>3 DEF c, s
    <3>4. CASE \E k \in DOMAIN queue[c] : queue'[c][i] = queue[c][k]
      BY <1>1, <1>5, <2>1, <3>4 DEF QueuesFit
    <3> QED
      BY <3>2, <3>3, <3>4
  <2>2. CASE b # c
    BY <1>1, <1>13, <2>2 DEF QueuesFit
  <2> QED
    BY <2>1, <2>2
<1>16. QueuesFit(queue', segments')
  BY <1>6, <1>15, QueuesKeep
<1> QED
  BY <1>10, <1>11, <1>12, <1>14, <1>16, SlotsStep

\* UbLdstApi::RecvDataPacket: a request becomes a response.
LEMMA RecvDataPacketKeeps ==
    ASSUME SlotsInv, NEW w \in WireIds, RecvDataPacket(w)
    PROVE  SlotsInv'
<1>1. /\ LdstTypeOK /\ EventsFit(ldstEvents, segments) /\ QueuesFit(queue, segments)
      /\ NetworkFits(requests, responses, segments)
  BY DEF SlotsInv
<1>2. requests \in [WireIds -> Nat] /\ responses \in [WireIds -> Nat] /\ IdMod \in Nat \ {0}
  BY <1>1, LdstAssumption DEF LdstTypeOK
<1>3. /\ requests[w] > 0
      /\ requests' = [requests EXCEPT ![w] = @ - 1] /\ responses' = [responses EXCEPT ![w] = @ + 1]
      /\ UNCHANGED <<segments, completedNum, queue, outstanding, ldstEvents>>
  BY DEF RecvDataPacket
<1>4. /\ requests' \in [WireIds -> Nat] /\ responses' \in [WireIds -> Nat]
      /\ \A v \in WireIds : requests'[v] + responses'[v] = requests[v] + responses[v]
      /\ \A v \in WireIds : v # w => requests'[v] = requests[v] /\ responses'[v] = responses[v]
  BY <1>2, <1>3
<1>5. NetworkFits(requests', responses', segments')
  <2>1. w + 1 \in DOMAIN segments
    BY <1>1, <1>2, <1>3 DEF NetworkFits
  <2> QED
    BY <1>1, <1>3, <1>4, <2>1 DEF NetworkFits
<1>6. ASSUME NEW c
      PROVE  NetworkIn(requests', responses', segments, c) = NetworkIn(requests, responses, segments, c)
  <2> DEFINE f == PacketsAt(requests, responses, segments, c)
             g == PacketsAt(requests', responses', segments, c)
  <2>1. \A n \in 1..IdMod : n - 1 \in WireIds
    BY <1>2 DEF WireIds
  <2>2. \A n \in 1..IdMod : g[n] = f[n]
    BY <1>4, <2>1 DEF PacketsAt
  <2> HIDE DEF f, g
  <2>3. SumUpTo(g, IdMod) = SumUpTo(f, IdMod)
    BY <1>2, <2>2, SumAgree
  <2> QED
    BY <2>3 DEF NetworkIn, f, g
<1>7. SameSlots
  BY <1>3, <1>6 DEF SameSlots, SlotsOf
<1>8. LdstTypeOK'
  BY <1>1, <1>3, <1>4 DEF LdstTypeOK
<1> QED
  BY <1>1, <1>3, <1>5, <1>7, <1>8, SlotsStep

\* UbLdstApi::RecvResponse: a response leaves the network and waits to be counted.
LEMMA RecvResponseKeeps ==
    ASSUME SlotsInv, NEW w \in WireIds, RecvResponse(w)
    PROVE  SlotsInv'
<1> DEFINE x == [kind |-> "ack", id |-> w]
<1>1. /\ LdstTypeOK /\ EventsFit(ldstEvents, segments) /\ QueuesFit(queue, segments)
      /\ NetworkFits(requests, responses, segments)
  BY DEF SlotsInv
<1>2. requests \in [WireIds -> Nat] /\ responses \in [WireIds -> Nat] /\ IdMod \in Nat \ {0} /\ w \in Nat
  BY <1>1, LdstAssumption, SMTT(30) DEF LdstTypeOK, WireIds
<1>3. /\ responses[w] > 0
      /\ responses' = [responses EXCEPT ![w] = @ - 1]
      /\ ldstEvents' = Append(ldstEvents, x)
      /\ UNCHANGED <<segments, completedNum, queue, outstanding, requests>>
  BY DEF RecvResponse
<1>4. /\ responses' \in [WireIds -> Nat] /\ responses'[w] = responses[w] - 1
      /\ \A v \in WireIds : v # w => responses'[v] = responses[v]
  BY <1>2, <1>3
<1>5. w + 1 \in DOMAIN segments
  BY <1>1, <1>2, <1>3 DEF NetworkFits
<1>6. NetworkFits(requests', responses', segments')
  BY <1>1, <1>3, <1>4, <1>5 DEF NetworkFits
<1>7. /\ x \in LdstEvents /\ Fits(x, segments)
      /\ \A c : Weight(x, segments, c) = IF Class(segments[w + 1]) = c THEN 1 ELSE 0
  BY <1>2, <1>5 DEF LdstEvents, Fits, Weight, Counts
<1> HIDE DEF x
<1>8. EventsFit(ldstEvents', segments') /\ Gains(ldstEvents', ldstEvents, x, segments)
  BY <1>1, <1>3, <1>7, EventsAppend
<1>9. ASSUME NEW c
      PROVE  /\ NetworkIn(requests, responses, segments, c) \in Nat
             /\ NetworkIn(requests', responses', segments, c) + Weight(x, segments, c)
                    = NetworkIn(requests, responses, segments, c)
             /\ NetworkIn(requests', responses', segments, c) \in Nat
  <2> DEFINE f == PacketsAt(requests, responses, segments, c)
             g == PacketsAt(requests', responses', segments, c)
             d == 0 - Weight(x, segments, c)
  <2>9. \A n \in 1..IdMod : n - 1 \in WireIds
    BY <1>2 DEF WireIds
  <2>10. \A n \in 1..IdMod : f[n] \in Nat
    BY <1>2, NetworkNat
  <2>1. \A n \in 1..IdMod : n - 1 \in WireIds /\ f[n] \in Int
    BY <2>9, <2>10
  <2>2. NetworkIn(requests, responses, segments, c) \in Nat /\ NetworkIn(requests', responses', segments, c) \in Nat
    BY <1>2, <1>3, <1>4, NetworkNat
  <2>3. w + 1 \in 1..IdMod /\ w + 1 - 1 = w /\ d \in Int
    BY <1>2, <1>7 DEF WireIds
  <2>4. \A n \in 1..IdMod : n # w + 1 => g[n] = f[n]
    <3> SUFFICES ASSUME NEW n \in 1..IdMod, n # w + 1 PROVE g[n] = f[n]
      OBVIOUS
    <3>1. n - 1 \in WireIds /\ n - 1 # w
      BY <1>2, <2>1
    <3>2. responses'[n - 1] = responses[n - 1] /\ requests'[n - 1] = requests[n - 1]
      BY <1>3, <1>4, <3>1
    <3> QED
      BY <3>2 DEF PacketsAt
  <2>5. g[w + 1] = f[w + 1] + d
    <3>1. requests[w] \in Nat /\ responses[w] \in Nat /\ responses'[w] = responses[w] - 1 /\ requests'[w] = requests[w]
      BY <1>2, <1>3, <1>4
    <3>4. \A n \in 1..IdMod : n \in DOMAIN segments =>
              /\ f[n] = IF Class(segments[n]) = c THEN requests[n - 1] + responses[n - 1] ELSE 0
              /\ g[n] = IF Class(segments[n]) = c THEN requests'[n - 1] + responses'[n - 1] ELSE 0
      BY DEF PacketsAt
    <3> DEFINE v == w + 1
    <3>5. v \in 1..IdMod /\ v \in DOMAIN segments /\ v - 1 = w
      BY <1>2, <1>5, <2>3
    <3> HIDE DEF f, g, v
    <3>2. f[v] = IF Class(segments[v]) = c THEN requests[w] + responses[w] ELSE 0
      BY <3>4, <3>5
    <3>3. g[v] = IF Class(segments[v]) = c THEN requests'[w] + responses'[w] ELSE 0
      BY <3>4, <3>5
    <3>6. Weight(x, segments, c) = IF Class(segments[v]) = c THEN 1 ELSE 0
      BY <1>7 DEF v
    <3>7. g[v] = f[v] + d
      BY <3>1, <3>2, <3>3, <3>6
    <3> QED
      BY <3>7 DEF v
  <2> HIDE DEF f, g, d
  <2>6. SumUpTo(g, IdMod) = SumUpTo(f, IdMod) + d
    <3> DEFINE v == w + 1
    <3>1. v \in 1..IdMod /\ g[v] = f[v] + d /\ \A n \in 1..IdMod : n # v => g[n] = f[n]
      BY <2>3, <2>4, <2>5
    <3> HIDE DEF v
    <3> QED
      BY <1>2, <2>1, <2>3, <3>1, SumShift
  <2>7. NetworkIn(requests', responses', segments, c) = NetworkIn(requests, responses, segments, c) + d
    BY <2>6 DEF NetworkIn, f, g
  <2>8. Weight(x, segments, c) \in Nat
    BY <1>7
  <2> QED
    BY <2>2, <2>7, <2>8 DEF d
<1>10. SameSlots
  <2> SUFFICES ASSUME NEW c \in Threads \X Types
               PROVE  SlotsOf(outstanding', requests', responses', ldstEvents', segments', c)
                          = SlotsOf(outstanding, requests, responses, ldstEvents, segments, c)
    BY DEF SameSlots
  <2> DEFINE o == outstanding[c]
             n == NetworkIn(requests, responses, segments, c)
             m == NetworkIn(requests', responses', segments, c)
             k == Weight(x, segments, c)
             e == EventsIn(ldstEvents, segments, c)
             b == EventsIn(ldstEvents', segments, c)
  <2>1. n \in Nat /\ m \in Nat /\ m + k = n /\ k \in Nat
    BY <1>7, <1>9
  <2>2. b = e + k
    BY <1>8 DEF Gains
  <2>3. e \in Nat /\ o \in Nat
    BY <1>1, EventsNat DEF EventsFit, LdstTypeOK
  <2> HIDE DEF o, n, m, k, e, b
  <2>4. o + m + b = o + n + e
    BY <2>1, <2>2, <2>3
  <2> QED
    BY <1>3, <2>4 DEF SlotsOf, o, n, m, k, e, b
<1>11. LdstTypeOK'
  BY <1>1, <1>3, <1>4 DEF LdstTypeOK
<1> QED
  BY <1>1, <1>3, <1>6, <1>8, <1>10, <1>11, SlotsStep

\* UbLdstThread::UpdateTask: a response is counted and its slot is free again.
LEMMA UpdateTaskKeeps ==
    ASSUME SlotsInv, UpdateTask
    PROVE  SlotsInv'
<1> DEFINE y == Head(ldstEvents)
           id == y.id
           s == segments[id + 1]
           c == Class(s)
           v == s.waiting - 1
           x == [kind |-> "handle", class |-> c]
<1>1. /\ LdstTypeOK /\ EventsFit(ldstEvents, segments) /\ QueuesFit(queue, segments)
      /\ NetworkFits(requests, responses, segments)
  BY DEF SlotsInv
<1>2. /\ ldstEvents # <<>> /\ y.kind = "update"
      /\ segments' = [segments EXCEPT ![id + 1].waiting = @ - 1]
      /\ completedNum' = IF SegmentCompletes(id) THEN [completedNum EXCEPT ![s.task] = @ + 1] ELSE completedNum
      /\ outstanding' = [b \in Threads \X Types |-> IF b \in Freed(s) THEN outstanding[b] + 1 ELSE outstanding[b]]
      /\ ldstEvents' = Tail(ldstEvents) \o <<x>>
      /\ UNCHANGED <<queue, requests, responses>>
  BY DEF UpdateTask, LdstEvent, Handle
<1>3. y \in LdstEvents /\ Fits(y, segments) /\ Tail(ldstEvents) \in Seq(LdstEvents)
  BY <1>1, <1>2, EventsTail DEF EventsFit
<1>4. id \in Nat /\ id + 1 \in DOMAIN segments
  BY <1>2, <1>3 DEF LdstEvents, Fits
<1>5. c \in Threads \X Types /\ v \in Int /\ s \in TaskSegment
  BY <1>1, <1>4, SegmentParts
<1>6. segments' \in Seq(TaskSegment) /\ SameClasses(segments, segments')
  <2> HIDE DEF y
  <2>1. segments' = [segments EXCEPT ![id + 1].waiting = v]
    BY <1>2
  <2> DEFINE n == id + 1
  <2>2. n \in DOMAIN segments /\ segments' = [segments EXCEPT ![n].waiting = v]
    BY <1>4, <2>1
  <2> HIDE DEF n, v
  <2> QED
    BY <1>1, <1>5, <2>2, SegmentChanges
<1>7. /\ x \in LdstEvents /\ Fits(x, segments)
      /\ \A b : Weight(x, segments, b) = 0
      /\ \A b : Weight(y, segments, b) = IF c = b THEN 1 ELSE 0
  BY <1>2, <1>5 DEF LdstEvents, Fits, Weight, Counts
<1> HIDE DEF x
<1>8. ldstEvents' = Append(Tail(ldstEvents), x)
  BY <1>2, <1>3, <1>7, ConcatOne
<1> HIDE DEF y
<1>9. EventsFit(ldstEvents', segments) /\ Trades(ldstEvents', ldstEvents, x, y, segments)
  BY <1>1, <1>2, <1>7, <1>8, EventsTailAppend DEF y
<1>10. EventsFit(ldstEvents', segments')
  BY <1>6, <1>9, EventsKeep
<1>11. \A b : b \in Freed(s) <=> b = c
  BY DEF Freed
<1>12. completedNum' \in [MemTasks -> Nat]
  <2>1. completedNum \in [MemTasks -> Nat] /\ s.task \in MemTasks
    BY <1>1, <1>5 DEF LdstTypeOK, TaskSegment
  <2> HIDE DEF s
  <2> QED
    BY <1>2, <2>1
<1> HIDE DEF id, s, c, v
<1>13. outstanding' \in [Threads \X Types -> Nat]
       /\ \A b \in Threads \X Types : outstanding'[b] = outstanding[b] + (IF c = b THEN 1 ELSE 0)
  <2>1. outstanding \in [Threads \X Types -> Nat]
    BY <1>1 DEF LdstTypeOK
  <2> QED
    BY <1>2, <1>11, <2>1
<1>14. NetworkFits(requests', responses', segments')
  BY <1>1, <1>2, <1>6, NetworkKeeps
<1>15. SameSlots
  <2> SUFFICES ASSUME NEW b \in Threads \X Types
               PROVE  SlotsOf(outstanding', requests', responses', ldstEvents', segments', b)
                          = SlotsOf(outstanding, requests, responses, ldstEvents, segments, b)
    BY DEF SameSlots
  <2> DEFINE k == IF c = b THEN 1 ELSE 0
             o == outstanding[b]
             p == outstanding'[b]
             n == NetworkIn(requests, responses, segments, b)
             e == EventsIn(ldstEvents, segments, b)
             d == EventsIn(ldstEvents', segments', b)
  <2>1. NetworkIn(requests', responses', segments', b) = n
    <3>1. NetworkIn(requests, responses, segments', b) = NetworkIn(requests, responses, segments, b)
      BY <1>1, <1>6, NetworkKeeps
    <3>2. requests' = requests /\ responses' = responses
      BY <1>2
    <3> QED
      BY <3>1, <3>2
  <2>2. Weight(x, segments, b) = 0 /\ Weight(y, segments, b) = k /\ k \in Nat
    BY <1>7
  <2> HIDE DEF k
  <2>3. d \in Nat /\ e \in Nat /\ d + k = e + 0
    BY <1>6, <1>9, <2>2, TradesKeep
  <2>4. o \in Nat /\ p = o + k
    BY <1>1, <1>13 DEF k, LdstTypeOK
  <2>5. n \in Nat
    BY <1>1, NetworkNat DEF LdstTypeOK
  <2> HIDE DEF o, p, n, e, d
  <2>6. p + n + d = o + n + e
    BY <2>2, <2>3, <2>4, <2>5
  <2> QED
    BY <2>1, <2>6 DEF SlotsOf, o, p, n, e, d
<1>16. LdstTypeOK'
  BY <1>1, <1>2, <1>6, <1>12, <1>13 DEF LdstTypeOK
<1>17. QueuesFit(queue', segments')
  BY <1>1, <1>2, <1>6, QueuesKeep
<1> QED
  BY <1>10, <1>14, <1>15, <1>16, <1>17, SlotsStep

\* UbLdstInstance::HandleLdstTask: the new segments have no packets yet.
LEMMA HandleLdstTaskKeeps ==
    ASSUME SlotsInv, NEW k \in MemTasks, NEW type \in Types, NEW length \in Nat, HandleLdstTask(k, type, length)
    PROVE  /\ SlotsInv' /\ Len(segments') = Len(segments) + Len(ThreadIds)
<1> DEFINE n == Len(ThreadIds)
           P(i) == PsnCnt(PartSize(length, n, i))
           r == [i \in 1..n |-> [task |-> k, type |-> type, thread |-> ThreadIds[i],
                                 psnCnt |-> P(i), left |-> P(i), waiting |-> 0]]
           e(i) == [kind |-> "push", id |-> Len(segments) + i - 1]
           u == [i \in 1..n |-> e(i)]
<1>1. /\ LdstTypeOK /\ EventsFit(ldstEvents, segments) /\ QueuesFit(queue, segments)
      /\ NetworkFits(requests, responses, segments)
  BY DEF SlotsInv
<1>2. /\ segments' = segments \o r /\ ldstEvents' = ldstEvents \o u
      /\ completedNum' = [completedNum EXCEPT ![k] = 0]
      /\ UNCHANGED <<queue, outstanding, requests, responses>>
  BY DEF HandleLdstTask
<1>3. /\ n \in Nat \ {0} /\ DataSize \in Nat \ {0}
      /\ \A i \in 1..n : ThreadIds[i] \in Threads
  <2>1. ThreadIds \in Seq(Nat) /\ ThreadIds # <<>> /\ DataSize \in Nat \ {0}
    BY LdstAssumption
  <2>2. n \in Nat /\ DOMAIN ThreadIds = 1..n
    BY <2>1, LenProperties
  <2>3. n # 0
    BY <2>1, EmptySeq
  <2>4. \A i \in DOMAIN ThreadIds : ThreadIds[i] \in Threads
    BY DEF Threads, ToSet
  <2> QED
    BY <2>1, <2>2, <2>3, <2>4
<1>4. ASSUME NEW i \in 1..n PROVE P(i) \in Nat
  <2> HIDE DEF n
  <2>1. length \div n \in Nat /\ length % n \in Nat
    BY <1>3
  <2>2. PartSize(length, n, i) \in Nat
    BY <2>1 DEF PartSize
  <2>3. \A x \in Nat : x + DataSize - 1 \in Nat
    BY <1>3
  <2>4. \A x \in Nat : x \div DataSize \in Nat
    BY <1>3
  <2> QED
    BY <2>2, <2>3, <2>4 DEF PsnCnt
<1> HIDE DEF P, n
<1>5. r \in Seq(TaskSegment) /\ Len(r) = n
  <2>1. ASSUME NEW i \in 1..n
        PROVE  [task |-> k, type |-> type, thread |-> ThreadIds[i],
                psnCnt |-> P(i), left |-> P(i), waiting |-> 0] \in TaskSegment
    BY <1>3, <1>4 DEF TaskSegment
  <2> QED
    BY <1>3, <2>1
<1> HIDE DEF r
<1>6. segments \in Seq(TaskSegment) /\ Len(segments) \in Nat /\ DOMAIN segments = 1..Len(segments)
  BY <1>1, SegmentParts
<1>7. /\ segments' \in Seq(TaskSegment) /\ Len(segments') = Len(segments) + n
      /\ \A i \in 1..Len(segments) : segments'[i] = segments[i]
      /\ DOMAIN segments' = 1..(Len(segments) + n)
  <2>1. /\ segments \o r \in Seq(TaskSegment) /\ Len(segments \o r) = Len(segments) + Len(r)
        /\ \A i \in 1..Len(segments) : (segments \o r)[i] = segments[i]
    <3>1. Len(segments) + Len(r) \in Nat /\ \A i \in 1..Len(segments) : i \in 1..(Len(segments) + Len(r)) /\ i <= Len(segments)
      BY <1>3, <1>5, <1>6
    <3> QED
      BY <1>5, <1>6, <3>1, ConcatProperties
  <2>2. /\ segments' \in Seq(TaskSegment) /\ Len(segments') = Len(segments) + n
        /\ \A i \in 1..Len(segments) : segments'[i] = segments[i]
    BY <1>2, <1>5, <2>1
  <2>3. DOMAIN segments' = 1..Len(segments')
    BY <2>2, LenProperties
  <2> QED
    BY <2>2, <2>3
<1>8. SameClasses(segments, segments')
  BY <1>3, <1>6, <1>7 DEF SameClasses
<1>9. /\ u \in Seq(LdstEvents) /\ DOMAIN u = 1..n
      /\ \A i \in 1..n : u[i].kind = "push" /\ u[i].id + 1 \in DOMAIN segments'
  <2>1. \A i \in 1..n : Len(segments) + i - 1 \in Nat /\ Len(segments) + i - 1 + 1 \in 1..(Len(segments) + n)
    BY <1>3, <1>6
  <2>2. \A i \in 1..n : e(i) \in LdstEvents /\ e(i).kind = "push" /\ e(i).id = Len(segments) + i - 1
    BY <2>1 DEF LdstEvents
  <2> HIDE DEF e
  <2>3. u \in Seq(LdstEvents) /\ DOMAIN u = 1..n /\ \A i \in 1..n : u[i] = e(i)
    BY <1>3, <2>2
  <2> QED
    BY <1>7, <2>1, <2>2, <2>3
<1> HIDE DEF u
<1>10. EventsFit(ldstEvents, segments')
  BY <1>1, <1>8, EventsKeep
<1>11. /\ ldstEvents' \in Seq(LdstEvents)
       /\ \A i \in DOMAIN ldstEvents : i \in DOMAIN ldstEvents' /\ ldstEvents'[i] = ldstEvents[i]
       /\ \A j \in DOMAIN ldstEvents' : \/ j \in DOMAIN ldstEvents /\ ldstEvents'[j] = ldstEvents[j]
                                        \/ \E i \in DOMAIN u : ldstEvents'[j] = u[i]
  <2> DEFINE d == ldstEvents'
  <2>1. ldstEvents \in Seq(LdstEvents) /\ u \in Seq(LdstEvents) /\ d = ldstEvents \o u
    BY <1>2, <1>9, <1>10 DEF EventsFit
  <2> HIDE DEF d
  <2>2. /\ d \in Seq(LdstEvents)
        /\ \A i \in DOMAIN ldstEvents : i \in DOMAIN d /\ d[i] = ldstEvents[i]
    BY <2>1, ConcatParts
  <2>3. \A j \in DOMAIN d : \/ j \in DOMAIN ldstEvents /\ d[j] = ldstEvents[j]
                           \/ \E i \in DOMAIN u : d[j] = u[i]
    BY <2>1, ConcatParts
  <2> QED
    BY <2>2, <2>3 DEF d
<1>12. EventsFit(ldstEvents', segments')
  BY <1>9, <1>10, <1>11 DEF EventsFit, Fits
<1>13. ASSUME NEW c PROVE EventsIn(ldstEvents', segments', c) = EventsIn(ldstEvents, segments, c)
  <2>1. {i \in DOMAIN ldstEvents' : Counts(ldstEvents'[i], segments', c)}
            = {i \in DOMAIN ldstEvents : Counts(ldstEvents[i], segments', c)}
    BY <1>9, <1>11 DEF Counts
  <2>2. EventsIn(ldstEvents', segments', c) = EventsIn(ldstEvents, segments', c)
    BY <2>1 DEF EventsIn
  <2> QED
    BY <1>1, <1>8, <2>2, EventsKeep
<1>14. NetworkFits(requests', responses', segments')
  BY <1>1, <1>2, <1>8, NetworkKeeps
<1>15. SameSlots
  <2> SUFFICES ASSUME NEW b \in Threads \X Types
               PROVE  SlotsOf(outstanding', requests', responses', ldstEvents', segments', b)
                          = SlotsOf(outstanding, requests, responses, ldstEvents, segments, b)
    BY DEF SameSlots
  <2>1. NetworkIn(requests, responses, segments', b) = NetworkIn(requests, responses, segments, b)
    BY <1>1, <1>8, NetworkKeeps
  <2> QED
    BY <1>2, <1>13, <2>1 DEF SlotsOf
<1>16. LdstTypeOK'
  <2>1. completedNum' \in [MemTasks -> Nat]
    BY <1>1, <1>2 DEF LdstTypeOK
  <2> QED
    BY <1>1, <1>2, <1>7, <2>1 DEF LdstTypeOK
<1>17. QueuesFit(queue', segments')
  BY <1>1, <1>2, <1>8, QueuesKeep
<1>18. SlotsInv'
  BY <1>12, <1>14, <1>15, <1>16, <1>17, SlotsStep
<1> QED
  BY <1>7, <1>18 DEF n

\* The packets left in the segments of a queue, and what a thread sends of each.
Lefts(c) == [i \in DOMAIN queue[c] |-> segments[queue[c][i] + 1].left]
Shares(c) == [i \in DOMAIN queue[c] |-> Share(c, Sends(c), i)]

\* A thread sends as many packets as it has slots for, or as there are.
LEMMA HandleSends ==
    ASSUME LdstTypeOK, QueuesFit(queue, segments), NEW c \in Threads \X Types,
           NEW L, L = Len(queue[c]), NEW m, m = Sends(c), NEW s, s = Shares(c)
    PROVE  /\ L \in Nat /\ DOMAIN queue[c] = 1..L /\ s \in [1..L -> Nat]
           /\ m \in Nat /\ m <= outstanding[c] /\ outstanding[c] \in Nat
           /\ SumUpTo(s, L) = m
           /\ \A i \in 1..L : /\ s[i] <= segments[queue[c][i] + 1].left
                              /\ segments[queue[c][i] + 1].left \in Nat
<1> DEFINE f == Lefts(c)
<1>1. queue[c] \in Seq(Nat) /\ outstanding[c] \in Nat
  BY DEF LdstTypeOK
<1>2. L \in Nat /\ DOMAIN queue[c] = 1..L
  BY <1>1, LenProperties
<1>3. \A i \in 1..L : segments[queue[c][i] + 1].left \in Nat
  <2> SUFFICES ASSUME NEW i \in 1..L PROVE segments[queue[c][i] + 1].left \in Nat
    OBVIOUS
  <2>1. queue[c][i] + 1 \in DOMAIN segments
    BY <1>2 DEF QueuesFit
  <2> QED
    BY <2>1, SegmentParts
<1>4. f \in [1..L -> Nat] /\ \A i \in 1..L : f[i] = segments[queue[c][i] + 1].left
  BY <1>2, <1>3 DEF Lefts
<1>5. SumUpTo(f, L) \in Nat
  <2> HIDE DEF f
  <2> QED
    BY <1>2, <1>4, SumNat
<1>6. m = IF outstanding[c] < SumUpTo(f, L) THEN outstanding[c] ELSE SumUpTo(f, L)
  BY DEF Sends, Left, Lefts
<1>7. m \in Nat /\ m <= outstanding[c] /\ m <= SumUpTo(f, L)
  <2> DEFINE a == SumUpTo(f, L)
  <2> HIDE DEF a
  <2>1. a \in Nat /\ m = IF outstanding[c] < a THEN outstanding[c] ELSE a
    BY <1>5, <1>6 DEF a
  <2>2. m \in Nat /\ m <= outstanding[c] /\ m <= a
    BY <1>1, <2>1
  <2> QED
    BY <2>2 DEF a
<1>8. s = TakenFrom(f, m, L)
  <2>1. \A i \in 1..L : Share(c, m, i) = Taken(f, m, i)
    BY <1>4 DEF Share, Taken, Left, Lefts
  <2> HIDE DEF f
  <2> QED
    BY <1>2, <2>1 DEF Shares, TakenFrom
<1> HIDE DEF f
<1>9. s \in [1..L -> Nat]
  BY <1>2, <1>4, <1>7, <1>8, SumTaken
<1>11. SumUpTo(s, L) = m
  <2>1. L \in Nat /\ f \in [1..L -> Nat] /\ m \in Nat /\ m <= SumUpTo(f, L) /\ s = TakenFrom(f, m, L)
    BY <1>2, <1>4, <1>7, <1>8
  <2> QED
    BY <2>1, SumTakes
<1>10. \A i \in 1..L : s[i] <= f[i]
  BY <1>2, <1>4, <1>7, <1>8, SumTaken
<1> QED
  BY <1>1, <1>2, <1>3, <1>4, <1>7, <1>9, <1>10, <1>11

\* The packets of the queue c that go out with the id w.
Goes(c, w) ==
    SumUpTo([i \in DOMAIN queue[c] |-> IF queue[c][i] % IdMod = w THEN Share(c, Sends(c), i) ELSE 0], Len(queue[c]))

\* The packets sent of segment id.
SentOf(c, id) ==
    LET at == {i \in DOMAIN queue[c] : queue[c][i] = id}
    IN  IF at = {} THEN 0 ELSE Share(c, Sends(c), CHOOSE i \in at : TRUE)

LEMMA SentOfOK ==
    ASSUME LdstTypeOK, QueuesFit(queue, segments), NEW c \in Threads \X Types, NEW n \in DOMAIN segments
    PROVE  SentOf(c, n - 1) \in Nat /\ SentOf(c, n - 1) <= segments[n].left
<1> DEFINE L == Len(queue[c])
           s == Shares(c)
           at == {i \in DOMAIN queue[c] : queue[c][i] = n - 1}
           p == CHOOSE i \in at : TRUE
<1>1. L \in Nat /\ DOMAIN queue[c] = 1..L /\ s \in [1..L -> Nat]
  BY HandleSends
<1>2. \A i \in 1..L : s[i] <= segments[queue[c][i] + 1].left
  BY HandleSends
<1>3. n \in Nat /\ segments[n].left \in Nat
  BY SegmentParts
<1>4. CASE at = {}
  <2>1. SentOf(c, n - 1) = 0
    BY <1>4 DEF SentOf
  <2> QED
    BY <1>3, <2>1
<1>5. CASE at # {}
  <2>1. p \in at
    BY <1>5
  <2>2. SentOf(c, n - 1) = Share(c, Sends(c), p)
    BY <1>5 DEF SentOf
  <2>3. p \in 1..L /\ queue[c][p] = n - 1
    BY <1>1, <2>1
  <2> HIDE DEF p
  <2>4. s[p] = Share(c, Sends(c), p)
    BY <1>1, <2>3 DEF Shares
  <2>5. queue[c][p] + 1 = n
    BY <1>3, <2>3
  <2>6. s[p] \in Nat /\ s[p] <= segments[n].left
    BY <1>1, <1>2, <2>3, <2>5
  <2> QED
    BY <2>2, <2>4, <2>6
<1> QED
  BY <1>4, <1>5

\* The places in segments of those in the queue.
Queued(c) == [i \in DOMAIN queue[c] |-> queue[c][i] + 1]

\* What goes out under an id is of the segment of that id.
LEMMA GoesOK ==
    ASSUME LdstTypeOK, QueuesFit(queue, segments), Len(segments) <= IdMod, NEW c \in Threads \X Types,
           NEW L, L = Len(queue[c]), NEW s, s = Shares(c), NEW q, q = Queued(c),
           NEW w \in WireIds
    PROVE  /\ Goes(c, w) = SumAt(q, s, w + 1, L)
           /\ Goes(c, w) \in Nat
           /\ ~(w + 1 \in DOMAIN segments /\ Class(segments[w + 1]) = c) => Goes(c, w) = 0
<1> DEFINE f == [i \in DOMAIN queue[c] |-> IF queue[c][i] % IdMod = w THEN Share(c, Sends(c), i) ELSE 0]
           g == [i \in DOMAIN q |-> IF q[i] = w + 1 THEN s[i] ELSE 0]
<1>1. L \in Nat /\ DOMAIN queue[c] = 1..L /\ s \in [1..L -> Nat]
  BY HandleSends
<1>13. q = [i \in 1..L |-> queue[c][i] + 1]
  BY <1>1 DEF Queued
<1>2. \A i \in 1..L : /\ queue[c][i] + 1 \in DOMAIN segments /\ Class(segments[queue[c][i] + 1]) = c
                      /\ queue[c][i] \in Nat
  <2>1. queue[c] \in Seq(Nat)
    BY DEF LdstTypeOK
  <2> QED
    BY <1>1, <2>1, SeqElement DEF QueuesFit
<1>3. DOMAIN segments = 1..Len(segments) /\ Len(segments) \in Nat /\ IdMod \in Nat \ {0} /\ w \in Nat
  BY SegmentParts, LdstAssumption DEF WireIds
<1>4. \A i \in 1..L : queue[c][i] % IdMod = queue[c][i]
  <2>1. \A x \in Nat, y \in Nat \ {0} : x < y => x % y = x
    OBVIOUS
  <2>2. \A i \in 1..L : queue[c][i] < IdMod
    BY <1>2, <1>3
  <2> QED
    BY <1>2, <1>3, <2>1, <2>2
<1>5. \A i \in 1..L : f[i] = IF queue[c][i] = w THEN s[i] ELSE 0
  <2>1. \A i \in 1..L : s[i] = Share(c, Sends(c), i)
    BY <1>1 DEF Shares
  <2> QED
    BY <1>1, <1>4, <2>1
<1>6. \A i \in 1..L : queue[c][i] = w <=> q[i] = w + 1
  BY <1>2, <1>3, <1>13
<1>7. \A i \in 1..L : f[i] = g[i]
  <2>1. \A i \in 1..L : g[i] = IF q[i] = w + 1 THEN s[i] ELSE 0
    BY <1>13
  <2> QED
    BY <1>5, <1>6, <2>1
<1>8. \A i \in 1..L : f[i] \in Nat
  <2> HIDE DEF f
  <2> QED
    BY <1>1, <1>5, SMTT(30)
<1>9. Goes(c, w) = SumUpTo(f, L)
  BY DEF Goes
<1>10. ASSUME ~(w + 1 \in DOMAIN segments /\ Class(segments[w + 1]) = c) PROVE \A i \in 1..L : f[i] = 0
  BY <1>2, <1>5, <1>10
<1> HIDE DEF f, g
<1>11. SumUpTo(f, L) = SumUpTo(g, L) /\ SumUpTo(f, L) \in Nat
  BY <1>1, <1>7, <1>8, SumAgree, SumNat
<1>12. ASSUME ~(w + 1 \in DOMAIN segments /\ Class(segments[w + 1]) = c) PROVE SumUpTo(f, L) = 0
  BY <1>1, <1>10, <1>12, SumZero
<1> QED
  BY <1>9, <1>11, <1>12 DEF SumAt, g

\* The packets that c sends are all in the network.
LEMMA NetworkGains ==
    ASSUME LdstTypeOK, QueuesFit(queue, segments), Len(segments) <= IdMod,
           NEW c \in Threads \X Types, NEW b \in Threads \X Types,
           NEW req, req = [w \in WireIds |-> requests[w] + Goes(c, w)]
    PROVE  NetworkIn(req, responses, segments, b)
               = NetworkIn(requests, responses, segments, b) + (IF b = c THEN Sends(c) ELSE 0)
<1> DEFINE L == Len(queue[c])
           s == Shares(c)
           q == Queued(c)
           f == PacketsAt(requests, responses, segments, b)
           g == PacketsAt(req, responses, segments, b)
           A(n) == SumAt(q, s, n, L)
<1>1. /\ L \in Nat /\ DOMAIN queue[c] = 1..L /\ s \in [1..L -> Nat]
      /\ Sends(c) \in Nat /\ SumUpTo(s, L) = Sends(c)
  BY HandleSends
<1>2. /\ IdMod \in Nat \ {0} /\ DOMAIN segments = 1..Len(segments) /\ Len(segments) \in Nat
      /\ \A n \in 1..IdMod : n - 1 \in WireIds /\ n - 1 + 1 = n
  BY SegmentParts, LdstAssumption DEF WireIds
<1>3. requests \in [WireIds -> Nat] /\ responses \in [WireIds -> Nat]
  BY DEF LdstTypeOK
<1>4. \A n \in 1..IdMod : f[n] \in Nat
  BY <1>3, NetworkNat
<1>5. q \in [1..L -> 1..IdMod]
  <2>1. \A i \in 1..L : queue[c][i] + 1 \in DOMAIN segments
    BY <1>1 DEF QueuesFit
  <2> QED
    BY <1>1, <1>2, <2>1 DEF Queued
<1>6. \A n \in 1..IdMod : Goes(c, n - 1) = A(n) /\ Goes(c, n - 1) \in Nat
  <2> SUFFICES ASSUME NEW n \in 1..IdMod PROVE Goes(c, n - 1) = A(n) /\ Goes(c, n - 1) \in Nat
    OBVIOUS
  <2> DEFINE w == n - 1
  <2>1. w \in WireIds /\ w + 1 = n
    BY <1>2
  <2> HIDE DEF w, s, q
  <2>2. s = Shares(c) /\ q = Queued(c)
    BY DEF s, q
  <2> HIDE DEF A, L
  <2>3. L = Len(queue[c])
    BY DEF L
  <2>4. Goes(c, w) = SumAt(q, s, w + 1, L)
    BY <2>1, <2>2, <2>3, GoesOK
  <2>5. Goes(c, w) \in Nat
    BY <2>1, <2>2, <2>3, GoesOK
  <2> QED
    BY <2>1, <2>4, <2>5 DEF w, A
<1>7. \A n \in 1..IdMod :
          n \notin DOMAIN segments \/ Class(segments[n]) # c => Goes(c, n - 1) = 0
  <2> SUFFICES ASSUME NEW n \in 1..IdMod, n \notin DOMAIN segments \/ Class(segments[n]) # c
               PROVE  Goes(c, n - 1) = 0
    OBVIOUS
  <2> DEFINE w == n - 1
  <2>1. w \in WireIds /\ w + 1 = n
    BY <1>2
  <2> HIDE DEF w
  <2>2. ~(w + 1 \in DOMAIN segments /\ Class(segments[w + 1]) = c)
    BY <2>1
  <2>3. Goes(c, w) = 0
    BY <2>1, <2>2, GoesOK
  <2> QED
    BY <2>3 DEF w
<1>8. \A n \in 1..IdMod : g[n] = f[n] + (IF n \in DOMAIN segments /\ Class(segments[n]) = b THEN Goes(c, n - 1) ELSE 0)
  <2> SUFFICES ASSUME NEW n \in 1..IdMod
               PROVE  g[n] = f[n] + (IF n \in DOMAIN segments /\ Class(segments[n]) = b THEN Goes(c, n - 1) ELSE 0)
    OBVIOUS
  <2>1. req[n - 1] = requests[n - 1] + Goes(c, n - 1)
    BY <1>2
  <2>2. requests[n - 1] \in Nat /\ responses[n - 1] \in Nat /\ Goes(c, n - 1) \in Nat
    BY <1>2, <1>3, <1>6
  <2>3. f[n] = IF n \in DOMAIN segments /\ Class(segments[n]) = b THEN requests[n - 1] + responses[n - 1] ELSE 0
    BY DEF PacketsAt
  <2>4. g[n] = IF n \in DOMAIN segments /\ Class(segments[n]) = b THEN req[n - 1] + responses[n - 1] ELSE 0
    BY DEF PacketsAt
  <2> HIDE DEF f, g
  <2> QED
    BY <2>1, <2>2, <2>3, <2>4
<1>9. CASE b = c
  <2> DEFINE h == Arrive(f, q, s, L)
  <2>1. f \in [1..IdMod -> Nat] /\ DOMAIN f = 1..IdMod
    BY <1>4 DEF PacketsAt
  <2>2. \A n \in 1..IdMod : h[n] = f[n] + A(n)
    BY <2>1 DEF Arrive
  <2> HIDE DEF f, g, h, A
  <2>3. \A n \in 1..IdMod : g[n] = h[n]
    BY <1>4, <1>6, <1>7, <1>8, <1>9, <2>2
  <2>4. SumUpTo(g, IdMod) = SumUpTo(h, IdMod)
    BY <1>2, <2>3, SumAgree
  <2>5. SumUpTo(h, IdMod) = SumUpTo(f, IdMod) + SumUpTo(s, L)
    <3> HIDE DEF q, s, L
    <3> QED
      BY <1>1, <1>2, <1>5, <2>1, SumArrive, ZenonT(60) DEF h
  <2> QED
    BY <1>1, <1>9, <2>4, <2>5 DEF NetworkIn, f, g
<1>10. CASE b # c
  <2> HIDE DEF f, g, A
  <2>1. \A n \in 1..IdMod : g[n] = f[n]
    BY <1>4, <1>7, <1>8, <1>10
  <2>2. SumUpTo(g, IdMod) = SumUpTo(f, IdMod)
    BY <1>2, <2>1, SumAgree
  <2>3. SumUpTo(f, IdMod) \in Nat
    BY <1>2, <1>4, SumNat
  <2>4. SumUpTo(g, IdMod) = SumUpTo(f, IdMod) + 0
    BY <2>2, <2>3
  <2> QED
    BY <1>10, <2>4 DEF NetworkIn, f, g
<1> QED
  BY <1>9, <1>10

\* The segments after packets of class c are sent.
LEMMA SegmentsSend ==
    ASSUME LdstTypeOK, QueuesFit(queue, segments), NEW c \in Threads \X Types, NEW sh,
           sh = [n \in DOMAIN segments |-> [segments[n] EXCEPT !.left = @ - SentOf(c, n - 1)]]
    PROVE  sh \in Seq(TaskSegment) /\ SameClasses(segments, sh) /\ Len(sh) = Len(segments)
<1>1. DOMAIN segments = 1..Len(segments) /\ Len(segments) \in Nat
  BY SegmentParts
<1>2. ASSUME NEW n \in DOMAIN segments
      PROVE  sh[n] \in TaskSegment /\ Class(sh[n]) = Class(segments[n])
  <2> DEFINE s == segments[n]
             v == SentOf(c, n - 1)
             r == [s EXCEPT !.left = s.left - v]
  <2>1. s \in TaskSegment /\ s.left \in Nat
    BY SegmentParts
  <2>2. v \in Nat /\ v <= s.left
    BY SentOfOK
  <2>3. sh[n] = r
    OBVIOUS
  <2> HIDE DEF s, v
  <2>4. s.left - v \in Nat
    BY <2>1, <2>2
  <2>5. r \in TaskSegment /\ Class(r) = Class(s)
    BY <2>1, <2>4 DEF TaskSegment, Class
  <2> QED
    BY <2>3, <2>5 DEF s
<1>3. DOMAIN sh = 1..Len(segments)
  BY <1>1
<1> QED
  BY <1>1, <1>2, <1>3 DEF SameClasses

\* The queues after the first k segments of class c are taken out.
LEMMA QueuesTaken ==
    ASSUME LdstTypeOK, QueuesFit(queue, segments), NEW c \in Threads \X Types,
           NEW k \in 0..Len(queue[c]), NEW p, p = [queue EXCEPT ![c] = SubSeq(queue[c], k + 1, Len(queue[c]))]
    PROVE  p \in [Threads \X Types -> Seq(Nat)] /\ QueuesFit(p, segments)
<1> DEFINE q == queue[c]
           r == SubSeq(q, k + 1, Len(q))
<1>1. q \in Seq(Nat) /\ queue \in [Threads \X Types -> Seq(Nat)] /\ Len(q) \in Nat /\ DOMAIN q = 1..Len(q)
  BY LenProperties DEF LdstTypeOK
<1>2. p = [queue EXCEPT ![c] = r]
  OBVIOUS
<1> HIDE DEF q
<1>3. r \in Seq(Nat) /\ DOMAIN r = 1..(Len(q) - k) /\ \A i \in 1..(Len(q) - k) : r[i] = q[k + i]
  BY <1>1, SplitSeq DEF q
<1> HIDE DEF r
<1>4. \A b \in Threads \X Types : p[b] = IF b = c THEN r ELSE queue[b]
  BY <1>1, <1>2
<1>5. p \in [Threads \X Types -> Seq(Nat)]
  BY <1>1, <1>2, <1>3
<1>6. \A i \in DOMAIN r : \E j \in DOMAIN q : r[i] = q[j]
  <2>1. k \in 0..Len(q)
    BY DEF q
  <2> DEFINE n == Len(q)
  <2>3. n \in Nat /\ k \in 0..n /\ DOMAIN q = 1..n /\ DOMAIN r = 1..(n - k)
    BY <1>1, <1>3, <2>1
  <2> HIDE DEF n
  <2>2. \A i \in DOMAIN r : k + i \in DOMAIN q
    BY <2>3
  <2>4. \A i \in DOMAIN r : r[i] = q[k + i]
    BY <1>3
  <2> QED
    BY <2>2, <2>4
<1> QED
  BY <1>4, <1>5, <1>6 DEF QueuesFit, q

\* HandleLoadTask and HandleStoreTask: a packet sent takes a slot into the network.
LEMMA HandleTaskKeeps ==
    ASSUME SlotsInv, Len(segments) <= IdMod, HandleTask
    PROVE  SlotsInv' /\ Len(segments') = Len(segments)
<1> DEFINE y == Head(ldstEvents)
           c == y.class
           m == Sends(c)
           k == Cardinality(TakenOut(c, m))
<1>1. /\ LdstTypeOK /\ EventsFit(ldstEvents, segments) /\ QueuesFit(queue, segments)
      /\ NetworkFits(requests, responses, segments)
  BY DEF SlotsInv
<1>2. /\ ldstEvents # <<>> /\ y.kind = "handle" /\ ldstEvents' = Tail(ldstEvents)
      /\ outstanding' = [outstanding EXCEPT ![c] = @ - m]
      /\ queue' = [queue EXCEPT ![c] = SubSeq(queue[c], k + 1, Len(queue[c]))]
      /\ UNCHANGED <<completedNum, responses>>
  BY DEF HandleTask, LdstEvent
<1>3. segments' = [n \in DOMAIN segments |-> [segments[n] EXCEPT !.left = @ - SentOf(c, n - 1)]]
  BY DEF HandleTask, SentOf
<1>4. requests' = [w \in WireIds |-> requests[w] + Goes(c, w)]
  BY DEF HandleTask, Goes
<1>5. y \in LdstEvents /\ EventsFit(ldstEvents', segments) /\ Gains(ldstEvents, ldstEvents', y, segments)
  BY <1>1, <1>2, EventsTail
<1>6. c \in Threads \X Types /\ \A b : Weight(y, segments, b) = 0
  BY <1>2, <1>5 DEF LdstEvents, Weight, Counts
<1> HIDE DEF c
<1>7. m \in Nat /\ outstanding[c] \in Nat /\ m <= outstanding[c]
  BY <1>1, <1>6, HandleSends
<1>8. Len(queue[c]) \in Nat /\ DOMAIN queue[c] = 1..Len(queue[c])
  BY <1>1, <1>6, LenProperties DEF LdstTypeOK
<1>9. k \in 0..Len(queue[c])
  <2> DEFINE n == Len(queue[c])
             T == TakenOut(c, m)
  <2>1. n \in Nat /\ T \subseteq 1..n
    BY <1>8 DEF TakenOut
  <2> HIDE DEF n, T
  <2>2. IsFiniteSet(1..n) /\ Cardinality(1..n) = n
    BY <2>1, FS_Interval
  <2>3. IsFiniteSet(T) /\ Cardinality(T) <= Cardinality(1..n)
    BY <2>1, <2>2, FS_Subset
  <2>4. Cardinality(T) \in Nat
    BY <2>3, FS_CardinalityType
  <2>5. Cardinality(T) \in 0..n
    BY <2>1, <2>2, <2>3, <2>4
  <2> QED
    BY <2>5 DEF n, T
<1> HIDE DEF k, m, y
<1>10. queue' \in [Threads \X Types -> Seq(Nat)] /\ QueuesFit(queue', segments)
  BY <1>1, <1>2, <1>6, <1>9, QueuesTaken
<1>11. segments' \in Seq(TaskSegment) /\ SameClasses(segments, segments') /\ Len(segments') = Len(segments)
  BY <1>1, <1>3, <1>6, SegmentsSend
<1>12. QueuesFit(queue', segments')
  BY <1>10, <1>11, QueuesKeep
<1>13. EventsFit(ldstEvents', segments')
  BY <1>5, <1>11, EventsKeep
<1>14. ASSUME NEW w \in WireIds
       PROVE  /\ Goes(c, w) \in Nat
              /\ ~(w + 1 \in DOMAIN segments) => Goes(c, w) = 0
  <2> DEFINE L == Len(queue[c])
             s == Shares(c)
             q == Queued(c)
  <2>1. L = Len(queue[c]) /\ s = Shares(c) /\ q = Queued(c)
    OBVIOUS
  <2> HIDE DEF L, s, q
  <2>2. Goes(c, w) \in Nat
    BY <1>1, <1>6, <2>1, GoesOK
  <2>3. ~(w + 1 \in DOMAIN segments /\ Class(segments[w + 1]) = c) => Goes(c, w) = 0
    BY <1>1, <1>6, <2>1, GoesOK
  <2> QED
    BY <2>2, <2>3
<1>15. requests \in [WireIds -> Nat] /\ responses \in [WireIds -> Nat]
  BY <1>1 DEF LdstTypeOK
<1>16. /\ requests' \in [WireIds -> Nat]
       /\ \A w \in WireIds : requests'[w] = requests[w] + Goes(c, w)
  BY <1>4, <1>14, <1>15
<1>17. NetworkFits(requests', responses', segments)
  <2> SUFFICES ASSUME NEW w \in WireIds, ~(w + 1 \in DOMAIN segments)
               PROVE  requests'[w] = 0 /\ responses'[w] = 0
    BY DEF NetworkFits
  <2>1. requests[w] = 0 /\ responses[w] = 0
    BY <1>1 DEF NetworkFits
  <2> QED
    BY <1>2, <1>14, <1>16, <2>1
<1>18. NetworkFits(requests', responses', segments')
  BY <1>11, <1>17, NetworkKeeps
<1>19. outstanding' \in [Threads \X Types -> Nat]
       /\ \A b \in Threads \X Types : outstanding'[b] = IF b = c THEN outstanding[b] - m ELSE outstanding[b]
  <2>1. outstanding \in [Threads \X Types -> Nat] /\ outstanding[c] - m \in Nat
    BY <1>1, <1>7 DEF LdstTypeOK
  <2> QED
    BY <1>2, <1>6, <2>1
<1>20. SameSlots
  <2> SUFFICES ASSUME NEW b \in Threads \X Types
               PROVE  SlotsOf(outstanding', requests', responses', ldstEvents', segments', b)
                          = SlotsOf(outstanding, requests, responses, ldstEvents, segments, b)
    BY DEF SameSlots
  <2> DEFINE o == outstanding[b]
             p == outstanding'[b]
             n == NetworkIn(requests, responses, segments, b)
             r == NetworkIn(requests', responses', segments', b)
             e == EventsIn(ldstEvents, segments, b)
             d == EventsIn(ldstEvents', segments', b)
  <2>1. r = n + (IF b = c THEN m ELSE 0)
    <3>1. NetworkIn(requests', responses, segments, b) = n + (IF b = c THEN m ELSE 0)
      BY <1>1, <1>4, <1>6, NetworkGains DEF m
    <3>2. NetworkIn(requests', responses', segments', b) = NetworkIn(requests', responses', segments, b)
      BY <1>11, <1>17, NetworkKeeps
    <3>3. responses' = responses
      BY <1>2
    <3> QED
      BY <3>1, <3>2, <3>3
  <2>2. d = e
    <3>1. EventsIn(ldstEvents', segments', b) = EventsIn(ldstEvents', segments, b)
      BY <1>5, <1>11, EventsKeep
    <3>2. EventsIn(ldstEvents, segments, b) = EventsIn(ldstEvents', segments, b) + Weight(y, segments, b)
      BY <1>5 DEF Gains
    <3>3. EventsIn(ldstEvents', segments, b) \in Nat
      BY <1>5, EventsNat DEF EventsFit
    <3> QED
      BY <1>6, <3>1, <3>2, <3>3
  <2>3. n \in Nat /\ e \in Nat
    BY <1>1, <1>15, NetworkNat, EventsNat DEF EventsFit
  <2>4. o \in Nat /\ (b = c => m <= o) /\ p = IF b = c THEN o - m ELSE o
    BY <1>1, <1>7, <1>19 DEF LdstTypeOK
  <2> HIDE DEF o, p, n, r, e, d
  <2>5. p + r + d = o + n + e
    BY <1>7, <2>1, <2>2, <2>3, <2>4
  <2> QED
    BY <2>5 DEF SlotsOf, o, p, n, r, e, d
<1>21. LdstTypeOK'
  BY <1>1, <1>2, <1>10, <1>11, <1>16, <1>19 DEF LdstTypeOK
<1> QED
  BY <1>11, <1>12, <1>13, <1>18, <1>20, <1>21, SlotsStep

-----------------------------------------------------------------------------
(* The load/store path of a node.                                          *)

\* The memory tasks that were given to the threads.
Given == {k \in MemTasks : taskStates[k] \in {"RUNNING", "COMPLETED"} /\ k \notin sending}

\* Only what runs is scheduled to be sent, so that a task is sent once.
OnlyRunningIsSent == \A k \in sending : taskStates[k] \in {"RUNNING", "COMPLETED"}

\* There are segments of the given tasks only, one for each thread.
SegmentsOfGiven == Len(segments) = Len(ThreadIds) * Cardinality(Given)

LdstInv == SlotsInv /\ TrafficTypeOK /\ OnlyRunningIsSent /\ SegmentsOfGiven

\* The ids of all segments fit in a header.
IdsFit == IsFiniteSet(MemTasks) /\ Len(ThreadIds) * Cardinality(MemTasks) <= IdMod

\* The segments of the given tasks are no more than those of all.
LEMMA SegmentsFit ==
    ASSUME LdstInv, IdsFit
    PROVE  /\ Len(segments) <= IdMod /\ IsFiniteSet(Given)
           /\ Cardinality(Given) \in Nat /\ Len(ThreadIds) \in Nat /\ IdMod \in Nat
<1>1. Given \subseteq MemTasks
  BY DEF Given
<1>2. IsFiniteSet(Given) /\ Cardinality(Given) <= Cardinality(MemTasks)
  BY <1>1, FS_Subset DEF IdsFit
<1>3. Cardinality(Given) \in Nat /\ Cardinality(MemTasks) \in Nat
  BY <1>2, FS_CardinalityType DEF IdsFit
<1>4. Len(ThreadIds) \in Nat /\ IdMod \in Nat
  BY LdstAssumption, LenProperties
<1> DEFINE n == Len(ThreadIds)
           a == Cardinality(Given)
           b == Cardinality(MemTasks)
<1>5. n \in Nat /\ a \in Nat /\ b \in Nat /\ a <= b /\ n * b <= IdMod /\ Len(segments) = n * a
  BY <1>2, <1>3, <1>4 DEF LdstInv, SegmentsOfGiven, IdsFit
<1> HIDE DEF n, a, b
<1>6. \A x, y, z \in Nat : x <= y => z * x <= z * y
  OBVIOUS
<1>7. n * a <= n * b /\ n * a \in Nat /\ n * b \in Nat
  BY <1>5, <1>6
<1>8. Len(segments) <= IdMod
  BY <1>4, <1>5, <1>7
<1> QED
  BY <1>2, <1>3, <1>4, <1>8

\* A step that gives no task to the threads.
LEMMA GivesNothing ==
    ASSUME LdstInv, SlotsInv', TrafficTypeOK', Given' = Given, OnlyRunningIsSent', Len(segments') = Len(segments)
    PROVE  LdstInv'
  BY DEF LdstInv, SegmentsOfGiven

\* What the traffic generator does to the tasks does not give them to the threads.
LEMMA MarkingGivesNothing ==
    ASSUME TrafficTypeOK, OnlyRunningIsSent, NEW k \in Tasks, MarkTaskCompleted(k) \/ UNCHANGED trafficVars
    PROVE  Given' = Given /\ OnlyRunningIsSent'
<1>0. MemTasks \subseteq Tasks
  BY TaskAssumption
<1>1. CASE UNCHANGED trafficVars
  BY <1>1 DEF Given, OnlyRunningIsSent, trafficVars, taskVars
<1>2. CASE taskStates[k] = "RUNNING" /\ MarkTaskCompleted(k)
  <2> DEFINE states == [d \in Tasks |-> IF d = k THEN "COMPLETED"
                                        ELSE IF d \in Released(k) THEN "READY"
                                        ELSE taskStates[d]]
             run == {d \in readyTasks \cup Released(k) : states[d] = "READY"}
  <2>1. /\ taskStates' = [d \in Tasks |-> IF d \in run THEN "RUNNING" ELSE states[d]]
        /\ sending' = sending \cup run
    BY <1>2, Zenon DEF MarkTaskCompleted, ScheduleNextTasks
  <2>2. /\ taskStates \in [Tasks -> TaskStates] /\ run \subseteq Tasks /\ sending \subseteq Tasks
        /\ \A d \in Released(k) : taskStates[d] = "PENDING"
    BY DEF TrafficTypeOK, Released
  <2>3. \A d \in Tasks : states[d] = IF d = k THEN "COMPLETED"
                                     ELSE IF d \in Released(k) THEN "READY" ELSE taskStates[d]
    OBVIOUS
  <2>4. \A d \in run : states[d] = "READY"
    OBVIOUS
  <2> HIDE DEF states, run
  <2>5. \A d \in run : taskStates[d] \in {"READY", "PENDING"} /\ taskStates'[d] = "RUNNING"
    BY <2>1, <2>2, <2>3, <2>4
  <2>6. \A d \in Tasks : d \notin run =>
            (taskStates'[d] \in {"RUNNING", "COMPLETED"} <=> taskStates[d] \in {"RUNNING", "COMPLETED"})
    BY <1>2, <2>1, <2>2, <2>3
  <2> QED
    BY <1>0, <2>1, <2>2, <2>5, <2>6 DEF Given, OnlyRunningIsSent
<1> QED
  BY <1>1, <1>2 DEF MarkTaskCompleted

LEMMA InitiatingGivesNothing ==
    ASSUME TrafficTypeOK, OnlyRunningIsSent, ReadRecord \/ AddTask \/ Start
    PROVE  Given' = Given /\ OnlyRunningIsSent'
<1>0. MemTasks \subseteq Tasks /\ taskStates \in [Tasks -> TaskStates] /\ sending \subseteq Tasks
      /\ readyTasks \subseteq Tasks
  BY TaskAssumption DEF TrafficTypeOK
<1>1. CASE ReadRecord
  BY <1>1 DEF ReadRecord, Given, OnlyRunningIsSent, taskVars
<1>2. CASE AddTask
  <2> DEFINE k == file.order[added + 1]
  <2>1. /\ sending' = sending
        /\ \/ taskStates' = taskStates
           \/ /\ taskStates[k] = "NONE"
              /\ \E s \in {"READY", "PENDING"} : taskStates' = [taskStates EXCEPT ![k] = s]
    BY <1>2 DEF AddTask
  <2> HIDE DEF k
  <2>2. \A d \in Tasks : taskStates'[d] \in {"RUNNING", "COMPLETED"} <=> taskStates[d] \in {"RUNNING", "COMPLETED"}
    BY <1>0, <2>1
  <2> QED
    BY <1>0, <2>1, <2>2 DEF Given, OnlyRunningIsSent
<1>3. CASE Start
  <2> DEFINE run == {d \in readyTasks : taskStates[d] = "READY"}
  <2>1. /\ taskStates' = [d \in Tasks |-> IF d \in run THEN "RUNNING" ELSE taskStates[d]]
        /\ sending' = sending \cup run
    BY <1>3, Zenon DEF Start, ScheduleNextTasks
  <2>2. run \subseteq Tasks /\ \A d \in run : taskStates[d] = "READY"
    BY <1>0
  <2> HIDE DEF run
  <2> QED
    BY <1>0, <2>1, <2>2 DEF Given, OnlyRunningIsSent
<1> QED
  BY <1>1, <1>2, <1>3

\* A scheduled task is given to the jetty or to the threads.
LEMMA SendTrafficGives ==
    ASSUME TrafficTypeOK, OnlyRunningIsSent, NEW k \in Tasks, SendTraffic(k)
    PROVE  /\ OnlyRunningIsSent'
           /\ k \in MemTasks => Given' = Given \cup {k} /\ k \notin Given
           /\ k \notin MemTasks => Given' = Given
  BY DEF SendTraffic, Given, OnlyRunningIsSent

\* Segments change one by one, and their number does not.
LEMMA SameNumber ==
    ASSUME SlotsInv, SlotsInv', DOMAIN segments' = DOMAIN segments
    PROVE  Len(segments') = Len(segments)
<1>1. segments \in Seq(TaskSegment) /\ segments' \in Seq(TaskSegment)
  BY DEF SlotsInv, LdstTypeOK
<1>2. /\ DOMAIN segments = 1..Len(segments) /\ Len(segments) \in Nat
      /\ DOMAIN segments' = 1..Len(segments') /\ Len(segments') \in Nat
  BY <1>1, LenProperties
<1> DEFINE m == Len(segments)
           n == Len(segments')
<1>3. m \in Nat /\ n \in Nat /\ 1..m = 1..n
  BY <1>2
<1> HIDE DEF m, n
<1>4. m = n
  <2>1. n # 0 => n \in 1..m
    BY <1>3
  <2>2. m # 0 => m \in 1..n
    BY <1>3
  <2> QED
    BY <1>3, <2>1, <2>2
<1> QED
  BY <1>4 DEF m, n

\* The steps of the load/store path keep the slots and the number of segments.
LEMMA LdstStepKeeps ==
    ASSUME LdstInv, IdsFit,
           \/ LdstRun \/ UpdateTask \/ \E w \in WireIds : RecvDataPacket(w) \/ RecvResponse(w)
           \/ UNCHANGED ldstVars
    PROVE  SlotsInv' /\ Len(segments') = Len(segments)
<1>1. SlotsInv /\ Len(segments) <= IdMod
  BY SegmentsFit DEF LdstInv
<1>2. CASE PushTaskSegment
  <2>1. SlotsInv'
    BY <1>1, <1>2, PushTaskSegmentKeeps
  <2>2. DOMAIN segments' = DOMAIN segments
    BY <1>2 DEF PushTaskSegment
  <2> QED
    BY <1>1, <2>1, <2>2, SameNumber
<1>3. CASE HandleTask
  BY <1>1, <1>3, HandleTaskKeeps
<1>4. CASE OnRecvAck
  BY <1>1, <1>4, OnRecvAckKeeps DEF OnRecvAck
<1>5. CASE UpdateTask
  <2>1. SlotsInv'
    BY <1>1, <1>5, UpdateTaskKeeps
  <2>2. DOMAIN segments' = DOMAIN segments
    BY <1>5 DEF UpdateTask
  <2> QED
    BY <1>1, <2>1, <2>2, SameNumber
<1>6. ASSUME NEW w \in WireIds, RecvDataPacket(w) PROVE SlotsInv' /\ Len(segments') = Len(segments)
  BY <1>1, <1>6, RecvDataPacketKeeps DEF RecvDataPacket
<1>7. ASSUME NEW w \in WireIds, RecvResponse(w) PROVE SlotsInv' /\ Len(segments') = Len(segments)
  BY <1>1, <1>7, RecvResponseKeeps DEF RecvResponse
<1>8. CASE UNCHANGED ldstVars
  BY <1>1, <1>8 DEF ldstVars, SlotsInv, LdstTypeOK, SlotsConserved, InNetwork, InEvents,
                    EventsFit, QueuesFit, NetworkFits, Fits
<1> QED
  BY <1>2, <1>3, <1>4, <1>5, <1>6, <1>7, <1>8 DEF LdstRun

LEMMA SendMemKeeps ==
    ASSUME LdstInv, IdsFit, TrafficTypeOK', NEW k \in MemTasks, SendMem(k)
    PROVE  LdstInv'
<1>1. k \in Tasks /\ MemLength[k] \in Nat
  BY TaskAssumption
<1>2. SendTraffic(k) /\ \E type \in Types : HandleLdstTask(k, type, MemLength[k])
  BY DEF SendMem
<1>3. SlotsInv' /\ Len(segments') = Len(segments) + Len(ThreadIds)
  BY <1>1, <1>2, HandleLdstTaskKeeps DEF LdstInv
<1>4. OnlyRunningIsSent' /\ Given' = Given \cup {k} /\ k \notin Given
  BY <1>1, <1>2, SendTrafficGives DEF LdstInv
<1>5. /\ IsFiniteSet(Given) /\ Cardinality(Given) \in Nat /\ Len(ThreadIds) \in Nat
      /\ Len(segments) = Len(ThreadIds) * Cardinality(Given)
  BY SegmentsFit DEF LdstInv, SegmentsOfGiven
<1>6. Cardinality(Given') = Cardinality(Given) + 1
  BY <1>4, <1>5, FS_AddElement
<1>7. SegmentsOfGiven'
  <2> DEFINE n == Len(ThreadIds)
             a == Cardinality(Given)
             b == Cardinality(Given')
  <2>1. n \in Nat /\ a \in Nat /\ b = a + 1 /\ Len(segments') = n * a + n
    BY <1>3, <1>5, <1>6
  <2> HIDE DEF n, a, b
  <2>2. \A x, y \in Nat : x * y + x = x * (y + 1)
    OBVIOUS
  <2>3. Len(segments') = n * b
    BY <2>1, <2>2
  <2> QED
    BY <2>3 DEF SegmentsOfGiven, n, b
<1> QED
  BY <1>3, <1>4, <1>7 DEF LdstInv

LEMMA LdstInvStep ==
    ASSUME LdstInv, IdsFit, TrafficTypeOK', [TaskNext]_taskSysVars
    PROVE  LdstInv'
<1>0. TrafficTypeOK /\ OnlyRunningIsSent /\ SlotsInv
  BY DEF LdstInv
<1>00. UNCHANGED trafficVars => Given' = Given /\ OnlyRunningIsSent'
  BY <1>0 DEF Given, OnlyRunningIsSent, trafficVars, taskVars
<1>1. CASE Initiate
  <2>1. UNCHANGED ldstVars /\ (ReadRecord \/ AddTask \/ Start)
    BY <1>1 DEF Initiate
  <2>2. Given' = Given /\ OnlyRunningIsSent'
    BY <1>0, <2>1, InitiatingGivesNothing
  <2> QED
    BY <2>1, <2>2, LdstStepKeeps, GivesNothing
<1>2. ASSUME NEW k \in Jetties, SendUrma(k) PROVE LdstInv'
  <2>1. k \in Tasks /\ k \notin MemTasks
    BY TaskAssumption
  <2>2. UNCHANGED ldstVars /\ SendTraffic(k)
    BY <1>2 DEF SendUrma
  <2>3. Given' = Given /\ OnlyRunningIsSent'
    BY <1>0, <2>1, <2>2, SendTrafficGives
  <2> QED
    BY <2>2, <2>3, LdstStepKeeps, GivesNothing
<1>3. ASSUME NEW k \in MemTasks, SendMem(k) PROVE LdstInv'
  BY <1>3, SendMemKeeps
<1>4. ASSUME NEW k \in Jetties, OnTaskCompleted(k) PROVE LdstInv'
  <2>1. k \in Tasks
    BY TaskAssumption
  <2>2. UNCHANGED ldstVars /\ (MarkTaskCompleted(k) \/ UNCHANGED trafficVars)
    BY <1>4 DEF OnTaskCompleted
  <2>3. Given' = Given /\ OnlyRunningIsSent'
    BY <1>0, <2>1, <2>2, MarkingGivesNothing
  <2> QED
    BY <2>2, <2>3, LdstStepKeeps, GivesNothing
<1>5. ASSUME NEW k \in MemTasks, OnMemTaskCompleted(k) PROVE LdstInv'
  <2>1. k \in Tasks
    BY TaskAssumption
  <2>2. UpdateTask /\ (MarkTaskCompleted(k) \/ UNCHANGED trafficVars)
    BY <1>5 DEF OnMemTaskCompleted
  <2>3. Given' = Given /\ OnlyRunningIsSent'
    BY <1>0, <2>1, <2>2, MarkingGivesNothing
  <2> QED
    BY <2>2, <2>3, LdstStepKeeps, GivesNothing
<1>6. CASE RunTransaction
  <2>1. UNCHANGED ldstVars /\ UNCHANGED trafficVars
    BY <1>6 DEF RunTransaction
  <2> QED
    BY <1>00, <2>1, LdstStepKeeps, GivesNothing
<1>7. ASSUME NEW t \in Tps, NEW n \in una[t]..pushed[t], Acknowledge(t, n) PROVE LdstInv'
  <2>1. UNCHANGED ldstVars /\ UNCHANGED trafficVars
    BY <1>7 DEF Acknowledge
  <2> QED
    BY <1>00, <2>1, LdstStepKeeps, GivesNothing
<1>8. CASE RunLdst
  <2>1. LdstRun /\ UNCHANGED trafficVars
    BY <1>8 DEF RunLdst
  <2> QED
    BY <1>00, <2>1, LdstStepKeeps, GivesNothing
<1>9. ASSUME NEW w \in WireIds, Deliver(w) PROVE LdstInv'
  <2>1. (RecvDataPacket(w) \/ RecvResponse(w)) /\ UNCHANGED trafficVars
    BY <1>9 DEF Deliver
  <2> QED
    BY <1>00, <2>1, LdstStepKeeps, GivesNothing
<1>10. CASE UNCHANGED taskSysVars
  <2>1. UNCHANGED ldstVars /\ UNCHANGED trafficVars
    BY <1>10 DEF taskSysVars
  <2> QED
    BY <1>00, <2>1, LdstStepKeeps, GivesNothing
<1> QED
  BY <1>1, <1>2, <1>3, <1>4, <1>5, <1>6, <1>7, <1>8, <1>9, <1>10 DEF TaskNext

LEMMA LdstInvInitial == TaskInit => LdstInv
<1> SUFFICES ASSUME TaskInit PROVE LdstInv
  OBVIOUS
<1>1. SlotsInv
  BY LdstInitial DEF TaskInit
<1>2. TrafficTypeOK
  BY TrafficInitial DEF TaskInit, TrafficInv
<1>3. OnlyRunningIsSent
  BY DEF TaskInit, TrafficInit, OnlyRunningIsSent
<1>4. Given = {}
  <2>1. MemTasks \subseteq Tasks /\ taskStates = [k \in Tasks |-> "NONE"]
    BY TaskAssumption DEF TaskInit, TrafficInit
  <2> QED
    BY <2>1 DEF Given
<1>5. Cardinality(Given) = 0 /\ Len(segments) = 0
  BY <1>4, FS_EmptySet DEF TaskInit, LdstInit
<1>6. Len(ThreadIds) \in Nat
  BY LdstAssumption, LenProperties
<1>7. Len(ThreadIds) * 0 = 0
  BY <1>6
<1>8. SegmentsOfGiven
  BY <1>5, <1>7 DEF SegmentsOfGiven
<1> QED
  BY <1>1, <1>2, <1>3, <1>8 DEF LdstInv

\* UbLdstThread's m_loadOutstanding and m_storeOutstanding: when the segment ids of
\* all memory tasks fit in the id of a packet header, every slot of a thread is free
\* or held by exactly one packet, request, response or response not yet counted, in
\* whatever order the network delivers and however tasks share the threads.
THEOREM NodeConservesSlots ==
    ASSUME IdsFit
    PROVE  TaskSpec => []SlotsConserved
<1>1. TaskSpec => []TrafficTypeOK
  BY NodeRunsTheTraffic, TrafficTypeCorrect, PTL
<1>2. LdstInv /\ TrafficTypeOK' /\ [TaskNext]_taskSysVars => LdstInv'
  BY LdstInvStep
<1>3. LdstInv => SlotsConserved
  BY DEF LdstInv, SlotsInv
<1> QED
  BY <1>1, <1>2, <1>3, LdstInvInitial, PTL DEF TaskSpec

=============================================================================
