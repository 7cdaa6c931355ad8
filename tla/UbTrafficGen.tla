---------------------------- MODULE UbTrafficGen ----------------------------
(***************************************************************************)
(* The task graph of the traffic generator.  A traffic file gives each     *)
(* task a phase and the phases it waits for.  The file is read to its end, *)
(* which registers the tasks of every phase; then the tasks are added in   *)
(* the order of the file, and the ready ones are started.  A task that     *)
(* completes starts the tasks that waited for it last.                     *)
(***************************************************************************)
EXTENDS Integers, Sequences, FiniteSets

CONSTANTS
    Tasks,
    Phases,
    Files           \* the traffic files an instance is run with, see File

\* order: the tasks, as the records of the file come; phase, dependOn: of each.
File == [order : Seq(Tasks), phase : [Tasks -> Phases], dependOn : [Tasks -> SUBSET Phases]]

ASSUME TrafficAssumption == Files \subseteq File

VARIABLES
    file,           \* the file of this behaviour
    read,           \* its records that have been read
    phaseTasks,     \* m_dependOnPhasesToTaskId
    added,          \* its records that have been added
    started,        \* ScheduleNextTasks has been called for the file
    dependencies,   \* task: m_dependencies
    taskStates,     \* task: m_taskStates, or NONE
    readyTasks,     \* m_readyTasks
    sending         \* tasks whose SendTraffic is scheduled after their delay

readVars == <<file, read, phaseTasks>>
taskVars == <<taskStates, readyTasks, sending>>
trafficVars == <<readVars, added, started, dependencies, taskVars>>

TrafficInit ==
    /\ file \in Files
    /\ read = 0 /\ added = 0 /\ started = FALSE
    /\ phaseTasks = [n \in Phases |-> {}]
    /\ dependencies = [k \in Tasks |-> {}]
    /\ taskStates = [k \in Tasks |-> "NONE"]
    /\ readyTasks = {} /\ sending = {}

-----------------------------------------------------------------------------
\* ReadTrafficCSV, one record: SetPhaseDepend.
ReadRecord ==
    /\ read < Len(file.order)
    /\ LET k == file.order[read + 1]
       IN  phaseTasks' = [phaseTasks EXCEPT ![file.phase[k]] = @ \cup {k}]
    /\ read' = read + 1
    /\ UNCHANGED <<file, added, started, dependencies, taskVars>>

\* A record is added as soon as it has been read.
FileReadMutant == added < read

\* The tasks are added when the whole file has been read.
FileRead == read = Len(file.order)

\* AddTask of the next record: its dependencies are looked up now.
AddTask ==
    /\ FileRead /\ added < Len(file.order)
    /\ LET k == file.order[added + 1]
           deps == UNION {phaseTasks[n] : n \in file.dependOn[k]}
       IN  IF taskStates[k] # "NONE"
           THEN UNCHANGED <<dependencies, taskStates, readyTasks>>
           ELSE /\ dependencies' = [dependencies EXCEPT ![k] = deps]
                /\ taskStates' = [taskStates EXCEPT ![k] = IF deps = {} THEN "READY" ELSE "PENDING"]
                /\ readyTasks' = IF deps = {} THEN readyTasks \cup {k} ELSE readyTasks
    /\ added' = added + 1
    /\ UNCHANGED <<readVars, started, sending>>

\* ScheduleNextTasks when the states are `states` and the ready tasks `ready`:
\* SendTraffic of every ready task is scheduled.
ScheduleNextTasks(states, ready) ==
    LET run == {k \in ready : states[k] = "READY"}
    IN  /\ taskStates' = [k \in Tasks |-> IF k \in run THEN "RUNNING" ELSE states[k]]
        /\ sending' = sending \cup run
        /\ readyTasks' = {}

\* InitiateTasks starts the file.
Start ==
    /\ ~started /\ added = Len(file.order)
    /\ started' = TRUE
    /\ ScheduleNextTasks(taskStates, readyTasks)
    /\ UNCHANGED <<readVars, added, dependencies>>

\* UbApp::SendTraffic runs; what it does to the node is the node's.
SendTraffic(k) ==
    /\ k \in sending
    /\ sending' = sending \ {k}
    /\ UNCHANGED <<readVars, added, started, dependencies, taskStates, readyTasks>>

\* The dependents of k that wait for nothing but k.
Released(k) ==
    {d \in Tasks :
        /\ taskStates[d] = "PENDING" /\ k \in dependencies[d]
        /\ \A c \in dependencies[d] : c = k \/ taskStates[c] = "COMPLETED"}

\* OnTaskCompleted, MarkTaskCompleted: a task that is not running is ignored.
MarkTaskCompleted(k) ==
    IF taskStates[k] # "RUNNING"
    THEN UNCHANGED trafficVars
    ELSE /\ ScheduleNextTasks(
                [d \in Tasks |-> IF d = k THEN "COMPLETED"
                                 ELSE IF d \in Released(k) THEN "READY"
                                 ELSE taskStates[d]],
                readyTasks \cup Released(k))
         /\ UNCHANGED <<readVars, added, started, dependencies>>

TrafficNext ==
    \/ ReadRecord
    \/ AddTask
    \/ Start
    \/ \E k \in Tasks : SendTraffic(k) \/ MarkTaskCompleted(k)

TrafficSpec == TrafficInit /\ [][TrafficNext]_trafficVars

-----------------------------------------------------------------------------
TaskStates == {"NONE", "PENDING", "READY", "RUNNING", "COMPLETED"}

TrafficTypeOK ==
    /\ file \in Files
    /\ read \in 0..Len(file.order) /\ added \in 0..Len(file.order) /\ started \in BOOLEAN
    /\ phaseTasks \in [Phases -> SUBSET Tasks]
    /\ dependencies \in [Tasks -> SUBSET Tasks]
    /\ taskStates \in [Tasks -> TaskStates]
    /\ readyTasks \subseteq Tasks /\ sending \subseteq Tasks

InFile(k) == \E i \in 1..Len(file.order) : file.order[i] = k

\* traffic.csv, the column of phases a task depends on: a task is started only
\* when every task of the file that is in one of these phases has completed,
\* wherever in the file the two stand.
DependenciesKept ==
    \A k, d \in Tasks :
        /\ taskStates[k] \in {"RUNNING", "COMPLETED"}
        /\ InFile(d) /\ file.phase[d] \in file.dependOn[k]
        => taskStates[d] = "COMPLETED"

=============================================================================
