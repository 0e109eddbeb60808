---------------------------- MODULE TaskCluster ----------------------------
(***************************************************************************)
(* The cluster of django-q workers that runs the platform's tasks: broker, *)
(* pusher, workers with their timers, and the sentinel's guard loop with   *)
(* the scheduler in it.  A worker and the queue in the cluster's memory    *)
(* belong to the library, which is external.                               *)
(***************************************************************************)
EXTENDS Integers, FiniteSets

CONSTANTS
    Tasks,        \* tasks that are put on the broker's list
    Later,        \* those of them that are scheduled and get there in time
    Pool,         \* worker processes
    QueueLimit,   \* tasks the pusher holds in memory (100)
    Timeout,      \* guard cycles a task may take (600 s of 0.5 s)
    Recycle,      \* tasks a worker runs before it is replaced (500)
    Cycles,       \* guard cycles between two runs of the scheduler (20)
    MaxFaults     \* bound: workers that die and restarts of the cluster

ASSUME ClusterAssumption ==
    /\ Later \subseteq Tasks
    /\ QueueLimit \in Nat \ {0} /\ Timeout \in Nat \ {0}
    /\ Recycle \in Nat \ {0} /\ Cycles \in Nat \ {0}
    /\ MaxFaults \in Nat

VARIABLES
    place,    \* of each task: "caller", "schedule", "broker", "memory", "worker",
              \* "done", "lost"
    runs,     \* how many times each has been started
    doing,    \* the task of each worker, or NoTask
    timer,    \* of each worker; Idle when it waits, Worn when it has had its tasks
    served,   \* tasks each worker has run
    alive,    \* the worker's process
    counter,  \* cycles since the scheduler ran
    faults    \* counts WorkerDies and ClusterRestart

clusterVars == <<place, runs, doing, timer, served, alive, counter, faults>>
poolVars    == <<doing, timer, served, alive>>

NoTask == "none"
Idle   == -1
Worn   == -2

ClusterInit ==
    /\ place = [t \in Tasks |-> "caller"] /\ runs = [t \in Tasks |-> 0]
    /\ doing = [p \in Pool |-> NoTask] /\ timer = [p \in Pool |-> Idle]
    /\ served = [p \in Pool |-> 0] /\ alive = [p \in Pool |-> TRUE]
    /\ counter = 0 /\ faults = 0

Moves(t, from, to) == place[t] = from /\ place' = [place EXCEPT ![t] = to]

AsyncTask(t) ==
    /\ t \notin Later /\ Moves(t, "caller", "broker")
    /\ UNCHANGED <<runs, poolVars, counter, faults>>

ScheduleTask(t) ==
    /\ t \in Later /\ Moves(t, "caller", "schedule")
    /\ UNCHANGED <<runs, poolVars, counter, faults>>

(* Slip: a popped task stays on the list until it has been done.            *)
PushKept(t) ==
    /\ Moves(t, "broker", "memory") \/ Moves(t, "worker", "memory")
    /\ UNCHANGED <<runs, poolVars, counter, faults>>

(* The pusher pops a task off the Redis list: only memory has it now.       *)
Push(t) ==
    /\ Cardinality({u \in Tasks : place[u] = "memory"}) < QueueLimit
    /\ Moves(t, "broker", "memory")
    /\ UNCHANGED <<runs, poolVars, counter, faults>>

Take(p, t) ==
    /\ alive[p] /\ timer[p] = Idle /\ doing[p] = NoTask
    /\ Moves(t, "memory", "worker")
    /\ runs' = [runs EXCEPT ![t] = @ + 1]
    /\ doing' = [doing EXCEPT ![p] = t]
    /\ timer' = [timer EXCEPT ![p] = Timeout]
    /\ UNCHANGED <<served, alive, counter, faults>>

Finish(p) ==
    /\ alive[p] /\ doing[p] # NoTask /\ timer[p] # 0
    /\ Moves(doing[p], "worker", "done")
    /\ doing' = [doing EXCEPT ![p] = NoTask]
    /\ served' = [served EXCEPT ![p] = @ + 1]
    /\ timer' = [timer EXCEPT ![p] = IF served[p] + 1 = Recycle THEN Worn ELSE Idle]
    /\ alive' = [alive EXCEPT ![p] = served[p] + 1 # Recycle]
    /\ UNCHANGED <<runs, counter, faults>>

WorkerDies(p) ==
    /\ alive[p] /\ faults < MaxFaults
    /\ alive' = [alive EXCEPT ![p] = FALSE]
    /\ faults' = faults + 1
    /\ UNCHANGED <<place, runs, doing, timer, served, counter>>

(* The whole cluster is stopped and started: what it had popped is gone.    *)
ClusterRestart ==
    /\ faults < MaxFaults /\ faults' = faults + 1
    /\ place' = [t \in Tasks |-> IF place[t] \in {"memory", "worker"} THEN "lost"
                                 ELSE place[t]]
    /\ doing' = [p \in Pool |-> NoTask] /\ timer' = [p \in Pool |-> Idle]
    /\ served' = [p \in Pool |-> 0] /\ alive' = [p \in Pool |-> TRUE]
    /\ counter' = 0
    /\ UNCHANGED runs

(* Slip: only the dead are replaced.                                        *)
ReplacedDead == {p \in Pool : ~alive[p]}

-----------------------------------------------------------------------------
(* One cycle of the guard loop: workers that are dead or whose time is up   *)
(* are replaced, whatever they were doing; the others' timers go on.        *)
Replaced == {p \in Pool : ~alive[p] \/ timer[p] = 0}

Reborn(f, value) == [p \in Pool |-> IF p \in Replaced THEN value ELSE f[p]]

Ticked == [p \in Pool |-> IF p \in Replaced THEN Idle
                          ELSE IF timer[p] > 0 THEN timer[p] - 1 ELSE timer[p]]

SchedulerDue == counter + 1 >= Cycles

Released(t) == SchedulerDue /\ place[t] = "schedule"

Guard ==
    /\ doing' = Reborn(doing, NoTask) /\ timer' = Ticked
    /\ served' = Reborn(served, 0) /\ alive' = Reborn(alive, TRUE)
    /\ counter' = IF SchedulerDue THEN 0 ELSE counter + 1
    /\ place' = [t \in Tasks |-> IF \E p \in Replaced : doing[p] = t THEN "lost"
                                 ELSE IF Released(t) THEN "broker" ELSE place[t]]
    /\ UNCHANGED <<runs, faults>>

-----------------------------------------------------------------------------
ClusterNext ==
    \/ \E t \in Tasks : AsyncTask(t) \/ ScheduleTask(t) \/ Push(t)
    \/ \E p \in Pool, t \in Tasks : Take(p, t)
    \/ \E p \in Pool : Finish(p) \/ WorkerDies(p)
    \/ Guard \/ ClusterRestart

PushSome == \E t \in Tasks : Push(t)
TakeSome == \E p \in Pool, t \in Tasks : Take(p, t)

ClusterSpec == ClusterInit /\ [][ClusterNext]_clusterVars

-----------------------------------------------------------------------------
ClusterTypeOK ==
    /\ place \in [Tasks -> {"caller", "schedule", "broker", "memory", "worker", "done", "lost"}]
    /\ runs \in [Tasks -> Nat] /\ doing \in [Pool -> Tasks \cup {NoTask}]
    /\ timer \in [Pool -> {Idle, Worn} \cup 0..Timeout]
    /\ served \in [Pool -> 0..Recycle] /\ alive \in [Pool -> BOOLEAN]
    /\ counter \in 0..(Cycles - 1)
    /\ faults \in 0..MaxFaults

(* No task is run twice, whatever dies: that is why a task that is killed   *)
(* leaves its rows as they are.                                             *)
RunOnce ==
    /\ \A t \in Tasks : runs[t] <= 1
    /\ \A p, q \in Pool : doing[p] = doing[q] /\ doing[p] # NoTask => p = q

(* Every task that is queued or scheduled is started, however many of those *)
(* before it hang or take their workers with them, unless a restart loses it.*)
TasksStart ==
    \A t \in Tasks : place[t] \in {"schedule", "broker", "memory"} ~>
                        (runs[t] > 0 \/ place[t] = "lost")
=============================================================================
