----------------------------- MODULE K8sRollout -----------------------------
(***************************************************************************)
(* The rollout of one application's images on its clusters: the request    *)
(* that starts a deployment, the task that takes one cluster after the     *)
(* other through its stages and polls it until the new replicas are ready, *)
(* and the request that takes the application offline and deletes it       *)
(* later.  The clusters are Kubernetes, which is external.                 *)
(***************************************************************************)
EXTENDS DeployStatus

CONSTANTS
    Jobs, Tags, TagOf,  \* deployments and the image tag each rolls out
    Ordered,            \* the jobs that belong to an order: they sync images
    Called,             \* the jobs that the callback of a build starts
    NumClusters,        \* the application's clusters are 1, 2, ...
    Targets,            \* of each job: those of them that its request chose
    Workers,            \* tasks that run at once
    FindPolls,          \* check_deployment's check_count (5)
    ReplicaPolls,       \* check_replica's check_count (10)
    CheckCount,         \* DEPLOY_CHECK's count (30)
    Clients,            \* requests that take it offline on a cluster, once each
    NoTag               \* no image

Clusters == 1..NumClusters

\* An image tag is made for one build, and a deployment is one of an image:
\* no two of these deployments have the same.
ASSUME RolloutAssumption ==
    /\ TagOf \in [Jobs -> Tags] /\ NoTag \notin Tags
    /\ \A i, j \in Jobs : TagOf[i] = TagOf[j] => i = j
    /\ Ordered \subseteq Jobs /\ Called \subseteq Jobs \ Ordered
    /\ NumClusters \in Nat \ {0} /\ Targets \in [Jobs -> SUBSET Clusters] /\ Workers \in Nat \ {0}
    /\ FindPolls \in Nat /\ ReplicaPolls \in Nat /\ CheckCount \in Nat

VARIABLES
    spec, rev, sets, pods, up,  \* Kubernetes
    app, kd,                    \* the row of AppInfo, the versions of KubernetesDeploy
    at, held, cur, stages, seen, polls, rounds, verdict,   \* the tasks
    req                         \* requests that take it offline

k8s       == <<spec, rev, sets, pods, up>>
task      == <<at, held, cur, stages, seen, polls, rounds, verdict>>
rolloutVars == <<k8s, app, kd, task, req>>

\* G_ONLINE_CHOICE: 1 online, 3 abnormal, 9 applied for, 10 offline.
OnlineStates == {0, 1, 2, 3, 9, 10}
OnlineTag    == Tags \cup {NoTag}
Row          == [online : OnlineStates, version : OnlineTag]

\* A task that raises is "crashed", one whose worker is killed "killed", a
\* row that gets no task "unqueued".
Over     == {"succeeded", "failed", "crashed", "killed", "unqueued"}
Steps    == {"new", "request", "queued", "mark", "connect", "sync", "apply",
             "find", "poll", "conclude", "end"} \cup Over

Running(j) == at[j] \notin {"new", "request", "queued"} \cup Over

NoRow  == [online |-> 0, version |-> NoTag]
NoCall == [at |-> "idle", held |-> NoRow, cluster |-> 1]

RolloutInit ==
    /\ spec = [c \in Clusters |-> NoTag] /\ rev = [c \in Clusters |-> 0]
    /\ sets = [c \in Clusters |-> [t \in Tags |-> 0]]
    /\ pods = [c \in Clusters |-> {}] /\ up = pods
    /\ app = NoRow
    /\ kd = spec
    /\ at = [j \in Jobs |-> "new"] /\ held = [j \in Jobs |-> app]
    /\ cur = [j \in Jobs |-> 1] /\ stages = [j \in Jobs |-> {}]
    /\ seen = [j \in Jobs |-> 0]
    /\ polls = [j \in Jobs |-> 0] /\ rounds = [j \in Jobs |-> 0]
    /\ verdict = [j \in Jobs |-> [c \in Clusters |-> Waiting]]
    /\ req = [k \in Clients |-> NoCall]

-----------------------------------------------------------------------------
(* Kubernetes: the controller notices a deployment it has not annotated,    *)
(* makes a replica set for its image and numbers both with the next         *)
(* revision; the set's pods may become ready, and then the others are       *)
(* scaled down.  sets[c][t] is the revision of the set of image t, rev[c]   *)
(* the one the deployment is annotated with; 0 is none.                     *)

NextRevision(c) ==
    IF \A t \in Tags : sets[c][t] = 0 THEN 1
    ELSE 1 + (CHOOSE n \in {sets[c][t] : t \in Tags} : \A t \in Tags : sets[c][t] <= n)

Observe(c) ==
    /\ spec[c] # NoTag /\ rev[c] = 0
    /\ rev' = [rev EXCEPT ![c] = NextRevision(c)]
    /\ sets' = [sets EXCEPT ![c][spec[c]] = NextRevision(c)]
    /\ UNCHANGED <<spec, pods, up, app, kd, task, req>>

PodsReady(c) ==
    /\ \E t \in Tags \ pods[c] :
          /\ sets[c][t] # 0
          /\ pods' = [pods EXCEPT ![c] = @ \cup {t}]
          /\ up' = [up EXCEPT ![c] = @ \cup {t}]
    /\ UNCHANGED <<spec, rev, sets, app, kd, task, req>>

ScaleDown(c) ==
    /\ rev[c] # 0 /\ spec[c] \in pods[c] /\ pods[c] # {spec[c]}
    /\ pods' = [pods EXCEPT ![c] = {spec[c]}]
    /\ UNCHANGED <<spec, rev, sets, up, app, kd, task, req>>

-----------------------------------------------------------------------------
(* The request.                                                             *)
Goes(j, from, to) == at[j] = from /\ at' = [at EXCEPT ![j] = to]

DeployRead(j) ==
    /\ Goes(j, "new", "request")
    /\ held' = [held EXCEPT ![j] = app]
    /\ UNCHANGED <<k8s, app, kd, cur, stages, seen, polls, rounds, verdict, req>>

(* app_deploy_handle: an application that is offline is marked online with  *)
(* a save of the whole row.  What raises is rolled back: no job.            *)
DeployHandle(j) ==
    /\ j \notin Called
    /\ Goes(j, "request", "queued")
    /\ app' = IF held[j].online = 10 THEN [held[j] EXCEPT !.online = 1] ELSE app
    /\ held' = [held EXCEPT ![j] = NoRow]
    /\ UNCHANGED <<k8s, kd, cur, stages, seen, polls, rounds, verdict, req>>

(* deploy_callback leaves the application's state alone.  An exception of   *)
(* deploy_handle is answered, not rolled back: the job stays without a task.*)
DeployCallback(j) ==
    /\ j \in Called
    /\ Goes(j, "request", "queued") \/ Goes(j, "request", "unqueued")
    /\ held' = [held EXCEPT ![j] = NoRow]
    /\ UNCHANGED <<k8s, app, kd, cur, stages, seen, polls, rounds, verdict, req>>

(* The task: app_deployment_handle reads the row, then marks it.            *)
TaskRead(j) ==
    /\ Cardinality({i \in Jobs : Running(i)}) < Workers
    /\ Goes(j, "queued", "mark")
    /\ held' = [held EXCEPT ![j] = app]
    /\ UNCHANGED <<k8s, app, kd, cur, stages, seen, polls, rounds, verdict, req>>

(* The clusters are those of the application that the request chose, one    *)
(* after the other: with none the job has failed.  A callback's task may    *)
(* have no manifest (deploy_handle does not look at template_generate's     *)
(* error): K8sDeploys raises when it is made.                               *)
IsNext(c, C) == c \in C /\ \A d \in C : c <= d

TaskMark(j) ==
    /\ \/ Targets[j] = {} /\ Goes(j, "mark", "failed") /\ UNCHANGED cur
       \/ /\ Goes(j, "mark", "connect")
          /\ \E c \in Clusters : IsNext(c, Targets[j]) /\ cur' = [cur EXCEPT ![j] = c]
       \/ j \in Called /\ Targets[j] # {} /\ Goes(j, "mark", "crashed") /\ UNCHANGED cur
    /\ app' = [app EXCEPT !.online = 3]
    /\ UNCHANGED <<k8s, kd, held, stages, seen, polls, rounds, verdict, req>>

(* The guard of the task cluster kills a worker whose task has taken longer *)
(* than the timeout; the polls of one cluster may take that long.  The task *)
(* is not given to another: its job is left as it is.                       *)
Killed(j) ==
    /\ Running(j)
    /\ at' = [at EXCEPT ![j] = "killed"]
    /\ held' = [held EXCEPT ![j] = NoRow] /\ stages' = [stages EXCEPT ![j] = {}]
    /\ seen' = [seen EXCEPT ![j] = 0] /\ polls' = [polls EXCEPT ![j] = 0]
    /\ rounds' = [rounds EXCEPT ![j] = 0]
    /\ UNCHANGED <<k8s, app, kd, cur, verdict, req>>

(* A stage ends with a status; any but 1 raises, and the exception skips    *)
(* the cluster's other stages.                                              *)
Stage(j, from, status, next) ==
    /\ Goes(j, from, IF status = Success THEN next ELSE "conclude")
    /\ stages' = [stages EXCEPT ![j] = @ \cup {status}]

(* stage_get_k8s_client records a stage only when it fails.                 *)
Connect(j) ==
    /\ \/ Goes(j, "connect", IF j \in Ordered THEN "sync" ELSE "apply")
          /\ UNCHANGED stages
       \/ Stage(j, "connect", Failed, "conclude")
    /\ UNCHANGED <<k8s, app, kd, held, cur, seen, polls, rounds, verdict, req>>

ImageSync(j) ==
    /\ \E status \in {Success, Failed} : Stage(j, "sync", status, "apply")
    /\ UNCHANGED <<k8s, app, kd, held, cur, seen, polls, rounds, verdict, req>>

(* app_deploy creates or replaces the deployment: the requests always ask   *)
(* for force, and a replaced deployment has lost the controller's revision. *)
Applied(j) ==
    /\ spec' = [spec EXCEPT ![cur[j]] = TagOf[j]]
    /\ rev' = [rev EXCEPT ![cur[j]] = 0]

(* A call that fails may have been carried out.                             *)
AppDeploy(j) ==
    /\ \/ Stage(j, "apply", Success, "find") /\ Applied(j)
       \/ Stage(j, "apply", Failed, "find") /\ (Applied(j) \/ UNCHANGED <<spec, rev>>)
    /\ polls' = [polls EXCEPT ![j] = FindPolls]
    /\ UNCHANGED <<sets, pods, up, app, kd, held, cur, seen, rounds, verdict, req>>

(* check_deployment: the deployment as the controller has annotated it by   *)
(* now, which may be for another deployment's image.  It is not fetched     *)
(* again.  When none is found the error is no JSON: save_stage_result       *)
(* raises and leaves the stage at 0.                                        *)
Found(j) ==
    /\ rev[cur[j]] # 0 /\ polls[j] > 0
    /\ Goes(j, "find", "poll")
    /\ seen' = [seen EXCEPT ![j] = rev[cur[j]]]
    /\ polls' = [polls EXCEPT ![j] = ReplicaPolls]
    /\ rounds' = [rounds EXCEPT ![j] = CheckCount]
    /\ UNCHANGED <<k8s, app, kd, held, cur, stages, verdict, req>>

(* Slip: the count is looked at too late.                                   *)
NotYetFoundOnceMore(j) ==
    /\ at[j] = "find" /\ rev[cur[j]] = 0 /\ spec[cur[j]] # NoTag /\ polls[j] >= 0
    /\ polls' = [polls EXCEPT ![j] = @ - 1]
    /\ UNCHANGED <<k8s, app, kd, at, held, cur, stages, seen, rounds, verdict, req>>

NotYetFound(j) ==
    /\ at[j] = "find" /\ rev[cur[j]] = 0 /\ spec[cur[j]] # NoTag /\ polls[j] > 0
    /\ polls' = [polls EXCEPT ![j] = @ - 1]
    /\ UNCHANGED <<k8s, app, kd, at, held, cur, stages, seen, rounds, verdict, req>>

NotFound(j) ==
    /\ Stage(j, "find", 0, "conclude")
    /\ UNCHANGED <<k8s, app, kd, held, cur, seen, polls, rounds, verdict, req>>

(* check_replica, one poll: the replica set of the revision seen, its image *)
(* and its pods.  What ends a round are an error of the replica sets, the   *)
(* wrong image, and too many polls.                                         *)
SeenTag(j, t) == sets[cur[j]][t] = seen[j]
Mismatch(j)   == \E t \in Tags : SeenTag(j, t) /\ t # TagOf[j]
IsReady(j)    == \E t \in pods[cur[j]] : SeenTag(j, t)

(* Slip: the image of the replica set is not compared.                      *)
ReplicaReadyOfAnyTag(j) ==
    /\ IsReady(j) /\ polls[j] > 0
    /\ Stage(j, "poll", Success, "conclude")
    /\ UNCHANGED <<k8s, app, kd, held, cur, seen, polls, rounds, verdict, req>>

ReplicaReady(j) ==
    /\ ~Mismatch(j) /\ IsReady(j) /\ polls[j] > 0
    /\ Stage(j, "poll", Success, "conclude")
    /\ UNCHANGED <<k8s, app, kd, held, cur, seen, polls, rounds, verdict, req>>

ReplicaNotReady(j) ==
    /\ at[j] = "poll" /\ ~Mismatch(j) /\ ~IsReady(j) /\ polls[j] > 0
    /\ polls' = [polls EXCEPT ![j] = @ - 1]
    /\ UNCHANGED <<k8s, app, kd, at, held, cur, stages, seen, rounds, verdict, req>>

(* Slip: the counter is left alone.                                         *)
RoundFailsForever(j) ==
    /\ at[j] = "poll" /\ rounds[j] >= 0
    /\ polls' = [polls EXCEPT ![j] = ReplicaPolls]
    /\ UNCHANGED <<k8s, app, kd, at, held, cur, stages, seen, rounds, verdict, req>>

(* run counts down before the round and looks at the counter after it: one  *)
(* round more than the setting says.                                        *)
RoundFails(j) ==
    /\ at[j] = "poll" /\ rounds[j] > 0
    /\ rounds' = [rounds EXCEPT ![j] = @ - 1]
    /\ polls' = [polls EXCEPT ![j] = ReplicaPolls]
    /\ UNCHANGED <<k8s, app, kd, at, held, cur, stages, seen, verdict, req>>

CheckFails(j) ==
    /\ rounds[j] = 0
    /\ Stage(j, "poll", Failed, "conclude")
    /\ UNCHANGED <<k8s, app, kd, held, cur, seen, polls, rounds, verdict, req>>

(* An error answer of the pods has no items: the check raises.              *)
CheckRaises(j) ==
    /\ ~Mismatch(j) /\ polls[j] > 0
    /\ Stage(j, "poll", 0, "conclude")
    /\ UNCHANGED <<k8s, app, kd, held, cur, seen, polls, rounds, verdict, req>>

(* generate_deploy_status, and the cluster's version when it succeeded.     *)
ConcludeCluster(j) ==
    LET status == ClusterStatus(stages[j])
        rest   == {c \in Targets[j] : c > cur[j]}
    IN
    /\ \/ rest = {} /\ Goes(j, "conclude", "end") /\ UNCHANGED cur
       \/ /\ Goes(j, "conclude", "connect")
          /\ \E c \in Clusters : IsNext(c, rest) /\ cur' = [cur EXCEPT ![j] = c]
    /\ verdict' = [verdict EXCEPT ![j][cur[j]] = status]
    /\ kd' = IF status = Success THEN [kd EXCEPT ![cur[j]] = TagOf[j]] ELSE kd
    /\ stages' = [stages EXCEPT ![j] = {}] /\ seen' = [seen EXCEPT ![j] = 0]
    /\ polls' = [polls EXCEPT ![j] = 0] /\ rounds' = [rounds EXCEPT ![j] = 0]
    /\ UNCHANGED <<k8s, app, held, req>>

(* run: the application's row is saved as the task read it, with the new    *)
(* version, when all the clusters of the job have succeeded.                *)
EndRollout(j) ==
    LET outcome == K8sOutcome({verdict[j][c] : c \in Targets[j]}) IN
    /\ Goes(j, "end", IF outcome = Success THEN "succeeded" ELSE "failed")
    /\ app' = IF outcome = Success THEN [held[j] EXCEPT !.version = TagOf[j]] ELSE app
    /\ held' = [held EXCEPT ![j] = NoRow]
    /\ UNCHANGED <<k8s, kd, cur, stages, seen, polls, rounds, verdict, req>>

-----------------------------------------------------------------------------
(* delete_resource: marks the application as offline, with a save of the    *)
(* whole row, and has the cluster's deployment deleted in some minutes or   *)
(* at once.  A request that finds the key of an earlier one is refused;     *)
(* whether it does is left open.                                            *)
OfflineRead(k, c) ==
    /\ req[k].at = "idle"
    /\ req' = [req EXCEPT ![k] = [at |-> "save", held |-> app, cluster |-> c]]
    /\ UNCHANGED <<k8s, app, kd, task>>

OfflineSave(k) ==
    /\ req[k].at = "save"
    /\ \E to \in {"waiting", "done"} :
          req' = [req EXCEPT ![k] = [at |-> to, held |-> NoRow, cluster |-> req[k].cluster]]
    /\ app' = [req[k].held EXCEPT !.online = 10]
    /\ UNCHANGED <<k8s, kd, task>>

(* k8s_resource_delete: the deployment goes with its replica sets, whoever  *)
(* has deployed it since; or the cluster cannot be reached.                 *)
ResourceDelete(k) ==
    LET c == req[k].cluster IN
    /\ req[k].at = "waiting"
    /\ req' = [req EXCEPT ![k].at = "done"]
    /\ \/ /\ spec' = [spec EXCEPT ![c] = NoTag] /\ rev' = [rev EXCEPT ![c] = 0]
          /\ sets' = [sets EXCEPT ![c] = [t \in Tags |-> 0]]
          /\ pods' = [pods EXCEPT ![c] = {}]
       \/ UNCHANGED <<spec, rev, sets, pods>>
    /\ UNCHANGED <<up, app, kd, task>>

-----------------------------------------------------------------------------
K8sStep(c) == Observe(c) \/ PodsReady(c) \/ ScaleDown(c)

CheckStep(j) ==
    \/ Found(j) \/ NotYetFound(j) \/ NotFound(j)
    \/ ReplicaReady(j) \/ ReplicaNotReady(j) \/ RoundFails(j) \/ CheckFails(j)
    \/ CheckRaises(j)

TaskStep(j) ==
    \/ TaskRead(j) \/ TaskMark(j) \/ Connect(j) \/ ImageSync(j) \/ AppDeploy(j)
    \/ CheckStep(j) \/ ConcludeCluster(j) \/ EndRollout(j)

OfflineStep(k) ==
    \/ \E c \in Clusters : OfflineRead(k, c)
    \/ OfflineSave(k) \/ ResourceDelete(k)

RolloutDone ==
    /\ \A j \in Jobs : at[j] \in Over
    /\ UNCHANGED rolloutVars

RolloutNext ==
    \/ \E c \in Clusters : K8sStep(c)
    \/ \E j \in Jobs : DeployRead(j) \/ DeployHandle(j) \/ DeployCallback(j) \/ TaskStep(j) \/ Killed(j)
    \/ \E k \in Clients : OfflineStep(k)
    \/ RolloutDone

RolloutSafe == RolloutInit /\ [][RolloutNext]_rolloutVars

(* A worker goes on with the task it has popped, until it is killed;        *)
(* nothing is asked of the clusters.                                        *)
RolloutSpec == RolloutSafe /\ \A j \in Jobs : WF_rolloutVars(TaskStep(j))
-----------------------------------------------------------------------------
RolloutTypeOK ==
    /\ spec \in [Clusters -> OnlineTag] /\ rev \in [Clusters -> Nat]
    /\ sets \in [Clusters -> [Tags -> Nat]]
    /\ pods \in [Clusters -> SUBSET Tags] /\ up \in [Clusters -> SUBSET Tags]
    /\ app \in Row /\ kd \in [Clusters -> OnlineTag]
    /\ at \in [Jobs -> Steps] /\ held \in [Jobs -> Row] /\ cur \in [Jobs -> Clusters]
    /\ stages \in [Jobs -> SUBSET {0, Success, Failed}] /\ seen \in [Jobs -> Nat]
    /\ polls \in [Jobs -> Nat] /\ rounds \in [Jobs -> Nat]
    /\ verdict \in [Jobs -> [Clusters -> {Waiting, Success, Failed}]]
    /\ req \in [Clients -> [at : {"idle", "save", "waiting", "done"},
                            held : Row, cluster : Clusters]]

(* What is recorded as rolled out was ready.  A rollout that says a cluster *)
(* succeeded had its own image ready there, whatever another deployment or  *)
(* a deletion did to the cluster between its call, its look at the          *)
(* deployment and its look at the replica sets; the version recorded for a  *)
(* cluster was ready on it; and an application's version is that of a job   *)
(* whose image was ready on every cluster the job was for, however many     *)
(* copies of the row tasks and requests save over each other.               *)
RolledOut(tag) ==
    \E j \in Jobs : /\ TagOf[j] = tag /\ Targets[j] # {}
                    /\ \A c \in Targets[j] : tag \in up[c]

RecordsWereReady ==
    /\ \A j \in Jobs, c \in Clusters : verdict[j][c] = Success => TagOf[j] \in up[c]
    /\ app.version # NoTag => RolledOut(app.version)
    /\ \A c \in Clusters : kd[c] # NoTag => kd[c] \in up[c]

(* A deployment a worker has taken ends, with an outcome, an exception or   *)
(* the worker's death, however often the check polls and whatever the       *)
(* clusters answer.                                                         *)
RolloutEnds == \A j \in Jobs : (at[j] = "mark") ~> (at[j] \in Over)

Phase(j) ==
    CASE at[j] \in {"new", "request", "queued", "unqueued"} -> "waiting"
      [] at[j] \in {"failed", "crashed"} -> "failed"
      [] at[j] = "succeeded" -> "succeeded"
      [] OTHER -> "running"

P == INSTANCE RolloutPromise WITH phase <- [j \in Jobs |-> Phase(j)]

(* What is promised to those who read the outcome.                          *)
KeepsPromise == P!Promise
=============================================================================
