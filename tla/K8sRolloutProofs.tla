-------------------------- MODULE K8sRolloutProofs --------------------------
(* Proofs about K8sRollout, for any deployments, clusters, images, requests *)
(* and bounds of the checks.                                                 *)
EXTENDS K8sRollout, TLAPS

OfflineCall == [at : {"idle", "save", "waiting", "done"}, held : Row, cluster : Clusters]

(* The types the argument needs: what Kubernetes numbers is left out.       *)
RowTypes ==
    /\ up \in [Clusters -> SUBSET Tags] /\ pods \in [Clusters -> SUBSET Tags]
    /\ app \in Row /\ kd \in [Clusters -> OnlineTag]
    /\ req \in [Clients -> OfflineCall]

TaskTypes ==
    /\ at \in [Jobs -> Steps] /\ held \in [Jobs -> Row] /\ cur \in [Jobs -> Clusters]
    /\ stages \in [Jobs -> SUBSET {0, Success, Failed}]
    /\ verdict \in [Jobs -> [Clusters -> {Waiting, Success, Failed}]]

(* A version that a row names has been rolled out.                         *)
WasUp(tag) == tag # NoTag => RolledOut(tag)

(* Between the poll that finds the replicas ready and the verdict there is  *)
(* a list of stages without a failure; and the rows that a task or request  *)
(* has read, to save them later, name versions that were ready.             *)
CopiesWereReady ==
    /\ \A c \in Clusters : pods[c] \subseteq up[c]
    /\ \A j \in Jobs : at[j] = "conclude" /\ stages[j] = {Success} => TagOf[j] \in up[cur[j]]
    /\ \A j \in Jobs : WasUp(held[j].version)
    /\ \A k \in Clients : WasUp(req[k].held.version)

RolloutInv == RowTypes /\ TaskTypes /\ CopiesWereReady /\ RecordsWereReady

LEMMA FirstCluster == 1 \in Clusters
  BY RolloutAssumption DEF Clusters

LEMMA NamesWereUp ==
    ASSUME RolloutInv
    PROVE  /\ WasUp(app.version) /\ WasUp(NoRow.version)
           /\ \A j \in Jobs : WasUp(held[j].version)
           /\ \A k \in Clients : WasUp(req[k].held.version)
  <1>1. WasUp(app.version) /\ WasUp(NoRow.version)
    BY DEF RolloutInv, RecordsWereReady, WasUp, NoRow
  <1> QED BY <1>1 DEF RolloutInv, CopiesWereReady

(* What has been up stays so.                                               *)
LEMMA StaysUp ==
    ASSUME up \in [Clusters -> SUBSET Tags], \A c \in Clusters : up[c] \subseteq up'[c],
           NEW tag, WasUp(tag)
    PROVE  WasUp(tag)'
  BY RolloutAssumption DEF WasUp, RolledOut

LEMMA RolloutStart == RolloutInit => RolloutInv
  BY FirstCluster DEF RolloutInit, RolloutInv, RowTypes, TaskTypes, CopiesWereReady, RecordsWereReady,
     WasUp, NoRow, NoCall, OfflineCall, Row, OnlineStates, OnlineTag, Steps, Waiting, Success

(* Whatever Kubernetes does, what has been up stays so.                     *)
LEMMA ClusterMoves ==
    ASSUME RolloutInv, UNCHANGED <<app, kd, task>>,
           pods' \in [Clusters -> SUBSET Tags], up' \in [Clusters -> SUBSET Tags],
           \A c \in Clusters : pods'[c] \subseteq up'[c] /\ up[c] \subseteq up'[c],
           req' \in [Clients -> OfflineCall],
           \A k \in Clients : req'[k].held = req[k].held
    PROVE  RolloutInv'
  <1>1. RowTypes' /\ TaskTypes'
    BY DEF RolloutInv, RowTypes, TaskTypes, task
  <1>2. /\ \A j \in Jobs : WasUp(held[j].version)'
        /\ \A k \in Clients : WasUp(req[k].held.version)'
        /\ WasUp(app.version)'
    <2>1. \A tag : WasUp(tag) => (\A c \in Clusters : TRUE) /\ (tag # NoTag => RolledOut(tag)')
      BY StaysUp DEF RolloutInv, RowTypes, WasUp
    <2> QED BY <2>1 DEF RolloutInv, CopiesWereReady, RecordsWereReady, WasUp, task
  <1>3. CopiesWereReady'
    BY <1>2 DEF RolloutInv, TaskTypes, CopiesWereReady, task
  <1>4. RecordsWereReady'
    BY <1>2 DEF RolloutInv, RecordsWereReady, WasUp, task
  <1> QED BY <1>1, <1>3, <1>4 DEF RolloutInv

(* Nor does the task disturb anything while it goes from stage to stage.    *)
LEMMA TaskGoesOn ==
    ASSUME RolloutInv, NEW j \in Jobs, NEW to \in Steps,
           UNCHANGED <<up, pods, app, kd, cur, verdict, req>>,
           at' = [at EXCEPT ![j] = to],
           held' = held \/ held' = [held EXCEPT ![j] = NoRow] \/ held' = [held EXCEPT ![j] = app],
           stages' \in [Jobs -> SUBSET {0, Success, Failed}],
           \A i \in Jobs \ {j} : stages'[i] = stages[i],
           to = "conclude" /\ stages'[j] = {Success} => TagOf[j] \in up[cur[j]]
    PROVE  RolloutInv'
  <1>0. app \in Row /\ NoRow \in Row
    BY DEF RolloutInv, RowTypes, NoRow, Row, OnlineStates, OnlineTag
  <1>a. at' \in [Jobs -> Steps] /\ held' \in [Jobs -> Row]
    BY <1>0 DEF RolloutInv, TaskTypes
  <1>1. TaskTypes'
    BY <1>a DEF RolloutInv, TaskTypes
  <1>b. held \in [Jobs -> Row]
    BY DEF RolloutInv, TaskTypes
  <1>2. \A i \in Jobs : WasUp(held'[i].version)
    BY <1>b, NamesWereUp
  <1>3. \A i \in Jobs : at'[i] = "conclude" /\ stages'[i] = {Success} => TagOf[i] \in up[cur[i]]
    BY DEF RolloutInv, TaskTypes, CopiesWereReady
  <1> QED BY <1>1, <1>2, <1>3 DEF RolloutInv, RowTypes, CopiesWereReady, RecordsWereReady, WasUp, RolledOut

(* A save of the application's row, by a task or a request.                 *)
LEMMA RowSaved ==
    ASSUME RolloutInv, UNCHANGED <<up, pods, kd, verdict>>,
           cur' \in [Jobs -> Clusters], stages' \in [Jobs -> SUBSET {0, Success, Failed}],
           \A j \in Jobs : at'[j] = "conclude" => cur'[j] = cur[j] /\ stages'[j] = stages[j],
           app' \in Row, WasUp(app'.version),
           at' \in [Jobs -> Steps], \A j \in Jobs : at'[j] = "conclude" => at[j] = "conclude",
           held' = held \/ \E j \in Jobs : held' = [held EXCEPT ![j] = NoRow],
           req' \in [Clients -> OfflineCall],
           \A k \in Clients : req'[k].held = req[k].held \/ req'[k].held = NoRow
    PROVE  RolloutInv'
  <1>1. NoRow \in Row /\ NoRow.version = NoTag
    BY DEF NoRow, Row, OnlineStates, OnlineTag
  <1>a. held \in [Jobs -> Row] /\ (\A j \in Jobs : WasUp(held[j].version)) /\ WasUp(NoTag)
    BY DEF RolloutInv, TaskTypes, CopiesWereReady, WasUp
  <1>2. held' \in [Jobs -> Row] /\ \A j \in Jobs : WasUp(held'[j].version)
    BY <1>1, <1>a
  <1>3. \A k \in Clients : WasUp(req'[k].held.version)
    BY <1>1, <1>a DEF RolloutInv, CopiesWereReady
  <1>4. RowTypes' /\ TaskTypes'
    BY <1>2 DEF RolloutInv, RowTypes, TaskTypes
  <1>5. CopiesWereReady'
    BY <1>2, <1>3 DEF RolloutInv, CopiesWereReady, WasUp, RolledOut
  <1> QED BY <1>4, <1>5 DEF RolloutInv, RecordsWereReady, WasUp, RolledOut

(* A cluster's verdict is a success only behind a poll that saw its         *)
(* replicas ready.                                                          *)
LEMMA ClusterConcluded ==
    ASSUME RolloutInv, NEW j \in Jobs, ConcludeCluster(j)
    PROVE  RolloutInv'
  <1> DEFINE c == cur[j]
             status == ClusterStatus(stages[j])
  <1>1. c \in Clusters /\ stages[j] \in SUBSET {0, Success, Failed} /\ at[j] = "conclude"
    BY DEF RolloutInv, TaskTypes, ConcludeCluster, Goes
  <1>2. status \in {Success, Failed} /\ (status = Success => stages[j] = {Success})
    BY <1>1 DEF ClusterStatus, Success, Failed
  <1>3. status = Success => TagOf[j] \in up[c]
    BY <1>1, <1>2 DEF RolloutInv, CopiesWereReady
  <1>4. UNCHANGED <<up, pods, app, held, req>>
    BY DEF ConcludeCluster, k8s
  <1>5. /\ at'[j] \in {"end", "connect"} /\ at' \in [Jobs -> Steps]
        /\ \A i \in Jobs \ {j} : at'[i] = at[i] /\ cur'[i] = cur[i] /\ stages'[i] = stages[i]
    BY DEF RolloutInv, TaskTypes, ConcludeCluster, Goes, Steps
  <1>6. cur' \in [Jobs -> Clusters]
    BY DEF RolloutInv, TaskTypes, ConcludeCluster
  <1>7. stages' \in [Jobs -> SUBSET {0, Success, Failed}]
    BY DEF RolloutInv, TaskTypes, ConcludeCluster
  <1>8. /\ verdict' \in [Jobs -> [Clusters -> {Waiting, Success, Failed}]]
        /\ verdict'[j][c] = status
        /\ \A i \in Jobs, d \in Clusters : i # j \/ d # c => verdict'[i][d] = verdict[i][d]
    BY <1>1, <1>2 DEF RolloutInv, TaskTypes, ConcludeCluster
  <1>9. /\ kd' \in [Clusters -> OnlineTag]
        /\ \A d \in Clusters : kd'[d] = kd[d] \/ (d = c /\ status = Success /\ kd'[d] = TagOf[j])
    BY <1>1, RolloutAssumption DEF RolloutInv, RowTypes, ConcludeCluster, OnlineTag
  <1>10. RecordsWereReady'
    BY <1>3, <1>4, <1>8, <1>9 DEF RolloutInv, RecordsWereReady, WasUp, RolledOut
  <1>11. CopiesWereReady'
    BY <1>4, <1>5 DEF RolloutInv, CopiesWereReady, WasUp, RolledOut
  <1>12. RowTypes' /\ TaskTypes'
    BY <1>4, <1>5, <1>6, <1>7, <1>8, <1>9 DEF RolloutInv, RowTypes, TaskTypes
  <1> QED BY <1>10, <1>11, <1>12 DEF RolloutInv

(* The job is a success only if all its clusters are.                       *)
LEMMA AllUp ==
    ASSUME RolloutInv, NEW j \in Jobs, K8sOutcome({verdict[j][c] : c \in Targets[j]}) = Success
    PROVE  /\ Targets[j] # {} /\ \A c \in Targets[j] : TagOf[j] \in up[c]
           /\ RolledOut(TagOf[j])
  <1>1. Targets[j] # {} /\ \A c \in Targets[j] : verdict[j][c] = Success /\ c \in Clusters
    BY RolloutAssumption DEF K8sOutcome, Success, Failed
  <1>2. \A c \in Targets[j] : TagOf[j] \in up[c]
    BY <1>1 DEF RolloutInv, RecordsWereReady
  <1> QED BY <1>1, <1>2 DEF RolledOut

LEMMA TaskStays ==
    ASSUME RolloutInv, NEW j \in Jobs,
           \/ DeployRead(j) \/ DeployCallback(j) \/ TaskRead(j) \/ Connect(j) \/ ImageSync(j)
           \/ AppDeploy(j) \/ CheckStep(j)
    PROVE  RolloutInv'
  <1>1. at[j] \in Steps /\ stages[j] \in SUBSET {0, Success, Failed} /\ at \in [Jobs -> Steps]
        /\ stages \in [Jobs -> SUBSET {0, Success, Failed}] /\ stages = [stages EXCEPT ![j] = stages[j]]
        /\ at = [at EXCEPT ![j] = at[j]]
    BY DEF RolloutInv, TaskTypes
  <1>2. ASSUME NEW from, NEW status \in {0, Success, Failed}, NEW next \in Steps, Stage(j, from, status, next),
               next # "conclude" \/ status # Success \/ TagOf[j] \in up[cur[j]],
               UNCHANGED <<up, pods, app, kd, cur, verdict, req, held>>
        PROVE  RolloutInv'
    <2>1. PICK to \in Steps : to = (IF status = Success THEN next ELSE "conclude")
      BY DEF Steps
    <2>2. at' = [at EXCEPT ![j] = to] /\ stages' = [stages EXCEPT ![j] = @ \cup {status}]
      BY <1>2, <2>1 DEF Stage, Goes
    <2>3. stages' \in [Jobs -> SUBSET {0, Success, Failed}] /\ status \in stages'[j]
          /\ \A i \in Jobs \ {j} : stages'[i] = stages[i]
      BY <1>1, <2>2
    <2>4. to = "conclude" /\ stages'[j] = {Success} => TagOf[j] \in up[cur[j]]
      BY <1>2, <2>1, <2>3
    <2> QED BY <1>2, <2>2, <2>3, <2>4, TaskGoesOn
  <1>3. ASSUME NEW to \in Steps, at' = [at EXCEPT ![j] = to], to # "conclude",
               held' = held \/ held' = [held EXCEPT ![j] = NoRow] \/ held' = [held EXCEPT ![j] = app],
               UNCHANGED <<up, pods, app, kd, cur, verdict, req, stages>>
        PROVE  RolloutInv'
    BY <1>1, <1>3, TaskGoesOn
  <1>4. CASE DeployRead(j)
    BY <1>3, <1>4 DEF DeployRead, Goes, k8s, Steps
  <1>5. CASE DeployCallback(j)
    <2>1. CASE Goes(j, "request", "queued")
      BY <1>3, <1>5, <2>1 DEF DeployCallback, Goes, k8s, Steps
    <2>2. CASE Goes(j, "request", "unqueued")
      BY <1>3, <1>5, <2>2 DEF DeployCallback, Goes, k8s, Steps, Over
    <2> QED BY <1>5, <2>1, <2>2 DEF DeployCallback
  <1>6. CASE TaskRead(j)
    BY <1>3, <1>6 DEF TaskRead, Goes, k8s, Steps
  <1>7. CASE Connect(j)
    <2>1. CASE Stage(j, "connect", Failed, "conclude")
      BY <1>2, <1>7, <2>1 DEF Connect, k8s, Steps, Success, Failed
    <2>2. CASE Goes(j, "connect", IF j \in Ordered THEN "sync" ELSE "apply") /\ UNCHANGED stages
      BY <1>3, <1>7, <2>2 DEF Connect, k8s, Steps, Goes
    <2> QED BY <1>7, <2>1, <2>2 DEF Connect
  <1>8. CASE ImageSync(j)
    BY <1>2, <1>8 DEF ImageSync, k8s, Steps
  <1>9. CASE AppDeploy(j)
    <2>1. \E status \in {Success, Failed} : Stage(j, "apply", status, "find")
      BY <1>9 DEF AppDeploy
    <2> QED BY <1>2, <1>9, <2>1 DEF AppDeploy, Steps
  <1>10. CASE Found(j)
    BY <1>3, <1>10 DEF Found, Goes, k8s, Steps
  <1>11. CASE NotYetFound(j) \/ ReplicaNotReady(j) \/ RoundFails(j)
    <2>1. at[j] # "conclude" /\ UNCHANGED <<up, pods, app, kd, cur, verdict, req, stages, held, at>>
      BY <1>11 DEF NotYetFound, ReplicaNotReady, RoundFails, k8s
    <2> QED BY <1>1, <1>3, <2>1
  <1>12. CASE NotFound(j)
    BY <1>2, <1>12 DEF NotFound, k8s, Steps, Success
  <1>13. CASE ReplicaReady(j)
    <2>1. cur[j] \in Clusters
      BY DEF RolloutInv, TaskTypes
    <2>2. PICK t \in pods[cur[j]] : SeenTag(j, t)
      BY <1>13 DEF ReplicaReady, IsReady
    <2>3. t = TagOf[j] /\ t \in up[cur[j]]
      BY <1>13, <2>1, <2>2 DEF ReplicaReady, Mismatch, RolloutInv, RowTypes, CopiesWereReady
    <2> QED BY <1>2, <1>13, <2>3 DEF ReplicaReady, k8s, Steps
  <1>14. CASE CheckFails(j)
    BY <1>2, <1>14 DEF CheckFails, k8s, Steps, Success, Failed
  <1>15. CASE CheckRaises(j)
    BY <1>2, <1>15 DEF CheckRaises, k8s, Steps, Success
  <1> QED BY <1>4, <1>5, <1>6, <1>7, <1>8, <1>9, <1>10, <1>11, <1>12, <1>13, <1>14, <1>15 DEF CheckStep

LEMMA RowsMove ==
    ASSUME RolloutInv, NEW j \in Jobs, DeployHandle(j) \/ TaskMark(j) \/ EndRollout(j) \/ Killed(j)
    PROVE  RolloutInv'
  <1>1. held[j] \in Row /\ app \in Row /\ TagOf[j] \in Tags /\ WasUp(app.version)
        /\ WasUp(held[j].version) /\ at \in [Jobs -> Steps]
    BY RolloutAssumption, NamesWereUp DEF RolloutInv, RowTypes, TaskTypes
  <1>2. req \in [Clients -> OfflineCall] /\ cur \in [Jobs -> Clusters]
        /\ stages \in [Jobs -> SUBSET {0, Success, Failed}]
    BY DEF RolloutInv, RowTypes, TaskTypes
  <1>a. \A to \in Steps : [at EXCEPT ![j] = to] \in [Jobs -> Steps]
    BY <1>1
  <1>b. \A to \in Steps \ {"conclude"} : \A i \in Jobs : [at EXCEPT ![j] = to][i] = "conclude" => i # j /\ at[i] = "conclude"
    BY <1>1
  <1>3. CASE DeployHandle(j)
    <2>1. app' \in Row /\ app'.version \in {app.version, held[j].version}
      BY <1>1, <1>3 DEF DeployHandle, Row, OnlineStates
    <2>2. WasUp(app'.version)
      BY <1>1, <2>1
    <2>3. at' = [at EXCEPT ![j] = "queued"] /\ "queued" \in Steps \ {"conclude"}
      BY <1>3 DEF DeployHandle, Goes, Steps
    <2>4. UNCHANGED <<up, pods, kd, verdict, cur, stages, req>> /\ held' = [held EXCEPT ![j] = NoRow]
      BY <1>3 DEF DeployHandle, k8s
    <2> QED BY <1>2, <1>a, <1>b, <2>1, <2>2, <2>3, <2>4, RowSaved
  <1>4. CASE TaskMark(j)
    <2>1. app' \in Row /\ app'.version = app.version
      BY <1>1, <1>4 DEF TaskMark, Row, OnlineStates
    <2>2. PICK to \in {"connect", "crashed", "failed"} : at' = [at EXCEPT ![j] = to]
      BY <1>4 DEF TaskMark, Goes
    <2>3. to \in Steps \ {"conclude"}
      BY DEF Steps, Over
    <2>4. cur' \in [Jobs -> Clusters] /\ \A i \in Jobs \ {j} : cur'[i] = cur[i]
      BY <1>2, <1>4 DEF TaskMark
    <2>5. UNCHANGED <<up, pods, kd, verdict, stages, req, held>>
      BY <1>4 DEF TaskMark, k8s
    <2>6. WasUp(app'.version)
      BY <1>1, <2>1
    <2> QED BY <1>2, <1>a, <1>b, <2>1, <2>2, <2>3, <2>4, <2>5, <2>6, RowSaved
  <1>5. CASE EndRollout(j)
    <2> DEFINE outcome == K8sOutcome({verdict[j][c] : c \in Targets[j]})
    <2>1. app' = IF outcome = Success THEN [held[j] EXCEPT !.version = TagOf[j]] ELSE app
      BY <1>5 DEF EndRollout
    <2>2. app' \in Row /\ WasUp(app'.version)
      <3>1. CASE outcome = Success
        BY <1>1, <2>1, <3>1, AllUp DEF Row, OnlineTag, WasUp
      <3>2. CASE outcome # Success
        BY <1>1, <2>1, <3>2
      <3> QED BY <3>1, <3>2
    <2>3. PICK to \in {"succeeded", "failed"} : at' = [at EXCEPT ![j] = to]
      BY <1>5 DEF EndRollout, Goes
    <2>4. to \in Steps \ {"conclude"}
      BY DEF Steps, Over
    <2>5. UNCHANGED <<up, pods, kd, verdict, cur, stages, req>> /\ held' = [held EXCEPT ![j] = NoRow]
      BY <1>5 DEF EndRollout, k8s
    <2> QED BY <1>2, <1>a, <1>b, <2>2, <2>3, <2>4, <2>5, RowSaved
  <1>6. CASE Killed(j)
    <2>1. at' = [at EXCEPT ![j] = "killed"] /\ "killed" \in Steps \ {"conclude"}
      BY <1>6 DEF Killed, Steps, Over
    <2>2. stages' \in [Jobs -> SUBSET {0, Success, Failed}] /\ \A i \in Jobs \ {j} : stages'[i] = stages[i]
      BY <1>2, <1>6 DEF Killed
    <2>3. UNCHANGED <<up, pods, app, kd, verdict, cur, req>> /\ held' = [held EXCEPT ![j] = NoRow]
      BY <1>6 DEF Killed, k8s
    <2> QED BY <1>1, <1>2, <1>a, <1>b, <2>1, <2>2, <2>3, RowSaved
  <1> QED BY <1>3, <1>4, <1>5, <1>6

LEMMA KubernetesMoves ==
    ASSUME RolloutInv, NEW c \in Clusters, K8sStep(c)
    PROVE  RolloutInv'
  <1>1. pods \in [Clusters -> SUBSET Tags] /\ up \in [Clusters -> SUBSET Tags] /\ \A d \in Clusters : pods[d] \subseteq up[d]
        /\ req \in [Clients -> OfflineCall]
    BY DEF RolloutInv, RowTypes, CopiesWereReady
  <1>2. CASE Observe(c)
    BY <1>1, <1>2, ClusterMoves DEF Observe
  <1>3. CASE PodsReady(c)
    <2>1. PICK t \in Tags : pods' = [pods EXCEPT ![c] = @ \cup {t}] /\ up' = [up EXCEPT ![c] = @ \cup {t}]
      BY <1>3 DEF PodsReady
    <2>2. pods' \in [Clusters -> SUBSET Tags] /\ up' \in [Clusters -> SUBSET Tags]
          /\ \A d \in Clusters : pods'[d] \subseteq up'[d] /\ up[d] \subseteq up'[d]
      BY <1>1, <2>1
    <2> QED BY <1>1, <1>3, <2>2, ClusterMoves DEF PodsReady
  <1>4. CASE ScaleDown(c)
    <2>1. spec[c] \in pods[c] /\ pods' = [pods EXCEPT ![c] = {spec[c]}] /\ up' = up
      BY <1>4 DEF ScaleDown
    <2>2. pods' \in [Clusters -> SUBSET Tags] /\ \A d \in Clusters : pods'[d] \subseteq up'[d] /\ up[d] \subseteq up'[d]
      BY <1>1, <2>1
    <2> QED BY <1>1, <1>4, <2>1, <2>2, ClusterMoves DEF ScaleDown
  <1> QED BY <1>2, <1>3, <1>4 DEF K8sStep

LEMMA OfflineMoves ==
    ASSUME RolloutInv, NEW k \in Clients, OfflineStep(k)
    PROVE  RolloutInv'
  <1>0. pods \in [Clusters -> SUBSET Tags] /\ up \in [Clusters -> SUBSET Tags] /\ \A d \in Clusters : pods[d] \subseteq up[d]
    BY DEF RolloutInv, RowTypes, CopiesWereReady
  <1>1. req \in [Clients -> OfflineCall] /\ app \in Row /\ WasUp(app.version) /\ NoRow \in Row
        /\ WasUp(req[k].held.version) /\ req[k] \in OfflineCall
    BY NamesWereUp DEF RolloutInv, RowTypes, NoRow, Row, OnlineStates, OnlineTag
  <1>a. \A call \in OfflineCall :
           /\ call.held \in Row
           /\ [call EXCEPT !.at = "done"] \in OfflineCall /\ [call EXCEPT !.at = "done"].held = call.held
    BY <1>1 DEF OfflineCall
  <1>b. \A c \in Clusters : [at |-> "save", held |-> app, cluster |-> c] \in OfflineCall
    BY <1>1 DEF OfflineCall
  <1>2. ASSUME NEW c \in Clusters, OfflineRead(k, c)
        PROVE  RolloutInv'
    <2>1. req' \in [Clients -> OfflineCall] /\ \A l \in Clients : req'[l].held = req[l].held \/ req'[l].held = app
      BY <1>1, <1>b, <1>2 DEF OfflineRead
    <2>2. \A l \in Clients : WasUp(req'[l].held.version)
      BY <1>1, <2>1 DEF RolloutInv, CopiesWereReady
    <2>3. UNCHANGED <<up, pods, app, kd, at, held, cur, stages, verdict>>
      BY <1>2 DEF OfflineRead, k8s, task
    <2> QED BY <2>1, <2>2, <2>3 DEF RolloutInv, RowTypes, TaskTypes, CopiesWereReady, RecordsWereReady, WasUp, RolledOut
  <1>3. CASE OfflineSave(k)
    <2>1. PICK to \in {"waiting", "done"} :
             req' = [req EXCEPT ![k] = [at |-> to, held |-> NoRow, cluster |-> req[k].cluster]]
      BY <1>3 DEF OfflineSave
    <2>2. req' \in [Clients -> OfflineCall] /\ \A l \in Clients : req'[l].held = req[l].held \/ req'[l].held = NoRow
      <3>1. [at |-> to, held |-> NoRow, cluster |-> req[k].cluster] \in OfflineCall
        BY <1>1 DEF OfflineCall
      <3> QED BY <1>1, <2>1, <3>1
    <2>3. app' \in Row /\ app'.version = req[k].held.version
      <3>1. app' = [req[k].held EXCEPT !.online = 10] /\ req[k].held \in Row
        BY <1>1, <1>a, <1>3, Zenon DEF OfflineSave
      <3> QED BY <3>1 DEF Row, OnlineStates
    <2>4. /\ at \in [Jobs -> Steps] /\ cur \in [Jobs -> Clusters]
          /\ stages \in [Jobs -> SUBSET {0, Success, Failed}]
      BY DEF RolloutInv, TaskTypes
    <2>5. UNCHANGED <<up, pods, kd, at, held, cur, stages, verdict>>
      BY <1>3 DEF OfflineSave, k8s, task
    <2> QED BY <1>1, <2>2, <2>3, <2>4, <2>5, RowSaved
  <1>4. CASE ResourceDelete(k)
    <2>0. req' = [req EXCEPT ![k].at = "done"]
      BY <1>4, Zenon DEF ResourceDelete
    <2>1. req' \in [Clients -> OfflineCall] /\ \A l \in Clients : req'[l].held = req[l].held
      <3>1. \A l \in Clients \ {k} : req'[l] = req[l]
        BY <1>1, <2>0
      <3>2. req'[k] = [req[k] EXCEPT !.at = "done"]
        BY <1>1, <2>0
      <3>3. req'[k] \in OfflineCall /\ req'[k].held = req[k].held
        BY <1>1, <1>a, <3>2
      <3>4. req' = [l \in Clients |-> req'[l]]
        BY <1>1, <2>0
      <3> QED BY <1>1, <3>1, <3>3, <3>4
    <2>2. pods' \in [Clusters -> SUBSET Tags] /\ \A d \in Clusters : pods'[d] \subseteq pods[d]
      BY <1>0, <1>4 DEF ResourceDelete
    <2> QED BY <1>0, <1>4, <2>1, <2>2, ClusterMoves DEF ResourceDelete
  <1> QED BY <1>2, <1>3, <1>4 DEF OfflineStep

LEMMA RolloutStep == RolloutInv /\ [RolloutNext]_rolloutVars => RolloutInv'
  <1> SUFFICES ASSUME RolloutInv, RolloutNext \/ UNCHANGED rolloutVars PROVE RolloutInv'
    OBVIOUS
  <1>1. CASE \E c \in Clusters : K8sStep(c)
    BY <1>1, KubernetesMoves
  <1>2. CASE \E j \in Jobs : DeployRead(j) \/ DeployHandle(j) \/ DeployCallback(j) \/ TaskStep(j) \/ Killed(j)
    BY <1>2, TaskStays, RowsMove, ClusterConcluded DEF TaskStep
  <1>3. CASE \E k \in Clients : OfflineStep(k)
    BY <1>3, OfflineMoves
  <1>4. CASE UNCHANGED rolloutVars
    BY <1>4 DEF rolloutVars, k8s, task, RolloutInv, RowTypes, TaskTypes, CopiesWereReady, RecordsWereReady, WasUp, RolledOut
  <1> QED BY <1>1, <1>2, <1>3, <1>4 DEF RolloutNext, RolloutDone

(* Whatever other deployments, deletions and Kubernetes do between two of   *)
(* its calls, a rollout records no cluster's success and no row a version   *)
(* whose replicas have not been ready there.                                *)
THEOREM RolloutRecordsTrue == RolloutSafe => []RecordsWereReady
  <1>1. RolloutInv => RecordsWereReady
    BY DEF RolloutInv
  <1> QED BY <1>1, RolloutStart, RolloutStep, PTL DEF RolloutSafe

-----------------------------------------------------------------------------
(* What Kubernetes numbers.  On each cluster one of the replica sets has    *)
(* the highest revision, or there is none: the next one is a number.        *)
HasHighest(numbers) ==
    \/ \A t \in Tags : numbers[t] = 0
    \/ \E m \in Tags : \A t \in Tags : numbers[t] <= numbers[m]

ClusterNumbers ==
    /\ spec \in [Clusters -> OnlineTag] /\ rev \in [Clusters -> Nat]
    /\ sets \in [Clusters -> [Tags -> Nat]]
    /\ \A c \in Clusters : HasHighest(sets[c])

CheckNumbers == seen \in [Jobs -> Nat] /\ polls \in [Jobs -> Nat] /\ rounds \in [Jobs -> Nat]

NumbersInv == RolloutInv /\ ClusterNumbers /\ CheckNumbers

LEMMA NextIsHigher ==
    ASSUME ClusterNumbers, NEW c \in Clusters
    PROVE  NextRevision(c) \in Nat /\ \A t \in Tags : sets[c][t] <= NextRevision(c)
  <1>1. sets[c] \in [Tags -> Nat] /\ HasHighest(sets[c])
    BY DEF ClusterNumbers
  <1>2. CASE \A t \in Tags : sets[c][t] = 0
    BY <1>2 DEF NextRevision
  <1>3. CASE ~\A t \in Tags : sets[c][t] = 0
    <2> DEFINE top == CHOOSE n \in {sets[c][t] : t \in Tags} : \A t \in Tags : sets[c][t] <= n
    <2>1. \E n \in {sets[c][t] : t \in Tags} : \A t \in Tags : sets[c][t] <= n
      BY <1>1, <1>3 DEF HasHighest
    <2>2. top \in {sets[c][t] : t \in Tags} /\ \A t \in Tags : sets[c][t] <= top
      BY <2>1
    <2>3. NextRevision(c) = 1 + top
      BY <1>3 DEF NextRevision
    <2> HIDE DEF top
    <2>4. top \in Nat
      BY <1>1, <2>2
    <2> QED BY <1>1, <2>2, <2>3, <2>4
  <1> QED BY <1>2, <1>3

LEMMA NumbersStart == RolloutInit => ClusterNumbers /\ CheckNumbers
  BY DEF RolloutInit, ClusterNumbers, CheckNumbers, HasHighest, OnlineTag

LEMMA ClusterNumbered ==
    ASSUME NumbersInv, NEW c \in Clusters, K8sStep(c)
    PROVE  ClusterNumbers' /\ CheckNumbers'
  <1>1. CheckNumbers'
    BY DEF NumbersInv, CheckNumbers, K8sStep, Observe, PodsReady, ScaleDown, task
  <1>2. CASE PodsReady(c) \/ ScaleDown(c)
    <2>1. UNCHANGED <<spec, rev, sets>>
      BY <1>2 DEF PodsReady, ScaleDown
    <2> QED BY <1>1, <2>1 DEF NumbersInv, ClusterNumbers
  <1>3. CASE Observe(c)
    <2> DEFINE n == NextRevision(c)
    <2>1. n \in Nat /\ (\A t \in Tags : sets[c][t] <= n) /\ sets \in [Clusters -> [Tags -> Nat]]
          /\ spec[c] \in Tags /\ spec' = spec /\ rev \in [Clusters -> Nat] /\ spec \in [Clusters -> OnlineTag]
      BY <1>3, NextIsHigher DEF NumbersInv, ClusterNumbers, Observe, OnlineTag
    <2>2. rev' = [rev EXCEPT ![c] = n] /\ sets' = [sets EXCEPT ![c][spec[c]] = n]
      BY <1>3 DEF Observe
    <2> HIDE DEF n
    <2>3. rev' \in [Clusters -> Nat] /\ sets' \in [Clusters -> [Tags -> Nat]]
      BY <2>1, <2>2
    <2>4. ASSUME NEW d \in Clusters PROVE HasHighest(sets'[d])
      <3>1. CASE d = c
        <4>1. sets'[c][spec[c]] = n /\ \A t \in Tags : sets'[c][t] <= n
          BY <2>1, <2>2
        <4> QED BY <2>1, <3>1, <4>1 DEF HasHighest
      <3>2. CASE d # c
        <4>1. sets'[d] = sets[d]
          BY <2>1, <2>2, <3>2
        <4> QED BY <4>1 DEF NumbersInv, ClusterNumbers
      <3> QED BY <3>1, <3>2
    <2> QED BY <1>1, <2>1, <2>3, <2>4 DEF ClusterNumbers
  <1> QED BY <1>1, <1>2, <1>3 DEF K8sStep

LEMMA TaskNumbered ==
    ASSUME NumbersInv, NEW j \in Jobs,
           DeployRead(j) \/ DeployHandle(j) \/ DeployCallback(j) \/ TaskStep(j) \/ Killed(j)
    PROVE  ClusterNumbers' /\ CheckNumbers'
  <1>1. /\ ClusterNumbers /\ CheckNumbers /\ cur[j] \in Clusters /\ rev[cur[j]] \in Nat /\ TagOf[j] \in OnlineTag
        /\ FindPolls \in Nat /\ ReplicaPolls \in Nat /\ CheckCount \in Nat
    BY RolloutAssumption DEF NumbersInv, RolloutInv, TaskTypes, ClusterNumbers, OnlineTag
  <1>2. CASE AppDeploy(j)
    <2>1. spec' \in [Clusters -> OnlineTag] /\ rev' \in [Clusters -> Nat]
      BY <1>1, <1>2 DEF AppDeploy, Applied, ClusterNumbers
    <2>2. UNCHANGED <<sets, seen, rounds>> /\ polls' \in [Jobs -> Nat]
      BY <1>1, <1>2 DEF AppDeploy, CheckNumbers
    <2> QED BY <1>1, <2>1, <2>2 DEF ClusterNumbers, CheckNumbers
  <1>3. CASE ~AppDeploy(j)
    <2>1. UNCHANGED <<spec, rev, sets>>
      BY <1>3 DEF DeployRead, DeployHandle, DeployCallback, TaskStep, CheckStep, TaskRead, TaskMark, Connect, ImageSync,
         Found, NotYetFound, NotFound, ReplicaReady, ReplicaNotReady, RoundFails, CheckFails, CheckRaises,
         ConcludeCluster, EndRollout, Killed, k8s
    <2>2. CheckNumbers'
      <3>1. CASE Found(j) \/ NotYetFound(j) \/ ReplicaNotReady(j) \/ RoundFails(j) \/ ConcludeCluster(j) \/ Killed(j)
        BY <1>1, <3>1 DEF Found, NotYetFound, ReplicaNotReady, RoundFails, ConcludeCluster, Killed, CheckNumbers
      <3>2. CASE \/ DeployRead(j) \/ DeployHandle(j) \/ DeployCallback(j) \/ TaskRead(j) \/ TaskMark(j)
                 \/ Connect(j) \/ ImageSync(j) \/ NotFound(j) \/ ReplicaReady(j) \/ CheckFails(j)
                 \/ CheckRaises(j) \/ EndRollout(j)
        BY <1>1, <3>2 DEF DeployRead, DeployHandle, DeployCallback, TaskRead, TaskMark, Connect, ImageSync,
           NotFound, ReplicaReady, CheckFails, CheckRaises, EndRollout, CheckNumbers
      <3> QED BY <1>3, <3>1, <3>2 DEF TaskStep, CheckStep
    <2> QED BY <1>1, <2>1, <2>2 DEF ClusterNumbers
  <1> QED BY <1>2, <1>3

LEMMA OfflineNumbered ==
    ASSUME NumbersInv, NEW k \in Clients, OfflineStep(k)
    PROVE  ClusterNumbers' /\ CheckNumbers'
  <1>1. ClusterNumbers /\ CheckNumbers /\ req[k].cluster \in Clusters
    BY DEF NumbersInv, RolloutInv, RowTypes, OfflineCall
  <1>2. CheckNumbers'
    BY <1>1 DEF CheckNumbers, OfflineStep, OfflineRead, OfflineSave, ResourceDelete, task
  <1>3. CASE UNCHANGED <<spec, rev, sets>>
    BY <1>1, <1>2, <1>3 DEF ClusterNumbers
  <1>4. CASE ResourceDelete(k) /\ ~UNCHANGED <<spec, rev, sets>>
    <2>1. PICK c \in Clusters : /\ spec' = [spec EXCEPT ![c] = NoTag] /\ rev' = [rev EXCEPT ![c] = 0]
                               /\ sets' = [sets EXCEPT ![c] = [t \in Tags |-> 0]]
      BY <1>1, <1>4 DEF ResourceDelete
    <2>2. spec' \in [Clusters -> OnlineTag] /\ rev' \in [Clusters -> Nat]
      BY <1>1, <2>1 DEF ClusterNumbers, OnlineTag
    <2>3. sets' \in [Clusters -> [Tags -> Nat]]
      BY <1>1, <2>1 DEF ClusterNumbers
    <2>4. \A d \in Clusters : HasHighest(sets'[d])
      <3>1. HasHighest([t \in Tags |-> 0])
        BY DEF HasHighest
      <3> QED BY <1>1, <2>1, <3>1 DEF ClusterNumbers
    <2> QED BY <1>2, <2>2, <2>3, <2>4 DEF ClusterNumbers
  <1> QED BY <1>3, <1>4 DEF OfflineStep, OfflineRead, OfflineSave, k8s

LEMMA NumbersStep == NumbersInv /\ [RolloutNext]_rolloutVars => NumbersInv'
  <1> SUFFICES ASSUME NumbersInv, RolloutNext \/ UNCHANGED rolloutVars PROVE NumbersInv'
    OBVIOUS
  <1>1. RolloutInv'
    BY RolloutStep DEF NumbersInv
  <1>2. CASE UNCHANGED rolloutVars
    BY <1>1, <1>2 DEF rolloutVars, k8s, task, NumbersInv, ClusterNumbers, CheckNumbers
  <1>3. CASE RolloutNext
    BY <1>1, <1>2, <1>3, ClusterNumbered, TaskNumbered, OfflineNumbered DEF RolloutNext, RolloutDone, NumbersInv
  <1> QED BY <1>2, <1>3

(* Every variable keeps its type: among them the counters of the polls,     *)
(* which never get below zero, and the revisions.                           *)
THEOREM RolloutTypes == RolloutSafe => []RolloutTypeOK
  <1>1. NumbersInv => RolloutTypeOK
    BY DEF NumbersInv, RolloutInv, RowTypes, TaskTypes, ClusterNumbers, CheckNumbers, OfflineCall, RolloutTypeOK
  <1>2. RolloutInit => NumbersInv
    BY RolloutStart, NumbersStart DEF NumbersInv
  <1> QED BY <1>1, <1>2, NumbersStep, PTL DEF RolloutSafe

-----------------------------------------------------------------------------
(* The promise: a step of one job changes its phase as RolloutPromise has   *)
(* it or not at all, and success comes only from its last step.             *)
Phases == [j \in Jobs |-> Phase(j)]

LEMMA PhaseOf ==
    ASSUME RolloutInv, NEW j \in Jobs, NEW to \in Steps, at' = [at EXCEPT ![j] = to]
    PROVE  /\ at'[j] = to
           /\ \A i \in Jobs \ {j} : Phases'[i] = Phases[i]
           /\ Phases' = [Phases EXCEPT ![j] = Phases'[j]]
  <1>1. at'[j] = to /\ \A i \in Jobs \ {j} : at'[i] = at[i]
    BY DEF RolloutInv, TaskTypes
  <1>2. \A i \in Jobs \ {j} : Phases'[i] = Phases[i]
    BY <1>1 DEF Phases, Phase
  <1>3. Phases = [i \in Jobs |-> Phases[i]] /\ Phases' = [i \in Jobs |-> Phases'[i]]
    BY DEF Phases
  <1> QED BY <1>1, <1>2, <1>3

LEMMA SamePhase ==
    ASSUME RolloutInv, NEW j \in Jobs, NEW to \in Steps, at' = [at EXCEPT ![j] = to], up' = up,
           \/ at[j] \in {"new", "request", "queued"} /\ to \in {"request", "queued", "unqueued"}
           \/ Running(j) /\ to \notin (Over \ {"killed"}) \cup {"new", "request", "queued"}
    PROVE  UNCHANGED <<Phases, up>>
  <1>1. Phases'[j] = Phases[j]
    BY PhaseOf DEF Phases, Phase, Running, Over
  <1> QED BY <1>1, PhaseOf DEF Phases

LEMMA TaskKeepsPhase ==
    ASSUME RolloutInv, NEW j \in Jobs,
           \/ DeployRead(j) \/ DeployHandle(j) \/ DeployCallback(j) \/ Connect(j) \/ ImageSync(j)
           \/ AppDeploy(j) \/ CheckStep(j) \/ ConcludeCluster(j) \/ Killed(j)
    PROVE  UNCHANGED <<Phases, up>>
  <1>1. at = [at EXCEPT ![j] = at[j]] /\ at[j] \in Steps
    BY DEF RolloutInv, TaskTypes
  <1>2. up' = up
    BY DEF Killed, DeployRead, DeployHandle, DeployCallback, Connect, ImageSync, AppDeploy, CheckStep, ConcludeCluster,
           Found, NotYetFound, NotFound, ReplicaReady, ReplicaNotReady, RoundFails, CheckFails, CheckRaises, k8s
  <1>3. CASE DeployRead(j) \/ DeployHandle(j) \/ DeployCallback(j)
    <2>1. PICK to \in {"request", "queued", "unqueued"} : at[j] \in {"new", "request"} /\ at' = [at EXCEPT ![j] = to]
      BY <1>3 DEF DeployRead, DeployHandle, DeployCallback, Goes
    <2> QED BY <1>2, <2>1, SamePhase DEF Steps, Over
  <1>4. CASE Connect(j) \/ ImageSync(j) \/ AppDeploy(j) \/ CheckStep(j) \/ ConcludeCluster(j)
    <2> DEFINE Between == {"connect", "sync", "apply", "find", "poll", "conclude", "end"}
    <2>1. at[j] \in Between /\ \E to \in Between : at' = [at EXCEPT ![j] = to]
      <3>1. ASSUME NEW from \in Between, NEW next \in Between, NEW status, Stage(j, from, status, next)
            PROVE  at[j] \in Between /\ \E to \in Between : at' = [at EXCEPT ![j] = to]
        BY <3>1 DEF Stage, Goes
      <3>2. CASE Connect(j)
        BY <3>1, <3>2 DEF Connect, Goes
      <3>3. CASE ImageSync(j) \/ AppDeploy(j)
        BY <3>1, <3>3 DEF ImageSync, AppDeploy
      <3>4. CASE Found(j) \/ ConcludeCluster(j)
        BY <3>4 DEF Found, ConcludeCluster, Goes
      <3>5. CASE NotYetFound(j) \/ ReplicaNotReady(j) \/ RoundFails(j)
        BY <1>1, <3>5 DEF NotYetFound, ReplicaNotReady, RoundFails
      <3>6. CASE NotFound(j) \/ ReplicaReady(j) \/ CheckFails(j) \/ CheckRaises(j)
        BY <3>1, <3>6 DEF NotFound, ReplicaReady, CheckFails, CheckRaises
      <3> QED BY <1>4, <3>2, <3>3, <3>4, <3>5, <3>6 DEF CheckStep
    <2>2. Running(j)
      BY <2>1 DEF Running, Over
    <2> QED BY <1>2, <2>1, <2>2, SamePhase DEF Steps, Over
  <1>5. CASE Killed(j)
    BY <1>2, <1>5, SamePhase DEF Killed, Steps, Over
  <1> QED BY <1>3, <1>4, <1>5

LEMMA PhaseBecomes ==
    ASSUME RolloutInv, NEW j \in Jobs, NEW step \in Steps, at' = [at EXCEPT ![j] = step],
           NEW from, NEW to, Phases[j] = from, at'[j] = step => Phases'[j] = to
    PROVE  P!Becomes(j, from, to)
  <1>0. Phases' = [Phases EXCEPT ![j] = to]
    <2>1. Phases' = [Phases EXCEPT ![j] = Phases'[j]] /\ Phases'[j] = to
      BY PhaseOf
    <2> QED BY <2>1
  <1>1. [i \in Jobs |-> Phase(i)][j] = from
    BY DEF Phases
  <1>2. [i \in Jobs |-> Phase(i)]' = [[i \in Jobs |-> Phase(i)] EXCEPT ![j] = to]
    BY <1>0 DEF Phases
  <1> QED BY <1>1, <1>2 DEF P!Becomes

LEMMA PromiseStart == RolloutInit => P!PromiseInit
  BY DEF RolloutInit, P!PromiseInit, Phase

LEMMA PromiseStep ==
    RolloutInv /\ [RolloutNext]_rolloutVars => [P!PromiseNext]_(P!promiseVars)
  <1> SUFFICES ASSUME RolloutInv, RolloutNext \/ UNCHANGED rolloutVars
               PROVE  P!PromiseNext \/ UNCHANGED <<Phases, up>>
    BY DEF P!promiseVars, Phases
  <1>1. ASSUME UNCHANGED at, up' \in [Clusters -> SUBSET Tags], \A c \in Clusters : up[c] \subseteq up'[c]
        PROVE  P!PromiseNext
    BY <1>1 DEF P!PromiseNext, P!ComeUp, Phase
  <1>2. CASE \E c \in Clusters : K8sStep(c)
    <2>1. RolloutInv'
      BY <1>2, KubernetesMoves
    <2>2. UNCHANGED at /\ \A c \in Clusters : up[c] \subseteq up'[c]
      BY <1>2 DEF K8sStep, Observe, PodsReady, ScaleDown, task, RolloutInv, RowTypes
    <2> QED BY <1>1, <2>1, <2>2 DEF RolloutInv, RowTypes
  <1>3. CASE \E k \in Clients : OfflineStep(k)
    <2>1. UNCHANGED <<at, up>>
      BY <1>3 DEF OfflineStep, OfflineRead, OfflineSave, ResourceDelete, task, k8s
    <2> QED BY <2>1 DEF Phases, Phase
  <1>4. ASSUME NEW j \in Jobs, TaskRead(j)
        PROVE  P!PromiseNext
    <2>1. at[j] = "queued" /\ at' = [at EXCEPT ![j] = "mark"] /\ up' = up
      BY <1>4 DEF TaskRead, Goes, k8s
    <2>2. Phases[j] = "waiting" /\ (at'[j] = "mark" => Phases'[j] = "running") /\ "mark" \in Steps
      BY <2>1 DEF Phases, Phase, Steps
    <2>3. P!Begin(j)
      BY <2>1, <2>2, PhaseBecomes DEF P!Begin
    <2> QED BY <2>3 DEF P!PromiseNext
  <1>5. ASSUME NEW j \in Jobs, TaskMark(j)
        PROVE  P!PromiseNext \/ UNCHANGED <<Phases, up>>
    <2>1. at[j] = "mark" /\ up' = up /\ (\/ at' = [at EXCEPT ![j] = "connect"]
                                          \/ \E to \in {"crashed", "failed"} : at' = [at EXCEPT ![j] = to])
      BY <1>5 DEF TaskMark, Goes, k8s
    <2>2. CASE at' = [at EXCEPT ![j] = "connect"]
      BY <2>1, <2>2, SamePhase DEF Steps, Over, Running
    <2>3. ASSUME NEW to \in {"crashed", "failed"}, at' = [at EXCEPT ![j] = to]
          PROVE  P!PromiseNext
      <3>1. Phases[j] = "running" /\ (at'[j] = to => Phases'[j] = "failed") /\ to \in Steps
        BY <2>1 DEF Phases, Phase, Steps, Over
      <3>2. P!Fail(j)
        BY <2>1, <2>3, <3>1, PhaseBecomes DEF P!Fail
      <3> QED BY <3>2 DEF P!PromiseNext
    <2> QED BY <2>1, <2>2, <2>3
  <1>6. ASSUME NEW j \in Jobs, EndRollout(j)
        PROVE  P!PromiseNext
    <2> DEFINE outcome == K8sOutcome({verdict[j][c] : c \in Targets[j]})
    <2>1. at[j] = "end" /\ up' = up /\ at' = [at EXCEPT ![j] = IF outcome = Success THEN "succeeded" ELSE "failed"]
      BY <1>6 DEF EndRollout, Goes, k8s
    <2>2. CASE outcome = Success
      <3>1. Phases[j] = "running" /\ (at'[j] = "succeeded" => Phases'[j] = "succeeded") /\ "succeeded" \in Steps
        BY <2>1 DEF Phases, Phase, Steps, Over
      <3>2. P!Succeed(j)
        BY <2>1, <2>2, <3>1, AllUp, PhaseBecomes DEF P!Succeed
      <3> QED BY <3>2 DEF P!PromiseNext
    <2>3. CASE outcome # Success
      <3>1. Phases[j] = "running" /\ (at'[j] = "failed" => Phases'[j] = "failed") /\ "failed" \in Steps
        BY <2>1 DEF Phases, Phase, Steps, Over
      <3>2. P!Fail(j)
        BY <2>1, <2>3, <3>1, PhaseBecomes DEF P!Fail
      <3> QED BY <3>2 DEF P!PromiseNext
    <2> QED BY <2>2, <2>3
  <1>7. CASE \E j \in Jobs : DeployRead(j) \/ DeployHandle(j) \/ DeployCallback(j) \/ TaskStep(j) \/ Killed(j)
    BY <1>4, <1>5, <1>6, <1>7, TaskKeepsPhase DEF TaskStep
  <1>8. CASE RolloutDone \/ UNCHANGED rolloutVars
    <2>1. UNCHANGED <<at, up>>
      BY <1>8 DEF RolloutDone, rolloutVars, task, k8s
    <2> QED BY <2>1 DEF Phases, Phase
  <1> QED BY <1>2, <1>3, <1>7, <1>8 DEF RolloutNext

(* The rollout implements the promise: a deployment ends at most once, and  *)
(* as a success only if its image has been ready on every cluster it is for.*)
THEOREM RolloutKeepsPromise == RolloutSafe => KeepsPromise
  BY RolloutStart, RolloutStep, PromiseStart, PromiseStep, PTL DEF RolloutSafe, KeepsPromise, P!Promise
=============================================================================
