---------------------------- MODULE DeployStatus ----------------------------
(***************************************************************************)
(* Status codes of jobs, applications and publish orders, and the pure     *)
(* rules that derive one status from others: a cluster's from its stages,  *)
(* a job's from its clusters or hosts, an order's from its applications.   *)
(***************************************************************************)
EXTENDS Integers, FiniteSets

\* G_ORDER_STATUS and G_CD_STATUS share these codes.
Waiting     == 0
Success     == 1
Failed      == 2
Deploying   == 3
Voided      == 4    \* of an application or an order; "timed out" of a job
PartSuccess == 11   \* some hosts still to be deployed, the others succeeded
PartFailed  == 12

OrderStatus == {Waiting, Success, Failed, Deploying, Voided}
Outcomes    == {Success, Failed, PartSuccess, PartFailed}
AppStatus   == OrderStatus \cup Outcomes
JobStatus   == {Waiting, Deploying} \cup Outcomes

Kinds == {"k8s", "jar", "web"}

-----------------------------------------------------------------------------
(* Slip: a stage that never got a status is no failure.                     *)
ClusterStatusNoneFailed(stages) ==
    IF stages \cap {Failed, 4} = {} THEN Success
    ELSE IF 4 \in stages THEN 4 ELSE Failed

(* K8sDeploy.generate_deploy_status: one cluster, from its stage statuses.  *)
ClusterStatus(stages) ==
    IF stages = {Success} THEN Success
    ELSE IF 4 \in stages THEN 4 ELSE Failed

(* K8sDeploys.run: the job, from the statuses of its clusters.              *)
K8sOutcome(clusters) == IF clusters = {Success} THEN Success ELSE Failed

(* JarDeploy.run: the job, from the playbook's result.  A playbook that     *)
(* reports a failed or unreachable host ends the run at once; otherwise 10  *)
(* is added when the application has hosts this job did not reach.  What    *)
(* the results stand for is HostRollout's matter.                            *)
JarOutcome(result, hostsLeft) ==
    CASE result = "unreachable" -> Failed
      [] result = "ok"      -> Success + (IF hostsLeft THEN 10 ELSE 0)
      [] result = "unmatched" -> Failed  + (IF hostsLeft THEN 10 ELSE 0)

(* WebDeploy.run never looks for hosts left over.                           *)
WebOutcome(result) == IF result = "ok" THEN Success ELSE Failed

PlaybookResults == {"ok", "unmatched", "unreachable"}

OutcomesOf(kind) ==
    CASE kind = "k8s" -> {K8sOutcome(S) : S \in SUBSET {Success, Failed}}
      [] kind = "jar" -> {JarOutcome(r, h) : r \in PlaybookResults, h \in BOOLEAN}
      [] kind = "web" -> {WebOutcome(r) : r \in PlaybookResults}

-----------------------------------------------------------------------------
(* The order's status from the set of its applications' statuses, as the    *)
(* three kinds of task compute it when their own application has ended.     *)
Conclude(statuses, unfinished) ==
    IF statuses = {Success} THEN Success
    ELSE IF statuses \cap unfinished # {} THEN Deploying ELSE Failed

K8sVerdict(statuses) == Conclude(statuses \ {Voided}, {Waiting, Deploying})
JarVerdict(statuses) == Conclude(statuses, {Waiting, Deploying, PartSuccess})

(* Slip: an application nobody has started does not keep the order open.    *)
WebVerdictIgnoringWaiting(statuses) == Conclude(statuses, {Deploying})

WebVerdict(statuses) == Conclude(statuses, {Waiting, Deploying})

Verdict(kind, statuses) ==
    CASE kind = "k8s" -> K8sVerdict(statuses)
      [] kind = "jar" -> JarVerdict(statuses)
      [] kind = "web" -> WebVerdict(statuses)

(* PublishAppViewSet.partial_update, when application `a' has been voided:  *)
(* what the request makes of the statuses `apps' it sees.  With `others'    *)
(* voided too the order is voided; with none of them waiting, failed or     *)
(* deploying it is closed as a success; otherwise it is not touched.        *)
Others(apps, a) == {apps[b] : b \in DOMAIN apps \ {a}}

(* Slip: the same when an application is voided.                            *)
VoidDecidesTooSoon(apps, a) ==
    \/ Others(apps, a) \subseteq {Voided}
    \/ Others(apps, a) \cap {Failed, Deploying} = {}

VoidDecides(apps, a) ==
    \/ Others(apps, a) \subseteq {Voided}
    \/ Others(apps, a) \cap {Waiting, Failed, Deploying} = {}

VerdictOnVoid(apps, a) ==
    IF Others(apps, a) \subseteq {Voided} THEN Voided ELSE Success
=============================================================================
