--------------------------- MODULE MCPublishOrder ---------------------------
(* Instances of PublishOrder for TLC.                                       *)
EXTENDS PublishOrder

CONSTANTS a1, a2, j1, j2

(* One job per application, of the kinds named.                             *)
OneEach      == [j \in {j1, j2} |-> IF j = j1 THEN a1 ELSE a2]
K8sAndJar    == [j \in {j1, j2} |-> IF j = j1 THEN "k8s" ELSE "jar"]

(* A single job.                                                            *)
OnlyFirst    == [j \in {j1} |-> a1]
OnlyK8s      == [j \in {j1} |-> "k8s"]

(* Progress is asked of tasks next to the requests that write the rows of   *)
(* applications.  A listing, a rescheduling and a reset of a job take no    *)
(* lock that a task waits for, and are left out here.                       *)
LiveNext ==
    \/ \E j \in Jobs :
          \/ AppDeployHandle(j) \/ CommitDeployJob(j) \/ StartTask(j)
          \/ TaskStep(j) \/ SaveStage(j) \/ Die(j)
    \/ \E c \in Clients, a \in Apps :
          VoidApp(c, a) \/ EditApp(c, a) \/ ResetStatus(c, a)
    \/ \E c \in Clients :
          VoidCount(c) \/ VoidCommit(c) \/ EditAppSave(c) \/ ResetCommit(c)
    \/ Finished

LiveSpec == Init /\ [][LiveNext]_vars /\ Fairness
=============================================================================
