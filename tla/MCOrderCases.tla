---------------------------- MODULE MCOrderCases ----------------------------
(* Orders whose applications are deployed once while listings, voidings and  *)
(* resets of jobs go on, or rescheduled meanwhile; or deployed again and     *)
(* again by a single worker.                                                 *)
EXTENDS MCPublishOrder

CONSTANTS j3, j4, j5

VARIABLE case

FiveApps  == [j \in {j1, j2, j3, j4, j5} |-> IF j \in {j2, j5} THEN a2 ELSE a1]
FiveKinds == [j \in {j1, j2, j3, j4, j5} |-> CASE j = j2 -> "jar" [] j = j3 -> "web" [] OTHER -> "k8s"]

JobsOf == [mixed |-> {j1, j2}, planned |-> {j3, j2}, single |-> {j1, j4, j5}]

(* Planned applications are deployed once, the single worker's by Kubernetes. *)
ASSUME CasesAssumption ==
    /\ \A c \in DOMAIN JobsOf : JobsOf[c] \subseteq Jobs
    /\ \A i, j \in JobsOf.planned : AppOf[i] = AppOf[j] => i = j
    /\ \A j \in JobsOf.single : Kind[j] = "k8s"

(* The requests of each case: those under way, and the times they give.     *)
StepsOf == [mixed |-> {"idle", "list", "count", "commit", "commitApp"},
            planned |-> {"idle", "list", "reschedule", "reread", "save"},
            single |-> {"idle"}]

Planned == case = "planned" \/ (order.expect = 0 /\ \A c \in Clients : req[c].time = 0)

CaseInit == case \in DOMAIN JobsOf /\ Init /\ Planned

CaseJob(j) ==
    \/ AppDeployHandle(j) \/ CommitDeployJob(j) \/ TaskStep(j) \/ SaveStage(j) \/ Die(j)
    \/ StartTask(j) /\ (case = "single" => \A i \in Jobs : ~Running(i))
    \/ ResetJobStatus(j) /\ case = "mixed"

CaseDone ==
    /\ \A j \in JobsOf[case] : task[j] # "none" /\ ~Running(j) /\ task[j] # "queued"
    /\ \A c \in Clients : req[c] = Idle
    /\ UNCHANGED vars

CaseNext ==
    /\ UNCHANGED case
    /\ \/ \E j \in JobsOf[case] : CaseJob(j)
       \/ \E c \in Clients : RequestStep(c) /\ req'[c].at \in StepsOf[case] /\ Planned'
       \/ Tick /\ case # "single"
       \/ CaseDone

CaseSpec == CaseInit /\ [][CaseNext]_<<vars, case>>

-----------------------------------------------------------------------------
(* Only with applications deployed once does what the order says hold      *)
(* whenever it says it: a conclusion of PublishOrder is the true one.       *)
VerdictStandsPlanned == case = "planned" => VerdictStands

(* Only a single worker ends the order with the status its applications     *)
(* call for, redeployments included (K8sDeploys.update_deploy_job_status).  *)
VerdictFollowsSingle == case = "single" => VerdictFollowsApps
=============================================================================
