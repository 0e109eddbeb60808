---------------------------- MODULE PublishOrder ----------------------------
(***************************************************************************)
(* One publish order: its row, the rows of its applications, the deploy    *)
(* jobs started for them, the task-queue workers that run those jobs, and  *)
(* the web requests that read and write the same rows.                     *)
(*                                                                         *)
(* Tasks run outside any transaction, so each of their statements is a     *)
(* step of its own.  Model.save() writes every column: a row object that   *)
(* was read earlier carries its old columns back (`held', `req.ord').      *)
(* Requests marked atomic in the source run at READ COMMITTED, the         *)
(* isolation level Django asks of MySQL: a row they wrote stays locked     *)
(* until they commit.                                                      *)
(***************************************************************************)
EXTENDS DeployStatus

CONSTANTS
    Apps,      \* the applications of the order
    Jobs,      \* identities of deploy jobs, each used at most once
    AppOf,     \* AppOf[j]: the application job j deploys
    Kind,      \* Kind[j]: which task class runs job j
    Workers,   \* worker processes of the task cluster
    Clients,   \* web requests in flight at once
    Requests,  \* the kinds of request the clients make
    Times,     \* planned publishing times
    MaxTime,   \* bound of the clock
    Diff       \* PUBLISH_TIME_DIFF

ASSUME ConstantsAssumption ==
    /\ Apps # {} /\ IsFiniteSet(Jobs)
    /\ AppOf \in [Jobs -> Apps]
    /\ Kind \in [Jobs -> Kinds]
    /\ Workers \in Nat \ {0}
    /\ Requests \subseteq {"list", "reschedule", "void", "reset",
                           "resetJob", "editApp"}
    /\ Times # {} /\ Times \subseteq Nat
    /\ MaxTime \in Nat /\ Diff \in Nat

VARIABLES
    now,     \* the clock
    order,   \* the PublishOrder row
    app,     \* app[a]: status column of the PublishApp row
    job,     \* job[j]: status column of the DeployJob row, or NoRow
    task,    \* task[j]: the step the task of job j is at
    dead,    \* dead[j]: the worker running the task of j is gone
    result,  \* result[j]: cd_result['status'] in the task's memory
    held,    \* held[j]: the task's PublishOrder object
    req      \* req[c]: what client c's request is doing and has read

rows == <<order, app, job>>
vars == <<now, order, app, job, task, dead, result, held, req>>

NoRow == -1
AnApp == CHOOSE a \in Apps : TRUE
ATime == CHOOSE t \in Times : TRUE

Order   == [status : OrderStatus, expect : Times]
NoOrder == [status |-> Waiting, expect |-> ATime]

TaskSteps == {"none", "queued", "getJob", "initJob", "initApp", "readOrder",
              "saveOrder", "deploy", "endJob", "endRead", "endApp", "endCount",
              "endOrder", "done"}

RequestSteps == {"idle", "list", "reschedule", "reread", "save", "count",
                 "commit", "commitApp", "reset", "edit"}
Request == [at : RequestSteps, ord : Order, app : Apps, row : AppStatus,
            time : Times]
Idle    == [at |-> "idle", ord |-> NoOrder, app |-> AnApp, row |-> Waiting,
            time |-> ATime]

-----------------------------------------------------------------------------
(* Helpers.                                                                *)

InWindow(t) == now - t <= Diff /\ t - now <= Diff

(* A PublishApp row is locked from the UPDATE of a partial_update until     *)
(* its commit.                                                              *)
Locked(a) == \E c \in Clients : /\ req[c].at \in {"count", "commit", "commitApp"}
                                /\ req[c].app = a

Running(j) == task[j] \notin {"none", "queued", "done"} /\ ~dead[j]

At(j, step) == task[j] = step /\ ~dead[j]

(* Slip: the order is counted before the application is saved.              *)
CountedTooSoon == [getJob |-> "initJob", initJob |-> "initApp",
            initApp |-> "readOrder", readOrder |-> "saveOrder",
            saveOrder |-> "deploy", deploy |-> "endJob", endJob |-> "endRead",
            endRead |-> "endCount", endCount |-> "endApp",
            endApp |-> "endOrder", endOrder |-> "done"]

(* The order of the steps of a task of class K8sDeploys ...                 *)
K8sNext == [getJob |-> "initJob", initJob |-> "initApp",
            initApp |-> "readOrder", readOrder |-> "saveOrder",
            saveOrder |-> "deploy", deploy |-> "endJob", endJob |-> "endRead",
            endRead |-> "endApp", endApp |-> "endCount",
            endCount |-> "endOrder", endOrder |-> "done"]

(* ... and of JarDeploy and WebDeploy, which write the job after the order  *)
(* and keep until the end the order object they read at the start.          *)
AnsibleNext == [getJob |-> "initApp", initApp |-> "readOrder",
                readOrder |-> "saveOrder", saveOrder |-> "initJob",
                initJob |-> "deploy", deploy |-> "endJob", endJob |-> "endApp",
                endApp |-> "endCount", endCount |-> "endOrder",
                endOrder |-> "done"]

NextStep(j, step) == IF Kind[j] = "k8s" THEN K8sNext[step] ELSE AnsibleNext[step]

Go(j, step) == /\ At(j, step)
               /\ task' = [task EXCEPT ![j] = NextStep(j, step)]
               /\ UNCHANGED <<now, dead>>

-----------------------------------------------------------------------------
(* Starting a job.                                                         *)

(* PublishOrderSerializer.create: order and applications in one transaction *)
Init ==
    /\ now = 0
    /\ order \in [status : {Waiting}, expect : Times]
    /\ app = [a \in Apps |-> Waiting]
    /\ job = [j \in Jobs |-> NoRow]
    /\ task = [j \in Jobs |-> "none"]
    /\ dead = [j \in Jobs |-> FALSE]
    /\ result = [j \in Jobs |-> Waiting]
    /\ held = [j \in Jobs |-> NoOrder]
    /\ req = [c \in Clients |-> Idle]

(* app_deploy_handle: the task is put on the queue inside the transaction   *)
(* that creates the job's row.                                              *)
AppDeployHandle(j) ==
    /\ task[j] = "none"
    /\ task' = [task EXCEPT ![j] = "queued"]
    /\ UNCHANGED <<now, order, app, job, dead, result, held, req>>

CommitDeployJob(j) ==
    /\ task[j] # "none" /\ job[j] = NoRow
    /\ job' = [job EXCEPT ![j] = Waiting]
    /\ UNCHANGED <<now, order, app, task, dead, result, held, req>>

(* Slip: a worker that died keeps its slot.                                 *)
StartTaskLeakingSlots(j) ==
    /\ task[j] = "queued"
    /\ Cardinality({i \in Jobs : task[i] \notin {"none", "queued", "done"}}) < Workers
    /\ task' = [task EXCEPT ![j] = "getJob"]
    /\ UNCHANGED <<now, order, app, job, dead, result, held, req>>

(* A free worker pops the task; the broker keeps no copy.                   *)
StartTask(j) ==
    /\ task[j] = "queued"
    /\ Cardinality({i \in Jobs : Running(i)}) < Workers
    /\ task' = [task EXCEPT ![j] = "getJob"]
    /\ UNCHANGED <<now, order, app, job, dead, result, held, req>>

GetJob(j) ==
    /\ Go(j, "getJob")
    /\ job[j] # NoRow
    /\ UNCHANGED <<order, app, job, result, held, req>>

(* get_job found no row thirty times: the task goes on with an error        *)
(* message where the job should be, and raises.                             *)
GetJobGivesUp(j) ==
    /\ At(j, "getJob") /\ job[j] = NoRow
    /\ dead' = [dead EXCEPT ![j] = TRUE]
    /\ UNCHANGED <<now, order, app, job, task, result, held, req>>

(* The early returns of app_deployment_handle: the application is gone, or  *)
(* none of its clusters is among the job's.                                 *)
RefuseDeploy(j) ==
    /\ Kind[j] = "k8s"
    /\ At(j, "getJob") /\ job[j] # NoRow
    /\ job' = [job EXCEPT ![j] = Failed]
    /\ task' = [task EXCEPT ![j] = "done"]
    /\ UNCHANGED <<now, order, app, dead, result, held, req>>

-----------------------------------------------------------------------------
(* Running a job: init_deploy_job_status or JarDeploy.init_result.         *)

InitJob(j) ==
    /\ Go(j, "initJob")
    /\ job' = [job EXCEPT ![j] = Deploying]
    /\ UNCHANGED <<order, app, result, held, req>>

InitApp(j) ==
    /\ Go(j, "initApp")
    /\ ~Locked(AppOf[j])
    /\ app' = [app EXCEPT ![AppOf[j]] = Deploying]
    /\ UNCHANGED <<order, job, result, held, req>>

ReadOrder(j) ==
    /\ Go(j, "readOrder")
    /\ held' = [held EXCEPT ![j] = [order EXCEPT !.status = Deploying]]
    /\ UNCHANGED <<order, app, job, result, req>>

SaveOrder(j) ==
    /\ Go(j, "saveOrder")
    /\ order' = held[j]
    /\ UNCHANGED <<app, job, result, held, req>>

(* Slip: stages are saved after the end of the job as well.                 *)
SaveStageLate(j) ==
    /\ At(j, "deploy") \/ At(j, "endApp")
    /\ job' = [job EXCEPT ![j] = Deploying]
    /\ UNCHANGED <<now, order, app, task, dead, result, held, req>>

(* Every stage (init_stage, save_stage_result) and every ansible callback   *)
(* saves the whole job object, whose status has been Deploying since        *)
(* InitJob.                                                                 *)
SaveStage(j) ==
    /\ At(j, "deploy")
    /\ job' = [job EXCEPT ![j] = Deploying]
    /\ UNCHANGED <<now, order, app, task, dead, result, held, req>>

EndDeploy(j) ==
    /\ Go(j, "deploy")
    /\ \E s \in OutcomesOf(Kind[j]) : result' = [result EXCEPT ![j] = s]
    /\ UNCHANGED <<order, app, job, held, req>>

(* The call of the playbook raises.  The handler notes the failure in       *)
(* cd_result and then dumps a dictionary whose key is the exception's       *)
(* class, which json refuses: the task ends there.                          *)
PlaybookRaises(j) ==
    /\ Kind[j] # "k8s" /\ At(j, "deploy")
    /\ result' = [result EXCEPT ![j] = Failed]
    /\ dead' = [dead EXCEPT ![j] = TRUE]
    /\ UNCHANGED <<now, order, app, job, task, held, req>>

-----------------------------------------------------------------------------
(* Ending a job: update_deploy_job_status or task_over.                    *)

EndJob(j) ==
    /\ Go(j, "endJob")
    /\ job' = [job EXCEPT ![j] = result[j]]
    /\ UNCHANGED <<order, app, result, held, req>>

(* Only update_deploy_job_status fetches the order again.                   *)
EndRead(j) ==
    /\ Kind[j] = "k8s"
    /\ Go(j, "endRead")
    /\ held' = [held EXCEPT ![j] = order]
    /\ UNCHANGED <<order, app, job, result, req>>

(* Slip: a failure is not shown on the application.                         *)
EndAppOnSuccess(j) ==
    /\ Go(j, "endApp")
    /\ ~Locked(AppOf[j])
    /\ app' = [app EXCEPT ![AppOf[j]] = IF result[j] = Success THEN Success ELSE @]
    /\ UNCHANGED <<order, job, result, held, req>>

EndApp(j) ==
    /\ Go(j, "endApp")
    /\ ~Locked(AppOf[j])
    /\ app' = [app EXCEPT ![AppOf[j]] = result[j]]
    /\ UNCHANGED <<order, job, result, held, req>>

(* Slip: the order takes the outcome of the job.                            *)
EndCountOfJob(j) ==
    /\ Go(j, "endCount")
    /\ held' = [held EXCEPT ![j].status = result[j]]
    /\ UNCHANGED <<order, app, job, result, req>>

EndCount(j) ==
    /\ Go(j, "endCount")
    /\ held' = [held EXCEPT ![j].status =
                    Verdict(Kind[j], {app[a] : a \in Apps})]
    /\ UNCHANGED <<order, app, job, result, req>>

EndOrder(j) ==
    /\ Go(j, "endOrder")
    /\ order' = held[j]
    /\ held' = [held EXCEPT ![j] = NoOrder]
    /\ UNCHANGED <<app, job, result, req>>

(* The worker process dies, is reincarnated by the sentinel when the task's *)
(* timer runs out, or the task raises.                                      *)
Die(j) ==
    /\ Running(j)
    /\ dead' = [dead EXCEPT ![j] = TRUE]
    /\ UNCHANGED <<now, order, app, job, task, result, held, req>>

-----------------------------------------------------------------------------
(* Requests on the order: every one of them goes through get_queryset and  *)
(* therefore through extend_filter, which voids orders on the way.         *)

Set(c, r) == req' = [req EXCEPT ![c] = r]

BeginOrderRequest(c, t) ==
    /\ req[c] = Idle
    /\ \E op \in {"list", "reschedule"} \cap Requests :
           Set(c, [Idle EXCEPT !.at = op, !.ord = order, !.time = t])
    /\ UNCHANGED <<now, rows, task, dead, result, held>>

ExtendFilter(c) ==
    /\ req[c].at \in {"list", "reschedule"}
    /\ IF req[c].ord.status \in {Waiting, Deploying} /\ ~InWindow(req[c].ord.expect)
       THEN order' = [req[c].ord EXCEPT !.status = Voided]
       ELSE order' = order
    /\ Set(c, IF req[c].at = "list" THEN Idle
              ELSE [Idle EXCEPT !.at = "reread", !.time = req[c].time])
    /\ UNCHANGED <<now, app, job, task, dead, result, held>>

RescheduleRead(c) ==
    /\ req[c].at = "reread"
    /\ Set(c, [req[c] EXCEPT !.at = "save", !.ord = order])
    /\ UNCHANGED <<now, rows, task, dead, result, held>>

RescheduleSave(c) ==
    /\ req[c].at = "save"
    /\ order' = [req[c].ord EXCEPT !.expect = req[c].time]
    /\ Set(c, Idle)
    /\ UNCHANGED <<now, app, job, task, dead, result, held>>

-----------------------------------------------------------------------------
(* PublishAppViewSet.partial_update with status 4, one transaction.        *)

VoidApp(c, a) ==
    /\ "void" \in Requests
    /\ req[c] = Idle /\ ~Locked(a)
    /\ Set(c, [Idle EXCEPT !.at = "count", !.ord = order, !.app = a])
    /\ UNCHANGED <<now, rows, task, dead, result, held>>

VoidCount(c) ==
    /\ req[c].at = "count"
    /\ Set(c, IF VoidDecides(app, req[c].app)
              THEN [req[c] EXCEPT !.at = "commit",
                                  !.ord.status = VerdictOnVoid(app, req[c].app)]
              ELSE [req[c] EXCEPT !.at = "commitApp", !.ord = NoOrder])
    /\ UNCHANGED <<now, rows, task, dead, result, held>>

VoidCommit(c) ==
    /\ req[c].at \in {"commit", "commitApp"}
    /\ app' = [app EXCEPT ![req[c].app] = Voided]
    /\ order' = IF req[c].at = "commit" THEN req[c].ord ELSE order
    /\ Set(c, Idle)
    /\ UNCHANGED <<now, job, task, dead, result, held>>

(* partial_update with other columns: the status read is written back.      *)
EditApp(c, a) ==
    /\ "editApp" \in Requests
    /\ req[c] = Idle
    /\ Set(c, [Idle EXCEPT !.at = "edit", !.app = a, !.row = app[a]])
    /\ UNCHANGED <<now, rows, task, dead, result, held>>

EditAppSave(c) ==
    /\ req[c].at = "edit" /\ ~Locked(req[c].app)
    /\ app' = [app EXCEPT ![req[c].app] = req[c].row]
    /\ Set(c, Idle)
    /\ UNCHANGED <<now, order, job, task, dead, result, held>>

-----------------------------------------------------------------------------
(* DeployJobViewSet.reset_status.                                          *)

(* Slip: all jobs of the application are reset, the ended ones too.         *)
ResetAllJobs(a) == [j \in Jobs |-> IF AppOf[j] = a /\ job[j] # NoRow
                                   THEN Waiting ELSE job[j]]

ResetJobs(a) == [j \in Jobs |-> IF AppOf[j] = a /\ job[j] = Deploying
                                THEN Waiting ELSE job[j]]

(* With publishAppId: refused unless the application was read Deploying.    *)
ResetStatus(c, a) ==
    /\ "reset" \in Requests
    /\ req[c] = Idle /\ app[a] = Deploying
    /\ Set(c, [Idle EXCEPT !.at = "reset", !.app = a])
    /\ UNCHANGED <<now, rows, task, dead, result, held>>

ResetCommit(c) ==
    /\ req[c].at = "reset" /\ ~Locked(req[c].app)
    /\ app' = [app EXCEPT ![req[c].app] = Waiting]
    /\ job' = ResetJobs(req[c].app)
    /\ Set(c, Idle)
    /\ UNCHANGED <<now, order, task, dead, result, held>>

(* Without: only the jobs of the same application are reset.                *)
ResetJobStatus(j) ==
    /\ "resetJob" \in Requests
    /\ job[j] # NoRow
    /\ job' = ResetJobs(AppOf[j])
    /\ UNCHANGED <<now, order, app, task, dead, result, held, req>>

-----------------------------------------------------------------------------
Tick ==
    /\ now < MaxTime
    /\ now' = now + 1
    /\ UNCHANGED <<order, app, job, task, dead, result, held, req>>

(* Everything has been done that this instance has room for.                *)
Finished ==
    /\ \A j \in Jobs : task[j] # "none" /\ ~Running(j) /\ task[j] # "queued"
    /\ \A c \in Clients : req[c] = Idle
    /\ UNCHANGED vars

TaskStep(j) ==
    \/ GetJob(j) \/ GetJobGivesUp(j) \/ RefuseDeploy(j)
    \/ InitJob(j) \/ InitApp(j) \/ ReadOrder(j) \/ SaveOrder(j)
    \/ EndDeploy(j) \/ PlaybookRaises(j) \/ EndJob(j) \/ EndRead(j) \/ EndApp(j)
    \/ EndCount(j) \/ EndOrder(j)

JobStep(j) ==
    \/ AppDeployHandle(j) \/ CommitDeployJob(j) \/ StartTask(j)
    \/ TaskStep(j) \/ SaveStage(j) \/ Die(j) \/ ResetJobStatus(j)

RequestEnds(c) ==
    \/ ExtendFilter(c) \/ RescheduleRead(c) \/ RescheduleSave(c)
    \/ VoidCount(c) \/ VoidCommit(c) \/ EditAppSave(c) \/ ResetCommit(c)

RequestStep(c) ==
    \/ \E t \in Times : BeginOrderRequest(c, t)
    \/ \E a \in Apps : VoidApp(c, a) \/ EditApp(c, a) \/ ResetStatus(c, a)
    \/ RequestEnds(c)

Next ==
    \/ \E j \in Jobs : JobStep(j)
    \/ \E c \in Clients : RequestStep(c)
    \/ Tick
    \/ Finished

Spec == Init /\ [][Next]_vars

(* Workers run what they have popped, and the sentinel replaces a worker    *)
(* that hangs.  The database grants a row lock in the order it was asked    *)
(* for, so a task waiting for one gets it although requests keep taking it: *)
(* strong fairness.  A request in flight ends; nothing obliges a user to    *)
(* act.                                                                     *)
Fairness ==
    /\ \A j \in Jobs : WF_vars(StartTask(j)) /\ SF_vars(TaskStep(j))
    /\ \A c \in Clients : WF_vars(RequestEnds(c))

-----------------------------------------------------------------------------
(* Properties.                                                             *)

(* Every variable has its type.                                             *)
TypeOK ==
    /\ now \in 0..MaxTime
    /\ order \in Order
    /\ app \in [Apps -> AppStatus]
    /\ job \in [Jobs -> JobStatus \cup {NoRow}]
    /\ task \in [Jobs -> TaskSteps]
    /\ dead \in [Jobs -> BOOLEAN]
    /\ result \in [Jobs -> {Waiting} \cup Outcomes]
    /\ held \in [Jobs -> Order]
    /\ req \in [Clients -> Request]

(* The steps between a task's write of Deploying to the row of its          *)
(* application, or of its job, and its write of the outcome.                *)
HoldsApp(j) ==
    \/ task[j] \in {"readOrder", "saveOrder", "deploy", "endJob", "endRead", "endApp"}
    \/ Kind[j] # "k8s" /\ task[j] = "initJob"

HoldsJob(j) ==
    \/ task[j] \in {"deploy", "endJob"}
    \/ Kind[j] = "k8s" /\ task[j] \in {"initApp", "readOrder", "saveOrder"}

(* An application shown as being published is being published by some task, *)
(* or was when that task's worker died: no early return, failure path,      *)
(* reset or void, in whatever order they run, leaves the status behind.     *)
(* An edit of the row may: it writes back the status it read.               *)
DeployingIsOwned ==
    \A a \in Apps : app[a] = Deploying =>
        \E j \in Jobs : AppOf[j] = a /\ HoldsApp(j)

(* The same for the row of a job, whose outcome is there as soon as the     *)
(* task has passed the write of it, whatever resets happened meanwhile.     *)
JobRowTracksTask ==
    \A j \in Jobs :
        /\ job[j] = Deploying => HoldsJob(j)
        /\ task[j] \in {"endRead", "endApp", "endCount", "endOrder", "done"}
              => job[j] \in Outcomes

(* The outcome of a job is final: no reset, no late save of a stage and no  *)
(* other task changes it.                                                   *)
JobOutcomeFinal ==
    [][\A j \in Jobs : job[j] \in Outcomes => job'[j] = job[j]]_job

(* No application is left behind: an order is not concluded, successfully   *)
(* or not, while one of its applications has neither been tried nor been    *)
(* voided.  True with any number of redeploys and of stale order objects as *)
(* long as no reset and no edit puts an application back to Waiting.        *)
NoAppLeftBehind ==
    order.status \in {Success, Failed} => \A a \in Apps : app[a] # Waiting

(* When each application is deployed once, a verdict that the order shows   *)
(* is the true one, even though it may have been written late.              *)
VerdictStands ==
    order.status \in {Success, Failed} =>
        /\ \A a \in Apps : app[a] \in Outcomes
        /\ order.status = Success <=> \A a \in Apps : app[a] = Success

AllEnded == \A j \in Jobs : task[j] \in {"none", "done"} /\ ~dead[j]
AllIdle  == \A c \in Clients : req[c] = Idle

(* Whenever every task so far has ended the order's status is the one its   *)
(* applications call for: the order is set "together with" them.  One       *)
(* worker keeps this; two can write their verdicts in the wrong order.      *)
VerdictFollowsApps ==
    AllEnded /\ AllIdle /\ order.status # Waiting =>
        order.status = K8sVerdict({app[a] : a \in Apps})

(* extend_filter says that it voids orders whose planned time has passed,   *)
(* and no other: TLC refutes it.                                            *)
OnlyOverdueVoided ==
    [][order.status # Voided /\ order'.status = Voided => order.expect < now]_order

(* A task that is on the queue runs to its end unless its worker dies.      *)
EveryTaskEnds ==
    \A j \in Jobs : task[j] = "queued" ~> (task[j] = "done" \/ dead[j])
=============================================================================
