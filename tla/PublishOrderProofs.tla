------------------------- MODULE PublishOrderProofs -------------------------
(* Theorems about PublishOrder, for every value of its constants, and about *)
(* the cases of MCOrderCases.                                               *)
EXTENDS MCOrderCases, FiniteSetTheorems, TLAPS

-----------------------------------------------------------------------------
(* The rules of DeployStatus stay within the status codes.                  *)

LEMMA OutcomesOfType ==
    ASSUME NEW kind \in Kinds
    PROVE  OutcomesOf(kind) \subseteq Outcomes
<1>1. CASE kind = "k8s"
  BY <1>1 DEF OutcomesOf, K8sOutcome, Outcomes, Success, Failed
<1>2. CASE kind = "jar"
  <2>1. OutcomesOf(kind) =
          {JarOutcome(r, h) : r \in PlaybookResults, h \in BOOLEAN}
    BY <1>2 DEF OutcomesOf
  <2>2. ASSUME NEW r \in PlaybookResults, NEW h \in BOOLEAN
        PROVE  JarOutcome(r, h) \in Outcomes
    BY DEF JarOutcome, PlaybookResults, Outcomes, Success, Failed,
           PartSuccess, PartFailed
  <2> QED BY <2>1, <2>2
<1>3. CASE kind = "web"
  BY <1>3 DEF OutcomesOf, WebOutcome, Outcomes, Success, Failed
<1> QED BY <1>1, <1>2, <1>3 DEF Kinds

LEMMA VerdictType ==
    ASSUME NEW kind \in Kinds, NEW S
    PROVE  Verdict(kind, S) \in OrderStatus
BY DEF Kinds, Verdict, K8sVerdict, JarVerdict, WebVerdict, Conclude,
       OrderStatus, Waiting, Success, Failed, Deploying, Voided

(* A verdict of success or failure counts no waiting application.           *)
LEMMA VerdictSeesNoWaiting ==
    ASSUME NEW kind \in Kinds, NEW S,
           Verdict(kind, S) \in {Success, Failed}
    PROVE  Waiting \notin S
BY DEF Kinds, Verdict, K8sVerdict, JarVerdict, WebVerdict, Conclude,
       Waiting, Success, Failed, Deploying, Voided, PartSuccess

LEMMA VoidVerdictType ==
    ASSUME NEW apps, NEW a
    PROVE  VerdictOnVoid(apps, a) \in OrderStatus
BY DEF VerdictOnVoid, OrderStatus, Waiting, Success, Failed, Deploying, Voided

-----------------------------------------------------------------------------
(* Types.                                                                   *)

LEMMA CanonicalTypes == AnApp \in Apps /\ ATime \in Times /\ NoOrder \in Order
                        /\ Idle \in Request
<1>1. AnApp \in Apps
  BY ConstantsAssumption DEF AnApp
<1>2. ATime \in Times
  BY ConstantsAssumption DEF ATime
<1>3. NoOrder \in Order
  BY <1>2 DEF NoOrder, Order, OrderStatus
<1> QED
  BY <1>1, <1>2, <1>3 DEF Idle, Request, RequestSteps, AppStatus, OrderStatus

LEMMA StatusSets ==
    /\ OrderStatus \subseteq AppStatus
    /\ Outcomes \subseteq AppStatus /\ Outcomes \subseteq JobStatus
    /\ {Waiting, Deploying} \subseteq JobStatus
    /\ {Waiting, Deploying, Voided, Failed} \subseteq OrderStatus
    /\ Failed \in Outcomes
BY DEF AppStatus, OrderStatus, Outcomes, JobStatus

LEMMA InitType == Init => TypeOK
BY CanonicalTypes, StatusSets, ConstantsAssumption
   DEF Init, TypeOK, Order, TaskSteps, AppStatus

(* The steps of tasks.                                                      *)
LEMMA JobStepType ==
    ASSUME TypeOK, NEW j \in Jobs, JobStep(j)
    PROVE  TypeOK'
<1> USE StatusSets, CanonicalTypes DEF TypeOK
<1>0. Kind[j] \in Kinds /\ AppOf[j] \in Apps
  BY ConstantsAssumption
<1>go. ASSUME NEW step \in DOMAIN AnsibleNext \cup DOMAIN K8sNext, Go(j, step),
              step \in DOMAIN AnsibleNext \/ Kind[j] = "k8s"
       PROVE  task' \in [Jobs -> TaskSteps] /\ now' = now /\ dead' = dead
  <2>1. NextStep(j, step) \in TaskSteps
    BY <1>go DEF NextStep, K8sNext, AnsibleNext, TaskSteps
  <2> QED BY <1>go, <2>1 DEF Go
<1>1. CASE AppDeployHandle(j)
  BY <1>1 DEF AppDeployHandle, TaskSteps
<1>2. CASE CommitDeployJob(j)
  BY <1>2 DEF CommitDeployJob
<1>3. CASE StartTask(j)
  BY <1>3 DEF StartTask, TaskSteps
<1>4. CASE GetJob(j)
  BY <1>4, <1>go DEF GetJob, AnsibleNext
<1>5. CASE GetJobGivesUp(j)
  BY <1>5 DEF GetJobGivesUp
<1>6. CASE RefuseDeploy(j)
  BY <1>6 DEF RefuseDeploy, TaskSteps
<1>7. CASE InitJob(j)
  BY <1>7, <1>go DEF InitJob, AnsibleNext
<1>8. CASE InitApp(j)
  BY <1>8, <1>0, <1>go DEF InitApp, AnsibleNext
<1>9. CASE ReadOrder(j)
  <2>1. [order EXCEPT !.status = Deploying] \in Order
    BY DEF Order
  <2> QED BY <1>9, <1>go, <2>1 DEF ReadOrder, AnsibleNext
<1>10. CASE SaveOrder(j)
  BY <1>10, <1>go DEF SaveOrder, AnsibleNext
<1>11. CASE SaveStage(j)
  BY <1>11 DEF SaveStage
<1>12. CASE EndDeploy(j)
  BY <1>12, <1>0, <1>go, OutcomesOfType DEF EndDeploy, AnsibleNext
<1>13. CASE EndJob(j)
  BY <1>13, <1>go DEF EndJob, AnsibleNext
<1>14. CASE EndRead(j)
  BY <1>14, <1>go DEF EndRead, K8sNext
<1>15. CASE EndApp(j)
  BY <1>15, <1>0, <1>go DEF EndApp, AnsibleNext
<1>16. CASE EndCount(j)
  BY <1>16, <1>0, <1>go, VerdictType DEF EndCount, AnsibleNext, Order
<1>17. CASE EndOrder(j)
  BY <1>17, <1>go DEF EndOrder, AnsibleNext
<1>18. CASE Die(j) \/ PlaybookRaises(j)
  BY <1>18 DEF Die, PlaybookRaises
<1>19. CASE ResetJobStatus(j)
  BY <1>19 DEF ResetJobStatus, ResetJobs
<1> QED
  BY <1>1, <1>2, <1>3, <1>4, <1>5, <1>6, <1>7, <1>8, <1>9, <1>10, <1>11,
     <1>12, <1>13, <1>14, <1>15, <1>16, <1>17, <1>18, <1>19
  DEF JobStep, TaskStep

(* The steps of requests.                                                   *)
LEMMA RequestStepType ==
    ASSUME TypeOK, NEW c \in Clients, RequestStep(c)
    PROVE  TypeOK'
<1> USE StatusSets, CanonicalTypes DEF TypeOK, rows
<1>r. req[c] \in Request
  OBVIOUS
<1>1. ASSUME NEW t \in Times, BeginOrderRequest(c, t)
      PROVE  TypeOK'
  <2>1. PICK op \in {"list", "reschedule"} :
               Set(c, [Idle EXCEPT !.at = op, !.ord = order, !.time = t])
    BY <1>1 DEF BeginOrderRequest
  <2>2. [Idle EXCEPT !.at = op, !.ord = order, !.time = t] \in Request
    BY DEF Request, RequestSteps
  <2>3. req' \in [Clients -> Request]
    BY <2>1, <2>2 DEF Set
  <2> QED BY <1>1, <2>3 DEF BeginOrderRequest
<1>2. CASE ExtendFilter(c)
  <2>1. order' \in Order
    BY <1>r, <1>2 DEF ExtendFilter, Order, Request
  <2>2. req' \in [Clients -> Request]
    BY <1>r, <1>2 DEF ExtendFilter, Set, Request, RequestSteps, Idle
  <2> QED BY <1>2, <2>1, <2>2 DEF ExtendFilter
<1>3. CASE RescheduleRead(c)
  BY <1>r, <1>3 DEF RescheduleRead, Set, Request, RequestSteps
<1>4. CASE RescheduleSave(c)
  BY <1>r, <1>4 DEF RescheduleSave, Set, Request, Order
<1>5. ASSUME NEW a \in Apps, VoidApp(c, a)
      PROVE  TypeOK'
  BY <1>5 DEF VoidApp, Set, Request, RequestSteps, Idle
<1>6. CASE VoidCount(c)
  BY <1>r, <1>6, VoidVerdictType DEF VoidCount, Set, Request, RequestSteps, Order
<1>7. CASE VoidCommit(c)
  BY <1>r, <1>7 DEF VoidCommit, Set, Request
<1>8. ASSUME NEW a \in Apps, EditApp(c, a)
      PROVE  TypeOK'
  BY <1>8 DEF EditApp, Set, Request, RequestSteps, Idle
<1>9. CASE EditAppSave(c)
  BY <1>r, <1>9 DEF EditAppSave, Set, Request
<1>10. ASSUME NEW a \in Apps, ResetStatus(c, a)
       PROVE  TypeOK'
  BY <1>10 DEF ResetStatus, Set, Request, RequestSteps, Idle
<1>11. CASE ResetCommit(c)
  BY <1>r, <1>11 DEF ResetCommit, ResetJobs, Set, Request
<1> QED
  BY <1>1, <1>2, <1>3, <1>4, <1>5, <1>6, <1>7, <1>8, <1>9, <1>10, <1>11
  DEF RequestStep, RequestEnds

(* Type correctness of every reachable state.                               *)
LEMMA TypesStep == TypeOK /\ [Next]_vars => TypeOK'
<1> SUFFICES ASSUME TypeOK, [Next]_vars PROVE TypeOK'
  OBVIOUS
<1>1. CASE Tick
  BY <1>1, ConstantsAssumption DEF Tick, TypeOK
<1>2. CASE UNCHANGED vars
  BY <1>2 DEF vars, TypeOK
<1> QED
  BY <1>1, <1>2, JobStepType, RequestStepType DEF Next, Finished

THEOREM TypeCorrect == Spec => []TypeOK
BY InitType, TypesStep, PTL DEF Spec

-----------------------------------------------------------------------------
(* Rows of jobs.  JobRowTracksTask becomes inductive once it is also known  *)
(* that a task past get_job has a row, that a task past its deployment      *)
(* knows the outcome, and that no row shows an outcome too early.           *)

Ended == {"endRead", "endApp", "endCount", "endOrder", "done"}

RowInv(j) ==
    /\ task[j] \notin {"none", "queued", "getJob"} => job[j] # NoRow
    /\ task[j] \in {"endJob", "endRead", "endApp", "endCount", "endOrder"}
          => result[j] \in Outcomes
    /\ job[j] = Deploying => HoldsJob(j)
    /\ job[j] \in Outcomes <=> task[j] \in Ended

JobRowInv == \A j \in Jobs : RowInv(j)

LEMMA Codes == /\ Waiting \notin Outcomes /\ Deploying \notin Outcomes
               /\ NoRow \notin Outcomes /\ Voided \notin Outcomes
               /\ Waiting # Deploying /\ NoRow # Waiting /\ NoRow # Deploying
               /\ Voided # Deploying /\ Waiting # Voided
               /\ Waiting \notin {Success, Failed} /\ Deploying \notin {Success, Failed}
               /\ Voided \notin {Success, Failed}
               /\ Failed \in Outcomes
BY DEF Outcomes, Waiting, Success, Failed, Deploying, Voided, PartSuccess,
       PartFailed, NoRow

(* A reset touches only rows that show Deploying.                           *)
LEMMA ResetKeeps ==
    ASSUME TypeOK, JobRowInv, NEW a, job' = ResetJobs(a),
           task' = task, result' = result
    PROVE  JobRowInv'
BY Codes DEF TypeOK, JobRowInv, RowInv, ResetJobs, HoldsJob

LEMMA JobStepRow ==
    ASSUME TypeOK, JobRowInv, NEW j \in Jobs, JobStep(j)
    PROVE  JobRowInv'
<1> SUFFICES ASSUME ~ResetJobStatus(j), NEW i \in Jobs
             PROVE  RowInv(i)'
  BY ResetKeeps DEF JobRowInv, ResetJobStatus
<1> USE Codes DEF TypeOK, JobRowInv, RowInv, Ended, HoldsJob
<1>0. Kind[j] \in Kinds /\ RowInv(i) /\ RowInv(j)
  BY ConstantsAssumption
<1>go. ASSUME NEW step, Go(j, step)
       PROVE  /\ task[j] = step /\ task'[j] = NextStep(j, step)
              /\ i # j => task'[i] = task[i]
  BY <1>go DEF Go, At
<1>1. CASE AppDeployHandle(j)
  BY <1>0, <1>1 DEF AppDeployHandle
<1>2. CASE CommitDeployJob(j)
  BY <1>0, <1>2 DEF CommitDeployJob
<1>3. CASE StartTask(j)
  BY <1>0, <1>3 DEF StartTask
<1>4. CASE GetJob(j)
  BY <1>0, <1>4, <1>go DEF GetJob, NextStep, K8sNext, AnsibleNext
<1>5. CASE GetJobGivesUp(j)
  BY <1>0, <1>5 DEF GetJobGivesUp
<1>6. CASE RefuseDeploy(j)
  BY <1>0, <1>6 DEF RefuseDeploy, At
<1>7. CASE InitJob(j)
  BY <1>0, <1>7, <1>go DEF InitJob, NextStep, K8sNext, AnsibleNext
<1>8. CASE InitApp(j)
  BY <1>0, <1>8, <1>go DEF InitApp, NextStep, K8sNext, AnsibleNext
<1>9. CASE ReadOrder(j)
  BY <1>0, <1>9, <1>go DEF ReadOrder, NextStep, K8sNext, AnsibleNext
<1>10. CASE SaveOrder(j)
  BY <1>0, <1>10, <1>go DEF SaveOrder, NextStep, K8sNext, AnsibleNext
<1>11. CASE SaveStage(j)
  BY <1>0, <1>11 DEF SaveStage, At
<1>12. CASE EndDeploy(j)
  BY <1>0, <1>12, <1>go, OutcomesOfType DEF EndDeploy, NextStep, K8sNext, AnsibleNext
<1>13. CASE EndJob(j)
  BY <1>0, <1>13, <1>go DEF EndJob, NextStep, K8sNext, AnsibleNext
<1>14. CASE EndRead(j)
  BY <1>0, <1>14, <1>go DEF EndRead, NextStep, K8sNext
<1>15. CASE EndApp(j)
  BY <1>0, <1>15, <1>go DEF EndApp, NextStep, K8sNext, AnsibleNext
<1>16. CASE EndCount(j)
  BY <1>0, <1>16, <1>go DEF EndCount, NextStep, K8sNext, AnsibleNext
<1>17. CASE EndOrder(j)
  BY <1>0, <1>17, <1>go DEF EndOrder, NextStep, K8sNext, AnsibleNext
<1>18. CASE Die(j) \/ PlaybookRaises(j)
  BY <1>0, <1>18 DEF Die, PlaybookRaises, At
<1> QED
  BY <1>1, <1>2, <1>3, <1>4, <1>5, <1>6, <1>7, <1>8, <1>9, <1>10, <1>11,
     <1>12, <1>13, <1>14, <1>15, <1>16, <1>17, <1>18
  DEF JobStep, TaskStep

(* A request other than a reset leaves tasks and rows of jobs alone.        *)
LEMMA RequestStepRow ==
    ASSUME TypeOK, JobRowInv, NEW c \in Clients, RequestStep(c)
    PROVE  JobRowInv'
<1>1. CASE ResetCommit(c)
  BY <1>1, ResetKeeps DEF ResetCommit
<1>2. CASE ~ResetCommit(c)
  <2>1. UNCHANGED <<task, job, result>>
    BY <1>2 DEF RequestStep, RequestEnds, BeginOrderRequest, ExtendFilter,
       RescheduleRead, RescheduleSave, VoidApp, VoidCount, VoidCommit, EditApp,
       EditAppSave, ResetStatus, rows
  <2> QED BY <2>1 DEF JobRowInv, RowInv, HoldsJob
<1> QED BY <1>1, <1>2

LEMMA RowsStart == Init => JobRowInv
BY Codes DEF Init, JobRowInv, RowInv, Ended

LEMMA RowsStep == TypeOK /\ JobRowInv /\ [Next]_vars => JobRowInv'
<1> SUFFICES ASSUME TypeOK, JobRowInv, [Next]_vars PROVE JobRowInv'
  OBVIOUS
<1>1. CASE UNCHANGED vars
  BY <1>1 DEF vars, JobRowInv, RowInv, HoldsJob
<1>2. CASE Tick
  BY <1>2 DEF Tick, JobRowInv, RowInv, HoldsJob
<1> QED
  BY <1>1, <1>2, JobStepRow, RequestStepRow DEF Next, Finished

LEMMA JobRowInductive == Spec => [](TypeOK /\ JobRowInv)
BY RowsStart, RowsStep, TypeCorrect, PTL DEF Spec

(* The row of a job agrees with its task in every reachable state.          *)
THEOREM JobRowCorrect == Spec => []JobRowTracksTask
<1>1. JobRowInv => JobRowTracksTask
  BY DEF JobRowInv, RowInv, JobRowTracksTask, Ended
<1> QED
  BY <1>1, JobRowInductive, PTL

(* No step changes the outcome of a job: the one task that could is past    *)
(* its deployment, and a reset looks for Deploying.                         *)
THEOREM JobOutcomeIsFinal == Spec => JobOutcomeFinal
<1>1. TypeOK /\ JobRowInv /\ [Next]_vars =>
        [\A j \in Jobs : job[j] \in Outcomes => job'[j] = job[j]]_job
  <2> SUFFICES ASSUME TypeOK, JobRowInv, [Next]_vars, NEW i \in Jobs,
                      job[i] \in Outcomes
               PROVE  job'[i] = job[i]
    OBVIOUS
  <2> USE Codes DEF TypeOK
  <2>0. task[i] \in Ended
    BY DEF JobRowInv, RowInv
  <2>1. ASSUME NEW j \in Jobs, JobStep(j)
        PROVE  job'[i] = job[i]
    <3>1. CASE ResetJobStatus(j)
      BY <3>1 DEF ResetJobStatus, ResetJobs
    <3>2. CASE CommitDeployJob(j) \/ RefuseDeploy(j) \/ InitJob(j)
               \/ SaveStage(j) \/ EndJob(j)
      BY <3>2, <2>0 DEF CommitDeployJob, RefuseDeploy, InitJob, SaveStage,
         EndJob, Go, At, Ended
    <3> QED
      BY <2>1, <3>1, <3>2 DEF JobStep, TaskStep, AppDeployHandle, StartTask,
         GetJob, GetJobGivesUp, InitApp, ReadOrder, SaveOrder, EndDeploy,
         EndRead, EndApp, EndCount, EndOrder, PlaybookRaises, Die
  <2>2. ASSUME NEW c \in Clients, RequestStep(c)
        PROVE  job'[i] = job[i]
    <3>1. CASE ResetCommit(c)
      BY <3>1 DEF ResetCommit, ResetJobs
    <3> QED
      BY <2>2, <3>1 DEF RequestStep, RequestEnds, BeginOrderRequest,
         ExtendFilter, RescheduleRead, RescheduleSave, VoidApp, VoidCount,
         VoidCommit, EditApp, EditAppSave, ResetStatus, rows
  <2> QED
    BY <2>1, <2>2 DEF Next, Tick, Finished, vars
<1> QED
  BY <1>1, JobRowInductive, PTL DEF Spec, JobOutcomeFinal

-----------------------------------------------------------------------------
(* Applications shown as being published.                                   *)

NoEdit == \A c \in Clients : req[c].at # "edit"

LEMMA NoEditInductive ==
    ASSUME "editApp" \notin Requests
    PROVE  Spec => []NoEdit
<1>1. Init => NoEdit
  BY DEF Init, NoEdit, Idle
<1>2. TypeOK /\ NoEdit /\ [Next]_vars => NoEdit'
  <2> SUFFICES ASSUME TypeOK, NoEdit, [Next]_vars, NEW d \in Clients
               PROVE  req'[d].at # "edit"
    BY DEF NoEdit
  <2> USE DEF TypeOK, NoEdit
  <2>1. ASSUME NEW j \in Jobs, JobStep(j)
        PROVE  req' = req
    BY <2>1 DEF JobStep, TaskStep, AppDeployHandle, CommitDeployJob, StartTask,
       GetJob, GetJobGivesUp, RefuseDeploy, InitJob, InitApp, ReadOrder,
       SaveOrder, SaveStage, EndDeploy, EndJob, EndRead, EndApp, EndCount,
       EndOrder, PlaybookRaises, Die, ResetJobStatus
  <2>2. ASSUME NEW c \in Clients, RequestStep(c)
        PROVE  req'[d].at # "edit"
    <3> USE DEF Set, Idle, Request
    <3>0. req[c] \in Request
      OBVIOUS
    <3>1. ASSUME NEW t \in Times, BeginOrderRequest(c, t)
          PROVE  req'[d].at # "edit"
      BY <3>1 DEF BeginOrderRequest
    <3>2. ASSUME NEW a \in Apps, VoidApp(c, a) \/ ResetStatus(c, a)
          PROVE  req'[d].at # "edit"
      BY <3>2 DEF VoidApp, ResetStatus
    <3>3. ASSUME RequestEnds(c)
          PROVE  req'[d].at # "edit"
      <4>1. CASE ExtendFilter(c)
        BY <3>0, <4>1 DEF ExtendFilter
      <4>2. CASE RescheduleRead(c)
        BY <3>0, <4>2 DEF RescheduleRead
      <4>3. CASE VoidCount(c)
        BY <3>0, <4>3 DEF VoidCount
      <4>4. CASE RescheduleSave(c) \/ VoidCommit(c) \/ EditAppSave(c)
                 \/ ResetCommit(c)
        BY <4>4 DEF RescheduleSave, VoidCommit, EditAppSave, ResetCommit
      <4> QED BY <3>3, <4>1, <4>2, <4>3, <4>4 DEF RequestEnds
    <3> QED
      BY <2>2, <3>1, <3>2, <3>3 DEF RequestStep, EditApp
  <2> QED
    BY <2>1, <2>2 DEF Next, Tick, Finished, vars
<1> QED
  BY <1>1, <1>2, TypeCorrect, PTL DEF Spec

(* A step that leaves the row of application a alone leaves it owned.       *)
OwnedInv == JobRowInv /\ NoEdit /\ DeployingIsOwned

LEMMA JobStepOwned ==
    ASSUME TypeOK, OwnedInv, NEW j \in Jobs, JobStep(j)
    PROVE  DeployingIsOwned'
<1> SUFFICES ASSUME NEW a \in Apps, app'[a] = Deploying
             PROVE  \E i \in Jobs : AppOf[i] = a /\ HoldsApp(i)'
  BY DEF DeployingIsOwned
<1> USE DEF TypeOK, HoldsApp
<1>0. Kind[j] \in Kinds /\ AppOf[j] \in Apps /\ RowInv(j)
  BY ConstantsAssumption DEF OwnedInv, JobRowInv
<1>1. CASE InitApp(j)
  <2>1. HoldsApp(j)'
    BY <1>1 DEF InitApp, Go, At, NextStep, K8sNext, AnsibleNext
  <2>2. AppOf[j] # a => app'[a] = app[a] /\ \A i \in Jobs : i # j => task'[i] = task[i]
    BY <1>1 DEF InitApp, Go
  <2> QED
    BY <2>1, <2>2 DEF OwnedInv, DeployingIsOwned
<1>2. CASE EndApp(j)
  <2>1. result[j] \in Outcomes
    BY <1>0, <1>2 DEF EndApp, Go, At, RowInv
  <2>2. AppOf[j] # a
    BY <1>0, <1>2, <2>1, Codes DEF EndApp
  <2>3. app'[a] = app[a] /\ \A i \in Jobs : i # j => task'[i] = task[i]
    BY <1>2, <2>2 DEF EndApp, Go
  <2> QED
    BY <2>2, <2>3 DEF OwnedInv, DeployingIsOwned
<1>3. CASE ~InitApp(j) /\ ~EndApp(j)
  <2>1. app' = app
    BY <1>3 DEF JobStep, TaskStep, AppDeployHandle, CommitDeployJob, StartTask,
       GetJob, GetJobGivesUp, RefuseDeploy, InitJob, ReadOrder,
       SaveOrder, SaveStage, EndDeploy, EndJob, EndRead, EndCount,
       EndOrder, PlaybookRaises, Die, ResetJobStatus
  <2>2. PICK i \in Jobs : AppOf[i] = a /\ HoldsApp(i)
    BY <2>1 DEF OwnedInv, DeployingIsOwned
  <2>3. task'[i] = task[i] \/ (i = j /\ HoldsApp(j)')
    BY <1>0, <1>3, <2>2 DEF JobStep, TaskStep, AppDeployHandle, CommitDeployJob, StartTask,
       GetJob, GetJobGivesUp, RefuseDeploy, InitJob, ReadOrder,
       SaveOrder, SaveStage, EndDeploy, EndJob, EndRead, EndCount,
       EndOrder, PlaybookRaises, Die, ResetJobStatus, Go, At, NextStep, K8sNext, AnsibleNext, Kinds
  <2> QED BY <2>2, <2>3
<1> QED BY <1>1, <1>2, <1>3

LEMMA RequestStepOwned ==
    ASSUME TypeOK, OwnedInv, NEW c \in Clients, RequestStep(c)
    PROVE  DeployingIsOwned'
<1> USE DEF TypeOK, OwnedInv
<1>1. task' = task
  BY DEF RequestStep, RequestEnds, BeginOrderRequest, ExtendFilter,
     RescheduleRead, RescheduleSave, VoidApp, VoidCount, VoidCommit, EditApp,
     EditAppSave, ResetStatus, ResetCommit
<1>2. \A a \in Apps : app'[a] \in {app[a], Voided, Waiting}
  BY DEF RequestStep, RequestEnds, BeginOrderRequest, ExtendFilter,
     RescheduleRead, RescheduleSave, VoidApp, VoidCount, VoidCommit, EditApp,
     EditAppSave, ResetStatus, ResetCommit, rows, NoEdit
<1> QED
  BY <1>1, <1>2, Codes DEF DeployingIsOwned, HoldsApp

(* As long as nobody edits applications, one that is shown as being         *)
(* published has a task that is publishing it or that died doing so.        *)
THEOREM DeployingAlwaysOwned ==
    ASSUME "editApp" \notin Requests
    PROVE  Spec => []DeployingIsOwned
<1>1. Init => DeployingIsOwned
  BY Codes DEF Init, DeployingIsOwned
<1>2. TypeOK /\ JobRowInv /\ NoEdit /\ DeployingIsOwned /\ [Next]_vars
        => DeployingIsOwned'
  <2> SUFFICES ASSUME TypeOK, OwnedInv, [Next]_vars PROVE DeployingIsOwned'
    BY DEF OwnedInv
  <2>1. CASE UNCHANGED <<app, task>>
    BY <2>1 DEF OwnedInv, DeployingIsOwned, HoldsApp
  <2> QED
    BY <2>1, JobStepOwned, RequestStepOwned DEF Next, Tick, Finished, vars
<1>3. Spec => [](TypeOK /\ JobRowInv) /\ []NoEdit
  BY JobRowInductive, NoEditInductive
<1> QED
  BY <1>1, <1>2, <1>3, PTL DEF Spec

-----------------------------------------------------------------------------
(* No application is left behind.  The order's row gets its status from     *)
(* copies held by tasks and requests; each copy that says the order is      *)
(* concluded was made when no application waited, and without a reset or an *)
(* edit no application goes back to waiting.                                *)

NoReset == Requests \cap {"reset", "editApp"} = {}

Final(o) == o.status \in {Success, Failed}
Touched  == \A a \in Apps : app[a] # Waiting

(* A void that is about to commit vouches for all but its own application,  *)
(* which its commit settles.                                                *)
RequestInv(c) ==
    /\ req[c].at \notin {"reset", "edit"}
    /\ Final(req[c].ord) =>
          \A a \in Apps : app[a] # Waiting \/ (req[c].at = "commit" /\ a = req[c].app)

TouchedInv ==
    /\ Final(order) => Touched
    /\ \A j \in Jobs : Final(held[j]) => Touched
    /\ \A c \in Clients : RequestInv(c)

(* A step that makes no application wait, and no copy but sound ones.       *)
LEMMA TouchedKept ==
    ASSUME TypeOK, TouchedInv,
           \A a \in Apps : app[a] # Waiting => app'[a] # Waiting,
           Final(order') => Touched \/ Touched',
           \A j \in Jobs : Final(held'[j]) => Touched,
           \A c \in Clients : req'[c] = req[c] \/ RequestInv(c)'
    PROVE  TouchedInv'
BY DEF TypeOK, TouchedInv, Touched, RequestInv

LEMMA JobStepTouched ==
    ASSUME TypeOK, JobRowInv, TouchedInv, NEW j \in Jobs, JobStep(j)
    PROVE  TouchedInv'
<1> USE Codes DEF TypeOK
<1>0. /\ Kind[j] \in Kinds /\ AppOf[j] \in Apps /\ RowInv(j)
      /\ Final(order) => Touched
      /\ \A i \in Jobs : Final(held[i]) => Touched
  BY ConstantsAssumption DEF JobRowInv, TouchedInv
<1>1. req' = req
  BY DEF JobStep, TaskStep, AppDeployHandle, CommitDeployJob, StartTask,
     GetJob, GetJobGivesUp, RefuseDeploy, InitJob, InitApp, ReadOrder,
     SaveOrder, SaveStage, EndDeploy, EndJob, EndRead, EndApp, EndCount,
     EndOrder, PlaybookRaises, Die, ResetJobStatus
<1>2. CASE InitApp(j)
  BY <1>0, <1>1, <1>2, TouchedKept DEF InitApp
<1>3. CASE ReadOrder(j)
  BY <1>0, <1>1, <1>3, TouchedKept DEF ReadOrder, Final, Order
<1>4. CASE SaveOrder(j)
  BY <1>0, <1>1, <1>4, TouchedKept DEF SaveOrder
<1>5. CASE EndRead(j)
  BY <1>0, <1>1, <1>5, TouchedKept DEF EndRead
<1>6. CASE EndApp(j)
  <2>1. result[j] \in Outcomes
    BY <1>0, <1>6 DEF EndApp, Go, At, RowInv
  <2> QED
    BY <1>0, <1>1, <1>6, <2>1, TouchedKept DEF EndApp
<1>7. CASE EndCount(j)
  <2> DEFINE verdict == Verdict(Kind[j], {app[a] : a \in Apps})
  <2>1. verdict \in {Success, Failed} => Touched
    BY <1>0, VerdictSeesNoWaiting DEF Touched
  <2> HIDE DEF verdict
  <2>2. held' = [held EXCEPT ![j].status = verdict]
    BY <1>7 DEF EndCount, verdict
  <2>3. \A i \in Jobs : Final(held'[i]) => Touched
    BY <1>0, <2>1, <2>2 DEF Final, Order
  <2> QED
    BY <1>0, <1>1, <1>7, <2>3, TouchedKept DEF EndCount
<1>8. CASE EndOrder(j)
  BY <1>0, <1>1, <1>8, TouchedKept DEF EndOrder, NoOrder, Final
<1>9. CASE UNCHANGED <<order, app, held>>
  BY <1>0, <1>1, <1>9, TouchedKept
<1> QED
  BY <1>2, <1>3, <1>4, <1>5, <1>6, <1>7, <1>8, <1>9
  DEF JobStep, TaskStep, AppDeployHandle, CommitDeployJob, StartTask,
     GetJob, GetJobGivesUp, RefuseDeploy, InitJob, SaveStage, EndDeploy,
     EndJob, PlaybookRaises, Die, ResetJobStatus

LEMMA RequestStepTouched ==
    ASSUME NoReset, TypeOK, TouchedInv, NEW c \in Clients, RequestStep(c)
    PROVE  TouchedInv'
<1> USE Codes DEF TypeOK, Set, rows
<1>0. /\ req[c] \in Request /\ RequestInv(c)
      /\ Final(order) => Touched
      /\ \A j \in Jobs : Final(held[j]) => Touched
  BY DEF TouchedInv
<1>idle. ~Final(NoOrder)
  BY DEF NoOrder, Final
<1>1. ASSUME NEW t \in Times, BeginOrderRequest(c, t)
      PROVE  TouchedInv'
  <2>1. PICK op \in {"list", "reschedule"} :
               Set(c, [Idle EXCEPT !.at = op, !.ord = order, !.time = t])
    BY <1>1 DEF BeginOrderRequest
  <2>2. RequestInv(c)'
    BY <1>0, <1>1, <2>1 DEF BeginOrderRequest, RequestInv, Touched, Idle
  <2> QED BY <1>0, <1>1, <2>1, <2>2, TouchedKept DEF BeginOrderRequest
<1>2. CASE ExtendFilter(c)
  <2>1. ~Final(order') \/ order' = order
    BY <1>0, <1>2 DEF ExtendFilter, Final, Request, Order
  <2>2. RequestInv(c)'
    BY <1>0, <1>2, <1>idle DEF ExtendFilter, RequestInv, Idle
  <2>3. \A d \in Clients : d # c => req'[d] = req[d]
    BY <1>2 DEF ExtendFilter
  <2> QED BY <1>0, <1>2, <2>1, <2>2, <2>3, TouchedKept DEF ExtendFilter
<1>3. CASE RescheduleRead(c)
  <2>1. RequestInv(c)'
    BY <1>0, <1>3 DEF RescheduleRead, RequestInv, Touched, Request
  <2> QED BY <1>0, <1>3, <2>1, TouchedKept DEF RescheduleRead
<1>4. CASE RescheduleSave(c)
  <2>1. Final(order') => Touched
    BY <1>0, <1>4 DEF RescheduleSave, RequestInv, Touched, Final, Request, Order
  <2>2. RequestInv(c)'
    BY <1>0, <1>4, <1>idle DEF RescheduleSave, RequestInv, Idle
  <2> QED BY <1>0, <1>4, <2>1, <2>2, TouchedKept DEF RescheduleSave
<1>5. ASSUME NEW a \in Apps, VoidApp(c, a)
      PROVE  TouchedInv'
  <2>1. RequestInv(c)'
    BY <1>0, <1>5 DEF VoidApp, RequestInv, Touched, Idle
  <2> QED BY <1>0, <1>5, <2>1, TouchedKept DEF VoidApp
<1>6. CASE VoidCount(c)
  <2>1. RequestInv(c)'
    <3>1. CASE ~VoidDecides(app, req[c].app)
      BY <1>0, <1>6, <1>idle, <3>1 DEF VoidCount, RequestInv, Request
    <3>2. CASE VoidDecides(app, req[c].app)
      <4>1. \A b \in Apps : b # req[c].app => app[b] \in Others(app, req[c].app)
        BY DEF Others
      <4>2. \A b \in Apps : b # req[c].app => app[b] # Waiting
        BY <3>2, <4>1 DEF VoidDecides
      <4>3. req'[c].at = "commit" /\ req'[c].app = req[c].app
        BY <1>0, <1>6, <3>2 DEF VoidCount, Request
      <4> QED
        BY <1>6, <4>2, <4>3 DEF VoidCount, RequestInv
    <3> QED BY <3>1, <3>2
  <2>2. \A d \in Clients : d # c => req'[d] = req[d]
    BY <1>6 DEF VoidCount
  <2> QED BY <1>0, <1>6, <2>1, <2>2, TouchedKept DEF VoidCount
<1>7. CASE VoidCommit(c)
  <2>1. \A a \in Apps : app[a] # Waiting => app'[a] # Waiting
    BY <1>7 DEF VoidCommit
  <2>2. Final(order') => Touched \/ Touched'
    BY <1>0, <1>7 DEF VoidCommit, RequestInv, Touched, Request
  <2>3. RequestInv(c)'
    BY <1>0, <1>7, <1>idle DEF VoidCommit, RequestInv, Idle
  <2>4. \A d \in Clients : d # c => req'[d] = req[d]
    BY <1>7 DEF VoidCommit
  <2> QED BY <1>0, <1>7, <2>1, <2>2, <2>3, <2>4, TouchedKept DEF VoidCommit
<1> QED
  BY <1>0, <1>1, <1>2, <1>3, <1>4, <1>5, <1>6, <1>7
  DEF RequestStep, RequestEnds, NoReset, RequestInv, EditApp, ResetStatus,
      EditAppSave, ResetCommit

(* However often applications are deployed and voided, and however stale    *)
(* the copies of the order that are saved, an order is not concluded while  *)
(* one of its applications waits.                                           *)
THEOREM NoneLeftBehind ==
    ASSUME NoReset
    PROVE  Spec => []NoAppLeftBehind
<1>1. Init => TouchedInv
  <2> SUFFICES ASSUME Init PROVE TouchedInv
    OBVIOUS
  <2>1. ~Final(NoOrder) /\ ~Final(order)
    BY Codes DEF Init, NoOrder, Final
  <2>2. \A c \in Clients : req[c].at = "idle" /\ req[c].ord = NoOrder
    BY DEF Init, Idle
  <2> QED
    BY <2>1, <2>2 DEF Init, TouchedInv, RequestInv
<1>2. TypeOK /\ JobRowInv /\ TouchedInv /\ [Next]_vars => TouchedInv'
  <2> SUFFICES ASSUME TypeOK, JobRowInv, TouchedInv, [Next]_vars
               PROVE  TouchedInv'
    OBVIOUS
  <2>1. CASE UNCHANGED <<order, app, held, req>>
    BY <2>1 DEF TouchedInv, Touched, RequestInv
  <2> QED
    BY <2>1, JobStepTouched, RequestStepTouched DEF Next, Tick, Finished, vars
<1>3. TouchedInv => NoAppLeftBehind
  BY DEF TouchedInv, Final, Touched, NoAppLeftBehind
<1> QED
  BY <1>1, <1>2, <1>3, JobRowInductive, PTL DEF Spec

-----------------------------------------------------------------------------
(* Orders whose applications are deployed once.  `once' are the jobs that   *)
(* may start, no two of them for one application: the row of an application *)
(* waits until its job writes it, is its job's while it is being deployed,  *)
(* and then stays.  A status that concludes is the true one from the moment *)
(* it is counted, in whoever's copy of the order.                           *)
Before(j) ==
    \/ task[j] \in {"none", "queued", "getJob", "initApp"}
    \/ Kind[j] = "k8s" /\ task[j] = "initJob"

Justified(o, apps) ==
    o.status \in {Success, Failed} =>
        /\ \A a \in Apps : apps[a] \in Outcomes
        /\ o.status = Success <=> \A a \in Apps : apps[a] = Success

PlannedSteps == {"idle", "list", "reschedule", "reread", "save"}

RowsOnce(once) ==
    /\ \A j \in Jobs \ once : task[j] = "none"
    /\ \A j \in once : /\ Before(j) => app[AppOf[j]] = Waiting
                       /\ HoldsApp(j) => app[AppOf[j]] = Deploying
    /\ \A a \in Apps : app[a] \in {Waiting, Deploying} \cup Outcomes

CopiesJustified ==
    /\ Justified(order, app) /\ \A j \in Jobs : Justified(held[j], app)
    /\ \A c \in Clients : req[c].at \in PlannedSteps /\ Justified(req[c].ord, app)

PlannedInv(once) == RowsOnce(once) /\ CopiesJustified

OneJobEach(once) ==
    once \subseteq Jobs /\ \A i, j \in once : AppOf[i] = AppOf[j] => i = j

LEMMA JustifiedKept ==
    ASSUME NEW o, NEW f, NEW g, Justified(o, f), \A a \in Apps : f[a] \in Outcomes => g[a] = f[a]
    PROVE  Justified(o, g)
BY DEF Justified

(* What a task counts of rows none of which is voided is the truth.         *)
LEMMA VerdictJustified ==
    ASSUME NEW kind \in Kinds, NEW f, \A a \in Apps : f[a] \in {Waiting, Deploying} \cup Outcomes,
           NEW o, o.status = Verdict(kind, {f[a] : a \in Apps})
    PROVE  Justified(o, f)
<1> DEFINE S == {f[a] : a \in Apps}
<1>1. \A a \in Apps : f[a] \in S
  OBVIOUS
<1>2. S \subseteq {Waiting, Deploying} \cup Outcomes /\ S # {} /\ \A s \in S : \E a \in Apps : f[a] = s
  BY ConstantsAssumption
<1>3. o.status = Verdict(kind, S)
  OBVIOUS
<1> HIDE DEF S
<1>4. /\ o.status = Success => S = {Success}
      /\ o.status = Failed => S \cap {Waiting, Deploying} = {} /\ S # {Success}
      /\ Success # Failed
  BY <1>2, <1>3, Codes DEF Kinds, Verdict, K8sVerdict, JarVerdict, WebVerdict, Conclude,
       Waiting, Success, Failed, Deploying, Voided, PartSuccess
<1>5. Success \in Outcomes
  BY DEF Outcomes
<1>6. (\A a \in Apps : f[a] = Success) => S = {Success}
  BY <1>2
<1> QED BY <1>1, <1>2, <1>4, <1>5, <1>6 DEF Justified

LEMMA UnjudgedJustified ==
    ASSUME NEW o, NEW f, o.status \notin {Success, Failed}
    PROVE  Justified(o, f)
BY DEF Justified

(* A step of one job, and of the copies.                                    *)
LEMMA OnceKept ==
    ASSUME NEW once, OneJobEach(once), PlannedInv(once), NEW j \in once, UNCHANGED req,
           \A i \in Jobs \ {j} : task'[i] = task[i],
           \A a \in Apps \ {AppOf[j]} : app'[a] = app[a],
           app[AppOf[j]] \in Outcomes => app'[AppOf[j]] = app[AppOf[j]],
           Before(j)' => app'[AppOf[j]] = Waiting,
           HoldsApp(j)' => app'[AppOf[j]] = Deploying,
           app'[AppOf[j]] \in {Waiting, Deploying} \cup Outcomes,
           Justified(order', app), \A i \in Jobs : Justified(held'[i], app)
    PROVE  PlannedInv(once)'
<1>1. j \in Jobs /\ AppOf[j] \in Apps /\ AppOf \in [Jobs -> Apps]
  BY ConstantsAssumption DEF OneJobEach
<1>2. \A a \in Apps : app[a] \in Outcomes => app'[a] = app[a]
  BY <1>1
<1>3. ASSUME NEW i \in once
      PROVE  /\ Before(i)' => app'[AppOf[i]] = Waiting
             /\ HoldsApp(i)' => app'[AppOf[i]] = Deploying
  <2>1. CASE i = j
    BY <2>1
  <2>2. CASE i # j
    <3>1. i \in Jobs /\ AppOf[i] \in Apps /\ AppOf[i] # AppOf[j]
      BY <1>1, <2>2 DEF OneJobEach
    <3>2. task'[i] = task[i] /\ app'[AppOf[i]] = app[AppOf[i]]
      BY <2>2, <3>1
    <3> QED BY <3>2 DEF PlannedInv, RowsOnce, Before, HoldsApp
  <2> QED BY <2>1, <2>2
<1>4. RowsOnce(once)'
  BY <1>1, <1>3 DEF PlannedInv, RowsOnce
<1>5. /\ Justified(order', app')
      /\ \A i \in Jobs : Justified(held'[i], app')
      /\ \A c \in Clients : Justified(req[c].ord, app')
  BY <1>2, JustifiedKept DEF PlannedInv, CopiesJustified
<1>6. CopiesJustified'
  BY <1>5 DEF PlannedInv, CopiesJustified
<1> QED BY <1>4, <1>6 DEF PlannedInv

LEMMA JobStepOnce ==
    ASSUME NEW once, OneJobEach(once), TypeOK, JobRowInv, PlannedInv(once), NEW j \in once, JobStep(j)
    PROVE  PlannedInv(once)'
<1>0. /\ j \in Jobs /\ Kind[j] \in Kinds /\ AppOf[j] \in Apps /\ RowInv(j)
      /\ Before(j) => app[AppOf[j]] = Waiting
      /\ HoldsApp(j) => app[AppOf[j]] = Deploying
      /\ app[AppOf[j]] \in {Waiting, Deploying} \cup Outcomes
      /\ Justified(order, app) /\ \A i \in Jobs : Justified(held[i], app)
      /\ app \in [Apps -> AppStatus] /\ task \in [Jobs -> TaskSteps] /\ held \in [Jobs -> Order]
      /\ result \in [Jobs -> {Waiting} \cup Outcomes]
      /\ \A a \in Apps : app[a] \in {Waiting, Deploying} \cup Outcomes
  BY ConstantsAssumption DEF OneJobEach, PlannedInv, RowsOnce, CopiesJustified, JobRowInv, TypeOK
<1>1. req' = req
  BY DEF JobStep, TaskStep, AppDeployHandle, CommitDeployJob, StartTask,
     GetJob, GetJobGivesUp, RefuseDeploy, InitJob, InitApp, ReadOrder,
     SaveOrder, SaveStage, EndDeploy, EndJob, EndRead, EndApp, EndCount,
     EndOrder, PlaybookRaises, Die, ResetJobStatus
<1>go. ASSUME NEW step, Go(j, step)
       PROVE  /\ task[j] = step /\ task'[j] = NextStep(j, step)
              /\ \A i \in Jobs \ {j} : task'[i] = task[i]
  BY <1>0, <1>go DEF Go, At
<1>2. CASE InitApp(j)
  <2>1. Before(j) /\ ~Before(j)' /\ app' = [app EXCEPT ![AppOf[j]] = Deploying]
        /\ order' = order /\ held' = held
    BY <1>0, <1>2, <1>go DEF InitApp, Before, NextStep, K8sNext, AnsibleNext
  <2>2. /\ \A a \in Apps \ {AppOf[j]} : app'[a] = app[a]
        /\ app'[AppOf[j]] = Deploying /\ app[AppOf[j]] \notin Outcomes
    BY <1>0, <2>1, Codes
  <2> QED BY <1>0, <1>1, <1>2, <1>go, <2>1, <2>2, OnceKept DEF InitApp
<1>3. CASE EndApp(j)
  <2>1. HoldsApp(j) /\ ~Before(j)' /\ ~HoldsApp(j)' /\ app' = [app EXCEPT ![AppOf[j]] = result[j]]
        /\ order' = order /\ held' = held /\ result[j] \in Outcomes
    BY <1>0, <1>3, <1>go DEF EndApp, Before, HoldsApp, NextStep, K8sNext, AnsibleNext, RowInv
  <2>2. /\ \A a \in Apps \ {AppOf[j]} : app'[a] = app[a]
        /\ app'[AppOf[j]] \in Outcomes /\ app[AppOf[j]] \notin Outcomes
    BY <1>0, <2>1, Codes
  <2> QED BY <1>0, <1>1, <1>3, <1>go, <2>1, <2>2, OnceKept DEF EndApp
<1>4. CASE app' = app /\ (Before(j)' => Before(j)) /\ (HoldsApp(j)' => HoldsApp(j))
           /\ (\A i \in Jobs \ {j} : task'[i] = task[i])
           /\ Justified(order', app) /\ \A i \in Jobs : Justified(held'[i], app)
  BY <1>0, <1>1, <1>4, OnceKept
<1>5. CASE ReadOrder(j) \/ EndRead(j)
  <2>1. PICK o : held' = [held EXCEPT ![j] = o] /\ Justified(o, app)
    <3>1. [order EXCEPT !.status = Deploying].status \notin {Success, Failed}
      BY Codes DEF TypeOK, Order
    <3>2. Justified([order EXCEPT !.status = Deploying], app)
      BY <3>1, UnjudgedJustified
    <3> QED BY <1>0, <1>5, <3>2 DEF ReadOrder, EndRead
  <2>2. \A i \in Jobs : held'[i] = o \/ held'[i] = held[i]
    BY <1>0, <2>1
  <2>3. \A i \in Jobs : Justified(held'[i], app)
    BY <1>0, <2>1, <2>2
  <2>4. app' = app /\ order' = order /\ (Before(j)' => Before(j)) /\ (HoldsApp(j)' => HoldsApp(j))
        /\ (\A i \in Jobs \ {j} : task'[i] = task[i])
    BY <1>0, <1>5, <1>go DEF ReadOrder, EndRead, Before, HoldsApp, NextStep, K8sNext, AnsibleNext, Kinds
  <2> QED BY <1>0, <1>4, <2>3, <2>4
<1>6. CASE EndCount(j)
  <2> DEFINE verdict == Verdict(Kind[j], {app[a] : a \in Apps})
  <2>1. held' = [held EXCEPT ![j] = [held[j] EXCEPT !.status = verdict]] /\ order' = order /\ app' = app
    BY <1>6 DEF EndCount
  <2>2. [held[j] EXCEPT !.status = verdict].status = verdict
    BY <1>0 DEF Order
  <2>3. Justified([held[j] EXCEPT !.status = verdict], app)
    BY <1>0, <2>2, VerdictJustified
  <2> HIDE DEF verdict
  <2>4. \A i \in Jobs : Justified(held'[i], app)
    BY <1>0, <2>1, <2>3
  <2>5. (Before(j)' => Before(j)) /\ (HoldsApp(j)' => HoldsApp(j))
        /\ (\A i \in Jobs \ {j} : task'[i] = task[i])
    BY <1>0, <1>6, <1>go DEF EndCount, Before, HoldsApp, NextStep, K8sNext, AnsibleNext
  <2> QED BY <1>0, <1>4, <2>1, <2>4, <2>5
<1>7. CASE EndOrder(j)
  <2>1. held' = [held EXCEPT ![j] = NoOrder] /\ order' = held[j] /\ app' = app
    BY <1>7 DEF EndOrder
  <2>2. Justified(NoOrder, app)
    BY Codes, UnjudgedJustified DEF NoOrder
  <2>3. \A i \in Jobs : Justified(held'[i], app)
    BY <1>0, <2>1, <2>2
  <2>4. (Before(j)' => Before(j)) /\ (HoldsApp(j)' => HoldsApp(j))
        /\ (\A i \in Jobs \ {j} : task'[i] = task[i])
    BY <1>0, <1>7, <1>go DEF EndOrder, Before, HoldsApp, NextStep, K8sNext, AnsibleNext
  <2> QED BY <1>0, <1>4, <2>1, <2>3, <2>4
<1>8. CASE SaveOrder(j)
  <2>1. held' = held /\ order' = held[j] /\ app' = app
    BY <1>8 DEF SaveOrder
  <2>2. (Before(j)' => Before(j)) /\ (HoldsApp(j)' => HoldsApp(j))
        /\ (\A i \in Jobs \ {j} : task'[i] = task[i])
    BY <1>0, <1>8, <1>go DEF SaveOrder, Before, HoldsApp, NextStep, K8sNext, AnsibleNext, Kinds
  <2> QED BY <1>0, <1>4, <2>1, <2>2
<1>9. CASE GetJob(j) \/ InitJob(j) \/ EndDeploy(j) \/ EndJob(j)
  <2>1. (Before(j)' => Before(j)) /\ (HoldsApp(j)' => HoldsApp(j))
        /\ (\A i \in Jobs \ {j} : task'[i] = task[i]) /\ app' = app /\ order' = order /\ held' = held
    BY <1>0, <1>9, <1>go DEF GetJob, InitJob, EndDeploy, EndJob, Before, HoldsApp, NextStep, K8sNext, AnsibleNext, Kinds
  <2> QED BY <1>0, <1>4, <2>1
<1>10. CASE AppDeployHandle(j) \/ CommitDeployJob(j) \/ StartTask(j) \/ GetJobGivesUp(j) \/ RefuseDeploy(j)
            \/ SaveStage(j) \/ PlaybookRaises(j) \/ Die(j) \/ ResetJobStatus(j)
  <2>1. (Before(j)' => Before(j)) /\ (HoldsApp(j)' => HoldsApp(j))
        /\ (\A i \in Jobs \ {j} : task'[i] = task[i]) /\ app' = app /\ order' = order /\ held' = held
    BY <1>0, <1>10 DEF AppDeployHandle, CommitDeployJob, StartTask, GetJobGivesUp, RefuseDeploy, SaveStage,
       PlaybookRaises, Die, ResetJobStatus, Before, HoldsApp
  <2> QED BY <1>0, <1>4, <2>1
<1> QED BY <1>2, <1>3, <1>5, <1>6, <1>7, <1>8, <1>9, <1>10 DEF JobStep, TaskStep

(* Requests that list or reschedule write a copy back, or void the order.   *)
LEMMA RequestStepOnce ==
    ASSUME NEW once, TypeOK, PlannedInv(once), NEW c \in Clients, RequestStep(c), req'[c].at \in PlannedSteps
    PROVE  PlannedInv(once)'
<1>0. /\ req \in [Clients -> Request] /\ order \in Order /\ order.status \in OrderStatus
      /\ req[c].at \in PlannedSteps /\ Justified(order, app) /\ Justified(req[c].ord, app)
      /\ req[c].ord \in Order
  BY DEF TypeOK, PlannedInv, CopiesJustified, Request, Order
<1>1. Justified(NoOrder, app) /\ Idle.ord = NoOrder
  BY Codes, UnjudgedJustified DEF NoOrder, Idle
<1>2. ASSUME UNCHANGED <<app, task, held>>, \A d \in Clients \ {c} : req'[d] = req[d],
             Justified(order', app), Justified(req'[c].ord, app)
      PROVE  PlannedInv(once)'
  <2>1. \A d \in Clients : req'[d].at \in PlannedSteps /\ Justified(req'[d].ord, app)
    BY <1>2 DEF PlannedInv, CopiesJustified
  <2>2. CopiesJustified'
    BY <1>2, <2>1 DEF PlannedInv, CopiesJustified
  <2> QED BY <1>2, <2>2 DEF PlannedInv, RowsOnce, Before, HoldsApp
<1>3. ASSUME NEW t \in Times, BeginOrderRequest(c, t) PROVE PlannedInv(once)'
  <2>1. PICK op \in {"list", "reschedule"} : Set(c, [Idle EXCEPT !.at = op, !.ord = order, !.time = t])
    BY <1>3 DEF BeginOrderRequest
  <2>2. req'[c].ord = order
    BY <1>0, <2>1 DEF Set, Idle
  <2> QED BY <1>0, <1>2, <1>3, <2>1, <2>2 DEF BeginOrderRequest, Set, rows
<1>4. CASE ExtendFilter(c)
  <2>1. order' = order \/ order' = [req[c].ord EXCEPT !.status = Voided]
    BY <1>4 DEF ExtendFilter
  <2>2. Justified([req[c].ord EXCEPT !.status = Voided], app)
    BY <1>0, Codes, UnjudgedJustified DEF Order
  <2>3. Justified(order', app)
    BY <1>0, <2>1, <2>2
  <2>4. req'[c].ord = NoOrder
    BY <1>0, <1>4 DEF ExtendFilter, Set, Idle
  <2> QED BY <1>1, <1>2, <1>4, <2>3, <2>4 DEF ExtendFilter, Set
<1>5. CASE RescheduleRead(c)
  <2>1. req'[c].ord = order
    BY <1>0, <1>5 DEF RescheduleRead, Set, Request
  <2> QED BY <1>0, <1>2, <1>5, <2>1 DEF RescheduleRead, Set, rows
<1>6. CASE RescheduleSave(c)
  <2>1. order' = [req[c].ord EXCEPT !.expect = req[c].time] /\ req'[c].ord = NoOrder
    BY <1>0, <1>1, <1>6 DEF RescheduleSave, Set
  <2>2. order'.status = req[c].ord.status
    BY <1>0, <2>1 DEF Order
  <2>3. Justified(order', app)
    BY <1>0, <2>2 DEF Justified
  <2> QED BY <1>1, <1>2, <1>6, <2>1, <2>3 DEF RescheduleSave, Set
<1>7. /\ \A a \in Apps : ~VoidApp(c, a) /\ ~EditApp(c, a) /\ ~ResetStatus(c, a)
      /\ ~VoidCount(c) /\ ~VoidCommit(c) /\ ~EditAppSave(c) /\ ~ResetCommit(c)
  <2>1. ~VoidCount(c) /\ ~VoidCommit(c) /\ ~EditAppSave(c) /\ ~ResetCommit(c)
    BY <1>0 DEF VoidCount, VoidCommit, EditAppSave, ResetCommit, PlannedSteps
  <2>2. ASSUME NEW a \in Apps, VoidApp(c, a) PROVE FALSE
    <3>1. req'[c].at = "count"
      BY <1>0, <2>2 DEF VoidApp, Set, Idle
    <3> QED BY <3>1 DEF PlannedSteps
  <2>3. ASSUME NEW a \in Apps, EditApp(c, a) PROVE FALSE
    <3>1. req'[c].at = "edit"
      BY <1>0, <2>3 DEF EditApp, Set, Idle
    <3> QED BY <3>1 DEF PlannedSteps
  <2>4. ASSUME NEW a \in Apps, ResetStatus(c, a) PROVE FALSE
    <3>1. req'[c].at = "reset"
      BY <1>0, <2>4 DEF ResetStatus, Set, Idle
    <3> QED BY <3>1 DEF PlannedSteps
  <2> QED BY <2>1, <2>2, <2>3, <2>4
<1> QED BY <1>3, <1>4, <1>5, <1>6, <1>7 DEF RequestStep, RequestEnds

LEMMA PlannedStart == ASSUME NEW once, OneJobEach(once), Init PROVE PlannedInv(once)
<1>1. /\ \A j \in Jobs : task[j] = "none" /\ held[j] = NoOrder
      /\ \A a \in Apps : app[a] = Waiting
      /\ \A c \in Clients : req[c] = Idle
      /\ order.status = Waiting /\ \A j \in Jobs : AppOf[j] \in Apps
  BY ConstantsAssumption DEF Init
<1>2. Justified(order, app) /\ Justified(NoOrder, app) /\ Idle.ord = NoOrder /\ Idle.at \in PlannedSteps
  BY <1>1, Codes, UnjudgedJustified DEF NoOrder, Idle, PlannedSteps
<1>3. RowsOnce(once)
  BY <1>1 DEF RowsOnce, OneJobEach, HoldsApp, Before
<1> QED BY <1>1, <1>2, <1>3 DEF PlannedInv, CopiesJustified

LEMMA PlannedStands == ASSUME NEW once, PlannedInv(once) PROVE VerdictStands
BY DEF PlannedInv, CopiesJustified, Justified, VerdictStands

LEMMA PlannedIdle ==
    ASSUME NEW once, PlannedInv(once), UNCHANGED <<order, app, task, held, req>>
    PROVE  PlannedInv(once)'
BY DEF PlannedInv, RowsOnce, CopiesJustified, Before, HoldsApp

(* With one job for each application, any number of them, and requests that *)
(* list and reschedule, the order concludes only what is true and stays so. *)
THEOREM OnceIsForGood ==
    ASSUME OneJobEach(Jobs), Requests \subseteq {"list", "reschedule", "resetJob"}
    PROVE  Spec => []VerdictStands
<1>1. ASSUME NEW c \in Clients, TypeOK, PlannedInv(Jobs), RequestStep(c)
      PROVE  req'[c].at \in PlannedSteps
  <2>1. /\ req[c] \in Request /\ req[c].at \in PlannedSteps /\ req \in [Clients -> Request]
    BY <1>1 DEF TypeOK, PlannedInv, CopiesJustified
  <2>2. \A a \in Apps : ~VoidApp(c, a) /\ ~EditApp(c, a) /\ ~ResetStatus(c, a)
    BY DEF VoidApp, EditApp, ResetStatus
  <2>3. ~VoidCount(c) /\ ~VoidCommit(c) /\ ~EditAppSave(c) /\ ~ResetCommit(c)
    BY <2>1 DEF VoidCount, VoidCommit, EditAppSave, ResetCommit, PlannedSteps
  <2>4. ASSUME NEW t \in Times, BeginOrderRequest(c, t) PROVE req'[c].at \in PlannedSteps
    BY <2>1, <2>4 DEF BeginOrderRequest, Set, Idle, PlannedSteps
  <2>5. ExtendFilter(c) \/ RescheduleRead(c) \/ RescheduleSave(c) => req'[c].at \in PlannedSteps
    <3>1. ExtendFilter(c) => req'[c].at \in {"idle", "reread"}
      BY <2>1 DEF ExtendFilter, Set, Idle
    <3>2. RescheduleRead(c) => req'[c].at = "save"
      BY <2>1 DEF RescheduleRead, Set, Request
    <3>3. RescheduleSave(c) => req'[c].at = "idle"
      BY <2>1 DEF RescheduleSave, Set, Idle
    <3> QED BY <3>1, <3>2, <3>3 DEF PlannedSteps
  <2> QED BY <1>1, <2>2, <2>3, <2>4, <2>5 DEF RequestStep, RequestEnds
<1>2. TypeOK /\ JobRowInv /\ PlannedInv(Jobs) /\ [Next]_vars => PlannedInv(Jobs)'
  <2> SUFFICES ASSUME TypeOK, JobRowInv, PlannedInv(Jobs), [Next]_vars PROVE PlannedInv(Jobs)'
    OBVIOUS
  <2>1. CASE UNCHANGED <<order, app, task, held, req>>
    BY <2>1, PlannedIdle
  <2>2. ASSUME NEW j \in Jobs, JobStep(j) PROVE PlannedInv(Jobs)'
    BY <2>2, JobStepOnce
  <2>3. ASSUME NEW c \in Clients, RequestStep(c) PROVE PlannedInv(Jobs)'
    BY <1>1, <2>3, RequestStepOnce
  <2> QED BY <2>1, <2>2, <2>3 DEF Next, Tick, Finished, vars
<1>3. Init => PlannedInv(Jobs)
  BY PlannedStart
<1>4. PlannedInv(Jobs) => VerdictStands
  BY PlannedStands
<1> QED BY <1>2, <1>3, <1>4, JobRowInductive, PTL DEF Spec

(* The steps of every case are steps of the order's.                        *)
LEMMA CaseStepIsStep ==
    ASSUME case \in DOMAIN JobsOf, [CaseNext]_<<vars, case>>
    PROVE  [Next]_vars /\ case' = case
<1>1. JobsOf[case] \subseteq Jobs
  BY CasesAssumption
<1>2. \A j \in JobsOf[case] : CaseJob(j) => JobStep(j)
  BY DEF CaseJob, JobStep
<1>3. CaseDone => UNCHANGED vars
  BY DEF CaseDone
<1> QED BY <1>1, <1>2, <1>3 DEF CaseNext, Next

LEMMA CasesInductive == CaseSpec => [](case \in DOMAIN JobsOf /\ TypeOK /\ JobRowInv)
<1>1. CaseInit => case \in DOMAIN JobsOf /\ TypeOK /\ JobRowInv
  BY InitType, RowsStart DEF CaseInit
<1>2. case \in DOMAIN JobsOf /\ TypeOK /\ JobRowInv /\ [CaseNext]_<<vars, case>>
        => (case \in DOMAIN JobsOf /\ TypeOK /\ JobRowInv)'
  BY CaseStepIsStep, TypesStep, RowsStep
<1> QED BY <1>1, <1>2, PTL DEF CaseSpec

(* The case of planned orders, as it is checked.                            *)
THEOREM PlannedVerdictStands == CaseSpec => []VerdictStandsPlanned
<1> DEFINE once == JobsOf["planned"]
           Inv == case = "planned" => PlannedInv(once)
<1>1. OneJobEach(once)
  BY CasesAssumption DEF OneJobEach, JobsOf
<1>2. CaseInit => Inv
  BY <1>1, PlannedStart DEF CaseInit
<1>3. case \in DOMAIN JobsOf /\ TypeOK /\ JobRowInv /\ Inv /\ [CaseNext]_<<vars, case>> => Inv'
  <2> SUFFICES ASSUME TypeOK, JobRowInv, case = "planned", PlannedInv(once), [CaseNext]_<<vars, case>>, case' = case
               PROVE  PlannedInv(once)'
    BY DEF CaseNext
  <2>1. CASE UNCHANGED vars \/ Tick
    BY <2>1, PlannedIdle DEF vars, Tick
  <2>2. ASSUME NEW j \in once, CaseJob(j) PROVE PlannedInv(once)'
    <3>1. JobStep(j)
      BY <2>2 DEF CaseJob, JobStep
    <3> QED BY <1>1, <3>1, JobStepOnce
  <2>3. ASSUME NEW c \in Clients, RequestStep(c), req'[c].at \in StepsOf[case] PROVE PlannedInv(once)'
    <3>1. req'[c].at \in PlannedSteps
      BY <2>3 DEF StepsOf, PlannedSteps
    <3> QED BY <2>3, <3>1, RequestStepOnce
  <2> QED BY <2>1, <2>2, <2>3 DEF CaseNext, CaseDone
<1>4. Inv => VerdictStandsPlanned
  BY PlannedStands DEF VerdictStandsPlanned
<1> HIDE DEF Inv
<1> QED BY <1>2, <1>3, <1>4, CasesInductive, PTL DEF CaseSpec

-----------------------------------------------------------------------------
(* One worker, and no request: `runs' are the jobs that may start, all of   *)
(* them of Kubernetes.  Unless the worker dies only one task is past its    *)
(* queue, and between two of them the order says what its applications do.  *)
Settled(j) == task[j] \in {"none", "queued", "getJob", "initJob", "initApp", "done"}
OffWork(j) == task[j] \in {"none", "queued", "done"}
AppsVerdict == K8sVerdict({app[a] : a \in Apps})

SingleFile ==
    /\ \A j \in Jobs : ~dead[j]
    /\ \A i, j \in Jobs : OffWork(i) \/ OffWork(j) \/ i = j

OrderFollows ==
    /\ order.status # Waiting /\ (\A j \in Jobs : Settled(j)) => order.status = AppsVerdict
    /\ \A j \in Jobs : task[j] = "endOrder" => held[j].status = AppsVerdict

SingleInv(runs) ==
    /\ \A j \in Jobs \ runs : task[j] = "none"
    /\ \A c \in Clients : req[c] = Idle
    /\ (\E j \in Jobs : dead[j]) \/ (SingleFile /\ OrderFollows)

LEMMA SingleIdle ==
    ASSUME NEW runs, SingleInv(runs), UNCHANGED <<order, app, task, dead, held, req>>
    PROVE  SingleInv(runs)'
BY DEF SingleInv, SingleFile, OrderFollows, AppsVerdict, Settled, OffWork

LEMMA SingleDies ==
    ASSUME NEW runs, SingleInv(runs), UNCHANGED <<req, task>>, \E i \in Jobs : dead'[i]
    PROVE  SingleInv(runs)'
BY DEF SingleInv

(* A step of the one task at work.                                          *)
LEMMA SingleMoves ==
    ASSUME NEW runs \in SUBSET Jobs, SingleInv(runs), NEW j \in runs, UNCHANGED <<req, dead>>,
           \A i \in Jobs \ {j} : task'[i] = task[i] /\ held'[i] = held[i],
           OffWork(j) => OffWork(j)' \/ \A i \in Jobs : OffWork(i),
           SingleFile /\ order'.status # Waiting /\ (\A i \in Jobs : Settled(i)') => order'.status = AppsVerdict',
           SingleFile /\ task'[j] = "endOrder" => held'[j].status = AppsVerdict',
           SingleFile => app' = app \/ ~OffWork(j)
    PROVE  SingleInv(runs)'
<1>1. \A i \in Jobs \ runs : task'[i] = "none"
  BY DEF SingleInv
<1>2. CASE \E i \in Jobs : dead[i]
  BY <1>1, <1>2 DEF SingleInv
<1>3. CASE SingleFile /\ OrderFollows
  <2>1. SingleFile'
    BY <1>3 DEF SingleFile, OffWork
  <2>2. ASSUME NEW i \in Jobs, task'[i] = "endOrder" PROVE held'[i].status = AppsVerdict'
    <3>1. CASE i = j
      BY <1>3, <2>2, <3>1
    <3>2. CASE i # j
      <4>1. task[i] = "endOrder" /\ held'[i] = held[i] /\ OffWork(j)
        BY <1>3, <2>2, <3>2 DEF SingleFile, OffWork
      <4>2. app' = app
        BY <1>3, <4>1
      <4> QED BY <1>3, <2>2, <4>1, <4>2 DEF OrderFollows, AppsVerdict
    <3> QED BY <3>1, <3>2
  <2>3. OrderFollows'
    BY <1>3, <2>2 DEF OrderFollows
  <2> QED BY <1>1, <2>1, <2>3 DEF SingleInv
<1> QED BY <1>2, <1>3 DEF SingleInv

StepAlone(j) ==
    \/ AppDeployHandle(j) \/ CommitDeployJob(j) \/ TaskStep(j) \/ SaveStage(j) \/ Die(j) \/ ResetJobStatus(j)
    \/ StartTask(j) /\ \A i \in Jobs : ~Running(i)

LEMMA JobStepSingle ==
    ASSUME NEW runs \in SUBSET Jobs, \A j \in runs : Kind[j] = "k8s", TypeOK, SingleInv(runs),
           NEW j \in runs, StepAlone(j)
    PROVE  SingleInv(runs)'
<1>0. /\ j \in Jobs /\ Kind[j] = "k8s" /\ dead \in [Jobs -> BOOLEAN] /\ task \in [Jobs -> TaskSteps]
      /\ held \in [Jobs -> Order] /\ (SingleFile => OrderFollows)
  BY DEF TypeOK, SingleInv, SingleFile
<1>go. ASSUME NEW step, Go(j, step)
       PROVE  /\ task[j] = step /\ task'[j] = K8sNext[step] /\ dead' = dead
              /\ \A i \in Jobs \ {j} : task'[i] = task[i]
  BY <1>0, <1>go DEF Go, At, NextStep
<1>1. CASE Die(j) \/ GetJobGivesUp(j) \/ PlaybookRaises(j)
  <2>1. dead' = [dead EXCEPT ![j] = TRUE] /\ UNCHANGED <<req, task>>
    BY <1>0, <1>1 DEF Die, GetJobGivesUp, PlaybookRaises
  <2>2. dead'[j]
    BY <1>0, <2>1
  <2> QED BY <1>0, <2>1, <2>2, SingleDies
<1>2. CASE CommitDeployJob(j) \/ SaveStage(j) \/ ResetJobStatus(j)
  <2>1. UNCHANGED <<order, app, task, dead, held, req>>
    BY <1>2 DEF CommitDeployJob, SaveStage, ResetJobStatus
  <2> QED BY <2>1, SingleIdle
<1>3. ASSUME order' = order, app' = app, UNCHANGED <<req, dead>>, Settled(j)' => Settled(j), task'[j] # "endOrder",
             \A i \in Jobs \ {j} : task'[i] = task[i] /\ held'[i] = held[i],
             OffWork(j) => OffWork(j)' \/ \A i \in Jobs : OffWork(i)
      PROVE  SingleInv(runs)'
  <2>1. (\A i \in Jobs : Settled(i)') => \A i \in Jobs : Settled(i)
    BY <1>3 DEF Settled
  <2>2. SingleFile /\ order'.status # Waiting /\ (\A i \in Jobs : Settled(i)') => order'.status = AppsVerdict'
    BY <1>0, <1>3, <2>1 DEF OrderFollows, AppsVerdict
  <2> QED BY <1>3, <2>2, SingleMoves
<1>4. CASE AppDeployHandle(j)
  BY <1>0, <1>3, <1>4 DEF AppDeployHandle, Settled, OffWork
<1>5. CASE StartTask(j) /\ \A i \in Jobs : ~Running(i)
  <2>1. CASE SingleFile
    <3>1. \A i \in Jobs : OffWork(i)
      BY <1>5, <2>1 DEF SingleFile, Running, OffWork
    <3> QED BY <1>0, <1>3, <1>5, <3>1 DEF StartTask, Settled, OffWork
  <2>2. CASE ~SingleFile
    BY <1>0, <1>5, <2>2 DEF StartTask, SingleInv
  <2> QED BY <2>1, <2>2
<1>6. CASE GetJob(j) \/ InitJob(j) \/ EndDeploy(j) \/ EndJob(j)
  BY <1>0, <1>3, <1>6, <1>go DEF GetJob, InitJob, EndDeploy, EndJob, K8sNext, Settled, OffWork
<1>7. CASE RefuseDeploy(j)
  BY <1>0, <1>3, <1>7 DEF RefuseDeploy, At, Settled, OffWork
<1>8. CASE ReadOrder(j) \/ EndRead(j)
  BY <1>0, <1>3, <1>8, <1>go DEF ReadOrder, EndRead, K8sNext, Settled, OffWork
<1>9. ASSUME ~OffWork(j), UNCHANGED <<req, dead>>, ~Settled(j)', task'[j] # "endOrder",
             \A i \in Jobs \ {j} : task'[i] = task[i] /\ held'[i] = held[i]
      PROVE  SingleInv(runs)'
  BY <1>0, <1>9, SingleMoves
<1>10. CASE InitApp(j) \/ SaveOrder(j) \/ EndApp(j)
  BY <1>0, <1>9, <1>10, <1>go DEF InitApp, SaveOrder, EndApp, K8sNext, Settled, OffWork
<1>11. CASE EndCount(j)
  <2> DEFINE verdict == AppsVerdict
  <2>1. held' = [held EXCEPT ![j] = [held[j] EXCEPT !.status = verdict]] /\ app' = app /\ UNCHANGED <<req, dead>>
    BY <1>0, <1>11, <1>go DEF EndCount, Verdict, AppsVerdict
  <2>2. held'[j].status = AppsVerdict /\ AppsVerdict' = AppsVerdict /\ \A i \in Jobs \ {j} : held'[i] = held[i]
    <3> HIDE DEF verdict
    <3>1. held'[j] = [held[j] EXCEPT !.status = verdict] /\ \A i \in Jobs \ {j} : held'[i] = held[i]
      BY <1>0, <2>1
    <3>2. held'[j].status = verdict
      BY <1>0, <3>1 DEF Order
    <3> QED BY <2>1, <3>1, <3>2 DEF verdict, AppsVerdict
  <2>3. task[j] = "endCount" /\ task'[j] = "endOrder" /\ \A i \in Jobs \ {j} : task'[i] = task[i]
    BY <1>11, <1>go DEF EndCount, K8sNext
  <2>4. ~OffWork(j) /\ ~Settled(j)'
    BY <2>3 DEF OffWork, Settled
  <2> HIDE DEF verdict
  <2> QED BY <1>0, <2>1, <2>2, <2>3, <2>4, SingleMoves
<1>12. CASE EndOrder(j)
  <2>1. order' = held[j] /\ app' = app /\ UNCHANGED <<req, dead>> /\ \A i \in Jobs \ {j} : held'[i] = held[i]
    BY <1>0, <1>12, <1>go DEF EndOrder
  <2>2. task[j] = "endOrder" /\ task'[j] = "done" /\ \A i \in Jobs \ {j} : task'[i] = task[i]
    BY <1>12, <1>go DEF EndOrder, K8sNext
  <2>3. SingleFile => order'.status = AppsVerdict'
    BY <1>0, <2>1, <2>2 DEF OrderFollows, AppsVerdict
  <2>4. ~OffWork(j) /\ OffWork(j)' /\ task'[j] # "endOrder"
    BY <2>2 DEF OffWork
  <2> QED BY <1>0, <2>1, <2>2, <2>3, <2>4, SingleMoves
<1> QED BY <1>1, <1>2, <1>4, <1>5, <1>6, <1>7, <1>8, <1>10, <1>11, <1>12 DEF StepAlone, TaskStep

LEMMA SingleStart == ASSUME NEW runs, Init PROVE SingleInv(runs)
BY DEF Init, SingleInv, SingleFile, OrderFollows, OffWork

LEMMA SingleFollows == ASSUME NEW runs, SingleInv(runs) PROVE VerdictFollowsApps
<1> SUFFICES ASSUME AllEnded, order.status # Waiting PROVE order.status = AppsVerdict
  BY DEF VerdictFollowsApps, AppsVerdict
<1>1. OrderFollows /\ \A j \in Jobs : Settled(j)
  BY DEF AllEnded, SingleInv, Settled
<1> QED BY <1>1 DEF OrderFollows

(* A request that leaves every client idle is none.                         *)
LEMMA NoRequest ==
    ASSUME NEW runs, TypeOK, SingleInv(runs), NEW c \in Clients, RequestStep(c)
    PROVE  req'[c].at \notin {"idle"} /\ ~(Requests \subseteq {"resetJob"})
<1>1. req[c].at = "idle" /\ req \in [Clients -> Request]
  BY DEF SingleInv, Idle, TypeOK
<1>2. ~RequestEnds(c)
  BY <1>1 DEF RequestEnds, ExtendFilter, RescheduleRead, RescheduleSave, VoidCount, VoidCommit, EditAppSave, ResetCommit
<1>3. ASSUME NEW t \in Times, BeginOrderRequest(c, t) PROVE req'[c].at \notin {"idle"} /\ ~(Requests \subseteq {"resetJob"})
  BY <1>1, <1>3 DEF BeginOrderRequest, Set, Idle
<1>4. ASSUME NEW a \in Apps, VoidApp(c, a) PROVE req'[c].at \notin {"idle"} /\ ~(Requests \subseteq {"resetJob"})
  BY <1>1, <1>4 DEF VoidApp, Set, Idle
<1>5. ASSUME NEW a \in Apps, EditApp(c, a) PROVE req'[c].at \notin {"idle"} /\ ~(Requests \subseteq {"resetJob"})
  BY <1>1, <1>5 DEF EditApp, Set, Idle
<1>6. ASSUME NEW a \in Apps, ResetStatus(c, a) PROVE req'[c].at \notin {"idle"} /\ ~(Requests \subseteq {"resetJob"})
  BY <1>1, <1>6 DEF ResetStatus, Set, Idle
<1> QED BY <1>2, <1>3, <1>4, <1>5, <1>6 DEF RequestStep

(* With a single worker, orders of Kubernetes applications and no request   *)
(* but resets of jobs, any number of redeployments leaves the order with    *)
(* the status its applications call for.                                    *)
THEOREM OneWorkerFollows ==
    ASSUME Workers = 1, \A j \in Jobs : Kind[j] = "k8s", Requests \subseteq {"resetJob"}
    PROVE  Spec => []VerdictFollowsApps
<1>1. ASSUME NEW j \in Jobs, StartTask(j) PROVE \A i \in Jobs : ~Running(i)
  <2> DEFINE R == {i \in Jobs : Running(i)}
  <2>1. IsFiniteSet(R)
    BY ConstantsAssumption, FS_Subset
  <2>2. Cardinality(R) \in Nat /\ Cardinality(R) < 1
    BY <1>1, <2>1, FS_CardinalityType DEF StartTask
  <2>3. R = {}
    BY <2>1, <2>2, FS_EmptySet
  <2> QED BY <2>3
<1>2. TypeOK /\ SingleInv(Jobs) /\ [Next]_vars => SingleInv(Jobs)'
  <2> SUFFICES ASSUME TypeOK, SingleInv(Jobs), [Next]_vars PROVE SingleInv(Jobs)'
    OBVIOUS
  <2>1. CASE UNCHANGED vars \/ Tick
    BY <2>1, SingleIdle DEF vars, Tick
  <2>2. ASSUME NEW j \in Jobs, JobStep(j) PROVE SingleInv(Jobs)'
    <3>1. StepAlone(j)
      BY <1>1, <2>2 DEF JobStep, StepAlone
    <3> QED BY <3>1, JobStepSingle
  <2>3. ~\E c \in Clients : RequestStep(c)
    BY NoRequest
  <2> QED BY <2>1, <2>2, <2>3 DEF Next, Finished
<1>3. Init => SingleInv(Jobs)
  BY SingleStart
<1>4. SingleInv(Jobs) => VerdictFollowsApps
  BY SingleFollows
<1> QED BY <1>2, <1>3, <1>4, TypeCorrect, PTL DEF Spec

(* The case of the single worker, as it is checked.                         *)
THEOREM SingleVerdictFollows == CaseSpec => []VerdictFollowsSingle
<1> DEFINE runs == JobsOf["single"]
           Inv  == case = "single" => SingleInv(runs)
<1>1. runs \in SUBSET Jobs /\ \A j \in runs : Kind[j] = "k8s"
  BY CasesAssumption DEF JobsOf
<1>2. CaseInit => Inv
  BY SingleStart DEF CaseInit
<1>3. case \in DOMAIN JobsOf /\ TypeOK /\ JobRowInv /\ Inv /\ [CaseNext]_<<vars, case>> => Inv'
  <2> SUFFICES ASSUME TypeOK, case = "single", SingleInv(runs), [CaseNext]_<<vars, case>>, case' = case
               PROVE  SingleInv(runs)'
    BY DEF CaseNext
  <2>1. CASE UNCHANGED vars \/ Tick
    BY <2>1, SingleIdle DEF vars, Tick
  <2>2. ASSUME NEW j \in runs, CaseJob(j) PROVE SingleInv(runs)'
    <3>1. StepAlone(j)
      BY <2>2 DEF CaseJob, StepAlone
    <3> QED BY <1>1, <3>1, JobStepSingle
  <2>3. ASSUME NEW c \in Clients, RequestStep(c), req'[c].at \in StepsOf[case] PROVE FALSE
    <3>1. req'[c].at \in {"idle"}
      BY <2>3 DEF StepsOf
    <3> QED BY <2>3, <3>1, NoRequest
  <2> QED BY <2>1, <2>2, <2>3 DEF CaseNext, CaseDone
<1>4. Inv => VerdictFollowsSingle
  BY SingleFollows DEF VerdictFollowsSingle
<1> HIDE DEF Inv
<1> QED BY <1>2, <1>3, <1>4, CasesInductive, PTL DEF CaseSpec
=============================================================================
