------------------------------ MODULE BuildJob ------------------------------
(***************************************************************************)
(* The builds of one application: the requests that start and stop them,   *)
(* the Jenkins job that runs them, and the callback tasks that fetch a     *)
(* build's result and store it in the build's row.                         *)
(*                                                                         *)
(* A row names its Jenkins run by a number the request predicted before it *)
(* posted the build.  A callback and a stop both save a row object they    *)
(* read earlier.  Jenkins is external: runs start in order of their queue, *)
(* get consecutive numbers and never change once they have ended.          *)
(***************************************************************************)
EXTENDS Integers, FiniteSets

CONSTANTS
    Builds,       \* identities of builds, each used at most once
    Requests,     \* build requests in flight at once
    Workers,      \* task workers that run callbacks
    Clients,      \* requests that stop a build
    MaxPending    \* bound of the callbacks queued for a build by polling

ASSUME BuildAssumption ==
    /\ IsFiniteSet(Builds) /\ Builds # {}
    /\ Requests \in Nat \ {0} /\ MaxPending \in Nat

VARIABLES
    web,       \* web[b]: the step the request that starts b is at
    number,    \* number[b]: the build number that request predicted
    row,       \* row[b]: status column of the BuildJob row, or NoRow
    next,      \* nextBuildNumber of the Jenkins job
    run,       \* run[b]: what Jenkins does for b
    runNo,     \* runNo[b]: the number Jenkins gave b's run, or 0
    called,    \* called[b]: b's pipeline has called back
    pending,   \* pending[b]: callback tasks on the queue
    flag,      \* flag[b]: JENKINS_CALLBACK_KEY is set
    stored,    \* stored[b]: b has a BuildJobResult
    cb,        \* cb[w]: the callback worker w runs
    req,       \* req[c]: the stop request of client c
    lost       \* a callback has been lost

jenkins == <<next, run, runNo>>
tasks   == <<called, pending, flag, stored, cb, lost>>
vars    == <<web, number, row, jenkins, tasks, req>>

\* G_CI_STATUS.
Success  == 1
Failed   == 2
Building == 3
Voided   == 4
NotBuilt == 5
NoRow    == 0

\* What Jenkins says of a run with a number; JENKINS_STATUS_MAP for the
\* answers a callback saves, all but IN_PROGRESS.
Ended     == {"SUCCESS", "FAILED", "ABORTED"}
Going     == {"NOT_EXECUTED", "IN_PROGRESS"}
Answers   == Ended \cup {"NOT_EXECUTED"}
StatusOf  == [SUCCESS |-> Success, FAILED |-> Failed, ABORTED |-> Voided,
              NOT_EXECUTED |-> NotBuilt]
RowStatus == {NoRow, Success, Failed, Building, Voided, NotBuilt}
RunStates == {"none", "queued"} \cup Going \cup Ended
WebSteps  == {"none", "checked", "numbered", "posted", "done", "refused"}

AnyBuild == CHOOSE b \in Builds : TRUE
Task(at, b, f) == [at |-> at, build |-> b, flow |-> f]
Idle     == Task("idle", AnyBuild, "SUCCESS")
Callback == [at : {"idle", "fetch", "save", "store"}, build : Builds, flow : Answers]
StopOf(at, b) == [at |-> at, build |-> b]
NoStop   == StopOf("idle", AnyBuild)
Stop     == [at : {"idle", "abort", "save", "check"}, build : Builds]

InQueue   == \E b \in Builds : run[b] = "queued"
InFlight  == {b \in Builds : web[b] \in {"checked", "numbered", "posted"}}
RunsOf(b) == {r \in Builds : runNo[r] # 0 /\ runNo[r] = number[b]}

-----------------------------------------------------------------------------
Init ==
    /\ web = [b \in Builds |-> "none"]
    /\ number = [b \in Builds |-> 0]
    /\ row = [b \in Builds |-> NoRow]
    /\ next = 1
    /\ run = [b \in Builds |-> "none"]
    /\ runNo = [b \in Builds |-> 0]
    /\ called = [b \in Builds |-> FALSE]
    /\ pending = [b \in Builds |-> 0]
    /\ flag = [b \in Builds |-> FALSE]
    /\ stored = [b \in Builds |-> FALSE]
    /\ cb = [w \in Workers |-> Idle]
    /\ req = [c \in Clients |-> NoStop]
    /\ lost = FALSE

(* app_build_handle, one transaction.  Its requests to Jenkins are steps:   *)
(* is a build in the queue; what will the next number be; still none in the *)
(* queue, then post.  The row is seen by others at the commit.              *)
Web(b, step) == web' = [web EXCEPT ![b] = step]

\* Slip: the queue is looked at only before posting.
BuildCheckSkipped(b) ==
    /\ web[b] = "none" /\ Cardinality(InFlight) < Requests
    /\ Web(b, "checked")
    /\ UNCHANGED <<number, row, jenkins, tasks, req>>

BuildCheck(b) ==
    /\ web[b] = "none" /\ Cardinality(InFlight) < Requests
    /\ Web(b, IF InQueue THEN "refused" ELSE "checked")
    /\ UNCHANGED <<number, row, jenkins, tasks, req>>

\* Slip: the number of the last build is taken for the next one's.
BuildNumberLast(b) ==
    /\ web[b] = "checked"
    /\ Web(b, "numbered")
    /\ number' = [number EXCEPT ![b] = next - 1]
    /\ UNCHANGED <<row, jenkins, tasks, req>>

BuildNumber(b) ==
    /\ web[b] = "checked"
    /\ Web(b, "numbered")
    /\ number' = [number EXCEPT ![b] = next]
    /\ UNCHANGED <<row, jenkins, tasks, req>>

BuildPost(b) ==
    /\ web[b] = "numbered"
    /\ Web(b, IF InQueue THEN "refused" ELSE "posted")
    /\ run' = IF InQueue THEN run ELSE [run EXCEPT ![b] = "queued"]
    /\ UNCHANGED <<number, row, next, runNo, tasks, req>>

(* build_number_binding finds no row, or one that has a number already: it  *)
(* changes nothing.                                                         *)
BuildCommit(b) ==
    /\ web[b] = "posted"
    /\ Web(b, "done")
    /\ row' = [row EXCEPT ![b] = Building]
    /\ UNCHANGED <<number, jenkins, tasks, req>>

(* The request ends without a commit: the run has no row.                   *)
BuildRollback(b) ==
    /\ web[b] \in {"checked", "numbered", "posted"}
    /\ Web(b, "refused")
    /\ UNCHANGED <<number, row, jenkins, tasks, req>>

-----------------------------------------------------------------------------
(* Jenkins.                                                                *)

(* A run has its number before its pipeline has executed a stage.          *)
RunStart(b) ==
    /\ run[b] = "queued"
    /\ run' = [run EXCEPT ![b] = "NOT_EXECUTED"]
    /\ runNo' = [runNo EXCEPT ![b] = next]
    /\ next' = next + 1
    /\ UNCHANGED <<web, number, row, tasks, req>>

RunExecute(b) ==
    /\ run[b] = "NOT_EXECUTED"
    /\ run' = [run EXCEPT ![b] = "IN_PROGRESS"]
    /\ UNCHANGED <<web, number, row, next, runNo, tasks, req>>

(* The pipeline's last stage calls back while its run is still in progress. *)
PipelineCallback(b) ==
    /\ run[b] = "IN_PROGRESS" /\ ~called[b]
    /\ called' = [called EXCEPT ![b] = TRUE]
    /\ pending' = [pending EXCEPT ![b] = @ + 1]
    /\ UNCHANGED <<web, number, row, jenkins, flag, stored, cb, lost, req>>

RunEnd(b) ==
    /\ run[b] \in Going
    /\ \E s \in {"SUCCESS", "FAILED"} : run' = [run EXCEPT ![b] = s]
    /\ UNCHANGED <<web, number, row, next, runNo, tasks, req>>

-----------------------------------------------------------------------------
(* JenkinsBuild.callback, run by a task worker.                            *)

Run(w, c) == cb' = [cb EXCEPT ![w] = c]

\* Slip: a task runs without having been queued.
CallbackStartUnasked(w, b) ==
    /\ cb[w] = Idle /\ row[b] # NoRow
    /\ pending' = [pending EXCEPT ![b] = @ - 1]
    /\ flag' = [flag EXCEPT ![b] = TRUE]
    /\ Run(w, Task("fetch", b, "SUCCESS"))
    /\ UNCHANGED <<web, number, row, jenkins, called, stored, lost, req>>

(* A callback for a build without a row returns at once.                    *)
CallbackStart(w, b) ==
    /\ cb[w] = Idle /\ pending[b] > 0
    /\ pending' = [pending EXCEPT ![b] = @ - 1]
    /\ IF row[b] = NoRow
       THEN UNCHANGED <<flag, cb>>
       ELSE /\ flag' = [flag EXCEPT ![b] = TRUE]
            /\ Run(w, Task("fetch", b, "SUCCESS"))
    /\ UNCHANGED <<web, number, row, jenkins, called, stored, lost, req>>

\* Slip: a run still in progress is not asked for again.
CallbackFetchOnce(w) ==
    /\ cb[w].at = "fetch"
    /\ \/ \E r \in RunsOf(cb[w].build) :
             /\ run[r] \in Answers
             /\ Run(w, Task("save", cb[w].build, run[r]))
             /\ UNCHANGED lost
       \/ /\ \E r \in RunsOf(cb[w].build) : run[r] = "IN_PROGRESS"
          /\ Run(w, Idle)
          /\ UNCHANGED lost
       \/ /\ RunsOf(cb[w].build) = {}
          /\ lost' = TRUE
          /\ Run(w, Idle)
    /\ UNCHANGED <<web, number, row, jenkins, called, pending, flag, stored, req>>

(* Only a run in progress is asked for again, by a new task: one that has    *)
(* executed nothing yet is an answer like any other.  A run that does not   *)
(* exist yet makes the task raise.                                          *)
CallbackFetch(w) ==
    /\ cb[w].at = "fetch"
    /\ \/ \E r \in RunsOf(cb[w].build) :
             /\ run[r] \in Answers
             /\ Run(w, Task("save", cb[w].build, run[r]))
             /\ UNCHANGED <<pending, lost>>
       \/ /\ \E r \in RunsOf(cb[w].build) : run[r] = "IN_PROGRESS"
          /\ pending' = [pending EXCEPT ![cb[w].build] = @ + 1]
          /\ Run(w, Idle)
          /\ UNCHANGED lost
       \/ /\ RunsOf(cb[w].build) = {}
          /\ lost' = TRUE
          /\ Run(w, Idle)
          /\ UNCHANGED pending
    /\ UNCHANGED <<web, number, row, jenkins, called, flag, stored, req>>

CallbackSave(w) ==
    /\ cb[w].at = "save"
    /\ row' = [row EXCEPT ![cb[w].build] = StatusOf[cb[w].flow]]
    /\ Run(w, Task("store", cb[w].build, cb[w].flow))
    /\ UNCHANGED <<web, number, jenkins, called, pending, flag, stored, lost, req>>

CallbackStore(w) ==
    /\ cb[w].at = "store"
    /\ stored' = [stored EXCEPT ![cb[w].build] = TRUE]
    /\ Run(w, Idle)
    /\ UNCHANGED <<web, number, row, jenkins, called, pending, flag, lost, req>>

(* Jenkins does not answer, answers with a status the map does not know, or *)
(* the worker dies: nothing runs the task again.                            *)
CallbackDies(w) ==
    /\ cb[w] # Idle
    /\ Run(w, Idle)
    /\ lost' = TRUE
    /\ UNCHANGED <<web, number, row, jenkins, called, pending, flag, stored, req>>

FlagExpires(b) ==
    /\ flag[b]
    /\ flag' = [flag EXCEPT ![b] = FALSE]
    /\ UNCHANGED <<web, number, row, jenkins, called, pending, stored, cb, lost, req>>

(* build_result: a user who looks at a build without a result asks again.   *)
BuildResult(b) ==
    /\ row[b] # NoRow /\ ~(row[b] # Building /\ stored[b])
    /\ pending[b] < MaxPending
    /\ pending' = [pending EXCEPT ![b] = @ + 1]
    /\ UNCHANGED <<web, number, row, jenkins, called, flag, stored, cb, lost, req>>

-----------------------------------------------------------------------------
(* stop_job: only a build that was read as building is stopped.            *)

Stopping(c, s) == req' = [req EXCEPT ![c] = s]

StopRead(c, b) ==
    /\ req[c] = NoStop /\ row[b] = Building
    /\ Stopping(c, StopOf("abort", b))
    /\ UNCHANGED <<web, number, row, jenkins, tasks>>

StopAbort(c) ==
    /\ req[c].at = "abort"
    /\ run' = [r \in Builds |-> IF r \in RunsOf(req[c].build) /\ run[r] \in Going
                                THEN "ABORTED" ELSE run[r]]
    /\ Stopping(c, StopOf("save", req[c].build))
    /\ UNCHANGED <<web, number, row, next, runNo, tasks>>

StopSave(c) ==
    /\ req[c].at = "save"
    /\ row' = [row EXCEPT ![req[c].build] = Voided]
    /\ Stopping(c, StopOf("check", req[c].build))
    /\ UNCHANGED <<web, number, jenkins, tasks>>

\* Slip: the callback is asked for only if one has been handled before.
StopCheckInverted(c) ==
    /\ req[c].at = "check"
    /\ pending' = [pending EXCEPT ![req[c].build] = @ + IF flag[req[c].build] THEN 1 ELSE 0]
    /\ Stopping(c, NoStop)
    /\ UNCHANGED <<web, number, row, jenkins, called, flag, stored, cb, lost>>

StopCheck(c) ==
    /\ req[c].at = "check"
    /\ pending' = [pending EXCEPT ![req[c].build] = @ + IF flag[req[c].build] THEN 0 ELSE 1]
    /\ Stopping(c, NoStop)
    /\ UNCHANGED <<web, number, row, jenkins, called, flag, stored, cb, lost>>

-----------------------------------------------------------------------------
Finished ==
    /\ \A b \in Builds : /\ web[b] \in {"done", "refused"}
                         /\ run[b] \in {"none"} \cup Ended /\ pending[b] = 0
    /\ \A w \in Workers : cb[w] = Idle
    /\ \A c \in Clients : req[c] = NoStop
    /\ UNCHANGED vars

BuildStep(b) ==
    \/ BuildCheck(b) \/ BuildNumber(b) \/ BuildPost(b) \/ BuildCommit(b)
    \/ BuildRollback(b)

JenkinsStep(b) ==
    RunStart(b) \/ RunExecute(b) \/ PipelineCallback(b) \/ RunEnd(b)

CallbackStep(w) ==
    \/ \E b \in Builds : CallbackStart(w, b)
    \/ CallbackFetch(w) \/ CallbackSave(w) \/ CallbackStore(w)

StopEnds(c) == StopAbort(c) \/ StopSave(c) \/ StopCheck(c)

Next ==
    \/ \E b \in Builds : BuildStep(b) \/ JenkinsStep(b) \/ FlagExpires(b) \/ BuildResult(b)
    \/ \E w \in Workers : CallbackStep(w) \/ CallbackDies(w)
    \/ \E c \in Clients : (\E b \in Builds : StopRead(c, b)) \/ StopEnds(c)
    \/ Finished

Spec == Init /\ [][Next]_vars

(* Jenkins ends the runs it starts; workers run their tasks, and a worker   *)
(* that keeps taking tasks takes each build's in its turn; stops end.       *)
Fairness ==
    /\ \A b \in Builds : WF_vars(RunStart(b)) /\ WF_vars(RunEnd(b))
    /\ \A w \in Workers :
          /\ WF_vars(CallbackStep(w))
          /\ \A b \in Builds : SF_vars(CallbackStart(w, b))
    /\ \A c \in Clients : WF_vars(StopEnds(c))

FairSpec == Spec /\ Fairness

-----------------------------------------------------------------------------
(* Properties.                                                             *)

(* Every variable has its type.                                             *)
TypeOK ==
    /\ web \in [Builds -> WebSteps]
    /\ number \in [Builds -> Nat]
    /\ row \in [Builds -> RowStatus]
    /\ next \in Nat \ {0}
    /\ run \in [Builds -> RunStates]
    /\ runNo \in [Builds -> Nat]
    /\ called \in [Builds -> BOOLEAN]
    /\ pending \in [Builds -> Nat]
    /\ flag \in [Builds -> BOOLEAN]
    /\ stored \in [Builds -> BOOLEAN]
    /\ cb \in [Workers -> Callback]
    /\ req \in [Clients -> Stop]
    /\ lost \in BOOLEAN

(* callback: the row gets the result of its own build.  A build whose row   *)
(* says success is offered for deployment: its run has succeeded and its    *)
(* image exists.  A row says "failed" only of a build that failed; about    *)
(* "voided" it may be wrong, when a stop came too late, and about "not      *)
(* built" when the run was only asked for too early.                        *)
RowTellsRun ==
    \A b \in Builds : /\ row[b] = Success => run[b] = "SUCCESS"
                      /\ row[b] = Failed  => run[b] = "FAILED"

(* A stop aborts the run of the build it was asked to stop, if any.         *)
StopsOwnRun ==
    [][\A b \in Builds : run[b] \in Going /\ run'[b] = "ABORTED"
          => \E c \in Clients : req[c].build = b /\ req[c].at = "abort"]_run

Asked(b) ==
    /\ called[b] /\ row[b] # NoRow
    /\ pending[b] > 0 \/ \E w \in Workers : cb[w].at = "fetch" /\ cb[w].build = b

(* Once the pipeline has called back, whoever asks for a build that has a   *)
(* row ends it as built, failed or voided, however long Jenkins still       *)
(* reports the run in progress, unless a callback is lost.  This covers a   *)
(* pipeline's callback dropped for want of a row, when somebody looks at    *)
(* the build later.  A build asked for before its pipeline runs may end as  *)
(* "not built" while the run goes on.                                       *)
CallbackEndsBuild ==
    \A b \in Builds : Asked(b) ~> (row[b] \in {Success, Failed, Voided} \/ lost)

(* A stopped build ends up with a result to look at, unless a callback is   *)
(* lost.                                                                    *)
StoppedHasResult ==
    \A b \in Builds : row[b] = Voided ~> (stored[b] \/ lost)
=============================================================================
