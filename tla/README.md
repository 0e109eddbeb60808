# TLA+ models of the DevOps backend

TLA+ specifications of the delivery platform in `src/`, with TLC
configurations that model-check them on small instances and proofs that the
TLA+ proof system checks for every value of their constants.  The platform is a
Django REST backend: web requests and background tasks (django-q workers,
celery workers, a Jenkins callback) read and write the same MySQL rows and
Redis keys, mostly without locks.  What is hard to get right, and hard to test,
is what the rows say when these actors interleave; that is what is modelled.

## 1. The system

| Component (source) | State it keeps | Operations | Talks to | Hard part | What makes it correct |
|---|---|---|---|---|---|
| Publish orders and deploy jobs (`apps/deploy/views.py`, `ext_func.py`, `qtasks/tasks_deploy.py`) | `PublishOrder`, `PublishApp`, `DeployJob` rows | create order, deploy an application, stages, end of a job, list (which voids), reschedule, void, edit, reset | task queue, Kubernetes, Ansible | unlocked read-then-save of whole rows by tasks and requests; tasks that die | order's status follows from its applications'; outcomes are final; nothing shows "deploying" that nobody deploys |
| Builds (`apps/deploy/ext_func.py`, `qtasks/tasks_build.py`) | `BuildJob` rows, Jenkins build numbers, callback key and image list in Redis | start, callback, stop, result | Jenkins, Harbor, task queue | duplicated and reordered callbacks, predicted build numbers, stop against callback | a row tells what became of its own run; a stop aborts no other's |
| Ticket workflow (`apps/workflow/`) | `Workflow`, `WorkflowNodeHistory`, callbacks | create, handle a node (pass, reject), countersign, revoke, close, retry of a callback | notification, order creation, callbacks | two approvers on one node, closed tickets, going back and jumping forward | no node is skipped; a countersigned one is left when all its members have passed |
| Ticket templates and revisions (`apps/workflow/ext_func.py`, `views/template.py`) | nodes of a template, of each ticket's own revision | edit, open a ticket, choose the next handlers, edit a revision | tickets | all nodes written from what was read earlier; forms merged by position | nobody who was given a node loses it |
| Rollout on clusters (`qtasks/tasks_deploy.py`, `common/kubernetes_utils.py`, `common/utils/K8sAPI.py`, `apps/cmdb/view/view_cmdb.py`) | progress of a deployment on each cluster, online state and version of the application | request, stages, polls, time-out, take offline, delete later | Kubernetes | other deployments and deletions between call, look and look again; stale saves | what is recorded as rolled out was ready, on the clusters it was for |
| Rollout on hosts (`qtasks/tasks_deploy.py`, `common/utils/AnsibleAPI.py`, `AnsibleCallback.py`) | list of events in Redis, the job's status, the version | playbook events, verdict, reset | Ansible | partial success; hosts edited meanwhile; inventory and targets differ | a success has reached what it could reach |
| Log watchers (`celery_tasks/tasks.py`, `tasks_build.py`, `apps/deploy/consumers.py`) | flags in Redis, websockets | follow a job, build or pods until the end | tasks, Jenkins, Kubernetes | end read from other tasks' keys; slots of the worker shared | a watcher ends, and has told the result |
| Notices (`qtasks/tasks.py`) | messages and delay keys in Redis | store a message, schedule and run a flush | robots | list, get and delete in three calls; several flushes of one key | every message is handed over, by flushes that overlap only |
| Task cluster (`common/extends/django_qcluster.py`, `q_redis_broker.py`) | broker's list, memory, workers, timers | push, take, finish, guard loop, scheduler, restart | Redis | workers that hang, die or wear out | every queued task is started, none twice |
| CMDB: applications and services (`apps/cmdb/`) | applications, services, their Jenkins jobs, replicas, relations | create, edit, scale, relate, unrelate, delete | Jenkins, Kubernetes | whole-row saves, look-ups by name, steps that are not one transaction | a service has its job, a scaling stays, an application keeps its own images |
| Deployment templates (`common/ext_fun.py`) | four levels of templates | merge, inherit | – | precedence of levels with different switches | each block comes from the nearest level |
| System settings (`apps/ucenter/views.py`, `common/ext_fun.py`) | row, copy in the cache, credential in Jenkins | edit, create, delete, read with refill | Jenkins, Redis | three copies written in turn, no expiry, names that change | the copies follow the row |
| Roles, menus, permissions (`apps/ucenter/`, `common/extends/permissions.py`) | menus, roles, users | edit, log in, show menus, check a request | – | trees assembled from several roles | roles add up |
| Login and accounts (`common/extends/JwtAuth.py`, `apps/ucenter/`) | tokens, the user's row | log in, refresh, edit, disable | settings | lifetimes that change; stale saves of a disabled row | sessions end, a disabled account stays so |
| Generic views, other CMDB rows, ticket categories and lists, dashboard, documents, API clients, set-up | none that the above depends on | read, edit one row, forward, format | – | – | not modelled (section 5) |

### How the parts interact

A user creates an **order** with one row per application (one transaction).
Each deployment of an application inserts a **job** row and, in the same
transaction, puts a **task** on the queue.  A worker of the **task cluster** runs
it: it marks job, application and order as deploying, rolls out on **clusters**
or **hosts**, and writes job, application and order again at the end; it leaves
what it does in Redis, where **watchers** read it, and a **notice** that a
scheduled flush hands on.  Meanwhile **web requests** list orders (and void the
ones outside their time window on the way), reschedule them, void or edit their
applications and reset jobs.  Builds are started the same way and ended by a
**callback** from Jenkins; an ended build may call back into the deployment of
its image, which inserts a job without an order.  A ticket workflow calls back
into the platform when a node has been handled: the callback is a task that posts
to one of the platform's own views.  What a task deploys with comes from the
**CMDB**'s rows and **templates** and from the cached **settings**.

In the models these meet where one relies on the other: `PublishOrder` picks any
outcome `DeployStatus` derives from clusters or playbook, and `K8sRollout` and
`HostRollout` use or check the same operators for how an outcome comes about
(`EndsAsOrdered` says so for hosts); `TaskCluster` justifies that a dead task is
never run again, which `PublishOrder`, `BuildJob` and `K8sRollout` rely on;
`TicketForm` gives nodes the members that `Workflow` takes as constant.

## 2. Modules

| Module | What it is |
|---|---|
| `DeployStatus` | Status codes and the pure rules that derive one status from others: a job's outcome from clusters or playbook, an order's verdict from its applications (three variants in the code), what a void decides. |
| `PublishOrder` | One order: rows, jobs, tasks, workers that die, requests. |
| `MCPublishOrder`, `MCOrderCases` | Instances of it: who deploys what with which task class; three cases in one run. |
| `BuildJob` | The builds of one application: requests that start and stop them, the Jenkins job, the callback tasks. |
| `Workflow` | One ticket on its way through the nodes of its template, with the requests and callbacks that move it. |
| `MCWorkflow` | Its templates for the runs, and how far users overlap. |
| `RolloutPromise` | Abstract: a deployment ends at most once, and as a success only if its image was ready on every cluster it was for. |
| `K8sRollout` | Detailed: the request, the task's stages and polls on each cluster, Kubernetes' controllers, the offline request and its delayed deletion.  Implements `RolloutPromise`. |
| `MCK8sRollout` | Its instances. |
| `LogWatch`, `Notify`, `TaskCluster` | Watchers, notices, the cluster of task workers. |
| `MCServices` | The three side by side, one per behaviour, with their fairness. |
| `AppCatalogue`, `AppGroup` | Applications and services; related applications. |
| `SettingsCache`, `DeployTemplate`, `Access` | Settings and their copies; the merge of templates; menus, roles and permissions. |
| `TicketForm` | Who may handle the nodes of a ticket. |
| `HostRollout` | Deployment with a playbook. |
| `Session` | Tokens and the account's row. |
| `MCCatalogue` | These eight side by side, one per behaviour. |
| `PublishOrderProofs`, `BuildJobProofs`, `WorkflowProofs`, `K8sRolloutProofs`, `HostRolloutProofs` | Theorems about the module of that name, and about its cases. |
| `ServicesProofs` | Those about `LogWatch`, `Notify` and `TaskCluster`. |
| `ApplicationProofs` | Those about `AppCatalogue`, `AppGroup` and `DeployTemplate`. |
| `AdminProofs` | Those about `SettingsCache`, `Access`, `TicketForm` and `Session`. |

The definitions marked *Slip* are plausible bugs in the definition that follows
them; no specification uses them, and each breaks a property of a run.

### `PublishOrder` and the code

*State.* `order`, `app`, `job` are the rows (the columns that decide: status,
planned time).  `task[j]` is the step the task of job `j` is at, `result[j]`
its `cd_result['status']`, `held[j]` the `PublishOrder` object it carries in
memory; `req[c]` the same for a web request.  `dead[j]`: the task's worker is
gone.  The broker keeps no copy of a popped task, so a task whose worker dies is
never run again.

*Steps.* Tasks run outside transactions: every SQL statement is an action.
`K8sNext` and `AnsibleNext` give the order of the statements of the two task
classes, which differs: `K8sDeploys` marks the job first and fetches the order
again at the end; `JarDeploy` and `WebDeploy` mark the application first and
save at the end the order object they read at the start.  `Model.save()` writes
all columns; the model therefore writes the whole `held` or `req.ord` record
back.  A transaction (`partial_update`, `reset_status`) writes at its last
action and holds the lock of the row it updated until then (`Locked`); it runs
at READ COMMITTED, Django's default on MySQL.

*Requests.* `list` and `reschedule` read the order in `extend_filter` and may
void it from that copy; a reschedule reads it again and saves it.  `void` is
`PublishAppViewSet.partial_update` with status 4, `editApp` the same with other
columns (it writes back the status it read), `reset` and `resetJob` the two
branches of `reset_status`.  Which of them an instance has is a constant.

*Not in the model.* A PATCH that writes an arbitrary status number; deletion of
rows; the superuser's list (it iterates the class attribute `queryset`, which
REST framework forbids: that request fails before it changes anything); result
caches and documents.  Notices are `Notify`.

### `BuildJob` and the code

*State.* `row[b]` is the status column of a build's row, `number[b]` the number
`app_build_handle` predicted and stored in it, `web[b]` the step of the request.
`next`, `run` and `runNo` are Jenkins, which is external: it takes builds from
its queue, numbers them and never changes a run that has ended.  `pending[b]`
counts callback tasks on the queue, `cb[w]` is the one a worker runs, `req[c]` a
stop.  `flag[b]` is the Redis key that says a callback was seen within the hour.

*Steps.* The request's calls to Jenkins are steps (`BuildCheck`, `BuildNumber`,
`BuildPost`); its transaction shows the row at `BuildCommit`.  A callback fetches
the run by its number, and, if the run has ended, saves the row and stores the
result; if it is in progress, it queues itself again.  A run that has executed nothing
yet answers `NOT_EXECUTED`, which `JENKINS_STATUS_MAP` makes a 5: the callback saves
that like an end (`NotBuilt`) and does not ask again; the pipeline's own callback, which
comes later, still ends the build.  `stop_job` reads the row, aborts the
run, saves the row, and asks for a callback unless the flag is set.  A callback
may die at each step: Jenkins does not answer, reports a status the map does not
know, or the worker is killed.

*Abstracted.* `build` returns a pair when the queue is busy, which its caller
unpacks as three: the request fails and is rolled back, as `BuildPost` says.  A
batch stop reads all rows at once; it is the stops of `Clients` side by side.
Several `BuildJobResult` rows of a build are one `stored`.  The list of images in
Redis is written and never read.

### `Workflow` and the code

*State.* `ticket` is the row's node and status, `history` the node records
(oldest first; the code's `first()` is the newest, its model orders by
descending id), `req[c]` an open page or a request with the row it has read,
`calls` the callbacks queued so far.

*Steps.* Opening a page (`Open`), the request's read (`UpdateRead`) and its
writes (`Pass`, `Reject`) are steps.  `update` takes any ticket by its number: it asks
neither for its status nor for who the user is (`check_user_is_workflow_member` returns
true and `put` never looks at it), so anybody may handle any ticket at any time, and the
to-do list, which only shows tickets, is left out.  The writes of one request are one step:
inserting a history record locks the ticket's row through its foreign key, and
the lock is held to the commit; two requests that deadlock there are one that
happened and one that was rolled back.  `Target` reads the history as
`_get_next_node_name` does: after a rejection the ticket returns to the node that
rejected it.  `Revoke`, `Close` and `Complete` are the views of those names, which
copy the newest record of the first node, form and all.  Callbacks are queued at
the commit and run as tasks; the one modelled is `AppMemberAPIView`, which reads
the ticket, works, and saves it as complete.

*Left out.* Who the members are and how they change (`TicketForm`), organisations as
members, the columns of callback rows, notices.  The front end is not in the repository: `FirstForms` says what the form
of the first node may carry as a decision; the runs take one that carries none.

### `K8sRollout` and the code

*State.* `app` is the online state and version of the `AppInfo` row, `kd` the
versions of the `KubernetesDeploy` rows, `at[j]` the step of job `j`'s request or
task, `held[j]` the row it carries, `cur`, `stages`, `seen`, `polls` and `rounds` the
locals of `K8sDeploys.run`, `deploy_flow_standard` and `DeploymentCheck.run`.
`spec`, `rev`, `sets` and `pods` are Kubernetes: the image of the Deployment, its
revision annotation, the replica sets' revisions, and those whose pods are ready;
`up` remembers what has ever been ready and is the abstract module's variable.

*Steps.* Each call to a cluster and each statement is one.  `Targets[j]` are the clusters
that the request of job `j` chose, of those the application has: the task takes
these alone, one after the other, and records the version when they have all succeeded;
with none the job fails.  `Killed` is the guard of the task cluster, which kills a
worker whose task takes longer than 600 s: 31 rounds of polls on one cluster may.  The
check fetches the Deployment once (`Found`) and then polls the replica set of that revision;
controllers, another task and a deletion act in between.  A call that fails may
have been carried out.  `RoundFails` and `CheckFails` are the two ends of the loop:
`run` counts down before a round and looks at the counter after it, so there is one
round more than `DEPLOY_CHECK` says.  `OfflineSave` and `ResourceDelete` are
`delete_resource` and `k8s_resource_delete`; the key that refuses a second deletion
is left open, since `list` looks it up under another name than it is set under.

*Left out.* The namespace and service that `app_deploy` makes on the way (their
failure is that of the call), the online states of clusters, the text of stage results.

### `LogWatch`, `Notify`, `TaskCluster` and the code

`LogWatch`: `word` and `flag` are the two Redis keys of a deployment, `stage` the
task that writes them in the order `DeployResult`, `DeploySave`, `DeployFlag`.  `target`
tells the two kinds of task apart: `K8sDeploys` writes its final result to the word
before it saves the job, `JarDeploy` and `WebDeploy` leave there what the last event of
the playbook put, and set the flag all the same.
`watch_k8s_deployment` reads the flag, then the word (`ReadFlag`, `ReadFlagged`), and
after `Reads` such rounds deletes the word.  Build watchers count every round, also
those that raise.  A pods socket starts a watcher with each message it receives and
remembers the newest.

`Notify`: storing and scheduling are two steps of a task, listing, getting,
deleting and handing over four of `deploy_notify_queue`.  `deploy_notify_cron`
raises at the first key that is due (it calls `apply_async` of a plain function),
so only scheduled flushes do anything.  Robots are not in the repository.  A message
also leaves the cache when its three hours are over (`tasks_deploy.py:238`): that is not
modelled, a delay is some minutes.

`TaskCluster`: `Guard` is one cycle of `Sentinel.guard` with the scheduler and the
replacement of workers; pusher and workers belong to django-q and are external,
as is the Redis list.  A popped task exists in memory only.

### `AppCatalogue`, `AppGroup`, `SettingsCache`, `DeployTemplate`, `Access`, `TicketForm`, `Session` and the code

A request is its reads and its writes in the order of the statements, one action
each, carrying what it has read; where the view runs in a transaction its writes
are one action.  Ghost variables (`asked`, `excused`, `raced`, `untold`, `bound`,
`chosen`, `mixed`, `ends`, `disabled`, and `stale`, `old` and `late` of a call) record what a property speaks of and guard
nothing.  Their comments say when they are set; each excuses exactly the overlap
that the README's table below names.

`AppCatalogue`: a deployment reads the row three times for different ends: the request
makes the manifest from what it read, and may save that as online (`DeployQueue`,
`DeployOnline`); the task reads the row again to save it after the rollout (`TaskRead`,
`DeployApply`, `WholeRowSave`).  A scaling finds its row by the namespace up to the first dash
(`SpaceTag`), while `uniq_tag` has the name's part after the last underscore
(`NameTag`): `Matching` compares the two, so an environment called `dev_sz` is not found
and `dev` may be found in its place.  `services[a]` are the environments `a` has a
service in, and `newest[a]` the one saved last: `AppInfo`'s Meta orders by save, and `extend_jenkins` takes the
`first()`.  `given` are the ids of applications that have been used: the database gives
each once.  `AppGroup`: `ids` is
`multiple_ids`; a PUT of the group's columns with lists that the page made up is left
out.  `SettingsCache`: a value is the number of the edit that wrote it; a row has a primary
key, and an edit may change its name and its type, as `form` says.  Harbor's own
credential in Jenkins is left out.
`DeployTemplate`: a level is a function from the blocks it gives to who gives them;
`Merged` and `Inherited` are `template_generate` and `get_inherit_template`, `Over` the
merge of two levels.  The `rstrip('_on')` that makes a switch's block is taken to cut the
suffix: it differs for blocks whose names end in one of its letters, which none
of those that `template_generate` uses does.
`Access`: `Routers` is `get_routers`: the whole tree for superusers and holders of the
permission admin (`SeesAll`), else the tree of the granted menus, else the fallback with
what had been hung by then (`hung`).  `Reached` are the menus that `menu_sort` comes to going
down from the top, and `Endless` says that it comes to no end.  `TicketForm`: `NodesOf` is
`create_workflow`'s merge.  `Session`: a token is the time it expires.

### `HostRollout` and the code

A job is one record: its row, its task and the list of events.  `Event` is the
callback plugin's append with the task's `generate_result` after it; the loop over
target hosts is the playbook's last task.  Ansible decides how tasks end and goes
on while the host is well.

## 3. Runs

The runs are named in `PROJECT.json`, each with its `.cfg`.

| Run | Shows |
|---|---|
| `orders` (`OrderCases`) | three cases of one order.  *mixed*, a k8s and a jar deployment with listings, voids and resets of jobs in between: types; a row that shows "deploying" belongs to a task; a job's row agrees with its task; its outcome is final; no order is concluded over an application that nobody touched.  *planned*, a web and a jar deployment with listings and reschedulings: a conclusion is true whenever it is shown.  *single*, redeployments by one worker: the order ends with the status its applications call for |
| `order_live` | every queued task ends or its worker dies, whatever voids, edits and resets of applications do (`LiveNext`: the requests that write the rows a task locks; the others are in `orders`) |
| `build_safe` | one build request at a time: a row says success or failure only of its own run, a stop aborts no other build's run |
| `build_live` | once the pipeline has called back, whoever asks for the build ends it; a stopped build gets a result; both unless a callback is lost |
| `workflow` | anybody handles the ticket, two at once with every override, callbacks and retries, or one at a time with a longer history: no node is skipped, and a countersigned node is left only when each of its members has passed the ticket |
| `rollout_safe` | three deployments on two clusters, one for both, one for one of them, one for none: what is recorded as rolled out was ready; `K8sRollout` implements `RolloutPromise` |
| `rollout_live` | two deployments that one worker takes, and a deletion: a deployment a worker has taken ends or is killed |
| `services` | watchers end, and have told the result of a deployment to Kubernetes; messages are handed over; tasks are started, none twice |
| `catalogue` | the eight parts of `MCCatalogue`: services have their jobs, scalings stay, own images are offered, copies follow the row, the nearest level wins, roles add up, nobody is lost from a node, a success has reached its hosts and ends as `DeployStatus` says, sessions end, disabled accounts stay so |

### Bounds

Orders: two applications, two or three jobs (each job id is used once, so the
number of deployments is the number of jobs), one or two workers, one request in
flight, clock 0..1 with a window of 0 so that a planned time can be before, inside
and behind the window.  Two jobs and one more actor reach every pairwise
interleaving of the handlers; the third job of *single* adds a redeployment.

`build_safe` has two builds, two callback workers and a stop; a third build only
repeats the second's part.  `build_live` has one build, since its properties speak
of one, and one poll by a user (`MaxPending`).

`workflow`: a template of three nodes, the second countersigned by two members;
histories of up to six records let a ticket be rejected and resubmitted or
overridden and handled again; while requests overlap four (`ShortHistory`) are
enough for two overlapping decisions after a rejection.  `MaxCalls` bounds retries.

Rollouts: each job has its own image; every poll count is 1, the least at which a poll can
fail and be repeated.  Two clusters, so that one can succeed and the other fail, and
so that a job may be for one of them.  Two workers in `rollout_safe` overlap the first two
jobs; the third, which is for no cluster, only marks the application and ends.
`rollout_live` has one worker, for two would multiply its states, and a deletion;
`rollout_safe` has the overlap and no deletion, for the same reason.  In the proofs jobs,
workers, clusters and deletions are any number.

`services`: two slots for two deployment watchers, a console and a pods socket, of
which three at a time are opened (`absent`), so that watchers wait for a slot; six
reads and 600 rounds are `Reads = 2` and `Rounds = 1`, since nothing depends on
their number but that there are some.  Three messages under two keys, two flushes.
Three tasks, two workers, two faults: both workers can be gone at once.

`catalogue`: two clients and three or four requests in each part, two applications
of one name, two environments whose namespaces begin alike, three members of a group, two
settings with four forms (a name on another's type among them) and three requests about
them, two blocks of which one is required, three menus in a chain (edits make
cycles of it) and two roles, three
templates of tickets, four lists of hosts (none, the forwarding host among them or
not, one listed twice), time up to 5.  Every violation listed below, and every
mutant, needs at most two clients and four requests.  The parts share no variable
and no constant that matters, so running one per behaviour loses nothing.

`MaxFaults`, `MaxCalls`, `MaxGroupCalls`, `MaxSettingCalls`, `MaxForms`, `MaxChanges`,
`MaxHostEdits`, `MaxUserCalls`, `MaxTime`, `MaxHearts`, `MaxHistory`, `MaxPending` bound how much
happens, not in which order.  When they are used up the system stops: the runs
`services` and `catalogue` do not check for deadlock for that reason.

### Fairness

`build_live`: Jenkins starts and ends its runs, workers run what they took and take
each build's tasks in their turn (strong fairness: the queue is first in, first
out), a stop request ends.  Losing a callback is no obligation, and the properties
allow for it: nothing in the code runs a lost callback again.

`order_live`: a worker that is free takes queued work (WF), a running task takes its
next statement (SF, because requests keep locking the row it needs and InnoDB grants
locks in the order of the requests), a request in flight ends (WF).  Users are under
no obligation, and neither are deaths.

`rollout_live`: a worker goes on with the task it has popped (WF) until the task cluster
kills it, which is an end as well and under no obligation.  Nothing is asked of the
clusters: the check ends by its own counters.

`services`: the guard loop, the pusher and idle workers go on, tasks themselves may
hang for ever (WF of `Guard`, `PushSome`, `TakeSome`); a task that sends a message goes on,
flushes are taken and go on, and may die; a celery worker goes on with what it runs
and takes a task when a slot is free, the deployment's task goes on until it ends or
stops, Jenkins answers a watcher again and again (WF of `BuildAnswer`: without an
answer a watcher runs for ever).  Nobody has to connect, close or build.

### Disagreements

Runs that refute what the repository says of itself (each is a finding in
`PROJECT.json` with the quoted line):

| Run | Trace |
|---|---|
| `order_early_void` | an order planned for later is voided by the first listing: the window is two-sided |
| `build_number_race` | two requests predict the same number: one row gets the other's result |
| `workflow_twice` | a signature at one node counts at another |

### Where the properties stop

Several properties hold only within the bounds their runs state or with the excuses
their formulas name.  Outside them the same modules, or the code next to what they
model, reach the following states.  No run is kept for them.

Orders, builds and tickets.  Each can be seen by changing the constants as said and
checking the property named:

| Code | Change | What happens |
|---|---|---|
| `apps/deploy/views.py:177` | *mixed*, with an order concluded meanwhile | a listing reads an open order, tasks conclude it, the listing saves "void" |
| `qtasks/tasks_deploy.py:154` | *single* with `Workers = 2` | two tasks end; A counts B's application as deploying, B concludes the order, A saves "deploying" over it: `VerdictFollowsApps` fails |
| `apps/deploy/views.py:413` | `reset` among the requests of *mixed* | a reset checks "deploying", the task writes the outcome, the reset writes "waiting" over it; `NoAppLeftBehind` fails as well |
| `apps/deploy/views.py:109` | *mixed* with two clients | two voids at once: neither sees the other, all applications are void and the order stays open |
| `qtasks/tasks_deploy.py:1042` | web and jar jobs, a void | voided applications are counted as failures, unlike in `K8sDeploys` |
| `qtasks/tasks_deploy.py:1001` | any jar job | a playbook call raises, its handler raises while recording it, job and application stay "deploying" (`PlaybookRaises`) |
| `apps/deploy/views.py:678` | `build_safe` as it is | a stop that read a build before it ended saves "voided" over its result |
| `qtasks/tasks_build.py:337` | `build_safe` as it is | the run ends before the abort reaches it: the build reported as stopped becomes a success |
| `qtasks/tasks_build.py:337` | `build_safe` with `MaxPending = 1` | a build looked at before its pipeline runs is saved as "not built"; a save that comes late puts it over the end that another callback has saved |
| `apps/workflow/views/my_upcoming.py:40` | `workflow` as it is | anybody resubmits a rejected ticket; a pass of a closed, revoked or complete one makes it wait again, from an old page or from a new one |
| `apps/workflow_callback/views/base.py:47` | the same | a callback on its way completes a ticket closed meanwhile |
| `apps/workflow/views/my_upcoming.py:149` | no list in the model | the list leaves a countersigned node out for whoever has passed a node of that name, on this ticket before a revocation or on any other: the ticket may be on nobody's list |

Rollouts and services:

| Code | What happens |
|---|---|
| `qtasks/tasks_deploy.py:302` | the saved copy of the application restores the online state from before the deployment: of two deployments at once, or with a deletion, the state that stays is the one read first; with one worker this cannot happen |
| `apps/deploy/views.py:367` | a job whose task could not be queued stays waiting for ever; one without a manifest is queued and raises |
| `common/extends/django_qcluster.py:47` | a rollout that takes longer than 600 s is killed: job, application and order stay "deploying" |
| `apps/cmdb/view/view_cmdb.py:630` | a deletion scheduled before a deployment deletes what was deployed; two requests for one deletion can both pass the key's check |
| `apps/deploy/ext_func.py:290` | every application on the clusters deployed to is marked as applied for, not only the one deployed |
| `common/kubernetes_utils.py:134` | a rollout overtaken by another one polls for all its rounds before it fails |
| `celery_tasks/tasks.py:78` | tasks that raise, return early or die set no flag, and a flag set before its watcher starts may have expired: the watcher never ends and keeps its slot; the second watcher of a deployment finds the result deleted by the first |
| `qtasks/tasks_deploy.py:842` | the watcher of a deployment to hosts is told the end without the result (1027, 1112), and nothing at all when a playbook fails on a host, since the task returns before it sets the flag (1007) |
| `qtasks/tasks_build.py:60` | the verdict for a build in progress after 900 rounds is unreachable, since watchers stop after 600; with a Jenkins that never answers they do not stop |
| `qtasks/tasks.py:186` | two flushes that overlap hand over a message twice |
| `qtasks/tasks.py:171` | the cron raises at the first key that is due |

Catalogue:

| Code | What happens |
|---|---|
| `apps/cmdb/view/view_cmdb.py:1270` | two services created at once: one gets two Jenkins jobs, the other none (`excused`) |
| `apps/cmdb/view/view_cmdb.py:480` | a scaling is recorded although the cluster refused it, as 1 where the template has no strategy, in the newest application of that name, and in the environment that the namespace begins with: `dev` for one called `dev_sz`, none where no such part is in a `uniq_tag` |
| `apps/deploy/ext_func.py:293` | a scaling between a deployment's request and its task is undone in the cluster by the manifest, which is older, and kept in the template (`old`) |
| `apps/cmdb/view/view_cmdb.py:982` | after two overlapping changes of a group the partners' lists disagree |
| `common/ext_fun.py:86` | a refill that overlaps an edit leaves the old setting in the cache for good; a deleted setting is still served, and so is a renamed one under its old name; Harbor's setting is cached under another key than it is set under (`raced`) |
| `apps/ucenter/views.py:695` | Jenkins is told a new credential before the edit is checked (`untold`) |
| `common/ext_fun.py:253` | a block that the project's template does not name is never the environment's; without a project's template and own containers the merge raises outside its `try` |
| `apps/ucenter/serializers.py:206` | menus in a cycle are shown only while some menu misses its parent, and then once per role; if the cycle had been hung before that menu came, `menu_sort` recurses without end and the request fails |
| `apps/workflow/ext_func.py:53` | a form older than its template adds members to other nodes (`mixed`) |
| `apps/workflow/views/my_upcoming.py:85` | choosing handlers at the last node fails the request |
| `qtasks/tasks_deploy.py:1015` | a docker playbook matches no host unless the forwarding host is a target, and then leaves the other targets alone; a host listed twice makes every success partial; the whole row is saved, hosts edited meanwhile too |
| `apps/ucenter/views.py:513` | the save of a request let in earlier re-enables a disabled account |

## 4. Proofs

Every safety invariant and action property of the passing runs is a theorem; what the
runs alone show is liveness.

| Theorem | Says | Assumes |
|---|---|---|
| `PublishOrderProofs!TypeCorrect` | types | – |
| `!JobRowCorrect`, `!JobOutcomeIsFinal` | `JobRowTracksTask`, `JobOutcomeFinal` | – |
| `!DeployingAlwaysOwned` | `DeployingIsOwned` | no edits of application rows |
| `!NoneLeftBehind` | `NoAppLeftBehind` | no resets, no edits |
| `!OnceIsForGood` | `VerdictStands` | one job for each application (`OneJobEach`); requests list, reschedule or reset jobs |
| `!PlannedVerdictStands` | `VerdictStandsPlanned`, the case of `orders` | – |
| `!OneWorkerFollows` | `VerdictFollowsApps` | one worker, Kubernetes deployments, no request but resets of jobs |
| `!SingleVerdictFollows` | `VerdictFollowsSingle`, the case of `orders` | – |
| `BuildJobProofs!BuildTypeCorrect` | types | – |
| `!RowsTellRuns`, `!StopsOnlyOwnRun` | `RowTellsRun`, `StopsOwnRun` | one build request in flight (`build_number_race` shows why) |
| `WorkflowProofs!WorkflowTypeCorrect` | types | – |
| `!NoNodeIsSkipped` | `NoNodeSkipped` | only a pass of the last node calls the completing callback (`CallsAtEnd`) |
| `!EveryMemberHasPassed` | `MembersHavePassed` | the same |
| `K8sRolloutProofs!RolloutTypes` | types | – |
| `!RolloutRecordsTrue` | `RecordsWereReady` | – |
| `!RolloutKeepsPromise` | the refinement `KeepsPromise` | – |
| `HostRolloutProofs!SuccessHasReached`, `!EndsAsPublished` | `SuccessReachedAll`, `EndsAsOrdered` | – |
| `ServicesProofs!ServicesTyped` | types of the three services | – |
| `!ResultComesFirst` | `EndAfterResult` | – |
| `!NoSecondRun` | `RunOnce` | – |
| `!NoticesKept`, `!HandedOnce` | `NoneDropped`, `ReadOnce`: the safety part of `NoticeHanded` | – |
| `ApplicationProofs!CatalogueTypes` | types, `CatTypeOK` | – |
| `!ServicesHaveJobs`, `!ScalingStays` | `ServiceHasJob`, `ScaledStays` | – |
| `!OwnImages` | `OwnImagesOffered` | – |
| `!NearestAlwaysWins` | `NearestWins` | – |
| `AdminProofs!CopiesStayFresh` | `CopiesFollowRow` | – |
| `!RolesAlwaysAdd` | `RolesAdd` | – |
| `!MembersAlwaysKept` | `MembersKept` | – |
| `!LoginEnds`, `!DisabledStays` | `SessionEnds`, `StaysDisabled` | – |

All assume the named `ASSUME` of the module: types of its constants, finite sets where
the code counts, and in `K8sRollout` that a build has an image tag of its own, in
`SettingsCache` that gitlab and jenkins are looked up by name, in `AppCatalogue` that no two
environments share their part of `uniq_tag` (it is unique in the database), in `TicketForm`
that a template has a node and no two with one id.  The cases of
`orders` assume of the instance what makes them those cases (`CasesAssumption`): the jobs
of *planned* are for different applications, those of *single* are Kubernetes
deployments.

### Arguments

* *Orders.* `JobRowTracksTask` is not inductive: nothing in it keeps a row from showing
  an outcome too early, nor a task from ending without one.  `RowInv` adds both, and
  that a task past `get_job` has a row.  `DeployingIsOwned` needs only `RowInv` (the
  outcome written is one).  For `NoAppLeftBehind` the order's row is overwritten by old
  copies, so `TouchedInv` speaks of every copy: whoever holds a concluded order object
  read or computed it when no application waited; a void about to commit vouches for
  all but its own application.  Without resets an application never goes back to
  waiting, so old copies stay sound.
* *Orders deployed once.* `PlannedInv` says of every copy of the order what
  `VerdictStands` says of the row.  It needs that outcomes of applications are final,
  hence what the only job of an application is at (`RowsOnce`): the application waits
  until that job takes it and is deploying until that job ends it.  So a conclusion counted
  once stays true, however late its copy is saved.  That a count is a truth
  (`VerdictJustified`) is a lemma about the three variants of the rule.
* *Redeployments by one worker.* `SingleInv`: two tasks are never past the queue
  together, because the tasks that run are counted; between two of them the order says what its
  applications do, and a task about to save the order carries their verdict.  A worker
  that dies keeps its task and, being the only one, lets no other start: that is the
  disjunct for dead jobs.
* *Builds.* `BuildInv` adds what makes the predicted number the run's own: a request
  past its second look at Jenkins' queue is alone, so the number it holds is the next
  one until its run has it; a number given to a run is never predicted again; what a
  callback carries to the row is its run's end.
* *Tickets.* Rows are saved from old reads, so `SkipInv` speaks of every copy of the row
  and of every record that rejects: the node it names has been reached, that is, all
  nodes before it have been passed, and each countersigned one among them by all its
  members.  Histories only grow, so what was reached stays so, whoever handles the
  ticket and from whatever page.
* *Rollouts.* `RolloutInv` adds to `RecordsWereReady` the copies: every row a task or a
  request holds names a version that was ready, ready pods are remembered, and a
  task about to conclude with a single successful stage saw its own image ready.
  What was once ready remains so (`up` only grows), so saving an old copy is harmless.
  For the refinement, each step of a job maps to a step of `RolloutPromise` or to a
  stutter: only the last step can succeed, and there every cluster's verdict is success,
  whence `RecordsWereReady` gives what `Succeed` asks.  Both speak of the clusters a job is
  for; a job that is past `TaskMark` is for at least one.  For the types, that a revision has
  a successor needs that the revisions of a cluster have a highest (`NumbersInv`).
* *Hosts.* `HostInv`: what is noted of a run when its statistics come is what its list of
  events says; a run without a failure has reached its hosts by then; the hosts of the
  row may have been edited meanwhile, but the verdict speaks of those read at its start.
* *Watchers.* Of a deployment to Kubernetes the flag comes after the result, and a watcher that has seen the flag
  reads the word next, which is the result until a watcher that is over deletes it.
* *Notices.* `NoticeInv`: whatever a flush has listed had been stored, and since a task
  stores its message once nothing is stored again under those keys; so what a flush
  deletes it has got, unless another flush deleted it before, and what was handed over is
  no longer in the cache.
* *Task cluster.* A task that has not been started is with the caller, the schedule, the
  broker or in memory; only from memory is it taken, and it never goes back there.
* *Services of the catalogue.* `JobsInv` says of every row, and of every service a request
  is about to write back, that its job exists, is excused, or a client is about to make
  it.  `ScaledInv` says of a service whose last scaling is remembered that template and
  cluster have that number, and that a request in flight that will write the row, or a
  manifest that will be applied, has it or is known to be late.
* *Groups.* Not only rows but also what a request is about to save of a row keeps "who
  offers a list is in it"; lists that do not hold their owner are never made active.
* *Templates, roles.* Both are facts about functions of the state: `NearestWins` of
  the merge, level by level, from the types; `RolesAdd` from what `Routers` shows, which is
  the granted menus that have a root above them, or all when a parent is missing
  (`TreeShown`, `ListShown`), for any tree, cycles included.  Going down comes to no end only
  through menus without a root (`EndlessUnrooted`), which a tree does not show.
* *Settings.* Names are unique among rows, so the row of a name is one value; `SettingsInv` speaks of the values that a refill or an edit is about to put
  into the cache, and of the credential told before the save that follows.
* *Ticket forms.* A client that has read the revision since it was last written has it as
  it is (`PagesFresh`), and a merge by position keeps the ids.
* *Sessions.* The client's refresh token is its last login's; an access token was issued
  by now.  For accounts: a request that is to save an active row has read it at a
  disabling count no higher than now's, and below it when the account is disabled.

Only model-checked: `EveryTaskEnds`, `CallbackEndsBuild`, `StoppedHasResult`, `RolloutEnds`,
`WatchersEnd`, `TasksStart` and the first part of `NoticeHanded`.  They are liveness under
fairness, which is out of the prover's reach.  The disagreements of section 3 are TLC's as well.

## 5. Not modelled

* *Generic views, serializers, filters, paging.* What they change is part of the actions of
  the modules that use them.
* *CMDB rows that stand alone* (hosts, regions, products, projects, teams, clusters),
  *ticket categories, lists and notices*: edited one at a time; nothing follows them.
  Deleting a single service is left out as well.
* *Lists of images, branches and commits offered for a rollback or a build*: reads that
  change nothing.  (A list of one older image builds an SQL tuple with a trailing comma
  and fails.)
* *Creating an account and resetting a password*: both hash a `str` with md5 and raise after
  the row was written.  LDAP and Feishu synchronisation, third-party tokens: outside
  services and one token with an expiry of its own.
* *Dashboard, search documents, API clients, mail, Ansible plugins nobody calls, set-up*:
  input and output.
* *A PATCH that writes an arbitrary status; deletion of orders and jobs; front-end module
  batches of builds.*
* *Composition of build, callback and deployment in one state space*: the callback is an
  action of `K8sRollout` (`DeployCallback`) and the build's end one of `BuildJob`; the only
  thing that passes between them is the image tag.
