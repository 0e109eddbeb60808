----------------------------- MODULE HostRollout -----------------------------
(***************************************************************************)
(* Deployments of one service onto hosts: a task runs a playbook, whose     *)
(* events append to a list in Redis; after each event the task recomputes   *)
(* the job's result from the whole list, and after the last one it decides. *)
(*                                                                         *)
(* jar and web playbooks run on one forwarding host, whose last task loops  *)
(* over the target hosts; a docker playbook is to run on the targets, but   *)
(* the inventory names the forwarding host only.  The outcome of each task  *)
(* is Ansible's, which goes on with the next one while the host is well.    *)
(* PublishOrder takes the results of this module as DeployStatus has them.  *)
(***************************************************************************)
EXTENDS DeployStatus, Sequences

CONSTANTS
    HostLists,    \* sequences of hosts a service may have
    Forward,      \* the forwarding host
    HostJobs,
    LastTask,     \* number of tasks in a playbook
    MaxHostEdits  \* bound

ASSUME HostAssumption ==
    LastTask \in Nat \ {0} /\ MaxHostEdits \in Nat /\ HostJobs \subseteq Nat \ {0}

VARIABLES
    flag,      \* app_flag: which playbook the service has
    hosts,     \* hosts of the AppInfo row
    recorded,  \* its version: the job that brought it, or 0
    edited,    \* changes of hosts and resets of jobs
    job        \* of each job: its row, its task and its list of events

hostVars == <<flag, hosts, recorded, edited, job>>

HostsOf(list) == {list[i] : i \in DOMAIN list}

NoJob == [at |-> "none", status |-> Waiting, targets |-> <<>>, seen |-> <<>>, task |-> 1,
          events |-> <<>>, bad |-> FALSE, well |-> TRUE, got |-> {}]

HostInit ==
    /\ flag \in {"jar", "web", "docker"} /\ hosts \in HostLists
    /\ recorded = 0 /\ edited = 0
    /\ job = [j \in HostJobs |-> NoJob]

Becomes(j, r) == job' = [job EXCEPT ![j] = r]

-----------------------------------------------------------------------------
EditHosts(list) ==
    /\ edited < MaxHostEdits /\ edited' = edited + 1
    /\ hosts' = list
    /\ UNCHANGED <<flag, recorded, job>>

(* app_deploy_handle: the hosts the service has now are the targets.        *)
QueueHostJob(j) ==
    /\ job[j].at = "none"
    /\ Becomes(j, [job[j] EXCEPT !.at = "queued", !.targets = hosts])
    /\ UNCHANGED <<flag, hosts, recorded, edited>>

StartHostJob(j) ==
    /\ job[j].at = "queued"
    /\ Becomes(j, [job[j] EXCEPT !.at = "play", !.status = Deploying, !.seen = hosts])
    /\ UNCHANGED <<flag, hosts, recorded, edited>>

(* The operator's reset makes a deploying job waiting again.                *)
ResetStatus(j) ==
    /\ job[j].status = Deploying /\ edited < MaxHostEdits /\ edited' = edited + 1
    /\ Becomes(j, [job[j] EXCEPT !.status = Waiting])
    /\ UNCHANGED <<flag, hosts, recorded>>

-----------------------------------------------------------------------------
(* Slip: an event of a host nobody could find is no failure.                *)
GoodAny == {"success", "skipped", "skip", "unreachable"}

Good == {"success", "skipped", "skip"}

(* generate_result, on any event: the status of every event in the list so  *)
(* far is noted; the job's row is saved, deploying.                         *)
Generated(r) ==
    [r EXCEPT !.well = @ /\ \A i \in DOMAIN r.events : r.events[i] \in Good,
              !.status = Deploying]

Event(r, status) ==
    Generated([r EXCEPT !.events = Append(@, status),
                        !.bad = @ \/ status \in {"failed", "unreachable"},
                        !.task = @ + 1,
                        !.at = IF status \in {"failed", "unreachable"} \/ r.task = LastTask
                               THEN "stats" ELSE "play"])

Matched(r) == flag # "docker" \/ Forward \in HostsOf(r.targets)

(* A task of the playbook ends.  The loop of the last one goes on behind a  *)
(* host that fails, is skipped when there are no hosts, and does not start  *)
(* when the forwarding host is gone.                                        *)
TaskEnds(j, status) ==
    /\ job[j].at = "play" /\ Matched(job[j])
    /\ job[j].task < LastTask
    /\ status \in {"success", "failed", "unreachable"}
    /\ Becomes(j, Event(job[j], status))
    /\ UNCHANGED <<flag, hosts, recorded, edited>>

LoopEnds(j, reached) ==
    LET r == job[j]
        all == IF flag = "docker" THEN {Forward} ELSE HostsOf(r.targets)
        status == IF all = {} THEN "skipped" ELSE IF reached = all THEN "success" ELSE "failed" IN
    /\ r.at = "play" /\ Matched(r) /\ r.task = LastTask
    /\ reached \subseteq all
    /\ Becomes(j, Event([r EXCEPT !.got = reached], status))
    /\ UNCHANGED <<flag, hosts, recorded, edited>>

LoopUnreachable(j) ==
    /\ job[j].at = "play" /\ Matched(job[j]) /\ job[j].task = LastTask
    /\ Becomes(j, Event(job[j], "unreachable"))
    /\ UNCHANGED <<flag, hosts, recorded, edited>>

(* No host of the inventory matches: that goes to the list, but into none   *)
(* of the results, and on_any, which wants one, is not run.                 *)
NoHosts(j) ==
    /\ job[j].at = "play" /\ ~Matched(job[j])
    /\ Becomes(j, [job[j] EXCEPT !.events = Append(@, "unreachable"), !.at = "stats"])
    /\ UNCHANGED <<flag, hosts, recorded, edited>>

\* The statistics of the run are an event too.
StatsSent(j) ==
    /\ job[j].at = "stats"
    /\ Becomes(j, [Generated(job[j]) EXCEPT !.at = "verdict"])
    /\ UNCHANGED <<flag, hosts, recorded, edited>>

-----------------------------------------------------------------------------
HostsLeft(r) == flag # "web" /\ Cardinality(HostsOf(r.targets)) < Len(r.seen)

(* run: the version is that of a success which reached as many hosts as the *)
(* service had when the task began; a web service does not look.            *)
Records(r) ==
    r.well /\ ~r.bad /\ (flag = "web" \/ Cardinality(HostsOf(r.targets)) = Len(r.seen))

(* The whole row is saved as the task read it, its hosts too.               *)
RecordVersion(j) ==
    /\ job[j].at = "verdict"
    /\ IF Records(job[j]) THEN recorded' = j /\ hosts' = job[j].seen ELSE UNCHANGED <<recorded, hosts>>
    /\ Becomes(j, [job[j] EXCEPT !.at = "over"])
    /\ UNCHANGED <<flag, edited>>

(* Slip: the run goes on behind a failed host.                              *)
VerdictGoesOn(r) == (IF r.well /\ ~r.bad THEN Success ELSE Failed) + (IF HostsLeft(r) THEN 10 ELSE 0)

VerdictOf(r) ==
    IF r.bad THEN Failed
    ELSE (IF r.well THEN Success ELSE Failed) + (IF HostsLeft(r) THEN 10 ELSE 0)

TaskOver(j) ==
    /\ job[j].at = "over"
    /\ Becomes(j, [job[j] EXCEPT !.at = "done", !.status = VerdictOf(job[j])])
    /\ UNCHANGED <<flag, hosts, recorded, edited>>

(* Ansible raises, or a failure comes without a message: the report of it   *)
(* cannot be written either, and the task ends with the job deploying.  So  *)
(* does one whose worker dies.                                              *)
HostTaskEnds(j) ==
    /\ job[j].at \in {"play", "stats", "verdict", "over"}
    /\ Becomes(j, [job[j] EXCEPT !.at = "dead"])
    /\ UNCHANGED <<flag, hosts, recorded, edited>>

HostNext ==
    \/ \E list \in HostLists : EditHosts(list)
    \/ \E j \in HostJobs :
         \/ QueueHostJob(j) \/ StartHostJob(j) \/ ResetStatus(j)
         \/ \E status \in {"success", "failed", "unreachable"} : TaskEnds(j, status)
         \/ \E reached \in SUBSET UNION {HostsOf(list) : list \in HostLists} : LoopEnds(j, reached)
         \/ LoopUnreachable(j) \/ NoHosts(j) \/ StatsSent(j)
         \/ RecordVersion(j) \/ TaskOver(j) \/ HostTaskEnds(j)

HostSpec == HostInit /\ [][HostNext]_hostVars

-----------------------------------------------------------------------------
(* Success means reached.  A job that ends as a success, whole or in part,  *)
(* has reached every target its playbook could run for: a run that matched  *)
(* no host at all, which fails nowhere, is none.  And the version recorded  *)
(* for a jar service is on as many hosts as it had when the task began,     *)
(* whatever became of the hosts meanwhile and though another job runs too.  *)
SuccessReachedAll ==
    /\ \A j \in HostJobs : job[j].at = "done" /\ job[j].status \in {Success, PartSuccess} =>
          (IF flag = "docker" THEN {Forward} ELSE HostsOf(job[j].targets)) \subseteq job[j].got
    /\ flag = "jar" /\ recorded # 0 => Cardinality(job[recorded].got) = Len(job[recorded].seen)

(* What PublishOrder supposes of these tasks: the status a job ends with is *)
(* the one DeployStatus derives from the playbook's result, where a result  *)
(* is unmatched if the list has an event of failure but no host has.        *)
Result(r) ==
    IF r.bad THEN "unreachable"
    ELSE IF HostsOf(r.events) \subseteq {"success", "skipped"} THEN "ok" ELSE "unmatched"

EndsAsOrdered ==
    \A j \in HostJobs : job[j].at = "done" /\ job[j].status # Waiting =>
       job[j].status = IF flag = "web" THEN WebOutcome(Result(job[j]))
                       ELSE JarOutcome(Result(job[j]), Cardinality(HostsOf(job[j].targets)) < Len(job[j].seen))
=============================================================================
