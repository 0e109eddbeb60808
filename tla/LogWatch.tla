------------------------------ MODULE LogWatch ------------------------------
(***************************************************************************)
(* Watchers of one deployment and of one build: a websocket asks for a     *)
(* celery task that reads what the deployment's task has put into the      *)
(* cache, or asks Jenkins, and sends it on until there is nothing more to  *)
(* come.  Watchers share the slots of the celery worker.                   *)
(***************************************************************************)
EXTENDS Integers, FiniteSets

CONSTANTS
    Sockets,     \* websocket connections
    KindOf,      \* "deploy", "stage", "console", or "pods" of each
    Slots,       \* tasks the celery worker runs at once
    Reads,       \* reads a deployment's watcher makes after its end (6)
    Rounds,      \* answers after which a build's watcher stops (600)
    MaxHearts    \* bound: messages a pods socket receives

WatchKinds == {"deploy", "stage", "console", "pods"}

ASSUME WatchAssumption ==
    /\ KindOf \in [Sockets -> WatchKinds]
    /\ Slots \in Nat \ {0} /\ Reads \in Nat \ {0} /\ Rounds \in Nat \ {0}
    /\ MaxHearts \in Nat \ {0}

(* A pods socket starts a watcher with every message; the others have one.  *)
Watchers == {w \in Sockets \X (1..MaxHearts) : KindOf[w[1]] = "pods" \/ w[2] = 1}
Kind(w)  == KindOf[w[1]]

VARIABLES
    target,   \* what is deployed to: "k8s" or "host"
    stage,    \* of the deployment's task
    row,      \* status of the DeployJob row
    word,     \* appdeploy:<job>: "none", "stage", "result"
    flag,     \* appdeploy:stat:<job>
    run,      \* the Jenkins run: "queued", "running", "ended"
    socket,   \* "new", "open", "closed"
    watch,    \* of each watcher
    flagged,  \* what a deployment's watcher has read of the flag
    count,    \* the watcher's counter
    last       \* what a deployment's watcher has sent last

watchVars == <<target, stage, row, word, flag, run, socket, watch, flagged, count, last>>
theDeploy == <<target, stage, row, word, flag>>
theWatch  == <<watch, flagged, count, last>>

WatchInit ==
    /\ target \in {"k8s", "host"}
    /\ stage = "running" /\ row = "deploying" /\ word = "none" /\ flag = FALSE
    /\ run = "queued"
    /\ socket = [s \in Sockets |-> "new"]
    /\ watch = [w \in Watchers |-> "none"]
    /\ flagged = [w \in Watchers |-> FALSE]
    /\ count = [w \in Watchers |-> 0]
    /\ last = [w \in Watchers |-> "none"]

-----------------------------------------------------------------------------
(* The deployment's task: the stages it reports go to the cache; at its end *)
(* it saves the row, and sets the flag after that.  Only a deployment to    *)
(* Kubernetes writes its result to the cache as well, before the row; what  *)
(* one to hosts has there is the last stage its playbook reported.          *)
DeployReports ==
    /\ stage = "running" /\ word = "none"
    /\ word' = "stage"
    /\ UNCHANGED <<target, stage, row, flag, run, socket, theWatch>>

DeployResult ==
    /\ stage = "running"
    /\ stage' = "save"
    /\ word' = IF target = "k8s" THEN "result" ELSE word
    /\ UNCHANGED <<target, row, flag, run, socket, theWatch>>

DeploySave ==
    /\ stage = "save"
    /\ stage' = "flag" /\ row' = "ended"
    /\ UNCHANGED <<target, word, flag, run, socket, theWatch>>

(* Slip: the flag goes up with the result.                                  *)
DeployFlagEarly ==
    /\ stage \in {"running", "save", "flag"} /\ ~flag
    /\ stage' = IF stage = "flag" THEN "ended" ELSE stage
    /\ flag' = TRUE
    /\ UNCHANGED <<target, row, word, run, socket, theWatch>>

DeployFlag ==
    /\ stage = "flag"
    /\ stage' = "ended" /\ flag' = TRUE
    /\ UNCHANGED <<target, row, word, run, socket, theWatch>>

(* Tasks that raise, return early or are killed set no flag.  One that      *)
(* finds no application or no cluster has saved the row, and so has one     *)
(* whose playbook failed on a host.                                         *)
DeployStops ==
    /\ stage \in {"running", "save", "flag"}
    /\ stage' = "stopped"
    /\ row' \in IF stage = "running" /\ word = "none" THEN {row, "ended"} ELSE {row}
    /\ UNCHANGED <<target, word, flag, run, socket, theWatch>>

(* The flag has the cache's default time to live, long enough for the reads *)
(* of a watcher that is running when it is set.                             *)
FlagExpires ==
    /\ flag /\ stage = "ended"
    /\ \A w \in Watchers : Kind(w) = "deploy" => watch[w] \notin {"reading", "ending"}
    /\ flag' = FALSE
    /\ UNCHANGED <<target, stage, row, word, run, socket, theWatch>>

RunGoesOn ==
    /\ run # "ended"
    /\ run' = IF run = "queued" THEN "running" ELSE "ended"
    /\ UNCHANGED <<theDeploy, socket, theWatch>>

-----------------------------------------------------------------------------
(* The websocket consumers.                                                 *)
Connect(s) ==
    /\ socket[s] = "new"
    /\ socket' = [socket EXCEPT ![s] = "open"]
    /\ watch' = IF KindOf[s] = "pods" THEN watch ELSE [watch EXCEPT ![<<s, 1>>] = "queued"]
    /\ UNCHANGED <<theDeploy, run, flagged, count, last>>

(* WatchK8s.receive starts a watcher for whatever it receives, heartbeats   *)
(* and "abort" included, and remembers the newest only.                     *)
Unused(s) == {w \in Watchers : w[1] = s /\ watch[w] = "none"}

Receive(s) ==
    /\ KindOf[s] = "pods" /\ socket[s] = "open"
    /\ \E w \in Unused(s) :
          /\ \A v \in Unused(s) : w[2] <= v[2]
          /\ \/ watch' = [watch EXCEPT ![w] = "queued"] /\ UNCHANGED socket
             \/ watch' = [watch EXCEPT ![w] = "revoked"] /\ socket' = [socket EXCEPT ![s] = "closed"]
    /\ UNCHANGED <<theDeploy, run, flagged, count, last>>

(* Closing any other socket leaves its watcher alone.                       *)
Close(s) ==
    /\ socket[s] = "open"
    /\ socket' = [socket EXCEPT ![s] = "closed"]
    /\ UNCHANGED <<theDeploy, run, theWatch>>

-----------------------------------------------------------------------------
(* The watchers.                                                            *)
Active(w) == watch[w] \in {"reading", "ending"}
Free      == Cardinality({w \in Watchers : Active(w)}) < Slots

WatchStart(w) ==
    /\ Free
    /\ watch[w] = "queued"
    /\ watch' = [watch EXCEPT ![w] = "reading"]
    /\ UNCHANGED <<theDeploy, run, socket, flagged, count, last>>

(* watch_k8s_deployment reads the flag, then the word, and sends it; with   *)
(* the flag up it does so six times.                                        *)
ReadFlag(w) ==
    /\ Kind(w) = "deploy" /\ watch[w] = "reading" /\ ~flagged[w]
    /\ flag
    /\ flagged' = [flagged EXCEPT ![w] = TRUE]
    /\ UNCHANGED <<theDeploy, run, socket, watch, count, last>>

ReadUnflagged(w) ==
    /\ Kind(w) = "deploy" /\ watch[w] = "reading" /\ ~flagged[w] /\ ~flag
    /\ last' = [last EXCEPT ![w] = word]
    /\ UNCHANGED <<theDeploy, run, socket, watch, flagged, count>>

(* Slip: the counter starts anew.                                           *)
ReadFlaggedAnew(w) ==
    /\ flagged[w] /\ watch[w] = "reading"
    /\ last' = [last EXCEPT ![w] = word]
    /\ count' = [count EXCEPT ![w] = 1]
    /\ flagged' = [flagged EXCEPT ![w] = FALSE]
    /\ watch' = [watch EXCEPT ![w] = IF count'[w] >= Reads THEN "ending" ELSE @]
    /\ UNCHANGED <<theDeploy, run, socket>>

(* Slip: one read more.                                                     *)
ReadFlaggedPast(w) ==
    /\ flagged[w] /\ watch[w] = "reading"
    /\ last' = [last EXCEPT ![w] = word]
    /\ count' = [count EXCEPT ![w] = @ + 1]
    /\ flagged' = [flagged EXCEPT ![w] = FALSE]
    /\ watch' = [watch EXCEPT ![w] = IF count'[w] > Reads THEN "ending" ELSE @]
    /\ UNCHANGED <<theDeploy, run, socket>>

ReadFlagged(w) ==
    /\ flagged[w] /\ watch[w] = "reading"
    /\ last' = [last EXCEPT ![w] = word]
    /\ count' = [count EXCEPT ![w] = @ + 1]
    /\ flagged' = [flagged EXCEPT ![w] = FALSE]
    /\ watch' = [watch EXCEPT ![w] = IF count'[w] >= Reads THEN "ending" ELSE @]
    /\ UNCHANGED <<theDeploy, run, socket>>

Told(w) == [socket EXCEPT ![w[1]] = IF @ = "open" THEN "closed" ELSE @]

(* 'devops-done', and the word is deleted unless the row shows deploying.   *)
DeployWatchEnd(w) ==
    /\ Kind(w) = "deploy" /\ watch[w] = "ending"
    /\ watch' = [watch EXCEPT ![w] = "done"] /\ socket' = Told(w)
    /\ word' = IF row = "ended" THEN "none" ELSE word
    /\ count' = [count EXCEPT ![w] = 0]
    /\ UNCHANGED <<target, stage, row, flag, run, flagged, last>>

(* jenkins_log_stage and jenkins_log_console ask Jenkins.  Rounds that      *)
(* raise, and for the console those before the run has its number, count    *)
(* but end nothing.                                                         *)
Counted(w) == [count EXCEPT ![w] = IF @ > Rounds THEN @ ELSE @ + 1]

BuildUnanswered(w) ==
    /\ Kind(w) \in {"stage", "console"} /\ watch[w] = "reading"
    /\ count' = Counted(w)
    /\ UNCHANGED <<theDeploy, run, socket, watch, flagged, last>>

Answers(w) ==
    /\ Kind(w) \in {"stage", "console"} /\ watch[w] = "reading"
    /\ Kind(w) = "console" => run # "queued"

BuildWatchEnd(w) ==
    /\ watch' = [watch EXCEPT ![w] = "done"] /\ socket' = Told(w)
    /\ count' = [count EXCEPT ![w] = 0]

BuildAnswer(w) ==
    /\ Answers(w)
    /\ IF run = "ended" \/ count[w] >= Rounds THEN BuildWatchEnd(w)
       ELSE count' = Counted(w) /\ UNCHANGED <<watch, socket>>
    /\ UNCHANGED <<theDeploy, run, flagged, last>>

(* watch_k8s_pod and tail_k8s_log: the stream ends and nobody is told, or   *)
(* the events are too many, or the cluster cannot be reached.               *)
PodsEnd(w) ==
    /\ Kind(w) = "pods" /\ watch[w] = "reading"
    /\ watch' = [watch EXCEPT ![w] = "done"]
    /\ socket' \in {socket, Told(w)}
    /\ UNCHANGED <<theDeploy, run, flagged, count, last>>

-----------------------------------------------------------------------------
DeployTaskStep == DeployReports \/ DeployResult \/ DeploySave \/ DeployFlag

WatcherStep(w) ==
    \/ ReadFlag(w) \/ ReadUnflagged(w) \/ ReadFlagged(w) \/ DeployWatchEnd(w)
    \/ PodsEnd(w)

WatchNext ==
    \/ DeployTaskStep \/ DeployStops \/ FlagExpires \/ RunGoesOn
    \/ \E s \in Sockets : Connect(s) \/ Receive(s) \/ Close(s)
    \/ \E w \in Watchers :
          WatchStart(w) \/ WatcherStep(w) \/ BuildUnanswered(w) \/ BuildAnswer(w)

WatchSpec == WatchInit /\ [][WatchNext]_watchVars

(* What has to happen (MCServices): a worker goes on with what it runs and  *)
(* takes a task when a slot is free, Jenkins answers again and again.       *)
WatchProgress(w) == WatcherStep(w) \/ BuildAnswer(w)
WatchTaken       == \E w \in Watchers : WatchStart(w)

-----------------------------------------------------------------------------
WatchTypeOK ==
    /\ target \in {"k8s", "host"}
    /\ stage \in {"running", "save", "flag", "ended", "stopped"}
    /\ row \in {"deploying", "ended"} /\ word \in {"none", "stage", "result"}
    /\ flag \in BOOLEAN /\ run \in {"queued", "running", "ended"}
    /\ socket \in [Sockets -> {"new", "open", "closed"}]
    /\ watch \in [Watchers -> {"none", "queued", "reading", "ending", "done", "revoked"}]
    /\ flagged \in [Watchers -> BOOLEAN]
    /\ count \in [Watchers -> Nat] /\ last \in [Watchers -> {"none", "stage", "result"}]
    /\ \A w \in Watchers : count[w] <= IF Kind(w) = "deploy" THEN Reads ELSE Rounds + 1

(* Who is told that a deployment to Kubernetes is over has been sent its    *)
(* result, unless another watcher of the same deployment was there before   *)
(* and deleted it.                                                          *)
EndAfterResult ==
    target = "k8s" =>
       \A w \in Watchers :
          Kind(w) = "deploy" /\ watch[w] = "done" =>
             \/ last[w] = "result"
             \/ \E v \in Watchers \ {w} : Kind(v) = "deploy" /\ watch[v] = "done"

(* A watcher that runs when the deployment's task sets its flag ends, and   *)
(* so does the watcher of a build that Jenkins answers for, even if the     *)
(* build does not end.                                                      *)
WatchersEnd ==
    \A w \in Watchers :
       watch[w] = "reading" /\ (Kind(w) = "deploy" => flag) ~> ~Active(w)
=============================================================================
