----------------------------- MODULE MCServices -----------------------------
(* The services behind the requests, for TLC.  They share no state: each    *)
(* behaviour is one of a single service.                                    *)
EXTENDS LogWatch, Notify, TaskCluster

VARIABLES
    service,   \* the one that runs
    absent     \* sockets nobody opens

servicesVars == <<service, absent, watchVars, notifyVars, clusterVars>>

MCKindOf == [s \in Sockets |-> CASE s = "a" -> "deploy" [] s = "b" -> "deploy"
                                 [] s = "c" -> "console" [] s = "d" -> "pods"]
MCKeyOf  == [n \in Notices |-> IF n = 3 THEN 2 ELSE 1]

Init ==
    /\ service \in {"watch", "notify", "cluster"}
    /\ absent \in IF service = "watch" THEN {{"b", "c"}, {"d"}, {"b", "c", "d"}} ELSE {{"a"}}
    /\ WatchInit /\ NotifyInit /\ ClusterInit
    /\ target = IF absent = {"b", "c", "d"} THEN "host" ELSE "k8s"

Next ==
    /\ UNCHANGED <<service, absent>>
    /\ \/ service = "watch" /\ WatchNext /\ (\A s \in absent : socket'[s] = "new")
          /\ UNCHANGED <<notifyVars, clusterVars>>
       \/ service = "notify" /\ NotifyNext /\ UNCHANGED <<watchVars, clusterVars>>
       \/ service = "cluster" /\ ClusterNext /\ UNCHANGED <<watchVars, notifyVars>>

(* Watchers: the deployment's task goes on, the run gets its number, and a  *)
(* celery worker goes on with what it runs and takes a task when a slot is  *)
(* free; nobody has to connect or to close.                                 *)
WatchFairness ==
    /\ WF_watchVars(service = "watch" /\ DeployTaskStep)
    /\ WF_watchVars(service = "watch" /\ RunGoesOn)
    /\ WF_watchVars(service = "watch" /\ WatchTaken)
    /\ \A w \in Watchers : WF_watchVars(service = "watch" /\ WatchProgress(w))

(* Notices: tasks go on, and planned flushes are taken by workers.          *)
NotifyFairness ==
    /\ \A n \in Notices : WF_notifyVars(service = "notify" /\ SenderStep(n))
    /\ \A f \in Flushers : WF_notifyVars(service = "notify" /\ FlushStep(f))
    /\ WF_notifyVars(service = "notify" /\ Flush)

(* Cluster: the guard loop, the pusher and idle workers go on; a task may   *)
(* hang, and what MaxFaults allows may die.                                 *)
ClusterFairness ==
    /\ WF_clusterVars(service = "cluster" /\ Guard)
    /\ WF_clusterVars(service = "cluster" /\ PushSome)
    /\ WF_clusterVars(service = "cluster" /\ TakeSome)

-----------------------------------------------------------------------------
(* Every variable of every service has its type, and every counter its bound.*)
ServicesTypeOK == WatchTypeOK /\ NotifyTypeOK /\ ClusterTypeOK

Spec ==
    /\ Init /\ [][Next]_servicesVars
    /\ WatchFairness /\ NotifyFairness /\ ClusterFairness
=============================================================================
