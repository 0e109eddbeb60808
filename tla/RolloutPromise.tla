--------------------------- MODULE RolloutPromise ---------------------------
(***************************************************************************)
(* What the rollout of images promises to those who read its outcome: a    *)
(* deployment ends at most once, and says success only if its image has    *)
(* been ready on every cluster the deployment is for.  K8sRollout          *)
(* implements it.                                                          *)
(***************************************************************************)
EXTENDS Integers

CONSTANTS Jobs, Clusters, Tags, TagOf,
          Targets   \* the clusters each deployment is for

VARIABLES phase,  \* of each job: "waiting", "running", "succeeded", "failed"
          up      \* of each cluster: the tags that have been ready on it

promiseVars == <<phase, up>>

PromiseInit ==
    /\ phase = [j \in Jobs |-> "waiting"]
    /\ up \in [Clusters -> SUBSET Tags]

Becomes(j, from, to) ==
    /\ phase[j] = from
    /\ phase' = [phase EXCEPT ![j] = to]

Begin(j) == Becomes(j, "waiting", "running") /\ UNCHANGED up

Succeed(j) ==
    /\ Targets[j] # {} /\ \A c \in Targets[j] : TagOf[j] \in up[c]
    /\ Becomes(j, "running", "succeeded")
    /\ UNCHANGED up

Fail(j) == Becomes(j, "running", "failed") /\ UNCHANGED up

ComeUp ==
    /\ \A c \in Clusters : up[c] \subseteq up'[c]
    /\ up' \in [Clusters -> SUBSET Tags]
    /\ UNCHANGED phase

PromiseNext ==
    \/ \E j \in Jobs : Begin(j) \/ Succeed(j) \/ Fail(j)
    \/ ComeUp

Promise == PromiseInit /\ [][PromiseNext]_promiseVars
=============================================================================
