---------------------------- MODULE MCK8sRollout ----------------------------
(* Instances of K8sRollout for TLC.                                         *)
EXTENDS K8sRollout

CONSTANTS j1, j2, j3

(* The first is for all clusters, the second for the last one, the third    *)
(* for none of them.                                                        *)
Chosen == [j \in Jobs |-> CASE j = j1 -> Clusters
                            [] j = j2 -> {NumClusters}
                            [] OTHER  -> {}]

OwnTag == [j \in Jobs |-> CASE j = j1 -> "v1" [] j = j2 -> "v2" [] OTHER -> "v3"]
=============================================================================
