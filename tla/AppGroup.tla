------------------------------ MODULE AppGroup ------------------------------
(***************************************************************************)
(* Related applications: each row keeps the list of the applications whose *)
(* images it may be deployed from.  Relating and unrelating read one row's *)
(* list and write it into the rows of its members.                         *)
(***************************************************************************)
EXTENDS Integers, FiniteSets

CONSTANTS
    Members,       \* ids of applications
    GroupClients,
    MaxGroupCalls  \* bound: requests in all

ASSUME GroupAssumption == 0 \notin Members /\ MaxGroupCalls \in Nat

VARIABLES
    present,   \* applications there are
    multiple,  \* multiple_app of each row
    ids,       \* multiple_ids of each row
    gcall,     \* of each client: its step and what it has read
    gcalls     \* requests that have begun

groupVars == <<present, multiple, ids, gcall, gcalls>>

NoCall == [at |-> "idle", app |-> 0, read |-> {}, flag |-> FALSE]

GroupInit ==
    /\ present = Members
    /\ multiple = [a \in Members |-> FALSE] /\ ids = [a \in Members |-> {}]
    /\ gcall = [c \in GroupClients |-> NoCall] /\ gcalls = 0

GroupBegins(c) ==
    /\ gcall[c].at = "idle" /\ gcalls < MaxGroupCalls /\ gcalls' = gcalls + 1

GroupEnds(c) == gcall' = [gcall EXCEPT ![c] = NoCall]

GroupReads(c, at, a, set, flag) ==
    gcall' = [gcall EXCEPT ![c] = [at |-> at, app |-> a, read |-> set, flag |-> flag]]

-----------------------------------------------------------------------------
(* app_related: the ids of the request and those of the target, if it names *)
(* one; then one UPDATE of all their rows.                                  *)
RelateRead(c, chosen) ==
    /\ GroupBegins(c)
    /\ \/ GroupReads(c, "relate", 0, chosen, TRUE)
       \/ \E t \in present : GroupReads(c, "relate", t, chosen \cup ids[t], TRUE)
    /\ UNCHANGED <<present, multiple, ids>>

(* Slip: the target gets the list, whether it is in it or not.              *)
RelateTarget(c) ==
    /\ gcall[c].at = "relate" /\ GroupEnds(c)
    /\ LET rows == (gcall[c].read \cup {gcall[c].app}) \cap present
       IN  /\ multiple' = [a \in Members |-> a \in rows \/ multiple[a]]
           /\ ids' = [a \in Members |-> IF a \in rows THEN gcall[c].read ELSE ids[a]]
    /\ UNCHANGED <<present, gcalls>>

RelateWrite(c) ==
    /\ gcall[c].at = "relate" /\ GroupEnds(c)
    /\ LET rows == gcall[c].read \cap present
       IN  /\ multiple' = [a \in Members |-> a \in rows \/ multiple[a]]
           /\ ids' = [a \in Members |-> IF a \in rows THEN gcall[c].read ELSE ids[a]]
    /\ UNCHANGED <<present, gcalls>>

-----------------------------------------------------------------------------
(* app_unrelated: the list without the application; one left is released by *)
(* the list read again, else the others get it and the application is       *)
(* released by another UPDATE.                                              *)
UnrelateRead(c, a) ==
    /\ GroupBegins(c) /\ a \in present
    /\ IF a \in ids[a]
       THEN GroupReads(c, IF Cardinality(ids[a] \ {a}) = 1 THEN "last" ELSE "others",
                       a, ids[a] \ {a}, FALSE)
       ELSE UNCHANGED gcall
    /\ UNCHANGED <<present, multiple, ids>>

LastRead(c) ==
    /\ gcall[c].at = "last"
    /\ IF gcall[c].app \in present
       THEN GroupReads(c, "release", gcall[c].app, ids[gcall[c].app], FALSE)
       ELSE GroupEnds(c)
    /\ UNCHANGED <<present, multiple, ids, gcalls>>

Released(rows) ==
    /\ multiple' = [a \in Members |-> multiple[a] /\ a \notin rows \cap present]
    /\ ids' = [a \in Members |-> IF a \in rows \cap present THEN {} ELSE ids[a]]

ReleaseLast(c) ==
    /\ gcall[c].at = "release" /\ GroupEnds(c)
    /\ Released(gcall[c].read)
    /\ UNCHANGED <<present, gcalls>>

OthersWrite(c) ==
    /\ gcall[c].at = "others"
    /\ ids' = [a \in Members |-> IF a \in gcall[c].read \cap present THEN gcall[c].read ELSE ids[a]]
    /\ GroupReads(c, "self", gcall[c].app, {gcall[c].app}, FALSE)
    /\ UNCHANGED <<present, multiple, gcalls>>

ReleaseSelf(c) ==
    /\ gcall[c].at = "self" /\ GroupEnds(c)
    /\ Released(gcall[c].read)
    /\ UNCHANGED <<present, gcalls>>

-----------------------------------------------------------------------------
(* Every other save of an application writes the whole row it has read; the *)
(* list of a deleted application stays with the others.                     *)
GroupRowRead(c, a) ==
    /\ GroupBegins(c) /\ a \in present
    /\ GroupReads(c, "save", a, ids[a], multiple[a])
    /\ UNCHANGED <<present, multiple, ids>>

GroupRowSave(c) ==
    /\ gcall[c].at = "save" /\ GroupEnds(c)
    /\ multiple' = [multiple EXCEPT ![gcall[c].app] = gcall[c].flag]
    /\ ids' = [ids EXCEPT ![gcall[c].app] = gcall[c].read]
    /\ present' = present \cup {gcall[c].app}
    /\ UNCHANGED gcalls

GroupDestroy(a) ==
    /\ a \in present
    /\ present' = present \ {a}
    /\ UNCHANGED <<multiple, ids, gcall, gcalls>>

GroupDies(c) ==
    /\ gcall[c].at # "idle" /\ GroupEnds(c)
    /\ UNCHANGED <<present, multiple, ids, gcalls>>

GroupNext ==
    \/ \E c \in GroupClients :
         \/ \E chosen \in SUBSET Members : RelateRead(c, chosen)
         \/ \E a \in Members : UnrelateRead(c, a) \/ GroupRowRead(c, a)
         \/ RelateWrite(c) \/ LastRead(c) \/ ReleaseLast(c) \/ OthersWrite(c)
         \/ ReleaseSelf(c) \/ GroupRowSave(c) \/ GroupDies(c)
    \/ \E a \in Members : GroupDestroy(a)

GroupSpec == GroupInit /\ [][GroupNext]_groupVars

-----------------------------------------------------------------------------
(* get_deploy_image_list, and the views like it: whose images are offered.  *)
Offered(a) == IF multiple[a] THEN ids[a] ELSE {a}

(* However relating, unrelating and stale saves of rows overlap, and though *)
(* partners may come to disagree, an application is always offered its own  *)
(* images: a list that lacks the row it is in is never active.              *)
OwnImagesOffered == \A a \in present : a \in Offered(a)
=============================================================================
