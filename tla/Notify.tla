------------------------------- MODULE Notify -------------------------------
(***************************************************************************)
(* The notices of deployments: a task that has ended puts its message into *)
(* the cache and schedules a flush of the messages with the same key.      *)
(***************************************************************************)
EXTENDS Integers, FiniteSets

CONSTANTS
    Notices,   \* deployments that have a message
    KeyOf,     \* msg_key of each: the order, or the application and its tag
    Flushers   \* runs of deploy_notify_queue at one time

ASSUME NotifyAssumption == KeyOf \in [Notices -> Nat]

VARIABLES
    sender,    \* of each deployment's task
    mailbox,   \* messages in the cache
    planned,   \* of each key: flushes scheduled or queued
    flush,     \* of each flusher: its step, key, the cache keys it has listed,
               \* the messages it has got
    handed,    \* messages handed to deploy_notify_send, by how many flushes
    lost       \* messages a flush had listed when its worker died

notifyVars == <<sender, mailbox, planned, flush, handed, lost>>

NotifyKeys == {KeyOf[n] : n \in Notices}

NoFlush == [at |-> "idle", key |-> 0, listed |-> {}, got |-> {}]

NotifyInit ==
    /\ sender = [n \in Notices |-> "running"]
    /\ mailbox = {} /\ planned = [k \in NotifyKeys |-> 0]
    /\ flush = [f \in Flushers |-> NoFlush]
    /\ handed = [n \in Notices |-> 0] /\ lost = {}

-----------------------------------------------------------------------------
(* notify_deploy_result: a project or order may have no robot, and an       *)
(* environment's release_config without one raises: the task has no more    *)
(* to do.                                                                   *)
NoRobot(n) ==
    /\ sender[n] = "running"
    /\ sender' = [sender EXCEPT ![n] = "ended"]
    /\ UNCHANGED <<mailbox, planned, flush, handed, lost>>

NoticeStore(n) ==
    /\ sender[n] = "running"
    /\ sender' = [sender EXCEPT ![n] = "stored"]
    /\ mailbox' = mailbox \cup {n}
    /\ UNCHANGED <<planned, flush, handed, lost>>

NoticeSchedule(n) ==
    /\ sender[n] = "stored"
    /\ sender' = [sender EXCEPT ![n] = "ended"]
    /\ planned' = [planned EXCEPT ![KeyOf[n]] = @ + 1]
    /\ UNCHANGED <<mailbox, flush, handed, lost>>

(* The task dies before it has scheduled the flush.                         *)
SenderDies(n) ==
    /\ sender[n] = "stored"
    /\ sender' = [sender EXCEPT ![n] = "dead"]
    /\ UNCHANGED <<mailbox, planned, flush, handed, lost>>

(* deploy_notify_cron finds keys that are due and calls apply_async on      *)
(* deploy_notify_queue, which is a plain function: it raises at the first.  *)
CronRaises ==
    /\ mailbox # {}
    /\ UNCHANGED notifyVars

-----------------------------------------------------------------------------
(* deploy_notify_queue: lists the keys, gets them, deletes them, and hands  *)
(* what it got to the task that sends.                                      *)
Listed(f, k) == [flush EXCEPT ![f] = [NoFlush EXCEPT !.at = "get", !.key = k,
                                       !.listed = {n \in mailbox : KeyOf[n] = k}]]

FlushList(f, k) ==
    /\ flush[f].at = "idle" /\ planned[k] > 0
    /\ planned' = [planned EXCEPT ![k] = @ - 1]
    /\ flush' = Listed(f, k)
    /\ UNCHANGED <<sender, mailbox, handed, lost>>

FlushGet(f) ==
    /\ flush[f].at = "get"
    /\ flush' = [flush EXCEPT ![f].at = "delete", ![f].got = flush[f].listed \cap mailbox]
    /\ UNCHANGED <<sender, mailbox, planned, handed, lost>>

(* Slip: everything under the key is deleted.                               *)
FlushDeleteAll(f) ==
    /\ flush[f].at = "delete"
    /\ mailbox' = {n \in mailbox : KeyOf[n] # flush[f].key}
    /\ flush' = [flush EXCEPT ![f].at = "send"]
    /\ UNCHANGED <<sender, planned, handed, lost>>

FlushDelete(f) ==
    /\ flush[f].at = "delete"
    /\ mailbox' = mailbox \ flush[f].listed
    /\ flush' = [flush EXCEPT ![f].at = "send"]
    /\ UNCHANGED <<sender, planned, handed, lost>>

FlushSend(f) ==
    /\ flush[f].at = "send"
    /\ handed' = [n \in Notices |-> handed[n] + (IF n \in flush[f].got THEN 1 ELSE 0)]
    /\ flush' = [flush EXCEPT ![f] = NoFlush]
    /\ UNCHANGED <<sender, mailbox, planned, lost>>

FlushDies(f) ==
    /\ flush[f].at # "idle"
    /\ flush' = [flush EXCEPT ![f] = NoFlush]
    /\ lost' = lost \cup flush[f].listed
    /\ UNCHANGED <<sender, mailbox, planned, handed>>

-----------------------------------------------------------------------------
SenderStep(n) == NoRobot(n) \/ NoticeStore(n) \/ NoticeSchedule(n)
FlushStep(f)  == FlushGet(f) \/ FlushDelete(f) \/ FlushSend(f)
Flush         == \E f \in Flushers, k \in NotifyKeys : FlushList(f, k)

NotifyNext ==
    \/ \E n \in Notices : SenderStep(n) \/ SenderDies(n)
    \/ Flush
    \/ \E f \in Flushers : FlushStep(f) \/ FlushDies(f)
    \/ CronRaises

-----------------------------------------------------------------------------
NotifyTypeOK ==
    /\ sender \in [Notices -> {"running", "stored", "ended", "dead"}]
    /\ mailbox \subseteq Notices /\ planned \in [NotifyKeys -> Nat]
    /\ flush \in [Flushers -> [at : {"idle", "get", "delete", "send"},
                               key : NotifyKeys \cup {0},
                               listed : SUBSET Notices, got : SUBSET Notices]]
    /\ handed \in [Notices -> Nat] /\ lost \subseteq Notices

(* A message that has been handed over is not read by a flush that starts   *)
(* later: only flushes that overlap hand over the same message.             *)
ReadOnce ==
    [][\A f \in Flushers, n \in Notices :
          n \in flush'[f].listed \ flush[f].listed => handed[n] = 0]_notifyVars

(* A message leaves the cache only when a flush has got it, and that flush  *)
(* hands it over unless it dies, however tasks store and flushes delete     *)
(* meanwhile.                                                               *)
NoneDropped ==
    [][/\ \A n \in mailbox \ mailbox' : \E f \in Flushers : n \in flush[f].got
       /\ \A f \in Flushers : \A n \in flush[f].got \ flush'[f].got :
             handed'[n] = handed[n] + 1 \/ n \in lost']_notifyVars

(* Every message gets to the task that sends it, however the flushes of its *)
(* key overlap, unless its sender or a flush dies; none is read again or    *)
(* dropped.                                                                 *)
NoticeHanded ==
    /\ \A n \in Notices : n \in mailbox ~> (handed[n] > 0 \/ sender[n] = "dead" \/ n \in lost)
    /\ ReadOnce /\ NoneDropped
=============================================================================
