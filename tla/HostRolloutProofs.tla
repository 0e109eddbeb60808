-------------------------- MODULE HostRolloutProofs --------------------------
(* Proofs about HostRollout, for any lists of hosts, jobs, length of the     *)
(* playbook and bounds.                                                      *)
EXTENDS HostRollout, TLAPS

EventStatus == {"success", "skipped", "failed", "unreachable"}
JobSteps    == {"none", "queued", "play", "stats", "verdict", "over", "done", "dead"}
Lists       == HostLists \cup {<<>>}

HostJob == [at : JobSteps, status : JobStatus, targets : Lists, seen : Lists, task : Int,
            events : Seq(EventStatus), bad : BOOLEAN, well : BOOLEAN,
            got : SUBSET ({Forward} \cup UNION {HostsOf(list) : list \in HostLists})]

(* The hosts a job's playbook is to reach.                                  *)
Reach(r)   == IF flag = "docker" THEN {Forward} ELSE HostsOf(r.targets)
AllGood(r) == \A i \in DOMAIN r.events : r.events[i] \in Good

(* What a job's record says at each step: the note of the events is right   *)
(* as soon as the statistics have been sent, and a run without failure has  *)
(* reached its hosts.                                                       *)
JobTold(r) ==
    /\ AllGood(r) => r.well
    /\ r.at \in {"stats", "verdict", "over", "done"} /\ ~r.bad /\ AllGood(r) => r.got = Reach(r)
    /\ r.at \in {"verdict", "over", "done"} /\ r.well => AllGood(r)
    /\ r.at = "done" => r.status = VerdictOf(r)

(* The job that brought the recorded version has been over since.           *)
RecordTold ==
    recorded # 0 =>
       /\ recorded \in HostJobs
       /\ job[recorded].at \in {"over", "done", "dead"}
       /\ flag = "jar" => Cardinality(job[recorded].got) = Len(job[recorded].seen)

HostTypeOK ==
    /\ flag \in {"jar", "web", "docker"} /\ hosts \in Lists
    /\ recorded \in HostJobs \cup {0}
    /\ job \in [HostJobs -> HostJob]

HostInv == HostTypeOK /\ (\A j \in HostJobs : JobTold(job[j])) /\ RecordTold

-----------------------------------------------------------------------------
(* Facts about one record.                                                  *)

LEMMA VerdictIsOutcome ==
    ASSUME NEW r \in HostJob
    PROVE  VerdictOf(r) \in Outcomes
  BY DEF VerdictOf, Outcomes, Success, Failed, PartSuccess, PartFailed, HostsLeft, HostJob

(* An event appended to the list: whatever was bad before is bad still.     *)
LEMMA GoodPrefix ==
    ASSUME NEW s \in Seq(EventStatus), NEW e \in EventStatus,
           \A i \in DOMAIN Append(s, e) : Append(s, e)[i] \in Good
    PROVE  e \in Good /\ \A i \in DOMAIN s : s[i] \in Good
  <1>1. /\ Len(Append(s, e)) = Len(s) + 1 /\ Len(s) \in Nat
        /\ \A i \in 1..Len(s) : Append(s, e)[i] = s[i]
        /\ Append(s, e)[Len(s) + 1] = e
    OBVIOUS
  <1>2. DOMAIN Append(s, e) = 1..(Len(s) + 1) /\ DOMAIN s = 1..Len(s)
    OBVIOUS
  <1> QED BY <1>1, <1>2

LEMMA RecordMoves ==
    ASSUME NEW r \in HostJob, NEW events \in Seq(EventStatus), NEW bad \in BOOLEAN, NEW at \in JobSteps,
           NEW task \in Int
    PROVE  [r EXCEPT !.events = events, !.bad = bad, !.task = task, !.at = at] \in HostJob
  BY DEF HostJob

(* generate_result on a list that is good, and so was all along.            *)
LEMMA EventTold ==
    ASSUME NEW r \in HostJob, JobTold(r), r.at = "play", NEW e \in EventStatus,
           e \in Good /\ r.task = LastTask => r.got = Reach(r)
    PROVE  Event(r, e) \in HostJob /\ JobTold(Event(r, e))
  <1> DEFINE bad == e \in {"failed", "unreachable"}
             q   == [r EXCEPT !.events = Append(@, e), !.bad = @ \/ bad, !.task = @ + 1,
                              !.at = IF bad \/ r.task = LastTask THEN "stats" ELSE "play"]
             n   == Event(r, e)
  <1>1. /\ q.events = Append(r.events, e) /\ q.events \in Seq(EventStatus)
        /\ q.bad = (r.bad \/ bad) /\ q.well = r.well /\ q.got = r.got /\ q.targets = r.targets
        /\ q.at = IF bad \/ r.task = LastTask THEN "stats" ELSE "play"
    BY DEF HostJob
  <1>2. q \in HostJob
    <2>1. /\ (r.bad \/ bad) \in BOOLEAN /\ Append(r.events, e) \in Seq(EventStatus)
          /\ (IF bad \/ r.task = LastTask THEN "stats" ELSE "play") \in JobSteps
      BY DEF JobSteps, HostJob
    <2>2. r.task + 1 \in Int
      BY DEF HostJob
    <2> QED BY <2>1, <2>2, RecordMoves
  <1>3. n = [q EXCEPT !.well = q.well /\ AllGood(q), !.status = Deploying]
    BY DEF Event, Generated, AllGood
  <1>4. /\ n \in HostJob /\ n.events = q.events /\ n.bad = q.bad /\ n.got = q.got /\ n.targets = q.targets
        /\ n.well = (q.well /\ AllGood(q)) /\ n.at = q.at
    <2> HIDE DEF q
    <2>1. (q.well /\ AllGood(q)) \in BOOLEAN /\ Deploying \in JobStatus
      BY <1>2 DEF HostJob, AllGood, JobStatus
    <2> QED BY <1>2, <1>3, <2>1 DEF HostJob
  <1>5. AllGood(q) => r.well /\ e \in Good
    BY <1>1, GoodPrefix DEF AllGood, JobTold, HostJob
  <1>6. AllGood(n) <=> AllGood(q)
    BY <1>4 DEF AllGood
  <1>7. AllGood(n) => n.well
    BY <1>1, <1>4, <1>5, <1>6
  <1>8. n.at = "stats" /\ ~n.bad /\ AllGood(n) => n.got = Reach(n)
    BY <1>1, <1>4, <1>5, <1>6 DEF Reach
  <1>9. n.at \in {"stats", "play"}
    BY <1>1, <1>4
  <1> HIDE DEF n, q
  <1>10. JobTold(n)
    BY <1>7, <1>8, <1>9 DEF JobTold
  <1> QED BY <1>4, <1>10 DEF n

LEMMA StatsTold ==
    ASSUME NEW r \in HostJob, JobTold(r), r.at = "stats"
    PROVE  /\ [Generated(r) EXCEPT !.at = "verdict"] \in HostJob
           /\ JobTold([Generated(r) EXCEPT !.at = "verdict"])
  <1> DEFINE n == [Generated(r) EXCEPT !.at = "verdict"]
  <1>1. n = [r EXCEPT !.well = r.well /\ AllGood(r), !.status = Deploying, !.at = "verdict"]
    BY DEF Generated, AllGood, HostJob
  <1>2. (r.well /\ AllGood(r)) \in BOOLEAN /\ Deploying \in JobStatus
    BY DEF HostJob, AllGood, JobStatus
  <1>3. /\ n \in HostJob /\ n.events = r.events /\ n.bad = r.bad /\ n.got = r.got /\ n.targets = r.targets
        /\ n.well = (r.well /\ AllGood(r)) /\ n.at = "verdict"
    BY <1>1, <1>2 DEF HostJob, JobSteps
  <1>4. AllGood(n) <=> AllGood(r)
    BY <1>3 DEF AllGood
  <1>5. Reach(n) = Reach(r)
    BY <1>3 DEF Reach
  <1> HIDE DEF n
  <1>6. JobTold(n)
    BY <1>3, <1>4, <1>5 DEF JobTold
  <1> QED BY <1>3, <1>6 DEF n

-----------------------------------------------------------------------------
(* One job's record changes, not what the recorded version stands for.      *)
LEMMA JobMoves ==
    ASSUME HostInv, NEW j \in HostJobs, NEW r \in HostJob, JobTold(r),
           Becomes(j, r), UNCHANGED <<flag, recorded>>, hosts' \in Lists,
           recorded = j => /\ r.at \in {"over", "done", "dead"}
                           /\ r.got = job[j].got /\ r.seen = job[j].seen
    PROVE  HostInv'
  <1>1. job' = [job EXCEPT ![j] = r] /\ job \in [HostJobs -> HostJob]
    BY DEF Becomes, HostInv, HostTypeOK
  <1>2. HostTypeOK'
    BY <1>1 DEF HostInv, HostTypeOK
  <1>3. \A i \in HostJobs : job'[i] = IF i = j THEN r ELSE job[i]
    BY <1>1
  <1>5. \A i \in HostJobs : JobTold(job[i])'
    <2>1. ASSUME NEW i \in HostJobs
          PROVE  JobTold(job[i])'
      <3> DEFINE q == IF i = j THEN r ELSE job[i]
      <3>1. job'[i] = q /\ JobTold(q)
        BY <1>3 DEF HostInv
      <3> HIDE DEF q
      <3> QED BY <3>1, flag' = flag DEF JobTold, AllGood, Reach, VerdictOf, HostsLeft
    <2> QED BY <2>1
  <1>6. RecordTold'
    BY <1>3 DEF HostInv, RecordTold
  <1> QED BY <1>2, <1>5, <1>6 DEF HostInv

LEMMA NotRecorded ==
    ASSUME HostInv, NEW j \in HostJobs, job[j].at \notin {"over", "done", "dead"}
    PROVE  recorded # j
  BY HostAssumption DEF HostInv, RecordTold

LEMMA HostStart == HostInit => HostInv
  <1> SUFFICES ASSUME HostInit PROVE HostInv
    OBVIOUS
  <1>1. /\ NoJob.at = "none" /\ NoJob.events = <<>> /\ NoJob.well = TRUE
        /\ NoJob.got = {} /\ NoJob.bad = FALSE
    BY DEF NoJob
  <1>2. NoJob \in HostJob
    BY DEF NoJob, HostJob, JobSteps, JobStatus, Lists
  <1>3. JobTold(NoJob)
    BY <1>1 DEF JobTold
  <1>4. HostTypeOK /\ RecordTold
    BY <1>2 DEF HostInit, HostTypeOK, RecordTold, Lists
  <1> QED BY <1>3, <1>4 DEF HostInit, HostInv

(* Steps outside the playbook change the record's step, status and hosts.   *)
LEMMA QuietStep ==
    ASSUME HostInv, NEW j \in HostJobs,
           QueueHostJob(j) \/ StartHostJob(j) \/ ResetStatus(j) \/ HostTaskEnds(j)
    PROVE  HostInv'
  <1> DEFINE r == job[j]
  <1>0. r \in HostJob /\ JobTold(r) /\ hosts \in Lists /\ RecordTold
    BY DEF HostInv, HostTypeOK
  <1>1. CASE QueueHostJob(j)
    <2> DEFINE n == [r EXCEPT !.at = "queued", !.targets = hosts]
    <2>1. n \in HostJob /\ JobTold(n) /\ r.at = "none"
      BY <1>0, <1>1 DEF QueueHostJob, HostJob, JobSteps, JobTold, AllGood
    <2> QED BY <1>0, <1>1, <2>1, JobMoves, NotRecorded DEF QueueHostJob
  <1>2. CASE StartHostJob(j)
    <2> DEFINE n == [r EXCEPT !.at = "play", !.status = Deploying, !.seen = hosts]
    <2>1. n \in HostJob /\ JobTold(n) /\ r.at = "queued"
      BY <1>0, <1>2 DEF StartHostJob, HostJob, JobSteps, JobStatus, JobTold, AllGood
    <2> QED BY <1>0, <1>2, <2>1, JobMoves, NotRecorded DEF StartHostJob
  <1>3. CASE ResetStatus(j)
    <2> DEFINE n == [r EXCEPT !.status = Waiting]
    <2>1. r.at # "done"
      <3>1. Deploying \notin Outcomes
        BY DEF Deploying, Outcomes, Success, Failed, PartSuccess, PartFailed
      <3> QED BY <1>0, <1>3, <3>1, VerdictIsOutcome DEF ResetStatus, JobTold
    <2>2. /\ n \in HostJob /\ n.at = r.at /\ n.got = r.got /\ n.seen = r.seen /\ n.bad = r.bad
          /\ n.well = r.well /\ n.events = r.events /\ n.targets = r.targets
      BY <1>0 DEF HostJob, JobStatus
    <2>3. JobTold(n)
      BY <1>0, <2>1, <2>2 DEF JobTold, AllGood, Reach
    <2> QED BY <1>0, <1>3, <2>2, <2>3, JobMoves, NotRecorded DEF ResetStatus
  <1>4. CASE HostTaskEnds(j)
    <2> DEFINE n == [r EXCEPT !.at = "dead"]
    <2>1. n \in HostJob /\ n.at = "dead" /\ n.got = r.got /\ n.seen = r.seen /\ n.events = r.events /\ n.well = r.well
      BY <1>0 DEF HostJob, JobSteps
    <2>2. JobTold(n)
      BY <1>0, <2>1 DEF JobTold, AllGood
    <2> QED BY <1>0, <1>4, <2>1, <2>2, JobMoves DEF HostTaskEnds, RecordTold
  <1> QED BY <1>1, <1>2, <1>3, <1>4

(* The playbook.                                                            *)
LEMMA PlayStep ==
    ASSUME HostInv, NEW j \in HostJobs,
           \/ \E status \in {"success", "failed", "unreachable"} : TaskEnds(j, status)
           \/ \E reached \in SUBSET UNION {HostsOf(list) : list \in HostLists} : LoopEnds(j, reached)
           \/ LoopUnreachable(j) \/ NoHosts(j) \/ StatsSent(j)
    PROVE  HostInv'
  <1> DEFINE r == job[j]
  <1>0. r \in HostJob /\ JobTold(r) /\ hosts \in Lists /\ RecordTold
    BY DEF HostInv, HostTypeOK
  <1>1. ASSUME NEW status \in {"success", "failed", "unreachable"}, TaskEnds(j, status)
        PROVE  HostInv'
    <2>1. r.at = "play" /\ status \in EventStatus /\ r.task # LastTask
      BY <1>0, <1>1, HostAssumption DEF TaskEnds, EventStatus, HostJob
    <2>2. Event(r, status) \in HostJob /\ JobTold(Event(r, status))
      BY <1>0, <2>1, EventTold
    <2> QED BY <1>0, <1>1, <2>1, <2>2, JobMoves, NotRecorded DEF TaskEnds
  <1>2. ASSUME NEW reached \in SUBSET UNION {HostsOf(list) : list \in HostLists}, LoopEnds(j, reached)
        PROVE  HostInv'
    <2> DEFINE n == [r EXCEPT !.got = reached]
               status == IF Reach(r) = {} THEN "skipped" ELSE IF reached = Reach(r) THEN "success" ELSE "failed"
    <2>1. /\ r.at = "play" /\ reached \subseteq Reach(r) /\ Becomes(j, Event(n, status))
          /\ UNCHANGED <<flag, hosts, recorded, edited>>
      BY <1>2 DEF LoopEnds, Reach
    <2>2. /\ n \in HostJob /\ n.at = "play" /\ n.events = r.events /\ n.well = r.well /\ n.targets = r.targets
          /\ n.got = reached
      BY <1>0, <2>1 DEF HostJob
    <2>3. JobTold(n)
      BY <1>0, <2>2 DEF JobTold, AllGood
    <2>4. status \in EventStatus /\ (status \in Good => n.got = Reach(n))
      BY <2>1, <2>2 DEF EventStatus, Good, Reach
    <2> HIDE DEF n, status
    <2>5. Event(n, status) \in HostJob /\ JobTold(Event(n, status))
      BY <2>2, <2>3, <2>4, EventTold
    <2> QED BY <1>0, <2>1, <2>5, JobMoves, NotRecorded
  <1>3. CASE LoopUnreachable(j)
    <2>1. r.at = "play" /\ "unreachable" \in EventStatus /\ "unreachable" \notin Good
      BY <1>3 DEF LoopUnreachable, EventStatus, Good
    <2>2. Event(r, "unreachable") \in HostJob /\ JobTold(Event(r, "unreachable"))
      BY <1>0, <2>1, EventTold
    <2> QED BY <1>0, <1>3, <2>1, <2>2, JobMoves, NotRecorded DEF LoopUnreachable
  <1>4. CASE NoHosts(j)
    <2> DEFINE n == [r EXCEPT !.events = Append(@, "unreachable"), !.at = "stats"]
    <2>1. /\ n \in HostJob /\ n.at = "stats" /\ r.at = "play"
          /\ n.events = Append(r.events, "unreachable") /\ r.events \in Seq(EventStatus)
      <3>1. Append(r.events, "unreachable") \in Seq(EventStatus) /\ r.events \in Seq(EventStatus)
        BY <1>0 DEF HostJob, EventStatus
      <3> QED BY <1>0, <1>4, <3>1 DEF NoHosts, HostJob, JobSteps
    <2>2. ~AllGood(n)
      <3>1. "unreachable" \in EventStatus /\ "unreachable" \notin Good
        BY DEF EventStatus, Good
      <3> HIDE DEF n
      <3> QED BY <2>1, <3>1, GoodPrefix DEF AllGood
    <2>3. JobTold(n)
      BY <2>1, <2>2 DEF JobTold
    <2> QED BY <1>0, <1>4, <2>1, <2>3, JobMoves, NotRecorded DEF NoHosts
  <1>5. CASE StatsSent(j)
    <2> DEFINE n == [Generated(r) EXCEPT !.at = "verdict"]
    <2>1. n \in HostJob /\ JobTold(n) /\ r.at = "stats"
      BY <1>0, <1>5, StatsTold DEF StatsSent
    <2> QED BY <1>0, <1>5, <2>1, JobMoves, NotRecorded DEF StatsSent
  <1> QED BY <1>1, <1>2, <1>3, <1>4, <1>5

(* run: the version, then the verdict.                                      *)
LEMMA VerdictStep ==
    ASSUME HostInv, NEW j \in HostJobs, RecordVersion(j) \/ TaskOver(j)
    PROVE  HostInv'
  <1> DEFINE r == job[j]
  <1>0. r \in HostJob /\ JobTold(r) /\ hosts \in Lists /\ RecordTold /\ HostTypeOK
    BY DEF HostInv, HostTypeOK
  <1>1. CASE RecordVersion(j)
    <2> DEFINE n == [r EXCEPT !.at = "over"]
    <2>1. /\ n \in HostJob /\ n.at = "over" /\ n.got = r.got /\ n.seen = r.seen /\ n.events = r.events
          /\ n.well = r.well /\ n.bad = r.bad /\ n.targets = r.targets /\ r.at = "verdict"
      BY <1>0, <1>1 DEF RecordVersion, HostJob, JobSteps
    <2>2. JobTold(n)
      BY <1>0, <2>1 DEF JobTold, AllGood, Reach
    <2>3. CASE ~Records(r)
      BY <1>0, <1>1, <2>1, <2>2, <2>3, JobMoves DEF RecordVersion, RecordTold
    <2>4. CASE Records(r)
      <3>1. /\ recorded' = j /\ hosts' = r.seen /\ flag' = flag
            /\ job' = [job EXCEPT ![j] = n] /\ job \in [HostJobs -> HostJob]
        BY <1>0, <1>1, <2>4 DEF RecordVersion, Becomes, HostTypeOK
      <3>2. HostTypeOK' /\ job'[j] = n
        BY <1>0, <2>1, <3>1 DEF HostTypeOK, HostJob
      <3>3. r.got = Reach(r) /\ (flag = "jar" => Cardinality(HostsOf(r.targets)) = Len(r.seen))
        BY <1>0, <2>1, <2>4 DEF Records, JobTold
      <3>4. RecordTold'
        <4> HIDE DEF n
        <4> QED BY <2>1, <3>1, <3>2, <3>3 DEF RecordTold, Reach
      <3>5. \A i \in HostJobs : JobTold(job[i])'
        <4>1. ASSUME NEW i \in HostJobs
              PROVE  JobTold(job[i])'
          <5> DEFINE q == IF i = j THEN n ELSE job[i]
          <5>1. job'[i] = q /\ JobTold(q)
            BY <2>2, <3>1 DEF HostInv
          <5>2. flag' = flag
            BY <3>1
          <5> HIDE DEF q
          <5> QED BY <5>1, <5>2 DEF JobTold, AllGood, Reach, VerdictOf, HostsLeft
        <4> QED BY <4>1
      <3> QED BY <3>2, <3>4, <3>5 DEF HostInv
    <2> QED BY <2>3, <2>4
  <1>2. CASE TaskOver(j)
    <2> DEFINE n == [r EXCEPT !.at = "done", !.status = VerdictOf(r)]
    <2>1. VerdictOf(r) \in JobStatus
      BY <1>0, VerdictIsOutcome DEF JobStatus
    <2>2. /\ n \in HostJob /\ n.at = "done" /\ n.got = r.got /\ n.seen = r.seen /\ n.events = r.events
          /\ n.well = r.well /\ n.bad = r.bad /\ n.targets = r.targets /\ r.at = "over"
          /\ n.status = VerdictOf(r)
      BY <1>0, <1>2, <2>1 DEF TaskOver, HostJob, JobSteps
    <2>3. VerdictOf(n) = VerdictOf(r)
      BY <2>2 DEF VerdictOf, HostsLeft
    <2>4. JobTold(n)
      BY <1>0, <2>2, <2>3 DEF JobTold, AllGood, Reach
    <2> QED BY <1>0, <1>2, <2>2, <2>4, JobMoves DEF TaskOver, RecordTold
  <1> QED BY <1>1, <1>2

LEMMA HostStep == HostInv /\ [HostNext]_hostVars => HostInv'
  <1> SUFFICES ASSUME HostInv, [HostNext]_hostVars PROVE HostInv'
    OBVIOUS
  <1>1. ASSUME UNCHANGED <<flag, recorded, job>>, hosts' \in Lists
        PROVE  HostInv'
    BY <1>1 DEF HostInv, HostTypeOK, RecordTold, JobTold, AllGood, Reach, VerdictOf, HostsLeft
  <1>2. ASSUME NEW list \in HostLists, EditHosts(list)
        PROVE  HostInv'
    BY <1>1, <1>2 DEF EditHosts, Lists
  <1>3. CASE UNCHANGED hostVars
    BY <1>1, <1>3 DEF hostVars, HostInv, HostTypeOK
  <1> QED BY <1>2, <1>3, QuietStep, PlayStep, VerdictStep DEF HostNext

LEMMA HostAlways == HostSpec => []HostInv
  BY HostStart, HostStep, PTL DEF HostSpec

(* A job that ends as a success has reached every host its playbook was to  *)
(* run on, and the version recorded for a jar service is on as many hosts   *)
(* as the service had: whatever the events, edits, resets and deaths.       *)
THEOREM SuccessHasReached == HostSpec => []SuccessReachedAll
  <1>1. HostInv => SuccessReachedAll
    <2> SUFFICES ASSUME HostInv PROVE SuccessReachedAll
      OBVIOUS
    <2>1. ASSUME NEW j \in HostJobs, job[j].at = "done", job[j].status \in {Success, PartSuccess}
          PROVE  job[j].got = Reach(job[j])
      <3>1. JobTold(job[j]) /\ job[j].bad \in BOOLEAN /\ job[j].well \in BOOLEAN
        BY DEF HostInv, HostTypeOK, HostJob
      <3>2. ~job[j].bad /\ job[j].well
        BY <2>1, <3>1 DEF JobTold, VerdictOf, Success, PartSuccess, Failed
      <3> QED BY <2>1, <3>1, <3>2 DEF JobTold
    <2>2. flag = "jar" /\ recorded # 0 => Cardinality(job[recorded].got) = Len(job[recorded].seen)
      BY DEF HostInv, RecordTold
    <2> QED BY <2>1, <2>2 DEF SuccessReachedAll, Reach
  <1> QED BY <1>1, HostAlways, PTL

(* The status a job ends with is the one DeployStatus derives from the      *)
(* result of its playbook: PublishOrder may take its outcomes from there.   *)
THEOREM EndsAsPublished == HostSpec => []EndsAsOrdered
  <1>1. HostInv => EndsAsOrdered
    <2> SUFFICES ASSUME HostInv, NEW j \in HostJobs, job[j].at = "done"
                 PROVE  job[j].status = IF flag = "web" THEN WebOutcome(Result(job[j]))
                                        ELSE JarOutcome(Result(job[j]), HostsLeft(job[j]))
      BY DEF EndsAsOrdered, HostsLeft, HostInv, HostTypeOK
    <2> DEFINE r == job[j]
    <2>1. r \in HostJob /\ JobTold(r) /\ r.status = VerdictOf(r)
      BY DEF HostInv, HostTypeOK, JobTold
    <2>2. r.well <=> HostsOf(r.events) \subseteq {"success", "skipped"}
      <3>1. r.well <=> AllGood(r)
        BY <2>1 DEF JobTold, HostJob
      <3>2. AllGood(r) <=> \A i \in DOMAIN r.events : r.events[i] \in {"success", "skipped"}
        <4>1. \A i \in DOMAIN r.events : r.events[i] \in EventStatus
          BY <2>1 DEF HostJob
        <4> QED BY <4>1 DEF AllGood, Good, EventStatus
      <3> QED BY <3>1, <3>2 DEF HostsOf
    <2>3. Result(r) = IF r.bad THEN "unreachable" ELSE IF r.well THEN "ok" ELSE "unmatched"
      BY <2>2 DEF Result
    <2>4. flag = "web" => ~HostsLeft(r)
      BY DEF HostsLeft
    <2>5. CASE r.bad
      BY <2>1, <2>3, <2>5 DEF VerdictOf, WebOutcome, JarOutcome
    <2>6. CASE ~r.bad /\ r.well
      BY <2>1, <2>3, <2>4, <2>6 DEF VerdictOf, WebOutcome, JarOutcome, Success
    <2>7. CASE ~r.bad /\ ~r.well
      BY <2>1, <2>3, <2>4, <2>7 DEF VerdictOf, WebOutcome, JarOutcome, Failed
    <2> QED BY <2>5, <2>6, <2>7
  <1> QED BY <1>1, HostAlways, PTL
=============================================================================
