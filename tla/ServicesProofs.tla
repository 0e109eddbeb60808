--------------------------- MODULE ServicesProofs ---------------------------
(* Proofs about the services behind the requests: the watchers of           *)
(* deployments, for any number of sockets, slots and rounds; the cluster of *)
(* task workers, for any number of tasks, workers and faults and whatever   *)
(* the limits are; the types of both and of the notices; and the notices,   *)
(* for any number of messages, keys and flushes.                            *)
EXTENDS MCServices, TLAPS

-----------------------------------------------------------------------------
(* Watchers of deployments.                                                 *)
Deployers == {w \in Watchers : Kind(w) = "deploy"}

(* Some watcher is over: it may have deleted the word.                      *)
Over == \E v \in Deployers : watch[v] = "done"

Domains == /\ DOMAIN watch = Watchers /\ DOMAIN flagged = Watchers /\ DOMAIN last = Watchers
           /\ DOMAIN socket = Sockets

(* A socket that is not open yet has no watcher.                            *)
NotYet == \A w \in Deployers : socket[w[1]] = "new" => watch[w] = "none"

(* The flag comes after the result, and stays behind it.                    *)
FlagLate == /\ flag => stage = "ended"
            /\ target = "k8s" /\ stage \in {"save", "flag", "ended"} => word = "result" \/ Over

(* So a watcher that has seen the flag reads the result next, if it is      *)
(* still there, and has sent it before it ends.                             *)
SeenLate == \A w \in Watchers : flagged[w] => stage = "ended" /\ w \in Deployers

SentResult ==
    \A w \in Deployers : target = "k8s" /\ watch[w] \in {"ending", "done"} =>
       last[w] = "result" \/ \E v \in Deployers \ {w} : watch[v] = "done"

WatchInv == Domains /\ NotYet /\ FlagLate /\ SeenLate /\ SentResult

LEMMA SocketOf == \A w \in Watchers : w[1] \in Sockets
  BY DEF Watchers

LEMMA WatchStarts == WatchInit => WatchInv
  BY DEF WatchInit, WatchInv, Domains, NotYet, FlagLate, SeenLate, SentResult, Deployers

LEMMA DeployMoves ==
    ASSUME WatchInv, DeployTaskStep \/ DeployStops \/ FlagExpires \/ RunGoesOn
    PROVE  WatchInv'
  <1>1. UNCHANGED <<target, watch, flagged, last, socket>>
    BY DEF DeployTaskStep, DeployReports, DeployResult, DeploySave, DeployFlag, DeployStops, FlagExpires,
           RunGoesOn, theWatch, theDeploy
  <1>2. Domains' /\ NotYet' /\ SentResult' /\ (Over <=> Over')
    BY <1>1 DEF WatchInv, Domains, NotYet, SentResult, Over
  <1>3. FlagLate' /\ (stage = "ended" => stage' = "ended")
    BY <1>2 DEF WatchInv, FlagLate, DeployTaskStep, DeployReports, DeployResult, DeploySave, DeployFlag,
                DeployStops, FlagExpires, RunGoesOn, theDeploy
  <1>4. SeenLate'
    BY <1>1, <1>3 DEF WatchInv, SeenLate
  <1> QED BY <1>2, <1>3, <1>4 DEF WatchInv

(* The sockets: what they ask for is not over, and what is over stays so.   *)
LEMMA WatcherMoves ==
    ASSUME WatchInv, NEW w \in Watchers, NEW to, watch' = [watch EXCEPT ![w] = to],
           w \in Deployers => watch[w] \notin {"ending", "done"} /\ to \notin {"ending", "done"},
           w \in Deployers => socket'[w[1]] # "new",
           \A v \in Deployers : socket'[v[1]] = "new" => socket[v[1]] = "new",
           DOMAIN socket' = Sockets, UNCHANGED <<theDeploy, flagged, last>>
    PROVE  WatchInv'
  <1>1. \A v \in Deployers : /\ v # w => watch'[v] = watch[v]
                             /\ v = w => watch[v] \notin {"ending", "done"} /\ watch'[v] \notin {"ending", "done"}
    BY DEF WatchInv, Domains, Deployers
  <1>2. Over <=> Over'
    BY <1>1 DEF Over
  <1>3. Domains' /\ NotYet'
    BY <1>1 DEF WatchInv, Domains, NotYet, Deployers
  <1>4. SentResult'
    BY <1>1 DEF WatchInv, SentResult, theDeploy
  <1> QED BY <1>2, <1>3, <1>4 DEF WatchInv, FlagLate, SeenLate, theDeploy

LEMMA Connects ==
    ASSUME WatchInv, NEW s \in Sockets, Connect(s)
    PROVE  WatchInv'
  <1>1. /\ socket[s] = "new" /\ socket' = [socket EXCEPT ![s] = "open"]
        /\ UNCHANGED <<theDeploy, flagged, last>>
    BY DEF Connect
  <1>2. /\ \A v \in Deployers : socket'[v[1]] = "new" => socket[v[1]] = "new"
        /\ DOMAIN socket' = Sockets /\ socket'[s] = "open"
    BY <1>1, SocketOf DEF WatchInv, Domains, Deployers
  <1>3. CASE KindOf[s] = "pods"
    <2>1. watch' = watch
      BY <1>3 DEF Connect
    <2> QED BY <1>1, <1>2, <2>1 DEF WatchInv, Domains, NotYet, FlagLate, SeenLate, SentResult, Over, theDeploy
  <1>4. CASE KindOf[s] # "pods"
    <2> DEFINE w == <<s, 1>>
    <2>1. watch' = [watch EXCEPT ![w] = "queued"]
      BY <1>4 DEF Connect
    <2>2. w \in Watchers
      BY WatchAssumption DEF Watchers
    <2>3. w \in Deployers => watch[w] = "none"
      BY <1>1 DEF WatchInv, NotYet
    <2>4. w \in Deployers => socket'[w[1]] # "new"
      BY <1>2
    <2> HIDE DEF w
    <2> QED BY <1>1, <1>2, <2>1, <2>2, <2>3, <2>4, WatcherMoves
  <1> QED BY <1>3, <1>4

LEMMA Receives ==
    ASSUME WatchInv, NEW s \in Sockets, Receive(s)
    PROVE  WatchInv'
  <1>1. PICK w \in Unused(s), to \in {"queued", "revoked"} :
            watch' = [watch EXCEPT ![w] = to] /\ (socket' = socket \/ socket' = [socket EXCEPT ![s] = "closed"])
    BY DEF Receive
  <1>2. w \in Watchers /\ w \notin Deployers
    BY DEF Receive, Unused, Deployers, Kind
  <1>3. UNCHANGED <<theDeploy, flagged, last>>
    BY DEF Receive
  <1>4. /\ \A v \in Deployers : socket'[v[1]] = "new" => socket[v[1]] = "new"
        /\ DOMAIN socket' = Sockets
    BY <1>1, SocketOf DEF WatchInv, Domains, Deployers
  <1> QED BY <1>1, <1>2, <1>3, <1>4, WatcherMoves

LEMMA Closes ==
    ASSUME WatchInv, NEW s \in Sockets, Close(s)
    PROVE  WatchInv'
  <1>1. /\ UNCHANGED <<target, stage, word, flag, watch, flagged, last>>
        /\ socket' = [socket EXCEPT ![s] = "closed"]
    BY DEF Close, theDeploy, theWatch
  <1>2. /\ \A v \in Deployers : socket'[v[1]] = "new" => socket[v[1]] = "new"
        /\ DOMAIN socket' = Sockets
    BY <1>1, SocketOf DEF WatchInv, Domains, Deployers
  <1> QED BY <1>1, <1>2 DEF WatchInv, Domains, NotYet, FlagLate, SeenLate, SentResult, Over

(* Builds' and pods' watchers have no part in it.                           *)
LEMMA OtherKinds ==
    ASSUME WatchInv, NEW w \in Watchers, BuildUnanswered(w) \/ BuildAnswer(w) \/ PodsEnd(w)
    PROVE  WatchInv'
  <1>1. w \notin Deployers /\ UNCHANGED <<theDeploy, flagged, last>>
    BY DEF BuildUnanswered, BuildAnswer, Answers, PodsEnd, Deployers
  <1>2. /\ \A v \in Deployers : socket'[v[1]] = "new" => socket[v[1]] = "new"
        /\ DOMAIN socket' = Sockets
    <2>1. socket' = socket \/ socket' = Told(w)
      BY DEF BuildUnanswered, BuildAnswer, BuildWatchEnd, PodsEnd
    <2>2. w[1] \in Sockets
      BY SocketOf
    <2> QED BY <2>1, <2>2, SocketOf DEF Told, WatchInv, Domains, Deployers
  <1>3. watch' = watch \/ watch' = [watch EXCEPT ![w] = "done"]
    BY DEF BuildUnanswered, BuildAnswer, BuildWatchEnd, PodsEnd
  <1>4. CASE watch' = watch
    BY <1>1, <1>2, <1>4 DEF WatchInv, Domains, NotYet, FlagLate, SeenLate, SentResult, Over, theDeploy
  <1> QED BY <1>1, <1>2, <1>3, <1>4, WatcherMoves

LEMMA Starts ==
    ASSUME WatchInv, NEW w \in Watchers, WatchStart(w)
    PROVE  WatchInv'
  <1>1. /\ watch[w] = "queued" /\ watch' = [watch EXCEPT ![w] = "reading"] /\ socket' = socket
        /\ UNCHANGED <<theDeploy, flagged, last>>
    BY DEF WatchStart
  <1>2. w \in Deployers => socket'[w[1]] # "new"
    BY <1>1 DEF WatchInv, NotYet
  <1> QED BY <1>1, <1>2, WatcherMoves DEF WatchInv, Domains

LEMMA ReadsFlag ==
    ASSUME WatchInv, NEW w \in Watchers, ReadFlag(w)
    PROVE  WatchInv'
  <1>1. SeenLate'
    BY DEF ReadFlag, WatchInv, Domains, SeenLate, FlagLate, Deployers, theDeploy
  <1> QED BY <1>1 DEF ReadFlag, WatchInv, Domains, NotYet, FlagLate, SentResult, Over, theDeploy

LEMMA ReadsUnflagged ==
    ASSUME WatchInv, NEW w \in Watchers, ReadUnflagged(w)
    PROVE  WatchInv'
  <1>1. SentResult'
    BY DEF ReadUnflagged, WatchInv, Domains, SentResult, Deployers, theDeploy
  <1> QED BY <1>1 DEF ReadUnflagged, WatchInv, Domains, NotYet, FlagLate, SeenLate, Over, theDeploy

(* With the flag up the word is the result, or another watcher is over.     *)
LEMMA ReadsFlagged ==
    ASSUME WatchInv, NEW w \in Watchers, ReadFlagged(w)
    PROVE  WatchInv'
  <1>1. PICK to \in {"ending", "reading"} :
          /\ watch[w] = "reading" /\ watch' = [watch EXCEPT ![w] = to] /\ w \in Deployers
          /\ last' = [last EXCEPT ![w] = word] /\ flagged' = [flagged EXCEPT ![w] = FALSE]
          /\ socket' = socket /\ UNCHANGED theDeploy
    BY DEF ReadFlagged, WatchInv, SeenLate
  <1>2. target = "k8s" => word = "result" \/ \E v \in Deployers \ {w} : watch[v] = "done"
    BY <1>1 DEF ReadFlagged, WatchInv, SeenLate, FlagLate, Over
  <1>3. \A v \in Deployers \ {w} : watch'[v] = watch[v] /\ last'[v] = last[v]
    BY <1>1 DEF WatchInv, Domains
  <1>4. watch'[w] = to /\ last'[w] = word
    BY <1>1 DEF WatchInv, Domains
  <1>5. SentResult'
    BY <1>1, <1>2, <1>3, <1>4 DEF WatchInv, SentResult, theDeploy
  <1>6. Over' <=> Over
    BY <1>1, <1>3, <1>4 DEF Over
  <1>7. Domains' /\ NotYet' /\ SeenLate'
    BY <1>1, <1>3, <1>4 DEF WatchInv, Domains, NotYet, SeenLate, theDeploy
  <1> QED BY <1>1, <1>5, <1>6, <1>7 DEF WatchInv, FlagLate, theDeploy

LEMMA DeployWatchEnds ==
    ASSUME WatchInv, NEW w \in Watchers, DeployWatchEnd(w)
    PROVE  WatchInv'
  <1>1. /\ w \in Deployers /\ watch[w] = "ending" /\ watch' = [watch EXCEPT ![w] = "done"]
        /\ socket' = Told(w) /\ UNCHANGED <<target, stage, flag, flagged, last>>
    BY DEF DeployWatchEnd, Deployers
  <1>2. /\ watch'[w] = "done"
        /\ \A v \in Deployers \ {w} : watch'[v] = watch[v]
    BY <1>1 DEF WatchInv, Domains
  <1>3. Over'
    BY <1>1, <1>2 DEF Over
  <1>4. /\ \A v \in Deployers : socket'[v[1]] = "new" => socket[v[1]] = "new"
        /\ DOMAIN socket' = Sockets
    BY <1>1, SocketOf DEF Told, WatchInv, Domains, Deployers
  <1>5. Domains' /\ SeenLate'
    BY <1>1, <1>4 DEF WatchInv, Domains, SeenLate
  <1>6. NotYet'
    BY <1>1, <1>2, <1>4 DEF WatchInv, NotYet
  <1>7. SentResult'
    BY <1>1, <1>2 DEF WatchInv, SentResult
  <1> QED BY <1>1, <1>3, <1>5, <1>6, <1>7 DEF WatchInv, FlagLate

LEMMA WatchSteps == WatchInv /\ [WatchNext]_watchVars => WatchInv'
  <1>1. WatchInv /\ UNCHANGED watchVars => WatchInv'
    BY DEF watchVars, WatchInv, Domains, NotYet, FlagLate, SeenLate, SentResult, Over
  <1> QED BY <1>1, DeployMoves, Connects, Receives, Closes, Starts, ReadsFlag, ReadsUnflagged, ReadsFlagged,
             DeployWatchEnds, OtherKinds DEF WatchNext, WatcherStep

(* Whoever is told that a deployment to Kubernetes is over has been sent its*)
(* result, unless another watcher of it was over before.                    *)
THEOREM ResultComesFirst == WatchSpec => []EndAfterResult
  <1>1. WatchInv => EndAfterResult
    BY DEF WatchInv, SentResult, Deployers, EndAfterResult
  <1> QED BY <1>1, WatchStarts, WatchSteps, PTL DEF WatchSpec

-----------------------------------------------------------------------------
(* The cluster of task workers.                                             *)
(* A task that has been started is with its worker, done or lost, and what  *)
(* a worker is doing is with that worker alone.                             *)
Unstarted == {"caller", "schedule", "broker", "memory"}

Places == /\ DOMAIN place = Tasks
          /\ \A t \in Tasks : place[t] \in Unstarted \cup {"worker", "done", "lost"}
Started == /\ DOMAIN runs = Tasks
           /\ \A t \in Tasks : runs[t] \in {0, 1} /\ (place[t] \in Unstarted => runs[t] = 0)
Doing == /\ DOMAIN doing = Pool
         /\ \A p \in Pool : doing[p] # NoTask => doing[p] \in Tasks /\ place[doing[p]] = "worker"
         /\ \A p, q \in Pool : doing[p] = doing[q] /\ doing[p] # NoTask => p = q

ClusterInv == Places /\ Started /\ Doing

LEMMA ClusterStart == ClusterInit => ClusterInv
  BY DEF ClusterInit, ClusterInv, Places, Started, Doing, Unstarted

(* A task that changes place without being some worker's leaves the workers *)
(* alone.                                                                   *)
LEMMA Waiting ==
    ASSUME ClusterInv, NEW t \in Tasks, NEW from \in Unstarted, NEW to \in Unstarted, Moves(t, from, to),
           UNCHANGED <<runs, doing>>
    PROVE  ClusterInv'
  <1>1. place[t] = from /\ place' = [place EXCEPT ![t] = to]
    BY DEF Moves
  <1>2. \A p \in Pool : doing[p] # NoTask => doing[p] # t
    BY <1>1 DEF ClusterInv, Doing, Unstarted
  <1> QED BY <1>1, <1>2 DEF ClusterInv, Places, Started, Doing, Unstarted

LEMMA Taken ==
    ASSUME ClusterInv, NEW p \in Pool, NEW t \in Tasks, Take(p, t)
    PROVE  ClusterInv'
  <1>1. /\ place[t] = "memory" /\ place' = [place EXCEPT ![t] = "worker"]
        /\ runs' = [runs EXCEPT ![t] = runs[t] + 1]
        /\ doing' = [doing EXCEPT ![p] = t] /\ doing[p] = NoTask
    BY DEF Take, Moves
  <1>2. runs[t] = 0
    BY <1>1 DEF ClusterInv, Started, Unstarted
  <1>3. \A q \in Pool : doing[q] # NoTask => doing[q] # t
    BY <1>1 DEF ClusterInv, Doing
  <1>4. Places' /\ Started'
    BY <1>1, <1>2 DEF ClusterInv, Places, Started, Unstarted
  <1>5. Doing'
    BY <1>1, <1>3 DEF ClusterInv, Places, Doing
  <1> QED BY <1>4, <1>5 DEF ClusterInv

LEMMA Finished ==
    ASSUME ClusterInv, NEW p \in Pool, Finish(p)
    PROVE  ClusterInv'
  <1>1. /\ doing[p] # NoTask /\ doing[p] \in Tasks /\ place[doing[p]] = "worker"
        /\ place' = [place EXCEPT ![doing[p]] = "done"]
        /\ doing' = [doing EXCEPT ![p] = NoTask] /\ runs' = runs
    BY DEF Finish, Moves, ClusterInv, Doing
  <1>2. \A q \in Pool : q # p /\ doing[q] # NoTask => doing[q] # doing[p]
    BY <1>1 DEF ClusterInv, Doing
  <1>3. Places' /\ Started'
    BY <1>1 DEF ClusterInv, Places, Started, Unstarted
  <1>4. Doing'
    BY <1>1, <1>2 DEF ClusterInv, Places, Doing
  <1> QED BY <1>3, <1>4 DEF ClusterInv

(* The guard takes tasks away from the workers it replaces, and from no     *)
(* other; the scheduler in it moves only tasks that wait for it.            *)
LEMMA Guarded ==
    ASSUME ClusterInv, Guard
    PROVE  ClusterInv'
  <1>1. /\ doing' = [p \in Pool |-> IF p \in Replaced THEN NoTask ELSE doing[p]]
        /\ runs' = runs
        /\ place' = [t \in Tasks |-> IF \E p \in Replaced : doing[p] = t THEN "lost"
                                     ELSE IF Released(t) THEN "broker" ELSE place[t]]
    BY DEF Guard, Reborn
  <1>2. Replaced \subseteq Pool
    BY DEF Replaced
  <1>3. ASSUME NEW t \in Tasks
        PROVE  \/ place'[t] \in {place[t], "lost"}
               \/ place[t] = "schedule" /\ place'[t] = "broker"
    BY <1>1 DEF Released
  <1>4. Places' /\ Started'
    <2>1. DOMAIN place' = Tasks
      BY <1>1
    <2>2. Places'
      <3>1. ASSUME NEW t \in Tasks
            PROVE  place'[t] \in Unstarted \cup {"worker", "done", "lost"}
        BY <1>3 DEF ClusterInv, Places, Unstarted
      <3> QED BY <2>1, <3>1 DEF Places
    <2>3. \A t \in Tasks : place'[t] \in Unstarted => place[t] \in Unstarted
      BY <1>3 DEF Unstarted
    <2>4. Started'
      BY <1>1, <2>3 DEF ClusterInv, Started
    <2> QED BY <2>2, <2>4
  <1>5. ASSUME NEW p \in Pool, doing'[p] # NoTask
        PROVE  doing'[p] = doing[p] /\ doing[p] \in Tasks /\ place'[doing[p]] = "worker"
    <2>1. p \notin Replaced /\ doing'[p] = doing[p]
      BY <1>1, <1>5
    <2>2. doing[p] \in Tasks /\ place[doing[p]] = "worker"
      BY <1>5, <2>1 DEF ClusterInv, Doing
    <2>3. ~ \E q \in Replaced : doing[q] = doing[p]
      BY <1>2, <1>5, <2>1 DEF ClusterInv, Doing
    <2>4. ~Released(doing[p])
      BY <2>2 DEF Released
    <2> QED BY <1>1, <2>1, <2>2, <2>3, <2>4
  <1>6. Doing'
    <2>1. DOMAIN doing' = Pool
      BY <1>1
    <2> QED BY <1>5, <2>1 DEF ClusterInv, Doing
  <1> QED BY <1>4, <1>6 DEF ClusterInv

LEMMA ClusterStep == ClusterInv /\ [ClusterNext]_clusterVars => ClusterInv'
  <1> SUFFICES ASSUME ClusterInv, [ClusterNext]_clusterVars PROVE ClusterInv'
    OBVIOUS
  <1>1. ASSUME NEW t \in Tasks, AsyncTask(t) \/ ScheduleTask(t) \/ Push(t)
        PROVE  ClusterInv'
    <2>1. PICK from \in Unstarted, to \in Unstarted : Moves(t, from, to)
      BY <1>1 DEF AsyncTask, ScheduleTask, Push, Unstarted
    <2>2. UNCHANGED <<runs, doing>>
      BY <1>1 DEF AsyncTask, ScheduleTask, Push, poolVars
    <2> QED BY <2>1, <2>2, Waiting
  <1>2. ASSUME NEW p \in Pool, WorkerDies(p)
        PROVE  ClusterInv'
    BY <1>2 DEF WorkerDies, ClusterInv, Places, Started, Doing
  <1>3. CASE ClusterRestart
    <2>1. Places' /\ Started'
      BY <1>3 DEF ClusterRestart, ClusterInv, Places, Started, Unstarted
    <2>2. Doing'
      BY <1>3 DEF ClusterRestart, Doing
    <2> QED BY <2>1, <2>2 DEF ClusterInv
  <1>4. CASE UNCHANGED clusterVars
    BY <1>4 DEF clusterVars, ClusterInv, Places, Started, Doing
  <1> QED BY <1>1, <1>2, <1>3, <1>4, Taken, Finished, Guarded DEF ClusterNext

(* No task is started twice, and no two workers have the same one: a task   *)
(* whose worker has died or been killed is not run again.                   *)
THEOREM NoSecondRun == ClusterSpec => []RunOnce
  <1>1. ClusterInv => RunOnce
    BY DEF ClusterInv, Started, Doing, RunOnce
  <1> QED BY <1>1, ClusterStart, ClusterStep, PTL DEF ClusterSpec

-----------------------------------------------------------------------------
(* Types: those of the watchers.  The counter of a deployment's watcher is  *)
(* below its bound until the watcher ends; only such a watcher reads flags. *)
CountsTyped ==
    /\ WatchTypeOK
    /\ \A w \in Watchers : Kind(w) = "deploy" /\ watch[w] # "ending" => count[w] < Reads
    /\ \A w \in Watchers : flagged[w] => Kind(w) = "deploy"

LEMMA CountsStart == WatchInit => CountsTyped
  <1> SUFFICES ASSUME WatchInit PROVE CountsTyped
    OBVIOUS
  <1>1. /\ Reads \in Nat \ {0} /\ Rounds \in Nat
        /\ count \in [Watchers -> Nat] /\ \A w \in Watchers : count[w] = 0 /\ flagged[w] = FALSE
    BY WatchAssumption DEF WatchInit
  <1>2. \A w \in Watchers : count[w] <= IF Kind(w) = "deploy" THEN Reads ELSE Rounds + 1
    BY <1>1
  <1>3. WatchTypeOK
    BY <1>1, <1>2 DEF WatchInit, WatchTypeOK
  <1> QED BY <1>1, <1>3 DEF CountsTyped

LEMMA WatchesTyped ==
    ASSUME CountsTyped, NEW w \in Watchers, NEW to \in {"queued", "reading", "ending", "done", "revoked"},
           watch' = [watch EXCEPT ![w] = to], watch[w] = "ending" => Kind(w) # "deploy",
           socket' \in [Sockets -> {"new", "open", "closed"}], UNCHANGED <<theDeploy, run, flagged, count, last>>
    PROVE  CountsTyped'
  <1>1. watch' \in [Watchers -> {"none", "queued", "reading", "ending", "done", "revoked"}]
        /\ \A v \in Watchers \ {w} : watch'[v] = watch[v]
    BY DEF CountsTyped, WatchTypeOK
  <1>2. WatchTypeOK'
    BY <1>1 DEF CountsTyped, WatchTypeOK, theDeploy
  <1> QED BY <1>1, <1>2 DEF CountsTyped

LEMMA TellsTyped ==
    ASSUME CountsTyped, NEW w \in Watchers
    PROVE  Told(w) \in [Sockets -> {"new", "open", "closed"}]
  <1>1. w[1] \in Sockets
    BY SocketOf
  <1> QED BY <1>1 DEF Told, CountsTyped, WatchTypeOK

(* A build's watcher answers: it counts, or it is over and counts no more.  *)
LEMMA AnswersTyped ==
    ASSUME CountsTyped, NEW w \in Watchers, BuildUnanswered(w) \/ BuildAnswer(w)
    PROVE  CountsTyped'
  <1>1. Kind(w) # "deploy" /\ watch \in [Watchers -> {"none", "queued", "reading", "ending", "done", "revoked"}]
        /\ count \in [Watchers -> Nat] /\ count[w] <= Rounds + 1 /\ Rounds \in Nat
        /\ socket \in [Sockets -> {"new", "open", "closed"}]
    BY WatchAssumption DEF BuildUnanswered, BuildAnswer, Answers, CountsTyped, WatchTypeOK
  <1>2. UNCHANGED <<theDeploy, run, flagged, last>>
    BY DEF BuildUnanswered, BuildAnswer
  <1>3. \/ count' = Counted(w) /\ UNCHANGED <<watch, socket>>
        \/ BuildWatchEnd(w)
    BY DEF BuildUnanswered, BuildAnswer
  <1>4. PICK n \in 0..(Rounds + 1) : count' = [count EXCEPT ![w] = n]
    <2>1. CASE count' = Counted(w)
      <3>1. (IF count[w] > Rounds THEN count[w] ELSE count[w] + 1) \in 0..(Rounds + 1)
        BY <1>1
      <3> QED BY <2>1, <3>1 DEF Counted
    <2>2. CASE BuildWatchEnd(w)
      <3>1. count' = [count EXCEPT ![w] = 0]
        BY <2>2 DEF BuildWatchEnd
      <3>2. 0 \in 0..(Rounds + 1)
        BY <1>1
      <3> QED BY <3>1, <3>2
    <2> QED BY <1>3, <2>1, <2>2
  <1>5. count' \in [Watchers -> Nat] /\ count'[w] <= Rounds + 1
        /\ \A v \in Watchers \ {w} : count'[v] = count[v]
    BY <1>1, <1>4
  <1>6. /\ watch' \in [Watchers -> {"none", "queued", "reading", "ending", "done", "revoked"}]
        /\ \A v \in Watchers \ {w} : watch'[v] = watch[v]
        /\ socket' \in [Sockets -> {"new", "open", "closed"}]
    BY <1>1, <1>3, TellsTyped DEF BuildWatchEnd
  <1>7. WatchTypeOK'
    BY <1>1, <1>2, <1>5, <1>6 DEF CountsTyped, WatchTypeOK, theDeploy
  <1> QED BY <1>1, <1>2, <1>5, <1>6, <1>7 DEF CountsTyped

(* A deployment's watcher reads with the flag up: one nearer to its end.    *)
LEMMA FlaggedTyped ==
    ASSUME CountsTyped, NEW w \in Watchers, ReadFlagged(w)
    PROVE  CountsTyped'
  <1>1. /\ Kind(w) = "deploy" /\ watch[w] = "reading" /\ count[w] < Reads /\ count[w] \in Nat /\ Reads \in Nat
        /\ watch \in [Watchers -> {"none", "queued", "reading", "ending", "done", "revoked"}]
        /\ count \in [Watchers -> Nat] /\ flagged \in [Watchers -> BOOLEAN]
    BY WatchAssumption DEF ReadFlagged, CountsTyped, WatchTypeOK
  <1>2. word \in {"stage", "result"} \/ word = "none"
    BY DEF CountsTyped, WatchTypeOK
  <1>3. /\ last' \in [Watchers -> {"none", "stage", "result"}] /\ flagged' \in [Watchers -> BOOLEAN]
        /\ count' \in [Watchers -> Nat] /\ count'[w] = count[w] + 1
        /\ \A v \in Watchers \ {w} : count'[v] = count[v] /\ flagged'[v] = flagged[v] /\ watch'[v] = watch[v]
        /\ ~flagged'[w]
    BY <1>1, <1>2 DEF ReadFlagged, CountsTyped, WatchTypeOK
  <1>4. /\ watch' \in [Watchers -> {"none", "queued", "reading", "ending", "done", "revoked"}]
        /\ watch'[w] # "ending" => count'[w] < Reads
    BY <1>1, <1>3 DEF ReadFlagged
  <1>5. WatchTypeOK'
    BY <1>1, <1>3, <1>4 DEF ReadFlagged, CountsTyped, WatchTypeOK, theDeploy
  <1> QED BY <1>3, <1>4, <1>5 DEF CountsTyped

LEMMA WatchTypes == WatchInv /\ CountsTyped /\ [WatchNext]_watchVars => CountsTyped'
  <1> SUFFICES ASSUME WatchInv, CountsTyped, [WatchNext]_watchVars PROVE CountsTyped'
    OBVIOUS
  <1>0. /\ watch \in [Watchers -> {"none", "queued", "reading", "ending", "done", "revoked"}]
        /\ socket \in [Sockets -> {"new", "open", "closed"}]
    BY DEF CountsTyped, WatchTypeOK
  <1>1. CASE UNCHANGED watchVars
    BY <1>1 DEF watchVars, CountsTyped, WatchTypeOK
  <1>2. CASE DeployTaskStep \/ DeployStops \/ FlagExpires \/ RunGoesOn
    <2>1. UNCHANGED <<socket, watch, flagged, count, last>>
      BY <1>2 DEF DeployTaskStep, DeployReports, DeployResult, DeploySave, DeployFlag, DeployStops, FlagExpires,
             RunGoesOn, theWatch
    <2>2. /\ target' \in {"k8s", "host"} /\ stage' \in {"running", "save", "flag", "ended", "stopped"}
          /\ row' \in {"deploying", "ended"} /\ word' \in {"none", "stage", "result"}
          /\ flag' \in BOOLEAN /\ run' \in {"queued", "running", "ended"}
      BY <1>0, <1>2 DEF DeployTaskStep, DeployReports, DeployResult, DeploySave, DeployFlag, DeployStops, FlagExpires,
             RunGoesOn, theDeploy, CountsTyped, WatchTypeOK
    <2> QED BY <2>1, <2>2 DEF CountsTyped, WatchTypeOK
  <1>3. ASSUME NEW s \in Sockets, Connect(s) PROVE CountsTyped'
    <2>1. /\ socket' = [socket EXCEPT ![s] = "open"] /\ UNCHANGED <<theDeploy, run, flagged, count, last>>
          /\ watch' = IF KindOf[s] = "pods" THEN watch ELSE [watch EXCEPT ![<<s, 1>>] = "queued"]
      BY <1>3 DEF Connect
    <2>2. socket' \in [Sockets -> {"new", "open", "closed"}]
      BY <1>0, <2>1
    <2>3. watch' \in [Watchers -> {"none", "queued", "reading", "ending", "done", "revoked"}]
      BY <1>0, <2>1
    <2>4. \A v \in Watchers : watch'[v] = watch[v] \/ v = <<s, 1>>
      BY <1>0, <2>1
    <2>5. ASSUME NEW v \in Watchers, Kind(v) = "deploy" PROVE watch'[v] # "ending" => watch[v] # "ending"
      <3>1. v = <<s, 1>> => v[1] = s
        OBVIOUS
      <3>2. v[1] = s => watch[v] = "none"
        BY <1>3, <2>5 DEF Connect, WatchInv, NotYet, Deployers
      <3> QED BY <2>4, <3>1, <3>2
    <2>6. ASSUME NEW v \in Watchers, Kind(v) = "deploy", watch'[v] # "ending" PROVE count[v] < Reads
      BY <2>5, <2>6 DEF CountsTyped
    <2>7. WatchTypeOK'
      BY <2>1, <2>2, <2>3 DEF CountsTyped, WatchTypeOK, theDeploy
    <2> QED BY <2>1, <2>6, <2>7 DEF CountsTyped
  <1>4. ASSUME NEW s \in Sockets, Receive(s) PROVE CountsTyped'
    <2>1. PICK w \in Unused(s), to \in {"queued", "revoked"} :
            watch' = [watch EXCEPT ![w] = to] /\ (socket' = socket \/ socket' = [socket EXCEPT ![s] = "closed"])
      BY <1>4 DEF Receive
    <2>2. w \in Watchers /\ watch[w] = "none"
      BY DEF Unused
    <2>3. socket' \in [Sockets -> {"new", "open", "closed"}] /\ UNCHANGED <<theDeploy, run, flagged, count, last>>
      BY <1>0, <1>4, <2>1 DEF Receive
    <2> QED BY <2>1, <2>2, <2>3, WatchesTyped
  <1>5. ASSUME NEW s \in Sockets, Close(s) PROVE CountsTyped'
    <2>1. socket' \in [Sockets -> {"new", "open", "closed"}]
      BY <1>0, <1>5 DEF Close
    <2> QED BY <1>5, <2>1 DEF Close, theDeploy, theWatch, CountsTyped, WatchTypeOK
  <1>6. ASSUME NEW w \in Watchers, WatchStart(w) \/ PodsEnd(w) PROVE CountsTyped'
    <2>1. PICK to \in {"reading", "done"} : watch' = [watch EXCEPT ![w] = to]
      BY <1>6 DEF WatchStart, PodsEnd
    <2>2. watch[w] # "ending" /\ UNCHANGED <<theDeploy, run, flagged, count, last>>
      BY <1>6 DEF WatchStart, PodsEnd
    <2>3. socket' \in [Sockets -> {"new", "open", "closed"}]
      BY <1>0, <1>6, TellsTyped DEF WatchStart, PodsEnd
    <2> QED BY <2>1, <2>2, <2>3, WatchesTyped
  <1>7. ASSUME NEW w \in Watchers, ReadFlag(w) PROVE CountsTyped'
    BY <1>7 DEF ReadFlag, theDeploy, CountsTyped, WatchTypeOK
  <1>8. ASSUME NEW w \in Watchers, ReadUnflagged(w) PROVE CountsTyped'
    BY <1>8 DEF ReadUnflagged, theDeploy, CountsTyped, WatchTypeOK
  <1>9. ASSUME NEW w \in Watchers, DeployWatchEnd(w) PROVE CountsTyped'
    <2>1. /\ watch' = [watch EXCEPT ![w] = "done"] /\ count' = [count EXCEPT ![w] = 0] /\ socket' = Told(w)
          /\ word' \in {"none", word} /\ UNCHANGED <<target, stage, row, flag, run, flagged, last>>
      BY <1>9 DEF DeployWatchEnd
    <2>2. /\ count' \in [Watchers -> Nat] /\ count'[w] = 0 /\ Reads \in Nat \ {0} /\ Rounds \in Nat
          /\ \A v \in Watchers \ {w} : count'[v] = count[v] /\ watch'[v] = watch[v]
          /\ watch' \in [Watchers -> {"none", "queued", "reading", "ending", "done", "revoked"}]
      BY <1>0, <2>1, WatchAssumption DEF CountsTyped, WatchTypeOK
    <2>3. WatchTypeOK'
      BY <2>1, <2>2, TellsTyped DEF CountsTyped, WatchTypeOK
    <2> QED BY <2>1, <2>2, <2>3 DEF CountsTyped
  <1> QED BY <1>1, <1>2, <1>3, <1>4, <1>5, <1>6, <1>7, <1>8, <1>9, AnswersTyped, FlaggedTyped
          DEF WatchNext, WatcherStep

(* Those of the notices.                                                    *)
FlushCall == [at : {"idle", "get", "delete", "send"}, key : NotifyKeys \cup {0},
              listed : SUBSET Notices, got : SUBSET Notices]

LEMMA NoticesStart == NotifyInit => NotifyTypeOK
  <1> SUFFICES ASSUME NotifyInit PROVE NotifyTypeOK
    OBVIOUS
  <1>1. NoFlush \in FlushCall
    BY DEF NoFlush, FlushCall
  <1>2. flush \in [Flushers -> FlushCall]
    BY <1>1 DEF NotifyInit
  <1> QED BY <1>2 DEF NotifyInit, NotifyTypeOK, FlushCall

LEMMA FlushesTyped ==
    ASSUME NotifyTypeOK, NEW f \in Flushers, NEW r \in FlushCall, flush' = [flush EXCEPT ![f] = r],
           sender' = sender, mailbox' \subseteq Notices, planned' \in [NotifyKeys -> Nat],
           handed' \in [Notices -> Nat], lost' \subseteq Notices
    PROVE  NotifyTypeOK'
  BY DEF NotifyTypeOK, FlushCall

LEMMA NoticesTyped == NotifyTypeOK /\ [NotifyNext]_notifyVars => NotifyTypeOK'
  <1> SUFFICES ASSUME NotifyTypeOK, [NotifyNext]_notifyVars PROVE NotifyTypeOK'
    OBVIOUS
  <1>0. /\ NoFlush \in FlushCall /\ flush \in [Flushers -> FlushCall] /\ mailbox \subseteq Notices
        /\ planned \in [NotifyKeys -> Nat] /\ handed \in [Notices -> Nat] /\ lost \subseteq Notices
        /\ \A f \in Flushers : flush[f] \in FlushCall
    BY DEF NoFlush, FlushCall, NotifyTypeOK
  <1>1. CASE UNCHANGED notifyVars
    BY <1>1 DEF notifyVars, NotifyTypeOK
  <1>2. ASSUME NEW n \in Notices, SenderStep(n) \/ SenderDies(n) PROVE NotifyTypeOK'
    <2>1. flush' = flush /\ lost' = lost /\ handed' = handed
      BY <1>2 DEF SenderStep, SenderDies, NoRobot, NoticeStore, NoticeSchedule
    <2>2. mailbox' \subseteq Notices /\ sender' \in [Notices -> {"running", "stored", "ended", "dead"}]
      BY <1>2 DEF SenderStep, SenderDies, NoRobot, NoticeStore, NoticeSchedule, NotifyTypeOK
    <2>3. planned' \in [NotifyKeys -> Nat]
      BY <1>2 DEF SenderStep, SenderDies, NoRobot, NoticeStore, NoticeSchedule, NotifyTypeOK, NotifyKeys
    <2> QED BY <2>1, <2>2, <2>3 DEF NotifyTypeOK
  <1>3. ASSUME NEW f \in Flushers, NEW k \in NotifyKeys, FlushList(f, k) PROVE NotifyTypeOK'
    <2> DEFINE r == [NoFlush EXCEPT !.at = "get", !.key = k, !.listed = {n \in mailbox : KeyOf[n] = k}]
    <2>1. flush' = [flush EXCEPT ![f] = r]
      BY <1>3, Zenon DEF FlushList, Listed
    <2>2. r \in FlushCall
      BY <1>0 DEF NoFlush, FlushCall
    <2> HIDE DEF r
    <2>3. planned' \in [NotifyKeys -> Nat] /\ UNCHANGED <<sender, mailbox, handed, lost>>
      BY <1>0, <1>3 DEF FlushList
    <2> QED BY <1>0, <2>1, <2>2, <2>3, FlushesTyped
  <1>4. ASSUME NEW f \in Flushers, FlushGet(f) PROVE NotifyTypeOK'
    <2> DEFINE r == [flush[f] EXCEPT !.at = "delete", !.got = flush[f].listed \cap mailbox]
    <2>1. UNCHANGED <<sender, mailbox, planned, handed, lost>>
      BY <1>4 DEF FlushGet
    <2>2. r \in FlushCall
      BY <1>0 DEF FlushCall
    <2>3. flush' = [flush EXCEPT ![f] = r]
      BY <1>0, <1>4 DEF FlushGet
    <2> HIDE DEF r
    <2> QED BY <1>0, <2>1, <2>2, <2>3, FlushesTyped
  <1>5. ASSUME NEW f \in Flushers, FlushDelete(f) PROVE NotifyTypeOK'
    <2> DEFINE r == [flush[f] EXCEPT !.at = "send"]
    <2>1. flush' = [flush EXCEPT ![f] = r] /\ mailbox' \subseteq Notices /\ UNCHANGED <<sender, planned, handed, lost>>
      BY <1>0, <1>5 DEF FlushDelete
    <2>2. r \in FlushCall
      BY <1>0 DEF FlushCall
    <2> HIDE DEF r
    <2> QED BY <1>0, <2>1, <2>2, FlushesTyped
  <1>6. ASSUME NEW f \in Flushers, FlushSend(f) \/ FlushDies(f) PROVE NotifyTypeOK'
    <2>1. /\ flush' = [flush EXCEPT ![f] = NoFlush] /\ UNCHANGED <<sender, mailbox, planned>>
          /\ handed' = handed \/ handed' = [n \in Notices |-> handed[n] + (IF n \in flush[f].got THEN 1 ELSE 0)]
          /\ lost' \in {lost, lost \cup flush[f].listed}
      BY <1>6 DEF FlushSend, FlushDies
    <2>2. handed' \in [Notices -> Nat] /\ lost' \subseteq Notices
      BY <1>0, <2>1 DEF FlushCall
    <2> QED BY <1>0, <2>1, <2>2, FlushesTyped
  <1> QED BY <1>1, <1>2, <1>3, <1>4, <1>5, <1>6 DEF NotifyNext, Flush, FlushStep, CronRaises, notifyVars

(* Those of the cluster: a live worker has tasks left until it is replaced. *)
PoolTyped ==
    /\ ClusterTypeOK
    /\ \A p \in Pool : alive[p] => served[p] < Recycle

LEMMA PoolStart == ClusterInit => PoolTyped
  BY ClusterAssumption DEF ClusterInit, PoolTyped, ClusterTypeOK, Idle, Worn

LEMMA PoolTypes == PoolTyped /\ [ClusterNext]_clusterVars => PoolTyped'
  <1> SUFFICES ASSUME PoolTyped, [ClusterNext]_clusterVars PROVE PoolTyped'
    OBVIOUS
  <1>1. CASE UNCHANGED clusterVars
    BY <1>1 DEF clusterVars, PoolTyped, ClusterTypeOK
  <1>2. ASSUME NEW t \in Tasks, AsyncTask(t) \/ ScheduleTask(t) \/ Push(t) PROVE PoolTyped'
    BY <1>2 DEF AsyncTask, ScheduleTask, Push, Moves, poolVars, PoolTyped, ClusterTypeOK
  <1>3. ASSUME NEW p \in Pool, NEW t \in Tasks, Take(p, t) PROVE PoolTyped'
    BY <1>3, ClusterAssumption DEF Take, Moves, PoolTyped, ClusterTypeOK
  <1>4. ASSUME NEW p \in Pool, Finish(p) PROVE PoolTyped'
    <2>1. /\ alive[p] /\ served[p] \in 0..Recycle /\ served[p] < Recycle /\ Recycle \in Nat
          /\ served' = [served EXCEPT ![p] = served[p] + 1]
          /\ alive' = [alive EXCEPT ![p] = served[p] + 1 # Recycle]
          /\ timer' = [timer EXCEPT ![p] = IF served[p] + 1 = Recycle THEN Worn ELSE Idle]
          /\ UNCHANGED <<runs, counter, faults>>
      BY <1>4, ClusterAssumption DEF Finish, PoolTyped, ClusterTypeOK
    <2>2. served' \in [Pool -> 0..Recycle] /\ timer' \in [Pool -> {Idle, Worn} \cup 0..Timeout]
      BY <2>1 DEF PoolTyped, ClusterTypeOK
    <2>3. place' \in [Tasks -> {"caller", "schedule", "broker", "memory", "worker", "done", "lost"}]
          /\ doing' \in [Pool -> Tasks \cup {NoTask}]
      BY <1>4 DEF Finish, Moves, PoolTyped, ClusterTypeOK
    <2>4. alive' \in [Pool -> BOOLEAN] /\ \A q \in Pool : alive'[q] => served'[q] < Recycle
      <3> DEFINE b == served[p] + 1 # Recycle
      <3>1. b \in BOOLEAN /\ (b => served[p] + 1 < Recycle) /\ alive' = [alive EXCEPT ![p] = b]
        BY <2>1
      <3> HIDE DEF b
      <3> QED BY <2>1, <3>1 DEF PoolTyped, ClusterTypeOK
    <2> QED BY <2>1, <2>2, <2>3, <2>4 DEF PoolTyped, ClusterTypeOK
  <1>5. ASSUME NEW p \in Pool, WorkerDies(p) PROVE PoolTyped'
    BY <1>5, ClusterAssumption DEF WorkerDies, PoolTyped, ClusterTypeOK
  <1>6. CASE Guard
    <2>0. \A p \in Pool : p \notin Replaced => alive[p] /\ served[p] < Recycle
      BY DEF Replaced, PoolTyped
    <2>1. /\ doing' \in [Pool -> Tasks \cup {NoTask}] /\ alive' \in [Pool -> BOOLEAN]
          /\ served' \in [Pool -> 0..Recycle] /\ \A p \in Pool : alive'[p] => served'[p] < Recycle
      <3>1. doing' \in [Pool -> Tasks \cup {NoTask}] /\ alive' \in [Pool -> BOOLEAN]
        BY <1>6 DEF Guard, Reborn, PoolTyped, ClusterTypeOK
      <3>2. served' = [p \in Pool |-> IF p \in Replaced THEN 0 ELSE served[p]] /\ Recycle \in Nat \ {0}
            /\ served \in [Pool -> 0..Recycle]
        BY <1>6, ClusterAssumption DEF Guard, Reborn, PoolTyped, ClusterTypeOK
      <3> QED BY <2>0, <3>1, <3>2
    <2>2. timer' \in [Pool -> {Idle, Worn} \cup 0..Timeout]
      BY <1>6, ClusterAssumption DEF Guard, Ticked, PoolTyped, ClusterTypeOK, Idle, Worn
    <2>3. counter' \in 0..(Cycles - 1)
      BY <1>6, ClusterAssumption DEF Guard, SchedulerDue, PoolTyped, ClusterTypeOK
    <2>4. place' \in [Tasks -> {"caller", "schedule", "broker", "memory", "worker", "done", "lost"}]
      BY <1>6 DEF Guard, PoolTyped, ClusterTypeOK
    <2> QED BY <1>6, <2>1, <2>2, <2>3, <2>4 DEF Guard, PoolTyped, ClusterTypeOK
  <1>7. CASE ClusterRestart
    <2>1. place' \in [Tasks -> {"caller", "schedule", "broker", "memory", "worker", "done", "lost"}]
      BY <1>7 DEF ClusterRestart, PoolTyped, ClusterTypeOK
    <2> QED BY <1>7, <2>1, ClusterAssumption DEF ClusterRestart, PoolTyped, ClusterTypeOK
  <1> QED BY <1>1, <1>2, <1>3, <1>4, <1>5, <1>6, <1>7 DEF ClusterNext

(* Every variable of the services keeps its type, whichever of them runs:   *)
(* the counters that end a watcher, a worker and a cycle of the scheduler   *)
(* never pass their bounds.                                                 *)
THEOREM ServicesTyped == Spec => []ServicesTypeOK
  <1> DEFINE AllTyped == WatchInv /\ CountsTyped /\ NotifyTypeOK /\ PoolTyped
  <1>1. Init => AllTyped
    BY WatchStarts, CountsStart, NoticesStart, PoolStart DEF Init
  <1>2. AllTyped /\ [Next]_servicesVars => AllTyped'
    <2>1. [Next]_servicesVars => [WatchNext]_watchVars /\ [NotifyNext]_notifyVars /\ [ClusterNext]_clusterVars
      BY DEF Next, servicesVars
    <2> QED BY <2>1, WatchSteps, WatchTypes, NoticesTyped, PoolTypes
  <1>3. AllTyped => ServicesTypeOK
    BY DEF CountsTyped, PoolTyped, ServicesTypeOK
  <1> QED BY <1>1, <1>2, <1>3, PTL DEF Spec

-----------------------------------------------------------------------------
(* Notices.  What a flush has listed had been stored; between its get and   *)
(* its delete nothing else is stored under those keys, since each task      *)
(* stores its message once; what it has deleted has not been handed over    *)
(* before.                                                                  *)
FlushFits(r, box, from) ==
    /\ r.got \subseteq r.listed /\ \A n \in r.listed : from[n] # "running"
    /\ r.at \in {"idle", "get"} => r.got = {}
    /\ r.at = "delete" => r.listed \cap box \subseteq r.got
    /\ r.at = "send" => r.got \cap box = {}

NoticeInv ==
    /\ NotifyTypeOK
    /\ \A n \in mailbox : handed[n] = 0 /\ sender[n] # "running"
    /\ \A n \in Notices : sender[n] = "running" => handed[n] = 0
    /\ \A f \in Flushers : FlushFits(flush[f], mailbox, sender)

LEMMA NoticeInvStart == NotifyInit => NoticeInv
  <1> SUFFICES ASSUME NotifyInit PROVE NoticeInv
    OBVIOUS
  <1>1. FlushFits(NoFlush, mailbox, sender)
    BY DEF FlushFits, NoFlush
  <1>2. \A f \in Flushers : flush[f] = NoFlush
    BY DEF NotifyInit
  <1> QED BY <1>1, <1>2, NoticesStart DEF NotifyInit, NoticeInv

LEMMA FlushTurns ==
    ASSUME NoticeInv, NotifyTypeOK', NEW f \in Flushers, NEW r \in FlushCall, flush' = [flush EXCEPT ![f] = r],
           sender' = sender, mailbox' \subseteq mailbox,
           \A n \in mailbox' : handed'[n] = 0, \A n \in Notices : sender[n] = "running" => handed'[n] = 0,
           FlushFits(r, mailbox', sender')
    PROVE  NoticeInv'
  <1>1. ASSUME NEW g \in Flushers, g # f PROVE FlushFits(flush'[g], mailbox', sender')
    <2>1. flush'[g] = flush[g] /\ FlushFits(flush[g], mailbox, sender)
      BY <1>1 DEF NotifyTypeOK, NoticeInv
    <2> QED BY <2>1 DEF FlushFits
  <1>2. FlushFits(flush'[f], mailbox', sender')
    <2>1. flush'[f] = r
      BY DEF NotifyTypeOK, NoticeInv
    <2> QED BY <2>1 DEF FlushFits
  <1>3. \A n \in mailbox' : handed'[n] = 0 /\ sender'[n] # "running"
    BY DEF NoticeInv
  <1> QED BY <1>1, <1>2, <1>3 DEF NoticeInv

LEMMA NoticeInvStep == NoticeInv /\ [NotifyNext]_notifyVars => NoticeInv'
  <1> SUFFICES ASSUME NoticeInv, [NotifyNext]_notifyVars PROVE NoticeInv'
    OBVIOUS
  <1>0. /\ NotifyTypeOK /\ NotifyTypeOK' /\ flush \in [Flushers -> FlushCall] /\ mailbox \subseteq Notices
        /\ \A f \in Flushers : flush[f] \in FlushCall
        /\ \A f \in Flushers : FlushFits(flush[f], mailbox, sender)
    BY NoticesTyped DEF FlushCall, NotifyTypeOK, NoticeInv
  <1>1. CASE UNCHANGED notifyVars
    BY <1>0, <1>1 DEF notifyVars, NoticeInv, FlushFits
  <1>2. ASSUME NEW n \in Notices, SenderStep(n) \/ SenderDies(n) PROVE NoticeInv'
    <2>1. /\ flush' = flush /\ handed' = handed
          /\ \A m \in Notices : sender'[m] = sender[m] \/ (m = n /\ sender'[m] # "running")
          /\ mailbox' = mailbox \/ (mailbox' = mailbox \cup {n} /\ sender[n] = "running" /\ sender'[n] # "running")
      BY <1>0, <1>2 DEF SenderStep, SenderDies, NoRobot, NoticeStore, NoticeSchedule, NotifyTypeOK
    <2>2. ASSUME NEW f \in Flushers PROVE FlushFits(flush'[f], mailbox', sender')
      <3>1. flush'[f] = flush[f] /\ FlushFits(flush[f], mailbox, sender) /\ flush[f].listed \subseteq Notices
        BY <1>0, <2>1 DEF FlushCall
      <3>2. \A m \in flush[f].listed : sender'[m] # "running"
        BY <2>1, <3>1 DEF FlushFits
      <3>3. mailbox' \cap flush[f].listed \subseteq mailbox
        BY <2>1, <3>1 DEF FlushFits
      <3>4. mailbox' \cap flush[f].got \subseteq mailbox
        BY <3>1, <3>3 DEF FlushFits
      <3> QED BY <3>1, <3>2, <3>3, <3>4 DEF FlushFits
    <2>3. \A m \in mailbox' : handed'[m] = 0 /\ sender'[m] # "running"
      BY <1>0, <2>1 DEF NoticeInv
    <2>4. \A m \in Notices : sender'[m] = "running" => handed'[m] = 0
      BY <2>1 DEF NoticeInv
    <2> QED BY <1>0, <2>2, <2>3, <2>4 DEF NoticeInv
  <1>3. ASSUME NEW f \in Flushers, NEW k \in NotifyKeys, FlushList(f, k) PROVE NoticeInv'
    <2> DEFINE r == [NoFlush EXCEPT !.at = "get", !.key = k, !.listed = {n \in mailbox : KeyOf[n] = k}]
    <2>1. flush' = [flush EXCEPT ![f] = r]
      BY <1>3, Zenon DEF FlushList, Listed
    <2>2. r \in FlushCall
      BY <1>0 DEF NoFlush, FlushCall
    <2>3. r.at = "get" /\ r.got = {} /\ r.listed \subseteq mailbox
      BY DEF NoFlush
    <2> HIDE DEF r
    <2>4. UNCHANGED <<sender, mailbox, handed>>
      BY <1>3 DEF FlushList
    <2>5. FlushFits(r, mailbox', sender')
      BY <2>3, <2>4 DEF FlushFits, NoticeInv
    <2> QED BY <1>0, <2>1, <2>2, <2>4, <2>5, FlushTurns DEF NoticeInv
  <1>4. ASSUME NEW f \in Flushers, FlushGet(f) PROVE NoticeInv'
    <2> DEFINE r == [flush[f] EXCEPT !.at = "delete", !.got = flush[f].listed \cap mailbox]
    <2>1. UNCHANGED <<sender, mailbox, handed>>
      BY <1>4 DEF FlushGet
    <2>2. r \in FlushCall
      BY <1>0 DEF FlushCall
    <2>3. flush' = [flush EXCEPT ![f] = r]
      BY <1>0, <1>4 DEF FlushGet
    <2>4. r.at = "delete" /\ r.listed = flush[f].listed /\ r.got = flush[f].listed \cap mailbox
      BY <1>0 DEF FlushCall
    <2> HIDE DEF r
    <2>5. FlushFits(r, mailbox', sender')
      BY <1>0, <2>1, <2>4 DEF FlushFits
    <2> QED BY <1>0, <2>1, <2>2, <2>3, <2>5, FlushTurns DEF NoticeInv
  <1>5. ASSUME NEW f \in Flushers, FlushDelete(f) PROVE NoticeInv'
    <2> DEFINE r == [flush[f] EXCEPT !.at = "send"]
    <2>1. flush' = [flush EXCEPT ![f] = r] /\ mailbox' = mailbox \ flush[f].listed /\ UNCHANGED <<sender, handed>>
      BY <1>0, <1>5 DEF FlushDelete
    <2>2. r \in FlushCall
      BY <1>0 DEF FlushCall
    <2>3. r.at = "send" /\ r.listed = flush[f].listed /\ r.got = flush[f].got
      BY <1>0 DEF FlushCall
    <2> HIDE DEF r
    <2>4. FlushFits(r, mailbox', sender')
      BY <1>0, <2>1, <2>3 DEF FlushFits
    <2>5. mailbox' \subseteq mailbox
      BY <2>1
    <2> QED BY <1>0, <2>1, <2>2, <2>4, <2>5, FlushTurns DEF NoticeInv
  <1>6. ASSUME NEW f \in Flushers, FlushSend(f) \/ FlushDies(f) PROVE NoticeInv'
    <2>1. flush' = [flush EXCEPT ![f] = NoFlush] /\ UNCHANGED <<sender, mailbox>>
      BY <1>6 DEF FlushSend, FlushDies
    <2>2. FlushFits(NoFlush, mailbox', sender') /\ NoFlush \in FlushCall
      BY DEF FlushFits, NoFlush, FlushCall
    <2>3. ASSUME NEW n \in Notices, n \in mailbox \/ sender[n] = "running" PROVE handed'[n] = 0
      <3>1. handed[n] = 0
        BY <2>3 DEF NoticeInv
      <3>2. CASE FlushDies(f)
        BY <3>1, <3>2 DEF FlushDies
      <3>3. CASE FlushSend(f)
        <4>1. n \notin flush[f].got
          BY <1>0, <2>3, <3>3 DEF FlushSend, FlushFits
        <4> QED BY <3>1, <3>3, <4>1 DEF FlushSend
      <3> QED BY <1>6, <3>2, <3>3
    <2>4. \A n \in mailbox' : handed'[n] = 0
      BY <1>0, <2>1, <2>3
    <2>5. mailbox' \subseteq mailbox
      BY <2>1
    <2> QED BY <1>0, <2>1, <2>2, <2>3, <2>4, <2>5, FlushTurns
  <1> QED BY <1>1, <1>2, <1>3, <1>4, <1>5, <1>6 DEF NotifyNext, Flush, FlushStep, CronRaises, notifyVars

LEMMA NoticesAlways == Spec => []NoticeInv /\ [][NotifyNext]_notifyVars
  <1>1. Init => NoticeInv
    BY NoticeInvStart DEF Init
  <1>2. [Next]_servicesVars => [NotifyNext]_notifyVars
    BY DEF Next, servicesVars
  <1> QED BY <1>1, <1>2, NoticeInvStep, PTL DEF Spec

(* However flushes overlap, a message that was handed over is not read      *)
(* again by a flush that starts later.                                      *)
THEOREM HandedOnce == Spec => ReadOnce
  <1>1. NoticeInv /\ [NotifyNext]_notifyVars
        => [\A f \in Flushers, n \in Notices :
               n \in flush'[f].listed \ flush[f].listed => handed[n] = 0]_notifyVars
    <2> SUFFICES ASSUME NoticeInv, NotifyNext, NEW f \in Flushers, NEW n \in Notices,
                        n \in flush'[f].listed, n \notin flush[f].listed
                 PROVE  n \in mailbox
      BY DEF NoticeInv
    <2>0. flush \in [Flushers -> FlushCall] /\ \A g \in Flushers : flush[g] \in FlushCall
      BY DEF NoticeInv, NotifyTypeOK, FlushCall
    <2>1. NoFlush.listed = {}
      BY DEF NoFlush
    <2>2. ASSUME NEW g \in Flushers, FlushStep(g) \/ FlushDies(g) PROVE FALSE
      <3>1. \A r \in FlushCall : [r EXCEPT !.at = "send"].listed = r.listed
        BY DEF FlushCall
      <3>2. flush'[g].listed \subseteq flush[g].listed /\ \A h \in Flushers \ {g} : flush'[h] = flush[h]
        BY <2>0, <2>1, <2>2 DEF FlushStep, FlushGet, FlushDelete, FlushSend, FlushDies, FlushCall
      <3> QED BY <3>2
    <2>3. ASSUME NEW m \in Notices, SenderStep(m) \/ SenderDies(m) PROVE FALSE
      BY <2>3 DEF SenderStep, SenderDies, NoRobot, NoticeStore, NoticeSchedule
    <2>4. ~CronRaises
      BY DEF CronRaises, notifyVars
    <2>5. PICK g \in Flushers, k \in NotifyKeys : FlushList(g, k)
      BY <2>2, <2>3, <2>4 DEF NotifyNext, Flush
    <2> DEFINE r == [NoFlush EXCEPT !.at = "get", !.key = k, !.listed = {x \in mailbox : KeyOf[x] = k}]
    <2>6. flush' = [flush EXCEPT ![g] = r]
      BY <2>5, Zenon DEF FlushList, Listed
    <2>7. r.listed \subseteq mailbox
      BY DEF NoFlush
    <2> HIDE DEF r
    <2>8. g = f /\ flush'[f] = r
      BY <2>0, <2>6
    <2> QED BY <2>7, <2>8
  <1> QED BY <1>1, NoticesAlways, PTL DEF ReadOnce

(* However tasks store and flushes delete, a message leaves the cache only  *)
(* with a flush that has got it, and that flush hands it over or dies.      *)
THEOREM NoticesKept == Spec => NoneDropped
  <1> DEFINE Kept == /\ \A n \in mailbox \ mailbox' : \E f \in Flushers : n \in flush[f].got
                     /\ \A f \in Flushers : \A n \in flush[f].got \ flush'[f].got :
                           handed'[n] = handed[n] + 1 \/ n \in lost'
  <1>1. NoticeInv /\ [NotifyNext]_notifyVars => [Kept]_notifyVars
    <2> SUFFICES ASSUME NoticeInv, NotifyNext PROVE Kept
      OBVIOUS
    <2>0. /\ flush \in [Flushers -> FlushCall]
          /\ \A g \in Flushers : flush[g] \in FlushCall /\ FlushFits(flush[g], mailbox, sender)
      BY DEF NoticeInv, NotifyTypeOK, FlushCall
    <2>1. ASSUME NEW m \in Notices, SenderStep(m) \/ SenderDies(m) PROVE Kept
      BY <2>1 DEF SenderStep, SenderDies, NoRobot, NoticeStore, NoticeSchedule
    <2>2. CASE CronRaises
      BY <2>2 DEF CronRaises, notifyVars
    <2>3. ASSUME NEW g \in Flushers, NEW k \in NotifyKeys, FlushList(g, k) PROVE Kept
      <3>1. mailbox' = mailbox /\ flush[g].got = {} /\ \A h \in Flushers \ {g} : flush'[h] = flush[h]
        BY <2>0, <2>3 DEF FlushList, Listed, FlushFits
      <3> QED BY <3>1
    <2>4. ASSUME NEW g \in Flushers, FlushGet(g) PROVE Kept
      <3>1. mailbox' = mailbox /\ flush[g].got = {} /\ \A h \in Flushers \ {g} : flush'[h] = flush[h]
        BY <2>0, <2>4 DEF FlushGet, FlushFits
      <3> QED BY <3>1
    <2>5. ASSUME NEW g \in Flushers, FlushDelete(g) PROVE Kept
      <3>1. mailbox \ mailbox' \subseteq flush[g].got
        BY <2>0, <2>5 DEF FlushDelete, FlushFits
      <3>2. \A h \in Flushers : flush'[h].got = flush[h].got
        BY <2>0, <2>5 DEF FlushDelete, FlushCall
      <3> QED BY <3>1, <3>2
    <2>6. ASSUME NEW g \in Flushers, FlushSend(g) \/ FlushDies(g) PROVE Kept
      <3>1. mailbox' = mailbox /\ flush[g].got \subseteq Notices
            /\ flush[g].got \subseteq flush[g].listed
            /\ \A h \in Flushers \ {g} : flush'[h] = flush[h]
        BY <2>0, <2>6 DEF FlushSend, FlushDies, FlushFits, FlushCall
      <3>2. \A n \in flush[g].got : handed'[n] = handed[n] + 1 \/ n \in lost'
        BY <2>6, <3>1 DEF FlushSend, FlushDies
      <3> QED BY <3>1, <3>2
    <2> QED BY <2>1, <2>2, <2>3, <2>4, <2>5, <2>6 DEF NotifyNext, Flush, FlushStep
  <1> HIDE DEF Kept
  <1>2. Spec => [][Kept]_notifyVars
    BY <1>1, NoticesAlways, PTL
  <1> QED BY <1>2 DEF Kept, NoneDropped
=============================================================================
