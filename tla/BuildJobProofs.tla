--------------------------- MODULE BuildJobProofs ---------------------------
(* Theorems about BuildJob: with one build request in flight at a time the  *)
(* predicted number is the run's, and rows tell of their own runs.          *)
EXTENDS BuildJob, FiniteSetTheorems, TLAPS

-----------------------------------------------------------------------------
(* Types.                                                                   *)

LEMMA TaskType ==
    \A at \in {"idle", "fetch", "save", "store"}, b \in Builds, f \in Answers :
       Task(at, b, f) \in Callback
BY DEF Task, Callback

LEMMA TaskFields ==
    /\ \A at, b, f : /\ Task(at, b, f).at = at
                     /\ Task(at, b, f).build = b
                     /\ Task(at, b, f).flow = f
    /\ \A t \in Callback : t.build \in Builds /\ t.flow \in Answers
BY DEF Task, Callback

LEMMA StopType ==
    \A at \in {"idle", "abort", "save", "check"}, b \in Builds : StopOf(at, b) \in Stop
BY DEF StopOf, Stop

LEMMA StopFields ==
    /\ \A at, b : StopOf(at, b).at = at /\ StopOf(at, b).build = b
    /\ \A s \in Stop : s.build \in Builds
BY DEF StopOf, Stop

LEMMA IdleTypes == Idle \in Callback /\ NoStop \in Stop
<1>1. AnyBuild \in Builds
  BY BuildAssumption DEF AnyBuild
<1>2. "SUCCESS" \in Answers
  BY DEF Answers, Ended
<1> QED BY <1>1, <1>2, TaskType, StopType DEF Idle, NoStop

LEMMA IdleFields == Idle.at = "idle" /\ NoStop.at = "idle"
BY TaskFields, StopFields DEF Idle, NoStop

LEMMA TypeInductive ==
    ASSUME TypeOK, [Next]_vars
    PROVE  TypeOK'
<1> USE DEF TypeOK, jenkins, tasks
<1>1. ASSUME NEW b \in Builds, BuildStep(b)
      PROVE  TypeOK'
  <2> USE DEF Web, WebSteps
  <2>1. CASE BuildCheck(b)
    BY <2>1 DEF BuildCheck
  <2>2. CASE BuildNumber(b)
    BY <2>2 DEF BuildNumber
  <2>3. CASE BuildPost(b)
    BY <2>3 DEF BuildPost, RunStates
  <2>4. CASE BuildCommit(b)
    BY <2>4 DEF BuildCommit, RowStatus
  <2>5. CASE BuildRollback(b)
    BY <2>5 DEF BuildRollback
  <2> QED BY <1>1, <2>1, <2>2, <2>3, <2>4, <2>5 DEF BuildStep
<1>2. ASSUME NEW b \in Builds, JenkinsStep(b)
      PROVE  TypeOK'
  <2>1. CASE RunStart(b)
    BY <2>1 DEF RunStart, RunStates, Going
  <2>2. CASE RunExecute(b)
    BY <2>2 DEF RunExecute, RunStates, Going
  <2>3. CASE PipelineCallback(b)
    BY <2>3 DEF PipelineCallback
  <2>4. CASE RunEnd(b)
    BY <2>4 DEF RunEnd, RunStates, Ended
  <2> QED BY <1>2, <2>1, <2>2, <2>3, <2>4 DEF JenkinsStep
<1>3. ASSUME NEW b \in Builds, FlagExpires(b) \/ BuildResult(b)
      PROVE  TypeOK'
  <2>1. CASE FlagExpires(b)
    BY <2>1 DEF FlagExpires
  <2>2. CASE BuildResult(b)
    BY <2>2 DEF BuildResult
  <2> QED BY <1>3, <2>1, <2>2
<1>4. ASSUME NEW w \in Workers, CallbackStep(w) \/ CallbackDies(w)
      PROVE  TypeOK'
  <2> USE DEF Run
  <2>0. cb[w] \in Callback /\ cb[w].build \in Builds /\ cb[w].flow \in Answers
    BY TaskFields
  <2>1. ASSUME NEW b \in Builds, CallbackStart(w, b)
        PROVE  TypeOK'
    <3>1. Task("fetch", b, "SUCCESS") \in Callback
      BY TaskType DEF Answers, Ended
    <3>2. pending' \in [Builds -> Nat]
      BY <2>1 DEF CallbackStart
    <3>3. CASE row[b] = NoRow
      BY <2>1, <3>2, <3>3 DEF CallbackStart
    <3>4. CASE row[b] # NoRow
      BY <2>1, <3>1, <3>2, <3>4 DEF CallbackStart
    <3> QED BY <3>3, <3>4
  <2>2. CASE CallbackFetch(w)
    <3>1. CASE \E r \in RunsOf(cb[w].build) :
                  run[r] \in Answers /\ Run(w, Task("save", cb[w].build, run[r]))
               /\ UNCHANGED <<pending, lost>>
      BY <2>0, <2>2, <3>1, TaskType DEF CallbackFetch
    <3>2. CASE pending' = [pending EXCEPT ![cb[w].build] = @ + 1] /\ Run(w, Idle)
               /\ UNCHANGED lost
      BY <2>0, <2>2, <3>2, IdleTypes DEF CallbackFetch
    <3>3. CASE lost' = TRUE /\ Run(w, Idle) /\ UNCHANGED pending
      BY <2>0, <2>2, <3>3, IdleTypes DEF CallbackFetch
    <3> QED BY <2>2, <3>1, <3>2, <3>3 DEF CallbackFetch
  <2>3. CASE CallbackSave(w)
    <3>1. StatusOf[cb[w].flow] \in RowStatus
      BY <2>0 DEF StatusOf, Answers, Ended, RowStatus
    <3>2. Task("store", cb[w].build, cb[w].flow) \in Callback
      BY <2>0, TaskType
    <3> QED BY <2>0, <2>3, <3>1, <3>2 DEF CallbackSave
  <2>4. CASE CallbackStore(w) \/ CallbackDies(w)
    BY <2>0, <2>4, IdleTypes DEF CallbackStore, CallbackDies
  <2> QED BY <1>4, <2>1, <2>2, <2>3, <2>4 DEF CallbackStep
<1>5. ASSUME NEW c \in Clients, StopEnds(c) \/ \E b \in Builds : StopRead(c, b)
      PROVE  TypeOK'
  <2> USE DEF Stopping
  <2>0. req[c] \in Stop /\ req[c].build \in Builds
    BY StopFields
  <2>1. CASE \E b \in Builds : StopRead(c, b)
    BY <2>1, StopType DEF StopRead
  <2>2. CASE StopAbort(c)
    BY <2>0, <2>2, StopType DEF StopAbort, RunStates, Ended
  <2>3. CASE StopSave(c)
    BY <2>0, <2>3, StopType DEF StopSave, RowStatus
  <2>4. CASE StopCheck(c)
    BY <2>0, <2>4, IdleTypes DEF StopCheck
  <2> QED BY <1>5, <2>1, <2>2, <2>3, <2>4 DEF StopEnds
<1>6. CASE UNCHANGED vars
  BY <1>6 DEF vars
<1> QED
  BY <1>1, <1>2, <1>3, <1>4, <1>5, <1>6 DEF Next, Finished

LEMMA BuildTypeInit == Init => TypeOK
<1> SUFFICES ASSUME Init PROVE TypeOK
  OBVIOUS
<1>1. cb \in [Workers -> Callback] /\ req \in [Clients -> Stop]
  BY IdleTypes DEF Init
<1>2. web \in [Builds -> WebSteps] /\ run \in [Builds -> RunStates]
  BY DEF Init, WebSteps, RunStates
<1>3. /\ number \in [Builds -> Nat] /\ runNo \in [Builds -> Nat]
      /\ pending \in [Builds -> Nat] /\ next \in Nat \ {0}
      /\ row \in [Builds -> RowStatus]
  BY DEF Init, RowStatus
<1>4. /\ called \in [Builds -> BOOLEAN] /\ flag \in [Builds -> BOOLEAN]
      /\ stored \in [Builds -> BOOLEAN] /\ lost \in BOOLEAN
  BY DEF Init
<1> QED BY <1>1, <1>2, <1>3, <1>4 DEF TypeOK

(* Type correctness of every reachable state.                               *)
THEOREM BuildTypeCorrect == Spec => []TypeOK
BY BuildTypeInit, TypeInductive, PTL DEF Spec

-----------------------------------------------------------------------------
(* The inductive invariant behind RowTellsRun.                              *)

(* How far a build's request, its run and its row have come.                *)
Stages ==
    \A b \in Builds :
       /\ run[b] \in {"none", "queued"} <=> runNo[b] = 0
       /\ web[b] \in {"none", "checked", "numbered"} => run[b] = "none"
       /\ web[b] \in {"posted", "done"} => run[b] # "none"
       /\ row[b] # NoRow => web[b] = "done"

(* A number predicted is the number given.                                  *)
Numbers ==
    /\ \A b \in Builds : /\ runNo[b] < next
                         /\ runNo[b] # 0 => number[b] = runNo[b]
                         /\ run[b] = "queued" => number[b] = next
                         /\ web[b] = "numbered" => number[b] = next
    /\ \A a, b \in Builds : runNo[a] = runNo[b] /\ runNo[a] # 0 => a = b

(* One request at a time leaves at most one build in the queue.             *)
Alone ==
    /\ \A a, b \in InFlight : a = b
    /\ \A a, b \in Builds : run[a] = "queued" /\ run[b] = "queued" => a = b
    /\ \A a, b \in Builds : web[a] \in {"checked", "numbered"} => run[b] # "queued"

(* Callbacks and stops are for builds with a row; the end of a run waiting   *)
(* to be saved is that of the build's run.                                  *)
Handled ==
    /\ \A w \in Workers :
          /\ cb[w].at # "idle" => row[cb[w].build] # NoRow
          /\ cb[w].at = "save" /\ cb[w].flow # "NOT_EXECUTED"
                => cb[w].flow = run[cb[w].build]
    /\ \A c \in Clients : req[c].at # "idle" => row[req[c].build] # NoRow

BuildInv == TypeOK /\ Stages /\ Numbers /\ Alone /\ Handled /\ RowTellsRun

LEMMA BuildInvInit == Init => BuildInv
<1> SUFFICES ASSUME Init PROVE BuildInv
  OBVIOUS
<1>1. TypeOK
  BY BuildTypeInit
<1>2. Stages /\ Numbers /\ RowTellsRun
  BY DEF Init, Stages, Numbers, RowTellsRun, NoRow, Success, Failed
<1>3. Alone
  BY DEF Init, Alone, InFlight
<1>4. Handled
  BY IdleFields DEF Init, Handled
<1> QED BY <1>1, <1>2, <1>3, <1>4 DEF BuildInv

(* With one request at a time, a request begins when none is in flight.     *)
LEMMA NoneInFlight ==
    ASSUME Requests = 1, Cardinality(InFlight) < Requests
    PROVE  InFlight = {}
<1>1. InFlight \subseteq Builds
  BY DEF InFlight
<1>2. IsFiniteSet(InFlight)
  BY <1>1, BuildAssumption, FS_Subset
<1>3. Cardinality(InFlight) \in Nat
  BY <1>2, FS_CardinalityType
<1> QED BY <1>2, <1>3, FS_EmptySet

(* A build with a row has no run but its own.                               *)
LEMMA OwnRun ==
    ASSUME BuildInv, NEW b \in Builds, row[b] # NoRow, NEW r \in RunsOf(b)
    PROVE  r = b
<1>1. /\ r \in Builds /\ runNo[r] # 0 /\ runNo[r] = number[b] /\ runNo[r] < next
      /\ run[b] # "none"
  BY DEF BuildInv, Stages, Numbers, RunsOf
<1>2. runNo[b] # 0
  BY <1>1 DEF BuildInv, Stages, Numbers, TypeOK
<1> QED BY <1>1, <1>2 DEF BuildInv, Numbers

(* The steps of requests that start a build.                                *)
LEMMA BuildStepInv ==
    ASSUME Requests = 1, BuildInv, NEW b \in Builds, BuildStep(b)
    PROVE  Stages' /\ Numbers' /\ Alone' /\ Handled' /\ RowTellsRun'
<1> USE DEF BuildInv, jenkins, tasks, Web
<1>1. CASE BuildCheck(b)
  <2>0. InFlight = {} /\ web[b] = "none"
    BY <1>1, NoneInFlight DEF BuildCheck
  <2>1. web' = [web EXCEPT ![b] = "refused"]
        \/ (web' = [web EXCEPT ![b] = "checked"] /\ ~InQueue)
    BY <1>1 DEF BuildCheck
  <2>2. Stages' /\ Numbers'
    BY <1>1, <2>0, <2>1 DEF BuildCheck, Stages, Numbers, TypeOK
  <2>3. Alone'
    BY <1>1, <2>0, <2>1 DEF BuildCheck, Alone, InFlight, InQueue, TypeOK
  <2>4. Handled' /\ RowTellsRun'
    BY <1>1 DEF BuildCheck, Handled, RowTellsRun
  <2> QED BY <2>2, <2>3, <2>4
<1>2. CASE BuildNumber(b)
  <2>1. Stages'
    BY <1>2 DEF BuildNumber, Stages, TypeOK
  <2>2. Numbers'
    BY <1>2 DEF BuildNumber, Numbers, Stages, TypeOK
  <2>3. Alone'
    BY <1>2 DEF BuildNumber, Alone, InFlight, TypeOK
  <2>4. Handled' /\ RowTellsRun'
    BY <1>2 DEF BuildNumber, Handled, RowTellsRun
  <2> QED BY <2>1, <2>2, <2>3, <2>4
<1>3. CASE BuildPost(b)
  <2>1. CASE InQueue
    <3>1. Stages' /\ Numbers'
      BY <1>3, <2>1 DEF BuildPost, Stages, Numbers, TypeOK
    <3>2. Alone'
      BY <1>3, <2>1 DEF BuildPost, Alone, InFlight, TypeOK
    <3>3. Handled' /\ RowTellsRun'
      BY <1>3, <2>1 DEF BuildPost, Handled, RowTellsRun
    <3> QED BY <3>1, <3>2, <3>3
  <2>2. CASE ~InQueue
    <3>0. /\ web' = [web EXCEPT ![b] = "posted"]
          /\ run' = [run EXCEPT ![b] = "queued"]
          /\ run[b] = "none" /\ row[b] = NoRow
      BY <1>3, <2>2 DEF BuildPost, Stages
    <3>1. Stages'
      BY <1>3, <3>0 DEF BuildPost, Stages, TypeOK
    <3>2. Numbers'
      BY <1>3, <3>0 DEF BuildPost, Numbers, TypeOK
    <3>3. Alone'
      BY <1>3, <2>2, <3>0 DEF BuildPost, Alone, InFlight, InQueue, TypeOK
    <3>4. Handled'
      BY <1>3, <3>0 DEF BuildPost, Handled, TypeOK
    <3>5. RowTellsRun'
      BY <1>3, <3>0 DEF BuildPost, RowTellsRun, TypeOK, NoRow, Success, Failed
    <3> QED BY <3>1, <3>2, <3>3, <3>4, <3>5
  <2> QED BY <2>1, <2>2
<1>4. CASE BuildCommit(b)
  <2>1. Stages' /\ Numbers'
    BY <1>4 DEF BuildCommit, Stages, Numbers, TypeOK
  <2>2. Alone'
    BY <1>4 DEF BuildCommit, Alone, InFlight, TypeOK
  <2>3. Handled'
    BY <1>4 DEF BuildCommit, Handled, TypeOK, Building, NoRow
  <2>4. RowTellsRun'
    BY <1>4 DEF BuildCommit, RowTellsRun, TypeOK, Building, Success, Failed
  <2> QED BY <2>1, <2>2, <2>3, <2>4
<1>5. CASE BuildRollback(b)
  <2>1. Stages' /\ Numbers'
    BY <1>5 DEF BuildRollback, Stages, Numbers, TypeOK
  <2>2. Alone'
    BY <1>5 DEF BuildRollback, Alone, InFlight, TypeOK
  <2>3. Handled' /\ RowTellsRun'
    BY <1>5 DEF BuildRollback, Handled, RowTellsRun
  <2> QED BY <2>1, <2>2, <2>3
<1> QED BY <1>1, <1>2, <1>3, <1>4, <1>5 DEF BuildStep

(* The steps of Jenkins.                                                    *)
LEMMA JenkinsStepInv ==
    ASSUME BuildInv, NEW b \in Builds, JenkinsStep(b)
    PROVE  Stages' /\ Numbers' /\ Alone' /\ Handled' /\ RowTellsRun'
<1> USE DEF BuildInv, jenkins, tasks
<1>1. CASE RunStart(b)
  <2>1. Stages'
    BY <1>1 DEF RunStart, Stages, TypeOK
  <2>2. Numbers'
    BY <1>1 DEF RunStart, Numbers, Stages, Alone, TypeOK
  <2>3. Alone'
    BY <1>1 DEF RunStart, Alone, InFlight, TypeOK
  <2>4. Handled'
    BY <1>1, TaskFields DEF RunStart, Handled, TypeOK, Answers, Ended
  <2>5. RowTellsRun'
    BY <1>1 DEF RunStart, RowTellsRun, TypeOK
  <2> QED BY <2>1, <2>2, <2>3, <2>4, <2>5
<1>2. CASE RunExecute(b)
  <2>1. Stages' /\ Numbers'
    BY <1>2 DEF RunExecute, Stages, Numbers, TypeOK
  <2>2. Alone'
    BY <1>2 DEF RunExecute, Alone, InFlight, TypeOK
  <2>3. Handled'
    BY <1>2, TaskFields DEF RunExecute, Handled, TypeOK, Answers, Ended
  <2>4. RowTellsRun'
    BY <1>2 DEF RunExecute, RowTellsRun, TypeOK
  <2> QED BY <2>1, <2>2, <2>3, <2>4
<1>3. CASE PipelineCallback(b)
  <2>1. Stages' /\ Numbers' /\ RowTellsRun'
    BY <1>3 DEF PipelineCallback, Stages, Numbers, RowTellsRun
  <2>2. Alone' /\ Handled'
    BY <1>3 DEF PipelineCallback, Alone, InFlight, Handled
  <2> QED BY <2>1, <2>2
<1>4. CASE RunEnd(b)
  <2>0. PICK s \in {"SUCCESS", "FAILED"} : run' = [run EXCEPT ![b] = s]
    BY <1>4 DEF RunEnd
  <2>1. Stages' /\ Numbers'
    BY <1>4, <2>0 DEF RunEnd, Stages, Numbers, TypeOK, Going
  <2>2. Alone'
    BY <1>4, <2>0 DEF RunEnd, Alone, InFlight, TypeOK, Going
  <2>3. Handled'
    BY <1>4, <2>0, TaskFields DEF RunEnd, Handled, TypeOK, Going, Answers, Ended
  <2>4. RowTellsRun'
    BY <1>4, <2>0 DEF RunEnd, RowTellsRun, TypeOK, Going
  <2> QED BY <2>1, <2>2, <2>3, <2>4
<1> QED BY <1>1, <1>2, <1>3, <1>4 DEF JenkinsStep

(* The steps of callbacks.                                                  *)
LEMMA CallbackStepInv ==
    ASSUME BuildInv, NEW w \in Workers, CallbackStep(w) \/ CallbackDies(w)
    PROVE  Stages' /\ Numbers' /\ Alone' /\ Handled' /\ RowTellsRun'
<1> USE DEF BuildInv, jenkins, tasks, Run
<1>0. cb[w] \in Callback /\ cb[w].build \in Builds /\ cb[w].flow \in Answers
  BY TaskFields DEF TypeOK
<1>1. ASSUME NEW b \in Builds, CallbackStart(w, b)
      PROVE  Stages' /\ Numbers' /\ Alone' /\ Handled' /\ RowTellsRun'
  <2>1. Stages' /\ Numbers' /\ Alone' /\ RowTellsRun'
    BY <1>1 DEF CallbackStart, Stages, Numbers, Alone, InFlight, RowTellsRun
  <2>2. Handled'
    BY <1>1, TaskFields DEF CallbackStart, Handled, TypeOK
  <2> QED BY <2>1, <2>2
<1>2. CASE CallbackFetch(w)
  <2>1. Stages' /\ Numbers' /\ Alone' /\ RowTellsRun'
    BY <1>2 DEF CallbackFetch, Stages, Numbers, Alone, InFlight, RowTellsRun
  <2>2. row[cb[w].build] # NoRow
    BY <1>2 DEF CallbackFetch, Handled
  <2>3. \A r \in RunsOf(cb[w].build) : r = cb[w].build
    BY <1>0, <2>2, OwnRun
  <2>4. cb' = [cb EXCEPT ![w] = Task("save", cb[w].build, run[cb[w].build])]
        \/ cb' = [cb EXCEPT ![w] = Idle]
    BY <1>2, <2>3 DEF CallbackFetch
  <2>5. row' = row /\ run' = run /\ req' = req
    BY <1>2 DEF CallbackFetch
  <2>6. Handled'
    BY <2>2, <2>4, <2>5, TaskFields, IdleFields DEF Handled, TypeOK
  <2> QED BY <2>1, <2>6
<1>3. CASE CallbackSave(w)
  <2>0. /\ cb[w].flow # "NOT_EXECUTED" => cb[w].flow = run[cb[w].build]
        /\ row[cb[w].build] # NoRow
        /\ StatusOf[cb[w].flow] # NoRow
    BY <1>0, <1>3 DEF CallbackSave, Handled, StatusOf, Answers, Ended, NoRow, Success, Failed,
       Voided, NotBuilt
  <2>1. Stages'
    BY <1>0, <1>3, <2>0 DEF CallbackSave, Stages, TypeOK
  <2>2. Numbers' /\ Alone'
    BY <1>3 DEF CallbackSave, Numbers, Alone, InFlight
  <2>3. Handled'
    BY <1>0, <1>3, <2>0, TaskFields DEF CallbackSave, Handled, TypeOK
  <2>4. RowTellsRun'
    <3>1. /\ StatusOf[cb[w].flow] = Success => cb[w].flow = "SUCCESS"
          /\ StatusOf[cb[w].flow] = Failed => cb[w].flow = "FAILED"
      BY <1>0 DEF StatusOf, Answers, Ended, Success, Failed, Voided, NotBuilt
    <3> QED BY <1>0, <1>3, <2>0, <3>1 DEF CallbackSave, RowTellsRun, TypeOK
  <2> QED BY <2>1, <2>2, <2>3, <2>4
<1>4. CASE CallbackStore(w) \/ CallbackDies(w)
  <2>1. Stages' /\ Numbers' /\ Alone' /\ RowTellsRun'
    BY <1>4 DEF CallbackStore, CallbackDies, Stages, Numbers, Alone, InFlight, RowTellsRun
  <2>2. Handled'
    BY <1>4, IdleFields DEF CallbackStore, CallbackDies, Handled, TypeOK
  <2> QED BY <2>1, <2>2
<1> QED BY <1>1, <1>2, <1>3, <1>4 DEF CallbackStep

(* The steps of stops.                                                      *)
LEMMA StopStepInv ==
    ASSUME BuildInv, NEW c \in Clients,
           StopEnds(c) \/ \E b \in Builds : StopRead(c, b)
    PROVE  Stages' /\ Numbers' /\ Alone' /\ Handled' /\ RowTellsRun'
<1> USE DEF BuildInv, jenkins, tasks, Stopping
<1>0. req[c] \in Stop /\ req[c].build \in Builds
  BY StopFields DEF TypeOK
<1>1. CASE \E b \in Builds : StopRead(c, b)
  <2>1. Stages' /\ Numbers' /\ Alone' /\ RowTellsRun'
    BY <1>1 DEF StopRead, Stages, Numbers, Alone, InFlight, RowTellsRun
  <2>2. Handled'
    BY <1>1, StopFields DEF StopRead, Handled, TypeOK, Building, NoRow
  <2> QED BY <2>1, <2>2
<1>2. CASE StopAbort(c)
  <2>0. \A r \in Builds : run'[r] = run[r]
                          \/ (run[r] \in Going /\ run'[r] = "ABORTED")
    BY <1>2 DEF StopAbort
  <2>1. Stages'
    BY <1>2, <2>0 DEF StopAbort, Stages, TypeOK, Going
  <2>2. Numbers'
    BY <1>2, <2>0 DEF StopAbort, Numbers, TypeOK, Going
  <2>3. Alone'
    BY <1>2, <2>0 DEF StopAbort, Alone, InFlight, TypeOK, Going
  <2>4. Handled'
    <3>1. \A v \in Workers : cb[v].build \in Builds /\ cb[v].flow \in Answers
      BY TaskFields DEF TypeOK
    <3>2. \A v \in Workers : cb[v].at = "save" /\ cb[v].flow # "NOT_EXECUTED"
                                 => cb[v].flow = run'[cb[v].build]
      BY <2>0, <3>1 DEF Handled, Answers, Ended, Going
    <3> QED BY <1>2, <3>2, StopFields DEF StopAbort, Handled, TypeOK
  <2>5. RowTellsRun'
    BY <1>2, <2>0 DEF StopAbort, RowTellsRun, Going
  <2> QED BY <2>1, <2>2, <2>3, <2>4, <2>5
<1>3. CASE StopSave(c)
  <2>0. row[req[c].build] # NoRow
    BY <1>3 DEF StopSave, Handled
  <2>1. Stages' /\ Numbers' /\ Alone'
    BY <1>0, <1>3, <2>0 DEF StopSave, Stages, Numbers, Alone, InFlight, TypeOK
  <2>2. Handled'
    BY <1>0, <1>3, <2>0, StopFields DEF StopSave, Handled, TypeOK, Voided, NoRow
  <2>3. RowTellsRun'
    BY <1>0, <1>3 DEF StopSave, RowTellsRun, TypeOK, Voided, Success, Failed
  <2> QED BY <2>1, <2>2, <2>3
<1>4. CASE StopCheck(c)
  <2>1. Stages' /\ Numbers' /\ Alone' /\ RowTellsRun'
    BY <1>4 DEF StopCheck, Stages, Numbers, Alone, InFlight, RowTellsRun
  <2>2. Handled'
    BY <1>4, IdleFields DEF StopCheck, Handled, TypeOK
  <2> QED BY <2>1, <2>2
<1> QED BY <1>1, <1>2, <1>3, <1>4 DEF StopEnds

LEMMA BuildInvInductive ==
    ASSUME Requests = 1, BuildInv, [Next]_vars
    PROVE  BuildInv'
<1>0. TypeOK'
  BY TypeInductive DEF BuildInv
<1> SUFFICES Stages' /\ Numbers' /\ Alone' /\ Handled' /\ RowTellsRun'
  BY <1>0 DEF BuildInv
<1>1. CASE \E b \in Builds : BuildStep(b) \/ JenkinsStep(b)
  BY <1>1, BuildStepInv, JenkinsStepInv
<1>2. CASE \E b \in Builds : FlagExpires(b) \/ BuildResult(b)
  BY <1>2 DEF FlagExpires, BuildResult, BuildInv, jenkins, Stages, Numbers, Alone,
     InFlight, Handled, RowTellsRun
<1>3. CASE \E w \in Workers : CallbackStep(w) \/ CallbackDies(w)
  BY <1>3, CallbackStepInv
<1>4. CASE \E c \in Clients : StopEnds(c) \/ \E b \in Builds : StopRead(c, b)
  BY <1>4, StopStepInv
<1>5. CASE UNCHANGED vars
  BY <1>5 DEF vars, jenkins, tasks, BuildInv, Stages, Numbers, Alone, InFlight,
     Handled, RowTellsRun
<1> QED BY <1>1, <1>2, <1>3, <1>4, <1>5 DEF Next, Finished

(* With one build request in flight at a time, a row that says success or   *)
(* failure says it of its own run, however callbacks, polls and stops       *)
(* interleave, for any number of builds, workers and clients.               *)
THEOREM RowsTellRuns ==
    ASSUME Requests = 1
    PROVE  Spec => []RowTellsRun
<1>1. BuildInv => RowTellsRun
  BY DEF BuildInv
<1> QED
  BY <1>1, BuildInvInit, BuildInvInductive, PTL DEF Spec

(* Under the same assumption a stop aborts no other build's run.            *)
THEOREM StopsOnlyOwnRun ==
    ASSUME Requests = 1
    PROVE  Spec => StopsOwnRun
<1>1. ASSUME BuildInv, [Next]_vars,
             NEW b \in Builds, run[b] \in Going, run'[b] = "ABORTED"
      PROVE  \E c \in Clients : req[c].build = b /\ req[c].at = "abort"
  <2>1. \E c \in Clients : StopAbort(c)
    <3>0. run \in [Builds -> RunStates] /\ run' # run
      BY <1>1 DEF BuildInv, TypeOK, Going
    <3>1. ASSUME NEW a \in Builds, BuildStep(a) \/ JenkinsStep(a) \/ FlagExpires(a)
                                   \/ BuildResult(a)
          PROVE  FALSE
      BY <1>1, <3>0, <3>1 DEF BuildStep, BuildCheck, BuildNumber, BuildPost, BuildCommit,
         BuildRollback, JenkinsStep, RunStart, RunExecute, PipelineCallback, RunEnd,
         FlagExpires, BuildResult, jenkins, Going
    <3>2. ASSUME NEW w \in Workers, CallbackStep(w) \/ CallbackDies(w)
          PROVE  FALSE
      BY <3>0, <3>2 DEF CallbackStep, CallbackStart, CallbackFetch, CallbackSave,
         CallbackStore, CallbackDies, jenkins
    <3>3. ASSUME NEW c \in Clients,
                 StopSave(c) \/ StopCheck(c) \/ \E a \in Builds : StopRead(c, a)
          PROVE  FALSE
      BY <3>0, <3>3 DEF StopSave, StopCheck, StopRead, jenkins
    <3> QED
      BY <1>1, <3>0, <3>1, <3>2, <3>3 DEF Next, Finished, vars, jenkins, StopEnds
  <2>2. PICK c \in Clients : StopAbort(c)
    BY <2>1
  <2>3. req[c].at = "abort" /\ b \in RunsOf(req[c].build)
    BY <1>1, <2>2 DEF StopAbort, Going
  <2>4. req[c].build \in Builds /\ row[req[c].build] # NoRow
    BY <1>1, <2>3, StopFields DEF BuildInv, TypeOK, Handled
  <2> QED BY <1>1, <2>3, <2>4, OwnRun
<1>2. BuildInv /\ [Next]_vars =>
         [\A b \in Builds : run[b] \in Going /\ run'[b] = "ABORTED"
            => \E c \in Clients : req[c].build = b /\ req[c].at = "abort"]_run
  BY <1>1
<1> QED
  BY <1>2, BuildInvInit, BuildInvInductive, PTL DEF Spec, StopsOwnRun
=============================================================================
