---------------------------- MODULE AppCatalogue ----------------------------
(***************************************************************************)
(* Applications and their services, one per environment: creating them     *)
(* with their Jenkins jobs, changing a service's row, scaling it, deploying *)
(* it and deleting the application.  A request that has read a row writes   *)
(* all of it back.  Clusters and versions of a service: K8sRollout.         *)
(***************************************************************************)
EXTENDS Integers, SequencesExt

CONSTANTS
    Applications,
    AppName,        \* of each: unique in its project, and no further
    EnvOrder,       \* the environments in the order of their sort
    NameTag,        \* of each: its name's part in uniq_tag, after the last '_'
    SpaceTag,       \* of each: what its namespace begins with, to the first '-'
    Preset,         \* the environments in the preset data of the product
    Counts,         \* numbers of replicas
    DefaultCount,   \* the one written where the template has no strategy
    CatClients,
    MaxCalls        \* bound: requests and tasks in all

\* uniq_tag is unique: two environments with one part would share it.
ASSUME CatalogueAssumption ==
    /\ EnvOrder \in Seq(ToSet(EnvOrder))
    /\ \A d, e \in ToSet(EnvOrder) : NameTag[d] = NameTag[e] => d = e
    /\ DefaultCount \in Counts /\ MaxCalls \in Nat

VARIABLES
    apps,      \* the applications there are, newest first
    given,     \* the applications there have been: an id is given once
    services,  \* of each application: the environments it has a service in
    newest,    \* of each application: the environment of the one saved last
    jobs,      \* services with a job in Jenkins
    template,  \* of each service: the replicas in its template
    live,      \* of each service: the replicas of its Deployment
    call,      \* of each client: the request or task it runs; in its ghosts
               \* stale and old: whether copy and manifest have been overtaken
    calls,     \* how many have begun
    asked,     \* ghost, of each service: what the last scaling asked for
    excused    \* ghost: services whose Jenkins job may be missing

catVars == <<apps, given, services, newest, jobs, template, live, call, calls, asked, excused>>

Envs      == ToSet(EnvOrder)
ServiceOf == Applications \X Envs
Templates == Counts \cup {"bare", "blank"}   \* blank: {}; bare: no strategy

Idle0 == [at |-> "idle", kind |-> "none", app |-> "none", env |-> "none",
          copy |-> "blank", stale |-> FALSE, gone |-> FALSE, count |-> DefaultCount,
          manifest |-> "blank", old |-> FALSE]

Has(a, e) == e \in services[a]
Of(c)     == <<call[c].app, call[c].env>>

CatInit ==
    /\ apps = <<>> /\ given = {} /\ services = [a \in Applications |-> {}] /\ jobs = {}
    /\ newest = [a \in Applications |-> "none"]
    /\ template = [s \in ServiceOf |-> "blank"] /\ live = [s \in ServiceOf |-> "none"]
    /\ call = [c \in CatClients |-> Idle0] /\ calls = 0
    /\ asked = [s \in ServiceOf |-> "none"] /\ excused = {}

(* A request begins on a service, or goes on at its next step.              *)
Begins(c, kind, at, a, e) ==
    /\ call[c].at = "idle" /\ calls < MaxCalls /\ calls' = calls + 1
    /\ a \in ToSet(apps)
    /\ call' = [call EXCEPT ![c] = [Idle0 EXCEPT !.at = at, !.kind = kind, !.app = a, !.env = e,
                                       !.copy = template[<<a, e>>]]]

Ends(c) == call' = [call EXCEPT ![c] = Idle0]

-----------------------------------------------------------------------------
(* MicroApp create, in one transaction: a service for each environment of   *)
(* the preset data, until one of them fails; failures are only logged.      *)
AppCreate(c, a) ==
    /\ call[c].at = "idle" /\ calls < MaxCalls /\ calls' = calls + 1
    /\ a \notin given /\ given' = given \cup {a} /\ apps' = <<a>> \o apps
    /\ LET wanted == {i \in DOMAIN EnvOrder : EnvOrder[i] \in Preset}
       IN  \E n \in wanted \cup {0}, t \in Templates :
             LET envs == {EnvOrder[i] : i \in {i \in wanted : i <= n}}
                 made == {a} \X envs
             IN  /\ services' = [services EXCEPT ![a] = envs]
                 /\ newest' = [newest EXCEPT ![a] = IF n = 0 THEN "none" ELSE EnvOrder[n]]
                 /\ template' = [s \in ServiceOf |-> IF s \in made THEN t ELSE template[s]]
                 /\ \E failed \in SUBSET made :
                       /\ jobs' = jobs \cup (made \ failed)
                       /\ excused' = (excused \ made) \cup failed
    /\ UNCHANGED <<live, call, asked>>

(* AppInfo create: the row, then its Jenkins job.                           *)
ServiceCreate(c, a, e) ==
    /\ Begins(c, "create", "jenkins", a, e) /\ ~Has(a, e)
    /\ services' = [services EXCEPT ![a] = @ \cup {e}] /\ newest' = [newest EXCEPT ![a] = e]
    /\ \E t \in Templates : template' = [template EXCEPT ![<<a, e>>] = t]
    /\ asked' = [asked EXCEPT ![<<a, e>>] = "none"]
    /\ excused' = (excused \ {<<a, e>>})
                    \cup {Of(d) : d \in {d \in CatClients : call[d].at = "jenkins"
                                            /\ call[d].app = a /\ call[d].env # e}}
    /\ UNCHANGED <<apps, given, jobs, live>>

(* The service extend_jenkins looks up: the first of the application's, in  *)
(* the order of their saves.  Slip: one saved earlier.                      *)
OlderOf(a) == CHOOSE e \in services[a] : services[a] # {e} => e # newest[a]

FirstOf(a) == newest[a]

ExtendJenkins(c) ==
    /\ call[c].at = "jenkins" /\ Ends(c)
    /\ \E made \in BOOLEAN :
         IF services[call[c].app] # {} /\ made
         THEN /\ jobs' = jobs \cup {<<call[c].app, FirstOf(call[c].app)>>}
              /\ UNCHANGED excused
         ELSE /\ excused' = excused \cup {Of(c)}
              /\ UNCHANGED jobs
    /\ UNCHANGED <<apps, given, services, newest, template, live, calls, asked>>

-----------------------------------------------------------------------------
(* save() of a row: an UPDATE, or an INSERT where the row is gone, which    *)
(* fails without its application or when the service was made again.        *)
Savable(c) == /\ call[c].app \in ToSet(apps)
              /\ call[c].gone => ~Has(call[c].app, call[c].env)

(* What a save of service s makes of the copies others have of its row.     *)
Overtaken(r, s) ==
    [r EXCEPT !.stale = @ \/ (<<r.app, r.env>> = s /\ r.at \in {"handle", "save", "apply"}),
              !.old = @ \/ (<<r.app, r.env>> = s /\ r.at \in {"queued", "apply"})]

Saves(c, value, next) ==
    LET s == Of(c) IN
    /\ services' = [services EXCEPT ![s[1]] = @ \cup {s[2]}]
    /\ newest' = [newest EXCEPT ![s[1]] = s[2]]
    /\ template' = [template EXCEPT ![s] = value]
    /\ call' = [d \in CatClients |-> IF d = c THEN next ELSE Overtaken(call[d], s)]
    /\ excused' = excused \cup {Of(d) : d \in {d \in CatClients : call[d].at = "jenkins"
                                    /\ call[d].app = s[1] /\ call[d].env # s[2]}}

(* Readers: AppInfo update, app_editor, and the request that deploys.       *)
RowRead(c, kind, a, e) ==
    /\ kind \in {"update", "edit", "deploy"}
    /\ Begins(c, kind, IF kind = "deploy" THEN "handle" ELSE "save", a, e) /\ Has(a, e)
    /\ UNCHANGED <<apps, given, services, newest, jobs, template, live, asked, excused>>

RowRefused(c) ==
    /\ call[c].at \in {"handle", "save"} /\ ~Savable(c) /\ Ends(c)
    /\ UNCHANGED <<apps, given, services, newest, jobs, template, live, calls, asked, excused>>

ServiceUpdate(c) ==
    /\ call[c].at = "save" /\ call[c].kind = "update" /\ Savable(c)
    /\ \E t \in Templates :
         /\ Saves(c, t, [call[c] EXCEPT !.at = "jenkins"])
         /\ asked' = [asked EXCEPT ![Of(c)] = IF call[c].stale \/ t # call[c].copy THEN "none" ELSE @]
    /\ UNCHANGED <<apps, given, jobs, live, calls>>

(* app_editor writes who may edit; the task, that the service is online.    *)
WholeRowSave(c) ==
    /\ call[c].at = "save" /\ call[c].kind \in {"edit", "deploy"} /\ Savable(c)
    /\ Saves(c, call[c].copy, Idle0)
    /\ asked' = [asked EXCEPT ![Of(c)] = IF call[c].stale THEN "none" ELSE @]
    /\ UNCHANGED <<apps, given, jobs, live, calls>>

(* app_deploy_handle makes the manifest from the row the request has read;  *)
(* it saves that row as online if it was offline, and queues the task.      *)
Queued(r) == [r EXCEPT !.at = "queued", !.manifest = r.copy, !.old = r.stale,
                       !.copy = "blank", !.stale = FALSE]

DeployQueue(c) ==
    /\ call[c].at = "handle"
    /\ call' = [call EXCEPT ![c] = Queued(call[c])]
    /\ UNCHANGED <<apps, given, services, newest, jobs, template, live, calls, asked, excused>>

DeployOnline(c) ==
    /\ call[c].at = "handle" /\ Savable(c)
    /\ Saves(c, call[c].copy, Queued(call[c]))
    /\ asked' = [asked EXCEPT ![Of(c)] = IF call[c].stale THEN "none" ELSE @]
    /\ UNCHANGED <<apps, given, jobs, live, calls>>

(* The task reads the row anew, to save it when it has rolled out the       *)
(* manifest; without the row it ends.                                       *)
TaskRead(c) ==
    /\ call[c].at = "queued"
    /\ \/ /\ Has(call[c].app, call[c].env)
          /\ call' = [call EXCEPT ![c].at = "apply", ![c].copy = template[Of(c)], ![c].gone = FALSE]
       \/ ~Has(call[c].app, call[c].env) /\ Ends(c)
    /\ UNCHANGED <<apps, given, services, newest, jobs, template, live, calls, asked, excused>>

(* The manifest has another level's replicas where its row had none.        *)
DeployApply(c) ==
    /\ call[c].at = "apply"
    /\ \E n \in IF call[c].manifest \in Counts THEN {call[c].manifest} ELSE Counts :
          live' = [live EXCEPT ![Of(c)] = n]
    /\ asked' = [asked EXCEPT ![Of(c)] = IF call[c].old THEN "none" ELSE @]
    /\ call' = [d \in CatClients |->
                  IF d = c THEN [call[c] EXCEPT !.at = "save", !.manifest = "blank", !.old = FALSE]
                  ELSE [call[d] EXCEPT !.stale = @ \/ (Of(d) = Of(c) /\ call[d].kind = "scale")]]
    /\ UNCHANGED <<apps, given, services, newest, jobs, template, calls, excused>>

-----------------------------------------------------------------------------
(* patch_resource, replicas: the Deployment, whose failure is looked at     *)
(* last; then the row of the newest application of that name, in the        *)
(* environment whose part of uniq_tag the namespace begins with, which may  *)
(* be another environment than the Deployment's, or none.                   *)
ScaleDeployment(c, a, e, n) ==
    /\ call[c].at = "idle" /\ calls < MaxCalls /\ calls' = calls + 1
    /\ live[<<a, e>>] # "none"
    /\ \E ok \in BOOLEAN :
         /\ live' = [live EXCEPT ![<<a, e>>] = IF ok THEN n ELSE @]
         /\ call' = [d \in CatClients |->
                       IF d = c THEN [Idle0 EXCEPT !.at = "lookup", !.kind = "scale", !.app = a, !.env = e,
                                                   !.count = n, !.stale = ~ok]
                       ELSE [call[d] EXCEPT !.stale = @ \/ (Of(d) = <<a, e>> /\ call[d].kind = "scale")]]
    /\ asked' = [asked EXCEPT ![<<a, e>>] = "none"]
    /\ UNCHANGED <<apps, given, services, newest, jobs, template, excused>>

FirstNamed(name) ==
    {apps[i] : i \in {i \in DOMAIN apps : /\ AppName[apps[i]] = name
                                         /\ \A k \in 1..(i - 1) : AppName[apps[k]] # name}}

Matching(c) ==
    {s \in ServiceOf : /\ s[1] \in FirstNamed(AppName[call[c].app]) /\ Has(s[1], s[2])
                       /\ NameTag[s[2]] = SpaceTag[call[c].env] /\ template[s] # "blank"}

ScaleLookup(c) ==
    /\ call[c].at = "lookup"
    /\ \/ Matching(c) = {} /\ Ends(c)
       \/ \E s \in Matching(c) :
             call' = [call EXCEPT ![c].at = "save", ![c].app = s[1], ![c].env = s[2], ![c].gone = FALSE,
                                  ![c].copy = template[s], ![c].stale = @ \/ s # Of(c)]
    /\ UNCHANGED <<apps, given, services, newest, jobs, template, live, calls, asked, excused>>

(* Slip: the default is written whatever was asked for.                     *)
DefaultScaled(c) == DefaultCount

Scaled(c) == IF call[c].copy = "bare" THEN DefaultCount ELSE call[c].count

ScaleSave(c) ==
    /\ call[c].at = "save" /\ call[c].kind = "scale" /\ Savable(c)
    /\ Saves(c, Scaled(c), Idle0)
    /\ asked' = [asked EXCEPT ![Of(c)] =
                   IF call[c].stale \/ call[c].copy = "bare" THEN "none" ELSE call[c].count]
    /\ UNCHANGED <<apps, given, jobs, live, calls>>

-----------------------------------------------------------------------------
(* MicroApp destroy: the services in one statement, then the application,   *)
(* which a service made in between protects.                                *)
DestroyServices(c, a) ==
    /\ call[c].at = "idle" /\ calls < MaxCalls /\ calls' = calls + 1
    /\ a \in ToSet(apps)
    /\ services' = [services EXCEPT ![a] = {}] /\ newest' = [newest EXCEPT ![a] = "none"]
    /\ call' = [d \in CatClients |->
                  IF d = c THEN [Idle0 EXCEPT !.at = "remove", !.kind = "destroy", !.app = a]
                  ELSE [call[d] EXCEPT !.gone = @ \/ call[d].app = a]]
    /\ asked' = [s \in ServiceOf |-> IF s[1] = a THEN "none" ELSE asked[s]]
    /\ UNCHANGED <<apps, given, jobs, template, live, excused>>

Without(a) == LET i == CHOOSE i \in DOMAIN apps : apps[i] = a IN RemoveAt(apps, i)

(* Slip: the application goes whatever is left of it.                       *)
DestroyAnyApp(c) ==
    /\ call[c].at = "remove" /\ Ends(c)
    /\ apps' = IF call[c].app \in ToSet(apps) THEN Without(call[c].app) ELSE apps
    /\ UNCHANGED <<given, services, newest, jobs, template, live, calls, asked, excused>>

DestroyApp(c) ==
    /\ call[c].at = "remove" /\ Ends(c)
    /\ apps' = IF services[call[c].app] = {} /\ call[c].app \in ToSet(apps)
               THEN Without(call[c].app) ELSE apps
    /\ UNCHANGED <<given, services, newest, jobs, template, live, calls, asked, excused>>

(* The process dies, the database refuses or the rollout fails: what was    *)
(* done stays.                                                              *)
CallDies(c) ==
    /\ call[c].at # "idle" /\ Ends(c)
    /\ excused' = IF call[c].at = "jenkins" THEN excused \cup {Of(c)} ELSE excused
    /\ UNCHANGED <<apps, given, services, newest, jobs, template, live, calls, asked>>

-----------------------------------------------------------------------------
CatNext ==
    \E c \in CatClients :
       \/ \E a \in Applications : AppCreate(c, a) \/ DestroyServices(c, a)
       \/ \E a \in Applications, e \in Envs :
             \/ ServiceCreate(c, a, e)
             \/ \E k \in {"update", "edit", "deploy"} : RowRead(c, k, a, e)
             \/ \E n \in Counts : ScaleDeployment(c, a, e, n)
       \/ ExtendJenkins(c) \/ RowRefused(c) \/ ServiceUpdate(c) \/ WholeRowSave(c)
       \/ DeployQueue(c) \/ DeployOnline(c) \/ TaskRead(c) \/ DeployApply(c) \/ ScaleLookup(c) \/ ScaleSave(c)
       \/ DestroyApp(c) \/ CallDies(c)

CatSpec == CatInit /\ [][CatNext]_catVars

-----------------------------------------------------------------------------
(* No application is listed twice, and no service outlives its application. *)
CatTypeOK ==
    /\ ToSet(apps) \subseteq Applications /\ IsInjective(apps)
    /\ \A a \in Applications :
         /\ services[a] \subseteq Envs /\ newest[a] \in services[a] \cup {"none"}
         /\ services[a] # {} => a \in ToSet(apps)
    /\ jobs \subseteq ServiceOf /\ excused \subseteq ServiceOf
    /\ template \in [ServiceOf -> Templates] /\ live \in [ServiceOf -> Counts \cup {"none"}]
    /\ asked \in [ServiceOf -> Counts \cup {"none"}] /\ calls \in 0..MaxCalls

(* Whoever creates a service gets its Jenkins job, unless Jenkins fails or  *)
(* another service of the application is saved before the job is made: the  *)
(* job is made for whichever service was saved last.                        *)
ServiceHasJob ==
    \A a \in Applications : \A e \in services[a] :
       \/ <<a, e>> \in jobs \cup excused
       \/ \E c \in CatClients : call[c].at = "jenkins" /\ Of(c) = <<a, e>>

(* A scaling that the row is found for stays: no later edit or deployment   *)
(* undoes it in the template or in the cluster.  What may: an edit or a     *)
(* task that had read the row before it, a deployment whose manifest was    *)
(* made before it, a template without strategy, and the scaling of another  *)
(* service, of an application of that name or of an environment whose       *)
(* namespace begins like this one's, which is written to this one's row.    *)
ScaledStays ==
    \A a \in Applications : \A e \in services[a] :
       asked[<<a, e>>] # "none" => template[<<a, e>>] = asked[<<a, e>>]
                                     /\ live[<<a, e>>] = asked[<<a, e>>]
=============================================================================
