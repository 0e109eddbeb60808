---------------------------- MODULE SettingsCache ----------------------------
(***************************************************************************)
(* System settings: rows in the database, copies in the cache without      *)
(* expiry that every other part reads by name, and for GitLab a credential *)
(* that Jenkins keeps.  A request may change a row's name and type as well *)
(* as its value, which is here the number of the edit that wrote it.       *)
(* Harbor's own credential is left out.                                    *)
(***************************************************************************)
EXTENDS Integers

CONSTANTS
    SettingRows,     \* primary keys
    SettingForms,    \* the name and type a request may give a row
    ByType,          \* types: read by type, and cached under it as if by name
    SettingClients,
    MaxSettingCalls  \* bound: requests in all

ASSUME SettingsAssumption ==
    MaxSettingCalls \in Nat /\ {"gitlab", "jenkins", "none"} \cap ByType = {}

VARIABLES
    form,     \* of each row: its name and type
    value,    \* of each name, which is unique: the edit its row holds, or 0
    cached,   \* of each key: the edit whose copy it holds, 0 for nothing
    credit,   \* the edit of GitLab that Jenkins's credential holds
    scall,    \* of each client: its step, row and form, what it read or writes
    edits,    \* edits that have been numbered, scalls: requests that have begun
    scalls,
    raced,    \* ghost: names whose copy may differ from the row
    untold    \* ghost: Jenkins's credential may differ from GitLab's row

settingVars == <<form, value, cached, credit, scall, edits, scalls, raced, untold>>

Keys   == {f.name : f \in SettingForms} \cup ByType \cup {"gitlab", "jenkins"}
NoForm == [name |-> "none", type |-> "none"]
NoEdit == [at |-> "idle", row |-> "none", name |-> "none", type |-> "none", new |-> 0, late |-> FALSE]

SettingsInit ==
    /\ form = [i \in SettingRows |-> NoForm]
    /\ value = [k \in Keys |-> 0] /\ cached = [k \in Keys |-> 0]
    /\ credit = 0 /\ edits = 0 /\ scalls = 0 /\ raced = {} /\ untold = FALSE
    /\ scall = [c \in SettingClients |-> NoEdit]

SettingBegins(c) ==
    /\ scall[c].at = "idle" /\ scalls < MaxSettingCalls /\ scalls' = scalls + 1

SettingAt(c, at)  == scall' = [scall EXCEPT ![c].at = at]
SettingEnds(c)    == scall' = [scall EXCEPT ![c] = NoEdit]
OtherCalls(c, k, ats) == \E d \in SettingClients \ {c} : scall[d].name = k /\ scall[d].at \in ats

-----------------------------------------------------------------------------
(* get_redis_data: what is cached, or else the row of that name, or one of  *)
(* that type, which is then cached.                                         *)
ServedFromCache(c, k) ==
    /\ SettingBegins(c) /\ cached[k] # 0
    /\ UNCHANGED <<form, value, cached, credit, scall, edits, raced, untold>>

Found(k) == IF k \in ByType THEN {form[i].name : i \in {i \in SettingRows : form[i].type = k}}
            ELSE {k} \cap {form[i].name : i \in SettingRows}

(* Another client may save between the reading of the row and the refill.   *)
RowFetched(c, k) ==
    /\ SettingBegins(c) /\ cached[k] = 0
    /\ \/ Found(k) = {} /\ UNCHANGED scall
       \/ \E n \in Found(k) :
             scall' = [scall EXCEPT ![c] = [NoEdit EXCEPT !.at = "refill", !.name = k, !.new = value[n]]]
    /\ UNCHANGED <<form, value, cached, credit, edits, raced, untold>>

Refill(c) ==
    /\ scall[c].at = "refill" /\ SettingEnds(c)
    /\ cached' = [cached EXCEPT ![scall[c].name] = scall[c].new]
    /\ UNCHANGED <<form, value, credit, edits, scalls, raced, untold>>

-----------------------------------------------------------------------------
(* update finds its row by the primary key, and writes all of it; a request *)
(* whose page is older than the row is refused without a trace.             *)
EditBegins(c, i, f) ==
    /\ SettingBegins(c) /\ form[i] # NoForm
    /\ scall' = [scall EXCEPT ![c] = [NoEdit EXCEPT !.at = "push", !.row = i, !.name = f.name,
                                                    !.type = f.type, !.new = edits + 1]]
    /\ edits' = edits + 1
    /\ UNCHANGED <<form, value, cached, credit, raced, untold>>

SettingCreate(c, f) ==
    /\ SettingBegins(c)
    /\ scall' = [scall EXCEPT ![c] = [NoEdit EXCEPT !.at = "push", !.name = f.name,
                                                    !.type = f.type, !.new = edits + 1]]
    /\ edits' = edits + 1
    /\ UNCHANGED <<form, value, cached, credit, raced, untold>>

(* set_credit, before the row is checked and saved; its errors are printed. *)
(* It goes by the request's type; everybody else goes by the row's name.    *)
Served(k)   == IF cached[k] # 0 THEN cached[k] ELSE value[k]
IsCreate(c) == scall[c].row = "none"
Pushed(c)   == SettingAt(c, IF IsCreate(c) THEN "insert" ELSE "save")
Mistyped(c) == \E k \in {"gitlab", "jenkins"} : (scall[c].name = k) # (scall[c].type = k)

PushGitlab(c) ==
    /\ scall[c].at = "push" /\ scall[c].type = "gitlab" /\ ~IsCreate(c) /\ Pushed(c)
    /\ \/ /\ Served("jenkins") # 0
          /\ credit' = scall[c].new
          /\ untold' = (untold \/ Mistyped(c) \/ OtherCalls(c, "gitlab", {"save", "set", "insert"}))
       \/ untold' = TRUE /\ UNCHANGED credit
    /\ cached' = [cached EXCEPT !["jenkins"] = Served("jenkins")]
    /\ UNCHANGED <<form, value, edits, scalls, raced>>

(* For Jenkins the credential is made from what is served of GitLab; both   *)
(* have to be there for an update.  A setting of another name may be        *)
(* another Jenkins.                                                         *)
PushJenkins(c) ==
    /\ scall[c].at = "push" /\ scall[c].type = "jenkins"
    /\ cached' = [cached EXCEPT !["gitlab"] = Served("gitlab"),
                                !["jenkins"] = IF IsCreate(c) THEN @ ELSE Served("jenkins")]
    /\ IF Served("gitlab") = 0 \/ (~IsCreate(c) /\ Served("jenkins") = 0)
       THEN SettingEnds(c) /\ UNCHANGED <<credit, untold>>
       ELSE \/ /\ credit' \in {Served("gitlab")} \cup IF Mistyped(c) THEN {credit} ELSE {}
               /\ Pushed(c)
               /\ untold' = (\/ "gitlab" \in raced \/ Mistyped(c)
                             \/ OtherCalls(c, "gitlab", {"push", "save", "set", "insert"}))
            \/ UNCHANGED <<credit, untold>> /\ IF IsCreate(c) THEN SettingEnds(c) ELSE Pushed(c)
    /\ UNCHANGED <<form, value, edits, scalls, raced>>

PushNone(c) ==
    /\ scall[c].at = "push" /\ Pushed(c)
    /\ scall[c].type \notin {"gitlab", "jenkins"} \/ (scall[c].type = "gitlab" /\ IsCreate(c))
    /\ cached' = IF scall[c].type = "harbor" THEN [cached EXCEPT !["jenkins"] = Served("jenkins")] ELSE cached
    /\ UNCHANGED <<form, value, credit, edits, scalls, raced, untold>>

(* The form is not valid, the save fails, or the process dies.              *)
SettingStops(c) ==
    /\ scall[c].at # "idle" /\ SettingEnds(c)
    /\ raced' = IF scall[c].at = "set" THEN raced \cup {scall[c].name} ELSE raced
    /\ untold' = (untold \/ (scall[c].type = "gitlab" /\ scall[c].at = "save"))
    /\ UNCHANGED <<form, value, cached, credit, edits, scalls>>

(* The row, under a name no other row has; one deleted meanwhile comes back.*)
(* Whoever holds another value for the cache now races with this.           *)
SettingSave(c) ==
    /\ scall[c].at = IF IsCreate(c) THEN "insert" ELSE "save"
    /\ \E i \in SettingRows :
         /\ IF IsCreate(c) THEN form[i] = NoForm /\ \A d \in SettingClients : scall[d].row # i
            ELSE i = scall[c].row
         /\ LET n == scall[c].name IN
            /\ value[n] = 0 \/ form[i].name = n
            /\ form' = [form EXCEPT ![i] = [name |-> n, type |-> scall[c].type]]
            /\ value' = [k \in Keys |-> IF k = n THEN scall[c].new
                                         ELSE IF k = form[i].name THEN 0 ELSE value[k]]
            /\ scall' = [d \in SettingClients |->
                           IF d = c THEN [scall[c] EXCEPT !.at = "set"]
                           ELSE [scall[d] EXCEPT !.late = @ \/ scall[d].name = n]]
            /\ raced' = IF OtherCalls(c, n, {"refill", "set"}) THEN raced \cup {n} ELSE raced
            /\ untold' = (\/ untold \/ Mistyped(c) \/ (n = "gitlab" /\ IsCreate(c))
                          \/ (n = "jenkins" /\ ~IsCreate(c) /\ form[i].name # n))
    /\ UNCHANGED <<cached, credit, edits, scalls>>

(* Slip: an edit leaves the cache to the next refill.                       *)
SetNothing(c) ==
    /\ scall[c].at = "set" /\ SettingEnds(c)
    /\ UNCHANGED <<form, value, cached, credit, edits, scalls, raced, untold>>

(* set_redis_data under the row's new name; the copy under an old one, and  *)
(* the one under a type, stay.  A save that ran alone ends what raced.      *)
SetCached(c) ==
    /\ scall[c].at = "set" /\ SettingEnds(c)
    /\ cached' = [cached EXCEPT ![scall[c].name] = scall[c].new]
    /\ raced' = IF scall[c].late \/ OtherCalls(c, scall[c].name, {"refill", "set"})
                THEN raced ELSE raced \ {scall[c].name}
    /\ UNCHANGED <<form, value, credit, edits, scalls, untold>>

(* The generic destroy leaves the cache as it is.                           *)
SettingDestroy(i) ==
    /\ form[i] # NoForm /\ scalls < MaxSettingCalls /\ scalls' = scalls + 1
    /\ form' = [form EXCEPT ![i] = NoForm]
    /\ value' = [value EXCEPT ![form[i].name] = 0]
    /\ UNCHANGED <<cached, credit, scall, edits, raced, untold>>

SettingStep(c) ==
    \/ Refill(c) \/ PushGitlab(c) \/ PushJenkins(c) \/ PushNone(c)
    \/ SettingSave(c) \/ SetCached(c)

SettingsNext ==
    \/ \E c \in SettingClients :
         \/ \E k \in Keys : ServedFromCache(c, k) \/ RowFetched(c, k)
         \/ \E f \in SettingForms : SettingCreate(c, f) \/ \E i \in SettingRows : EditBegins(c, i, f)
         \/ SettingStep(c) \/ SettingStops(c)
    \/ \E i \in SettingRows : SettingDestroy(i)

SettingsSpec == SettingsInit /\ [][SettingsNext]_settingVars

-----------------------------------------------------------------------------
(* The copies follow the rows.  Whoever reads a name that a row has is      *)
(* served that row, except between the two writes of an edit and after      *)
(* writes that overlapped or died between them; a copy outlives its row's   *)
(* deletion or renaming, but never a row that takes the name again; those   *)
(* cached under a type are not spoken of.  Jenkins, once set up, clones     *)
(* with GitLab's row, unless an edit was refused or died after Jenkins had  *)
(* been told, Jenkins was not reached, edits overlapped, GitLab was made    *)
(* anew, Jenkins renamed, or one of the names stands on another type: the   *)
(* credential is written before the row, and nothing takes it back.         *)
Editing(k, ats) == \E c \in SettingClients : scall[c].name = k /\ scall[c].at \in ats

CopiesFollowRow ==
    /\ \A k \in Keys \ (ByType \cup raced) :
         value[k] # 0 => cached[k] \in {0, value[k]} \/ Editing(k, {"set"})
    /\ value["jenkins"] # 0 /\ value["gitlab"] # 0 /\ ~untold =>
         credit = value["gitlab"] \/ Editing("gitlab", {"save", "set"})
=============================================================================
