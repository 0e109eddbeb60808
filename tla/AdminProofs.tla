---------------------------- MODULE AdminProofs -----------------------------
(* Proofs about what administrators keep: settings and the copies of them,  *)
(* roles and menus, the forms of tickets and users' logins, for any number  *)
(* of each, of clients and of calls.                                        *)
EXTENDS SettingsCache, Access, TicketForm, Session, FiniteSetTheorems, TLAPS

-----------------------------------------------------------------------------
(* Settings: what each row and each client may hold.                        *)

EditSteps == {"idle", "refill", "push", "save", "insert", "set"}
FormTypes == {f.type : f \in SettingForms} \cup {"none"}

RowForm == [name : Keys \cup {"none"}, type : FormTypes]
Edit == [at : EditSteps, row : SettingRows \cup {"none"}, name : Keys \cup {"none"}, type : FormTypes,
         new : Nat, late : BOOLEAN]

SettingsTyped ==
    /\ form \in [SettingRows -> RowForm]
    /\ \A i \in SettingRows : form[i].type \in ByType => form[i].name \in Keys
    /\ value \in [Keys -> Nat] /\ cached \in [Keys -> Nat] /\ credit \in Nat /\ edits \in Nat
    /\ untold \in BOOLEAN
    /\ scall \in [SettingClients -> Edit]
    /\ \A c \in SettingClients : scall[c].at # "idle" => scall[c].name \in Keys

(* The copies, the values that will be put into the cache, and the value of *)
(* a save that nothing followed, as long as a row has the name.             *)
Kept(k, v) == value[k] # 0 => v = value[k]

CopiesFresh ==
    /\ \A k \in Keys \ (ByType \cup raced) : cached[k] = 0 \/ Kept(k, cached[k]) \/ Editing(k, {"set"})
    /\ \A c \in SettingClients : scall[c].at \in {"refill", "set"} /\ scall[c].name \notin ByType \cup raced =>
          Kept(scall[c].name, scall[c].new)
    /\ \A c \in SettingClients : scall[c].at = "set" /\ ~scall[c].late /\ scall[c].name \notin ByType =>
          Kept(scall[c].name, scall[c].new)

(* Jenkins has been told of the row, or of the one about to be saved.       *)
Telling(c) == scall[c].at = "save" /\ scall[c].name = "gitlab" /\ scall[c].type = "gitlab"

CreditFresh ==
    ~untold =>
      /\ Kept("gitlab", credit) \/ \E c \in SettingClients : Telling(c)
      /\ \A c \in SettingClients : Telling(c) => scall[c].new = credit

SettingsInv == SettingsTyped /\ CopiesFresh /\ CreditFresh

(* Client c's request becomes r; another's may only learn that it is late.  *)
RequestBecomes(c, r) ==
    /\ scall' \in [SettingClients -> Edit] /\ scall'[c] = r
    /\ \A d \in SettingClients \ {c} :
         /\ scall'[d].at = scall[d].at /\ scall'[d].name = scall[d].name
         /\ scall'[d].type = scall[d].type /\ scall'[d].new = scall[d].new
         /\ ~scall'[d].late => ~scall[d].late

LEMMA NoEditIsEdit == NoEdit \in Edit /\ NoEdit.at = "idle" /\ NoEdit.name = "none"
  BY DEF NoEdit, Edit, EditSteps, FormTypes

LEMMA OneRequest ==
    ASSUME SettingsTyped, NEW c \in SettingClients, NEW r \in Edit, scall' = [scall EXCEPT ![c] = r]
    PROVE  RequestBecomes(c, r) /\ \A d \in SettingClients \ {c} : scall'[d] = scall[d]
  BY DEF SettingsTyped, RequestBecomes

LEMMA NamesStay ==
    ASSUME SettingsTyped, NEW c \in SettingClients, NEW r \in Edit, RequestBecomes(c, r),
           r.at # "idle" => r.name \in Keys
    PROVE  \A d \in SettingClients : scall'[d].at # "idle" => scall'[d].name \in Keys
  BY DEF SettingsTyped, RequestBecomes

LEMMA StepTaken ==
    ASSUME SettingsTyped, NEW c \in SettingClients, NEW at \in EditSteps
    PROVE  LET r == [scall[c] EXCEPT !.at = at]
           IN  /\ r \in Edit /\ r.at = at /\ r.name = scall[c].name /\ r.type = scall[c].type
               /\ r.new = scall[c].new /\ r.late = scall[c].late
  <1>1. scall[c] \in Edit
    BY DEF SettingsTyped
  <1> QED BY <1>1 DEF Edit

LEMMA Lated ==
    ASSUME SettingsTyped, NEW c \in SettingClients, NEW r \in Edit, NEW s \in Keys,
           scall' = [d \in SettingClients |-> IF d = c THEN r
                       ELSE [scall[d] EXCEPT !.late = @ \/ scall[d].name = s]]
    PROVE  RequestBecomes(c, r) /\ \A d \in SettingClients \ {c} : scall[d].name = s => scall'[d].late
  <1> DEFINE B(d) == scall[d].late \/ scall[d].name = s
  <1>1. \A d \in SettingClients : scall[d] \in Edit /\ B(d) \in BOOLEAN /\ (scall[d].late => B(d))
                                  /\ (scall[d].name = s => B(d))
    BY DEF SettingsTyped, Edit
  <1>2. scall' = [d \in SettingClients |-> IF d = c THEN r ELSE [scall[d] EXCEPT !.late = B(d)]]
    BY Zenon
  <1> HIDE DEF B
  <1>3. ASSUME NEW d \in SettingClients \ {c}
        PROVE  /\ scall'[d] \in Edit /\ scall'[d].late = B(d)
               /\ scall'[d].at = scall[d].at /\ scall'[d].name = scall[d].name
               /\ scall'[d].type = scall[d].type /\ scall'[d].new = scall[d].new
    <2>1. scall'[d] = [scall[d] EXCEPT !.late = B(d)] /\ scall[d] \in Edit /\ B(d) \in BOOLEAN
      BY <1>1, <1>2
    <2>2. scall'[d] \in Edit /\ scall'[d].late = B(d)
      BY <2>1 DEF Edit
    <2>3. /\ scall'[d].at = scall[d].at /\ scall'[d].name = scall[d].name
          /\ scall'[d].type = scall[d].type /\ scall'[d].new = scall[d].new
      BY <2>1 DEF Edit
    <2> QED BY <2>2, <2>3
  <1>4. scall'[c] = r
    BY <1>2
  <1>5. scall' \in [SettingClients -> Edit]
    <2>1. \A d \in SettingClients : scall'[d] \in Edit
      BY <1>3, <1>4
    <2> QED BY <1>2, <2>1, Zenon
  <1>6. \A d \in SettingClients \ {c} : (~scall'[d].late => ~scall[d].late) /\ (scall[d].name = s => scall'[d].late)
    BY <1>1, <1>3
  <1> QED BY <1>3, <1>4, <1>5, <1>6, Zenon DEF RequestBecomes

(* A step of c that saves no row.                                           *)
LEMMA NoRowSaved ==
    ASSUME SettingsInv, SettingsTyped', value' = value, raced \subseteq raced', NEW c \in SettingClients, NEW r \in Edit,
           RequestBecomes(c, r), r.at # "set",
           \A k \in Keys \ (ByType \cup raced') : cached'[k] = cached[k] \/ cached'[k] = 0 \/ Kept(k, cached'[k]),
           scall[c].at = "set" => scall[c].name \in raced',
           r.at = "refill" /\ r.name \notin ByType \cup raced' => Kept(r.name, r.new)
    PROVE  CopiesFresh'
  <1>1. /\ scall'[c] = r
        /\ \A d \in SettingClients \ {c} :
             /\ scall'[d].at = scall[d].at /\ scall'[d].name = scall[d].name /\ scall'[d].new = scall[d].new
             /\ ~scall'[d].late => ~scall[d].late
    BY DEF RequestBecomes
  <1>2. \A k, v : Kept(k, v) => (Kept(k, v))'
    BY DEF Kept
  <1>3. ASSUME NEW k \in Keys \ (ByType \cup raced')
        PROVE  cached'[k] = 0 \/ (value'[k] # 0 => cached'[k] = value'[k]) \/ Editing(k, {"set"})'
    <2> SUFFICES ASSUME ~(cached'[k] = 0 \/ Kept(k, cached'[k])) PROVE Editing(k, {"set"})'
      BY DEF Kept
    <2>1. cached'[k] = cached[k] /\ k \notin raced
      OBVIOUS
    <2>2. Editing(k, {"set"})
      BY <2>1 DEF SettingsInv, CopiesFresh
    <2>3. PICK d \in SettingClients : scall[d].name = k /\ scall[d].at = "set"
      BY <2>2 DEF Editing
    <2>4. d # c
      BY <2>1, <2>3
    <2> QED BY <1>1, <2>3, <2>4 DEF Editing
  <1>4. ASSUME NEW d \in SettingClients, scall'[d].at \in {"refill", "set"}, scall'[d].name \notin ByType \cup raced'
        PROVE  value'[scall'[d].name] # 0 => scall'[d].new = value'[scall'[d].name]
    <2>1. CASE d = c
      BY <1>1, <1>4, <2>1 DEF Kept
    <2>2. CASE d # c
      <3>1. scall[d].name \notin ByType \cup raced /\ scall[d].at \in {"refill", "set"}
        BY <1>1, <1>4, <2>2
      <3> QED BY <1>1, <2>2, <3>1 DEF SettingsInv, CopiesFresh, Kept
    <2> QED BY <2>1, <2>2
  <1>5. ASSUME NEW d \in SettingClients, scall'[d].at = "set", ~scall'[d].late, scall'[d].name \notin ByType
        PROVE  value'[scall'[d].name] # 0 => scall'[d].new = value'[scall'[d].name]
    <2>1. d # c
      BY <1>1, <1>5
    <2>2. scall[d].at = "set" /\ ~scall[d].late /\ scall[d].name \notin ByType
      BY <1>1, <1>5, <2>1
    <2>3. Kept(scall[d].name, scall[d].new)
      BY <2>2 DEF SettingsInv, CopiesFresh
    <2> QED BY <1>1, <2>1, <2>3 DEF Kept
  <1> QED BY <1>3, <1>4, <1>5 DEF CopiesFresh, Kept

(* A step of c that neither tells Jenkins nor saves GitLab's row.           *)
LEMMA NothingTold ==
    ASSUME SettingsInv, NEW c \in SettingClients, NEW r \in Edit, RequestBecomes(c, r),
           value'["gitlab"] \in {0, value["gitlab"]}, credit' = credit, ~untold' => ~untold,
           ~untold' => ~Telling(c),
           ~(r.at = "save" /\ r.name = "gitlab" /\ r.type = "gitlab")
    PROVE  CreditFresh'
  <1>1. /\ scall'[c] = r
        /\ \A d \in SettingClients \ {c} :
             /\ scall'[d].at = scall[d].at /\ scall'[d].name = scall[d].name
             /\ scall'[d].type = scall[d].type /\ scall'[d].new = scall[d].new
    BY DEF RequestBecomes
  <1>2. \A d \in SettingClients \ {c} : Telling(d)' <=> Telling(d)
    BY <1>1 DEF Telling
  <1>3. ~Telling(c)'
    BY <1>1 DEF Telling
  <1> SUFFICES ASSUME ~untold' PROVE
        /\ Kept("gitlab", credit)' \/ \E d \in SettingClients : Telling(d)'
        /\ \A d \in SettingClients : Telling(d)' => scall'[d].new = credit
    BY DEF CreditFresh
  <1>4. /\ Kept("gitlab", credit) \/ \E d \in SettingClients : Telling(d)
        /\ \A d \in SettingClients : Telling(d) => scall[d].new = credit
        /\ ~Telling(c)
    BY DEF SettingsInv, CreditFresh
  <1>5. Kept("gitlab", credit) => Kept("gitlab", credit)'
    BY DEF Kept
  <1> QED BY <1>1, <1>2, <1>3, <1>4, <1>5

LEMMA SettingsStart == SettingsInit => SettingsInv
  <1> SUFFICES ASSUME SettingsInit PROVE SettingsInv
    OBVIOUS
  <1>1. /\ value = [k \in Keys |-> 0] /\ cached = [k \in Keys |-> 0] /\ credit = 0 /\ edits = 0
        /\ untold = FALSE /\ \A c \in SettingClients : scall[c] = NoEdit
        /\ form = [i \in SettingRows |-> NoForm]
    BY DEF SettingsInit
  <1>2. scall \in [SettingClients -> Edit] /\ \A c \in SettingClients : scall[c].at = "idle"
    BY <1>1, NoEditIsEdit DEF SettingsInit
  <1>3. NoForm \in RowForm /\ NoForm.type \notin ByType
    BY SettingsAssumption DEF NoForm, RowForm, FormTypes
  <1>4. SettingsTyped
    BY <1>1, <1>2, <1>3 DEF SettingsTyped
  <1>5. CopiesFresh
    BY <1>1, <1>2 DEF CopiesFresh
  <1>6. value["gitlab"] = 0
    BY <1>1 DEF Keys
  <1>7. CreditFresh
    BY <1>2, <1>6 DEF CreditFresh, Kept, Telling
  <1> QED BY <1>4, <1>5, <1>7 DEF SettingsInv

(* A step whose request becomes r, and which leaves rows and copies alone.  *)
LEMMA OnlyRequest ==
    ASSUME SettingsInv, NEW c \in SettingClients, NEW r \in Edit, scall' = [scall EXCEPT ![c] = r],
           scall[c].at \in {"idle", "push"}, r.at # "set", r.at # "idle" => r.name \in Keys,
           r.at = "refill" /\ r.name \notin ByType => r.new = value[r.name],
           ~(r.at = "save" /\ r.name = "gitlab" /\ r.type = "gitlab"),
           edits' \in Nat, UNCHANGED <<form, value, cached, credit, raced, untold>>
    PROVE  SettingsInv'
  <1>1. SettingsTyped
    BY DEF SettingsInv
  <1>2. RequestBecomes(c, r)
    BY <1>1, OneRequest
  <1>3. SettingsTyped'
    <2>1. \A d \in SettingClients : scall'[d].at # "idle" => scall'[d].name \in Keys
      BY <1>1, <1>2, NamesStay
    <2> QED BY <1>1, <1>2, <2>1 DEF SettingsTyped, RequestBecomes
  <1>4. r.at = "refill" /\ r.name \notin ByType \cup raced' => Kept(r.name, r.new)
    BY DEF Kept
  <1>5. CopiesFresh'
    <2>1. scall[c].at # "set" /\ \A k \in Keys : cached'[k] = cached[k]
      OBVIOUS
    <2> QED BY <1>2, <1>3, <1>4, <2>1, NoRowSaved
  <1>6. CreditFresh'
    <2>1. ~Telling(c)
      BY DEF Telling
    <2> QED BY <1>2, <2>1, NothingTold
  <1> QED BY <1>3, <1>5, <1>6 DEF SettingsInv

LEMMA FoundHere ==
    ASSUME SettingsTyped, NEW k \in Keys, NEW n \in Found(k)
    PROVE  value[n] \in Nat /\ (k \notin ByType => n = k)
  <1>1. CASE k \in ByType
    <2>1. PICK i \in SettingRows : form[i].type = k /\ n = form[i].name
      BY <1>1 DEF Found
    <2> QED BY <1>1, <2>1 DEF SettingsTyped
  <1>2. CASE k \notin ByType
    <2>1. n = k
      BY <1>2 DEF Found
    <2> QED BY <1>2, <2>1 DEF SettingsTyped
  <1> QED BY <1>1, <1>2

LEMMA ReadingFresh ==
    ASSUME SettingsInv, NEW c \in SettingClients, NEW k \in Keys, ServedFromCache(c, k) \/ RowFetched(c, k)
    PROVE  SettingsInv'
  <1>1. /\ scall[c].at = "idle" /\ UNCHANGED <<form, value, cached, credit, raced, untold>> /\ edits' \in Nat
        /\ scall[c] \in Edit /\ SettingsTyped
    BY DEF ServedFromCache, RowFetched, SettingBegins, SettingsInv, SettingsTyped
  <1>2. CASE scall' = scall
    <2>1. scall' = [scall EXCEPT ![c] = scall[c]]
      BY <1>1, <1>2 DEF SettingsTyped
    <2> QED BY <1>1, <2>1, OnlyRequest
  <1>3. ASSUME NEW n \in Found(k),
               scall' = [scall EXCEPT ![c] = [NoEdit EXCEPT !.at = "refill", !.name = k, !.new = value[n]]]
        PROVE  SettingsInv'
    <2> DEFINE r == [NoEdit EXCEPT !.at = "refill", !.name = k, !.new = value[n]]
    <2>1. value[n] \in Nat /\ (k \notin ByType => n = k)
      BY <1>1, FoundHere
    <2>2. /\ r \in Edit /\ r.at = "refill" /\ r.name = k
          /\ (r.name \notin ByType => r.new = value[r.name])
      BY <2>1 DEF NoEdit, Edit, EditSteps, FormTypes
    <2>3. scall' = [scall EXCEPT ![c] = r]
      BY <1>3
    <2> HIDE DEF r
    <2> QED BY <1>1, <2>2, <2>3, OnlyRequest
  <1>4. CASE ServedFromCache(c, k)
    BY <1>2, <1>4 DEF ServedFromCache
  <1>5. CASE RowFetched(c, k)
    <2>1. \/ scall' = scall
          \/ \E n \in Found(k) :
                scall' = [scall EXCEPT ![c] = [NoEdit EXCEPT !.at = "refill", !.name = k, !.new = value[n]]]
      BY <1>5 DEF RowFetched
    <2> QED BY <1>2, <1>3, <2>1
  <1> QED BY <1>4, <1>5

LEMMA BeginningsFresh ==
    ASSUME SettingsInv, NEW c \in SettingClients, NEW f \in SettingForms,
           SettingCreate(c, f) \/ \E i \in SettingRows : EditBegins(c, i, f)
    PROVE  SettingsInv'
  <1>0. edits + 1 \in Nat /\ f.name \in Keys /\ f.type \in FormTypes
    BY DEF SettingsInv, SettingsTyped, Keys, FormTypes
  <1>1. scall[c].at = "idle" /\ UNCHANGED <<form, value, cached, credit, raced, untold>> /\ edits' = edits + 1
    BY DEF SettingCreate, EditBegins, SettingBegins
  <1>2. ASSUME NEW i \in SettingRows, EditBegins(c, i, f) PROVE SettingsInv'
    <2> DEFINE r == [NoEdit EXCEPT !.at = "push", !.row = i, !.name = f.name, !.type = f.type, !.new = edits + 1]
    <2>1. scall' = [scall EXCEPT ![c] = r]
      BY <1>2, Zenon DEF EditBegins
    <2>2. r \in Edit /\ r.at = "push" /\ r.name \in Keys
      BY <1>0 DEF NoEdit, Edit, EditSteps
    <2> HIDE DEF r
    <2> QED BY <1>0, <1>1, <2>1, <2>2, OnlyRequest
  <1>3. CASE SettingCreate(c, f)
    <2> DEFINE r == [NoEdit EXCEPT !.at = "push", !.name = f.name, !.type = f.type, !.new = edits + 1]
    <2>1. scall' = [scall EXCEPT ![c] = r]
      BY <1>3, Zenon DEF SettingCreate
    <2>2. r \in Edit /\ r.at = "push" /\ r.name \in Keys
      BY <1>0 DEF NoEdit, Edit, EditSteps
    <2> HIDE DEF r
    <2> QED BY <1>0, <1>1, <2>1, <2>2, OnlyRequest
  <1> QED BY <1>2, <1>3

LEMMA RefillFresh ==
    ASSUME SettingsInv, NEW c \in SettingClients, Refill(c)
    PROVE  SettingsInv'
  <1>1. SettingsTyped /\ scall[c].name \in Keys /\ scall[c].new \in Nat
    BY DEF SettingsInv, SettingsTyped, Refill, Edit
  <1>2. /\ scall' = [scall EXCEPT ![c] = NoEdit] /\ scall[c].at = "refill"
        /\ cached' = [cached EXCEPT ![scall[c].name] = scall[c].new]
        /\ UNCHANGED <<form, value, credit, edits, raced, untold>>
    BY DEF Refill, SettingEnds
  <1>3. RequestBecomes(c, NoEdit) /\ NoEdit \in Edit /\ NoEdit.at = "idle" /\ NoEdit.name = "none"
    BY <1>1, <1>2, NoEditIsEdit, OneRequest
  <1>4. SettingsTyped'
    <2>1. \A d \in SettingClients : scall'[d].at # "idle" => scall'[d].name \in Keys
      BY <1>1, <1>3, NamesStay
    <2> QED BY <1>1, <1>2, <1>3, <2>1 DEF SettingsTyped, RequestBecomes
  <1>5. \A k \in Keys \ (ByType \cup raced) : cached'[k] = cached[k] \/ Kept(k, cached'[k])
    BY <1>1, <1>2 DEF SettingsInv, SettingsTyped, CopiesFresh
  <1>6. CopiesFresh'
    BY <1>2, <1>3, <1>4, <1>5, NoRowSaved
  <1>7. CreditFresh'
    <2>1. ~Telling(c)
      BY <1>2 DEF Telling
    <2> QED BY <1>2, <1>3, <2>1, NothingTold
  <1> QED BY <1>4, <1>6, <1>7 DEF SettingsInv

LEMMA StopsFresh ==
    ASSUME SettingsInv, NEW c \in SettingClients, SettingStops(c)
    PROVE  SettingsInv'
  <1>1. SettingsTyped /\ scall[c].name \in Keys /\ untold \in BOOLEAN
    BY DEF SettingsInv, SettingsTyped, SettingStops
  <1>2. /\ scall' = [scall EXCEPT ![c] = NoEdit] /\ UNCHANGED <<form, value, cached, credit, edits>>
        /\ raced \subseteq raced' /\ (scall[c].at = "set" => scall[c].name \in raced')
    BY DEF SettingStops, SettingEnds
  <1>3. untold' \in BOOLEAN /\ (~untold' => ~untold) /\ (~untold' => ~Telling(c))
    BY <1>1 DEF SettingStops, Telling
  <1>4. RequestBecomes(c, NoEdit) /\ NoEdit \in Edit /\ NoEdit.at = "idle" /\ NoEdit.name = "none"
    BY <1>1, <1>2, NoEditIsEdit, OneRequest
  <1>5. SettingsTyped'
    <2>1. \A d \in SettingClients : scall'[d].at # "idle" => scall'[d].name \in Keys
      BY <1>1, <1>4, NamesStay
    <2> QED BY <1>1, <1>2, <1>3, <1>4, <2>1 DEF SettingsTyped, RequestBecomes
  <1>6. CopiesFresh'
    BY <1>2, <1>4, <1>5, NoRowSaved
  <1>7. CreditFresh'
    BY <1>2, <1>3, <1>4, NothingTold
  <1> QED BY <1>5, <1>6, <1>7 DEF SettingsInv

(* What is served of a setting is its row, or a copy of it.                 *)
LEMMA ServedFresh ==
    ASSUME SettingsInv, NEW s \in Keys
    PROVE  /\ Served(s) \in Nat
           /\ s \notin raced \cup ByType /\ ~Editing(s, {"set"}) => Kept(s, Served(s))
           /\ Served(s) = cached[s] \/ Kept(s, Served(s))
  BY DEF SettingsInv, SettingsTyped, CopiesFresh, Served, Kept

(* A request that goes on from its push, and may refill two of the copies.  *)
LEMMA PushFresh ==
    ASSUME SettingsInv, NEW c \in SettingClients, NEW r \in Edit, scall' = [scall EXCEPT ![c] = r],
           scall[c].at = "push", r.at \in {"idle", "insert", "save"}, r.at # "idle" => r.name \in Keys,
           cached' \in [Keys -> Nat],
           \A k \in Keys : cached'[k] = cached[k] \/ cached'[k] = Served(k),
           credit' \in Nat, untold' \in BOOLEAN, UNCHANGED <<form, value, edits, raced>>
    PROVE  RequestBecomes(c, r) /\ SettingsTyped' /\ CopiesFresh'
  <1>1. SettingsTyped
    BY DEF SettingsInv
  <1>2. RequestBecomes(c, r)
    BY <1>1, OneRequest
  <1>3. SettingsTyped'
    <2>1. \A d \in SettingClients : scall'[d].at # "idle" => scall'[d].name \in Keys
      BY <1>1, <1>2, NamesStay
    <2> QED BY <1>1, <1>2, <2>1 DEF SettingsTyped, RequestBecomes
  <1>4. \A k \in Keys : cached'[k] = cached[k] \/ Kept(k, cached'[k])
    BY ServedFresh
  <1>5. CopiesFresh'
    <2>1. r.at # "set" /\ r.at # "refill" /\ scall[c].at # "set"
      OBVIOUS
    <2> QED BY <1>2, <1>3, <1>4, <2>1, NoRowSaved
  <1> QED BY <1>2, <1>3, <1>5

LEMMA PushNoneFresh ==
    ASSUME SettingsInv, NEW c \in SettingClients, PushNone(c)
    PROVE  SettingsInv'
  <1> DEFINE at == IF IsCreate(c) THEN "insert" ELSE "save"
             r  == [scall[c] EXCEPT !.at = at]
  <1>1. SettingsTyped /\ scall[c].name \in Keys /\ "jenkins" \in Keys
    BY DEF SettingsInv, SettingsTyped, PushNone, Keys
  <1>2. /\ scall' = [scall EXCEPT ![c] = r] /\ scall[c].at = "push"
        /\ UNCHANGED <<form, value, credit, edits, raced, untold>>
        /\ scall[c].type = "gitlab" => at = "insert"
        /\ cached' = cached \/ cached' = [cached EXCEPT !["jenkins"] = Served("jenkins")]
    BY <1>1 DEF PushNone, Pushed, SettingAt, SettingsTyped
  <1>3. at \in EditSteps /\ at \in {"insert", "save"}
    BY DEF EditSteps
  <1>4. r \in Edit /\ r.at = at /\ r.name = scall[c].name /\ r.type = scall[c].type
    BY <1>1, <1>3, StepTaken
  <1>5. cached' \in [Keys -> Nat] /\ \A k \in Keys : cached'[k] = cached[k] \/ cached'[k] = Served(k)
    <2>1. Served("jenkins") \in Nat
      BY <1>1, ServedFresh
    <2> QED BY <1>1, <1>2, <2>1 DEF SettingsTyped
  <1>6. credit' \in Nat /\ untold' \in BOOLEAN
    BY <1>1, <1>2 DEF SettingsTyped
  <1>7. ~Telling(c)
    BY <1>2 DEF Telling
  <1> HIDE DEF r, at
  <1>8. RequestBecomes(c, r) /\ SettingsTyped' /\ CopiesFresh'
    BY <1>1, <1>2, <1>3, <1>4, <1>5, <1>6, PushFresh
  <1>9. CreditFresh'
    BY <1>2, <1>4, <1>7, <1>8, NothingTold
  <1> QED BY <1>8, <1>9 DEF SettingsInv

LEMMA PushGitlabFresh ==
    ASSUME SettingsInv, NEW c \in SettingClients, PushGitlab(c)
    PROVE  SettingsInv'
  <1> DEFINE r == [scall[c] EXCEPT !.at = "save"]
  <1>1. /\ SettingsTyped /\ scall[c].type = "gitlab" /\ scall[c].at = "push" /\ untold \in BOOLEAN
        /\ "jenkins" \in Keys /\ scall[c].name \in Keys /\ scall[c].new \in Nat
    BY DEF SettingsInv, SettingsTyped, PushGitlab, Edit, Keys
  <1>2. /\ scall' = [scall EXCEPT ![c] = r] /\ UNCHANGED <<form, value, edits, raced>>
        /\ cached' = [cached EXCEPT !["jenkins"] = Served("jenkins")]
    BY <1>1 DEF PushGitlab, Pushed, SettingAt, IsCreate
  <1>3. \/ /\ credit' = scall[c].new /\ untold' \in BOOLEAN
           /\ ~untold' => /\ ~untold /\ scall[c].name = "gitlab"
                          /\ ~OtherCalls(c, "gitlab", {"save", "set", "insert"})
        \/ untold' = TRUE /\ credit' = credit
    BY <1>1 DEF PushGitlab, OtherCalls, Mistyped
  <1>4. r \in Edit /\ r.at = "save" /\ r.name = scall[c].name /\ r.type = "gitlab" /\ r.new = scall[c].new
    BY <1>1, StepTaken DEF EditSteps
  <1> HIDE DEF r
  <1>5. cached' \in [Keys -> Nat] /\ \A k \in Keys : cached'[k] = cached[k] \/ cached'[k] = Served(k)
    <2>1. Served("jenkins") \in Nat
      BY <1>1, ServedFresh
    <2> QED BY <1>1, <1>2, <2>1 DEF SettingsTyped
  <1>6. credit' \in Nat /\ untold' \in BOOLEAN
    BY <1>1, <1>3 DEF SettingsTyped
  <1>7. RequestBecomes(c, r) /\ SettingsTyped' /\ CopiesFresh'
    BY <1>1, <1>2, <1>4, <1>5, <1>6, PushFresh
  <1>8. CreditFresh'
    <2> SUFFICES ASSUME ~untold' PROVE
        /\ \E d \in SettingClients : Telling(d)'
        /\ \A d \in SettingClients : Telling(d)' => scall'[d].new = credit'
      BY DEF CreditFresh
    <2>1. /\ scall'[c] = r
          /\ \A d \in SettingClients \ {c} : scall'[d].at = scall[d].at /\ scall'[d].name = scall[d].name
      BY <1>7 DEF RequestBecomes
    <2>2. /\ credit' = scall[c].new /\ scall[c].name = "gitlab"
          /\ ~OtherCalls(c, "gitlab", {"save", "set", "insert"})
      BY <1>3
    <2>3. \A d \in SettingClients \ {c} : ~Telling(d)'
      BY <2>1, <2>2 DEF OtherCalls, Telling
    <2>4. Telling(c)'
      BY <1>4, <2>1, <2>2 DEF Telling
    <2> QED BY <1>4, <2>1, <2>2, <2>3, <2>4
  <1> QED BY <1>7, <1>8 DEF SettingsInv

LEMMA PushJenkinsFresh ==
    ASSUME SettingsInv, NEW c \in SettingClients, PushJenkins(c)
    PROVE  SettingsInv'
  <1> DEFINE at == IF IsCreate(c) THEN "insert" ELSE "save"
             step == [scall[c] EXCEPT !.at = at]
             J == IF IsCreate(c) THEN cached["jenkins"] ELSE Served("jenkins")
  <1>1. /\ SettingsTyped /\ scall[c].type = "jenkins" /\ scall[c].at = "push" /\ untold \in BOOLEAN
        /\ "jenkins" \in Keys /\ "gitlab" \in Keys \ ByType /\ scall[c].name \in Keys
        /\ UNCHANGED <<form, value, edits, raced>>
    BY SettingsAssumption DEF SettingsInv, SettingsTyped, PushJenkins, Keys
  <1>2. at \in {"insert", "save"} /\ at \in EditSteps
    BY DEF EditSteps
  <1>3. step \in Edit /\ step.at = at /\ step.name = scall[c].name /\ step.type = "jenkins"
    BY <1>1, <1>2, StepTaken
  <1>4. PICK r \in {NoEdit, step} : scall' = [scall EXCEPT ![c] = r]
    BY DEF PushJenkins, SettingEnds, Pushed, SettingAt
  <1>5. \/ credit' = credit /\ untold' = untold
        \/ /\ credit' \in {Served("gitlab"), credit} /\ untold' \in BOOLEAN
           /\ ~untold' => /\ "gitlab" \notin raced /\ ~Mistyped(c) /\ credit' = Served("gitlab")
                          /\ ~OtherCalls(c, "gitlab", {"push", "save", "set", "insert"})
    BY DEF PushJenkins, OtherCalls, Mistyped
  <1>6. r \in Edit /\ r.at \in {"idle", "insert", "save"} /\ (r.at # "idle" => r.name \in Keys)
        /\ ~(r.at = "save" /\ r.name = "gitlab" /\ r.type = "gitlab")
    BY <1>1, <1>2, <1>3, NoEditIsEdit
  <1>7. Served("gitlab") \in Nat /\ J \in Nat
    BY <1>1, ServedFresh DEF SettingsTyped
  <1>8. cached' \in [Keys -> Nat] /\ \A k \in Keys : cached'[k] = cached[k] \/ cached'[k] = Served(k)
    <2>1. cached' = [cached EXCEPT !["gitlab"] = Served("gitlab"), !["jenkins"] = J]
      BY DEF PushJenkins
    <2>2. J = cached["jenkins"] \/ J = Served("jenkins")
      OBVIOUS
    <2> HIDE DEF J
    <2> QED BY <1>1, <1>7, <2>1, <2>2 DEF SettingsTyped
  <1> HIDE DEF at, step, J
  <1>9. credit' \in Nat /\ untold' \in BOOLEAN
    BY <1>1, <1>5, <1>7 DEF SettingsTyped
  <1>10. RequestBecomes(c, r) /\ SettingsTyped' /\ CopiesFresh'
    BY <1>1, <1>4, <1>6, <1>8, <1>9, PushFresh
  <1>11. CreditFresh'
    <2>1. CASE credit' = credit /\ untold' = untold
      <3>1. ~Telling(c)
        BY <1>1 DEF Telling
      <3> QED BY <1>1, <1>6, <1>10, <2>1, <3>1, NothingTold
    <2>2. CASE ~untold' => /\ "gitlab" \notin raced /\ ~Mistyped(c) /\ credit' = Served("gitlab")
                           /\ ~OtherCalls(c, "gitlab", {"push", "save", "set", "insert"})
      <3> SUFFICES ASSUME ~untold' PROVE
          /\ Kept("gitlab", credit)'
          /\ \A d \in SettingClients : ~Telling(d)'
        BY DEF CreditFresh
      <3>1. scall'[c] = r /\ \A d \in SettingClients \ {c} : scall'[d].at = scall[d].at /\ scall'[d].name = scall[d].name
        BY <1>10 DEF RequestBecomes
      <3>2. \A d \in SettingClients : ~(scall[d].name = "gitlab" /\ scall[d].at \in {"save", "set"})
        BY <1>1, <2>2 DEF OtherCalls
      <3>3. ~Editing("gitlab", {"set"})
        BY <3>2 DEF Editing
      <3>4. Kept("gitlab", Served("gitlab"))
        BY <1>1, <2>2, <3>3, ServedFresh
      <3>5. Kept("gitlab", credit)'
        BY <1>1, <2>2, <3>4 DEF Kept
      <3>6. \A d \in SettingClients : ~Telling(d)'
        BY <1>6, <3>1, <3>2 DEF Telling
      <3> QED BY <3>5, <3>6
    <2> QED BY <1>5, <2>1, <2>2
  <1> QED BY <1>10, <1>11 DEF SettingsInv

LEMMA SaveFresh ==
    ASSUME SettingsInv, NEW c \in SettingClients, SettingSave(c)
    PROVE  SettingsInv'
  <1> DEFINE s == scall[c].name
             r == [scall[c] EXCEPT !.at = "set"]
  <1>1. /\ SettingsTyped /\ s \in Keys /\ scall[c].new \in Nat /\ scall[c].at \in {"save", "insert"}
        /\ untold \in BOOLEAN /\ scall[c].type \in FormTypes
    BY DEF SettingsInv, SettingsTyped, SettingSave, Edit
  <1>2. PICK i \in SettingRows :
          /\ form' = [form EXCEPT ![i] = [name |-> s, type |-> scall[c].type]]
          /\ value' = [k \in Keys |-> IF k = s THEN scall[c].new ELSE IF k = form[i].name THEN 0 ELSE value[k]]
          /\ scall' = [d \in SettingClients |-> IF d = c THEN r
                       ELSE [scall[d] EXCEPT !.late = @ \/ scall[d].name = s]]
          /\ raced' = IF OtherCalls(c, s, {"refill", "set"}) THEN raced \cup {s} ELSE raced
          /\ untold' = (\/ untold \/ Mistyped(c) \/ (s = "gitlab" /\ IsCreate(c))
                        \/ (s = "jenkins" /\ ~IsCreate(c) /\ form[i].name # s))
          /\ UNCHANGED <<cached, credit, edits>>
    BY DEF SettingSave
  <1>3. untold' \in BOOLEAN /\ (~untold' => ~untold /\ ~Mistyped(c) /\ (s = "gitlab" => ~IsCreate(c)))
    BY <1>1, <1>2
  <1>4. r \in Edit /\ r.at = "set" /\ r.name = s /\ r.new = scall[c].new
    BY <1>1, StepTaken DEF EditSteps
  <1> HIDE DEF r
  <1>5. RequestBecomes(c, r) /\ \A d \in SettingClients \ {c} : scall[d].name = s => scall'[d].late
    BY <1>1, <1>2, <1>4, Lated
  <1>6. /\ scall'[c] = r /\ value'[s] = scall[c].new /\ \A k \in Keys \ {s} : value'[k] \in {0, value[k]}
        /\ value' \in [Keys -> Nat]
    BY <1>1, <1>2, <1>5 DEF RequestBecomes, SettingsTyped
  <1>7. SettingsTyped'
    <2>1. \A d \in SettingClients : scall'[d].at # "idle" => scall'[d].name \in Keys
      BY <1>1, <1>4, <1>5, NamesStay
    <2>2. form' \in [SettingRows -> RowForm] /\ \A j \in SettingRows : form'[j].type \in ByType => form'[j].name \in Keys
      BY <1>1, <1>2 DEF SettingsTyped, RowForm
    <2> QED BY <1>1, <1>2, <1>3, <1>5, <1>6, <2>1, <2>2 DEF SettingsTyped, RequestBecomes
  <1>8. /\ \A k \in Keys \ {s} : \A v : Kept(k, v) => (value'[k] # 0 => v = value'[k])
        /\ \A d \in SettingClients \ {c} :
             /\ scall'[d].at = scall[d].at /\ scall'[d].name = scall[d].name
             /\ scall'[d].type = scall[d].type /\ scall'[d].new = scall[d].new
             /\ ~scall'[d].late => ~scall[d].late
    BY <1>5, <1>6 DEF RequestBecomes, Kept
  <1>9. CopiesFresh'
    <2>1. ASSUME NEW k \in Keys \ (ByType \cup raced')
          PROVE  cached'[k] = 0 \/ (value'[k] # 0 => cached'[k] = value'[k]) \/ Editing(k, {"set"})'
      <3>1. CASE k = s
        BY <1>4, <1>6, <3>1 DEF Editing
      <3>2. CASE k # s
        <4>1. k \notin raced
          BY <1>2
        <4>2. cached[k] = 0 \/ Kept(k, cached[k]) \/ Editing(k, {"set"})
          BY <4>1 DEF SettingsInv, CopiesFresh
        <4>3. ASSUME NEW d \in SettingClients, scall[d].name = k, scall[d].at = "set"
              PROVE  Editing(k, {"set"})'
          <5>1. d # c
            BY <3>2, <4>3
          <5> QED BY <1>8, <4>3, <5>1 DEF Editing
        <4>4. cached'[k] = cached[k]
          BY <1>2
        <4> QED BY <1>8, <3>2, <4>2, <4>3, <4>4 DEF Editing
      <3> QED BY <3>1, <3>2
    <2>2. ASSUME NEW d \in SettingClients, scall'[d].at \in {"refill", "set"}, scall'[d].name \notin ByType \cup raced'
          PROVE  value'[scall'[d].name] # 0 => scall'[d].new = value'[scall'[d].name]
      <3>1. CASE d = c
        BY <1>4, <1>6, <3>1
      <3>2. CASE d # c
        <4>1. scall[d].at \in {"refill", "set"} /\ scall[d].name \notin ByType \cup raced'
          BY <1>8, <2>2, <3>2
        <4>2. scall[d].name # s
          BY <1>2, <3>2, <4>1 DEF OtherCalls
        <4>3. scall[d].name \in Keys /\ scall[d].name \notin raced
          BY <1>1, <1>2, <4>1 DEF SettingsTyped
        <4>4. Kept(scall[d].name, scall[d].new)
          BY <4>1, <4>3 DEF SettingsInv, CopiesFresh
        <4> QED BY <1>8, <3>2, <4>2, <4>3, <4>4
      <3> QED BY <3>1, <3>2
    <2>3. ASSUME NEW d \in SettingClients, scall'[d].at = "set", ~scall'[d].late, scall'[d].name \notin ByType
          PROVE  value'[scall'[d].name] # 0 => scall'[d].new = value'[scall'[d].name]
      <3>1. CASE d = c
        BY <1>4, <1>6, <3>1
      <3>2. CASE d # c
        <4>1. scall[d].at = "set" /\ ~scall[d].late /\ scall[d].name # s /\ scall[d].name \notin ByType
          BY <1>5, <1>8, <2>3, <3>2
        <4>2. Kept(scall[d].name, scall[d].new) /\ scall[d].name \in Keys
          BY <1>1, <4>1 DEF SettingsInv, CopiesFresh, SettingsTyped
        <4> QED BY <1>8, <3>2, <4>1, <4>2
      <3> QED BY <3>1, <3>2
    <2> QED BY <2>1, <2>2, <2>3 DEF CopiesFresh, Kept
  <1>10. CreditFresh'
    <2> SUFFICES ASSUME ~untold' PROVE
        /\ (value'["gitlab"] # 0 => credit = value'["gitlab"]) \/ \E d \in SettingClients : Telling(d)'
        /\ \A d \in SettingClients : Telling(d)' => scall'[d].new = credit
      BY <1>2 DEF CreditFresh, Kept
    <2>1. /\ Kept("gitlab", credit) \/ \E d \in SettingClients : Telling(d)
          /\ \A d \in SettingClients : Telling(d) => scall[d].new = credit
      BY <1>3 DEF SettingsInv, CreditFresh
    <2>2. ~Telling(c)' /\ \A d \in SettingClients \ {c} : Telling(d)' <=> Telling(d)
      BY <1>4, <1>6, <1>8 DEF Telling
    <2>3. \A d \in SettingClients : Telling(d)' => scall'[d].new = credit
      BY <1>8, <2>1, <2>2
    <2>4. CASE Telling(c)
      BY <1>6, <2>1, <2>3, <2>4 DEF Telling
    <2>5. CASE ~Telling(c) /\ s = "gitlab"
      <3>1. scall[c].type = "gitlab" /\ ~IsCreate(c)
        BY <1>3, <2>5 DEF Mistyped
      <3>2. scall[c].at = "save"
        BY <3>1 DEF SettingSave
      <3> QED BY <2>5, <3>1, <3>2 DEF Telling
    <2>6. CASE ~Telling(c) /\ s # "gitlab"
      <3>1. "gitlab" \in Keys \ {s}
        BY <2>6 DEF Keys
      <3> QED BY <1>8, <2>1, <2>2, <2>3, <2>6, <3>1
    <2> QED BY <2>4, <2>5, <2>6
  <1> QED BY <1>7, <1>9, <1>10 DEF SettingsInv

LEMMA SetFresh ==
    ASSUME SettingsInv, NEW c \in SettingClients, SetCached(c)
    PROVE  SettingsInv'
  <1> DEFINE s == scall[c].name
  <1>1. SettingsTyped /\ s \in Keys /\ scall[c].new \in Nat /\ scall[c].at = "set"
    BY DEF SettingsInv, SettingsTyped, SetCached, Edit
  <1>2. /\ scall' = [scall EXCEPT ![c] = NoEdit] /\ UNCHANGED <<form, value, credit, edits, untold>>
        /\ cached' = [cached EXCEPT ![s] = scall[c].new]
        /\ raced' = IF scall[c].late \/ OtherCalls(c, s, {"refill", "set"}) THEN raced ELSE raced \ {s}
    BY DEF SetCached, SettingEnds
  <1>3. NoEdit \in Edit /\ NoEdit.at = "idle" /\ NoEdit.name = "none"
    BY NoEditIsEdit
  <1>4. RequestBecomes(c, NoEdit) /\ \A d \in SettingClients \ {c} : scall'[d] = scall[d]
    BY <1>1, <1>2, <1>3, OneRequest
  <1>5. SettingsTyped'
    <2>1. \A d \in SettingClients : scall'[d].at # "idle" => scall'[d].name \in Keys
      BY <1>1, <1>3, <1>4, NamesStay
    <2>2. cached' \in [Keys -> Nat]
      BY <1>1, <1>2 DEF SettingsTyped
    <2> QED BY <1>1, <1>2, <1>4, <2>1, <2>2 DEF SettingsTyped, RequestBecomes
  <1>6. s \notin ByType \cup raced' => Kept(s, scall[c].new)
    <2> SUFFICES ASSUME s \notin ByType \cup raced' PROVE Kept(s, scall[c].new)
      OBVIOUS
    <2>1. s \notin raced \/ ~scall[c].late
      BY <1>2
    <2> QED BY <1>1, <2>1 DEF SettingsInv, CopiesFresh
  <1>7. CopiesFresh'
    <2>1. ASSUME NEW k \in Keys \ (ByType \cup raced')
          PROVE  cached'[k] = 0 \/ Kept(k, cached'[k]) \/ Editing(k, {"set"})'
      <3>1. CASE k = s
        BY <1>1, <1>2, <1>6, <3>1 DEF SettingsTyped
      <3>2. CASE k # s
        <4>1. k \notin raced /\ cached'[k] = cached[k]
          BY <1>1, <1>2, <3>2 DEF SettingsTyped
        <4>2. cached[k] = 0 \/ Kept(k, cached[k]) \/ Editing(k, {"set"})
          BY <4>1 DEF SettingsInv, CopiesFresh
        <4>3. ASSUME NEW d \in SettingClients, scall[d].name = k, scall[d].at = "set"
              PROVE  Editing(k, {"set"})'
          <5>1. d # c
            BY <3>2, <4>3
          <5> QED BY <1>4, <4>3, <5>1 DEF Editing
        <4> QED BY <4>1, <4>2, <4>3 DEF Editing
      <3> QED BY <3>1, <3>2
    <2>2. ASSUME NEW d \in SettingClients, scall'[d].at \in {"refill", "set"}, scall'[d].name \notin ByType \cup raced'
          PROVE  Kept(scall'[d].name, scall'[d].new)
      <3>1. d # c /\ scall'[d] = scall[d]
        BY <1>3, <1>4, <2>2 DEF RequestBecomes
      <3>2. scall[d].name \notin ByType \cup raced
        <4>1. CASE scall[d].name = s
          BY <1>2, <2>2, <3>1, <4>1 DEF OtherCalls
        <4>2. CASE scall[d].name # s
          BY <1>2, <2>2, <3>1, <4>2
        <4> QED BY <4>1, <4>2
      <3> QED BY <1>2, <2>2, <3>1, <3>2 DEF SettingsInv, CopiesFresh
    <2>3. ASSUME NEW d \in SettingClients, scall'[d].at = "set", ~scall'[d].late, scall'[d].name \notin ByType
          PROVE  Kept(scall'[d].name, scall'[d].new)
      <3>1. d # c /\ scall'[d] = scall[d]
        BY <1>3, <1>4, <2>3 DEF RequestBecomes
      <3> QED BY <1>2, <2>3, <3>1 DEF SettingsInv, CopiesFresh
    <2> QED BY <1>2, <2>1, <2>2, <2>3 DEF CopiesFresh, Kept
  <1>8. CreditFresh'
    <2>1. ~Telling(c)
      BY <1>1 DEF Telling
    <2> QED BY <1>2, <1>3, <1>4, <2>1, NothingTold
  <1> QED BY <1>5, <1>7, <1>8 DEF SettingsInv

LEMMA DestroyFresh ==
    ASSUME SettingsInv, NEW i \in SettingRows, SettingDestroy(i)
    PROVE  SettingsInv'
  <1>1. SettingsTyped
    BY DEF SettingsInv
  <1>2. /\ form' = [form EXCEPT ![i] = NoForm] /\ value' = [value EXCEPT ![form[i].name] = 0]
        /\ UNCHANGED <<cached, credit, scall, edits, raced, untold>>
    BY DEF SettingDestroy
  <1>3. NoForm \in RowForm /\ NoForm.type \notin ByType
    BY SettingsAssumption DEF NoForm, RowForm, FormTypes
  <1>4. SettingsTyped'
    BY <1>1, <1>2, <1>3 DEF SettingsTyped
  <1>5. \A k \in Keys : \A v : Kept(k, v) => (value'[k] # 0 => v = value'[k])
    BY <1>1, <1>2 DEF SettingsTyped, Kept
  <1>6. /\ \A k \in Keys : Editing(k, {"set"})' <=> Editing(k, {"set"})
        /\ \A d \in SettingClients : Telling(d)' <=> Telling(d)
    BY <1>2 DEF Editing, Telling
  <1>7. \A d \in SettingClients : scall[d].at # "idle" => scall[d].name \in Keys
    BY <1>1 DEF SettingsTyped
  <1>8. CopiesFresh'
    <2>1. \A k \in Keys \ (ByType \cup raced) :
             cached[k] = 0 \/ (value'[k] # 0 => cached[k] = value'[k]) \/ Editing(k, {"set"})'
      BY <1>5, <1>6 DEF SettingsInv, CopiesFresh
    <2>2. ASSUME NEW d \in SettingClients, scall[d].at \in {"refill", "set"}, scall[d].name \notin ByType \cup raced
          PROVE  value'[scall[d].name] # 0 => scall[d].new = value'[scall[d].name]
      BY <1>5, <1>7, <2>2 DEF SettingsInv, CopiesFresh
    <2>3. ASSUME NEW d \in SettingClients, scall[d].at = "set", ~scall[d].late, scall[d].name \notin ByType
          PROVE  value'[scall[d].name] # 0 => scall[d].new = value'[scall[d].name]
      BY <1>5, <1>7, <2>3 DEF SettingsInv, CopiesFresh
    <2> QED BY <1>2, <2>1, <2>2, <2>3 DEF CopiesFresh, Kept
  <1>9. CreditFresh'
    <2>1. "gitlab" \in Keys
      BY DEF Keys
    <2>2. Kept("gitlab", credit) => Kept("gitlab", credit)'
      BY <1>2, <1>5, <2>1 DEF Kept
    <2> QED BY <1>2, <1>6, <2>2 DEF SettingsInv, CreditFresh
  <1> QED BY <1>4, <1>8, <1>9 DEF SettingsInv

LEMMA SettingsStep == SettingsInv /\ [SettingsNext]_settingVars => SettingsInv'
  <1> SUFFICES ASSUME SettingsInv, [SettingsNext]_settingVars PROVE SettingsInv'
    OBVIOUS
  <1>1. CASE UNCHANGED settingVars
    BY <1>1 DEF settingVars, SettingsInv, SettingsTyped, CopiesFresh, CreditFresh, Editing, Kept, Telling
  <1>2. CASE SettingsNext
    <2>1. ASSUME NEW c \in SettingClients, SettingStep(c) PROVE SettingsInv'
      BY <2>1, RefillFresh, PushNoneFresh, PushGitlabFresh, PushJenkinsFresh, SaveFresh, SetFresh DEF SettingStep
    <2> QED BY <1>2, <2>1, ReadingFresh, BeginningsFresh, StopsFresh, DestroyFresh DEF SettingsNext
  <1> QED BY <1>1, <1>2

(* Settings: what readers are served, and what Jenkins has been told, is    *)
(* the row, for any number of settings, names, clients and edits, renamings *)
(* included, except where CopiesFollowRow says it is not.                   *)
THEOREM CopiesStayFresh == SettingsSpec => []CopiesFollowRow
  <1>1. SettingsInv => CopiesFollowRow
    <2> SUFFICES ASSUME SettingsInv PROVE CopiesFollowRow
      OBVIOUS
    <2>1. \A c \in SettingClients : Telling(c) => Editing("gitlab", {"save", "set"})
      BY DEF Editing, Telling
    <2> QED BY <2>1 DEF SettingsInv, CopiesFresh, CreditFresh, CopiesFollowRow, Kept
  <1> QED BY <1>1, SettingsStart, SettingsStep, PTL DEF SettingsSpec

-----------------------------------------------------------------------------
(* Roles: the tree of menus may be anything, the user holds what there is.   *)
AccessTyped ==
    /\ parent \in [Menus -> Menus \cup {0}]
    /\ menus \in [Roles -> SUBSET Menus] /\ perms \in [Roles -> SUBSET Perms]
    /\ roles \subseteq Roles /\ holds \subseteq Roles /\ default \in Roles \cup {0} /\ super \in BOOLEAN

LEMMA AccessInductive == AccessSpec => []AccessTyped
  <1>1. AccessInit => AccessTyped
    BY DEF AccessInit, AccessTyped
  <1>2. AccessTyped /\ [AccessNext]_accessVars => AccessTyped'
    <2> SUFFICES ASSUME AccessTyped, [AccessNext]_accessVars PROVE AccessTyped'
      OBVIOUS
    <2>1. CASE UNCHANGED accessVars
      BY <2>1 DEF accessVars, AccessTyped
    <2>2. ASSUME NEW m \in Menus, NEW p \in Menus \cup {0}, MenuUpdate(m, p) PROVE AccessTyped'
      BY <2>2 DEF AccessTyped, MenuUpdate
    <2>3. ASSUME NEW r \in Roles, RoleDestroy(r) PROVE AccessTyped'
      BY <2>3 DEF AccessTyped, RoleDestroy
    <2>4. ASSUME NEW r \in Roles, NEW ms \in SUBSET Menus, NEW ps \in SUBSET Perms, RoleSave(r, ms, ps)
          PROVE  AccessTyped'
      BY <2>4 DEF AccessTyped, RoleSave
    <2>5. ASSUME NEW rs \in SUBSET Roles, NEW s \in BOOLEAN, UserUpdate(rs, s) PROVE AccessTyped'
      BY <2>5 DEF AccessTyped, UserUpdate
    <2>6. CASE Login
      BY <2>6 DEF AccessTyped, Login
    <2> QED BY <2>1, <2>2, <2>3, <2>4, <2>5, <2>6 DEF AccessNext
  <1> QED BY <1>1, <1>2, PTL DEF AccessSpec

(* A menu is its own ancestor, and has those of its parent.                 *)
LEMMA AncestorsOfParent ==
    ASSUME NEW m \in Menus
    PROVE  m \in Ancestors(m) /\ (parent[m] \in Menus => Ancestors(parent[m]) \subseteq Ancestors(m))
  <1>1. m \in Ancestors(m)
    BY DEF Ancestors
  <1>2. ASSUME parent[m] \in Menus, NEW k \in Ancestors(parent[m]) PROVE k \in Ancestors(m)
    <2> SUFFICES ASSUME NEW S \in SUBSET Menus, m \in S, \A x \in S : parent[x] \in S \cup {0}
                 PROVE  k \in S
      BY <1>2 DEF Ancestors
    <2>1. parent[m] \in S
      BY <1>2, AccessAssumption
    <2> QED BY <1>2, <2>1 DEF Ancestors
  <1> QED BY <1>1, <1>2

(* The tree of some menus, none of which misses its parent: what is shown   *)
(* is what is rooted.                                                       *)
LEMMA TreeShown ==
    ASSUME AccessTyped, NEW G \in SUBSET Menus, \A m \in G : parent[m] \in G \cup {0}
    PROVE  Reached(Tree(G)) = {m \in G : Rooted(m)}
  <1>1. /\ \A k \in Menus : Tree(G).top[k] > 0 <=> k \in G /\ parent[k] = 0
        /\ \A k \in Menus : Tree(G).under[k] = {x \in G : parent[x] = k}
    BY DEF Tree
  <1>2. ASSUME NEW m \in Reached(Tree(G)) PROVE m \in G /\ Rooted(m)
    <2> DEFINE S == {k \in G : Rooted(k)}
    <2>1. \A k \in Menus : Tree(G).top[k] > 0 => k \in S
      BY <1>1, AncestorsOfParent DEF Rooted
    <2>2. ASSUME NEW k \in S, NEW x \in Tree(G).under[k] PROVE x \in S
      <3>1. x \in G /\ parent[x] = k /\ k \in Menus /\ x \in Menus
        BY <1>1, <2>2
      <3>2. Ancestors(k) \subseteq Ancestors(x)
        BY <3>1, AncestorsOfParent
      <3> QED BY <3>1, <3>2 DEF Rooted
    <2>3. S \in SUBSET Menus /\ \A k \in S : Tree(G).under[k] \subseteq S
      BY <1>1, <2>2
    <2> HIDE DEF S
    <2>4. m \in S
      BY <2>1, <2>3 DEF Reached
    <2> QED BY <2>4 DEF S
  <1>3. ASSUME NEW m \in G, Rooted(m), m \notin Reached(Tree(G)) PROVE FALSE
    <2>1. PICK S \in SUBSET Menus : /\ \A k \in Menus : Tree(G).top[k] > 0 => k \in S
                                    /\ \A k \in S : Tree(G).under[k] \subseteq S
                                    /\ m \notin S
      BY <1>1, <1>3 DEF Reached
    <2> DEFINE T == G \ S
    <2>2. ASSUME NEW x \in T PROVE parent[x] \in T
      <3>1. parent[x] \in G \cup {0}
        OBVIOUS
      <3>2. parent[x] # 0
        BY <1>1, <2>1
      <3>3. parent[x] \notin S
        BY <1>1, <2>1
      <3> QED BY <3>1, <3>2, <3>3
    <2>3. T \in SUBSET Menus /\ m \in T
      BY <1>1, <2>1
    <2> HIDE DEF T
    <2>4. Ancestors(m) \subseteq T
      BY <2>2, <2>3 DEF Ancestors
    <2>5. PICK k \in T : parent[k] = 0
      BY <1>3, <2>4 DEF Rooted
    <2>6. 0 \in Menus
      BY <2>2, <2>3, <2>5
    <2> QED BY <2>6, AccessAssumption
  <1>4. Reached(Tree(G)) \subseteq {m \in G : Rooted(m)}
    BY <1>2
  <1>5. {m \in G : Rooted(m)} \subseteq Reached(Tree(G))
    BY <1>3
  <1> QED BY <1>4, <1>5

(* The flat list: every menu of a role stands at the top, and what hangs on *)
(* another is one of them.                                                  *)
LEMMA ListShown ==
    ASSUME AccessTyped, ~SeesAll, Missing, NEW hung \in MayHang
    PROVE  /\ Reached(Routers(hung)) = Granted
           /\ \A k \in Menus : Routers(hung).under[k] = {x \in hung : parent[x] = k}
  <1>1. Granted \subseteq Menus /\ hung \subseteq Granted
    BY DEF Granted, AccessTyped, MayHang
  <1>2. \A k \in Menus : Routers(hung).top[k] > 0 <=> k \in Granted
    <2> SUFFICES ASSUME NEW k \in Menus PROVE Routers(hung).top[k] > 0 <=> k \in Granted
      OBVIOUS
    <2> DEFINE R == {r \in holds : k \in menus[r]}
    <2>1. Routers(hung).top[k] = Cardinality(R)
      BY DEF Routers
    <2>2. R \subseteq Roles
      BY DEF AccessTyped
    <2>3. IsFiniteSet(R)
      BY <2>2, AccessAssumption, FS_Subset
    <2>4. k \in Granted <=> R # {}
      BY DEF Granted
    <2> HIDE DEF R
    <2>5. Cardinality(R) \in Nat /\ (Cardinality(R) = 0 <=> R = {})
      BY <2>3, FS_EmptySet, FS_CardinalityType
    <2> QED BY <2>1, <2>4, <2>5
  <1>3. \A k \in Menus : Routers(hung).under[k] = {x \in hung : parent[x] = k}
    BY DEF Routers
  <1>4. ASSUME NEW m \in Reached(Routers(hung)) PROVE m \in Granted
    <2>1. \A k \in Granted : Routers(hung).under[k] \subseteq Granted
      BY <1>1, <1>3
    <2> QED BY <1>1, <1>2, <2>1 DEF Reached
  <1>5. ASSUME NEW m \in Granted PROVE m \in Reached(Routers(hung))
    BY <1>1, <1>2 DEF Reached
  <1> QED BY <1>3, <1>4, <1>5

(* Menus that hang on each other have no root above them.                   *)
LEMMA EndlessUnrooted ==
    ASSUME AccessTyped, NEW shown, Endless(shown),
           \A k \in Menus : \A x \in shown.under[k] : parent[x] = k
    PROVE  \E m \in Reached(shown) : ~Rooted(m)
  <1> DEFINE R == Reached(shown)
  <1>0. R \subseteq Menus
    BY DEF Reached
  <1>1. PICK S \in SUBSET R : S # {} /\ \A k \in S : \E m \in S : k \in shown.under[m]
    <2> HIDE DEF R
    <2>1. \E S \in (SUBSET R) \ {{}} : \A k \in S : \E m \in S : k \in shown.under[m]
      BY Zenon DEF Endless, R
    <2> QED BY <2>1
  <1>2. S \subseteq Menus
    BY <1>0, <1>1
  <1>3. \A k \in S : parent[k] \in S
    BY <1>1, <1>2
  <1>4. PICK m \in S : TRUE
    BY <1>1
  <1>5. Ancestors(m) \subseteq S
    BY <1>2, <1>3, <1>4 DEF Ancestors
  <1>6. \A k \in S : parent[k] # 0
    BY <1>2, <1>3, AccessAssumption
  <1> QED BY <1>1, <1>4, <1>5, <1>6 DEF Rooted

(* What is shown, whatever had been hung before a parent was missed.        *)
LEMMA RoutersShown ==
    ASSUME AccessTyped, NEW hung \in MayHang
    PROVE  /\ Reached(Routers(hung)) =
                 IF SeesAll THEN {m \in Menus : Rooted(m)} ELSE {m \in Granted : Missing \/ Rooted(m)}
           /\ Endless(Routers(hung)) => ~SeesAll /\ Missing /\ \E m \in Granted : ~Rooted(m)
  <1>1. \A G \in SUBSET Menus : \A k \in Menus : \A x \in Tree(G).under[k] : parent[x] = k
    BY DEF Tree
  <1>2. CASE SeesAll
    <2>1. Routers(hung) = Tree(Menus) /\ \A m \in Menus : parent[m] \in Menus \cup {0}
      BY <1>2 DEF Routers, AccessTyped
    <2>2. Reached(Routers(hung)) = {m \in Menus : Rooted(m)}
      BY <2>1, TreeShown
    <2>3. ~Endless(Routers(hung))
      BY <1>1, <2>1, <2>2, EndlessUnrooted
    <2> QED BY <1>2, <2>2, <2>3
  <1>3. CASE ~SeesAll /\ ~Missing
    <2>1. /\ Routers(hung) = Tree(Granted) /\ Granted \in SUBSET Menus
          /\ \A m \in Granted : parent[m] \in Granted \cup {0}
      BY <1>3 DEF Routers, Missing, AccessTyped, Granted
    <2>2. Reached(Routers(hung)) = {m \in Granted : Rooted(m)}
      BY <2>1, TreeShown
    <2>3. ~Endless(Routers(hung))
      BY <1>1, <2>1, <2>2, EndlessUnrooted
    <2> QED BY <1>3, <2>2, <2>3
  <1>4. CASE ~SeesAll /\ Missing
    <2>1. /\ Reached(Routers(hung)) = Granted
          /\ \A k \in Menus : \A x \in Routers(hung).under[k] : parent[x] = k
      BY <1>4, ListShown
    <2>2. Endless(Routers(hung)) => \E m \in Granted : ~Rooted(m)
      BY <2>1, EndlessUnrooted
    <2> QED BY <1>4, <2>1, <2>2
  <1> QED BY <1>2, <1>3, <1>4

(* A view: what one of the roles lets through, and nothing else.            *)
LEMMA AllowsAdds ==
    ASSUME NEW q
    PROVE  Allows(holds, q) <=> \E r \in holds : Allows({r}, q)
  <1>1. \A r : PermsOf({r}) = perms[r]
    BY DEF PermsOf
  <1>2. \A x : x \in PermsOf(holds) <=> \E r \in holds : x \in perms[r]
    BY DEF PermsOf
  <1>3. ASSUME Allows(holds, q) PROVE \E r \in holds : Allows({r}, q)
    <2>1. PICK entry \in PermsMap : Fits(entry, holds, q)
      BY <1>3 DEF Allows
    <2>2. CASE AdminRole \in holds /\ entry.key = "*" /\ entry.perm = "admin"
      <3>1. Fits(entry, {AdminRole}, q)
        BY <2>2 DEF Fits
      <3>2. Allows({AdminRole}, q)
        BY <3>1 DEF Allows
      <3> QED BY <2>2, <3>2
    <2>3. CASE entry.perm \in PermsOf(holds) /\ entry.key \in {"*", q.method, q.custom, q.any}
      <3>1. PICK r \in holds : entry.perm \in PermsOf({r})
        <4>1. PICK r \in holds : entry.perm \in perms[r]
          BY <2>3 DEF PermsOf
        <4> QED BY <4>1 DEF PermsOf
      <3>2. Fits(entry, {r}, q)
        BY <2>3, <3>1 DEF Fits
      <3>3. Allows({r}, q)
        BY <3>1, <3>2 DEF Allows
      <3> QED BY <3>3
    <2> QED BY <2>1, <2>2, <2>3 DEF Fits
  <1>4. ASSUME NEW r \in holds, Allows({r}, q) PROVE Allows(holds, q)
    <2>1. PICK entry \in PermsMap : Fits(entry, {r}, q)
      BY <1>4 DEF Allows
    <2>2. PermsOf({r}) \subseteq PermsOf(holds)
      BY <1>1, <1>2
    <2>3. Fits(entry, holds, q)
      BY <2>1, <2>2 DEF Fits
    <2>4. AdminRole \in holds \/ PermsOf(holds) # {}
      BY <1>4, <2>2 DEF Allows
    <2> QED BY <2>3, <2>4 DEF Allows
  <1> QED BY <1>3, <1>4

(* Roles add up: for any tree of menus, cycles included, any order in which *)
(* they are hung, any roles and any map of permissions.                     *)
THEOREM RolesAlwaysAdd == AccessSpec => []RolesAdd
  <1>1. AccessTyped => RolesAdd
    BY RoutersShown, AllowsAdds DEF RolesAdd
  <1> QED BY <1>1, AccessInductive, PTL

-----------------------------------------------------------------------------
(* Ticket forms: lists of nodes, and what a client has opened.              *)
FormNodes == {nodes \in Seq(FormNode) : \A i \in DOMAIN nodes : nodes[i].id \in Ids}

Page == [kind : {"none", "new", "handle", "edit"}, nodes : FormNodes, node : Ids \cup {"none"}, stale : BOOLEAN]

FormTyped ==
    /\ design \in Layouts /\ revision \in FormNodes /\ node \in Ids \cup {"none"}
    /\ page \in [FormClients -> Page]
    /\ chosen \in [Ids -> SUBSET FormUsers] /\ bound \in [Ids -> SUBSET FormUsers]

(* Who has read the revision since it was last written has it as it is.     *)
PagesFresh ==
    \A c \in FormClients : page[c].kind \in {"handle", "edit"} /\ ~page[c].stale => page[c].nodes = revision

FormInv == FormTyped /\ PagesFresh /\ MembersKept

LEMMA LayoutNodes == \A t \in Layouts : t \in FormNodes /\ t # <<>>
  <1> SUFFICES ASSUME NEW t \in Layouts PROVE t \in FormNodes /\ t # <<>>
    OBVIOUS
  <1>1. t \in Seq(FormNode) /\ Len(t) > 0
    BY FormAssumption
  <1>2. \A i \in DOMAIN t : t[i].id \in Ids
    BY DEF Ids
  <1> QED BY <1>1, <1>2 DEF FormNodes

LEMMA NoPageIsPage == NoPage \in Page /\ NoPage.kind = "none" /\ ~NoPage.stale
  <1>1. <<>> \in FormNodes
    BY DEF FormNodes
  <1>2. NoPage = [kind |-> "none", nodes |-> <<>>, node |-> "none", stale |-> FALSE]
    BY DEF NoPage
  <1>3. ~NoPage.stale /\ NoPage.kind = "none"
    BY <1>2
  <1> QED BY <1>1, <1>2, <1>3 DEF Page

LEMMA BindNodes ==
    ASSUME NEW nodes \in FormNodes, NEW n, NEW users \in SUBSET FormUsers
    PROVE  LET b == Bind(nodes, n, users)
           IN  /\ b \in FormNodes /\ DOMAIN b = DOMAIN nodes
               /\ \A i \in DOMAIN nodes : /\ b[i].id = nodes[i].id
                                          /\ nodes[i].id = n => b[i].members = users
                                          /\ nodes[i].id # n => b[i].members = nodes[i].members
  <1> DEFINE b == Bind(nodes, n, users)
  <1>1. nodes \in Seq(FormNode) /\ DOMAIN nodes = 1..Len(nodes) /\ Len(nodes) \in Nat
        /\ \A i \in DOMAIN nodes : nodes[i] \in FormNode
    BY DEF FormNodes
  <1>2. DOMAIN b = DOMAIN nodes
    BY DEF Bind
  <1>3. ASSUME NEW i \in DOMAIN nodes
        PROVE  /\ b[i] \in FormNode /\ b[i].id = nodes[i].id
               /\ nodes[i].id = n => b[i].members = users
               /\ nodes[i].id # n => b[i].members = nodes[i].members
    <2>1. b[i] = IF nodes[i].id = n THEN [nodes[i] EXCEPT !.members = users] ELSE nodes[i]
      BY DEF Bind
    <2>2. nodes[i] \in FormNode
      BY <1>1
    <2> HIDE DEF b
    <2> QED BY <2>1, <2>2 DEF FormNode
  <1>4. b = [i \in 1..Len(nodes) |-> b[i]]
    BY <1>1, <1>2 DEF Bind
  <1> HIDE DEF b
  <1>5. b \in Seq(FormNode)
    BY <1>1, <1>2, <1>3, <1>4
  <1>6. b \in FormNodes
    BY <1>2, <1>3, <1>5 DEF FormNodes
  <1> QED BY <1>2, <1>3, <1>6 DEF b

LEMMA FormStart == FormInit => FormInv
  <1> SUFFICES ASSUME FormInit PROVE FormInv
    OBVIOUS
  <1>1. /\ design \in Layouts /\ revision = <<>> /\ node = "none" /\ chosen = [n \in Ids |-> {}]
        /\ bound = [n \in Ids |-> {}] /\ \A c \in FormClients : page[c] = NoPage
    BY DEF FormInit
  <1>2. page \in [FormClients -> Page]
    BY NoPageIsPage DEF FormInit
  <1>3. <<>> \in FormNodes
    BY DEF FormNodes
  <1>4. FormTyped
    BY <1>1, <1>2, <1>3 DEF FormTyped
  <1>5. PagesFresh
    BY <1>1, NoPageIsPage DEF PagesFresh
  <1>6. MembersKept
    BY <1>1 DEF MembersKept
  <1> QED BY <1>4, <1>5, <1>6 DEF FormInv

(* Opening or closing a page.                                               *)
LEMMA PageTurned ==
    ASSUME FormInv, NEW c \in FormClients, NEW p \in Page, page' = [page EXCEPT ![c] = p],
           p.kind \in {"handle", "edit"} => p.nodes = revision,
           node' \in Ids \cup {"none"}, UNCHANGED <<design, revision, chosen, bound, mixed>>
    PROVE  FormInv'
  <1>1. FormTyped'
    BY DEF FormInv, FormTyped
  <1>2. \A d \in FormClients : page'[d] = IF d = c THEN p ELSE page[d]
    BY DEF FormInv, FormTyped
  <1>3. PagesFresh'
    BY <1>2 DEF FormInv, PagesFresh
  <1>4. MembersKept'
    BY DEF FormInv, MembersKept
  <1> QED BY <1>1, <1>3, <1>4 DEF FormInv

(* A write of the revision leaves no page fresh.                            *)
LEMMA WritesStale ==
    ASSUME FormTyped, NEW c \in FormClients, Writes(c)
    PROVE  page' \in [FormClients -> Page] /\ PagesFresh'
  <1>1. ASSUME NEW d \in FormClients
        PROVE  page'[d] \in Page /\ (page'[d].stale \/ page'[d].kind = "none")
    <2>1. CASE d = c
      <3>1. page'[d] = NoPage
        BY <2>1 DEF Writes
      <3> QED BY <3>1, NoPageIsPage
    <2>2. CASE d # c
      <3>1. page'[d] = [page[d] EXCEPT !.stale = TRUE] /\ page[d] \in Page
        BY <2>2 DEF Writes, FormTyped
      <3> QED BY <3>1 DEF Page
    <2> QED BY <2>1, <2>2
  <1>2. page' \in [FormClients -> Page]
    <2>1. \A d \in FormClients : page'[d] \in Page
      BY <1>1
    <2>2. page' = [d \in FormClients |-> page'[d]]
      BY DEF Writes
    <2> QED BY <2>1, <2>2
  <1>3. PagesFresh'
    <2>1. \A d \in FormClients : page'[d].kind \in {"handle", "edit"} => page'[d].stale
      BY <1>1
    <2> QED BY <2>1 DEF PagesFresh
  <1> QED BY <1>2, <1>3

(* A page's nodes are written, with users bound to n.                       *)
LEMMA NodesWritten ==
    ASSUME FormInv, NEW c \in FormClients, page[c].kind \in {"handle", "edit"},
           NEW n \in Ids, NEW users \in SUBSET FormUsers, Writes(c),
           revision' = Bind(page[c].nodes, n, users), design' = design, mixed' = mixed, node' \in Ids \cup {"none"},
           chosen' \in [Ids -> SUBSET FormUsers], bound' \in [Ids -> SUBSET FormUsers],
           chosen'[n] \in {{}, users}, bound'[n] = {},
           \A k \in Ids \ {n} : IF page[c].stale THEN chosen'[k] = {} /\ bound'[k] = {}
                                ELSE chosen'[k] = chosen[k] /\ bound'[k] = bound[k]
    PROVE  FormInv'
  <1>1. FormTyped /\ page[c] \in Page
    BY DEF FormInv, FormTyped
  <1> DEFINE nodes == page[c].nodes
  <1>2. nodes \in FormNodes
    BY <1>1 DEF Page
  <1>3. /\ revision' \in FormNodes /\ DOMAIN revision' = DOMAIN nodes
        /\ \A i \in DOMAIN nodes : /\ revision'[i].id = nodes[i].id
                                   /\ nodes[i].id = n => revision'[i].members = users
                                   /\ nodes[i].id # n => revision'[i].members = nodes[i].members
    BY <1>2, BindNodes
  <1>4. page' \in [FormClients -> Page] /\ PagesFresh'
    BY <1>1, WritesStale
  <1>5. FormTyped'
    BY <1>1, <1>3, <1>4 DEF FormTyped
  <1>6. MembersKept'
    <2> SUFFICES ASSUME NEW i \in DOMAIN revision'
                 PROVE  /\ chosen'[revision'[i].id] # {} => revision'[i].members = chosen'[revision'[i].id]
                        /\ bound'[revision'[i].id] \subseteq revision'[i].members \/ mixed'
      BY DEF MembersKept
    <2>1. i \in DOMAIN nodes /\ revision'[i].id = nodes[i].id
      BY <1>3
    <2>2. nodes[i].id \in Ids
      BY <1>2, <2>1 DEF FormNodes
    <2>3. CASE nodes[i].id = n
      BY <1>3, <2>1, <2>3
    <2>4. CASE nodes[i].id # n
      <3>1. revision'[i].members = nodes[i].members
        BY <1>3, <2>1, <2>4
      <3>2. CASE page[c].stale
        BY <2>1, <2>2, <2>4, <3>2
      <3>3. CASE ~page[c].stale
        <4>1. nodes = revision
          BY <3>3 DEF FormInv, PagesFresh
        <4>2. /\ chosen[nodes[i].id] # {} => nodes[i].members = chosen[nodes[i].id]
              /\ bound[nodes[i].id] \subseteq nodes[i].members \/ mixed
          BY <2>1, <4>1 DEF FormInv, MembersKept
        <4> QED BY <2>1, <2>2, <2>4, <3>1, <3>3, <4>2
      <3> QED BY <3>2, <3>3
    <2> QED BY <2>3, <2>4
  <1> QED BY <1>4, <1>5, <1>6 DEF FormInv

LEMMA ChooseKeeps ==
    ASSUME FormInv, NEW c \in FormClients, NEW users \in SUBSET FormUsers, HandleChoose(c, users)
    PROVE  FormInv'
  <1> DEFINE nodes == page[c].nodes
             i     == Index(nodes, page[c].node)
             next  == nodes[i + 1].id
  <1>1. FormTyped /\ page[c] \in Page /\ page[c].kind = "handle" /\ UNCHANGED <<design, mixed>>
    BY DEF FormInv, FormTyped, HandleChoose
  <1>2. nodes \in FormNodes
    BY <1>1 DEF Page
  <1>3. i \in DOMAIN nodes
    BY DEF HandleChoose, Lists, Index
  <1>4. CASE i = Len(nodes)
    <2>1. page' = [page EXCEPT ![c] = NoPage] /\ UNCHANGED <<revision, node, chosen, bound>>
      BY <1>4 DEF HandleChoose
    <2> QED BY <1>1, <2>1, NoPageIsPage, PageTurned DEF FormTyped
  <1>5. CASE i # Len(nodes)
    <2>1. /\ revision' = Bind(nodes, NextOf(nodes, page[c].node), users) /\ node' = next /\ Writes(c)
          /\ chosen' = [n \in Ids |-> IF n = next THEN users ELSE IF page[c].stale THEN {} ELSE chosen[n]]
          /\ bound' = [n \in Ids |-> IF n = next \/ page[c].stale THEN {} ELSE bound[n]]
      BY <1>5 DEF HandleChoose
    <2>2. NextOf(nodes, page[c].node) = next
      BY DEF NextOf
    <2>3. nodes \in Seq(FormNode) /\ i + 1 \in DOMAIN nodes
      <3>1. nodes \in Seq(FormNode)
        BY <1>2 DEF FormNodes
      <3> HIDE DEF nodes, i
      <3> QED BY <1>3, <1>5, <3>1
    <2>4. next \in Ids
      BY <1>2, <2>3 DEF FormNodes
    <2> HIDE DEF next, i
    <2>5. chosen' \in [Ids -> SUBSET FormUsers] /\ bound' \in [Ids -> SUBSET FormUsers]
      BY <1>1, <2>1 DEF FormTyped
    <2>6. /\ chosen'[next] \in {{}, users} /\ bound'[next] = {}
          /\ \A k \in Ids \ {next} : IF page[c].stale THEN chosen'[k] = {} /\ bound'[k] = {}
                                     ELSE chosen'[k] = chosen[k] /\ bound'[k] = bound[k]
      BY <2>1, <2>4
    <2>7. page[c].kind \in {"handle", "edit"} /\ node' \in Ids \cup {"none"} /\ revision' = Bind(page[c].nodes, next, users)
      BY <1>1, <2>1, <2>2, <2>4
    <2> QED BY <1>1, <2>1, <2>4, <2>5, <2>6, <2>7, NodesWritten
  <1> QED BY <1>4, <1>5

LEMMA EditorKeeps ==
    ASSUME FormInv, NEW c \in FormClients, NEW n \in Ids, NEW users \in SUBSET FormUsers, SaveEditor(c, n, users)
    PROVE  FormInv'
  <1>1. /\ FormTyped /\ page[c].kind \in {"handle", "edit"} /\ Writes(c)
        /\ revision' = Bind(page[c].nodes, n, users) /\ design' = design /\ mixed' = mixed /\ node' = node
        /\ chosen' = [k \in Ids |-> IF page[c].stale \/ k = n THEN {} ELSE chosen[k]]
        /\ bound' = [k \in Ids |-> IF page[c].stale \/ k = n THEN {} ELSE bound[k]]
    BY DEF FormInv, SaveEditor
  <1>2. chosen' \in [Ids -> SUBSET FormUsers] /\ bound' \in [Ids -> SUBSET FormUsers] /\ node' \in Ids \cup {"none"}
    BY <1>1 DEF FormTyped
  <1>3. /\ chosen'[n] \in {{}, users} /\ bound'[n] = {}
        /\ \A k \in Ids \ {n} : IF page[c].stale THEN chosen'[k] = {} /\ bound'[k] = {}
                                ELSE chosen'[k] = chosen[k] /\ bound'[k] = bound[k]
    BY <1>1
  <1> QED BY <1>1, <1>2, <1>3, NodesWritten

(* Creation: the form has the template's nodes, unless the ghost says not.  *)
LEMMA CreateKeeps ==
    ASSUME FormInv, NEW c \in FormClients, NEW user \in FormUsers, NEW extra \in SUBSET FormUsers,
           NEW handlers \in SUBSET FormUsers, CreateTicket(c, user, extra, handlers)
    PROVE  FormInv'
  <1> DEFINE sent   == page[c].nodes
             filled == [i \in DOMAIN sent |-> [sent[i] EXCEPT !.members = @ \cup extra]]
             nodes  == NodesOf(filled, user)
             asks   == design[1].asks
  <1>1. /\ FormTyped /\ sent \in FormNodes /\ design \in Layouts /\ design \in FormNodes /\ design # <<>>
        /\ Len(sent) >= Len(design)
    BY LayoutNodes DEF FormInv, FormTyped, Page, CreateTicket
  <1>2. /\ design \in Seq(FormNode) /\ DOMAIN design = 1..Len(design) /\ Len(design) \in Nat \ {0}
        /\ sent \in Seq(FormNode) /\ DOMAIN sent = 1..Len(sent) /\ Len(sent) \in Nat
        /\ DOMAIN design \subseteq DOMAIN sent
    BY <1>1 DEF FormNodes
  <1>3. ASSUME NEW i \in DOMAIN sent
        PROVE  filled[i] \in FormNode /\ filled[i].id = sent[i].id /\ extra \subseteq filled[i].members
    <2>1. filled[i] = [sent[i] EXCEPT !.members = sent[i].members \cup extra] /\ sent[i] \in FormNode
      BY <1>2
    <2> HIDE DEF filled, sent
    <2> QED BY <2>1 DEF FormNode
  <1>4. DOMAIN filled = DOMAIN sent
    OBVIOUS
  <1> HIDE DEF filled
  <1>5. ASSUME NEW i \in DOMAIN design
        PROVE  /\ nodes[i] \in FormNode /\ nodes[i].id = design[i].id
               /\ design[i].members \subseteq nodes[i].members
               /\ i > 1 => extra \subseteq nodes[i].members
    <2> DEFINE more == (IF i > 1 THEN filled[i].members ELSE {}) \cup (IF design[i].pass = "passed" THEN {user} ELSE {})
    <2>1. nodes[i] = [design[i] EXCEPT !.members = design[i].members \cup more]
      BY Zenon DEF NodesOf
    <2>2. design[i] \in FormNode /\ filled[i] \in FormNode /\ extra \subseteq filled[i].members
      BY <1>2, <1>3
    <2>3. more \subseteq FormUsers /\ (i > 1 => extra \subseteq more)
      BY <2>2 DEF FormNode
    <2> HIDE DEF more, nodes
    <2> QED BY <2>1, <2>2, <2>3 DEF FormNode
  <1>6. nodes \in FormNodes /\ DOMAIN nodes = DOMAIN design
    <2>1. nodes = [i \in 1..Len(design) |-> nodes[i]]
      BY <1>2 DEF NodesOf
    <2>2. \A i \in 1..Len(design) : nodes[i] \in FormNode /\ nodes[i].id \in Ids
      BY <1>1, <1>2, <1>5 DEF FormNodes
    <2> HIDE DEF nodes
    <2>3. nodes \in Seq(FormNode) /\ DOMAIN nodes = 1..Len(design)
      BY <1>2, <2>1, <2>2
    <2> QED BY <1>2, <2>2, <2>3 DEF FormNodes
  <1>7. /\ revision' = IF Lists(nodes, asks) THEN Bind(nodes, asks, handlers) ELSE nodes
        /\ node' = nodes[IF Len(nodes) > 1 THEN 2 ELSE 1].id
        /\ chosen' = [n \in Ids |-> IF n = asks /\ Lists(nodes, n) THEN handlers ELSE {}]
        /\ mixed' = ([i \in DOMAIN design |-> design[i].id] # [i \in DOMAIN filled |-> filled[i].id])
        /\ design' = design /\ Writes(c)
    BY DEF CreateTicket, filled
  <1>8. bound' = [n \in Ids |->
                   IF n = asks THEN {}
                   ELSE (IF Lists(design, n) THEN design[Index(design, n)].members ELSE {})
                          \cup (IF Lists(design, n) /\ Lists(Tail(filled), n) THEN extra ELSE {})]
    BY DEF CreateTicket, filled
  <1> HIDE DEF nodes
  <1>9. /\ revision' \in FormNodes /\ DOMAIN revision' = DOMAIN design
        /\ \A i \in DOMAIN design :
             /\ revision'[i].id = design[i].id
             /\ design[i].id = asks => revision'[i].members = handlers
             /\ design[i].id # asks => revision'[i].members = nodes[i].members
    <2>1. CASE Lists(nodes, asks)
      BY <1>5, <1>6, <1>7, <2>1, BindNodes
    <2>2. CASE ~Lists(nodes, asks)
      BY <1>5, <1>6, <1>7, <2>2 DEF Lists
    <2> QED BY <2>1, <2>2
  <1>10. page' \in [FormClients -> Page] /\ PagesFresh'
    BY <1>1, <1>7, WritesStale
  <1>11. \A n \in Ids : Lists(design, n) => Index(design, n) \in DOMAIN design /\ design[Index(design, n)].id = n
    BY DEF Lists, Index
  <1>12. FormTyped'
    <2>1. chosen' \in [Ids -> SUBSET FormUsers]
      BY <1>7
    <2>2. bound' \in [Ids -> SUBSET FormUsers]
      <3>1. \A i \in DOMAIN design : design[i].members \subseteq FormUsers
        <4>1. \A i \in DOMAIN design : design[i] \in FormNode
          BY <1>2
        <4> QED BY <4>1 DEF FormNode
      <3>2. \A n \in Ids : (IF Lists(design, n) THEN design[Index(design, n)].members ELSE {}) \subseteq FormUsers
        BY <1>11, <3>1, Zenon
      <3>3. \A n \in Ids : bound'[n] \subseteq FormUsers
        BY <1>8, <3>2
      <3> QED BY <1>8, <3>3, Zenon
    <2>3. node' \in Ids
      <3>1. (IF Len(nodes) > 1 THEN 2 ELSE 1) \in DOMAIN nodes
        BY <1>2, <1>6 DEF FormNodes
      <3> QED BY <1>6, <1>7, <3>1 DEF FormNodes
    <2> QED BY <1>1, <1>7, <1>9, <1>10, <2>1, <2>2, <2>3 DEF FormTyped
  <1>13. MembersKept'
    <2> SUFFICES ASSUME NEW i \in DOMAIN design
                 PROVE  /\ chosen'[design[i].id] # {} => revision'[i].members = chosen'[design[i].id]
                        /\ bound'[design[i].id] \subseteq revision'[i].members \/ mixed'
      BY <1>9 DEF MembersKept
    <2>1. design[i].id \in Ids /\ Lists(design, design[i].id) /\ Lists(nodes, design[i].id)
      BY <1>1, <1>5, <1>6 DEF FormNodes, Lists
    <2>2. CASE design[i].id = asks
      BY <1>7, <1>8, <1>9, <2>1, <2>2
    <2>3. CASE design[i].id # asks
      <3>1. chosen'[design[i].id] = {}
        BY <1>7, <2>1, <2>3
      <3>2. Index(design, design[i].id) = i
        BY <1>1, <1>11, <2>1, FormAssumption
      <3>3. ASSUME ~mixed', Lists(Tail(filled), design[i].id) PROVE i > 1
        <4>1. [k \in DOMAIN design |-> design[k].id] = [k \in DOMAIN filled |-> filled[k].id]
          BY <1>7, <3>3
        <4>2. DOMAIN filled = DOMAIN design /\ \A k \in DOMAIN design : filled[k].id = design[k].id
          BY <4>1
        <4>3. filled \in Seq(FormNode) /\ DOMAIN filled = 1..Len(filled) /\ filled # <<>>
          <5>1. filled = [k \in 1..Len(sent) |-> filled[k]]
            BY <1>2, <1>4 DEF filled
          <5>2. filled \in Seq(FormNode)
            <6>1. \A k \in 1..Len(sent) : filled[k] \in FormNode
              BY <1>2, <1>3
            <6>2. Len(sent) \in Nat
              BY <1>2
            <6> HIDE DEF sent
            <6> QED BY <5>1, <6>1, <6>2
          <5>3. 1 \in DOMAIN filled
            BY <1>2, <4>2
          <5>4. DOMAIN filled = 1..Len(filled)
            BY <5>2
          <5>5. filled # <<>>
            BY <5>3
          <5> QED BY <5>2, <5>4, <5>5
        <4>4. PICK j \in DOMAIN Tail(filled) : Tail(filled)[j].id = design[i].id
          BY <3>3 DEF Lists
        <4>5. j + 1 \in DOMAIN filled /\ j \in Nat \ {0} /\ filled[j + 1] = Tail(filled)[j]
          BY <4>3, <4>4
        <4>6. j + 1 = i
          BY <1>1, <4>2, <4>4, <4>5, FormAssumption
        <4> QED BY <4>5, <4>6
      <3>4. bound'[design[i].id] = design[i].members \cup (IF Lists(Tail(filled), design[i].id) THEN extra ELSE {})
        BY <1>8, <2>1, <2>3, <3>2
      <3> QED BY <1>5, <1>9, <2>3, <3>1, <3>3, <3>4
    <2> QED BY <2>2, <2>3
  <1> QED BY <1>10, <1>12, <1>13 DEF FormInv

LEMMA FormStep == FormInv /\ [FormNext]_formVars => FormInv'
  <1> SUFFICES ASSUME FormInv, [FormNext]_formVars PROVE FormInv'
    OBVIOUS
  <1>1. FormTyped
    BY DEF FormInv
  <1>2. CASE UNCHANGED formVars
    BY <1>2 DEF formVars, FormInv, FormTyped, PagesFresh, MembersKept
  <1>3. ASSUME NEW t \in Layouts, EditTemplate(t) PROVE FormInv'
    BY <1>3 DEF EditTemplate, FormInv, FormTyped, PagesFresh, MembersKept
  <1>4. ASSUME NEW c \in FormClients, OpenNew(c) \/ HandleRead(c) \/ OpenEditor(c) PROVE FormInv'
    <2> DEFINE new  == [NoPage EXCEPT !.kind = "new", !.nodes = design]
               read == [NoPage EXCEPT !.kind = "handle", !.nodes = revision, !.node = node]
               edit == [NoPage EXCEPT !.kind = "edit", !.nodes = revision]
    <2>1. design \in FormNodes /\ revision \in FormNodes /\ node \in Ids \cup {"none"} /\ NoPage \in Page
      BY <1>1, LayoutNodes, NoPageIsPage DEF FormTyped
    <2>2. new \in Page /\ new.kind = "new" /\ read \in Page /\ read.nodes = revision
          /\ edit \in Page /\ edit.nodes = revision
      BY <2>1 DEF Page
    <2>3. UNCHANGED <<design, revision, node, chosen, bound, mixed>>
      BY <1>4 DEF OpenNew, HandleRead, OpenEditor
    <2>4. \/ page' = [page EXCEPT ![c] = new] \/ page' = [page EXCEPT ![c] = read]
          \/ page' = [page EXCEPT ![c] = edit]
      BY <1>4 DEF OpenNew, HandleRead, OpenEditor, Opens
    <2> HIDE DEF new, read, edit
    <2> QED BY <2>1, <2>2, <2>3, <2>4, PageTurned
  <1>5. ASSUME NEW c \in FormClients, NEW u \in FormUsers, CreateRefused(c, u) PROVE FormInv'
    <2>1. page' = [page EXCEPT ![c] = NoPage] /\ UNCHANGED <<design, revision, node, chosen, bound, mixed>>
      BY <1>5 DEF CreateRefused
    <2> QED BY <1>1, <2>1, NoPageIsPage, PageTurned DEF FormTyped
  <1>6. ASSUME NEW c \in FormClients, HandlePlain(c) PROVE FormInv'
    <2>1. page' = [page EXCEPT ![c] = NoPage] /\ UNCHANGED <<design, revision, chosen, bound, mixed>>
      BY <1>6 DEF HandlePlain
    <2>2. page[c].nodes \in FormNodes
      BY <1>1 DEF FormTyped, Page
    <2>3. node' \in Ids
      BY <1>6, <2>2 DEF HandlePlain, FormNodes
    <2> QED BY <2>1, <2>3, NoPageIsPage, PageTurned
  <1> QED BY <1>2, <1>3, <1>4, <1>5, <1>6, CreateKeeps, ChooseKeeps, EditorKeeps DEF FormNext

(* Ticket forms: nobody is lost from a node of a ticket, whatever pages are *)
(* opened, sent and saved over each other, for any templates and users.     *)
THEOREM MembersAlwaysKept == FormSpec => []MembersKept
  <1>1. FormInv => MembersKept
    BY DEF FormInv
  <1> QED BY <1>1, FormStart, FormStep, PTL DEF FormSpec

-----------------------------------------------------------------------------
(* The refresh token a client keeps is the one its last login gave; an      *)
(* access token was issued by now, and before a login as long as that.      *)
TokenInv ==
    /\ now \in Nat
    /\ lives \in [access : AccessLives, refresh : RefreshLives]
    /\ ends \in Nat /\ refresh = ends
    /\ \A t \in access : \E l \in AccessLives : t \in Nat /\ t <= ends + l /\ t <= now + l

LEMMA TokenStart == SessionInit => TokenInv
  BY SessionAssumption DEF SessionInit, TokenInv

LEMMA Lives ==
    ASSUME TokenInv
    PROVE  lives.access \in AccessLives /\ lives.access \in Nat /\ lives.refresh \in Nat
  BY SessionAssumption DEF TokenInv

LEMMA TokenStep == TokenInv /\ [SessionNext]_sessionVars => TokenInv'
  <1> SUFFICES ASSUME TokenInv, [SessionNext]_sessionVars PROVE TokenInv'
    OBVIOUS
  <1>1. CASE Pass
    <2>1. now' \in Nat /\ now' = now + 1 /\ ends' = ends /\ refresh' = refresh /\ lives' = lives
      BY <1>1 DEF Pass, TokenInv
    <2>2. ASSUME NEW t \in access'
          PROVE  \E l \in AccessLives : t \in Nat /\ t <= ends' + l /\ t <= now' + l
      <3>1. t \in access
        BY <1>1 DEF Pass
      <3>2. PICK l \in AccessLives : t \in Nat /\ t <= ends + l /\ t <= now + l
        BY <3>1 DEF TokenInv
      <3>3. l \in Nat
        BY SessionAssumption
      <3> QED BY <2>1, <3>2, <3>3 DEF TokenInv
    <2> QED BY <2>1, <2>2 DEF TokenInv
  <1>2. ASSUME NEW l \in [access : AccessLives, refresh : RefreshLives], SetLives(l)
        PROVE  TokenInv'
    BY <1>2 DEF SetLives, TokenInv
  <1>3. CASE TokenLogin
    <2>1. /\ ends' = now + lives.refresh /\ refresh' = ends' /\ ends' \in Nat
          /\ now' = now /\ lives' = lives /\ now <= ends'
      BY <1>3, Lives DEF TokenLogin, TokenInv
    <2>2. ASSUME NEW t \in access'
          PROVE  \E l \in AccessLives : t \in Nat /\ t <= ends' + l /\ t <= now' + l
      <3>1. CASE t = now + lives.access
        <4>1. t \in Nat /\ t <= ends' + lives.access /\ t <= now' + lives.access
          BY <2>1, <3>1, Lives DEF TokenInv
        <4> QED BY <4>1, Lives
      <3>2. CASE t \in access
        <4>1. PICK l \in AccessLives : t \in Nat /\ t <= ends + l /\ t <= now + l
          BY <3>2 DEF TokenInv
        <4>2. l \in Nat
          BY SessionAssumption
        <4>3. t <= ends' + l /\ t <= now' + l
          BY <2>1, <4>1, <4>2 DEF TokenInv
        <4> QED BY <4>1, <4>3
      <3> QED BY <1>3, <3>1, <3>2 DEF TokenLogin
    <2> QED BY <2>1, <2>2 DEF TokenInv
  <1>4. CASE RefreshAccess
    <2>1. ends' = ends /\ refresh' = refresh /\ now' = now /\ lives' = lives /\ now <= ends
      BY <1>4 DEF RefreshAccess, TokenInv
    <2>2. ASSUME NEW t \in access'
          PROVE  \E l \in AccessLives : t \in Nat /\ t <= ends' + l /\ t <= now' + l
      <3>1. CASE t = now + lives.access
        <4>1. t \in Nat /\ t <= ends' + lives.access /\ t <= now' + lives.access
          BY <2>1, <3>1, Lives DEF TokenInv
        <4> QED BY <4>1, Lives
      <3>2. CASE t \in access
        BY <2>1, <3>2 DEF TokenInv
      <3> QED BY <1>4, <3>1, <3>2 DEF RefreshAccess
    <2> QED BY <2>1, <2>2 DEF TokenInv
  <1>5. CASE UNCHANGED tokenVars
    BY <1>5 DEF tokenVars, TokenInv
  <1>6. ASSUME NEW c \in UserClients,
               \/ ProfileAsk(c) \/ UserSave(c) \/ UserDisable(c)
               \/ \E sent \in BOOLEAN : ProfileRead(c, sent)
               \/ \E purpose \in {"save", "disable"} : UserRead(c, purpose)
        PROVE  UNCHANGED tokenVars
    BY <1>6 DEF ProfileAsk, UserSave, UserDisable, ProfileRead, UserRead
  <1>7. UNCHANGED sessionVars => UNCHANGED tokenVars
    BY DEF sessionVars
  <1> QED BY <1>1, <1>2, <1>3, <1>4, <1>5, <1>6, <1>7 DEF SessionNext

(* However the settings change and whatever is refreshed, a login ends with *)
(* its refresh token, but for the last access token.                        *)
THEOREM LoginEnds == SessionSpec => []SessionEnds
  <1>1. TokenInv => SessionEnds
    BY DEF TokenInv, SessionEnds
  <1> QED BY <1>1, TokenStart, TokenStep, PTL DEF SessionSpec

-----------------------------------------------------------------------------
(* A request that may save the row as active passed its check while it was, *)
(* and if the row has been disabled since, that was counted after.          *)
UserRequest == [at : {"none", "profile", "save", "disable"}, row : BOOLEAN, disabled : Nat]

AccountInv ==
    /\ disabled \in Nat /\ active \in BOOLEAN
    /\ userCall \in [UserClients -> UserRequest]
    /\ \A c \in UserClients :
         userCall[c].at # "none" =>
           /\ userCall[c].disabled <= disabled
           /\ ~active => userCall[c].disabled < disabled

LEMMA AccountStart == SessionInit => AccountInv
  BY DEF SessionInit, AccountInv, UserRequest, NoRequest

LEMMA AccountStep == AccountInv /\ [SessionNext]_sessionVars => AccountInv'
  <1> SUFFICES ASSUME AccountInv, [SessionNext]_sessionVars PROVE AccountInv'
    OBVIOUS
  <1>1. CASE UNCHANGED accountVars
    BY <1>1 DEF accountVars, AccountInv
  <1>2. ASSUME NEW c \in UserClients, NEW at \in {"profile", "save", "disable"},
               active, Asks(c, at), UNCHANGED <<active, disabled>>
        PROVE  AccountInv'
    <2>1. [at |-> at, row |-> active, disabled |-> disabled] \in UserRequest
      BY DEF AccountInv, UserRequest
    <2>2. /\ userCall' = [userCall EXCEPT ![c] = [at |-> at, row |-> active, disabled |-> disabled]]
          /\ userCall' \in [UserClients -> UserRequest]
      BY <1>2, <2>1 DEF Asks, AccountInv
    <2>3. \A d \in UserClients : d # c => userCall'[d] = userCall[d]
      BY <2>2 DEF AccountInv
    <2>4. userCall'[c].disabled = disabled
      BY <2>2 DEF AccountInv
    <2> QED BY <1>2, <2>2, <2>3, <2>4 DEF AccountInv
  <1>3. ASSUME NEW c \in UserClients, NEW sent \in BOOLEAN, ProfileRead(c, sent)
        PROVE  AccountInv'
    <2>1. (active \/ sent) \in BOOLEAN
      OBVIOUS
    <2>2. /\ userCall[c] \in UserRequest /\ userCall[c].at # "none"
          /\ userCall' = [userCall EXCEPT ![c] = [userCall[c] EXCEPT !.at = "save", !.row = active \/ sent]]
      BY <1>3 DEF ProfileRead, AccountInv
    <2>3. [userCall[c] EXCEPT !.at = "save", !.row = active \/ sent] \in UserRequest
      BY <2>1, <2>2 DEF UserRequest
    <2>4. /\ userCall' \in [UserClients -> UserRequest]
          /\ userCall'[c].disabled = userCall[c].disabled
          /\ \A d \in UserClients : d # c => userCall'[d] = userCall[d]
      BY <2>2, <2>3 DEF AccountInv, UserRequest
    <2> QED BY <1>3, <2>2, <2>4 DEF ProfileRead, AccountInv
  <1>4. ASSUME NEW c \in UserClients, UserSave(c) \/ UserDisable(c)
        PROVE  AccountInv'
    <2>1. NoRequest \in UserRequest
      BY DEF NoRequest, UserRequest
    <2>2. /\ userCall' \in [UserClients -> UserRequest]
          /\ userCall'[c].at = "none"
          /\ \A d \in UserClients : d # c => userCall'[d] = userCall[d]
      <3>1. userCall' = [userCall EXCEPT ![c] = NoRequest] /\ userCall \in [UserClients -> UserRequest]
        BY <1>4 DEF UserSave, UserDisable, AccountInv
      <3>2. userCall'[c] = NoRequest /\ NoRequest.at = "none"
        BY <3>1 DEF NoRequest
      <3> QED BY <2>1, <3>1, <3>2
    <2>3. userCall[c] \in UserRequest /\ userCall[c].row \in BOOLEAN
      BY DEF AccountInv, UserRequest
    <2>4. active' \in BOOLEAN
      BY <1>4, <2>3 DEF UserSave, UserDisable
    <2>5. disabled' \in Nat /\ disabled <= disabled'
      <3>1. disabled' = disabled \/ disabled' = disabled + 1
        BY <1>4 DEF UserSave, UserDisable
      <3> QED BY <3>1 DEF AccountInv
    <2>6. ~active' => ~active \/ disabled < disabled'
      <3> SUFFICES ASSUME ~active', active PROVE disabled < disabled'
        OBVIOUS
      <3>1. disabled' = disabled + 1
        BY <1>4 DEF UserSave, UserDisable
      <3> QED BY <3>1 DEF AccountInv
    <2> QED
      <3>1. ASSUME NEW d \in UserClients, userCall'[d].at # "none"
            PROVE  /\ userCall'[d].disabled <= disabled'
                   /\ ~active' => userCall'[d].disabled < disabled'
        <4>1. d # c /\ userCall'[d] = userCall[d]
          BY <2>2, <3>1
        <4>2. userCall[d].disabled \in Nat
          BY DEF AccountInv, UserRequest
        <4> QED BY <2>5, <2>6, <3>1, <4>1, <4>2 DEF AccountInv
      <3> QED BY <2>2, <2>4, <2>5, <3>1 DEF AccountInv
  <1>5. ASSUME NEW c \in UserClients, ProfileAsk(c)
        PROVE  AccountInv'
    <2>1. active /\ Asks(c, "profile") /\ UNCHANGED <<active, disabled>>
      BY <1>5 DEF ProfileAsk, Authenticated
    <2> QED BY <1>2, <2>1
  <1>6. ASSUME NEW c \in UserClients, NEW purpose \in {"save", "disable"}, UserRead(c, purpose)
        PROVE  AccountInv'
    <2>1. active /\ Asks(c, purpose) /\ UNCHANGED <<active, disabled>>
      BY <1>6 DEF UserRead
    <2> QED BY <1>2, <2>1
  <1>7. Pass \/ TokenLogin \/ RefreshAccess
        \/ (\E l \in [access : AccessLives, refresh : RefreshLives] : SetLives(l))
        \/ UNCHANGED sessionVars => UNCHANGED accountVars
    BY DEF Pass, TokenLogin, RefreshAccess, SetLives, sessionVars
  <1> QED BY <1>1, <1>3, <1>4, <1>5, <1>6, <1>7 DEF SessionNext

(* Only a request that had passed its check before can undo the disabling   *)
(* of an account, for any number of clients.                                *)
THEOREM DisabledStays == SessionSpec => StaysDisabled
  <1> DEFINE Undone == \E c \in UserClients : userCall[c].at = "save" /\ userCall'[c] = NoRequest
                                              /\ userCall[c].disabled < disabled
  <1>1. AccountInv /\ [SessionNext]_sessionVars => [~active /\ active' => Undone]_sessionVars
    <2> SUFFICES ASSUME AccountInv, SessionNext, ~active, active' PROVE Undone
      OBVIOUS
    <2>1. PICK c \in UserClients : UserSave(c)
      BY DEF SessionNext, Pass, TokenLogin, RefreshAccess, SetLives, ProfileAsk, ProfileRead, UserRead,
             UserDisable, accountVars
    <2>2. userCall[c].at = "save" /\ userCall'[c] = NoRequest
      BY <2>1 DEF UserSave, AccountInv
    <2> QED BY <2>1, <2>2 DEF AccountInv
  <1> QED BY <1>1, AccountStart, AccountStep, PTL DEF SessionSpec, StaysDisabled
=============================================================================
