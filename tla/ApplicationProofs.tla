------------------------- MODULE ApplicationProofs --------------------------
(* Proofs about applications: their services and rows, for any applications *)
(* and environments; the lists of related ones; and the templates they are  *)
(* deployed from.  Every number of clients and of calls is covered.         *)
EXTENDS AppCatalogue, AppGroup, DeployTemplate, SequenceTheorems, TLAPS

-----------------------------------------------------------------------------
(* The list of applications.                                                *)

LEMMA Prepended ==
    ASSUME NEW S, NEW s \in Seq(S), NEW e \in S
    PROVE  /\ <<e>> \o s \in Seq(S) /\ ToSet(<<e>> \o s) = ToSet(s) \cup {e}
           /\ IsInjective(s) /\ e \notin ToSet(s) => IsInjective(<<e>> \o s)
  <1> DEFINE t == <<e>> \o s
  <1>1. /\ t \in Seq(S) /\ Len(t) = Len(s) + 1 /\ Len(s) \in Nat
        /\ DOMAIN t = 1..(Len(s) + 1) /\ DOMAIN s = 1..Len(s)
    OBVIOUS
  <1>2. t[1] = e /\ \A i \in 1..Len(s) : t[i + 1] = s[i]
    OBVIOUS
  <1> HIDE DEF t
  <1>3. \A i \in DOMAIN t : i = 1 \/ (i - 1 \in DOMAIN s /\ t[i] = s[i - 1])
    BY <1>1, <1>2
  <1>4. ToSet(t) = ToSet(s) \cup {e}
    <2>1. ASSUME NEW x \in ToSet(t) PROVE x \in ToSet(s) \cup {e}
      BY <2>1, <1>2, <1>3 DEF ToSet
    <2>2. e \in ToSet(t)
      BY <1>1, <1>2 DEF ToSet
    <2>3. ASSUME NEW x \in ToSet(s) PROVE x \in ToSet(t)
      <3>1. PICK i \in DOMAIN s : x = s[i]
        BY DEF ToSet
      <3>2. i + 1 \in DOMAIN t /\ t[i + 1] = x
        BY <1>1, <1>2, <3>1
      <3> QED BY <3>2 DEF ToSet
    <2> QED BY <2>1, <2>2, <2>3
  <1>5. ASSUME IsInjective(s), e \notin ToSet(s)
        PROVE  IsInjective(t)
    <2>1. \A i \in DOMAIN s : s[i] # e
      BY <1>5 DEF ToSet
    <2> SUFFICES ASSUME NEW i \in DOMAIN t, NEW k \in DOMAIN t, t[i] = t[k]
                 PROVE  i = k
      BY DEF IsInjective
    <2>2. i = 1 <=> k = 1
      BY <1>2, <1>3, <2>1
    <2>3. CASE i # 1
      BY <1>1, <1>3, <1>5, <2>2, <2>3 DEF IsInjective
    <2> QED BY <2>2, <2>3
  <1> QED BY <1>1, <1>4, <1>5 DEF t

LEMMA Removed ==
    ASSUME NEW S, NEW s \in Seq(S), IsInjective(s), NEW k \in DOMAIN s
    PROVE  /\ RemoveAt(s, k) \in Seq(S) /\ IsInjective(RemoveAt(s, k))
           /\ ToSet(RemoveAt(s, k)) = ToSet(s) \ {s[k]}
  <1> DEFINE t == RemoveAt(s, k)
             u == SubSeq(s, 1, k - 1)
             v == SubSeq(s, k + 1, Len(s))
  <1>1. Len(s) \in Nat /\ k \in 1..Len(s) /\ DOMAIN s = 1..Len(s)
    OBVIOUS
  <1>2. u \in Seq(S) /\ Len(u) = k - 1 /\ \A i \in 1..(k - 1) : u[i] = s[i]
    BY <1>1
  <1>3. v \in Seq(S) /\ Len(v) = Len(s) - k /\ \A i \in 1..(Len(s) - k) : v[i] = s[i + k]
    BY <1>1
  <1>4. t = u \o v
    BY DEF RemoveAt
  <1> HIDE DEF t, u, v
  <1>5. /\ t \in Seq(S) /\ Len(t) = Len(s) - 1
        /\ \A i \in 1..(Len(s) - 1) : t[i] = IF i <= k - 1 THEN u[i] ELSE v[i - (k - 1)]
    <2>1. /\ t \in Seq(S) /\ Len(t) = Len(u) + Len(v)
          /\ \A i \in 1..Len(u) + Len(v) : t[i] = IF i <= Len(u) THEN u[i] ELSE v[i - Len(u)]
      BY <1>2, <1>3, <1>4, ConcatProperties, Zenon
    <2>2. Len(u) + Len(v) = Len(s) - 1 /\ Len(u) = k - 1
      BY <1>1, <1>2, <1>3
    <2> QED BY <2>1, <2>2, Zenon
  <1>6. /\ DOMAIN t = 1..(Len(s) - 1)
        /\ \A i \in DOMAIN t : i < k => t[i] = s[i]
        /\ \A i \in DOMAIN t : i >= k => t[i] = s[i + 1]
    <2>1. DOMAIN t = 1..(Len(s) - 1)
      BY <1>5
    <2>2. ASSUME NEW i \in DOMAIN t, i < k PROVE t[i] = s[i]
      BY <1>1, <1>2, <1>5, <2>1, <2>2
    <2>3. ASSUME NEW i \in DOMAIN t, i >= k PROVE t[i] = s[i + 1]
      <3>1. i - (k - 1) \in 1..(Len(s) - k) /\ (i - (k - 1)) + k = i + 1
        BY <1>1, <2>1, <2>3
      <3>2. t[i] = v[i - (k - 1)]
        BY <1>1, <1>5, <2>1, <2>3
      <3> QED BY <1>3, <3>1, <3>2
    <2> QED BY <2>1, <2>2, <2>3
  <1>7. \A i \in DOMAIN t : \E j \in DOMAIN s : t[i] = s[j] /\ j # k /\ j = IF i < k THEN i ELSE i + 1
    BY <1>1, <1>6
  <1>8. IsInjective(t)
    <2> SUFFICES ASSUME NEW i \in DOMAIN t, NEW j \in DOMAIN t, t[i] = t[j]
                 PROVE  i = j
      BY DEF IsInjective
    <2>1. (IF i < k THEN i ELSE i + 1) = (IF j < k THEN j ELSE j + 1)
      BY <1>7 DEF IsInjective
    <2> QED BY <1>1, <1>6, <2>1
  <1>9. ToSet(t) \subseteq ToSet(s) \ {s[k]}
    BY <1>7 DEF ToSet, IsInjective
  <1>10. ASSUME NEW x \in ToSet(s) \ {s[k]} PROVE x \in ToSet(t)
    <2>1. PICK i \in DOMAIN s : x = s[i] /\ i # k
      BY <1>10 DEF ToSet
    <2> DEFINE to == IF i < k THEN i ELSE i - 1
    <2>2. to \in DOMAIN t /\ t[to] = x
      BY <1>1, <1>6, <2>1
    <2> QED BY <2>2 DEF ToSet
  <1> QED BY <1>5, <1>8, <1>9, <1>10 DEF t

-----------------------------------------------------------------------------
(* Types, and what a request knows at each of its steps.                    *)

Row(a, e) == <<a, e>>   \* the service of a in e

RowSaved(a, e) ==
    services' = [services EXCEPT ![a] = @ \cup {e}] /\ newest' = [newest EXCEPT ![a] = e]

CallSteps == {"idle", "jenkins", "handle", "queued", "save", "apply", "lookup", "remove"}
Holding   == {"handle", "save", "apply"}   \* those at which a request holds a row
CallKinds == {"none", "create", "update", "edit", "deploy", "scale", "destroy"}

Call == [at : CallSteps, kind : CallKinds, app : Applications \cup {"none"}, env : Envs \cup {"none"},
         copy : Templates, count : Counts, stale : BOOLEAN, gone : BOOLEAN,
         manifest : Templates, old : BOOLEAN]

CallKnows(r) ==
    /\ r.at # "idle" => r.app \in Applications
    /\ r.at \in Holding \cup {"jenkins", "queued", "lookup"} => r.env \in Envs

CallsTyped == call \in [CatClients -> Call] /\ \A c \in CatClients : CallKnows(call[c])

RowsTyped ==
    /\ apps \in Seq(Applications) /\ IsInjective(apps)
    /\ ToSet(apps) \subseteq given /\ given \subseteq Applications
    /\ services \in [Applications -> SUBSET Envs] /\ newest \in [Applications -> Envs \cup {"none"}]
    /\ \A a \in Applications : services[a] # {} => a \in ToSet(apps) /\ newest[a] \in services[a]
    /\ \A a \in Applications : services[a] = {} => newest[a] = "none"
    /\ jobs \subseteq ServiceOf /\ excused \subseteq ServiceOf
    /\ template \in [ServiceOf -> Templates] /\ live \in [ServiceOf -> Counts \cup {"none"}]
    /\ asked \in [ServiceOf -> Counts \cup {"none"}] /\ calls \in 0..MaxCalls

CatTyped == RowsTyped /\ CallsTyped

(* Client c's call becomes r; another's may only turn stale, old or gone.   *)
CallBecomes(c, r) ==
    /\ call' \in [CatClients -> Call] /\ call'[c] = r
    /\ \A d \in CatClients \ {c} :
         /\ call'[d].at = call[d].at /\ call'[d].kind = call[d].kind /\ call'[d].app = call[d].app
         /\ call'[d].env = call[d].env /\ call'[d].copy = call[d].copy /\ call'[d].count = call[d].count
         /\ call'[d].manifest = call[d].manifest /\ (call[d].old => call'[d].old)
         /\ (call[d].stale => call'[d].stale) /\ (call[d].gone => call'[d].gone)

LEMMA IdleIsCall == Idle0 \in Call /\ CallKnows(Idle0)
  BY CatalogueAssumption DEF Idle0, Call, CallKnows, CallSteps, CallKinds, Templates, Holding

LEMMA OneCall ==
    ASSUME CallsTyped, NEW c \in CatClients, NEW r \in Call, call' = [call EXCEPT ![c] = r]
    PROVE  CallBecomes(c, r) /\ \A d \in CatClients \ {c} : call'[d] = call[d]
  BY DEF CallsTyped, CallBecomes

LEMMA CallsStayTyped ==
    ASSUME CallsTyped, NEW c \in CatClients, NEW r \in Call, CallKnows(r), CallBecomes(c, r)
    PROVE  CallsTyped'
  <1>1. ASSUME NEW d \in CatClients PROVE CallKnows(call'[d])
    <2>1. CASE d = c
      BY <2>1 DEF CallBecomes
    <2>2. CASE d # c
      BY <2>2 DEF CallBecomes, CallsTyped, CallKnows
    <2> QED BY <2>1, <2>2
  <1> QED BY <1>1 DEF CallsTyped, CallBecomes, CallKnows

(* What another call has read is out of date from now on.                   *)
LEMMA Staled ==
    ASSUME CallsTyped, NEW c \in CatClients, NEW r \in Call, NEW late \in [CatClients -> BOOLEAN],
           call' = [d \in CatClients |-> IF d = c THEN r ELSE [call[d] EXCEPT !.stale = @ \/ late[d]]]
    PROVE  CallBecomes(c, r) /\ \A d \in CatClients \ {c} : late[d] => call'[d].stale
  <1>1. call'[c] = r
    OBVIOUS
  <1>2. ASSUME NEW d \in CatClients \ {c}
        PROVE  /\ call'[d] \in Call /\ call'[d].stale = (call[d].stale \/ late[d])
               /\ call'[d].old = call[d].old
               /\ call'[d].at = call[d].at /\ call'[d].kind = call[d].kind /\ call'[d].app = call[d].app
               /\ call'[d].env = call[d].env /\ call'[d].copy = call[d].copy /\ call'[d].count = call[d].count
               /\ call'[d].gone = call[d].gone /\ call'[d].manifest = call[d].manifest
    <2> DEFINE b == call[d].stale \/ late[d]
    <2>1. call'[d] = [call[d] EXCEPT !.stale = b] /\ call[d] \in Call
      BY DEF CallsTyped
    <2>2. b \in BOOLEAN
      BY <2>1 DEF Call
    <2> HIDE DEF b
    <2>3. call'[d] \in Call /\ call'[d].stale = b /\ call'[d].old = call[d].old
      BY <2>1, <2>2 DEF Call
    <2>4. /\ call'[d].at = call[d].at /\ call'[d].kind = call[d].kind /\ call'[d].app = call[d].app
          /\ call'[d].env = call[d].env /\ call'[d].copy = call[d].copy /\ call'[d].count = call[d].count
          /\ call'[d].gone = call[d].gone /\ call'[d].manifest = call[d].manifest
      BY <2>1, <2>2 DEF Call
    <2> QED BY <2>3, <2>4 DEF b
  <1>3. call' \in [CatClients -> Call]
    <2> DEFINE next(d) == IF d = c THEN r ELSE [call[d] EXCEPT !.stale = @ \/ late[d]]
    <2>1. call' = [d \in CatClients |-> next(d)]
      OBVIOUS
    <2>2. \A d \in CatClients : call'[d] \in Call
      BY <1>1, <1>2
    <2>3. \A d \in CatClients : call'[d] = next(d)
      BY <2>1, Zenon
    <2> HIDE DEF next
    <2> QED BY <2>1, <2>2, <2>3, Zenon
  <1>4. ASSUME NEW d \in CatClients \ {c}
        PROVE  /\ (call[d].stale => call'[d].stale) /\ (call[d].gone => call'[d].gone)
               /\ (call[d].old => call'[d].old)
    <2>1. /\ call'[d].stale = (call[d].stale \/ late[d]) /\ call'[d].gone = call[d].gone
          /\ call'[d].old = call[d].old
      BY <1>2
    <2> QED BY <2>1
  <1>5. CallBecomes(c, r)
    BY <1>1, <1>2, <1>3, <1>4, Zenon DEF CallBecomes
  <1> QED BY <1>2, <1>5

(* And so is the manifest that another has made.                            *)
LEMMA Outdated ==
    ASSUME CallsTyped, NEW c \in CatClients, NEW r \in Call, NEW late \in [CatClients -> BOOLEAN],
           NEW old \in [CatClients -> BOOLEAN],
           call' = [d \in CatClients |-> call'[d]], call'[c] = r,
           \A d \in CatClients \ {c} :
               call'[d] = [call[d] EXCEPT !.stale = @ \/ late[d], !.old = @ \/ old[d]]
    PROVE  CallBecomes(c, r) /\ \A d \in CatClients \ {c} : (late[d] => call'[d].stale) /\ (old[d] => call'[d].old)
  <1>2. ASSUME NEW d \in CatClients \ {c}
        PROVE  /\ call'[d] \in Call /\ call'[d].stale = (call[d].stale \/ late[d])
               /\ call'[d].old = (call[d].old \/ old[d])
               /\ call'[d].at = call[d].at /\ call'[d].kind = call[d].kind /\ call'[d].app = call[d].app
               /\ call'[d].env = call[d].env /\ call'[d].copy = call[d].copy /\ call'[d].count = call[d].count
               /\ call'[d].gone = call[d].gone /\ call'[d].manifest = call[d].manifest
    <2> DEFINE b == call[d].stale \/ late[d]
               o == call[d].old \/ old[d]
    <2>1. call'[d] = [call[d] EXCEPT !.stale = b, !.old = o] /\ call[d] \in Call
      BY DEF CallsTyped
    <2>2. b \in BOOLEAN /\ o \in BOOLEAN
      BY <2>1 DEF Call
    <2> HIDE DEF b, o
    <2>3. call'[d] \in Call /\ call'[d].stale = b /\ call'[d].old = o
      BY <2>1, <2>2 DEF Call
    <2>4. /\ call'[d].at = call[d].at /\ call'[d].kind = call[d].kind /\ call'[d].app = call[d].app
          /\ call'[d].env = call[d].env /\ call'[d].copy = call[d].copy /\ call'[d].count = call[d].count
          /\ call'[d].gone = call[d].gone /\ call'[d].manifest = call[d].manifest
      BY <2>1, <2>2 DEF Call
    <2> QED BY <2>3, <2>4 DEF b, o
  <1>3. call' \in [CatClients -> Call]
    <2>1. \A d \in CatClients : call'[d] \in Call
      BY <1>2
    <2> QED BY <2>1, Zenon
  <1>4. ASSUME NEW d \in CatClients \ {c}
        PROVE  /\ (call[d].stale => call'[d].stale) /\ (call[d].gone => call'[d].gone)
               /\ (call[d].old => call'[d].old) /\ (late[d] => call'[d].stale) /\ (old[d] => call'[d].old)
    <2>1. /\ call'[d].stale = (call[d].stale \/ late[d]) /\ call'[d].gone = call[d].gone
          /\ call'[d].old = (call[d].old \/ old[d])
      BY <1>2
    <2> QED BY <2>1
  <1>5. CallBecomes(c, r)
    BY <1>2, <1>3, <1>4, Zenon DEF CallBecomes
  <1> QED BY <1>4, <1>5

LEMMA CatStart == CatInit => CatTyped
  <1> SUFFICES ASSUME CatInit PROVE CatTyped
    OBVIOUS
  <1>1. apps \in Seq(Applications) /\ IsInjective(apps) /\ ToSet(apps) = {}
    BY DEF CatInit, IsInjective, ToSet
  <1>2. RowsTyped
    BY <1>1, CatalogueAssumption DEF CatInit, RowsTyped, Templates
  <1> QED BY <1>2, IdleIsCall DEF CatInit, CatTyped, CallsTyped

(* The rows of one application, or of one service, change.                  *)
LEMMA ServiceSaved ==
    ASSUME RowsTyped, NEW a \in ToSet(apps), NEW e \in Envs, a \in Applications,
           services' = [services EXCEPT ![a] = @ \cup {e}], newest' = [newest EXCEPT ![a] = e], apps' = apps
    PROVE  /\ services' \in [Applications -> SUBSET Envs] /\ newest' \in [Applications -> Envs \cup {"none"}]
           /\ \A b \in Applications : services'[b] # {} => b \in ToSet(apps') /\ newest'[b] \in services'[b]
           /\ \A b \in Applications : services'[b] = {} => newest'[b] = "none"
  BY DEF RowsTyped

(* A request that begins on a service has read its row.                     *)
LEMMA BeginsTyped ==
    ASSUME CatTyped, NEW c \in CatClients, NEW a \in Applications, NEW e \in Envs,
           NEW kind \in CallKinds, NEW at \in CallSteps, Begins(c, kind, at, a, e)
    PROVE  \E r \in Call :
              /\ CallKnows(r) /\ CallBecomes(c, r) /\ CallsTyped'
              /\ \A d \in CatClients \ {c} : call'[d] = call[d]
              /\ r.at = at /\ r.kind = kind /\ r.app = a /\ r.env = e /\ r.copy = template[Row(a, e)]
              /\ ~r.stale /\ ~r.gone
              /\ calls' \in 0..MaxCalls /\ a \in ToSet(apps)
  <1> DEFINE r == [Idle0 EXCEPT !.at = at, !.kind = kind, !.app = a, !.env = e, !.copy = template[<<a, e>>]]
  <1>1. call' = [call EXCEPT ![c] = r] /\ calls' = calls + 1 /\ calls < MaxCalls /\ a \in ToSet(apps)
    BY DEF Begins
  <1>2. template[<<a, e>>] \in Templates
    BY DEF CatTyped, RowsTyped, ServiceOf
  <1>3. /\ r \in Call /\ CallKnows(r)
        /\ r.at = at /\ r.kind = kind /\ r.app = a /\ r.env = e /\ r.copy = template[Row(a, e)]
        /\ ~r.stale /\ ~r.gone
    BY <1>2, CatalogueAssumption DEF Idle0, Call, CallKnows, Row, Templates, Holding
  <1>4. calls' \in 0..MaxCalls
    BY <1>1, CatalogueAssumption DEF CatTyped, RowsTyped
  <1> HIDE DEF r
  <1>5. CallBecomes(c, r) /\ \A d \in CatClients \ {c} : call'[d] = call[d]
    BY <1>1, <1>3, OneCall DEF CatTyped
  <1> QED BY <1>1, <1>3, <1>4, <1>5, CallsStayTyped DEF CatTyped

LEMMA EndsTyped ==
    ASSUME CallsTyped, NEW c \in CatClients, Ends(c)
    PROVE  /\ CallBecomes(c, Idle0) /\ CallsTyped'
           /\ \A d \in CatClients \ {c} : call'[d] = call[d]
  BY IdleIsCall, OneCall, CallsStayTyped DEF Ends

LEMMA AppCreateTyped ==
    ASSUME CatTyped, NEW c \in CatClients, NEW a \in Applications, AppCreate(c, a)
    PROVE  CatTyped'
  <1>1. PICK n \in {i \in DOMAIN EnvOrder : EnvOrder[i] \in Preset} \cup {0}, t \in Templates :
          LET wanted == {i \in DOMAIN EnvOrder : EnvOrder[i] \in Preset}
              envs == {EnvOrder[i] : i \in {i \in wanted : i <= n}}
              made == {a} \X envs
          IN  /\ services' = [services EXCEPT ![a] = envs]
              /\ newest' = [newest EXCEPT ![a] = IF n = 0 THEN "none" ELSE EnvOrder[n]]
              /\ template' = [s \in ServiceOf |-> IF s \in made THEN t ELSE template[s]]
              /\ \E failed \in SUBSET made :
                     /\ jobs' = jobs \cup (made \ failed)
                     /\ excused' = (excused \ made) \cup failed
    BY DEF AppCreate
  <1> DEFINE wanted == {i \in DOMAIN EnvOrder : EnvOrder[i] \in Preset}
             envs == {EnvOrder[i] : i \in {i \in wanted : i <= n}}
             made == {a} \X envs
  <1>2. /\ a \notin ToSet(apps) /\ apps' = <<a>> \o apps /\ calls < MaxCalls /\ calls' = calls + 1
        /\ given' = given \cup {a} /\ UNCHANGED <<live, call, asked>>
    BY DEF AppCreate, CatTyped, RowsTyped
  <1>3. envs \subseteq Envs /\ (n = 0 => envs = {}) /\ (n # 0 => EnvOrder[n] \in envs)
    BY CatalogueAssumption DEF Envs, ToSet
  <1>4. apps' \in Seq(Applications) /\ IsInjective(apps') /\ ToSet(apps') = ToSet(apps) \cup {a}
    BY <1>2, Prepended DEF CatTyped, RowsTyped
  <1>5. made \subseteq ServiceOf
    BY <1>3 DEF ServiceOf
  <1>6. /\ services' = [services EXCEPT ![a] = envs]
        /\ newest' = [newest EXCEPT ![a] = IF n = 0 THEN "none" ELSE EnvOrder[n]]
        /\ template' = [s \in ServiceOf |-> IF s \in made THEN t ELSE template[s]]
        /\ \E failed \in SUBSET made : jobs' = jobs \cup (made \ failed) /\ excused' = (excused \ made) \cup failed
    BY <1>1
  <1> HIDE DEF made, envs
  <1>7. jobs' \subseteq ServiceOf /\ excused' \subseteq ServiceOf /\ template' \in [ServiceOf -> Templates]
    BY <1>5, <1>6 DEF CatTyped, RowsTyped
  <1>8. /\ services' \in [Applications -> SUBSET Envs] /\ newest' \in [Applications -> Envs \cup {"none"}]
        /\ \A b \in Applications : services'[b] # {} => b \in ToSet(apps') /\ newest'[b] \in services'[b]
        /\ \A b \in Applications : services'[b] = {} => newest'[b] = "none"
    BY <1>3, <1>4, <1>6 DEF CatTyped, RowsTyped
  <1>9. calls' \in 0..MaxCalls
    BY <1>2, CatalogueAssumption DEF CatTyped, RowsTyped
  <1>10. RowsTyped'
    BY <1>2, <1>4, <1>7, <1>8, <1>9 DEF CatTyped, RowsTyped
  <1> QED BY <1>2, <1>10 DEF CatTyped, CallsTyped, CallKnows

LEMMA WaitersAreServices ==
    ASSUME CallsTyped
    PROVE  \A d \in CatClients :
              call[d].at \in Holding \cup {"jenkins", "queued", "lookup"} => Of(d) \in ServiceOf
  BY DEF CallsTyped, CallKnows, Of, ServiceOf, Holding

LEMMA ServiceCreateTyped ==
    ASSUME CatTyped, NEW c \in CatClients, NEW a \in Applications, NEW e \in Envs, ServiceCreate(c, a, e)
    PROVE  CatTyped'
  <1>0. Begins(c, "create", "jenkins", a, e) /\ "create" \in CallKinds /\ "jenkins" \in CallSteps
    BY DEF ServiceCreate, CallKinds, CallSteps
  <1>1. CallsTyped' /\ calls' \in 0..MaxCalls /\ a \in ToSet(apps)
    BY <1>0, BeginsTyped
  <1>2. /\ services' = [services EXCEPT ![a] = @ \cup {e}] /\ newest' = [newest EXCEPT ![a] = e]
        /\ \E t \in Templates : template' = [template EXCEPT ![<<a, e>>] = t]
        /\ asked' = [asked EXCEPT ![<<a, e>>] = "none"]
        /\ UNCHANGED <<apps, given, jobs, live>>
    BY DEF ServiceCreate
  <1>3. excused' \subseteq ServiceOf
    <2>1. \A d \in CatClients : call[d].at = "jenkins" => Of(d) \in ServiceOf
      BY WaitersAreServices DEF CatTyped
    <2>2. excused' \subseteq excused \cup {Of(d) : d \in {d \in CatClients : call[d].at = "jenkins"}}
      BY DEF ServiceCreate
    <2> QED BY <2>1, <2>2 DEF CatTyped, RowsTyped
  <1>4. template' \in [ServiceOf -> Templates] /\ asked' \in [ServiceOf -> Counts \cup {"none"}]
    BY <1>2 DEF CatTyped, RowsTyped
  <1>5. /\ services' \in [Applications -> SUBSET Envs] /\ newest' \in [Applications -> Envs \cup {"none"}]
        /\ \A b \in Applications : services'[b] # {} => b \in ToSet(apps') /\ newest'[b] \in services'[b]
        /\ \A b \in Applications : services'[b] = {} => newest'[b] = "none"
    BY <1>1, <1>2, ServiceSaved DEF CatTyped
  <1> QED BY <1>1, <1>2, <1>3, <1>4, <1>5 DEF CatTyped, RowsTyped

LEMMA JenkinsTyped ==
    ASSUME CatTyped, NEW c \in CatClients, ExtendJenkins(c)
    PROVE  CatTyped'
  <1>1. CallsTyped'
    BY EndsTyped DEF CatTyped, ExtendJenkins
  <1>2. call[c].app \in Applications /\ Of(c) \in ServiceOf
    BY DEF CatTyped, CallsTyped, CallKnows, ExtendJenkins, Of, ServiceOf
  <1>3. jobs' \subseteq ServiceOf /\ excused' \subseteq ServiceOf
    <2>1. services[call[c].app] # {} => <<call[c].app, FirstOf(call[c].app)>> \in ServiceOf
      BY <1>2 DEF CatTyped, RowsTyped, FirstOf, ServiceOf
    <2> QED BY <1>2, <2>1 DEF ExtendJenkins, CatTyped, RowsTyped
  <1> QED BY <1>1, <1>3 DEF ExtendJenkins, CatTyped, RowsTyped

(* Requests that change no row of a service.                                *)
LEMMA RowReadTyped ==
    ASSUME CatTyped, NEW c \in CatClients, NEW kind \in {"update", "edit", "deploy"},
           NEW a \in Applications, NEW e \in Envs, RowRead(c, kind, a, e)
    PROVE  CatTyped'
  <1> DEFINE at == IF kind = "deploy" THEN "handle" ELSE "save"
  <1>0. Begins(c, kind, at, a, e) /\ kind \in CallKinds /\ at \in CallSteps
    BY DEF RowRead, CallKinds, CallSteps
  <1> HIDE DEF at
  <1>1. CallsTyped' /\ calls' \in 0..MaxCalls
    BY <1>0, BeginsTyped
  <1> QED BY <1>1 DEF RowRead, CatTyped, RowsTyped

LEMMA RefusedTyped ==
    ASSUME CatTyped, NEW c \in CatClients, RowRefused(c)
    PROVE  CatTyped'
  <1>1. CallsTyped'
    BY EndsTyped DEF CatTyped, RowRefused
  <1> QED BY <1>1 DEF RowRefused, CatTyped, RowsTyped

LEMMA DiesTyped ==
    ASSUME CatTyped, NEW c \in CatClients, CallDies(c)
    PROVE  CatTyped'
  <1>1. CallsTyped'
    BY EndsTyped DEF CatTyped, CallDies
  <1>2. call[c].at = "jenkins" => Of(c) \in ServiceOf
    BY DEF CatTyped, CallsTyped, CallKnows, Of, ServiceOf
  <1> QED BY <1>1, <1>2 DEF CallDies, CatTyped, RowsTyped

LEMMA SavesTyped ==
    ASSUME CatTyped, NEW c \in CatClients, call[c].at \in {"handle", "save"}, Savable(c),
           NEW value \in Templates, NEW next \in Call, CallKnows(next), Saves(c, value, next),
           apps' = apps
    PROVE  /\ CallsTyped' /\ CallBecomes(c, next)
           /\ \A d \in CatClients \ {c} : Of(d) = Of(c) =>
                /\ call[d].at \in Holding => call'[d].stale
                /\ call[d].at \in {"queued", "apply"} => call'[d].old
           /\ services' \in [Applications -> SUBSET Envs] /\ newest' \in [Applications -> Envs \cup {"none"}]
           /\ \A b \in Applications : services'[b] # {} => b \in ToSet(apps') /\ newest'[b] \in services'[b]
           /\ \A b \in Applications : services'[b] = {} => newest'[b] = "none"
           /\ template' \in [ServiceOf -> Templates] /\ excused' \subseteq ServiceOf
           /\ Of(c) \in ServiceOf /\ call[c].app \in ToSet(apps)
  <1>1. /\ Of(c) = <<call[c].app, call[c].env>> /\ call[c].app \in Applications /\ call[c].env \in Envs
        /\ Of(c) \in ServiceOf /\ call[c].app \in ToSet(apps)
    BY DEF CatTyped, CallsTyped, CallKnows, Of, ServiceOf, Savable, Holding
  <1>2. /\ services' = [services EXCEPT ![call[c].app] = @ \cup {call[c].env}]
        /\ newest' = [newest EXCEPT ![call[c].app] = call[c].env]
        /\ template' = [template EXCEPT ![Of(c)] = value]
        /\ call' = [d \in CatClients |->
                  IF d = c THEN next
                  ELSE [call[d] EXCEPT !.stale = @ \/ (Of(d) = Of(c) /\ call[d].at \in Holding),
                                       !.old = @ \/ (Of(d) = Of(c) /\ call[d].at \in {"queued", "apply"})]]
    BY <1>1, Zenon DEF Saves, Overtaken, Of, Holding
  <1>3. excused' \subseteq ServiceOf
    <2>1. \A d \in CatClients : call[d].at = "jenkins" => Of(d) \in ServiceOf
      BY WaitersAreServices DEF CatTyped
    <2>2. excused' \subseteq excused \cup {Of(d) : d \in {d \in CatClients : call[d].at = "jenkins"}}
      BY DEF Saves
    <2> QED BY <2>1, <2>2 DEF CatTyped, RowsTyped
  <1>4. template' \in [ServiceOf -> Templates]
    BY <1>1, <1>2 DEF CatTyped, RowsTyped
  <1>5. /\ CallBecomes(c, next)
        /\ \A d \in CatClients \ {c} : Of(d) = Of(c) =>
             /\ call[d].at \in Holding => call'[d].stale
             /\ call[d].at \in {"queued", "apply"} => call'[d].old
    <2> DEFINE late == [d \in CatClients |-> Of(d) = Of(c) /\ call[d].at \in Holding]
               old  == [d \in CatClients |-> Of(d) = Of(c) /\ call[d].at \in {"queued", "apply"}]
    <2>1. call' = [d \in CatClients |-> IF d = c THEN next
                                         ELSE [call[d] EXCEPT !.stale = @ \/ late[d], !.old = @ \/ old[d]]]
      BY <1>2
    <2>2. late \in [CatClients -> BOOLEAN] /\ old \in [CatClients -> BOOLEAN]
      OBVIOUS
    <2>3. /\ CallBecomes(c, next)
          /\ \A d \in CatClients \ {c} : (late[d] => call'[d].stale) /\ (old[d] => call'[d].old)
      <3> HIDE DEF late, old
      <3>1. CallsTyped
        BY DEF CatTyped
      <3>2. call' = [d \in CatClients |-> call'[d]] /\ call'[c] = next
        BY <2>1
      <3>3. \A d \in CatClients \ {c} :
               call'[d] = [call[d] EXCEPT !.stale = @ \/ late[d], !.old = @ \/ old[d]]
        BY <2>1
      <3> QED BY <2>2, <3>1, <3>2, <3>3, Outdated
    <2> QED BY <2>3
  <1>6. CallsTyped'
    BY <1>5, CallsStayTyped DEF CatTyped
  <1> QED BY <1>1, <1>2, <1>3, <1>4, <1>5, <1>6, ServiceSaved DEF CatTyped

LEMMA ServiceUpdateTyped ==
    ASSUME CatTyped, NEW c \in CatClients, ServiceUpdate(c)
    PROVE  CatTyped'
  <1> DEFINE next == [call[c] EXCEPT !.at = "jenkins"]
  <1>1. PICK t \in Templates :
          /\ Saves(c, t, next)
          /\ asked' = [asked EXCEPT ![Of(c)] = IF call[c].stale \/ t # call[c].copy THEN "none" ELSE @]
    BY DEF ServiceUpdate
  <1>2. next \in Call /\ CallKnows(next)
    BY DEF CatTyped, CallsTyped, CallKnows, Call, CallSteps, Holding, ServiceUpdate
  <1>3. asked' \in [ServiceOf -> Counts \cup {"none"}]
    BY <1>1 DEF CatTyped, RowsTyped
  <1> HIDE DEF next
  <1> QED BY <1>1, <1>2, <1>3, SavesTyped DEF ServiceUpdate, CatTyped, RowsTyped

LEMMA WholeRowSaveTyped ==
    ASSUME CatTyped, NEW c \in CatClients, WholeRowSave(c)
    PROVE  CatTyped'
  <1>1. call[c].copy \in Templates
    BY DEF CatTyped, CallsTyped, Call
  <1>2. asked' \in [ServiceOf -> Counts \cup {"none"}]
    BY DEF WholeRowSave, CatTyped, RowsTyped
  <1> QED BY <1>1, <1>2, SavesTyped, IdleIsCall DEF WholeRowSave, CatTyped, RowsTyped

LEMMA ScaleSaveTyped ==
    ASSUME CatTyped, NEW c \in CatClients, ScaleSave(c)
    PROVE  CatTyped'
  <1>1. Scaled(c) \in Templates /\ call[c].count \in Counts
    BY CatalogueAssumption DEF CatTyped, CallsTyped, Call, Scaled, Templates
  <1>2. asked' \in [ServiceOf -> Counts \cup {"none"}]
    BY <1>1 DEF ScaleSave, CatTyped, RowsTyped
  <1> QED BY <1>1, <1>2, SavesTyped, IdleIsCall DEF ScaleSave, CatTyped, RowsTyped

(* The task that a deployment queues knows its service and its manifest.    *)
LEMMA QueuedIsCall ==
    ASSUME CatTyped, NEW c \in CatClients, call[c].at = "handle"
    PROVE  LET r == Queued(call[c])
           IN  /\ r \in Call /\ CallKnows(r) /\ r.at = "queued" /\ r.kind = call[c].kind
               /\ Row(r.app, r.env) = Of(c) /\ r.manifest = call[c].copy /\ r.old = call[c].stale
  BY DEF CatTyped, CallsTyped, CallKnows, Call, CallSteps, Queued, Row, Of, Templates, Holding

LEMMA DeployQueueTyped ==
    ASSUME CatTyped, NEW c \in CatClients, DeployQueue(c)
    PROVE  CatTyped' /\ CallBecomes(c, Queued(call[c]))
  <1>1. /\ call' = [call EXCEPT ![c] = Queued(call[c])] /\ call[c].at = "handle"
        /\ UNCHANGED <<apps, given, services, newest, jobs, template, live, calls, asked, excused>>
    BY DEF DeployQueue
  <1>2. Queued(call[c]) \in Call /\ CallKnows(Queued(call[c]))
    BY <1>1, QueuedIsCall
  <1>3. CallBecomes(c, Queued(call[c])) /\ CallsTyped'
    BY <1>1, <1>2, OneCall, CallsStayTyped DEF CatTyped
  <1> QED BY <1>1, <1>3 DEF CatTyped, RowsTyped

LEMMA DeployOnlineTyped ==
    ASSUME CatTyped, NEW c \in CatClients, DeployOnline(c)
    PROVE  CatTyped'
  <1>1. call[c].copy \in Templates /\ Queued(call[c]) \in Call /\ CallKnows(Queued(call[c]))
    BY QueuedIsCall DEF CatTyped, CallsTyped, Call, DeployOnline
  <1>2. asked' \in [ServiceOf -> Counts \cup {"none"}]
    BY DEF DeployOnline, CatTyped, RowsTyped
  <1> QED BY <1>1, <1>2, SavesTyped DEF DeployOnline, CatTyped, RowsTyped

LEMMA TaskReadTyped ==
    ASSUME CatTyped, NEW c \in CatClients, TaskRead(c)
    PROVE  /\ CatTyped'
           /\ \E r \in Call :
                /\ CallBecomes(c, r)
                /\ \/ r = Idle0
                   \/ /\ r.at = "apply" /\ r.kind = call[c].kind /\ Row(r.app, r.env) = Of(c)
                      /\ Has(r.app, r.env) /\ r.app \in Applications /\ r.env \in Envs
                      /\ r.copy = template[Of(c)] /\ r.manifest = call[c].manifest /\ r.old = call[c].old
  <1>1. UNCHANGED <<apps, given, services, newest, jobs, template, live, calls, asked, excused>>
    BY DEF TaskRead
  <1>2. CASE Ends(c)
    <2>1. CallBecomes(c, Idle0) /\ CallsTyped'
      BY <1>2, EndsTyped DEF CatTyped
    <2> QED BY <1>1, <2>1, IdleIsCall DEF CatTyped, RowsTyped
  <1>3. CASE Has(call[c].app, call[c].env)
             /\ call' = [call EXCEPT ![c].at = "apply", ![c].copy = template[Of(c)], ![c].gone = FALSE]
    <2> DEFINE r == [call[c] EXCEPT !.at = "apply", !.copy = template[Of(c)], !.gone = FALSE]
    <2>1. call' = [call EXCEPT ![c] = r]
      BY <1>3 DEF CatTyped, CallsTyped
    <2>2. /\ call[c] \in Call /\ Of(c) \in ServiceOf /\ Of(c) = Row(call[c].app, call[c].env)
          /\ call[c].app \in Applications /\ call[c].env \in Envs
      BY WaitersAreServices DEF TaskRead, CatTyped, CallsTyped, CallKnows, Of, Row
    <2>3. template[Of(c)] \in Templates
      BY <2>2 DEF CatTyped, RowsTyped
    <2>4. /\ r \in Call /\ CallKnows(r) /\ r.at = "apply" /\ r.kind = call[c].kind
          /\ r.app = call[c].app /\ r.env = call[c].env
          /\ r.copy = template[Of(c)] /\ r.manifest = call[c].manifest /\ r.old = call[c].old
      BY <2>2, <2>3 DEF Call, CallKnows, CallSteps, Holding
    <2> HIDE DEF r
    <2>5. CallBecomes(c, r) /\ CallsTyped'
      BY <2>1, <2>4, OneCall, CallsStayTyped DEF CatTyped
    <2>6. CatTyped'
      BY <1>1, <2>5 DEF CatTyped, RowsTyped
    <2> QED BY <1>3, <2>2, <2>4, <2>5, <2>6
  <1> QED BY <1>2, <1>3 DEF TaskRead

Applied(r) == [r EXCEPT !.at = "save", !.manifest = "blank", !.old = FALSE]

LEMMA DeployApplyTyped ==
    ASSUME CatTyped, NEW c \in CatClients, DeployApply(c)
    PROVE  /\ CatTyped'
           /\ CallBecomes(c, Applied(call[c])) /\ Applied(call[c]) \in Call
           /\ \A d \in CatClients \ {c} : Of(d) = Of(c) /\ call[d].kind = "scale" => call'[d].stale
  <1> DEFINE next == Applied(call[c])
  <1>1. next \in Call /\ CallKnows(next)
    BY DEF CatTyped, CallsTyped, CallKnows, Call, CallSteps, DeployApply, Applied, Templates, Holding
  <1>2. /\ CallBecomes(c, next)
        /\ \A d \in CatClients \ {c} : Of(d) = Of(c) /\ call[d].kind = "scale" => call'[d].stale
    <2> DEFINE late == [d \in CatClients |-> Of(d) = Of(c) /\ call[d].kind = "scale"]
    <2>1. call' = [d \in CatClients |-> IF d = c THEN next ELSE [call[d] EXCEPT !.stale = @ \/ late[d]]]
      BY DEF DeployApply, Applied
    <2>2. late \in [CatClients -> BOOLEAN]
      OBVIOUS
    <2>3. CallBecomes(c, next) /\ \A d \in CatClients \ {c} : late[d] => call'[d].stale
      <3> HIDE DEF late, next
      <3> QED BY <1>1, <2>1, <2>2, Staled DEF CatTyped
    <2> QED BY <2>3
  <1>3. CallsTyped'
    BY <1>1, <1>2, CallsStayTyped DEF CatTyped
  <1>4. live' \in [ServiceOf -> Counts \cup {"none"}] /\ asked' \in [ServiceOf -> Counts \cup {"none"}]
    BY DEF DeployApply, CatTyped, RowsTyped
  <1> QED BY <1>1, <1>2, <1>3, <1>4 DEF DeployApply, CatTyped, RowsTyped

LEMMA ScaleDeploymentTyped ==
    ASSUME CatTyped, NEW c \in CatClients, NEW a \in Applications, NEW e \in Envs, NEW n \in Counts,
           ScaleDeployment(c, a, e, n)
    PROVE  /\ CatTyped'
           /\ \E r \in Call :
                /\ CallBecomes(c, r) /\ r.at = "lookup" /\ r.kind = "scale" /\ r.app = a /\ r.env = e
                /\ r.count = n /\ (~r.stale => live'[Row(a, e)] = n)
           /\ \A s \in ServiceOf : s # Row(a, e) => live'[s] = live[s]
           /\ \A d \in CatClients \ {c} : Of(d) = Row(a, e) /\ call[d].kind = "scale" => call'[d].stale
  <1> DEFINE late == [d \in CatClients |-> Of(d) = Row(a, e) /\ call[d].kind = "scale"]
  <1>1. PICK ok \in BOOLEAN :
          /\ live' = [live EXCEPT ![Row(a, e)] = IF ok THEN n ELSE @]
          /\ call' = [d \in CatClients |-> IF d = c
                         THEN [Idle0 EXCEPT !.at = "lookup", !.kind = "scale", !.app = a, !.env = e,
                                            !.count = n, !.stale = ~ok]
                         ELSE [call[d] EXCEPT !.stale = @ \/ late[d]]]
    BY DEF ScaleDeployment, Row
  <1> DEFINE next == [Idle0 EXCEPT !.at = "lookup", !.kind = "scale", !.app = a, !.env = e,
                                   !.count = n, !.stale = ~ok]
  <1>2. late \in [CatClients -> BOOLEAN]
    OBVIOUS
  <1>3. /\ next \in Call /\ CallKnows(next)
        /\ next.at = "lookup" /\ next.kind = "scale" /\ next.app = a /\ next.env = e
        /\ next.count = n /\ (~next.stale => ok)
    <2> DEFINE b == ~ok
    <2>1. b \in BOOLEAN
      OBVIOUS
    <2> HIDE DEF b
    <2>2. LET r == [Idle0 EXCEPT !.at = "lookup", !.kind = "scale", !.app = a, !.env = e, !.count = n, !.stale = b]
          IN  /\ r \in Call /\ CallKnows(r)
              /\ r.at = "lookup" /\ r.kind = "scale" /\ r.app = a /\ r.env = e /\ r.count = n /\ r.stale = b
      BY <2>1, CatalogueAssumption DEF Idle0, Call, CallKnows, CallSteps, CallKinds, Templates, Holding
    <2> QED BY <2>2 DEF b
  <1>4. live' \in [ServiceOf -> Counts \cup {"none"}] /\ asked' \in [ServiceOf -> Counts \cup {"none"}]
    BY <1>1 DEF ScaleDeployment, CatTyped, RowsTyped
  <1>5. calls' \in 0..MaxCalls
    BY CatalogueAssumption DEF ScaleDeployment, CatTyped, RowsTyped
  <1>6. UNCHANGED <<apps, given, services, newest, jobs, template, excused>>
    BY DEF ScaleDeployment
  <1>7. CallBecomes(c, next) /\ \A d \in CatClients \ {c} : late[d] => call'[d].stale
    <2>1. call' = [d \in CatClients |-> IF d = c THEN next ELSE [call[d] EXCEPT !.stale = @ \/ late[d]]]
      BY <1>1, Zenon
    <2>2. next \in Call /\ CallsTyped
      BY <1>3 DEF CatTyped
    <2> HIDE DEF late, next
    <2> QED BY <1>2, <2>1, <2>2, Staled
  <1>8. CallsTyped'
    <2> HIDE DEF next
    <2> QED BY <1>3, <1>7, CallsStayTyped DEF CatTyped
  <1>9. RowsTyped'
    BY <1>4, <1>5, <1>6 DEF CatTyped, RowsTyped
  <1>10. Row(a, e) \in ServiceOf /\ (ok => live'[Row(a, e)] = n)
         /\ \A s \in ServiceOf : s # Row(a, e) => live'[s] = live[s]
    BY <1>1 DEF Row, ServiceOf, CatTyped, RowsTyped
  <1>11. \A d \in CatClients \ {c} : Of(d) = Row(a, e) /\ call[d].kind = "scale" => call'[d].stale
    BY <1>7
  <1> HIDE DEF next, late
  <1> QED BY <1>1, <1>3, <1>7, <1>8, <1>9, <1>10, <1>11 DEF CatTyped

(* A service of the newest application of that name, and its row.           *)
LEMMA LookupTyped ==
    ASSUME CatTyped, NEW c \in CatClients, ScaleLookup(c)
    PROVE  /\ CatTyped'
           /\ \E r \in Call :
                /\ CallBecomes(c, r)
                /\ \/ r = Idle0
                   \/ /\ r.at = "save" /\ r.app \in Applications /\ r.env \in Envs /\ Has(r.app, r.env)
                      /\ r.kind = call[c].kind /\ r.count = call[c].count
                      /\ r.copy = template[Row(r.app, r.env)]
                      /\ ~r.stale => ~call[c].stale /\ Row(r.app, r.env) = Of(c)
  <1>1. UNCHANGED <<apps, given, services, newest, jobs, template, live, calls, asked, excused>>
    BY DEF ScaleLookup
  <1>2. CASE Ends(c)
    <2>1. CallBecomes(c, Idle0) /\ CallsTyped'
      BY <1>2, EndsTyped DEF CatTyped
    <2> QED BY <1>1, <2>1, IdleIsCall DEF CatTyped, RowsTyped
  <1>3. ASSUME NEW s \in Matching(c),
               call' = [call EXCEPT ![c].at = "save", ![c].app = s[1], ![c].env = s[2], ![c].gone = FALSE,
                                    ![c].copy = template[s], ![c].stale = @ \/ s # Of(c)]
        PROVE  /\ CatTyped'
               /\ \E r \in Call :
                    /\ CallBecomes(c, r)
                    /\ r.at = "save" /\ r.app \in Applications /\ r.env \in Envs /\ Has(r.app, r.env)
                    /\ r.kind = call[c].kind /\ r.count = call[c].count
                    /\ r.copy = template[Row(r.app, r.env)]
                    /\ ~r.stale => ~call[c].stale /\ Row(r.app, r.env) = Of(c)
    <2> DEFINE late == call[c].stale \/ s # Of(c)
               row  == [call[c] EXCEPT !.at = "save", !.app = s[1], !.env = s[2], !.gone = FALSE,
                                       !.copy = template[s], !.stale = late]
    <2>1. call' = [call EXCEPT ![c] = row]
      BY <1>3 DEF CatTyped, CallsTyped
    <2>2. s \in ServiceOf /\ Has(s[1], s[2]) /\ s[1] \in Applications /\ s[2] \in Envs /\ s = Row(s[1], s[2])
      BY <1>3 DEF Matching, ServiceOf, Row
    <2>3. template[s] \in Templates /\ call[c] \in Call
      BY <2>2 DEF CatTyped, RowsTyped, CallsTyped
    <2>4. late \in BOOLEAN
      BY <2>3 DEF Call
    <2>5. ~late => ~call[c].stale /\ s = Of(c)
      OBVIOUS
    <2> HIDE DEF late
    <2>6. /\ row \in Call /\ CallKnows(row) /\ row.at = "save" /\ row.app = s[1] /\ row.env = s[2]
          /\ row.kind = call[c].kind /\ row.count = call[c].count
          /\ row.copy = template[s] /\ row.stale = late
      BY <2>2, <2>3, <2>4 DEF Call, CallKnows, CallSteps
    <2> HIDE DEF row
    <2>7. CallBecomes(c, row) /\ CallsTyped'
      BY <2>1, <2>6, OneCall, CallsStayTyped DEF CatTyped
    <2>8. CatTyped'
      BY <1>1, <2>7 DEF CatTyped, RowsTyped
    <2>9. Row(row.app, row.env) = s
      BY <2>2, <2>6
    <2> QED BY <2>2, <2>5, <2>6, <2>7, <2>8, <2>9
  <1> QED BY <1>2, <1>3 DEF ScaleLookup

LEMMA DestroyServicesTyped ==
    ASSUME CatTyped, NEW c \in CatClients, NEW a \in Applications, DestroyServices(c, a)
    PROVE  CatTyped' /\ CallBecomes(c, [Idle0 EXCEPT !.at = "remove", !.kind = "destroy", !.app = a])
  <1> DEFINE next == [Idle0 EXCEPT !.at = "remove", !.kind = "destroy", !.app = a]
             B(d) == call[d].gone \/ call[d].app = a
  <1>1. /\ call' = [d \in CatClients |-> IF d = c THEN next ELSE [call[d] EXCEPT !.gone = B(d)]]
        /\ services' = [services EXCEPT ![a] = {}] /\ newest' = [newest EXCEPT ![a] = "none"]
        /\ asked' = [s \in ServiceOf |-> IF s[1] = a THEN "none" ELSE asked[s]]
        /\ a \in ToSet(apps) /\ calls < MaxCalls /\ calls' = calls + 1
        /\ UNCHANGED <<apps, given, jobs, template, live, excused>>
    BY DEF DestroyServices
  <1>2. next \in Call /\ CallKnows(next)
    BY IdleIsCall DEF Idle0, Call, CallKnows, CallSteps, CallKinds, Holding
  <1> HIDE DEF next
  <1>3. \A d \in CatClients : call[d] \in Call /\ B(d) \in BOOLEAN /\ (call[d].gone => B(d))
    BY DEF CatTyped, CallsTyped, Call
  <1> HIDE DEF B
  <1>4. ASSUME NEW d \in CatClients \ {c}
        PROVE  /\ call'[d] \in Call /\ call'[d].gone = B(d) /\ call'[d].stale = call[d].stale
               /\ call'[d].at = call[d].at /\ call'[d].kind = call[d].kind /\ call'[d].app = call[d].app
               /\ call'[d].env = call[d].env /\ call'[d].copy = call[d].copy /\ call'[d].count = call[d].count
               /\ call'[d].manifest = call[d].manifest /\ call'[d].old = call[d].old
    <2>1. call'[d] = [call[d] EXCEPT !.gone = B(d)] /\ call[d] \in Call /\ B(d) \in BOOLEAN
      BY <1>1, <1>3
    <2>2. call'[d] \in Call /\ call'[d].gone = B(d)
      BY <2>1 DEF Call
    <2>3. /\ call'[d].stale = call[d].stale /\ call'[d].manifest = call[d].manifest /\ call'[d].old = call[d].old
          /\ call'[d].at = call[d].at /\ call'[d].kind = call[d].kind /\ call'[d].app = call[d].app
          /\ call'[d].env = call[d].env /\ call'[d].copy = call[d].copy /\ call'[d].count = call[d].count
      BY <2>1 DEF Call
    <2> QED BY <2>2, <2>3
  <1>5. CallBecomes(c, next)
    <2>1. call'[c] = next
      BY <1>1
    <2>2. call' \in [CatClients -> Call]
      <3>1. \A d \in CatClients : call'[d] \in Call
        BY <1>2, <1>4, <2>1
      <3> QED BY <1>1, <3>1, Zenon
    <2>3. \A d \in CatClients \ {c} : /\ (call[d].stale => call'[d].stale) /\ (call[d].gone => call'[d].gone)
                                       /\ (call[d].old => call'[d].old)
      BY <1>3, <1>4
    <2> QED BY <1>4, <2>1, <2>2, <2>3, Zenon DEF CallBecomes
  <1>6. CallsTyped'
    BY <1>2, <1>5, CallsStayTyped DEF CatTyped
  <1>7. calls' \in 0..MaxCalls
    BY <1>1, CatalogueAssumption DEF CatTyped, RowsTyped
  <1>8. RowsTyped'
    BY <1>1, <1>7 DEF CatTyped, RowsTyped
  <1> QED BY <1>5, <1>6, <1>8 DEF CatTyped, next

LEMMA DestroyAppTyped ==
    ASSUME CatTyped, NEW c \in CatClients, DestroyApp(c)
    PROVE  CatTyped'
  <1> DEFINE a == call[c].app
  <1>1. /\ CallsTyped' /\ UNCHANGED <<given, services, newest, jobs, template, live, calls, asked, excused>>
        /\ apps' = IF services[a] = {} /\ a \in ToSet(apps) THEN Without(a) ELSE apps
    BY EndsTyped DEF DestroyApp, CatTyped
  <1>2. CASE services[a] = {} /\ a \in ToSet(apps)
    <2> DEFINE k == CHOOSE i \in DOMAIN apps : apps[i] = a
    <2>1. k \in DOMAIN apps /\ apps[k] = a
      BY <1>2 DEF ToSet
    <2>2. apps' = RemoveAt(apps, k)
      BY <1>1, <1>2 DEF Without
    <2> HIDE DEF k
    <2>3. apps' \in Seq(Applications) /\ IsInjective(apps') /\ ToSet(apps') = ToSet(apps) \ {a}
      BY <2>1, <2>2, Removed DEF CatTyped, RowsTyped
    <2> HIDE DEF a
    <2>4. \A b \in Applications : services[b] # {} => b \in ToSet(apps')
      BY <1>2, <2>3 DEF CatTyped, RowsTyped
    <2> QED BY <1>1, <2>3, <2>4 DEF CatTyped, RowsTyped
  <1>3. CASE ~(services[a] = {} /\ a \in ToSet(apps))
    BY <1>1, <1>3 DEF CatTyped, RowsTyped
  <1> QED BY <1>2, <1>3

LEMMA CatStays ==
    ASSUME CatTyped, UNCHANGED catVars
    PROVE  CatTyped'
  BY DEF CatTyped, RowsTyped, CallsTyped, CallKnows, catVars

LEMMA CatStep == CatTyped /\ [CatNext]_catVars => CatTyped'
  <1> SUFFICES ASSUME CatTyped, CatNext PROVE CatTyped'
    BY CatStays
  <1>1. PICK c \in CatClients :
           \/ \E a \in Applications : AppCreate(c, a) \/ DestroyServices(c, a)
           \/ \E a \in Applications, e \in Envs :
                \/ ServiceCreate(c, a, e)
                \/ \E k \in {"update", "edit", "deploy"} : RowRead(c, k, a, e)
                \/ \E n \in Counts : ScaleDeployment(c, a, e, n)
           \/ ExtendJenkins(c) \/ RowRefused(c) \/ ServiceUpdate(c) \/ WholeRowSave(c)
           \/ DeployQueue(c) \/ DeployOnline(c) \/ TaskRead(c) \/ DeployApply(c)
           \/ ScaleLookup(c) \/ ScaleSave(c) \/ DestroyApp(c) \/ CallDies(c)
    BY DEF CatNext
  <1>2. CASE \E a \in Applications : AppCreate(c, a) \/ DestroyServices(c, a)
    BY <1>2, AppCreateTyped, DestroyServicesTyped
  <1>3. CASE \E a \in Applications, e \in Envs :
                \/ ServiceCreate(c, a, e)
                \/ \E k \in {"update", "edit", "deploy"} : RowRead(c, k, a, e)
                \/ \E n \in Counts : ScaleDeployment(c, a, e, n)
    BY <1>3, ServiceCreateTyped, RowReadTyped, ScaleDeploymentTyped
  <1>4. CASE ExtendJenkins(c) \/ RowRefused(c) \/ ServiceUpdate(c) \/ WholeRowSave(c)
    BY <1>4, JenkinsTyped, RefusedTyped, ServiceUpdateTyped, WholeRowSaveTyped
  <1>5. CASE DeployApply(c) \/ ScaleLookup(c) \/ ScaleSave(c) \/ DestroyApp(c) \/ CallDies(c)
    BY <1>5, DeployApplyTyped, LookupTyped, ScaleSaveTyped, DestroyAppTyped, DiesTyped
  <1>6. CASE DeployQueue(c) \/ DeployOnline(c) \/ TaskRead(c)
    BY <1>6, DeployQueueTyped, DeployOnlineTyped, TaskReadTyped
  <1> QED BY <1>1, <1>2, <1>3, <1>4, <1>5, <1>6

LEMMA CatAlwaysTyped == CatSpec => []CatTyped
  BY CatStart, CatStep, PTL DEF CatSpec

(* The catalogue keeps its types: no application is listed twice, and no    *)
(* service is left without its application, whichever requests overlap.     *)
THEOREM CatalogueTypes == CatSpec => []CatTypeOK
  <1>1. CatTyped => CatTypeOK
    BY DEF CatTyped, RowsTyped, CatTypeOK
  <1> QED BY <1>1, CatAlwaysTyped, PTL

-----------------------------------------------------------------------------
(* A service of an application has its job, or is excused, or a client is   *)
(* about to make it; so has any row that a request will write back.         *)

Waiting == {Of(d) : d \in {d \in CatClients : call[d].at = "jenkins"}}
Known   == jobs \cup excused \cup Waiting

(* Whoever waits for Jenkins waits for the service saved last, or is        *)
(* excused; and its application has been created.                           *)
WaitersInTime ==
    \A c \in CatClients : call[c].at = "jenkins" /\ services[call[c].app] # {} =>
        newest[call[c].app] = call[c].env \/ Of(c) \in jobs \cup excused

RowsKnown ==
    /\ \A a \in Applications : \A e \in services[a] : <<a, e>> \in Known
    /\ \A c \in CatClients : call[c].at \in Holding => Of(c) \in Known
    /\ \A c \in CatClients : call[c].at \in Holding \cup {"jenkins"} => call[c].app \in given

JobsInv == CatTyped /\ WaitersInTime /\ RowsKnown

(* What a step leaves of the others' requests.                              *)
LEMMA OthersStay ==
    ASSUME NEW c \in CatClients, NEW r \in Call, CallBecomes(c, r)
    PROVE  /\ Of(c)' = <<r.app, r.env>> /\ call'[c] = r
           /\ \A d \in CatClients \ {c} : Of(d)' = Of(d) /\ call'[d].at = call[d].at
                                              /\ call'[d].app = call[d].app /\ call'[d].env = call[d].env
  BY DEF CallBecomes, Of

(* A step that saves no service, and leaves no service without a job.       *)
LEMMA JobsKept ==
    ASSUME JobsInv, CatTyped', NEW c \in CatClients, NEW r \in Call, CallBecomes(c, r),
           jobs \subseteq jobs', excused \subseteq excused', given \subseteq given',
           call[c].at = "jenkins" => Of(c) \in jobs' \cup excused',
           \A a \in Applications : services'[a] = {} \/ (services'[a] = services[a] /\ newest'[a] = newest[a]),
           r.at # "jenkins", r.at \in Holding => <<r.app, r.env>> \in Known /\ r.app \in given
    PROVE  JobsInv'
  <1>1. /\ Of(c)' = <<r.app, r.env>> /\ call'[c] = r
        /\ \A d \in CatClients \ {c} : Of(d)' = Of(d) /\ call'[d].at = call[d].at
                                           /\ call'[d].app = call[d].app /\ call'[d].env = call[d].env
    BY OthersStay
  <1>2. Known \subseteq Known'
    <2> SUFFICES ASSUME NEW x \in Waiting, x \notin jobs' \cup excused' PROVE x \in Waiting'
      BY DEF Known
    <2>1. PICK d \in CatClients : call[d].at = "jenkins" /\ x = Of(d)
      BY DEF Waiting
    <2>2. d # c
      BY <2>1
    <2>3. call'[d].at = "jenkins" /\ x = Of(d)'
      BY <1>1, <2>1, <2>2
    <2> QED BY <2>3 DEF Waiting
  <1>3. WaitersInTime'
    <2> SUFFICES ASSUME NEW d \in CatClients, call'[d].at = "jenkins", services'[call'[d].app] # {}
                 PROVE  newest'[call'[d].app] = call'[d].env \/ Of(d)' \in jobs' \cup excused'
      BY DEF WaitersInTime
    <2>1. /\ d # c /\ Of(d)' = Of(d) /\ call[d].at = "jenkins"
          /\ call'[d].app = call[d].app /\ call'[d].env = call[d].env
      BY <1>1
    <2>2. call[d].app \in Applications
      BY <2>1 DEF JobsInv, CatTyped, CallsTyped, CallKnows
    <2>3. services'[call[d].app] = services[call[d].app] /\ newest'[call[d].app] = newest[call[d].app]
      BY <2>1, <2>2
    <2> QED BY <2>1, <2>3 DEF JobsInv, WaitersInTime
  <1>4. RowsKnown'
    <2>1. ASSUME NEW a \in Applications, NEW e \in services'[a] PROVE <<a, e>> \in Known'
      BY <1>2 DEF JobsInv, RowsKnown
    <2>2. ASSUME NEW d \in CatClients, call'[d].at \in Holding PROVE Of(d)' \in Known'
      BY <1>1, <1>2, <2>2 DEF JobsInv, RowsKnown
    <2>3. ASSUME NEW d \in CatClients, call'[d].at \in Holding \cup {"jenkins"} PROVE call'[d].app \in given'
      BY <1>1, <2>3 DEF JobsInv, RowsKnown
    <2> QED BY <2>1, <2>2, <2>3 DEF RowsKnown
  <1> QED BY <1>3, <1>4 DEF JobsInv

(* A step that saves service <<a, e>>.                                      *)
LEMMA JobsSaved ==
    ASSUME JobsInv, CatTyped', NEW c \in CatClients, NEW r \in Call, CallBecomes(c, r),
           NEW a \in Applications, NEW e \in Envs, a \in given,
           jobs' = jobs, given' = given, call[c].at # "jenkins",
           RowSaved(a, e), excused \ {Row(a, e)} \subseteq excused',
           \A d \in CatClients : call[d].at = "jenkins" /\ call[d].app = a /\ call[d].env # e => Of(d) \in excused',
           \/ r.at = "jenkins" /\ r.app = a /\ r.env = e
           \/ r.at \in {"idle", "queued"} /\ excused \subseteq excused' /\ Row(a, e) \in Known
    PROVE  JobsInv'
  <1>0. /\ Row(a, e) = <<a, e>>
        /\ services' = [services EXCEPT ![a] = @ \cup {e}] /\ newest' = [newest EXCEPT ![a] = e]
    BY DEF Row, RowSaved
  <1>1. /\ Of(c)' = <<r.app, r.env>> /\ call'[c] = r
        /\ \A d \in CatClients \ {c} : Of(d)' = Of(d) /\ call'[d].at = call[d].at
                                           /\ call'[d].app = call[d].app /\ call'[d].env = call[d].env
    BY OthersStay
  <1>2. Waiting \subseteq Waiting'
    <2> SUFFICES ASSUME NEW x \in Waiting PROVE x \in Waiting'
      OBVIOUS
    <2>1. PICK d \in CatClients : call[d].at = "jenkins" /\ x = Of(d)
      BY DEF Waiting
    <2>2. d # c /\ call'[d].at = "jenkins" /\ x = Of(d)'
      BY <1>1, <2>1
    <2> QED BY <2>2 DEF Waiting
  <1>3. Row(a, e) \in Known'
    <2>1. CASE r.at = "jenkins" /\ r.app = a /\ r.env = e
      <3>1. call'[c].at = "jenkins" /\ Of(c)' = Row(a, e)
        BY <1>0, <1>1, <2>1
      <3> QED BY <3>1 DEF Known, Waiting
    <2>2. CASE excused \subseteq excused' /\ Row(a, e) \in Known
      BY <1>2, <2>2 DEF Known
    <2> QED BY <2>1, <2>2
  <1>4. Known \subseteq Known'
    BY <1>2, <1>3 DEF Known
  <1>5. WaitersInTime'
    <2> SUFFICES ASSUME NEW d \in CatClients, call'[d].at = "jenkins", services'[call'[d].app] # {}
                 PROVE  newest'[call'[d].app] = call'[d].env \/ Of(d)' \in jobs' \cup excused'
      BY DEF WaitersInTime
    <2>1. CASE d = c
      BY <1>0, <1>1, <2>1 DEF JobsInv, CatTyped, RowsTyped
    <2>2. CASE d # c
      <3>1. /\ Of(d)' = Of(d) /\ call[d].at = "jenkins" /\ call'[d].app = call[d].app /\ call'[d].env = call[d].env
            /\ Of(d) = <<call[d].app, call[d].env>> /\ call[d].app \in Applications
        BY <1>1, <2>2 DEF Of, JobsInv, CatTyped, CallsTyped, CallKnows
      <3>2. CASE call[d].app = a
        <4>1. newest'[a] = e
          BY <1>0 DEF JobsInv, CatTyped, RowsTyped
        <4> QED BY <3>1, <3>2, <4>1
      <3>3. CASE call[d].app # a
        <4>1. services'[call[d].app] = services[call[d].app] /\ newest'[call[d].app] = newest[call[d].app]
          BY <1>0, <3>1, <3>3 DEF JobsInv, CatTyped, RowsTyped
        <4>2. Of(d) # Row(a, e)
          BY <1>0, <3>1, <3>3
        <4>3. newest[call[d].app] = call[d].env \/ Of(d) \in jobs \cup excused
          BY <3>1, <4>1 DEF JobsInv, WaitersInTime
        <4> QED BY <3>1, <4>1, <4>2, <4>3
      <3> QED BY <3>2, <3>3
    <2> QED BY <2>1, <2>2
  <1>6. RowsKnown'
    <2>1. ASSUME NEW b \in Applications, NEW f \in services'[b] PROVE <<b, f>> \in Known'
      <3>1. f \in services[b] \/ (b = a /\ f = e)
        BY <1>0 DEF JobsInv, CatTyped, RowsTyped
      <3> QED BY <1>0, <1>3, <1>4, <3>1 DEF JobsInv, RowsKnown
    <2>2. ASSUME NEW d \in CatClients, call'[d].at \in Holding PROVE Of(d)' \in Known'
      BY <1>1, <1>4, <2>2 DEF JobsInv, RowsKnown, Holding
    <2>3. ASSUME NEW d \in CatClients, call'[d].at \in Holding \cup {"jenkins"} PROVE call'[d].app \in given'
      BY <1>1, <2>3 DEF JobsInv, RowsKnown, Holding
    <2> QED BY <2>1, <2>2, <2>3 DEF RowsKnown
  <1> QED BY <1>5, <1>6 DEF JobsInv

LEMMA CreateKeepsJobs ==
    ASSUME JobsInv, NEW c \in CatClients, NEW a \in Applications, AppCreate(c, a)
    PROVE  JobsInv'
  <1> DEFINE wanted == {i \in DOMAIN EnvOrder : EnvOrder[i] \in Preset}
  <1>1. PICK n \in wanted \cup {0}, t \in Templates :
          LET envs == {EnvOrder[i] : i \in {i \in wanted : i <= n}}
              made == {a} \X envs
          IN  /\ services' = [services EXCEPT ![a] = envs]
              /\ newest' = [newest EXCEPT ![a] = IF n = 0 THEN "none" ELSE EnvOrder[n]]
              /\ \E failed \in SUBSET made :
                     /\ jobs' = jobs \cup (made \ failed)
                     /\ excused' = (excused \ made) \cup failed
    BY DEF AppCreate
  <1> DEFINE envs == {EnvOrder[i] : i \in {i \in wanted : i <= n}}
             made == {a} \X envs
  <1>2. /\ services' = [services EXCEPT ![a] = envs]
        /\ newest' = [newest EXCEPT ![a] = IF n = 0 THEN "none" ELSE EnvOrder[n]]
        /\ \E failed \in SUBSET made : jobs' = jobs \cup (made \ failed) /\ excused' = (excused \ made) \cup failed
        /\ \A e \in envs : <<a, e>> \in made
        /\ \A s \in made : s[1] = a
    BY <1>1
  <1>3. CatTyped' /\ a \notin given /\ given' = given \cup {a} /\ call' = call
    BY AppCreateTyped DEF AppCreate, JobsInv
  <1> HIDE DEF made, envs
  <1>4. jobs \cup excused \cup made \subseteq jobs' \cup excused'
    BY <1>2
  <1>5. \A d \in CatClients : Of(d)' = Of(d)
    BY <1>3 DEF Of
  <1>6. Waiting' = Waiting
    BY <1>3, <1>5 DEF Waiting
  <1>7. Known \cup made \subseteq Known'
    BY <1>4, <1>6 DEF Known
  <1>8. WaitersInTime'
    <2> SUFFICES ASSUME NEW d \in CatClients, call[d].at = "jenkins", services'[call[d].app] # {}
                 PROVE  newest'[call[d].app] = call[d].env \/ Of(d) \in jobs' \cup excused'
      BY <1>3, <1>5 DEF WaitersInTime
    <2>1. call[d].app # a /\ call[d].app \in Applications
      BY <1>3 DEF JobsInv, RowsKnown, CatTyped, CallsTyped, CallKnows
    <2>2. services'[call[d].app] = services[call[d].app] /\ newest'[call[d].app] = newest[call[d].app]
      BY <1>2, <2>1 DEF JobsInv, CatTyped, RowsTyped
    <2> QED BY <1>4, <2>2 DEF JobsInv, WaitersInTime
  <1>9. RowsKnown'
    <2>1. ASSUME NEW b \in Applications, NEW f \in services'[b] PROVE <<b, f>> \in Known'
      <3>1. f \in services[b] \/ (b = a /\ f \in envs)
        BY <1>2 DEF JobsInv, CatTyped, RowsTyped
      <3> QED BY <1>2, <1>7, <3>1 DEF JobsInv, RowsKnown
    <2>2. ASSUME NEW d \in CatClients, call'[d].at \in Holding PROVE Of(d)' \in Known'
      BY <1>3, <1>5, <1>7, <2>2 DEF JobsInv, RowsKnown
    <2>3. ASSUME NEW d \in CatClients, call'[d].at \in Holding \cup {"jenkins"} PROVE call'[d].app \in given'
      BY <1>3, <2>3 DEF JobsInv, RowsKnown
    <2> QED BY <2>1, <2>2, <2>3 DEF RowsKnown
  <1> QED BY <1>3, <1>8, <1>9 DEF JobsInv

LEMMA NewServiceKeepsJobs ==
    ASSUME JobsInv, NEW c \in CatClients, NEW a \in Applications, NEW e \in Envs, ServiceCreate(c, a, e)
    PROVE  JobsInv'
  <1>1. Begins(c, "create", "jenkins", a, e) /\ "create" \in CallKinds /\ "jenkins" \in CallSteps
    BY DEF ServiceCreate, CallKinds, CallSteps
  <1>0. CatTyped
    BY DEF JobsInv
  <1>2. PICK r \in Call : CallBecomes(c, r) /\ r.at = "jenkins" /\ r.app = a /\ r.env = e /\ a \in ToSet(apps)
    BY <1>0, <1>1, BeginsTyped
  <1>3. CatTyped' /\ a \in given /\ call[c].at # "jenkins"
    BY <1>1, <1>2, ServiceCreateTyped DEF JobsInv, CatTyped, RowsTyped, Begins
  <1>4. /\ RowSaved(a, e) /\ jobs' = jobs /\ given' = given
        /\ excused' = (excused \ {<<a, e>>})
                         \cup {Of(d) : d \in {d \in CatClients : call[d].at = "jenkins"
                                                 /\ call[d].app = a /\ call[d].env # e}}
    BY DEF ServiceCreate, RowSaved
  <1>5. /\ excused \ {Row(a, e)} \subseteq excused'
        /\ \A d \in CatClients : call[d].at = "jenkins" /\ call[d].app = a /\ call[d].env # e => Of(d) \in excused'
    BY <1>4 DEF Row
  <1> QED BY <1>2, <1>3, <1>4, <1>5, JobsSaved

(* The job is made for the service saved last, which is the one a client    *)
(* waits for unless it is excused.                                          *)
LEMMA JenkinsKeepsJobs ==
    ASSUME JobsInv, NEW c \in CatClients, ExtendJenkins(c)
    PROVE  JobsInv'
  <1>1. /\ CatTyped' /\ CallBecomes(c, Idle0) /\ Idle0 \in Call /\ Idle0.at = "idle"
        /\ UNCHANGED <<apps, given, services, newest>> /\ call[c].at = "jenkins"
    BY JenkinsTyped, EndsTyped, IdleIsCall DEF JobsInv, CatTyped, ExtendJenkins, Idle0
  <1>2. jobs \subseteq jobs' /\ excused \subseteq excused' /\ Of(c) \in jobs' \cup excused'
    <2>1. services[call[c].app] # {} => <<call[c].app, FirstOf(call[c].app)>> = Of(c) \/ Of(c) \in jobs \cup excused
      BY <1>1 DEF JobsInv, WaitersInTime, FirstOf, Of
    <2> QED BY <2>1 DEF ExtendJenkins
  <1> HIDE DEF Idle0
  <1>3. Idle0.at \notin Holding \cup {"jenkins"}
    BY <1>1 DEF Holding
  <1> QED BY <1>1, <1>2, <1>3, JobsKept

LEMMA SavesKeepJobs ==
    ASSUME JobsInv, CatTyped', NEW c \in CatClients, call[c].at \in {"handle", "save"}, Savable(c), NEW value \in Templates,
           NEW next \in Call, CallKnows(next), Saves(c, value, next), apps' = apps, jobs' = jobs, given' = given,
           \/ next.at = "jenkins" /\ next.app = call[c].app /\ next.env = call[c].env
           \/ next.at \in {"idle", "queued"}
    PROVE  JobsInv'
  <1> DEFINE a == call[c].app
             e == call[c].env
  <1>1. /\ CallBecomes(c, next) /\ Of(c) = Row(a, e) /\ a \in Applications /\ e \in Envs
        /\ a \in given /\ Row(a, e) \in Known
    BY SavesTyped DEF JobsInv, Of, CatTyped, CallsTyped, CallKnows, RowsKnown, Row, Holding
  <1>2. /\ RowSaved(a, e)
        /\ excused' = excused \cup {Of(d) : d \in {d \in CatClients : call[d].at = "jenkins"
                                    /\ call[d].app = a /\ call[d].env # e}}
    BY <1>1 DEF Saves, Row, RowSaved
  <1>3. /\ excused \subseteq excused'
        /\ \A d \in CatClients : call[d].at = "jenkins" /\ call[d].app = a /\ call[d].env # e => Of(d) \in excused'
    BY <1>2
  <1>4. \/ next.at = "jenkins" /\ next.app = a /\ next.env = e
        \/ next.at \in {"idle", "queued"}
    OBVIOUS
  <1>5. excused \ {Row(a, e)} \subseteq excused'
    BY <1>3
  <1>6. RowSaved(a, e)
    BY <1>2
  <1>7. call[c].at # "jenkins"
    OBVIOUS
  <1> HIDE DEF a, e
  <1> QED BY <1>1, <1>3, <1>4, <1>5, <1>6, <1>7, JobsSaved

LEMMA UpdateKeepsJobs ==
    ASSUME JobsInv, NEW c \in CatClients, ServiceUpdate(c)
    PROVE  JobsInv'
  <1> DEFINE next == [call[c] EXCEPT !.at = "jenkins"]
  <1>1. PICK t \in Templates : Saves(c, t, next)
    BY DEF ServiceUpdate
  <1>2. next \in Call /\ CallKnows(next) /\ next.at = "jenkins" /\ next.app = call[c].app /\ next.env = call[c].env
    BY DEF JobsInv, CatTyped, CallsTyped, CallKnows, Call, CallSteps, Holding, ServiceUpdate
  <1>3. call[c].at = "save" /\ Savable(c) /\ UNCHANGED <<apps, given, jobs>> /\ CatTyped'
    BY ServiceUpdateTyped DEF ServiceUpdate, JobsInv
  <1> HIDE DEF next
  <1> QED BY <1>1, <1>2, <1>3, SavesKeepJobs

LEMMA RowSavesKeepJobs ==
    ASSUME JobsInv, NEW c \in CatClients, WholeRowSave(c) \/ ScaleSave(c)
    PROVE  JobsInv'
  <1>1. Idle0 \in Call /\ CallKnows(Idle0) /\ Idle0.at = "idle"
    BY IdleIsCall DEF Idle0
  <1>2. call[c].at = "save" /\ Savable(c) /\ UNCHANGED <<apps, given, jobs>> /\ CatTyped'
    BY WholeRowSaveTyped, ScaleSaveTyped DEF WholeRowSave, ScaleSave, JobsInv
  <1>3. call[c].copy \in Templates /\ Scaled(c) \in Templates
    BY CatalogueAssumption DEF JobsInv, CatTyped, CallsTyped, Call, Scaled, Templates
  <1>4. PICK value \in Templates : Saves(c, value, Idle0)
    BY <1>3 DEF WholeRowSave, ScaleSave
  <1> HIDE DEF Idle0
  <1> QED BY <1>1, <1>2, <1>4, SavesKeepJobs

LEMMA QueueKeepsJobs ==
    ASSUME JobsInv, NEW c \in CatClients, DeployQueue(c) \/ DeployOnline(c)
    PROVE  JobsInv'
  <1>0. CatTyped /\ call[c].at = "handle"
    BY DEF JobsInv, DeployQueue, DeployOnline
  <1>1. Queued(call[c]) \in Call /\ CallKnows(Queued(call[c])) /\ Queued(call[c]).at = "queued"
    BY <1>0, QueuedIsCall
  <1>2. CASE DeployQueue(c)
    <2>1. /\ CatTyped' /\ CallBecomes(c, Queued(call[c]))
          /\ UNCHANGED <<apps, given, services, newest, jobs, excused>>
      BY <1>0, <1>2, DeployQueueTyped DEF DeployQueue
    <2>2. Queued(call[c]).at \notin Holding \cup {"jenkins"}
      BY <1>1 DEF Holding
    <2> QED BY <1>0, <1>1, <2>1, <2>2, JobsKept
  <1>3. CASE DeployOnline(c)
    <2>1. CatTyped'
      BY <1>0, <1>3, DeployOnlineTyped
    <2>2. /\ Savable(c) /\ Saves(c, call[c].copy, Queued(call[c])) /\ call[c].copy \in Templates
          /\ UNCHANGED <<apps, given, jobs>>
      BY <1>0, <1>3 DEF DeployOnline, CatTyped, CallsTyped, Call
    <2> QED BY <1>0, <1>1, <2>1, <2>2, SavesKeepJobs
  <1> QED BY <1>2, <1>3

LEMMA TaskKeepsJobs ==
    ASSUME JobsInv, NEW c \in CatClients, TaskRead(c)
    PROVE  JobsInv'
  <1>0. CatTyped
    BY DEF JobsInv
  <1>1. CatTyped' /\ UNCHANGED <<apps, given, services, newest, jobs, excused>> /\ call[c].at = "queued"
    BY <1>0, TaskReadTyped DEF TaskRead
  <1>2. PICK r \in Call :
          /\ CallBecomes(c, r)
          /\ r = Idle0 \/ (r.at = "apply" /\ Has(r.app, r.env) /\ r.app \in Applications)
    BY <1>0, TaskReadTyped
  <1>3. \/ r.at = "idle"
        \/ r.at = "apply" /\ <<r.app, r.env>> \in Known /\ r.app \in given
    BY <1>0, <1>2 DEF Idle0, JobsInv, CatTyped, RowsTyped, RowsKnown, Has
  <1>4. r.at # "jenkins" /\ (r.at \in Holding => <<r.app, r.env>> \in Known /\ r.app \in given)
    BY <1>3 DEF Holding
  <1> QED BY <1>1, <1>2, <1>4, JobsKept

LEMMA ReadKeepsJobs ==
    ASSUME JobsInv, NEW c \in CatClients, NEW kind \in {"update", "edit", "deploy"},
           NEW a \in Applications, NEW e \in Envs, RowRead(c, kind, a, e)
    PROVE  JobsInv'
  <1> DEFINE at == IF kind = "deploy" THEN "handle" ELSE "save"
  <1>1. /\ Begins(c, kind, at, a, e) /\ Has(a, e) /\ kind \in CallKinds /\ at \in CallSteps \ {"jenkins"}
        /\ UNCHANGED <<apps, given, services, newest, jobs, excused>> /\ call[c].at = "idle"
    BY DEF RowRead, CallKinds, CallSteps, Begins
  <1> HIDE DEF at
  <1>0. CatTyped
    BY DEF JobsInv
  <1>2. PICK r \in Call : CallBecomes(c, r) /\ r.at = at /\ r.app = a /\ r.env = e /\ a \in ToSet(apps)
    BY <1>0, <1>1, BeginsTyped
  <1>3. CatTyped' /\ a \in given /\ <<a, e>> \in Known
    BY <1>1, <1>2, RowReadTyped DEF JobsInv, CatTyped, RowsTyped, RowsKnown, Has
  <1> QED BY <1>1, <1>2, <1>3, JobsKept

LEMMA ApplyKeepsJobs ==
    ASSUME JobsInv, NEW c \in CatClients, DeployApply(c)
    PROVE  JobsInv'
  <1> DEFINE next == Applied(call[c])
  <1>1. next.at = "save" /\ next.app = call[c].app /\ next.env = call[c].env
    BY DEF JobsInv, CatTyped, CallsTyped, Call, Applied
  <1>2. /\ CatTyped' /\ CallBecomes(c, next) /\ next \in Call /\ call[c].at = "apply"
        /\ UNCHANGED <<apps, given, services, newest, jobs, excused>>
    BY DeployApplyTyped DEF JobsInv, DeployApply
  <1>3. <<call[c].app, call[c].env>> \in Known /\ call[c].app \in given
    BY <1>2 DEF JobsInv, RowsKnown, Of, Holding
  <1> HIDE DEF next
  <1> QED BY <1>1, <1>2, <1>3, JobsKept

LEMMA ScalingKeepsJobs ==
    ASSUME JobsInv, NEW c \in CatClients,
           \/ \E a \in Applications, e \in Envs, n \in Counts : ScaleDeployment(c, a, e, n)
           \/ ScaleLookup(c)
    PROVE  JobsInv'
  <1>1. CASE \E a \in Applications, e \in Envs, n \in Counts : ScaleDeployment(c, a, e, n)
    <2>1. PICK a \in Applications, e \in Envs, n \in Counts : ScaleDeployment(c, a, e, n)
      BY <1>1
    <2>2. PICK r \in Call : CallBecomes(c, r) /\ r.at = "lookup"
      <3>1. CatTyped
        BY DEF JobsInv
      <3> QED BY <2>1, <3>1, ScaleDeploymentTyped
    <2>3. /\ CatTyped' /\ UNCHANGED <<apps, given, services, newest, jobs, excused>> /\ call[c].at = "idle"
      <3>1. CatTyped
        BY DEF JobsInv
      <3>2. CatTyped'
        BY <2>1, <3>1, ScaleDeploymentTyped
      <3> QED BY <2>1, <3>2 DEF ScaleDeployment
    <2>4. r.at \notin Holding \cup {"jenkins"}
      BY <2>2 DEF Holding
    <2> QED BY <2>2, <2>3, <2>4, JobsKept
  <1>2. CASE ScaleLookup(c)
    <2>1. PICK r \in Call :
            /\ CallBecomes(c, r)
            /\ \/ r = Idle0
               \/ r.at = "save" /\ r.app \in Applications /\ Has(r.app, r.env)
      BY <1>2, LookupTyped DEF JobsInv
    <2>2. /\ CatTyped' /\ UNCHANGED <<apps, given, services, newest, jobs, excused>> /\ call[c].at = "lookup"
      BY <1>2, LookupTyped DEF JobsInv, ScaleLookup
    <2>3. \/ r.at = "idle"
          \/ r.at = "save" /\ <<r.app, r.env>> \in Known /\ r.app \in given
      BY <2>1 DEF Idle0, JobsInv, CatTyped, RowsTyped, RowsKnown, Has
    <2>4. r.at # "jenkins" /\ (r.at \in Holding => <<r.app, r.env>> \in Known /\ r.app \in given)
      BY <2>3 DEF Holding
    <2> QED BY <2>1, <2>2, <2>4, JobsKept
  <1> QED BY <1>1, <1>2

LEMMA EndingsKeepJobs ==
    ASSUME JobsInv, NEW c \in CatClients, RowRefused(c) \/ CallDies(c) \/ DestroyApp(c)
    PROVE  JobsInv'
  <1>1. CallBecomes(c, Idle0) /\ Idle0 \in Call /\ Idle0.at = "idle" /\ CatTyped'
    BY RefusedTyped, DiesTyped, DestroyAppTyped, EndsTyped, IdleIsCall
       DEF JobsInv, CatTyped, RowRefused, CallDies, DestroyApp, Idle0
  <1>2. /\ UNCHANGED <<given, services, newest, jobs>> /\ excused \subseteq excused'
        /\ call[c].at = "jenkins" => Of(c) \in excused'
    BY DEF RowRefused, CallDies, DestroyApp
  <1> HIDE DEF Idle0
  <1>3. Idle0.at \notin Holding \cup {"jenkins"}
    BY <1>1 DEF Holding
  <1> QED BY <1>1, <1>2, <1>3, JobsKept

LEMMA DestroyKeepsJobs ==
    ASSUME JobsInv, NEW c \in CatClients, NEW a \in Applications, DestroyServices(c, a)
    PROVE  JobsInv'
  <1> DEFINE r == [Idle0 EXCEPT !.at = "remove", !.kind = "destroy", !.app = a]
  <1>1. r \in Call /\ r.at = "remove"
    BY IdleIsCall DEF Idle0, Call, CallSteps, CallKinds
  <1>2. CatTyped' /\ CallBecomes(c, r)
    BY DestroyServicesTyped DEF JobsInv
  <1>3. /\ UNCHANGED <<apps, given, jobs, excused>> /\ call[c].at = "idle"
        /\ services' = [services EXCEPT ![a] = {}] /\ newest' = [newest EXCEPT ![a] = "none"]
    BY DEF DestroyServices
  <1>4. \A b \in Applications : services'[b] = {} \/ (services'[b] = services[b] /\ newest'[b] = newest[b])
    BY <1>3 DEF JobsInv, CatTyped, RowsTyped
  <1> HIDE DEF r
  <1>5. r.at \notin Holding \cup {"jenkins"}
    BY <1>1 DEF Holding
  <1> QED BY <1>1, <1>2, <1>3, <1>4, <1>5, JobsKept

LEMMA JobsStep == JobsInv /\ [CatNext]_catVars => JobsInv'
  <1>1. ASSUME JobsInv, UNCHANGED catVars PROVE JobsInv'
    <2>1. CatTyped' /\ UNCHANGED <<given, services, newest, jobs, excused, call>>
      BY <1>1, CatStays DEF JobsInv, catVars
    <2>2. \A d \in CatClients : Of(d)' = Of(d)
      BY <2>1 DEF Of
    <2>3. Known' = Known
      BY <2>1, <2>2 DEF Known, Waiting
    <2> QED BY <1>1, <2>1, <2>2, <2>3 DEF JobsInv, WaitersInTime, RowsKnown
  <1>2. ASSUME JobsInv, CatNext PROVE JobsInv'
    <2>1. PICK c \in CatClients :
           \/ \E a \in Applications : AppCreate(c, a) \/ DestroyServices(c, a)
           \/ \E a \in Applications, e \in Envs :
                \/ ServiceCreate(c, a, e)
                \/ \E k \in {"update", "edit", "deploy"} : RowRead(c, k, a, e)
                \/ \E n \in Counts : ScaleDeployment(c, a, e, n)
           \/ ExtendJenkins(c) \/ RowRefused(c) \/ ServiceUpdate(c) \/ WholeRowSave(c)
           \/ DeployQueue(c) \/ DeployOnline(c) \/ TaskRead(c) \/ DeployApply(c)
           \/ ScaleLookup(c) \/ ScaleSave(c) \/ DestroyApp(c) \/ CallDies(c)
      BY <1>2 DEF CatNext
    <2>2. CASE \E a \in Applications : AppCreate(c, a) \/ DestroyServices(c, a)
      BY <1>2, <2>2, CreateKeepsJobs, DestroyKeepsJobs
    <2>3. CASE \E a \in Applications, e \in Envs :
                \/ ServiceCreate(c, a, e)
                \/ \E k \in {"update", "edit", "deploy"} : RowRead(c, k, a, e)
                \/ \E n \in Counts : ScaleDeployment(c, a, e, n)
      BY <1>2, <2>3, NewServiceKeepsJobs, ReadKeepsJobs, ScalingKeepsJobs
    <2>4. CASE ExtendJenkins(c) \/ RowRefused(c) \/ ServiceUpdate(c) \/ WholeRowSave(c)
      BY <1>2, <2>4, JenkinsKeepsJobs, EndingsKeepJobs, UpdateKeepsJobs, RowSavesKeepJobs
    <2>5. CASE DeployApply(c) \/ ScaleLookup(c) \/ ScaleSave(c) \/ DestroyApp(c) \/ CallDies(c)
      BY <1>2, <2>5, ApplyKeepsJobs, ScalingKeepsJobs, RowSavesKeepJobs, EndingsKeepJobs
    <2>6. CASE DeployQueue(c) \/ DeployOnline(c) \/ TaskRead(c)
      BY <1>2, <2>6, QueueKeepsJobs, TaskKeepsJobs
    <2> QED BY <2>1, <2>2, <2>3, <2>4, <2>5, <2>6
  <1> QED BY <1>1, <1>2

(* Every service gets its Jenkins job from whoever creates it, unless       *)
(* Jenkins fails or another service of its application is saved before.     *)
THEOREM ServicesHaveJobs == CatSpec => []ServiceHasJob
  <1>1. CatInit => JobsInv
    <2>1. CatInit => CatTyped
      BY CatStart
    <2>2. CatInit => WaitersInTime /\ RowsKnown
      BY DEF CatInit, Idle0, WaitersInTime, RowsKnown, Holding
    <2> QED BY <2>1, <2>2 DEF JobsInv
  <1>2. JobsInv => ServiceHasJob
    BY DEF JobsInv, RowsKnown, Known, Waiting, ServiceHasJob
  <1> QED BY <1>1, <1>2, JobsStep, PTL DEF CatSpec

-----------------------------------------------------------------------------
(* A scaling stays: a service whose last scaling is remembered has that     *)
(* number in its template and in its cluster, no request that will write    *)
(* the row back has read another, and no manifest to be applied has one.    *)

Served(s) == s[2] \in services[s[1]]

AskedHolds ==
    \A s \in ServiceOf : asked[s] # "none" => Served(s) /\ template[s] = asked[s] /\ live[s] = asked[s]

ReadsHold ==
    /\ \A c \in CatClients : call[c].at \in Holding /\ ~call[c].stale /\ asked[Of(c)] # "none" =>
          call[c].copy = template[Of(c)]
    /\ \A c \in CatClients : call[c].at \in {"queued", "apply"} /\ ~call[c].old /\ asked[Of(c)] # "none" =>
          call[c].manifest = template[Of(c)]

ScalesHold ==
    /\ \A c \in CatClients : call[c].kind = "scale" /\ call[c].at \in {"lookup", "save"} /\ ~call[c].stale =>
          live[Of(c)] = call[c].count
    /\ \A c \in CatClients : call[c].at \in {"handle", "queued", "apply"} => call[c].kind = "deploy"

ScaledInv == CatTyped /\ AskedHolds /\ ReadsHold /\ ScalesHold

(* What a step may do to a service: forget its scaling, leave it, or make   *)
(* it hold the one it remembers and put out of date whoever has read it.    *)
ScalingKept(c, s) ==
    \/ asked'[s] = "none"
    \/ /\ asked'[s] = asked[s] /\ template'[s] = template[s] /\ live'[s] = live[s]
       /\ Served(s) => Served(s)'
    \/ /\ Served(s)' /\ template'[s] = asked'[s] /\ live'[s] = asked'[s]
       /\ \A d \in CatClients \ {c} : Of(d) = s =>
            /\ call[d].at \in Holding => call'[d].stale
            /\ call[d].at \in {"queued", "apply"} => call'[d].old

(* What a request must have read, once its step is done.                    *)
ReadWell(r) ==
    /\ r.at \in Holding /\ ~r.stale /\ asked'[Row(r.app, r.env)] # "none" =>
          r.copy = template'[Row(r.app, r.env)]
    /\ r.at \in {"queued", "apply"} /\ ~r.old /\ asked'[Row(r.app, r.env)] # "none" =>
          r.manifest = template'[Row(r.app, r.env)]
    /\ r.kind = "scale" /\ r.at \in {"lookup", "save"} /\ ~r.stale => live'[Row(r.app, r.env)] = r.count
    /\ r.at \in {"handle", "queued", "apply"} => r.kind = "deploy"

LEMMA ScaledKept ==
    ASSUME ScaledInv, CatTyped', NEW c \in CatClients, NEW r \in Call, CallBecomes(c, r), ReadWell(r),
           \A s \in ServiceOf : ScalingKept(c, s),
           \A d \in CatClients \ {c} : call[d].kind = "scale" /\ Of(d) \in ServiceOf /\ ~call'[d].stale =>
               live'[Of(d)] = live[Of(d)]
    PROVE  ScaledInv'
  <1>1. /\ Of(c)' = Row(r.app, r.env) /\ call'[c] = r
        /\ \A d \in CatClients \ {c} :
             /\ Of(d)' = Of(d) /\ call'[d].at = call[d].at /\ call'[d].kind = call[d].kind
             /\ call'[d].copy = call[d].copy /\ call'[d].count = call[d].count
             /\ call'[d].manifest = call[d].manifest
             /\ (~call'[d].stale => ~call[d].stale) /\ (~call'[d].old => ~call[d].old)
    BY DEF CallBecomes, Of, Row
  <1>2. AskedHolds'
    <2> SUFFICES ASSUME NEW s \in ServiceOf, asked'[s] # "none"
                 PROVE  Served(s)' /\ template'[s] = asked'[s] /\ live'[s] = asked'[s]
      BY DEF AskedHolds
    <2>1. ScalingKept(c, s)
      OBVIOUS
    <2> QED BY <2>1 DEF ScalingKept, ScaledInv, AskedHolds
  <1>3. ReadsHold'
    <2>1. ASSUME NEW d \in CatClients, call'[d].at \in Holding, ~call'[d].stale, asked'[Of(d)'] # "none"
          PROVE  call'[d].copy = template'[Of(d)']
      <3>1. CASE d = c
        BY <1>1, <2>1, <3>1 DEF ReadWell
      <3>2. CASE d # c
        <4>1. /\ Of(d)' = Of(d) /\ call'[d].copy = call[d].copy /\ ~call[d].stale
              /\ call[d].at \in Holding /\ asked'[Of(d)] # "none"
          BY <1>1, <2>1, <3>2
        <4>2. ScalingKept(c, Of(d))
          BY <4>1, WaitersAreServices DEF ScaledInv, CatTyped
        <4>3. asked[Of(d)] # "none" /\ template'[Of(d)] = template[Of(d)]
          BY <2>1, <3>2, <4>1, <4>2 DEF ScalingKept
        <4> QED BY <4>1, <4>3 DEF ScaledInv, ReadsHold
      <3> QED BY <3>1, <3>2
    <2>2. ASSUME NEW d \in CatClients, call'[d].at \in {"queued", "apply"}, ~call'[d].old, asked'[Of(d)'] # "none"
          PROVE  call'[d].manifest = template'[Of(d)']
      <3>1. CASE d = c
        BY <1>1, <2>2, <3>1 DEF ReadWell
      <3>2. CASE d # c
        <4>1. /\ Of(d)' = Of(d) /\ call'[d].manifest = call[d].manifest /\ ~call[d].old
              /\ call[d].at \in {"queued", "apply"} /\ asked'[Of(d)] # "none"
          BY <1>1, <2>2, <3>2
        <4>2. ScalingKept(c, Of(d))
          BY <4>1, WaitersAreServices DEF ScaledInv, CatTyped, Holding
        <4>3. asked[Of(d)] # "none" /\ template'[Of(d)] = template[Of(d)]
          BY <2>2, <3>2, <4>1, <4>2 DEF ScalingKept
        <4> QED BY <4>1, <4>3 DEF ScaledInv, ReadsHold
      <3> QED BY <3>1, <3>2
    <2> QED BY <2>1, <2>2 DEF ReadsHold
  <1>4. ScalesHold'
    <2>1. ASSUME NEW d \in CatClients, call'[d].kind = "scale", call'[d].at \in {"lookup", "save"}, ~call'[d].stale
          PROVE  live'[Of(d)'] = call'[d].count
      <3>1. CASE d = c
        BY <1>1, <2>1, <3>1 DEF ReadWell
      <3>2. CASE d # c
        <4>1. /\ Of(d)' = Of(d) /\ call'[d].count = call[d].count /\ ~call[d].stale
              /\ call[d].at \in {"lookup", "save"} /\ call[d].kind = "scale"
          BY <1>1, <2>1, <3>2
        <4>2. Of(d) \in ServiceOf
          BY <4>1, WaitersAreServices DEF ScaledInv, CatTyped, Holding
        <4>3. live'[Of(d)] = live[Of(d)]
          BY <2>1, <3>2, <4>1, <4>2
        <4> QED BY <4>1, <4>3 DEF ScaledInv, ScalesHold
      <3> QED BY <3>1, <3>2
    <2>2. ASSUME NEW d \in CatClients, call'[d].at \in {"handle", "queued", "apply"} PROVE call'[d].kind = "deploy"
      BY <1>1, <2>2 DEF ReadWell, ScaledInv, ScalesHold
    <2> QED BY <2>1, <2>2 DEF ScalesHold
  <1> QED BY <1>2, <1>3, <1>4 DEF ScaledInv

LEMMA IdleReadsWell == ReadWell(Idle0)
  BY DEF ReadWell, Idle0, Holding

LEMMA CreateKeepsScaling ==
    ASSUME ScaledInv, NEW c \in CatClients, NEW a \in Applications, AppCreate(c, a)
    PROVE  ScaledInv'
  <1>1. /\ CatTyped' /\ a \notin given /\ call' = call /\ live' = live /\ asked' = asked /\ call[c].at = "idle"
    BY AppCreateTyped DEF AppCreate, ScaledInv
  <1>2. /\ \A b \in Applications \ {a} : services'[b] = services[b]
        /\ \A s \in ServiceOf : s[1] # a => template'[s] = template[s]
    BY DEF AppCreate, ScaledInv, CatTyped, RowsTyped
  <1>3. call[c] \in Call /\ CallBecomes(c, call[c])
    BY <1>1 DEF ScaledInv, CatTyped, CallsTyped, CallBecomes
  <1>4. ASSUME NEW s \in ServiceOf PROVE ScalingKept(c, s)
    <2>1. CASE s[1] = a
      <3>1. ~Served(s)
        BY <1>1, <2>1 DEF Served, ScaledInv, CatTyped, RowsTyped
      <3>2. asked'[s] = "none"
        BY <1>1, <3>1 DEF ScaledInv, AskedHolds
      <3> QED BY <3>2 DEF ScalingKept
    <2>2. CASE s[1] # a
      <3>1. s[1] \in Applications \ {a}
        BY <2>2 DEF ServiceOf
      <3>2. Served(s)' = Served(s) /\ template'[s] = template[s]
        BY <1>2, <2>2, <3>1 DEF Served
      <3> QED BY <1>1, <3>2 DEF ScalingKept
    <2> QED BY <2>1, <2>2
  <1>5. ReadWell(call[c])
    BY <1>1 DEF ReadWell, Holding
  <1> QED BY <1>1, <1>3, <1>4, <1>5, ScaledKept

LEMMA NewServiceKeepsScaling ==
    ASSUME ScaledInv, NEW c \in CatClients, NEW a \in Applications, NEW e \in Envs, ServiceCreate(c, a, e)
    PROVE  ScaledInv'
  <1>0. CatTyped
    BY DEF ScaledInv
  <1>1. Begins(c, "create", "jenkins", a, e) /\ "create" \in CallKinds /\ "jenkins" \in CallSteps
    BY DEF ServiceCreate, CallKinds, CallSteps
  <1>2. PICK r \in Call : CallBecomes(c, r) /\ r.at = "jenkins"
    BY <1>0, <1>1, BeginsTyped
  <1>3. CatTyped'
    BY <1>0, ServiceCreateTyped
  <1>4. /\ services' = [services EXCEPT ![a] = @ \cup {e}] /\ live' = live
        /\ asked' = [asked EXCEPT ![<<a, e>>] = "none"]
        /\ \A s \in ServiceOf : s # <<a, e>> => template'[s] = template[s]
    BY <1>0 DEF ServiceCreate, CatTyped, RowsTyped
  <1>5. ASSUME NEW s \in ServiceOf PROVE ScalingKept(c, s)
    <2>1. CASE s = <<a, e>>
      BY <1>0, <1>4, <2>1 DEF ScalingKept, CatTyped, RowsTyped
    <2>2. CASE s # <<a, e>>
      <3>1. asked'[s] = asked[s] /\ template'[s] = template[s] /\ live'[s] = live[s]
        BY <1>0, <1>4, <2>2 DEF CatTyped, RowsTyped
      <3>2. Served(s) => Served(s)'
        BY <1>0, <1>4 DEF Served, CatTyped, RowsTyped, ServiceOf
      <3> QED BY <3>1, <3>2 DEF ScalingKept
    <2> QED BY <2>1, <2>2
  <1>6. ReadWell(r)
    BY <1>2 DEF ReadWell, Holding
  <1> QED BY <1>2, <1>3, <1>4, <1>5, <1>6, ScaledKept

(* A step that changes no service.                                          *)
LEMMA NothingScaled ==
    ASSUME ScaledInv, CatTyped', NEW c \in CatClients, NEW r \in Call, CallBecomes(c, r), ReadWell(r),
           UNCHANGED <<services, template, live, asked>>
    PROVE  ScaledInv'
  <1>1. \A s \in ServiceOf : ScalingKept(c, s)
    BY DEF ScalingKept, Served
  <1> QED BY <1>1, ScaledKept

LEMMA EndingsKeepScaling ==
    ASSUME ScaledInv, NEW c \in CatClients,
           ExtendJenkins(c) \/ RowRefused(c) \/ CallDies(c) \/ DestroyApp(c)
    PROVE  ScaledInv'
  <1>0. CatTyped /\ CallsTyped
    BY DEF ScaledInv, CatTyped
  <1>1. Ends(c) /\ UNCHANGED <<services, template, live, asked>>
    BY DEF ExtendJenkins, RowRefused, CallDies, DestroyApp
  <1>2. CallBecomes(c, Idle0) /\ CatTyped'
    BY <1>0, <1>1, EndsTyped, JenkinsTyped, RefusedTyped, DiesTyped, DestroyAppTyped
  <1> QED BY <1>1, <1>2, IdleIsCall, IdleReadsWell, NothingScaled

LEMMA ReadKeepsScaling ==
    ASSUME ScaledInv, NEW c \in CatClients, NEW kind \in {"update", "edit", "deploy"},
           NEW a \in Applications, NEW e \in Envs, RowRead(c, kind, a, e)
    PROVE  ScaledInv'
  <1> DEFINE at == IF kind = "deploy" THEN "handle" ELSE "save"
  <1>0. CatTyped
    BY DEF ScaledInv
  <1>1. /\ Begins(c, kind, at, a, e) /\ kind \in CallKinds /\ at \in CallSteps
        /\ UNCHANGED <<services, template, live, asked>>
        /\ kind # "scale" /\ at \in {"handle", "save"} /\ (at = "handle" => kind = "deploy")
    BY DEF RowRead, CallKinds, CallSteps
  <1> HIDE DEF at
  <1>2. PICK r \in Call : /\ CallBecomes(c, r) /\ r.at = at /\ r.kind = kind /\ r.app = a /\ r.env = e
                          /\ r.copy = template[Row(a, e)]
    BY <1>0, <1>1, BeginsTyped
  <1>3. CatTyped'
    BY <1>0, RowReadTyped
  <1>4. ReadWell(r)
    BY <1>1, <1>2 DEF ReadWell
  <1> QED BY <1>1, <1>2, <1>3, <1>4, NothingScaled

LEMMA LookupKeepsScaling ==
    ASSUME ScaledInv, NEW c \in CatClients, ScaleLookup(c)
    PROVE  ScaledInv'
  <1>0. CatTyped
    BY DEF ScaledInv
  <1>1. CatTyped'
    BY <1>0, LookupTyped
  <1>2. PICK r \in Call :
            /\ CallBecomes(c, r)
            /\ \/ r = Idle0
               \/ /\ r.at = "save" /\ r.kind = call[c].kind /\ r.count = call[c].count
                  /\ r.copy = template[Row(r.app, r.env)]
                  /\ ~r.stale => ~call[c].stale /\ Row(r.app, r.env) = Of(c)
    BY <1>0, LookupTyped
  <1>3. UNCHANGED <<services, template, live, asked>> /\ call[c].at = "lookup"
    BY DEF ScaleLookup
  <1>4. ReadWell(r)
    <2>1. CASE r = Idle0
      BY <2>1, IdleReadsWell
    <2>2. CASE r # Idle0
      <3>1. r.copy = template'[Row(r.app, r.env)] /\ r.at = "save"
        BY <1>2, <1>3, <2>2
      <3>2. ASSUME r.kind = "scale", ~r.stale PROVE live'[Row(r.app, r.env)] = r.count
        <4>1. Row(r.app, r.env) = Of(c) /\ ~call[c].stale /\ call[c].kind = "scale" /\ r.count = call[c].count
          BY <1>2, <2>2, <3>2
        <4> QED BY <1>3, <4>1 DEF ScaledInv, ScalesHold
      <3> QED BY <3>1, <3>2 DEF ReadWell
    <2> QED BY <2>1, <2>2
  <1> QED BY <1>1, <1>2, <1>3, <1>4, NothingScaled

(* The task keeps the manifest, and reads the row that is there.            *)
LEMMA TaskKeepsScaling ==
    ASSUME ScaledInv, NEW c \in CatClients, TaskRead(c)
    PROVE  ScaledInv'
  <1>0. CatTyped
    BY DEF ScaledInv
  <1>1. CatTyped'
    BY <1>0, TaskReadTyped
  <1>2. PICK r \in Call :
            /\ CallBecomes(c, r)
            /\ \/ r = Idle0
               \/ /\ r.at = "apply" /\ r.kind = call[c].kind /\ Row(r.app, r.env) = Of(c)
                  /\ r.copy = template[Of(c)] /\ r.manifest = call[c].manifest /\ r.old = call[c].old
    BY <1>0, TaskReadTyped
  <1>3. UNCHANGED <<services, template, live, asked>> /\ call[c].at = "queued"
    BY DEF TaskRead
  <1>4. ReadWell(r)
    <2>1. CASE r = Idle0
      BY <2>1, IdleReadsWell
    <2>2. CASE r # Idle0
      <3>1. r.kind = "deploy"
        BY <1>2, <1>3, <2>2 DEF ScaledInv, ScalesHold
      <3> QED BY <1>2, <1>3, <2>2, <3>1 DEF ReadWell, ScaledInv, ReadsHold
    <2> QED BY <2>1, <2>2
  <1> QED BY <1>1, <1>2, <1>3, <1>4, NothingScaled

LEMMA DeploymentKeepsScaling ==
    ASSUME ScaledInv, NEW c \in CatClients, NEW a \in Applications, NEW e \in Envs, NEW n \in Counts,
           ScaleDeployment(c, a, e, n)
    PROVE  ScaledInv'
  <1>0. CatTyped
    BY DEF ScaledInv
  <1>1. CatTyped' /\ \A s \in ServiceOf : s # Row(a, e) => live'[s] = live[s]
    BY <1>0, ScaleDeploymentTyped
  <1>2. \A d \in CatClients \ {c} : Of(d) = Row(a, e) /\ call[d].kind = "scale" => call'[d].stale
    BY <1>0, ScaleDeploymentTyped
  <1>3. PICK r \in Call :
           /\ CallBecomes(c, r) /\ r.at = "lookup" /\ r.kind = "scale" /\ r.app = a /\ r.env = e
           /\ r.count = n /\ (~r.stale => live'[Row(a, e)] = n)
    BY <1>0, ScaleDeploymentTyped
  <1>4. UNCHANGED <<services, template>> /\ asked' = [asked EXCEPT ![Row(a, e)] = "none"]
    BY DEF ScaleDeployment, Row
  <1>5. ASSUME NEW s \in ServiceOf PROVE ScalingKept(c, s)
    <2>1. CASE s = Row(a, e)
      BY <1>0, <1>4, <2>1 DEF ScalingKept, CatTyped, RowsTyped
    <2>2. CASE s # Row(a, e)
      BY <1>0, <1>1, <1>4, <2>2 DEF ScalingKept, Served, CatTyped, RowsTyped
    <2> QED BY <2>1, <2>2
  <1>6. ReadWell(r)
    BY <1>3 DEF ReadWell, Holding
  <1> QED BY <1>1, <1>2, <1>3, <1>5, <1>6, ScaledKept

LEMMA DestroyKeepsScaling ==
    ASSUME ScaledInv, NEW c \in CatClients, NEW a \in Applications, DestroyServices(c, a)
    PROVE  ScaledInv'
  <1> DEFINE r == [Idle0 EXCEPT !.at = "remove", !.kind = "destroy", !.app = a]
  <1>0. CatTyped
    BY DEF ScaledInv
  <1>1. r \in Call /\ r.at = "remove" /\ r.kind = "destroy"
    BY IdleIsCall DEF Idle0, Call, CallSteps, CallKinds
  <1>2. CatTyped' /\ CallBecomes(c, r)
    BY <1>0, DestroyServicesTyped
  <1> HIDE DEF r
  <1>3. /\ services' = [services EXCEPT ![a] = {}] /\ UNCHANGED <<template, live>>
        /\ asked' = [s \in ServiceOf |-> IF s[1] = a THEN "none" ELSE asked[s]]
    BY DEF DestroyServices
  <1>4. ASSUME NEW s \in ServiceOf PROVE ScalingKept(c, s)
    <2>1. CASE s[1] = a
      BY <1>3, <2>1 DEF ScalingKept
    <2>2. CASE s[1] # a
      <3>1. services'[s[1]] = services[s[1]]
        BY <1>0, <1>3, <2>2 DEF CatTyped, RowsTyped, ServiceOf
      <3> QED BY <1>3, <2>2, <3>1 DEF ScalingKept, Served
    <2> QED BY <2>1, <2>2
  <1>5. ReadWell(r)
    BY <1>1 DEF ReadWell, Holding
  <1> QED BY <1>1, <1>2, <1>3, <1>4, <1>5, ScaledKept

(* A row written back: its number is the one that is there, or the scaling  *)
(* is forgotten, or it is the scaling's own.                                *)
LEMMA SavesKeepScaling ==
    ASSUME ScaledInv, CatTyped', NEW c \in CatClients, call[c].at \in {"handle", "save"}, Savable(c), NEW value \in Templates,
           NEW next \in Call, CallKnows(next), Saves(c, value, next), apps' = apps, live' = live, ReadWell(next),
           \A s \in ServiceOf : s # Of(c) => asked'[s] = asked[s],
           \/ asked'[Of(c)] = "none"
           \/ asked'[Of(c)] = asked[Of(c)] /\ template[Of(c)] = value
           \/ asked'[Of(c)] = value /\ live[Of(c)] = value
    PROVE  ScaledInv'
  <1>0. CatTyped
    BY DEF ScaledInv
  <1>1. /\ CallBecomes(c, next) /\ Of(c) \in ServiceOf
        /\ \A d \in CatClients \ {c} : Of(d) = Of(c) =>
             /\ call[d].at \in Holding => call'[d].stale
             /\ call[d].at \in {"queued", "apply"} => call'[d].old
    BY <1>0, SavesTyped
  <1>2. /\ services' = [services EXCEPT ![Of(c)[1]] = @ \cup {Of(c)[2]}]
        /\ template' = [template EXCEPT ![Of(c)] = value]
    BY DEF Saves
  <1>3. \A s \in ServiceOf : Served(s) => Served(s)'
    BY <1>0, <1>1, <1>2 DEF Served, CatTyped, RowsTyped, ServiceOf
  <1>4. \A s \in ServiceOf : s = Of(c) => Served(s)' /\ template'[s] = value
    BY <1>0, <1>1, <1>2 DEF Served, CatTyped, RowsTyped, ServiceOf
  <1>5. ASSUME NEW s \in ServiceOf PROVE ScalingKept(c, s)
    <2>1. CASE s # Of(c)
      <3>1. template'[s] = template[s]
        BY <1>0, <1>2, <2>1 DEF CatTyped, RowsTyped
      <3> QED BY <1>3, <2>1, <3>1 DEF ScalingKept
    <2>2. CASE s = Of(c)
      BY <1>1, <1>3, <1>4, <2>2 DEF ScalingKept
    <2> QED BY <2>1, <2>2
  <1> QED BY <1>1, <1>5, ScaledKept

LEMMA UpdateKeepsScaling ==
    ASSUME ScaledInv, NEW c \in CatClients, ServiceUpdate(c)
    PROVE  ScaledInv'
  <1> DEFINE next == [call[c] EXCEPT !.at = "jenkins"]
  <1>0. CatTyped /\ Of(c) \in ServiceOf /\ asked \in [ServiceOf -> Counts \cup {"none"}]
    BY WaitersAreServices DEF Holding, ScaledInv, CatTyped, ServiceUpdate, RowsTyped
  <1>1. PICK t \in Templates :
          /\ Saves(c, t, next)
          /\ asked' = [asked EXCEPT ![Of(c)] = IF call[c].stale \/ t # call[c].copy THEN "none" ELSE @]
    BY DEF ServiceUpdate
  <1>2. next \in Call /\ CallKnows(next) /\ next.at = "jenkins"
    BY <1>0 DEF CatTyped, CallsTyped, CallKnows, Call, CallSteps, Holding, ServiceUpdate
  <1>3. call[c].at = "save" /\ Savable(c) /\ UNCHANGED <<apps, live>>
    BY DEF ServiceUpdate
  <1>4. CatTyped'
    BY <1>0, ServiceUpdateTyped
  <1> HIDE DEF next
  <1>5. ReadWell(next)
    BY <1>2 DEF ReadWell, Holding
  <1>6. \/ asked'[Of(c)] = "none"
        \/ asked'[Of(c)] = asked[Of(c)] /\ template[Of(c)] = t
    <2>1. CASE call[c].stale \/ t # call[c].copy
      BY <1>0, <1>1, <2>1
    <2>2. CASE ~(call[c].stale \/ t # call[c].copy)
      BY <1>0, <1>1, <1>3, <2>2 DEF ScaledInv, ReadsHold, Holding
    <2> QED BY <2>1, <2>2
  <1>7. \A s \in ServiceOf : s # Of(c) => asked'[s] = asked[s]
    BY <1>0, <1>1
  <1>8. Saves(c, t, next)
    BY <1>1
  <1> QED BY <1>2, <1>3, <1>4, <1>5, <1>6, <1>7, <1>8, SavesKeepScaling

LEMMA RowSaveKeepsScaling ==
    ASSUME ScaledInv, NEW c \in CatClients, WholeRowSave(c)
    PROVE  ScaledInv'
  <1>0. CatTyped /\ Of(c) \in ServiceOf /\ asked \in [ServiceOf -> Counts \cup {"none"}]
    BY WaitersAreServices DEF Holding, ScaledInv, CatTyped, WholeRowSave, RowsTyped
  <1>1. /\ Saves(c, call[c].copy, Idle0) /\ call[c].at = "save" /\ Savable(c) /\ UNCHANGED <<apps, live>>
        /\ asked' = [asked EXCEPT ![Of(c)] = IF call[c].stale THEN "none" ELSE @]
    BY DEF WholeRowSave
  <1>2. CatTyped' /\ call[c].copy \in Templates
    BY <1>0, WholeRowSaveTyped DEF CatTyped, CallsTyped, Call
  <1>3. \/ asked'[Of(c)] = "none"
        \/ asked'[Of(c)] = asked[Of(c)] /\ template[Of(c)] = call[c].copy
    <2>1. CASE call[c].stale
      BY <1>0, <1>1, <2>1
    <2>2. CASE ~call[c].stale
      BY <1>0, <1>1, <2>2 DEF ScaledInv, ReadsHold, Holding
    <2> QED BY <2>1, <2>2
  <1>4. \A s \in ServiceOf : s # Of(c) => asked'[s] = asked[s]
    BY <1>0, <1>1
  <1> QED BY <1>1, <1>2, <1>3, <1>4, IdleIsCall, IdleReadsWell, SavesKeepScaling

(* A manifest is made of the row that is read; saving that row changes no   *)
(* number that is remembered.                                               *)
LEMMA QueueKeepsScaling ==
    ASSUME ScaledInv, NEW c \in CatClients, DeployQueue(c) \/ DeployOnline(c)
    PROVE  ScaledInv'
  <1> DEFINE r == Queued(call[c])
  <1>0. /\ CatTyped /\ Of(c) \in ServiceOf /\ asked \in [ServiceOf -> Counts \cup {"none"}]
        /\ template \in [ServiceOf -> Templates] /\ call[c].at = "handle"
    BY WaitersAreServices DEF Holding, ScaledInv, CatTyped, DeployQueue, DeployOnline, RowsTyped
  <1>1. /\ r \in Call /\ CallKnows(r) /\ r.at = "queued" /\ r.kind = "deploy"
        /\ Row(r.app, r.env) = Of(c) /\ r.manifest = call[c].copy /\ r.old = call[c].stale
    BY <1>0, QueuedIsCall DEF ScaledInv, ScalesHold
  <1>2. ~call[c].stale /\ asked[Of(c)] # "none" => call[c].copy = template[Of(c)]
    BY <1>0 DEF ScaledInv, ReadsHold, Holding
  <1>3. CASE DeployQueue(c)
    <2>1. CatTyped' /\ CallBecomes(c, r) /\ UNCHANGED <<services, template, live, asked>>
      BY <1>0, <1>3, DeployQueueTyped DEF DeployQueue
    <2> HIDE DEF r
    <2>2. ReadWell(r)
      BY <1>1, <1>2, <2>1 DEF ReadWell, Holding
    <2> QED BY <1>1, <2>1, <2>2, NothingScaled
  <1>4. CASE DeployOnline(c)
    <2>1. /\ Saves(c, call[c].copy, r) /\ Savable(c) /\ UNCHANGED <<apps, live>>
          /\ asked' = [asked EXCEPT ![Of(c)] = IF call[c].stale THEN "none" ELSE @]
          /\ template' = [template EXCEPT ![Of(c)] = call[c].copy]
      BY <1>4 DEF DeployOnline, Saves
    <2>2. CatTyped' /\ call[c].copy \in Templates
      BY <1>0, <1>4, DeployOnlineTyped DEF CatTyped, CallsTyped, Call
    <2> HIDE DEF r
    <2>3. ReadWell(r)
      BY <1>0, <1>1, <2>1 DEF ReadWell, Holding
    <2>4. \/ asked'[Of(c)] = "none"
          \/ asked'[Of(c)] = asked[Of(c)] /\ template[Of(c)] = call[c].copy
      <3>1. CASE call[c].stale
        BY <1>0, <2>1, <3>1
      <3>2. CASE ~call[c].stale
        BY <1>0, <1>2, <2>1, <3>2
      <3> QED BY <3>1, <3>2
    <2>5. \A s \in ServiceOf : s # Of(c) => asked'[s] = asked[s]
      BY <1>0, <2>1
    <2> QED BY <1>0, <1>1, <2>1, <2>2, <2>3, <2>4, <2>5, SavesKeepScaling
  <1> QED BY <1>3, <1>4

LEMMA ScaleSaveKeepsScaling ==
    ASSUME ScaledInv, NEW c \in CatClients, ScaleSave(c)
    PROVE  ScaledInv'
  <1>0. CatTyped /\ Of(c) \in ServiceOf /\ asked \in [ServiceOf -> Counts \cup {"none"}]
    BY WaitersAreServices DEF Holding, ScaledInv, CatTyped, ScaleSave, RowsTyped
  <1>1. /\ Saves(c, Scaled(c), Idle0) /\ call[c].at = "save" /\ Savable(c) /\ UNCHANGED <<apps, live>>
        /\ call[c].kind = "scale"
        /\ asked' = [asked EXCEPT ![Of(c)] = IF call[c].stale \/ call[c].copy = "bare" THEN "none" ELSE call[c].count]
    BY DEF ScaleSave
  <1>2. CatTyped'
    BY <1>0, ScaleSaveTyped
  <1>3. Scaled(c) \in Templates
    BY <1>0, CatalogueAssumption DEF CatTyped, CallsTyped, Call, Scaled, Templates
  <1>4. \/ asked'[Of(c)] = "none"
        \/ asked'[Of(c)] = Scaled(c) /\ live[Of(c)] = Scaled(c)
    <2>1. CASE call[c].stale \/ call[c].copy = "bare"
      BY <1>0, <1>1, <2>1
    <2>2. CASE ~(call[c].stale \/ call[c].copy = "bare")
      <3>1. live[Of(c)] = call[c].count
        BY <1>1, <2>2 DEF ScaledInv, ScalesHold
      <3> QED BY <1>0, <1>1, <2>2, <3>1 DEF Scaled
    <2> QED BY <2>1, <2>2
  <1>5. \A s \in ServiceOf : s # Of(c) => asked'[s] = asked[s]
    BY <1>0, <1>1
  <1> QED BY <1>1, <1>2, <1>3, <1>4, <1>5, IdleIsCall, IdleReadsWell, SavesKeepScaling

(* A deployment applies the number of its manifest, which is the one there. *)
LEMMA ApplyKeepsScaling ==
    ASSUME ScaledInv, NEW c \in CatClients, DeployApply(c)
    PROVE  ScaledInv'
  <1> DEFINE next == Applied(call[c])
  <1>0. /\ CatTyped /\ Of(c) \in ServiceOf /\ asked \in [ServiceOf -> Counts \cup {"none"}]
        /\ live \in [ServiceOf -> Counts \cup {"none"}]
    BY WaitersAreServices DEF Holding, ScaledInv, CatTyped, DeployApply, RowsTyped
  <1>1. /\ call[c].at = "apply" /\ UNCHANGED <<services, template>>
        /\ asked' = [asked EXCEPT ![Of(c)] = IF call[c].old THEN "none" ELSE @]
        /\ \E n \in IF call[c].manifest \in Counts THEN {call[c].manifest} ELSE Counts :
              live' = [live EXCEPT ![Of(c)] = n]
    BY DEF DeployApply
  <1>2. CatTyped' /\ CallBecomes(c, next) /\ next \in Call
    BY <1>0, DeployApplyTyped
  <1>3. \A d \in CatClients \ {c} : Of(d) = Of(c) /\ call[d].kind = "scale" => call'[d].stale
    BY <1>0, DeployApplyTyped
  <1>4. /\ next.at = "save" /\ next.kind = call[c].kind /\ next.copy = call[c].copy
        /\ next.stale = call[c].stale /\ Row(next.app, next.env) = Of(c)
    BY <1>0 DEF CatTyped, CallsTyped, Call, Applied, Row, Of
  <1> HIDE DEF next
  <1>5. asked'[Of(c)] # "none" => asked'[Of(c)] = asked[Of(c)] /\ ~call[c].old
    BY <1>0, <1>1
  <1>6. asked'[Of(c)] # "none" => live'[Of(c)] = live[Of(c)]
    <2> SUFFICES ASSUME asked'[Of(c)] # "none" PROVE live'[Of(c)] = live[Of(c)]
      OBVIOUS
    <2>0. asked[Of(c)] # "none" /\ call[c].manifest = template[Of(c)]
      BY <1>1, <1>5 DEF ScaledInv, ReadsHold
    <2>1. call[c].manifest = asked[Of(c)] /\ live[Of(c)] = asked[Of(c)] /\ asked[Of(c)] \in Counts
      BY <1>0, <2>0 DEF ScaledInv, AskedHolds
    <2> QED BY <1>0, <1>1, <2>1
  <1>7. \A s \in ServiceOf : s # Of(c) => live'[s] = live[s] /\ asked'[s] = asked[s]
    BY <1>0, <1>1
  <1>8. ASSUME NEW s \in ServiceOf PROVE ScalingKept(c, s)
    BY <1>1, <1>5, <1>6, <1>7 DEF ScalingKept, Served
  <1>9. ReadWell(next)
    <2>1. next.kind = "deploy"
      BY <1>1, <1>4 DEF ScaledInv, ScalesHold
    <2>2. ~call[c].stale /\ asked'[Of(c)] # "none" => call[c].copy = template'[Of(c)]
      BY <1>1, <1>5 DEF ScaledInv, ReadsHold, Holding
    <2> QED BY <1>4, <2>1, <2>2 DEF ReadWell
  <1>10. \A d \in CatClients \ {c} : call[d].kind = "scale" /\ Of(d) \in ServiceOf /\ ~call'[d].stale =>
            live'[Of(d)] = live[Of(d)]
    BY <1>3, <1>7
  <1> QED BY <1>2, <1>8, <1>9, <1>10, ScaledKept

LEMMA ScaledStep == ScaledInv /\ [CatNext]_catVars => ScaledInv'
  <1>1. ASSUME ScaledInv, UNCHANGED catVars PROVE ScaledInv'
    <2>1. CatTyped
      BY <1>1 DEF ScaledInv
    <2>2. CatTyped'
      BY <1>1, <2>1, CatStays
    <2>3. UNCHANGED <<services, template, live, asked, call>>
      BY <1>1 DEF catVars
    <2>4. \A d \in CatClients : Of(d)' = Of(d)
      BY <2>3 DEF Of
    <2>5. \A s \in ServiceOf : Served(s)' = Served(s)
      BY <2>3 DEF Served
    <2> QED BY <1>1, <2>2, <2>3, <2>4, <2>5 DEF ScaledInv, AskedHolds, ReadsHold, ScalesHold
  <1>2. ASSUME ScaledInv, CatNext PROVE ScaledInv'
    <2>1. PICK c \in CatClients :
           \/ \E a \in Applications : AppCreate(c, a) \/ DestroyServices(c, a)
           \/ \E a \in Applications, e \in Envs :
                \/ ServiceCreate(c, a, e)
                \/ \E k \in {"update", "edit", "deploy"} : RowRead(c, k, a, e)
                \/ \E n \in Counts : ScaleDeployment(c, a, e, n)
           \/ ExtendJenkins(c) \/ RowRefused(c) \/ ServiceUpdate(c) \/ WholeRowSave(c)
           \/ DeployQueue(c) \/ DeployOnline(c) \/ TaskRead(c) \/ DeployApply(c)
           \/ ScaleLookup(c) \/ ScaleSave(c) \/ DestroyApp(c) \/ CallDies(c)
      BY <1>2 DEF CatNext
    <2>2. CASE \E a \in Applications : AppCreate(c, a) \/ DestroyServices(c, a)
      BY <1>2, <2>2, CreateKeepsScaling, DestroyKeepsScaling
    <2>3. CASE \E a \in Applications, e \in Envs :
                \/ ServiceCreate(c, a, e)
                \/ \E k \in {"update", "edit", "deploy"} : RowRead(c, k, a, e)
                \/ \E n \in Counts : ScaleDeployment(c, a, e, n)
      BY <1>2, <2>3, NewServiceKeepsScaling, ReadKeepsScaling, DeploymentKeepsScaling
    <2>4. CASE ExtendJenkins(c) \/ RowRefused(c) \/ DestroyApp(c) \/ CallDies(c)
      BY <1>2, <2>4, EndingsKeepScaling
    <2>5. CASE ServiceUpdate(c) \/ WholeRowSave(c) \/ DeployApply(c) \/ ScaleLookup(c) \/ ScaleSave(c)
      BY <1>2, <2>5, UpdateKeepsScaling, RowSaveKeepsScaling, ApplyKeepsScaling, LookupKeepsScaling, ScaleSaveKeepsScaling
    <2>6. CASE DeployQueue(c) \/ DeployOnline(c) \/ TaskRead(c)
      BY <1>2, <2>6, QueueKeepsScaling, TaskKeepsScaling
    <2> QED BY <2>1, <2>2, <2>3, <2>4, <2>5, <2>6
  <1> QED BY <1>1, <1>2

(* A scaling stays in the template and in the cluster: whatever writes the  *)
(* row or the Deployment later had read the row before, has a manifest made *)
(* before, or writes the same number.                                       *)
THEOREM ScalingStays == CatSpec => []ScaledStays
  <1>1. CatInit => ScaledInv
    <2>1. CatInit => CatTyped
      BY CatStart
    <2>2. CatInit => AskedHolds /\ ReadsHold /\ ScalesHold
      BY DEF CatInit, Idle0, AskedHolds, ReadsHold, ScalesHold, Holding
    <2> QED BY <2>1, <2>2 DEF ScaledInv
  <1>2. ScaledInv => ScaledStays
    BY DEF ScaledInv, AskedHolds, ScaledStays, ServiceOf, CatTyped, RowsTyped
  <1> QED BY <1>1, <1>2, ScaledStep, PTL DEF CatSpec

-----------------------------------------------------------------------------
(* A row that offers a list is in it, and so it is in what a request that   *)
(* is to save the whole row has read of it.                                 *)
RowsInLists ==
    /\ multiple \in [Members -> BOOLEAN] /\ DOMAIN ids = Members
    /\ \A a \in Members : multiple[a] => a \in ids[a]

SavesInLists ==
    /\ DOMAIN gcall = GroupClients
    /\ \A c \in GroupClients : gcall[c].at = "save" =>
          /\ gcall[c].app \in Members /\ gcall[c].flag \in BOOLEAN
          /\ gcall[c].flag => gcall[c].app \in gcall[c].read

GroupInv == present \subseteq Members /\ RowsInLists /\ SavesInLists

LEMMA GroupStart == GroupInit => GroupInv
  BY DEF GroupInit, GroupInv, RowsInLists, SavesInLists, NoCall

(* What a client reads or forgets, when it is not a row to be saved.        *)
LEMMA CallMoves ==
    ASSUME GroupInv, NEW c \in GroupClients,
           \/ GroupEnds(c)
           \/ \E at \in {"relate", "last", "others", "release", "self"} : \E a, set, flag : GroupReads(c, at, a, set, flag)
    PROVE  SavesInLists'
  <1>1. \E r : gcall' = [gcall EXCEPT ![c] = r] /\ r.at # "save"
    <2>1. CASE GroupEnds(c)
      <3>1. NoCall.at # "save"
        BY DEF NoCall
      <3> QED BY <2>1, <3>1 DEF GroupEnds
    <2>2. ASSUME NEW at \in {"relate", "last", "others", "release", "self"}, NEW a, NEW set, NEW flag,
                 GroupReads(c, at, a, set, flag)
          PROVE  \E r : gcall' = [gcall EXCEPT ![c] = r] /\ r.at # "save"
      <3> DEFINE r == [at |-> at, app |-> a, read |-> set, flag |-> flag]
      <3>1. gcall' = [gcall EXCEPT ![c] = r]
        BY <2>2 DEF GroupReads
      <3>2. r.at # "save"
        OBVIOUS
      <3> QED BY <3>1, <3>2
    <2> QED BY <2>1, <2>2
  <1>2. PICK r : gcall' = [gcall EXCEPT ![c] = r] /\ r.at # "save"
    BY <1>1
  <1> QED BY <1>2 DEF GroupInv, SavesInLists

LEMMA RowsReleased ==
    ASSUME GroupInv, NEW rows, Released(rows)
    PROVE  RowsInLists'
  <1>1. /\ multiple' = [a \in Members |-> multiple[a] /\ a \notin rows \cap present]
        /\ ids' = [a \in Members |-> IF a \in rows \cap present THEN {} ELSE ids[a]]
    BY DEF Released
  <1>2. \A a \in Members : multiple'[a] => multiple[a] /\ a \notin rows \cap present
    BY <1>1
  <1>3. \A a \in Members : multiple'[a] => a \in ids'[a]
    BY <1>1, <1>2 DEF GroupInv, RowsInLists
  <1>4. multiple' \in [Members -> BOOLEAN] /\ DOMAIN ids' = Members
    BY <1>1 DEF GroupInv, RowsInLists
  <1> QED BY <1>3, <1>4 DEF RowsInLists

LEMMA RelateWrites ==
    ASSUME GroupInv, NEW c \in GroupClients, RelateWrite(c)
    PROVE  GroupInv'
  <1> DEFINE rows == gcall[c].read \cap present
  <1>1. /\ multiple' = [a \in Members |-> a \in rows \/ multiple[a]]
        /\ ids' = [a \in Members |-> IF a \in rows THEN gcall[c].read ELSE ids[a]]
        /\ GroupEnds(c) /\ present' = present
    BY DEF RelateWrite
  <1>2. \A a \in Members : multiple'[a] => a \in rows \/ multiple[a]
    BY <1>1
  <1>3. \A a \in Members : multiple'[a] => a \in ids'[a]
    BY <1>1, <1>2 DEF GroupInv, RowsInLists
  <1>4. multiple' \in [Members -> BOOLEAN] /\ DOMAIN ids' = Members
    BY <1>1 DEF GroupInv, RowsInLists
  <1> QED BY <1>1, <1>3, <1>4, CallMoves DEF GroupInv, RowsInLists

LEMMA OthersWrites ==
    ASSUME GroupInv, NEW c \in GroupClients, OthersWrite(c)
    PROVE  GroupInv'
  <1>1. /\ ids' = [a \in Members |-> IF a \in gcall[c].read \cap present THEN gcall[c].read ELSE ids[a]]
        /\ GroupReads(c, "self", gcall[c].app, {gcall[c].app}, FALSE)
        /\ multiple' = multiple /\ present' = present
    BY DEF OthersWrite
  <1>2. RowsInLists'
    BY <1>1 DEF GroupInv, RowsInLists
  <1> QED BY <1>1, <1>2, CallMoves DEF GroupInv

LEMMA RowSaves ==
    ASSUME GroupInv, NEW c \in GroupClients, GroupRowSave(c)
    PROVE  GroupInv'
  <1> DEFINE r == gcall[c]
  <1>1. /\ r.app \in Members /\ r.flag \in BOOLEAN /\ (r.flag => r.app \in r.read)
        /\ multiple' = [multiple EXCEPT ![r.app] = r.flag]
        /\ ids' = [ids EXCEPT ![r.app] = r.read]
        /\ present' = present \cup {r.app} /\ GroupEnds(c)
    BY DEF GroupRowSave, GroupInv, SavesInLists
  <1>2. \A a \in Members : IF a = r.app THEN multiple'[a] = r.flag /\ ids'[a] = r.read
                          ELSE multiple'[a] = multiple[a] /\ ids'[a] = ids[a]
    BY <1>1 DEF GroupInv, RowsInLists
  <1>3. \A a \in Members : multiple'[a] => a \in ids'[a]
    BY <1>1, <1>2 DEF GroupInv, RowsInLists
  <1>4. multiple' \in [Members -> BOOLEAN] /\ DOMAIN ids' = Members
    BY <1>1 DEF GroupInv, RowsInLists
  <1> QED BY <1>1, <1>3, <1>4, CallMoves DEF GroupInv, RowsInLists

LEMMA RowReads ==
    ASSUME GroupInv, NEW c \in GroupClients, NEW a \in Members, GroupRowRead(c, a)
    PROVE  GroupInv'
  <1>1. /\ gcall' = [gcall EXCEPT ![c] = [at |-> "save", app |-> a, read |-> ids[a], flag |-> multiple[a]]]
        /\ UNCHANGED <<present, multiple, ids>>
    BY DEF GroupRowRead, GroupReads
  <1>2. multiple[a] \in BOOLEAN /\ (multiple[a] => a \in ids[a])
    BY DEF GroupInv, RowsInLists
  <1>3. SavesInLists'
    BY <1>1, <1>2 DEF GroupInv, SavesInLists
  <1> QED BY <1>1, <1>3 DEF GroupInv, RowsInLists

LEMMA GroupStep == GroupInv /\ [GroupNext]_groupVars => GroupInv'
  <1> SUFFICES ASSUME GroupInv, [GroupNext]_groupVars PROVE GroupInv'
    OBVIOUS
  <1>1. ASSUME NEW c \in GroupClients,
               \/ \E chosen \in SUBSET Members : RelateRead(c, chosen)
               \/ \E a \in Members : UnrelateRead(c, a)
               \/ LastRead(c) \/ GroupDies(c)
        PROVE  GroupInv'
    <2>1. UNCHANGED <<present, multiple, ids>>
      BY <1>1 DEF RelateRead, UnrelateRead, LastRead, GroupDies
    <2>2. \/ gcall' = gcall
          \/ GroupEnds(c)
          \/ \E at \in {"relate", "last", "others", "release", "self"} : \E a, set, flag : GroupReads(c, at, a, set, flag)
      <3>1. ASSUME NEW chosen \in SUBSET Members, RelateRead(c, chosen)
            PROVE  \E a, set, flag : GroupReads(c, "relate", a, set, flag)
        BY <3>1 DEF RelateRead
      <3>2. ASSUME NEW a \in Members, UnrelateRead(c, a)
            PROVE  \/ gcall' = gcall
                   \/ \E at \in {"last", "others"} : \E b, set, flag : GroupReads(c, at, b, set, flag)
        BY <3>2 DEF UnrelateRead
      <3>3. ASSUME LastRead(c)
            PROVE  GroupEnds(c) \/ \E a, set, flag : GroupReads(c, "release", a, set, flag)
        BY <3>3 DEF LastRead
      <3> QED BY <1>1, <3>1, <3>2, <3>3 DEF GroupDies
    <2> QED BY <2>1, <2>2, CallMoves DEF GroupInv, RowsInLists, SavesInLists
  <1>2. ASSUME NEW c \in GroupClients, ReleaseLast(c) \/ ReleaseSelf(c)
        PROVE  GroupInv'
    <2>1. Released(gcall[c].read) /\ GroupEnds(c) /\ present' = present
      BY <1>2 DEF ReleaseLast, ReleaseSelf
    <2> QED BY <2>1, RowsReleased, CallMoves DEF GroupInv
  <1>3. ASSUME NEW a \in Members, GroupDestroy(a)
        PROVE  GroupInv'
    BY <1>3 DEF GroupDestroy, GroupInv, RowsInLists, SavesInLists
  <1>4. CASE UNCHANGED groupVars
    BY <1>4 DEF groupVars, GroupInv, RowsInLists, SavesInLists
  <1> QED BY <1>1, <1>2, <1>3, <1>4, RelateWrites, OthersWrites, RowSaves, RowReads DEF GroupNext

(* However requests that relate, unrelate and save rows overlap, an         *)
(* application is offered its own images.                                   *)
THEOREM OwnImages == GroupSpec => []OwnImagesOffered
  <1>1. GroupInv => OwnImagesOffered
    BY DEF GroupInv, RowsInLists, OwnImagesOffered, Offered
  <1> QED BY <1>1, GroupStart, GroupStep, PTL DEF GroupSpec

-----------------------------------------------------------------------------
(* Templates: what each level may say of a block.                           *)
TemplateTyped ==
    /\ project \in [Blocks -> {"absent", "inherit", "custom"}]
    /\ app \in [Blocks -> {"absent", "off", "on", "empty"}]
    /\ module \in [Blocks -> {"absent", "inherit", "custom"}]

LEMMA TemplateInductive == TemplateSpec => []TemplateTyped
  <1>1. TemplateInit => TemplateTyped
    BY DEF TemplateInit, TemplateTyped
  <1>2. TemplateTyped /\ [TemplateNext]_templateVars => TemplateTyped'
    <2> SUFFICES ASSUME TemplateTyped, [TemplateNext]_templateVars PROVE TemplateTyped'
      OBVIOUS
    <2>1. CASE UNCHANGED templateVars
      BY <2>1 DEF templateVars, TemplateTyped
    <2>2. ASSUME NEW b \in Blocks, EditEnvironment(b) PROVE TemplateTyped'
      BY <2>2 DEF TemplateTyped, EditEnvironment
    <2>3. ASSUME NEW b \in Blocks, EditProject(b) PROVE TemplateTyped'
      BY <2>3 DEF TemplateTyped, EditProject
    <2>4. ASSUME NEW b \in Blocks, EditApp(b) PROVE TemplateTyped'
      BY <2>4 DEF TemplateTyped, EditApp
    <2>5. ASSUME NEW b \in Blocks, EditModule(b) PROVE TemplateTyped'
      BY <2>5 DEF TemplateTyped, EditModule
    <2> QED BY <2>1, <2>2, <2>3, <2>4, <2>5 DEF TemplateNext
  <1> QED BY <1>1, <1>2, PTL DEF TemplateSpec

(* The nearest level, level by level.                                       *)
LEMMA NearestLevels ==
    ASSUME NEW b
    PROVE  /\ module[b] = "custom" => Nearest(b) = "module"
           /\ module[b] # "custom" /\ app[b] = "on" => Nearest(b) = "app"
           /\ module[b] # "custom" /\ app[b] # "on" /\ project[b] = "custom" => Nearest(b) = "project"
           /\ module[b] # "custom" /\ app[b] # "on" /\ project[b] # "custom" /\ b \in envGives =>
                 Nearest(b) = "environment"
           /\ module[b] # "custom" /\ app[b] # "on" /\ project[b] # "custom" /\ b \notin envGives =>
                 Nearest(b) = "none"
  <1> DEFINE gives == [module |-> module[b] = "custom", app |-> app[b] = "on",
                       project |-> project[b] = "custom", environment |-> b \in envGives]
             order == <<"module", "app", "project", "environment">>
             first == {i \in 1..4 : gives[order[i]] /\ \A j \in 1..(i - 1) : ~gives[order[j]]}
  <1>1. order[1] = "module" /\ order[2] = "app" /\ order[3] = "project" /\ order[4] = "environment"
    OBVIOUS
  <1>2. /\ gives["module"] <=> module[b] = "custom"
        /\ gives["app"] <=> app[b] = "on"
        /\ gives["project"] <=> project[b] = "custom"
        /\ gives["environment"] <=> b \in envGives
    BY Zenon
  <1>3. Nearest(b) = IF first = {} THEN "none" ELSE order[CHOOSE i \in first : TRUE]
    BY DEF Nearest
  <1>4. 1..4 = {1, 2, 3, 4} /\ 1..0 = {} /\ 1..1 = {1} /\ 1..2 = {1, 2} /\ 1..3 = {1, 2, 3}
    OBVIOUS
  <1> HIDE DEF gives, order
  <1>5. \A i : i \in first <=> i \in {1, 2, 3, 4} /\ gives[order[i]] /\ \A j \in 1..(i - 1) : ~gives[order[j]]
    BY <1>4
  <1>6. /\ 1 \in first <=> gives["module"]
        /\ 2 \in first <=> gives["app"] /\ ~gives["module"]
        /\ 3 \in first <=> gives["project"] /\ ~gives["app"] /\ ~gives["module"]
        /\ 4 \in first <=> gives["environment"] /\ ~gives["project"] /\ ~gives["app"] /\ ~gives["module"]
    BY <1>1, <1>4, <1>5
  <1>7. first \subseteq {1, 2, 3, 4}
    BY <1>5
  <1> HIDE DEF first
  <1>8. \A i \in first : first = {i} => Nearest(b) = order[i]
    BY <1>3
  <1>9. module[b] = "custom" => Nearest(b) = "module"
    BY <1>1, <1>2, <1>6, <1>7, <1>8
  <1>10. module[b] # "custom" /\ app[b] = "on" => Nearest(b) = "app"
    BY <1>1, <1>2, <1>6, <1>7, <1>8
  <1>11. module[b] # "custom" /\ app[b] # "on" /\ project[b] = "custom" => Nearest(b) = "project"
    BY <1>1, <1>2, <1>6, <1>7, <1>8
  <1>12. module[b] # "custom" /\ app[b] # "on" /\ project[b] # "custom" /\ b \in envGives => Nearest(b) = "environment"
    BY <1>1, <1>2, <1>6, <1>7, <1>8
  <1>13. module[b] # "custom" /\ app[b] # "on" /\ project[b] # "custom" /\ b \notin envGives => Nearest(b) = "none"
    BY <1>1, <1>2, <1>3, <1>6, <1>7
  <1> QED BY <1>9, <1>10, <1>11, <1>12, <1>13

(* What the merged levels give, and what the view shows as inherited.       *)
LEMMA MergedLevels ==
    ASSUME NEW b \in Blocks
    PROVE  /\ b \in DOMAIN Inherited <=> \/ app[b] = "on" \/ project[b] = "custom"
                                         \/ project[b] = "inherit" /\ b \in envGives
           /\ b \in DOMAIN Merged <=> module[b] = "custom" \/ b \in DOMAIN Inherited
           /\ module[b] = "custom" => Merged[b] = "module"
           /\ module[b] # "custom" /\ b \in DOMAIN Inherited => Merged[b] = Inherited[b]
           /\ app[b] = "on" => Inherited[b] = "app"
           /\ app[b] # "on" /\ project[b] = "custom" => Inherited[b] = "project"
           /\ app[b] # "on" /\ project[b] = "inherit" /\ b \in envGives => Inherited[b] = "environment"
  <1>1. Merged = Over(ModuleLevel, Inherited)
    BY DEF Merged, Inherited
  <1>2. /\ b \in DOMAIN ModuleLevel <=> module[b] = "custom"
        /\ b \in DOMAIN ModuleLevel => ModuleLevel[b] = "module"
    BY DEF ModuleLevel
  <1>3. /\ b \in DOMAIN Inherited <=> \/ app[b] = "on" \/ project[b] = "custom"
                                      \/ project[b] = "inherit" /\ b \in envGives
        /\ app[b] = "on" => Inherited[b] = "app"
        /\ app[b] # "on" /\ project[b] = "custom" => Inherited[b] = "project"
        /\ app[b] # "on" /\ project[b] = "inherit" /\ b \in envGives => Inherited[b] = "environment"
    BY DEF Inherited, AppLevel, ProjectLevel, Over
  <1>4. /\ b \in DOMAIN Merged <=> b \in DOMAIN ModuleLevel \/ b \in DOMAIN Inherited
        /\ b \in DOMAIN ModuleLevel => Merged[b] = ModuleLevel[b]
        /\ b \notin DOMAIN ModuleLevel /\ b \in DOMAIN Inherited => Merged[b] = Inherited[b]
    BY <1>1 DEF Over
  <1> QED BY <1>2, <1>3, <1>4

(* Templates: whatever the four levels say, for any number of blocks, each  *)
(* block of a manifest is the nearest level's.                              *)
THEOREM NearestAlwaysWins == TemplateSpec => []NearestWins
  <1>1. TemplateTyped => NearestWins
    <2> SUFFICES ASSUME TemplateTyped, Manifest.code = "200", NEW b \in Blocks
                 PROVE  /\ project[b] # "absent" =>
                             IF b \in DOMAIN Manifest.blocks THEN Manifest.blocks[b] = Nearest(b)
                                                             ELSE Nearest(b) = "none"
                        /\ module[b] # "custom" =>
                             /\ b \in DOMAIN Inherited <=> b \in DOMAIN Manifest.blocks
                             /\ b \in DOMAIN Inherited => Inherited[b] = Manifest.blocks[b]
      BY DEF NearestWins
    <2>1. Manifest.blocks = Merged
      BY DEF Manifest
    <2>2. project[b] \in {"absent", "inherit", "custom"}
      BY DEF TemplateTyped
    <2> QED BY <2>1, <2>2, MergedLevels, NearestLevels
  <1> QED BY <1>1, TemplateInductive, PTL
=============================================================================
