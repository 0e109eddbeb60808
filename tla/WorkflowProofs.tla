--------------------------- MODULE WorkflowProofs ---------------------------
(* Theorems about Workflow, for every template, set of users and number of  *)
(* concurrent requests.                                                     *)
EXTENDS Workflow, FiniteSetTheorems, TLAPS

-----------------------------------------------------------------------------
(* Records.                                                                 *)

LEMMA RowType ==
    \A n \in Nodes, s \in Statuses : /\ Row(n, s) \in Ticket
                                     /\ Row(n, s).node = n /\ Row(n, s).status = s
BY DEF Row, Ticket

LEMMA RecType ==
    \A n \in Nodes, u \in Users, t \in Types, r \in BOOLEAN :
       /\ Rec(n, u, t, r) \in Record
       /\ Rec(n, u, t, r).node = n /\ Rec(n, u, t, r).by = u
       /\ Rec(n, u, t, r).type = t /\ Rec(n, u, t, r).rejects = r
BY DEF Rec, Record

LEMMA RequestType ==
    \A at \in {"idle", "page", "read", "revoke", "close", "complete"}, u \in Users,
       t \in Ticket, f \in {"none", "passed", "reject"} :
       Request(at, u, t, f) \in Requests /\ Request(at, u, t, f).row = t
BY DEF Request, Requests

LEMMA CallType ==
    \A at \in {"queued", "read", "done"}, t \in Ticket :
       CallAt(at, t) \in Call /\ CallAt(at, t).row = t
BY DEF CallAt, Call

LEMMA FieldTypes ==
    /\ \A t \in Ticket : t.node \in Nodes /\ t.status \in Statuses
    /\ \A r \in Record : r.node \in Nodes /\ r.by \in Users /\ r.type \in Types
                         /\ r.rejects \in BOOLEAN
    /\ \A r \in Requests : r.user \in Users /\ r.row \in Ticket
                           /\ r.form \in {"none", "passed", "reject"}
    /\ \A k \in Call : k.row \in Ticket
BY DEF Ticket, Record, Requests, Call

LEMMA FirstNode == 1 \in Nodes /\ NoTicket \in Ticket /\ NoTicket.node = 1
                   /\ Idle \in Requests /\ Idle.row = NoTicket
<1>1. 1 \in Nodes
  BY WorkflowAssumption DEF Nodes
<1>2. NoTicket \in Ticket /\ NoTicket.node = 1
  BY <1>1, RowType DEF NoTicket, Statuses
<1> QED BY <1>1, <1>2, RequestType, WorkflowAssumption DEF Idle

(* The calls a handled node queues.                                         *)
LEMMA HookedType ==
    ASSUME NEW n \in Nodes, NEW type \in {"passed", "reject"}
    PROVE  /\ Hooked(n, type) \in Seq(Call)
           /\ \A i \in DOMAIN Hooked(n, type) : Hooked(n, type)[i].row = NoTicket
           /\ Hooks[n] \cap {type, "all"} = {} => Hooked(n, type) = <<>>
<1> DEFINE due == Hooks[n] \cap {type, "all"}
<1>1. IsFiniteSet(due)
  <2>1. IsFiniteSet({type, "all"})
    <3>1. {type, "all"} = {type} \cup {"all"}
      OBVIOUS
    <3>2. IsFiniteSet({type})
      BY FS_Singleton
    <3>3. IsFiniteSet({type} \cup {"all"})
      BY <3>2, FS_AddElement
    <3> QED BY <3>1, <3>3
  <2> QED BY <2>1, FS_Subset
<1>2. Cardinality(due) \in Nat
  BY <1>1, FS_CardinalityType
<1>3. CallAt("queued", NoTicket) \in Call /\ CallAt("queued", NoTicket).row = NoTicket
  BY FirstNode, CallType
<1>4. due = {} => Cardinality(due) = 0
  BY FS_EmptySet
<1> HIDE DEF due
<1>5. Hooked(n, type) = [i \in 1 .. Cardinality(due) |-> CallAt("queued", NoTicket)]
  BY DEF Hooked, due
<1>6. Hooked(n, type) \in Seq(Call)
  BY <1>2, <1>3, <1>5
<1>7. \A i \in DOMAIN Hooked(n, type) : Hooked(n, type)[i].row = NoTicket
  BY <1>3, <1>5
<1>8. due = {} => Hooked(n, type) = <<>>
  BY <1>4, <1>5
<1> QED BY <1>6, <1>7, <1>8 DEF due

LEMMA AppendType ==
    ASSUME NEW S, NEW s \in Seq(S), NEW e \in S
    PROVE  Append(s, e) \in Seq(S)
OBVIOUS

LEMMA SingletonType ==
    ASSUME NEW S, NEW e \in S
    PROVE  <<e>> \in Seq(S)
OBVIOUS

LEMMA ConcatType ==
    ASSUME NEW S, NEW s \in Seq(S), NEW t \in Seq(S)
    PROVE  s \o t \in Seq(S)
OBVIOUS

(* The ticket a pass leads to.                                              *)
LEMMA ForwardType ==
    ASSUME NEW row \in Ticket, NEW h \in Seq(Record)
    PROVE  Forward(row, h) \in Ticket
BY RowType, FieldTypes DEF Forward, Statuses

-----------------------------------------------------------------------------
(* Types.                                                                   *)

LEMMA WorkflowTypeInductive ==
    ASSUME TypeOK, [Next]_vars
    PROVE  TypeOK'
<1> USE DEF Asks
<1>0. /\ ticket \in Ticket /\ history \in Seq(Record) /\ calls \in Seq(Call)
      /\ req \in [Clients -> Requests]
  BY DEF TypeOK
<1>1. CASE Create
  <2>1. ticket' \in Ticket
    <3>1. Row(1, "wait") \in Ticket /\ <<>> \in Seq(Record)
      BY FirstNode, RowType DEF Statuses
    <3>2. Forward(Row(1, "wait"), <<>>) \in Ticket
      BY <3>1, ForwardType
    <3> QED BY <1>1, <3>2 DEF Create
  <2>2. history' \in Seq(Record)
    <3>1. Rec(1, Creator, "passed", FALSE) \in Record
      BY FirstNode, RecType, WorkflowAssumption DEF Types
    <3>2. history' = <<Rec(1, Creator, "passed", FALSE)>>
      BY <1>1 DEF Create
    <3> QED BY <3>1, <3>2, SingletonType
  <2>3. calls' \in Seq(Call) /\ req' = req
    <3>1. Hooked(1, "passed") \in Seq(Call)
      BY FirstNode, HookedType
    <3> QED BY <1>1, <3>1 DEF Create
  <2> QED BY <1>0, <2>1, <2>2, <2>3 DEF TypeOK
<1>2. ASSUME NEW c \in Clients, NEW u \in Users,
             Open(c, u) \/ \E o \in Overrides : OverrideRead(c, u, o)
      PROVE  TypeOK'
  <2>1. \A f \in FormOf(ticket.node) : f \in {"none", "passed", "reject"}
    BY WorkflowAssumption DEF FormOf
  <2>2. \E r \in Requests : Asks(c, r)
    <3>1. CASE Open(c, u)
      BY <1>0, <2>1, <3>1, RequestType DEF Open
    <3>2. CASE \E o \in Overrides : OverrideRead(c, u, o)
      BY <1>0, <3>2, RequestType, WorkflowAssumption DEF OverrideRead
    <3> QED BY <1>2, <3>1, <3>2
  <2>3. UNCHANGED <<ticket, history, calls>>
    BY <1>2 DEF Open, OverrideRead
  <2> QED BY <1>0, <2>2, <2>3 DEF TypeOK
<1>3. ASSUME NEW c \in Clients, UpdateRead(c) \/ Handle(c) \/ Override(c)
      PROVE  TypeOK'
  <2>0. /\ req[c].user \in Users /\ req[c].row \in Ticket
        /\ req[c].row.node \in Nodes
        /\ req[c].form \in {"none", "passed", "reject"}
    BY <1>0, FieldTypes
  <2>1. CASE UpdateRead(c)
    <3>1. Request("read", req[c].user, ticket, req[c].form) \in Requests
      BY <1>0, <2>0, RequestType
    <3> QED BY <1>0, <2>1, <3>1 DEF UpdateRead, TypeOK
  <2>2. CASE Refuse(c)
    BY <1>0, <2>2, FirstNode DEF Refuse, TypeOK
  <2>3. CASE Pass(c)
    <3> DEFINE rec == Rec(req[c].row.node, req[c].user, "passed", FALSE)
    <3>1. rec \in Record
      BY <2>0, RecType DEF Types
    <3>2. history' \in Seq(Record) /\ req' \in [Clients -> Requests]
      <4>1. Append(history, rec) \in Seq(Record)
        BY <1>0, <3>1, AppendType
      <4>2. history' = Append(history, rec) /\ req' = [req EXCEPT ![c] = Idle]
        BY <2>3 DEF Pass
      <4> QED BY <1>0, <4>1, <4>2, FirstNode
    <3>3. ticket' \in Ticket
      <4>1. /\ Row(req[c].row.node, "wait") \in Ticket
            /\ Forward(req[c].row, history) \in Ticket
        BY <1>0, <2>0, RowType, ForwardType DEF Statuses
      <4> QED BY <2>3, <4>1 DEF Pass
    <3>4. Hooked(req[c].row.node, "passed") \in Seq(Call)
      BY <2>0, HookedType
    <3>5. calls' \in Seq(Call)
      <4>1. calls \o Hooked(req[c].row.node, "passed") \in Seq(Call)
        BY <1>0, <3>4, ConcatType
      <4> QED BY <1>0, <2>3, <4>1 DEF Pass
    <3> QED BY <3>2, <3>3, <3>5 DEF TypeOK
  <2>4. CASE Reject(c)
    <3> DEFINE rec == Rec(req[c].row.node, req[c].user, "reject", TRUE)
    <3>1. rec \in Record
      BY <2>0, RecType DEF Types
    <3>2. history' \in Seq(Record) /\ req' \in [Clients -> Requests]
      <4>1. Append(history, rec) \in Seq(Record)
        BY <1>0, <3>1, AppendType
      <4>2. history' = Append(history, rec) /\ req' = [req EXCEPT ![c] = Idle]
        BY <2>4 DEF Reject
      <4> QED BY <1>0, <4>1, <4>2, FirstNode
    <3>3. ticket' \in Ticket
      BY <2>4, FirstNode, RowType DEF Reject, Statuses
    <3>4. Hooked(req[c].row.node, "reject") \in Seq(Call)
      BY <2>0, HookedType
    <3>5. calls' \in Seq(Call)
      <4>1. calls \o Hooked(req[c].row.node, "reject") \in Seq(Call)
        BY <1>0, <3>4, ConcatType
      <4> QED BY <2>4, <4>1 DEF Reject
    <3> QED BY <3>2, <3>3, <3>5 DEF TypeOK
  <2>5. CASE Override(c)
    <3>1. PICK type \in {"revoke", "close"} : Copied(type, req[c].user)
      BY <2>5 DEF Override, Revoke, Close, Complete
    <3>2. PICK i \in DOMAIN history :
             history' = Append(history, Rec(1, req[c].user, type, history[i].rejects))
      BY <3>1 DEF Copied
    <3>3. Rec(1, req[c].user, type, history[i].rejects) \in Record
      <4>1. history[i] \in Record
        BY <1>0
      <4>2. history[i].rejects \in BOOLEAN
        BY <4>1, FieldTypes
      <4>3. type \in Types
        BY DEF Types
      <4> QED BY <2>0, <4>2, <4>3, FirstNode, RecType, Zenon
    <3>4. history' \in Seq(Record)
      BY <1>0, <3>2, <3>3, AppendType
    <3>5. ticket' \in Ticket
      BY <2>0, <2>5, FirstNode, RowType DEF Override, Revoke, Close, Complete, Statuses
    <3>6. req' \in [Clients -> Requests] /\ calls' = calls
      BY <1>0, <2>5, FirstNode DEF Override, Revoke, Close, Complete
    <3> QED BY <1>0, <3>4, <3>5, <3>6 DEF TypeOK
  <2> QED BY <1>3, <2>1, <2>2, <2>3, <2>4, <2>5 DEF Handle
<1>4. ASSUME NEW k \in DOMAIN calls, CallRead(k) \/ CallSave(k) \/ CallFails(k) \/ Retry(k)
      PROVE  TypeOK'
  <2>0. calls[k].row \in Ticket /\ calls[k].row.node \in Nodes
    BY <1>0, FieldTypes
  <2>1. calls' \in Seq(Call)
    <3>1. /\ CallAt("read", ticket) \in Call /\ CallAt("queued", NoTicket) \in Call
          /\ CallAt("done", calls[k].row) \in Call
      BY <1>0, <2>0, CallType, FirstNode
    <3>2. CASE \E call \in Call : Becomes(k, call)
      BY <1>0, <3>2 DEF Becomes
    <3>3. CASE Retry(k)
      BY <1>0, <3>1, <3>3, AppendType DEF Retry
    <3> QED BY <1>4, <3>1, <3>2, <3>3 DEF CallRead, CallSave, CallFails
  <2>2. ticket' \in Ticket
    <3>1. Row(calls[k].row.node, "complete") \in Ticket
      BY <2>0, RowType DEF Statuses
    <3> QED BY <1>0, <1>4, <3>1 DEF CallRead, CallSave, CallFails, Retry
  <2>3. history' = history /\ req' = req
    BY <1>4 DEF CallRead, CallSave, CallFails, Retry
  <2> QED BY <1>0, <2>1, <2>2, <2>3 DEF TypeOK
<1>5. CASE UNCHANGED vars
  BY <1>0, <1>5 DEF vars, TypeOK
<1> QED BY <1>1, <1>2, <1>3, <1>4, <1>5 DEF Next, Finished

LEMMA WorkflowTypeInit == Init => TypeOK
BY FirstNode DEF Init, TypeOK

(* Type correctness of every reachable state.                               *)
THEOREM WorkflowTypeCorrect == Spec => []TypeOK
BY WorkflowTypeInit, WorkflowTypeInductive, PTL DEF Spec

-----------------------------------------------------------------------------
(* The inductive invariant behind NoNodeSkipped and MembersHavePassed.      *)

(* Only passing the last node calls the callback that completes tickets.    *)
CallsAtEnd == \A n \in Nodes : Hooks[n] # {} => n = NumNodes /\ Hooks[n] \subseteq {"passed"}

PassedIn(h, n) == \E u \in Users : Passed(h, n, u)
SignedIn(h, n) == \A u \in Members[n] : \E m \in Nodes : Passed(h, m, u)
ForcedIn(h)    == \E i \in DOMAIN h : h[i].type = "close"

(* A node is done when somebody has passed it and, if it is countersigned,  *)
(* all its members have; the first one when the ticket is created.          *)
DoneIn(h, n) == PassedIn(h, n) /\ (n \in Countersigned \ {1} => SignedIn(h, n))

(* All nodes before n are done: a ticket may wait at n.                     *)
Reached(h, n) == \A m \in Nodes : m < n => DoneIn(h, m)
Over(h)       == ForcedIn(h) \/ \A n \in Nodes : DoneIn(h, n)

(* Every copy of the row, and every node that rejected, has been reached.   *)
AllReached(h) ==
    /\ \A c \in Clients : Reached(h, req[c].row.node)
    /\ \A k \in DOMAIN calls : Reached(h, calls[k].row.node)

RejectsReached(h) == \A i \in DOMAIN h : h[i].rejects => Reached(h, h[i].node)

TicketFits(h) == Reached(h, ticket.node) /\ (ticket.status = "complete" => Over(h))

SkipInv ==
    /\ TypeOK
    /\ TicketFits(history)
    /\ AllReached(history)
    /\ RejectsReached(history)
    /\ calls # <<>> => Over(history)

(* Histories grow, and what has been passed stays passed.                   *)
LEMMA AppendFacts ==
    ASSUME NEW h \in Seq(Record), NEW r \in Record
    PROVE  /\ Append(h, r) \in Seq(Record)
           /\ \A i \in DOMAIN h : i \in DOMAIN Append(h, r) /\ Append(h, r)[i] = h[i]
           /\ Len(h) + 1 \in DOMAIN Append(h, r) /\ Append(h, r)[Len(h) + 1] = r
           /\ \A i \in DOMAIN Append(h, r) : i \in DOMAIN h \/ i = Len(h) + 1
OBVIOUS

LEMMA HistoryGrows ==
    ASSUME NEW h \in Seq(Record), NEW r \in Record
    PROVE  /\ \A n \in Nodes : DoneIn(h, n) => DoneIn(Append(h, r), n)
           /\ \A n \in Nodes : Reached(h, n) => Reached(Append(h, r), n)
           /\ Over(h) => Over(Append(h, r))
           /\ r.type = "passed" => PassedIn(Append(h, r), r.node)
           /\ r.type = "close" => Over(Append(h, r))
<1> DEFINE g == Append(h, r)
<1>1. /\ \A i \in DOMAIN h : i \in DOMAIN g /\ g[i] = h[i]
      /\ Len(h) + 1 \in DOMAIN g /\ g[Len(h) + 1] = r
  BY AppendFacts
<1>2. r.by \in Users
  BY FieldTypes
<1> HIDE DEF g
<1>3. \A n \in Nodes : DoneIn(h, n) => DoneIn(g, n)
  <2>1. \A n, u : Passed(h, n, u) => Passed(g, n, u)
    BY <1>1 DEF Passed
  <2> QED BY <2>1 DEF DoneIn, PassedIn, SignedIn
<1>4. ForcedIn(h) => ForcedIn(g)
  BY <1>1 DEF ForcedIn
<1>5. r.type = "passed" => PassedIn(g, r.node)
  BY <1>1, <1>2 DEF PassedIn, Passed
<1>6. r.type = "close" => ForcedIn(g)
  BY <1>1 DEF ForcedIn
<1> QED BY <1>3, <1>4, <1>5, <1>6 DEF g, Reached, Over

(* A record that rejects does so at a node that has been reached.           *)
LEMMA RejectsGrow ==
    ASSUME NEW h \in Seq(Record), NEW r \in Record, RejectsReached(h),
           r.rejects => Reached(h, r.node)
    PROVE  RejectsReached(Append(h, r))
<1> DEFINE g == Append(h, r)
<1> SUFFICES ASSUME NEW i \in DOMAIN g, g[i].rejects
             PROVE  Reached(g, g[i].node)
  BY DEF RejectsReached
<1>1. CASE i \in DOMAIN h
  <2>1. g[i] = h[i] /\ h[i] \in Record
    BY <1>1, AppendFacts
  <2> QED BY <1>1, <2>1, FieldTypes, HistoryGrows DEF RejectsReached
<1>2. CASE i = Len(h) + 1
  BY <1>2, AppendFacts, FieldTypes, HistoryGrows
<1> QED BY <1>1, <1>2, AppendFacts

LEMMA RecordOf ==
    ASSUME NEW n \in Nodes, NEW u \in Users, NEW t \in Types, NEW r \in BOOLEAN
    PROVE  Rec(n, u, t, r) \in Record /\ Rec(n, u, t, r).node = n /\ Rec(n, u, t, r).type = t
BY RecType, Zenon

LEMMA PassRecord ==
    ASSUME NEW n \in Nodes, NEW u \in Users
    PROVE  LET r == Rec(n, u, "passed", FALSE)
           IN  r \in Record /\ r.type = "passed" /\ r.node = n /\ ~r.rejects
<1>1. "passed" \in Types /\ FALSE \in BOOLEAN
  BY DEF Types
<1> QED BY <1>1, RecType, Zenon

(* Passing a node a ticket was at leads to a node that has been reached.    *)
LEMMA ForwardReached ==
    ASSUME NEW row \in Ticket, NEW h \in Seq(Record), NEW u \in Users,
           Reached(h, row.node), RejectsReached(h),
           row.node \in Countersigned \ {1}
              => SignedIn(Append(h, Rec(row.node, u, "passed", FALSE)), row.node)
    PROVE  LET g == Append(h, Rec(row.node, u, "passed", FALSE))
               t == Forward(row, h)
           IN  Reached(g, t.node) /\ (t.status = "complete" => Over(g))
<1> DEFINE r == Rec(row.node, u, "passed", FALSE)
           g == Append(h, r)
           t == Forward(row, h)
<1>0. /\ row.node \in Nodes /\ r \in Record
      /\ r.type = "passed" /\ r.node = row.node
  <2>1. row.node \in Nodes
    BY FieldTypes
  <2> QED BY <2>1, PassRecord
<1>1. /\ Reached(g, row.node) /\ DoneIn(g, row.node)
      /\ \A n \in Nodes : Reached(h, n) => Reached(g, n)
  BY <1>0, HistoryGrows DEF DoneIn
<1>2. Reached(g, row.node + 1)
  <2> SUFFICES ASSUME NEW m \in Nodes, m < row.node + 1
               PROVE  DoneIn(g, m)
    BY DEF Reached
  <2>1. m < row.node \/ m = row.node
    BY <1>0, WorkflowAssumption DEF Nodes
  <2> HIDE DEF g
  <2> QED BY <1>1, <2>1 DEF Reached
<1>3. CASE h # <<>> /\ h[Len(h)].rejects
  <2>1. Len(h) \in DOMAIN h /\ h[Len(h)] \in Record
    BY <1>3
  <2>2. h[Len(h)].node \in Nodes /\ Reached(g, h[Len(h)].node)
    BY <1>1, <1>3, <2>1, FieldTypes DEF RejectsReached
  <2>3. t = Row(h[Len(h)].node, "wait")
    BY <1>3, <2>2 DEF Forward, Target
  <2>4. t.node = h[Len(h)].node /\ t.status = "wait"
    BY <2>2, <2>3, RowType DEF Statuses
  <2> QED BY <2>2, <2>4
<1>4. CASE ~(h # <<>> /\ h[Len(h)].rejects) /\ row.node + 1 \in Nodes
  <2>1. t = Row(row.node + 1, "wait")
    BY <1>4 DEF Forward, Target
  <2>2. t.node = row.node + 1 /\ t.status = "wait"
    BY <1>4, <2>1, RowType DEF Statuses
  <2> QED BY <1>2, <2>2
<1>5. CASE ~(h # <<>> /\ h[Len(h)].rejects) /\ row.node + 1 \notin Nodes
  <2>1. t = Row(row.node, "complete")
    BY <1>5 DEF Forward, Target
  <2>2. t.node = row.node
    BY <1>0, <2>1, RowType DEF Statuses
  <2>3. row.node = NumNodes
    BY <1>0, <1>5, WorkflowAssumption DEF Nodes
  <2>4. \A n \in Nodes : DoneIn(g, n)
    <3> SUFFICES ASSUME NEW n \in Nodes
                 PROVE  DoneIn(g, n)
      OBVIOUS
    <3>1. n < row.node \/ n = row.node
      BY <2>3, WorkflowAssumption DEF Nodes
    <3> HIDE DEF g
    <3> QED BY <1>1, <3>1 DEF Reached
  <2> QED BY <1>1, <2>2, <2>4 DEF Over
<1> QED BY <1>3, <1>4, <1>5

LEMMA FirstReached == \A h : Reached(h, 1)
BY DEF Reached, Nodes

(* What a handled node queues keeps the calls in order.                     *)
LEMMA CallsGrow ==
    ASSUME CallsAtEnd, TypeOK, NEW n \in Nodes, NEW type \in {"passed", "reject"},
           NEW g \in Seq(Record), calls' = calls \o Hooked(n, type),
           \A k \in DOMAIN calls : Reached(g, calls[k].row.node),
           calls # <<>> => Over(g),
           type = "passed" => Reached(g, n) /\ DoneIn(g, n)
    PROVE  /\ \A k \in DOMAIN calls' : Reached(g, calls'[k].row.node)
           /\ calls' # <<>> => Over(g)
<1> DEFINE t == Hooked(n, type)
<1>1. /\ t \in Seq(Call) /\ \A i \in DOMAIN t : t[i].row = NoTicket
      /\ Hooks[n] \cap {type, "all"} = {} => t = <<>>
  BY HookedType
<1>2. calls \in Seq(Call)
  BY DEF TypeOK
<1> HIDE DEF t
<1>3. calls' = calls \o t
  BY DEF t
<1>4. \A k \in DOMAIN calls' :
         (k \in DOMAIN calls /\ calls'[k] = calls[k])
         \/ (k - Len(calls) \in DOMAIN t /\ calls'[k] = t[k - Len(calls)])
  BY <1>1, <1>2, <1>3
<1>5. \A k \in DOMAIN calls' : Reached(g, calls'[k].row.node)
  BY <1>1, <1>4, FirstNode, FirstReached
<1>6. CASE Hooks[n] \cap {type, "all"} = {}
  <2>1. calls' = calls
    BY <1>1, <1>2, <1>3, <1>6
  <2> QED BY <1>5, <2>1
<1>7. CASE Hooks[n] \cap {type, "all"} # {}
  <2>1. n = NumNodes /\ type = "passed"
    BY <1>7 DEF CallsAtEnd
  <2>2. Over(g)
    BY <2>1, WorkflowAssumption DEF Reached, Over, Nodes
  <2> QED BY <1>5, <2>2
<1> QED BY <1>6, <1>7

(* A row already read is still fit to be asked about when the history grows. *)
LEMMA ReachedKept ==
    ASSUME TypeOK, AllReached(history), NEW r \in Record
    PROVE  /\ AllReached(Append(history, r))
           /\ \A k \in DOMAIN calls : Reached(Append(history, r), calls[k].row.node)
<1>1. history \in Seq(Record) /\ calls \in Seq(Call) /\ req \in [Clients -> Requests]
  BY DEF TypeOK
<1>2. \A c \in Clients : req[c].row.node \in Nodes
  BY <1>1, FieldTypes
<1>3. \A k \in DOMAIN calls : calls[k].row.node \in Nodes
  BY <1>1, FieldTypes
<1> QED BY <1>1, <1>2, <1>3, HistoryGrows DEF AllReached

(* A client's request ends, or asks about a row that has been reached.      *)
LEMMA AsksReached ==
    ASSUME TypeOK, NEW h, \A c \in Clients : Reached(h, req[c].row.node),
           NEW d \in Clients, NEW r \in Requests, Asks(d, r), Reached(h, r.row.node)
    PROVE  \A c \in Clients : Reached(h, req'[c].row.node)
<1>1. req' = [req EXCEPT ![d] = r] /\ req \in [Clients -> Requests]
  BY DEF Asks, TypeOK
<1>2. \A c \in Clients : req'[c] = r \/ req'[c] = req[c]
  BY <1>1
<1> QED BY <1>2

LEMMA SkipInit == Init => SkipInv
<1> SUFFICES ASSUME Init
             PROVE  SkipInv
  OBVIOUS
<1>1. ticket = NoTicket /\ history = <<>> /\ calls = <<>>
      /\ \A c \in Clients : req[c] = Idle
  BY DEF Init
<1>2. TicketFits(history)
  <2>1. NoTicket.status = "none"
    BY FirstNode, RowType DEF NoTicket, Statuses
  <2> QED BY <1>1, <2>1, FirstNode, FirstReached DEF TicketFits
<1>3. AllReached(history)
  BY <1>1, FirstNode, FirstReached DEF AllReached
<1>4. RejectsReached(history)
  BY <1>1 DEF RejectsReached
<1> QED BY <1>1, <1>2, <1>3, <1>4, WorkflowTypeInit DEF SkipInv

(* Nothing has been called before the ticket is created.                    *)
LEMMA NothingCalledYet ==
    ASSUME SkipInv, history = <<>>
    PROVE  calls = <<>>
<1>1. ~ForcedIn(<<>>) /\ ~PassedIn(<<>>, 1)
  BY DEF ForcedIn, PassedIn, Passed
<1>2. ~Over(<<>>)
  BY <1>1, FirstNode DEF Over, DoneIn
<1> QED BY <1>2 DEF SkipInv

LEMMA CreateKeeps ==
    ASSUME CallsAtEnd, SkipInv, Create, TypeOK'
    PROVE  SkipInv'
<1> DEFINE r == Rec(1, Creator, "passed", FALSE)
           g == Append(<<>>, r)
<1>0. TypeOK /\ history = <<>> /\ AllReached(history) /\ req' = req
  BY DEF SkipInv, Create
<1>1. calls = <<>>
  BY <1>0, NothingCalledYet
<1>2. r \in Record /\ r.type = "passed" /\ r.node = 1 /\ ~r.rejects
  BY FirstNode, PassRecord, WorkflowAssumption
<1>3. history' = g
  BY DEF Create
<1>4. <<>> \in Seq(Record) /\ g \in Seq(Record)
  <2>1. <<>> \in Seq(Record)
    OBVIOUS
  <2> QED BY <1>2, <2>1, AppendFacts
<1>5. DoneIn(g, 1) /\ Reached(g, 1)
  BY <1>2, <1>4, HistoryGrows, FirstReached DEF DoneIn
<1>6. RejectsReached(<<>>)
  BY DEF RejectsReached
<1>7. TicketFits(history)'
  <2>1. Row(1, "wait") \in Ticket /\ Row(1, "wait").node = 1
    BY FirstNode, RowType DEF Statuses
  <2>2. ticket' = Forward(Row(1, "wait"), <<>>)
    BY DEF Create
  <2>3. Reached(<<>>, 1)
    BY FirstReached
  <2>4. Reached(g, ticket'.node) /\ (ticket'.status = "complete" => Over(g))
    BY <1>4, <1>6, <2>1, <2>2, <2>3, ForwardReached, WorkflowAssumption
  <2> HIDE DEF g
  <2> QED BY <1>3, <2>4 DEF TicketFits, Reached, Over, ForcedIn, DoneIn, PassedIn, SignedIn, Passed
<1>8. RejectsReached(history)'
  <2>1. RejectsReached(g)
    BY <1>2, <1>4, <1>6, RejectsGrow
  <2> HIDE DEF g
  <2> QED BY <1>3, <2>1 DEF RejectsReached, Reached, DoneIn, PassedIn, SignedIn, Passed
<1>9. /\ \A k \in DOMAIN calls' : Reached(g, calls'[k].row.node)
      /\ calls' # <<>> => Over(g)
  <2>1. calls' = calls \o Hooked(1, "passed")
    <3>1. calls' = Hooked(1, "passed") /\ Hooked(1, "passed") \in Seq(Call)
      BY FirstNode, HookedType DEF Create
    <3> QED BY <1>1, <3>1
  <2> HIDE DEF g
  <2> QED BY <1>0, <1>1, <1>4, <1>5, <2>1, FirstNode, CallsGrow
<1>10. \A c \in Clients : Reached(g, req'[c].row.node)
  <2>1. AllReached(g)
    BY <1>0, <1>2, ReachedKept
  <2> HIDE DEF g
  <2> QED BY <1>0, <2>1 DEF AllReached
<1> HIDE DEF g
<1> QED BY <1>3, <1>7, <1>8, <1>9, <1>10 DEF SkipInv, AllReached, Reached, Over, ForcedIn, DoneIn, PassedIn, SignedIn, Passed

(* A request is sent: it takes the ticket's row as it is.                   *)
LEMMA ReadKeeps ==
    ASSUME SkipInv, TypeOK', NEW c \in Clients, NEW r \in Requests, Asks(c, r),
           r.row = ticket \/ r.row = NoTicket, UNCHANGED <<ticket, history, calls>>
    PROVE  SkipInv'
<1>1. \A d \in Clients : Reached(history, req[d].row.node)
  BY DEF SkipInv, AllReached
<1>2. Reached(history, r.row.node)
  BY FirstNode, FirstReached DEF SkipInv, TicketFits
<1>3. \A d \in Clients : Reached(history, req'[d].row.node)
  BY <1>1, <1>2, AsksReached DEF SkipInv
<1>4. ticket' = ticket /\ history' = history /\ calls' = calls
  OBVIOUS
<1> QED BY <1>3, <1>4 DEF SkipInv, TicketFits, AllReached, RejectsReached, Reached, Over,
            ForcedIn, DoneIn, PassedIn, SignedIn, Passed

(* A record is written: the request that wrote it is over.                  *)
LEMMA RecordKeeps ==
    ASSUME SkipInv, TypeOK', NEW c \in Clients, Asks(c, Idle),
           NEW r \in Record, history' = Append(history, r),
           r.rejects => Reached(history, r.node),
           Reached(history', ticket'.node),
           ticket'.status = "complete" => Over(history'),
           \A k \in DOMAIN calls' : Reached(history', calls'[k].row.node),
           calls' # <<>> => Over(history')
    PROVE  SkipInv'
<1> DEFINE g == Append(history, r)
<1>0. TypeOK /\ history \in Seq(Record) /\ AllReached(history) /\ RejectsReached(history)
  BY DEF SkipInv, TypeOK
<1>1. RejectsReached(g)
  BY <1>0, RejectsGrow
<1>2. \A d \in Clients : Reached(g, req'[d].row.node)
  <2>1. \A d \in Clients : Reached(g, req[d].row.node)
    BY <1>0, ReachedKept DEF AllReached
  <2>2. Idle \in Requests /\ Reached(g, Idle.row.node)
    BY FirstNode, FirstReached
  <2> HIDE DEF g
  <2> QED BY <1>0, <2>1, <2>2, AsksReached
<1>3. history' = g
  OBVIOUS
<1> HIDE DEF g
<1>4. TicketFits(history)' /\ RejectsReached(history)'
  BY <1>1, <1>3 DEF TicketFits, RejectsReached, Reached, Over, ForcedIn, DoneIn, PassedIn, SignedIn, Passed
<1>5. AllReached(history)' /\ (calls # <<>> => Over(history))'
  BY <1>2, <1>3 DEF AllReached, Reached, Over, ForcedIn, DoneIn, PassedIn, SignedIn, Passed
<1> QED BY <1>4, <1>5 DEF SkipInv

(* What the calls are fit for when the record leaves them alone.            *)
LEMMA CallsKept ==
    ASSUME SkipInv, NEW r \in Record
    PROVE  /\ \A k \in DOMAIN calls : Reached(Append(history, r), calls[k].row.node)
           /\ calls # <<>> => Over(Append(history, r))
<1>1. TypeOK /\ AllReached(history) /\ history \in Seq(Record)
  BY DEF SkipInv, TypeOK
<1> QED BY <1>1, ReachedKept, HistoryGrows DEF SkipInv

LEMMA PassKeeps ==
    ASSUME CallsAtEnd, SkipInv, TypeOK', NEW c \in Clients, Pass(c)
    PROVE  SkipInv'
<1> DEFINE row == req[c].row
           r   == Rec(row.node, req[c].user, "passed", FALSE)
           g   == Append(history, r)
<1>0. /\ TypeOK /\ history \in Seq(Record) /\ row \in Ticket /\ row.node \in Nodes
      /\ req[c].user \in Users
      /\ Reached(history, row.node) /\ RejectsReached(history)
  BY FieldTypes DEF SkipInv, TypeOK, AllReached
<1>1. r \in Record /\ r.type = "passed" /\ r.node = row.node /\ ~r.rejects
  BY <1>0, PassRecord
<1>2. Reached(g, row.node) /\ PassedIn(g, row.node) /\ g \in Seq(Record)
  <2> HIDE DEF r
  <2>1. g \in Seq(Record)
    BY <1>0, <1>1, AppendType
  <2>2. Reached(g, row.node) /\ PassedIn(g, r.node)
    BY <1>0, <1>1, HistoryGrows
  <2> QED BY <1>1, <2>1, <2>2
<1>3. history' = g /\ Asks(c, Idle)
  BY DEF Pass
<1>4. /\ \A k \in DOMAIN calls : Reached(g, calls[k].row.node)
      /\ calls # <<>> => Over(g)
  BY <1>1, CallsKept
<1>5. CASE ticket' = Row(row.node, "wait") /\ UNCHANGED calls
  <2>1. ticket'.node = row.node /\ ticket'.status = "wait"
    BY <1>0, <1>5, RowType DEF Statuses
  <2>2. Reached(history', ticket'.node) /\ ticket'.status # "complete"
    BY <1>2, <1>3, <2>1
  <2>3. /\ \A k \in DOMAIN calls' : Reached(history', calls'[k].row.node)
        /\ calls' # <<>> => Over(history')
    BY <1>3, <1>4, <1>5
  <2> QED BY <1>1, <1>3, <2>2, <2>3, RecordKeeps
<1>6. CASE /\ ticket' = Forward(row, history) /\ calls' = calls \o Hooked(row.node, "passed")
           /\ row.node \in Countersigned => Countersigns(g, row.node)
  <2>0. /\ row.node \in Countersigned => SignedIn(g, row.node)
        /\ DoneIn(g, row.node)
    BY <1>2, <1>6 DEF Countersigns, SignedIn, DoneIn
  <2>1. Reached(g, ticket'.node) /\ (ticket'.status = "complete" => Over(g))
    BY <1>0, <1>6, <2>0, ForwardReached
  <2>2. /\ \A k \in DOMAIN calls' : Reached(g, calls'[k].row.node)
        /\ calls' # <<>> => Over(g)
    <3> HIDE DEF g, row
    <3> QED BY <1>0, <1>2, <1>4, <1>6, <2>0, CallsGrow
  <2> QED BY <1>1, <1>3, <2>1, <2>2, RecordKeeps
<1> QED BY <1>5, <1>6 DEF Pass

LEMMA RejectKeeps ==
    ASSUME CallsAtEnd, SkipInv, TypeOK', NEW c \in Clients, Reject(c)
    PROVE  SkipInv'
<1> DEFINE row == req[c].row
           r   == Rec(row.node, req[c].user, "reject", TRUE)
           g   == Append(history, r)
<1>0. /\ TypeOK /\ history \in Seq(Record) /\ row.node \in Nodes
      /\ req[c].user \in Users /\ Reached(history, row.node)
  BY FieldTypes DEF SkipInv, TypeOK, AllReached
<1>1. r \in Record /\ r.node = row.node
  <2>1. "reject" \in Types /\ TRUE \in BOOLEAN
    BY DEF Types
  <2> HIDE DEF row
  <2>2. r \in Record /\ r.node = row.node
    BY <1>0, <2>1, RecordOf, Zenon
  <2> QED BY <2>2 DEF row
<1>2. g \in Seq(Record)
  BY <1>0, <1>1, AppendFacts
<1>3. history' = g /\ Asks(c, Idle) /\ ticket' = Row(1, "reject")
      /\ calls' = calls \o Hooked(row.node, "reject")
  BY DEF Reject
<1>4. Reached(g, ticket'.node) /\ ticket'.status # "complete"
  <2>1. ticket'.node = 1 /\ ticket'.status = "reject"
    BY <1>3, FirstNode, RowType DEF Statuses
  <2> QED BY <2>1, FirstReached
<1>5. /\ \A k \in DOMAIN calls : Reached(g, calls[k].row.node)
      /\ calls # <<>> => Over(g)
  BY <1>1, CallsKept
<1>6. /\ \A k \in DOMAIN calls' : Reached(g, calls'[k].row.node)
      /\ calls' # <<>> => Over(g)
  <2> HIDE DEF g, row
  <2> QED BY <1>0, <1>2, <1>3, <1>5, CallsGrow
<1> QED BY <1>0, <1>1, <1>3, <1>4, <1>6, RecordKeeps

LEMMA OverrideKeeps ==
    ASSUME SkipInv, TypeOK', NEW c \in Clients, Override(c)
    PROVE  SkipInv'
<1>0. /\ TypeOK /\ history \in Seq(Record) /\ req[c].row.node \in Nodes
      /\ req[c].user \in Users /\ Reached(history, req[c].row.node)
  BY FieldTypes DEF SkipInv, TypeOK, AllReached
<1>1. PICK type \in {"revoke", "close"} :
         /\ Copied(type, req[c].user)
         /\ Complete(c) => type = "close"
  BY DEF Override, Revoke, Close, Complete
<1>2. PICK i \in DOMAIN history :
         history' = Append(history, Rec(1, req[c].user, type, history[i].rejects))
  BY <1>1 DEF Copied
<1> DEFINE r == Rec(1, req[c].user, type, history[i].rejects)
           g == Append(history, r)
<1>3. r \in Record /\ r.node = 1 /\ r.type = type
  <2>1. history[i] \in Record
    BY <1>0
  <2>2. history[i].rejects \in BOOLEAN
    BY <2>1, FieldTypes
  <2>3. type \in Types
    BY DEF Types
  <2>4. 1 \in Nodes
    BY FirstNode
  <2>5. req[c].user \in Users
    BY <1>0
  <2>6. \A n \in Nodes, u \in Users, t \in Types, x \in BOOLEAN :
           Rec(n, u, t, x) \in Record /\ Rec(n, u, t, x).node = n /\ Rec(n, u, t, x).type = t
    BY RecordOf
  <2>7. r \in Record
    BY <2>2, <2>3, <2>4, <2>5, <2>6, Zenon
  <2>8. r.node = 1 /\ r.type = type
    BY DEF Rec
  <2> QED BY <2>7, <2>8
<1>4. Asks(c, Idle) /\ calls' = calls
  BY DEF Override, Revoke, Close, Complete
<1>5. Reached(g, req[c].row.node) /\ (type = "close" => Over(g))
  BY <1>0, <1>3, HistoryGrows
<1>6. Reached(g, ticket'.node) /\ (ticket'.status = "complete" => Over(g))
  <2>1. CASE Revoke(c)
    <3>1. ticket'.node = 1 /\ ticket'.status = "revoke"
      BY <2>1, FirstNode, RowType DEF Revoke, Statuses
    <3> QED BY <3>1, FirstReached
  <2>2. CASE Close(c)
    <3>1. ticket'.node = req[c].row.node /\ ticket'.status = "close"
      BY <1>0, <2>2, RowType DEF Close, Statuses
    <3> QED BY <1>5, <3>1
  <2>3. CASE Complete(c)
    <3>1. ticket'.node = req[c].row.node
      BY <1>0, <2>3, RowType DEF Complete, Statuses
    <3> QED BY <1>1, <1>5, <2>3, <3>1
  <2> QED BY <2>1, <2>2, <2>3 DEF Override
<1>7. /\ \A k \in DOMAIN calls' : Reached(g, calls'[k].row.node)
      /\ calls' # <<>> => Over(g)
  BY <1>3, <1>4, CallsKept
<1> QED BY <1>2, <1>3, <1>4, <1>6, <1>7, FirstReached, RecordKeeps

LEMMA CallKeeps ==
    ASSUME SkipInv, TypeOK', NEW k \in DOMAIN calls,
           CallRead(k) \/ CallSave(k) \/ CallFails(k) \/ Retry(k)
    PROVE  SkipInv'
<1>0. /\ TypeOK /\ AllReached(history) /\ TicketFits(history) /\ Over(history)
      /\ calls \in Seq(Call) /\ history \in Seq(Record) /\ ticket \in Ticket
      /\ calls[k].row.node \in Nodes /\ calls[k].row \in Ticket
  BY FieldTypes DEF SkipInv, TypeOK
<1>1. history' = history /\ req' = req
  BY DEF CallRead, CallSave, CallFails, Retry
<1>2. Reached(history, ticket'.node) /\ (ticket'.status = "complete" => Over(history))
  <2>1. CASE ticket' = ticket
    BY <1>0, <2>1 DEF TicketFits
  <2>2. CASE ticket' = Row(calls[k].row.node, "complete")
    <3>1. ticket'.node = calls[k].row.node
      BY <1>0, <2>2, RowType DEF Statuses
    <3> QED BY <1>0, <3>1 DEF AllReached
  <2> QED BY <2>1, <2>2 DEF CallRead, CallSave, CallFails, Retry
<1>3. \A j \in DOMAIN calls' : Reached(history, calls'[j].row.node)
  <2>1. \A t \in Ticket, at \in {"queued", "read", "done"} : CallAt(at, t).row = t
    BY CallType
  <2>2. /\ Reached(history, NoTicket.node) /\ NoTicket \in Ticket
        /\ Reached(history, ticket.node) /\ Reached(history, calls[k].row.node)
    BY <1>0, FirstNode, FirstReached DEF TicketFits, AllReached
  <2>3. CASE \E t \in {ticket, calls[k].row}, at \in {"read", "done"} : Becomes(k, CallAt(at, t))
    <3>1. PICK t \in {ticket, calls[k].row}, at \in {"read", "done"} : Becomes(k, CallAt(at, t))
      BY <2>3
    <3>2. CallAt(at, t).row = t
      BY <1>0, <2>1
    <3>3. \A j \in DOMAIN calls' : j \in DOMAIN calls /\ (calls'[j] = CallAt(at, t) \/ calls'[j] = calls[j])
      BY <1>0, <3>1 DEF Becomes
    <3> QED BY <1>0, <2>2, <3>2, <3>3 DEF AllReached
  <2>4. CASE Retry(k)
    <3>1. CallAt("queued", NoTicket).row = NoTicket
      BY <2>1, <2>2
    <3>2. calls' = Append(calls, CallAt("queued", NoTicket))
      BY <2>4 DEF Retry
    <3>3. \A j \in DOMAIN calls' :
             calls'[j] = CallAt("queued", NoTicket) \/ (j \in DOMAIN calls /\ calls'[j] = calls[j])
      BY <1>0, <3>2
    <3> QED BY <1>0, <2>2, <3>1, <3>3 DEF AllReached
  <2> QED BY <2>3, <2>4 DEF CallRead, CallSave, CallFails
<1> QED BY <1>0, <1>1, <1>2, <1>3 DEF SkipInv, TicketFits, AllReached, RejectsReached, Reached,
            Over, ForcedIn, DoneIn, PassedIn, SignedIn, Passed

LEMMA StutterKeeps == ASSUME SkipInv, UNCHANGED vars PROVE SkipInv'
<1>1. ticket' = ticket /\ history' = history /\ req' = req /\ calls' = calls
  BY DEF vars
<1> QED BY <1>1 DEF SkipInv, TypeOK, TicketFits, AllReached, RejectsReached, Reached, Over,
            ForcedIn, DoneIn, PassedIn, SignedIn, Passed

LEMMA SkipInductive ==
    ASSUME CallsAtEnd, SkipInv, [Next]_vars
    PROVE  SkipInv'
<1>0. TypeOK /\ TypeOK'
  BY WorkflowTypeInductive DEF SkipInv
<1>1. CASE Create
  BY <1>0, <1>1, CreateKeeps
<1>2. ASSUME NEW c \in Clients, NEW u \in Users, Open(c, u)
      PROVE  SkipInv'
  <2>1. PICK f \in FormOf(ticket.node) : Asks(c, Request("page", u, ticket, f))
    BY <1>2 DEF Open
  <2>2. f \in {"none", "passed", "reject"}
    BY WorkflowAssumption DEF FormOf
  <2>3. /\ Request("page", u, ticket, f) \in Requests
        /\ Request("page", u, ticket, f).row = ticket
    BY <1>0, <2>2, RequestType DEF TypeOK
  <2> QED BY <1>0, <1>2, <2>1, <2>3, ReadKeeps DEF Open
<1>3. ASSUME NEW c \in Clients, NEW u \in Users, NEW o \in Overrides, OverrideRead(c, u, o)
      PROVE  SkipInv'
  <2>1. /\ Request(o, u, ticket, "none") \in Requests
        /\ Request(o, u, ticket, "none").row = ticket
    <3>1. o \in {"revoke", "close", "complete"}
      BY WorkflowAssumption
    <3>2. ticket \in Ticket
      BY <1>0 DEF TypeOK
    <3> QED BY <3>1, <3>2, RequestType
  <2> QED BY <1>0, <1>3, <2>1, ReadKeeps DEF OverrideRead
<1>4. ASSUME NEW c \in Clients, UpdateRead(c)
      PROVE  SkipInv'
  <2>1. req[c].user \in Users /\ req[c].form \in {"none", "passed", "reject"}
    BY <1>0, FieldTypes DEF TypeOK
  <2>2. /\ Request("read", req[c].user, ticket, req[c].form) \in Requests
        /\ Request("read", req[c].user, ticket, req[c].form).row = ticket
    BY <1>0, <2>1, RequestType DEF TypeOK
  <2> QED BY <1>0, <1>4, <2>2, ReadKeeps DEF UpdateRead
<1>5. ASSUME NEW c \in Clients, Refuse(c)
      PROVE  SkipInv'
  BY <1>0, <1>5, FirstNode, ReadKeeps DEF Refuse
<1>6. ASSUME NEW c \in Clients, Handle(c) \/ Override(c)
      PROVE  SkipInv'
  BY <1>0, <1>5, <1>6, PassKeeps, RejectKeeps, OverrideKeeps DEF Handle
<1>7. ASSUME NEW k \in DOMAIN calls, CallRead(k) \/ CallSave(k) \/ CallFails(k) \/ Retry(k)
      PROVE  SkipInv'
  BY <1>0, <1>7, CallKeeps
<1>8. CASE UNCHANGED vars
  BY <1>8, StutterKeeps
<1> QED BY <1>1, <1>2, <1>3, <1>4, <1>6, <1>7, <1>8 DEF Next, Finished

LEMMA SkipImplies == SkipInv => NoNodeSkipped /\ MembersHavePassed
<1>1. SkipInv => NoNodeSkipped
  BY DEF SkipInv, TicketFits, Reached, Over, ForcedIn, DoneIn, PassedIn, NoNodeSkipped,
     PassedAt, Forced
<1>2. SkipInv => MembersHavePassed
  BY WorkflowAssumption DEF SkipInv, TicketFits, Reached, Over, ForcedIn, DoneIn, SignedIn,
     MembersHavePassed, Forced, Nodes
<1> QED BY <1>1, <1>2

(* However requests, overrides and callbacks overlap, no ticket skips a     *)
(* node of its template, provided that only a pass of the last node calls   *)
(* the callback that completes tickets.                                     *)
THEOREM NoNodeIsSkipped == ASSUME CallsAtEnd PROVE Spec => []NoNodeSkipped
<1>1. SkipInv /\ [Next]_vars => SkipInv'
  BY SkipInductive
<1> QED BY <1>1, SkipInit, SkipImplies, PTL DEF Spec

(* Under the same assumption a countersigned node is left behind, or ends   *)
(* the ticket, only when each of its members has passed the ticket.         *)
THEOREM EveryMemberHasPassed == ASSUME CallsAtEnd PROVE Spec => []MembersHavePassed
<1>1. SkipInv /\ [Next]_vars => SkipInv'
  BY SkipInductive
<1> QED BY <1>1, SkipInit, SkipImplies, PTL DEF Spec
=============================================================================
