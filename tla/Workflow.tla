------------------------------ MODULE Workflow ------------------------------
(***************************************************************************)
(* One ticket: it walks the nodes of its template as users pass and reject *)
(* them, and each handled node may queue callbacks, one kind of which      *)
(* completes the ticket.                                                   *)
(*                                                                         *)
(* Every request reads the ticket's row and later saves the whole row.     *)
(* From its first write to its commit it holds the row's lock, so that     *)
(* part is one step; what it read before may be old by then.               *)
(***************************************************************************)
EXTENDS Integers, FiniteSets, Sequences

CONSTANTS
    Users, Creator,
    Clients,        \* requests and open pages at once
    NumNodes,       \* nodes of the template, 1 .. NumNodes
    Countersigned,  \* the nodes all of whose members must pass
    Members,        \* Members[n]: users bound to node n
    FirstForms,     \* what a form of the first node may say of the decision
    Hooks,          \* Hooks[n]: when node n calls the completing callback
    Overrides,      \* those of {"revoke", "close", "complete"} that are used
    MaxHistory,     \* bound of the ticket's history
    MaxCalls        \* bound of the calls that retries lead to

Nodes == 1 .. NumNodes

ASSUME WorkflowAssumption ==
    /\ Creator \in Users /\ IsFiniteSet(Clients)
    /\ NumNodes \in Nat \ {0} /\ MaxHistory \in Nat /\ MaxCalls \in Nat
    /\ Countersigned \subseteq Nodes
    /\ Members \in [Nodes -> SUBSET Users]
    /\ FirstForms \subseteq {"none", "passed", "reject"}
    /\ Hooks \in [Nodes -> SUBSET {"passed", "reject", "all"}]
    /\ Overrides \subseteq {"revoke", "close", "complete"}

VARIABLES
    ticket,    \* the Workflow row: its current node and its status
    history,   \* the WorkflowNodeHistory rows, oldest first
    req,       \* req[c]: the page or request of client c
    calls      \* the callback calls, in the order they were queued

vars == <<ticket, history, req, calls>>

Statuses == {"none", "wait", "reject", "revoke", "close", "complete"}
Ticket   == [node : Nodes, status : Statuses]
Types    == {"passed", "reject", "revoke", "close"}
Record   == [node : Nodes, by : Users, type : Types, rejects : BOOLEAN]
Requests == [at : {"idle", "page", "read", "revoke", "close", "complete"},
             user : Users, row : Ticket, form : {"none", "passed", "reject"}]
Call     == [at : {"queued", "read", "done"}, row : Ticket]

Row(n, s)         == [node |-> n, status |-> s]
Rec(n, u, t, r)   == [node |-> n, by |-> u, type |-> t, rejects |-> r]
Request(at, u, t, f) == [at |-> at, user |-> u, row |-> t, form |-> f]
CallAt(at, t)     == [at |-> at, row |-> t]

NoTicket == Row(1, "none")
Idle     == Request("idle", Creator, NoTicket, "none")

Passed(h, n, u) == \E i \in DOMAIN h : h[i].node = n /\ h[i].by = u /\ h[i].type = "passed"

\* A page is opened, or an override begun, only if its record will fit.
Room == Len(history) + Cardinality({c \in Clients : req[c].at # "idle"}) < MaxHistory

-----------------------------------------------------------------------------
(* The life cycle of a ticket.                                             *)

\* Slip: the passes of members are counted, not the members who have passed.
CountersignsPasses(h, n) ==
    Cardinality({i \in DOMAIN h : h[i].by \in Members[n] /\ h[i].type = "passed"})
       >= Cardinality(Members[n])

(* Members counted as having passed: those with a pass at any node.         *)
Countersigns(h, n) == \A u \in Members[n] : \E m \in Nodes : Passed(h, m, u)

\* Slip: the ticket goes on after the node that rejected it.
TargetAfterReject(row, h) ==
    IF h # <<>> /\ h[Len(h)].rejects THEN h[Len(h)].node + 1 ELSE row.node + 1

(* After a rejection the ticket goes back to the node that rejected it.     *)
Target(row, h) ==
    IF h # <<>> /\ h[Len(h)].rejects THEN h[Len(h)].node ELSE row.node + 1

\* Slip: the last node has a successor.
ForwardOff(row, h) == Row(Target(row, h), "wait")

(* The next node, or the end; h is the history before this pass.            *)
Forward(row, h) ==
    IF Target(row, h) \in Nodes THEN Row(Target(row, h), "wait") ELSE Row(row.node, "complete")

Hooked(n, type) == [i \in 1 .. Cardinality(Hooks[n] \cap {type, "all"}) |-> CallAt("queued", NoTicket)]

-----------------------------------------------------------------------------
Init ==
    /\ ticket = NoTicket
    /\ history = <<>>
    /\ req = [c \in Clients |-> Idle]
    /\ calls = <<>>

(* create: the first node is handled by creating the ticket.                *)
Create ==
    /\ history = <<>>
    /\ history' = <<Rec(1, Creator, "passed", FALSE)>>
    /\ ticket' = Forward(Row(1, "wait"), <<>>)
    /\ calls' = Hooked(1, "passed")
    /\ UNCHANGED req

Asks(c, r) == req' = [req EXCEPT ![c] = r]

(* A user opens a ticket, whatever its state and whoever is asked to handle *)
(* it: the request names it by its number.  The form of a node that is not  *)
(* the first asks for a decision.                                           *)
FormOf(n) == IF n = 1 THEN FirstForms ELSE {"passed", "reject"}

Open(c, u) ==
    /\ req[c] = Idle /\ Room
    /\ history # <<>>
    /\ \E f \in FormOf(ticket.node) : Asks(c, Request("page", u, ticket, f))
    /\ UNCHANGED <<ticket, history, calls>>

(* The request is for the node the ticket is at when it is read, whatever   *)
(* the page showed.                                                         *)
UpdateRead(c) ==
    /\ req[c].at = "page"
    /\ Asks(c, Request("read", req[c].user, ticket, req[c].form))
    /\ UNCHANGED <<ticket, history, calls>>

Undecided(r) == r.form = "none" /\ r.row.node # 1

Refuse(c) ==
    /\ req[c].at = "read" /\ Undecided(req[c])
    /\ Asks(c, Idle)
    /\ UNCHANGED <<ticket, history, calls>>

(* A form that says nothing passes the first node.                          *)
Pass(c) ==
    LET row == req[c].row
        h   == Append(history, Rec(row.node, req[c].user, "passed", FALSE))
    IN  /\ req[c].at = "read" /\ req[c].form # "reject" /\ ~Undecided(req[c])
        /\ history' = h
        /\ IF row.node \in Countersigned /\ ~Countersigns(h, row.node)
           THEN ticket' = Row(row.node, "wait") /\ UNCHANGED calls
           ELSE /\ ticket' = Forward(row, history)
                /\ calls' = calls \o Hooked(row.node, "passed")
        /\ Asks(c, Idle)

Reject(c) ==
    LET row == req[c].row
    IN  /\ req[c].at = "read" /\ req[c].form = "reject"
        /\ history' = Append(history, Rec(row.node, req[c].user, "reject", TRUE))
        /\ ticket' = Row(1, "reject")
        /\ calls' = calls \o Hooked(row.node, "reject")
        /\ Asks(c, Idle)

-----------------------------------------------------------------------------
(* revoke, close and complete save the row and copy the latest record of    *)
(* the first node, its form included.                                       *)

OverrideRead(c, u, o) ==
    /\ req[c] = Idle /\ Room
    /\ history # <<>>
    /\ Asks(c, Request(o, u, ticket, "none"))
    /\ UNCHANGED <<ticket, history, calls>>

IsLatest(i, n) == history[i].node = n /\ \A j \in DOMAIN history : history[j].node = n => j <= i

Copied(type, u) ==
    \E i \in DOMAIN history :
       IsLatest(i, 1) /\ history' = Append(history, Rec(1, u, type, history[i].rejects))

Revoke(c) ==
    /\ req[c].at = "revoke"
    /\ ticket' = Row(1, "revoke")
    /\ Copied("revoke", req[c].user)
    /\ Asks(c, Idle)
    /\ UNCHANGED calls

Close(c) ==
    /\ req[c].at = "close"
    /\ ticket' = Row(req[c].row.node, "close")
    /\ Copied("close", req[c].user)
    /\ Asks(c, Idle)
    /\ UNCHANGED calls

Complete(c) ==
    /\ req[c].at = "complete"
    /\ ticket' = Row(req[c].row.node, "complete")
    /\ Copied("close", req[c].user)
    /\ Asks(c, Idle)
    /\ UNCHANGED calls

-----------------------------------------------------------------------------
(* workflow_callback, a task, posts to the callback's view, which reads the *)
(* ticket, does its work and saves the ticket as complete.                  *)

Becomes(k, call) == calls' = [calls EXCEPT ![k] = call]

CallRead(k) ==
    /\ calls[k].at = "queued"
    /\ Becomes(k, CallAt("read", ticket))
    /\ UNCHANGED <<ticket, history, req>>

CallSave(k) ==
    /\ calls[k].at = "read"
    /\ ticket' = Row(calls[k].row.node, "complete")
    /\ Becomes(k, CallAt("done", calls[k].row))
    /\ UNCHANGED <<history, req>>

(* The view refuses the form, does not answer, or the task dies.            *)
CallFails(k) ==
    /\ calls[k].at \in {"queued", "read"}
    /\ Becomes(k, CallAt("done", calls[k].row))
    /\ UNCHANGED <<ticket, history, req>>

(* A user retries a callback, whatever became of it.                        *)
Retry(k) ==
    /\ Len(calls) < MaxCalls
    /\ calls' = Append(calls, CallAt("queued", NoTicket))
    /\ UNCHANGED <<ticket, history, req>>

-----------------------------------------------------------------------------
Handle(c) == Pass(c) \/ Reject(c) \/ Refuse(c)

Override(c) == Revoke(c) \/ Close(c) \/ Complete(c)

(* Nothing is left to do, or to record within the bound.                    *)
Finished ==
    /\ history # <<>>
    /\ \A c \in Clients : req[c] = Idle
    /\ \A k \in DOMAIN calls : calls[k].at = "done"
    /\ UNCHANGED vars

Next ==
    \/ Create
    \/ \E c \in Clients :
          \/ \E u \in Users : Open(c, u) \/ \E o \in Overrides : OverrideRead(c, u, o)
          \/ UpdateRead(c) \/ Handle(c) \/ Override(c)
    \/ \E k \in DOMAIN calls : CallRead(k) \/ CallSave(k) \/ CallFails(k) \/ Retry(k)
    \/ Finished

Spec == Init /\ [][Next]_vars

-----------------------------------------------------------------------------
(* Properties.                                                             *)

(* Every variable has its type.                                             *)
TypeOK ==
    /\ ticket \in Ticket
    /\ history \in Seq(Record)
    /\ req \in [Clients -> Requests]
    /\ calls \in Seq(Call)

PassedAt(n) == \E u \in Users : Passed(history, n, u)
Forced      == \E i \in DOMAIN history : history[i].type = "close"

(* LifeCycle.next: however requests and callbacks overlap, and wherever     *)
(* rejections lead back to, a ticket never skips a node.  It waits only at  *)
(* a node all of whose predecessors have been passed, and it is complete    *)
(* only when every node has been, or when somebody ended it by hand.        *)
NoNodeSkipped ==
    /\ \A n \in Nodes : n < ticket.node => PassedAt(n)
    /\ ticket.status = "complete" => Forced \/ \A n \in Nodes : PassedAt(n)

(* LifeCycle.handle: a ticket leaves a countersigned node, or ends, only    *)
(* when each member of that node has passed it, there or at another node,   *)
(* whoever else passes it and however often one member does.  The first     *)
(* node is passed by creating the ticket.                                   *)
MembersHavePassed ==
    \A n \in Countersigned \ {1} :
       n < ticket.node \/ (ticket.status = "complete" /\ ~Forced)
       => \A u \in Members[n] : \E m \in Nodes : Passed(history, m, u)

(* What the list and the notices take signing to be: each member has passed *)
(* the countersigned node itself.                                           *)
AllHaveSigned ==
    \A n \in Countersigned :
       n < ticket.node \/ (ticket.status = "complete" /\ ~Forced)
       => \A u \in Members[n] : Passed(history, n, u)
=============================================================================
