----------------------------- MODULE TicketForm -----------------------------
(***************************************************************************)
(* Who may handle the nodes of a ticket.  A ticket keeps its own revision   *)
(* of the template; creating it, handling a node and editing the revision   *)
(* each write all its nodes, from what they read or were sent earlier.      *)
(* How the ticket moves is module Workflow's, which takes the members as    *)
(* given; here it may come to any node of its revision.                     *)
(***************************************************************************)
EXTENDS Integers, Sequences, FiniteSets

CONSTANTS
    FormUsers,
    Superusers,   \* those who may open any ticket
    Layouts,      \* templates: sequences of nodes, the first of which may let
                  \* the requester choose the handlers of another, "asks"
    FormClients,
    MaxForms      \* bound: pages opened, and edits of the template, in all

FormNode == [id : STRING, pass : STRING, asks : STRING, members : SUBSET FormUsers]

(* A node is found by its name: in one template no two have the same.       *)
ASSUME FormAssumption ==
    /\ MaxForms \in Nat
    /\ \A t \in Layouts : /\ t \in Seq(FormNode) /\ Len(t) > 0
                          /\ \A i, j \in DOMAIN t : t[i].id = t[j].id => i = j

VARIABLES
    design,    \* nodes of the WorkflowTemplate
    revision,  \* nodes of the ticket's revision, <<>> before there is one
    node,      \* the ticket's current node
    page,      \* of each client: what it has opened
    forms,     \* pages and edits there have been
    chosen,    \* ghost, of each node: the handlers somebody chose, if any
    bound,     \* ghost, of each node: whom the template and the form gave it
    mixed      \* ghost: a form older than the template created the ticket

formVars == <<design, revision, node, page, forms, chosen, bound, mixed>>

Ids     == UNION {{t[i].id : i \in DOMAIN t} : t \in Layouts}
NoPage  == [kind |-> "none", nodes |-> <<>>, node |-> "none", stale |-> FALSE]
Index(nodes, n) == CHOOSE i \in DOMAIN nodes : nodes[i].id = n
Lists(nodes, n) == \E i \in DOMAIN nodes : nodes[i].id = n
Bind(nodes, n, users) ==
    [i \in DOMAIN nodes |-> IF nodes[i].id = n THEN [nodes[i] EXCEPT !.members = users] ELSE nodes[i]]

FormInit ==
    /\ design \in Layouts /\ revision = <<>> /\ node = "none" /\ forms = 0
    /\ page = [c \in FormClients |-> NoPage]
    /\ chosen = [n \in Ids |-> {}] /\ bound = [n \in Ids |-> {}] /\ mixed = FALSE

Opens(c, p) ==
    /\ page[c].kind = "none" /\ forms < MaxForms /\ forms' = forms + 1
    /\ page' = [page EXCEPT ![c] = p]

(* Who has read the revision before a write of it will write it stale.      *)
Writes(c) ==
    page' = [d \in FormClients |-> IF d = c THEN NoPage ELSE [page[d] EXCEPT !.stale = TRUE]]

-----------------------------------------------------------------------------
EditTemplate(t) ==
    /\ forms < MaxForms /\ forms' = forms + 1
    /\ design' = t
    /\ UNCHANGED <<revision, node, page, chosen, bound, mixed>>

OpenNew(c) ==
    /\ revision = <<>>
    /\ Opens(c, [NoPage EXCEPT !.kind = "new", !.nodes = design])
    /\ UNCHANGED <<design, revision, node, chosen, bound, mixed>>

(* create_workflow: the members of the form's nodes, to which the requester *)
(* may have added, go by position into the template's, except the first.    *)
NodesOf(form, user) ==
    [i \in DOMAIN design |->
       [design[i] EXCEPT !.members =
          @ \cup (IF i > 1 THEN form[i].members ELSE {})
            \cup (IF design[i].pass = "passed" THEN {user} ELSE {})]]

MayOpen(nodes, user) == nodes[1].members = {} \/ user \in nodes[1].members \cup Superusers

(* Too short a form raises; so does a requester who is not among the first  *)
(* node's members, and everything is rolled back.                           *)
CreateRefused(c, user) ==
    /\ page[c].kind = "new"
    /\ \/ Len(page[c].nodes) < Len(design)
       \/ ~MayOpen(NodesOf(page[c].nodes, user), user)
    /\ page' = [page EXCEPT ![c] = NoPage]
    /\ UNCHANGED <<design, revision, node, forms, chosen, bound, mixed>>

CreateTicket(c, user, extra, handlers) ==
    /\ page[c].kind = "new" /\ revision = <<>>
    /\ Len(page[c].nodes) >= Len(design)
    /\ LET form  == [i \in DOMAIN page[c].nodes |-> [page[c].nodes[i] EXCEPT !.members = @ \cup extra]]
           nodes == NodesOf(form, user)
           asks  == design[1].asks
       IN  /\ MayOpen(nodes, user)
           /\ revision' = IF Lists(nodes, asks) THEN Bind(nodes, asks, handlers) ELSE nodes
           /\ node' = nodes[IF Len(nodes) > 1 THEN 2 ELSE 1].id
           /\ chosen' = [n \in Ids |-> IF n = asks /\ Lists(nodes, n) THEN handlers ELSE {}]
           /\ bound' = [n \in Ids |->
                          IF n = asks THEN {}
                          ELSE (IF Lists(design, n) THEN design[Index(design, n)].members ELSE {})
                                 \cup (IF Lists(design, n) /\ Lists(Tail(form), n) THEN extra ELSE {})]
           /\ mixed' = ([i \in DOMAIN design |-> design[i].id] # [i \in DOMAIN form |-> form[i].id])
    /\ Writes(c)
    /\ UNCHANGED <<design, forms>>

-----------------------------------------------------------------------------
(* Handling: the ticket and its revision are read; with next_handle_user    *)
(* the next node's members are replaced and all nodes written; behind the   *)
(* last node that raises, and the request is rolled back.                   *)
HandleRead(c) ==
    /\ revision # <<>>
    /\ Opens(c, [NoPage EXCEPT !.kind = "handle", !.nodes = revision, !.node = node])
    /\ UNCHANGED <<design, revision, node, chosen, bound, mixed>>

HandlePlain(c) ==
    /\ page[c].kind = "handle"
    /\ \E i \in DOMAIN page[c].nodes : node' = page[c].nodes[i].id
    /\ page' = [page EXCEPT ![c] = NoPage]
    /\ UNCHANGED <<design, revision, forms, chosen, bound, mixed>>

(* Slip: the handlers are bound to the node just handled.                   *)
NextOfNone(nodes, n) == n

NextOf(nodes, n) == nodes[Index(nodes, n) + 1].id

HandleChoose(c, users) ==
    /\ page[c].kind = "handle" /\ Lists(page[c].nodes, page[c].node)
    /\ IF Index(page[c].nodes, page[c].node) = Len(page[c].nodes)
       THEN /\ page' = [page EXCEPT ![c] = NoPage]
            /\ UNCHANGED <<revision, node, chosen, bound>>
       ELSE LET nodes == page[c].nodes
                next  == nodes[Index(nodes, page[c].node) + 1].id IN
            /\ revision' = Bind(nodes, NextOf(nodes, page[c].node), users)
            /\ node' = next
            /\ chosen' = [n \in Ids |-> IF n = next THEN users ELSE IF page[c].stale THEN {} ELSE chosen[n]]
            /\ bound' = [n \in Ids |-> IF n = next \/ page[c].stale THEN {} ELSE bound[n]]
            /\ Writes(c)
    /\ UNCHANGED <<design, forms, mixed>>

(* template, PUT: all nodes as the editor has them.                         *)
OpenEditor(c) ==
    /\ revision # <<>>
    /\ Opens(c, [NoPage EXCEPT !.kind = "edit", !.nodes = revision])
    /\ UNCHANGED <<design, revision, node, chosen, bound, mixed>>

SaveEditor(c, n, users) ==
    /\ page[c].kind = "edit" /\ Lists(page[c].nodes, n)
    /\ revision' = Bind(page[c].nodes, n, users)
    /\ chosen' = [k \in Ids |-> IF page[c].stale \/ k = n THEN {} ELSE chosen[k]]
    /\ bound' = [k \in Ids |-> IF page[c].stale \/ k = n THEN {} ELSE bound[k]]
    /\ Writes(c)
    /\ UNCHANGED <<design, node, forms, mixed>>

FormNext ==
    \/ \E t \in Layouts : EditTemplate(t)
    \/ \E c \in FormClients :
         \/ OpenNew(c) \/ HandleRead(c) \/ OpenEditor(c) \/ HandlePlain(c)
         \/ \E u \in FormUsers : CreateRefused(c, u)
         \/ \E u \in FormUsers, extra, handlers \in SUBSET FormUsers : CreateTicket(c, u, extra, handlers)
         \/ \E users \in (SUBSET FormUsers) \ {{}} : HandleChoose(c, users)
         \/ \E n \in Ids, users \in SUBSET FormUsers : SaveEditor(c, n, users)

FormSpec == FormInit /\ [][FormNext]_formVars

-----------------------------------------------------------------------------
(* Nobody is lost from a node.  Handlers somebody chose for it, in the form *)
(* of the first node or when handling the one before, are its members, they *)
(* alone, until the revision is written from what was read before, or the   *)
(* node is edited: not even the template's members join them.  Whom the     *)
(* template binds and the requester adds is a member, though the form is    *)
(* merged by position, unless the template got other nodes meanwhile.       *)
MembersKept ==
    \A i \in DOMAIN revision : LET n == revision[i].id IN
       /\ chosen[n] # {} => revision[i].members = chosen[n]
       /\ bound[n] \subseteq revision[i].members \/ mixed
=============================================================================
