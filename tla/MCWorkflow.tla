----------------------------- MODULE MCWorkflow -----------------------------
(* Values for the constants of Workflow: a template of three nodes, the     *)
(* second countersigned by two members.                                     *)
EXTENDS Workflow

CONSTANTS creator, m1, m2,
          ShortHistory   \* bound of the history while users overlap

MCMembers  == <<{creator}, {m1, m2}, {m2}>>
LastCalls  == <<{}, {}, {"passed"}>>
NeverCalls == <<{}, {}, {}>>

\* The third node is countersigned, by members who also pass the second.
TwiceMembers == <<{creator}, {m1}, {m1, m2}>>

Busy == {c \in Clients : req[c].at # "idle"}

\* Requests overlap while the history is short; a longer one grows request
\* by request.
Overlap == Cardinality(Busy) <= 1 \/ Len(history) + Cardinality(Busy) <= ShortHistory

CaseSpec == Init /\ [][Next /\ Overlap']_vars
=============================================================================
