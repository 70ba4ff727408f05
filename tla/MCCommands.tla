----------------------------- MODULE MCCommands ------------------------------
EXTENDS Commands, TLC

CONSTANTS w1, w2, w3, o1, o2, o3, a, b

Native == [op |-> o1, kind |-> "native", content |-> a]
External == [op |-> o2, kind |-> "external", content |-> a]

\* A thread operation and its reconciliation, a use of its identifier for
\* another request, and a network command whose identifier a data command uses.
Requests ==
    {Native, [Native EXCEPT !.content = b],
     External, [External EXCEPT !.kind = "data"],
     [op |-> o3, kind |-> "reconcile", of |-> Native],
     [op |-> o2, kind |-> "reconcile", of |-> Native]}

Workers == Permutations(Worker)
==============================================================================
