----------------------------- MODULE MCOperations -----------------------------
(* Instances of components whose operations race, are refused, die or are        *)
(* repeated, side by side: a behaviour is one of one component, chosen at the    *)
(* start; the others rest.                                                       *)
EXTENDS MCCommands, Trash, Workspace, ColdBackup

CONSTANTS t1, t2, x, y

\* An append; a replacement based on a later revision and a new thread, which
\* use one identifier for two requests.
ManageRequests ==
    {[op |-> "m1", action |-> "append", thread |-> t1, expected |-> 1, text |-> x],
     [op |-> "m2", action |-> "replace", thread |-> t1, expected |-> 2, text |-> y],
     [op |-> "m2", action |-> "create", text |-> y]}

VARIABLE part  \* the component that moves
operationVars == <<part, vars, trashVars, spaceVars, coldVars>>

\* Component p moves, and nothing else.
Only(p, A) ==
    /\ part = p /\ A /\ UNCHANGED part
    /\ p # "commands" => UNCHANGED vars
    /\ p # "trash" => UNCHANGED trashVars
    /\ p # "workspace" => UNCHANGED spaceVars
    /\ p # "snapshots" => UNCHANGED coldVars

OperationsInit ==
    /\ Init /\ TrashInit /\ SpaceInit /\ ColdInit
    /\ part \in {"commands", "trash", "workspace", "snapshots"}
    /\ part # "workspace" => DOMAIN files = {ThreadFile(t) : t \in Existing}

OperationsNext ==
    \/ Only("commands", Next)
    \/ Only("trash", TrashNext)
    \/ Only("workspace", SpaceNext)
    \/ Only("snapshots", ColdNext)

OperationsSpec == OperationsInit /\ [][OperationsNext]_operationVars

Interchangeable == Workers \cup Permutations(Object)
===============================================================================
