----------------------------- MODULE MCHistories ------------------------------
(* Instances of components that derive what they show from what others have      *)
(* written (the heads of a project's files, the indexes of a workspace and of a  *)
(* library), side by side: a behaviour is one of one component, chosen at the    *)
(* start; the others rest.                                                       *)
EXTENDS MCSyncStore, SearchIndex, LibraryIndex

VARIABLE part  \* the component that moves
historyVars == <<part, vars, searchVars, indexVars>>

\* Component p moves, and nothing else.
Only(p, A) ==
    /\ part = p /\ A /\ UNCHANGED part
    /\ p # "store" => UNCHANGED vars
    /\ p # "search" => UNCHANGED searchVars
    /\ p # "library" => UNCHANGED indexVars

HistoriesInit ==
    /\ Init /\ SearchInit /\ IndexInit
    /\ part \in {"store", "search", "library"}
    /\ part # "library" => records = NoFiles

HistoriesNext ==
    \/ Only("store", Next)
    \/ Only("search", SearchNext)
    \/ Only("library", IndexNext)

HistoriesSpec == HistoriesInit /\ [][HistoriesNext]_historyVars
===============================================================================
