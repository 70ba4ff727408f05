------------------------------ MODULE MCProgress ------------------------------
(* Instances of components whose work is only done when a process goes on, side   *)
(* by side: a behaviour is one of one component, chosen at the start; the other   *)
(* rests.                                                                        *)
EXTENDS MCSyncClient, LibraryIndex

VARIABLE part  \* the component that moves
progressVars == <<part, cvars, indexVars>>

\* Component p moves, and nothing else.
Only(p, Step) ==
    /\ part = p /\ Step /\ UNCHANGED part
    /\ p # "client" => UNCHANGED cvars
    /\ p # "library" => UNCHANGED indexVars

ProgressInit ==
    /\ CInit /\ IndexInit
    /\ part \in {"client", "library"}
    /\ part # "library" => records = NoFiles

ProgressNext ==
    \/ Only("client", CNext)
    \/ Only("library", IndexNext)

\* A replica's passes are repeated by the desktop's loop, and a pass that runs goes on;
\* the library's worker wakes up every few seconds and finishes what it has begun.
ProgressSpec ==
    /\ ProgressInit /\ [][ProgressNext]_progressVars
    /\ \A d \in Client : WF_progressVars(Only("client", Discover(d) \/ PassStep(d)))
    /\ WF_progressVars(Only("library", Tick))
    /\ WF_progressVars(Only("library", Build(Worker)))

\* EveryHeadArrives, EverySaveIsPublished and IndexIsRepaired, of the behaviours of their
\* component.
HeadsArrive == part = "client" => EveryHeadArrives
SavesArePublished == part = "client" => EverySaveIsPublished
StaleIndexIsRepaired == part = "library" => IndexIsRepaired
===============================================================================
