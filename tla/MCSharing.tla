------------------------------ MODULE MCSharing -------------------------------
(* Instances of components that have to come to agree in the end, side by side:  *)
(* a behaviour is one of one component, chosen at the start; the others rest.    *)
EXTENDS MetadataReplica, ServerProjects, LibraryRefresh

VARIABLE part  \* the component that moves
sharingVars == <<part, metaVars, projVars, refreshVars>>

\* Component p moves, and nothing else.
Only(p, A) ==
    /\ part = p /\ A /\ UNCHANGED part
    /\ p # "metadata" => UNCHANGED metaVars
    /\ p # "projects" => UNCHANGED projVars
    /\ p # "library" => UNCHANGED refreshVars

SharingInit ==
    /\ MetaInit /\ ProjInit /\ RefreshInit
    /\ part \in {"metadata", "projects", "library"}
    /\ part # "library" => folder.was = <<CHOOSE b \in Bytes : TRUE>>

SharingNext ==
    \/ Only("metadata", MetaNext)
    \/ Only("projects", ProjNext)
    \/ Only("library", RefreshNext)

\* Passes are repeated by the manager's loop; a desktop repeats its bind; a server
\* that is up finishes the handler it has begun; the desktop's background worker polls
\* its folders, and an import that runs goes on.
SharingFairness ==
    /\ \A r \in Replica : WF_sharingVars(Only("metadata", Pass(r)))
    /\ \A d \in Desktop : WF_sharingVars(Only("projects", Bind(d)))
    /\ WF_sharingVars(Only("projects", CreateProject))
    /\ WF_sharingVars(Only("library", Poll))
    /\ WF_sharingVars(Only("library", Import))

SharingSpec == SharingInit /\ [][SharingNext]_sharingVars
LiveSharingSpec == SharingSpec /\ SharingFairness

\* FolderIsImported, of the behaviours of that component.
WatchedFolderIsImported == part = "library" => FolderIsImported
===============================================================================
