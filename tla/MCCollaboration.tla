---------------------------- MODULE MCCollaboration ---------------------------
(* Instances of the components that exchange entries, results and files with     *)
(* other people and programs, side by side: a behaviour is one of one component, *)
(* chosen at the start; the others rest.                                         *)
EXTENDS Bindings, RoomBook, RoomBoards, Handoffs, LibraryUploads,
        LibraryRefresh, GraphViews, MCMigration, Backups, TLC

CONSTANTS d1, d2, g1, g2, r1, r2, u1, u2, w1, w2, t1, t2, v1, v2, s1, s2, x1, x2, e1, e2

VARIABLE part  \* the component that moves
collaborationVars ==
    <<part, bookVars, roomVars, boardVars, handoffVars, uploadVars, refreshVars, graphVars,
      migrationVars, backupVars>>

\* Component p moves, and nothing else.
Only(p, A) ==
    /\ part = p /\ A /\ UNCHANGED part
    /\ p # "bindings" => UNCHANGED bookVars
    /\ p # "rooms" => UNCHANGED roomVars
    /\ p # "boards" => UNCHANGED boardVars
    /\ p # "handoffs" => UNCHANGED handoffVars
    /\ p # "uploads" => UNCHANGED uploadVars
    /\ p # "refreshes" => UNCHANGED refreshVars
    /\ p # "views" => UNCHANGED graphVars
    /\ p # "imports" => UNCHANGED migrationVars
    /\ p # "backups" => UNCHANGED backupVars

CollaborationInit ==
    /\ BookInit /\ RoomInit /\ BoardInit /\ HandoffInit /\ UploadsInit /\ RefreshInit
    /\ GraphInit /\ MigrationInit /\ BackupsInit
    /\ part \in {"bindings", "rooms", "boards", "handoffs", "uploads", "refreshes",
                "views", "imports", "backups"}
    /\ part # "refreshes" => folder.was = <<CHOOSE b \in Bytes : TRUE>>

CollaborationNext ==
    \/ Only("bindings", BookNext)
    \/ Only("rooms", RoomNext)
    \/ Only("boards", BoardNext)
    \/ Only("handoffs", HandoffNext)
    \/ Only("uploads", UploadsNext)
    \/ Only("refreshes", RefreshNext)
    \/ Only("views", GraphNext)
    \/ Only("imports", MigrationNext)
    \/ Only("backups", BackupsNext)

\* What comes in twos is told apart by its name only.  As a behaviour is of one
\* component, the pairs of all components may be swapped at once, two of each.
First ==
    d1 :> d2 @@ d2 :> d1 @@ g1 :> g2 @@ g2 :> g1 @@ w1 :> w2 @@ w2 :> w1
    @@ t1 :> t2 @@ t2 :> t1 @@ v1 :> v2 @@ v2 :> v1 @@ x1 :> x2 @@ x2 :> x1
    @@ e1 :> e2 @@ e2 :> e1
Second == r1 :> r2 @@ r2 :> r1 @@ u1 :> u2 @@ u2 :> u1 @@ s1 :> s2 @@ s2 :> s1
Unchanged(f) == \A v \in DOMAIN f : f[v] = v
Swaps ==
    {[v \in DOMAIN First |-> IF Unchanged(f) THEN v ELSE First[v]]
     @@ [v \in DOMAIN Second |-> IF Unchanged(g) THEN v ELSE Second[v]] :
        f \in Permutations({x1, x2}), g \in Permutations({u1, u2})}

CollaborationSpec == CollaborationInit /\ [][CollaborationNext]_collaborationVars
===============================================================================
