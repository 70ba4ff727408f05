----------------------------- MODULE ColdBackup -----------------------------
(***************************************************************************)
(* The server's data directory (server_sync/backup, cli, app.lifespan):    *)
(* the server, the provisioning of accounts and a cold backup exclude each *)
(* other by an advisory lock that a dying process releases; a snapshot is  *)
(* restored into a new directory only.                                     *)
(***************************************************************************)
EXTENDS Naturals, FiniteSets, Functions

CONSTANTS Piece,     \* files of the directory: accounts and users' stores
          Accounts,  \* the piece that provisioning writes
          Process,   \* servers, provisioning and backup commands
          Tar, Place, \* names of snapshots and of restored directories
          NoProcess, MaxChanges

ASSUME ColdBackupAssumption == Accounts \in Piece /\ NoProcess \notin Process

VARIABLES holder,   \* who holds .server.lock
          runs,     \* what every process is doing
          piece,    \* the directory: version of every piece
          tars,     \* published snapshots
          places,   \* restored directories
          changed

coldVars == <<holder, runs, piece, tars, places, changed>>

Blank == [q \in {} |-> 0]
Off == [as |-> "off", tar |-> NoProcess, found |-> Blank, body |-> Blank, into |-> NoProcess]
AddKey(f, p, v) == [q \in DOMAIN f \cup {p} |-> IF q = p THEN v ELSE f[q]]

(* A second server, a backup of a running one: refused, nobody waits. *)
MayLock == holder = NoProcess

Start(p) ==
    /\ runs[p].as = "off" /\ holder = NoProcess
    /\ holder' = p /\ runs' = [runs EXCEPT ![p] = [Off EXCEPT !.as = "serving"]]
    /\ UNCHANGED <<piece, tars, places, changed>>

Change(q) ==
    /\ changed < MaxChanges /\ changed' = changed + 1
    /\ piece' = [piece EXCEPT ![q] = @ + 1]

(* A request of the running server; app refuses the API without the lock. *)
Serve(p, q) ==
    /\ runs[p].as = "serving"
    /\ Change(q) /\ UNCHANGED <<holder, runs, tars, places>>

Provision(p) ==
    /\ runs[p].as = "off" /\ holder = NoProcess
    /\ Change(Accounts) /\ UNCHANGED <<holder, runs, tars, places>>

(* The name is looked at first, then the lock is taken. *)
AskSnapshot(p, t) ==
    /\ runs[p].as = "off" /\ t \notin DOMAIN tars
    /\ runs' = [runs EXCEPT ![p] = [Off EXCEPT !.as = "asking", !.tar = t]]
    /\ UNCHANGED <<holder, piece, tars, places, changed>>

BeginSnapshot(p) ==
    /\ runs[p].as = "asking" /\ MayLock
    /\ holder' = IF holder = NoProcess THEN p ELSE holder
    /\ runs' = [runs EXCEPT ![p].as = "listing"]
    /\ UNCHANGED <<piece, tars, places, changed>>

Inventory(p, q) ==
    /\ runs[p].as = "listing" /\ q \in Piece \ DOMAIN runs[p].found
    /\ runs' = [runs EXCEPT ![p].found = AddKey(@, q, piece[q]),
         ![p].as = IF Piece \subseteq DOMAIN runs[p].found \cup {q} THEN "archiving" ELSE "listing"]
    /\ UNCHANGED <<holder, piece, tars, places, changed>>

Archiving(p, q) ==
    /\ runs[p].as = "archiving" /\ q \in Piece \ DOMAIN runs[p].body
    /\ piece[q] = runs[p].found[q]
    /\ runs' = [runs EXCEPT ![p].body = AddKey(@, q, piece[q])]
    /\ UNCHANGED <<holder, piece, tars, places, changed>>

(* os.link refuses a name that was taken meanwhile. *)
NewTar(t) == t \notin DOMAIN tars

PublishTar(p) ==
    /\ runs[p].as = "archiving" /\ DOMAIN runs[p].body = Piece /\ NewTar(runs[p].tar)
    /\ tars' = AddKey(tars, runs[p].tar, runs[p].body)
    /\ holder' = IF holder = p THEN NoProcess ELSE holder
    /\ runs' = [runs EXCEPT ![p] = Off]
    /\ UNCHANGED <<piece, places, changed>>

(* A restoration unpacks into a stage of its own, reserves the name, renames. *)
BeginUnpack(p, t, d) ==
    /\ runs[p].as = "off" /\ t \in DOMAIN tars /\ d \notin DOMAIN places
    /\ runs' = [runs EXCEPT ![p] = [Off EXCEPT !.as = "unpacking", !.tar = t, !.into = d]]
    /\ UNCHANGED <<holder, piece, tars, places, changed>>

Unpack(p, q) ==
    /\ runs[p].as = "unpacking" /\ q \in Piece \ DOMAIN runs[p].body
    /\ runs' = [runs EXCEPT ![p].body = AddKey(@, q, tars[runs[p].tar][q])]
    /\ UNCHANGED <<holder, piece, tars, places, changed>>

(* Faulty variant: what the archive holds is published as it comes. *)
UnpackedSome(p) == runs[p].body # Blank

Unpacked(p) == DOMAIN runs[p].body = Piece

ReservePlace(p) ==
    /\ runs[p].as = "unpacking" /\ Unpacked(p)
    /\ runs[p].into \notin DOMAIN places
    /\ places' = AddKey(places, runs[p].into, Blank)
    /\ runs' = [runs EXCEPT ![p].as = "placing"]
    /\ UNCHANGED <<holder, piece, tars, changed>>

RenamePlace(p) ==
    /\ runs[p].as = "placing"
    /\ places' = [places EXCEPT ![runs[p].into] = runs[p].body]
    /\ runs' = [runs EXCEPT ![p] = Off]
    /\ UNCHANGED <<holder, piece, tars, changed>>

(* A process stops, fails or dies: its lock is free, its stage is nobody's. *)
End(p) ==
    /\ runs[p].as # "off"
    /\ holder' = IF holder = p THEN NoProcess ELSE holder
    /\ runs' = [runs EXCEPT ![p] = Off]
    /\ UNCHANGED <<piece, tars, places, changed>>

ColdInit ==
    /\ holder = NoProcess /\ runs = [p \in Process |-> Off]
    /\ piece = [q \in Piece |-> 0]
    /\ tars = Blank /\ places = Blank /\ changed = 0

ColdNext ==
    \E p \in Process :
        \/ Start(p) \/ Provision(p) \/ BeginSnapshot(p) \/ PublishTar(p)
        \/ ReservePlace(p) \/ RenamePlace(p) \/ End(p)
        \/ \E q \in Piece : Serve(p, q) \/ Inventory(p, q) \/ Archiving(p, q) \/ Unpack(p, q)
        \/ \E t \in Tar : AskSnapshot(p, t)
        \/ \E t \in Tar, d \in Place : BeginUnpack(p, t, d)

(***************************************************************************)
(* Properties.                                                             *)
(***************************************************************************)
(* The state has its type, and whoever serves or reads holds the lock, so   *)
(* that at most one process serves, provisions or takes a snapshot.         *)
ColdTypeOK ==
    /\ holder \in Process \cup {NoProcess} /\ piece \in [Piece -> Nat]
    /\ \A p \in Process : runs[p].as \in {"serving", "listing", "archiving"} => holder = p

(* A restored directory is empty, when its restorer died between reserving  *)
(* and renaming, or one whole snapshot: never a mixture or a part of one.   *)
PlacesAreWhole ==
    \A d \in DOMAIN places : places[d] = Blank \/ \E t \in DOMAIN tars : places[d] = tars[t]

ColdSpec == ColdInit /\ [][ColdNext]_coldVars

\* Whenever servers start, stop and die: a provisioned place holds one moment of a server
\* that did not run (snapshot, restore).
ColdInv ==
    /\ ColdTypeOK
    /\ PlacesAreWhole
=============================================================================
