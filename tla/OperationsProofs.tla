--------------------------- MODULE OperationsProofs ---------------------------
(***************************************************************************)
(* Theorems about components whose operations race, are refused, die or are *)
(* repeated: Trash, ColdBackup, ServerProjects and MetadataReplica, for any *)
(* number of objects, operations, processes, files, names, desktops,        *)
(* projects and edits.                                                      *)
(***************************************************************************)
EXTENDS Trash, ColdBackup, ServerProjects, MetadataReplica,
        SequenceTheorems, FiniteSetTheorems, TLAPS

(***************************************************************************)
(* ColdBackup: the inductive invariant                                      *)
(***************************************************************************)

\* Some of the pieces, each in a version.
Partial == UNION {[S -> Nat] : S \in SUBSET Piece}

ColdRun ==
    [as : {"off", "serving", "asking", "listing", "archiving", "unpacking", "placing"},
     tar : Tar \cup {NoProcess}, found : Partial, body : Partial, into : Place \cup {NoProcess}]

\* What a process has read under the lock is what the directory still holds; what it
\* has unpacked is what the archive holds.
RunFits(p) ==
    /\ runs[p].as \in {"serving", "listing", "archiving"} => holder = p
    /\ runs[p].as \in {"listing", "archiving"} =>
         /\ \A q \in DOMAIN runs[p].found : runs[p].found[q] = piece[q]
         /\ \A q \in DOMAIN runs[p].body : runs[p].body[q] = piece[q]
         /\ runs[p].tar \in Tar
    /\ runs[p].as = "asking" => /\ runs[p].tar \in Tar
                               /\ runs[p].found = Blank /\ runs[p].body = Blank
    /\ runs[p].as \in {"unpacking", "placing"} =>
         /\ runs[p].tar \in DOMAIN tars
         /\ \A q \in DOMAIN runs[p].body : runs[p].body[q] = tars[runs[p].tar][q]
    /\ runs[p].as = "placing" => DOMAIN runs[p].body = Piece

ColdIInv ==
    /\ holder \in Process \cup {NoProcess} /\ piece \in [Piece -> Nat]
    /\ runs \in [Process -> ColdRun]
    /\ \A t \in DOMAIN tars : tars[t] \in [Piece -> Nat]
    /\ PlacesAreWhole
    /\ \A p \in Process : RunFits(p)

\* A published snapshot is the directory as it is at that moment.
SnapshotIsOneMoment ==
    [][\A t \in DOMAIN tars' \ DOMAIN tars : tars'[t] = piece]_coldVars

(***************************************************************************)
(* Trash: the inductive invariant                                           *)
(***************************************************************************)

Entry == [state : {"trashed", "restored", "purged"}, revision : Nat, content : Nat, full : BOOLEAN]

PurgeBinding ==
    [references : SUBSET Object, copies : (SUBSET Identity) \X (SUBSET Identity),
     open : SUBSET Identity, history : Seq(Entry)]

TrashRequest ==
    [act : {"edit", "move", "restore", "purge"}, object : Object, generation : Nat, revision : Nat,
     binding : PurgeBinding \cup {{}}]

Approval ==
    [object : Object, generation : Nat, revision : Nat, binding : PurgeBinding, content : Nat]

TrashShapes ==
    /\ payload \in [Object -> [revision : Nat, content : 0 .. versions]] /\ versions \in Nat
    /\ links \subseteq Object \X Object
    /\ deletions \in [Object -> Seq(Entry)]
    /\ results \in [Identity -> [request : TrashRequest \cup {NoRequest}, carries : SUBSET Object]]
    /\ commands \in [Identity -> [state : {"none", "pending", "complete", "failed"},
                                  request : TrashRequest \cup {NoRequest}, carries : SUBSET Object]]
    /\ approvals \subseteq Approval

\* A deletion knows a content that was written; a purged object was deleted.
DeletionsFit ==
    \A o \in Object : /\ \A g \in DOMAIN deletions[o] : deletions[o][g].content <= versions
                      /\ Generation(o) <= MaxDeletions
                      /\ Exists(o) \/ (Generation(o) > 0 /\ Latest(o).state = "purged")

\* What a command will copy exists until the command is complete: it blocks the purge.
OpenCommandsFit ==
    \A op \in Identity :
        (/\ commands[op].state = "pending" /\ results[op] # NoReceipt
         /\ results[op].request = commands[op].request /\ commands[op].request.act # "purge")
        => commands[op].request.object \in Object /\ Exists(commands[op].request.object)

\* An approval shows a deletion in the trash; while nothing has happened to it and the
\* object has the content of the deletion, it has the content that was shown.
ApprovalsFit ==
    \A a \in approvals :
        LET history == a.binding.history IN
        /\ Len(history) > 0 /\ history[Len(history)].state = "trashed"
        /\ Len(history) <= Generation(a.object)
        /\ history = deletions[a.object] /\ payload[a.object].content = Latest(a.object).content
             => a.content = payload[a.object].content

TrashIInv ==
    /\ TrashShapes /\ DeletionsFit /\ OpenCommandsFit /\ ApprovalsFit
    /\ NothingRemainsOfPurged /\ NoDanglingLinks

(***************************************************************************)
(* ColdBackup: proofs                                                       *)
(***************************************************************************)

LEMMA PartialGrows ==
    ASSUME NEW f \in Partial, NEW p \in Piece, NEW v \in Nat
    PROVE  AddKey(f, p, v) \in Partial
<1>1. PICK S \in SUBSET Piece : f \in [S -> Nat]
  BY DEF Partial
<1>2. AddKey(f, p, v) \in [S \cup {p} -> Nat]
  BY <1>1 DEF AddKey
<1> QED BY <1>2 DEF Partial

LEMMA PartialIs ==
    /\ Blank \in Partial /\ DOMAIN Blank = {}
    /\ \A f \in Partial : DOMAIN f \subseteq Piece /\ \A q \in DOMAIN f : f[q] \in Nat
    /\ \A f \in Partial : DOMAIN f = Piece => f \in [Piece -> Nat]
<1>1. Blank \in [{} -> Nat]
  BY DEF Blank
<1> QED BY <1>1 DEF Partial, Blank

LEMMA OffIs ==
    /\ Off \in ColdRun /\ Off.as = "off" /\ Off.found = Blank /\ Off.body = Blank
BY PartialIs DEF Off, ColdRun

\* The other processes' runs rest; what p does is `new'.
LEMMA RunMoves ==
    ASSUME ColdIInv, NEW p \in Process, NEW new \in ColdRun, runs' = [runs EXCEPT ![p] = new]
    PROVE  runs' \in [Process -> ColdRun] /\ runs'[p] = new /\ \A r \in Process : r # p => runs'[r] = runs[r]
BY DEF ColdIInv

\* Nothing but one run and the holder of the lock changes.
LEMMA RunFitsOne ==
    ASSUME ColdIInv, NEW p \in Process, NEW new \in ColdRun, runs' = [runs EXCEPT ![p] = new],
           UNCHANGED <<piece, tars, places>>, RunFits(p)',
           holder' \in Process \cup {NoProcess},
           \A r \in Process : r # p => (holder = r => holder' = r)
    PROVE  ColdIInv'
<1>1. /\ runs' \in [Process -> ColdRun] /\ runs'[p] = new
      /\ \A r \in Process : r # p => runs'[r] = runs[r]
  BY RunMoves
<1>2. ASSUME NEW r \in Process PROVE RunFits(r)'
  BY <1>1 DEF ColdIInv, RunFits
<1> QED BY <1>1, <1>2 DEF ColdIInv, PlacesAreWhole

LEMMA ColdSteps == ColdIInv /\ [ColdNext]_coldVars => ColdIInv' /\ [\A t \in DOMAIN tars' \ DOMAIN tars : tars'[t] = piece]_coldVars
<1> SUFFICES ASSUME ColdIInv, [ColdNext]_coldVars
             PROVE  ColdIInv' /\ (\A t \in DOMAIN tars' \ DOMAIN tars : tars'[t] = piece)
  OBVIOUS
<1> USE ColdBackupAssumption
<1>1. ASSUME NEW p \in Process PROVE runs[p] \in ColdRun /\ RunFits(p)
  BY DEF ColdIInv
<1>2. ASSUME NEW p \in Process, Start(p) PROVE ColdIInv' /\ tars' = tars
  <2> DEFINE new == [Off EXCEPT !.as = "serving"]
  <2>1. holder' = p /\ holder = NoProcess /\ runs' = [runs EXCEPT ![p] = new] /\ UNCHANGED <<piece, tars, places>>
    BY <1>2 DEF Start
  <2>2. new \in ColdRun /\ new.as = "serving"
    BY OffIs DEF ColdRun
  <2> HIDE DEF new
  <2>3. RunFits(p)'
    BY <2>1, <2>2, RunMoves DEF RunFits
  <2> QED BY <2>1, <2>2, <2>3, RunFitsOne
<1>3. ASSUME NEW p \in Process, NEW t \in Tar, AskSnapshot(p, t) PROVE ColdIInv' /\ tars' = tars
  <2> DEFINE new == [Off EXCEPT !.as = "asking", !.tar = t]
  <2>1. runs' = [runs EXCEPT ![p] = new] /\ UNCHANGED <<holder, piece, tars, places>>
    BY <1>3 DEF AskSnapshot
  <2>2. new \in ColdRun /\ new.as = "asking" /\ new.tar = t /\ new.found = Blank /\ new.body = Blank
    BY OffIs DEF ColdRun
  <2> HIDE DEF new
  <2>3. RunFits(p)'
    BY <2>1, <2>2, RunMoves DEF RunFits
  <2>4. holder \in Process \cup {NoProcess}
    BY DEF ColdIInv
  <2> QED BY <2>1, <2>2, <2>3, <2>4, RunFitsOne
<1>4. ASSUME NEW p \in Process, BeginSnapshot(p) PROVE ColdIInv' /\ tars' = tars
  <2> DEFINE new == [runs[p] EXCEPT !.as = "listing"]
  <2>1. /\ runs[p].as = "asking" /\ holder = NoProcess /\ holder' = p
        /\ runs' = [runs EXCEPT ![p] = new] /\ UNCHANGED <<piece, tars, places>>
    BY <1>4 DEF BeginSnapshot, MayLock
  <2>2. new \in ColdRun /\ new.as = "listing" /\ new.tar = runs[p].tar /\ new.found = runs[p].found /\ new.body = runs[p].body
    BY <1>1 DEF ColdRun
  <2> HIDE DEF new
  <2>3. RunFits(p)'
    BY <1>1, <2>1, <2>2, RunMoves, PartialIs DEF RunFits
  <2> QED BY <2>1, <2>2, <2>3, RunFitsOne
<1>5. ASSUME NEW p \in Process, End(p) PROVE ColdIInv' /\ tars' = tars
  <2>1. /\ holder' = IF holder = p THEN NoProcess ELSE holder
        /\ runs' = [runs EXCEPT ![p] = Off] /\ UNCHANGED <<piece, tars, places>>
    BY <1>5 DEF End
  <2>2. RunFits(p)'
    BY <2>1, OffIs, RunMoves DEF RunFits
  <2>3. holder' \in Process \cup {NoProcess} /\ \A r \in Process : r # p => (holder = r => holder' = r)
    BY <2>1 DEF ColdIInv
  <2> QED BY <2>1, <2>2, <2>3, OffIs, RunFitsOne
<1>6. ASSUME NEW p \in Process, NEW q \in Piece, Inventory(p, q) PROVE ColdIInv' /\ tars' = tars
  <2> DEFINE place == IF Piece \subseteq DOMAIN runs[p].found \cup {q} THEN "archiving" ELSE "listing"
             found == AddKey(runs[p].found, q, piece[q])
             new == [runs[p] EXCEPT !.found = found, !.as = place]
  <2>1. /\ runs[p].as = "listing" /\ runs' = [runs EXCEPT ![p] = new]
        /\ UNCHANGED <<holder, piece, tars, places>>
    BY <1>6 DEF Inventory, ColdIInv
  <2>2. place \in {"archiving", "listing"}
    OBVIOUS
  <2> HIDE DEF place
  <2>3. found \in Partial /\ \A x \in DOMAIN found : found[x] = piece[x]
    <3>1. runs[p].found \in Partial /\ piece[q] \in Nat
      BY <1>1, <2>1 DEF ColdRun, ColdIInv
    <3>2. found \in Partial
      BY <3>1, PartialGrows
    <3>3. /\ DOMAIN found = DOMAIN runs[p].found \cup {q} /\ found[q] = piece[q]
          /\ \A x \in DOMAIN runs[p].found : x # q => found[x] = runs[p].found[x]
      BY DEF AddKey
    <3> HIDE DEF found
    <3> QED BY <1>1, <2>1, <3>2, <3>3 DEF RunFits
  <2> HIDE DEF found
  <2>4. new \in ColdRun /\ new.as = place /\ new.tar = runs[p].tar /\ new.found = found /\ new.body = runs[p].body
    BY <1>1, <2>2, <2>3 DEF ColdRun
  <2> HIDE DEF new
  <2>5. RunFits(p)'
    BY <1>1, <2>1, <2>2, <2>3, <2>4, RunMoves DEF RunFits
  <2>6. holder \in Process \cup {NoProcess}
    BY DEF ColdIInv
  <2> QED BY <2>1, <2>4, <2>5, <2>6, RunFitsOne
<1>7. ASSUME NEW p \in Process, NEW q \in Piece, Archiving(p, q) PROVE ColdIInv' /\ tars' = tars
  <2> DEFINE body == AddKey(runs[p].body, q, piece[q])
             new == [runs[p] EXCEPT !.body = body]
  <2>1. /\ runs[p].as = "archiving" /\ runs' = [runs EXCEPT ![p] = new]
        /\ UNCHANGED <<holder, piece, tars, places>>
    BY <1>7 DEF Archiving, ColdIInv
  <2>3. body \in Partial /\ \A x \in DOMAIN body : body[x] = piece[x]
    <3>1. runs[p].body \in Partial /\ piece[q] \in Nat
      BY <1>1, <2>1 DEF ColdRun, ColdIInv
    <3>2. body \in Partial
      BY <3>1, PartialGrows
    <3>3. /\ DOMAIN body = DOMAIN runs[p].body \cup {q} /\ body[q] = piece[q]
          /\ \A x \in DOMAIN runs[p].body : x # q => body[x] = runs[p].body[x]
      BY DEF AddKey
    <3> HIDE DEF body
    <3> QED BY <1>1, <2>1, <3>2, <3>3 DEF RunFits
  <2> HIDE DEF body
  <2>4. new \in ColdRun /\ new.as = "archiving" /\ new.tar = runs[p].tar /\ new.body = body /\ new.found = runs[p].found
    BY <1>1, <2>1, <2>3 DEF ColdRun
  <2> HIDE DEF new
  <2>5. RunFits(p)'
    BY <1>1, <2>1, <2>3, <2>4, RunMoves DEF RunFits
  <2>6. holder \in Process \cup {NoProcess}
    BY DEF ColdIInv
  <2> QED BY <2>1, <2>4, <2>5, <2>6, RunFitsOne
<1>8. ASSUME NEW p \in Process, NEW t \in Tar, NEW d \in Place, BeginUnpack(p, t, d)
      PROVE  ColdIInv' /\ tars' = tars
  <2> DEFINE new == [Off EXCEPT !.as = "unpacking", !.tar = t, !.into = d]
  <2>1. t \in DOMAIN tars /\ runs' = [runs EXCEPT ![p] = new] /\ UNCHANGED <<holder, piece, tars, places>>
    BY <1>8 DEF BeginUnpack
  <2>2. new \in ColdRun /\ new.as = "unpacking" /\ new.tar = t /\ new.body = Blank
    BY OffIs DEF ColdRun
  <2> HIDE DEF new
  <2>3. RunFits(p)'
    BY <2>1, <2>2, PartialIs, RunMoves DEF RunFits
  <2>4. holder \in Process \cup {NoProcess}
    BY DEF ColdIInv
  <2> QED BY <2>1, <2>2, <2>3, <2>4, RunFitsOne
<1>9. ASSUME NEW p \in Process, NEW q \in Piece, Unpack(p, q) PROVE ColdIInv' /\ tars' = tars
  <2> DEFINE body == AddKey(runs[p].body, q, tars[runs[p].tar][q])
             new == [runs[p] EXCEPT !.body = body]
  <2>1. /\ runs[p].as = "unpacking" /\ runs' = [runs EXCEPT ![p] = new]
        /\ UNCHANGED <<holder, piece, tars, places>>
    BY <1>9 DEF Unpack, ColdIInv
  <2>2. tars[runs[p].tar] \in [Piece -> Nat]
    BY <1>1, <2>1 DEF RunFits, ColdIInv
  <2>3. body \in Partial /\ \A x \in DOMAIN body : body[x] = tars[runs[p].tar][x]
    <3>1. runs[p].body \in Partial /\ tars[runs[p].tar][q] \in Nat
      BY <1>1, <2>1, <2>2 DEF ColdRun, ColdIInv
    <3>2. body \in Partial
      BY <3>1, PartialGrows
    <3>3. /\ DOMAIN body = DOMAIN runs[p].body \cup {q} /\ body[q] = tars[runs[p].tar][q]
          /\ \A x \in DOMAIN runs[p].body : x # q => body[x] = runs[p].body[x]
      BY DEF AddKey
    <3> HIDE DEF body
    <3> QED BY <1>1, <2>1, <3>2, <3>3 DEF RunFits
  <2> HIDE DEF body
  <2>4. new \in ColdRun /\ new.as = "unpacking" /\ new.tar = runs[p].tar /\ new.body = body
    BY <1>1, <2>1, <2>3 DEF ColdRun
  <2> HIDE DEF new
  <2>5. RunFits(p)'
    BY <1>1, <2>1, <2>3, <2>4, RunMoves DEF RunFits
  <2>6. holder \in Process \cup {NoProcess}
    BY DEF ColdIInv
  <2> QED BY <2>1, <2>4, <2>5, <2>6, RunFitsOne
<1>10. ASSUME NEW p \in Process, ReservePlace(p) PROVE ColdIInv' /\ tars' = tars
  <2> DEFINE new == [runs[p] EXCEPT !.as = "placing"]
  <2>1. /\ runs[p].as = "unpacking" /\ DOMAIN runs[p].body = Piece /\ runs[p].into \notin DOMAIN places
        /\ runs' = [runs EXCEPT ![p] = new] /\ places' = AddKey(places, runs[p].into, Blank)
        /\ UNCHANGED <<holder, piece, tars>>
    BY <1>10 DEF ReservePlace, Unpacked
  <2>2. new \in ColdRun /\ new.as = "placing" /\ new.tar = runs[p].tar /\ new.body = runs[p].body
    BY <1>1 DEF ColdRun
  <2> HIDE DEF new
  <2>3. /\ runs' \in [Process -> ColdRun] /\ runs'[p] = new /\ \A r \in Process : r # p => runs'[r] = runs[r]
    BY <2>1, <2>2, RunMoves
  <2>4. ASSUME NEW r \in Process PROVE RunFits(r)'
    BY <1>1, <2>1, <2>2, <2>3 DEF RunFits
  <2>5. PlacesAreWhole'
    <3>1. /\ DOMAIN places' = DOMAIN places \cup {runs[p].into} /\ places'[runs[p].into] = Blank
          /\ \A d \in DOMAIN places : d # runs[p].into => places'[d] = places[d]
      BY <2>1 DEF AddKey
    <3> QED BY <2>1, <3>1 DEF PlacesAreWhole, ColdIInv
  <2> QED BY <2>1, <2>3, <2>4, <2>5 DEF ColdIInv
<1>11. ASSUME NEW p \in Process, RenamePlace(p) PROVE ColdIInv' /\ tars' = tars
  <2>1. /\ runs[p].as = "placing" /\ places' = [places EXCEPT ![runs[p].into] = runs[p].body]
        /\ runs' = [runs EXCEPT ![p] = Off] /\ UNCHANGED <<holder, piece, tars>>
    BY <1>11 DEF RenamePlace
  <2>2. /\ runs' \in [Process -> ColdRun] /\ runs'[p] = Off /\ \A r \in Process : r # p => runs'[r] = runs[r]
    BY <2>1, RunMoves, OffIs
  <2>3. runs[p].tar \in DOMAIN tars /\ runs[p].body = tars[runs[p].tar]
    <3>1. runs[p].tar \in DOMAIN tars /\ tars[runs[p].tar] \in [Piece -> Nat]
      BY <1>1, <2>1 DEF RunFits, ColdIInv
    <3>2. runs[p].body \in [Piece -> Nat]
      BY <1>1, <2>1, PartialIs DEF RunFits, ColdRun
    <3>3. \A q \in Piece : runs[p].body[q] = tars[runs[p].tar][q]
      BY <1>1, <2>1 DEF RunFits
    <3> QED BY <3>1, <3>2, <3>3
  <2>4. ASSUME NEW r \in Process PROVE RunFits(r)'
    BY <1>1, <2>1, <2>2, OffIs DEF RunFits
  <2>5. PlacesAreWhole'
    BY <2>1, <2>3 DEF PlacesAreWhole, ColdIInv
  <2> QED BY <2>1, <2>2, <2>4, <2>5 DEF ColdIInv
<1>12. ASSUME NEW p \in Process, PublishTar(p)
       PROVE  ColdIInv' /\ (\A t \in DOMAIN tars' \ DOMAIN tars : tars'[t] = piece)
  <2>1. /\ runs[p].as = "archiving" /\ DOMAIN runs[p].body = Piece /\ runs[p].tar \notin DOMAIN tars
        /\ tars' = AddKey(tars, runs[p].tar, runs[p].body)
        /\ holder' = IF holder = p THEN NoProcess ELSE holder
        /\ runs' = [runs EXCEPT ![p] = Off] /\ UNCHANGED <<piece, places>>
    BY <1>12 DEF PublishTar, NewTar
  <2>2. /\ runs' \in [Process -> ColdRun] /\ runs'[p] = Off /\ \A r \in Process : r # p => runs'[r] = runs[r]
    BY <2>1, RunMoves, OffIs
  <2>3. runs[p].body = piece
    <3>1. runs[p].body \in [Piece -> Nat] /\ piece \in [Piece -> Nat]
      BY <1>1, <2>1, PartialIs DEF ColdIInv, ColdRun
    <3>2. \A q \in Piece : runs[p].body[q] = piece[q]
      BY <1>1, <2>1 DEF RunFits
    <3> QED BY <3>1, <3>2
  <2>4. /\ DOMAIN tars' = DOMAIN tars \cup {runs[p].tar} /\ tars'[runs[p].tar] = piece
        /\ \A t \in DOMAIN tars : tars'[t] = tars[t]
    <3>1. tars' = AddKey(tars, runs[p].tar, piece) /\ runs[p].tar \notin DOMAIN tars
      BY <2>1, <2>3
    <3>2. \A t \in DOMAIN tars : t # runs[p].tar
      BY <3>1
    <3> QED BY <3>1, <3>2 DEF AddKey
  <2>5. ASSUME NEW r \in Process PROVE RunFits(r)'
    BY <1>1, <2>1, <2>2, <2>4, OffIs DEF RunFits
  <2>6. PlacesAreWhole'
    BY <2>1, <2>4 DEF PlacesAreWhole, ColdIInv
  <2>7. \A t \in DOMAIN tars' : tars'[t] \in [Piece -> Nat]
    BY <2>4 DEF ColdIInv
  <2>8. holder' \in Process \cup {NoProcess}
    BY <2>1 DEF ColdIInv
  <2> QED BY <2>1, <2>2, <2>4, <2>5, <2>6, <2>7, <2>8 DEF ColdIInv
\* Nobody reads while the server or provisioning writes.
<1>13. ASSUME NEW p \in Process, NEW q \in Piece,
              Change(q), UNCHANGED <<holder, runs, tars, places>>,
              holder = NoProcess \/ (holder = p /\ runs[p].as = "serving")
       PROVE  ColdIInv' /\ tars' = tars
  <2>1. piece' \in [Piece -> Nat]
    BY <1>13 DEF Change, ColdIInv
  <2>2. ASSUME NEW r \in Process PROVE RunFits(r)'
    <3>1. runs[r].as \notin {"listing", "archiving"}
      BY <1>1, <1>13 DEF RunFits
    <3> QED BY <1>1, <1>13, <3>1 DEF RunFits
  <2> QED BY <1>13, <2>1, <2>2 DEF ColdIInv, PlacesAreWhole
<1>14. ASSUME NEW p \in Process, NEW q \in Piece, Serve(p, q) PROVE ColdIInv' /\ tars' = tars
  BY <1>1, <1>13, <1>14 DEF Serve, RunFits
<1>15. ASSUME NEW p \in Process, Provision(p) PROVE ColdIInv' /\ tars' = tars
  BY <1>13, <1>15 DEF Provision
<1>16. CASE UNCHANGED coldVars
  BY <1>16 DEF coldVars, ColdIInv, RunFits, PlacesAreWhole
<1> QED
  BY <1>2, <1>3, <1>4, <1>5, <1>6, <1>7, <1>8, <1>9, <1>10, <1>11, <1>12, <1>14, <1>15, <1>16 DEF ColdNext

LEMMA ColdHolds == ColdSpec => []ColdIInv
<1>1. ColdInit => ColdIInv
  <2> SUFFICES ASSUME ColdInit PROVE ColdIInv
    OBVIOUS
  <2>1. runs \in [Process -> ColdRun] /\ \A p \in Process : runs[p] = Off
    BY OffIs DEF ColdInit
  <2>2. DOMAIN tars = {} /\ DOMAIN places = {}
    BY PartialIs DEF ColdInit
  <2> QED BY <2>1, <2>2, OffIs DEF ColdInit, ColdIInv, RunFits, PlacesAreWhole
<1> QED BY <1>1, ColdSteps, PTL DEF ColdSpec

\* Servers, provisioning and snapshots exclude each other, and a restored directory is
\* one whole snapshot or empty, whenever processes start, fail and die.
THEOREM SnapshotsAreWhole == ColdSpec => []ColdInv
<1>1. ColdIInv => ColdInv
  BY DEF ColdIInv, ColdInv, ColdTypeOK, RunFits
<1> QED BY <1>1, ColdHolds, PTL

\* A snapshot that is published is the data directory as it is at that moment, although
\* its files were listed and read one after the other.
THEOREM SnapshotsAreOneMoment == ColdSpec => SnapshotIsOneMoment
BY ColdHolds, ColdSteps, PTL DEF ColdSpec, SnapshotIsOneMoment

(***************************************************************************)
(* Trash: proofs                                                            *)
(***************************************************************************)

\* A sequence is a function on 1 .. its length, and the other way round.
LEMMA EntrySequences ==
    ASSUME NEW S
    PROVE  /\ \A s \in Seq(S) : Len(s) \in Nat /\ DOMAIN s = 1 .. Len(s) /\ \A i \in 1 .. Len(s) : s[i] \in S
           /\ \A n \in Nat : \A s \in [1 .. n -> S] : s \in Seq(S) /\ Len(s) = n
<1>1. \A s \in Seq(S) : Len(s) \in Nat /\ DOMAIN s = 1 .. Len(s) /\ \A i \in 1 .. Len(s) : s[i] \in S
  BY LenProperties
<1>2. ASSUME NEW n \in Nat, NEW s \in [1 .. n -> S] PROVE s \in Seq(S) /\ Len(s) = n
  <2>1. s \in Seq(S)
    BY SeqDef
  <2>2. Len(s) \in Nat /\ 1 .. Len(s) = 1 .. n
    BY <2>1, LenProperties
  <2> QED
    BY <2>1, <2>2
<1> QED
  BY <1>1, <1>2

\* What the shapes say of one object: its deletions, and its newest one.
LEMMA OneObject ==
    ASSUME TrashShapes, DeletionsFit, NEW o \in Object
    PROVE  /\ Generation(o) \in Nat /\ DOMAIN deletions[o] = 1 .. Generation(o)
           /\ \A g \in 1 .. Generation(o) :
                 deletions[o][g] \in Entry /\ deletions[o][g].content <= versions
           /\ deletions[o] \in Seq(Entry)
           /\ payload[o] \in [revision : Nat, content : 0 .. versions]
<1>1. deletions[o] \in Seq(Entry) /\ payload[o] \in [revision : Nat, content : 0 .. versions]
  BY DEF TrashShapes
<1>2. /\ Generation(o) \in Nat /\ DOMAIN deletions[o] = 1 .. Generation(o)
      /\ \A g \in 1 .. Generation(o) : deletions[o][g] \in Entry
  BY <1>1, EntrySequences DEF Generation
<1> QED
  BY <1>1, <1>2 DEF DeletionsFit

\* A request that is no purge runs: its receipt carries an object that exists, and
\* nothing that is purged appears anywhere.
LEMMA ReceiptTaken ==
    ASSUME TrashIInv, NEW op \in Identity, NEW request \in TrashRequest, request.act # "purge",
           Exists(request.object), MayRun(op, request), TakeReceipt(op, request),
           commands' = commands, links' = links,
           \A x \in Object : Exists(x)' = Exists(x),
           \A x \in Object : ~Exists(x) => deletions'[x] = deletions[x]
    PROVE  /\ results' \in [Identity -> [request : TrashRequest \cup {NoRequest}, carries : SUBSET Object]]
           /\ OpenCommandsFit' /\ NothingRemainsOfPurged' /\ NoDanglingLinks'
<1> DEFINE new == [request |-> request, carries |-> Returned(request)]
<1>1. request.object \in Object
  BY DEF TrashRequest
<1>2. Returned(request) = {request.object}
  BY DEF Returned
<1>3. /\ new \in [request : TrashRequest \cup {NoRequest}, carries : SUBSET Object]
      /\ new.request = request /\ new.carries = {request.object}
  BY <1>1, <1>2
<1>4. results' = [results EXCEPT ![op] = new]
  BY DEF TakeReceipt
<1> HIDE DEF new
<1>5. results \in [Identity -> [request : TrashRequest \cup {NoRequest}, carries : SUBSET Object]]
  BY DEF TrashIInv, TrashShapes
<1>6. /\ results' \in [Identity -> [request : TrashRequest \cup {NoRequest}, carries : SUBSET Object]]
      /\ \A q \in Identity : results'[q] = IF q = op THEN new ELSE results[q]
  BY <1>3, <1>4, <1>5
<1>7. OpenCommandsFit'
  <2> SUFFICES ASSUME NEW q \in Identity, commands[q].state = "pending", results'[q] # NoReceipt,
                      results'[q].request = commands[q].request, commands[q].request.act # "purge"
               PROVE  commands[q].request.object \in Object /\ Exists(commands[q].request.object)'
    BY DEF OpenCommandsFit, NoReceipt
  <2>1. CASE q = op
    <3>1. commands[q].request = request
      BY <2>1, <1>3, <1>6
    <3> QED
      BY <3>1, <1>1
  <2>2. CASE q # op
    <3>1. commands[q].request.object \in Object /\ Exists(commands[q].request.object)
      BY <2>2, <1>6 DEF TrashIInv, OpenCommandsFit
    <3> QED
      BY <3>1
  <2> QED
    BY <2>1, <2>2
<1>8. NothingRemainsOfPurged'
  <2> SUFFICES ASSUME NEW o \in Object, ~Exists(o)'
               PROVE  /\ \A g \in DOMAIN deletions'[o] : ~deletions'[o][g].full
                      /\ \A q \in Identity : o \notin results'[q].carries /\ o \notin commands[q].carries
    BY DEF NothingRemainsOfPurged, Copies, CommandCopies
  <2>1. ~Exists(o) /\ deletions'[o] = deletions[o] /\ o # request.object
    OBVIOUS
  <2>2. /\ \A g \in DOMAIN deletions[o] : ~deletions[o][g].full
        /\ \A q \in Identity : o \notin results[q].carries /\ o \notin commands[q].carries
    BY <2>1 DEF TrashIInv, NothingRemainsOfPurged, Copies, CommandCopies
  <2> QED
    BY <2>1, <2>2, <1>3, <1>6
<1>9. NoDanglingLinks'
  <2>1. \A l \in links : l[1] \in Object /\ l[2] \in Object
    BY DEF TrashIInv, TrashShapes
  <2> QED
    BY <2>1 DEF TrashIInv, NoDanglingLinks
<1> QED
  BY <1>6, <1>7, <1>8, <1>9

\* A content is written to an object that exists: it is none that a deletion knows.
LEMMA ContentWritten ==
    ASSUME TrashIInv, NEW o \in Object, Exists(o), versions' = versions + 1,
           payload' = [payload EXCEPT ![o] = Content(o)], deletions' = deletions,
           approvals' = approvals
    PROVE  /\ payload' \in [Object -> [revision : Nat, content : 0 .. versions']] /\ versions' \in Nat
           /\ \A x \in Object : Exists(x)' = Exists(x)
           /\ DeletionsFit' /\ ApprovalsFit'
<1>1. versions \in Nat /\ payload \in [Object -> [revision : Nat, content : 0 .. versions]]
  BY DEF TrashIInv, TrashShapes
<1> DEFINE new == Content(o)
<1>2. /\ new \in [revision : Nat, content : 0 .. versions'] /\ new # Gone
      /\ new.content = versions + 1
  BY <1>1 DEF Content, Gone
<1>3. payload' = [payload EXCEPT ![o] = new]
  OBVIOUS
<1> HIDE DEF new
<1>4. /\ DOMAIN payload' = Object /\ payload' = [x \in Object |-> payload'[x]]
      /\ \A x \in Object : payload'[x] = IF x = o THEN new ELSE payload[x]
  BY <1>1, <1>3
<1>5. \A x \in Object : payload'[x] \in [revision : Nat, content : 0 .. versions']
  <2> SUFFICES ASSUME NEW x \in Object PROVE payload'[x] \in [revision : Nat, content : 0 .. versions']
    OBVIOUS
  <2>1. payload[x] \in [revision : Nat, content : 0 .. versions]
    BY <1>1
  <2>2. 0 .. versions \subseteq 0 .. versions'
    BY <1>1
  <2> QED
    BY <2>1, <2>2, <1>2, <1>4
<1>6. \A x \in Object : Exists(x)' = Exists(x)
  BY <1>2, <1>4 DEF Exists
<1>7. DeletionsFit'
  <2> SUFFICES ASSUME NEW x \in Object
               PROVE  /\ \A g \in DOMAIN deletions[x] : deletions[x][g].content <= versions'
                      /\ Generation(x) <= MaxDeletions
                      /\ Exists(x)' \/ (Generation(x) > 0 /\ Latest(x).state = "purged")
    BY DEF DeletionsFit, Generation, Latest
  <2>1. /\ \A g \in DOMAIN deletions[x] : deletions[x][g] \in Entry /\ deletions[x][g].content <= versions
    BY OneObject DEF TrashIInv
  <2>2. \A g \in DOMAIN deletions[x] : deletions[x][g].content <= versions'
    BY <2>1, <1>1 DEF Entry
  <2> QED
    BY <2>2, <1>6 DEF TrashIInv, DeletionsFit
<1>8. ApprovalsFit'
  <2> SUFFICES ASSUME NEW a \in approvals
               PROVE  LET history == a.binding.history IN
                      /\ Len(history) > 0 /\ history[Len(history)].state = "trashed"
                      /\ Len(history) <= Generation(a.object)
                      /\ history = deletions[a.object] /\ payload'[a.object].content = Latest(a.object).content
                           => a.content = payload'[a.object].content
    BY DEF ApprovalsFit, Generation, Latest
  <2> DEFINE x == a.object  history == a.binding.history
  <2>1. x \in Object /\ history \in Seq(Entry)
    BY DEF TrashIInv, TrashShapes, Approval, PurgeBinding
  <2>2. /\ Len(history) > 0 /\ history[Len(history)].state = "trashed" /\ Len(history) <= Generation(x)
        /\ history = deletions[x] /\ payload[x].content = Latest(x).content => a.content = payload[x].content
    BY DEF TrashIInv, ApprovalsFit
  <2>3. Generation(x) \in Nat /\ Len(history) \in Nat
    BY <2>1, OneObject, LenProperties DEF TrashIInv
  <2>4. Latest(x) \in Entry /\ Latest(x).content <= versions
    <3> HIDE DEF x, history
    <3>1. Generation(x) \in 1 .. Generation(x)
      BY <2>2, <2>3
    <3> QED
      BY <3>1, <2>1, OneObject DEF TrashIInv, Latest
  <2>5. x = o => payload'[x].content # Latest(x).content
    <3> HIDE DEF x, history
    <3> QED
      BY <2>4, <1>1, <1>2, <1>4 DEF Entry
  <2> QED
    BY <2>1, <2>2, <2>5, <1>4
<1> QED
  BY <1>1, <1>4, <1>5, <1>6, <1>7, <1>8

\* An object is edited.
LEMMA EditStep ==
    ASSUME TrashIInv, NEW op \in Identity, NEW o \in Object, Edit(op, o)
    PROVE  TrashIInv'
<1> DEFINE request == Asks("edit", o, 0, payload[o].revision, {})
<1>1. /\ MayRun(op, request) /\ Exists(o) /\ TakeReceipt(op, request)
      /\ versions' = versions + 1 /\ payload' = [payload EXCEPT ![o] = Content(o)]
      /\ links' = links /\ deletions' = deletions /\ commands' = commands /\ approvals' = approvals
  BY DEF Edit, Live
<1>2. request \in TrashRequest /\ request.act # "purge" /\ request.object = o
  BY DEF Asks, TrashRequest, TrashIInv, TrashShapes
<1> HIDE DEF request
<1>3. /\ payload' \in [Object -> [revision : Nat, content : 0 .. versions']] /\ versions' \in Nat
      /\ \A x \in Object : Exists(x)' = Exists(x)
      /\ DeletionsFit' /\ ApprovalsFit'
  BY <1>1, ContentWritten
<1>4. /\ results' \in [Identity -> [request : TrashRequest \cup {NoRequest}, carries : SUBSET Object]]
      /\ OpenCommandsFit' /\ NothingRemainsOfPurged' /\ NoDanglingLinks'
  BY <1>1, <1>2, <1>3, ReceiptTaken
<1>5. TrashShapes'
  BY <1>1, <1>3, <1>4 DEF TrashIInv, TrashShapes
<1> QED
  BY <1>3, <1>4, <1>5 DEF TrashIInv

\* An older program edits an object.
LEMMA ForeignEditStep ==
    ASSUME TrashIInv, NEW o \in Object, ForeignEdit(o)
    PROVE  TrashIInv'
<1>1. /\ Exists(o) /\ versions' = versions + 1 /\ payload' = [payload EXCEPT ![o] = Content(o)]
      /\ links' = links /\ deletions' = deletions /\ results' = results /\ commands' = commands
      /\ approvals' = approvals
  BY DEF ForeignEdit
<1>2. /\ payload' \in [Object -> [revision : Nat, content : 0 .. versions']] /\ versions' \in Nat
      /\ \A x \in Object : Exists(x)' = Exists(x)
      /\ DeletionsFit' /\ ApprovalsFit'
  BY <1>1, ContentWritten
<1>3. TrashShapes'
  BY <1>1, <1>2 DEF TrashIInv, TrashShapes
<1>4. OpenCommandsFit'
  BY <1>1, <1>2 DEF TrashIInv, OpenCommandsFit, NoReceipt
<1>5. NothingRemainsOfPurged'
  BY <1>1, <1>2 DEF TrashIInv, NothingRemainsOfPurged, Copies, CommandCopies
<1>6. NoDanglingLinks'
  <2>1. \A l \in links : l[1] \in Object /\ l[2] \in Object
    BY DEF TrashIInv, TrashShapes
  <2> QED
    BY <2>1, <1>1, <1>2 DEF TrashIInv, NoDanglingLinks
<1> QED
  BY <1>2, <1>3, <1>4, <1>5, <1>6 DEF TrashIInv

\* Steps that write no object, deletion, receipt or approval.
LEMMA LinkStep ==
    ASSUME TrashIInv, NEW s \in Object, NEW t \in Object, AddLink(s, t) \/ RemoveLink(s, t) \/ Issue(s)
    PROVE  TrashIInv'
<1>1. /\ payload' = payload /\ deletions' = deletions /\ results' = results /\ commands' = commands
      /\ approvals' = approvals /\ versions' = versions
      /\ links' \subseteq links \cup {<<s, t>>}
      /\ <<s, t>> \in links' => <<s, t>> \in links \/ (Exists(s) /\ Exists(t))
  BY DEF AddLink, RemoveLink, Issue, Live
<1>2. TrashShapes'
  BY <1>1 DEF TrashIInv, TrashShapes
<1>3. NoDanglingLinks'
  BY <1>1 DEF TrashIInv, NoDanglingLinks, Exists
<1>4. DeletionsFit' /\ ApprovalsFit'
  BY <1>1 DEF TrashIInv, DeletionsFit, ApprovalsFit, Generation, Latest, Exists
<1>5. OpenCommandsFit' /\ NothingRemainsOfPurged'
  BY <1>1 DEF TrashIInv, OpenCommandsFit, NothingRemainsOfPurged, Exists, Copies, CommandCopies
<1> QED
  BY <1>2, <1>3, <1>4, <1>5 DEF TrashIInv

\* One object's deletions change, a deletion in the trash is added to or taken from
\* them: approvals of it show another history.
LEMMA DeletionsChange ==
    ASSUME TrashIInv, NEW o \in Object, NEW history \in Seq(Entry),
           deletions' = [deletions EXCEPT ![o] = history],
           payload' \in [Object -> [revision : Nat, content : 0 .. versions]], versions' = versions,
           approvals' = approvals,
           \A x \in Object \ {o} : payload'[x] = payload[x],
           \A g \in DOMAIN history : history[g].content <= versions,
           Generation(o) <= Len(history), Len(history) <= MaxDeletions, Len(history) > 0,
           Exists(o)' \/ history[Len(history)].state = "purged",
           Generation(o) < Len(history) \/ history[Len(history)].state # "trashed"
    PROVE  /\ deletions' \in [Object -> Seq(Entry)] /\ DeletionsFit' /\ ApprovalsFit'
<1>1. /\ deletions' \in [Object -> Seq(Entry)]
      /\ \A x \in Object : deletions'[x] = IF x = o THEN history ELSE deletions[x]
  BY DEF TrashIInv, TrashShapes
<1>2. \A x \in Object \ {o} : Generation(x)' = Generation(x) /\ Latest(x)' = Latest(x)
                              /\ Exists(x)' = Exists(x)
  BY <1>1 DEF Generation, Latest, Exists
<1>3. Generation(o)' = Len(history) /\ Latest(o)' = history[Len(history)]
  BY <1>1 DEF Generation, Latest
<1>4. DeletionsFit'
  <2> SUFFICES ASSUME NEW x \in Object
               PROVE  /\ \A g \in DOMAIN deletions'[x] : deletions'[x][g].content <= versions
                      /\ Generation(x)' <= MaxDeletions
                      /\ Exists(x)' \/ (Generation(x)' > 0 /\ Latest(x)'.state = "purged")
    BY DEF DeletionsFit
  <2>1. CASE x = o
    BY <2>1, <1>1, <1>3
  <2>2. CASE x # o
    BY <2>2, <1>1, <1>2 DEF TrashIInv, DeletionsFit
  <2> QED
    BY <2>1, <2>2
<1>5. ApprovalsFit'
  <2> SUFFICES ASSUME NEW a \in approvals
               PROVE  LET shown == a.binding.history IN
                      /\ Len(shown) > 0 /\ shown[Len(shown)].state = "trashed"
                      /\ Len(shown) <= Generation(a.object)'
                      /\ shown = deletions'[a.object] /\ payload'[a.object].content = Latest(a.object)'.content
                           => a.content = payload'[a.object].content
    BY DEF ApprovalsFit
  <2> DEFINE x == a.object  shown == a.binding.history
  <2>1. x \in Object /\ shown \in Seq(Entry)
    BY DEF TrashIInv, TrashShapes, Approval, PurgeBinding
  <2>2. /\ Len(shown) > 0 /\ shown[Len(shown)].state = "trashed" /\ Len(shown) <= Generation(x)
        /\ shown = deletions[x] /\ payload[x].content = Latest(x).content => a.content = payload[x].content
    BY DEF TrashIInv, ApprovalsFit
  <2>3. Generation(x) \in Nat /\ Len(shown) \in Nat /\ Len(history) \in Nat
    BY <2>1, OneObject, LenProperties DEF TrashIInv
  <2> HIDE DEF x, shown
  <2>4. CASE x = o
    <3>1. Len(shown) <= Len(history)
      BY <2>2, <2>3, <2>4
    <3>2. shown # history
      BY <2>2, <2>3, <2>4
    <3> QED
      BY <3>1, <3>2, <2>2, <2>4, <1>1, <1>3 DEF x, shown
  <2>5. CASE x # o
    BY <2>1, <2>2, <2>5, <1>1, <1>2 DEF x, shown
  <2> QED
    BY <2>4, <2>5
<1> QED
  BY <1>1, <1>4, <1>5

\* An object is moved to the trash.
LEMMA MoveStep ==
    ASSUME TrashIInv, NEW op \in Identity, NEW o \in Object, MoveToTrash(op, o, payload[o].revision)
    PROVE  TrashIInv'
<1> DEFINE request == Asks("move", o, 0, payload[o].revision, {})
           entry == [state |-> "trashed", revision |-> 1, content |-> payload[o].content, full |-> TRUE]
           history == Append(deletions[o], entry)
<1>1. /\ MayRun(op, request) /\ Exists(o) /\ TakeReceipt(op, request)
      /\ Generation(o) < MaxDeletions /\ deletions' = [deletions EXCEPT ![o] = history]
      /\ payload' = payload /\ versions' = versions
      /\ links' = links /\ commands' = commands /\ approvals' = approvals
  BY DEF MoveToTrash, Live, TrashIInv, TrashShapes
<1>2. request \in TrashRequest /\ request.act # "purge" /\ request.object = o
  BY DEF Asks, TrashRequest, TrashIInv, TrashShapes
<1>3. /\ Generation(o) \in Nat /\ deletions[o] \in Seq(Entry)
      /\ \A g \in 1 .. Generation(o) : deletions[o][g] \in Entry /\ deletions[o][g].content <= versions
      /\ payload[o] \in [revision : Nat, content : 0 .. versions]
  BY OneObject DEF TrashIInv
<1>4. entry \in Entry /\ entry.content <= versions /\ entry.state = "trashed"
  BY <1>3 DEF Entry, TrashIInv, TrashShapes
<1> HIDE DEF request, entry
<1>5. /\ history \in Seq(Entry) /\ Len(history) = Generation(o) + 1
      /\ \A g \in 1 .. Len(history) : history[g] = IF g = Generation(o) + 1 THEN entry ELSE deletions[o][g]
  BY <1>3, <1>4 DEF Generation
<1>6. DOMAIN history = 1 .. Len(history)
  BY <1>5, EntrySequences
<1> HIDE DEF history
<1>7. \A g \in DOMAIN history : history[g].content <= versions
  BY <1>3, <1>4, <1>5, <1>6
<1>8. /\ Generation(o) <= Len(history) /\ Len(history) <= MaxDeletions /\ Len(history) > 0
      /\ Generation(o) < Len(history)
  BY <1>1, <1>3, <1>5, TrashAssumption
<1>9. \A x \in Object : Exists(x)' = Exists(x)
  BY <1>1 DEF Exists
<1>10. payload' \in [Object -> [revision : Nat, content : 0 .. versions]]
  BY <1>1 DEF TrashIInv, TrashShapes
<1>11. deletions' \in [Object -> Seq(Entry)] /\ DeletionsFit' /\ ApprovalsFit'
  BY <1>1, <1>5, <1>7, <1>8, <1>9, <1>10, DeletionsChange
<1>12. \A x \in Object : ~Exists(x) => deletions'[x] = deletions[x]
  BY <1>1 DEF TrashIInv, TrashShapes
<1>13. /\ results' \in [Identity -> [request : TrashRequest \cup {NoRequest}, carries : SUBSET Object]]
       /\ OpenCommandsFit' /\ NothingRemainsOfPurged' /\ NoDanglingLinks'
  BY <1>1, <1>2, <1>9, <1>12, ReceiptTaken
<1>14. TrashShapes'
  BY <1>1, <1>11, <1>13 DEF TrashIInv, TrashShapes
<1> QED
  BY <1>11, <1>13, <1>14 DEF TrashIInv

\* The newest deletion is taken back.
LEMMA RestoreStep ==
    ASSUME TrashIInv, NEW op \in Identity, NEW o \in Object, NEW g \in DOMAIN deletions[o],
           NEW r \in 1 .. 2, Restore(op, o, g, r)
    PROVE  TrashIInv'
<1> DEFINE request == Asks("restore", o, g, r, {})
           entry == [deletions[o][g] EXCEPT !.state = "restored", !.revision = @ + 1]
           history == [deletions[o] EXCEPT ![g] = entry]
<1>1. /\ MayRun(op, request) /\ Exists(o) /\ TakeReceipt(op, request)
      /\ g = Generation(o)
      /\ deletions' = [deletions EXCEPT ![o][g].state = "restored", ![o][g].revision = @ + 1]
      /\ payload' = payload /\ versions' = versions
      /\ links' = links /\ commands' = commands /\ approvals' = approvals
  BY DEF Restore, Exact
<1>2. /\ Generation(o) \in Nat /\ deletions[o] \in Seq(Entry) /\ DOMAIN deletions[o] = 1 .. Generation(o)
      /\ \A i \in 1 .. Generation(o) : deletions[o][i] \in Entry /\ deletions[o][i].content <= versions
  BY OneObject DEF TrashIInv
<1>3. request \in TrashRequest /\ request.act # "purge" /\ request.object = o
  BY <1>1, <1>2 DEF Asks, TrashRequest
<1>4. entry \in Entry /\ entry.content <= versions /\ entry.state = "restored"
  <2>1. deletions[o][g] \in Entry /\ deletions[o][g].content <= versions
    BY <1>2
  <2>2. deletions[o][g].revision + 1 \in Nat
    BY <2>1 DEF Entry
  <2>3. entry \in Entry
    BY <2>1, <2>2, Zenon DEF Entry
  <2> QED
    BY <2>1, <2>3 DEF Entry
<1>5. deletions' = [deletions EXCEPT ![o] = history]
  BY <1>1, <1>2 DEF TrashIInv, TrashShapes, Entry
<1> HIDE DEF request, entry
<1>6. /\ history \in Seq(Entry) /\ Len(history) = Generation(o)
      /\ \A i \in 1 .. Generation(o) : history[i] = IF i = g THEN entry ELSE deletions[o][i]
      /\ DOMAIN history = 1 .. Generation(o)
  BY <1>2, <1>4, ExceptSeq DEF Generation
<1> HIDE DEF history
<1>7. \A i \in DOMAIN history : history[i].content <= versions
  BY <1>2, <1>4, <1>6
<1>8. /\ Generation(o) <= Len(history) /\ Len(history) <= MaxDeletions /\ Len(history) > 0
      /\ history[Len(history)].state # "trashed"
  BY <1>1, <1>2, <1>4, <1>6 DEF TrashIInv, DeletionsFit
<1>9. \A x \in Object : Exists(x)' = Exists(x)
  BY <1>1 DEF Exists
<1>10. payload' \in [Object -> [revision : Nat, content : 0 .. versions]]
  BY <1>1 DEF TrashIInv, TrashShapes
<1>11. deletions' \in [Object -> Seq(Entry)] /\ DeletionsFit' /\ ApprovalsFit'
  BY <1>1, <1>5, <1>6, <1>7, <1>8, <1>9, <1>10, DeletionsChange
<1>12. \A x \in Object : ~Exists(x) => deletions'[x] = deletions[x]
  BY <1>1, <1>5 DEF TrashIInv, TrashShapes
<1>13. /\ results' \in [Identity -> [request : TrashRequest \cup {NoRequest}, carries : SUBSET Object]]
       /\ OpenCommandsFit' /\ NothingRemainsOfPurged' /\ NoDanglingLinks'
  BY <1>1, <1>3, <1>9, <1>12, ReceiptTaken
<1>14. TrashShapes'
  BY <1>1, <1>11, <1>13 DEF TrashIInv, TrashShapes
<1> QED
  BY <1>11, <1>13, <1>14 DEF TrashIInv

\* Commands are reserved, refused and completed.
LEMMA CommandStep ==
    ASSUME TrashIInv, NEW op \in Identity, NEW new,
           commands' = [commands EXCEPT ![op] = new],
           new \in [state : {"none", "pending", "complete", "failed"},
                    request : TrashRequest \cup {NoRequest}, carries : SUBSET Object],
           \A o \in new.carries : Exists(o),
           new.state = "pending" => results[op] = NoReceipt,
           UNCHANGED <<payload, links, issued, deletions, results, approvals, versions>>
    PROVE  TrashIInv'
<1>1. /\ commands' \in [Identity -> [state : {"none", "pending", "complete", "failed"},
                                     request : TrashRequest \cup {NoRequest}, carries : SUBSET Object]]
      /\ \A q \in Identity : commands'[q] = IF q = op THEN new ELSE commands[q]
  BY DEF TrashIInv, TrashShapes
<1>2. TrashShapes'
  BY <1>1 DEF TrashIInv, TrashShapes
<1>3. DeletionsFit' /\ ApprovalsFit' /\ NoDanglingLinks'
  BY DEF TrashIInv, DeletionsFit, ApprovalsFit, NoDanglingLinks, Generation, Latest, Exists
<1>4. OpenCommandsFit'
  BY <1>1 DEF TrashIInv, OpenCommandsFit, NoReceipt, Exists
<1>5. NothingRemainsOfPurged'
  BY <1>1 DEF TrashIInv, NothingRemainsOfPurged, Copies, CommandCopies, Exists
<1> QED
  BY <1>2, <1>3, <1>4, <1>5 DEF TrashIInv

LEMMA CommandSteps ==
    ASSUME TrashIInv, NEW op \in Identity,
           CompleteCommand(op) \/ RefuseRequest(op) \/ \E request \in TrashRequests : ReserveCommand(op, request)
    PROVE  TrashIInv'
<1> DEFINE Receipts == [state : {"none", "pending", "complete", "failed"},
                        request : TrashRequest \cup {NoRequest}, carries : SUBSET Object]
<1>1. commands[op] \in Receipts /\ commands \in [Identity -> Receipts]
  BY DEF TrashIInv, TrashShapes
<1>2. \A q \in Identity : \A o \in commands[q].carries \cup results[q].carries : o \in Object => Exists(o)
  BY DEF TrashIInv, NothingRemainsOfPurged, Copies, CommandCopies
<1>3. results[op].carries \subseteq Object /\ commands[op].carries \subseteq Object
  BY DEF TrashIInv, TrashShapes
<1>4. CASE CompleteCommand(op)
  <2>1. PICK result \in {Returned(commands[op].request), results[op].carries} :
            commands' = [commands EXCEPT ![op].state = "complete", ![op].carries = result]
    BY <1>4 DEF CompleteCommand
  <2> DEFINE new == [commands[op] EXCEPT !.state = "complete", !.carries = result]
  <2>2. commands' = [commands EXCEPT ![op] = new]
    BY <2>1, <1>1
  <2>3. result \subseteq Object /\ \A o \in result : Exists(o)
    <3>1. CASE result = results[op].carries
      BY <3>1, <1>2, <1>3
    <3>2. CASE result = Returned(commands[op].request) /\ commands[op].request.act # "purge"
      <4>1. commands[op].request.object \in Object /\ Exists(commands[op].request.object)
        BY <1>4, <3>2 DEF TrashIInv, OpenCommandsFit, CompleteCommand
      <4> QED
        BY <4>1, <3>2 DEF Returned
    <3>3. CASE result = Returned(commands[op].request) /\ commands[op].request.act = "purge"
      BY <3>3 DEF Returned
    <3> QED
      BY <2>1, <3>1, <3>2, <3>3
  <2>4. new \in Receipts /\ new.carries = result /\ new.state = "complete"
    BY <2>3, <1>1
  <2> HIDE DEF new
  <2>5. UNCHANGED <<payload, links, issued, deletions, results, approvals, versions>>
    BY <1>4 DEF CompleteCommand
  <2> QED
    BY <2>2, <2>3, <2>4, <2>5, CommandStep
<1>5. CASE RefuseRequest(op)
  <2> DEFINE new == [commands[op] EXCEPT !.state = "failed"]
  <2>1. /\ commands' = [commands EXCEPT ![op] = new]
        /\ UNCHANGED <<payload, links, issued, deletions, results, approvals, versions>>
    BY <1>5, <1>1 DEF RefuseRequest
  <2>2. new \in Receipts /\ new.carries = commands[op].carries /\ new.state = "failed"
    BY <1>1
  <2> HIDE DEF new
  <2> QED
    BY <2>1, <2>2, <1>2, <1>3, CommandStep
<1>6. CASE \E request \in TrashRequests : ReserveCommand(op, request)
  <2>1. PICK request \in TrashRequests : ReserveCommand(op, request)
    BY <1>6
  <2>2. request \in TrashRequest
    <3>1. \A o \in Object : payload[o].revision \in Nat /\ Generation(o) \in Nat
      BY OneObject DEF TrashIInv
    <3>2. \A a \in approvals : a \in Approval
      BY DEF TrashIInv, TrashShapes
    <3> QED
      BY <3>1, <3>2 DEF TrashRequests, TrashRequest, Asks, Approval
  <2> DEFINE new == [state |-> "pending", request |-> request, carries |-> {}]
  <2>3. /\ commands' = [commands EXCEPT ![op] = new] /\ results[op] = NoReceipt
        /\ UNCHANGED <<payload, links, issued, deletions, results, approvals, versions>>
    BY <2>1 DEF ReserveCommand
  <2>4. new \in Receipts /\ new.carries = {} /\ new.state = "pending"
    BY <2>2
  <2> HIDE DEF new
  <2> QED
    BY <2>3, <2>4, CommandStep
<1> QED
  BY <1>4, <1>5, <1>6

\* A preview shows the newest deletion, and the content the object has.
LEMMA PreviewStep ==
    ASSUME TrashIInv, NEW o \in Object, PreviewPurge(o)
    PROVE  TrashIInv'
<1> DEFINE new == [object |-> o, generation |-> Generation(o), revision |-> Latest(o).revision,
                   binding |-> Binding(o, {}), content |-> payload[o].content]
<1>1. /\ Generation(o) > 0 /\ Latest(o).state = "trashed" /\ Exists(o)
      /\ approvals' = approvals \cup {new}
      /\ UNCHANGED <<payload, links, issued, deletions, results, commands, versions>>
  BY DEF PreviewPurge
<1>2. /\ Generation(o) \in Nat /\ deletions[o] \in Seq(Entry)
      /\ \A i \in 1 .. Generation(o) : deletions[o][i] \in Entry /\ deletions[o][i].content <= versions
      /\ payload[o] \in [revision : Nat, content : 0 .. versions]
  BY OneObject DEF TrashIInv
<1>3. Latest(o) \in Entry /\ Latest(o).revision \in Nat
  <2>1. Generation(o) \in 1 .. Generation(o)
    BY <1>1, <1>2
  <2> QED
    BY <2>1, <1>2 DEF Latest, Entry
<1>4. Binding(o, {}) \in PurgeBinding /\ Binding(o, {}).history = deletions[o]
  BY <1>2 DEF Binding, PurgeBinding, Referring, Copies, CommandCopies, Unconfirmed
<1>5. payload[o].content \in Nat
  BY <1>2
<1>6. /\ new \in Approval /\ new.object = o /\ new.binding.history = deletions[o]
      /\ new.content = payload[o].content
  BY <1>2, <1>3, <1>4, <1>5 DEF Approval
<1> HIDE DEF new
<1>7. TrashShapes'
  BY <1>1, <1>6 DEF TrashIInv, TrashShapes
<1>8. DeletionsFit' /\ OpenCommandsFit' /\ NoDanglingLinks'
  BY <1>1 DEF TrashIInv, DeletionsFit, OpenCommandsFit, NoDanglingLinks, Generation, Latest, Exists, NoReceipt
<1>9. NothingRemainsOfPurged'
  BY <1>1 DEF TrashIInv, NothingRemainsOfPurged, Exists, Copies, CommandCopies
<1>10. ApprovalsFit'
  <2> SUFFICES ASSUME NEW a \in approvals'
               PROVE  LET shown == a.binding.history IN
                      /\ Len(shown) > 0 /\ shown[Len(shown)].state = "trashed"
                      /\ Len(shown) <= Generation(a.object)
                      /\ shown = deletions[a.object] /\ payload[a.object].content = Latest(a.object).content
                           => a.content = payload[a.object].content
    BY <1>1 DEF ApprovalsFit, Generation, Latest
  <2>1. CASE a \in approvals
    BY <2>1 DEF TrashIInv, ApprovalsFit
  <2>2. CASE a = new
    BY <2>2, <1>1, <1>2, <1>6 DEF Generation, Latest
  <2> QED
    BY <2>1, <2>2, <1>1
<1> QED
  BY <1>7, <1>8, <1>9, <1>10 DEF TrashIInv

\* The history of a purged object: every entry minimal, the newest one purged.
LEMMA PurgedHistory ==
    ASSUME TrashIInv, NEW o \in Object, Generation(o) > 0,
           NEW history, history = [i \in DOMAIN deletions[o] |->
                                      IF i = Generation(o) THEN Final(deletions[o][i])
                                                           ELSE Minimal(deletions[o][i])]
    PROVE  /\ history \in Seq(Entry) /\ Len(history) = Generation(o)
           /\ DOMAIN history = 1 .. Generation(o)
           /\ \A i \in 1 .. Generation(o) : history[i].content <= versions /\ ~history[i].full
           /\ history[Generation(o)].state = "purged"
<1>1. /\ Generation(o) \in Nat /\ deletions[o] \in Seq(Entry) /\ DOMAIN deletions[o] = 1 .. Generation(o)
      /\ \A i \in 1 .. Generation(o) : deletions[o][i] \in Entry /\ deletions[o][i].content <= versions
  BY OneObject DEF TrashIInv
<1>2. ASSUME NEW e \in Entry
      PROVE  /\ Minimal(e) \in Entry /\ Minimal(e).content = e.content /\ ~Minimal(e).full
             /\ Final(e) \in Entry /\ Final(e).content = e.content /\ ~Final(e).full
             /\ Final(e).state = "purged"
  <2>1. Minimal(e) \in Entry
    BY Zenon DEF Minimal, Entry
  <2>2. Minimal(e).content = e.content /\ Minimal(e).revision = e.revision
    BY DEF Minimal, Entry
  <2>3. ~Minimal(e).full
    BY Zenon DEF Minimal, Entry
  <2>4. Minimal(e).revision + 1 \in Nat
    BY <2>1 DEF Entry
  <2> DEFINE m == Minimal(e)
  <2> HIDE DEF m
  <2>5. Final(e) = [m EXCEPT !.state = "purged", !.revision = m.revision + 1]
    BY DEF Final, m
  <2>6. Final(e) \in Entry
    BY <2>1, <2>4, <2>5, Zenon DEF m, Entry
  <2>7. Final(e).full = m.full
    BY <2>1, <2>5, Zenon DEF m, Entry
  <2>8. Final(e).content = m.content /\ Final(e).state = "purged"
    BY <2>1, <2>5 DEF m, Entry
  <2> QED
    BY <2>1, <2>2, <2>3, <2>6, <2>7, <2>8 DEF m
<1>3. /\ DOMAIN history = 1 .. Generation(o)
      /\ history = [i \in 1 .. Generation(o) |-> history[i]]
      /\ \A i \in 1 .. Generation(o) :
            history[i] = IF i = Generation(o) THEN Final(deletions[o][i]) ELSE Minimal(deletions[o][i])
  BY <1>1
<1>4. \A i \in 1 .. Generation(o) : history[i] \in Entry
  BY <1>1, <1>2, <1>3
<1>5. history \in [1 .. Generation(o) -> Entry]
  BY <1>3, <1>4
<1>6. history \in Seq(Entry) /\ Len(history) = Generation(o)
  BY <1>1, <1>5, EntrySequences
<1>7. \A i \in 1 .. Generation(o) : history[i].content <= versions /\ ~history[i].full
  BY <1>1, <1>2, <1>3
<1>8. history[Generation(o)].state = "purged"
  BY <1>1, <1>2, <1>3
<1> QED
  BY <1>3, <1>6, <1>7, <1>8

\* An object is purged: nothing refers to it, and no command that is open may bring a
\* copy of it back.
LEMMA PurgeStep ==
    ASSUME TrashIInv, NEW op \in Identity, NEW a \in approvals, Purge(op, a)
    PROVE  TrashIInv'
<1> DEFINE o == a.object  g == a.generation
           request == Asks("purge", o, g, a.revision, a.binding)
           own == IF commands[op].state = "pending" THEN {op} ELSE {}
           reply == [request |-> request, carries |-> {}]
<1>1. a \in Approval /\ o \in Object
  BY DEF TrashIInv, TrashShapes, Approval
<1>2. request \in TrashRequest /\ request.act = "purge"
  BY <1>1 DEF Asks, Approval, TrashRequest
<1>3. /\ MayRun(op, request) /\ Exact(o, g, a.revision) /\ ~Blocked(o, own)
      /\ links' = {l \in links : l[1] # o}
      /\ approvals' = approvals /\ versions' = versions
  BY DEF Purge
<1>4. payload' = [payload EXCEPT ![o] = Gone]
  BY DEF Purge
<1>5. results' = [[x \in Identity |-> Reduced(results[x], o)] EXCEPT ![op] = reply]
  BY DEF Purge
<1>6. commands' = [x \in Identity |-> Reduced(commands[x], o)]
  BY DEF Purge
<1>7. PICK history : /\ deletions' = [deletions EXCEPT ![o] = history]
                     /\ history = [i \in DOMAIN deletions[o] |->
                            IF i = g THEN Final(deletions[o][i]) ELSE Minimal(deletions[o][i])]
  BY <1>1 DEF Purge, TrashIInv, TrashShapes
<1>8. reply \in [request : TrashRequest \cup {NoRequest}, carries : SUBSET Object] /\ reply.carries = {}
  BY <1>2
<1>9. commands[op].state = "pending" => commands[op].request.act = "purge"
  BY <1>2, <1>3 DEF MayRun
<1>10. \A q \in Identity \ {op} : commands[q].state # "pending"
  BY <1>3 DEF Blocked, Unconfirmed
<1>11. \A s \in Object : <<s, o>> \notin links
  <2> SUFFICES ASSUME NEW s \in Object, <<s, o>> \in links PROVE FALSE
    OBVIOUS
  <2>1. Exists(s)
    BY DEF TrashIInv, NoDanglingLinks
  <2> QED
    BY <2>1, <1>3 DEF Blocked, Referring
<1>12. g = Generation(o) /\ Exists(o) /\ Latest(o).state = "trashed"
  BY <1>3 DEF Exact
<1> HIDE DEF o, g, request, own, reply
<1>13. Generation(o) > 0
  <2>1. Exists(o) /\ o \in Object
    BY <1>1, <1>12
  <2>2. a.object = o /\ \E h \in Seq(Entry) : Len(h) > 0 /\ Len(h) <= Generation(o)
    BY <1>1 DEF TrashIInv, ApprovalsFit, Approval, PurgeBinding, o
  <2>3. Generation(o) \in Nat
    BY <1>1, OneObject DEF TrashIInv
  <2> QED
    BY <2>2, <2>3, LenProperties
<1>14. /\ history \in Seq(Entry) /\ Len(history) = Generation(o)
       /\ DOMAIN history = 1 .. Generation(o)
       /\ \A i \in 1 .. Generation(o) : history[i].content <= versions /\ ~history[i].full
       /\ history[Generation(o)].state = "purged"
  BY <1>1, <1>7, <1>12, <1>13, PurgedHistory
<1>15. /\ payload' \in [Object -> [revision : Nat, content : 0 .. versions]]
       /\ \A x \in Object : payload'[x] = IF x = o THEN Gone ELSE payload[x]
       /\ ~Exists(o)' /\ \A x \in Object \ {o} : Exists(x)' = Exists(x)
  <2>1. versions \in Nat /\ payload \in [Object -> [revision : Nat, content : 0 .. versions]]
    BY DEF TrashIInv, TrashShapes
  <2>2. Gone \in [revision : Nat, content : 0 .. versions]
    BY <2>1 DEF Gone
  <2>3. /\ payload' \in [Object -> [revision : Nat, content : 0 .. versions]]
        /\ \A x \in Object : payload'[x] = IF x = o THEN Gone ELSE payload[x]
    BY <2>1, <2>2, <1>4
  <2> QED
    BY <2>3, <1>1 DEF Exists
<1>16. deletions' \in [Object -> Seq(Entry)] /\ DeletionsFit' /\ ApprovalsFit'
  <2>1. /\ \A i \in DOMAIN history : history[i].content <= versions
        /\ Generation(o) <= Len(history) /\ Len(history) <= MaxDeletions /\ Len(history) > 0
        /\ history[Len(history)].state = "purged" /\ history[Len(history)].state # "trashed"
    <3>1. Generation(o) \in Nat /\ Generation(o) <= MaxDeletions
      BY <1>1, OneObject DEF TrashIInv, DeletionsFit
    <3> QED
      BY <3>1, <1>13, <1>14
  <2> QED
    BY <2>1, <1>1, <1>3, <1>7, <1>14, <1>15, DeletionsChange
<1>17. \A x \in Object : deletions'[x] = IF x = o THEN history ELSE deletions[x]
  BY <1>7 DEF TrashIInv, TrashShapes
<1> DEFINE Receipts == [request : TrashRequest \cup {NoRequest}, carries : SUBSET Object]
           Commands == [state : {"none", "pending", "complete", "failed"},
                        request : TrashRequest \cup {NoRequest}, carries : SUBSET Object]
<1>18. /\ results' \in [Identity -> Receipts]
       /\ \A q \in Identity : results'[q].carries \subseteq results[q].carries \ {o}
  <2>1. ASSUME NEW q \in Identity
        PROVE  Reduced(results[q], o) \in Receipts /\ Reduced(results[q], o).carries = results[q].carries \ {o}
    <3>1. results[q] \in Receipts
      BY DEF TrashIInv, TrashShapes
    <3> QED
      BY <3>1 DEF Reduced
  <2>2. results' = [q \in Identity |-> IF q = op THEN reply ELSE Reduced(results[q], o)]
    BY <1>5
  <2> HIDE DEF Receipts
  <2>3. reply \in Receipts
    BY <1>8 DEF Receipts
  <2>4. \A q \in Identity : results'[q] = IF q = op THEN reply ELSE Reduced(results[q], o)
    BY <2>2
  <2> QED
    BY <2>1, <2>2, <2>3, <2>4, <1>8
<1>19. /\ commands' \in [Identity -> Commands]
       /\ \A q \in Identity : /\ commands'[q].carries = commands[q].carries \ {o}
                              /\ commands'[q].state = commands[q].state
                              /\ commands'[q].request = commands[q].request
  <2>1. ASSUME NEW q \in Identity
        PROVE  /\ Reduced(commands[q], o) \in Commands
               /\ Reduced(commands[q], o).carries = commands[q].carries \ {o}
               /\ Reduced(commands[q], o).state = commands[q].state
               /\ Reduced(commands[q], o).request = commands[q].request
    <3>1. commands[q] \in Commands
      BY DEF TrashIInv, TrashShapes
    <3> QED
      BY <3>1 DEF Reduced
  <2> HIDE DEF Commands
  <2> QED
    BY <2>1, <1>6
<1>20. TrashShapes'
  <2>1. links' \subseteq Object \X Object /\ versions' \in Nat /\ approvals' \subseteq Approval
    BY <1>3 DEF TrashIInv, TrashShapes
  <2> QED
    BY <2>1, <1>3, <1>15, <1>16, <1>18, <1>19 DEF TrashShapes
<1>21. OpenCommandsFit'
  <2>1. \A q \in Identity : commands'[q].state = "pending" => commands'[q].request.act = "purge"
    BY <1>9, <1>10, <1>19
  <2> QED
    BY <2>1 DEF OpenCommandsFit
<1>22. NothingRemainsOfPurged'
  <2> SUFFICES ASSUME NEW x \in Object, ~Exists(x)'
               PROVE  /\ \A i \in DOMAIN deletions'[x] : ~deletions'[x][i].full
                      /\ \A q \in Identity : x \notin results'[q].carries /\ x \notin commands'[q].carries
    BY DEF NothingRemainsOfPurged, Copies, CommandCopies
  <2>1. CASE x = o
    BY <2>1, <1>14, <1>17, <1>18, <1>19
  <2>2. CASE x # o
    <3>1. ~Exists(x)
      BY <2>2, <1>15
    <3>2. /\ \A i \in DOMAIN deletions[x] : ~deletions[x][i].full
          /\ \A q \in Identity : x \notin results[q].carries /\ x \notin commands[q].carries
      BY <3>1 DEF TrashIInv, NothingRemainsOfPurged, Copies, CommandCopies
    <3> QED
      BY <2>2, <3>2, <1>17, <1>18, <1>19
  <2> QED
    BY <2>1, <2>2
<1>23. NoDanglingLinks'
  <2> SUFFICES ASSUME NEW l \in links' PROVE Exists(l[1])' /\ Exists(l[2])'
    BY DEF NoDanglingLinks
  <2>1. l \in links /\ l[1] # o /\ l \in Object \X Object /\ l[1] \in Object /\ l[2] \in Object /\ l = <<l[1], l[2]>>
    BY <1>3 DEF TrashIInv, TrashShapes
  <2>2. l[2] # o
    BY <2>1, <1>11
  <2>3. Exists(l[1]) /\ Exists(l[2])
    BY <2>1 DEF TrashIInv, NoDanglingLinks
  <2> QED
    BY <2>1, <2>2, <2>3, <1>15
<1> QED
  BY <1>16, <1>20, <1>21, <1>22, <1>23 DEF TrashIInv

LEMMA TrashSteps == TrashIInv /\ [TrashNext]_trashVars => TrashIInv'
<1> SUFFICES ASSUME TrashIInv, [TrashNext]_trashVars PROVE TrashIInv'
  OBVIOUS
<1>1. ASSUME NEW op \in Usable, \/ \E request \in TrashRequests : ReserveCommand(op, request)
                                \/ CompleteCommand(op) \/ RefuseRequest(op)
      PROVE  TrashIInv'
  BY <1>1, CommandSteps DEF Usable
<1>2. ASSUME NEW op \in Usable, NEW o \in Object, Edit(op, o) PROVE TrashIInv'
  BY <1>2, EditStep DEF Usable
<1>3. ASSUME NEW op \in Usable, NEW o \in Object, MoveToTrash(op, o, payload[o].revision) PROVE TrashIInv'
  BY <1>3, MoveStep DEF Usable
<1>4. ASSUME NEW op \in Usable, NEW o \in Object, NEW g \in DOMAIN deletions[o], NEW r \in 1 .. 2,
             Restore(op, o, g, r)
      PROVE  TrashIInv'
  BY <1>4, RestoreStep DEF Usable
<1>5. ASSUME NEW op \in Usable, NEW a \in approvals, Purge(op, a) PROVE TrashIInv'
  BY <1>5, PurgeStep DEF Usable
<1>6. ASSUME NEW o \in Object, ForeignEdit(o) \/ PreviewPurge(o) PROVE TrashIInv'
  BY <1>6, ForeignEditStep, PreviewStep
<1>7. ASSUME NEW s \in Object, NEW t \in Object, AddLink(s, t) \/ RemoveLink(s, t) \/ Issue(s)
      PROVE  TrashIInv'
  BY <1>7, LinkStep
<1>8. CASE UNCHANGED trashVars
  <2>1. TrashShapes' /\ NoDanglingLinks'
    BY <1>8 DEF trashVars, TrashIInv, TrashShapes, NoDanglingLinks, Exists
  <2>2. DeletionsFit' /\ ApprovalsFit'
    BY <1>8 DEF trashVars, TrashIInv, DeletionsFit, ApprovalsFit, Generation, Latest, Exists
  <2>3. OpenCommandsFit' /\ NothingRemainsOfPurged'
    BY <1>8 DEF trashVars, TrashIInv, OpenCommandsFit, NothingRemainsOfPurged, Exists, Copies, CommandCopies
  <2> QED
    BY <2>1, <2>2, <2>3 DEF TrashIInv
<1> QED
  BY <1>1, <1>2, <1>3, <1>4, <1>5, <1>6, <1>7, <1>8 DEF TrashNext

LEMMA TrashHolds == TrashSpec => []TrashIInv
<1>1. TrashInit => TrashIInv
  <2> SUFFICES ASSUME TrashInit PROVE TrashIInv
    OBVIOUS
  <2>1. \A o \in Object : deletions[o] = <<>> /\ payload[o] = [revision |-> 1, content |-> 0]
    BY DEF TrashInit
  <2>2. \A o \in Object : Exists(o) /\ Generation(o) = 0 /\ DOMAIN deletions[o] = {}
    BY <2>1 DEF Exists, Gone, Generation
  <2>3. TrashShapes
    <3>1. <<>> \in Seq(Entry)
      BY EmptySeq
    <3> QED
      BY <3>1 DEF TrashInit, TrashShapes, NoReceipt, NoCommand
  <2>4. DeletionsFit
    BY <2>2, TrashAssumption DEF DeletionsFit
  <2>5. OpenCommandsFit
    BY DEF OpenCommandsFit, TrashInit, NoCommand
  <2>6. ApprovalsFit /\ NoDanglingLinks /\ NothingRemainsOfPurged
    BY <2>2 DEF ApprovalsFit, NoDanglingLinks, NothingRemainsOfPurged, TrashInit
  <2> QED
    BY <2>3, <2>4, <2>5, <2>6 DEF TrashIInv
<1> QED
  BY <1>1, TrashSteps, PTL DEF TrashSpec

\* Whatever is edited, linked, deleted, restored and purged, under whatever commands
\* and approvals: of a purged object nothing remains, and nothing that exists refers
\* to it (trash.purge under the blockers of its preview, ReceiptPlan.apply).
THEOREM NothingStaysOfPurged == TrashSpec => []TrashInv
<1>1. TrashIInv => TrashInv
  <2> SUFFICES ASSUME TrashIInv PROVE TrashTypeOK
    BY DEF TrashInv, TrashIInv
  <2>1. \A o \in Object : Generation(o) <= MaxDeletions /\ (Exists(o) \/ Latest(o).state = "purged")
    BY DEF TrashIInv, DeletionsFit
  <2> QED
    BY <2>1 DEF TrashTypeOK, TrashIInv, TrashShapes
<1> QED
  BY <1>1, TrashHolds, PTL

\* A purge destroys the content its approval showed, with nothing that refers to it,
\* and the deletion it showed (purge under _exact_entry and the binding's digest).
THEOREM PurgesAreAsApproved == TrashSpec => PurgeIsAsApproved
<1>1. ASSUME TrashIInv, [TrashNext]_trashVars
      PROVE  [\A o \in Object : Exists(o) /\ payload'[o] = Gone =>
                 \E a \in approvals : /\ a.object = o /\ a.content = payload[o].content
                                      /\ a.binding.history = deletions[o]
                                      /\ a.binding.references = {} /\ Referring(o) = {}]_trashVars
  <2> SUFFICES ASSUME NEW o \in Object, Exists(o), payload'[o] = Gone
               PROVE  \E a \in approvals : /\ a.object = o /\ a.content = payload[o].content
                                           /\ a.binding.history = deletions[o]
                                           /\ a.binding.references = {} /\ Referring(o) = {}
    OBVIOUS
  <2>1. \A x \in Object : Content(x) # Gone
    <3> SUFFICES ASSUME NEW x \in Object PROVE Content(x).revision # Gone.revision
      OBVIOUS
    <3>1. payload[x].revision \in Nat
      BY <1>1, OneObject DEF TrashIInv
    <3> QED
      BY <3>1 DEF Content, Gone
  <2>2. payload' # payload
    BY DEF Exists
  <2>3. ASSUME NEW x \in Object, payload' = [payload EXCEPT ![x] = Content(x)] PROVE FALSE
    <3>1. payload'[o] = IF o = x THEN Content(x) ELSE payload[o]
      BY <1>1, <2>3 DEF TrashIInv, TrashShapes
    <3> QED
      BY <3>1, <2>1 DEF Exists
  <2>4. TrashNext
    BY <1>1, <2>2 DEF trashVars
  <2>5. ASSUME NEW op \in Usable, NEW request, ReserveCommand(op, request) PROVE FALSE
    BY <2>2, <2>5 DEF ReserveCommand
  <2>6. ASSUME NEW op \in Usable, CompleteCommand(op) \/ RefuseRequest(op) PROVE FALSE
    BY <2>2, <2>6 DEF CompleteCommand, RefuseRequest
  <2>7. ASSUME NEW op \in Usable, NEW x \in Object, Edit(op, x) PROVE FALSE
    BY <2>3, <2>7 DEF Edit
  <2>8. ASSUME NEW op \in Usable, NEW x \in Object, MoveToTrash(op, x, payload[x].revision) PROVE FALSE
    BY <2>2, <2>8 DEF MoveToTrash
  <2>9. ASSUME NEW op \in Usable, NEW x \in Object, NEW g \in DOMAIN deletions[x], NEW r \in 1 .. 2,
                Restore(op, x, g, r)
         PROVE  FALSE
    BY <2>2, <2>9 DEF Restore
  <2>10. ASSUME NEW x \in Object, Issue(x) \/ PreviewPurge(x) PROVE FALSE
    BY <2>2, <2>10 DEF Issue, PreviewPurge
  <2>11. ASSUME NEW x \in Object, ForeignEdit(x) PROVE FALSE
    BY <2>3, <2>11 DEF ForeignEdit
  <2>12. ASSUME NEW x \in Object, NEW t \in Object, AddLink(x, t) \/ RemoveLink(x, t) PROVE FALSE
    BY <2>2, <2>12 DEF AddLink, RemoveLink
  <2>13. PICK op \in Usable, a \in approvals : Purge(op, a)
    BY <2>4, <2>5, <2>6, <2>7, <2>8, <2>9, <2>10, <2>11, <2>12 DEF TrashNext
  <2>14. a.object = o
    BY <1>1, <2>13 DEF Purge, Exists, TrashIInv, TrashShapes
  <2>15. /\ Exact(o, a.generation, a.revision)
        /\ Referring(o) = {}
        /\ \E own : Binding(o, own) = a.binding
    BY <2>13, <2>14 DEF Purge, Blocked
  <2>16. a.binding.history = deletions[o] /\ a.binding.references = {}
    BY <2>15 DEF Binding
  <2>17. payload[o].content = Latest(o).content
    BY <2>15 DEF Exact
  <2>18. a.content = payload[o].content
    BY <1>1, <2>14, <2>16, <2>17 DEF TrashIInv, ApprovalsFit
  <2> QED
    BY <2>14, <2>15, <2>16, <2>18
<1> QED
  BY <1>1, TrashHolds, PTL DEF TrashSpec, PurgeIsAsApproved

(***************************************************************************)
(* ServerProjects: the inductive invariant                                  *)
(***************************************************************************)

Listed == [exists : BOOLEAN, offline : BOOLEAN]
ProjectThread ==
    [exists : BOOLEAN, revision : Nat, description : Nat, trashed : BOOLEAN, snapshots : SUBSET Nat]
Receipt == [offline : BOOLEAN, description : {-1, 0}]
Form == [project : Project \cup {"none"}, revision : Nat, description : Nat]

ProjShapes ==
    /\ listed \in [Project -> Listed] /\ threads \in [Project -> ProjectThread]
    /\ bound \in [Desktop -> Receipt] /\ told \in [Desktop -> SUBSET Receipt]
    /\ wanted \subseteq Desktop /\ texts \in Nat /\ draft \in Form
    /\ serving \in {Nobody} \cup [op : {"bind"}, project : Desktop] \cup [op : {"create"}, project : Created]

\* What is not there is as if it had never been, and shows a text that was written.
ThreadFits(s) == s.description \in 0 .. texts /\ (~s.exists => s = NoThread)

\* A desktop's project has a thread when there is a receipt, the receipt is every
\* answer it got, and both come after the sync project; while they are not written,
\* the desktop repeats its request.
BindFits(d) ==
    /\ bound[d] # NoBind <=> threads[d].exists
    /\ bound[d] = NoBind => told[d] = {}
    /\ told[d] \subseteq {bound[d]}
    /\ threads[d].exists => Known(d)
    /\ serving = [op |-> "bind", project |-> d] => Known(d) /\ ~threads[d].exists /\ d \in wanted

\* A handler that creates has made the thread.
CreateFits == \A p \in Created : serving = [op |-> "create", project |-> p] => threads[p].exists

\* A form that shows the revision of a thread shows its text.
FormFits(f) ==
    f.project \in Project =>
        /\ threads[f.project].exists /\ f.revision <= threads[f.project].revision
        /\ f.revision = threads[f.project].revision => f.description = threads[f.project].description

ProjIInv ==
    /\ ProjShapes
    /\ \A p \in Project : ThreadFits(threads[p])
    /\ \A d \in Desktop : BindFits(d)
    /\ CreateFits /\ FormFits(draft)
    /\ TextsRecoverable
    /\ ListingFailsOnlyInDoubt

LEMMA ProjectNames == "none" \notin Project /\ Desktop \cap Created = {}
BY ProjAssumption DEF Project

\* Texts stay where they are.
LEMMA TextsStay ==
    ASSUME TextsRecoverable, texts' = texts,
           \A p \in Project : threads[p].snapshots \cup {threads[p].description}
                                 \subseteq threads'[p].snapshots \cup {threads'[p].description}
    PROVE  TextsRecoverable'
BY DEF TextsRecoverable

\* A step that leaves the threads, the texts and the form alone.
LEMMA ThreadsRest ==
    ASSUME ProjIInv, UNCHANGED <<threads, draft, texts>>, ProjShapes', \A d \in Desktop : BindFits(d)',
           \A p \in Created : serving' = [op |-> "create", project |-> p] => threads[p].exists,
           \A p \in Project : Known(p)' /\ ~threads[p].exists => p \in wanted'
    PROVE  ProjIInv'
<1>1. TextsRecoverable'
  BY TextsStay DEF ProjIInv
<1>2. \A p \in Project : ThreadFits(threads[p])'
  BY DEF ProjIInv, ThreadFits
<1>3. CreateFits' /\ FormFits(draft)' /\ ListingFailsOnlyInDoubt'
  BY DEF ProjIInv, CreateFits, FormFits, ListingFailsOnlyInDoubt
<1> QED
  BY <1>1, <1>2, <1>3 DEF ProjIInv

LEMMA AskStep == ASSUME ProjIInv, NEW d \in Desktop, AskBind(d) PROVE ProjIInv'
<1>1. /\ ProjShapes /\ wanted' = wanted \cup {d}
      /\ UNCHANGED <<listed, threads, bound, serving, told, draft, texts>>
  BY DEF AskBind, ProjIInv
<1>2. ProjShapes'
  BY <1>1 DEF ProjShapes
<1>3. \A e \in Desktop : BindFits(e)'
  BY <1>1 DEF ProjIInv, BindFits, Known
<1>4. \A p \in Project : Known(p)' /\ ~threads[p].exists => p \in wanted'
  BY <1>1 DEF ProjIInv, ListingFailsOnlyInDoubt, Known
<1> QED
  BY <1>1, <1>2, <1>3, <1>4, ThreadsRest DEF ProjIInv, CreateFits

LEMMA RebindStep == ASSUME ProjIInv, NEW d \in Desktop, Rebind(d) PROVE ProjIInv'
<1>1. /\ ProjShapes /\ serving = Nobody /\ bound[d] # NoBind /\ wanted' \in {wanted, wanted \ {d}}
      /\ told' = [told EXCEPT ![d] = @ \cup {bound[d]}]
      /\ UNCHANGED <<listed, threads, bound, serving, draft, texts>>
  BY DEF Rebind, ProjIInv, Free
<1>2. /\ told' \in [Desktop -> SUBSET Receipt] /\ told'[d] = told[d] \cup {bound[d]}
      /\ \A e \in Desktop : e # d => told'[e] = told[e]
  BY <1>1 DEF ProjShapes
<1>3. ProjShapes'
  BY <1>1, <1>2 DEF ProjShapes
<1>4. \A e \in Desktop : serving' # [op |-> "bind", project |-> e]
  BY <1>1 DEF Nobody
<1>5. ASSUME NEW e \in Desktop PROVE BindFits(e)'
  <2>1. CASE e = d
    BY <1>1, <1>2, <1>4, <2>1 DEF ProjIInv, BindFits, Known
  <2>2. CASE e # d
    BY <1>1, <1>2, <1>4, <2>2 DEF ProjIInv, BindFits, Known
  <2> QED
    BY <2>1, <2>2
<1>6. threads[d].exists
  BY <1>1 DEF ProjIInv, BindFits
<1>7. \A p \in Project : Known(p)' /\ ~threads[p].exists => p \in wanted'
  BY <1>1, <1>6 DEF ProjIInv, ListingFailsOnlyInDoubt, Known
<1> QED
  BY <1>1, <1>3, <1>5, <1>7, ThreadsRest DEF ProjIInv, CreateFits

LEMMA BindSyncStep == ASSUME ProjIInv, NEW d \in Desktop, BindSync(d) PROVE ProjIInv'
<1>1. /\ ProjShapes /\ bound[d] = NoBind /\ d \in wanted
      /\ listed' = [listed EXCEPT ![d].exists = TRUE] /\ serving' = [op |-> "bind", project |-> d]
      /\ UNCHANGED <<threads, bound, wanted, told, draft, texts>>
  BY DEF BindSync, ProjIInv
<1>2. /\ listed' \in [Project -> Listed] /\ listed'[d].exists
      /\ \A p \in Project : p # d => listed'[p] = listed[p]
  <2>1. d \in Project
    BY DEF Project
  <2>2. PICK new : new = [listed[d] EXCEPT !.exists = TRUE]
    OBVIOUS
  <2>3. new \in Listed /\ new.exists
    BY <1>1, <2>1, <2>2 DEF ProjShapes, Listed
  <2>4. listed' = [listed EXCEPT ![d] = new]
    BY <1>1, <2>1, <2>2 DEF ProjShapes
  <2> QED
    BY <1>1, <2>1, <2>3, <2>4 DEF ProjShapes
<1>3. serving' \in [op : {"bind"}, project : Desktop] /\ serving'.op = "bind" /\ serving'.project = d
  BY <1>1
<1>4. ProjShapes'
  BY <1>1, <1>2, <1>3 DEF ProjShapes
<1>5. ASSUME NEW e \in Desktop PROVE BindFits(e)'
  <2>1. CASE e = d
    BY <1>1, <1>2, <2>1 DEF ProjIInv, BindFits, Known
  <2>2. CASE e # d
    <3>1. serving' # [op |-> "bind", project |-> e] /\ e \in Project
      BY <1>1, <2>2 DEF Project
    <3> QED
      BY <1>1, <1>2, <2>2, <3>1 DEF ProjIInv, BindFits, Known
  <2> QED
    BY <2>1, <2>2
<1>6. \A p \in Project : Known(p)' /\ ~threads[p].exists => p \in wanted'
  BY <1>1, <1>2 DEF ProjIInv, ListingFailsOnlyInDoubt, Known
<1>7. \A p \in Created : serving' # [op |-> "create", project |-> p]
  BY <1>3
<1> QED
  BY <1>1, <1>4, <1>5, <1>6, <1>7, ThreadsRest

LEMMA OfflineStep ==
    ASSUME ProjIInv, NEW p \in Project, NEW on \in BOOLEAN, SetOffline(p, on) PROVE ProjIInv'
<1>1. /\ ProjShapes /\ listed' = [listed EXCEPT ![p].offline = on]
      /\ UNCHANGED <<threads, bound, serving, wanted, told, draft, texts>>
  BY DEF SetOffline, ProjIInv
<1>2. listed' \in [Project -> Listed] /\ \A q \in Project : listed'[q].exists = listed[q].exists
  <2>1. PICK new : new = [listed[p] EXCEPT !.offline = on]
    OBVIOUS
  <2>2. new \in Listed /\ new.exists = listed[p].exists
    BY <1>1, <2>1 DEF ProjShapes, Listed
  <2>3. listed' = [listed EXCEPT ![p] = new]
    BY <1>1, <2>1 DEF ProjShapes
  <2> QED
    BY <1>1, <2>2, <2>3 DEF ProjShapes
<1>3. ProjShapes'
  BY <1>1, <1>2 DEF ProjShapes
<1>4. \A d \in Desktop : BindFits(d)'
  <2>1. Desktop \subseteq Project
    BY DEF Project
  <2> QED
    BY <1>1, <1>2, <2>1 DEF ProjIInv, BindFits, Known
<1>5. \A q \in Project : Known(q)' /\ ~threads[q].exists => q \in wanted'
  BY <1>1, <1>2 DEF ProjIInv, ListingFailsOnlyInDoubt, Known
<1> QED
  BY <1>1, <1>3, <1>4, <1>5, ThreadsRest DEF ProjIInv, CreateFits

\* The handler that held the lock is gone.
LEMMA NobodyServes == \A d : Nobody # [op |-> "bind", project |-> d] /\ Nobody # [op |-> "create", project |-> d]
BY DEF Nobody

LEMMA DeathStep == ASSUME ProjIInv, HandlerDies PROVE ProjIInv'
<1>1. /\ ProjShapes /\ serving' = Nobody
      /\ UNCHANGED <<listed, threads, bound, wanted, told, draft, texts>>
  BY DEF HandlerDies, ProjIInv
<1>2. ProjShapes'
  BY <1>1 DEF ProjShapes
<1>3. \A d \in Desktop : BindFits(d)'
  BY <1>1, NobodyServes DEF ProjIInv, BindFits, Known
<1>4. \A p \in Project : Known(p)' /\ ~threads[p].exists => p \in wanted'
  BY <1>1 DEF ProjIInv, ListingFailsOnlyInDoubt, Known
<1> QED
  BY <1>1, <1>2, <1>3, <1>4, NobodyServes, ThreadsRest

LEMMA CreateSyncStep == ASSUME ProjIInv, NEW p \in Created, CreateSync(p) PROVE ProjIInv'
<1>1. /\ ProjShapes /\ serving = [op |-> "create", project |-> p] /\ serving' = Nobody
      /\ listed' = [listed EXCEPT ![p].exists = TRUE]
      /\ UNCHANGED <<threads, bound, wanted, told, draft, texts>>
  BY DEF CreateSync, ProjIInv
<1>2. /\ listed' \in [Project -> Listed]
      /\ \A q \in Project : listed'[q].exists = (q = p \/ listed[q].exists)
  <2>1. p \in Project
    BY DEF Project
  <2>2. PICK new : new = [listed[p] EXCEPT !.exists = TRUE]
    OBVIOUS
  <2>3. new \in Listed /\ new.exists
    BY <1>1, <2>1, <2>2 DEF ProjShapes, Listed
  <2>4. listed' = [listed EXCEPT ![p] = new]
    BY <1>1, <2>1, <2>2 DEF ProjShapes
  <2>5. \A q \in Project : listed[q].exists \in BOOLEAN
    BY <1>1 DEF ProjShapes, Listed
  <2> QED
    BY <1>1, <2>1, <2>3, <2>4, <2>5 DEF ProjShapes
<1>3. ProjShapes'
  BY <1>1, <1>2 DEF ProjShapes
<1>4. \A d \in Desktop : BindFits(d)'
  <2>1. Desktop \subseteq Project
    BY DEF Project
  <2> QED
    BY <1>1, <1>2, <2>1, NobodyServes DEF ProjIInv, BindFits, Known
<1>5. threads[p].exists
  BY <1>1 DEF ProjIInv, CreateFits
<1>6. \A q \in Project : Known(q)' /\ ~threads[q].exists => q \in wanted'
  BY <1>1, <1>2, <1>5 DEF ProjIInv, ListingFailsOnlyInDoubt, Known
<1> QED
  BY <1>1, <1>3, <1>4, <1>6, NobodyServes, ThreadsRest

\* One thread changes.
LEMMA OneThread ==
    ASSUME ProjShapes, NEW p \in Project, NEW new \in ProjectThread, threads' = [threads EXCEPT ![p] = new]
    PROVE  /\ threads' \in [Project -> ProjectThread] /\ threads'[p] = new
           /\ \A q \in Project : q # p => threads'[q] = threads[q]
BY DEF ProjShapes

LEMMA FreshThread ==
    /\ NewThread \in ProjectThread /\ NewThread.exists /\ NewThread.description = 0
    /\ NoThread.description = 0 /\ NoThread.snapshots = {}
BY DEF NewThread, NoThread, ProjectThread

LEMMA CreateThreadStep == ASSUME ProjIInv, NEW p \in Created, CreateThread(p) PROVE ProjIInv'
<1>1. /\ ProjShapes /\ ~threads[p].exists /\ threads' = [threads EXCEPT ![p] = NewThread]
      /\ serving = Nobody /\ serving' = [op |-> "create", project |-> p]
      /\ UNCHANGED <<listed, bound, wanted, told, draft, texts>>
  BY DEF CreateThread, ProjIInv, Free
<1>2. p \in Project /\ p \notin Desktop /\ Desktop \subseteq Project
  BY ProjectNames DEF Project
<1>3. /\ threads' \in [Project -> ProjectThread] /\ threads'[p] = NewThread
      /\ \A q \in Project : q # p => threads'[q] = threads[q]
  BY <1>1, <1>2, FreshThread, OneThread
<1>4. serving' \in [op : {"create"}, project : Created] /\ serving'.op = "create" /\ serving'.project = p
  BY <1>1
<1>5. ProjShapes'
  BY <1>1, <1>3, <1>4 DEF ProjShapes
<1>6. \A q \in Project : ThreadFits(threads[q])'
  <2>1. ThreadFits(NewThread)'
    BY <1>1, FreshThread DEF ThreadFits, ProjShapes
  <2>2. ASSUME NEW q \in Project, q # p PROVE ThreadFits(threads[q])'
    BY <1>1, <1>3, <2>2 DEF ThreadFits, ProjIInv
  <2> QED
    BY <1>3, <2>1, <2>2 DEF ThreadFits
<1>7. ASSUME NEW d \in Desktop PROVE BindFits(d)'
  <2>1. d # p /\ threads'[d] = threads[d]
    BY <1>2, <1>3
  <2>2. serving' # [op |-> "bind", project |-> d]
    BY <1>4
  <2> QED
    BY <1>1, <2>1, <2>2 DEF ProjIInv, BindFits, Known
<1>8. CreateFits'
  <2> SUFFICES ASSUME NEW q \in Created, serving' = [op |-> "create", project |-> q] PROVE threads'[q].exists
    BY DEF CreateFits
  <2>1. q = p
    BY <1>4
  <2> QED
    BY <1>3, <2>1, FreshThread
<1>9. FormFits(draft)'
  <2>1. draft.project \in Project => draft.project # p
    BY <1>1 DEF ProjIInv, FormFits
  <2> QED
    BY <1>1, <1>3, <2>1 DEF ProjIInv, FormFits
<1>10. TextsRecoverable'
  <2>1. threads[p] = NoThread
    BY <1>1, <1>2 DEF ProjIInv, ThreadFits
  <2>2. ASSUME NEW q \in Project
        PROVE  threads[q].snapshots \cup {threads[q].description}
                  \subseteq threads'[q].snapshots \cup {threads'[q].description}
    <3>1. CASE q = p
      BY <1>3, <2>1, <3>1, FreshThread
    <3>2. CASE q # p
      BY <1>3, <3>2
    <3> QED
      BY <3>1, <3>2
  <2> QED
    BY <1>1, <2>2, TextsStay DEF ProjIInv
<1>11. ListingFailsOnlyInDoubt'
  BY <1>1, <1>3, FreshThread DEF ProjIInv, ListingFailsOnlyInDoubt, Known
<1> QED
  BY <1>5, <1>6, <1>7, <1>8, <1>9, <1>10, <1>11 DEF ProjIInv

LEMMA BindCommitStep == ASSUME ProjIInv, NEW d \in Desktop, BindCommit(d) PROVE ProjIInv'
<1>1. PICK result : result = [offline |-> listed[d].offline, description |-> 0]
  OBVIOUS
<1>2. /\ ProjShapes /\ serving = [op |-> "bind", project |-> d] /\ serving' = Nobody
      /\ threads' = [threads EXCEPT ![d] = NewThread] /\ bound' = [bound EXCEPT ![d] = result]
      /\ \/ told' = [told EXCEPT ![d] = @ \cup {result}] /\ wanted' = wanted \ {d}
         \/ UNCHANGED <<told, wanted>>
      /\ UNCHANGED <<listed, draft, texts>>
  BY <1>1 DEF BindCommit, ProjIInv
<1>3. d \in Project /\ Desktop \subseteq Project /\ d \notin Created
  BY ProjectNames DEF Project
<1>4. result \in Receipt /\ result # NoBind
  <2>1. listed[d].offline \in BOOLEAN
    BY <1>2, <1>3 DEF ProjShapes, Listed
  <2> QED
    BY <1>1, <2>1 DEF Receipt, NoBind
<1>5. /\ threads' \in [Project -> ProjectThread] /\ threads'[d] = NewThread
      /\ \A q \in Project : q # d => threads'[q] = threads[q]
  BY <1>2, <1>3, FreshThread, OneThread
<1>6. /\ bound' \in [Desktop -> Receipt] /\ bound'[d] = result
      /\ \A e \in Desktop : e # d => bound'[e] = bound[e]
  BY <1>2, <1>4 DEF ProjShapes
<1>7. Known(d) /\ ~threads[d].exists /\ bound[d] = NoBind /\ told[d] = {}
  BY <1>2 DEF ProjIInv, BindFits
<1>8. /\ told' \in [Desktop -> SUBSET Receipt] /\ told'[d] \subseteq {result}
      /\ \A e \in Desktop : e # d => told'[e] = told[e]
  <2>1. CASE UNCHANGED told
    BY <1>2, <1>7, <2>1 DEF ProjShapes
  <2>2. CASE told' = [told EXCEPT ![d] = @ \cup {result}]
    BY <1>2, <1>4, <1>7, <2>2 DEF ProjShapes
  <2> QED
    BY <1>2, <2>1, <2>2
<1>9. wanted' \in {wanted, wanted \ {d}} /\ wanted' \subseteq Desktop
  BY <1>2 DEF ProjShapes
<1>10. ProjShapes'
  BY <1>2, <1>5, <1>6, <1>8, <1>9 DEF ProjShapes
<1>11. \A q \in Project : ThreadFits(threads[q])'
  <2>1. ThreadFits(NewThread)'
    BY <1>2, FreshThread DEF ThreadFits, ProjShapes
  <2>2. ASSUME NEW q \in Project, q # d PROVE ThreadFits(threads[q])'
    BY <1>2, <1>5, <2>2 DEF ThreadFits, ProjIInv
  <2> QED
    BY <1>5, <2>1, <2>2 DEF ThreadFits
<1>12. ASSUME NEW e \in Desktop PROVE BindFits(e)'
  <2>1. CASE e = d
    BY <1>2, <1>4, <1>5, <1>6, <1>7, <1>8, <2>1, FreshThread, NobodyServes DEF BindFits, Known
  <2>2. CASE e # d
    <3>1. threads'[e] = threads[e] /\ bound'[e] = bound[e] /\ told'[e] = told[e]
      BY <1>3, <1>5, <1>6, <1>8, <2>2
    <3> QED
      BY <1>2, <3>1, NobodyServes DEF ProjIInv, BindFits, Known
  <2> QED
    BY <2>1, <2>2
<1>13. CreateFits'
  BY <1>2, NobodyServes DEF CreateFits
<1>14. FormFits(draft)'
  <2>1. draft.project \in Project => draft.project # d
    BY <1>7 DEF ProjIInv, FormFits
  <2> QED
    BY <1>2, <1>5, <2>1 DEF ProjIInv, FormFits
<1>15. TextsRecoverable'
  <2>1. threads[d] = NoThread
    BY <1>3, <1>7 DEF ProjIInv, ThreadFits
  <2>2. ASSUME NEW q \in Project
        PROVE  threads[q].snapshots \cup {threads[q].description}
                  \subseteq threads'[q].snapshots \cup {threads'[q].description}
    <3>1. CASE q = d
      BY <1>5, <2>1, <3>1, FreshThread
    <3>2. CASE q # d
      BY <1>5, <3>2
    <3> QED
      BY <3>1, <3>2
  <2> QED
    BY <1>2, <2>2, TextsStay DEF ProjIInv
<1>16. ListingFailsOnlyInDoubt'
  BY <1>2, <1>5, <1>9, FreshThread DEF ProjIInv, ListingFailsOnlyInDoubt, Known
<1> QED
  BY <1>10, <1>11, <1>12, <1>13, <1>14, <1>15, <1>16 DEF ProjIInv

\* A thread that is there stays, in another state; nothing else but the texts and the
\* form changes.
LEMMA ThreadMoves ==
    ASSUME ProjIInv, NEW p \in Project, NEW new \in ProjectThread, threads' = [threads EXCEPT ![p] = new],
           threads[p].exists, new.exists, texts' \in Nat, texts <= texts', new.description \in 0 .. texts',
           UNCHANGED <<listed, bound, serving, wanted, told>>,
           draft' \in Form, FormFits(draft)', TextsRecoverable'
    PROVE  ProjIInv'
<1>1. /\ ProjShapes /\ threads' \in [Project -> ProjectThread] /\ threads'[p] = new
      /\ \A q \in Project : q # p => threads'[q] = threads[q]
  BY OneThread DEF ProjIInv
<1>2. ProjShapes'
  BY <1>1 DEF ProjShapes
<1>3. \A q \in Project : threads'[q].exists <=> threads[q].exists
  BY <1>1
<1>4. ASSUME NEW q \in Project PROVE ThreadFits(threads[q])'
  <2>1. CASE q = p
    BY <1>1, <2>1 DEF ThreadFits
  <2>2. CASE q # p
    <3>1. threads'[q] = threads[q] /\ ThreadFits(threads[q]) /\ texts \in Nat /\ texts' \in Nat
      BY <1>1, <2>2 DEF ProjIInv, ProjShapes
    <3> QED
      BY <3>1 DEF ThreadFits
  <2> QED
    BY <2>1, <2>2
<1>5. \A d \in Desktop : BindFits(d)'
  <2>1. Desktop \subseteq Project
    BY DEF Project
  <2> QED
    BY <1>3, <2>1 DEF ProjIInv, BindFits, Known
<1>6. CreateFits'
  BY <1>3 DEF ProjIInv, CreateFits, Project
<1>7. ListingFailsOnlyInDoubt'
  BY <1>3 DEF ProjIInv, ListingFailsOnlyInDoubt, Known
<1> QED
  BY <1>2, <1>4, <1>5, <1>6, <1>7 DEF ProjIInv

\* A text is saved over another, in a thread that is read.
LEMMA SaveStep ==
    ASSUME ProjIInv, NEW p \in Project, Readable(p), SavedText(p),
           UNCHANGED <<listed, bound, serving, wanted, told>>, draft' \in {draft, NoDraft}
    PROVE  ProjIInv'
<1>1. PICK old \in ProjectThread : old = threads[p] /\ old.exists
  BY DEF ProjIInv, ProjShapes, Readable
<1>2. PICK new : new = [old EXCEPT !.revision = @ + 1, !.description = texts + 1,
                                  !.snapshots = @ \cup {old.description}]
  OBVIOUS
<1>3. ProjShapes /\ texts \in Nat /\ texts' = texts + 1
  BY DEF ProjIInv, ProjShapes, SavedText
<1>4. /\ new \in ProjectThread /\ new.exists /\ new.description = texts + 1 /\ new.revision = old.revision + 1
      /\ new.snapshots = old.snapshots \cup {old.description}
  <2>1. PICK a, b, c : a = old.revision + 1 /\ b = texts + 1 /\ c = old.snapshots \cup {old.description}
    OBVIOUS
  <2>2. a \in Nat /\ b \in Nat /\ c \in SUBSET Nat
    BY <1>3, <2>1 DEF ProjectThread
  <2>3. new = [old EXCEPT !.revision = a, !.description = b, !.snapshots = c]
    BY <1>2, <2>1
  <2>4. /\ new \in ProjectThread /\ new.exists = old.exists /\ new.description = b /\ new.revision = a
        /\ new.snapshots = c
    BY <2>2, <2>3 DEF ProjectThread
  <2> QED
    BY <1>1, <2>1, <2>4
<1>5. threads' = [threads EXCEPT ![p] = new]
  BY <1>1, <1>2, <1>3 DEF SavedText, ProjShapes
<1>6. /\ threads'[p] = new /\ \A q \in Project : q # p => threads'[q] = threads[q]
  BY <1>3, <1>4, <1>5, OneThread
<1>7. texts <= texts' /\ texts' \in Nat /\ new.description \in 0 .. texts'
  BY <1>3, <1>4
<1>8. draft' \in Form /\ FormFits(draft)'
  <2>1. CASE draft' = NoDraft
    BY <2>1, ProjectNames DEF NoDraft, Form, FormFits
  <2>2. CASE draft' = draft
    <3>1. draft \in Form /\ FormFits(draft)
      BY DEF ProjIInv, ProjShapes
    <3>2. CASE draft.project = p
      <4>1. draft.revision <= old.revision /\ draft.revision \in Nat /\ old.revision \in Nat
        BY <1>1, <3>1, <3>2 DEF FormFits, Form, ProjectThread
      <4>2. draft.revision <= new.revision /\ draft.revision # new.revision
        BY <1>4, <4>1
      <4> QED
        BY <1>4, <1>6, <2>2, <3>1, <3>2, <4>2 DEF FormFits
    <3>3. CASE draft.project # p
      BY <1>6, <2>2, <3>1, <3>3 DEF FormFits
    <3> QED
      BY <3>2, <3>3
  <2> QED
    BY <2>1, <2>2
<1>9. TextsRecoverable'
  <2> SUFFICES ASSUME NEW n \in 1 .. texts'
               PROVE  \E q \in Project : n \in threads'[q].snapshots \cup {threads'[q].description}
    BY DEF TextsRecoverable
  <2>1. CASE n = texts + 1
    BY <1>4, <1>6, <2>1
  <2>2. CASE n # texts + 1
    <3>1. n \in 1 .. texts
      BY <1>3, <2>2
    <3>2. PICK q \in Project : n \in threads[q].snapshots \cup {threads[q].description}
      BY <3>1 DEF ProjIInv, TextsRecoverable
    <3>3. CASE q = p
      BY <1>1, <1>4, <1>6, <3>2, <3>3
    <3>4. CASE q # p
      BY <1>6, <3>2, <3>4
    <3> QED
      BY <3>3, <3>4
  <2> QED
    BY <2>1, <2>2
<1> QED
  BY <1>1, <1>4, <1>5, <1>7, <1>8, <1>9, ThreadMoves

LEMMA TrashThreadStep == ASSUME ProjIInv, NEW p \in Project, TrashThread(p) PROVE ProjIInv'
<1>1. /\ ProjShapes /\ threads[p].exists /\ threads' = [threads EXCEPT ![p].trashed = ~@]
      /\ UNCHANGED <<listed, bound, serving, wanted, told, draft, texts>>
  BY DEF TrashThread, ProjIInv
<1>2. PICK old \in ProjectThread : old = threads[p]
  BY <1>1 DEF ProjShapes
<1>3. PICK new : new = [old EXCEPT !.trashed = ~@]
  OBVIOUS
<1>4. /\ new \in ProjectThread /\ new.exists = old.exists /\ new.description = old.description
      /\ new.revision = old.revision /\ new.snapshots = old.snapshots
  BY <1>3 DEF ProjectThread
<1>5. threads' = [threads EXCEPT ![p] = new]
  BY <1>1, <1>2, <1>3 DEF ProjShapes
<1>6. /\ threads'[p] = new /\ \A q \in Project : q # p => threads'[q] = threads[q]
  BY <1>1, <1>4, <1>5, OneThread
<1>7. texts <= texts' /\ texts' \in Nat /\ new.description \in 0 .. texts' /\ new.exists
  <2>1. texts \in Nat /\ old.description \in 0 .. texts
    BY <1>1, <1>2 DEF ProjIInv, ProjShapes, ThreadFits
  <2> QED
    BY <1>1, <1>2, <1>4, <2>1
<1>8. draft' \in Form /\ FormFits(draft)'
  BY <1>1, <1>2, <1>4, <1>6 DEF ProjIInv, ProjShapes, FormFits
<1>9. TextsRecoverable'
  <2>1. ASSUME NEW q \in Project
        PROVE  threads[q].snapshots \cup {threads[q].description}
                  \subseteq threads'[q].snapshots \cup {threads'[q].description}
    BY <1>2, <1>4, <1>6
  <2> QED
    BY <1>1, <2>1, TextsStay DEF ProjIInv
<1> QED
  BY <1>1, <1>4, <1>5, <1>7, <1>8, <1>9, ThreadMoves

LEMMA OpenStep == ASSUME ProjIInv, NEW p \in Project, OpenForm(p) PROVE ProjIInv'
<1>1. /\ ProjShapes /\ threads[p].exists
      /\ draft' = [project |-> p, revision |-> threads[p].revision, description |-> threads[p].description]
      /\ UNCHANGED <<listed, threads, bound, serving, wanted, told, texts>>
  BY DEF OpenForm, ProjIInv, Readable
<1>2. threads[p] \in ProjectThread
  BY <1>1 DEF ProjShapes
<1>3. draft' \in Form /\ FormFits(draft)'
  BY <1>1, <1>2 DEF Form, FormFits, ProjectThread
<1>4. ProjShapes'
  BY <1>1, <1>3 DEF ProjShapes
<1>5. \A q \in Project : ThreadFits(threads[q])'
  BY <1>1 DEF ProjIInv, ThreadFits
<1>6. \A d \in Desktop : BindFits(d)'
  BY <1>1 DEF ProjIInv, BindFits, Known
<1>7. CreateFits' /\ TextsRecoverable' /\ ListingFailsOnlyInDoubt'
  BY <1>1 DEF ProjIInv, CreateFits, TextsRecoverable, ListingFailsOnlyInDoubt, Known
<1> QED
  BY <1>3, <1>4, <1>5, <1>6, <1>7 DEF ProjIInv

LEMMA ProjStarts == ProjInit => ProjIInv
<1> SUFFICES ASSUME ProjInit PROVE ProjIInv
  OBVIOUS
<1>1. NoThread \in ProjectThread /\ ~NoThread.exists /\ NoThread.description = 0
  BY DEF NoThread, ProjectThread
<1>2. NoProject \in Listed /\ ~NoProject.exists /\ NoBind \in Receipt /\ NoDraft \in Form /\ NoDraft.project = "none"
  BY DEF NoProject, Listed, NoBind, Receipt, NoDraft, Form
<1>3. ProjShapes
  BY <1>1, <1>2 DEF ProjInit, ProjShapes
<1>4. \A p \in Project : ThreadFits(threads[p])
  BY <1>1 DEF ProjInit, ThreadFits
<1>5. \A d \in Desktop : BindFits(d)
  <2>1. Desktop \subseteq Project
    BY DEF Project
  <2> QED
    BY <1>1, <2>1, NobodyServes DEF ProjInit, BindFits
<1>6. CreateFits /\ FormFits(draft) /\ TextsRecoverable /\ ListingFailsOnlyInDoubt
  BY <1>2, NobodyServes, ProjectNames
     DEF ProjInit, CreateFits, FormFits, TextsRecoverable, ListingFailsOnlyInDoubt, Known
<1> QED
  BY <1>3, <1>4, <1>5, <1>6 DEF ProjIInv

LEMMA ProjSteps == ProjIInv /\ [ProjNext]_projVars => ProjIInv'
<1> SUFFICES ASSUME ProjIInv, [ProjNext]_projVars PROVE ProjIInv'
  OBVIOUS
<1>1. CASE UNCHANGED projVars
  BY <1>1 DEF projVars, ProjIInv, ProjShapes, ThreadFits, BindFits, CreateFits, FormFits, TextsRecoverable,
              ListingFailsOnlyInDoubt, Known
<1>2. ASSUME NEW d \in Desktop, AskBind(d) \/ Bind(d) PROVE ProjIInv'
  BY <1>2, AskStep, RebindStep, BindSyncStep, BindCommitStep DEF Bind
<1>3. CASE CreateProject
  BY <1>3, CreateThreadStep, CreateSyncStep DEF CreateProject
<1>4. ASSUME NEW p \in Project, OpenForm(p) \/ TrashThread(p) \/ \E on \in BOOLEAN : SetOffline(p, on)
      PROVE  ProjIInv'
  BY <1>4, OpenStep, TrashThreadStep, OfflineStep
<1>5. ASSUME NEW p \in Project, PutProjectThread(p) \/ MergeThread(p) PROVE ProjIInv'
  <2>1. /\ Readable(p) /\ SavedText(p) /\ UNCHANGED <<listed, bound, serving, wanted, told>>
        /\ draft' \in {draft, NoDraft}
    BY <1>5 DEF PutProjectThread, MergeThread
  <2> QED
    BY <2>1, SaveStep
<1>6. CASE HandlerDies
  BY <1>6, DeathStep
<1> QED
  BY <1>1, <1>2, <1>3, <1>4, <1>5, <1>6 DEF ProjNext

LEMMA ProjHolds == ProjIInv => ProjInv
<1> SUFFICES ASSUME ProjIInv PROVE ProjInv
  OBVIOUS
<1>1. ProjShapes
  BY DEF ProjIInv
<1>2. ProjTypeOK
  <2>1. serving.project \in Project \cup {"none"}
    BY <1>1 DEF ProjShapes, Nobody, Project
  <2>2. \A p \in Project : threads[p].description \in 0 .. texts
    BY DEF ProjIInv, ThreadFits
  <2> QED
    BY <1>1, <2>1, <2>2 DEF ProjTypeOK, ProjIInv, ProjShapes, BindFits
<1>3. NoBindRefused
  BY DEF NoBindRefused, BindRefused, Readable, ProjIInv, BindFits
<1>4. BindAnswersAgree
  <2> SUFFICES ASSUME NEW d \in Desktop
               PROVE  Cardinality(told[d]) <= 1 /\ told[d] \subseteq {bound[d]}
    BY DEF BindAnswersAgree
  <2>1. told[d] \subseteq {bound[d]}
    BY DEF ProjIInv, BindFits
  <2>2. told[d] = {} \/ told[d] = {bound[d]}
    BY <2>1
  <2>3. Cardinality(told[d]) \in {0, 1}
    BY <2>2, FS_EmptySet, FS_Singleton
  <2> QED
    BY <2>1, <2>3
<1> QED
  BY <1>2, <1>3, <1>4 DEF ProjInv, ProjIInv

\* Wherever handlers die between the two stores and answers are lost: a desktop that
\* repeats its bind is accepted and gets the one answer, no saved text is gone, and
\* only a project whose bind is still repeated can be without its thread
\* (bind_project, create, put_thread).
THEOREM BindsAreAnsweredAlike == ProjSpec => []ProjInv
<1>1. ProjInit => ProjIInv
  BY ProjStarts
<1>2. ProjIInv /\ [ProjNext]_projVars => ProjIInv'
  BY ProjSteps
<1>3. ProjIInv => ProjInv
  BY ProjHolds
<1> QED
  BY <1>1, <1>2, <1>3, PTL DEF ProjSpec

\* A form that is saved replaces the text that it showed (put_thread's revision).
THEOREM FormsShowWhatTheyReplace == ProjSpec => FormsSeeWhatTheyReplace
<1>1. ProjInit => ProjIInv
  BY ProjStarts
<1>2. ProjIInv /\ [ProjNext]_projVars => ProjIInv'
  BY ProjSteps
<1>3. ASSUME ProjIInv, [ProjNext]_projVars
      PROVE  [\A p \in Project : draft.project = p /\ draft' = NoDraft =>
                 draft.description = threads[p].description]_projVars
  <2> SUFFICES ASSUME NEW p \in Project, draft.project = p, draft' = NoDraft, ProjNext
               PROVE  draft.description = threads[p].description
    BY <1>3
  <2>1. draft' # draft
    BY ProjectNames DEF NoDraft
  <2>2. ~\E q \in Project : OpenForm(q)
    BY ProjectNames DEF NoDraft, OpenForm
  <2>3. PICK q \in Project : PutProjectThread(q)
    BY <2>1, <2>2 DEF ProjNext, AskBind, Bind, Rebind, BindSync, BindCommit, CreateProject, CreateThread,
                      CreateSync, MergeThread, TrashThread, SetOffline, HandlerDies
  <2>4. q = p /\ draft.revision = threads[p].revision
    BY <2>3 DEF PutProjectThread
  <2> QED
    BY <1>3, <2>4 DEF ProjIInv, FormFits
<1> QED
  BY <1>1, <1>2, <1>3, PTL DEF ProjSpec, FormsSeeWhatTheyReplace

(***************************************************************************)
(* MetadataReplica: the inductive invariant                                 *)
(***************************************************************************)

Path == {"title", "node"}
Titles == 0 .. written
Nodes == WriteValue \cup {None}
Lives == Life \cup {None}

\* Documents of the values written so far.
Text == [title : Titles, node : Nodes, life : Lives]
TitleDispute == [path : {"title"}, old : Titles, incoming : Titles, current : Titles]
NodeDispute == [path : {"node"}, old : Nodes, incoming : Nodes, current : Nodes]
Reasons == {"stale_writer", "edit_of_trashed", "no_generation", "delete_edit", "stale_generation", "gap",
            "lifecycle_conflict"}
Refusals == [reason : Reasons, incoming : Lives, current : Lives, payload : Nodes, open : BOOLEAN]

MetaShapes ==
    /\ written \in 0 .. MaxEdits
    /\ docs \in [Site -> [title : Titles, node : Nodes, life : Lives, native : BOOLEAN, burnt : BOOLEAN]]
    /\ base \in [Replica -> Text]
    /\ pending \in [Replica -> {None} \cup [base : Text, document : Text]]
    /\ receipt \in [Replica -> {None} \cup Text]
    /\ answered \in [Replica -> BOOLEAN] /\ absorbed \in [Replica -> BOOLEAN]
    /\ disputes \in [Site -> SUBSET (TitleDispute \cup NodeDispute)]
    /\ refused \in [Site -> SUBSET Refusals]
    /\ past \in [1 .. MaxEdits -> SUBSET WriteValue] /\ known \in [Site -> SUBSET WriteValue]
    /\ \A w \in 1 .. MaxEdits : w > written => past[w] = {}
    /\ metaCount \in [acts : Nat, upsets : Nat, created : BOOLEAN, purged : BOOLEAN]

Doubtful(r) == pending[r] # None               \* an operation is under way
Merged(r) == Doubtful(r) /\ receipt[r] # None  \* the server has merged it

PassesFit ==
    \A r \in Replica :
        /\ Doubtful(r) => pending[r].base = base[r]
        /\ answered[r] => Merged(r)
        /\ Doubtful(r) /\ absorbed[r] => Merged(r)

LivesFit == \A s \in Site : docs[s].node = None => docs[s].life = None

NodeIsNew ==
    ~metaCount.created =>
        /\ \A s \in Site : docs[s].node = None /\ \A d \in disputes[s] : d.path # "node"
        /\ \A r \in Replica : /\ base[r].node = None
                              /\ Doubtful(r) => pending[r].document.node = None
                              /\ Merged(r) => receipt[r].node = None

-----------------------------------------------------------------------------
(* What is written survives *)

\* A site has a value, itself or in its journal.
Holds(s, p, x) ==
    docs[s][p] = x \/ \E d \in disputes[s] : d.path = p /\ x \in {d.incoming, d.current}

\* What a desktop has is not what it last had in common with the server, and the
\* operation under way either brings it there or leaves it here.
Ahead(r, p, x) ==
    IF Merged(r) THEN receipt[r][p] # x /\ (absorbed[r] \/ pending[r].document[p] # x)
    ELSE base[r][p] # x \/ (Doubtful(r) /\ pending[r].document[p] # x)

Survives(p, x) == Holds(Server, p, x) \/ \E r \in Replica : Holds(r, p, x) /\ Ahead(r, p, x)

\* A value that no owner discarded leaves a desktop only when an answer replaces it.
Kept(r, p, x) ==
    /\ base[r][p] = x /\ ~Merged(r) /\ (Doubtful(r) => pending[r].document[p] # x) => Holds(r, p, x)
    /\ Doubtful(r) /\ ~absorbed[r] /\ pending[r].document[p] = x => docs[r][p] = x
    /\ Merged(r) /\ absorbed[r] /\ receipt[r][p] = x => Holds(r, p, x)

EditsFit ==
    \A x \in WriteValue \ retired :
        /\ \E p \in Path : Survives(p, x)
        /\ \A r \in Replica, p \in Path : Kept(r, p, x)

-----------------------------------------------------------------------------
(* Who knows what *)

LastCommon(r) == IF Merged(r) THEN receipt[r] ELSE base[r]

\* What a site has it knows, and what the author of something known knew.
KnowledgeIsClosed ==
    /\ \A s \in Site, p \in Path : \A x \in WriteValue : Holds(s, p, x) => x \in known[s]
    /\ \A s \in Site : \A w \in known[s] : past[w] \subseteq known[s]
    /\ \A w \in WriteValue : \A v \in past[w] : past[v] \subseteq past[w]
    /\ \A r \in Replica : /\ Doubtful(r) => Learnt(pending[r].document) \subseteq known[r]
                          /\ Merged(r) => Learnt(receipt[r]) \subseteq known[Server]

\* Without purges a task that the last common document has is there.
NodesStay ==
    \A r \in Replica :
        /\ base[r].node # None => docs[Server].node # None
        /\ ~Doubtful(r) /\ base[r].node # None => docs[r].node # None
        /\ Doubtful(r) /\ base[r].node # None => pending[r].document.node # None
        /\ Doubtful(r) /\ pending[r].document.node # None => docs[r].node # None
        /\ Merged(r) /\ pending[r].document.node # None => receipt[r].node # None
        /\ Merged(r) /\ receipt[r].node # None => docs[Server].node # None
        /\ Merged(r) /\ absorbed[r] /\ receipt[r].node # None => docs[r].node # None

Unsent(r, p, x) == ~Doubtful(r) /\ docs[r][p] = x /\ base[r][p] # x
OnItsWay(r, p, x) == Doubtful(r) /\ ~Merged(r) /\ pending[r].document[p] = x /\ base[r][p] # x
Later(r, p, x) ==
    Doubtful(r) /\ docs[r][p] = x /\ pending[r].document[p] # x /\ (Merged(r) => receipt[r][p] # x)

\* What a desktop has not brought to the server yet nobody else knows.
UnsentIsUnknown(r, p, x) ==
    /\ Unsent(r, p, x) \/ OnItsWay(r, p, x) \/ Later(r, p, x) =>
          \A s \in Site \ {r} : x \notin known[s]
    /\ Later(r, p, x) /\ ~Merged(r) => x \notin Learnt(pending[r].document)
    /\ Merged(r) /\ absorbed[r] /\ docs[r][p] = x /\ pending[r].document[p] = x => receipt[r][p] = x

\* What the server has, and the desktop did not find there, the desktop does not know.
NewsIsUnknown(r, p, x) ==
    /\ docs[Server][p] = x /\ LastCommon(r)[p] # x =>
          x \notin known[r] /\ (Merged(r) => x \notin Learnt(receipt[r]))
    /\ Merged(r) /\ ~absorbed[r] /\ receipt[r][p] = x /\ pending[r].document[p] # x => x \notin known[r]

Independent(d) ==
    {d.incoming, d.current} \subseteq WriteValue \ decided =>
        d.incoming \notin past[d.current] /\ d.current \notin past[d.incoming]

KnowledgeFits ==
    /\ KnowledgeIsClosed /\ NodesStay
    /\ \A x \in WriteValue \ decided, r \in Replica, p \in Path : UnsentIsUnknown(r, p, x) /\ NewsIsUnknown(r, p, x)
    /\ \A s \in Site : \A d \in disputes[s] : Independent(d)

MetaIInv ==
    /\ MetaShapes /\ PassesFit /\ LivesFit
    /\ NothingRefused => NodeIsNew /\ EditsFit
    /\ Undisturbed => KnowledgeFits

(***************************************************************************)
(* MetadataReplica: proofs                                                  *)
(***************************************************************************)

LEMMA NoneApart == None \notin Nat /\ Server \in Site /\ Replica \subseteq Site /\ Server \notin Replica
BY MetaAssumption DEF Site

\* A document's leaves, by their paths.
LEMMA LeavesTyped ==
    ASSUME MetaShapes, NEW doc \in Text
    PROVE  /\ doc["title"] = doc.title /\ doc["node"] = doc.node
           /\ \A p \in Path : doc[p] \in Nat \cup {None}
           /\ doc.title \in Titles /\ doc.node \in Nodes /\ doc.life \in Lives
           /\ doc # None
<1>1. Titles \subseteq Nat /\ WriteValue \subseteq Nat
  BY DEF MetaShapes, Titles, WriteValue
<1>2. doc.title \in Titles /\ doc.node \in Nodes /\ doc.life \in Lives
  BY DEF Text
<1>3. doc \in Document
  BY <1>1, <1>2 DEF Text, Document, Nodes, Lives
<1>4. doc # None
  BY <1>3, MetaAssumption
<1> QED
  BY <1>1, <1>2, <1>4 DEF Path, Nodes

LEMMA DocsTyped ==
    ASSUME MetaShapes, NEW s \in Site
    PROVE  /\ docs[s].title \in Titles /\ docs[s].node \in Nodes /\ docs[s].life \in Lives
           /\ docs[s]["title"] = docs[s].title /\ docs[s]["node"] = docs[s].node
           /\ Export(s) \in Text /\ \A p \in Path : Export(s)[p] = docs[s][p]
<1>1. /\ docs[s].title \in Titles /\ docs[s].node \in Nodes /\ docs[s].life \in Lives
  BY DEF MetaShapes
<1>2. Export(s) \in Text
  BY <1>1 DEF Export, Text, Lives
<1>3. Export(s).title = docs[s].title /\ Export(s).node = docs[s].node
  BY DEF Export
<1> QED
  BY <1>1, <1>2, <1>3 DEF Path

\* An operation is not the absence of one.
LEMMA OperationsAreSome ==
    ASSUME MetaShapes, NEW b \in Text, NEW l \in Text
    PROVE  [base |-> b, document |-> l] # None
<1>1. b \in Document /\ l \in Document
  BY DEF MetaShapes, Text, Titles, Nodes, Lives, WriteValue, Document
<1> QED
  BY <1>1, MetaAssumption DEF Operation

LEMMA LeafFacts ==
    ASSUME NEW old, NEW left, NEW right
    PROVE  /\ Leaf(old, left, right) \in {left, right}
           /\ Leaf(old, left, right) # right =>
                 Leaf(old, left, right) = left /\ left # old /\ left # None /\ right \in {old, None}
           /\ Leaf(old, left, right) = right => left \in {old, right} \/ Disputed(old, left, right)
           /\ Disputed(old, left, right) <=>
                 left \notin {old, right} /\ (left = None \/ right \notin {old, None})
           /\ right # None => Leaf(old, left, right) # None
BY DEF Leaf, Taken, Disputed, Unchanged

LEMMA MergeFacts ==
    ASSUME MetaShapes, NEW b \in Text, NEW l \in Text, NEW r \in Text
    PROVE  /\ Merge(b, l, r) \in Text
           /\ r.node # None => Merge(b, l, r).node # None
           /\ Refusal(b, l, r) = {} => \A p \in Path : Merge(b, l, r)[p] = Leaf(b[p], l[p], r[p])
<1> DEFINE m == [title |-> Leaf(b.title, l.title, r.title), node |-> Leaf(b.node, l.node, r.node),
                 life |-> IF l.life = None THEN r.life ELSE l.life]
<1>1. m \in Text
  BY LeafFacts, LeavesTyped DEF Text
<1>2. m.title = Leaf(b["title"], l["title"], r["title"]) /\ m.node = Leaf(b["node"], l["node"], r["node"])
  BY LeavesTyped
<1>3. \A p \in Path : m[p] = Leaf(b[p], l[p], r[p])
  BY <1>1, <1>2, LeavesTyped DEF Path
<1>4. r.node # None => m.node # None
  BY LeafFacts
<1>5. Merge(b, l, r) = IF Refusal(b, l, r) # {} THEN r ELSE m
  BY DEF Merge
<1> HIDE DEF m
<1> QED
  BY <1>1, <1>3, <1>4, <1>5

\* The union of written titles and tasks is a set of numbers.
LEMMA WritesAreNumbers ==
    ASSUME MetaShapes
    PROVE  WriteValue \subseteq Nat /\ Titles \subseteq Nat /\ WriteValue \subseteq Titles /\ None \notin WriteValue
BY NoneApart DEF MetaShapes, WriteValue, Titles

\* What a merge at a site does to the site.
LEMMA SyncFacts ==
    ASSUME MetaShapes, NEW s \in Site, NEW b \in Text, NEW l \in Text, Synchronize(s, b, l)
    PROVE  /\ \A t \in Site \ {s} : /\ docs'[t] = docs[t] /\ disputes'[t] = disputes[t]
                                    /\ known'[t] = known[t] /\ refused'[t] = refused[t]
           /\ \A p \in Path : docs'[s][p] = Merge(b, l, Export(s))[p]
           /\ docs' \in [Site -> [title : Titles, node : Nodes, life : Lives, native : BOOLEAN, burnt : BOOLEAN]]
           /\ docs'[s].node = None => docs'[s].life = None \/ docs'[s].life = docs[s].life
           /\ docs[s].node # None => docs'[s].node # None
           /\ DOMAIN disputes' = Site /\ DOMAIN refused' = Site /\ DOMAIN known' = Site
           /\ disputes'[s] = disputes[s] \cup Disputes(b, l, Export(s))
           /\ refused'[s] = refused[s] \cup Refused(b, l, Export(s))
           /\ known'[s] = known[s] \cup Learnt(l)
           /\ refused'[s] = {} => Refusal(b, l, Export(s)) = {}
<1> DEFINE r == Export(s)
           m == Merge(b, l, r)
<1>1. r \in Text /\ m \in Text /\ (r.node # None => m.node # None)
  BY DocsTyped, MergeFacts
<1>2. docs' = [docs EXCEPT ![s] = Applied(s, m)]
  BY DEF Synchronize
<1>3. /\ disputes' = [disputes EXCEPT ![s] = @ \cup Disputes(b, l, r)]
      /\ refused' = [refused EXCEPT ![s] = @ \cup Refused(b, l, r)]
      /\ known' = [known EXCEPT ![s] = @ \cup Learnt(l)]
  BY DEF Synchronize
<1>4. r.node = docs[s].node
  BY DEF Export
<1>5. m.title \in Titles /\ m.node \in Nodes /\ m.life \in Lives /\ \A p \in Path : m[p] \in Nodes \cup Titles
  BY <1>1 DEF Text, Path
<1> HIDE DEF m, r
<1>6. /\ Applied(s, m) \in [title : Titles, node : Nodes, life : Lives, native : BOOLEAN, burnt : BOOLEAN]
      /\ \A p \in Path : Applied(s, m)[p] = m[p]
      /\ Applied(s, m).node = m.node
      /\ m.node = None => Applied(s, m).life = docs[s].life
  <2>1. docs[s] \in [title : Titles, node : Nodes, life : Lives, native : BOOLEAN, burnt : BOOLEAN]
    BY DEF MetaShapes
  <2>2. /\ Applied(s, m) \in [title : Titles, node : Nodes, life : Lives, native : BOOLEAN, burnt : BOOLEAN]
        /\ Applied(s, m).title = m.title /\ Applied(s, m).node = m.node
        /\ Applied(s, m).life = IF m.node = None THEN docs[s].life ELSE m.life
    BY <2>1, <1>5 DEF Applied
  <2> QED
    BY <2>2, <1>5, <1>1 DEF Path, Text
<1>7. docs'[s] = Applied(s, m) /\ \A t \in Site \ {s} : docs'[t] = docs[t]
  BY <1>2 DEF MetaShapes
<1>8. docs' \in [Site -> [title : Titles, node : Nodes, life : Lives, native : BOOLEAN, burnt : BOOLEAN]]
  BY <1>2, <1>6 DEF MetaShapes
<1>9. /\ DOMAIN disputes' = Site /\ DOMAIN refused' = Site /\ DOMAIN known' = Site
      /\ disputes'[s] = disputes[s] \cup Disputes(b, l, r)
      /\ refused'[s] = refused[s] \cup Refused(b, l, r)
      /\ known'[s] = known[s] \cup Learnt(l)
      /\ \A t \in Site \ {s} : disputes'[t] = disputes[t] /\ refused'[t] = refused[t] /\ known'[t] = known[t]
  BY <1>3 DEF MetaShapes
<1>10. refused'[s] = {} => Refusal(b, l, r) = {}
  <2>1. ASSUME NEW why \in Refusal(b, l, r) PROVE Refused(b, l, r) # {}
    BY DEF Refused
  <2>2. refused'[s] = {} => Refused(b, l, r) = {}
    BY <1>9
  <2> QED
    BY <2>1, <2>2
<1> QED
  BY <1>1, <1>4, <1>6, <1>7, <1>8, <1>9, <1>10 DEF r, m

\* What a merge that is not refused does to the leaves and the journal of the site.
LEMMA SyncLeaves ==
    ASSUME MetaShapes, NEW s \in Site, NEW b \in Text, NEW l \in Text, Synchronize(s, b, l), refused'[s] = {},
           NEW p \in Path
    PROVE  /\ docs'[s][p] = Leaf(b[p], l[p], docs[s][p])
           /\ disputes[s] \subseteq disputes'[s]
           /\ Disputed(b[p], l[p], docs[s][p]) =>
                 \E d \in disputes'[s] : d.path = p /\ d.incoming = l[p] /\ d.current = docs[s][p]
           /\ \A d \in disputes'[s] \ disputes[s] :
                 d.path \in Path /\ d.incoming = l[d.path] /\ d.current = docs[s][d.path]
                 /\ Disputed(b[d.path], l[d.path], docs[s][d.path])
<1> DEFINE r == Export(s)
<1>1. r \in Text /\ \A q \in Path : r[q] = docs[s][q]
  BY DocsTyped
<1>2. Refusal(b, l, r) = {} /\ disputes'[s] = disputes[s] \cup Disputes(b, l, r) /\ docs'[s][p] = Merge(b, l, r)[p]
  BY SyncFacts
<1>3. Merge(b, l, r)[p] = Leaf(b[p], l[p], r[p])
  BY <1>1, <1>2, MergeFacts
<1> HIDE DEF r
<1>4. Disputes(b, l, r) = {[path |-> q, old |-> b[q], incoming |-> l[q], current |-> r[q]] :
                             q \in {k \in {"title", "node"} : Disputed(b[k], l[k], r[k])}}
  BY <1>2 DEF Disputes
<1>5. Disputed(b[p], l[p], docs[s][p]) =>
         \E d \in disputes'[s] : d.path = p /\ d.incoming = l[p] /\ d.current = docs[s][p]
  <2> SUFFICES ASSUME Disputed(b[p], l[p], docs[s][p])
               PROVE  \E d \in disputes'[s] : d.path = p /\ d.incoming = l[p] /\ d.current = docs[s][p]
    OBVIOUS
  <2>1. [path |-> p, old |-> b[p], incoming |-> l[p], current |-> r[p]] \in Disputes(b, l, r)
    BY <1>1, <1>4 DEF Path
  <2> QED
    BY <1>1, <1>2, <2>1
<1>6. ASSUME NEW d \in disputes'[s] \ disputes[s]
      PROVE  d.path \in Path /\ d.incoming = l[d.path] /\ d.current = docs[s][d.path]
             /\ Disputed(b[d.path], l[d.path], docs[s][d.path])
  <2>1. PICK q \in Path : Disputed(b[q], l[q], r[q])
                          /\ d = [path |-> q, old |-> b[q], incoming |-> l[q], current |-> r[q]]
    BY <1>2, <1>4 DEF Path
  <2> QED
    BY <1>1, <2>1
<1> QED
  BY <1>1, <1>2, <1>3, <1>5, <1>6

\* ... and so to the values the site has.
LEMMA SyncHolds ==
    ASSUME MetaShapes, NEW s \in Site, NEW b \in Text, NEW l \in Text, Synchronize(s, b, l), refused'[s] = {},
           NEW p \in Path, NEW x \in WriteValue
    PROVE  /\ Holds(s, p, x) => Holds(s, p, x)'
                                \/ (docs[s][p] = x /\ b[p] = x /\ l[p] # x /\ l[p] # None /\ docs'[s][p] = l[p])
           /\ l[p] = x /\ (b[p] # x \/ docs[s][p] = x) => Holds(s, p, x)'
           /\ docs'[s][p] = x => docs[s][p] = x \/ (l[p] = x /\ b[p] # x /\ docs[s][p] \in {b[p], None})
           /\ Holds(s, p, x)' => Holds(s, p, x) \/ l[p] = x
<1>1. docs'[s][p] = Leaf(b[p], l[p], docs[s][p]) /\ disputes[s] \subseteq disputes'[s]
  BY SyncLeaves
<1>2. Disputed(b[p], l[p], docs[s][p]) =>
                 \E d \in disputes'[s] : d.path = p /\ d.incoming = l[p] /\ d.current = docs[s][p]
  BY SyncLeaves
<1>3. \A d \in disputes'[s] \ disputes[s] : d.incoming = l[d.path] /\ d.current = docs[s][d.path]
  BY SyncLeaves
<1>4. x # None
  BY WritesAreNumbers
<1>5. Leaf(b[p], l[p], docs[s][p]) # docs[s][p] =>
         Leaf(b[p], l[p], docs[s][p]) = l[p] /\ l[p] # b[p] /\ l[p] # None /\ docs[s][p] \in {b[p], None}
  BY LeafFacts
<1>6. Leaf(b[p], l[p], docs[s][p]) = docs[s][p] => l[p] \in {b[p], docs[s][p]} \/ Disputed(b[p], l[p], docs[s][p])
  BY LeafFacts
<1>7. Holds(s, p, x) => Holds(s, p, x)'
                        \/ (docs[s][p] = x /\ b[p] = x /\ l[p] # x /\ l[p] # None /\ docs'[s][p] = l[p])
  BY <1>1, <1>4, <1>5 DEF Holds
<1>8. l[p] = x /\ (b[p] # x \/ docs[s][p] = x) => Holds(s, p, x)'
  BY <1>1, <1>2, <1>4, <1>5, <1>6 DEF Holds
<1>9. docs'[s][p] = x => docs[s][p] = x \/ (l[p] = x /\ b[p] # x /\ docs[s][p] \in {b[p], None})
  BY <1>1, <1>5
<1>10. Holds(s, p, x)' => Holds(s, p, x) \/ l[p] = x
  BY <1>1, <1>3, <1>5 DEF Holds
<1> QED
  BY <1>7, <1>8, <1>9, <1>10

-----------------------------------------------------------------------------
(* Nothing written is lost *)

\* The operation of a pass.
LEMMA OperationTyped ==
    ASSUME MetaShapes, PassesFit, NEW r \in Replica
    PROVE  /\ base[r] \in Text
           /\ Doubtful(r) => pending[r].base = base[r] /\ pending[r].document \in Text
           /\ Merged(r) => receipt[r] \in Text
BY DEF MetaShapes, PassesFit, Doubtful, Merged

\* What the server discards the desktop has, and what the desktop sent the server has.
LEMMA PostKeepsEdits ==
    ASSUME MetaShapes, PassesFit, EditsFit, NEW q \in Replica, Post(q), refused'[Server] = {}
    PROVE  EditsFit'
<1>1. WriteValue' = WriteValue /\ UNCHANGED <<base, pending, absorbed, retired>>
  BY DEF Post, WriteValue
<1>2. Doubtful(q)
  BY DEF Post, Doubtful
<1>3. \A r \in Replica : Doubtful(r)' <=> Doubtful(r)
  BY <1>1 DEF Doubtful
<1> SUFFICES ASSUME NEW x \in WriteValue, x \notin retired
             PROVE  (\E p \in Path : Survives(p, x)') /\ \A r \in Replica, p \in Path : Kept(r, p, x)'
  BY <1>1 DEF EditsFit
<1>4. (\E p \in Path : Survives(p, x)) /\ \A r \in Replica, p \in Path : Kept(r, p, x)
  BY DEF EditsFit
<1>5. CASE receipt[q] # None
  <2>1. UNCHANGED <<docs, disputes, receipt>>
    BY <1>5 DEF Post
  <2>2. \A s \in Site, p \in Path : Holds(s, p, x)' <=> Holds(s, p, x)
    BY <2>1 DEF Holds
  <2>3. \A r \in Replica : Merged(r)' <=> Merged(r)
    BY <1>3, <2>1 DEF Merged
  <2>4. \A r \in Replica, p \in Path : (Ahead(r, p, x)' <=> Ahead(r, p, x)) /\ (Kept(r, p, x)' <=> Kept(r, p, x))
    BY <1>1, <1>3, <2>1, <2>2, <2>3, NoneApart DEF Ahead, Kept
  <2> QED
    BY <1>4, <2>2, <2>4, NoneApart DEF Survives
<1>6. CASE receipt[q] = None
  <2>1. PICK b \in Text, l \in Text : pending[q].base = b /\ base[q] = b /\ pending[q].document = l
    BY <1>2, OperationTyped
  <2>2. Synchronize(Server, b, l) /\ receipt' = [receipt EXCEPT ![q] = Merge(b, l, Export(Server))]
    BY <1>6, <2>1 DEF Post
  <2>3. receipt'[q] = Merge(b, l, Export(Server)) /\ (\A r \in Replica \ {q} : receipt'[r] = receipt[r])
        /\ receipt'[q] \in Text /\ receipt'[q] # None
    BY <2>2, DocsTyped, MergeFacts, LeavesTyped, NoneApart DEF MetaShapes
  <2>4. \A p \in Path : receipt'[q][p] = docs'[Server][p]
    BY <2>2, <2>3, SyncFacts, NoneApart
  <2>5. \A r \in Replica : docs'[r] = docs[r] /\ disputes'[r] = disputes[r]
    BY <2>2, SyncFacts, NoneApart
  <2>6. \A r \in Replica, p \in Path : Holds(r, p, x)' <=> Holds(r, p, x)
    BY <2>5 DEF Holds
  <2>7. ~Merged(q) /\ ~absorbed[q] /\ Merged(q)' /\ Doubtful(q)' /\ \A r \in Replica \ {q} : Merged(r)' <=> Merged(r)
    BY <1>2, <1>3, <1>6, <2>3 DEF Merged, PassesFit
  <2>8. \A r \in Replica \ {q}, p \in Path :
            (Ahead(r, p, x)' <=> Ahead(r, p, x)) /\ (Kept(r, p, x)' <=> Kept(r, p, x))
    BY <1>1, <1>3, <2>3, <2>5, <2>6, <2>7 DEF Ahead, Kept
  <2>9. \A p \in Path : Kept(q, p, x)'
    BY <1>1, <1>2, <1>4, <2>5, <2>7 DEF Kept
  <2>10. ASSUME NEW p \in Path, Survives(p, x) PROVE Survives(p, x)'
    <3>1. /\ Holds(Server, p, x) => Holds(Server, p, x)' \/ (b[p] = x /\ l[p] # x /\ docs'[Server][p] = l[p])
          /\ l[p] = x /\ b[p] # x => Holds(Server, p, x)'
      BY <2>2, SyncHolds, NoneApart
    <3>2. l[p] # x /\ receipt'[q][p] # x => Ahead(q, p, x)'
      BY <1>1, <2>1, <2>7 DEF Ahead
    <3>3. CASE Holds(Server, p, x)
      <4>1. CASE Holds(Server, p, x)'
        BY <4>1 DEF Survives
      <4>2. CASE b[p] = x /\ l[p] # x /\ docs'[Server][p] = l[p]
        <5>1. Holds(q, p, x)
          BY <1>4, <2>1, <2>7, <4>2 DEF Kept
        <5> QED
          BY <2>4, <2>6, <3>2, <4>2, <5>1 DEF Survives
      <4> QED
        BY <3>1, <3>3, <4>1, <4>2
    <3>4. CASE \E r \in Replica : Holds(r, p, x) /\ Ahead(r, p, x)
      <4>1. PICK r \in Replica : Holds(r, p, x) /\ Ahead(r, p, x)
        BY <3>4
      <4>2. CASE r # q
        BY <2>6, <2>8, <4>1, <4>2 DEF Survives
      <4>3. CASE r = q
        <5>1. b[p] # x \/ l[p] # x
          BY <2>1, <2>7, <4>1, <4>3 DEF Ahead
        <5>2. CASE l[p] = x
          BY <3>1, <5>1, <5>2 DEF Survives
        <5>3. CASE l[p] # x /\ receipt'[q][p] # x
          BY <2>6, <3>2, <4>1, <4>3, <5>3 DEF Survives
        <5>4. CASE receipt'[q][p] = x
          BY <2>4, <5>4 DEF Survives, Holds
        <5> QED
          BY <5>2, <5>3, <5>4
      <4> QED
        BY <4>2, <4>3
    <3> QED
      BY <2>10, <3>3, <3>4 DEF Survives
  <2> QED
    BY <1>4, <2>8, <2>9, <2>10
<1> QED
  BY <1>5, <1>6

\* An answer is merged beside what the desktop wrote since it sent the operation.
LEMMA AbsorbKeepsEdits ==
    ASSUME MetaShapes, PassesFit, EditsFit, NEW q \in Replica, Absorb(q), refused'[q] = {}
    PROVE  EditsFit'
<1>1. WriteValue' = WriteValue /\ UNCHANGED <<base, pending, receipt, retired>>
  BY DEF Absorb, WriteValue
<1>2. Merged(q) /\ Doubtful(q) /\ ~absorbed[q] /\ q \in Site /\ q # Server
  BY NoneApart DEF Absorb, PassesFit, Merged
<1>3. \A r \in Replica : (Doubtful(r)' <=> Doubtful(r)) /\ (Merged(r)' <=> Merged(r))
  BY <1>1 DEF Doubtful, Merged
<1> SUFFICES ASSUME NEW x \in WriteValue, x \notin retired
             PROVE  (\E p \in Path : Survives(p, x)') /\ \A r \in Replica, p \in Path : Kept(r, p, x)'
  BY <1>1 DEF EditsFit
<1>4. (\E p \in Path : Survives(p, x)) /\ \A r \in Replica, p \in Path : Kept(r, p, x)
  BY DEF EditsFit
<1>5. PICK b \in Text, l \in Text : pending[q].document = b /\ receipt[q] = l
  BY <1>2, OperationTyped
<1>6. Synchronize(q, b, l)
  BY <1>5 DEF Absorb
<1>7. absorbed'[q] /\ \A r \in Replica \ {q} : absorbed'[r] = absorbed[r]
  BY DEF Absorb, MetaShapes
<1>8. \A t \in Site \ {q} : docs'[t] = docs[t] /\ disputes'[t] = disputes[t]
  BY <1>2, <1>6, SyncFacts
<1>9. \A t \in Site \ {q}, p \in Path : Holds(t, p, x)' <=> Holds(t, p, x)
  BY <1>8 DEF Holds
<1>10. \A r \in Replica \ {q}, p \in Path :
            (Ahead(r, p, x)' <=> Ahead(r, p, x)) /\ (Kept(r, p, x)' <=> Kept(r, p, x))
  BY <1>1, <1>3, <1>7, <1>8, <1>9, NoneApart DEF Ahead, Kept
<1>11. ASSUME NEW p \in Path
       PROVE  /\ Holds(q, p, x) => Holds(q, p, x)' \/ b[p] = x
              /\ l[p] = x /\ (b[p] # x \/ docs[q][p] = x) => Holds(q, p, x)'
  BY <1>2, <1>6, SyncHolds
<1>12. ASSUME NEW p \in Path PROVE Kept(q, p, x)'
  <2>1. b[p] = x => docs[q][p] = x
    BY <1>2, <1>4, <1>5 DEF Kept
  <2>2. l[p] = x => Holds(q, p, x)'
    BY <1>11, <2>1
  <2> QED
    BY <1>1, <1>2, <1>3, <1>5, <1>7, <2>2 DEF Kept
<1>13. ASSUME NEW p \in Path, Survives(p, x) PROVE Survives(p, x)'
  <2>1. CASE Holds(Server, p, x)
    BY <1>2, <1>9, <2>1, NoneApart DEF Survives
  <2>2. CASE \E r \in Replica : Holds(r, p, x) /\ Ahead(r, p, x)
    <3>1. PICK r \in Replica : Holds(r, p, x) /\ Ahead(r, p, x)
      BY <2>2
    <3>2. CASE r # q
      BY <1>9, <1>10, <3>1, <3>2, NoneApart DEF Survives
    <3>3. CASE r = q
      <4>1. l[p] # x /\ b[p] # x
        BY <1>2, <1>5, <3>1, <3>3 DEF Ahead
      <4>2. Holds(q, p, x)' /\ Ahead(q, p, x)'
        BY <1>1, <1>2, <1>3, <1>5, <1>7, <1>11, <3>1, <3>3, <4>1 DEF Ahead
      <4> QED
        BY <4>2 DEF Survives
    <3> QED
      BY <3>2, <3>3
  <2> QED
    BY <1>13, <2>1, <2>2 DEF Survives
<1> QED
  BY <1>4, <1>10, <1>12, <1>13

\* The steps of a pass that touch only the checkpoint.
LEMMA CheckpointKeepsEdits ==
    ASSUME MetaShapes, PassesFit, EditsFit, NEW q \in Replica, Prepare(q) \/ Checkpoint(q) \/ Crash(q)
    PROVE  EditsFit'
<1>1. WriteValue' = WriteValue /\ UNCHANGED <<docs, disputes, retired>>
  BY DEF Prepare, Checkpoint, Crash, WriteValue
<1> SUFFICES ASSUME NEW x \in WriteValue, x \notin retired
             PROVE  (\E p \in Path : Survives(p, x)') /\ \A r \in Replica, p \in Path : Kept(r, p, x)'
  BY <1>1 DEF EditsFit
<1>2. (\E p \in Path : Survives(p, x)) /\ \A r \in Replica, p \in Path : Kept(r, p, x)
  BY DEF EditsFit
<1>3. \A s \in Site, p \in Path : Holds(s, p, x)' <=> Holds(s, p, x)
  BY <1>1 DEF Holds
<1>4. \A r \in Replica \ {q} : /\ base'[r] = base[r] /\ pending'[r] = pending[r]
                               /\ receipt'[r] = receipt[r] /\ absorbed'[r] = absorbed[r]
  BY DEF Prepare, Checkpoint, Crash, MetaShapes
<1>5. \A r \in Replica \ {q}, p \in Path :
         (Ahead(r, p, x)' <=> Ahead(r, p, x)) /\ (Kept(r, p, x)' <=> Kept(r, p, x))
  BY <1>1, <1>3, <1>4, NoneApart DEF Ahead, Kept, Doubtful, Merged
<1>6. ASSUME NEW p \in Path PROVE Kept(q, p, x)' /\ (Ahead(q, p, x) => Ahead(q, p, x)')
  <2>1. Kept(q, p, x)
    BY <1>2
  <2>2. CASE Prepare(q)
    <3>1. /\ base' = base /\ receipt'[q] = None /\ ~absorbed'[q]
          /\ pending'[q] = [base |-> base[q], document |-> Export(q)]
      BY <2>2 DEF Prepare, MetaShapes
    <3>2. ~Doubtful(q) /\ ~Merged(q) /\ ~Merged(q)'
      BY <2>2, <3>1 DEF Prepare, Doubtful, Merged
    <3>3. Export(q)[p] = docs[q][p]
      BY DocsTyped, NoneApart
    <3> QED
      BY <1>1, <1>3, <2>1, <3>1, <3>2, <3>3, NoneApart DEF Kept, Ahead
  <2>3. CASE Checkpoint(q)
    <3>1. base'[q] = receipt[q] /\ receipt' = receipt /\ absorbed' = absorbed /\ pending'[q] = None /\ absorbed[q]
      BY <2>3 DEF Checkpoint, MetaShapes
    <3>2. Merged(q) /\ Doubtful(q) /\ ~Merged(q)' /\ ~Doubtful(q)'
      BY <2>3, <3>1 DEF Checkpoint, PassesFit, Merged, Doubtful
    <3> QED
      BY <1>1, <1>3, <2>1, <3>1, <3>2, NoneApart DEF Kept, Ahead
  <2>4. CASE Crash(q)
    <3>1. UNCHANGED <<base, pending, receipt, absorbed>>
      BY <2>4 DEF Crash
    <3> QED
      BY <1>1, <1>3, <2>1, <3>1, NoneApart DEF Kept, Ahead, Merged, Doubtful
  <2> QED
    BY <2>2, <2>3, <2>4
<1>7. ASSUME NEW p \in Path, Survives(p, x) PROVE Survives(p, x)'
  BY <1>3, <1>5, <1>6, <1>7, NoneApart DEF Survives
<1> QED
  BY <1>2, <1>5, <1>6, <1>7

\* A new value is ahead of everything its site has in common with the server.
LEMMA NewValuesSurvive ==
    ASSUME MetaShapes, PassesFit, EditsFit, NEW s \in Site, NEW path \in Path,
           written' = written + 1,
           docs'[s][path] = written + 1,
           \A t \in Site, p \in Path : t # s \/ p # path => docs'[t][p] = docs[t][p],
           retired \subseteq retired', docs[s][path] \in retired' \cup {None, 0},
           UNCHANGED <<disputes, base, pending, receipt, absorbed>>
    PROVE  EditsFit'
<1>1. WriteValue' = WriteValue \cup {written + 1} /\ WriteValue \subseteq Nat /\ written \in Nat
      /\ None \notin Nat /\ 0 \notin WriteValue
  BY WritesAreNumbers, NoneApart DEF WriteValue, MetaShapes
<1>2. \A r \in Replica : (Doubtful(r)' <=> Doubtful(r)) /\ (Merged(r)' <=> Merged(r))
  BY DEF Doubtful, Merged
<1> SUFFICES ASSUME NEW x \in WriteValue', x \notin retired'
             PROVE  (\E p \in Path : Survives(p, x)') /\ \A r \in Replica, p \in Path : Kept(r, p, x)'
  BY DEF EditsFit
<1>3. \A r \in Replica, p \in Path : Ahead(r, p, x)' <=> Ahead(r, p, x)
  BY <1>2 DEF Ahead
<1>4. CASE x \in WriteValue
  <2>1. (\E p \in Path : Survives(p, x)) /\ \A r \in Replica, p \in Path : Kept(r, p, x)
    BY <1>4 DEF EditsFit
  <2>2. \A t \in Site, p \in Path : docs[t][p] = x => docs'[t][p] = x
    BY <1>1, <1>4
  <2>3. \A t \in Site, p \in Path : Holds(t, p, x) => Holds(t, p, x)'
    BY <2>2 DEF Holds
  <2>4. \E p \in Path : Survives(p, x)'
    BY <1>3, <2>1, <2>3, NoneApart DEF Survives
  <2>5. \A r \in Replica, p \in Path : Kept(r, p, x)'
    BY <1>2, <2>1, <2>2, <2>3, NoneApart DEF Kept
  <2> QED
    BY <2>4, <2>5
<1>5. CASE x = written + 1
  <2>1. \A v \in Titles \cup Nodes : v # x
    BY <1>1, <1>5 DEF Titles, Nodes, WriteValue
  <2>2. \A doc \in Text, p \in Path : doc[p] # x
    BY <2>1 DEF Text, Path
  <2>3. \A r \in Replica, p \in Path :
            /\ base[r][p] # x
            /\ Doubtful(r) => pending[r].document[p] # x
            /\ Merged(r) => receipt[r][p] # x
    BY <2>2, OperationTyped
  <2>4. \A r \in Replica, p \in Path : Ahead(r, p, x)
    BY <2>3 DEF Ahead, Merged
  <2>5. \A r \in Replica, p \in Path : Kept(r, p, x)'
    BY <1>2, <2>3 DEF Kept
  <2>6. Holds(s, path, x)'
    BY <1>5 DEF Holds
  <2>7. Survives(path, x)'
    BY <1>3, <2>4, <2>6 DEF Survives, Site
  <2> QED
    BY <2>5, <2>7
<1> QED
  BY <1>1, <1>4, <1>5

\* What an owner replaces, purges or decides against is retired.
LEMMA OwnersKeepEdits ==
    ASSUME MetaShapes, PassesFit, EditsFit, retired \subseteq retired',
           \A x \in WriteValue \ retired', t \in Site, p \in Path :
               (docs[t][p] = x => docs'[t][p] = x) /\ (Holds(t, p, x) => Holds(t, p, x)'),
           UNCHANGED <<written, base, pending, receipt, absorbed>>
    PROVE  EditsFit'
<1>1. WriteValue' = WriteValue
  BY DEF WriteValue
<1>2. \A r \in Replica : (Doubtful(r)' <=> Doubtful(r)) /\ (Merged(r)' <=> Merged(r))
  BY DEF Doubtful, Merged
<1> SUFFICES ASSUME NEW x \in WriteValue, x \notin retired'
             PROVE  (\E p \in Path : Survives(p, x)') /\ \A r \in Replica, p \in Path : Kept(r, p, x)'
  BY <1>1 DEF EditsFit
<1>3. (\E p \in Path : Survives(p, x)) /\ \A r \in Replica, p \in Path : Kept(r, p, x)
  BY DEF EditsFit
<1>4. \A r \in Replica, p \in Path : Ahead(r, p, x)' <=> Ahead(r, p, x)
  BY <1>2 DEF Ahead
<1>5. \E p \in Path : Survives(p, x)'
  BY <1>3, <1>4, NoneApart DEF Survives
<1>6. \A r \in Replica, p \in Path : Kept(r, p, x)'
  BY <1>2, <1>3, NoneApart DEF Kept
<1> QED
  BY <1>5, <1>6

\* The leaves after each step of an owner.
LEMMA AuthorLeaves ==
    ASSUME MetaShapes, NEW s \in Site, NEW path \in Path, Author(s, path)
    PROVE  /\ docs'[s][path] = written + 1
           /\ \A t \in Site, p \in Path : t # s \/ p # path => docs'[t][p] = docs[t][p]
           /\ \A t \in Site : docs'[t].life = docs[t].life /\ docs'[t].native = docs[t].native
                              /\ docs'[t].burnt = docs[t].burnt
           /\ DOMAIN docs' = Site
BY DEF Author, MetaShapes, Path

LEMMA CreateLeaves ==
    ASSUME MetaShapes, NEW s \in Site, CreateNode(s)
    PROVE  /\ docs'[s]["node"] = written + 1
           /\ \A t \in Site, p \in Path : t # s \/ p # "node" => docs'[t][p] = docs[t][p]
BY DEF CreateNode, MetaShapes, Path

LEMMA LifeLeaves ==
    ASSUME MetaShapes, NEW s \in Site, MoveNode(s) \/ RestoreNode(s)
    PROVE  \A t \in Site, p \in Path : docs'[t][p] = docs[t][p]
<1>1. \A t \in Site : docs[t] \in [title : Titles, node : Nodes, life : Lives, native : BOOLEAN, burnt : BOOLEAN]
  BY DEF MetaShapes
<1>2. ASSUME NEW life, docs' = [docs EXCEPT ![s] = [docs[s] EXCEPT !.life = life]]
      PROVE  \A t \in Site, p \in Path : docs'[t][p] = docs[t][p]
  <2>1. [docs[s] EXCEPT !.life = life].title = docs[s].title /\ [docs[s] EXCEPT !.life = life].node = docs[s].node
    BY <1>1
  <2> QED
    BY <1>2, <2>1 DEF Path, MetaShapes
<1>3. CASE MoveNode(s)
  BY <1>2, <1>3 DEF MoveNode, ChangeLife
<1>4. CASE RestoreNode(s)
  BY <1>2, <1>4 DEF RestoreNode, ChangeLife
<1> QED
  BY <1>3, <1>4

LEMMA PurgeLeaves ==
    ASSUME MetaShapes, NEW s \in Site, PurgeNode(s)
    PROVE  /\ docs'[s]["node"] = None /\ docs[s]["node"] \in retired'
           /\ \A t \in Site, p \in Path : t # s \/ p # "node" => docs'[t][p] = docs[t][p]
BY DEF PurgeNode, MetaShapes, Path

LEMMA ResolveLeaves ==
    ASSUME MetaShapes, NEW s \in Site, NEW d \in disputes[s], NEW v, ResolveLeaf(s, d, v)
    PROVE  /\ d.path \in Path /\ docs'[s][d.path] = v /\ v \in {d.incoming, d.current} /\ v # None
           /\ \A t \in Site, p \in Path : t # s \/ p # d.path => docs'[t][p] = docs[t][p]
           /\ disputes'[s] = disputes[s] \ {d} /\ \A t \in Site \ {s} : disputes'[t] = disputes[t]
           /\ DOMAIN disputes' = Site
           /\ docs' \in [Site -> [title : Titles, node : Nodes, life : Lives, native : BOOLEAN, burnt : BOOLEAN]]
           /\ docs[s].node # None => docs'[s].node # None
           /\ docs'[s].node = None => docs'[s].life = docs[s].life
<1> DEFINE m == [Export(s) EXCEPT ![d.path] = v]
<1>1. d \in TitleDispute \cup NodeDispute
  BY DEF MetaShapes
<1>2. v \in {d.incoming, d.current} /\ v # None /\ docs' = [docs EXCEPT ![s] = Applied(s, m)]
      /\ disputes' = [disputes EXCEPT ![s] = @ \ {d}]
  BY DEF ResolveLeaf
<1>3. d.path \in Path
  BY <1>1 DEF TitleDispute, NodeDispute, Path
<1>4. docs[s] \in [title : Titles, node : Nodes, life : Lives, native : BOOLEAN, burnt : BOOLEAN]
  BY DEF MetaShapes
<1>5. Export(s) = [title |-> docs[s].title, node |-> docs[s].node,
                   life |-> IF docs[s].node = None THEN None ELSE docs[s].life]
  BY DEF Export
<1>6. CASE d.path = "title"
  <2>1. v \in Titles
    BY <1>1, <1>2, <1>6 DEF TitleDispute, NodeDispute
  <2>2. m.title = v /\ m.node = docs[s].node /\ (m.node # None => m.life = docs[s].life)
    BY <1>5, <1>6
  <2> HIDE DEF m
  <2>3. /\ Applied(s, m) \in [title : Titles, node : Nodes, life : Lives, native : BOOLEAN, burnt : BOOLEAN]
        /\ Applied(s, m).title = v /\ Applied(s, m).node = docs[s].node /\ Applied(s, m).life = docs[s].life
    BY <1>4, <2>1, <2>2 DEF Applied
  <2> QED
    BY <1>2, <1>3, <1>4, <1>6, <2>3 DEF MetaShapes, Path
<1>7. CASE d.path = "node"
  <2>1. v \in Nodes
    BY <1>1, <1>2, <1>7 DEF TitleDispute, NodeDispute
  <2>2. m.title = docs[s].title /\ m.node = v /\ m.life \in {None, docs[s].life}
    BY <1>5, <1>7
  <2> HIDE DEF m
  <2>3. /\ Applied(s, m) \in [title : Titles, node : Nodes, life : Lives, native : BOOLEAN, burnt : BOOLEAN]
        /\ Applied(s, m).title = docs[s].title /\ Applied(s, m).node = v
    BY <1>2, <1>4, <2>1, <2>2 DEF Applied, Lives
  <2> QED
    BY <1>2, <1>3, <1>4, <1>7, <2>3 DEF MetaShapes, Path
<1> QED
  BY <1>3, <1>6, <1>7 DEF Path

\* Nothing that was written is lost while no lifecycle is refused.
LEMMA EditsStepAuthor ==
    ASSUME MetaShapes, PassesFit, EditsFit, NEW s \in Site, NEW path \in Path, Author(s, path)
    PROVE  EditsFit'
<1>1. docs[s][path] \in Titles \cup Nodes /\ written' = written + 1
      /\ retired' = retired \cup ({docs[s][path]} \ {None}) /\ UNCHANGED <<disputes, base, pending, receipt, absorbed>>
  BY DocsTyped DEF Author, Path
<1> QED
  BY <1>1, AuthorLeaves, NewValuesSurvive

LEMMA EditsStepCreate ==
    ASSUME MetaShapes, PassesFit, EditsFit, NodeIsNew, NEW s \in Site, CreateNode(s)
    PROVE  EditsFit'
<1>1. docs[s]["node"] = None /\ written' = written + 1
      /\ retired' = retired /\ UNCHANGED <<disputes, base, pending, receipt, absorbed>>
  BY DocsTyped DEF CreateNode, NodeIsNew
<1> QED
  BY <1>1, CreateLeaves, NewValuesSurvive DEF Path

LEMMA EditsStepLife ==
    ASSUME MetaShapes, PassesFit, EditsFit, NEW s \in Site, MoveNode(s) \/ RestoreNode(s) \/ PurgeNode(s)
    PROVE  EditsFit'
<1>1. UNCHANGED <<written, disputes, base, pending, receipt, absorbed>> /\ retired \subseteq retired'
  BY DEF MoveNode, RestoreNode, PurgeNode, ChangeLife
<1>2. \A x \in WriteValue \ retired', t \in Site, p \in Path : docs[t][p] = x => docs'[t][p] = x
  BY LifeLeaves, PurgeLeaves
<1>3. \A x \in WriteValue \ retired', t \in Site, p \in Path : Holds(t, p, x) => Holds(t, p, x)'
  BY <1>1, <1>2 DEF Holds
<1> QED
  BY <1>1, <1>2, <1>3, OwnersKeepEdits

LEMMA EditsStepResolve ==
    ASSUME MetaShapes, PassesFit, EditsFit, NEW s \in Site, NEW d \in disputes[s], NEW v, ResolveLeaf(s, d, v)
    PROVE  EditsFit'
<1>1. UNCHANGED <<written, base, pending, receipt, absorbed>>
      /\ retired' = retired \cup ({docs[s][d.path], d.incoming, d.current} \ {None, v})
  BY DEF ResolveLeaf
<1>2. ASSUME NEW x \in WriteValue, x \notin retired', NEW t \in Site, NEW p \in Path
      PROVE  (docs[t][p] = x => docs'[t][p] = x) /\ (Holds(t, p, x) => Holds(t, p, x)')
  <2>1. x # None
    BY WritesAreNumbers
  <2>2. x \in {docs[s][d.path], d.incoming, d.current} => x = v
    BY <1>1, <1>2, <2>1
  <2>3. docs[t][p] = x => docs'[t][p] = x
    BY <2>2, ResolveLeaves
  <2>4. ASSUME Holds(t, p, x) PROVE Holds(t, p, x)'
    <3>1. CASE docs[t][p] = x
      BY <2>3, <3>1 DEF Holds
    <3>2. CASE \E e \in disputes[t] : e.path = p /\ x \in {e.incoming, e.current}
      <4>1. PICK e \in disputes[t] : e.path = p /\ x \in {e.incoming, e.current}
        BY <3>2
      <4>2. CASE e \in disputes'[t]
        BY <4>1, <4>2 DEF Holds
      <4>3. CASE t = s /\ e = d
        <5>1. x = v
          BY <2>2, <4>1, <4>3
        <5> QED
          BY <4>1, <4>3, <5>1, ResolveLeaves DEF Holds
      <4> QED
        BY <4>1, <4>2, <4>3, ResolveLeaves
    <3> QED
      BY <2>4, <3>1, <3>2 DEF Holds
  <2> QED
    BY <2>3, <2>4
<1>3. \A x \in WriteValue \ retired', t \in Site, p \in Path :
               (docs[t][p] = x => docs'[t][p] = x) /\ (Holds(t, p, x) => Holds(t, p, x)')
  BY <1>2
<1> QED
  BY <1>1, <1>3, OwnersKeepEdits

\* Refused transitions stay journalled, and a review leaves its decision there.
LEMMA RefusalsStay ==
    ASSUME MetaShapes, MetaNext, NothingRefused'
    PROVE  NothingRefused
<1>1. CASE Owners
  <2>1. PICK s \in Site : \/ WriteTitle(s) \/ WriteNode(s) \/ CreateNode(s)
                          \/ MoveNode(s) \/ RestoreNode(s) \/ PurgeNode(s)
                          \/ \E d \in disputes[s] : \E v \in {d.incoming, d.current} : ResolveLeaf(s, d, v)
                          \/ \E c \in refused[s] : \E v \in {c.incoming, c.current} : ResolveLife(s, c, v)
    BY <1>1 DEF Owners
  <2>2. CASE \E c \in refused[s] : \E v \in {c.incoming, c.current} : ResolveLife(s, c, v)
    <3>1. PICK c \in refused[s], v \in Lives : ResolveLife(s, c, v)
      BY <2>2 DEF MetaShapes, Refusals
    <3>2. refused' = [refused EXCEPT ![s] = (@ \ {c}) \cup {[c EXCEPT !.open = FALSE]}]
      BY <3>1 DEF ResolveLife
    <3>3. [c EXCEPT !.open = FALSE] \in refused'[s]
      BY <3>2 DEF MetaShapes
    <3> QED
      BY <3>3 DEF NothingRefused
  <2>3. CASE UNCHANGED refused
    BY <2>3 DEF NothingRefused
  <2> QED
    BY <2>1, <2>2, <2>3 DEF WriteTitle, WriteNode, Author, CreateNode, MoveNode, RestoreNode, PurgeNode, ChangeLife,
       ResolveLeaf
<1>2. CASE \E r \in Replica : Pass(r) \/ Crash(r)
  <2>1. PICK r \in Replica : Pass(r) \/ Crash(r)
    BY <1>2
  <2>2. \A s \in Site : refused[s] \subseteq refused'[s]
    <3>1. CASE UNCHANGED refused
      BY <3>1
    <3>2. ASSUME NEW t \in Site, NEW more, refused' = [refused EXCEPT ![t] = @ \cup more]
          PROVE  \A s \in Site : refused[s] \subseteq refused'[s]
      BY <3>2 DEF MetaShapes
    <3>3. CASE Post(r)
      BY <3>1, <3>2, <3>3, NoneApart DEF Post, Synchronize
    <3>4. CASE Absorb(r)
      BY <3>2, <3>4, NoneApart DEF Absorb, Synchronize
    <3> QED
      BY <2>1, <3>1, <3>3, <3>4 DEF Pass, Prepare, Checkpoint, Crash
  <2> QED
    BY <2>2 DEF NothingRefused
<1> QED
  BY <1>1, <1>2 DEF MetaNext, NothingRefused

-----------------------------------------------------------------------------
(* The shapes *)

Desk == [title : Titles, node : Nodes, life : Lives, native : BOOLEAN, burnt : BOOLEAN]

LEMMA ShapesGrow ==
    ASSUME MetaShapes, written' \in 0 .. MaxEdits, written <= written'
    PROVE  /\ Titles \subseteq Titles' /\ Nodes \subseteq Nodes' /\ WriteValue \subseteq WriteValue'
           /\ Text \subseteq Text' /\ Desk \subseteq Desk'
           /\ TitleDispute \cup NodeDispute \subseteq (TitleDispute \cup NodeDispute)'
           /\ Refusals \subseteq Refusals'
<1>1. written \in Nat /\ written' \in Nat
  BY MetaAssumption DEF MetaShapes
<1>2. Titles \subseteq Titles' /\ WriteValue \subseteq WriteValue'
  BY <1>1 DEF Titles, WriteValue
<1>3. Nodes \subseteq Nodes'
  BY <1>2 DEF Nodes
<1>4. Lives' = Lives
  BY DEF Lives, Life
<1>5. Text \subseteq Text'
  BY <1>2, <1>3, <1>4 DEF Text
<1>6. Desk \subseteq Desk'
  BY <1>2, <1>3, <1>4 DEF Desk
<1>7. TitleDispute \subseteq TitleDispute'
  BY <1>2 DEF TitleDispute
<1>8. NodeDispute \subseteq NodeDispute'
  BY <1>3 DEF NodeDispute
<1>9. Refusals \subseteq Refusals'
  BY <1>3, <1>4 DEF Refusals
<1> QED
  BY <1>2, <1>3, <1>5, <1>6, <1>7, <1>8, <1>9

LEMMA AppliedTyped ==
    ASSUME MetaShapes, NEW s \in Site, NEW m \in Text
    PROVE  /\ Applied(s, m) \in Desk /\ Applied(s, m).node = m.node
           /\ m.node # None => Applied(s, m).life = m.life
<1>1. docs[s] \in [title : Titles, node : Nodes, life : Lives, native : BOOLEAN, burnt : BOOLEAN]
  BY DEF MetaShapes
<1>2. m.title \in Titles /\ m.node \in Nodes /\ m.life \in Lives
  BY DEF Text
<1> QED
  BY <1>1, <1>2 DEF Applied, Desk

LEMMA JournalTyped ==
    ASSUME MetaShapes, NEW b \in Text, NEW l \in Text, NEW r \in Text
    PROVE  /\ Disputes(b, l, r) \subseteq TitleDispute \cup NodeDispute
           /\ Refused(b, l, r) \subseteq Refusals
<1>1. \A doc \in {b, l, r} : /\ doc["title"] \in Titles /\ doc["node"] \in Nodes /\ doc.life \in Lives
                             /\ doc.node \in Nodes
  BY LeavesTyped
<1>2. ASSUME NEW d \in Disputes(b, l, r) PROVE d \in TitleDispute \cup NodeDispute
  <2>1. PICK q \in {"title", "node"} : d = [path |-> q, old |-> b[q], incoming |-> l[q], current |-> r[q]]
    BY <1>2 DEF Disputes
  <2>2. CASE q = "title"
    BY <1>1, <2>1, <2>2 DEF TitleDispute
  <2>3. CASE q = "node"
    BY <1>1, <2>1, <2>3 DEF NodeDispute
  <2> QED
    BY <2>1, <2>2, <2>3
<1>3. Refusal(b, l, r) \subseteq Reasons
  BY DEF Refusal, Reasons
<1>4. ASSUME NEW c \in Refused(b, l, r) PROVE c \in Refusals
  <2>1. PICK why \in Refusal(b, l, r) :
           c = [reason |-> why, incoming |-> l.life, current |-> r.life,
                payload |-> IF l.life = Tomb(1, 2, "restored") /\ r.node = None THEN l.node ELSE None,
                open |-> TRUE]
    BY <1>4 DEF Refused
  <2> QED
    BY <1>1, <1>3, <2>1 DEF Refusals, Nodes
<1> QED
  BY <1>2, <1>4

LEMMA PastTyped ==
    ASSUME MetaShapes
    PROVE  WriteValue \subseteq 1 .. MaxEdits /\ \A w \in WriteValue : past[w] \subseteq WriteValue
<1>1. WriteValue \subseteq 1 .. MaxEdits
  BY MetaAssumption DEF MetaShapes, WriteValue
<1> QED
  BY <1>1 DEF MetaShapes

LEMMA SyncShapes ==
    ASSUME MetaShapes, LivesFit, NEW s \in Site, NEW b \in Text, NEW l \in Text, Synchronize(s, b, l),
           UNCHANGED <<written, past, metaCount, base, pending>>,
           receipt' \in [Replica -> {None} \cup Text],
           answered' \in [Replica -> BOOLEAN], absorbed' \in [Replica -> BOOLEAN]
    PROVE  MetaShapes' /\ LivesFit'
<1>1. /\ Text' = Text /\ Desk' = Desk /\ TitleDispute' = TitleDispute /\ NodeDispute' = NodeDispute
      /\ WriteValue' = WriteValue /\ Nodes' = Nodes /\ Lives' = Lives
  BY DEF Text, Desk, TitleDispute, NodeDispute, WriteValue, Nodes, Titles, Lives
<1>2. Export(s) \in Text
  BY DocsTyped
<1>3. docs' \in [Site -> Desk]
  BY SyncFacts DEF Desk
<1>4. /\ disputes' = [disputes EXCEPT ![s] = @ \cup Disputes(b, l, Export(s))]
      /\ refused' = [refused EXCEPT ![s] = @ \cup Refused(b, l, Export(s))]
      /\ known' = [known EXCEPT ![s] = @ \cup Learnt(l)]
  BY DEF Synchronize
<1>5. disputes' \in [Site -> SUBSET (TitleDispute \cup NodeDispute)]
  BY <1>2, <1>4, JournalTyped DEF MetaShapes
<1>6. refused' \in [Site -> SUBSET Refusals]
  <2>1. Refused(b, l, Export(s)) \subseteq Refusals
    BY <1>2, JournalTyped
  <2> QED
    BY <1>4, <2>1 DEF MetaShapes
<1>7. Learnt(l) \subseteq WriteValue
  BY PastTyped DEF Learnt
<1>8. known' \in [Site -> SUBSET WriteValue]
  BY <1>4, <1>7 DEF MetaShapes
<1>9. MetaShapes'
  BY <1>1, <1>3, <1>5, <1>6, <1>8 DEF MetaShapes, Desk, Refusals
<1>10. LivesFit'
  BY SyncFacts DEF LivesFit
<1> QED
  BY <1>9, <1>10

LEMMA PassShapes ==
    ASSUME MetaShapes, PassesFit, LivesFit, NEW q \in Replica, Pass(q) \/ Crash(q)
    PROVE  MetaShapes' /\ LivesFit'
<1>1. CASE Post(q) /\ receipt[q] = None
  <2>1. PICK b \in Text, l \in Text : pending[q].base = b /\ pending[q].document = l
    BY <1>1, OperationTyped DEF Post, Doubtful
  <2>2. Synchronize(Server, b, l) /\ receipt' = [receipt EXCEPT ![q] = Merge(b, l, Export(Server))]
    BY <1>1, <2>1 DEF Post
  <2>3. receipt' \in [Replica -> {None} \cup Text]
    BY <2>2, DocsTyped, MergeFacts, NoneApart DEF MetaShapes
  <2>4. answered' \in [Replica -> BOOLEAN] /\ absorbed' \in [Replica -> BOOLEAN]
        /\ UNCHANGED <<written, past, metaCount, base, pending>>
    BY <1>1 DEF Post, MetaShapes
  <2> QED
    BY <2>2, <2>3, <2>4, SyncShapes, NoneApart
<1>2. CASE Absorb(q)
  <2>1. PICK b \in Text, l \in Text : pending[q].document = b /\ receipt[q] = l
    BY <1>2, OperationTyped DEF Absorb, PassesFit, Merged
  <2>2. Synchronize(q, b, l)
    BY <1>2, <2>1 DEF Absorb
  <2>3. answered' \in [Replica -> BOOLEAN] /\ absorbed' \in [Replica -> BOOLEAN]
        /\ receipt' \in [Replica -> {None} \cup Text]
        /\ UNCHANGED <<written, past, metaCount, base, pending>>
    BY <1>2 DEF Absorb, MetaShapes
  <2> QED
    BY <2>2, <2>3, SyncShapes, NoneApart
<1>3. CASE Prepare(q) \/ Checkpoint(q) \/ Crash(q) \/ (Post(q) /\ receipt[q] # None)
  <2>1. UNCHANGED <<written, past, docs, disputes, refused, known>>
    BY <1>3 DEF Prepare, Checkpoint, Crash, Post
  <2>2. Export(q) \in Text /\ base[q] \in Text /\ (Checkpoint(q) => receipt[q] \in Text)
    BY DocsTyped, OperationTyped, NoneApart DEF Checkpoint, PassesFit
  <2>3. /\ base' \in [Replica -> Text]
        /\ pending' \in [Replica -> {None} \cup [base : Text, document : Text]]
        /\ receipt' \in [Replica -> {None} \cup Text]
        /\ answered' \in [Replica -> BOOLEAN] /\ absorbed' \in [Replica -> BOOLEAN]
        /\ metaCount' \in [acts : Nat, upsets : Nat, created : BOOLEAN, purged : BOOLEAN]
    <3>1. CASE Prepare(q)
      BY <2>2, <3>1 DEF MetaShapes, Prepare
    <3>2. CASE Checkpoint(q)
      BY <2>2, <3>2 DEF MetaShapes, Checkpoint
    <3>3. CASE Crash(q)
      BY <3>3 DEF MetaShapes, Crash
    <3>4. CASE Post(q) /\ receipt[q] # None
      BY <3>4 DEF MetaShapes, Post
    <3> QED
      BY <1>3, <3>1, <3>2, <3>3, <3>4
  <2>4. /\ Text' = Text /\ TitleDispute' = TitleDispute /\ NodeDispute' = NodeDispute
        /\ WriteValue' = WriteValue /\ Nodes' = Nodes /\ Lives' = Lives /\ Titles' = Titles
    BY <2>1 DEF Text, TitleDispute, NodeDispute, WriteValue, Nodes, Titles, Lives
  <2>5. MetaShapes'
    BY <2>1, <2>3, <2>4 DEF MetaShapes, Refusals
  <2>6. LivesFit'
    BY <2>1 DEF LivesFit
  <2> QED
    BY <2>5, <2>6
<1> QED
  BY <1>1, <1>2, <1>3 DEF Pass

LEMMA OwnersLeavePasses ==
    ASSUME Owners
    PROVE  UNCHANGED <<base, pending, answered, receipt, absorbed>>
<1>1. PICK s \in Site : \/ WriteTitle(s) \/ WriteNode(s) \/ CreateNode(s)
                        \/ MoveNode(s) \/ RestoreNode(s) \/ PurgeNode(s)
                        \/ \E d \in disputes[s] : \E v \in {d.incoming, d.current} : ResolveLeaf(s, d, v)
                        \/ \E c \in refused[s] : \E v \in {c.incoming, c.current} : ResolveLife(s, c, v)
  BY DEF Owners
<1>2. CASE \E d \in disputes[s] : \E v \in {d.incoming, d.current} : ResolveLeaf(s, d, v)
  BY <1>2 DEF ResolveLeaf
<1>3. CASE \E c \in refused[s] : \E v \in {c.incoming, c.current} : ResolveLife(s, c, v)
  BY <1>3 DEF ResolveLife
<1> QED
  BY <1>1, <1>2, <1>3 DEF WriteTitle, WriteNode, Author, CreateNode, MoveNode, RestoreNode, PurgeNode, ChangeLife

LEMMA PurgesAreRemembered ==
    ASSUME MetaShapes, MetaNext, ~metaCount'.purged
    PROVE  ~metaCount.purged
<1>1. ASSUME Act PROVE ~metaCount.purged
  BY <1>1 DEF Act, MetaShapes
<1>2. CASE UNCHANGED metaCount
  BY <1>2
<1>3. CASE Owners
  <2>1. PICK s \in Site : \/ WriteTitle(s) \/ WriteNode(s) \/ CreateNode(s)
                          \/ MoveNode(s) \/ RestoreNode(s) \/ PurgeNode(s)
                          \/ \E d \in disputes[s] : \E v \in {d.incoming, d.current} : ResolveLeaf(s, d, v)
                          \/ \E c \in refused[s] : \E v \in {c.incoming, c.current} : ResolveLife(s, c, v)
    BY <1>3 DEF Owners
  <2>2. ASSUME NEW d \in disputes[s], NEW v, ResolveLeaf(s, d, v) PROVE ~metaCount.purged
    BY <1>1, <2>2 DEF ResolveLeaf
  <2>3. ASSUME NEW c \in refused[s], NEW v, ResolveLife(s, c, v) PROVE ~metaCount.purged
    BY <1>1, <2>3 DEF ResolveLife
  <2>4. CASE CreateNode(s)
    BY <2>4 DEF CreateNode, MetaShapes
  <2>5. CASE PurgeNode(s)
    BY <2>5 DEF PurgeNode, MetaShapes
  <2>6. CASE MoveNode(s)
    BY <1>1, <2>6 DEF MoveNode, ChangeLife
  <2>7. CASE RestoreNode(s)
    BY <1>1, <2>7 DEF RestoreNode, ChangeLife
  <2>8. CASE WriteTitle(s) \/ WriteNode(s)
    BY <1>2, <2>8 DEF WriteTitle, WriteNode, Author
  <2> QED
    BY <2>1, <2>2, <2>3, <2>4, <2>5, <2>6, <2>7, <2>8
<1>4. ASSUME NEW r \in Replica, Pass(r) \/ Crash(r) PROVE ~metaCount.purged
  BY <1>2, <1>4 DEF Pass, Prepare, Post, Absorb, Checkpoint, Crash, MetaShapes
<1> QED
  BY <1>3, <1>4 DEF MetaNext

LEMMA PassesFitStep ==
    ASSUME MetaShapes, PassesFit, MetaNext
    PROVE  PassesFit'
<1>1. CASE Owners
  <2>1. UNCHANGED <<base, pending, answered, receipt, absorbed>>
    BY <1>1, OwnersLeavePasses
  <2> QED
    BY <2>1 DEF PassesFit, Doubtful, Merged
<1>2. ASSUME NEW q \in Replica, Pass(q) \/ Crash(q) PROVE PassesFit'
  <2>1. \A r \in Replica \ {q} : /\ base'[r] = base[r] /\ pending'[r] = pending[r] /\ answered'[r] = answered[r]
                                 /\ receipt'[r] = receipt[r] /\ absorbed'[r] = absorbed[r]
    BY <1>2 DEF Pass, Prepare, Post, Absorb, Checkpoint, Crash, MetaShapes
  <2>2. CASE Prepare(q)
    <3>1. ~answered[q]
      BY <2>2 DEF Prepare, PassesFit, Merged, Doubtful
    <3> QED
      BY <2>1, <2>2, <3>1 DEF Prepare, PassesFit, Merged, Doubtful, MetaShapes
  <2>3. CASE Post(q)
    <3>1. receipt'[q] # None /\ UNCHANGED <<base, pending, absorbed>>
      <4>1. CASE receipt[q] = None
        <5>1. pending[q].base \in Text /\ pending[q].document \in Text
          BY <2>3, OperationTyped DEF Post, Doubtful
        <5>2. Merge(pending[q].base, pending[q].document, Export(Server)) # None
          BY <5>1, DocsTyped, MergeFacts, LeavesTyped, NoneApart
        <5> QED
          BY <2>3, <4>1, <5>2 DEF Post, MetaShapes
      <4> QED
        BY <2>3, <4>1 DEF Post
    <3> QED
      BY <2>1, <2>3, <3>1 DEF Post, PassesFit, Merged, Doubtful
  <2>4. CASE Absorb(q)
    BY <2>1, <2>4 DEF Absorb, PassesFit, Merged, Doubtful, MetaShapes
  <2>5. CASE Checkpoint(q)
    BY <2>1, <2>5 DEF Checkpoint, PassesFit, Merged, Doubtful, MetaShapes
  <2>6. CASE Crash(q)
    BY <2>1, <2>6 DEF Crash, PassesFit, Merged, Doubtful, MetaShapes
  <2> QED
    BY <1>2, <2>2, <2>3, <2>4, <2>5, <2>6 DEF Pass
<1> QED
  BY <1>1, <1>2 DEF MetaNext

\* A site's new content is typed once it is written.
LEMMA AuthorShapes ==
    ASSUME MetaShapes, LivesFit, NEW s \in Site, NEW path \in Path, Author(s, path)
    PROVE  MetaShapes' /\ LivesFit'
<1>1. /\ written < MaxEdits /\ written' = written + 1
      /\ past' = [past EXCEPT ![written + 1] = known[s]]
      /\ known' = [known EXCEPT ![s] = @ \cup {written + 1}]
      /\ docs' = [docs EXCEPT ![s][path] = written + 1]
      /\ UNCHANGED <<base, pending, answered, receipt, absorbed, disputes, refused, metaCount>>
  BY DEF Author
<1>2. written \in Nat /\ written + 1 \in 1 .. MaxEdits /\ written' \in 0 .. MaxEdits /\ written <= written'
  BY <1>1, MetaAssumption DEF MetaShapes
<1>3. /\ written + 1 \in Titles' /\ written + 1 \in Nodes' /\ written + 1 \in WriteValue'
      /\ WriteValue' = WriteValue \cup {written + 1}
  BY <1>1, <1>2 DEF Titles, Nodes, WriteValue
<1>4. /\ Text \subseteq Text' /\ Desk \subseteq Desk' /\ Nodes \subseteq Nodes' /\ WriteValue \subseteq WriteValue'
      /\ TitleDispute \cup NodeDispute \subseteq (TitleDispute \cup NodeDispute)' /\ Refusals \subseteq Refusals'
  BY <1>2, ShapesGrow
<1>5. docs' \in [Site -> Desk']
  <2>1. docs \in [Site -> Desk]
    BY DEF MetaShapes, Desk
  <2>2. docs \in [Site -> Desk']
    BY <1>4, <2>1
  <2>3. CASE path = "title"
    <3>1. [docs[s] EXCEPT !.title = written + 1] \in Desk'
      BY <1>3, <2>2 DEF Desk
    <3> QED
      BY <1>1, <2>2, <2>3, <3>1
  <2>4. CASE path = "node"
    <3>1. [docs[s] EXCEPT !.node = written + 1] \in Desk'
      BY <1>3, <2>2 DEF Desk
    <3> QED
      BY <1>1, <2>2, <2>4, <3>1
  <2> QED
    BY <2>3, <2>4 DEF Path
<1>6. \A w \in 1 .. MaxEdits : w > written' => past'[w] = {}
  BY <1>1, <1>2 DEF MetaShapes
<1>7. past' \in [1 .. MaxEdits -> SUBSET WriteValue'] /\ known' \in [Site -> SUBSET WriteValue']
  BY <1>1, <1>2, <1>3 DEF MetaShapes
<1>8. MetaShapes'
  <2>1. base' \in [Replica -> Text'] /\ pending' \in [Replica -> {None} \cup [base : Text', document : Text']]
        /\ receipt' \in [Replica -> {None} \cup Text']
    BY <1>1, <1>4 DEF MetaShapes
  <2>2. disputes' \in [Site -> SUBSET (TitleDispute \cup NodeDispute)']
    BY <1>1, <1>4 DEF MetaShapes
  <2>3. refused' \in [Site -> SUBSET Refusals']
    BY <1>1, <1>4 DEF MetaShapes
  <2>4. answered' \in [Replica -> BOOLEAN] /\ absorbed' \in [Replica -> BOOLEAN]
        /\ metaCount' \in [acts : Nat, upsets : Nat, created : BOOLEAN, purged : BOOLEAN]
    BY <1>1 DEF MetaShapes
  <2> QED
    BY <1>2, <1>5, <1>6, <1>7, <2>1, <2>2, <2>3, <2>4 DEF MetaShapes, Desk
<1>9. LivesFit'
  <2>1. written + 1 # None
    BY <1>2, NoneApart
  <2>2. \A t \in Site : docs'[t].life = docs[t].life
    BY AuthorLeaves
  <2>3. \A t \in Site : docs'[t].node = docs[t].node \/ docs'[t].node = written + 1
    BY <1>1 DEF MetaShapes
  <2> QED
    BY <2>1, <2>2, <2>3 DEF LivesFit
<1> QED
  BY <1>8, <1>9

LEMMA CreateShapes ==
    ASSUME MetaShapes, LivesFit, NEW s \in Site, CreateNode(s)
    PROVE  MetaShapes' /\ LivesFit'
<1>1. /\ written < MaxEdits /\ written' = written + 1
      /\ metaCount' = [metaCount EXCEPT !.created = TRUE]
      /\ known' = [known EXCEPT ![s] = @ \cup {written + 1}]
      /\ docs' = [docs EXCEPT ![s].node = written + 1, ![s].native = TRUE]
      /\ UNCHANGED <<base, pending, answered, receipt, absorbed, disputes, refused, past>>
  BY DEF CreateNode
<1>2. written \in Nat /\ written' \in 0 .. MaxEdits /\ written <= written'
  BY <1>1, MetaAssumption DEF MetaShapes
<1>3. written + 1 \in Nodes' /\ written + 1 \in WriteValue' /\ WriteValue' = WriteValue \cup {written + 1}
  BY <1>1, <1>2 DEF Nodes, WriteValue
<1>4. /\ Text \subseteq Text' /\ Desk \subseteq Desk' /\ Nodes \subseteq Nodes' /\ WriteValue \subseteq WriteValue'
      /\ TitleDispute \cup NodeDispute \subseteq (TitleDispute \cup NodeDispute)' /\ Refusals \subseteq Refusals'
  BY <1>2, ShapesGrow
<1>5. docs \in [Site -> Desk']
  <2>1. docs \in [Site -> Desk]
    BY DEF MetaShapes, Desk
  <2> QED
    BY <1>4, <2>1
<1>6. [docs[s] EXCEPT !.node = written + 1, !.native = TRUE] \in Desk'
  BY <1>3, <1>5 DEF Desk
<1>7. docs' \in [Site -> Desk']
  BY <1>1, <1>5, <1>6
<1>8. past' \in [1 .. MaxEdits -> SUBSET WriteValue'] /\ known' \in [Site -> SUBSET WriteValue']
      /\ \A w \in 1 .. MaxEdits : w > written' => past'[w] = {}
  BY <1>1, <1>2, <1>3 DEF MetaShapes
<1>9. base' \in [Replica -> Text'] /\ pending' \in [Replica -> {None} \cup [base : Text', document : Text']]
      /\ receipt' \in [Replica -> {None} \cup Text']
  BY <1>1, <1>4 DEF MetaShapes
<1>10. disputes' \in [Site -> SUBSET (TitleDispute \cup NodeDispute)']
  BY <1>1, <1>4 DEF MetaShapes
<1>11. refused' \in [Site -> SUBSET Refusals']
  BY <1>1, <1>4 DEF MetaShapes
<1>12. answered' \in [Replica -> BOOLEAN] /\ absorbed' \in [Replica -> BOOLEAN]
       /\ metaCount' \in [acts : Nat, upsets : Nat, created : BOOLEAN, purged : BOOLEAN]
  BY <1>1 DEF MetaShapes
<1>13. MetaShapes'
  BY <1>2, <1>7, <1>8, <1>9, <1>10, <1>11, <1>12 DEF MetaShapes, Desk
<1>14. LivesFit'
  <2>1. written + 1 # None
    BY <1>2, NoneApart
  <2>2. docs'[s].node = written + 1 /\ \A t \in Site \ {s} : docs'[t] = docs[t]
    BY <1>1, <1>5 DEF Desk
  <2> QED
    BY <2>1, <2>2 DEF LivesFit
<1> QED
  BY <1>13, <1>14

\* Steps that change a site's document and its journals alone.
LEMMA DeskShapes ==
    ASSUME MetaShapes, docs' \in [Site -> Desk],
           disputes' \in [Site -> SUBSET (TitleDispute \cup NodeDispute)],
           refused' \in [Site -> SUBSET Refusals],
           metaCount' \in [acts : Nat, upsets : Nat, created : BOOLEAN, purged : BOOLEAN],
           UNCHANGED <<written, past, known, base, pending, answered, receipt, absorbed>>
    PROVE  MetaShapes'
<1>1. /\ Text' = Text /\ Desk' = Desk /\ TitleDispute' = TitleDispute /\ NodeDispute' = NodeDispute
      /\ WriteValue' = WriteValue /\ Nodes' = Nodes /\ Lives' = Lives /\ Titles' = Titles
  BY DEF Text, Desk, TitleDispute, NodeDispute, WriteValue, Nodes, Titles, Lives
<1> QED
  BY <1>1 DEF MetaShapes, Desk, Refusals

LEMMA LifeShapes ==
    ASSUME MetaShapes, LivesFit, NEW s \in Site, MoveNode(s) \/ RestoreNode(s) \/ PurgeNode(s)
    PROVE  MetaShapes' /\ LivesFit'
<1>1. docs \in [Site -> Desk] /\ docs[s] \in Desk
  BY DEF MetaShapes, Desk
<1>2. PICK new \in Desk : docs' = [docs EXCEPT ![s] = new] /\ (new.node = None => new.life = None)
  <2>1. docs[s].life \in Life \cup {None} /\ docs[s].node \in Nodes
    BY <1>1 DEF Desk, Lives
  <2>2. CASE MoveNode(s)
    <3>1. Tomb(NextGeneration(docs[s].life), 1, "trashed") \in Lives
      BY <2>1 DEF Tomb, NextGeneration, Life, Lives
    <3>2. /\ docs' = [docs EXCEPT ![s] = [docs[s] EXCEPT !.life = Tomb(NextGeneration(docs[s].life), 1, "trashed")]]
          /\ docs[s].node # None
      BY <2>2 DEF MoveNode, ChangeLife
    <3>3. [docs[s] EXCEPT !.life = Tomb(NextGeneration(docs[s].life), 1, "trashed")] \in Desk
      BY <1>1, <3>1 DEF Desk
    <3> QED
      BY <1>1, <3>2, <3>3 DEF Desk
  <2>3. CASE RestoreNode(s)
    <3>1. docs[s].life \in Life
      BY <2>1, <2>3 DEF RestoreNode, Hidden
    <3>2. Tomb(docs[s].life.generation, docs[s].life.revision + 1, "restored") \in Lives
      BY <3>1 DEF Tomb, Life, Lives
    <3>3. /\ docs' = [docs EXCEPT ![s] = [docs[s] EXCEPT !.life =
                          Tomb(docs[s].life.generation, docs[s].life.revision + 1, "restored")]]
          /\ docs[s].node # None
      BY <2>3 DEF RestoreNode, ChangeLife
    <3>4. [docs[s] EXCEPT !.life = Tomb(docs[s].life.generation, docs[s].life.revision + 1, "restored")] \in Desk
      BY <1>1, <3>2 DEF Desk
    <3> QED
      BY <1>1, <3>3, <3>4 DEF Desk
  <2>4. CASE PurgeNode(s)
    <3> DEFINE new == [docs[s] EXCEPT !.node = None, !.life = None, !.native = FALSE,
                                      !.burnt = @ \/ ~docs[s].native]
    <3>1. docs' = [docs EXCEPT ![s] = new]
      BY <1>1, <2>4 DEF PurgeNode
    <3>2. (docs[s].burnt \/ ~docs[s].native) \in BOOLEAN
      OBVIOUS
    <3>3. new \in Desk /\ new.life = None
      BY <1>1, <3>2 DEF Desk, Nodes, Lives
    <3> QED
      BY <3>1, <3>3
  <2> QED
    BY <2>2, <2>3, <2>4
<1>3. docs' \in [Site -> Desk]
  BY <1>1, <1>2
<1>4. UNCHANGED <<written, past, known, base, pending, answered, receipt, absorbed, disputes, refused>>
  BY DEF MoveNode, RestoreNode, PurgeNode, ChangeLife
<1>5. metaCount' \in [acts : Nat, upsets : Nat, created : BOOLEAN, purged : BOOLEAN]
  <2>1. CASE PurgeNode(s)
    <3>1. metaCount' = [metaCount EXCEPT !.upsets = @ + 1, !.purged = TRUE]
      BY <2>1 DEF PurgeNode
    <3>2. metaCount \in [acts : Nat, upsets : Nat, created : BOOLEAN, purged : BOOLEAN]
      BY DEF MetaShapes
    <3>3. metaCount = [acts |-> metaCount.acts, upsets |-> metaCount.upsets,
                       created |-> metaCount.created, purged |-> metaCount.purged]
      BY <3>2
    <3>4. metaCount' = [acts |-> metaCount.acts, upsets |-> metaCount.upsets + 1,
                        created |-> metaCount.created, purged |-> TRUE]
      BY <3>1, <3>3
    <3> QED
      BY <3>2, <3>4
  <2>2. CASE Act
    <3>1. metaCount' = [metaCount EXCEPT !.acts = @ + 1] /\ metaCount.acts \in Nat
      BY <2>2 DEF Act, MetaShapes
    <3> QED
      BY <3>1 DEF MetaShapes
  <2>3. CASE MoveNode(s)
    BY <2>2, <2>3 DEF MoveNode, ChangeLife
  <2>4. CASE RestoreNode(s)
    BY <2>2, <2>4 DEF RestoreNode, ChangeLife
  <2> QED
    BY <2>1, <2>3, <2>4
<1>6. MetaShapes'
  BY <1>3, <1>4, <1>5, DeskShapes DEF MetaShapes
<1>7. LivesFit'
  BY <1>1, <1>2 DEF LivesFit
<1> QED
  BY <1>6, <1>7

LEMMA ResolveShapes ==
    ASSUME MetaShapes, LivesFit, NEW s \in Site,
           \/ \E d \in disputes[s] : \E v \in {d.incoming, d.current} : ResolveLeaf(s, d, v)
           \/ \E c \in refused[s] : \E v \in {c.incoming, c.current} : ResolveLife(s, c, v)
    PROVE  MetaShapes' /\ LivesFit'
<1>1. ASSUME NEW d \in disputes[s], NEW v, ResolveLeaf(s, d, v) PROVE MetaShapes' /\ LivesFit'
  <2>1. UNCHANGED <<written, past, known, base, pending, answered, receipt, absorbed, refused>>
        /\ metaCount' = [metaCount EXCEPT !.acts = @ + 1]
        /\ disputes' = [disputes EXCEPT ![s] = @ \ {d}]
    BY <1>1 DEF ResolveLeaf, Act
  <2>2. disputes' \in [Site -> SUBSET (TitleDispute \cup NodeDispute)]
    BY <2>1 DEF MetaShapes
  <2>3. metaCount' \in [acts : Nat, upsets : Nat, created : BOOLEAN, purged : BOOLEAN]
    BY <2>1 DEF MetaShapes
  <2>4. docs' \in [Site -> Desk]
    BY <1>1, ResolveLeaves DEF Desk
  <2>5. MetaShapes'
    BY <2>1, <2>2, <2>3, <2>4, DeskShapes DEF MetaShapes
  <2>6. \A t \in Site \ {s} : docs'[t] = docs[t]
    BY <1>1 DEF ResolveLeaf, MetaShapes
  <2>7. docs'[s].node = None => docs'[s].life = docs[s].life /\ docs[s].node = None
    BY <1>1, ResolveLeaves
  <2> QED
    BY <2>5, <2>6, <2>7 DEF LivesFit
<1>2. ASSUME NEW c \in refused[s], NEW v \in {c.incoming, c.current}, ResolveLife(s, c, v)
      PROVE  MetaShapes' /\ LivesFit'
  <2> DEFINE now == Export(s)
             target == [now EXCEPT !.life = v, !.node = IF @ = None THEN c.payload ELSE @]
  <2>1. UNCHANGED <<written, past, known, base, pending, answered, receipt, absorbed, disputes>>
        /\ metaCount' = [metaCount EXCEPT !.acts = @ + 1]
        /\ refused' = [refused EXCEPT ![s] = (@ \ {c}) \cup {[c EXCEPT !.open = FALSE]}]
        /\ \/ UNCHANGED docs
           \/ /\ now.node = None => target.node # None
              /\ docs' = [docs EXCEPT ![s] = Applied(s, target)]
    BY <1>2 DEF ResolveLife, Act
  <2>2. c \in Refusals
    BY DEF MetaShapes
  <2>3. now \in Text
    BY DocsTyped
  <2>4. target \in Text /\ (now.node # None => target.node # None)
    BY <2>2, <2>3 DEF Text, Refusals
  <2>5. docs \in [Site -> Desk]
    BY DEF MetaShapes, Desk
  <2> HIDE DEF now, target
  <2>6. Applied(s, target) \in Desk /\ Applied(s, target).node = target.node
    BY <2>4, AppliedTyped
  <2>7. docs' \in [Site -> Desk]
    BY <2>1, <2>5, <2>6
  <2>8. refused' \in [Site -> SUBSET Refusals]
    <3>1. [c EXCEPT !.open = FALSE] \in Refusals
      BY <2>2 DEF Refusals
    <3> QED
      BY <2>1, <3>1 DEF MetaShapes
  <2>9. metaCount' \in [acts : Nat, upsets : Nat, created : BOOLEAN, purged : BOOLEAN]
    BY <2>1 DEF MetaShapes
  <2>10. MetaShapes'
    BY <2>1, <2>7, <2>8, <2>9, DeskShapes DEF MetaShapes
  <2>11. LivesFit'
    BY <2>1, <2>4, <2>5, <2>6 DEF LivesFit
  <2> QED
    BY <2>10, <2>11
<1> QED
  BY <1>1, <1>2

-----------------------------------------------------------------------------
(* Before the task is created nobody has one *)

LEMMA NodeIsNewOwners ==
    ASSUME MetaShapes, NodeIsNew, NothingRefused, Owners
    PROVE  NodeIsNew'
<1> SUFFICES ASSUME ~metaCount'.created PROVE NodeIsNew'
  BY DEF NodeIsNew
<1>1. PICK s \in Site : \/ WriteTitle(s) \/ WriteNode(s) \/ CreateNode(s)
                        \/ MoveNode(s) \/ RestoreNode(s) \/ PurgeNode(s)
                        \/ \E d \in disputes[s] : \E v \in {d.incoming, d.current} : ResolveLeaf(s, d, v)
                        \/ \E c \in refused[s] : \E v \in {c.incoming, c.current} : ResolveLife(s, c, v)
  BY DEF Owners
<1>2. ~CreateNode(s)
  BY DEF CreateNode, MetaShapes
<1>3. ~metaCount.created
  <2>1. CASE UNCHANGED metaCount
    BY <2>1
  <2>2. CASE Act
    BY <2>2 DEF Act, MetaShapes
  <2>3. CASE PurgeNode(s)
    <3>1. metaCount' = [metaCount EXCEPT !.upsets = @ + 1, !.purged = TRUE]
      BY <2>3 DEF PurgeNode
    <3>2. metaCount = [acts |-> metaCount.acts, upsets |-> metaCount.upsets,
                       created |-> metaCount.created, purged |-> metaCount.purged]
      BY DEF MetaShapes
    <3>3. metaCount' = [acts |-> metaCount.acts, upsets |-> metaCount.upsets + 1,
                        created |-> metaCount.created, purged |-> TRUE]
      BY <3>1, <3>2
    <3> QED
      BY <3>3
  <2>4. ASSUME NEW d \in disputes[s], NEW v, ResolveLeaf(s, d, v) PROVE ~metaCount.created
    BY <2>2, <2>4 DEF ResolveLeaf
  <2>5. ASSUME NEW c \in refused[s], NEW v, ResolveLife(s, c, v) PROVE ~metaCount.created
    BY <2>2, <2>5 DEF ResolveLife
  <2>6. CASE MoveNode(s)
    BY <2>2, <2>6 DEF MoveNode, ChangeLife
  <2>7. CASE RestoreNode(s)
    BY <2>2, <2>7 DEF RestoreNode, ChangeLife
  <2>8. CASE WriteTitle(s) \/ WriteNode(s)
    BY <2>1, <2>8 DEF WriteTitle, WriteNode, Author
  <2> QED
    BY <1>1, <1>2, <2>3, <2>4, <2>5, <2>6, <2>7, <2>8
<1>4. docs[s].node = None /\ \A d \in disputes[s] : d.path # "node"
  BY <1>3 DEF NodeIsNew
<1>5. ~WriteNode(s) /\ ~MoveNode(s) /\ ~RestoreNode(s) /\ ~PurgeNode(s)
  BY <1>4 DEF WriteNode, MoveNode, RestoreNode, PurgeNode
<1>6. refused[s] = {}
  BY DEF NothingRefused
<1>7. \A t \in Site : docs[t]["node"] = docs[t].node /\ docs'[t]["node"] = docs'[t].node
  OBVIOUS
<1>8. (\A t \in Site : docs'[t].node = docs[t].node) /\ \A t \in Site : disputes'[t] \subseteq disputes[t]
  <2>1. CASE WriteTitle(s)
    <3>1. Author(s, "title") /\ "title" \in Path /\ "node" \in Path
      BY <2>1 DEF WriteTitle, Path
    <3>2. \A t \in Site : docs'[t]["node"] = docs[t]["node"]
      BY <3>1, AuthorLeaves
    <3>3. UNCHANGED disputes
      BY <3>1 DEF Author
    <3> QED
      BY <1>7, <3>2, <3>3
  <2>2. ASSUME NEW d \in disputes[s], NEW v, ResolveLeaf(s, d, v)
        PROVE  (\A t \in Site : docs'[t].node = docs[t].node) /\ \A t \in Site : disputes'[t] \subseteq disputes[t]
    <3>1. d.path # "node" /\ "node" \in Path
      BY <1>4 DEF Path
    <3>2. \A t \in Site : docs'[t]["node"] = docs[t]["node"]
      BY <2>2, <3>1, ResolveLeaves
    <3>3. \A t \in Site : disputes'[t] \subseteq disputes[t]
      BY <2>2, ResolveLeaves
    <3> QED
      BY <1>7, <3>2, <3>3
  <2> QED
    BY <1>1, <1>2, <1>5, <1>6, <2>1, <2>2
<1>9. UNCHANGED <<base, pending, receipt>>
  BY OwnersLeavePasses
<1>10. /\ \A t \in Site : docs'[t].node = None /\ \A d \in disputes'[t] : d.path # "node"
       /\ \A r \in Replica : /\ base'[r].node = None
                             /\ Doubtful(r)' => pending'[r].document.node = None
                             /\ Merged(r)' => receipt'[r].node = None
  BY <1>3, <1>8, <1>9 DEF NodeIsNew, Doubtful, Merged
<1> QED
  BY <1>10 DEF NodeIsNew

LEMMA NodeIsNewSync ==
    ASSUME MetaShapes, NEW s \in Site, NEW b \in Text, NEW l \in Text, Synchronize(s, b, l), refused'[s] = {},
           b.node = None, l.node = None, docs[s].node = None, \A d \in disputes[s] : d.path # "node"
    PROVE  docs'[s].node = None /\ \A d \in disputes'[s] : d.path # "node"
<1>1. "node" \in Path /\ b["node"] = None /\ l["node"] = None /\ docs[s]["node"] = None
  BY LeavesTyped, DocsTyped DEF Path
<1>2. ~Disputed(None, None, None) /\ Leaf(None, None, None) = None
  BY LeafFacts
<1>3. docs'[s]["node"] = None
  BY <1>1, <1>2, SyncLeaves
<1>4. \A d \in disputes'[s] \ disputes[s] : Disputed(b[d.path], l[d.path], docs[s][d.path])
  BY <1>1, SyncLeaves
<1> QED
  BY <1>1, <1>2, <1>3, <1>4

LEMMA NodeIsNewPass ==
    ASSUME MetaShapes, PassesFit, NodeIsNew, NothingRefused', NEW q \in Replica, Pass(q) \/ Crash(q)
    PROVE  NodeIsNew'
<1> SUFFICES ASSUME ~metaCount'.created
             PROVE  /\ \A t \in Site : docs'[t].node = None /\ \A d \in disputes'[t] : d.path # "node"
                    /\ \A r \in Replica : /\ base'[r].node = None
                                          /\ Doubtful(r)' => pending'[r].document.node = None
                                          /\ Merged(r)' => receipt'[r].node = None
  BY DEF NodeIsNew
<1>1. ~metaCount.created
  BY DEF Pass, Prepare, Post, Absorb, Checkpoint, Crash, MetaShapes
<1>2. /\ \A t \in Site : docs[t].node = None /\ \A d \in disputes[t] : d.path # "node"
      /\ \A r \in Replica : /\ base[r].node = None
                            /\ Doubtful(r) => pending[r].document.node = None
                            /\ Merged(r) => receipt[r].node = None
  BY <1>1 DEF NodeIsNew
<1>3. CASE Post(q) /\ receipt[q] = None
  <2>1. PICK b \in Text, l \in Text : pending[q].base = b /\ base[q] = b /\ pending[q].document = l
    BY <1>3, OperationTyped DEF Post, Doubtful
  <2>2. Synchronize(Server, b, l) /\ receipt' = [receipt EXCEPT ![q] = Merge(b, l, Export(Server))]
        /\ UNCHANGED <<base, pending>>
    BY <1>3, <2>1 DEF Post
  <2>3. b.node = None /\ l.node = None
    BY <1>2, <1>3, <2>1 DEF Post, Doubtful
  <2>4. docs'[Server].node = None /\ \A d \in disputes'[Server] : d.path # "node"
    BY <1>2, <2>2, <2>3, NodeIsNewSync, NoneApart DEF NothingRefused
  <2>5. \A t \in Site \ {Server} : docs'[t] = docs[t] /\ disputes'[t] = disputes[t]
    BY <2>2, SyncFacts, NoneApart
  <2>6. receipt'[q]["node"] = docs'[Server]["node"]
    BY <2>2, SyncFacts, NoneApart DEF Path, MetaShapes
  <2>7. receipt'[q].node = None
    BY <2>4, <2>6
  <2> QED
    BY <1>2, <2>2, <2>4, <2>5, <2>7 DEF Doubtful, Merged, MetaShapes
<1>4. CASE Absorb(q)
  <2>1. Merged(q) /\ Doubtful(q)
    BY <1>4 DEF Absorb, PassesFit, Merged
  <2>2. PICK b \in Text, l \in Text : pending[q].document = b /\ receipt[q] = l
    BY <2>1, OperationTyped
  <2>3. Synchronize(q, b, l) /\ UNCHANGED <<base, pending, receipt>>
    BY <1>4, <2>2 DEF Absorb
  <2>4. b.node = None /\ l.node = None
    BY <1>2, <2>1, <2>2
  <2>5. docs'[q].node = None /\ \A d \in disputes'[q] : d.path # "node"
    BY <1>2, <2>3, <2>4, NodeIsNewSync, NoneApart DEF NothingRefused
  <2>6. \A t \in Site \ {q} : docs'[t] = docs[t] /\ disputes'[t] = disputes[t]
    BY <2>3, SyncFacts, NoneApart
  <2> QED
    BY <1>2, <2>3, <2>5, <2>6 DEF Doubtful, Merged
<1>5. CASE Prepare(q)
  <2>1. Export(q).node = None
    BY <1>2, NoneApart DEF Export
  <2> QED
    BY <1>2, <1>5, <2>1 DEF Prepare, Doubtful, Merged, MetaShapes
<1>6. CASE Checkpoint(q)
  <2>1. receipt[q].node = None
    BY <1>2, <1>6 DEF Checkpoint, PassesFit
  <2> QED
    BY <1>2, <1>6, <2>1 DEF Checkpoint, Doubtful, Merged, MetaShapes
<1>7. CASE Crash(q) \/ (Post(q) /\ receipt[q] # None)
  <2>1. UNCHANGED <<docs, disputes, base, pending, receipt>>
    BY <1>7 DEF Crash, Post
  <2> QED
    BY <1>2, <2>1 DEF Doubtful, Merged
<1> QED
  BY <1>3, <1>4, <1>5, <1>6, <1>7 DEF Pass

LEMMA EditsStep ==
    ASSUME MetaShapes, PassesFit, NodeIsNew, EditsFit, MetaNext, NothingRefused'
    PROVE  NodeIsNew' /\ EditsFit'
<1>1. NothingRefused
  BY RefusalsStay
<1>2. CASE Owners
  <2>1. NodeIsNew'
    BY <1>1, <1>2, NodeIsNewOwners
  <2>2. PICK s \in Site : \/ WriteTitle(s) \/ WriteNode(s) \/ CreateNode(s)
                          \/ MoveNode(s) \/ RestoreNode(s) \/ PurgeNode(s)
                          \/ \E d \in disputes[s] : \E v \in {d.incoming, d.current} : ResolveLeaf(s, d, v)
                          \/ \E c \in refused[s] : \E v \in {c.incoming, c.current} : ResolveLife(s, c, v)
    BY <1>2 DEF Owners
  <2>3. refused[s] = {}
    BY <1>1 DEF NothingRefused
  <2>4. WriteTitle(s) \/ WriteNode(s) => EditsFit'
    BY EditsStepAuthor DEF WriteTitle, WriteNode, Path
  <2> QED
    BY <2>1, <2>2, <2>3, <2>4, EditsStepCreate, EditsStepLife, EditsStepResolve
<1>3. CASE \E q \in Replica : Pass(q) \/ Crash(q)
  <2>1. PICK q \in Replica : Pass(q) \/ Crash(q)
    BY <1>3
  <2>2. refused'[Server] = {} /\ refused'[q] = {}
    BY NoneApart DEF NothingRefused
  <2> QED
    BY <2>1, <2>2, NodeIsNewPass, PostKeepsEdits, AbsorbKeepsEdits, CheckpointKeepsEdits DEF Pass
<1> QED
  BY <1>2, <1>3 DEF MetaNext

-----------------------------------------------------------------------------
(* Who knows what *)

LEMMA LearntFacts ==
    ASSUME MetaShapes, NEW doc \in Text
    PROVE  /\ \A p \in Path : doc[p] \in WriteValue => doc[p] \in Learnt(doc) /\ past[doc[p]] \subseteq Learnt(doc)
           /\ Learnt(doc) \subseteq WriteValue
           /\ \A y \in Learnt(doc) : \E p \in Path : doc[p] \in WriteValue /\ (y = doc[p] \/ y \in past[doc[p]])
<1>1. {doc.title, doc.node} = {doc[p] : p \in Path}
  BY LeavesTyped DEF Path
<1> DEFINE seen == {doc.title, doc.node} \cap WriteValue
<1>2. Learnt(doc) = seen \cup UNION {past[w] : w \in seen}
  BY DEF Learnt
<1>3. \A w \in WriteValue : past[w] \subseteq WriteValue
  BY PastTyped
<1>4. Learnt(doc) \subseteq WriteValue
  BY <1>2, <1>3
<1>5. \A w \in seen : w \in Learnt(doc) /\ past[w] \subseteq Learnt(doc)
  BY <1>2
<1>6. \A y \in Learnt(doc) : \E w \in seen : y = w \/ y \in past[w]
  BY <1>2
<1>7. \A w : w \in seen <=> w \in WriteValue /\ \E p \in Path : w = doc[p]
  BY <1>1
<1> HIDE DEF seen
<1> QED
  BY <1>4, <1>5, <1>6, <1>7

\* What someone learns from a document comes with its past.
LEMMA LearntIsClosed ==
    ASSUME MetaShapes, KnowledgeIsClosed, NEW doc \in Text
    PROVE  \A w \in Learnt(doc) : past[w] \subseteq Learnt(doc)
<1> SUFFICES ASSUME NEW w \in Learnt(doc) PROVE past[w] \subseteq Learnt(doc)
  OBVIOUS
<1>1. PICK p \in Path : doc[p] \in WriteValue /\ (w = doc[p] \/ w \in past[doc[p]])
  BY LearntFacts
<1>2. past[doc[p]] \subseteq Learnt(doc)
  BY <1>1, LearntFacts
<1>3. w \in past[doc[p]] => past[w] \subseteq past[doc[p]]
  BY <1>1 DEF KnowledgeIsClosed
<1> QED
  BY <1>1, <1>2, <1>3

\* A document of things a site knows teaches it nothing.
LEMMA LearntIsKnown ==
    ASSUME MetaShapes, NEW doc \in Text, NEW K,
           \A p \in Path : doc[p] \in WriteValue => doc[p] \in K,
           \A w \in K : past[w] \subseteq K
    PROVE  Learnt(doc) \subseteq K
<1> SUFFICES ASSUME NEW y \in Learnt(doc) PROVE y \in K
  OBVIOUS
<1>1. PICK p \in Path : doc[p] \in WriteValue /\ (y = doc[p] \/ y \in past[doc[p]])
  BY LearntFacts
<1> QED
  BY <1>1

LEMMA SyncKnowledge ==
    ASSUME MetaShapes, KnowledgeIsClosed, NEW s \in Site, NEW b \in Text, NEW l \in Text, Synchronize(s, b, l),
           refused'[s] = {}
    PROVE  /\ \A t \in Site : known[t] \subseteq known'[t]
           /\ \A t \in Site, p \in Path : \A x \in WriteValue : Holds(t, p, x)' => x \in known'[t]
           /\ \A t \in Site : \A w \in known'[t] : past[w] \subseteq known'[t]
<1>1. known'[s] = known[s] \cup Learnt(l) /\ \A t \in Site \ {s} : known'[t] = known[t]
  BY SyncFacts
<1>2. \A t \in Site \ {s} : docs'[t] = docs[t] /\ disputes'[t] = disputes[t]
  BY SyncFacts
<1>3. ASSUME NEW p \in Path, NEW x \in WriteValue, Holds(s, p, x)' PROVE x \in known'[s]
  <2>1. Holds(s, p, x) \/ l[p] = x
    BY <1>3, SyncHolds
  <2>2. l[p] = x => x \in Learnt(l)
    BY LearntFacts
  <2> QED
    BY <1>1, <2>1, <2>2 DEF KnowledgeIsClosed
<1>4. \A t \in Site \ {s}, p \in Path : \A x \in WriteValue : Holds(t, p, x)' => x \in known'[t]
  BY <1>1, <1>2 DEF KnowledgeIsClosed, Holds
<1>5. \A t \in Site : \A w \in known'[t] : past[w] \subseteq known'[t]
  BY <1>1, LearntIsClosed DEF KnowledgeIsClosed
<1> QED
  BY <1>1, <1>3, <1>4, <1>5

LEMMA PostKnowledge ==
    ASSUME MetaShapes, PassesFit, KnowledgeFits, NEW q \in Replica, Post(q), receipt[q] = None, refused'[Server] = {}
    PROVE  KnowledgeFits'
<1>1. /\ UNCHANGED <<written, past, base, pending, absorbed, decided>>
      /\ WriteValue' = WriteValue
  BY DEF Post, WriteValue
<1>2. Doubtful(q) /\ ~Merged(q) /\ ~absorbed[q]
  BY DEF Post, Doubtful, Merged, PassesFit
<1>3. PICK b \in Text, l \in Text : pending[q].base = b /\ base[q] = b /\ pending[q].document = l
  BY <1>2, OperationTyped
<1>4. Synchronize(Server, b, l) /\ receipt' = [receipt EXCEPT ![q] = Merge(b, l, Export(Server))]
  BY <1>3 DEF Post
<1>5. PICK m \in Text : m = Merge(b, l, Export(Server))
  BY DocsTyped, MergeFacts, NoneApart
<1>6. receipt'[q] = m /\ m # None /\ \A r \in Replica \ {q} : receipt'[r] = receipt[r]
  BY <1>4, <1>5, LeavesTyped DEF MetaShapes
<1>7. \A p \in Path : m[p] = docs'[Server][p]
  BY <1>4, <1>5, SyncFacts, NoneApart
<1>8. /\ \A r \in Replica : docs'[r] = docs[r] /\ disputes'[r] = disputes[r] /\ known'[r] = known[r]
      /\ known'[Server] = known[Server] \cup Learnt(l)
  BY <1>4, SyncFacts, NoneApart
<1>9. /\ \A r \in Replica : Doubtful(r)' <=> Doubtful(r)
      /\ Merged(q)' /\ \A r \in Replica \ {q} : Merged(r)' <=> Merged(r)
  BY <1>1, <1>2, <1>6 DEF Doubtful, Merged
<1>10. KnowledgeIsClosed /\ NodesStay /\ \A x \in WriteValue \ decided, r \in Replica, p \in Path :
                                            UnsentIsUnknown(r, p, x) /\ NewsIsUnknown(r, p, x)
  BY DEF KnowledgeFits
<1>11. \A doc \in Text : Learnt(doc)' = Learnt(doc)
  BY <1>1 DEF Learnt
<1>12. /\ \A t \in Site : known[t] \subseteq known'[t]
       /\ \A t \in Site, p \in Path : \A x \in WriteValue : Holds(t, p, x)' => x \in known'[t]
       /\ \A t \in Site : \A w \in known'[t] : past[w] \subseteq known'[t]
  BY <1>4, <1>10, SyncKnowledge, NoneApart
<1>13. Learnt(l) \subseteq known[q]
  BY <1>2, <1>3, <1>10 DEF KnowledgeIsClosed
<1>14. Learnt(m) \subseteq known'[Server]
  <2>1. \A p \in Path : m[p] \in WriteValue => m[p] \in known'[Server]
    BY <1>7, <1>12, NoneApart DEF Holds
  <2> QED
    BY <1>12, <2>1, LearntIsKnown, NoneApart
<1>15. /\ \A r \in Replica : Doubtful(r)' => Learnt(pending[r].document)' = Learnt(pending[r].document)
       /\ \A r \in Replica \ {q} : Merged(r)' => Learnt(receipt[r])' = Learnt(receipt[r])
       /\ Learnt(receipt[q])' = Learnt(m)
  BY <1>1, <1>6 DEF Learnt
<1>16. KnowledgeIsClosed'
  <2>1. \A r \in Replica : Doubtful(r)' => Learnt(pending[r].document)' \subseteq known'[r]
    BY <1>8, <1>9, <1>10, <1>15 DEF KnowledgeIsClosed
  <2>2. \A r \in Replica : Merged(r)' => Learnt(receipt[r])' \subseteq known'[Server]
    BY <1>9, <1>10, <1>12, <1>14, <1>15, NoneApart DEF KnowledgeIsClosed
  <2>3. \A w \in WriteValue : \A v \in past[w] : past[v] \subseteq past[w]
    BY <1>10 DEF KnowledgeIsClosed
  <2> QED
    BY <1>1, <1>12, <2>1, <2>2, <2>3 DEF KnowledgeIsClosed
<1>17. NodesStay'
  <2>1. docs[Server].node # None => docs'[Server].node # None
    BY <1>4, SyncFacts, NoneApart
  <2>2. m.node = docs'[Server].node
    <3>1. m["node"] = docs'[Server]["node"]
      BY <1>7 DEF Path
    <3> QED
      BY <3>1
  <2>3. l.node # None => m.node # None
    <3>1. docs'[Server]["node"] = Leaf(b["node"], l["node"], docs[Server]["node"]) /\ b["node"] = b.node
          /\ l["node"] = l.node
      BY <1>4, SyncLeaves, NoneApart, LeavesTyped DEF Path
    <3>2. docs[Server].node = None => b.node = None
      BY <1>3, <1>10 DEF NodesStay
    <3> QED
      BY <2>2, <3>1, <3>2 DEF Leaf, Taken, Unchanged
  <2>4. receipt'[q].node = docs'[Server].node /\ (pending'[q].document.node # None => receipt'[q].node # None)
    BY <1>1, <1>3, <1>6, <2>2, <2>3
  <2> QED
    BY <1>1, <1>2, <1>6, <1>8, <1>9, <1>10, <2>1, <2>4 DEF NodesStay
<1>18. ASSUME NEW p \in Path, NEW x \in WriteValue, x \notin decided, NEW r \in Replica
       PROVE  UnsentIsUnknown(r, p, x)' /\ NewsIsUnknown(r, p, x)'
  <2>1. UnsentIsUnknown(r, p, x) /\ NewsIsUnknown(r, p, x) /\ UnsentIsUnknown(q, p, x) /\ NewsIsUnknown(q, p, x)
    BY <1>10, <1>18
  <2>2. CASE r # q
    <3>1. (Unsent(r, p, x)' <=> Unsent(r, p, x)) /\ (OnItsWay(r, p, x)' <=> OnItsWay(r, p, x))
          /\ (Later(r, p, x)' <=> Later(r, p, x))
      BY <1>1, <1>6, <1>8, <1>9, <2>2 DEF Unsent, OnItsWay, Later
    <3>2. (\A t \in Site \ {r} : x \notin known[t]) => \A t \in Site \ {r} : x \notin known'[t]
      BY <1>8, <1>13, <2>2, NoneApart DEF Site
    <3>3. UnsentIsUnknown(r, p, x)'
      BY <1>1, <1>6, <1>8, <1>9, <1>15, <2>1, <2>2, <3>1, <3>2 DEF UnsentIsUnknown, Later
    <3>4. docs'[Server][p] = x => docs[Server][p] = x \/ OnItsWay(q, p, x)
      <4>1. docs'[Server][p] = x => docs[Server][p] = x \/ (l[p] = x /\ b[p] # x)
        BY <1>4, SyncHolds, NoneApart
      <4> QED
        BY <1>2, <1>3, <4>1 DEF OnItsWay
    <3>5. OnItsWay(q, p, x) => x \notin known[r] /\ x \notin known[Server]
      BY <2>1, <2>2, NoneApart DEF UnsentIsUnknown
    <3>6. Merged(r) => Learnt(receipt[r]) \subseteq known[Server]
      BY <1>10 DEF KnowledgeIsClosed
    <3>7. LastCommon(r)' = LastCommon(r)
      BY <1>1, <1>6, <1>9, <2>2 DEF LastCommon
    <3>8. NewsIsUnknown(r, p, x)'
      BY <1>1, <1>6, <1>8, <1>9, <1>15, <2>1, <2>2, <3>4, <3>5, <3>6, <3>7 DEF NewsIsUnknown
    <3> QED
      BY <3>3, <3>8
  <2>3. CASE r = q
    <3>1. ~Unsent(q, p, x)' /\ ~OnItsWay(q, p, x)' /\ (Later(q, p, x)' => Later(q, p, x))
      BY <1>1, <1>2, <1>8, <1>9 DEF Unsent, OnItsWay, Later
    <3>2. Later(q, p, x)' => x \notin Learnt(l)
      BY <1>2, <1>3, <2>1, <3>1 DEF UnsentIsUnknown
    <3>3. Later(q, p, x)' => \A t \in Site \ {q} : x \notin known'[t]
      BY <1>8, <2>1, <3>1, <3>2, NoneApart DEF UnsentIsUnknown, Site
    <3>4. UnsentIsUnknown(q, p, x)'
      BY <1>1, <1>2, <1>9, <3>1, <3>3 DEF UnsentIsUnknown
    <3>5. m[p] = x /\ l[p] # x => x \notin known[q]
      <4> SUFFICES ASSUME m[p] = x, l[p] # x PROVE x \notin known[q]
        OBVIOUS
      <4>1. m[p] = Leaf(b[p], l[p], docs[Server][p])
        BY <1>4, <1>7, SyncLeaves, NoneApart
      <4>2. docs[Server][p] = x
        BY <4>1, LeafFacts
      <4>3. b[p] # x
        <5> SUFFICES ASSUME b[p] = x PROVE FALSE
          OBVIOUS
        <5>1. l[p] = None
          BY <4>1, <4>2 DEF Leaf, Taken, Unchanged
        <5>2. p = "node"
          BY <5>1, LeavesTyped, NoneApart, WritesAreNumbers DEF Path
        <5>3. b.node # None /\ l.node = None
          BY <5>1, <5>2, LeavesTyped, WritesAreNumbers
        <5> QED
          BY <1>2, <1>3, <1>10, <5>3 DEF NodesStay
      <4> QED
        BY <1>2, <1>3, <2>1, <4>2, <4>3 DEF NewsIsUnknown, LastCommon
    <3>6. LastCommon(q)' = m
      BY <1>6, <1>9 DEF LastCommon
    <3>7. NewsIsUnknown(q, p, x)'
      BY <1>1, <1>3, <1>6, <1>7, <1>8, <3>5, <3>6 DEF NewsIsUnknown
    <3> QED
      BY <2>3, <3>4, <3>7
  <2> QED
    BY <2>2, <2>3
<1>19. ASSUME NEW s \in Site, NEW d \in disputes'[s] PROVE Independent(d)'
  <2>1. CASE d \in disputes[s]
    BY <1>1, <2>1 DEF KnowledgeFits, Independent
  <2>2. CASE d \notin disputes[s]
    <3>1. s = Server
      BY <1>8, <1>19, <2>2 DEF Site
    <3>2. d.path \in Path /\ d.incoming = l[d.path] /\ d.current = docs[Server][d.path]
          /\ Disputed(b[d.path], l[d.path], docs[Server][d.path])
      BY <1>4, <1>19, <2>2, <3>1, SyncLeaves, NoneApart DEF Path
    <3> SUFFICES ASSUME d.incoming \in WriteValue, d.incoming \notin decided,
                        d.current \in WriteValue, d.current \notin decided
                 PROVE  d.incoming \notin past[d.current] /\ d.current \notin past[d.incoming]
      BY <1>1 DEF Independent
    <3>3. l[d.path] # b[d.path] /\ docs[Server][d.path] # b[d.path]
      BY <3>2, LeafFacts, WritesAreNumbers
    <3>4. d.incoming \notin known[Server]
      <4>1. OnItsWay(q, d.path, d.incoming)
        BY <1>2, <1>3, <3>2, <3>3 DEF OnItsWay
      <4> QED
        BY <1>10, <3>2, <4>1, NoneApart DEF UnsentIsUnknown
    <3>5. d.current \notin known[q]
      BY <1>2, <1>3, <1>10, <3>2, <3>3 DEF NewsIsUnknown, LastCommon
    <3>6. past[d.current] \subseteq known[Server]
      BY <1>10, <3>2, NoneApart DEF KnowledgeIsClosed, Holds
    <3>7. past[d.incoming] \subseteq known[q]
      BY <1>13, <3>2, LearntFacts
    <3> QED
      BY <3>4, <3>5, <3>6, <3>7
  <2> QED
    BY <2>1, <2>2
<1> QED
  BY <1>1, <1>16, <1>17, <1>18, <1>19 DEF KnowledgeFits

LEMMA AbsorbKnowledge ==
    ASSUME MetaShapes, PassesFit, KnowledgeFits, NEW q \in Replica, Absorb(q), refused'[q] = {}
    PROVE  KnowledgeFits'
<1>1. /\ UNCHANGED <<written, past, base, pending, receipt, decided>>
      /\ WriteValue' = WriteValue
  BY DEF Absorb, WriteValue
<1>2. Doubtful(q) /\ Merged(q) /\ ~absorbed[q] /\ absorbed'[q] /\ q \in Site /\ q # Server
      /\ \A r \in Replica \ {q} : absorbed'[r] = absorbed[r]
  BY NoneApart DEF Absorb, Doubtful, Merged, PassesFit, MetaShapes
<1>3. PICK b \in Text, l \in Text : pending[q].document = b /\ receipt[q] = l
  BY <1>2, OperationTyped
<1>4. Synchronize(q, b, l)
  BY <1>3 DEF Absorb
<1>5. /\ \A t \in Site \ {q} : docs'[t] = docs[t] /\ disputes'[t] = disputes[t] /\ known'[t] = known[t]
      /\ known'[q] = known[q] \cup Learnt(l)
  BY <1>2, <1>4, SyncFacts
<1>6. \A r \in Replica : (Doubtful(r)' <=> Doubtful(r)) /\ (Merged(r)' <=> Merged(r))
                         /\ LastCommon(r)' = LastCommon(r)
  BY <1>1 DEF Doubtful, Merged, LastCommon
<1>7. KnowledgeIsClosed /\ NodesStay /\ \A x \in WriteValue \ decided, r \in Replica, p \in Path :
                                            UnsentIsUnknown(r, p, x) /\ NewsIsUnknown(r, p, x)
  BY DEF KnowledgeFits
<1>8. /\ \A t \in Site : known[t] \subseteq known'[t]
      /\ \A t \in Site, p \in Path : \A x \in WriteValue : Holds(t, p, x)' => x \in known'[t]
      /\ \A t \in Site : \A w \in known'[t] : past[w] \subseteq known'[t]
  BY <1>2, <1>4, <1>7, SyncKnowledge
<1>9. Learnt(l) \subseteq known[Server]
  BY <1>2, <1>3, <1>7 DEF KnowledgeIsClosed
<1>10. \A r \in Replica : /\ Learnt(pending[r].document)' = Learnt(pending[r].document)
                          /\ Learnt(receipt[r])' = Learnt(receipt[r])
  BY <1>1 DEF Learnt
<1>11. KnowledgeIsClosed'
  <2>1. \A r \in Replica : Doubtful(r)' => Learnt(pending[r].document)' \subseteq known'[r]
    BY <1>6, <1>7, <1>8, <1>10, NoneApart DEF KnowledgeIsClosed
  <2>2. \A r \in Replica : Merged(r)' => Learnt(receipt[r])' \subseteq known'[Server]
    BY <1>6, <1>7, <1>8, <1>10, NoneApart DEF KnowledgeIsClosed
  <2>3. \A w \in WriteValue : \A v \in past[w] : past[v] \subseteq past[w]
    BY <1>7 DEF KnowledgeIsClosed
  <2> QED
    BY <1>1, <1>8, <2>1, <2>2, <2>3 DEF KnowledgeIsClosed
<1>12. NodesStay'
  <2>1. docs[q].node # None => docs'[q].node # None
    BY <1>2, <1>4, SyncFacts
  <2>2. l.node # None => docs'[q].node # None
    <3>1. docs'[q]["node"] = Leaf(b["node"], l["node"], docs[q]["node"]) /\ b["node"] = b.node
          /\ l["node"] = l.node
      BY <1>2, <1>4, SyncLeaves, LeavesTyped DEF Path
    <3>2. docs[q].node = None => b.node = None
      BY <1>2, <1>3, <1>7 DEF NodesStay
    <3> QED
      BY <3>1, <3>2 DEF Leaf, Taken, Unchanged
  <2>3. \A r \in Replica \ {q} : docs'[r] = docs[r]
    BY <1>5, NoneApart
  <2> QED
    BY <1>1, <1>2, <1>3, <1>5, <1>6, <1>7, <2>1, <2>2, <2>3, NoneApart DEF NodesStay
<1>13. ASSUME NEW p \in Path, NEW x \in WriteValue, x \notin decided, NEW r \in Replica
       PROVE  UnsentIsUnknown(r, p, x)' /\ NewsIsUnknown(r, p, x)'
  <2>1. UnsentIsUnknown(r, p, x) /\ NewsIsUnknown(r, p, x) /\ UnsentIsUnknown(q, p, x) /\ NewsIsUnknown(q, p, x)
    BY <1>7, <1>13
  <2>2. CASE r # q
    <3>1. (Unsent(r, p, x)' <=> Unsent(r, p, x)) /\ (OnItsWay(r, p, x)' <=> OnItsWay(r, p, x))
          /\ (Later(r, p, x)' <=> Later(r, p, x))
      BY <1>1, <1>5, <1>6, <2>2, NoneApart DEF Unsent, OnItsWay, Later
    <3>2. (\A t \in Site \ {r} : x \notin known[t]) => \A t \in Site \ {r} : x \notin known'[t]
      BY <1>5, <1>9, <2>2, NoneApart
    <3>3. UnsentIsUnknown(r, p, x)'
      BY <1>1, <1>2, <1>5, <1>6, <1>10, <2>1, <2>2, <3>1, <3>2, NoneApart DEF UnsentIsUnknown
    <3>4. NewsIsUnknown(r, p, x)'
      BY <1>1, <1>2, <1>5, <1>6, <1>10, <2>1, <2>2, NoneApart DEF NewsIsUnknown
    <3> QED
      BY <3>3, <3>4
  <2>3. CASE r = q
    <3>1. docs'[q][p] = x => docs[q][p] = x \/ l[p] = x
      BY <1>2, <1>4, SyncHolds
    <3>2. Later(q, p, x)' => Later(q, p, x)
      BY <1>1, <1>2, <1>3, <1>6, <3>1 DEF Later
    <3>3. Later(q, p, x)' => \A t \in Site \ {q} : x \notin known'[t]
      BY <1>5, <2>1, <3>2, NoneApart DEF UnsentIsUnknown
    <3>4. docs'[q][p] = x /\ b[p] = x => l[p] = x
      <4> SUFFICES ASSUME docs'[q][p] = x, b[p] = x, l[p] # x PROVE FALSE
        OBVIOUS
      <4>1. docs'[q][p] = Leaf(b[p], l[p], docs[q][p])
        BY <1>2, <1>4, SyncLeaves
      <4>2. l[p] = None
        BY <4>1 DEF Leaf, Taken, Unchanged
      <4>3. p = "node"
        BY <4>2, LeavesTyped, NoneApart, WritesAreNumbers DEF Path
      <4>4. b.node # None /\ l.node = None
        BY <4>2, <4>3, LeavesTyped, WritesAreNumbers
      <4> QED
        BY <1>2, <1>3, <1>7, <4>4 DEF NodesStay
    <3>5. ~Unsent(q, p, x)' /\ ~OnItsWay(q, p, x)'
      BY <1>2, <1>6 DEF Unsent, OnItsWay
    <3>6. UnsentIsUnknown(q, p, x)'
      BY <1>1, <1>2, <1>3, <1>6, <3>3, <3>4, <3>5 DEF UnsentIsUnknown
    <3>7. LastCommon(q) = l
      BY <1>2, <1>3 DEF LastCommon
    <3>8. NewsIsUnknown(q, p, x)'
      BY <1>1, <1>2, <1>3, <1>5, <1>6, <1>10, <2>1, <3>7, NoneApart DEF NewsIsUnknown
    <3> QED
      BY <2>3, <3>6, <3>8
  <2> QED
    BY <2>2, <2>3
<1>14. ASSUME NEW s \in Site, NEW d \in disputes'[s] PROVE Independent(d)'
  <2>1. CASE d \in disputes[s]
    BY <1>1, <2>1 DEF KnowledgeFits, Independent
  <2>2. CASE d \notin disputes[s]
    <3>1. s = q
      BY <1>5, <1>14, <2>2
    <3>2. d.path \in Path /\ d.incoming = l[d.path] /\ d.current = docs[q][d.path]
          /\ Disputed(b[d.path], l[d.path], docs[q][d.path])
      BY <1>2, <1>4, <1>14, <2>2, <3>1, SyncLeaves DEF Path
    <3> SUFFICES ASSUME d.incoming \in WriteValue, d.incoming \notin decided,
                        d.current \in WriteValue, d.current \notin decided
                 PROVE  d.incoming \notin past[d.current] /\ d.current \notin past[d.incoming]
      BY <1>1 DEF Independent
    <3>3. l[d.path] # b[d.path] /\ docs[q][d.path] # b[d.path] /\ l[d.path] # docs[q][d.path]
      BY <3>2, LeafFacts, WritesAreNumbers
    <3>4. d.current \notin known[Server]
      <4>1. Later(q, d.path, d.current)
        BY <1>2, <1>3, <3>2, <3>3 DEF Later
      <4> QED
        BY <1>2, <1>7, <3>2, <4>1, NoneApart DEF UnsentIsUnknown
    <3>5. d.incoming \notin known[q]
      BY <1>2, <1>3, <1>7, <3>2, <3>3 DEF NewsIsUnknown
    <3>6. past[d.current] \subseteq known[q]
      BY <1>2, <1>7, <3>2 DEF KnowledgeIsClosed, Holds
    <3>7. past[d.incoming] \subseteq known[Server]
      BY <1>9, <3>2, LearntFacts
    <3> QED
      BY <3>4, <3>5, <3>6, <3>7
  <2> QED
    BY <2>1, <2>2
<1> QED
  BY <1>1, <1>11, <1>12, <1>13, <1>14 DEF KnowledgeFits

\* The steps of a pass that touch only the checkpoint and the receipts.
LEMMA CheckpointKnowledge ==
    ASSUME MetaShapes, PassesFit, KnowledgeFits, NEW q \in Replica,
           Prepare(q) \/ Checkpoint(q) \/ Crash(q) \/ (Post(q) /\ receipt[q] # None)
    PROVE  KnowledgeFits'
<1>1. /\ UNCHANGED <<docs, disputes, known, written, past, decided>>
      /\ WriteValue' = WriteValue
  BY DEF Prepare, Checkpoint, Crash, Post, WriteValue
<1>2. KnowledgeIsClosed /\ NodesStay /\ \A x \in WriteValue \ decided, r \in Replica, p \in Path :
                                            UnsentIsUnknown(r, p, x) /\ NewsIsUnknown(r, p, x)
  BY DEF KnowledgeFits
<1>3. \A r \in Replica \ {q} : /\ base'[r] = base[r] /\ pending'[r] = pending[r]
                               /\ receipt'[r] = receipt[r] /\ absorbed'[r] = absorbed[r]
  BY DEF Prepare, Checkpoint, Crash, Post, MetaShapes
<1>4. \A r \in Replica \ {q} :
         /\ Doubtful(r)' <=> Doubtful(r)
         /\ Merged(r)' <=> Merged(r)
         /\ LastCommon(r)' = LastCommon(r)
         /\ Learnt(pending[r].document)' = Learnt(pending[r].document)
         /\ Learnt(receipt[r])' = Learnt(receipt[r])
  BY <1>1, <1>3 DEF Doubtful, Merged, LastCommon, Learnt
<1>5. \A r \in Replica \ {q}, p \in Path, x \in WriteValue \ decided :
         UnsentIsUnknown(r, p, x)' /\ NewsIsUnknown(r, p, x)'
  BY <1>1, <1>2, <1>3, <1>4 DEF UnsentIsUnknown, NewsIsUnknown, Unsent, OnItsWay, Later
<1>6. \A s \in Site : \A d \in disputes'[s] : Independent(d)'
  BY <1>1 DEF KnowledgeFits, Independent
<1>7. /\ \A s \in Site, p \in Path : \A x \in WriteValue : Holds(s, p, x)' => x \in known[s]
      /\ \A s \in Site : \A w \in known[s] : past[w] \subseteq known[s]
      /\ \A w \in WriteValue : \A v \in past[w] : past[v] \subseteq past[w]
  BY <1>1, <1>2 DEF KnowledgeIsClosed, Holds
<1>8. /\ Doubtful(q)' => Learnt(pending[q].document)' \subseteq known[q]
      /\ Merged(q)' => Learnt(receipt[q])' \subseteq known[Server]
      /\ \A p \in Path, x \in WriteValue \ decided : UnsentIsUnknown(q, p, x)' /\ NewsIsUnknown(q, p, x)'
      /\ NodesStay'
  <2>1. CASE Prepare(q)
    <3>1. PICK doc \in Text : doc = Export(q) /\ \A p \in Path : doc[p] = docs[q][p]
      BY DocsTyped, NoneApart
    <3>2. /\ base' = base /\ receipt'[q] = None /\ ~absorbed'[q]
          /\ pending'[q] = [base |-> base[q], document |-> doc]
      BY <2>1, <3>1 DEF Prepare, MetaShapes
    <3>3. ~Doubtful(q) /\ ~Merged(q) /\ ~Merged(q)' /\ Doubtful(q)' /\ LastCommon(q)' = LastCommon(q)
      <4>1. pending'[q] # None
        BY <2>1, <3>2, OperationsAreSome, OperationTyped
      <4> QED
        BY <2>1, <3>2, <4>1 DEF Prepare, Doubtful, Merged, LastCommon
    <3>4. Learnt(doc) \subseteq known[q]
      <4>1. \A p \in Path : doc[p] \in WriteValue => doc[p] \in known[q]
        BY <1>2, <3>1, NoneApart DEF KnowledgeIsClosed, Holds
      <4> QED
        BY <1>7, <4>1, LearntIsKnown, NoneApart
    <3>5. Learnt(pending[q].document)' = Learnt(doc)
      BY <1>1, <3>2 DEF Learnt
    <3>6. ASSUME NEW p \in Path, NEW x \in WriteValue \ decided
          PROVE  UnsentIsUnknown(q, p, x)' /\ NewsIsUnknown(q, p, x)'
      <4>1. UnsentIsUnknown(q, p, x) /\ NewsIsUnknown(q, p, x)
        BY <1>2
      <4>2. ~Unsent(q, p, x)' /\ ~Later(q, p, x)' /\ (OnItsWay(q, p, x)' => Unsent(q, p, x))
        BY <1>1, <3>1, <3>2, <3>3 DEF Unsent, OnItsWay, Later
      <4>3. UnsentIsUnknown(q, p, x)'
        BY <1>1, <3>3, <4>1, <4>2 DEF UnsentIsUnknown
      <4>4. NewsIsUnknown(q, p, x)'
        BY <1>1, <3>3, <4>1 DEF NewsIsUnknown
      <4> QED
        BY <4>3, <4>4
    <3>7. NodesStay'
      <4>1. doc.node = docs[q].node
        BY <3>1 DEF Export
      <4> QED
        BY <1>1, <1>2, <1>3, <1>4, <3>2, <3>3, <4>1 DEF NodesStay
    <3> QED
      BY <3>3, <3>4, <3>5, <3>6, <3>7
  <2>2. CASE Checkpoint(q)
    <3>1. base'[q] = receipt[q] /\ receipt' = receipt /\ absorbed' = absorbed /\ pending'[q] = None /\ absorbed[q]
      BY <2>2 DEF Checkpoint, MetaShapes
    <3>2. Merged(q) /\ Doubtful(q) /\ ~Merged(q)' /\ ~Doubtful(q)' /\ LastCommon(q)' = LastCommon(q)
      BY <2>2, <3>1 DEF Checkpoint, PassesFit, Merged, Doubtful, LastCommon
    <3>3. ASSUME NEW p \in Path, NEW x \in WriteValue \ decided
          PROVE  UnsentIsUnknown(q, p, x)' /\ NewsIsUnknown(q, p, x)'
      <4>1. UnsentIsUnknown(q, p, x) /\ NewsIsUnknown(q, p, x)
        BY <1>2
      <4>2. ~OnItsWay(q, p, x)' /\ ~Later(q, p, x)' /\ (Unsent(q, p, x)' => Later(q, p, x))
        BY <1>1, <3>1, <3>2, <4>1 DEF Unsent, OnItsWay, Later, UnsentIsUnknown
      <4>3. UnsentIsUnknown(q, p, x)'
        BY <1>1, <3>2, <4>1, <4>2 DEF UnsentIsUnknown
      <4>4. NewsIsUnknown(q, p, x)'
        BY <1>1, <3>2, <4>1 DEF NewsIsUnknown
      <4> QED
        BY <4>3, <4>4
    <3>4. NodesStay'
      BY <1>1, <1>2, <1>3, <1>4, <3>1, <3>2 DEF NodesStay
    <3> QED
      BY <3>2, <3>3, <3>4
  <2>3. CASE Crash(q) \/ (Post(q) /\ receipt[q] # None)
    <3>1. UNCHANGED <<base, pending, receipt, absorbed>>
      BY <2>3 DEF Crash, Post
    <3>2. (Doubtful(q)' <=> Doubtful(q)) /\ (Merged(q)' <=> Merged(q)) /\ LastCommon(q)' = LastCommon(q)
          /\ Learnt(pending[q].document)' = Learnt(pending[q].document)
          /\ Learnt(receipt[q])' = Learnt(receipt[q])
      BY <1>1, <3>1 DEF Doubtful, Merged, LastCommon, Learnt
    <3>3. \A p \in Path, x \in WriteValue \ decided : UnsentIsUnknown(q, p, x)' /\ NewsIsUnknown(q, p, x)'
      BY <1>1, <1>2, <3>1, <3>2 DEF UnsentIsUnknown, NewsIsUnknown, Unsent, OnItsWay, Later
    <3>4. NodesStay'
      BY <1>1, <1>2, <3>1, <3>2, <1>4 DEF NodesStay
    <3> QED
      BY <1>2, <3>2, <3>3, <3>4 DEF KnowledgeIsClosed
  <2> QED
    BY <2>1, <2>2, <2>3
<1>9. KnowledgeIsClosed'
  <2>1. \A r \in Replica : /\ Doubtful(r)' => Learnt(pending[r].document)' \subseteq known[r]
                           /\ Merged(r)' => Learnt(receipt[r])' \subseteq known[Server]
    BY <1>2, <1>4, <1>8 DEF KnowledgeIsClosed
  <2> QED
    BY <1>1, <1>7, <2>1 DEF KnowledgeIsClosed
<1> QED
  BY <1>1, <1>5, <1>6, <1>8, <1>9 DEF KnowledgeFits

\* What an owner has just written only its site knows.
LEMMA NewValueKnowledge ==
    ASSUME MetaShapes, PassesFit, KnowledgeFits, NEW s \in Site, NEW path \in Path, NEW w,
           w = written + 1, written' = w, docs'[s][path] = w,
           \A t \in Site, p \in Path : t # s \/ p # path => docs'[t][p] = docs[t][p],
           known' = [known EXCEPT ![s] = @ \cup {w}],
           \A y \in WriteValue : past'[y] = past[y], past'[w] \in {{}, known[s]},
           UNCHANGED <<disputes, base, pending, receipt, absorbed, decided>>
    PROVE  KnowledgeFits'
<1>1. WriteValue' = WriteValue \cup {w} /\ WriteValue \subseteq Nat /\ w \in Nat /\ w \notin WriteValue /\ w # None
      /\ w \notin Titles
  BY WritesAreNumbers, NoneApart DEF WriteValue, Titles, MetaShapes
<1>2. \A doc \in Text, p \in Path : doc[p] # w
  <2>1. w \notin Titles \cup Nodes
    BY <1>1 DEF Nodes
  <2> QED
    BY <2>1 DEF Text, Path
<1>3. \A r \in Replica : (Doubtful(r)' <=> Doubtful(r)) /\ (Merged(r)' <=> Merged(r)) /\ LastCommon(r)' = LastCommon(r)
  BY DEF Doubtful, Merged, LastCommon
<1>4. \A r \in Replica : /\ base[r] \in Text
                         /\ Doubtful(r) => pending[r].document \in Text
                         /\ Merged(r) => receipt[r] \in Text
                         /\ LastCommon(r) \in Text
  BY OperationTyped DEF LastCommon
<1>5. KnowledgeIsClosed /\ NodesStay /\ \A x \in WriteValue \ decided, r \in Replica, p \in Path :
                                            UnsentIsUnknown(r, p, x) /\ NewsIsUnknown(r, p, x)
  BY DEF KnowledgeFits
<1>6. \A doc \in Text : Learnt(doc)' = Learnt(doc)
  <2> SUFFICES ASSUME NEW doc \in Text PROVE Learnt(doc)' = Learnt(doc)
    OBVIOUS
  <2>1. doc.title # w /\ doc.node # w
    BY <1>2, LeavesTyped DEF Path
  <2>2. {doc.title, doc.node} \cap WriteValue' = {doc.title, doc.node} \cap WriteValue
    BY <1>1, <2>1
  <2> DEFINE seen == {doc.title, doc.node} \cap WriteValue
  <2>3. \A y \in seen : past'[y] = past[y]
    OBVIOUS
  <2>4. Learnt(doc) = seen \cup UNION {past[y] : y \in seen}
    BY DEF Learnt
  <2>5. Learnt(doc)' = seen \cup UNION {past'[y] : y \in seen}
    BY <2>2 DEF Learnt
  <2> HIDE DEF seen
  <2>6. {past'[y] : y \in seen} = {past[y] : y \in seen}
    BY <2>3
  <2> QED
    BY <2>4, <2>5, <2>6
<1>7. \A r \in Replica : /\ Doubtful(r) => Learnt(pending[r].document)' = Learnt(pending[r].document)
                         /\ Merged(r) => Learnt(receipt[r])' = Learnt(receipt[r])
  <2> SUFFICES ASSUME NEW r \in Replica
               PROVE  /\ Doubtful(r) => Learnt(pending[r].document)' = Learnt(pending[r].document)
                      /\ Merged(r) => Learnt(receipt[r])' = Learnt(receipt[r])
    OBVIOUS
  <2>1. ASSUME Doubtful(r) PROVE Learnt(pending[r].document)' = Learnt(pending[r].document)
    <3>1. PICK doc \in Text : doc = pending[r].document
      BY <1>4, <2>1
    <3>2. Learnt(doc)' = Learnt(doc)
      BY <1>6
    <3> QED
      BY <3>1, <3>2 DEF Learnt
  <2>2. ASSUME Merged(r) PROVE Learnt(receipt[r])' = Learnt(receipt[r])
    <3>1. PICK doc \in Text : doc = receipt[r]
      BY <1>4, <2>2
    <3>2. Learnt(doc)' = Learnt(doc)
      BY <1>6
    <3> QED
      BY <3>1, <3>2 DEF Learnt
  <2> QED
    BY <2>1, <2>2
<1>8. known'[s] = known[s] \cup {w} /\ (\A t \in Site \ {s} : known'[t] = known[t])
      /\ \A t \in Site : known[t] \subseteq WriteValue
  BY DEF MetaShapes
<1>9. KnowledgeIsClosed'
  <2>1. ASSUME NEW t \in Site, NEW p \in Path, NEW x \in WriteValue', Holds(t, p, x)' PROVE x \in known'[t]
    <3>1. CASE docs'[t][p] = x /\ t = s /\ p = path
      BY <1>8, <3>1
    <3>2. CASE docs'[t][p] = x /\ (t # s \/ p # path)
      <4>1. docs[t][p] = x /\ Export(t) \in Text /\ Export(t)[p] = docs[t][p]
        BY <3>2, DocsTyped
      <4>2. x \in WriteValue
        BY <1>1, <1>2, <4>1
      <4> QED
        BY <1>5, <1>8, <4>1, <4>2 DEF KnowledgeIsClosed, Holds
    <3>3. CASE \E d \in disputes[t] : d.path = p /\ x \in {d.incoming, d.current}
      <4>1. PICK d \in disputes[t] : d.path = p /\ x \in {d.incoming, d.current}
        BY <3>3
      <4>2. d \in TitleDispute \cup NodeDispute
        BY DEF MetaShapes
      <4>3. x # w
        BY <1>1, <4>1, <4>2 DEF TitleDispute, NodeDispute, Nodes
      <4> QED
        BY <1>1, <1>5, <1>8, <3>3, <4>3 DEF KnowledgeIsClosed, Holds
    <3> QED
      BY <2>1, <3>1, <3>2, <3>3 DEF Holds
  <2>2. ASSUME NEW t \in Site, NEW y \in known'[t] PROVE past'[y] \subseteq known'[t]
    BY <1>5, <1>8 DEF KnowledgeIsClosed
  <2>3. ASSUME NEW y \in WriteValue', NEW v \in past'[y] PROVE past'[v] \subseteq past'[y]
    <3>1. CASE y = w
      BY <1>5, <1>8, <2>3, <3>1 DEF KnowledgeIsClosed
    <3>2. CASE y \in WriteValue
      <4>1. v \in past[y] /\ v \in WriteValue
        BY <2>3, <3>2, PastTyped
      <4> QED
        BY <1>5, <3>2, <4>1 DEF KnowledgeIsClosed
    <3> QED
      BY <1>1, <3>1, <3>2
  <2>4. \A r \in Replica : /\ Doubtful(r)' => Learnt(pending[r].document)' \subseteq known'[r]
                           /\ Merged(r)' => Learnt(receipt[r])' \subseteq known'[Server]
    BY <1>3, <1>5, <1>7, <1>8, NoneApart DEF KnowledgeIsClosed
  <2> QED
    BY <2>1, <2>2, <2>3, <2>4 DEF KnowledgeIsClosed
<1>10. NodesStay'
  <2>1. \A t \in Site : docs[t].node # None => docs'[t].node # None
    <3>1. \A t \in Site : docs[t]["node"] # None => docs'[t]["node"] # None
      BY <1>1 DEF Path
    <3> QED
      BY <3>1
  <2> QED
    BY <1>3, <1>5, <2>1, NoneApart DEF NodesStay
<1>11. ASSUME NEW p \in Path, NEW x \in WriteValue' \ decided, NEW r \in Replica
       PROVE  UnsentIsUnknown(r, p, x)' /\ NewsIsUnknown(r, p, x)'
  <2>1. CASE x \in WriteValue
    <3>1. UnsentIsUnknown(r, p, x) /\ NewsIsUnknown(r, p, x) /\ x # w
      BY <1>1, <1>5, <2>1
    <3>2. \A t \in Site : docs'[t][p] = x => docs[t][p] = x
      BY <3>1
    <3>3. /\ Unsent(r, p, x)' => Unsent(r, p, x)
          /\ OnItsWay(r, p, x)' => OnItsWay(r, p, x)
          /\ Later(r, p, x)' => Later(r, p, x)
      BY <1>3, <3>2, NoneApart DEF Unsent, OnItsWay, Later
    <3>4. \A t \in Site : x \in known'[t] => x \in known[t]
      BY <1>8, <3>1
    <3>5. UnsentIsUnknown(r, p, x)'
      BY <1>3, <1>7, <3>1, <3>2, <3>3, <3>4, NoneApart DEF UnsentIsUnknown, Later
    <3>6. NewsIsUnknown(r, p, x)'
      BY <1>3, <1>7, <3>1, <3>2, <3>4, NoneApart DEF NewsIsUnknown
    <3> QED
      BY <3>5, <3>6
  <2>2. CASE x = w
    <3>1. \A t \in Site \ {s} : x \notin known'[t]
      BY <1>1, <1>8, <2>2
    <3>2. \A t \in Site \ {s} : docs'[t][p] # x
      <4>1. \A t \in Site : Export(t) \in Text /\ Export(t)[p] = docs[t][p]
        BY DocsTyped
      <4> QED
        BY <1>2, <2>2, <4>1
    <3>3. /\ LastCommon(r)[p] # x
          /\ Doubtful(r) => pending[r].document[p] # x
          /\ Merged(r) => receipt[r][p] # x
      BY <1>2, <1>4, <2>2
    <3>4. /\ Doubtful(r) => x \notin Learnt(pending[r].document)
          /\ Merged(r) => x \notin Learnt(receipt[r])
      BY <1>1, <1>4, <2>2, LearntFacts
    <3>5. UnsentIsUnknown(r, p, x)'
      <4>1. ~OnItsWay(r, p, x)' /\ ~(Merged(r)' /\ pending'[r].document[p] = x)
        BY <1>3, <3>3 DEF OnItsWay, Merged
      <4>2. Unsent(r, p, x)' \/ Later(r, p, x)' => \A t \in Site \ {r} : x \notin known'[t]
        BY <3>1, <3>2, NoneApart DEF Unsent, Later
      <4>3. Later(r, p, x)' => x \notin Learnt(pending[r].document)'
        BY <1>3, <1>7, <3>4 DEF Later
      <4> QED
        BY <4>1, <4>2, <4>3 DEF UnsentIsUnknown
    <3>6. NewsIsUnknown(r, p, x)'
      BY <1>3, <1>7, <3>1, <3>2, <3>3, <3>4, NoneApart DEF NewsIsUnknown
    <3> QED
      BY <3>5, <3>6
  <2> QED
    BY <1>1, <2>1, <2>2
<1>12. ASSUME NEW t \in Site, NEW d \in disputes'[t] PROVE Independent(d)'
  <2>1. d \in TitleDispute \cup NodeDispute /\ Independent(d)
    BY DEF MetaShapes, KnowledgeFits
  <2>2. d.incoming # w /\ d.current # w
    BY <1>1, <2>1 DEF TitleDispute, NodeDispute, Nodes
  <2> QED
    BY <1>1, <2>1, <2>2 DEF Independent
<1> QED
  BY <1>9, <1>10, <1>11, <1>12 DEF KnowledgeFits

\* Moves, restores and reviews put nothing new anywhere but what a review chose.
LEMMA DecisionKnowledge ==
    ASSUME MetaShapes, KnowledgeFits,
           \A t \in Site, p \in Path : \A x \in WriteValue :
               docs'[t][p] = x => docs[t][p] = x \/ (x \in decided' /\ Holds(t, p, x)),
           \A t \in Site : docs[t].node # None => docs'[t].node # None,
           \A t \in Site : disputes'[t] \subseteq disputes[t],
           decided \subseteq decided',
           UNCHANGED <<written, past, known, base, pending, receipt, absorbed>>
    PROVE  KnowledgeFits'
<1>1. WriteValue' = WriteValue
  BY DEF WriteValue
<1>2. \A r \in Replica : /\ Doubtful(r)' <=> Doubtful(r)
                         /\ Merged(r)' <=> Merged(r)
                         /\ LastCommon(r)' = LastCommon(r)
                         /\ Learnt(pending[r].document)' = Learnt(pending[r].document)
                         /\ Learnt(receipt[r])' = Learnt(receipt[r])
  BY <1>1 DEF Doubtful, Merged, LastCommon, Learnt
<1>3. KnowledgeIsClosed /\ NodesStay /\ \A x \in WriteValue \ decided, r \in Replica, p \in Path :
                                            UnsentIsUnknown(r, p, x) /\ NewsIsUnknown(r, p, x)
  BY DEF KnowledgeFits
<1>4. KnowledgeIsClosed'
  <2>1. \A t \in Site, p \in Path : \A x \in WriteValue : Holds(t, p, x)' => Holds(t, p, x)
    BY DEF Holds
  <2> QED
    BY <1>1, <1>2, <1>3, <2>1 DEF KnowledgeIsClosed
<1>5. NodesStay'
  BY <1>2, <1>3, NoneApart DEF NodesStay
<1>6. ASSUME NEW p \in Path, NEW x \in WriteValue, x \notin decided', NEW r \in Replica
      PROVE  UnsentIsUnknown(r, p, x)' /\ NewsIsUnknown(r, p, x)'
  <2>1. UnsentIsUnknown(r, p, x) /\ NewsIsUnknown(r, p, x)
    BY <1>3, <1>6
  <2>2. \A t \in Site : docs'[t][p] = x => docs[t][p] = x
    BY <1>6
  <2>3. /\ Unsent(r, p, x)' => Unsent(r, p, x)
        /\ OnItsWay(r, p, x)' => OnItsWay(r, p, x)
        /\ Later(r, p, x)' => Later(r, p, x)
    BY <1>2, <2>2, NoneApart DEF Unsent, OnItsWay, Later
  <2>4. UnsentIsUnknown(r, p, x)'
    BY <1>2, <2>1, <2>2, <2>3, NoneApart DEF UnsentIsUnknown, Later
  <2>5. NewsIsUnknown(r, p, x)'
    BY <1>2, <2>1, <2>2, NoneApart DEF NewsIsUnknown
  <2> QED
    BY <2>4, <2>5
<1>7. ASSUME NEW t \in Site, NEW d \in disputes'[t] PROVE Independent(d)'
  BY <1>1, <1>7 DEF KnowledgeFits, Independent
<1> QED
  BY <1>1, <1>4, <1>5, <1>6, <1>7 DEF KnowledgeFits

LEMMA OwnersKnowledge ==
    ASSUME MetaShapes, PassesFit, NodeIsNew, KnowledgeFits, NothingRefused, ~metaCount'.purged, Owners
    PROVE  KnowledgeFits'
<1>1. PICK s \in Site : \/ WriteTitle(s) \/ WriteNode(s) \/ CreateNode(s)
                        \/ MoveNode(s) \/ RestoreNode(s) \/ PurgeNode(s)
                        \/ \E d \in disputes[s] : \E v \in {d.incoming, d.current} : ResolveLeaf(s, d, v)
                        \/ \E c \in refused[s] : \E v \in {c.incoming, c.current} : ResolveLife(s, c, v)
  BY DEF Owners
<1>2. refused[s] = {}
  BY DEF NothingRefused
<1>3. ASSUME NEW path \in Path, Author(s, path) PROVE KnowledgeFits'
  <2>1. /\ written' = written + 1 /\ past' = [past EXCEPT ![written + 1] = known[s]]
        /\ known' = [known EXCEPT ![s] = @ \cup {written + 1}] /\ written < MaxEdits
        /\ UNCHANGED <<disputes, base, pending, receipt, absorbed, decided>>
    BY <1>3 DEF Author
  <2>2. (\A y \in WriteValue : past'[y] = past[y]) /\ past'[written + 1] = known[s]
    BY <2>1, MetaAssumption DEF MetaShapes, WriteValue
  <2>3. docs'[s][path] = written + 1 /\ \A t \in Site, p \in Path : t # s \/ p # path => docs'[t][p] = docs[t][p]
    BY <1>3, AuthorLeaves
  <2>4. PICK w : w = written + 1
    OBVIOUS
  <2>5. /\ written' = w /\ docs'[s][path] = w /\ known' = [known EXCEPT ![s] = @ \cup {w}]
        /\ past'[w] \in {{}, known[s]}
    BY <2>1, <2>2, <2>3, <2>4
  <2> QED
    BY <2>1, <2>2, <2>3, <2>4, <2>5, NewValueKnowledge
<1>4. CASE CreateNode(s)
  <2>1. /\ written' = written + 1 /\ written < MaxEdits
        /\ known' = [known EXCEPT ![s] = @ \cup {written + 1}]
        /\ UNCHANGED <<disputes, base, pending, receipt, absorbed, decided, past>>
    BY <1>4 DEF CreateNode
  <2>2. past[written + 1] = {}
    BY <2>1, MetaAssumption DEF MetaShapes
  <2>3. "node" \in Path
    BY DEF Path
  <2> QED
    BY <1>4, <2>1, <2>2, <2>3, CreateLeaves, NewValueKnowledge
<1>5. CASE MoveNode(s) \/ RestoreNode(s)
  <2>1. \A t \in Site, p \in Path : docs'[t][p] = docs[t][p]
    BY <1>5, LifeLeaves
  <2>4. (\A t \in Site : disputes'[t] \subseteq disputes[t]) /\ decided \subseteq decided'
    BY <1>5 DEF MoveNode, RestoreNode, ChangeLife
  <2>2. UNCHANGED <<written, past, known, base, pending, receipt, absorbed, disputes, decided>>
    BY <1>5 DEF MoveNode, RestoreNode, ChangeLife
  <2>3. \A t \in Site : docs'[t].node = docs[t].node
    <3>1. \A t \in Site : docs'[t]["node"] = docs[t]["node"]
      BY <2>1 DEF Path
    <3> QED
      BY <3>1
  <2> QED
    BY <2>1, <2>2, <2>3, <2>4, DecisionKnowledge
<1>6. ~PurgeNode(s)
  BY DEF PurgeNode, MetaShapes
<1>7. ASSUME NEW d \in disputes[s], NEW v \in {d.incoming, d.current}, ResolveLeaf(s, d, v) PROVE KnowledgeFits'
  <2>1. UNCHANGED <<written, past, known, base, pending, receipt, absorbed>> /\ decided' = decided \cup {v}
        /\ decided \subseteq decided'
    BY <1>7 DEF ResolveLeaf
  <2>2. \A t \in Site, p \in Path : \A x \in WriteValue :
               docs'[t][p] = x => docs[t][p] = x \/ (x \in decided' /\ Holds(t, p, x))
    BY <1>7, <2>1, ResolveLeaves DEF Holds
  <2>3. \A t \in Site : docs[t].node # None => docs'[t].node # None
    <3>1. docs[s].node # None => docs'[s].node # None
      BY <1>7, ResolveLeaves
    <3>2. \A t \in Site \ {s} : docs'[t] = docs[t]
      BY <1>7 DEF ResolveLeaf, MetaShapes
    <3> QED
      BY <3>1, <3>2
  <2>4. \A t \in Site : disputes'[t] \subseteq disputes[t]
    BY <1>7, ResolveLeaves
  <2> QED
    BY <2>1, <2>2, <2>3, <2>4, DecisionKnowledge
<1> QED
  BY <1>1, <1>2, <1>3, <1>4, <1>5, <1>6, <1>7 DEF WriteTitle, WriteNode, Path

-----------------------------------------------------------------------------
(* The theorem *)

LEMMA MetaIInvInit == MetaInit => MetaIInv
<1> SUFFICES ASSUME MetaInit PROVE MetaIInv
  OBVIOUS
<1>1. written = 0 /\ WriteValue = {} /\ Titles = {0} /\ Nodes = {None}
  BY DEF MetaInit, WriteValue, Titles, Nodes
<1>2. Bootstrap \in Text /\ None \in Lives
  BY <1>1 DEF Bootstrap, Text, Lives
<1>3. MetaShapes
  BY <1>1, <1>2, MetaAssumption DEF MetaInit, MetaShapes, Lives
<1>4. \A r \in Replica : ~Doubtful(r) /\ ~Merged(r) /\ base[r] = Bootstrap
  BY DEF MetaInit, Doubtful, Merged
<1>5. PassesFit /\ LivesFit
  BY <1>4 DEF MetaInit, PassesFit, LivesFit
<1>6. NodeIsNew
  BY <1>4, NoneApart DEF MetaInit, NodeIsNew, Bootstrap
<1>7. EditsFit
  BY <1>1 DEF EditsFit
<1>8. KnowledgeIsClosed
  BY <1>1, <1>4 DEF MetaInit, KnowledgeIsClosed
<1>9. NodesStay
  BY <1>4, NoneApart DEF NodesStay, Bootstrap, MetaInit
<1>10. KnowledgeFits
  BY <1>1, <1>8, <1>9 DEF KnowledgeFits, MetaInit
<1> QED
  BY <1>3, <1>5, <1>6, <1>7, <1>10 DEF MetaIInv

LEMMA MetaIInvStep == MetaIInv /\ [MetaNext]_metaVars => MetaIInv'
<1> SUFFICES ASSUME MetaIInv, [MetaNext]_metaVars PROVE MetaIInv'
  OBVIOUS
<1>1. MetaShapes /\ PassesFit /\ LivesFit /\ (NothingRefused => NodeIsNew /\ EditsFit)
      /\ (Undisturbed => KnowledgeFits)
  BY DEF MetaIInv
<1>2. CASE MetaNext
  <2>1. PassesFit'
    BY <1>1, <1>2, PassesFitStep
  <2>2. MetaShapes' /\ LivesFit'
    <3>1. CASE Owners
      <4>1. PICK s \in Site : \/ WriteTitle(s) \/ WriteNode(s) \/ CreateNode(s)
                              \/ MoveNode(s) \/ RestoreNode(s) \/ PurgeNode(s)
                              \/ \E d \in disputes[s] : \E v \in {d.incoming, d.current} : ResolveLeaf(s, d, v)
                              \/ \E c \in refused[s] : \E v \in {c.incoming, c.current} : ResolveLife(s, c, v)
        BY <3>1 DEF Owners
      <4>2. CASE WriteTitle(s) \/ WriteNode(s)
        BY <1>1, <4>2, AuthorShapes DEF WriteTitle, WriteNode, Path
      <4> QED
        BY <1>1, <4>1, <4>2, CreateShapes, LifeShapes, ResolveShapes
    <3>2. CASE \E r \in Replica : Pass(r) \/ Crash(r)
      BY <1>1, <3>2, PassShapes
    <3> QED
      BY <1>2, <3>1, <3>2 DEF MetaNext
  <2>3. NothingRefused' => NodeIsNew' /\ EditsFit' /\ NothingRefused
    BY <1>1, <1>2, EditsStep, RefusalsStay
  <2>4. ASSUME Undisturbed' PROVE KnowledgeFits'
    <3>1. NothingRefused' /\ NothingRefused /\ ~metaCount'.purged
      BY <2>3, <2>4 DEF Undisturbed
    <3>2. ~metaCount.purged
      BY <1>1, <1>2, <3>1, PurgesAreRemembered
    <3>3. KnowledgeFits /\ NodeIsNew
      BY <1>1, <3>1, <3>2 DEF Undisturbed
    <3>4. CASE Owners
      BY <1>1, <3>1, <3>3, <3>4, OwnersKnowledge
    <3>5. ASSUME NEW q \in Replica, Pass(q) \/ Crash(q) PROVE KnowledgeFits'
      <4>1. refused'[Server] = {} /\ refused'[q] = {}
        BY <3>1, NoneApart DEF NothingRefused
      <4> QED
        BY <1>1, <3>3, <3>5, <4>1, PostKnowledge, AbsorbKnowledge, CheckpointKnowledge DEF Pass
    <3> QED
      BY <1>2, <3>4, <3>5 DEF MetaNext
  <2> QED
    BY <2>1, <2>2, <2>3, <2>4 DEF MetaIInv
<1>3. CASE UNCHANGED metaVars
  <2>1. MetaShapes' /\ LivesFit' /\ (NothingRefused' => NothingRefused) /\ (Undisturbed' => Undisturbed)
    BY <1>1, <1>3 DEF metaVars, MetaShapes, LivesFit, NothingRefused, Undisturbed, Text, TitleDispute, NodeDispute,
       WriteValue, Nodes, Titles, Lives, Refusals
  <2>2. PassesFit' /\ (NodeIsNew => NodeIsNew')
    BY <1>1, <1>3 DEF metaVars, PassesFit, NodeIsNew, Doubtful, Merged
  <2>3. EditsFit => EditsFit'
    BY <1>3 DEF metaVars, EditsFit, Survives, Kept, Ahead, Holds, Doubtful, Merged, WriteValue
  <2>4. KnowledgeFits => KnowledgeFits'
    BY <1>1, <1>3, DecisionKnowledge DEF metaVars
  <2> QED
    BY <1>1, <2>1, <2>2, <2>3, <2>4 DEF MetaIInv
<1> QED
  BY <1>2, <1>3

LEMMA MetaIInvImplies == MetaIInv => MetaInv
<1> SUFFICES ASSUME MetaIInv PROVE MetaInv
  OBVIOUS
<1>1. MetaShapes /\ PassesFit /\ LivesFit /\ (NothingRefused => EditsFit) /\ (Undisturbed => KnowledgeFits)
  BY DEF MetaIInv
<1>2. MetaTypeOK
  BY <1>1, DocsTyped DEF MetaTypeOK, MetaShapes, PassesFit, LivesFit, Titles, Nodes, Merged, Doubtful
<1>3. ASSUME NothingRefused PROVE EditsSurvive
  <2> SUFFICES ASSUME NEW x \in WriteValue, x \notin retired
               PROVE  \E s \in Site : x \in Present(s)
    BY DEF EditsSurvive
  <2>1. PICK p \in Path, s \in Site : Holds(s, p, x)
    BY <1>1, <1>3, NoneApart DEF EditsFit, Survives
  <2>2. docs[s][p] = x => x \in {docs[s].title, docs[s].node}
    BY <1>1, DocsTyped DEF Path
  <2>3. (\E d \in disputes[s] : x \in {d.incoming, d.current}) => x \in Journalled(s)
    BY DEF Journalled
  <2> QED
    BY <2>1, <2>2, <2>3 DEF Holds, Present
<1>4. ConflictsAreReal
  BY <1>1 DEF ConflictsAreReal, KnowledgeFits, Independent
<1> QED
  BY <1>2, <1>3, <1>4 DEF MetaInv, EditsSurviveMerges

\* Nothing written is lost, and what is disputed is disputed for a reason, for any number of
\* desktops, of edits, of passes that die and of answers that are lost, as long as no lifecycle is
\* refused, and for the disputes no node purged (merge_metadata, sync_once, synchronize).
THEOREM EditsAreNotLost == MetaSpec => []MetaInv
<1>1. MetaInit => MetaIInv
  BY MetaIInvInit
<1>2. MetaIInv /\ [MetaNext]_metaVars => MetaIInv'
  BY MetaIInvStep
<1>3. MetaIInv => MetaInv
  BY MetaIInvImplies
<1> QED
  BY <1>1, <1>2, <1>3, PTL DEF MetaSpec
===============================================================================
